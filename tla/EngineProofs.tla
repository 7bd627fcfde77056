----------------------------- MODULE EngineProofs -----------------------------
(***************************************************************************)
(* Theorems about the engine and about the lock of each of its Reactors.   *)
(*                                                                         *)
(* Engine, for any number of Reactors, feeds, workspaces and threads: type *)
(* correctness, and that the records of the topology agree and lead to no  *)
(* destroyed Reactor, from the inductive invariant IInv.                   *)
(*                                                                         *)
(* ReactorLock, for any number of readers and writers, any number of       *)
(* sleeps and whatever operations are called under whichever mutexes: the  *)
(* lock is never left behind, and unless writers have met, it keeps readers*)
(* and writers apart and a stopped Reactor processes no Event, from the    *)
(* inductive invariant LockInv.                                            *)
(***************************************************************************)
EXTENDS Engine, ReactorLock, FiniteSetTheorems, TLAPS

\* A Reactor that was not created yet is not connected to anything.
Fresh == \A r \in Reactors : object[r] = "none" =>
            outputs[r] = {} /\ \A y \in Reactors : <<r, y>> \notin linkNodes

\* What a thread is about to finish removing is connected to nothing, unless it
\* was connected after removeReactor() released the mutex.
Unlinked(t) ==
    pc[t] = "remove" =>
      /\ target[t] \in Reactors
      /\ target[t] \in late \/ (LinksOf(target[t]) = {} /\ TempsOf(target[t]) = {})

Topology == Fresh /\ OutputsAgree /\ RecordsAgree /\ PointersRegistered /\ NoDangling

IInv == TypeOK /\ Topology /\ \A t \in Threads : Unlinked(t)

USE EngineAssumption

-----------------------------------------------------------------------------
(* The operators that removals are made of *)

\* Disconnect() removes the connections that it is given, and no other one
\* between two Reactors.
LEMMA DisconnectFact ==
    ASSUME TypeOK, NEW ls, NEW cs \in SUBSET Temp
    PROVE  /\ Disconnect(ls, cs) \in [Reactors -> SUBSET (Reactors \cup Feeds)]
           /\ \A x, y \in Reactors : y \in Disconnect(ls, cs)[x] <=> y \in outputs[x] /\ <<x, y>> \notin ls
           /\ \A x \in Reactors : outputs[x] = {} => Disconnect(ls, cs)[x] = {}
<1>1. outputs \in [Reactors -> SUBSET (Reactors \cup Feeds)]  BY DEF TypeOK
<1>2. \A x \in Reactors : Disconnect(ls, cs)[x] \subseteq outputs[x]  BY <1>1 DEF Disconnect
<1>3. Disconnect(ls, cs) \in [Reactors -> SUBSET (Reactors \cup Feeds)]
  BY <1>1 DEF Disconnect
<1>4. \A x, y \in Reactors : y \in Disconnect(ls, cs)[x] <=> y \in outputs[x] /\ <<x, y>> \notin ls
  <2> SUFFICES ASSUME NEW x \in Reactors, NEW y \in Reactors
               PROVE  y \in Disconnect(ls, cs)[x] <=> y \in outputs[x] /\ <<x, y>> \notin ls
    OBVIOUS
  <2>1. \A c \in cs : c.feed # y  BY DEF Temp
  <2> QED  BY <2>1 DEF Disconnect
<1> QED  BY <1>2, <1>3, <1>4

\* Forget() takes the pointer from the feeds that are told of a removal.
LEMMA ForgetFact ==
    ASSUME TypeOK, NEW fs
    PROVE  /\ Forget(fs) \in [Feeds -> Reactors \cup {NULL}]
           /\ \A f \in Feeds : Forget(fs)[f] = IF f \in fs THEN NULL ELSE pointer[f]
BY DEF Forget, TypeOK

\* The connections of a Reactor are connections of the engine.
LEMMA SubsetFact ==
    ASSUME TypeOK, NEW r \in Reactors
    PROVE  /\ LinksOf(r) \in SUBSET Pairs /\ TempsOf(r) \in SUBSET temps
           /\ temps \in SUBSET Temp
BY DEF TypeOK, LinksOf, TempsOf

\* Erase() takes an entry from the pairs that it is given.
LEMMA EraseFact ==
    ASSUME TypeOK, NEW ls
    PROVE  /\ Erase(ls) \in [Pairs -> Nat]
           /\ \A l \in Pairs : Erase(ls)[l] = IF l \in ls /\ links[l] > 0 THEN links[l] - 1 ELSE links[l]
BY DEF Erase, TypeOK

-----------------------------------------------------------------------------
(* Steps *)

\* What Tell() does to the pointers of the feeds.
LEMMA TellFact ==
    ASSUME TypeOK, NEW fs, Tell(fs)
    PROVE  /\ pointer' \in [Feeds -> Reactors \cup {NULL}]
           /\ promised' = promised /\ missed' \in SUBSET Feeds /\ missed \subseteq missed'
           /\ \A f \in Feeds : pointer'[f] = IF f \in fs THEN NULL ELSE pointer[f]
           /\ \A f \in fs \cap Feeds : promised[f] = NULL \/ f \in missed'
BY ForgetFact DEF Tell, TypeOK

\* What Unsaved() does to the history of saves.
LEMMA UnsavedFact ==
    ASSUME TypeOK, NEW ls, Unsaved(ls)
    PROVE  /\ unsaved' \in [Pairs -> Nat] /\ failures' \in Nat
           /\ \A l \in Pairs : unsaved'[l] = unsaved[l] + (IF l \in ls THEN 1 ELSE 0)
BY DEF Unsaved, TypeOK

\* Whatever removes some connections ls, others, ks, without their entries, and
\* temporary connections cs, and tells at least the feeds of the latter, keeps
\* the topology consistent.
LEMMA PruneStep ==
    ASSUME TypeOK, Topology,
           NEW ls \in SUBSET linkNodes, NEW ks \in SUBSET linkNodes, ls \cap ks = {},
           NEW cs \in SUBSET temps, NEW ds \in SUBSET Temp, NEW fs,
           \A c \in cs : c.feed \in fs,
           links' = Erase(ls), linkNodes' = linkNodes \ (ls \cup ks), temps' = temps \ cs,
           \A l \in Pairs : unsaved'[l] = unsaved[l] + (IF l \in ks THEN 1 ELSE 0),
           outputs' = Disconnect(ls \cup ks, ds), Tell(fs),
           UNCHANGED <<object, late>>
    PROVE  Topology'
<1>1. /\ outputs' \in [Reactors -> SUBSET (Reactors \cup Feeds)]
      /\ \A x, y \in Reactors : y \in outputs'[x] <=> y \in outputs[x] /\ <<x, y>> \notin ls \cup ks
      /\ \A x \in Reactors : outputs[x] = {} => outputs'[x] = {}
  BY DisconnectFact
<1>2. /\ promised' = promised /\ missed \subseteq missed'
      /\ \A f \in Feeds : pointer'[f] = IF f \in fs THEN NULL ELSE pointer[f]
      /\ \A f \in fs \cap Feeds : promised[f] = NULL \/ f \in missed'
  BY TellFact
<1>3. Fresh'  BY <1>1 DEF Topology, Fresh
<1>4. OutputsAgree'
  <2> SUFFICES ASSUME NEW x \in Live', NEW y \in Reactors
               PROVE  y \in outputs'[x] <=> <<x, y>> \in linkNodes'
    BY DEF OutputsAgree
  <2>1. x \in Live /\ x \in Reactors  BY DEF Live
  <2>2. y \in outputs[x] <=> <<x, y>> \in linkNodes  BY <2>1 DEF Topology, OutputsAgree
  <2>3. y \in outputs'[x] <=> y \in outputs[x] /\ <<x, y>> \notin ls \cup ks  BY <1>1, <2>1
  <2> QED  BY <2>2, <2>3
<1>5. RecordsAgree'
  <2> SUFFICES ASSUME NEW l \in Pairs
               PROVE  links'[l] = unsaved'[l] + (IF l \in linkNodes' THEN 1 ELSE 0)
    BY DEF RecordsAgree
  <2>1. /\ links'[l] = IF l \in ls /\ links[l] > 0 THEN links[l] - 1 ELSE links[l]
        /\ unsaved[l] \in Nat /\ links[l] \in Nat
    BY EraseFact DEF TypeOK
  <2>2. links[l] = unsaved[l] + (IF l \in linkNodes THEN 1 ELSE 0)  BY DEF Topology, RecordsAgree
  <2>3. unsaved'[l] = unsaved[l] + (IF l \in ks THEN 1 ELSE 0)  OBVIOUS
  <2>4. CASE l \in ls
    <3>1. l \in linkNodes /\ l \notin linkNodes' /\ l \notin ks  BY <2>4
    <3> QED  BY <2>1, <2>2, <2>3, <2>4, <3>1
  <2>5. CASE l \in ks
    <3>1. l \in linkNodes /\ l \notin linkNodes' /\ l \notin ls  BY <2>5
    <3> QED  BY <2>1, <2>2, <2>3, <2>5, <3>1
  <2>6. CASE l \notin ls \cup ks
    <3>1. l \in linkNodes <=> l \in linkNodes'  BY <2>6
    <3> QED  BY <2>1, <2>2, <2>3, <2>6, <3>1
  <2> QED  BY <2>4, <2>5, <2>6
<1>6. PointersRegistered'
  <2> SUFFICES ASSUME NEW f \in Feeds \ missed', NEW p \in {promised'[f], pointer'[f]} \ {NULL}
               PROVE  Registration(f, p, FALSE) \in temps'
    BY DEF PointersRegistered, Registration
  <2>1. f \notin missed /\ f \notin fs /\ p \in {promised[f], pointer[f]} \ {NULL}
    <3>1. CASE f \in fs  BY <1>2, <3>1
    <3>2. CASE f \notin fs  BY <1>2, <3>2
    <3> QED  BY <3>1, <3>2
  <2>2. Registration(f, p, FALSE) \in temps
    BY <2>1 DEF Topology, PointersRegistered
  <2>3. Registration(f, p, FALSE) \notin cs  BY <2>1 DEF Registration
  <2> QED  BY <2>2, <2>3
<1>7. NoDangling'
  <2>1. \A f \in Feeds : pointer'[f] \in {pointer[f], NULL}  BY <1>2
  <2>2. \A l \in Pairs : links'[l] > 0 => links[l] > 0
    <3>1. \A l \in Pairs : links[l] \in Nat /\ (links'[l] = links[l] \/ links[l] > 0)
      BY EraseFact DEF TypeOK
    <3> QED  BY <3>1
  <2>3. \A l \in Pairs : l \in linkNodes' => l \in linkNodes  OBVIOUS
  <2> QED  BY <1>2, <2>1, <2>2, <2>3 DEF Topology, NoDangling, Live
<1> QED  BY <1>3, <1>4, <1>5, <1>6, <1>7 DEF Topology

\* What a thread is about to finish removing stays as it is while others remove
\* connections or do nothing to them.
LEMMA UnlinkedStep ==
    ASSUME TypeOK, NEW t \in Threads, Unlinked(t), pc'[t] = "remove" => UNCHANGED <<pc[t], target[t]>>,
           \A l \in Pairs : links'[l] > 0 => links[l] > 0, temps' \subseteq temps, late \subseteq late'
    PROVE  Unlinked(t)'
BY DEF Unlinked, LinksOf, TempsOf

\* Entries that are erased leave no more than there were.
LEMMA EraseLess ==
    ASSUME TypeOK, NEW ls, links' = Erase(ls)
    PROVE  \A l \in Pairs : links'[l] > 0 => links[l] > 0
<1>1. \A l \in Pairs : links[l] \in Nat /\ (links'[l] = links[l] \/ links[l] > 0)
  BY EraseFact DEF TypeOK
<1> QED  BY <1>1

-----------------------------------------------------------------------------
(* Type correctness *)

\* Every operation takes well-typed states to well-typed states.
LEMMA TypeStep == TypeOK /\ [Next]_vars => TypeOK'
<1> SUFFICES ASSUME TypeOK, [Next]_vars PROVE TypeOK'
  OBVIOUS
<1> USE DEF memory, config, threads, feeds, saves
<1>1. ASSUME NEW t \in Threads, NEW r \in Reactors, NEW w \in Spaces, AddReactor(t, r, w) PROVE TypeOK'
  BY <1>1 DEF TypeOK, AddReactor
<1>2. ASSUME NEW t \in Threads, NEW r \in Reactors, AddReactorRejected(t, r) PROVE TypeOK'
  BY <1>2 DEF TypeOK, AddReactorRejected
<1>3. ASSUME NEW t \in Threads, NEW r \in Reactors, RemoveBegin(t, r), todo' \in [Threads -> SUBSET Reactors]
      PROVE  TypeOK'
  <2>1. /\ outputs' \in [Reactors -> SUBSET (Reactors \cup Feeds)]
        /\ links' \in [Pairs -> Nat]
    BY <1>3, DisconnectFact, EraseFact, SubsetFact DEF RemoveBegin
  <2>2. /\ pointer' \in [Feeds -> Reactors \cup {NULL}] /\ promised' = promised
        /\ missed' \in SUBSET Feeds
    BY <1>3, TellFact DEF RemoveBegin
  <2> QED  BY <1>3, <2>1, <2>2 DEF TypeOK, RemoveBegin, NodesWithout
<1>4. ASSUME NEW t \in Threads, NEW r \in Reactors, RemoveReactor(t, r) PROVE TypeOK'
  <2>1. todo' \in [Threads -> SUBSET Reactors]  BY <1>4 DEF RemoveReactor, TypeOK
  <2> QED  BY <1>3, <1>4, <2>1 DEF RemoveReactor
<1>5. ASSUME NEW t \in Threads, NEW r \in Reactors, RemoveThrows(t, r) PROVE TypeOK'
  <2>1. PICK done \in SUBSET Pairs, kept \in SUBSET Pairs, gone \in SUBSET temps :
          /\ links' = Erase(done) /\ linkNodes' = NodesWithout(done \cup kept)
          /\ temps' = temps \ gone /\ outputs' = Disconnect(done \cup kept, gone)
          /\ Tell(Notified(gone)) /\ Unsaved(kept)
    <3>1. /\ \A d \in SUBSET {l \in LinksOf(r) : Removable(l)} : d \in SUBSET Pairs
          /\ \A g \in SUBSET {c \in TempsOf(r) : Detachable(c)} : g \in SUBSET temps
      BY SubsetFact
    <3>2. PICK done \in SUBSET {l \in LinksOf(r) : Removable(l)},
               gone \in SUBSET {c \in TempsOf(r) : Detachable(c)} :
          \E kept \in {{}} \cup {{l} : l \in {k \in LinksOf(r) \ done : Removable(k)}} :
            /\ links' = Erase(done) /\ linkNodes' = NodesWithout(done \cup kept)
            /\ temps' = temps \ gone /\ outputs' = Disconnect(done \cup kept, gone)
            /\ Tell(Notified(gone)) /\ Unsaved(kept)
      BY <1>5 DEF RemoveThrows
    <3>3. done \in SUBSET Pairs /\ gone \in SUBSET temps  BY <3>1
    <3>4. PICK kept \in {{}} \cup {{l} : l \in {k \in LinksOf(r) \ done : Removable(k)}} :
            /\ links' = Erase(done) /\ linkNodes' = NodesWithout(done \cup kept)
            /\ temps' = temps \ gone /\ outputs' = Disconnect(done \cup kept, gone)
            /\ Tell(Notified(gone)) /\ Unsaved(kept)
      BY <3>2
    <3>5. kept \in SUBSET Pairs  BY DEF LinksOf
    <3> QED  BY <3>3, <3>4, <3>5
  <2>2. /\ outputs' \in [Reactors -> SUBSET (Reactors \cup Feeds)]
        /\ links' \in [Pairs -> Nat]
    BY <2>1, DisconnectFact, EraseFact, SubsetFact
  <2>3. /\ pointer' \in [Feeds -> Reactors \cup {NULL}] /\ promised' = promised
        /\ missed' \in SUBSET Feeds
    BY <2>1, TellFact
  <2>4. unsaved' \in [Pairs -> Nat] /\ failures' \in Nat  BY <2>1, UnsavedFact
  <2>5. running' \in [Reactors -> BOOLEAN]  BY <1>5 DEF TypeOK, RemoveThrows
  <2>6. linkNodes' \subseteq linkNodes /\ temps' \subseteq temps  BY <2>1 DEF NodesWithout
  <2>7. todo' \in [Threads -> SUBSET Reactors]  BY <1>5 DEF TypeOK, RemoveThrows
  <2>8. UNCHANGED <<object, isRunning, nodes, space, spaceNodes, pc, target, reactions, late>>
    BY <1>5 DEF RemoveThrows
  <2> QED  BY <2>2, <2>3, <2>4, <2>5, <2>6, <2>7, <2>8 DEF TypeOK
<1>6. ASSUME NEW t \in Threads, RemoveFinish(t) PROVE TypeOK'
  <2>0. PICK left : todo' = [todo EXCEPT ![t] = left] /\ left \in {{}, todo[t] \ {target[t]}}
    BY <1>6 DEF RemoveFinish
  <2>1. todo' \in [Threads -> SUBSET Reactors]
    <3>1. left \in SUBSET Reactors  BY <2>0 DEF TypeOK
    <3> QED  BY <2>0, <3>1 DEF TypeOK
  <2>2. CASE object[target[t]] = "live"
    <3>1. /\ object' = [object EXCEPT ![target[t]] = "destroyed"]
          /\ running' = [running EXCEPT ![target[t]] = FALSE]
          /\ outputs' = [outputs EXCEPT ![target[t]] = {}]
          /\ nodes' = nodes \ {target[t]}
          /\ space' = [space EXCEPT ![target[t]] = NULL]
      BY <1>6, <2>2 DEF RemoveFinish
    <3>2. /\ object' \in [Reactors -> {"none", "live", "destroyed"}]
          /\ running' \in [Reactors -> BOOLEAN]
          /\ outputs' \in [Reactors -> SUBSET (Reactors \cup Feeds)]
      BY <3>1 DEF TypeOK
    <3>3. space' \in [Reactors -> Spaces \cup {NULL}]  BY <3>1 DEF TypeOK
    <3> QED  BY <1>6, <2>1, <3>1, <3>2, <3>3 DEF TypeOK, RemoveFinish
  <2>3. CASE object[target[t]] # "live"  BY <1>6, <2>1, <2>3 DEF TypeOK, RemoveFinish
  <2> QED  BY <2>2, <2>3
<1>7. ASSUME NEW t \in Threads, NEW r \in Reactors, NEW op \in {"start", "stop"}, StartReactor(t, r, op)
      PROVE  TypeOK'
  BY <1>7 DEF TypeOK, StartReactor
<1>8. ASSUME NEW t \in Threads, StartCall(t) PROVE TypeOK'
  BY <1>8 DEF TypeOK, StartCall
<1>9. ASSUME NEW t \in Threads, RemoveNext(t) PROVE TypeOK'
  <2>1. PICK r \in todo[t] :
          \/ RemoveBegin(t, r) /\ UNCHANGED todo
          \/ /\ todo' = [todo EXCEPT ![t] = {}]
             /\ UNCHANGED <<memory, config, pc, target, reactions, feeds, late, saves>>
    BY <1>9 DEF RemoveNext
  <2>2. r \in Reactors  BY DEF TypeOK
  <2>3. CASE RemoveBegin(t, r) /\ UNCHANGED todo
    <3>1. todo' \in [Threads -> SUBSET Reactors]  BY <2>3 DEF TypeOK
    <3> QED  BY <1>3, <2>2, <2>3, <3>1
  <2>4. CASE /\ todo' = [todo EXCEPT ![t] = {}]
             /\ UNCHANGED <<memory, config, pc, target, reactions, feeds, late, saves>>
    BY <2>4 DEF TypeOK
  <2> QED  BY <2>1, <2>3, <2>4
<1>10. ASSUME NEW t \in Threads, NEW w \in Spaces, RemoveReactorsFromWorkspace(t, w) PROVE TypeOK'
  BY <1>10 DEF TypeOK, RemoveReactorsFromWorkspace
<1>11. ASSUME NEW t \in Threads, NEW x \in Reactors, NEW y \in Reactors, AddReactorConnection(t, x, y)
       PROVE  TypeOK'
  <2>1. <<x, y>> \in Pairs /\ links[<<x, y>>] + 1 \in Nat  BY DEF TypeOK, Pairs
  <2>2. links' \in [Pairs -> Nat] /\ linkNodes' \subseteq Pairs
    BY <1>11, <2>1 DEF TypeOK, AddReactorConnection
  <2> QED  BY <1>11, <2>2 DEF TypeOK, AddReactorConnection, Connected
<1>12. ASSUME NEW t \in Threads, NEW x \in Reactors, NEW y \in Reactors, RemoveReactorConnection(t, x, y)
       PROVE  TypeOK'
  <2>1. links' \in [Pairs -> Nat] /\ unsaved' \in [Pairs -> Nat] /\ failures' \in Nat
    <3>1. CASE links' = Erase({<<x, y>>}) /\ UNCHANGED saves  BY <3>1, EraseFact DEF TypeOK
    <3>2. CASE Unsaved({<<x, y>>}) /\ UNCHANGED links  BY <3>2, UnsavedFact DEF TypeOK
    <3> QED  BY <1>12, <3>1, <3>2 DEF RemoveReactorConnection
  <2> QED  BY <1>12, <2>1 DEF TypeOK, RemoveReactorConnection, NodesWithout
<1>13. ASSUME NEW f \in Feeds, NEW r \in Reactors, AddTempConnectionIn(f, r) PROVE TypeOK'
  <2>1. Registration(f, r, FALSE) \in Temp  BY DEF Registration, Temp
  <2>2. late' \subseteq Reactors  BY <1>13 DEF TypeOK, AddTempConnectionIn, Connected
  <2> QED  BY <1>13, <2>1, <2>2 DEF TypeOK, AddTempConnectionIn
<1>14. ASSUME NEW f \in Feeds, NEW r \in Reactors, AddTempConnectionOut(f, r) PROVE TypeOK'
  <2>1. Registration(f, r, TRUE) \in Temp  BY DEF Registration, Temp
  <2>2. late' \subseteq Reactors  BY <1>14 DEF TypeOK, AddTempConnectionOut, Connected
  <2> QED  BY <1>14, <2>1, <2>2 DEF TypeOK, AddTempConnectionOut
<1>15. ASSUME NEW f \in Feeds, StorePointer(f) \/ RemoveTempConnection(f) PROVE TypeOK'
  <2>1. CASE StorePointer(f)  BY <2>1 DEF TypeOK, StorePointer
  <2>2. CASE RemoveTempConnection(f)
    <3>1. outputs' \in [Reactors -> SUBSET (Reactors \cup Feeds)] /\ temps' \subseteq temps
      <4>1. CASE UNCHANGED <<temps, outputs>>  BY <4>1 DEF TypeOK
      <4>2. CASE \E c \in temps : /\ temps' = temps \ {c}
                                 /\ \E cs \in {{}, {c}} : outputs' = Disconnect({}, cs)
        <5>1. PICK c \in temps : /\ temps' = temps \ {c}
                                /\ \E cs \in {{}, {c}} : outputs' = Disconnect({}, cs)
          BY <4>2
        <5>2. {} \in SUBSET Temp /\ {c} \in SUBSET Temp  BY DEF TypeOK
        <5> QED  BY <5>1, <5>2, DisconnectFact
      <4> QED  BY <2>2, <4>1, <4>2 DEF RemoveTempConnection
    <3>2. pointer' \in [Feeds -> Reactors \cup {NULL}]  BY <2>2, ForgetFact DEF RemoveTempConnection
    <3> QED  BY <2>2, <3>1, <3>2 DEF TypeOK, RemoveTempConnection
  <2> QED  BY <1>15, <2>1, <2>2
<1>16. ASSUME NEW r \in Reactors, Send(r) \/ React(r) PROVE TypeOK'
  BY <1>16 DEF TypeOK, Send, React
<1>17. ASSUME NEW x \in Reactors, NEW y \in Reactors, Deliver(x, y) PROVE TypeOK'
  BY <1>17 DEF TypeOK, Deliver
<1>18. CASE Start  BY <1>18 DEF TypeOK, Start
<1>19. CASE Stop \/ StopThrows
  <2>1. PICK done \in SUBSET temps :
          /\ outputs' = Disconnect({}, done) /\ Tell(Notified(done))
          /\ temps' \in {temps, {}}
    <3>1. temps \in SUBSET temps  OBVIOUS
    <3> QED  BY <1>19, <3>1 DEF Stop, StopThrows
  <2>2. outputs' \in [Reactors -> SUBSET (Reactors \cup Feeds)]
    <3>1. done \in SUBSET Temp  BY DEF TypeOK
    <3> QED  BY <2>1, <3>1, DisconnectFact
  <2>3. /\ pointer' \in [Feeds -> Reactors \cup {NULL}] /\ promised' = promised
        /\ missed' \in SUBSET Feeds
    BY <2>1, TellFact
  <2>4. running' \in [Reactors -> BOOLEAN] /\ reactions' \subseteq Reactors /\ isRunning' \in BOOLEAN
    BY <1>19 DEF TypeOK, Stop, StopThrows
  <2>5. UNCHANGED <<object, links, config, threads, late, saves>>  BY <1>19 DEF Stop, StopThrows
  <2> QED  BY <2>1, <2>2, <2>3, <2>4, <2>5 DEF TypeOK
<1>21. ASSUME NEW w \in Spaces, AddWorkspace(w) \/ RemoveWorkspace(w) PROVE TypeOK'
  BY <1>21 DEF TypeOK, AddWorkspace, RemoveWorkspace
<1>22. CASE UNCHANGED vars  BY <1>22 DEF TypeOK, vars
<1> QED
  BY <1>1, <1>2, <1>4, <1>5, <1>6, <1>7, <1>8, <1>9, <1>10, <1>11, <1>12, <1>13, <1>14, <1>15,
     <1>16, <1>17, <1>18, <1>19, <1>21, <1>22 DEF Next, Administer

-----------------------------------------------------------------------------
(* The topology *)

\* Steps that change no connection, no Reactor object, and no thread's removal.
LEMMA QuietStep ==
    ASSUME TypeOK, Topology, \A t \in Threads : Unlinked(t),
           UNCHANGED <<object, outputs, links, temps, linkNodes, feeds, late, unsaved>>,
           \A t \in Threads : pc'[t] = "remove" => UNCHANGED <<pc[t], target[t]>>
    PROVE  Topology' /\ \A t \in Threads : Unlinked(t)'
<1>1. Topology'
  BY DEF Topology, Fresh, OutputsAgree, Live, RecordsAgree, PointersRegistered, Registration, NoDangling, feeds
<1>2. \A t \in Threads : Unlinked(t)'  BY UnlinkedStep
<1> QED  BY <1>1, <1>2

\* The first half of removeReactor().
LEMMA RemoveBeginStep ==
    ASSUME TypeOK, Topology, \A u \in Threads : Unlinked(u),
           NEW t \in Threads, NEW r \in Reactors, RemoveBegin(t, r)
    PROVE  Topology' /\ \A u \in Threads : Unlinked(u)'
<1> DEFINE ls == LinksOf(r)
           cs == TempsOf(r)
<1>0. /\ links' = Erase(ls) /\ linkNodes' = NodesWithout(ls)
      /\ temps' = temps \ cs /\ outputs' = Disconnect(ls, cs)
      /\ Tell(Notified(cs)) /\ UNCHANGED <<object, late, unsaved>>
      /\ \A l \in ls : Removable(l) /\ links[l] = 1
  BY DEF RemoveBegin, saves
<1>1. Topology'
  <2>1. ls \in SUBSET linkNodes /\ {} \in SUBSET linkNodes  BY <1>0 DEF Removable
  <2>2. \A c \in cs : c.feed \in Notified(cs)  BY DEF Notified
  <2>3. cs \in SUBSET temps /\ cs \in SUBSET Temp  BY SubsetFact
  <2>4. \A l \in Pairs : unsaved'[l] = unsaved[l] + (IF l \in {} THEN 1 ELSE 0)
    BY <1>0 DEF TypeOK
  <2>5. /\ linkNodes' = linkNodes \ (ls \cup {}) /\ outputs' = Disconnect(ls \cup {}, cs)
        /\ ls \cap {} = {}
    <3>1. ls \cup {} = ls  OBVIOUS
    <3> QED  BY <1>0, <3>1 DEF NodesWithout
  <2>6. links' = Erase(ls) /\ temps' = temps \ cs /\ Tell(Notified(cs)) /\ UNCHANGED <<object, late>>
    BY <1>0
  <2> HIDE DEF ls, cs
  <2> QED  BY <2>1, <2>2, <2>3, <2>4, <2>5, <2>6, PruneStep
<1>2. ASSUME NEW u \in Threads PROVE Unlinked(u)'
  <2>1. CASE u = t
    <3>1. target'[t] = r  BY DEF RemoveBegin, TypeOK
    <3>2. \A l \in Pairs : l[1] = r \/ l[2] = r => ~(links'[l] > 0)
      <4> SUFFICES ASSUME NEW l \in Pairs, l[1] = r \/ l[2] = r PROVE ~(links'[l] > 0)
        OBVIOUS
      <4>1. links'[l] = IF l \in ls /\ links[l] > 0 THEN links[l] - 1 ELSE links[l]
        BY <1>0, EraseFact
      <4>2. l \in ls => links[l] = 1  BY <1>0
      <4>3. l \notin ls => ~(links[l] > 0)  BY DEF LinksOf
      <4> QED  BY <4>1, <4>2, <4>3
    <3>3. \A c \in temps' : c.reactor # r  BY <1>0 DEF TempsOf
    <3> QED  BY <2>1, <3>1, <3>2, <3>3 DEF Unlinked, LinksOf, TempsOf
  <2>2. CASE u # t
    <3>1. pc'[u] = pc[u] /\ target'[u] = target[u]  BY <2>2 DEF RemoveBegin, TypeOK
    <3>2. temps' \subseteq temps /\ late \subseteq late'  BY <1>0
    <3>3. \A l \in Pairs : links'[l] > 0 => links[l] > 0  BY <1>0, EraseLess
    <3> QED  BY <3>1, <3>2, <3>3, UnlinkedStep
  <2> QED  BY <2>1, <2>2
<1> QED  BY <1>1, <1>2

\* A removal that throws half-way.
LEMMA RemoveThrowsStep ==
    ASSUME TypeOK, Topology, \A u \in Threads : Unlinked(u),
           NEW t \in Threads, NEW r \in Reactors, RemoveThrows(t, r)
    PROVE  Topology' /\ \A u \in Threads : Unlinked(u)'
<1>1. PICK done \in SUBSET linkNodes, kept \in SUBSET linkNodes, gone \in SUBSET temps :
        /\ done \cap kept = {}
        /\ links' = Erase(done) /\ linkNodes' = NodesWithout(done \cup kept)
        /\ temps' = temps \ gone /\ outputs' = Disconnect(done \cup kept, gone)
        /\ Tell(Notified(gone)) /\ Unsaved(kept)
  <2>1. PICK done \in SUBSET {l \in LinksOf(r) : Removable(l)},
             gone \in SUBSET {c \in TempsOf(r) : Detachable(c)} :
        \E kept \in {{}} \cup {{l} : l \in {k \in LinksOf(r) \ done : Removable(k)}} :
          /\ links' = Erase(done) /\ linkNodes' = NodesWithout(done \cup kept)
          /\ temps' = temps \ gone /\ outputs' = Disconnect(done \cup kept, gone)
          /\ Tell(Notified(gone)) /\ Unsaved(kept)
    BY DEF RemoveThrows
  <2>2. PICK kept \in {{}} \cup {{l} : l \in {k \in LinksOf(r) \ done : Removable(k)}} :
          /\ links' = Erase(done) /\ linkNodes' = NodesWithout(done \cup kept)
          /\ temps' = temps \ gone /\ outputs' = Disconnect(done \cup kept, gone)
          /\ Tell(Notified(gone)) /\ Unsaved(kept)
    BY <2>1
  <2>3. done \in SUBSET linkNodes /\ kept \in SUBSET linkNodes /\ done \cap kept = {}
    BY DEF Removable
  <2>4. gone \in SUBSET temps  BY DEF TempsOf
  <2>5. /\ done \cap kept = {} /\ links' = Erase(done) /\ linkNodes' = NodesWithout(done \cup kept)
        /\ temps' = temps \ gone /\ outputs' = Disconnect(done \cup kept, gone)
        /\ Tell(Notified(gone)) /\ Unsaved(kept)
    BY <2>2, <2>3
  <2> QED  BY <2>3, <2>4, <2>5
<1>2. UNCHANGED <<object, late, pc, target>>  BY DEF RemoveThrows
<1>3. Topology'
  <2>1. \A c \in gone : c.feed \in Notified(gone)  BY DEF Notified
  <2>2. gone \in SUBSET Temp /\ linkNodes' = linkNodes \ (done \cup kept)  BY <1>1 DEF TypeOK, NodesWithout
  <2>3. \A l \in Pairs : unsaved'[l] = unsaved[l] + (IF l \in kept THEN 1 ELSE 0)  BY <1>1, UnsavedFact
  <2> QED  BY <1>1, <1>2, <2>1, <2>2, <2>3, PruneStep
<1>4. \A u \in Threads : Unlinked(u)'
  <2>1. \A l \in Pairs : links'[l] > 0 => links[l] > 0  BY <1>1, EraseLess
  <2>2. temps' \subseteq temps /\ late \subseteq late'  BY <1>1, <1>2
  <2> QED  BY <1>2, <2>1, <2>2, UnlinkedStep
<1> QED  BY <1>3, <1>4

\* The second half of removeReactor().
LEMMA RemoveFinishStep ==
    ASSUME TypeOK, Topology, \A u \in Threads : Unlinked(u),
           NEW t \in Threads, RemoveFinish(t)
    PROVE  Topology' /\ \A u \in Threads : Unlinked(u)'
<1> DEFINE r == target[t]
<1>0. /\ UNCHANGED <<links, temps, linkNodes, feeds, late, unsaved>>
      /\ \A u \in Threads : pc'[u] = "remove" => UNCHANGED <<pc[u], target[u]>>
  BY DEF RemoveFinish, saves, TypeOK
<1>1. CASE object[r] # "live"
  <2>1. UNCHANGED <<object, outputs>>  BY <1>1 DEF RemoveFinish
  <2> QED  BY <1>0, <2>1, QuietStep
<1>2. CASE object[r] = "live"
  <2>1. object' = [object EXCEPT ![r] = "destroyed"] /\ outputs' = [outputs EXCEPT ![r] = {}]
    BY <1>2 DEF RemoveFinish
  <2>2. r \in Reactors /\ (r \in late \/ (LinksOf(r) = {} /\ TempsOf(r) = {}))
    BY DEF RemoveFinish, Unlinked
  <2>3. Live' = Live \ {r}  BY <2>1, <2>2 DEF TypeOK, Live
  <2>4. Fresh'  BY <1>0, <2>1, <2>2 DEF TypeOK, Topology, Fresh
  <2>5. OutputsAgree'
    <3>1. \A x \in Live' : x \in Live /\ outputs'[x] = outputs[x]
      BY <2>1, <2>2, <2>3 DEF TypeOK, Live
    <3> QED  BY <1>0, <3>1 DEF Topology, OutputsAgree
  <2>6. RecordsAgree' /\ PointersRegistered'
    BY <1>0 DEF Topology, RecordsAgree, PointersRegistered, Registration, feeds
  <2>7. NoDangling'
    <3> DEFINE ok == Live \cup late
               okn == Live' \cup late'
    <3>0. ok \subseteq okn \cup {r} /\ (r \in okn \/ (LinksOf(r) = {} /\ TempsOf(r) = {}))
      BY <1>0, <2>2, <2>3
    <3>1. ASSUME NEW l \in Pairs, links[l] > 0 \/ l \in linkNodes PROVE l[1] \in okn /\ l[2] \in okn
      <4>1. links[l] > 0
        BY <3>1 DEF Topology, RecordsAgree, TypeOK
      <4>2. l[1] \in ok /\ l[2] \in ok  BY <4>1 DEF Topology, NoDangling
      <4>3. LinksOf(r) = {} => l[1] # r /\ l[2] # r  BY <4>1 DEF LinksOf
      <4> QED  BY <3>0, <4>2, <4>3
    <3>2. ASSUME NEW c \in temps PROVE c.reactor \in okn
      <4>1. c.reactor \in ok  BY DEF Topology, NoDangling
      <4>2. TempsOf(r) = {} => c.reactor # r  BY DEF TempsOf
      <4> QED  BY <3>0, <4>1, <4>2
    <3>3. ASSUME NEW f \in Feeds \ missed, NEW p \in {promised[f], pointer[f]} PROVE p \in okn \cup {NULL}
      <4>1. p # NULL => Registration(f, p, FALSE) \in temps
        BY DEF Topology, PointersRegistered
      <4>2. Registration(f, p, FALSE).reactor = p  BY DEF Registration
      <4> QED  BY <3>2, <4>1, <4>2
    <3> HIDE DEF okn
    <3>4. /\ \A l \in Pairs : links'[l] > 0 \/ l \in linkNodes' => {l[1], l[2]} \subseteq okn
          /\ \A c \in temps' : c.reactor \in okn
          /\ \A f \in Feeds \ missed' : {promised'[f], pointer'[f]} \subseteq okn \cup {NULL}
      BY <1>0, <3>1, <3>2, <3>3 DEF feeds
    <3> QED  BY <3>4 DEF NoDangling, okn
  <2>8. \A u \in Threads : Unlinked(u)'  BY <1>0, UnlinkedStep
  <2> QED  BY <2>4, <2>5, <2>6, <2>7, <2>8 DEF Topology
<1> QED  BY <1>1, <1>2

\* A feed registers.
LEMMA RegisterStep ==
    ASSUME TypeOK, Topology, \A u \in Threads : Unlinked(u),
           NEW f \in Feeds, NEW r \in Reactors, NEW out \in BOOLEAN,
           object[r] = "live", temps' = temps \cup {Registration(f, r, out)},
           outputs' = outputs \/ outputs' = [outputs EXCEPT ![r] = @ \cup {f}],
           promised' = IF out THEN promised ELSE [promised EXCEPT ![f] = r],
           Connected({r}),
           UNCHANGED <<object, links, linkNodes, pc, target, pointer, missed, unsaved>>
    PROVE  Topology' /\ \A u \in Threads : Unlinked(u)'
<1>0. late \subseteq late'  BY DEF Connected
<1>1. \A x, y \in Reactors : y \in outputs'[x] <=> y \in outputs[x]
  BY DEF TypeOK
<1>2. Fresh'  BY DEF TypeOK, Topology, Fresh
<1>3. OutputsAgree'  BY <1>1 DEF Topology, OutputsAgree, Live
<1>4. RecordsAgree'  BY DEF Topology, RecordsAgree
<1>5. ASSUME NEW g \in Feeds
      PROVE  promised'[g] = promised[g] \/ (g = f /\ ~out /\ promised'[g] = r)
  BY DEF TypeOK
<1>6. PointersRegistered'
  <2> SUFFICES ASSUME NEW g \in Feeds \ missed', NEW p \in {promised'[g], pointer'[g]} \ {NULL}
               PROVE  Registration(g, p, FALSE) \in temps'
    BY DEF PointersRegistered, Registration
  <2>1. CASE p \in {promised[g], pointer[g]}
    <3>1. Registration(g, p, FALSE) \in temps
      BY <2>1 DEF Topology, PointersRegistered
    <3> QED  BY <3>1
  <2>2. CASE g = f /\ ~out /\ p = r
    <3>1. out = FALSE  BY <2>2
    <3>2. Registration(f, r, FALSE) \in temps'  BY <3>1, Zenon
    <3> QED  BY <2>2, <3>2
  <2> QED  BY <1>5, <2>1, <2>2
<1>7. NoDangling'
  <2>1. r \in Live /\ Live' = Live  BY DEF Live
  <2>2. Registration(f, r, out).reactor = r  BY DEF Registration
  <2> QED  BY <1>0, <1>5, <2>1, <2>2 DEF Topology, NoDangling
<1>8. ASSUME NEW u \in Threads PROVE Unlinked(u)'
  <2>1. pc[u] = "remove" /\ target[u] = r => target[u] \in late'
    BY DEF Connected
  <2>2. UNCHANGED <<links, pc, target>>  OBVIOUS
  <2>3. \A c \in temps' : c \in temps \/ c.reactor = r  BY DEF Registration
  <2> QED  BY <1>0, <2>1, <2>2, <2>3 DEF Unlinked, LinksOf, TempsOf
<1> QED  BY <1>2, <1>3, <1>4, <1>6, <1>7, <1>8 DEF Topology

\* Two Reactors are connected.
LEMMA ConnectStep ==
    ASSUME TypeOK, Topology, \A u \in Threads : Unlinked(u),
           NEW t \in Threads, NEW x \in Reactors, NEW y \in Reactors, AddReactorConnection(t, x, y)
    PROVE  Topology' /\ \A u \in Threads : Unlinked(u)'
<1>1. /\ x \in Live /\ y \in Live /\ y \notin outputs[x]
      /\ outputs' = [outputs EXCEPT ![x] = @ \cup {y}]
      /\ links' = [links EXCEPT ![<<x, y>>] = @ + 1] /\ linkNodes' = linkNodes \cup {<<x, y>>}
      /\ late \subseteq late' /\ UNCHANGED <<object, temps, feeds, unsaved, pc, target>>
  BY DEF AddReactorConnection, Connected, threads, saves
<1>2. <<x, y>> \in Pairs /\ <<x, y>> \notin linkNodes
  BY <1>1 DEF Pairs, Topology, OutputsAgree
<1>3. /\ \A l \in Pairs : l # <<x, y>> => links'[l] = links[l]
      /\ links'[<<x, y>>] = links[<<x, y>>] + 1
  BY <1>1, <1>2 DEF TypeOK
<1>4. Fresh'  BY <1>1 DEF TypeOK, Topology, Fresh, Live
<1>5. OutputsAgree'
  <2>1. ASSUME NEW z \in Live, z # x PROVE outputs'[z] = outputs[z]
    BY <1>1, <2>1 DEF TypeOK, Live
  <2>2. outputs'[x] = outputs[x] \cup {y}  BY <1>1 DEF TypeOK
  <2>3. Live' = Live  BY <1>1 DEF Live
  <2> QED  BY <1>1, <2>1, <2>2, <2>3 DEF Topology, OutputsAgree
<1>6. RecordsAgree'
  <2> SUFFICES ASSUME NEW l \in Pairs
               PROVE  links'[l] = unsaved'[l] + (IF l \in linkNodes' THEN 1 ELSE 0)
    BY DEF RecordsAgree
  <2>1. links[l] = unsaved[l] + (IF l \in linkNodes THEN 1 ELSE 0)  BY DEF Topology, RecordsAgree
  <2>2. unsaved'[l] = unsaved[l] /\ unsaved[l] \in Nat  BY <1>1 DEF TypeOK
  <2>3. CASE l = <<x, y>>
    <3>1. l \in linkNodes' /\ l \notin linkNodes  BY <1>1, <1>2, <2>3
    <3> QED  BY <1>3, <2>1, <2>2, <2>3, <3>1
  <2>4. CASE l # <<x, y>>
    <3>1. l \in linkNodes' <=> l \in linkNodes  BY <1>1, <2>4
    <3> QED  BY <1>3, <2>1, <2>2, <2>4, <3>1
  <2> QED  BY <2>3, <2>4
<1>7. PointersRegistered'
  BY <1>1 DEF Topology, PointersRegistered, Registration, feeds
<1>8. NoDangling'
  <2>1. \A l \in Pairs : links'[l] > 0 \/ l \in linkNodes' => l = <<x, y>> \/ links[l] > 0 \/ l \in linkNodes
    BY <1>1, <1>3
  <2>2. Live' = Live  BY <1>1 DEF Live
  <2> QED  BY <1>1, <2>1, <2>2 DEF Topology, NoDangling, feeds
<1>9. ASSUME NEW u \in Threads PROVE Unlinked(u)'
  <2>1. pc[u] = "remove" /\ target[u] \in {x, y} => target[u] \in late'
    BY DEF AddReactorConnection, Connected
  <2> QED  BY <1>1, <1>3, <2>1 DEF Unlinked, LinksOf, TempsOf
<1> QED  BY <1>4, <1>5, <1>6, <1>7, <1>8, <1>9 DEF Topology

\* They are disconnected; the configuration is saved or not.
LEMMA DisconnectStep ==
    ASSUME TypeOK, Topology, \A u \in Threads : Unlinked(u),
           NEW t \in Threads, NEW x \in Reactors, NEW y \in Reactors, RemoveReactorConnection(t, x, y)
    PROVE  Topology' /\ \A u \in Threads : Unlinked(u)'
<1>1. /\ <<x, y>> \in linkNodes /\ links[<<x, y>>] > 0
      /\ outputs' = [outputs EXCEPT ![x] = @ \ {y}]
      /\ linkNodes' = linkNodes \ {<<x, y>>}
      /\ UNCHANGED <<object, temps, feeds, pc, target, late>>
  BY DEF RemoveReactorConnection, NodesWithout, threads, Removable
<1>2. PICK e \in {0, 1} :
        /\ links' = [l \in Pairs |-> IF l = <<x, y>> THEN links[l] - e ELSE links[l]]
        /\ \A l \in Pairs : unsaved'[l] = IF l = <<x, y>> THEN unsaved[l] + 1 - e ELSE unsaved[l]
  <2>1. links = [l \in Pairs |-> links[l]] /\ \A l \in Pairs : links[l] \in Nat /\ unsaved[l] \in Nat
    BY DEF TypeOK
  <2>2. CASE links' = Erase({<<x, y>>}) /\ UNCHANGED saves
    <3>1. links' = [l \in Pairs |-> IF l = <<x, y>> THEN links[l] - 1 ELSE links[l]]
      BY <1>1, <2>2 DEF Erase
    <3>2. \A l \in Pairs : unsaved'[l] = IF l = <<x, y>> THEN unsaved[l] + 1 - 1 ELSE unsaved[l]
      BY <2>1, <2>2 DEF saves
    <3> QED  BY <3>1, <3>2
  <2>3. CASE Unsaved({<<x, y>>}) /\ UNCHANGED links
    <3>1. links' = [l \in Pairs |-> IF l = <<x, y>> THEN links[l] - 0 ELSE links[l]]
      <4>1. \A l \in Pairs : links[l] - 0 = links[l]  BY <2>1
      <4> QED  BY <2>1, <2>3, <4>1
    <3>2. \A l \in Pairs : unsaved'[l] = IF l = <<x, y>> THEN unsaved[l] + 1 - 0 ELSE unsaved[l]
      BY <2>1, <2>3, UnsavedFact
    <3> QED  BY <3>1, <3>2
  <2> QED  BY <2>2, <2>3 DEF RemoveReactorConnection
<1>3. \A l \in Pairs : links[l] \in Nat /\ unsaved[l] \in Nat /\ (links'[l] > 0 => links[l] > 0)
  BY <1>2 DEF TypeOK
<1>4. Fresh'  BY <1>1 DEF TypeOK, Topology, Fresh
<1>5. OutputsAgree'
  <2>1. ASSUME NEW z \in Live, z # x PROVE outputs'[z] = outputs[z]
    BY <1>1, <2>1 DEF TypeOK, Live
  <2>2. outputs'[x] = outputs[x] \ {y}  BY <1>1 DEF TypeOK
  <2>3. Live' = Live  BY <1>1 DEF Live
  <2> QED  BY <1>1, <2>1, <2>2, <2>3 DEF Topology, OutputsAgree
<1>6. RecordsAgree'
  <2> SUFFICES ASSUME NEW l \in Pairs
               PROVE  links'[l] = unsaved'[l] + (IF l \in linkNodes' THEN 1 ELSE 0)
    BY DEF RecordsAgree
  <2>1. links[l] = unsaved[l] + (IF l \in linkNodes THEN 1 ELSE 0)  BY DEF Topology, RecordsAgree
  <2>2. CASE l = <<x, y>>
    <3>1. l \notin linkNodes' /\ l \in linkNodes  BY <1>1, <2>2
    <3>2. links'[l] = links[l] - e /\ unsaved'[l] = unsaved[l] + 1 - e  BY <1>2, <2>2
    <3> QED  BY <1>3, <2>1, <3>1, <3>2
  <2>3. CASE l # <<x, y>>
    <3>1. l \in linkNodes' <=> l \in linkNodes  BY <1>1, <2>3
    <3>2. links'[l] = links[l] /\ unsaved'[l] = unsaved[l]  BY <1>2, <2>3
    <3> QED  BY <2>1, <3>1, <3>2
  <2> QED  BY <2>2, <2>3
<1>7. PointersRegistered'
  BY <1>1 DEF Topology, PointersRegistered, Registration, feeds
<1>8. NoDangling'  BY <1>1, <1>3 DEF Topology, NoDangling, Live, feeds
<1>9. \A u \in Threads : Unlinked(u)'  BY <1>1, <1>3, UnlinkedStep
<1> QED  BY <1>4, <1>5, <1>6, <1>7, <1>8, <1>9 DEF Topology

\* A feed stores its pointer.
LEMMA StoreStep ==
    ASSUME TypeOK, Topology, \A u \in Threads : Unlinked(u), NEW f \in Feeds, StorePointer(f)
    PROVE  Topology' /\ \A u \in Threads : Unlinked(u)'
<1>1. UNCHANGED <<object, outputs, links, temps, linkNodes, late, missed, unsaved, pc, target>>
  BY DEF StorePointer, memory, config, threads, saves
<1>2. \A g \in Feeds : {promised'[g], pointer'[g]} \subseteq {promised[g], pointer[g], NULL}
  BY DEF StorePointer, TypeOK
<1>3. Fresh' /\ OutputsAgree' /\ RecordsAgree'
  BY <1>1 DEF Topology, Fresh, OutputsAgree, RecordsAgree, Live
<1>4. PointersRegistered'
  <2> SUFFICES ASSUME NEW g \in Feeds \ missed', NEW p \in {promised'[g], pointer'[g]} \ {NULL}
               PROVE  Registration(g, p, FALSE) \in temps'
    BY DEF PointersRegistered, Registration
  <2> QED  BY <1>1, <1>2 DEF Topology, PointersRegistered
<1>5. NoDangling'  BY <1>1, <1>2 DEF Topology, NoDangling, Live
<1>6. \A u \in Threads : Unlinked(u)'  BY <1>1, UnlinkedStep
<1> QED  BY <1>3, <1>4, <1>5, <1>6 DEF Topology

\* Temporary connections cs end; the feeds fs are told at least.
LEMMA DropStep ==
    ASSUME TypeOK, Topology, \A u \in Threads : Unlinked(u),
           NEW cs \in SUBSET temps, NEW ds \in SUBSET Temp, NEW fs, \A c \in cs : c.feed \in fs,
           temps' = temps \ cs, outputs' = Disconnect({}, ds), Tell(fs),
           UNCHANGED <<object, links, linkNodes, pc, target, late, unsaved>>
    PROVE  Topology' /\ \A u \in Threads : Unlinked(u)'
<1>1. /\ linkNodes' = linkNodes \ ({} \cup {}) /\ {} \in SUBSET linkNodes /\ {} \cap {} = {}
      /\ outputs' = Disconnect({} \cup {}, ds)
  <2>1. {} \cup {} = {}  OBVIOUS
  <2> QED  BY <2>1
<1>2. links' = Erase({})  BY DEF Erase, TypeOK
<1>3. \A l \in Pairs : unsaved'[l] = unsaved[l] + (IF l \in {} THEN 1 ELSE 0)  BY DEF TypeOK
<1>4. Topology'  BY <1>1, <1>2, <1>3, PruneStep
<1>5. \A u \in Threads : Unlinked(u)'  BY UnlinkedStep
<1> QED  BY <1>4, <1>5

\* A temporary connection is removed by its feed.
LEMMA RemoveTempStep ==
    ASSUME TypeOK, Topology, \A u \in Threads : Unlinked(u), NEW f \in Feeds, RemoveTempConnection(f)
    PROVE  Topology' /\ \A u \in Threads : Unlinked(u)'
<1>1. /\ UNCHANGED <<object, links, linkNodes, pc, target, late, unsaved, promised, missed>>
      /\ pointer' = Forget({f}) /\ promised[f] = NULL
  BY DEF RemoveTempConnection, config, threads, saves
<1>2. Tell({f})
  <2>1. {g \in {f} \cap Feeds : promised[g] # NULL} = {}  BY <1>1
  <2> QED  BY <1>1, <2>1 DEF Tell
<1>3. PICK cs \in SUBSET temps, ds \in SUBSET Temp :
        /\ temps' = temps \ cs /\ \A c \in cs : c.feed \in {f}
        /\ outputs' = Disconnect({}, ds)
  <2>1. CASE UNCHANGED <<temps, outputs>>
    <3>1. outputs = Disconnect({}, {})  BY DEF Disconnect, TypeOK
    <3>2. {} \in SUBSET temps /\ {} \in SUBSET Temp /\ temps = temps \ {}  OBVIOUS
    <3> QED  BY <2>1, <3>1, <3>2
  <2>2. CASE \E c \in temps : /\ c.feed = f /\ temps' = temps \ {c}
                             /\ \E es \in {{}, {c}} : outputs' = Disconnect({}, es)
    <3>1. PICK c \in temps : /\ c.feed = f /\ temps' = temps \ {c}
                           /\ \E es \in {{}, {c}} : outputs' = Disconnect({}, es)
      BY <2>2
    <3>2. {} \in SUBSET Temp /\ {c} \in SUBSET Temp /\ {c} \in SUBSET temps  BY DEF TypeOK
    <3> QED  BY <3>1, <3>2
  <2> QED  BY <2>1, <2>2 DEF RemoveTempConnection
<1> QED  BY <1>1, <1>2, <1>3, DropStep

\* The engine stops, or fails to.
LEMMA StopStep ==
    ASSUME TypeOK, Topology, \A u \in Threads : Unlinked(u), Stop \/ StopThrows
    PROVE  Topology' /\ \A u \in Threads : Unlinked(u)'
<1>1. PICK cs \in SUBSET temps, ds \in SUBSET temps :
        /\ temps' = temps \ cs /\ outputs' = Disconnect({}, ds)
        /\ Tell(Notified(ds)) /\ cs \subseteq ds
  <2>1. {} \in SUBSET temps /\ temps \in SUBSET temps /\ temps \ {} = temps /\ temps \ temps = {}
    OBVIOUS
  <2>2. CASE Stop  BY <2>1, <2>2 DEF Stop
  <2>3. CASE StopThrows  BY <2>1, <2>3 DEF StopThrows
  <2> QED  BY <2>2, <2>3
<1>2. UNCHANGED <<object, links, linkNodes, pc, target, late, unsaved>>
  BY DEF Stop, StopThrows, config, threads, saves
<1>3. ds \in SUBSET Temp /\ \A c \in cs : c.feed \in Notified(ds)
  BY <1>1 DEF TypeOK, Notified
<1> QED  BY <1>1, <1>2, <1>3, DropStep

\* Every operation keeps the records consistent, and what is removed unlinked.
LEMMA TopologyStep ==
    ASSUME IInv, [Next]_vars PROVE Topology' /\ \A t \in Threads : Unlinked(t)'
<1> DEFINE Goal == Topology' /\ \A u \in Threads : Unlinked(u)'
<1> USE DEF memory, config, threads, saves
<1>0. TypeOK /\ Topology /\ \A u \in Threads : Unlinked(u)  BY DEF IInv
<1>1. ASSUME NEW r \in Reactors, object[r] = "none",
             object' = [object EXCEPT ![r] = "live"],
             UNCHANGED <<outputs, links, temps, linkNodes, feeds, late, unsaved, pc, target>>
      PROVE  Goal
  <2>1. Live' = Live \cup {r}  BY <1>0, <1>1 DEF TypeOK, Live
  <2>2. Fresh'  BY <1>0, <1>1 DEF TypeOK, Topology, Fresh
  <2>3. OutputsAgree'
    BY <1>0, <1>1, <2>1 DEF Topology, Fresh, OutputsAgree
  <2>4. RecordsAgree' /\ PointersRegistered'
    BY <1>0, <1>1 DEF Topology, RecordsAgree, PointersRegistered, Registration, feeds
  <2>5. NoDangling'  BY <1>0, <1>1, <2>1 DEF Topology, NoDangling, feeds
  <2>6. \A u \in Threads : Unlinked(u)'  BY <1>0, <1>1, UnlinkedStep
  <2> QED  BY <2>2, <2>3, <2>4, <2>5, <2>6 DEF Topology
<1>2. ASSUME NEW t \in Threads, NEW r \in Reactors,
             (\E w \in Spaces : AddReactor(t, r, w)) \/ AddReactorRejected(t, r)
      PROVE  Goal
  BY <1>1, <1>2 DEF AddReactor, AddReactorRejected
<1>3. ASSUME NEW t \in Threads, NEW r \in Reactors, RemoveReactor(t, r) PROVE Goal
  BY <1>0, <1>3, RemoveBeginStep DEF RemoveReactor
<1>4. ASSUME NEW t \in Threads, NEW r \in Reactors, RemoveThrows(t, r) PROVE Goal
  BY <1>0, <1>4, RemoveThrowsStep
<1>5. ASSUME NEW t \in Threads, RemoveFinish(t) PROVE Goal
  BY <1>0, <1>5, RemoveFinishStep
<1>6. ASSUME NEW t \in Threads,
             (\E r \in Reactors, op \in {"start", "stop"} : StartReactor(t, r, op)) \/ StartCall(t)
      PROVE  Goal
  <2>1. UNCHANGED <<object, outputs, links, temps, linkNodes, feeds, late, unsaved>>
    BY <1>6 DEF StartReactor, StartCall
  <2>2. \A u \in Threads : pc'[u] = "remove" => UNCHANGED <<pc[u], target[u]>>
    BY <1>0, <1>6 DEF StartReactor, StartCall, TypeOK
  <2> QED  BY <1>0, <2>1, <2>2, QuietStep
<1>7. ASSUME NEW t \in Threads, RemoveNext(t) PROVE Goal
  <2>1. PICK r \in todo[t] :
          \/ RemoveBegin(t, r)
          \/ UNCHANGED <<memory, config, pc, target, reactions, feeds, late, saves>>
    BY <1>7 DEF RemoveNext
  <2>2. r \in Reactors  BY <1>0 DEF TypeOK
  <2>3. CASE RemoveBegin(t, r)  BY <1>0, <2>2, <2>3, RemoveBeginStep
  <2>4. CASE UNCHANGED <<memory, config, pc, target, reactions, feeds, late, saves>>
    BY <1>0, <2>4, QuietStep
  <2> QED  BY <2>1, <2>3, <2>4
<1>8. ASSUME NEW t \in Threads, NEW w \in Spaces, RemoveReactorsFromWorkspace(t, w) PROVE Goal
  BY <1>0, <1>8, QuietStep DEF RemoveReactorsFromWorkspace
<1>9. ASSUME NEW t \in Threads, NEW x \in Reactors, NEW y \in Reactors,
             AddReactorConnection(t, x, y) \/ RemoveReactorConnection(t, x, y)
      PROVE  Goal
  BY <1>0, <1>9, ConnectStep, DisconnectStep
<1>10. ASSUME NEW f \in Feeds, NEW r \in Reactors,
              AddTempConnectionIn(f, r) \/ AddTempConnectionOut(f, r)
       PROVE  Goal
  <2>1. CASE AddTempConnectionIn(f, r)
    <3>1. /\ object[r] = "live" /\ temps' = temps \cup {Registration(f, r, FALSE)}
          /\ outputs' = outputs /\ promised' = [promised EXCEPT ![f] = r] /\ Connected({r})
          /\ UNCHANGED <<object, links, linkNodes, pc, target, pointer, missed, unsaved>>
      BY <2>1 DEF AddTempConnectionIn
    <3> QED  BY <1>0, <3>1, RegisterStep
  <2>2. CASE AddTempConnectionOut(f, r)
    <3>1. /\ object[r] = "live" /\ temps' = temps \cup {Registration(f, r, TRUE)}
          /\ outputs' = [outputs EXCEPT ![r] = @ \cup {f}] /\ promised' = promised /\ Connected({r})
          /\ UNCHANGED <<object, links, linkNodes, pc, target, pointer, missed, unsaved>>
      BY <2>2 DEF AddTempConnectionOut, feeds
    <3> QED  BY <1>0, <3>1, RegisterStep
  <2> QED  BY <1>10, <2>1, <2>2
<1>11. ASSUME NEW f \in Feeds, StorePointer(f) \/ RemoveTempConnection(f) PROVE Goal
  BY <1>0, <1>11, StoreStep, RemoveTempStep
<1>12. ASSUME Stop \/ StopThrows PROVE Goal
  BY <1>0, <1>12, StopStep
<1>13. ASSUME \/ \E r \in Reactors : Send(r) \/ React(r)
              \/ \E x, y \in Reactors : Deliver(x, y)
              \/ Start \/ \E w \in Spaces : AddWorkspace(w) \/ RemoveWorkspace(w)
              \/ UNCHANGED vars
       PROVE  Goal
  <2>1. UNCHANGED <<object, outputs, links, temps, linkNodes, feeds, late, unsaved, pc, target>>
    BY <1>13 DEF Send, React, Deliver, Start, AddWorkspace, RemoveWorkspace, vars
  <2> QED  BY <1>0, <2>1, QuietStep
<1> HIDE DEF Goal
<1>14. Goal
  BY <1>2, <1>3, <1>4, <1>5, <1>6, <1>7, <1>8, <1>9, <1>10, <1>11, <1>12, <1>13
     DEF Next, Administer
<1> QED  BY <1>14 DEF Goal

-----------------------------------------------------------------------------
(* Theorems *)

\* An engine without Reactors satisfies IInv.
LEMMA InitIInv == Init => IInv
BY DEF Init, IInv, TypeOK, Topology, Fresh, OutputsAgree, RecordsAgree, PointersRegistered,
       NoDangling, Live, Unlinked

\* IInv is inductive.
THEOREM Inductive == Spec => []IInv
<1>1. IInv /\ [Next]_vars => IInv'  BY TypeStep, TopologyStep DEF IInv
<1> QED  BY <1>1, InitIInv, PTL DEF Spec

\* The m_connections of every Reactor and the configuration agree, and the
\* engine's list of connections with both, whatever throws and wherever, but for
\* one entry too many for each disconnection that could not be saved
\* (ReactionEngine.cpp:286-335 and 556-609).
THEOREM TopologyCorrect == Spec => []TopologyAgrees
<1>1. IInv => TopologyAgrees  BY DEF IInv, Topology, TopologyAgrees
<1> QED  BY <1>1, Inductive, PTL

\* A feed that has been given a pointer to a Reactor is registered with the
\* engine, which will tell it when the Reactor is removed, unless it was told
\* before it stored the pointer (ReactionEngine.cpp:340-360, FeedService.cpp:178).
THEOREM PointersCorrect == Spec => []PointersRegistered
<1>1. IInv => PointersRegistered  BY DEF IInv, Topology
<1> QED  BY <1>1, Inductive, PTL

\* No connection and no pointer leads to a destroyed Reactor, except to one that
\* was connected between the halves of removeReactor() (ReactionEngine.cpp:330),
\* or a pointer that was stored too late.
THEOREM NothingDangles == Spec => []NoDangling
<1>1. IInv => NoDangling  BY DEF IInv, Topology
<1> QED  BY <1>1, Inductive, PTL

-----------------------------------------------------------------------------
(***************************************************************************)
(* The configuration lock of a Reactor.                                    *)
(***************************************************************************)
\* Who has claimed the flag did not find it set, and it is set only while
\* somebody who has claimed it did not release it.
Claimed ==
    /\ \A w \in Writers : wpc[w] \in {"claim", "drain"} => ~already[w]
    /\ pending => \E w \in Writers : wpc[w] \in {"drain", "writing", "leave"} /\ ~already[w]

\* Where two writers are together, writers have met; crowded lasts no longer than
\* somebody is there.
Crowding ==
    /\ \A v, w \in Inside : v # w => crowded
    /\ crowded => Occupied

\* Unless writers have met, the flag is set from claim to release.
FlagOwned ==
    ~crowded => \A w \in Writers : wpc[w] \in {"drain", "writing", "leave"} =>
                                     pending /\ ~already[w]

LockInv ==
    /\ LockTypeOK /\ Claimed /\ Crowding /\ FlagOwned
    /\ ReadersCounted /\ NoReaderWhileWriting /\ StoppedIsQuiet

HIDE EngineAssumption
USE ReactorLockAssumption

-----------------------------------------------------------------------------
\* A reader that counts itself, or takes itself back, and nobody else.
LEMMA Counting ==
    ASSUME LockTypeOK, ReadersCounted, NEW r \in Readers,
           \A q \in Readers : q # r => rpc'[q] = rpc[q],
           \/ r \notin Counted /\ r \in Counted' /\ numReaders' = numReaders + 1
           \/ r \in Counted /\ r \notin Counted' /\ numReaders' = numReaders - 1
           \/ (r \in Counted <=> r \in Counted') /\ numReaders' = numReaders
    PROVE  ReadersCounted' /\ numReaders' \in Nat
<1>1. IsFiniteSet(Counted)  BY FS_Subset DEF Counted
<1>2. Counted' \subseteq Readers /\ Counted \subseteq Readers  BY DEF Counted
<1>3. \A q \in Readers : q # r => (q \in Counted <=> q \in Counted')  BY DEF Counted
<1>4. Cardinality(Counted) \in Nat /\ numReaders = Cardinality(Counted)
  BY <1>1, FS_CardinalityType DEF ReadersCounted
<1>5. CASE r \notin Counted /\ r \in Counted' /\ numReaders' = numReaders + 1
  <2>1. Counted' = Counted \cup {r}  BY <1>2, <1>3, <1>5
  <2>2. Cardinality(Counted') = Cardinality(Counted) + 1
    BY <1>1, <1>5, <2>1, FS_AddElement
  <2> QED  BY <1>4, <1>5, <2>2 DEF ReadersCounted
<1>6. CASE r \in Counted /\ r \notin Counted' /\ numReaders' = numReaders - 1
  <2>1. Counted' = Counted \ {r}  BY <1>2, <1>3, <1>6
  <2>2. Cardinality(Counted') = Cardinality(Counted) - 1 /\ Cardinality(Counted') \in Nat
    BY <1>1, <1>6, <2>1, FS_RemoveElement, FS_CardinalityType
  <2> QED  BY <1>4, <1>6, <2>2 DEF ReadersCounted
<1>7. CASE (r \in Counted <=> r \in Counted') /\ numReaders' = numReaders
  <2>1. Counted' = Counted  BY <1>2, <1>3, <1>7
  <2> QED  BY <1>4, <1>7, <2>1 DEF ReadersCounted
<1> QED  BY <1>5, <1>6, <1>7

\* crowded goes only when nobody is left.
LEMMA LeftAlone ==
    ASSUME NEW c, crowded' = (c /\ Occupied'), c, ~crowded'
    PROVE  Inside' = {} /\ Active' = {}
BY DEF Occupied

\* A reader's step keeps the invariant.
LEMMA ReaderKeeps ==
    ASSUME LockInv, NEW r \in Readers,
           (\E kind \in {"event", "signal"} : ReadCall(r, kind)) \/ ReaderStep(r) \/ ReadDone(r)
    PROVE  LockInv'
<1> USE DEF LockInv
<1>1. UNCHANGED <<pending, reactorOn, mutexes, wvars>> /\ Inside' = Inside
  BY DEF ReaderStep, ReadCall, ReadWait, ReadEnter, ReadRecheck, ReadBackOut, ReadProcess,
         ReadDone, ReadLeave, Inside, wvars
<1>2. rpc \in [Readers -> ReaderPc] /\ rkind \in [Readers -> {"event", "signal"}]
      /\ crowded \in BOOLEAN
  BY DEF LockTypeOK
<1>3. /\ rpc' \in [Readers -> ReaderPc]
      /\ rkind' \in [Readers -> {"event", "signal"}]
      /\ rsleeps' \in [Readers -> 0 .. MaxSleeps + 1]
  BY DEF LockTypeOK, ReaderPc, ReaderStep, ReadCall, ReadWait, ReadEnter, ReadRecheck, ReadBackOut,
         ReadProcess, ReadDone, ReadLeave, Slept
<1>4. \A q \in Readers : q # r => rpc'[q] = rpc[q] /\ rkind'[q] = rkind[q]
  BY <1>2 DEF ReaderStep, ReadCall, ReadWait, ReadEnter, ReadRecheck, ReadBackOut,
         ReadProcess, ReadDone, ReadLeave
<1>5. ReadersCounted' /\ numReaders' \in Nat
  <2>1. CASE ReadEnter(r)
    BY <1>2, <1>4, <2>1, Counting DEF ReadEnter, Count, Counted
  <2>2. CASE ReadBackOut(r) \/ ReadLeave(r)
    BY <1>2, <1>4, <2>2, Counting DEF ReadBackOut, ReadLeave, Counted
  <2>3. CASE ~(ReadEnter(r) \/ ReadBackOut(r) \/ ReadLeave(r))
    BY <1>2, <1>4, <2>3, Counting
    DEF ReaderStep, ReadCall, ReadWait, ReadRecheck, ReadProcess, ReadDone, Counted
  <2> QED  BY <2>1, <2>2, <2>3
<1>6. crowded' \in BOOLEAN /\ (~crowded' => ~crowded \/ (Inside' = {} /\ Active' = {}))
      /\ (crowded' => crowded /\ Occupied')
  <2>1. CASE ReadLeave(r)  BY <1>2, <2>1, LeftAlone DEF ReadLeave
  <2>2. CASE ~ReadLeave(r)
    <3>1. crowded' = crowded /\ Active \subseteq Active'
      BY <1>2, <2>2 DEF ReaderStep, ReadCall, ReadWait, ReadEnter, ReadRecheck, ReadBackOut,
         ReadProcess, ReadDone, Active
    <3> QED  BY <1>1, <1>2, <3>1 DEF Occupied, Crowding
  <2> QED  BY <2>1, <2>2
<1>7. Claimed' /\ FlagOwned' /\ Crowding'
  <2>1. Claimed'  BY <1>1 DEF Claimed, wvars
  <2>2. FlagOwned'  BY <1>1, <1>6 DEF FlagOwned, Inside, wvars
  <2>3. Crowding'
    <3>1. \A v, w \in Inside' : v # w => crowded'  BY <1>1, <1>6 DEF Crowding
    <3> QED  BY <1>6, <3>1 DEF Crowding
  <2> QED  BY <2>1, <2>2, <2>3
<1>8. NoReaderWhileWriting'
  <2> SUFFICES ASSUME ~crowded', NEW w \in Writers, wpc[w] = "writing" PROVE Active' = {}
    BY <1>1 DEF NoReaderWhileWriting, wvars
  <2>1. Inside' # {}  BY <1>1 DEF Inside
  <2>2. ~crowded  BY <1>6, <2>1
  <2>3. pending /\ Active = {}  BY <2>2 DEF FlagOwned, NoReaderWhileWriting
  <2>4. r \notin Active'
    BY <1>2, <2>3 DEF Active, BackOut, ReaderStep, ReadCall, ReadWait, ReadEnter, ReadRecheck,
         ReadBackOut, ReadProcess, ReadDone, ReadLeave
  <2> QED  BY <1>4, <2>3, <2>4 DEF Active
<1>9. StoppedIsQuiet'
  <2> SUFFICES ASSUME ~crowded', ~reactorOn, NEW q \in Readers, rpc'[q] = "processing"
               PROVE  rkind'[q] = "signal"
    BY <1>1 DEF StoppedIsQuiet
  <2>1. ~crowded  BY <1>6 DEF Active
  <2>2. CASE q # r  BY <1>4, <2>1, <2>2 DEF StoppedIsQuiet
  <2>3. CASE q = r
    BY <1>2, <2>1, <2>3 DEF StoppedIsQuiet, Processes, ReaderStep, ReadCall, ReadWait, ReadEnter,
         ReadRecheck, ReadBackOut, ReadProcess, ReadDone, ReadLeave
  <2> QED  BY <2>2, <2>3
<1> QED
  BY <1>1, <1>3, <1>5, <1>6, <1>7, <1>8, <1>9 DEF LockTypeOK, mutexes, wvars

-----------------------------------------------------------------------------
\* What the steps of writers leave alone, but for the write itself.
LEMMA WriterFrame ==
    ASSUME LockInv, UNCHANGED <<numReaders, rvars>>,
           ~crowded' => ~crowded \/ (Inside' = {} /\ Active' = {})
    PROVE  /\ ReadersCounted'
           /\ reactorOn' = reactorOn => StoppedIsQuiet'
           /\ (\A w \in Writers : wpc'[w] = "writing" =>
                  wpc[w] = "writing" \/ Active = {} \/ crowded')
                => NoReaderWhileWriting'
BY DEF LockInv, ReadersCounted, StoppedIsQuiet, NoReaderWhileWriting, Counted, Active, Inside, rvars

\* A writer that is inside while none have met is the only one there, and finds
\* the flag as it left it.
LEMMA Alone ==
    ASSUME LockInv, NEW w \in Inside, ~crowded
    PROVE  /\ Inside = {w}
           /\ wpc[w] \in {"test", "claim"} => ~pending
           /\ wpc[w] \in {"drain", "writing", "leave"} => pending
BY DEF LockInv, Claimed, Crowding, FlagOwned, Inside

\* While somebody reads, the counter is positive.
LEMMA ReadersShow ==
    ASSUME LockInv, numReaders = 0
    PROVE  Active = {}
<1>1. IsFiniteSet(Counted) /\ Active \subseteq Counted  BY FS_Subset DEF Counted, Active
<1>2. Cardinality(Counted) = 0  BY DEF LockInv, ReadersCounted
<1> QED  BY <1>1, <1>2, FS_EmptySet

\* Where writers meet, crowded tells, until all have left.
LEMMA WriterCrowds ==
    ASSUME LockInv, NEW w \in Writers,
           (\E op \in Ops : WriteCall(w, op)) \/ WriterStep(w) \/ Write(w)
    PROVE  /\ crowded' \in BOOLEAN
           /\ ~crowded' => ~crowded \/ (Inside' = {} /\ Active' = {})
           /\ Crowding'
<1>0. crowded \in BOOLEAN /\ Crowding /\ wpc \in [Writers -> WriterPc]
  BY DEF LockInv, LockTypeOK
<1>1. Active' = Active
  BY DEF WriterStep, WriteCall, WriteMutexes, WriteTest, WriteClaim, WriteDrain, Write,
         WriteLeave, WriteReturn, rvars, Active
<1>2. CASE WriteMutexes(w)
  <2>1. Inside' = Inside \cup {w}  BY <1>0, <1>2 DEF WriteMutexes, Inside
  <2>2. crowded' = (crowded \/ Inside # {})  BY <1>2 DEF WriteMutexes
  <2> QED  BY <1>0, <2>1, <2>2 DEF Crowding, Occupied
<1>3. CASE WriteLeave(w) \/ WriteDrain(w)
  <2>1. Inside' \subseteq Inside  BY <1>0, <1>3 DEF WriteLeave, WriteDrain, Inside
  <2>2. crowded' = (crowded /\ Occupied')  BY <1>3 DEF WriteLeave, WriteDrain
  <2>3. \A u, v \in Inside' : u # v => crowded'
    BY <1>0, <2>1, <2>2 DEF Crowding, Occupied
  <2>4. crowded' => Occupied'  BY <2>2
  <2>5. ~crowded' => ~crowded \/ (Inside' = {} /\ Active' = {})
    BY <2>2, LeftAlone
  <2> QED  BY <1>0, <2>2, <2>3, <2>4, <2>5 DEF Crowding
<1>4. CASE ~WriteMutexes(w) /\ ~WriteLeave(w) /\ ~WriteDrain(w)
  <2>1. Inside' = Inside /\ crowded' = crowded
    BY <1>0, <1>4 DEF WriterStep, WriteCall, WriteTest, WriteClaim, Write, WriteReturn, Inside
  <2> QED  BY <1>0, <1>1, <2>1 DEF Crowding, Occupied
<1> QED  BY <1>2, <1>3, <1>4

\* A writer's step keeps the invariant.
LEMMA WriterKeeps ==
    ASSUME LockInv, NEW w \in Writers,
           (\E op \in Ops : WriteCall(w, op)) \/ WriterStep(w) \/ Write(w)
    PROVE  LockInv'
<1>0. LockTypeOK /\ Claimed /\ FlagOwned  BY DEF LockInv
<1>a. /\ crowded' \in BOOLEAN /\ Crowding'
      /\ ~crowded' => ~crowded \/ (Inside' = {} /\ Active' = {})
  BY WriterCrowds
<1>b. UNCHANGED <<numReaders, rvars>>
  BY DEF WriterStep, WriteCall, WriteMutexes, WriteTest, WriteClaim, WriteDrain, Write,
         WriteLeave, WriteReturn
<1>1. CASE \E op \in Ops : WriteCall(w, op)
  <2> PICK op \in Ops : WriteCall(w, op)  BY <1>1
  <2>1. LockTypeOK'
    BY <1>0, <1>a DEF LockTypeOK, WriteCall, WriterPc, mutexes, rvars, ReactorLockAssumption
  <2>2. Claimed'  BY <1>0 DEF LockTypeOK, WriteCall, Claimed
  <2>3. FlagOwned'  BY <1>0 DEF LockTypeOK, WriteCall, FlagOwned
  <2>4. reactorOn' = reactorOn /\ \A v \in Writers : wpc'[v] = "writing" => wpc[v] = "writing"
    BY <1>0 DEF LockTypeOK, WriteCall
  <2> QED  BY <1>a, <1>b, <2>1, <2>2, <2>3, <2>4, WriterFrame DEF LockInv
<1>2. CASE WriteMutexes(w)
  <2>1. LockTypeOK'  BY <1>0, <1>2, <1>a DEF LockTypeOK, WriteMutexes, WriterPc, rvars
  <2>2. Claimed'  BY <1>0, <1>2 DEF LockTypeOK, WriteMutexes, Claimed
  <2>3. FlagOwned'  BY <1>0, <1>2 DEF LockTypeOK, WriteMutexes, FlagOwned
  <2>4. reactorOn' = reactorOn /\ \A v \in Writers : wpc'[v] = "writing" => wpc[v] = "writing"
    BY <1>0, <1>2 DEF LockTypeOK, WriteMutexes
  <2> QED  BY <1>a, <1>b, <2>1, <2>2, <2>3, <2>4, WriterFrame DEF LockInv
<1>3. CASE WriteTest(w)
  <2>0. crowded' = crowded /\ (pending => crowded)
    <3>1. w \in Inside  BY <1>3 DEF WriteTest, Inside
    <3> QED  BY <1>3, <3>1, Alone DEF WriteTest
  <2>1. LockTypeOK'  BY <1>0, <1>3, <1>a DEF LockTypeOK, WriteTest, WriterPc, mutexes, rvars
  <2>2. Claimed'
    <3>1. \A v \in Writers : wpc'[v] \in {"claim", "drain"} => ~already'[v]
      BY <1>0, <1>3 DEF LockTypeOK, WriteTest, Claimed
    <3>2. ASSUME pending'
          PROVE  \E v \in Writers : wpc'[v] \in {"drain", "writing", "leave"} /\ ~already'[v]
      <4>1. PICK v \in Writers : wpc[v] \in {"drain", "writing", "leave"} /\ ~already[v]
        BY <1>0, <1>3, <3>2 DEF WriteTest, Claimed
      <4>2. v # w  BY <1>3, <4>1 DEF WriteTest
      <4> QED  BY <1>0, <1>3, <4>1, <4>2 DEF LockTypeOK, WriteTest
    <3> QED  BY <3>1, <3>2 DEF Claimed
  <2>3. FlagOwned'  BY <1>0, <1>3, <2>0 DEF LockTypeOK, WriteTest, FlagOwned
  <2>4. reactorOn' = reactorOn
        /\ \A v \in Writers : wpc'[v] = "writing" => wpc[v] = "writing" \/ crowded'
    BY <1>0, <1>3, <2>0 DEF LockTypeOK, WriteTest
  <2> QED  BY <1>a, <1>b, <2>1, <2>2, <2>3, <2>4, WriterFrame DEF LockInv
<1>4. CASE WriteClaim(w)
  <2>1. LockTypeOK'  BY <1>0, <1>4, <1>a DEF LockTypeOK, WriteClaim, WriterPc, mutexes, rvars
  <2>2. Claimed'  BY <1>0, <1>4 DEF LockTypeOK, WriteClaim, Claimed
  <2>3. FlagOwned'  BY <1>0, <1>4 DEF LockTypeOK, WriteClaim, Claimed, FlagOwned
  <2>4. reactorOn' = reactorOn /\ \A v \in Writers : wpc'[v] = "writing" => wpc[v] = "writing"
    BY <1>0, <1>4 DEF LockTypeOK, WriteClaim
  <2> QED  BY <1>a, <1>b, <2>1, <2>2, <2>3, <2>4, WriterFrame DEF LockInv
<1>5. CASE WriteDrain(w)
  <2>0. w \in Inside /\ crowded' = (crowded /\ Occupied')  BY <1>5 DEF WriteDrain, Inside
  <2>1. LockTypeOK'
    <3>1. wsleeps[w] \in 0 .. MaxSleeps + 1 /\ MaxSleeps \in Nat
      BY <1>0 DEF LockTypeOK, ReactorLockAssumption
    <3>2. Slept(wsleeps[w]) \in 0 .. MaxSleeps + 1  BY <3>1 DEF Slept
    <3>3. wpc' \in [Writers -> WriterPc] /\ wsleeps' \in [Writers -> 0 .. MaxSleeps + 1]
      BY <1>0, <1>5, <3>2 DEF LockTypeOK, WriteDrain, WriterPc
    <3> QED  BY <1>0, <1>5, <1>a, <3>3 DEF LockTypeOK, WriteDrain, mutexes, rvars
  <2>2. Claimed'  BY <1>0, <1>5 DEF LockTypeOK, WriteDrain, Claimed
  <2>3. FlagOwned'
    <3> SUFFICES ASSUME ~crowded', NEW v \in Writers, wpc'[v] \in {"drain", "writing", "leave"}
                 PROVE  pending' /\ ~already'[v]
      BY DEF FlagOwned
    <3>1. v \in Inside'  BY DEF Inside
    <3>2. ~crowded  BY <1>a, <3>1
    <3>3. Inside = {w} /\ v \in Inside
      BY <1>0, <1>5, <2>0, <3>1, <3>2, Alone DEF LockTypeOK, WriteDrain, Inside
    <3>4. pending /\ ~already[w]  BY <1>0, <1>5, <3>2 DEF WriteDrain, FlagOwned
    <3> QED  BY <1>0, <1>5, <3>3, <3>4 DEF LockTypeOK, WriteDrain
  <2>4. reactorOn' = reactorOn
        /\ \A v \in Writers : wpc'[v] = "writing" => wpc[v] = "writing" \/ Active = {}
    <3>1. CASE numReaders = 0
      <4>1. Active = {}  BY <3>1, ReadersShow
      <4> QED  BY <1>5, <4>1 DEF WriteDrain
    <3>2. CASE numReaders # 0  BY <1>0, <1>5, <3>2 DEF LockTypeOK, WriteDrain
    <3> QED  BY <3>1, <3>2
  <2> QED  BY <1>a, <1>b, <2>1, <2>2, <2>3, <2>4, WriterFrame DEF LockInv
<1>6. CASE Write(w)
  <2>1. LockTypeOK'  BY <1>0, <1>6, <1>a DEF LockTypeOK, Write, WriterPc, mutexes, rvars
  <2>2. Claimed'  BY <1>0, <1>6 DEF LockTypeOK, Write, Claimed
  <2>3. FlagOwned'  BY <1>0, <1>6 DEF LockTypeOK, Write, FlagOwned
  <2>4. \A v \in Writers : wpc'[v] = "writing" => wpc[v] = "writing"
    BY <1>0, <1>6 DEF LockTypeOK, Write
  <2>5. StoppedIsQuiet'
    BY <1>6 DEF LockInv, NoReaderWhileWriting, StoppedIsQuiet, Active, Write, rvars
  <2> QED  BY <1>a, <1>b, <2>1, <2>2, <2>3, <2>4, <2>5, WriterFrame DEF LockInv
<1>7. CASE WriteLeave(w)
  <2>0. w \in Inside /\ crowded' = (crowded /\ Occupied')  BY <1>7 DEF WriteLeave, Inside
  <2>1. LockTypeOK'
    BY <1>0, <1>7, <1>a DEF LockTypeOK, WriteLeave, Release, WriterPc, mutexes, rvars
  <2>2. Claimed'  BY <1>0, <1>7 DEF LockTypeOK, WriteLeave, Release, Claimed
  <2>3. FlagOwned'
    <3> SUFFICES ASSUME ~crowded', NEW v \in Writers, wpc'[v] \in {"drain", "writing", "leave"}
                 PROVE  FALSE
      BY DEF FlagOwned
    <3>1. v \in Inside' /\ v \in Inside /\ v # w
      BY <1>0, <1>7 DEF LockTypeOK, WriteLeave, Inside
    <3>2. ~crowded  BY <1>a, <3>1
    <3> QED  BY <2>0, <3>1, <3>2, Alone
  <2>4. reactorOn' = reactorOn /\ \A v \in Writers : wpc'[v] = "writing" => wpc[v] = "writing"
    BY <1>0, <1>7 DEF LockTypeOK, WriteLeave
  <2> QED  BY <1>a, <1>b, <2>1, <2>2, <2>3, <2>4, WriterFrame DEF LockInv
<1>8. CASE WriteReturn(w)
  <2>1. LockTypeOK'  BY <1>0, <1>8, <1>a DEF LockTypeOK, WriteReturn, WriterPc, rvars
  <2>2. Claimed'  BY <1>0, <1>8 DEF LockTypeOK, WriteReturn, Claimed
  <2>3. FlagOwned'  BY <1>0, <1>8 DEF LockTypeOK, WriteReturn, FlagOwned
  <2>4. reactorOn' = reactorOn /\ \A v \in Writers : wpc'[v] = "writing" => wpc[v] = "writing"
    BY <1>0, <1>8 DEF LockTypeOK, WriteReturn
  <2> QED  BY <1>a, <1>b, <2>1, <2>2, <2>3, <2>4, WriterFrame DEF LockInv
<1> QED  BY <1>1, <1>2, <1>3, <1>4, <1>5, <1>6, <1>7, <1>8 DEF WriterStep

-----------------------------------------------------------------------------
\* The invariant holds initially, in every step, and so always.
LEMMA LockInvariant == LockSpec => []LockInv
<1>1. LockInit => LockInv
  <2> SUFFICES ASSUME LockInit PROVE LockInv  OBVIOUS
  <2>1. LockTypeOK
    <3>1. 0 \in 0 .. MaxSleeps + 1 /\ 0 \in 0 .. MaxWrites  BY DEF ReactorLockAssumption
    <3> QED  BY <3>1 DEF LockInit, LockTypeOK, ReaderPc, WriterPc
  <2>2. Claimed /\ FlagOwned /\ Crowding  BY DEF LockInit, Claimed, FlagOwned, Crowding, Inside
  <2>3. Counted = {} /\ numReaders = 0  BY DEF LockInit, Counted
  <2>4. ReadersCounted  BY <2>3, FS_EmptySet DEF ReadersCounted
  <2>5. NoReaderWhileWriting /\ StoppedIsQuiet
    BY DEF LockInit, NoReaderWhileWriting, StoppedIsQuiet, Active
  <2> QED  BY <2>1, <2>2, <2>4, <2>5 DEF LockInv
<1>2. LockInv /\ [LockNext]_lockVars => LockInv'
  <2> SUFFICES ASSUME LockInv, [LockNext]_lockVars PROVE LockInv'  OBVIOUS
  <2>1. CASE LockNext  BY <2>1, ReaderKeeps, WriterKeeps DEF LockNext
  <2>2. CASE UNCHANGED lockVars
    BY <2>2 DEF lockVars, mutexes, rvars, wvars, LockInv, LockTypeOK, Claimed, FlagOwned, Crowding,
       ReadersCounted, Occupied,
       NoReaderWhileWriting, StoppedIsQuiet, Counted, Active, Inside
  <2> QED  BY <2>1, <2>2
<1> QED  BY <1>1, <1>2, PTL DEF LockSpec

\* The counter counts the readers that are inside, and the flag is not left
\* behind when no writer is (Reactor.hpp:318-365), also when writers meet.
THEOREM LockIsConsistent == LockSpec => []LockConsistent
<1>1. LockInv => LockConsistent  BY DEF LockInv, LockConsistent, FlagReleased, Claimed, Inside
<1> QED  BY <1>1, LockInvariant, PTL

\* "there are no active readers until the lock is released" (Reactor.hpp:343),
\* unless writers have met there (Reactor.hpp:341 and 347).
THEOREM LockExcludesReaders == LockSpec => []NoReaderWhileWriting
<1>1. LockInv => NoReaderWhileWriting  BY DEF LockInv
<1> QED  BY <1>1, LockInvariant, PTL

\* No Event is processed by a stopped Reactor (Reactor.hpp:213-227), unless
\* writers have met there.
THEOREM StoppedReactorIsQuiet == LockSpec => []StoppedIsQuiet
<1>1. LockInv => StoppedIsQuiet  BY DEF LockInv
<1> QED  BY <1>1, LockInvariant, PTL

-----------------------------------------------------------------------------
(* A Reactor as ReactorAccess sees it *)

\* A reader enters with its second look at the flag, and leaves when it takes
\* itself off the counter.
LEMMA ReaderRefines ==
    ASSUME LockInv, NEW r \in Readers,
           (\E kind \in {"event", "signal"} : ReadCall(r, kind)) \/ ReaderStep(r) \/ ReadDone(r)
    PROVE  \/ Access!Enter(r) \/ Access!TakeUp(r) \/ Access!Finish(r) \/ Access!Leave(r)
           \/ UNCHANGED Access!accessVars
<1>1. UNCHANGED <<pending, reactorOn, wvars>> /\ (~ReadLeave(r) => crowded' = crowded)
  BY DEF ReaderStep, ReadCall, ReadWait, ReadEnter, ReadRecheck, ReadBackOut, ReadProcess,
         ReadDone, ReadLeave
<1>2. HasLock' = HasLock /\ Inside' = Inside  BY <1>1 DEF HasLock, Inside, wvars
<1>3. rpc \in [Readers -> ReaderPc] /\ rkind \in [Readers -> {"event", "signal"}]
  BY DEF LockInv, LockTypeOK
<1>4. CASE ReadRecheck(r) /\ ~pending
  <2>1. ~crowded => HasLock = {}  BY <1>4 DEF LockInv, FlagOwned, HasLock
  <2>2. Active' = Active \cup {r} /\ Busy' = Busy
    BY <1>3, <1>4 DEF ReadRecheck, BackOut, Active, Busy
  <2>3. crowded' = crowded  BY <1>4 DEF ReadRecheck
  <2> QED  BY <1>1, <1>2, <2>1, <2>2, <2>3 DEF Access!Enter
<1>5. CASE ReadProcess(r) /\ rkind[r] = "event" /\ reactorOn
  <2>1. r \in Active /\ Active' = Active /\ Busy' = Busy \cup {r} /\ crowded' = crowded
    BY <1>3, <1>5 DEF ReadProcess, Processes, Active, Busy
  <2> QED  BY <1>1, <1>2, <1>5, <2>1 DEF Access!TakeUp
<1>6. CASE ReadDone(r)
  <2>1. Active' = Active /\ Busy' = Busy \ {r} /\ crowded' = crowded
    BY <1>3, <1>6 DEF ReadDone, Active, Busy
  <2> QED  BY <1>1, <1>2, <2>1 DEF Access!Finish
<1>7. CASE ReadLeave(r)
  <2>1. r \in Active \ Busy /\ Active' = Active \ {r} /\ Busy' = Busy
    BY <1>3, <1>7 DEF ReadLeave, Active, Busy
  <2>2. crowded' = (crowded /\ (Active' # {} \/ Inside # {}))
    BY <1>2, <1>7 DEF ReadLeave, Occupied
  <2> QED  BY <1>1, <1>2, <2>1, <2>2 DEF Access!Leave
<1>8. CASE ~(ReadRecheck(r) /\ ~pending) /\ ~(ReadProcess(r) /\ rkind[r] = "event" /\ reactorOn)
           /\ ~ReadDone(r) /\ ~ReadLeave(r)
  <2>1. Active' = Active /\ Busy' = Busy
    <3>1. CASE ReadRecheck(r)
      BY <1>3, <1>8, <3>1 DEF ReadRecheck, BackOut, Active, Busy
    <3>2. CASE ReadProcess(r)
      BY <1>3, <1>8, <3>2 DEF ReadProcess, Processes, Active, Busy
    <3>3. CASE ReadBackOut(r) \/ ReadEnter(r) \/ ReadWait(r)
      BY <1>3, <3>3 DEF ReadBackOut, ReadEnter, ReadWait, Active, Busy
    <3>4. CASE \E kind \in {"event", "signal"} : ReadCall(r, kind)
      BY <1>3, <3>4 DEF ReadCall, Active, Busy
    <3> QED  BY <1>8, <3>1, <3>2, <3>3, <3>4 DEF ReaderStep
  <2> QED  BY <1>1, <1>2, <1>8, <2>1 DEF Access!accessVars
<1> QED  BY <1>4, <1>5, <1>6, <1>7, <1>8

\* A writer asks when it looks at the flag, has the Reactor from when it found no
\* reader to the write, and is done when it released the flag or gave up.
LEMMA WriterRefines ==
    ASSUME LockInv, NEW w \in Writers,
           (\E op \in Ops : WriteCall(w, op)) \/ WriterStep(w) \/ Write(w)
    PROVE  \/ Access!Ask(w) \/ Access!Claim(w) \/ Access!Write(w) \/ Access!Done(w)
           \/ UNCHANGED Access!accessVars
<1>1. Active' = Active /\ Busy' = Busy
  BY DEF WriterStep, WriteCall, WriteMutexes, WriteTest, WriteClaim, WriteDrain, Write,
         WriteLeave, WriteReturn, Active, Busy, rvars
<1>2. /\ wpc \in [Writers -> WriterPc] /\ reactorOn \in BOOLEAN /\ crowded \in BOOLEAN
      /\ crowded => Occupied
  BY DEF LockInv, LockTypeOK, Crowding
<1>3. CASE WriteMutexes(w)
  <2>1. w \notin Inside /\ Inside' = Inside \cup {w} /\ HasLock' = HasLock
    BY <1>2, <1>3 DEF WriteMutexes, Inside, HasLock
  <2>2. crowded' = (crowded \/ Inside # {}) /\ reactorOn' = reactorOn
    BY <1>3 DEF WriteMutexes
  <2> QED  BY <1>1, <2>1, <2>2 DEF Access!Ask
<1>4. CASE WriteDrain(w) /\ numReaders = 0
  <2>1. w \in Inside /\ Inside' = Inside /\ HasLock' = HasLock \cup {w}
    BY <1>2, <1>4 DEF WriteDrain, Inside, HasLock
  <2>2. ~crowded => HasLock = {}
    <3>1. ~crowded => Inside = {w}  BY <2>1, Alone
    <3> QED  BY <1>4, <3>1 DEF WriteDrain, HasLock, Inside
  <2>3. Active = {}  BY <1>4, ReadersShow
  <2>4. reactorOn' = reactorOn /\ crowded' = crowded
    BY <1>2, <1>4, <2>1 DEF WriteDrain, Occupied
  <2> QED  BY <1>1, <2>1, <2>2, <2>3, <2>4 DEF Access!Claim
<1>5. CASE WriteTest(w) /\ pending
  <2>1. w \in Inside /\ Inside' = Inside /\ HasLock' = HasLock \cup {w}
    BY <1>2, <1>5 DEF WriteTest, Inside, HasLock
  <2>2. crowded  BY <1>5, <2>1, Alone DEF WriteTest
  <2>3. reactorOn' = reactorOn /\ crowded' = crowded  BY <1>5 DEF WriteTest
  <2> QED  BY <1>1, <2>1, <2>2, <2>3 DEF Access!Claim
<1>6. CASE Write(w)
  <2>1. w \in HasLock /\ Inside' = Inside /\ HasLock' = HasLock \ {w}
    BY <1>2, <1>6 DEF Write, Inside, HasLock
  <2>2. reactorOn' \in BOOLEAN /\ crowded' = crowded  BY <1>2, <1>6 DEF Write
  <2> QED  BY <1>1, <2>1, <2>2 DEF Access!Write
<1>7. CASE WriteLeave(w) \/ (WriteDrain(w) /\ numReaders # 0 /\ wpc'[w] = "return")
  <2>1. w \in Inside \ HasLock /\ Inside' = Inside \ {w} /\ HasLock' = HasLock
    BY <1>2, <1>7 DEF WriteLeave, WriteDrain, Inside, HasLock
  <2>2. reactorOn' = reactorOn /\ crowded' = (crowded /\ (Active # {} \/ Inside' # {}))
    BY <1>1, <1>7 DEF WriteLeave, WriteDrain, Occupied
  <2> QED  BY <1>1, <2>1, <2>2 DEF Access!Done
<1>8. CASE \/ \E op \in Ops : WriteCall(w, op)
           \/ WriteTest(w) /\ ~pending
           \/ WriteClaim(w) \/ WriteReturn(w)
           \/ WriteDrain(w) /\ numReaders # 0 /\ wpc'[w] # "return"
  <2>1. Inside' = Inside /\ HasLock' = HasLock /\ reactorOn' = reactorOn
    BY <1>2, <1>8 DEF WriteCall, WriteTest, WriteClaim, WriteReturn, WriteDrain, Inside, HasLock
  <2>2. crowded' = crowded
    <3>1. crowded' = crowded \/ crowded' = (crowded /\ Occupied')
      BY <1>8 DEF WriteCall, WriteTest, WriteClaim, WriteReturn, WriteDrain
    <3> QED  BY <1>1, <1>2, <2>1, <3>1 DEF Occupied
  <2> QED  BY <1>1, <2>1, <2>2 DEF Access!accessVars
<1> QED  BY <1>3, <1>4, <1>5, <1>6, <1>7, <1>8 DEF WriterStep

\* The flag and the counter make one lock that readers share and a writer has
\* alone, until writers meet and again once they have left; only under it is the
\* Reactor started or stopped, and only a running Reactor takes up an Event
\* (Reactor.hpp:208-227 and 315-365).
THEOREM LockIsExclusive == LockSpec => ImplementsAccess
<1>1. LockInit => Access!Init
  BY DEF LockInit, Active, Busy, HasLock, Inside, Access!Init
<1>2. LockInv /\ [LockNext]_lockVars => [Access!Next]_Access!accessVars
  <2> SUFFICES ASSUME LockInv, [LockNext]_lockVars PROVE [Access!Next]_Access!accessVars  OBVIOUS
  <2>1. CASE LockNext
    BY <2>1, ReaderRefines, WriterRefines DEF LockNext, Access!Next
  <2>2. CASE UNCHANGED lockVars
    BY <2>2 DEF lockVars, rvars, wvars, Active, Busy, HasLock, Inside, Access!accessVars
  <2> QED  BY <2>1, <2>2
<1> QED  BY <1>1, <1>2, LockInvariant, PTL DEF LockSpec, ImplementsAccess, Access!Spec
=============================================================================

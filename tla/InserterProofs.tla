----------------------------- MODULE InserterProofs -----------------------------
(***************************************************************************)
(* Theorems about Inserter, for any number of producers and Events, any    *)
(* keys and any length of the queue: an Event is stored once, and the      *)
(* cache keeps no key of an Event that was dropped, whatever the calls of  *)
(* the database return.                                                    *)
(***************************************************************************)
EXTENDS Inserter, FiniteSetTheorems, TLAPS

\* start() and stop() are over when there is a worker to match; nobody is in
\* insert() of a stopped inserter; and only a worker that is inserting has a batch.
Phases ==
    /\ worker = "starting" => admin = "start" /\ running
    /\ admin = "join" => ~running
    /\ admin = "out" /\ ~running => worker = "none"
    /\ ~running => \A p \in Producers : held[p] = NULL
    /\ worker \notin {"insert", "failed", "retry"} => batch = {}

\* Every Event is in one place, said of the producers one by one.
Places ==
    /\ unused \cap (queue \cup batch \cup table) = {}
    /\ queue \cap batch = {} /\ (queue \cup batch) \cap table = {}
    /\ \A p \in Producers : held[p] \notin unused \cup queue \cup batch \cup table
    /\ \A p, q \in Producers : held[p] # NULL /\ held[p] = held[q] => p = q

Bounded == Cardinality(queue) <= QueueMax

IInv == TypeOK /\ Phases /\ Places /\ Bounded /\ KeysJustified

USE InserterAssumption DEF InserterAssumption

-----------------------------------------------------------------------------
\* One Event more in the queue, when it was not full.
LEMMA OneMore ==
    ASSUME queue \subseteq Events, Bounded, ~Full, NEW e \in Events
    PROVE  Cardinality(queue \cup {e}) <= QueueMax
<1>1. IsFiniteSet(queue)  BY FS_Subset
<1>2. Cardinality(queue) \in Nat  BY <1>1, FS_CardinalityType
<1>3. Cardinality(queue \cup {e}) \in {Cardinality(queue), Cardinality(queue) + 1}
  BY <1>1, FS_AddElement
<1> QED  BY <1>2, <1>3 DEF Full

\* Where the keys come from, with the producers' Events named.
LEMMA Sources ==
    KeysJustified <=>
        \/ worker = "drop"
        \/ \A k \in keys : \/ \E e \in queue \cup batch \cup table : k = KeyOf[e]
                           \/ \E p \in Producers : held[p] # NULL /\ k = KeyOf[held[p]]
BY DEF KeysJustified, Held

\* The same in the next state.
LEMMA SourcesNext ==
    KeysJustified' <=>
        \/ worker' = "drop"
        \/ \A k \in keys' : \/ \E e \in queue' \cup batch' \cup table' : k = KeyOf[e]
                            \/ \E p \in Producers : held'[p] # NULL /\ k = KeyOf[held'[p]]
BY DEF KeysJustified, Held

\* start() and stop() move no Event.
LEMMA AdminKeeps ==
    ASSUME IInv, Start \/ Stop \/ StopJoined \/ WorkerStarts
    PROVE  IInv'
<1> USE DEF IInv
<1>1. TypeOK'
  BY DEF Start, Stop, StopJoined, WorkerStarts, TypeOK, Notified, producers, database
<1>2. Phases'
  BY DEF Start, Stop, StopJoined, WorkerStarts, Phases, Excluded, Notified, producers, database
<1>3. Places'
  BY DEF Start, Stop, StopJoined, WorkerStarts, Places, producers, database
<1>4. Bounded'
  BY FS_EmptySet DEF Start, Stop, StopJoined, WorkerStarts, Bounded, producers, database
<1>5. KeysJustified'
  BY Sources, SourcesNext
  DEF Start, Stop, StopJoined, WorkerStarts, Excluded, Phases, Notified, producers, database
<1> QED  BY <1>1, <1>2, <1>3, <1>4, <1>5

\* insert() takes an Event to the queue, at once or later.
LEMMA ProducerKeeps ==
    ASSUME IInv, NEW p \in Producers,
           (\E e \in Events : Insert(p, e) \/ InsertKnown(p, e)) \/ InsertAgain(p)
    PROVE  IInv'
<1>0. TypeOK /\ Phases /\ Places /\ Bounded /\ KeysJustified  BY DEF IInv
<1>1. ASSUME NEW e \in Events, Insert(p, e) PROVE IInv'
  <2>1. TypeOK'
    BY <1>0, <1>1 DEF TypeOK, Insert, Enqueue, Notified, Keys, database
  <2>2. Phases'  BY <1>0, <1>1 DEF TypeOK, Phases, Insert, Enqueue, Notified
  <2>3. Places'  BY <1>0, <1>1 DEF TypeOK, Places, Insert, Enqueue, database
  <2>4. Bounded'
    BY <1>0, <1>1, OneMore DEF TypeOK, Bounded, Insert, Enqueue
  <2>5. KeysJustified'
    <3>1. \A q \in Producers : q # p => held'[q] = held[q]
      BY <1>0, <1>1 DEF TypeOK, Insert, Enqueue
    <3>2. e \in queue' \/ held'[p] = e
      BY <1>0, <1>1 DEF TypeOK, Insert, Enqueue
    <3>3. queue \subseteq queue' /\ batch' = batch /\ table' = table
          /\ (worker = "drop" => worker' = "drop") /\ keys' = keys \cup {KeyOf[e]}
          /\ held[p] = NULL
      BY <1>1 DEF Insert, Enqueue, Notified, database
    <3>4. e # NULL  OBVIOUS
    <3> QED  BY <1>0, <3>1, <3>2, <3>3, <3>4, Sources, SourcesNext
  <2> QED  BY <2>1, <2>2, <2>3, <2>4, <2>5 DEF IInv
<1>2. ASSUME NEW e \in Events, InsertKnown(p, e) PROVE IInv'
  BY <1>0, <1>2 DEF IInv, InsertKnown, TypeOK, Phases, Places, Bounded, KeysJustified, Held,
     database
<1>3. CASE InsertAgain(p)
  <2>0. held[p] \in Events /\ running  BY <1>0, <1>3 DEF TypeOK, Phases, InsertAgain
  <2>1. TypeOK'
    BY <1>0, <1>3, <2>0 DEF TypeOK, InsertAgain, Enqueue, Notified, database
  <2>2. Phases'  BY <1>0, <1>3, <2>0 DEF TypeOK, Phases, InsertAgain, Enqueue, Notified
  <2>3. Places'  BY <1>0, <1>3, <2>0 DEF TypeOK, Places, InsertAgain, Enqueue, database
  <2>4. Bounded'
    BY <1>0, <1>3, <2>0, OneMore DEF TypeOK, Bounded, InsertAgain, Enqueue
  <2>5. KeysJustified'
    <3>1. \A q \in Producers : q # p => held'[q] = held[q]
      BY <1>0, <1>3, <2>0 DEF TypeOK, InsertAgain, Enqueue
    <3>2. held[p] \in queue' \/ held'[p] = held[p]
      BY <1>0, <1>3, <2>0 DEF TypeOK, InsertAgain, Enqueue
    <3>3. queue \subseteq queue' /\ batch' = batch /\ table' = table
          /\ (worker = "drop" => worker' = "drop") /\ keys' = keys
      BY <1>3, <2>0 DEF InsertAgain, Enqueue, Notified, database
    <3> QED  BY <1>0, <3>1, <3>2, <3>3, Sources, SourcesNext
  <2> QED  BY <2>1, <2>2, <2>3, <2>4, <2>5 DEF IInv
<1> QED  BY <1>1, <1>2, <1>3

\* The steps of the worker that move no Event and keep every key, or fewer.
LEMMA IdleWorkerKeeps ==
    ASSUME IInv, Loop \/ Check \/ TimeOut \/ FindNothing \/ DropKeys \/ Prune
    PROVE  IInv'
<1> USE DEF IInv
<1>1. UNCHANGED <<running, queue, producers, batch, database, admin>> /\ keys' \subseteq keys
  BY DEF Loop, Check, TimeOut, FindNothing, DropKeys, Prune, KeysLeft
<1>2. /\ worker \in {"loop", "check", "wait", "woken", "drop", "prune"}
      /\ worker' \in {"loop", "check", "wait", "woken", "exited"}
      /\ worker = "drop" => keys' = {}
  BY DEF Loop, Check, TimeOut, TimesOut, FindNothing, DropKeys, Prune, KeysLeft
<1>3. TypeOK'  BY <1>1, <1>2 DEF TypeOK, producers, database
<1>4. Phases'  BY <1>1, <1>2 DEF Phases, producers
<1>5. Places' /\ Bounded'  BY <1>1 DEF Places, Bounded, producers, database
<1>6. KeysJustified'  BY <1>1, <1>2 DEF KeysJustified, Held, producers, database
<1> QED  BY <1>3, <1>4, <1>5, <1>6

\* What checkConnection() may change.
LEMMA ConnectionKept ==
    ASSUME TypeOK, NEW ok \in BOOLEAN, CheckConnection(ok)
    PROVE  isOpen' \in BOOLEAN /\ inTx' \in BOOLEAN /\ nextConnect' \in BOOLEAN /\ table' = table
BY DEF TypeOK, CheckConnection, TryConnecting, database

\* The steps of the worker that move Events: from the queue to the batch, from
\* the batch to the table, or away.
LEMMA BatchKeeps ==
    ASSUME IInv, Swap \/ Disconnected \/ Commit \/ InsertFails \/ Recover
    PROVE  IInv'
<1> USE DEF IInv
<1>0. Cardinality({}) = 0  BY FS_EmptySet
<1>1. CASE Swap
  <2>0. CheckConnection(TRUE) /\ batch = {} /\ queue' = {} /\ batch' = queue
        /\ worker = "woken" /\ worker' = "insert"
        /\ asleep' = {} /\ UNCHANGED <<running, keys, unused, held, admin>>
    BY <1>1 DEF Swap, Phases
  <2>1. isOpen' \in BOOLEAN /\ inTx' \in BOOLEAN /\ nextConnect' \in BOOLEAN /\ table' = table
    BY <2>0, ConnectionKept
  <2>2. TypeOK'  BY <2>0, <2>1 DEF TypeOK
  <2>3. Phases' /\ Places' /\ Bounded'  BY <1>0, <2>0, <2>1 DEF Phases, Places, Bounded
  <2>4. KeysJustified'  BY <2>0, <2>1, Sources, SourcesNext
  <2> QED  BY <2>2, <2>3, <2>4
<1>2. CASE Disconnected
  <2>0. CheckConnection(FALSE) /\ worker = "woken" /\ worker' = "loop"
        /\ UNCHANGED <<running, unused, held, batch, admin>>
        /\ \/ queue' = {} /\ keys' = {} /\ asleep' = {}
           \/ UNCHANGED <<queue, keys, asleep>>
    BY <1>2 DEF Disconnected, KeysLeft, Sleepers
  <2>1. isOpen' \in BOOLEAN /\ inTx' \in BOOLEAN /\ nextConnect' \in BOOLEAN /\ table' = table
    BY <2>0, ConnectionKept
  <2>2. TypeOK'  BY <2>0, <2>1 DEF TypeOK
  <2>3. Phases' /\ Places' /\ Bounded'  BY <1>0, <2>0, <2>1 DEF Phases, Places, Bounded
  <2>4. KeysJustified'  BY <2>0, <2>1, Sources, SourcesNext
  <2> QED  BY <2>2, <2>3, <2>4
<1>3. CASE Commit
  <2>0. worker \in {"insert", "retry"} /\ worker' = "prune"
        /\ table' = table \cup batch /\ batch' = {}
        /\ UNCHANGED <<running, queue, keys, producers, isOpen, inTx, nextConnect, admin>>
    BY <1>3 DEF Commit, Left
  <2>1. TypeOK'  BY <2>0 DEF TypeOK, producers
  <2>2. Phases' /\ Places' /\ Bounded'  BY <2>0 DEF Phases, Places, Bounded, producers
  <2>3. KeysJustified'  BY <2>0, Sources, SourcesNext DEF producers
  <2> QED  BY <2>1, <2>2, <2>3
<1>4. CASE InsertFails \/ Recover
  <2>0. /\ worker \in {"insert", "failed", "retry"}
        /\ \/ worker' \in {"failed", "retry"} /\ batch' = batch
           \/ worker' = "drop" /\ batch' = {}
        /\ UNCHANGED <<running, queue, keys, producers, table, admin>>
        /\ isOpen' \in BOOLEAN /\ inTx' \in BOOLEAN /\ nextConnect' \in BOOLEAN
    <3>1. CASE InsertFails  BY <3>1 DEF InsertFails, TypeOK
    <3>2. CASE Recover  BY <3>2, ConnectionKept DEF Recover
    <3> QED  BY <1>4, <3>1, <3>2
  <2>1. TypeOK'  BY <2>0 DEF TypeOK, producers
  <2>2. Phases' /\ Places' /\ Bounded'  BY <2>0 DEF Phases, Places, Bounded, producers
  <2>3. KeysJustified'  BY <2>0, Sources, SourcesNext DEF producers
  <2> QED  BY <2>1, <2>2, <2>3
<1> QED  BY <1>1, <1>2, <1>3, <1>4

-----------------------------------------------------------------------------
\* The invariant holds initially, in every step, and so always.
LEMMA Invariant == Spec => []IInv
<1>1. Init => IInv
  <2> SUFFICES ASSUME Init PROVE IInv  OBVIOUS
  <2>1. TypeOK  BY DEF Init, TypeOK
  <2>2. Phases /\ Places /\ KeysJustified  BY DEF Init, Phases, Places, KeysJustified
  <2>3. Bounded  BY FS_EmptySet DEF Init, Bounded
  <2> QED  BY <2>1, <2>2, <2>3 DEF IInv
<1>2. IInv /\ [Next]_vars => IInv'
  <2> SUFFICES ASSUME IInv, [Next]_vars PROVE IInv'  OBVIOUS
  <2>1. CASE Next
    BY <2>1, AdminKeeps, ProducerKeeps, IdleWorkerKeeps, BatchKeeps DEF Next, Worker
  <2>2. CASE UNCHANGED vars
    BY <2>2 DEF vars, producers, database, IInv, TypeOK, Phases, Places, Bounded, KeysJustified,
       Held
  <2> QED  BY <2>1, <2>2
<1> QED  BY <1>1, <1>2, PTL DEF Spec

\* The cache keeps no key of an Event that is neither stored nor on its way, but
\* while the worker is about to clear it (DatabaseInserter.cpp:305, 372, 526).
THEOREM CacheIsConsistent == Spec => []CacheConsistent
<1>1. IInv => CacheConsistent  BY DEF IInv, CacheConsistent
<1> QED  BY <1>1, Invariant, PTL

\* No Event is stored twice, and the queue keeps to its length
\* (DatabaseInserter.cpp:628).
THEOREM EventsAreStoredOnce == Spec => []StoredOnce
<1>1. IInv => StoredOnce  BY DEF IInv, Places, Bounded, StoredOnce, Held
<1> QED  BY <1>1, Invariant, PTL
=============================================================================

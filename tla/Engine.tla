-------------------------------- MODULE Engine --------------------------------
(***************************************************************************)
(* The topology of the ReactionEngine (platform/src/ReactionEngine.cpp):   *)
(* Reactors, the connections between them, the temporary connections of    *)
(* feeds, workspaces, and the XML configuration that mirrors them.  Every  *)
(* section of code that runs under the engine's m_mutex is one action;     *)
(* what matters is what happens between two of them, and what a thread     *)
(* that holds a pointer to a Reactor, or a reaction that is queued for it, *)
(* finds when its turn comes.                                              *)
(***************************************************************************)
EXTENDS Naturals, FiniteSets

CONSTANTS Reactors,   \* identifiers; createUUID() never returns one twice
          Feeds,      \* identifiers of temporary connections
          Spaces,     \* identifiers of workspaces
          Threads,    \* threads that administer the engine
          MaxFailures,\* bound: saves that fail after a connection was unlinked
          NULL

ASSUME EngineAssumption ==
    /\ Reactors \cap Feeds = {}
    /\ NULL \notin Reactors \cup Feeds \cup Spaces
    /\ MaxFailures \in Nat

VARIABLES
    object,     \* a Reactor object: "none", "live" (in m_plugins) or "destroyed"
    running,    \* its m_is_running
    outputs,    \* keys of its m_connections: Reactors and feeds
    links,      \* m_reactor_connections: how many entries a pair <<from, to>> has
    temps,      \* m_temp_connections
    isRunning,  \* the engine's m_is_running
    nodes,      \* Reactor elements of the configuration
    space,      \* the workspace such an element names
    linkNodes,  \* Connection elements of the configuration
    spaceNodes, \* Workspace elements of the configuration
    pc,         \* what a thread is about to do: nothing, the second half of
                \* removeReactor(), or the call in startReactor()/stopReactor()
    target,     \* the Reactor it does that to
    todo,       \* what removeReactorsFromWorkspace() has left to remove
    reactions,  \* Reactors to which queued reactions refer
    promised,   \* the Reactor* that addTempConnectionIn() has returned to a feed
                \* which has not stored it yet
    pointer,    \* a feed's m_reactor_ptr
    late,       \* history: Reactors connected after their removal had begun
    missed,     \* history: feeds told of a removal before they stored the pointer
    unsaved,    \* history: how often a pair was disconnected by a call that
                \* threw because it could not save the configuration
    failures    \* how often that was, for the bound

memory  == <<object, running, outputs, links, temps, isRunning>>
config  == <<nodes, space, linkNodes, spaceNodes>>
threads == <<pc, target, todo>>
feeds   == <<promised, pointer, missed>>
saves   == <<unsaved, failures>>
vars    == <<memory, config, threads, reactions, feeds, late, saves>>

Pairs == Reactors \X Reactors

Live == {r \in Reactors : object[r] = "live"}
Temp == [feed : Feeds, reactor : Reactors, out : BOOLEAN]

TypeOK ==
    /\ object \in [Reactors -> {"none", "live", "destroyed"}]
    /\ running \in [Reactors -> BOOLEAN]
    /\ outputs \in [Reactors -> SUBSET (Reactors \cup Feeds)]
    /\ links \in [Pairs -> Nat]
    /\ temps \subseteq Temp
    /\ isRunning \in BOOLEAN
    /\ nodes \subseteq Reactors
    /\ space \in [Reactors -> Spaces \cup {NULL}]
    /\ linkNodes \subseteq Pairs
    /\ spaceNodes \subseteq Spaces
    /\ pc \in [Threads -> {"idle", "remove", "start", "stop"}]
    /\ target \in [Threads -> Reactors \cup {NULL}]
    /\ todo \in [Threads -> SUBSET Reactors]
    /\ reactions \subseteq Reactors
    /\ promised \in [Feeds -> Reactors \cup {NULL}]
    /\ pointer \in [Feeds -> Reactors \cup {NULL}]
    /\ late \subseteq Reactors /\ missed \subseteq Feeds
    /\ unsaved \in [Pairs -> Nat] /\ failures \in Nat

-----------------------------------------------------------------------------
(* Conditions and shared effects.  A definition whose name ends in "Bug" is   *)
(* the one after it with a slip of the kind the properties are meant to catch.*)

\* The connections that are removed with a Reactor: those from it and to it.
LinksOfBug(r) == {l \in Pairs : links[l] > 0 /\ l[1] = r}
LinksOf(r)    == {l \in Pairs : links[l] > 0 /\ (l[1] = r \/ l[2] = r)}

\* m_reactor_connections without one entry of each of the pairs ls.
EraseBug(ls) == [l \in Pairs |-> IF l \in ls THEN 0 ELSE links[l]]
Erase(ls)    == [l \in Pairs |-> IF l \in ls /\ links[l] > 0 THEN links[l] - 1 ELSE links[l]]

TempsOf(r)    == {c \in temps : c.reactor = r}

\* removeConnectionConfigNoLock(): the elements without those of the pairs ls.
NodesWithout(ls) == linkNodes \ ls

\* Which feeds learn that their connection ends.
NotifiedBug(cs) == {}
Notified(cs)    == {c.feed : c \in cs}

\* The m_connections of all Reactors after the removal of connections and temporary outputs.
Disconnect(ls, cs) ==
    [r \in Reactors |-> {k \in outputs[r] :
        /\ <<r, k>> \notin ls
        /\ \A c \in cs : ~(c.out /\ c.reactor = r /\ c.feed = k)}]

\* removeConnectionNoLock() throws if the Reactor the connection leads from is
\* gone, or does not have it (any more); removeConnectionConfigNoLock() if it
\* has no element.
Removable(l)  == object[l[1]] = "live" /\ l[2] \in outputs[l[1]] /\ l \in linkNodes
Detachable(c) == c.out => object[c.reactor] = "live" /\ c.feed \in outputs[c.reactor]

Forget(fs) == [f \in Feeds |-> IF f \in fs THEN NULL ELSE pointer[f]]

\* The removed_handlers of the feeds fs.  One that has not stored its pointer
\* yet is told too early.
Tell(fs) ==
    /\ pointer' = Forget(fs)
    /\ missed' = missed \cup {f \in fs \cap Feeds : promised[f] # NULL}
    /\ UNCHANGED promised

\* A TempConnection: the constructor takes three strings.
Registration(f, r, out) == [feed |-> f, reactor |-> r, out |-> out]

\* History: which of the Reactors rs are connected while removeReactor() is
\* between its two halves.
Connected(rs) == late' = late \cup {r \in rs : \E t \in Threads : pc[t] = "remove" /\ target[t] = r}

Idle(t) == pc[t] = "idle" /\ todo[t] = {}

-----------------------------------------------------------------------------
(* Reactors *)

\* addReactor() -> PluginConfig::addPlugin(): a new Reactor in a workspace,
\* started unless it is a collector or its configuration says otherwise.
AddReactor(t, r, w) ==
    /\ Idle(t) /\ object[r] = "none"
    /\ object' = [object EXCEPT ![r] = "live"]
    /\ \E b \in BOOLEAN : running' = [running EXCEPT ![r] = b]
    /\ nodes' = nodes \cup {r}
    /\ space' = [space EXCEPT ![r] = w]
    /\ UNCHANGED <<outputs, links, temps, isRunning, linkNodes, spaceNodes,
                   threads, reactions, feeds, late, saves>>

\* The same when Reactor::setConfig() throws, e.g. MissingWorkspaceException:
\* PluginManager::load() has the Reactor already.
AddReactorRejected(t, r) ==
    /\ Idle(t) /\ object[r] = "none"
    /\ object' = [object EXCEPT ![r] = "live"]
    /\ UNCHANGED <<running, outputs, links, temps, isRunning, config, threads,
                   reactions, feeds, late, saves>>

\* removeReactor(), first half, under the engine's mutex: stop the Reactor
\* (stopReactor() wants its configuration element), remove its connections,
\* tell its feeds.
RemoveBegin(t, r) ==
    /\ object[r] = "live" /\ (running[r] => r \in nodes)
    /\ \A l \in LinksOf(r) : Removable(l) /\ links[l] = 1
    /\ \A c \in TempsOf(r) : Detachable(c)
    /\ running' = [running EXCEPT ![r] = FALSE]
    /\ links' = Erase(LinksOf(r))
    /\ linkNodes' = NodesWithout(LinksOf(r))
    /\ temps' = temps \ TempsOf(r)
    /\ outputs' = Disconnect(LinksOf(r), TempsOf(r))
    /\ Tell(Notified(TempsOf(r)))
    /\ pc' = [pc EXCEPT ![t] = "remove"]
    /\ target' = [target EXCEPT ![t] = r]
    /\ UNCHANGED <<object, isRunning, nodes, space, spaceNodes, reactions, late, saves>>

RemoveReactor(t, r) ==
    /\ Idle(t) /\ RemoveBegin(t, r) /\ UNCHANGED todo

\* A call that disconnects the pairs ls cannot save the configuration.
Unsaved(ls) ==
    /\ ls # {} => failures < MaxFailures
    /\ unsaved' = [l \in Pairs |-> IF l \in ls THEN unsaved[l] + 1 ELSE unsaved[l]]
    /\ failures' = IF ls = {} THEN failures ELSE failures + 1

\* One of them throws on the way, or a ConfigWriteLock times out: what was done
\* stays done, and the loop of removeReactorsFromWorkspace() ends.  done are the
\* connections that were removed; kept is the one whose output and element are
\* gone, but not its entry, because saveConfigFile() threw; gone are the feeds.
RemoveThrows(t, r) ==
    /\ pc[t] = "idle" /\ (r \in todo[t] \/ todo[t] = {}) /\ object[r] = "live"
    /\ \E done \in SUBSET {l \in LinksOf(r) : Removable(l)},
         gone \in SUBSET {c \in TempsOf(r) : Detachable(c)} :
       \E kept \in {{}} \cup {{l} : l \in {k \in LinksOf(r) \ done : Removable(k)}} :
          /\ gone # {} => done = LinksOf(r) /\ \A l \in done : links[l] = 1
          /\ links' = Erase(done)
          /\ linkNodes' = NodesWithout(done \cup kept)
          /\ temps' = temps \ gone
          /\ outputs' = Disconnect(done \cup kept, gone)
          /\ Tell(Notified(gone)) /\ Unsaved(kept)
          /\ running' \in {[running EXCEPT ![r] = FALSE]}
                         \cup (IF done = {} /\ kept = {} /\ gone = {} THEN {running} ELSE {})
    /\ todo' = [todo EXCEPT ![t] = {}]
    /\ UNCHANGED <<object, isRunning, nodes, space, spaceNodes, pc, target, reactions, late>>

\* The second half, after the mutex was released: PluginConfig::removePlugin().
\* If it throws - ReactorNotFoundException, no element, no file - the for_each
\* of removeReactorsFromWorkspace() ends.
RemoveFinish(t) ==
    /\ pc[t] = "remove"
    /\ LET r == target[t] IN
       /\ IF object[r] = "live"
          THEN /\ object' = [object EXCEPT ![r] = "destroyed"]
               /\ running' = [running EXCEPT ![r] = FALSE]
               /\ outputs' = [outputs EXCEPT ![r] = {}]
               /\ nodes' = nodes \ {r}
               /\ space' = [space EXCEPT ![r] = NULL]
          ELSE UNCHANGED <<object, running, outputs, nodes, space>>
       /\ \E left \in {{}} \cup (IF object[r] = "live" /\ r \in nodes THEN {todo[t] \ {r}} ELSE {}) :
             todo' = [todo EXCEPT ![t] = left]
    /\ pc' = [pc EXCEPT ![t] = "idle"]
    /\ target' = [target EXCEPT ![t] = NULL]
    /\ UNCHANGED <<links, temps, isRunning, linkNodes, spaceNodes, reactions, feeds, late, saves>>

\* startReactor() and stopReactor() take no mutex: PluginManager::run() gets
\* the pointer under its own, and then calls the Reactor.
StartReactor(t, r, op) ==
    /\ Idle(t) /\ r \in nodes /\ object[r] = "live"
    /\ pc' = [pc EXCEPT ![t] = op]
    /\ target' = [target EXCEPT ![t] = r]
    /\ UNCHANGED <<memory, config, todo, reactions, feeds, late, saves>>

StartCall(t) ==
    /\ pc[t] \in {"start", "stop"}
    /\ running' = [running EXCEPT ![target[t]] = (pc[t] = "start" /\ object[target[t]] = "live")]
    /\ pc' = [pc EXCEPT ![t] = "idle"]
    /\ target' = [target EXCEPT ![t] = NULL]
    /\ UNCHANGED <<object, outputs, links, temps, isRunning, config, todo,
                   reactions, feeds, late, saves>>

-----------------------------------------------------------------------------
(* Connections *)

AddReactorConnection(t, x, y) ==
    /\ Idle(t) /\ {x, y} \subseteq Live /\ y \notin outputs[x]
    /\ outputs' = [outputs EXCEPT ![x] = @ \cup {y}]
    /\ links' = [links EXCEPT ![<<x, y>>] = @ + 1]
    /\ linkNodes' = linkNodes \cup {<<x, y>>}
    /\ Connected({x, y})
    /\ UNCHANGED <<object, running, temps, isRunning, nodes, space, spaceNodes,
                   threads, reactions, feeds, saves>>

\* By the two Reactors or by identifier: the first erases the entry before the
\* configuration is saved, the second after that.
RemoveReactorConnection(t, x, y) ==
    /\ Idle(t) /\ Removable(<<x, y>>) /\ links[<<x, y>>] > 0
    /\ outputs' = [outputs EXCEPT ![x] = @ \ {y}]
    /\ linkNodes' = NodesWithout({<<x, y>>})
    /\ \/ links' = Erase({<<x, y>>}) /\ UNCHANGED saves
       \/ Unsaved({<<x, y>>}) /\ UNCHANGED links
    /\ UNCHANGED <<object, running, temps, isRunning, nodes, space, spaceNodes,
                   threads, reactions, feeds, late>>

\* A feed is connected to a Reactor.  An input gets a pointer to it ...
AddTempConnectionIn(f, r) ==
    /\ object[r] = "live" /\ \A c \in temps : c.feed # f
    /\ promised[f] = NULL /\ pointer[f] = NULL /\ f \notin missed
    /\ temps' = temps \cup {Registration(f, r, FALSE)}
    /\ promised' = [promised EXCEPT ![f] = r]
    /\ Connected({r})
    /\ UNCHANGED <<object, running, outputs, links, isRunning, config, threads, reactions,
                   pointer, missed, saves>>

\* ... which FeedReader::start() stores when the engine's mutex is free again.
StorePointer(f) ==
    /\ promised[f] # NULL
    /\ pointer' = [pointer EXCEPT ![f] = promised[f]]
    /\ promised' = [promised EXCEPT ![f] = NULL]
    /\ UNCHANGED <<memory, config, threads, reactions, late, missed, saves>>

AddTempConnectionOut(f, r) ==
    /\ object[r] = "live" /\ \A c \in temps : c.feed # f
    /\ promised[f] = NULL /\ pointer[f] = NULL /\ f \notin outputs[r]
    /\ temps' = temps \cup {Registration(f, r, TRUE)}
    /\ outputs' = [outputs EXCEPT ![r] = @ \cup {f}]
    /\ Connected({r})
    /\ UNCHANGED <<object, running, links, isRunning, config, threads, reactions, feeds, saves>>

\* removeTempConnection(): the entry goes first; then the output, unless the
\* Reactor is gone or a ConfigWriteLock times out.  A reader that ends calls it
\* if it has a pointer, and is destroyed.
RemoveTempConnection(f) ==
    /\ promised[f] = NULL
    /\ \/ \E c \in temps :
             /\ c.feed = f /\ (c.out \/ pointer[f] # NULL)
             /\ temps' = temps \ {c}
             /\ \E cs \in {{}} \cup (IF object[c.reactor] = "live" THEN {{c}} ELSE {}) :
                   outputs' = Disconnect({}, cs)
       \/ /\ pointer[f] # NULL /\ \A c \in temps : c.feed # f
          /\ UNCHANGED <<temps, outputs>>
    /\ pointer' = Forget({f})
    /\ UNCHANGED <<object, running, links, isRunning, config, threads, reactions, late,
                   promised, missed, saves>>

-----------------------------------------------------------------------------
(* Events *)

\* send() and deliverEvent() put a reference to the Reactor in the queue ...
Send(r) ==
    /\ object[r] = "live"
    /\ reactions' = reactions \cup {r}
    /\ UNCHANGED <<memory, config, threads, feeds, late, saves>>

Deliver(x, y) ==
    /\ object[x] = "live" /\ running[x] /\ y \in outputs[x] \cap Reactors /\ running[y]
    /\ reactions' = reactions \cup {y}
    /\ UNCHANGED <<memory, config, threads, feeds, late, saves>>

\* ... and a worker takes it out and calls it.
React(r) ==
    /\ r \in reactions
    /\ reactions' = reactions \ {r}
    /\ UNCHANGED <<memory, config, threads, feeds, late, saves>>

-----------------------------------------------------------------------------
(* The engine and its workspaces *)

Start ==
    /\ ~isRunning /\ isRunning' = TRUE
    /\ UNCHANGED <<object, running, outputs, links, temps, config, threads, reactions, feeds, late, saves>>

\* stopNoLock(): end the temporary connections, stop every Reactor, clear the
\* queue.  If one of them cannot be removed, it throws before it stops anything,
\* and keeps the list.
Stop ==
    /\ isRunning /\ \A c \in temps : Detachable(c)
    /\ outputs' = Disconnect({}, temps)
    /\ Tell(Notified(temps))
    /\ temps' = {}
    /\ running' = [r \in Reactors |-> FALSE]
    /\ reactions' = {}
    /\ isRunning' = FALSE
    /\ UNCHANGED <<object, links, config, threads, late, saves>>

\* A ConfigWriteLock times out: in the loop over the temporary connections, or
\* after it, when the Reactors are stopped.
StopThrows ==
    /\ isRunning
    /\ \/ \E done \in SUBSET {c \in temps : Detachable(c)} :
            /\ done # temps
            /\ outputs' = Disconnect({}, done)
            /\ Tell(Notified(done))
            /\ UNCHANGED <<running, temps>>
       \/ /\ \A c \in temps : Detachable(c)
          /\ outputs' = Disconnect({}, temps)
          /\ Tell(Notified(temps))
          /\ temps' = {}
          /\ \E rs \in SUBSET Reactors : running' = [r \in Reactors |-> running[r] /\ r \notin rs]
    /\ UNCHANGED <<object, links, isRunning, config, threads, reactions, late, saves>>

\* addWorkspace(): the element is in the tree even if its content is rejected.
AddWorkspace(w) ==
    /\ w \notin spaceNodes
    /\ spaceNodes' = spaceNodes \cup {w}
    /\ UNCHANGED <<memory, nodes, space, linkNodes, threads, reactions, feeds, late, saves>>

RemoveWorkspace(w) ==
    /\ w \in spaceNodes /\ \A r \in nodes : space[r] # w
    /\ spaceNodes' = spaceNodes \ {w}
    /\ UNCHANGED <<memory, nodes, space, linkNodes, threads, reactions, feeds, late, saves>>

\* removeReactorsFromWorkspace(): list the Reactors, release the mutex, and
\* remove them one by one.  An exception ends the loop.
RemoveReactorsFromWorkspace(t, w) ==
    /\ Idle(t) /\ w \in spaceNodes
    /\ todo' = [todo EXCEPT ![t] = {r \in nodes : space[r] = w}]
    /\ UNCHANGED <<memory, config, pc, target, reactions, feeds, late, saves>>

RemoveNext(t) ==
    /\ pc[t] = "idle"
    /\ \E r \in todo[t] :
          \/ RemoveBegin(t, r) /\ UNCHANGED todo
          \/ /\ object[r] # "live"
             /\ todo' = [todo EXCEPT ![t] = {}]
             /\ UNCHANGED <<memory, config, pc, target, reactions, feeds, late, saves>>

-----------------------------------------------------------------------------
Init ==
    /\ object = [r \in Reactors |-> "none"]
    /\ running = [r \in Reactors |-> FALSE]
    /\ outputs = [r \in Reactors |-> {}]
    /\ links = [l \in Pairs |-> 0] /\ temps = {} /\ isRunning = TRUE
    /\ nodes = {} /\ space = [r \in Reactors |-> NULL]
    /\ linkNodes = {} /\ spaceNodes = {}
    /\ pc = [t \in Threads |-> "idle"] /\ target = [t \in Threads |-> NULL]
    /\ todo = [t \in Threads |-> {}] /\ late = {}
    /\ reactions = {} /\ missed = {}
    /\ promised = [f \in Feeds |-> NULL] /\ pointer = [f \in Feeds |-> NULL]
    /\ unsaved = [l \in Pairs |-> 0] /\ failures = 0

Administer(t) ==
    \/ \E r \in Reactors :
          \/ \E w \in Spaces : AddReactor(t, r, w)
          \/ AddReactorRejected(t, r)
          \/ RemoveReactor(t, r) \/ RemoveThrows(t, r)
          \/ \E op \in {"start", "stop"} : StartReactor(t, r, op)
    \/ \E x, y \in Reactors : AddReactorConnection(t, x, y) \/ RemoveReactorConnection(t, x, y)
    \/ RemoveFinish(t) \/ StartCall(t) \/ RemoveNext(t)
    \/ \E w \in Spaces : RemoveReactorsFromWorkspace(t, w)

Next ==
    \/ \E t \in Threads : Administer(t)
    \/ \E f \in Feeds : \/ \E r \in Reactors : AddTempConnectionIn(f, r) \/ AddTempConnectionOut(f, r)
                        \/ StorePointer(f) \/ RemoveTempConnection(f)
    \/ \E r \in Reactors : Send(r) \/ React(r)
    \/ \E x, y \in Reactors : Deliver(x, y)
    \/ Start \/ Stop \/ StopThrows
    \/ \E w \in Spaces : AddWorkspace(w) \/ RemoveWorkspace(w)

Spec == Init /\ [][Next]_vars

-----------------------------------------------------------------------------
(* Properties *)

\* A Reactor sends Events exactly where the configuration says, also after
\* removals that threw half-way, so that a restart gives the same topology.
OutputsAgree ==
    \A x \in Live : outputs[x] \cap Reactors = {y \in Reactors : <<x, y>> \in linkNodes}

\* m_reactor_connections has an entry for each connection of the configuration,
\* by which the removal of a Reactor finds it, and one too many for each
\* disconnection that could not be saved; an exception anywhere else leaves none.
RecordsAgree ==
    \A l \in Pairs : links[l] = unsaved[l] + (IF l \in linkNodes THEN 1 ELSE 0)

\* What removeReactor(), removeReactorConnection() and addReactorConnection()
\* record of the topology in three places agrees, whatever throws and wherever,
\* but for the entries that ReactionEngine.cpp:307 and :608 come too late for.
TopologyAgrees == TypeOK /\ OutputsAgree /\ RecordsAgree

\* Who has got a pointer from addTempConnectionIn() is registered, and will be
\* told when the Reactor is removed, or was told before the pointer was stored
\* (FeedService.cpp:178).
PointersRegistered ==
    \A f \in Feeds \ missed : \A p \in {promised[f], pointer[f]} \ {NULL} :
        Registration(f, p, FALSE) \in temps

\* "disconnect any Reactor connections involving the Reactor being removed"
\* (ReactionEngine.cpp:299), and a feed's pointer is not used after "the
\* removed_handler has been called" (ReactionEngine.hpp:265): a connection or
\* pointer of any kind leads to a Reactor that exists, unless it was made
\* between the two locked halves of removeReactor() (ReactionEngine.cpp:330),
\* or stored after the removed_handler had been called (FeedService.cpp:178).
NoDangling ==
    LET ok == Live \cup late IN
    /\ \A l \in Pairs : links[l] > 0 \/ l \in linkNodes => {l[1], l[2]} \subseteq ok
    /\ \A c \in temps : c.reactor \in ok
    /\ \A f \in Feeds \ missed : {promised[f], pointer[f]} \subseteq ok \cup {NULL}
=============================================================================

-------------------------------- MODULE Feeds --------------------------------
(***************************************************************************)
(* Event feeds over HTTP (platform/services/FeedService.cpp) and the part  *)
(* of the ReactionEngine they call: a FeedReader reads Events from a peer  *)
(* and passes them to a Reactor, a FeedWriter is an output connection of   *)
(* the Reactor.  Feeds have a mutex each, which they hold in calls of the  *)
(* engine; the engine holds its own in calls of their handlers.            *)
(* There is one Reactor and one thread that removes it or stops the engine.*)
(***************************************************************************)
EXTENDS FiniteSets

CONSTANTS Readers,  \* FeedReaders, each with the thread that runs start()
          Writers,  \* FeedWriters, each with the thread that runs start()
          Workers,  \* threads of the engine's scheduler
          Admin,    \* the thread that removes the Reactor or stops the engine
          NULL

ASSUME FeedsAssumption ==
    /\ Readers \cap Writers = {} /\ Readers \cap Workers = {} /\ Writers \cap Workers = {}
    /\ Admin \notin Readers \cup Writers \cup Workers
    /\ NULL \notin Readers \cup Writers \cup Workers \cup {Admin}

Feeds   == Readers \cup Writers
Callers == Readers \cup Workers        \* threads that may call a Reactor
Threads == Feeds \cup Workers \cup {Admin}

VARIABLES
    pc,         \* where a thread is
    engine,     \* owner of the engine's m_mutex
    mutex,      \* owner of a feed's m_mutex
    object,     \* the Reactor: "live" or "destroyed"
    running,    \* its m_is_running
    registered, \* m_temp_connections
    outputs,    \* m_connections of the Reactor
    pointer,    \* whether a reader's m_reactor_ptr is set
    open,       \* a feed's TCP stream
    rest,       \* connections to which a thread has yet to deliver its Event
    sending,    \* the connection it is writing to
    posted,     \* deliveries in the scheduler's queue
    cleanup,    \* removeTempConnection() in that queue
    todo,       \* what the administrator has yet to disconnect ...
    notify,     \* ... and the feed whose handler it calls
    told        \* history: feeds whose removed_handler was called

locks   == <<engine, mutex>>
reactor == <<object, running, registered, outputs>>
queue   == <<posted, cleanup>>
calls   == <<rest, sending>>
admin   == <<todo, notify>>
vars    == <<pc, locks, reactor, pointer, open, calls, queue, admin, told>>

TypeOK ==
    /\ pc \in [Threads -> {"new", "assign", "add", "respond", "send", "read", "have", "process",
                           "deliver", "write", "exit", "unregister", "done", "idle",
                           "removing", "stopping", "destroy"}]
    /\ engine \in {NULL, Admin} /\ mutex \in [Feeds -> Threads \cup {NULL}]
    /\ object \in {"live", "destroyed"} /\ running \in BOOLEAN
    /\ registered \subseteq Feeds /\ outputs \subseteq Writers
    /\ pointer \in [Readers -> BOOLEAN] /\ open \in [Feeds -> BOOLEAN]
    /\ rest \in [Callers -> SUBSET Writers] /\ sending \in [Callers -> Writers \cup {NULL}]
    /\ posted \subseteq Writers /\ cleanup \subseteq Writers
    /\ todo \subseteq Feeds /\ notify \in Feeds \cup {NULL}
    /\ told \subseteq Feeds

-----------------------------------------------------------------------------
(* Conditions.  A definition whose name ends in "Bug" is the one after it     *)
(* with a slip of the kind the properties are meant to catch.                 *)

Goto(t, l) == pc' = [pc EXCEPT ![t] = l]

FreeBug(f) == TRUE
Free(f)    == mutex[f] = NULL

Lock(f, t) == mutex' = [mutex EXCEPT ![f] = t]
Unlock(f)  == mutex' = [mutex EXCEPT ![f] = NULL]

\* Threads with a ConfigReadLock of the Reactor: a ConfigWriteLock waits for
\* them, and gives up with an exception.
Active == {t \in Callers : pc[t] = "deliver"}

\* What writeEvent() does with an Event when its turn comes.
CanSendBug(w) == TRUE
CanSend(w)    == open[w]

\* What start() of a FeedWriter holds while it registers and responds.
HeldByStartBug(w) == NULL
HeldByStart(w)    == w

\* Whether a reader that has an Event may use its pointer.
MayUseBug(f) == TRUE
MayUse(f)    == pointer[f]

\* Whether the new connection also gets Events from the Reactor.
Connect(f) == outputs \cup ({f} \cap Writers)

-----------------------------------------------------------------------------
(* FeedReader *)

\* addTempConnectionIn() under the engine's mutex; the caller has the pointer
\* but has not stored it.  Without a Reactor it throws.
ReaderAdd(f) ==
    /\ pc[f] = "new" /\ engine = NULL
    /\ IF object = "live"
       THEN registered' = registered \cup {f} /\ outputs' = Connect(f) /\ Goto(f, "assign")
       ELSE Goto(f, "done") /\ UNCHANGED <<registered, outputs>>
    /\ UNCHANGED <<locks, object, running, pointer, open, calls, queue, admin, told>>

ReaderAssign(f) ==
    /\ pc[f] = "assign"
    /\ pointer' = [pointer EXCEPT ![f] = TRUE]
    /\ Goto(f, "respond")
    /\ UNCHANGED <<locks, reactor, open, calls, queue, admin, told>>

\* sendResponse(): writeConnectionsXML() throws if the connection is not there.
ReaderRespond(f) ==
    /\ pc[f] = "respond" /\ engine = NULL
    /\ Goto(f, IF f \in registered THEN "send" ELSE "done")
    /\ UNCHANGED <<locks, reactor, pointer, open, calls, queue, admin, told>>

\* The peer gets the response, or start() returns.
ReaderSend(f) ==
    /\ pc[f] = "send"
    /\ \/ open[f] /\ Goto(f, "read")
       \/ Goto(f, "done")
    /\ UNCHANGED <<locks, reactor, pointer, open, calls, queue, admin, told>>

\* An Event arrives, or the stream ends or the codec throws.
ReaderRead(f) ==
    /\ pc[f] = "read"
    /\ \/ open[f] /\ Goto(f, "have")
       \/ Goto(f, "exit")
    /\ UNCHANGED <<locks, reactor, pointer, open, calls, queue, admin, told>>

ReaderLock(f) ==
    /\ pc[f] = "have" /\ Free(f)
    /\ IF MayUse(f)
       THEN Lock(f, f) /\ Goto(f, "process")
       ELSE Goto(f, "done") /\ UNCHANGED mutex
    /\ UNCHANGED <<engine, reactor, pointer, open, calls, queue, admin, told>>

\* The Reactor is not running or the call is over: release the mutex.  The
\* call may also throw.
ReaderDone(f) ==
    /\ pc[f] \in {"process", "deliver"} /\ rest[f] = {}
    /\ Unlock(f)
    /\ \E l \in {"read", "exit"} : Goto(f, l)
    /\ UNCHANGED <<engine, reactor, pointer, open, calls, queue, admin, told>>

ReaderExit(f) ==
    /\ pc[f] = "exit" /\ Free(f)
    /\ IF pointer[f]
       THEN Lock(f, f) /\ Goto(f, "unregister")
       ELSE Goto(f, "done") /\ UNCHANGED mutex
    /\ UNCHANGED <<engine, reactor, pointer, open, calls, queue, admin, told>>

\* removeTempConnection() wants the engine's mutex, m_mutex is held.
ReaderUnregister(f) ==
    /\ pc[f] = "unregister" /\ engine = NULL
    /\ registered' = registered \ {f}
    /\ Unlock(f) /\ Goto(f, "done")
    /\ UNCHANGED <<engine, object, running, outputs, pointer, open, calls, queue, admin, told>>

-----------------------------------------------------------------------------
(* FeedWriter::start(), with its mutex *)

WriterLock(w) ==
    /\ pc[w] = "new" /\ Free(w)
    /\ Lock(w, HeldByStart(w)) /\ Goto(w, "add")
    /\ UNCHANGED <<engine, reactor, pointer, open, calls, queue, admin, told>>

\* addTempConnectionOut(): the Reactor may be gone, or its ConfigWriteLock may time out.
WriterAdd(w) ==
    /\ pc[w] = "add" /\ engine = NULL
    /\ \/ /\ object = "live" /\ Active = {}
          /\ registered' = registered \cup {w}
          /\ outputs' = Connect(w)
          /\ Goto(w, "respond") /\ UNCHANGED mutex
       \/ /\ object = "destroyed" \/ Active # {}
          /\ Unlock(w) /\ Goto(w, "done")
          /\ UNCHANGED <<registered, outputs>>
    /\ UNCHANGED <<engine, object, running, pointer, open, calls, queue, admin, told>>

WriterRespond(w) ==
    /\ pc[w] = "respond" /\ engine = NULL
    /\ IF w \in registered
       THEN Goto(w, "send") /\ UNCHANGED mutex
       ELSE Unlock(w) /\ Goto(w, "done")
    /\ UNCHANGED <<engine, reactor, pointer, open, calls, queue, admin, told>>

WriterSend(w) ==
    /\ pc[w] = "send"
    /\ Unlock(w) /\ Goto(w, "done")
    /\ UNCHANGED <<engine, reactor, pointer, open, calls, queue, admin, told>>

-----------------------------------------------------------------------------
(* Reactor::process() with its read lock, and FeedWriter::writeEvent() *)

WorkerProcess(k) ==
    /\ pc[k] = "idle" /\ object = "live" /\ running
    /\ Goto(k, "process")
    /\ UNCHANGED <<locks, reactor, pointer, open, calls, queue, admin, told>>

\* With its read lock, process() calls deliverEvent(): every connection in turn,
\* or with m_multithread_branches one here and the others through the scheduler.
Deliver(t) ==
    /\ t \in Callers /\ pc[t] = "process" /\ object = "live" /\ running
    /\ \E now \in SUBSET outputs :
          /\ now = outputs \/ Cardinality(now) = 1
          /\ rest' = [rest EXCEPT ![t] = now]
          /\ posted' = posted \cup (outputs \ now)
    /\ Goto(t, "deliver")
    /\ UNCHANGED <<locks, reactor, pointer, open, sending, cleanup, admin, told>>

WorkerDone(k) ==
    /\ pc[k] \in {"process", "deliver", "write"} /\ rest[k] = {}
    /\ Goto(k, "idle")
    /\ UNCHANGED <<locks, reactor, pointer, open, calls, queue, admin, told>>

WorkerTakes(k, w) ==
    /\ pc[k] = "idle" /\ w \in posted
    /\ posted' = posted \ {w}
    /\ rest' = [rest EXCEPT ![k] = {w}]
    /\ Goto(k, "write")
    /\ UNCHANGED <<locks, reactor, pointer, open, sending, cleanup, admin, told>>

WriteEvent(t, w) ==
    /\ w \in rest[t] /\ sending[t] = NULL /\ Free(w)
    /\ IF CanSend(w)
       THEN /\ Lock(w, t)
            /\ sending' = [sending EXCEPT ![t] = w]
            /\ UNCHANGED <<rest, cleanup>>
       ELSE /\ cleanup' = cleanup \cup {w}
            /\ rest' = [rest EXCEPT ![t] = @ \ {w}]
            /\ UNCHANGED <<mutex, sending>>
    /\ UNCHANGED <<pc, engine, reactor, pointer, open, posted, admin, told>>

\* The codec is done, or it threw.
WriteDone(t) ==
    /\ sending[t] # NULL
    /\ \/ UNCHANGED cleanup
       \/ cleanup' = cleanup \cup {sending[t]}
    /\ rest' = [rest EXCEPT ![t] = @ \ {sending[t]}]
    /\ Unlock(sending[t])
    /\ sending' = [sending EXCEPT ![t] = NULL]
    /\ UNCHANGED <<pc, engine, reactor, pointer, open, posted, admin, told>>

\* removeTempConnection() of a lost connection.  It is erased first; then
\* Reactor::removeConnection() may give up, and the scheduler logs that.
Cleanup(k, w) ==
    /\ pc[k] = "idle" /\ w \in cleanup /\ engine = NULL
    /\ cleanup' = cleanup \ {w}
    /\ registered' = registered \ {w}
    /\ \/ object = "live" /\ w \in registered /\ Active = {} /\ outputs' = outputs \ {w}
       \/ ~(object = "live" /\ w \in registered /\ Active = {}) /\ UNCHANGED outputs
    /\ UNCHANGED <<pc, locks, object, running, pointer, open, calls, posted, admin, told>>

LoseConnection(f) ==
    /\ open[f]
    /\ open' = [open EXCEPT ![f] = FALSE]
    /\ UNCHANGED <<pc, locks, reactor, pointer, calls, queue, admin, told>>

-----------------------------------------------------------------------------
(* ReactionEngine::removeReactor() and stop(), with the engine's mutex *)

\* stopReactor() first; if its ConfigWriteLock times out, that is all.
RemoveReactor ==
    /\ pc[Admin] = "idle" /\ engine = NULL /\ object = "live"
    /\ running => Active = {}
    /\ engine' = Admin
    /\ running' = FALSE
    /\ todo' = registered
    /\ Goto(Admin, "removing")
    /\ UNCHANGED <<mutex, object, registered, outputs, pointer, open, calls, queue, notify, told>>

\* The engine can be started again at once, so stop() may come at any time.
StopEngine ==
    /\ pc[Admin] = "idle" /\ engine = NULL
    /\ engine' = Admin
    /\ todo' = registered
    /\ Goto(Admin, "stopping")
    /\ UNCHANGED <<mutex, reactor, pointer, open, calls, queue, notify, told>>

\* removeConnectionNoLock() if the feed is an output.
Disconnect(f) ==
    /\ f \in todo /\ notify = NULL
    /\ f \in Writers => f \in outputs /\ object = "live" /\ Active = {}
    /\ outputs' = outputs \ {f}
    /\ todo' = todo \ {f}
    /\ notify' = f
    /\ UNCHANGED <<pc, locks, object, running, registered, pointer, open, calls, queue, told>>

\* It throws if the connection or the Reactor is not there, or after a time-out.
DisconnectThrows(f) ==
    /\ f \in todo \cap Writers /\ notify = NULL
    /\ f \notin outputs \/ object # "live" \/ Active # {}
    /\ engine' = NULL /\ todo' = {}
    /\ Goto(Admin, "idle")
    /\ UNCHANGED <<mutex, reactor, pointer, open, calls, queue, notify, told>>

\* The removed_handler: reactorWasRemoved(), or writeEvent() with a null Event.
\* removeReactor() erases the entry, stopNoLock() clears the list at its end.
Notify ==
    /\ notify # NULL /\ Free(notify)
    /\ open' = [open EXCEPT ![notify] = FALSE]
    /\ pointer' = [f \in Readers |-> pointer[f] /\ f # notify]
    /\ told' = told \cup {notify}
    /\ registered' = IF pc[Admin] = "removing" THEN registered \ {notify} ELSE registered
    /\ notify' = NULL
    /\ UNCHANGED <<pc, locks, object, running, outputs, calls, queue, todo>>

AllNotified ==
    /\ todo = {} /\ notify = NULL
    /\ \/ /\ pc[Admin] = "removing"
          /\ Goto(Admin, "destroy") /\ UNCHANGED <<running, registered, posted>>
       \/ /\ pc[Admin] = "stopping" /\ Active = {}      \* m_plugins.run(stop)
          /\ running' = FALSE /\ registered' = {} /\ posted' = {}
          /\ Goto(Admin, "idle")
       \/ /\ pc[Admin] = "stopping" /\ Active # {}      \* that times out
          /\ registered' = {}
          /\ Goto(Admin, "idle") /\ UNCHANGED <<running, posted>>
    /\ engine' = NULL
    /\ UNCHANGED <<mutex, object, outputs, pointer, open, calls, cleanup, admin, told>>

\* PluginConfig::removePlugin(), without the engine's mutex.
Destroy ==
    /\ pc[Admin] = "destroy"
    /\ object' = "destroyed" /\ outputs' = {}
    /\ Goto(Admin, "idle")
    /\ UNCHANGED <<locks, running, registered, pointer, open, calls, queue, admin, told>>

StartReactor ==
    /\ pc[Admin] = "idle" /\ object = "live" /\ ~running /\ Active = {}
    /\ running' = TRUE
    /\ UNCHANGED <<pc, locks, object, registered, outputs, pointer, open, calls, queue, admin, told>>

-----------------------------------------------------------------------------
Init ==
    /\ pc = [t \in Threads |-> IF t \in Feeds THEN "new" ELSE "idle"]
    /\ engine = NULL /\ mutex = [f \in Feeds |-> NULL]
    /\ object = "live" /\ running = TRUE
    /\ registered = {} /\ outputs = {}
    /\ pointer = [f \in Readers |-> FALSE] /\ open = [f \in Feeds |-> TRUE]
    /\ rest = [t \in Callers |-> {}] /\ sending = [t \in Callers |-> NULL]
    /\ posted = {} /\ cleanup = {}
    /\ todo = {} /\ notify = NULL /\ told = {}

Read(f) ==
    \/ ReaderAdd(f) \/ ReaderAssign(f) \/ ReaderRespond(f) \/ ReaderSend(f) \/ ReaderRead(f)
    \/ ReaderLock(f) \/ ReaderDone(f) \/ ReaderExit(f) \/ ReaderUnregister(f)

StartWriter(w) == WriterLock(w) \/ WriterAdd(w) \/ WriterRespond(w) \/ WriterSend(w)

Work(k) ==
    \/ WorkerProcess(k) \/ WorkerDone(k)
    \/ \E w \in Writers : WorkerTakes(k, w) \/ Cleanup(k, w)

Administer ==
    \/ RemoveReactor \/ StopEngine \/ Notify \/ AllNotified \/ Destroy \/ StartReactor
    \/ \E f \in Feeds : Disconnect(f) \/ DisconnectThrows(f)

Next ==
    \/ \E f \in Readers : Read(f)
    \/ \E w \in Writers : StartWriter(w)
    \/ \E k \in Workers : Work(k)
    \/ \E t \in Callers : Deliver(t) \/ WriteDone(t) \/ \E w \in Writers : WriteEvent(t, w)
    \/ \E f \in Feeds : LoseConnection(f)
    \/ Administer

Spec == Init /\ [][Next]_vars

-----------------------------------------------------------------------------
(* Properties *)

\* A reader makes sure "that the pointer is not used after the removed_handler
\* has been called" (ReactionEngine.hpp:264), also when the handler runs before
\* start() has stored the pointer.
NotUsedAfterRemoved == \A f \in Readers : pc[f] \in {"process", "deliver"} => f \notin told

\* "lock the mutex to ensure that the HTTP response is sent first"
\* (FeedService.cpp:132): no Event is written while start() is registering and
\* responding.
ResponseFirst ==
    \A t \in Callers : sending[t] # NULL => pc[sending[t]] \notin {"new", "add", "respond", "send"}

\* "only one Event is sent at a time" (FeedService.cpp:104) over a connection,
\* whatever threads deliver to it.
OneAtATime == \A s, t \in Callers : sending[s] = sending[t] /\ sending[s] # NULL => s = t

\* Nothing is written to a connection that was told that its Reactor is gone.
QuietAfterNull == \A t \in Callers : sending[t] \notin told

\* Who a thread waits for.
WaitsFor(s, t) ==
    \/ /\ engine = t /\ s # t
       /\ pc[s] \in {"add", "respond", "unregister"} \/ (s \in Readers /\ pc[s] = "new")
    \/ s = Admin /\ notify # NULL /\ mutex[notify] = t

\* "only if the Reactor pointer is not NULL (to prevent deadlock)"
\* (FeedService.cpp:214): no two threads wait for one another.
NoDeadlock == ~\E s, t \in Threads : WaitsFor(s, t) /\ WaitsFor(t, s)
=============================================================================

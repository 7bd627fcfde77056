----------------------------- MODULE ReactorLock -----------------------------
(***************************************************************************)
(* The configuration lock of one Reactor (platform/include/pion/platform/  *)
(* Reactor.hpp): worker threads that deliver Events or emit signals hold a *)
(* ConfigReadLock, threads that reconfigure, connect, start or stop the    *)
(* Reactor hold a ConfigWriteLock.  Both are made of the flag              *)
(* m_config_change_pending and the counter m_config_num_readers and give   *)
(* up after fifty sleeps; neither is a mutex.  A ConfigWriteLock that finds*)
(* the flag already set takes it for a lock of its own thread and does not *)
(* wait, so the scheme relies on the locks that the callers in             *)
(* ReactionEngine and PluginConfig hold: these are modelled too.  Not all  *)
(* callers hold the same one; the history variable crowded tells when      *)
(* writers have met, and with it what the lock is worth then.              *)
(***************************************************************************)
EXTENDS Naturals, FiniteSets

CONSTANTS Readers,   \* worker threads
          Writers,   \* threads that call the ReactionEngine
          Ops,       \* the operations the writers call in this instance
          MaxSleeps, \* 50 in the code
          MaxWrites, \* bound: operations begun in a behaviour
          Nobody

\* The operations by the mutexes under which the Reactor is written to:
\* connect stands for add/removeReactorConnection and the temporary output
\* connections, configure for setReactorConfig, remove for the stop() that
\* removeReactor calls; update for the callbacks updateVocabulary,
\* updateCodecs, updateDatabases and updateProtocols, which PluginManager::run
\* executes for every plug-in; halt for ReactionEngine::stop.
EngineOps == {"connect", "configure", "remove", "halt"}
PluginOps == {"update", "halt"}
FreeOps   == {"start", "stop"}

ASSUME ReactorLockAssumption ==
    /\ Nobody \notin Writers
    /\ IsFiniteSet(Readers) /\ IsFiniteSet(Writers)
    /\ Ops \subseteq EngineOps \cup PluginOps \cup FreeOps
    /\ MaxSleeps \in Nat /\ MaxWrites \in Nat

VARIABLES
    pending,      \* m_config_change_pending
    numReaders,   \* m_config_num_readers
    reactorOn,    \* m_is_running
    engineMutex,  \* holder of ReactionEngine's m_mutex
    pluginMutex,  \* holder of PluginManager's m_plugin_mutex, during run()
    rpc,          \* control point of each reader
    rkind,        \* what a reader is doing: an Event or a signal
    rsleeps,      \* its sleep_times
    wpc,          \* control point of each writer
    wop,          \* its operation
    already,      \* its m_already_locked
    wsleeps,      \* its sleep_times
    writes,       \* operations begun (bounded by MaxWrites)
    crowded       \* history: have two writers been at the Reactor together,
                  \* and has it not been left by all threads since?

mutexes  == <<engineMutex, pluginMutex>>
rvars    == <<rpc, rkind, rsleeps>>
wvars    == <<wpc, wop, already, wsleeps, writes>>
lockVars == <<pending, numReaders, reactorOn, mutexes, rvars, wvars, crowded>>

ReaderPc == {"idle", "wait", "enter", "recheck", "backout", "locked",
             "processing", "leave"}
WriterPc == {"idle", "called", "test", "claim", "drain", "writing", "leave",
             "return"}

LockTypeOK ==
    /\ pending \in BOOLEAN /\ reactorOn \in BOOLEAN
    /\ numReaders \in Nat
    /\ engineMutex \in Writers \cup {Nobody}
    /\ pluginMutex \in Writers \cup {Nobody}
    /\ rpc \in [Readers -> ReaderPc]
    /\ rkind \in [Readers -> {"event", "signal"}]
    /\ rsleeps \in [Readers -> 0..MaxSleeps + 1]
    /\ wpc \in [Writers -> WriterPc]
    /\ wop \in [Writers -> EngineOps \cup PluginOps \cup FreeOps \cup {Nobody}]
    /\ already \in [Writers -> BOOLEAN]
    /\ wsleeps \in [Writers -> 0..MaxSleeps + 1]
    /\ writes \in 0..MaxWrites
    /\ crowded \in BOOLEAN

\* The threads that hold a ConfigReadLock, and those that are at a ConfigWriteLock.
Active   == {r \in Readers : rpc[r] \in {"locked", "processing", "leave"}}
Inside   == {w \in Writers : wpc[w] \in {"test", "claim", "drain", "writing", "leave"}}
Occupied == Active # {} \/ Inside # {}

-----------------------------------------------------------------------------
(* Conditions.  A definition whose name ends in "Bug" is the one after it      *)
(* with a slip of the kind the properties are meant to catch.                  *)

\* What a reader does when it finds the flag set after counting itself.
BackOutBug == FALSE
BackOut    == pending

\* A reader that found the lock to be pending gives up after MaxSleeps sleeps.
ReaderGivesUpBug(r) == FALSE
ReaderGivesUp(r)    == rsleeps[r] >= MaxSleeps

WriterGivesUpBug(w) == FALSE
WriterGivesUp(w)    == wsleeps[w] >= MaxSleeps

\* A reader counts itself; a writer takes its flag back.
CountBug == numReaders
Count    == numReaders + 1

ReleaseBug(w) == pending
Release(w)    == IF already[w] THEN pending ELSE FALSE

\* One more sleep; sleep_times stops at the value that makes the thread throw.
Slept(n) == IF n <= MaxSleeps THEN n + 1 ELSE n

\* The second isRunning() check, under the lock; signals are not checked.
ProcessesBug(r) == TRUE
Processes(r)    == rkind[r] = "signal" \/ reactorOn

\* Which mutexes an operation's caller holds while the Reactor is written to.
NeedsEngine(op) == op \in EngineOps
NeedsPlugin(op) == op \in PluginOps

-----------------------------------------------------------------------------
(* Readers *)

\* Reactor::operator(): skip the Event unless the Reactor is running.
\* Reactor::signal() does not look.
ReadCall(r, kind) ==
    /\ rpc[r] = "idle"
    /\ kind = "event" => reactorOn
    /\ rpc' = [rpc EXCEPT ![r] = "wait"]
    /\ rkind' = [rkind EXCEPT ![r] = kind]
    /\ rsleeps' = [rsleeps EXCEPT ![r] = 0]
    /\ UNCHANGED <<pending, numReaders, reactorOn, mutexes, wvars, crowded>>

\* while (m_config_change_pending): sleep, or throw ConfigLockException.
ReadWait(r) ==
    /\ rpc[r] = "wait"
    /\ \/ /\ ~pending
          /\ rpc' = [rpc EXCEPT ![r] = "enter"] /\ UNCHANGED rsleeps
       \/ /\ pending /\ ~ReaderGivesUp(r)
          /\ rsleeps' = [rsleeps EXCEPT ![r] = Slept(@)]
          /\ UNCHANGED rpc
       \/ /\ pending /\ ReaderGivesUp(r)
          /\ rpc' = [rpc EXCEPT ![r] = "idle"] /\ UNCHANGED rsleeps
    /\ UNCHANGED <<pending, numReaders, reactorOn, mutexes, rkind, wvars, crowded>>

ReadEnter(r) ==
    /\ rpc[r] = "enter"
    /\ numReaders' = Count
    /\ rpc' = [rpc EXCEPT ![r] = "recheck"]
    /\ UNCHANGED <<pending, reactorOn, mutexes, rkind, rsleeps, wvars, crowded>>

ReadRecheck(r) ==
    /\ rpc[r] = "recheck"
    /\ rpc' = [rpc EXCEPT ![r] = IF BackOut THEN "backout" ELSE "locked"]
    /\ UNCHANGED <<pending, numReaders, reactorOn, mutexes, rkind, rsleeps, wvars, crowded>>

ReadBackOut(r) ==
    /\ rpc[r] = "backout"
    /\ numReaders' = numReaders - 1
    /\ rpc' = [rpc EXCEPT ![r] = "wait"]
    /\ UNCHANGED <<pending, reactorOn, mutexes, rkind, rsleeps, wvars, crowded>>

\* The lock is held: process the Event (or call the signal's observers) unless
\* the Reactor was stopped in the meantime.
ReadProcess(r) ==
    /\ rpc[r] = "locked"
    /\ rpc' = [rpc EXCEPT ![r] = IF Processes(r) THEN "processing" ELSE "leave"]
    /\ UNCHANGED <<pending, numReaders, reactorOn, mutexes, rkind, rsleeps, wvars, crowded>>

\* process() returns or throws.
ReadDone(r) ==
    /\ rpc[r] = "processing"
    /\ rpc' = [rpc EXCEPT ![r] = "leave"]
    /\ UNCHANGED <<pending, numReaders, reactorOn, mutexes, rkind, rsleeps, wvars, crowded>>

\* ~ConfigReadLock
ReadLeave(r) ==
    /\ rpc[r] = "leave"
    /\ numReaders' = numReaders - 1
    /\ rpc' = [rpc EXCEPT ![r] = "idle"]
    /\ UNCHANGED <<pending, reactorOn, mutexes, rkind, rsleeps, wvars>>
    /\ crowded' = (crowded /\ Occupied')

-----------------------------------------------------------------------------
(* Writers *)

\* A thread calls an operation and waits for the mutexes it takes.
WriteCall(w, op) ==
    /\ wpc[w] = "idle" /\ writes < MaxWrites
    /\ writes' = writes + 1
    /\ wop' = [wop EXCEPT ![w] = op]
    /\ wpc' = [wpc EXCEPT ![w] = "called"]
    /\ UNCHANGED <<pending, numReaders, reactorOn, mutexes, rvars, already, wsleeps, crowded>>

WriteMutexes(w) ==
    /\ wpc[w] = "called"
    /\ NeedsEngine(wop[w]) => engineMutex = Nobody
    /\ NeedsPlugin(wop[w]) => pluginMutex = Nobody
    /\ engineMutex' = IF NeedsEngine(wop[w]) THEN w ELSE engineMutex
    /\ pluginMutex' = IF NeedsPlugin(wop[w]) THEN w ELSE pluginMutex
    /\ wpc' = [wpc EXCEPT ![w] = "test"]
    /\ crowded' = (crowded \/ Inside # {})
    /\ UNCHANGED <<pending, numReaders, reactorOn, rvars, wop, already, wsleeps, writes>>

\* ConfigWriteLock's initializer list: is the flag already set?
WriteTest(w) ==
    /\ wpc[w] = "test"
    /\ already' = [already EXCEPT ![w] = pending]
    /\ wsleeps' = [wsleeps EXCEPT ![w] = 0]
    /\ wpc' = [wpc EXCEPT ![w] = IF pending THEN "writing" ELSE "claim"]
    /\ UNCHANGED <<pending, numReaders, reactorOn, mutexes, rvars, wop, writes, crowded>>

WriteClaim(w) ==
    /\ wpc[w] = "claim"
    /\ pending' = TRUE
    /\ wpc' = [wpc EXCEPT ![w] = "drain"]
    /\ UNCHANGED <<numReaders, reactorOn, mutexes, rvars, wop, already, wsleeps, writes, crowded>>

\* while (m_config_num_readers > 0): sleep, or take the flag back and throw.
WriteDrain(w) ==
    /\ wpc[w] = "drain"
    /\ \/ /\ numReaders = 0
          /\ wpc' = [wpc EXCEPT ![w] = "writing"] /\ UNCHANGED <<pending, wsleeps>>
       \/ /\ numReaders > 0 /\ ~WriterGivesUp(w)
          /\ wsleeps' = [wsleeps EXCEPT ![w] = Slept(@)]
          /\ UNCHANGED <<pending, wpc>>
       \/ /\ numReaders > 0 /\ WriterGivesUp(w)
          /\ pending' = FALSE
          /\ wpc' = [wpc EXCEPT ![w] = "return"] /\ UNCHANGED wsleeps
    /\ UNCHANGED <<numReaders, reactorOn, mutexes, rvars, wop, already, writes>>
    /\ crowded' = (crowded /\ Occupied')

\* The write itself: configuration, connections, or the running flag.
Write(w) ==
    /\ wpc[w] = "writing"
    /\ reactorOn' = CASE wop[w] = "start"                     -> TRUE
                      [] wop[w] \in {"stop", "remove", "halt"} -> FALSE
                      [] OTHER                                 -> reactorOn
    /\ wpc' = [wpc EXCEPT ![w] = "leave"]
    /\ UNCHANGED <<pending, numReaders, mutexes, rvars, wop, already, wsleeps, writes, crowded>>

\* ~ConfigWriteLock
WriteLeave(w) ==
    /\ wpc[w] = "leave"
    /\ pending' = Release(w)
    /\ wpc' = [wpc EXCEPT ![w] = "return"]
    /\ UNCHANGED <<numReaders, reactorOn, mutexes, rvars, wop, already, wsleeps, writes>>
    /\ crowded' = (crowded /\ Occupied')

\* The caller's mutexes are released; the operation returns or has thrown.
WriteReturn(w) ==
    /\ wpc[w] = "return"
    /\ engineMutex' = IF engineMutex = w THEN Nobody ELSE engineMutex
    /\ pluginMutex' = IF pluginMutex = w THEN Nobody ELSE pluginMutex
    /\ wpc' = [wpc EXCEPT ![w] = "idle"]
    /\ wop' = [wop EXCEPT ![w] = Nobody]
    /\ UNCHANGED <<pending, numReaders, reactorOn, rvars, already, wsleeps, writes, crowded>>

-----------------------------------------------------------------------------
LockInit ==
    /\ pending = FALSE /\ numReaders = 0
    /\ reactorOn \in BOOLEAN
    /\ engineMutex = Nobody /\ pluginMutex = Nobody
    /\ rpc = [r \in Readers |-> "idle"]
    /\ rkind = [r \in Readers |-> "event"]
    /\ rsleeps = [r \in Readers |-> 0]
    /\ wpc = [w \in Writers |-> "idle"]
    /\ wop = [w \in Writers |-> Nobody]
    /\ already = [w \in Writers |-> FALSE]
    /\ wsleeps = [w \in Writers |-> 0]
    /\ writes = 0 /\ crowded = FALSE

ReaderStep(r) ==
    \/ ReadWait(r) \/ ReadEnter(r) \/ ReadRecheck(r) \/ ReadBackOut(r)
    \/ ReadProcess(r) \/ ReadLeave(r)

WriterStep(w) ==
    \/ WriteMutexes(w) \/ WriteTest(w) \/ WriteClaim(w) \/ WriteDrain(w)
    \/ WriteLeave(w) \/ WriteReturn(w)

LockNext ==
    \/ \E r \in Readers : \/ \E kind \in {"event", "signal"} : ReadCall(r, kind)
                          \/ ReaderStep(r) \/ ReadDone(r)
    \/ \E w \in Writers : \/ \E op \in Ops : WriteCall(w, op)
                          \/ WriterStep(w) \/ Write(w)

LockSpec == LockInit /\ [][LockNext]_lockVars

\* Threads inside the locks keep running.  Nothing is assumed of process() and
\* of the writes themselves (reactors read files, join threads, run scripts):
\* they may take forever.
LockFairness ==
    /\ \A r \in Readers : WF_lockVars(ReaderStep(r))
    /\ \A w \in Writers : WF_lockVars(WriterStep(w))

FairLockSpec == LockSpec /\ LockFairness

-----------------------------------------------------------------------------
(* Properties *)

Counted == {r \in Readers : rpc[r] \in {"recheck", "backout", "locked", "processing", "leave"}}

\* The counter is exactly the number of threads that are between incrementing
\* and decrementing it, however many back out, time out or throw.
ReadersCounted == numReaders = Cardinality(Counted)

\* The flag is not left behind: when no writer is inside, readers may enter.
FlagReleased == Inside = {} => ~pending

\* Both hold whatever happens, in particular when threads back out, time out
\* or throw, and when writers take each other's flag for theirs: otherwise the
\* Reactor would stay locked for good.
LockConsistent == LockTypeOK /\ ReadersCounted /\ FlagReleased

\* "there are no active readers until the lock is released"
\* (Reactor.hpp:343): nobody processes an Event or emits a signal while a writer
\* changes the Reactor's configuration, connections or state.  When two writers
\* have met there, that is over until every thread has left; it is back then.
NoReaderWhileWriting ==
    ~crowded => \A w \in Writers : wpc[w] = "writing" => Active = {}

\* "ReactionEngine guarantees that only one thread will attempt to modify
\* Reactor configuration at a time" (Reactor.hpp:341).
OneWriter == \A v, w \in Inside : v = w

\* Once a Reactor was stopped no Event is being processed by it: the
\* combination of both isRunning() checks with the lock (Reactor.hpp:214-217).
StoppedIsQuiet ==
    ~crowded /\ ~reactorOn =>
      \A r \in Readers : rpc[r] = "processing" => rkind[r] = "signal"

\* Seen from outside, the flag and the counter make one lock that readers share
\* and a writer has alone, as long as writers come one after the other; a write is
\* one step of it, and an Event is begun while the Reactor is running, however
\* many writers meet (Reactor.hpp:208-227 and 315-365).
Busy    == {r \in Readers : rpc[r] = "processing" /\ rkind[r] = "event"}
HasLock == {w \in Writers : wpc[w] = "writing"}
Access  == INSTANCE ReactorAccess
               WITH inside <- Active, busy <- Busy, asking <- Inside,
                    writing <- HasLock, on <- reactorOn
ImplementsAccess == Access!Spec

\* An operation ends, with the lock or with ConfigLockException, although
\* readers may process Events forever; it does so unless the write it performs
\* itself never ends, or it waits for a caller's mutex.
WriterReturns == \A w \in Writers : wpc[w] \in {"test", "claim", "drain"} ~> wpc[w] \in {"writing", "return"}

\* A reader that asks for the lock gets it, or ConfigLockException, although a
\* write may take forever.
ReaderReturns == \A r \in Readers : rpc[r] = "wait" ~> rpc[r] \in {"locked", "idle"}
=============================================================================

------------------------------ MODULE Scheduler ------------------------------
(***************************************************************************)
(* ReactionScheduler (platform/include/pion/platform/ReactionScheduler.hpp)*)
(* and the PionScheduler it derives from (common/src/PionScheduler.cpp):   *)
(* active users, startup, shutdown and join, the worker threads that take  *)
(* reactions from the queue, and the service thread with its keepRunning   *)
(* timer.  The clients are the objects that register as active users:      *)
(* ReactionEngines, which do so under their own mutex, and TCPServers,     *)
(* which release theirs first.  The queue is the one of LockedQueue, seen  *)
(* through what that module shows of it: here it is a number of reactions. *)
(***************************************************************************)
EXTENDS Naturals, FiniteSets

CONSTANTS Clients,    \* objects that use the scheduler
          Servers,    \* the TCPServers among them; the others are engines
          Workers,    \* worker threads
          Callers,    \* threads that call shutdown() or join()
          MaxQueue,   \* MaxSize of the reaction queue
          CountWidth, \* m_active_users counts modulo CountWidth (2^32)
          MaxStarts,  \* bound: client starts
          MaxCalls,   \* bound: calls of shutdown() and join()
          MaxPosts,   \* bound: reactions posted
          NULL

ASSUME SchedulerAssumption ==
    /\ Servers \subseteq Clients
    /\ MaxQueue \in Nat \ {0} /\ CountWidth \in Nat \ {0}
    /\ MaxStarts \in Nat /\ MaxCalls \in Nat /\ MaxPosts \in Nat
    /\ NULL \notin Callers \cup {"start", "stop"} \cup Workers

VARIABLES
    running,      \* m_is_running
    mutex,        \* the thread in shutdown() that holds m_mutex, or NULL
    activeUsers,  \* m_active_users
    up,           \* a client's m_is_running or m_is_listening
    lock,         \* who holds a client's mutex: "start", "stop" or NULL
    startPc,      \* control point of the thread in a client's start()
    stopPc,       \* and of the thread in its stop()
    callPc,       \* control point of each thread that calls shutdown or join
    workerPc,     \* control point of each worker; "none" before it is created
    info,         \* workers registered in m_thread_info, those not yet stopped
    idle,         \* consumers linked from the queue's m_idle_ptr
    queue,        \* reactions queued
    servicePc,    \* control point of the service thread
    stopped,      \* the io_service was told to stop and not yet reset
    armed,        \* an asynchronous wait of keepRunning is outstanding
    expired,      \* keepRunning handlers that are due because the timer expired
    aborted,      \* and those that are due because their wait was cancelled
    starts, calls, posts   \* bounds

clientVars  == <<up, lock, startPc, stopPc, starts>>
workerVars  == <<workerPc, info, idle, queue, posts>>
serviceVars == <<servicePc, stopped, armed, expired, aborted>>
callerVars  == <<callPc, calls>>
schedVars   == <<running, mutex, activeUsers>>
vars == <<schedVars, clientVars, workerVars, serviceVars, callerVars>>

TypeOK ==
    /\ running \in BOOLEAN /\ mutex \in Callers \cup {NULL}
    /\ activeUsers \in 0..CountWidth - 1
    /\ up \in [Clients -> BOOLEAN]
    /\ lock \in [Clients -> {"start", "stop", NULL}]
    /\ startPc \in [Clients -> {"out", "add", "startup", "register"}]
    /\ stopPc \in [Clients -> {"out", "unregister", "clear"}]
    /\ callPc \in [Callers -> {"out", "lock", "wait", "woken", "services",
                               "threads", "join", "finish", "joinWait",
                               "joinWoken"}]
    /\ workerPc \in [Workers -> {"none", "start", "loop", "pop", "wait", "work",
                                 "push", "exit"}]
    /\ info \subseteq Workers /\ idle \subseteq Workers
    /\ queue \in 0..MaxQueue
    /\ servicePc \in {"none", "loop", "run", "exit"}
    /\ stopped \in BOOLEAN /\ armed \in BOOLEAN
    /\ expired \in 0..MaxStarts + 1 /\ aborted \in 0..MaxStarts + 1
    /\ starts \in 0..MaxStarts /\ calls \in 0..MaxCalls /\ posts \in 0..MaxPosts

-----------------------------------------------------------------------------
(* Conditions and shared effects.  A definition whose name ends in "Bug" is   *)
(* the one after it with a slip of the kind the properties are meant to catch.*)

\* shutdown() waits while there are active users, and looks again when woken.
MustWaitBug(k) == activeUsers > 0 /\ callPc[k] # "woken"
MustWait(k)    == activeUsers > 0

\* removeActiveUser() notifies shutdown() when the count has become zero.
LastUserBug == FALSE
LastUser    == activeUsers = 1

\* stopThreads() waits for every worker and for the service thread.
JoinedBug == servicePc \in {"none", "exit"}
Joined    == /\ \A w \in Workers : workerPc[w] \in {"none", "exit"}
             /\ servicePc \in {"none", "exit"}

\* The end of shutdown() wakes the threads in join().
ReleasedBug(k) == [callPc EXCEPT ![k] = "out"]
Released(k)    == [j \in Callers |-> IF j = k THEN "out"
                                    ELSE IF callPc[j] = "joinWait" THEN "joinWoken" ELSE callPc[j]]

\* What removeActiveUser() leaves of the count, an unsigned number.
CountDownBug == activeUsers - 2
CountDown    == (activeUsers + CountWidth - 1) % CountWidth

\* keepRunning(): expires_from_now cancels an outstanding wait, whose handler
\* becomes due at once and does not look at why it was called.
KeepRunning(due) == /\ armed' = TRUE
                    /\ aborted' = IF armed THEN due + 1 ELSE due

\* A push to the queue: it unlinks one idle consumer, if there is one.
Push ==
    /\ queue < MaxQueue
    /\ queue' = queue + 1
    /\ IF idle = {} THEN UNCHANGED idle
       ELSE \E w \in idle : idle' = idle \ {w}

-----------------------------------------------------------------------------
(* Clients *)

\* start(): an engine keeps its mutex until it has registered, a server sets
\* m_is_listening and releases it.
Start(c) ==
    /\ startPc[c] = "out" /\ lock[c] = NULL /\ ~up[c] /\ starts < MaxStarts
    /\ starts' = starts + 1
    /\ startPc' = [startPc EXCEPT ![c] = "add"]
    /\ lock' = [lock EXCEPT ![c] = IF c \in Servers THEN NULL ELSE "start"]
    /\ up' = [up EXCEPT ![c] = c \in Servers]
    /\ UNCHANGED <<schedVars, stopPc, workerVars, serviceVars, callerVars>>

\* addActiveUser() looks at m_is_running without the mutex ...
AddCheck(c) ==
    /\ startPc[c] = "add"
    /\ startPc' = [startPc EXCEPT ![c] = IF running THEN "register" ELSE "startup"]
    /\ UNCHANGED <<schedVars, up, lock, stopPc, starts, workerVars, serviceVars, callerVars>>

\* ... calls startup() ...
Startup(c) ==
    /\ startPc[c] = "startup" /\ mutex = NULL
    /\ startPc' = [startPc EXCEPT ![c] = "register"]
    /\ running' = TRUE
    /\ IF running THEN UNCHANGED <<workerPc, serviceVars>>
       ELSE /\ stopped' = FALSE
            /\ KeepRunning(aborted) /\ UNCHANGED expired
            /\ servicePc' = "loop"
            /\ workerPc' = [w \in Workers |-> "start"]
    /\ UNCHANGED <<mutex, activeUsers, up, lock, stopPc, starts, info, idle, queue,
                   posts, callerVars>>

\* ... and counts the user.
Register(c) ==
    /\ startPc[c] = "register" /\ mutex = NULL
    /\ activeUsers' = (activeUsers + 1) % CountWidth
    /\ startPc' = [startPc EXCEPT ![c] = "out"]
    /\ up' = [up EXCEPT ![c] = up[c] \/ c \notin Servers]
    /\ lock' = [lock EXCEPT ![c] = IF c \in Servers THEN @ ELSE NULL]
    /\ UNCHANGED <<running, mutex, stopPc, starts, workerVars, serviceVars, callerVars>>

Stop(c) ==
    /\ stopPc[c] = "out" /\ lock[c] = NULL /\ up[c]
    /\ lock' = [lock EXCEPT ![c] = "stop"]
    /\ up' = [up EXCEPT ![c] = c \notin Servers]
    /\ stopPc' = [stopPc EXCEPT ![c] = "unregister"]
    /\ UNCHANGED <<schedVars, startPc, starts, workerVars, serviceVars, callerVars>>

\* removeActiveUser()
Unregister(c) ==
    /\ stopPc[c] = "unregister" /\ mutex = NULL
    /\ activeUsers' = CountDown
    /\ callPc' = [k \in Callers |-> IF callPc[k] = "wait" /\ LastUser THEN "woken" ELSE callPc[k]]
    /\ stopPc' = [stopPc EXCEPT ![c] = IF c \in Servers THEN "out" ELSE "clear"]
    /\ lock' = [lock EXCEPT ![c] = IF c \in Servers THEN NULL ELSE @]
    /\ UNCHANGED <<running, mutex, up, startPc, starts, workerVars, serviceVars, calls>>

\* An engine clears the reaction queue when it has left.
ClearQueue(c) ==
    /\ stopPc[c] = "clear"
    /\ queue' = 0
    /\ up' = [up EXCEPT ![c] = FALSE]
    /\ lock' = [lock EXCEPT ![c] = NULL]
    /\ stopPc' = [stopPc EXCEPT ![c] = "out"]
    /\ UNCHANGED <<schedVars, startPc, starts, workerPc, info, idle, posts, serviceVars, callerVars>>

\* ReactionEngine::send() or post() from a thread that is not a worker.
Post ==
    /\ posts < MaxPosts /\ \E c \in Clients : up[c]
    /\ Push
    /\ posts' = posts + 1
    /\ UNCHANGED <<schedVars, clientVars, workerPc, info, serviceVars, callerVars>>

-----------------------------------------------------------------------------
(* shutdown() and join() *)

CallShutdown(k) ==
    /\ callPc[k] = "out" /\ calls < MaxCalls
    /\ calls' = calls + 1
    /\ callPc' = [callPc EXCEPT ![k] = "lock"]
    /\ UNCHANGED <<schedVars, clientVars, workerVars, serviceVars>>

\* With the mutex: a running scheduler waits for its users; a thread that was
\* woken looks only at their number.
ShutdownWait(k) ==
    /\ mutex = NULL /\ MustWait(k)
    /\ (callPc[k] = "lock" /\ running) \/ callPc[k] = "woken"
    /\ callPc' = [callPc EXCEPT ![k] = "wait"]
    /\ UNCHANGED <<schedVars, clientVars, workerVars, serviceVars, calls>>

ShutdownBegin(k) ==
    /\ mutex = NULL
    /\ \/ callPc[k] = "lock" /\ (running => ~MustWait(k))
       \/ callPc[k] = "woken" /\ ~MustWait(k)
    /\ mutex' = k /\ running' = FALSE
    /\ callPc' = [callPc EXCEPT ![k] = "services"]
    /\ UNCHANGED <<activeUsers, clientVars, workerVars, serviceVars, calls>>

\* A condition may wake its waiters for no reason.
SpuriousWakeup(k) ==
    /\ callPc[k] = "wait"
    /\ callPc' = [callPc EXCEPT ![k] = "woken"]
    /\ UNCHANGED <<schedVars, clientVars, workerVars, serviceVars, calls>>

StopServices(k) ==
    /\ callPc[k] = "services"
    /\ stopped' = TRUE
    /\ callPc' = [callPc EXCEPT ![k] = "threads"]
    /\ UNCHANGED <<schedVars, clientVars, workerVars, servicePc, armed, expired, aborted, calls>>

StopThreadInfo(k) ==
    /\ callPc[k] = "threads"
    /\ info' = {}
    /\ callPc' = [callPc EXCEPT ![k] = "join"]
    /\ UNCHANGED <<schedVars, clientVars, workerPc, idle, queue, posts, serviceVars, calls>>

\* All threads are joined and m_thread_info is cleared: the consumers go.
JoinThreads(k) ==
    /\ callPc[k] = "join" /\ Joined
    /\ info' = {}
    /\ callPc' = [callPc EXCEPT ![k] = "finish"]
    /\ UNCHANGED <<schedVars, clientVars, workerPc, idle, queue, posts, serviceVars, calls>>

\* finishServices(), finishThreads(), notify_all().
Finish(k) ==
    /\ callPc[k] = "finish"
    /\ stopped' = FALSE
    /\ servicePc' = IF servicePc = "exit" THEN "none" ELSE servicePc
    /\ workerPc' = [w \in Workers |-> IF workerPc[w] = "exit" THEN "none" ELSE workerPc[w]]
    /\ mutex' = NULL
    /\ callPc' = Released(k)
    /\ UNCHANGED <<running, activeUsers, clientVars, info, idle, queue, posts,
                   armed, expired, aborted, calls>>

Join(k) ==
    /\ callPc[k] = "out" /\ mutex = NULL /\ running /\ calls < MaxCalls
    /\ calls' = calls + 1
    /\ callPc' = [callPc EXCEPT ![k] = "joinWait"]
    /\ UNCHANGED <<schedVars, clientVars, workerVars, serviceVars>>

JoinAgain(k) ==
    /\ callPc[k] = "joinWoken" /\ mutex = NULL
    /\ callPc' = [callPc EXCEPT ![k] = IF running THEN "joinWait" ELSE "out"]
    /\ UNCHANGED <<schedVars, clientVars, workerVars, serviceVars, calls>>

-----------------------------------------------------------------------------
(* Worker threads: processReactionQueue() *)

WorkerRegister(w) ==
    /\ workerPc[w] = "start"
    /\ info' = info \cup {w}
    /\ workerPc' = [workerPc EXCEPT ![w] = "loop"]
    /\ UNCHANGED <<schedVars, clientVars, idle, queue, posts, serviceVars, callerVars>>

WorkerLoop(w) ==
    /\ workerPc[w] = "loop"
    /\ workerPc' = [workerPc EXCEPT ![w] = IF running THEN "pop" ELSE "exit"]
    /\ UNCHANGED <<schedVars, clientVars, info, idle, queue, posts, serviceVars, callerVars>>

\* pop(): a reaction taken while m_is_running is false is dropped.
WorkerPop(w) ==
    /\ workerPc[w] = "pop"
    /\ \/ /\ w \notin info
          /\ workerPc' = [workerPc EXCEPT ![w] = "loop"]
          /\ UNCHANGED <<queue, idle>>
       \/ /\ w \in info /\ queue > 0
          /\ queue' = queue - 1
          /\ workerPc' = [workerPc EXCEPT ![w] = IF running THEN "work" ELSE "loop"]
          /\ UNCHANGED idle
       \/ /\ w \in info /\ queue = 0
          /\ idle' = idle \cup {w}
          /\ workerPc' = [workerPc EXCEPT ![w] = "wait"]
          /\ UNCHANGED queue
    /\ UNCHANGED <<schedVars, clientVars, info, posts, serviceVars, callerVars>>

\* The wait ends with a notification, spuriously, or after a second: in the
\* last case pop() returns false.  It stays linked unless a push unlinked it.
WorkerWake(w) ==
    /\ workerPc[w] = "wait"
    /\ \E pc \in {"pop", "loop"} : workerPc' = [workerPc EXCEPT ![w] = pc]
    /\ UNCHANGED <<schedVars, clientVars, info, idle, queue, posts, serviceVars, callerVars>>

\* A reaction returns or throws, or posts another one.
WorkerDone(w) ==
    /\ workerPc[w] = "work"
    /\ workerPc' = [workerPc EXCEPT ![w] = "loop"]
    /\ UNCHANGED <<schedVars, clientVars, info, idle, queue, posts, serviceVars, callerVars>>

WorkerPost(w) ==
    /\ workerPc[w] = "work" /\ posts < MaxPosts
    /\ posts' = posts + 1
    /\ workerPc' = [workerPc EXCEPT ![w] = "push"]
    /\ UNCHANGED <<schedVars, clientVars, info, idle, queue, serviceVars, callerVars>>

WorkerPush(w) ==
    /\ workerPc[w] = "push"
    /\ Push
    /\ workerPc' = [workerPc EXCEPT ![w] = "work"]
    /\ UNCHANGED <<schedVars, clientVars, info, posts, serviceVars, callerVars>>

-----------------------------------------------------------------------------
(* The service thread: processServiceWork(), and the timer *)

ServiceLoop ==
    /\ servicePc = "loop"
    /\ servicePc' = IF running THEN "run" ELSE "exit"
    /\ UNCHANGED <<schedVars, clientVars, workerVars, stopped, armed, expired, aborted, callerVars>>

\* io_service::run() returns when stopped or out of work.
ServiceReturn ==
    /\ servicePc = "run"
    /\ stopped \/ (~armed /\ expired + aborted = 0)
    /\ servicePc' = "loop"
    /\ UNCHANGED <<schedVars, clientVars, workerVars, stopped, armed, expired, aborted, callerVars>>

ServiceHandler ==
    /\ servicePc = "run" /\ ~stopped
    /\ \/ expired > 0 /\ expired' = expired - 1
          /\ IF running THEN KeepRunning(aborted) ELSE UNCHANGED <<armed, aborted>>
       \/ aborted > 0 /\ UNCHANGED expired
          /\ IF running THEN KeepRunning(aborted - 1)
             ELSE aborted' = aborted - 1 /\ UNCHANGED armed
    /\ UNCHANGED <<schedVars, clientVars, workerVars, servicePc, stopped, callerVars>>

TimerExpires ==
    /\ armed
    /\ armed' = FALSE /\ expired' = expired + 1
    /\ UNCHANGED <<schedVars, clientVars, workerVars, servicePc, stopped, aborted, callerVars>>

-----------------------------------------------------------------------------
Init ==
    /\ running = FALSE /\ mutex = NULL /\ activeUsers = 0
    /\ up = [c \in Clients |-> FALSE] /\ lock = [c \in Clients |-> NULL]
    /\ startPc = [c \in Clients |-> "out"] /\ stopPc = [c \in Clients |-> "out"]
    /\ callPc = [k \in Callers |-> "out"]
    /\ workerPc = [w \in Workers |-> "none"]
    /\ info = {} /\ idle = {} /\ queue = 0
    /\ servicePc = "none" /\ stopped = FALSE /\ armed = FALSE
    /\ expired = 0 /\ aborted = 0
    /\ starts = 0 /\ calls = 0 /\ posts = 0

ClientStep(c) ==
    \/ AddCheck(c) \/ Startup(c) \/ Register(c)
    \/ Stop(c) \/ Unregister(c) \/ ClearQueue(c)

CallerStep(k) ==
    \/ ShutdownWait(k) \/ ShutdownBegin(k) \/ StopServices(k)
    \/ StopThreadInfo(k) \/ JoinThreads(k) \/ Finish(k) \/ JoinAgain(k)

WorkerStep(w) ==
    \/ WorkerRegister(w) \/ WorkerLoop(w) \/ WorkerPop(w) \/ WorkerWake(w)
    \/ WorkerDone(w) \/ WorkerPush(w)

ServiceStep == ServiceLoop \/ ServiceReturn

Next ==
    \/ \E c \in Clients : Start(c) \/ ClientStep(c)
    \/ Post
    \/ \E k \in Callers : CallShutdown(k) \/ Join(k) \/ SpuriousWakeup(k) \/ CallerStep(k)
    \/ \E w \in Workers : WorkerStep(w) \/ WorkerPost(w)
    \/ ServiceStep \/ ServiceHandler \/ TimerExpires

Spec == Init /\ [][Next]_vars

\* Threads keep running, reactions end, a worker's wait lasts a second at most,
\* and the application stops its clients, as ~PlatformConfig does before it
\* shuts the schedulers down.  Nothing is assumed of posts, calls, the timer
\* and spurious wakeups.
Fairness ==
    /\ \A c \in Clients : WF_vars(ClientStep(c))
    /\ \A k \in Callers : WF_vars(CallerStep(k))
    /\ \A w \in Workers : WF_vars(WorkerStep(w))
    /\ WF_vars(ServiceStep)

FairSpec == Spec /\ Fairness

-----------------------------------------------------------------------------
(* Properties *)

\* An engine is counted from the moment addActiveUser() counts it until
\* removeActiveUser() does, through every interleaving of the two with
\* startup() and shutdown().
Registered(c) == up[c] /\ stopPc[c] # "clear"
UsersCounted  == activeUsers = Cardinality({c \in Clients : Registered(c)})

UsersTyped    == TypeOK /\ UsersCounted

\* No thread of the pool outlives shutdown(): when the scheduler is not running
\* and nobody is shutting it down, there is no worker and no service thread.
StoppedIsEmpty ==
    ~running /\ mutex = NULL =>
        /\ \A w \in Workers : workerPc[w] = "none"
        /\ servicePc = "none" /\ info = {}

\* A running scheduler is not stopped under its users, however many shut it
\* down, and whatever wakes them.
ActiveUsersDeferShutdown == [][running /\ ~running' => activeUsers = 0]_vars

\* shutdown() returns once the clients have been stopped: no worker and no
\* waiting thread is forgotten.
ShutdownReturns ==
    \A k \in Callers : callPc[k] = "lock" ~> callPc[k] = "out"

\* join() returns after the scheduler has stopped, unless it is started again
\* before the waiting thread looks.
JoinReturns ==
    \A k \in Callers : callPc[k] = "joinWait" /\ ~running ~> callPc[k] = "out" \/ running
=============================================================================

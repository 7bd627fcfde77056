-------------------------------- MODULE Inserter --------------------------------
(***************************************************************************)
(* DatabaseInserter (platform/src/DatabaseInserter.cpp): threads that      *)
(* process Events put them in a queue, a worker thread takes the whole     *)
(* queue and inserts it into a table in one transaction, and a cache of    *)
(* keys keeps an Event whose key was seen from being inserted again.       *)
(* KeyCacheMaxAge is set and IgnoreInsert is not; times are left out, so   *)
(* that keys may be pruned at any age.  What happens under m_queue_mutex   *)
(* is one action; the worker's calls of the database are made without it.  *)
(* DatabaseOutputReactor starts and stops the inserter with its            *)
(* ConfigWriteLock, and inserts Events with a ConfigReadLock: ReactorLock  *)
(* shows that the two exclude each other.                                  *)
(***************************************************************************)
EXTENDS Naturals, FiniteSets

CONSTANTS Producers, \* worker threads of the scheduler, in insert()
          Events,    \* bound: each is inserted once
          KeyOf,     \* the key of an Event
          QueueMax,  \* m_queue_max
          NULL

ASSUME InserterAssumption ==
    /\ IsFiniteSet(Events) /\ NULL \notin Events
    /\ QueueMax \in Nat \ {0}

Keys == {KeyOf[e] : e \in Events}

VARIABLES
    running,    \* m_is_running
    queue,      \* the Events of m_event_queue_ptr
    keys,       \* m_keys
    unused,     \* Events that insert() was not called with yet
    held,       \* the Event of a producer that waits for the queue to be swapped
    asleep,     \* producers that wait for m_swapped_queue
    worker,     \* where the worker thread is
    batch,      \* the Events of insert_queue_ptr
    table,      \* Events that are committed
    isOpen,     \* the database connection is open
    inTx,       \* a transaction has begun on that connection
    nextConnect,\* m_next_connect # 0
    admin       \* the thread that starts and stops the inserter

producers == <<unused, held, asleep>>
database  == <<table, isOpen, inTx, nextConnect>>
vars == <<running, queue, keys, producers, worker, batch, database, admin>>

TypeOK ==
    /\ running \in BOOLEAN /\ keys \subseteq Keys
    /\ queue \subseteq Events /\ batch \subseteq Events /\ table \subseteq Events
    /\ unused \subseteq Events
    /\ held \in [Producers -> Events \cup {NULL}]
    /\ asleep \subseteq {p \in Producers : held[p] # NULL}
    /\ worker \in {"none", "starting", "loop", "check", "wait", "woken", "insert",
                   "failed", "retry", "prune", "drop", "exited"}
    /\ isOpen \in BOOLEAN /\ inTx \in BOOLEAN /\ nextConnect \in BOOLEAN
    /\ admin \in {"out", "start", "join"}

-----------------------------------------------------------------------------
(* Conditions and shared effects.  A definition whose name ends in "Bug" is   *)
(* the one after it with a slip of the kind the properties are meant to catch.*)

Full == Cardinality(queue) >= QueueMax

\* m_wakeup_worker.notify_one(): only the worker waits for it.
Notified == IF worker = "wait" THEN "woken" ELSE worker

\* The wait of checkEventQueue() ends after m_queue_timeout.
TimesOutBug == FALSE
TimesOut    == worker = "wait"

\* Who is woken when the queue is emptied because there is no connection.
SleepersBug == asleep
Sleepers    == {}

\* What is left in insert_queue_ptr when its Events are committed.
LeftBug == batch
Left    == {}

\* What is left in m_keys when Events are dropped: "it may be inaccurate".
KeysLeftBug == keys
KeysLeft    == {}

\* tryConnecting(): connect() makes a new connection or throws, before or after
\* it has opened one.
TryConnecting(ok) ==
    /\ isOpen' \in {TRUE, ok} /\ nextConnect' = ~ok /\ inTx' = FALSE /\ UNCHANGED table

\* checkConnection() with result ok: still connected; (re)connecting; or it is
\* not yet time to try again.
CheckConnection(ok) ==
    \/ ok /\ ~nextConnect /\ isOpen /\ UNCHANGED database
    \/ (nextConnect \/ ~isOpen) /\ TryConnecting(ok)
    \/ ~ok /\ nextConnect /\ UNCHANGED database

\* The table has a unique index on the key.
NoDuplicates ==
    \A e, f \in batch \cup table : KeyOf[e] = KeyOf[f] => e = f

-----------------------------------------------------------------------------
(* start() and stop() *)

\* No producer is in insert(): what the ConfigWriteLock provides.
Excluded == admin = "out" /\ \A p \in Producers : held[p] = NULL

\* start(): connect, spawn the worker, and wait for its notification.
Start ==
    /\ Excluded /\ ~running
    /\ running' = TRUE /\ worker' = "starting" /\ admin' = "start"
    /\ isOpen' = TRUE /\ inTx' = FALSE
    /\ UNCHANGED <<queue, keys, producers, batch, table, nextConnect>>

WorkerStarts ==
    /\ worker = "starting"
    /\ worker' = "loop"
    /\ admin' = "out"
    /\ asleep' = {}
    /\ UNCHANGED <<running, queue, keys, unused, held, batch, database>>

\* stop(): tell the worker to shut down, and join it ...
Stop ==
    /\ Excluded /\ running
    /\ running' = FALSE
    /\ worker' = Notified
    /\ admin' = "join"
    /\ UNCHANGED <<queue, keys, producers, batch, database>>

\* ... and then close the connection, and clear the queue and the key cache.
StopJoined ==
    /\ admin = "join" /\ worker = "exited"
    /\ admin' = "out" /\ worker' = "none"
    /\ queue' = {} /\ keys' = {}
    /\ isOpen' = FALSE /\ inTx' = FALSE
    /\ UNCHANGED <<running, producers, batch, table, nextConnect>>

-----------------------------------------------------------------------------
(* insert() *)

\* The queue is full: wake the worker and wait for the swap.  Otherwise add e.
Enqueue(p, e) ==
    IF Full
    THEN /\ worker' = Notified
         /\ asleep' = asleep \cup {p}
         /\ held' = [held EXCEPT ![p] = e]
         /\ UNCHANGED queue
    ELSE /\ queue' = queue \cup {e}
         /\ asleep' = asleep \ {p}
         /\ held' = [held EXCEPT ![p] = NULL]
         /\ UNCHANGED worker

\* insert() of an Event with a new key; a producer holds a ConfigReadLock.
Insert(p, e) ==
    /\ admin = "out" /\ running /\ held[p] = NULL
    /\ e \in unused /\ KeyOf[e] \notin keys
    /\ unused' = unused \ {e}
    /\ keys' = keys \cup {KeyOf[e]}
    /\ Enqueue(p, e)
    /\ UNCHANGED <<running, batch, database, admin>>

\* An Event whose key is in the cache is not inserted.
InsertKnown(p, e) ==
    /\ admin = "out" /\ running /\ held[p] = NULL
    /\ e \in unused /\ KeyOf[e] \in keys
    /\ unused' = unused \ {e}
    /\ UNCHANGED <<running, queue, keys, held, asleep, worker, batch, database, admin>>

\* The producer was woken and looks at the queue again.
InsertAgain(p) ==
    /\ held[p] # NULL /\ p \notin asleep
    /\ IF running
       THEN Enqueue(p, held[p])
       ELSE held' = [held EXCEPT ![p] = NULL] /\ UNCHANGED <<queue, asleep, worker>>
    /\ UNCHANGED <<running, keys, unused, batch, database, admin>>

-----------------------------------------------------------------------------
(* The worker thread: insertEvents() and checkEventQueue() *)

Loop ==
    /\ worker = "loop"
    /\ worker' = IF running THEN "check" ELSE "exited"
    /\ UNCHANGED <<running, queue, keys, producers, batch, database, admin>>

\* Skip the wait if the queue is full already.
Check ==
    /\ worker = "check"
    /\ worker' = IF Full THEN "woken" ELSE "wait"
    /\ UNCHANGED <<running, queue, keys, producers, batch, database, admin>>

TimeOut ==
    /\ TimesOut
    /\ worker' = "woken"
    /\ UNCHANGED <<running, queue, keys, producers, batch, database, admin>>

\* Nothing to do; a spurious wakeup, or the time is over.
FindNothing ==
    /\ worker = "woken" /\ queue = {}
    /\ worker' = "loop"
    /\ UNCHANGED <<running, queue, keys, producers, batch, database, admin>>

Swap ==
    /\ worker = "woken" /\ queue # {} /\ CheckConnection(TRUE)
    /\ queue' = batch /\ batch' = queue
    /\ asleep' = {}
    /\ worker' = "insert"
    /\ UNCHANGED <<running, keys, unused, held, admin>>

\* There is no connection: a full queue is emptied.
Disconnected ==
    /\ worker = "woken" /\ queue # {} /\ CheckConnection(FALSE)
    /\ IF Full
       THEN queue' = {} /\ keys' = KeysLeft /\ asleep' = Sleepers
       ELSE UNCHANGED <<queue, keys, asleep>>
    /\ worker' = "loop"
    /\ UNCHANGED <<running, unused, held, batch, admin>>

\* The transaction is committed.
Commit ==
    /\ worker \in {"insert", "retry"} /\ isOpen /\ ~inTx /\ NoDuplicates
    /\ table' = table \cup batch
    /\ batch' = Left
    /\ worker' = "prune"
    /\ UNCHANGED <<running, queue, keys, producers, isOpen, inTx, nextConnect, admin>>

\* BEGIN fails; an INSERT or COMMIT fails, with the transaction left open or
\* rolled back by the database; or the connection is lost.
InsertFails ==
    /\ worker \in {"insert", "retry"}
    /\ \/ inTx' \in {TRUE, inTx} /\ UNCHANGED isOpen
       \/ inTx' = FALSE /\ isOpen' = FALSE
    /\ worker' = IF worker = "insert" /\ ~isOpen' THEN "failed" ELSE "drop"
    /\ batch' = IF worker' = "drop" THEN {} ELSE batch
    /\ UNCHANGED <<running, queue, keys, producers, table, nextConnect, admin>>

\* The connection was lost: try to get a new one, and to insert again.
Recover ==
    /\ worker = "failed"
    /\ \E ok \in BOOLEAN :
          /\ CheckConnection(ok)
          /\ worker' = IF ok THEN "retry" ELSE "drop"
          /\ batch' = IF ok THEN batch ELSE {}
    /\ UNCHANGED <<running, queue, keys, producers, admin>>

\* m_keys.clear(), without m_queue_mutex, after insert_queue_ptr->clear().
DropKeys ==
    /\ worker = "drop"
    /\ keys' = KeysLeft
    /\ worker' = "loop"
    /\ UNCHANGED <<running, queue, producers, batch, database, admin>>

\* Keys below the age limit are pruned.
Prune ==
    /\ worker = "prune"
    /\ keys' \in SUBSET keys
    /\ worker' = "loop"
    /\ UNCHANGED <<running, queue, producers, batch, database, admin>>

-----------------------------------------------------------------------------
Init ==
    /\ running = FALSE /\ queue = {} /\ keys = {} /\ batch = {} /\ table = {}
    /\ unused = Events /\ held = [p \in Producers |-> NULL] /\ asleep = {}
    /\ worker = "none" /\ admin = "out"
    /\ isOpen = FALSE /\ inTx = FALSE /\ nextConnect = FALSE

Worker ==
    \/ WorkerStarts \/ Loop \/ Check \/ TimeOut \/ FindNothing \/ Swap \/ Disconnected
    \/ Commit \/ InsertFails \/ Recover \/ DropKeys \/ Prune

Next ==
    \/ Start \/ Stop \/ StopJoined \/ Worker
    \/ \E p \in Producers : \/ \E e \in Events : Insert(p, e) \/ InsertKnown(p, e)
                           \/ InsertAgain(p)

Spec == Init /\ [][Next]_vars

\* Threads run, calls of the database return (SQLite has a time-out for locks),
\* and waits end at their time-out.  Nothing makes anyone insert or stop.
Fairness ==
    /\ WF_vars(Worker) /\ WF_vars(StopJoined)
    /\ \A p \in Producers : WF_vars(InsertAgain(p))

FairSpec == Spec /\ Fairness

-----------------------------------------------------------------------------
(* Properties *)

Held == {held[p] : p \in Producers} \ {NULL}

\* An Event is discarded as known only if another one with its key is stored or
\* on its way (DatabaseInserter.cpp:305-309): the cache never keeps the key of
\* an Event that was dropped, but while the worker is about to clear it.
KeysJustified ==
    worker = "drop" \/ keys \subseteq {KeyOf[e] : e \in queue \cup batch \cup table \cup Held}
CacheConsistent == TypeOK /\ KeysJustified

\* An Event is stored once, whatever fails and is tried again: it is in one
\* place only, and what is swapped in as the new queue (DatabaseInserter.cpp:628)
\* holds none of the Events that were dealt with.
StoredOnce ==
    /\ queue \cap batch = {} /\ (queue \cup batch) \cap table = {}
    /\ Held \cap (queue \cup batch \cup table) = {}
    /\ \A p, q \in Producers : held[p] # NULL /\ held[p] = held[q] => p = q
    /\ Cardinality(queue) <= QueueMax

\* A producer that finds the queue full is woken, also when the database is not
\* available (DatabaseInserter.cpp:372-383).
SleepersWake == \A p \in Producers : p \in asleep ~> p \notin asleep

\* start() and stop() return, although stop() may notify the worker before it
\* waits (DatabaseInserter.cpp:234): the wait has a time-out.
StopReturns == admin # "out" ~> admin = "out"

\* "insert failure occured -> just log and drop versus stopping altogether"
\* (DatabaseInserter.cpp:526): the next batch can be inserted.
StartsClean == worker = "insert" => ~inTx
=============================================================================

----------------------------- MODULE LockedQueue -----------------------------
(***************************************************************************)
(* PionLockedQueue: the two-lock linked queue that feeds the worker        *)
(* threads of the ReactionScheduler (common/include/pion/                  *)
(* PionLockedQueue.hpp).                                                   *)
(*                                                                         *)
(* The linked list is the sequence `list' of the nodes reached from        *)
(* m_head_ptr; its first node is the dummy.  m_tail_ptr is the separate    *)
(* pointer `tail', which lags behind the list while a push is under way.   *)
(* Nodes are allocated from and returned to `free'.  m_head_mutex is only  *)
(* ever held within one action (dequeue reads the one field a concurrent   *)
(* push writes exactly once), so it needs no variable; m_tail_mutex is     *)
(* held by a producer between linking its node and publishing it.          *)
(***************************************************************************)
EXTENDS Naturals, Integers, Sequences, FiniteSets

CONSTANTS Producers,      \* threads that call push()
          Consumers,      \* threads that call pop(), each with a ConsumerThread
          Nodes,          \* memory for queue nodes
          Values,         \* items
          MaxSize,        \* the template parameter MaxSize (0: unbounded)
          VersionModulus, \* 2^32 in the code: the width of m_next_version
          MaxPush,        \* bound: pushes in a behaviour
          TimersAllowed,  \* may a ConsumerThread have an idle wakeup timer?
          StopAllowed,    \* does the environment call ConsumerThread::stop()?
          SpuriousAllowed,\* may boost::condition::wait() return unnotified?
          ClearAllowed,   \* does the environment call clear()?
          NULL

ASSUME LockedQueueAssumption ==
    /\ NULL \notin Nodes \cup Producers \cup Consumers \cup Values
    /\ Producers \cap Consumers = {}
    /\ Nodes # {}
    /\ MaxSize \in Nat /\ MaxPush \in Nat
    /\ VersionModulus \in Nat \ {0}
    /\ {TimersAllowed, StopAllowed, SpuriousAllowed, ClearAllowed} \subseteq BOOLEAN

Threads == Producers \cup Consumers

VARIABLES
    list,        \* nodes from m_head_ptr along next; list[1] is the dummy
    tail,        \* m_tail_ptr
    val,         \* node -> data
    ver,         \* node -> version
    free,        \* nodes on the free list
    size,        \* m_size: a signed count that size() reads as unsigned
    nextVersion, \* m_next_version
    tailLock,    \* the holder of m_tail_mutex across actions, or NULL
    pc,          \* control point of each thread
    node,        \* a producer's unlinked node, a consumer's unlinked old head
    lastVer,     \* last_known_version of each consumer
    running,     \* ConsumerThread::m_is_running
    idleHead,    \* m_idle_ptr
    idleNext,    \* ConsumerThread::m_next_ptr
    pushes,      \* pushes begun (bounded by MaxPush)
    taken,       \* the item each consumer received last
    timed,       \* the consumers that were built with an idle wakeup timer
    strayed,     \* history: has a consumer left its wait unnotified?
    cut          \* history: has reset() taken the m_next_ptr of a consumer?

heap  == <<list, tail, val, ver, free>>
idle  == <<idleHead, idleNext>>
marks == <<strayed, cut>>
vars  == <<list, tail, val, ver, free, size, nextVersion, tailLock, pc, node,
           lastVer, running, idleHead, idleNext, pushes, taken, timed, marks>>

ProducerPc == {"idle", "linking", "publishing"}
ConsumerPc == {"idle", "check", "dequeue", "park", "waiting", "woken",
               "expired", "freeing"}

TypeOK ==
    /\ list \in Seq(Nodes) /\ list # <<>>
    /\ tail \in Nodes
    /\ val \in [Nodes -> Values \cup {NULL}]
    /\ ver \in [Nodes -> Nat]
    /\ free \in SUBSET Nodes
    /\ size \in Int /\ nextVersion \in Nat /\ pushes \in Nat
    /\ tailLock \in Producers \cup {NULL}
    /\ pc \in [Threads -> ProducerPc \cup ConsumerPc]
    /\ node \in [Threads -> Nodes \cup {NULL}]
    /\ lastVer \in [Consumers -> Nat]
    /\ running \in [Consumers -> BOOLEAN]
    /\ idleHead \in Consumers \cup {NULL}
    /\ idleNext \in [Consumers -> Consumers \cup {NULL}]
    /\ taken \in [Consumers -> Values \cup {NULL}]
    /\ timed \in SUBSET Consumers
    /\ strayed \in BOOLEAN /\ cut \in BOOLEAN

-----------------------------------------------------------------------------
(* Conditions and helpers.  A definition whose name ends in "Bug" is the       *)
(* one after it with a slip of the kind the properties are meant to catch.     *)

\* size() >= MaxSize, where the signed count is read as an unsigned one: a
\* count that is momentarily negative is an enormous size.
FullBug == MaxSize > 0 /\ (size < 0 \/ size > MaxSize)
Full    == MaxSize > 0 /\ (size < 0 \/ size >= MaxSize)

\* m_tail_mutex can be taken.
TailFreeBug == TRUE
TailFree    == tailLock = NULL

\* The version check of pop(): nothing was pushed since c's failed dequeue().
StillEmptyBug(c) == TRUE
StillEmpty(c)    == ver[tail] = lastVer[c]

HasWakeupTimerBug(c) == FALSE
HasWakeupTimer(c)    == c \in timed

\* The items of a list, not counting the dummy.
CountItemsBug(l) == Len(l)
CountItems(l)    == Len(l) - 1

\* initialize(): the list that consists of a new dummy.
InitializeBug(d) == <<>>
Initialize(d)    == <<d>>

\* m_tail_ptr->next = n: what the list becomes when the node t points to gets
\* the fresh node n as its successor.  A t outside the list changes nothing.
LinkAfterBug(l, t, n) == <<l[1], n>>
LinkAfter(l, t, n) ==
    IF \E i \in 1..Len(l) : l[i] = t
    THEN Append(SubSeq(l, 1, CHOOSE i \in 1..Len(l) : l[i] = t), n)
    ELSE l

\* notify_one() on a consumer's own condition: nobody else can be waiting on
\* it, and the notification is lost when the consumer is not waiting.
NotifyBug(c, pcs) == pcs
Notify(c, pcs) == IF pcs[c] = "waiting" THEN [pcs EXCEPT ![c] = "woken"] ELSE pcs

-----------------------------------------------------------------------------
(* push() *)

\* The size check (a sleeping push polls it again) and the new node.
PushBegin(p, v) ==
    /\ pc[p] = "idle" /\ pushes < MaxPush
    /\ ~Full
    /\ \E n \in free :
         /\ free' = free \ {n}
         /\ node' = [node EXCEPT ![p] = n]
         /\ val' = [val EXCEPT ![n] = v]
         /\ ver' = [ver EXCEPT ![n] = 0]
    /\ pushes' = pushes + 1
    /\ pc' = [pc EXCEPT ![p] = "linking"]
    /\ UNCHANGED <<list, tail, size, nextVersion, tailLock, lastVer, running,
                   idleHead, idleNext, taken, timed, marks>>

\* Take m_tail_mutex, number the node and link it: from here on a consumer
\* can see it, although m_tail_ptr and m_size do not know of it yet.
PushLink(p) ==
    /\ pc[p] = "linking" /\ TailFree
    /\ tailLock' = p
    /\ nextVersion' = (nextVersion + 2) % VersionModulus
    /\ ver' = [ver EXCEPT ![node[p]] = nextVersion']
    /\ list' = LinkAfter(list, tail, node[p])
    /\ pc' = [pc EXCEPT ![p] = "publishing"]
    /\ UNCHANGED <<tail, val, free, size, node, lastVer, running, idleHead,
                   idleNext, pushes, taken, timed, marks>>

\* Update m_tail_ptr and m_size, unlink and notify the first idle consumer.
PushPublish(p) ==
    /\ pc[p] = "publishing"
    /\ tail' = node[p]
    /\ size' = size + 1
    /\ LET done == [pc EXCEPT ![p] = "idle"] IN
       IF idleHead # NULL
       THEN /\ idleHead' = idleNext[idleHead]
            /\ pc' = Notify(idleHead, done)
       ELSE idleHead' = idleHead /\ pc' = done
    /\ node' = [node EXCEPT ![p] = NULL]
    /\ tailLock' = NULL
    /\ UNCHANGED <<list, val, ver, free, nextVersion, lastVer, running,
                   idleNext, pushes, taken, timed, marks>>

-----------------------------------------------------------------------------
(* pop() *)

\* A consumer calls pop(t, thread_info).
PopCall(c) ==
    /\ pc[c] = "idle" /\ running[c]
    /\ pc' = [pc EXCEPT ![c] = "check"]
    /\ UNCHANGED <<heap, size, nextVersion, tailLock, node, lastVer, running,
                   idle, pushes, taken, timed, marks>>

\* while (thread_info.isRunning()): go on, or return false.
PopCheck(c) ==
    /\ pc[c] = "check"
    /\ pc' = [pc EXCEPT ![c] = IF running[c] THEN "dequeue" ELSE "idle"]
    /\ UNCHANGED <<heap, size, nextVersion, tailLock, node, lastVer, running,
                   idle, pushes, taken, timed, marks>>

\* The critical section of dequeue() when there is an item: copy it and step
\* the head; the old dummy is this thread's to free.
TakeHead(c) ==
    /\ Len(list) > 1
    /\ node' = [node EXCEPT ![c] = Head(list)]
    /\ list' = Tail(list)
    /\ taken' = [taken EXCEPT ![c] = val[list[2]]]
    /\ pc' = [pc EXCEPT ![c] = "freeing"]
    /\ lastVer' = [lastVer EXCEPT ![c] = 0]
    /\ UNCHANGED <<tail, val, ver, free, size, nextVersion, tailLock, running,
                   idle, pushes, timed, marks>>

\* The critical section of dequeue() when m_head_ptr->next is NULL.
SeeEmpty(c) ==
    /\ Len(list) = 1
    /\ lastVer' = [lastVer EXCEPT ![c] = ver[Head(list)]]
    /\ pc' = [pc EXCEPT ![c] = "park"]
    /\ UNCHANGED <<heap, size, nextVersion, tailLock, node, running, idle,
                   pushes, taken, timed, marks>>

PopDequeue(c) == pc[c] = "dequeue" /\ (TakeHead(c) \/ SeeEmpty(c))

\* pop(t): one dequeue(), no waiting.  On an empty queue it changes nothing.
TryPop(c) == pc[c] = "idle" /\ running[c] /\ TakeHead(c)

\* destroyNode(old head) and --m_size, outside the lock; the pop returns true.
PopFree(c) ==
    /\ pc[c] = "freeing"
    /\ free' = free \cup {node[c]}
    /\ val' = [val EXCEPT ![node[c]] = NULL]
    /\ ver' = [ver EXCEPT ![node[c]] = 0]
    /\ size' = size - 1
    /\ node' = [node EXCEPT ![c] = NULL]
    /\ pc' = [pc EXCEPT ![c] = "idle"]
    /\ UNCHANGED <<list, tail, nextVersion, tailLock, lastVer, running, idle,
                   pushes, taken, timed, marks>>

\* Under m_tail_mutex: if nothing was pushed since the failed dequeue, become
\* the first idle consumer and wait (which releases the mutex); otherwise retry.
PopPark(c) ==
    /\ pc[c] = "park" /\ TailFree
    /\ IF StillEmpty(c)
       THEN /\ idleNext' = [idleNext EXCEPT ![c] = idleHead]
            /\ idleHead' = c
            /\ pc' = [pc EXCEPT ![c] = "waiting"]
       ELSE pc' = [pc EXCEPT ![c] = "check"] /\ UNCHANGED idle
    /\ UNCHANGED <<heap, size, nextVersion, tailLock, node, lastVer, running,
                   pushes, taken, timed, marks>>

\* timed_wait() expires.  The consumer is not taken off the idle list.
PopExpire(c) ==
    /\ pc[c] = "waiting" /\ HasWakeupTimer(c)
    /\ pc' = [pc EXCEPT ![c] = "expired"]
    /\ strayed' = TRUE
    /\ UNCHANGED <<heap, size, nextVersion, tailLock, node, lastVer, running,
                   idle, pushes, taken, timed, cut>>

\* The wait returns without a notification, as boost::condition permits.
PopSpurious(c) ==
    /\ SpuriousAllowed /\ pc[c] = "waiting"
    /\ pc' = [pc EXCEPT ![c] = "woken"]
    /\ strayed' = TRUE
    /\ UNCHANGED <<heap, size, nextVersion, tailLock, node, lastVer, running,
                   idle, pushes, taken, timed, cut>>

\* The wait reacquires m_tail_mutex: woken, the loop starts over; expired, the
\* pop returns false.
PopResume(c) ==
    /\ pc[c] \in {"woken", "expired"} /\ TailFree
    /\ pc' = [pc EXCEPT ![c] = IF @ = "woken" THEN "check" ELSE "idle"]
    /\ lastVer' = [lastVer EXCEPT ![c] = 0]
    /\ UNCHANGED <<heap, size, nextVersion, tailLock, node, running, idle,
                   pushes, taken, timed, marks>>

-----------------------------------------------------------------------------
(* The environment: ConsumerThread::stop(), reset(), and clear(). *)

Stop(c) ==
    /\ StopAllowed /\ running[c]
    /\ running' = [running EXCEPT ![c] = FALSE]
    /\ pc' = Notify(c, pc)
    /\ strayed' = (strayed \/ pc[c] = "waiting")
    /\ UNCHANGED <<heap, size, nextVersion, tailLock, node, lastVer, idle,
                   pushes, taken, timed, cut>>

\* reset() makes a stopped ConsumerThread usable for another pop().
Reset(c) ==
    /\ ~running[c] /\ pc[c] = "idle"
    /\ running' = [running EXCEPT ![c] = TRUE]
    /\ idleNext' = [idleNext EXCEPT ![c] = NULL]
    /\ cut' = (cut \/ idleNext[c] # NULL)
    /\ UNCHANGED <<heap, size, nextVersion, tailLock, pc, node, lastVer,
                   idleHead, pushes, taken, timed, strayed>>

\* clear(), under both mutexes: destroy every node, count down one item for
\* each but the dummy, and start over with a new dummy of version 0.
Clear ==
    /\ ClearAllowed /\ TailFree
    /\ LET linked == {list[i] : i \in 1..Len(list)} IN
       \E d \in free \cup linked :
         /\ list' = Initialize(d) /\ tail' = d
         /\ free' = (free \cup linked) \ {d}
         /\ val' = [n \in Nodes |-> IF n \in linked \cup {d} THEN NULL ELSE val[n]]
         /\ ver' = [n \in Nodes |-> IF n \in linked \cup {d} THEN 0 ELSE ver[n]]
    /\ size' = size - CountItems(list)
    /\ UNCHANGED <<nextVersion, tailLock, pc, node, lastVer, running, idle,
                   pushes, taken, timed, marks>>

-----------------------------------------------------------------------------
Init ==
    /\ \E d \in Nodes : list = Initialize(d) /\ tail = d /\ free = Nodes \ {d}
    /\ val = [n \in Nodes |-> NULL]
    /\ ver = [n \in Nodes |-> 0]
    /\ size = 0 /\ nextVersion = 1 /\ pushes = 0
    /\ tailLock = NULL
    /\ pc = [t \in Threads |-> "idle"]
    /\ node = [t \in Threads |-> NULL]
    /\ lastVer = [c \in Consumers |-> 0]
    /\ running = [c \in Consumers |-> TRUE]
    /\ idleHead = NULL /\ idleNext = [c \in Consumers |-> NULL]
    /\ taken = [c \in Consumers |-> NULL]
    /\ timed \in IF TimersAllowed THEN SUBSET Consumers ELSE {{}}
    /\ strayed = FALSE /\ cut = FALSE

ProducerStep(p) == (\E v \in Values : PushBegin(p, v)) \/ PushLink(p) \/ PushPublish(p)

ConsumerStep(c) ==
    \/ PopCall(c) \/ PopCheck(c) \/ PopDequeue(c) \/ TryPop(c) \/ PopFree(c)
    \/ PopPark(c) \/ PopExpire(c) \/ PopResume(c)

Next ==
    \/ \E p \in Producers : ProducerStep(p)
    \/ \E c \in Consumers : ConsumerStep(c)
    \/ \E c \in Consumers : PopSpurious(c) \/ Stop(c) \/ Reset(c)
    \/ Clear

Spec == Init /\ [][Next]_vars

\* A thread that is in push() or pop() keeps running; whether a push or a pop
\* is called, and whether a wait ends spuriously, is up to others.  Idle timers
\* expire.
Fairness ==
    /\ \A p \in Producers : WF_vars(PushLink(p) \/ PushPublish(p))
    /\ \A c \in Consumers : WF_vars(PopCheck(c) \/ PopDequeue(c) \/ PopFree(c)
                                    \/ PopPark(c) \/ PopExpire(c) \/ PopResume(c))

FairSpec == Spec /\ Fairness

\* The worker loop of ReactionScheduler::processReactionQueue calls pop() again
\* and again while it is running.
WorkerSpec == FairSpec /\ \A c \in Consumers : WF_vars(PopCall(c))

-----------------------------------------------------------------------------
(* Safety *)

Linked == {list[i] : i \in 1..Len(list)}

\* Every node has one owner: it is linked once, or free, or held by exactly one
\* thread (a producer that has not linked it yet, a consumer that is freeing an
\* old dummy).  And m_tail_ptr, which push() and pop() dereference under
\* m_tail_mutex, is then the last linked node, never a freed one: although
\* dequeue() frees nodes without that mutex (PionLockedQueue.hpp:93-110).
NodesOwnedOnce ==
    /\ \A i, j \in 1..Len(list) : list[i] = list[j] => i = j
    /\ Linked \cap free = {}
    /\ \A t \in Threads : node[t] # NULL /\ pc[t] # "publishing" =>
         node[t] \notin Linked \cup free
    /\ \A t, u \in Threads : node[t] # NULL /\ node[t] = node[u] => t = u
    /\ tailLock = NULL => tail = list[Len(list)]
    /\ tailLock # NULL => pc[tailLock] = "publishing" /\ node[tailLock] = list[Len(list)]

\* m_size, maintained outside the head mutex, is the number of linked items
\* but for the threads between changing the list and counting it: it may be
\* off, even negative, but never drifts (PionLockedQueue.hpp:113, 205, 241).
\* push() checks it without a lock before it links (219), so MaxSize may be
\* exceeded, but only by the producers that passed the check together.
SizeAccounts ==
    /\ size = Len(list) - 1 + Cardinality({c \in Consumers : pc[c] = "freeing"})
                            - Cardinality({p \in Producers : pc[p] = "publishing"})
    /\ MaxSize > 0 => Len(list) - 1 <= MaxSize + Cardinality(Producers) - 1

\* No lost wakeup: the version check under m_tail_mutex (270) makes a push that
\* slips in between a failed dequeue and the wait visible, so there is never an
\* item in the queue while every consumer sleeps unnotified.
NoLostWakeup ==
    Len(list) > 1 /\ tailLock = NULL => \E c \in Consumers : pc[c] # "waiting"

\* "wake up an idle thread (if any)" (PionLockedQueue.hpp:243): a push that
\* finishes while some consumer is waiting wakes one of them, as long as nobody
\* has left the wait but by a notification.  A timer, a stop() or a spurious
\* wakeup leaves its consumer on the idle list, which becomes a loop when the
\* consumer parks again (272): a push may then spend its notification on a
\* consumer that is awake, but it finds one.  Only reset(), which nobody calls,
\* may cut the waiting consumers off the list.
PushWakesIdle ==
    [][ tailLock # NULL /\ tailLock' = NULL /\ ~cut /\ (\E c \in Consumers : pc[c] = "waiting")
        => \/ \E c \in Consumers : pc[c] = "waiting" /\ pc'[c] = "woken"
           \/ strayed /\ idleHead # NULL /\ pc[idleHead] # "waiting" ]_vars

\* The queue is a FIFO: an item enters it when it is linked, and each pop hands
\* out the oldest item, once (PionLockedQueue.hpp:38).
Items == [i \in 1..Len(list) - 1 |-> val[list[i + 1]]]
Fifo == INSTANCE FifoQueue WITH queue <- Items
ImplementsFifo == Fifo!Spec

-----------------------------------------------------------------------------
(* Liveness *)

\* "stops the thread -- if waiting on pop() will return immediately"
\* (PionLockedQueue.hpp:147): a stopped consumer leaves pop() if it has an
\* idle timer.  Without one it may not: stop() does not take m_tail_mutex, and
\* its notification is lost between the running check and the wait.
StopReturns ==
    \A c \in Consumers : c \in timed /\ ~running[c] ~> (pc[c] = "idle" \/ running[c])

\* The notifications, each sent to one consumer (PionLockedQueue.hpp:244-248),
\* and the idle timers suffice to drain the queue, whichever of the consumers
\* have a timer, unless one of them is stopped.
QueueDrains ==
    (Len(list) > 1) ~> (Len(list) = 1 \/ \E c \in Consumers : ~running[c])
=============================================================================

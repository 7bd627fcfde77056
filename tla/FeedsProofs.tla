------------------------------ MODULE FeedsProofs ------------------------------
(***************************************************************************)
(* Theorems about Feeds, for any number of feeds and threads: what the     *)
(* mutex of a feed protects.  The removed_handler, start() and writeEvent()*)
(* take it, and none of them looks at the others' progress.                *)
(***************************************************************************)
EXTENDS Feeds, TLAPS

\* Who has the mutex of a feed.
Holding ==
    /\ \A f \in Readers : pc[f] \in {"process", "deliver"} => mutex[f] = f /\ f \notin told
    /\ \A w \in Writers : pc[w] \in {"add", "respond", "send"} => mutex[w] = w
    /\ \A t \in Callers : sending[t] # NULL => /\ mutex[sending[t]] = t
                                              /\ sending[t] \in rest[t]
                                              /\ sending[t] \notin told
    /\ \A t \in Callers : rest[t] # {} => pc[t] \in {"deliver", "write"}

\* A writer that is not an output yet gets no Events.
NotYet ==
    \A w \in Writers : pc[w] \in {"new", "add"} =>
        w \notin outputs \cup posted /\ \A t \in Callers : w \notin rest[t]

\* A feed that was told has a closed stream, and a reader that reads Events was
\* told that its pointer is void; one that had not stored it will not get there.
ToldOK ==
    /\ \A f \in told : ~open[f]
    /\ \A f \in Readers : f \in told /\ pc[f] \in {"read", "have"} => ~pointer[f]

IInv == TypeOK /\ Holding /\ NotYet /\ ToldOK

USE FeedsAssumption DEF FeedsAssumption, Feeds, Callers, Threads, Goto, Lock, Unlock, Free

\* A step of a FeedReader.
LEMMA ReaderKeeps ==
    ASSUME IInv, NEW f \in Readers, Read(f)
    PROVE  IInv'
<1> USE DEF locks, reactor, queue, calls, admin
<1>0. TypeOK /\ Holding /\ NotYet /\ ToldOK  BY DEF IInv
<1>1. CASE ReaderAdd(f)
  <2>1. TypeOK'  BY <1>0, <1>1 DEF TypeOK, ReaderAdd, Connect
  <2>2. Holding'  BY <1>0, <1>1 DEF TypeOK, Holding, ReaderAdd, Connect
  <2>3. NotYet'  BY <1>0, <1>1 DEF TypeOK, NotYet, ReaderAdd, Connect
  <2>4. ToldOK'  BY <1>0, <1>1 DEF TypeOK, ToldOK, ReaderAdd, Connect
  <2> QED  BY <2>1, <2>2, <2>3, <2>4 DEF IInv
<1>2. CASE ReaderAssign(f)
  <2>1. TypeOK'  BY <1>0, <1>2 DEF TypeOK, ReaderAssign
  <2>2. Holding'  BY <1>0, <1>2 DEF TypeOK, Holding, ReaderAssign
  <2>3. NotYet'  BY <1>0, <1>2 DEF TypeOK, NotYet, ReaderAssign
  <2>4. ToldOK'  BY <1>0, <1>2 DEF TypeOK, ToldOK, ReaderAssign
  <2> QED  BY <2>1, <2>2, <2>3, <2>4 DEF IInv
<1>3. CASE ReaderRespond(f)
  <2>1. TypeOK'  BY <1>0, <1>3 DEF TypeOK, ReaderRespond
  <2>2. Holding'  BY <1>0, <1>3 DEF TypeOK, Holding, ReaderRespond
  <2>3. NotYet'  BY <1>0, <1>3 DEF TypeOK, NotYet, ReaderRespond
  <2>4. ToldOK'  BY <1>0, <1>3 DEF TypeOK, ToldOK, ReaderRespond
  <2> QED  BY <2>1, <2>2, <2>3, <2>4 DEF IInv
<1>4. CASE ReaderSend(f)
  <2>1. TypeOK'  BY <1>0, <1>4 DEF TypeOK, ReaderSend
  <2>2. Holding'  BY <1>0, <1>4 DEF TypeOK, Holding, ReaderSend
  <2>3. NotYet'  BY <1>0, <1>4 DEF TypeOK, NotYet, ReaderSend
  <2>4. ToldOK'  BY <1>0, <1>4 DEF TypeOK, ToldOK, ReaderSend
  <2> QED  BY <2>1, <2>2, <2>3, <2>4 DEF IInv
<1>5. CASE ReaderRead(f)
  <2>1. TypeOK'  BY <1>0, <1>5 DEF TypeOK, ReaderRead
  <2>2. Holding'  BY <1>0, <1>5 DEF TypeOK, Holding, ReaderRead
  <2>3. NotYet'  BY <1>0, <1>5 DEF TypeOK, NotYet, ReaderRead
  <2>4. ToldOK'  BY <1>0, <1>5 DEF TypeOK, ToldOK, ReaderRead
  <2> QED  BY <2>1, <2>2, <2>3, <2>4 DEF IInv
<1>6. CASE ReaderLock(f)
  <2>1. TypeOK'  BY <1>0, <1>6 DEF TypeOK, ReaderLock, MayUse
  <2>2. Holding'  BY <1>0, <1>6 DEF TypeOK, Holding, ToldOK, ReaderLock, MayUse
  <2>3. NotYet'  BY <1>0, <1>6 DEF TypeOK, NotYet, ReaderLock, MayUse
  <2>4. ToldOK'  BY <1>0, <1>6 DEF TypeOK, ToldOK, ReaderLock, MayUse
  <2> QED  BY <2>1, <2>2, <2>3, <2>4 DEF IInv
<1>7. CASE ReaderDone(f)
  <2>1. TypeOK'  BY <1>0, <1>7 DEF TypeOK, ReaderDone
  <2>2. Holding'  BY <1>0, <1>7 DEF TypeOK, Holding, ReaderDone
  <2>3. NotYet'  BY <1>0, <1>7 DEF TypeOK, NotYet, ReaderDone
  <2>4. ToldOK'  BY <1>0, <1>7 DEF TypeOK, ToldOK, Holding, ReaderDone
  <2> QED  BY <2>1, <2>2, <2>3, <2>4 DEF IInv
<1>8. CASE ReaderExit(f)
  <2>1. TypeOK'  BY <1>0, <1>8 DEF TypeOK, ReaderExit
  <2>2. Holding'  BY <1>0, <1>8 DEF TypeOK, Holding, ReaderExit
  <2>3. NotYet'  BY <1>0, <1>8 DEF TypeOK, NotYet, ReaderExit
  <2>4. ToldOK'  BY <1>0, <1>8 DEF TypeOK, ToldOK, ReaderExit
  <2> QED  BY <2>1, <2>2, <2>3, <2>4 DEF IInv
<1>9. CASE ReaderUnregister(f)
  <2>1. TypeOK'  BY <1>0, <1>9 DEF TypeOK, ReaderUnregister
  <2>2. Holding'  BY <1>0, <1>9 DEF TypeOK, Holding, ReaderUnregister
  <2>3. NotYet'  BY <1>0, <1>9 DEF TypeOK, NotYet, ReaderUnregister
  <2>4. ToldOK'  BY <1>0, <1>9 DEF TypeOK, ToldOK, ReaderUnregister
  <2> QED  BY <2>1, <2>2, <2>3, <2>4 DEF IInv
<1> QED  BY <1>1, <1>2, <1>3, <1>4, <1>5, <1>6, <1>7, <1>8, <1>9 DEF Read

\* A step of the start() of a FeedWriter.
LEMMA WriterKeeps ==
    ASSUME IInv, NEW w \in Writers, StartWriter(w)
    PROVE  IInv'
<1> USE DEF locks, reactor, queue, calls, admin
<1>0. TypeOK /\ Holding /\ NotYet /\ ToldOK  BY DEF IInv
<1>1. CASE WriterLock(w)
  <2>1. TypeOK'  BY <1>0, <1>1 DEF TypeOK, WriterLock, HeldByStart
  <2>2. Holding'  BY <1>0, <1>1 DEF TypeOK, Holding, WriterLock, HeldByStart
  <2>3. NotYet'  BY <1>0, <1>1 DEF TypeOK, NotYet, WriterLock, HeldByStart
  <2>4. ToldOK'  BY <1>0, <1>1 DEF TypeOK, ToldOK, WriterLock, HeldByStart
  <2> QED  BY <2>1, <2>2, <2>3, <2>4 DEF IInv
<1>2. CASE WriterAdd(w)
  <2>1. TypeOK'  BY <1>0, <1>2 DEF TypeOK, WriterAdd, Connect
  <2>2. Holding'  BY <1>0, <1>2 DEF TypeOK, Holding, WriterAdd, Connect
  <2>3. NotYet'  BY <1>0, <1>2 DEF TypeOK, NotYet, WriterAdd, Connect
  <2>4. ToldOK'  BY <1>0, <1>2 DEF TypeOK, ToldOK, WriterAdd, Connect
  <2> QED  BY <2>1, <2>2, <2>3, <2>4 DEF IInv
<1>3. CASE WriterRespond(w)
  <2>1. TypeOK'  BY <1>0, <1>3 DEF TypeOK, WriterRespond
  <2>2. Holding'  BY <1>0, <1>3 DEF TypeOK, Holding, WriterRespond
  <2>3. NotYet'  BY <1>0, <1>3 DEF TypeOK, NotYet, WriterRespond
  <2>4. ToldOK'  BY <1>0, <1>3 DEF TypeOK, ToldOK, WriterRespond
  <2> QED  BY <2>1, <2>2, <2>3, <2>4 DEF IInv
<1>4. CASE WriterSend(w)
  <2>1. TypeOK'  BY <1>0, <1>4 DEF TypeOK, WriterSend
  <2>2. Holding'  BY <1>0, <1>4 DEF TypeOK, Holding, WriterSend
  <2>3. NotYet'  BY <1>0, <1>4 DEF TypeOK, NotYet, WriterSend
  <2>4. ToldOK'  BY <1>0, <1>4 DEF TypeOK, ToldOK, WriterSend
  <2> QED  BY <2>1, <2>2, <2>3, <2>4 DEF IInv
<1> QED  BY <1>1, <1>2, <1>3, <1>4 DEF StartWriter

\* A step of a worker thread of the scheduler.
LEMMA WorkerKeeps ==
    ASSUME IInv, NEW k \in Workers, Work(k)
    PROVE  IInv'
<1> USE DEF locks, reactor, queue, calls, admin
<1>0. TypeOK /\ Holding /\ NotYet /\ ToldOK  BY DEF IInv
<1>1. CASE WorkerProcess(k)
  <2>1. TypeOK'  BY <1>0, <1>1 DEF TypeOK, WorkerProcess
  <2>2. Holding'  BY <1>0, <1>1 DEF TypeOK, Holding, WorkerProcess
  <2>3. NotYet'  BY <1>0, <1>1 DEF TypeOK, NotYet, WorkerProcess
  <2>4. ToldOK'  BY <1>0, <1>1 DEF TypeOK, ToldOK, WorkerProcess
  <2> QED  BY <2>1, <2>2, <2>3, <2>4 DEF IInv
<1>2. CASE WorkerDone(k)
  <2>1. TypeOK'  BY <1>0, <1>2 DEF TypeOK, WorkerDone
  <2>2. Holding'  BY <1>0, <1>2 DEF TypeOK, Holding, WorkerDone
  <2>3. NotYet'  BY <1>0, <1>2 DEF TypeOK, NotYet, WorkerDone
  <2>4. ToldOK'  BY <1>0, <1>2 DEF TypeOK, ToldOK, WorkerDone
  <2> QED  BY <2>1, <2>2, <2>3, <2>4 DEF IInv
<1>3. CASE \E w \in Writers : WorkerTakes(k, w)
  <2>1. TypeOK'  BY <1>0, <1>3 DEF TypeOK, WorkerTakes
  <2>2. Holding'  BY <1>0, <1>3 DEF TypeOK, Holding, WorkerTakes
  <2>3. NotYet'  BY <1>0, <1>3 DEF TypeOK, NotYet, WorkerTakes
  <2>4. ToldOK'  BY <1>0, <1>3 DEF TypeOK, ToldOK, WorkerTakes
  <2> QED  BY <2>1, <2>2, <2>3, <2>4 DEF IInv
<1>4. CASE \E w \in Writers : Cleanup(k, w)
  <2>1. TypeOK'  BY <1>0, <1>4 DEF TypeOK, Cleanup
  <2>2. Holding'  BY <1>0, <1>4 DEF TypeOK, Holding, Cleanup
  <2>3. NotYet'  BY <1>0, <1>4 DEF TypeOK, NotYet, Cleanup
  <2>4. ToldOK'  BY <1>0, <1>4 DEF TypeOK, ToldOK, Cleanup
  <2> QED  BY <2>1, <2>2, <2>3, <2>4 DEF IInv
<1> QED  BY <1>1, <1>2, <1>3, <1>4 DEF Work

\* The delivery of an Event, by whatever thread.
LEMMA DeliveryKeeps ==
    ASSUME IInv, NEW t \in Callers,
           Deliver(t) \/ WriteDone(t) \/ \E w \in Writers : WriteEvent(t, w)
    PROVE  IInv'
<1> USE DEF locks, reactor, queue, calls, admin
<1>0. TypeOK /\ Holding /\ NotYet /\ ToldOK  BY DEF IInv
<1>1. CASE Deliver(t)
  <2>1. TypeOK'  BY <1>0, <1>1 DEF TypeOK, Deliver
  <2>2. Holding'  BY <1>0, <1>1 DEF TypeOK, Holding, Deliver
  <2>3. NotYet'  BY <1>0, <1>1 DEF TypeOK, NotYet, Deliver
  <2>4. ToldOK'  BY <1>0, <1>1 DEF TypeOK, ToldOK, Deliver
  <2> QED  BY <2>1, <2>2, <2>3, <2>4 DEF IInv
<1>2. CASE WriteDone(t)
  <2>1. TypeOK'  BY <1>0, <1>2 DEF TypeOK, WriteDone
  <2>2. Holding'  BY <1>0, <1>2 DEF TypeOK, Holding, WriteDone
  <2>3. NotYet'  BY <1>0, <1>2 DEF TypeOK, NotYet, WriteDone
  <2>4. ToldOK'  BY <1>0, <1>2 DEF TypeOK, ToldOK, WriteDone
  <2> QED  BY <2>1, <2>2, <2>3, <2>4 DEF IInv
<1>3. CASE \E w \in Writers : WriteEvent(t, w)
  <2>1. TypeOK'  BY <1>0, <1>3 DEF TypeOK, WriteEvent, CanSend
  <2>2. Holding'  BY <1>0, <1>3 DEF TypeOK, Holding, ToldOK, WriteEvent, CanSend
  <2>3. NotYet'  BY <1>0, <1>3 DEF TypeOK, NotYet, WriteEvent, CanSend
  <2>4. ToldOK'  BY <1>0, <1>3 DEF TypeOK, ToldOK, WriteEvent, CanSend
  <2> QED  BY <2>1, <2>2, <2>3, <2>4 DEF IInv
<1> QED  BY <1>1, <1>2, <1>3

\* Removing the Reactor, stopping the engine, and lost connections.
LEMMA AdminKeeps ==
    ASSUME IInv, Administer \/ \E f \in Feeds : LoseConnection(f)
    PROVE  IInv'
<1> USE DEF locks, reactor, queue, calls, admin
<1>0. TypeOK /\ Holding /\ NotYet /\ ToldOK  BY DEF IInv
<1>1. CASE RemoveReactor
  <2>1. TypeOK'  BY <1>0, <1>1 DEF TypeOK, RemoveReactor
  <2>2. Holding'  BY <1>0, <1>1 DEF TypeOK, Holding, RemoveReactor
  <2>3. NotYet'  BY <1>0, <1>1 DEF TypeOK, NotYet, RemoveReactor
  <2>4. ToldOK'  BY <1>0, <1>1 DEF TypeOK, ToldOK, RemoveReactor
  <2> QED  BY <2>1, <2>2, <2>3, <2>4 DEF IInv
<1>2. CASE StopEngine
  <2>1. TypeOK'  BY <1>0, <1>2 DEF TypeOK, StopEngine
  <2>2. Holding'  BY <1>0, <1>2 DEF TypeOK, Holding, StopEngine
  <2>3. NotYet'  BY <1>0, <1>2 DEF TypeOK, NotYet, StopEngine
  <2>4. ToldOK'  BY <1>0, <1>2 DEF TypeOK, ToldOK, StopEngine
  <2> QED  BY <2>1, <2>2, <2>3, <2>4 DEF IInv
<1>3. CASE Notify
  <2>1. TypeOK'  BY <1>0, <1>3 DEF TypeOK, Notify
  <2>2. Holding'  BY <1>0, <1>3 DEF TypeOK, Holding, Notify
  <2>3. NotYet'  BY <1>0, <1>3 DEF TypeOK, NotYet, Notify
  <2>4. ToldOK'  BY <1>0, <1>3 DEF TypeOK, ToldOK, Notify
  <2> QED  BY <2>1, <2>2, <2>3, <2>4 DEF IInv
<1>4. CASE AllNotified
  <2>1. TypeOK'  BY <1>0, <1>4 DEF TypeOK, AllNotified
  <2>2. Holding'  BY <1>0, <1>4 DEF TypeOK, Holding, AllNotified
  <2>3. NotYet'  BY <1>0, <1>4 DEF TypeOK, NotYet, AllNotified
  <2>4. ToldOK'  BY <1>0, <1>4 DEF TypeOK, ToldOK, AllNotified
  <2> QED  BY <2>1, <2>2, <2>3, <2>4 DEF IInv
<1>5. CASE Destroy
  <2>1. TypeOK'  BY <1>0, <1>5 DEF TypeOK, Destroy
  <2>2. Holding'  BY <1>0, <1>5 DEF TypeOK, Holding, Destroy
  <2>3. NotYet'  BY <1>0, <1>5 DEF TypeOK, NotYet, Destroy
  <2>4. ToldOK'  BY <1>0, <1>5 DEF TypeOK, ToldOK, Destroy
  <2> QED  BY <2>1, <2>2, <2>3, <2>4 DEF IInv
<1>6. CASE StartReactor
  <2>1. TypeOK'  BY <1>0, <1>6 DEF TypeOK, StartReactor
  <2>2. Holding'  BY <1>0, <1>6 DEF TypeOK, Holding, StartReactor
  <2>3. NotYet'  BY <1>0, <1>6 DEF TypeOK, NotYet, StartReactor
  <2>4. ToldOK'  BY <1>0, <1>6 DEF TypeOK, ToldOK, StartReactor
  <2> QED  BY <2>1, <2>2, <2>3, <2>4 DEF IInv
<1>7. CASE \E f \in Feeds : Disconnect(f)
  <2>1. TypeOK'  BY <1>0, <1>7 DEF TypeOK, Disconnect
  <2>2. Holding'  BY <1>0, <1>7 DEF TypeOK, Holding, Disconnect
  <2>3. NotYet'  BY <1>0, <1>7 DEF TypeOK, NotYet, Disconnect
  <2>4. ToldOK'  BY <1>0, <1>7 DEF TypeOK, ToldOK, Disconnect
  <2> QED  BY <2>1, <2>2, <2>3, <2>4 DEF IInv
<1>8. CASE \E f \in Feeds : DisconnectThrows(f)
  <2>1. TypeOK'  BY <1>0, <1>8 DEF TypeOK, DisconnectThrows
  <2>2. Holding'  BY <1>0, <1>8 DEF TypeOK, Holding, DisconnectThrows
  <2>3. NotYet'  BY <1>0, <1>8 DEF TypeOK, NotYet, DisconnectThrows
  <2>4. ToldOK'  BY <1>0, <1>8 DEF TypeOK, ToldOK, DisconnectThrows
  <2> QED  BY <2>1, <2>2, <2>3, <2>4 DEF IInv
<1>9. CASE \E f \in Feeds : LoseConnection(f)
  <2>1. TypeOK'  BY <1>0, <1>9 DEF TypeOK, LoseConnection
  <2>2. Holding'  BY <1>0, <1>9 DEF TypeOK, Holding, LoseConnection
  <2>3. NotYet'  BY <1>0, <1>9 DEF TypeOK, NotYet, LoseConnection
  <2>4. ToldOK'  BY <1>0, <1>9 DEF TypeOK, ToldOK, LoseConnection
  <2> QED  BY <2>1, <2>2, <2>3, <2>4 DEF IInv
<1> QED  BY <1>1, <1>2, <1>3, <1>4, <1>5, <1>6, <1>7, <1>8, <1>9 DEF Administer

-----------------------------------------------------------------------------
\* The invariant holds initially, in every step, and so always.
LEMMA Invariant == Spec => []IInv
<1>1. Init => IInv  BY DEF Init, IInv, TypeOK, Holding, NotYet, ToldOK
<1>2. IInv /\ [Next]_vars => IInv'
  <2> SUFFICES ASSUME IInv, [Next]_vars PROVE IInv'  OBVIOUS
  <2>1. CASE Next
    BY <2>1, ReaderKeeps, WriterKeeps, WorkerKeeps, DeliveryKeeps, AdminKeeps DEF Next
  <2>2. CASE UNCHANGED vars
    BY <2>2 DEF vars, locks, reactor, queue, calls, admin, IInv, TypeOK, Holding, NotYet, ToldOK
  <2> QED  BY <2>1, <2>2
<1> QED  BY <1>1, <1>2, PTL DEF Spec

\* A reader does not use its pointer "after the removed_handler has been called"
\* (ReactionEngine.hpp:264).
THEOREM PointerIsNotUsed == Spec => []NotUsedAfterRemoved
<1>1. IInv => NotUsedAfterRemoved  BY DEF IInv, Holding, NotUsedAfterRemoved
<1> QED  BY <1>1, Invariant, PTL

\* No Event is written before the HTTP response was sent (FeedService.cpp:132).
THEOREM ResponseIsFirst == Spec => []ResponseFirst
<1>1. IInv => ResponseFirst
  <2> SUFFICES ASSUME IInv, NEW t \in Callers, sending[t] # NULL
               PROVE  pc[sending[t]] \notin {"new", "add", "respond", "send"}
    BY DEF ResponseFirst
  <2>1. sending[t] \in Writers /\ sending[t] # t  BY DEF IInv, TypeOK
  <2> QED  BY <2>1 DEF IInv, Holding, NotYet
<1> QED  BY <1>1, Invariant, PTL

\* "only one Event is sent at a time" (FeedService.cpp:104).
THEOREM EventsAreSentOneAtATime == Spec => []OneAtATime
<1>1. IInv => OneAtATime  BY DEF IInv, Holding, OneAtATime
<1> QED  BY <1>1, Invariant, PTL

\* Nothing is written to a connection after its null Event (FeedService.cpp:105-111).
THEOREM ToldFeedsAreQuiet == Spec => []QuietAfterNull
<1>1. IInv => QuietAfterNull  BY DEF IInv, TypeOK, Holding, QuietAfterNull
<1> QED  BY <1>1, Invariant, PTL
============================================================================

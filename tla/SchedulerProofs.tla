---------------------------- MODULE SchedulerProofs ----------------------------
(***************************************************************************)
(* Theorems about Scheduler, for any number of clients, workers, callers,  *)
(* and reactions: a scheduler that has stopped has no thread left, is not  *)
(* stopped under its users, and counts the engines that use it.            *)
(***************************************************************************)
EXTENDS Scheduler, FiniteSetTheorems, TLAPS

\* Handlers of keepRunning() that are due, or will be when the timer expires.
Waits == IF armed THEN 1 ELSE 0
Due   == Waits + expired + aborted

\* Every such handler goes back to a startup(), and so to a start() of a client.
Starting == {c \in Clients : startPc[c] \in {"add", "startup"}}
Budget   == Due + Cardinality(Starting) <= starts

\* A thread that holds m_mutex is in shutdown(), has stopped the scheduler, and
\* when it has joined the threads there are none.
Shutting ==
    /\ \A k \in Callers : callPc[k] \in {"services", "threads", "join", "finish"} <=> mutex = k
    /\ running => mutex = NULL
    /\ \A k \in Callers : callPc[k] = "finish" => Joined /\ info = {}

IInv == TypeOK /\ Budget /\ Shutting /\ StoppedIsEmpty

USE SchedulerAssumption DEF SchedulerAssumption

-----------------------------------------------------------------------------
\* What the % of m_active_users gives.
LEMMA CountMod ==
    /\ \A a \in Int : a % CountWidth \in 0 .. CountWidth - 1
    /\ \A a \in 0 .. CountWidth - 1 : a % CountWidth = a
    /\ \A a \in 1 .. CountWidth - 1 : (a + CountWidth - 1) % CountWidth = a - 1
OBVIOUS

\* One client more, or less, among finitely many.
LEMMA StartingCounts ==
    ASSUME IsFiniteSet(Clients), NEW c \in Clients
    PROVE  /\ Cardinality(Starting) \in Nat
           /\ Cardinality(Starting \cup {c}) \in {Cardinality(Starting), Cardinality(Starting) + 1}
           /\ Cardinality(Starting \ {c}) \in Nat
           /\ Cardinality(Starting \ {c}) <= Cardinality(Starting)
           /\ c \in Starting => Cardinality(Starting \ {c}) = Cardinality(Starting) - 1
<1>1. IsFiniteSet(Starting)  BY FS_Subset DEF Starting
<1>2. Cardinality(Starting) \in Nat  BY <1>1, FS_CardinalityType
<1>3. Cardinality(Starting \cup {c}) \in {Cardinality(Starting), Cardinality(Starting) + 1}
  BY <1>1, FS_AddElement
<1>4. CASE c \in Starting
  <2>1. Cardinality(Starting \ {c}) = Cardinality(Starting) - 1
    BY <1>1, <1>4, FS_RemoveElement
  <2>2. Cardinality(Starting \ {c}) \in Nat  BY <1>1, FS_RemoveElement, FS_CardinalityType
  <2> QED  BY <1>2, <1>3, <2>1, <2>2
<1>5. CASE c \notin Starting
  <2>1. Starting \ {c} = Starting  BY <1>5
  <2>2. Cardinality(Starting \ {c}) = Cardinality(Starting)  BY <2>1
  <2> QED  BY <1>2, <1>3, <1>5, <2>2
<1> QED  BY <1>4, <1>5

\* Nothing is due that no start() accounts for.
LEMMA BudgetBounds ==
    ASSUME IsFiniteSet(Clients), NEW S \in SUBSET Clients, NEW n \in 0 .. MaxStarts,
           NEW a \in {0, 1}, NEW x \in Nat, NEW y \in Nat,
           a + x + y + Cardinality(S) <= n
    PROVE  x \in 0 .. MaxStarts + 1 /\ y \in 0 .. MaxStarts + 1
<1>1. IsFiniteSet(S)  BY FS_Subset
<1>2. Cardinality(S) \in Nat  BY <1>1, FS_CardinalityType
<1> QED  BY <1>2

\* A client starts or stops.
LEMMA ClientKeeps ==
    ASSUME IsFiniteSet(Clients), IInv, NEW c \in Clients, Start(c) \/ ClientStep(c)
    PROVE  IInv'
<1> USE DEF schedVars, clientVars, workerVars, serviceVars, callerVars
<1>0. TypeOK /\ Budget /\ Shutting /\ StoppedIsEmpty  BY DEF IInv
<1>1. CASE Start(c)
  <2>1. TypeOK'  BY <1>0, <1>1 DEF TypeOK, Start
  <2>2. Budget'
    <3>1. starts \in Nat  BY <1>0 DEF TypeOK
    <3>2. Due \in Nat  BY <1>0 DEF TypeOK, Due, Waits
    <3>3. Starting' = Starting \cup {c} /\ starts' = starts + 1 /\ Due' = Due
      BY <1>0, <1>1 DEF TypeOK, Start, Starting, Due, Waits
    <3>4. Cardinality(Starting') \in {Cardinality(Starting), Cardinality(Starting) + 1}
          /\ Cardinality(Starting) \in Nat
      BY <3>3, StartingCounts
    <3> QED  BY <1>0, <3>1, <3>2, <3>3, <3>4 DEF Budget
  <2>3. Shutting'  BY <1>0, <1>1 DEF TypeOK, Shutting, Joined, Start
  <2>4. StoppedIsEmpty'  BY <1>0, <1>1 DEF TypeOK, Shutting, StoppedIsEmpty, Joined, Start
  <2> QED  BY <2>1, <2>2, <2>3, <2>4 DEF IInv
<1>2. CASE AddCheck(c)
  <2>1. TypeOK'  BY <1>0, <1>2 DEF TypeOK, AddCheck
  <2>2. Budget'
    <3>1. starts \in Nat  BY <1>0 DEF TypeOK
    <3>2. Due \in Nat  BY <1>0 DEF TypeOK, Due, Waits
    <3>3. (Starting' = Starting \/ Starting' = Starting \ {c}) /\ starts' = starts /\ Due' = Due
      BY <1>0, <1>2 DEF TypeOK, AddCheck, Starting, Due, Waits
    <3>4. \/ Cardinality(Starting') = Cardinality(Starting)
          \/ Cardinality(Starting') = Cardinality(Starting \ {c})
      BY <3>3
    <3>5. /\ Cardinality(Starting) \in Nat /\ Cardinality(Starting \ {c}) \in Nat
          /\ Cardinality(Starting \ {c}) <= Cardinality(Starting)
      BY StartingCounts
    <3> QED  BY <1>0, <3>1, <3>2, <3>3, <3>4, <3>5 DEF Budget
  <2>3. Shutting'  BY <1>0, <1>2 DEF TypeOK, Shutting, Joined, AddCheck
  <2>4. StoppedIsEmpty'  BY <1>0, <1>2 DEF TypeOK, Shutting, StoppedIsEmpty, Joined, AddCheck
  <2> QED  BY <2>1, <2>2, <2>3, <2>4 DEF IInv
<1>3. CASE Startup(c)
  <2>0. Waits' \in {0, 1} /\ expired' \in Nat /\ aborted' \in Nat /\ Due' \in {Due, Due + 1}
        /\ starts' = starts
    <3>1. Waits \in {0, 1} /\ expired \in Nat /\ aborted \in Nat  BY <1>0 DEF TypeOK, Waits
    <3>2. \/ Waits' = Waits /\ expired' = expired /\ aborted' = aborted
          \/ Waits' = 1 /\ Waits = 0 /\ expired' = expired /\ aborted' = aborted
          \/ Waits' = 1 /\ Waits = 1 /\ expired' = expired /\ aborted' = aborted + 1
      BY <1>3 DEF Startup, KeepRunning, Waits
    <3>3. starts' = starts  BY <1>3 DEF Startup
    <3> QED  BY <3>1, <3>2, <3>3 DEF Due
  <2>2. Budget'
    <3>1. starts \in Nat  BY <1>0 DEF TypeOK
    <3>2. Due \in Nat  BY <1>0 DEF TypeOK, Due, Waits
    <3>3. Starting' = Starting \ {c} /\ c \in Starting
      BY <1>0, <1>3 DEF TypeOK, Startup, Starting
    <3>4. Cardinality(Starting') = Cardinality(Starting) - 1
      BY <3>1, <3>3, StartingCounts
    <3>5. Cardinality(Starting) \in Nat  BY StartingCounts
    <3> QED  BY <1>0, <2>0, <3>1, <3>2, <3>4, <3>5 DEF Budget
  <2>1. TypeOK'
    <3>1. expired' \in 0 .. MaxStarts + 1 /\ aborted' \in 0 .. MaxStarts + 1
      <4>1. starts' \in 0 .. MaxStarts  BY <1>0, <2>0 DEF TypeOK
      <4> QED  BY <2>0, <2>2, <4>1, BudgetBounds DEF Budget, Due, Waits, Starting
    <3>2. armed' \in BOOLEAN  BY <1>0, <1>3 DEF TypeOK, Startup, KeepRunning
    <3> QED  BY <1>0, <1>3, <2>0, <3>1, <3>2 DEF TypeOK, Startup
  <2>3. Shutting'  BY <1>0, <1>3 DEF TypeOK, Shutting, Joined, Startup, KeepRunning
  <2>4. StoppedIsEmpty'  BY <1>0, <1>3 DEF TypeOK, Shutting, StoppedIsEmpty, Joined, Startup, KeepRunning
  <2> QED  BY <2>1, <2>2, <2>3, <2>4 DEF IInv
<1>4. CASE Register(c)
  <2>1. TypeOK'  BY <1>0, <1>4, CountMod DEF TypeOK, Register
  <2>2. Budget'
    <3>1. Starting' = Starting  BY <1>0, <1>4 DEF TypeOK, Starting, Register
    <3> QED  BY <1>0, <1>4, <3>1 DEF Budget, Due, Waits, Register
  <2>3. Shutting'  BY <1>0, <1>4 DEF TypeOK, Shutting, Joined, Register
  <2>4. StoppedIsEmpty'  BY <1>0, <1>4 DEF TypeOK, Shutting, StoppedIsEmpty, Joined, Register
  <2> QED  BY <2>1, <2>2, <2>3, <2>4 DEF IInv
<1>5. CASE Stop(c)
  <2>1. TypeOK'  BY <1>0, <1>5 DEF TypeOK, Stop
  <2>2. Budget'  BY <1>0, <1>5 DEF Budget, Due, Waits, Starting, Stop
  <2>3. Shutting'  BY <1>0, <1>5 DEF TypeOK, Shutting, Joined, Stop
  <2>4. StoppedIsEmpty'  BY <1>0, <1>5 DEF TypeOK, Shutting, StoppedIsEmpty, Joined, Stop
  <2> QED  BY <2>1, <2>2, <2>3, <2>4 DEF IInv
<1>6. CASE Unregister(c)
  <2>1. TypeOK'  BY <1>0, <1>6, CountMod DEF TypeOK, Unregister, CountDown
  <2>2. Budget'  BY <1>0, <1>6 DEF Budget, Due, Waits, Starting, Unregister, LastUser
  <2>3. Shutting'  BY <1>0, <1>6 DEF TypeOK, Shutting, Joined, Unregister, LastUser
  <2>4. StoppedIsEmpty'  BY <1>0, <1>6 DEF TypeOK, Shutting, StoppedIsEmpty, Joined, Unregister, LastUser
  <2> QED  BY <2>1, <2>2, <2>3, <2>4 DEF IInv
<1>7. CASE ClearQueue(c)
  <2>1. TypeOK'  BY <1>0, <1>7 DEF TypeOK, ClearQueue
  <2>2. Budget'  BY <1>0, <1>7 DEF Budget, Due, Waits, Starting, ClearQueue
  <2>3. Shutting'  BY <1>0, <1>7 DEF TypeOK, Shutting, Joined, ClearQueue
  <2>4. StoppedIsEmpty'  BY <1>0, <1>7 DEF TypeOK, Shutting, StoppedIsEmpty, Joined, ClearQueue
  <2> QED  BY <2>1, <2>2, <2>3, <2>4 DEF IInv
<1> QED  BY <1>1, <1>2, <1>3, <1>4, <1>5, <1>6, <1>7 DEF ClientStep

\* A thread in shutdown() or join().
LEMMA CallerKeeps ==
    ASSUME IsFiniteSet(Clients), IInv, NEW k \in Callers,
           CallShutdown(k) \/ Join(k) \/ SpuriousWakeup(k) \/ CallerStep(k)
    PROVE  IInv'
<1> USE DEF schedVars, clientVars, workerVars, serviceVars, callerVars
<1>0. TypeOK /\ Budget /\ Shutting /\ StoppedIsEmpty  BY DEF IInv
<1>1. CASE CallShutdown(k)
  <2>1. TypeOK'  BY <1>0, <1>1 DEF TypeOK, CallShutdown
  <2>2. Budget'  BY <1>0, <1>1 DEF Budget, Due, Waits, Starting, CallShutdown
  <2>3. Shutting'  BY <1>0, <1>1 DEF TypeOK, Shutting, Joined, CallShutdown
  <2>4. StoppedIsEmpty'  BY <1>0, <1>1 DEF TypeOK, Shutting, StoppedIsEmpty, Joined, CallShutdown
  <2> QED  BY <2>1, <2>2, <2>3, <2>4 DEF IInv
<1>2. CASE Join(k)
  <2>1. TypeOK'  BY <1>0, <1>2 DEF TypeOK, Join
  <2>2. Budget'  BY <1>0, <1>2 DEF Budget, Due, Waits, Starting, Join
  <2>3. Shutting'  BY <1>0, <1>2 DEF TypeOK, Shutting, Joined, Join
  <2>4. StoppedIsEmpty'  BY <1>0, <1>2 DEF TypeOK, Shutting, StoppedIsEmpty, Joined, Join
  <2> QED  BY <2>1, <2>2, <2>3, <2>4 DEF IInv
<1>3. CASE SpuriousWakeup(k)
  <2>1. TypeOK'  BY <1>0, <1>3 DEF TypeOK, SpuriousWakeup
  <2>2. Budget'  BY <1>0, <1>3 DEF Budget, Due, Waits, Starting, SpuriousWakeup
  <2>3. Shutting'  BY <1>0, <1>3 DEF TypeOK, Shutting, Joined, SpuriousWakeup
  <2>4. StoppedIsEmpty'  BY <1>0, <1>3 DEF TypeOK, Shutting, StoppedIsEmpty, Joined, SpuriousWakeup
  <2> QED  BY <2>1, <2>2, <2>3, <2>4 DEF IInv
<1>4. CASE ShutdownWait(k)
  <2>1. TypeOK'  BY <1>0, <1>4 DEF TypeOK, ShutdownWait
  <2>2. Budget'  BY <1>0, <1>4 DEF Budget, Due, Waits, Starting, ShutdownWait
  <2>3. Shutting'  BY <1>0, <1>4 DEF TypeOK, Shutting, Joined, ShutdownWait
  <2>4. StoppedIsEmpty'  BY <1>0, <1>4 DEF TypeOK, Shutting, StoppedIsEmpty, Joined, ShutdownWait
  <2> QED  BY <2>1, <2>2, <2>3, <2>4 DEF IInv
<1>5. CASE ShutdownBegin(k)
  <2>1. TypeOK'  BY <1>0, <1>5 DEF TypeOK, ShutdownBegin
  <2>2. Budget'  BY <1>0, <1>5 DEF Budget, Due, Waits, Starting, ShutdownBegin
  <2>3. Shutting'  BY <1>0, <1>5 DEF TypeOK, Shutting, Joined, ShutdownBegin
  <2>4. StoppedIsEmpty'  BY <1>0, <1>5 DEF TypeOK, Shutting, StoppedIsEmpty, Joined, ShutdownBegin
  <2> QED  BY <2>1, <2>2, <2>3, <2>4 DEF IInv
<1>6. CASE StopServices(k)
  <2>1. TypeOK'  BY <1>0, <1>6 DEF TypeOK, StopServices
  <2>2. Budget'  BY <1>0, <1>6 DEF Budget, Due, Waits, Starting, StopServices
  <2>3. Shutting'  BY <1>0, <1>6 DEF TypeOK, Shutting, Joined, StopServices
  <2>4. StoppedIsEmpty'  BY <1>0, <1>6 DEF TypeOK, Shutting, StoppedIsEmpty, Joined, StopServices
  <2> QED  BY <2>1, <2>2, <2>3, <2>4 DEF IInv
<1>7. CASE StopThreadInfo(k)
  <2>1. TypeOK'  BY <1>0, <1>7 DEF TypeOK, StopThreadInfo
  <2>2. Budget'  BY <1>0, <1>7 DEF Budget, Due, Waits, Starting, StopThreadInfo
  <2>3. Shutting'  BY <1>0, <1>7 DEF TypeOK, Shutting, Joined, StopThreadInfo
  <2>4. StoppedIsEmpty'  BY <1>0, <1>7 DEF TypeOK, Shutting, StoppedIsEmpty, Joined, StopThreadInfo
  <2> QED  BY <2>1, <2>2, <2>3, <2>4 DEF IInv
<1>8. CASE JoinThreads(k)
  <2>1. TypeOK'  BY <1>0, <1>8 DEF TypeOK, JoinThreads, Joined
  <2>2. Budget'  BY <1>0, <1>8 DEF Budget, Due, Waits, Starting, JoinThreads, Joined
  <2>3. Shutting'  BY <1>0, <1>8 DEF TypeOK, Shutting, Joined, JoinThreads, Joined
  <2>4. StoppedIsEmpty'  BY <1>0, <1>8 DEF TypeOK, Shutting, StoppedIsEmpty, Joined, JoinThreads, Joined
  <2> QED  BY <2>1, <2>2, <2>3, <2>4 DEF IInv
<1>9. CASE Finish(k)
  <2>1. TypeOK'  BY <1>0, <1>9 DEF TypeOK, Finish, Released
  <2>2. Budget'  BY <1>0, <1>9 DEF Budget, Due, Waits, Starting, Finish, Released
  <2>3. Shutting'  BY <1>0, <1>9 DEF TypeOK, Shutting, Joined, Finish, Released
  <2>4. StoppedIsEmpty'  BY <1>0, <1>9 DEF TypeOK, Shutting, StoppedIsEmpty, Joined, Finish, Released
  <2> QED  BY <2>1, <2>2, <2>3, <2>4 DEF IInv
<1>10. CASE JoinAgain(k)
  <2>1. TypeOK'  BY <1>0, <1>10 DEF TypeOK, JoinAgain
  <2>2. Budget'  BY <1>0, <1>10 DEF Budget, Due, Waits, Starting, JoinAgain
  <2>3. Shutting'  BY <1>0, <1>10 DEF TypeOK, Shutting, Joined, JoinAgain
  <2>4. StoppedIsEmpty'  BY <1>0, <1>10 DEF TypeOK, Shutting, StoppedIsEmpty, Joined, JoinAgain
  <2> QED  BY <2>1, <2>2, <2>3, <2>4 DEF IInv
<1> QED  BY <1>1, <1>2, <1>3, <1>4, <1>5, <1>6, <1>7, <1>8, <1>9, <1>10 DEF CallerStep

\* A worker thread.
LEMMA WorkerKeeps ==
    ASSUME IsFiniteSet(Clients), IInv, NEW w \in Workers, WorkerStep(w) \/ WorkerPost(w)
    PROVE  IInv'
<1> USE DEF schedVars, clientVars, workerVars, serviceVars, callerVars
<1>0. TypeOK /\ Budget /\ Shutting /\ StoppedIsEmpty  BY DEF IInv
<1>1. CASE WorkerRegister(w)
  <2>1. TypeOK'  BY <1>0, <1>1 DEF TypeOK, WorkerRegister
  <2>2. Budget'  BY <1>0, <1>1 DEF Budget, Due, Waits, Starting, WorkerRegister
  <2>3. Shutting'  BY <1>0, <1>1 DEF TypeOK, Shutting, Joined, WorkerRegister
  <2>4. StoppedIsEmpty'  BY <1>0, <1>1 DEF TypeOK, Shutting, StoppedIsEmpty, Joined, WorkerRegister
  <2> QED  BY <2>1, <2>2, <2>3, <2>4 DEF IInv
<1>2. CASE WorkerLoop(w)
  <2>1. TypeOK'  BY <1>0, <1>2 DEF TypeOK, WorkerLoop
  <2>2. Budget'  BY <1>0, <1>2 DEF Budget, Due, Waits, Starting, WorkerLoop
  <2>3. Shutting'  BY <1>0, <1>2 DEF TypeOK, Shutting, Joined, WorkerLoop
  <2>4. StoppedIsEmpty'  BY <1>0, <1>2 DEF TypeOK, Shutting, StoppedIsEmpty, Joined, WorkerLoop
  <2> QED  BY <2>1, <2>2, <2>3, <2>4 DEF IInv
<1>3. CASE WorkerPop(w)
  <2>1. TypeOK'  BY <1>0, <1>3 DEF TypeOK, WorkerPop
  <2>2. Budget'  BY <1>0, <1>3 DEF Budget, Due, Waits, Starting, WorkerPop
  <2>3. Shutting'  BY <1>0, <1>3 DEF TypeOK, Shutting, Joined, WorkerPop
  <2>4. StoppedIsEmpty'  BY <1>0, <1>3 DEF TypeOK, Shutting, StoppedIsEmpty, Joined, WorkerPop
  <2> QED  BY <2>1, <2>2, <2>3, <2>4 DEF IInv
<1>4. CASE WorkerWake(w)
  <2>1. TypeOK'  BY <1>0, <1>4 DEF TypeOK, WorkerWake
  <2>2. Budget'  BY <1>0, <1>4 DEF Budget, Due, Waits, Starting, WorkerWake
  <2>3. Shutting'  BY <1>0, <1>4 DEF TypeOK, Shutting, Joined, WorkerWake
  <2>4. StoppedIsEmpty'  BY <1>0, <1>4 DEF TypeOK, Shutting, StoppedIsEmpty, Joined, WorkerWake
  <2> QED  BY <2>1, <2>2, <2>3, <2>4 DEF IInv
<1>5. CASE WorkerDone(w)
  <2>1. TypeOK'  BY <1>0, <1>5 DEF TypeOK, WorkerDone
  <2>2. Budget'  BY <1>0, <1>5 DEF Budget, Due, Waits, Starting, WorkerDone
  <2>3. Shutting'  BY <1>0, <1>5 DEF TypeOK, Shutting, Joined, WorkerDone
  <2>4. StoppedIsEmpty'  BY <1>0, <1>5 DEF TypeOK, Shutting, StoppedIsEmpty, Joined, WorkerDone
  <2> QED  BY <2>1, <2>2, <2>3, <2>4 DEF IInv
<1>6. CASE WorkerPost(w)
  <2>1. TypeOK'  BY <1>0, <1>6 DEF TypeOK, WorkerPost
  <2>2. Budget'  BY <1>0, <1>6 DEF Budget, Due, Waits, Starting, WorkerPost
  <2>3. Shutting'  BY <1>0, <1>6 DEF TypeOK, Shutting, Joined, WorkerPost
  <2>4. StoppedIsEmpty'  BY <1>0, <1>6 DEF TypeOK, Shutting, StoppedIsEmpty, Joined, WorkerPost
  <2> QED  BY <2>1, <2>2, <2>3, <2>4 DEF IInv
<1>7. CASE WorkerPush(w)
  <2>1. TypeOK'  BY <1>0, <1>7 DEF TypeOK, WorkerPush, Push
  <2>2. Budget'  BY <1>0, <1>7 DEF Budget, Due, Waits, Starting, WorkerPush, Push
  <2>3. Shutting'  BY <1>0, <1>7 DEF TypeOK, Shutting, Joined, WorkerPush, Push
  <2>4. StoppedIsEmpty'  BY <1>0, <1>7 DEF TypeOK, Shutting, StoppedIsEmpty, Joined, WorkerPush, Push
  <2> QED  BY <2>1, <2>2, <2>3, <2>4 DEF IInv
<1> QED  BY <1>1, <1>2, <1>3, <1>4, <1>5, <1>6, <1>7 DEF WorkerStep

\* The service thread and its timer, and other threads that post.
LEMMA ServiceKeeps ==
    ASSUME IsFiniteSet(Clients), IInv, Post \/ ServiceStep \/ ServiceHandler \/ TimerExpires
    PROVE  IInv'
<1> USE DEF schedVars, clientVars, workerVars, serviceVars, callerVars
<1>0. TypeOK /\ Budget /\ Shutting /\ StoppedIsEmpty  BY DEF IInv
<1>1. CASE Post
  <2>1. TypeOK'  BY <1>0, <1>1 DEF TypeOK, Post, Push
  <2>2. Budget'  BY <1>0, <1>1 DEF Budget, Due, Waits, Starting, Post, Push
  <2>3. Shutting'  BY <1>0, <1>1 DEF TypeOK, Shutting, Joined, Post, Push
  <2>4. StoppedIsEmpty'  BY <1>0, <1>1 DEF TypeOK, Shutting, StoppedIsEmpty, Joined, Post, Push
  <2> QED  BY <2>1, <2>2, <2>3, <2>4 DEF IInv
<1>2. CASE ServiceLoop
  <2>1. TypeOK'  BY <1>0, <1>2 DEF TypeOK, ServiceLoop
  <2>2. Budget'  BY <1>0, <1>2 DEF Budget, Due, Waits, Starting, ServiceLoop
  <2>3. Shutting'  BY <1>0, <1>2 DEF TypeOK, Shutting, Joined, ServiceLoop
  <2>4. StoppedIsEmpty'  BY <1>0, <1>2 DEF TypeOK, Shutting, StoppedIsEmpty, Joined, ServiceLoop
  <2> QED  BY <2>1, <2>2, <2>3, <2>4 DEF IInv
<1>3. CASE ServiceReturn
  <2>1. TypeOK'  BY <1>0, <1>3 DEF TypeOK, ServiceReturn
  <2>2. Budget'  BY <1>0, <1>3 DEF Budget, Due, Waits, Starting, ServiceReturn
  <2>3. Shutting'  BY <1>0, <1>3 DEF TypeOK, Shutting, Joined, ServiceReturn
  <2>4. StoppedIsEmpty'  BY <1>0, <1>3 DEF TypeOK, Shutting, StoppedIsEmpty, Joined, ServiceReturn
  <2> QED  BY <2>1, <2>2, <2>3, <2>4 DEF IInv
<1>4. CASE ServiceHandler
  <2>0. Waits' \in {0, 1} /\ expired' \in Nat /\ aborted' \in Nat /\ Due' <= Due /\ Due' \in Nat
        /\ starts' = starts /\ Starting' = Starting
    <3>1. Waits \in {0, 1} /\ expired \in Nat /\ aborted \in Nat  BY <1>0 DEF TypeOK, Waits
    <3>2. \/ /\ expired > 0 /\ expired' = expired - 1
             /\ \/ Waits' = 1 /\ Waits = 1 /\ aborted' = aborted + 1
                \/ Waits' = 1 /\ Waits = 0 /\ aborted' = aborted
                \/ Waits' = Waits /\ aborted' = aborted
          \/ /\ aborted > 0 /\ expired' = expired
             /\ \/ Waits' = 1 /\ Waits = 1 /\ aborted' = aborted - 1 + 1
                \/ Waits' = 1 /\ Waits = 0 /\ aborted' = aborted - 1
                \/ Waits' = Waits /\ aborted' = aborted - 1
      BY <1>4 DEF Waits, ServiceHandler, KeepRunning
    <3>3. starts' = starts /\ Starting' = Starting  BY <1>4 DEF Starting, ServiceHandler
    <3> QED  BY <3>1, <3>2, <3>3 DEF Due
  <2>2. Budget'
    <3>1. Cardinality(Starting) \in Nat
      <4>1. IsFiniteSet(Starting)  BY FS_Subset DEF Starting
      <4> QED  BY <4>1, FS_CardinalityType
    <3>2. Due \in Nat /\ starts \in Nat  BY <1>0 DEF TypeOK, Due, Waits
    <3> QED  BY <1>0, <2>0, <3>1, <3>2 DEF Budget
  <2>1. TypeOK'
    <3>1. expired' \in 0 .. MaxStarts + 1 /\ aborted' \in 0 .. MaxStarts + 1
      <4>1. starts' \in 0 .. MaxStarts  BY <1>0, <2>0 DEF TypeOK
      <4> QED  BY <2>0, <2>2, <4>1, BudgetBounds DEF Budget, Due, Waits, Starting
    <3>2. armed' \in BOOLEAN  BY <1>0, <1>4 DEF TypeOK, ServiceHandler, KeepRunning
    <3> QED  BY <1>0, <1>4, <2>0, <3>1, <3>2 DEF TypeOK, ServiceHandler
  <2>3. Shutting'  BY <1>0, <1>4 DEF TypeOK, Shutting, Joined, ServiceHandler, KeepRunning
  <2>4. StoppedIsEmpty'  BY <1>0, <1>4 DEF TypeOK, Shutting, StoppedIsEmpty, Joined, ServiceHandler, KeepRunning
  <2> QED  BY <2>1, <2>2, <2>3, <2>4 DEF IInv
<1>5. CASE TimerExpires
  <2>0. Waits' \in {0, 1} /\ expired' \in Nat /\ aborted' \in Nat /\ Due' <= Due /\ Due' \in Nat
        /\ starts' = starts /\ Starting' = Starting
    <3>1. Waits \in {0, 1} /\ expired \in Nat /\ aborted \in Nat  BY <1>0 DEF TypeOK, Waits
    <3>2. Waits = 1 /\ Waits' = 0 /\ expired' = expired + 1 /\ aborted' = aborted
      BY <1>5 DEF Waits, TimerExpires
    <3>3. starts' = starts /\ Starting' = Starting  BY <1>5 DEF Starting, TimerExpires
    <3> QED  BY <3>1, <3>2, <3>3 DEF Due
  <2>2. Budget'
    <3>1. Cardinality(Starting) \in Nat
      <4>1. IsFiniteSet(Starting)  BY FS_Subset DEF Starting
      <4> QED  BY <4>1, FS_CardinalityType
    <3>2. Due \in Nat /\ starts \in Nat  BY <1>0 DEF TypeOK, Due, Waits
    <3> QED  BY <1>0, <2>0, <3>1, <3>2 DEF Budget
  <2>1. TypeOK'
    <3>1. expired' \in 0 .. MaxStarts + 1 /\ aborted' \in 0 .. MaxStarts + 1
      <4>1. starts' \in 0 .. MaxStarts  BY <1>0, <2>0 DEF TypeOK
      <4> QED  BY <2>0, <2>2, <4>1, BudgetBounds DEF Budget, Due, Waits, Starting
    <3> QED  BY <1>0, <1>5, <2>0, <3>1 DEF TypeOK, TimerExpires
  <2>3. Shutting'  BY <1>0, <1>5 DEF TypeOK, Shutting, Joined, TimerExpires
  <2>4. StoppedIsEmpty'  BY <1>0, <1>5 DEF TypeOK, Shutting, StoppedIsEmpty, Joined, TimerExpires
  <2> QED  BY <2>1, <2>2, <2>3, <2>4 DEF IInv
<1> QED  BY <1>1, <1>2, <1>3, <1>4, <1>5 DEF ServiceStep

-----------------------------------------------------------------------------
\* The invariant holds initially, in every step, and so always.
LEMMA InitIInv ==
    ASSUME IsFiniteSet(Clients), Init PROVE IInv
<1>1. TypeOK
  <2>1. /\ 0 \in 0 .. CountWidth - 1 /\ 0 \in 0 .. MaxQueue /\ 0 \in 0 .. MaxStarts + 1
        /\ 0 \in 0 .. MaxStarts /\ 0 \in 0 .. MaxCalls /\ 0 \in 0 .. MaxPosts
    OBVIOUS
  <2> QED  BY <2>1 DEF Init, TypeOK
<1>2. Starting = {}  BY DEF Init, Starting
<1>3. Budget  BY <1>2, FS_EmptySet DEF Init, Budget, Due, Waits
<1>4. Shutting /\ StoppedIsEmpty  BY DEF Init, Shutting, StoppedIsEmpty
<1> QED  BY <1>1, <1>3, <1>4 DEF IInv

\* Every step keeps it.
LEMMA NextIInv ==
    ASSUME IsFiniteSet(Clients), IInv, [Next]_vars PROVE IInv'
<1>1. CASE Next  BY <1>1, ClientKeeps, CallerKeeps, WorkerKeeps, ServiceKeeps DEF Next
<1>2. CASE UNCHANGED vars
  BY <1>2 DEF vars, schedVars, clientVars, workerVars, serviceVars, callerVars, IInv, TypeOK,
     Budget, Due, Waits, Starting, Shutting, Joined, StoppedIsEmpty
<1> QED  BY <1>1, <1>2

\* No thread of the pool outlives shutdown() (PionScheduler.cpp:45-80).
THEOREM StoppedSchedulerIsEmpty ==
    ASSUME IsFiniteSet(Clients)
    PROVE  Spec => []StoppedIsEmpty
<1>1. Init => IInv  BY InitIInv
<1>2. IInv /\ [Next]_vars => IInv'  BY NextIInv
<1>3. IInv => StoppedIsEmpty  BY DEF IInv
<1> QED  BY <1>1, <1>2, <1>3, PTL DEF Spec
\* No engine or server sees the scheduler stop while it is counted
\* (PionScheduler.cpp:45-80), whoever calls shutdown() and whatever wakes it.
THEOREM UsersDeferShutdown ==
    ASSUME IsFiniteSet(Clients)
    PROVE  Spec => ActiveUsersDeferShutdown
<1> DEFINE Deferred == running /\ ~running' => activeUsers = 0
<1>1. Init => IInv  BY InitIInv
<1>2. IInv /\ [Next]_vars => IInv'  BY NextIInv
<1>3. IInv /\ [Next]_vars => [Deferred]_vars
  <2> SUFFICES ASSUME IInv, Next, running, ~running' PROVE activeUsers = 0
    BY DEF vars, schedVars
  <2>0. activeUsers \in Nat  BY DEF IInv, TypeOK
  <2>1. PICK k \in Callers : ShutdownBegin(k)
    BY DEF Next, Start, ClientStep, AddCheck, Startup, Register, Stop, Unregister, ClearQueue,
       Post, CallShutdown, Join, SpuriousWakeup, CallerStep, ShutdownWait, StopServices,
       StopThreadInfo, JoinThreads, Finish, JoinAgain, WorkerStep, WorkerPost, WorkerRegister,
       WorkerLoop, WorkerPop, WorkerWake, WorkerDone, WorkerPush, ServiceStep, ServiceLoop,
       ServiceReturn, ServiceHandler, TimerExpires, schedVars
  <2> QED  BY <2>0, <2>1 DEF ShutdownBegin, MustWait
<1> QED  BY <1>1, <1>2, <1>3, PTL DEF Spec, ActiveUsersDeferShutdown
-----------------------------------------------------------------------------
(* The engines that use the scheduler are counted: what an engine is doing     *)
(* follows from its mutex and from whether it has started.                     *)
Users == {c \in Clients : Registered(c)}

OneAtATime ==
    \A c \in Clients :
        /\ startPc[c] # "out" => ~up[c] /\ lock[c] = "start" /\ stopPc[c] = "out"
        /\ stopPc[c] # "out" => up[c] /\ lock[c] = "stop"

CountInv == OneAtATime /\ activeUsers = Cardinality(Users)

\* The clients are not more than m_active_users can count.
LEMMA UsersFit ==
    ASSUME IsFiniteSet(Clients), Cardinality(Clients) < CountWidth
    PROVE  /\ IsFiniteSet(Users) /\ Cardinality(Users) \in Nat
           /\ Cardinality(Users) <= Cardinality(Clients) /\ Cardinality(Users) < CountWidth
<1>1. Users \subseteq Clients  BY DEF Users
<1>2. IsFiniteSet(Users) /\ Cardinality(Users) <= Cardinality(Clients)  BY <1>1, FS_Subset
<1>3. Cardinality(Users) \in Nat /\ Cardinality(Clients) \in Nat
  BY <1>2, FS_CardinalityType
<1> QED  BY <1>2, <1>3

\* Registration adds one user, and leaving removes one.
LEMMA RegisterCounts ==
    ASSUME IsFiniteSet(Clients), Cardinality(Clients) < CountWidth, Servers = {},
           TypeOK, CountInv, NEW c \in Clients, Register(c)
    PROVE  CountInv'
<1>1. OneAtATime'  BY DEF TypeOK, CountInv, OneAtATime, Register
<1>2. c \notin Users /\ Users' = Users \cup {c}
  <2>1. ~up[c] /\ stopPc[c] = "out" /\ stopPc' = stopPc
    BY DEF CountInv, OneAtATime, Register, clientVars
  <2>2. up' = [up EXCEPT ![c] = TRUE]  BY DEF Register
  <2>3. up \in [Clients -> BOOLEAN]  BY DEF TypeOK
  <2>4. \A d \in Clients : Registered(d)' <=> Registered(d) \/ d = c
    BY <2>1, <2>2, <2>3 DEF Registered
  <2> QED  BY <2>1, <2>4 DEF Users, Registered
<1>3. Cardinality(Users \cup {c}) = Cardinality(Users) + 1
  BY <1>2, UsersFit, FS_AddElement
<1>4. Cardinality(Users') = Cardinality(Users) + 1  BY <1>2, <1>3
<1>5. Cardinality(Users) + 1 < CountWidth
  <2>1. Users \cup {c} \subseteq Clients  BY DEF Users
  <2>2. Cardinality(Users \cup {c}) <= Cardinality(Clients)  BY <2>1, FS_Subset
  <2>3. Cardinality(Clients) \in Nat /\ Cardinality(Users) \in Nat  BY FS_CardinalityType, UsersFit
  <2> QED  BY <1>3, <2>2, <2>3
<1>6. activeUsers' = activeUsers + 1
  <2>1. Cardinality(Users) + 1 \in 0 .. CountWidth - 1  BY <1>5, UsersFit
  <2>2. activeUsers' = (activeUsers + 1) % CountWidth /\ activeUsers = Cardinality(Users)
    BY DEF Register, CountInv
  <2> QED  BY <2>1, <2>2, CountMod
<1> QED  BY <1>1, <1>4, <1>6 DEF CountInv

\* A client that leaves was counted.
LEMMA UnregisterCounts ==
    ASSUME IsFiniteSet(Clients), Cardinality(Clients) < CountWidth, Servers = {},
           TypeOK, CountInv, NEW c \in Clients, Unregister(c)
    PROVE  CountInv'
<1>1. OneAtATime'  BY DEF TypeOK, CountInv, OneAtATime, Unregister
<1>2. c \in Users /\ Users' = Users \ {c}
  BY DEF TypeOK, CountInv, OneAtATime, Unregister, Users, Registered
<1>3. Cardinality(Users \ {c}) = Cardinality(Users) - 1  BY <1>2, UsersFit, FS_RemoveElement
<1>4. Cardinality(Users') = Cardinality(Users) - 1  BY <1>2, <1>3
<1>5. Cardinality(Users) > 0
  <2>1. Cardinality(Users \ {c}) \in Nat
    BY UsersFit, <1>2, FS_RemoveElement, FS_CardinalityType
  <2> QED  BY <1>3, <2>1, UsersFit
<1>6. activeUsers' = activeUsers - 1
  <2>1. Cardinality(Users) \in 1 .. CountWidth - 1  BY <1>5, UsersFit
  <2>2. activeUsers' = (activeUsers + CountWidth - 1) % CountWidth /\ activeUsers = Cardinality(Users)
    BY DEF Unregister, CountDown, CountInv
  <2> QED  BY <2>1, <2>2, CountMod
<1> QED  BY <1>1, <1>4, <1>6 DEF CountInv

\* No other step changes who is registered.
LEMMA CountKept ==
    ASSUME IsFiniteSet(Clients), Cardinality(Clients) < CountWidth, Servers = {},
           TypeOK, CountInv, [Next]_vars
    PROVE  CountInv'
<1> USE DEF schedVars, clientVars, workerVars, serviceVars, callerVars
<1>1. CASE UNCHANGED <<activeUsers, clientVars>>
  BY <1>1 DEF CountInv, OneAtATime, Users, Registered
<1>2. ASSUME NEW c \in Clients, Start(c) \/ AddCheck(c) \/ Startup(c) \/ Stop(c) \/ ClearQueue(c)
      PROVE  CountInv'
  <2>1. OneAtATime'
    BY <1>2 DEF TypeOK, CountInv, OneAtATime, Start, AddCheck, Startup, Stop, ClearQueue
  <2>2. Users' = Users
    BY <1>2 DEF TypeOK, CountInv, OneAtATime, Start, AddCheck, Startup, Stop, ClearQueue,
       Users, Registered
  <2>3. activeUsers' = activeUsers  BY <1>2 DEF Start, AddCheck, Startup, Stop, ClearQueue
  <2> QED  BY <2>1, <2>2, <2>3 DEF CountInv
<1>3. ASSUME NEW k \in Callers, CallShutdown(k) \/ Join(k) \/ SpuriousWakeup(k) \/ CallerStep(k)
      PROVE  UNCHANGED <<activeUsers, clientVars>>
  BY <1>3 DEF CallShutdown, Join, SpuriousWakeup, CallerStep, ShutdownWait, ShutdownBegin,
     StopServices, StopThreadInfo, JoinThreads, Finish, JoinAgain
<1>4. ASSUME NEW w \in Workers, WorkerStep(w) \/ WorkerPost(w)
      PROVE  UNCHANGED <<activeUsers, clientVars>>
  BY <1>4 DEF WorkerStep, WorkerPost, WorkerRegister, WorkerLoop, WorkerPop, WorkerWake,
     WorkerDone, WorkerPush
<1>5. ASSUME Post \/ ServiceStep \/ ServiceHandler \/ TimerExpires
      PROVE  UNCHANGED <<activeUsers, clientVars>>
  BY <1>5 DEF Post, ServiceStep, ServiceLoop, ServiceReturn, ServiceHandler, TimerExpires
<1>6. CASE UNCHANGED vars  BY <1>1, <1>6 DEF vars
<1>7. CASE Next
  BY <1>1, <1>2, <1>3, <1>4, <1>5, <1>7, RegisterCounts, UnregisterCounts DEF Next, ClientStep
<1> QED  BY <1>6, <1>7

\* m_active_users is the number of engines that use the scheduler, through
\* every interleaving of addActiveUser() and removeActiveUser() with startup()
\* and shutdown() (PionScheduler.cpp:106-124); an engine registers under its
\* mutex, a server does not, so this is about engines alone.
THEOREM EnginesAreCounted ==
    ASSUME IsFiniteSet(Clients), Cardinality(Clients) < CountWidth, Servers = {}
    PROVE  Spec => []UsersTyped
<1>1. Init => IInv  BY InitIInv
<1>2. Init => CountInv
  <2> SUFFICES ASSUME Init PROVE CountInv  OBVIOUS
  <2>1. Users = {}  BY DEF Init, Users, Registered
  <2> QED  BY <2>1, FS_EmptySet DEF Init, CountInv, OneAtATime
<1>3. IInv /\ [Next]_vars => IInv'  BY NextIInv
<1>4. IInv /\ CountInv /\ [Next]_vars => CountInv'  BY CountKept DEF IInv
<1>5. IInv /\ CountInv => UsersTyped  BY DEF IInv, CountInv, UsersTyped, UsersCounted, Users
<1> QED  BY <1>1, <1>2, <1>3, <1>4, <1>5, PTL DEF Spec
============================================================================

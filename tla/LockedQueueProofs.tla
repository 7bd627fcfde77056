--------------------------- MODULE LockedQueueProofs ---------------------------
(***************************************************************************)
(* Theorems about LockedQueue, for every number of producers, consumers    *)
(* and nodes and every value of the other constants: type correctness and  *)
(* NodesOwnedOnce, from the inductive invariant IInv, and the count of the *)
(* items and the wakeups, for any finite number of threads; and that the   *)
(* queue is the FIFO of FifoQueue.                                         *)
(***************************************************************************)
EXTENDS LockedQueue, FiniteSetTheorems, SequenceTheorems, TLAPS

\* Which threads hold a node, and who holds m_tail_mutex, by control point.
HoldersOK ==
    /\ \A p \in Producers : /\ pc[p] \in ProducerPc
                            /\ pc[p] = "idle" <=> node[p] = NULL
                            /\ pc[p] = "publishing" <=> tailLock = p
    /\ \A c \in Consumers : /\ pc[c] \in ConsumerPc
                            /\ pc[c] = "freeing" <=> node[c] # NULL

IInv == TypeOK /\ HoldersOK /\ NodesOwnedOnce

-----------------------------------------------------------------------------
(* Lists of nodes *)

Distinct(l) == \A i, j \in 1..Len(l) : l[i] = l[j] => i = j
Elems(l) == {l[i] : i \in 1..Len(l)}

\* Linking after the last node of a list without repetitions appends to it.
LEMMA LinkAtEnd ==
    ASSUME NEW l \in Seq(Nodes), l # <<>>, Distinct(l), NEW n \in Nodes
    PROVE  LinkAfter(l, l[Len(l)], n) = Append(l, n)
<1> DEFINE t == l[Len(l)]
           i == CHOOSE k \in 1..Len(l) : l[k] = t
<1>1. Len(l) \in 1..Len(l)  OBVIOUS
<1>2. i \in 1..Len(l) /\ l[i] = t  BY <1>1
<1>3. i = Len(l)  BY <1>1, <1>2 DEF Distinct
<1>4. LinkAfter(l, t, n) = Append(SubSeq(l, 1, i), n)
  BY <1>1 DEF LinkAfter
<1>5. SubSeq(l, 1, Len(l)) = l  OBVIOUS
<1> QED  BY <1>3, <1>4, <1>5

\* Appending a new node to a list without repetitions.
LEMMA AppendNode ==
    ASSUME NEW l \in Seq(Nodes), Distinct(l), NEW n \in Nodes, n \notin Elems(l)
    PROVE  /\ Append(l, n) \in Seq(Nodes)
           /\ Append(l, n) # <<>>
           /\ Distinct(Append(l, n))
           /\ Elems(Append(l, n)) = Elems(l) \cup {n}
           /\ Append(l, n)[Len(Append(l, n))] = n
<1> DEFINE m == Append(l, n)
<1>1. /\ m \in Seq(Nodes) /\ Len(m) = Len(l) + 1 /\ m[Len(l) + 1] = n
      /\ \A i \in 1..Len(l) : m[i] = l[i]
      /\ Len(l) \in Nat
  OBVIOUS
<1> HIDE DEF m
<1>2. Distinct(m)  BY <1>1 DEF Distinct, Elems
<1>3. Elems(m) = Elems(l) \cup {n}
  <2>1. ASSUME NEW i \in 1..Len(m) PROVE m[i] \in Elems(l) \cup {n}
    <3>1. CASE i \in 1..Len(l)  BY <1>1, <3>1 DEF Elems
    <3>2. CASE i = Len(l) + 1  BY <1>1, <3>2
    <3> QED  BY <1>1, <3>1, <3>2
  <2>2. n \in Elems(m)  BY <1>1 DEF Elems
  <2>3. ASSUME NEW i \in 1..Len(l) PROVE l[i] \in Elems(m)
    BY <1>1 DEF Elems
  <2> QED  BY <2>1, <2>2, <2>3 DEF Elems
<1>4. m # <<>>  BY <1>1
<1> QED  BY <1>1, <1>2, <1>3, <1>4 DEF m

\* Taking the head off a list of two or more nodes without repetitions.
LEMMA TailNode ==
    ASSUME NEW l \in Seq(Nodes), Distinct(l), Len(l) > 1
    PROVE  /\ Tail(l) \in Seq(Nodes)
           /\ Tail(l) # <<>>
           /\ Distinct(Tail(l))
           /\ Elems(Tail(l)) = Elems(l) \ {Head(l)}
           /\ Head(l) \in Elems(l) /\ Head(l) \in Nodes
           /\ Tail(l)[Len(Tail(l))] = l[Len(l)]
           /\ l[2] \in Nodes
<1> DEFINE m == Tail(l)
<1>1. /\ m \in Seq(Nodes) /\ Len(m) = Len(l) - 1 /\ Head(l) = l[1]
      /\ \A i \in 1..Len(m) : m[i] = l[i + 1]
      /\ Len(l) \in Nat
  OBVIOUS
<1>2. Head(l) \in Elems(l) /\ Head(l) \in Nodes /\ l[2] \in Nodes  BY <1>1 DEF Elems
<1> HIDE DEF m
<1>3. Distinct(m)  BY <1>1 DEF Distinct
<1>4. Elems(m) = Elems(l) \ {Head(l)}
  <2>1. ASSUME NEW i \in 1..Len(m) PROVE m[i] \in Elems(l) \ {Head(l)}
    BY <1>1 DEF Elems, Distinct
  <2>2. ASSUME NEW i \in 1..Len(l), l[i] # Head(l) PROVE l[i] \in Elems(m)
    <3>1. i - 1 \in 1..Len(m)  BY <1>1, <2>2
    <3>2. m[i - 1] = l[i]  BY <1>1, <3>1
    <3> QED  BY <3>1, <3>2 DEF Elems
  <2> QED  BY <2>1, <2>2 DEF Elems
<1>5. m # <<>> /\ m[Len(m)] = l[Len(l)]  BY <1>1
<1> QED  BY <1>1, <1>2, <1>3, <1>4, <1>5 DEF m

\* The last node of a list is one of its nodes.
LEMMA LastNode ==
    ASSUME NEW l \in Seq(Nodes), l # <<>> PROVE l[Len(l)] \in Elems(l)
<1>1. Len(l) \in 1..Len(l)  OBVIOUS
<1> QED  BY <1>1 DEF Elems

\* A list of one node.
LEMMA DummyList ==
    ASSUME NEW d \in Nodes
    PROVE  /\ <<d>> \in Seq(Nodes) /\ <<d>> # <<>>
           /\ Distinct(<<d>>) /\ Elems(<<d>>) = {d}
           /\ <<d>>[Len(<<d>>)] = d
BY DEF Distinct, Elems

-----------------------------------------------------------------------------
(* The inductive invariant *)

USE LockedQueueAssumption DEF Threads, marks

\* NodesOwnedOnce in terms of Distinct and Elems.
OwnedOnce ==
    /\ Distinct(list)
    /\ Elems(list) \cap free = {}
    /\ \A t \in Threads : node[t] # NULL /\ pc[t] # "publishing" =>
         node[t] \notin Elems(list) \cup free
    /\ \A t, u \in Threads : node[t] # NULL /\ node[t] = node[u] => t = u
    /\ tailLock = NULL => tail = list[Len(list)]
    /\ tailLock # NULL => pc[tailLock] = "publishing" /\ node[tailLock] = list[Len(list)]

\* The two are the same.
LEMMA OwnedOnceEquiv == NodesOwnedOnce <=> OwnedOnce
BY DEF NodesOwnedOnce, OwnedOnce, Distinct, Elems, Linked

\* m_next_version stays a number whatever its width.
LEMMA VersionType ==
    ASSUME NEW v \in Nat PROVE (v + 2) % VersionModulus \in Nat
OBVIOUS

\* A notification moves at most the notified thread, from waiting to woken.
LEMMA NotifyMoves ==
    ASSUME NEW pcs \in [Threads -> ProducerPc \cup ConsumerPc], NEW c \in Consumers
    PROVE  /\ Notify(c, pcs) \in [Threads -> ProducerPc \cup ConsumerPc]
           /\ \A t \in Threads : t # c => Notify(c, pcs)[t] = pcs[t]
           /\ \/ Notify(c, pcs)[c] = pcs[c]
              \/ (pcs[c] = "waiting" /\ Notify(c, pcs)[c] = "woken")
<1>1. CASE pcs[c] = "waiting"
  <2>1. Notify(c, pcs) = [pcs EXCEPT ![c] = "woken"]  BY <1>1 DEF Notify
  <2>2. "woken" \in ConsumerPc  BY DEF ConsumerPc
  <2> QED  BY <1>1, <2>1, <2>2
<1>2. CASE pcs[c] # "waiting"  BY <1>2 DEF Notify
<1> QED  BY <1>1, <1>2

\* IInv holds initially ...
LEMMA InitIInv == Init => IInv
<1> SUFFICES ASSUME Init PROVE IInv  OBVIOUS
<1>1. PICK d \in Nodes : list = <<d>> /\ tail = d /\ free = Nodes \ {d}
  BY DEF Init, Initialize
<1>2. TypeOK
  <2>1. /\ list \in Seq(Nodes) /\ list # <<>> /\ tail \in Nodes /\ free \in SUBSET Nodes
    BY <1>1, DummyList DEF Init
  <2>2. timed \in SUBSET Consumers /\ strayed \in BOOLEAN /\ cut \in BOOLEAN  BY DEF Init
  <2> QED  BY <2>1, <2>2 DEF Init, TypeOK, ProducerPc, ConsumerPc
<1>3. HoldersOK  BY DEF Init, HoldersOK, ProducerPc, ConsumerPc
<1>4. OwnedOnce  BY <1>1, DummyList DEF Init, OwnedOnce
<1> QED  BY <1>2, <1>3, <1>4, OwnedOnceEquiv DEF IInv

\* The three steps of push().
LEMMA PushBeginIInv ==
    ASSUME IInv, NEW p \in Producers, NEW v \in Values, PushBegin(p, v) PROVE IInv'
<1> USE DEF IInv, PushBegin
<1>1. PICK n \in free : /\ free' = free \ {n}
                        /\ node' = [node EXCEPT ![p] = n]
                        /\ val' = [val EXCEPT ![n] = v]
                        /\ ver' = [ver EXCEPT ![n] = 0]
  OBVIOUS
<1>2. TypeOK'  BY <1>1 DEF TypeOK, ProducerPc, ConsumerPc
<1>3. HoldersOK'  BY <1>1 DEF TypeOK, HoldersOK, ProducerPc, ConsumerPc
<1>4. OwnedOnce  BY OwnedOnceEquiv
<1>5. n \in Nodes /\ n # NULL /\ n \notin Elems(list)
  BY <1>1, <1>4 DEF OwnedOnce, TypeOK
<1>6. ASSUME NEW t \in Threads PROVE node[t] # n
  <2>1. CASE pc[t] = "publishing"
    BY <1>4, <1>5, <2>1, LastNode DEF OwnedOnce, TypeOK, HoldersOK, ConsumerPc
  <2>2. CASE pc[t] # "publishing"
    BY <1>1, <1>4, <1>5, <2>2 DEF OwnedOnce
  <2> QED  BY <2>1, <2>2
<1>7. OwnedOnce'  BY <1>1, <1>4, <1>5, <1>6 DEF OwnedOnce, TypeOK, HoldersOK
<1> QED  BY <1>2, <1>3, <1>7, OwnedOnceEquiv, PTL

\* It links a node that only it had.
LEMMA PushLinkIInv ==
    ASSUME IInv, NEW p \in Producers, PushLink(p) PROVE IInv'
<1> USE DEF IInv, PushLink, TailFree
<1>1. OwnedOnce  BY OwnedOnceEquiv
<1>2. node[p] \in Nodes \ Elems(list)
  BY <1>1 DEF TypeOK, HoldersOK, OwnedOnce
<1>3. list' = Append(list, node[p])
  BY <1>1, <1>2, LinkAtEnd DEF OwnedOnce, TypeOK
<1>4. /\ list' \in Seq(Nodes) /\ list' # <<>> /\ Distinct(list')
      /\ Elems(list') = Elems(list) \cup {node[p]}
      /\ list'[Len(list')] = node[p]
  <2>1. list \in Seq(Nodes) /\ Distinct(list)  BY <1>1 DEF OwnedOnce, TypeOK
  <2> HIDE DEF IInv, PushLink
  <2> QED  BY <1>2, <1>3, <2>1, AppendNode
<1>5. TypeOK'  BY <1>2, <1>4, VersionType DEF TypeOK, ProducerPc, ConsumerPc
<1>6. HoldersOK'  BY DEF TypeOK, HoldersOK, ProducerPc, ConsumerPc
<1>7. OwnedOnce'  BY <1>1, <1>2, <1>4 DEF OwnedOnce, TypeOK, HoldersOK
<1> QED  BY <1>5, <1>6, <1>7, OwnedOnceEquiv, PTL

\* The end of a push moves its own thread, and at most one that waits.
LEMMA PublishMoves ==
    ASSUME TypeOK, NEW p \in Producers, PushPublish(p)
    PROVE  /\ pc' \in [Threads -> ProducerPc \cup ConsumerPc] /\ pc'[p] = "idle"
           /\ \A t \in Threads : t # p => pc'[t] = pc[t]
                                     \/ (t \in Consumers /\ pc[t] = "waiting" /\ pc'[t] = "woken")
           /\ idleHead' \in Consumers \cup {NULL}
           /\ idleHead # NULL => pc'[idleHead] # "waiting"
<1> DEFINE done == [pc EXCEPT ![p] = "idle"]
<1>1. /\ done \in [Threads -> ProducerPc \cup ConsumerPc] /\ done[p] = "idle"
      /\ \A t \in Threads : t # p => done[t] = pc[t]
  BY DEF TypeOK, ProducerPc
<1>2. CASE idleHead = NULL
  <2>1. idleHead' = NULL /\ pc' = done  BY <1>2 DEF PushPublish
  <2> HIDE DEF done
  <2> QED  BY <1>1, <1>2, <2>1
<1>3. CASE idleHead # NULL
  <2>1. idleHead \in Consumers /\ idleHead # p /\ idleHead' \in Consumers \cup {NULL}
    BY <1>3 DEF TypeOK, PushPublish
  <2>2. pc' = Notify(idleHead, done)  BY <1>3 DEF PushPublish
  <2> HIDE DEF done
  <2>3. Notify(idleHead, done)[idleHead] # "waiting"  BY <1>1, <2>1 DEF Notify
  <2> QED  BY <1>1, <2>1, <2>2, <2>3, NotifyMoves
<1> QED  BY <1>2, <1>3

\* m_tail_ptr becomes the last node again.
LEMMA PushPublishIInv ==
    ASSUME IInv, NEW p \in Producers, PushPublish(p) PROVE IInv'
<1> USE DEF IInv
<1>1. OwnedOnce  BY OwnedOnceEquiv
<1>2. tailLock = p /\ node[p] = list[Len(list)] /\ node[p] \in Nodes
  BY <1>1 DEF TypeOK, HoldersOK, OwnedOnce, PushPublish
<1>3. /\ pc' \in [Threads -> ProducerPc \cup ConsumerPc] /\ pc'[p] = "idle"
      /\ \A t \in Threads : t # p => pc'[t] = pc[t]
                                     \/ (t \in Consumers /\ pc[t] = "waiting" /\ pc'[t] = "woken")
      /\ idleHead' \in Consumers \cup {NULL}
  BY PublishMoves
<1>4. TypeOK'  BY <1>2, <1>3 DEF TypeOK, PushPublish, idle
<1>5. HoldersOK'  BY <1>2, <1>3 DEF TypeOK, HoldersOK, ProducerPc, ConsumerPc, PushPublish
<1>6. OwnedOnce'  BY <1>1, <1>2, <1>3 DEF OwnedOnce, TypeOK, HoldersOK, ConsumerPc, PushPublish
<1> QED  BY <1>4, <1>5, <1>6, OwnedOnceEquiv, PTL

\* dequeue() with an item, whether from the waiting or the polling pop().
LEMMA TakeHeadIInv ==
    ASSUME IInv, NEW c \in Consumers, pc[c] \in {"idle", "dequeue"}, TakeHead(c)
    PROVE  IInv'
<1> USE DEF IInv, TakeHead, idle
<1>1. OwnedOnce  BY OwnedOnceEquiv
<1>2. node[c] = NULL  BY DEF TypeOK, HoldersOK
<1>3. /\ list' \in Seq(Nodes) /\ list' # <<>> /\ Distinct(list')
      /\ Elems(list') = Elems(list) \ {Head(list)}
      /\ Head(list) \in Elems(list) /\ Head(list) \in Nodes
      /\ list'[Len(list')] = list[Len(list)]
      /\ list[2] \in Nodes
  BY <1>1, TailNode DEF OwnedOnce, TypeOK
<1>4. TypeOK'
  <2>1. taken' \in [Consumers -> Values \cup {NULL}] /\ lastVer' \in [Consumers -> Nat]
    BY <1>3 DEF TypeOK
  <2>2. /\ pc' \in [Threads -> ProducerPc \cup ConsumerPc]
        /\ node' \in [Threads -> Nodes \cup {NULL}]
    BY <1>3 DEF TypeOK, ConsumerPc
  <2> QED  BY <1>3, <2>1, <2>2 DEF TypeOK
<1>5. HoldersOK'  BY <1>3 DEF TypeOK, HoldersOK, ProducerPc, ConsumerPc
<1>6. ASSUME NEW t \in Threads, node[t] # NULL PROVE node[t] # Head(list)
  <2>1. CASE pc[t] # "publishing"  BY <1>1, <1>3, <1>6, <2>1 DEF OwnedOnce
  <2>2. CASE pc[t] = "publishing"
    <3>1. tailLock = t /\ tailLock # NULL
      BY <2>2 DEF TypeOK, HoldersOK, ConsumerPc
    <3>2. node[t] = list[Len(list)]  BY <1>1, <3>1 DEF OwnedOnce
    <3>3. list[Len(list)] # list[1]
      <4>1. Len(list) \in Nat /\ Len(list) > 1  BY DEF TypeOK
      <4> QED  BY <1>1, <4>1 DEF OwnedOnce, Distinct
    <3> QED  BY <3>2, <3>3 DEF TypeOK
  <2> QED  BY <2>1, <2>2
<1>7. OwnedOnce'
  BY <1>1, <1>2, <1>3, <1>6 DEF OwnedOnce, TypeOK, HoldersOK
<1> QED  BY <1>4, <1>5, <1>7, OwnedOnceEquiv, PTL

\* The old dummy goes to the free list; nothing else leads to it.
LEMMA PopFreeIInv ==
    ASSUME IInv, NEW c \in Consumers, PopFree(c) PROVE IInv'
<1> USE DEF IInv, PopFree, idle
<1>1. OwnedOnce  BY OwnedOnceEquiv
<1>2. node[c] \in Nodes /\ node[c] \notin Elems(list)
  BY <1>1 DEF OwnedOnce, TypeOK, HoldersOK
<1>3. TypeOK'
  <2>1. /\ val' \in [Nodes -> Values \cup {NULL}] /\ ver' \in [Nodes -> Nat]
        /\ size' \in Int /\ free' \subseteq Nodes
    BY <1>2 DEF TypeOK
  <2>2. /\ pc' \in [Threads -> ProducerPc \cup ConsumerPc]
        /\ node' \in [Threads -> Nodes \cup {NULL}]
    BY DEF TypeOK, ConsumerPc
  <2> QED  BY <2>1, <2>2 DEF TypeOK
<1>4. HoldersOK'  BY <1>2 DEF TypeOK, HoldersOK, ProducerPc, ConsumerPc
<1>5. OwnedOnce'  BY <1>1, <1>2 DEF OwnedOnce, TypeOK, HoldersOK
<1> QED  BY <1>3, <1>4, <1>5, OwnedOnceEquiv, PTL

\* Steps that move no node: control, the idle list, stop() and reset().
NoNodeMoves(c) ==
    /\ UNCHANGED <<heap, size, nextVersion, tailLock, node, pushes, taken, timed>>
    /\ \A t \in Threads : t # c => pc'[t] = pc[t]
    /\ pc' \in [Threads -> ProducerPc \cup ConsumerPc]
    /\ pc'[c] \in ConsumerPc /\ (pc'[c] = "freeing" <=> pc[c] = "freeing")
    /\ lastVer' \in [Consumers -> Nat] /\ running' \in [Consumers -> BOOLEAN]
    /\ idleHead' \in Consumers \cup {NULL}
    /\ idleNext' \in [Consumers -> Consumers \cup {NULL}]
    /\ strayed' \in BOOLEAN /\ cut' \in BOOLEAN

\* They keep the invariant.
LEMMA NoNodeMovesIInv ==
    ASSUME IInv, NEW c \in Consumers, NoNodeMoves(c)
    PROVE  IInv'
<1> USE DEF IInv, NoNodeMoves, heap
<1>1. OwnedOnce  BY OwnedOnceEquiv
<1>2. TypeOK'  BY DEF TypeOK
<1>3. HoldersOK'  BY DEF TypeOK, HoldersOK, ProducerPc, ConsumerPc
<1>4. OwnedOnce'  BY <1>1 DEF OwnedOnce, TypeOK, HoldersOK
<1> QED  BY <1>2, <1>3, <1>4, OwnedOnceEquiv, PTL

\* The steps of pop() that are such.
LEMMA ConsumerControl ==
    ASSUME IInv, NEW c \in Consumers,
           \/ PopCall(c) \/ PopCheck(c) \/ (SeeEmpty(c) /\ pc[c] = "dequeue")
           \/ PopPark(c) \/ PopExpire(c) \/ PopResume(c) \/ PopSpurious(c)
    PROVE  NoNodeMoves(c)
<1> USE DEF IInv, TypeOK, NoNodeMoves, ProducerPc, ConsumerPc, heap, idle
<1>1. CASE PopCall(c)  BY <1>1 DEF PopCall
<1>2. CASE PopCheck(c)  BY <1>2 DEF PopCheck
<1>3. CASE SeeEmpty(c) /\ pc[c] = "dequeue"
  <2>1. Head(list) \in Nodes  OBVIOUS
  <2>2. ver[Head(list)] \in Nat  BY <2>1
  <2> QED  BY <1>3, <2>2 DEF SeeEmpty
<1>4. CASE PopPark(c)
  <2>1. CASE StillEmpty(c)
    <3>0. idleNext' = [idleNext EXCEPT ![c] = idleHead] /\ idleHead' = c
      BY <1>4, <2>1 DEF PopPark
    <3>1. idleNext' \in [Consumers -> Consumers \cup {NULL}]
      BY <3>0
    <3>2. pc' = [pc EXCEPT ![c] = "waiting"] /\ pc[c] = "park"
      BY <1>4, <2>1 DEF PopPark
    <3> QED  BY <1>4, <3>0, <3>1, <3>2 DEF PopPark
  <2>2. CASE ~StillEmpty(c)  BY <1>4, <2>2 DEF PopPark
  <2> QED  BY <2>1, <2>2
<1>5. CASE PopExpire(c)  BY <1>5 DEF PopExpire
<1>6. CASE PopResume(c)  BY <1>6 DEF PopResume
<1>7. CASE PopSpurious(c)  BY <1>7 DEF PopSpurious
<1> QED  BY <1>1, <1>2, <1>3, <1>4, <1>5, <1>6, <1>7

\* And those of the other threads.
LEMMA StopReset ==
    ASSUME IInv, NEW c \in Consumers, Stop(c) \/ Reset(c) PROVE NoNodeMoves(c)
<1> USE DEF IInv
<1>1. CASE Stop(c)
  <2>1. pc' = Notify(c, pc) /\ pc \in [Threads -> ProducerPc \cup ConsumerPc]
    BY <1>1 DEF Stop, TypeOK
  <2>2. pc'[c] \in ConsumerPc /\ (pc'[c] = "freeing" <=> pc[c] = "freeing")
    BY <2>1, NotifyMoves DEF HoldersOK, ConsumerPc
  <2>3. /\ \A t \in Threads : t # c => pc'[t] = pc[t]
        /\ pc' \in [Threads -> ProducerPc \cup ConsumerPc]
    BY <2>1, NotifyMoves
  <2>4. running' \in [Consumers -> BOOLEAN]  BY <1>1 DEF Stop, TypeOK
  <2> QED  BY <1>1, <2>2, <2>3, <2>4 DEF Stop, TypeOK, NoNodeMoves, heap, idle
<1>2. CASE Reset(c)  BY <1>2 DEF Reset, TypeOK, HoldersOK, NoNodeMoves, heap, idle
<1> QED  BY <1>1, <1>2

\* clear() takes every linked node.
LEMMA ClearIInv ==
    ASSUME IInv, Clear PROVE IInv'
<1> USE DEF IInv, Clear, TailFree, Initialize, idle
<1>1. OwnedOnce  BY OwnedOnceEquiv
<1>2. PICK d \in free \cup Elems(list) :
        /\ list' = <<d>> /\ tail' = d
        /\ free' = (free \cup Elems(list)) \ {d}
        /\ val' = [n \in Nodes |-> IF n \in Elems(list) \cup {d} THEN NULL ELSE val[n]]
        /\ ver' = [n \in Nodes |-> IF n \in Elems(list) \cup {d} THEN 0 ELSE ver[n]]
  BY DEF Elems
<1>3. Elems(list) \subseteq Nodes  BY DEF Elems, TypeOK
<1>4. d \in Nodes  BY <1>2, <1>3 DEF TypeOK
<1>5. list' \in Seq(Nodes) /\ list' # <<>> /\ Distinct(list')
      /\ Elems(list') = {d} /\ list'[Len(list')] = d
  BY <1>2, <1>4, DummyList
<1>6. size' \in Int  BY DEF TypeOK, CountItems
<1>7. TypeOK'  BY <1>2, <1>3, <1>4, <1>5, <1>6 DEF TypeOK
<1>8. HoldersOK'  BY DEF HoldersOK
<1>9. ASSUME NEW t \in Threads PROVE pc[t] # "publishing"
  BY DEF TypeOK, HoldersOK, ConsumerPc
<1>10. OwnedOnce'  BY <1>1, <1>2, <1>5, <1>9 DEF OwnedOnce
<1> QED  BY <1>7, <1>8, <1>10, OwnedOnceEquiv, PTL

\* IInv is inductive.
LEMMA NextIInv == IInv /\ [Next]_vars => IInv'
<1> SUFFICES ASSUME IInv, [Next]_vars PROVE IInv'  OBVIOUS
<1>1. ASSUME NEW p \in Producers, ProducerStep(p) PROVE IInv'
  BY <1>1, PushBeginIInv, PushLinkIInv, PushPublishIInv DEF ProducerStep
<1>2. ASSUME NEW c \in Consumers, ConsumerStep(c) PROVE IInv'
  BY <1>2, ConsumerControl, NoNodeMovesIInv, TakeHeadIInv, PopFreeIInv
     DEF ConsumerStep, PopDequeue, TryPop
<1>3. ASSUME NEW c \in Consumers, PopSpurious(c) \/ Stop(c) \/ Reset(c) PROVE IInv'
  BY <1>3, ConsumerControl, StopReset, NoNodeMovesIInv
<1>4. CASE UNCHANGED vars
  <2>1. TypeOK' /\ HoldersOK'  BY <1>4 DEF vars, IInv, TypeOK, HoldersOK
  <2>2. NodesOwnedOnce'
    BY <1>4 DEF vars, IInv, NodesOwnedOnce, Linked
  <2> QED  BY <2>1, <2>2 DEF IInv
<1> QED  BY <1>1, <1>2, <1>3, <1>4, ClearIInv DEF Next

-----------------------------------------------------------------------------
\* Every reachable state is one the declarations in PionLockedQueue.hpp allow:
\* nodes, pointers, versions and the count never hold anything else.
THEOREM TypeCorrect == Spec => []TypeOK
<1>1. IInv => TypeOK  BY DEF IInv
<1> QED  BY <1>1, InitIInv, NextIInv, PTL DEF Spec

\* No node is ever linked twice, freed while it is linked or held, or held by
\* two threads, and m_tail_ptr points to the last linked node whenever
\* m_tail_mutex is free: although dequeue() frees the old dummy outside both
\* mutexes (PionLockedQueue.hpp:107-110), no thread reaches freed memory.
THEOREM NodesSafe == Spec => []NodesOwnedOnce
<1>1. IInv => NodesOwnedOnce  BY DEF IInv
<1> QED  BY <1>1, InitIInv, NextIInv, PTL DEF Spec
-----------------------------------------------------------------------------
(* The count *)

Freeing    == {c \in Consumers : pc[c] = "freeing"}
Publishing == {p \in Producers : pc[p] = "publishing"}
Linking    == {p \in Producers : pc[p] = "linking"}
Length     == Len(list)

\* m_size is off by the threads between changing the list and counting; a
\* producer that has passed the check of MaxSize may still link its node.
SizeInv ==
    /\ size = Length - 1 + Cardinality(Freeing) - Cardinality(Publishing)
    /\ MaxSize > 0 =>
         Length - 1 + Cardinality(Linking) <= MaxSize + Cardinality(Producers) - 1

\* The three sets are finite, and no producer is in two of them.
LEMMA ThreadCounts ==
    ASSUME IsFiniteSet(Producers), IsFiniteSet(Consumers)
    PROVE  /\ IsFiniteSet(Freeing) /\ IsFiniteSet(Publishing) /\ IsFiniteSet(Linking)
           /\ Cardinality(Freeing) \in Nat /\ Cardinality(Publishing) \in Nat
           /\ Cardinality(Linking) \in Nat /\ Cardinality(Producers) \in Nat
           /\ Cardinality(Linking) + Cardinality(Publishing) <= Cardinality(Producers)
<1>1. IsFiniteSet(Freeing) /\ IsFiniteSet(Publishing) /\ IsFiniteSet(Linking)
  BY FS_Subset DEF Freeing, Publishing, Linking
<1>2. /\ Cardinality(Freeing) \in Nat /\ Cardinality(Publishing) \in Nat
      /\ Cardinality(Linking) \in Nat /\ Cardinality(Producers) \in Nat
  BY <1>1, FS_CardinalityType
<1>3. Cardinality(Linking) + Cardinality(Publishing) <= Cardinality(Producers)
  <2>1. Linking \cap Publishing = {}  BY DEF Linking, Publishing
  <2>2. Cardinality(Linking \cup Publishing)
          = Cardinality(Linking) + Cardinality(Publishing) - Cardinality(Linking \cap Publishing)
    BY <1>1, FS_Union
  <2>3. Cardinality(Linking \cap Publishing) = 0  BY <2>1, FS_EmptySet
  <2>4. Linking \cup Publishing \subseteq Producers  BY DEF Linking, Publishing
  <2>5. Cardinality(Linking \cup Publishing) <= Cardinality(Producers)  BY <2>4, FS_Subset
  <2> QED  BY <1>2, <2>2, <2>3, <2>5
<1> QED  BY <1>1, <1>2, <1>3

\* A thread that enters one of them counts for one.
LEMMA CountIn ==
    ASSUME NEW S, IsFiniteSet(S), NEW T, NEW x, x \notin S, T = S \cup {x}
    PROVE  Cardinality(T) = Cardinality(S) + 1
BY FS_AddElement

\* And one that leaves it.
LEMMA CountOut ==
    ASSUME NEW S, IsFiniteSet(S), NEW T, NEW x, x \in S, T = S \ {x}
    PROVE  Cardinality(T) = Cardinality(S) - 1
BY FS_RemoveElement

\* push()
LEMMA PushSizes ==
    ASSUME IsFiniteSet(Producers), IsFiniteSet(Consumers), IInv, SizeInv,
           NEW p \in Producers, ProducerStep(p)
    PROVE  SizeInv'
<1> USE DEF ProducerPc, ConsumerPc
<1>0. TypeOK /\ HoldersOK /\ OwnedOnce  BY OwnedOnceEquiv DEF IInv
<1>1. /\ Length \in Nat \ {0} /\ size \in Int /\ MaxSize \in Nat
      /\ pc \in [Threads -> ProducerPc \cup ConsumerPc]
  BY <1>0 DEF TypeOK, Length
<1>2. ASSUME NEW v \in Values, PushBegin(p, v) PROVE SizeInv'
  <2>1. pc[p] = "idle" /\ pc' = [pc EXCEPT ![p] = "linking"] /\ Length' = Length /\ size' = size /\ ~Full
    BY <1>2 DEF PushBegin, Length
  <2>2. /\ Freeing' = Freeing /\ Publishing' = Publishing
        /\ p \notin Linking /\ Linking' = Linking \cup {p}
    BY <1>1, <2>1 DEF Freeing, Publishing, Linking
  <2>3. Cardinality(Linking') = Cardinality(Linking) + 1  BY <2>2, ThreadCounts, CountIn
  <2>4. Cardinality(Freeing') = Cardinality(Freeing) /\ Cardinality(Publishing') = Cardinality(Publishing)
    BY <2>2
  <2>5. Cardinality(Linking') + Cardinality(Publishing) <= Cardinality(Producers)
    <3>1. Linking' \cap Publishing = {} /\ Linking' \cup Publishing \subseteq Producers
      BY <2>1, <2>2 DEF Linking, Publishing
    <3>2. IsFiniteSet(Linking') /\ Cardinality(Linking' \cup Publishing) <= Cardinality(Producers)
      BY <3>1, FS_Subset
    <3>3. Cardinality(Linking' \cup Publishing)
            = Cardinality(Linking') + Cardinality(Publishing) - Cardinality(Linking' \cap Publishing)
      BY <3>2, ThreadCounts, FS_Union
    <3>4. Cardinality(Linking' \cap Publishing) = 0  BY <3>1, FS_EmptySet
    <3> QED  BY <2>3, <3>2, <3>3, <3>4, ThreadCounts
  <2>6. MaxSize > 0 => size >= 0 /\ size < MaxSize  BY <1>1, <2>1 DEF Full
  <2> QED  BY <1>1, <2>1, <2>3, <2>4, <2>5, <2>6, ThreadCounts DEF SizeInv
<1>3. CASE PushLink(p)
  <2>1. /\ pc[p] = "linking" /\ pc' = [pc EXCEPT ![p] = "publishing"] /\ size' = size
        /\ list' = LinkAfter(list, tail, node[p]) /\ tailLock = NULL
    BY <1>3 DEF PushLink, TailFree
  <2>2. list' = Append(list, node[p])
    <3>1. node[p] \in Nodes /\ list \in Seq(Nodes) /\ list # <<>>
          /\ Distinct(list) /\ tail = list[Len(list)]
      BY <1>0, <2>1 DEF TypeOK, HoldersOK, OwnedOnce
    <3> QED  BY <2>1, <3>1, LinkAtEnd
  <2>3. Length' = Length + 1
    <3>1. list \in Seq(Nodes)  BY <1>0 DEF TypeOK
    <3> QED  BY <2>2, <3>1 DEF Length
  <2>4. /\ Freeing' = Freeing /\ p \notin Publishing /\ Publishing' = Publishing \cup {p}
        /\ p \in Linking /\ Linking' = Linking \ {p}
    BY <1>1, <2>1 DEF Freeing, Publishing, Linking
  <2>5. Cardinality(Linking') = Cardinality(Linking) - 1  BY <2>4, ThreadCounts, CountOut
  <2>6. Cardinality(Publishing') = Cardinality(Publishing) + 1  BY <2>4, ThreadCounts, CountIn
  <2>7. Cardinality(Freeing') = Cardinality(Freeing)  BY <2>4
  <2>8. size' = size  BY <2>1
  <2>9. /\ Cardinality(Freeing) \in Nat /\ Cardinality(Publishing) \in Nat
        /\ Cardinality(Linking) \in Nat /\ Cardinality(Producers) \in Nat
    BY ThreadCounts
  <2> QED  BY <1>1, <2>3, <2>5, <2>6, <2>7, <2>8, <2>9 DEF SizeInv
<1>4. CASE PushPublish(p)
  <2>1. pc[p] = "publishing" /\ size' = size + 1 /\ Length' = Length
    BY <1>4 DEF PushPublish, Length
  <2>2. /\ pc'[p] = "idle"
        /\ \A t \in Threads : t # p => pc'[t] = pc[t]
                                       \/ (t \in Consumers /\ pc[t] = "waiting" /\ pc'[t] = "woken")
    BY <1>0, <1>4, PublishMoves
  <2>3. /\ Freeing' = Freeing /\ p \in Publishing /\ Publishing' = Publishing \ {p}
        /\ Linking' = Linking
    BY <2>1, <2>2 DEF Freeing, Publishing, Linking
  <2>4. Cardinality(Publishing') = Cardinality(Publishing) - 1  BY <2>3, ThreadCounts, CountOut
  <2>5. Cardinality(Freeing') = Cardinality(Freeing) /\ Cardinality(Linking') = Cardinality(Linking)
    BY <2>3
  <2> QED  BY <1>1, <2>1, <2>4, <2>5, ThreadCounts DEF SizeInv
<1> QED  BY <1>2, <1>3, <1>4 DEF ProducerStep

\* A consumer takes an item, and counts it when it has freed the node.
LEMMA TakeHeadSizes ==
    ASSUME IsFiniteSet(Producers), IsFiniteSet(Consumers), IInv, SizeInv,
           NEW c \in Consumers, pc[c] \in {"idle", "dequeue"}, TakeHead(c)
    PROVE  SizeInv'
<1>0. Length \in Nat /\ size \in Int /\ MaxSize \in Nat  BY DEF IInv, TypeOK, Length
<1>1. list \in Seq(Nodes) /\ pc \in [Threads -> ProducerPc \cup ConsumerPc]
  BY DEF IInv, TypeOK
<1>2. pc' = [pc EXCEPT ![c] = "freeing"] /\ size' = size /\ list' = Tail(list) /\ Len(list) > 1
  BY DEF TakeHead
<1>3. Length' = Length - 1  BY <1>1, <1>2 DEF Length
<1>4. /\ c \notin Freeing /\ Freeing' = Freeing \cup {c}
      /\ Publishing' = Publishing /\ Linking' = Linking
  BY <1>1, <1>2 DEF Freeing, Publishing, Linking
<1>5. Cardinality(Freeing') = Cardinality(Freeing) + 1  BY <1>4, ThreadCounts, CountIn
<1>6. Cardinality(Publishing') = Cardinality(Publishing) /\ Cardinality(Linking') = Cardinality(Linking)
  BY <1>4
<1>7. size' = size  BY <1>2
<1>8. /\ Cardinality(Freeing) \in Nat /\ Cardinality(Publishing) \in Nat
      /\ Cardinality(Linking) \in Nat /\ Cardinality(Producers) \in Nat
  BY ThreadCounts
<1> QED  BY <1>0, <1>3, <1>5, <1>6, <1>7, <1>8 DEF SizeInv

\* What was taken is counted down with its node.
LEMMA PopFreeSizes ==
    ASSUME IsFiniteSet(Producers), IsFiniteSet(Consumers), IInv, SizeInv,
           NEW c \in Consumers, PopFree(c)
    PROVE  SizeInv'
<1>1. /\ Length \in Nat /\ size \in Int /\ MaxSize \in Nat
      /\ pc \in [Threads -> ProducerPc \cup ConsumerPc]
  BY DEF IInv, TypeOK, Length
<1>2. pc[c] = "freeing" /\ pc' = [pc EXCEPT ![c] = "idle"] /\ size' = size - 1 /\ Length' = Length
  BY DEF PopFree, Length
<1>3. /\ c \in Freeing /\ Freeing' = Freeing \ {c}
      /\ Publishing' = Publishing /\ Linking' = Linking
  BY <1>1, <1>2 DEF Freeing, Publishing, Linking
<1>4. Cardinality(Freeing') = Cardinality(Freeing) - 1  BY <1>3, ThreadCounts, CountOut
<1>5. Cardinality(Publishing') = Cardinality(Publishing) /\ Cardinality(Linking') = Cardinality(Linking)
  BY <1>3
<1> QED  BY <1>1, <1>2, <1>4, <1>5, ThreadCounts DEF SizeInv

\* Control steps, the idle list, stop() and reset() count nothing.
LEMMA NoNodeMovesSizes ==
    ASSUME IInv, SizeInv, NEW c \in Consumers, NoNodeMoves(c)
    PROVE  SizeInv'
<1>1. size' = size /\ Length' = Length  BY DEF NoNodeMoves, heap, Length
<1>2. Freeing' = Freeing /\ Publishing' = Publishing /\ Linking' = Linking
  BY DEF NoNodeMoves, IInv, HoldersOK, Freeing, Publishing, Linking
<1> QED  BY <1>1, <1>2 DEF SizeInv

\* clear() counts down what it destroys; nobody publishes meanwhile.
LEMMA ClearSizes ==
    ASSUME IsFiniteSet(Producers), IsFiniteSet(Consumers), IInv, SizeInv, Clear
    PROVE  SizeInv'
<1>1. Length \in Nat \ {0} /\ size \in Int /\ MaxSize \in Nat
  BY DEF IInv, TypeOK, Length
<1>2. size' = size - (Length - 1) /\ pc' = pc  BY DEF Clear, CountItems, Length
<1>3. Length' = 1  BY DEF Clear, Initialize, Length
<1>4. Freeing' = Freeing /\ Publishing' = Publishing /\ Linking' = Linking
  BY <1>2 DEF Freeing, Publishing, Linking
<1>5. /\ Cardinality(Publishing') = Cardinality(Publishing)
      /\ Cardinality(Linking') = Cardinality(Linking)
      /\ Cardinality(Freeing') = Cardinality(Freeing)
  BY <1>4
<1> QED  BY <1>1, <1>2, <1>3, <1>5, ThreadCounts DEF SizeInv

\* SizeInv is inductive.
LEMMA NextSizes ==
    ASSUME IsFiniteSet(Producers), IsFiniteSet(Consumers), IInv, SizeInv, [Next]_vars
    PROVE  SizeInv'
<1>1. ASSUME NEW p \in Producers, ProducerStep(p) PROVE SizeInv'
  BY <1>1, PushSizes
<1>2. ASSUME NEW c \in Consumers, ConsumerStep(c) \/ PopSpurious(c) \/ Stop(c) \/ Reset(c)
      PROVE  SizeInv'
  <2>1. CASE PopDequeue(c) /\ TakeHead(c)  BY <2>1, TakeHeadSizes DEF PopDequeue
  <2>2. CASE TryPop(c)  BY <2>2, TakeHeadSizes DEF TryPop
  <2>3. CASE PopFree(c)  BY <2>3, PopFreeSizes
  <2>4. CASE \/ PopCall(c) \/ PopCheck(c) \/ (SeeEmpty(c) /\ pc[c] = "dequeue")
             \/ PopPark(c) \/ PopExpire(c) \/ PopResume(c) \/ PopSpurious(c)
    BY <2>4, ConsumerControl, NoNodeMovesSizes
  <2>5. CASE Stop(c) \/ Reset(c)  BY <2>5, StopReset, NoNodeMovesSizes
  <2> QED  BY <1>2, <2>1, <2>2, <2>3, <2>4, <2>5 DEF ConsumerStep, PopDequeue
<1>3. CASE Clear  BY <1>3, ClearSizes
<1>4. CASE UNCHANGED vars  BY <1>4 DEF vars, SizeInv, Length, Freeing, Publishing, Linking
<1> QED  BY <1>1, <1>2, <1>3, <1>4 DEF Next

\* m_size never drifts from the number of items, and MaxSize is exceeded only
\* by producers that passed its check together (PionLockedQueue.hpp:113, 205,
\* 219, 241), for every finite number of threads, although the check takes no
\* lock and each end counts after it has changed the list.
THEOREM SizeIsAccounted ==
    ASSUME IsFiniteSet(Producers), IsFiniteSet(Consumers)
    PROVE  Spec => []SizeAccounts
<1>1. Init => SizeInv
  <2> SUFFICES ASSUME Init PROVE SizeInv  OBVIOUS
  <2>1. Freeing = {} /\ Publishing = {} /\ Linking = {}
    BY DEF Init, Freeing, Publishing, Linking
  <2>2. Length = 1 /\ size = 0  BY DEF Init, Initialize, Length
  <2>3. Cardinality({}) = 0 /\ Cardinality(Producers) \in Nat /\ MaxSize \in Nat
    BY FS_EmptySet, FS_CardinalityType
  <2>4. /\ Cardinality(Freeing) = 0 /\ Cardinality(Publishing) = 0
        /\ Cardinality(Linking) = 0
    BY <2>1, <2>3
  <2> QED  BY <2>2, <2>3, <2>4 DEF SizeInv
<1>2. IInv /\ SizeInv /\ [Next]_vars => SizeInv'  BY NextSizes
<1>3. IInv /\ SizeInv => SizeAccounts
  <2> SUFFICES ASSUME IInv, SizeInv PROVE SizeAccounts  OBVIOUS
  <2>1. Length \in Nat /\ MaxSize \in Nat  BY DEF IInv, TypeOK, Length
  <2>2. MaxSize > 0 => Length - 1 <= MaxSize + Cardinality(Producers) - 1
    BY <2>1, ThreadCounts DEF SizeInv
  <2> QED  BY <2>2 DEF SizeInv, SizeAccounts, Length, Freeing, Publishing
<1> QED  BY <1>1, <1>2, <1>3, InitIInv, NextIInv, PTL DEF Spec
-----------------------------------------------------------------------------
(* The wakeups *)

\* While versions do not come round, what was linked after a failed dequeue()
\* has a later version than the dummy which that dequeue() saw.
VersionInv ==
    /\ pushes <= MaxPush
    /\ nextVersion + 2 * Cardinality(Linking) <= 1 + 2 * pushes
    /\ \A n \in Nodes : ver[n] <= nextVersion
    /\ \A c \in Consumers : lastVer[c] <= nextVersion
    /\ \A c \in Consumers : pc[c] = "park" =>
         \A i \in 1..Len(list) : i # 1 => ver[list[i]] > lastVer[c]

\* When every consumer waits, the last to do so left something for push() to
\* find, and had seen that the queue was empty.
AllWaiting == \A c \in Consumers : pc[c] = "waiting"
WakeInv == AllWaiting => idleHead # NULL /\ (tailLock = NULL => Length = 1)

\* push()
LEMMA PushVersions ==
    ASSUME IsFiniteSet(Producers), IsFiniteSet(Consumers), 2 * MaxPush + 1 < VersionModulus,
           IInv, VersionInv, NEW p \in Producers, ProducerStep(p)
    PROVE  VersionInv'
<1> USE DEF ProducerPc, ConsumerPc
<1>0. TypeOK /\ HoldersOK /\ OwnedOnce  BY OwnedOnceEquiv DEF IInv
<1>1. /\ nextVersion \in Nat /\ pushes \in Nat /\ MaxPush \in Nat
      /\ pc \in [Threads -> ProducerPc \cup ConsumerPc]
      /\ ver \in [Nodes -> Nat] /\ lastVer \in [Consumers -> Nat] /\ list \in Seq(Nodes)
  BY <1>0 DEF TypeOK
<1>2. /\ Cardinality(Linking) \in Nat /\ IsFiniteSet(Linking)
  BY ThreadCounts
<1>3. ASSUME NEW v \in Values, PushBegin(p, v) PROVE VersionInv'
  <2>1. /\ pc[p] = "idle" /\ pc' = [pc EXCEPT ![p] = "linking"] /\ list' = list
        /\ pushes < MaxPush /\ pushes' = pushes + 1
        /\ nextVersion' = nextVersion /\ lastVer' = lastVer
    BY <1>3 DEF PushBegin
  <2>2. PICK n \in free : ver' = [ver EXCEPT ![n] = 0]  BY <1>3 DEF PushBegin
  <2>3. n \notin Elems(list)  BY <1>0 DEF OwnedOnce
  <2>4. p \notin Linking /\ Linking' = Linking \cup {p}  BY <1>1, <2>1 DEF Linking
  <2>5. Cardinality(Linking') = Cardinality(Linking) + 1  BY <1>2, <2>4, CountIn
  <2>6. nextVersion' + 2 * Cardinality(Linking') <= 1 + 2 * pushes' /\ pushes' <= MaxPush
    BY <1>1, <1>2, <2>1, <2>5 DEF VersionInv
  <2>7. /\ \A m \in Nodes : ver'[m] <= nextVersion'
        /\ \A c \in Consumers : lastVer'[c] <= nextVersion'
    BY <1>1, <2>1, <2>2 DEF VersionInv
  <2>8. ASSUME NEW c \in Consumers, pc'[c] = "park", NEW i \in 1..Len(list'), i # 1
        PROVE  ver'[list'[i]] > lastVer'[c]
    <3>1. pc[c] = "park" /\ list[i] \in Elems(list) /\ list[i] \in Nodes
      BY <1>1, <2>1, <2>8 DEF Elems
    <3>2. ver'[list[i]] = ver[list[i]]  BY <1>1, <2>2, <2>3, <3>1
    <3> QED  BY <2>1, <2>8, <3>1, <3>2 DEF VersionInv
  <2> QED  BY <2>6, <2>7, <2>8 DEF VersionInv
<1>4. CASE PushLink(p)
  <2>1. /\ pc[p] = "linking" /\ pc' = [pc EXCEPT ![p] = "publishing"]
        /\ nextVersion' = (nextVersion + 2) % VersionModulus
        /\ ver' = [ver EXCEPT ![node[p]] = nextVersion']
        /\ pushes' = pushes /\ lastVer' = lastVer /\ tailLock = NULL
        /\ list' = LinkAfter(list, tail, node[p])
    BY <1>4 DEF PushLink, TailFree
  <2>2. node[p] \in Nodes /\ node[p] \notin Elems(list) /\ list' = Append(list, node[p])
    <3>1. /\ node[p] \in Nodes /\ node[p] \notin Elems(list) /\ list # <<>>
          /\ Distinct(list) /\ tail = list[Len(list)]
      BY <1>0, <2>1 DEF TypeOK, HoldersOK, OwnedOnce
    <3> QED  BY <1>1, <2>1, <3>1, LinkAtEnd
  <2>3. p \in Linking /\ Linking' = Linking \ {p}  BY <1>1, <2>1 DEF Linking
  <2>4. Cardinality(Linking') = Cardinality(Linking) - 1 /\ Cardinality(Linking') \in Nat
    <3>1. Cardinality(Linking') = Cardinality(Linking) - 1  BY <1>2, <2>3, CountOut
    <3>2. IsFiniteSet(Linking')  BY <1>2, <2>3, FS_RemoveElement
    <3> QED  BY <3>1, <3>2, FS_CardinalityType
  <2>5. nextVersion' = nextVersion + 2
    <3>1. nextVersion + 2 <= 1 + 2 * MaxPush
      <4>1. nextVersion + 2 * Cardinality(Linking) <= 1 + 2 * pushes /\ pushes <= MaxPush
        BY DEF VersionInv
      <4>2. Cardinality(Linking) \in Nat /\ Cardinality(Linking) >= 1  BY <1>2, <2>4
      <4>3. nextVersion \in Nat /\ pushes \in Nat /\ MaxPush \in Nat  BY <1>1
      <4> QED  BY <4>1, <4>2, <4>3
    <3>2. VersionModulus \in Nat \ {0} /\ nextVersion + 2 \in 0 .. VersionModulus - 1
      BY <1>1, <3>1
    <3>3. (nextVersion + 2) % VersionModulus = nextVersion + 2  BY <3>2
    <3> QED  BY <2>1, <3>3
  <2>6. nextVersion' + 2 * Cardinality(Linking') <= 1 + 2 * pushes' /\ pushes' <= MaxPush
    <3>1. nextVersion + 2 * Cardinality(Linking) <= 1 + 2 * pushes /\ pushes <= MaxPush
      BY DEF VersionInv
    <3>2. /\ Cardinality(Linking) \in Nat /\ Cardinality(Linking') = Cardinality(Linking) - 1
          /\ nextVersion \in Nat /\ pushes \in Nat /\ pushes' = pushes
      BY <1>1, <1>2, <2>1, <2>4
    <3> QED  BY <2>5, <3>1, <3>2
  <2>7. /\ \A m \in Nodes : ver'[m] <= nextVersion'
        /\ \A c \in Consumers : lastVer'[c] <= nextVersion'
    <3>1. nextVersion \in Nat /\ \A m \in Nodes : ver[m] \in Nat /\ ver[m] <= nextVersion
      BY <1>1 DEF VersionInv
    <3>2. \A c \in Consumers : lastVer'[c] = lastVer[c] /\ lastVer[c] \in Nat /\ lastVer[c] <= nextVersion
      BY <1>1, <2>1 DEF VersionInv
    <3>3. \A m \in Nodes : ver'[m] = ver[m] \/ ver'[m] = nextVersion'
      BY <1>1, <2>1, <2>2
    <3> QED  BY <2>5, <3>1, <3>2, <3>3
  <2>8. ASSUME NEW c \in Consumers, pc'[c] = "park", NEW i \in 1..Len(list'), i # 1
        PROVE  ver'[list'[i]] > lastVer'[c]
    <3>1. pc[c] = "park"  BY <1>1, <2>1, <2>8
    <3>2. CASE i \in 1..Len(list)
      <4>1. list'[i] = list[i] /\ list[i] \in Elems(list) /\ list[i] \in Nodes
        BY <1>1, <2>2, <3>2 DEF Elems
      <4>2. ver'[list[i]] = ver[list[i]]  BY <1>1, <2>1, <2>2, <4>1
      <4> QED  BY <2>1, <2>8, <3>1, <3>2, <4>1, <4>2 DEF VersionInv
    <3>3. CASE i \notin 1..Len(list)
      <4>1. list'[i] = node[p]  BY <1>1, <2>2, <2>8, <3>3
      <4>2. ver'[node[p]] = nextVersion + 2  BY <1>1, <2>1, <2>2, <2>5
      <4>3. lastVer[c] <= nextVersion /\ lastVer[c] \in Nat  BY <1>1 DEF VersionInv
      <4> QED  BY <1>1, <2>1, <4>1, <4>2, <4>3
    <3> QED  BY <3>2, <3>3
  <2> QED  BY <2>6, <2>7, <2>8 DEF VersionInv
<1>5. CASE PushPublish(p)
  <2>1. /\ pc[p] = "publishing" /\ list' = list /\ ver' = ver /\ nextVersion' = nextVersion
        /\ pushes' = pushes /\ lastVer' = lastVer
    BY <1>5 DEF PushPublish
  <2>2. /\ pc'[p] = "idle"
        /\ \A t \in Threads : t # p => pc'[t] = pc[t]
                                       \/ (t \in Consumers /\ pc[t] = "waiting" /\ pc'[t] = "woken")
    BY <1>0, <1>5, PublishMoves
  <2>3. Linking' = Linking  BY <2>1, <2>2 DEF Linking
  <2>4. \A c \in Consumers : pc'[c] = "park" => pc[c] = "park"  BY <2>2
  <2>5. Cardinality(Linking') = Cardinality(Linking)  BY <2>3
  <2> QED  BY <2>1, <2>4, <2>5 DEF VersionInv
<1> QED  BY <1>3, <1>4, <1>5 DEF ProducerStep

\* A consumer that sees an empty queue remembers the version of its dummy; one
\* that takes an item leaves later ones.
LEMMA PopVersions ==
    ASSUME IsFiniteSet(Producers), IsFiniteSet(Consumers), IInv, VersionInv,
           NEW c \in Consumers,
           ConsumerStep(c) \/ PopSpurious(c) \/ Stop(c) \/ Reset(c)
    PROVE  VersionInv'
<1> USE DEF ProducerPc, ConsumerPc
<1>0. TypeOK /\ HoldersOK /\ OwnedOnce  BY OwnedOnceEquiv DEF IInv
<1>1. /\ nextVersion \in Nat /\ pc \in [Threads -> ProducerPc \cup ConsumerPc]
      /\ ver \in [Nodes -> Nat] /\ lastVer \in [Consumers -> Nat] /\ list \in Seq(Nodes)
      /\ \A p \in Producers : p \notin Consumers
  BY <1>0 DEF TypeOK
<1>2. CASE TakeHead(c) /\ pc[c] \in {"idle", "dequeue"}
  <2>1. /\ list' = Tail(list) /\ Len(list) > 1 /\ pc' = [pc EXCEPT ![c] = "freeing"]
        /\ lastVer' = [lastVer EXCEPT ![c] = 0]
        /\ ver' = ver /\ nextVersion' = nextVersion /\ pushes' = pushes
    BY <1>2 DEF TakeHead
  <2>2. Linking' = Linking  BY <1>1, <1>2, <2>1 DEF Linking
  <2>3. Cardinality(Linking') = Cardinality(Linking)  BY <2>2
  <2>4. \A d \in Consumers : lastVer'[d] <= nextVersion  BY <1>1, <2>1 DEF VersionInv
  <2>5. ASSUME NEW d \in Consumers, pc'[d] = "park", NEW i \in 1..Len(list'), i # 1
        PROVE  ver'[list'[i]] > lastVer'[d]
    <3>1. d # c /\ pc[d] = "park" /\ lastVer'[d] = lastVer[d]  BY <1>1, <2>1, <2>5
    <3>2. i + 1 \in 1..Len(list) /\ i + 1 # 1 /\ list'[i] = list[i + 1]
      BY <1>1, <2>1, <2>5
    <3> QED  BY <2>1, <3>1, <3>2 DEF VersionInv
  <2> QED  BY <2>1, <2>3, <2>4, <2>5 DEF VersionInv
<1>3. CASE SeeEmpty(c) /\ pc[c] = "dequeue"
  <2>1. /\ list' = list /\ Len(list) = 1 /\ pc' = [pc EXCEPT ![c] = "park"]
        /\ lastVer' = [lastVer EXCEPT ![c] = ver[Head(list)]]
        /\ ver' = ver /\ nextVersion' = nextVersion /\ pushes' = pushes
    BY <1>3 DEF SeeEmpty, heap
  <2>2. Linking' = Linking  BY <1>1, <1>3, <2>1 DEF Linking
  <2>3. Cardinality(Linking') = Cardinality(Linking)  BY <2>2
  <2>4. \A d \in Consumers : lastVer'[d] <= nextVersion
    <3>1. Head(list) \in Nodes
      <4>1. list \in Seq(Nodes) /\ list # <<>>  BY <1>0 DEF TypeOK
      <4> QED  BY <4>1
    <3> QED  BY <1>1, <2>1, <3>1 DEF VersionInv
  <2>5. \A i \in 1..Len(list') : i = 1  BY <2>1
  <2> QED  BY <2>1, <2>3, <2>4, <2>5 DEF VersionInv
<1>4. CASE PopFree(c)
  <2>1. /\ list' = list /\ pc' = [pc EXCEPT ![c] = "idle"] /\ lastVer' = lastVer
        /\ ver' = [ver EXCEPT ![node[c]] = 0] /\ nextVersion' = nextVersion /\ pushes' = pushes
        /\ pc[c] = "freeing"
    BY <1>4 DEF PopFree
  <2>2. Linking' = Linking  BY <1>1, <2>1 DEF Linking
  <2>3. Cardinality(Linking') = Cardinality(Linking)  BY <2>2
  <2>4. node[c] \notin Elems(list)  BY <1>0, <2>1 DEF OwnedOnce, HoldersOK
  <2>5. \A n \in Nodes : ver'[n] <= nextVersion'  BY <1>1, <2>1 DEF VersionInv
  <2>6. ASSUME NEW d \in Consumers, pc'[d] = "park", NEW i \in 1..Len(list'), i # 1
        PROVE  ver'[list'[i]] > lastVer'[d]
    <3>1. pc[d] = "park" /\ list[i] \in Elems(list) /\ list[i] \in Nodes
      BY <1>1, <2>1, <2>6 DEF Elems
    <3>2. ver'[list[i]] = ver[list[i]]  BY <1>1, <2>1, <2>4, <3>1
    <3> QED  BY <2>1, <2>6, <3>1, <3>2 DEF VersionInv
  <2> QED  BY <2>1, <2>3, <2>5, <2>6 DEF VersionInv
<1>5. CASE \/ PopCall(c) \/ PopCheck(c) \/ PopPark(c) \/ PopExpire(c) \/ PopResume(c)
           \/ PopSpurious(c) \/ Stop(c) \/ Reset(c)
  <2>1. NoNodeMoves(c)  BY <1>5, ConsumerControl, StopReset
  <2>2. /\ list' = list /\ ver' = ver /\ nextVersion' = nextVersion /\ pushes' = pushes
        /\ \A t \in Threads : t # c => pc'[t] = pc[t]
    BY <2>1 DEF NoNodeMoves, heap
  <2>3. Linking' = Linking  BY <2>2, <1>1 DEF Linking
  <2>4. Cardinality(Linking') = Cardinality(Linking)  BY <2>3
  <2>5. lastVer' = lastVer \/ lastVer' = [lastVer EXCEPT ![c] = 0]
    BY <1>5 DEF PopCall, PopCheck, PopPark, PopExpire, PopResume, PopSpurious, Stop, Reset
  <2>6. pc'[c] # "park" \/ (pc[c] = "park" /\ lastVer' = lastVer)
    <3>1. CASE Stop(c)  BY <1>1, <3>1, NotifyMoves DEF Stop
    <3>2. CASE Reset(c)  BY <3>2 DEF Reset
    <3>3. CASE PopCall(c)  BY <1>1, <3>3 DEF PopCall
    <3>4. CASE PopCheck(c)  BY <1>1, <3>4 DEF PopCheck
    <3>5. CASE PopPark(c)  BY <1>1, <3>5 DEF PopPark
    <3>6. CASE PopExpire(c)  BY <1>1, <3>6 DEF PopExpire
    <3>7. CASE PopResume(c)
      <4>1. pc' = [pc EXCEPT ![c] = "check"] \/ pc' = [pc EXCEPT ![c] = "idle"]
        <5>1. CASE pc[c] = "woken"  BY <3>7, <5>1 DEF PopResume
        <5>2. CASE pc[c] # "woken"  BY <3>7, <5>2 DEF PopResume
        <5> QED  BY <5>1, <5>2
      <4>2. pc'[c] = "check" \/ pc'[c] = "idle"  BY <1>1, <4>1
      <4> QED  BY <4>2
    <3>8. CASE PopSpurious(c)  BY <1>1, <3>8 DEF PopSpurious
    <3> QED  BY <1>5, <3>1, <3>2, <3>3, <3>4, <3>5, <3>6, <3>7, <3>8
  <2>7. \A d \in Consumers : lastVer'[d] <= nextVersion
    <3>1. \A d \in Consumers : lastVer'[d] = lastVer[d] \/ lastVer'[d] = 0  BY <1>1, <2>5
    <3>2. nextVersion \in Nat /\ \A d \in Consumers : lastVer[d] <= nextVersion
      BY <1>1 DEF VersionInv
    <3> QED  BY <3>1, <3>2
  <2>8. \A d \in Consumers : pc'[d] = "park" => pc[d] = "park" /\ lastVer'[d] = lastVer[d]
    BY <1>1, <2>2, <2>5, <2>6
  <2> QED  BY <2>2, <2>4, <2>7, <2>8 DEF VersionInv
<1> QED  BY <1>2, <1>3, <1>4, <1>5 DEF ConsumerStep, PopDequeue, TryPop

\* clear() leaves a dummy of version 0.
LEMMA ClearVersions ==
    ASSUME IInv, VersionInv, Clear PROVE VersionInv'
<1>1. /\ nextVersion \in Nat /\ ver \in [Nodes -> Nat]  BY DEF IInv, TypeOK
<1>2. /\ nextVersion' = nextVersion /\ pushes' = pushes /\ lastVer' = lastVer /\ pc' = pc
      /\ Len(list') = 1
  BY DEF Clear, Initialize
<1>3. \A n \in Nodes : ver'[n] <= nextVersion
  <2>1. PICK S : ver' = [n \in Nodes |-> IF n \in S THEN 0 ELSE ver[n]]  BY DEF Clear
  <2> QED  BY <1>1, <2>1 DEF VersionInv
<1>4. Linking' = Linking  BY <1>2 DEF Linking
<1>5. Cardinality(Linking') = Cardinality(Linking)  BY <1>4
<1> QED  BY <1>2, <1>3, <1>5 DEF VersionInv

\* VersionInv is inductive.
LEMMA NextVersions ==
    ASSUME IsFiniteSet(Producers), IsFiniteSet(Consumers), 2 * MaxPush + 1 < VersionModulus,
           IInv, VersionInv, [Next]_vars
    PROVE  VersionInv'
<1>1. CASE UNCHANGED vars  BY <1>1 DEF vars, VersionInv, Linking
<1>2. CASE Next  BY <1>2, PushVersions, PopVersions, ClearVersions DEF Next
<1> QED  BY <1>1, <1>2

\* A push that ends while every consumer waits wakes one of them.
LEMMA PublishWakes ==
    ASSUME IInv, WakeInv, NEW p \in Producers, ProducerStep(p) PROVE WakeInv'
<1>0. TypeOK /\ HoldersOK  BY DEF IInv
<1>1. pc \in [Threads -> ProducerPc \cup ConsumerPc] /\ \A c \in Consumers : c # p
  BY <1>0 DEF TypeOK
<1>2. ASSUME NEW v \in Values, PushBegin(p, v) PROVE WakeInv'
  <2>1. /\ Length' = Length /\ idleHead' = idleHead /\ tailLock' = tailLock
        /\ pc' = [pc EXCEPT ![p] = "linking"]
    BY <1>2 DEF PushBegin, Length
  <2>2. AllWaiting' <=> AllWaiting  BY <1>1, <2>1 DEF AllWaiting
  <2> QED  BY <2>1, <2>2 DEF WakeInv
<1>3. CASE PushLink(p)
  <2>1. /\ idleHead' = idleHead /\ tailLock' = p /\ pc' = [pc EXCEPT ![p] = "publishing"]
    BY <1>3 DEF PushLink
  <2>2. AllWaiting' <=> AllWaiting  BY <1>1, <2>1 DEF AllWaiting
  <2>3. p # NULL  OBVIOUS
  <2> QED  BY <2>1, <2>2, <2>3 DEF WakeInv
<1>4. CASE PushPublish(p)
  <2>1. /\ \A c \in Consumers : pc'[c] = pc[c] \/ pc'[c] = "woken"
        /\ idleHead # NULL => idleHead \in Consumers /\ pc'[idleHead] # "waiting"
    BY <1>0, <1>1, <1>4, PublishMoves DEF TypeOK
  <2>2. ~AllWaiting'
    <3> SUFFICES ASSUME AllWaiting' PROVE FALSE  OBVIOUS
    <3>1. AllWaiting  BY <2>1 DEF AllWaiting
    <3>2. idleHead # NULL  BY <3>1 DEF WakeInv
    <3> QED  BY <2>1, <3>2 DEF AllWaiting
  <2> QED  BY <2>2 DEF WakeInv
<1> QED  BY <1>2, <1>3, <1>4 DEF ProducerStep

\* The last consumer to wait has linked itself, and nothing was pushed since it
\* saw the queue empty.
LEMMA ParkSeesEmpty ==
    ASSUME IInv, VersionInv, NEW c \in Consumers, PopPark(c), pc'[c] = "waiting"
    PROVE  idleHead' # NULL /\ Length' = 1
<1>0. TypeOK /\ HoldersOK /\ OwnedOnce  BY OwnedOnceEquiv DEF IInv
<1>1. pc \in [Threads -> ProducerPc \cup ConsumerPc] /\ pc[c] = "park" /\ c \in Threads
  BY <1>0 DEF TypeOK, PopPark
<1>2. StillEmpty(c)
  <2> SUFFICES ASSUME ~StillEmpty(c) PROVE FALSE  OBVIOUS
  <2>1. pc' = [pc EXCEPT ![c] = "check"]  BY DEF PopPark
  <2> QED  BY <1>1, <2>1
<1>3. idleHead' = c /\ list' = list /\ tailLock = NULL /\ ver[tail] = lastVer[c]
  BY <1>2 DEF PopPark, StillEmpty, TailFree, heap
<1>4. /\ tail = list[Len(list)] /\ Len(list) \in Nat \ {0}
      /\ ver \in [Nodes -> Nat] /\ lastVer \in [Consumers -> Nat] /\ tail \in Nodes
  BY <1>0, <1>3 DEF OwnedOnce, TypeOK
<1>5. Len(list) = 1
  <2> SUFFICES ASSUME Len(list) # 1 PROVE FALSE  OBVIOUS
  <2>1. Len(list) \in 1..Len(list)  BY <1>4
  <2>2. ver[list[Len(list)]] > lastVer[c]  BY <1>1, <2>1 DEF VersionInv
  <2>3. ver[tail] > ver[tail] /\ ver[tail] \in Nat  BY <1>3, <1>4, <2>2
  <2> QED  BY <2>3
<1> QED  BY <1>3, <1>5 DEF Length

\* No other step of a consumer makes it wait.
LEMMA PopWakes ==
    ASSUME IInv, VersionInv, WakeInv, NEW c \in Consumers,
           ConsumerStep(c) \/ PopSpurious(c) \/ Stop(c) \/ Reset(c)
    PROVE  WakeInv'
<1>0. TypeOK /\ HoldersOK  BY DEF IInv
<1>1. pc \in [Threads -> ProducerPc \cup ConsumerPc]  BY <1>0 DEF TypeOK
<1>2. CASE PopPark(c)
  <2>1. CASE pc'[c] = "waiting"  BY <1>2, <2>1, ParkSeesEmpty DEF WakeInv
  <2>2. CASE pc'[c] # "waiting"  BY <2>2 DEF WakeInv, AllWaiting
  <2> QED  BY <2>1, <2>2
<1>3. CASE ~PopPark(c)
  <2> SUFFICES ASSUME AllWaiting' PROVE pc'[c] = "waiting" /\ AllWaiting /\ UNCHANGED <<list, idleHead, tailLock>>
    BY DEF WakeInv, Length
  <2>0. pc'[c] = "waiting"  BY DEF AllWaiting
  <2>1. CASE Stop(c)
    <3>1. pc' = Notify(c, pc)  BY <2>1 DEF Stop
    <3>2. Notify(c, pc)[c] # "waiting"  BY <1>1 DEF Notify
    <3> QED  BY <2>0, <3>1, <3>2
  <2>2. CASE Reset(c)  BY <2>2 DEF Reset, AllWaiting, heap
  <2>3. CASE ConsumerStep(c) \/ PopSpurious(c)
    <3>1. PICK pcs \in {"check", "dequeue", "freeing", "park", "expired", "woken", "idle"} :
            pc' = [pc EXCEPT ![c] = pcs]
      <4>1. CASE PopCall(c)  BY <4>1 DEF PopCall
      <4>2. CASE PopCheck(c)
        <5>1. CASE running[c]  BY <4>2, <5>1 DEF PopCheck
        <5>2. CASE ~running[c]  BY <4>2, <5>2 DEF PopCheck
        <5> QED  BY <5>1, <5>2
      <4>3. CASE TakeHead(c)  BY <4>3 DEF TakeHead
      <4>4. CASE SeeEmpty(c)  BY <4>4 DEF SeeEmpty
      <4>5. CASE PopFree(c)  BY <4>5 DEF PopFree
      <4>6. CASE PopExpire(c)  BY <4>6 DEF PopExpire
      <4>7. CASE PopResume(c)
        <5>1. CASE pc[c] = "woken"  BY <4>7, <5>1 DEF PopResume
        <5>2. CASE pc[c] # "woken"  BY <4>7, <5>2 DEF PopResume
        <5> QED  BY <5>1, <5>2
      <4>8. CASE PopSpurious(c)  BY <4>8 DEF PopSpurious
      <4> QED
        BY <1>3, <2>3, <4>1, <4>2, <4>3, <4>4, <4>5, <4>6, <4>7, <4>8
           DEF ConsumerStep, PopDequeue, TryPop
    <3>2. pc'[c] = pcs  BY <1>1, <3>1
    <3> QED  BY <2>0, <3>2
  <2> QED  BY <2>1, <2>2, <2>3
<1> QED  BY <1>2, <1>3

\* WakeInv is inductive.
LEMMA NextWakes ==
    ASSUME IInv, VersionInv, WakeInv, [Next]_vars PROVE WakeInv'
<1>1. CASE UNCHANGED vars  BY <1>1 DEF vars, WakeInv, AllWaiting, Length
<1>2. CASE Clear
  <2>1. Length' = 1 /\ pc' = pc /\ idleHead' = idleHead
    BY <1>2 DEF Clear, Initialize, Length, idle
  <2> QED  BY <2>1 DEF WakeInv, AllWaiting
<1>3. CASE \E p \in Producers : ProducerStep(p)  BY <1>3, PublishWakes
<1>4. CASE \E c \in Consumers : ConsumerStep(c) \/ PopSpurious(c) \/ Stop(c) \/ Reset(c)
  BY <1>4, PopWakes
<1> QED  BY <1>1, <1>2, <1>3, <1>4 DEF Next

\* There is never an item in the queue while every consumer sleeps unnotified:
\* the version check (PionLockedQueue.hpp:270) sees any push between a failed
\* dequeue() and the wait, for any finite number of threads, as long as the
\* versions do not come round.
THEOREM WakeupsAreNotLost ==
    ASSUME IsFiniteSet(Producers), IsFiniteSet(Consumers), Consumers # {},
           2 * MaxPush + 1 < VersionModulus
    PROVE  Spec => []NoLostWakeup
<1>1. Init => VersionInv /\ WakeInv
  <2> SUFFICES ASSUME Init PROVE VersionInv /\ WakeInv  OBVIOUS
  <2>1. Linking = {}  BY DEF Init, Linking
  <2>2. Cardinality(Linking) = 0  BY <2>1, FS_EmptySet
  <2>3. Len(list) = 1  BY DEF Init, Initialize
  <2>4. VersionInv  BY <2>2, <2>3 DEF Init, VersionInv
  <2>5. WakeInv  BY DEF Init, WakeInv, AllWaiting
  <2> QED  BY <2>4, <2>5
<1>2. IInv /\ VersionInv /\ [Next]_vars => VersionInv'  BY NextVersions
<1>3. IInv /\ VersionInv /\ WakeInv /\ [Next]_vars => WakeInv'  BY NextWakes
<1>4. WakeInv => NoLostWakeup
  <2> SUFFICES ASSUME WakeInv, Length > 1, tailLock = NULL
               PROVE  \E c \in Consumers : pc[c] # "waiting"
    BY DEF NoLostWakeup, Length
  <2>1. Length # 1  OBVIOUS
  <2> QED  BY <2>1 DEF WakeInv, AllWaiting
<1> QED  BY <1>1, <1>2, <1>3, <1>4, InitIInv, NextIInv, PTL DEF Spec
-----------------------------------------------------------------------------
(* The refinement *)

\* The items of a list of nodes after its dummy.
Contents(l, v) == [i \in 1..Len(l) - 1 |-> v[l[i + 1]]]

\* They are a sequence.
LEMMA ContentsType ==
    ASSUME NEW l \in Seq(Nodes), l # <<>>, NEW S, NEW v \in [Nodes -> S]
    PROVE  Contents(l, v) \in Seq(S) /\ Len(Contents(l, v)) = Len(l) - 1
<1>1. Len(l) - 1 \in Nat  OBVIOUS
<1>2. \A i \in 1..Len(l) - 1 : l[i + 1] \in Nodes  BY <1>1
<1>3. Contents(l, v) \in [1..Len(l) - 1 -> S]  BY <1>2 DEF Contents
<1>4. Contents(l, v) \in Seq(S)  BY <1>1, <1>3
<1> QED  BY <1>1, <1>3, <1>4, LenProperties

\* Linking a node appends its item.
LEMMA ContentsAppend ==
    ASSUME NEW l \in Seq(Nodes), l # <<>>, NEW S, NEW v \in [Nodes -> S], NEW n \in Nodes
    PROVE  Contents(Append(l, n), v) = Append(Contents(l, v), v[n])
<1> DEFINE m == Append(l, n)
           s == Contents(l, v)
           t == Contents(m, v)
<1>1. /\ m \in Seq(Nodes) /\ m # <<>> /\ Len(m) = Len(l) + 1 /\ m[Len(l) + 1] = n
      /\ \A i \in 1..Len(l) : m[i] = l[i]
      /\ Len(l) \in Nat \ {0}
  OBVIOUS
<1>2. s \in Seq(S) /\ Len(s) = Len(l) - 1  BY ContentsType
<1>3. \A i \in 1..Len(l) - 1 : s[i] = v[l[i + 1]]  BY DEF Contents
<1>4. t \in Seq(S) /\ Len(t) = Len(m) - 1 /\ \A i \in 1..Len(m) - 1 : t[i] = v[m[i + 1]]
  <2> HIDE DEF m
  <2>1. t \in Seq(S) /\ Len(t) = Len(m) - 1  BY <1>1, ContentsType
  <2> QED  BY <2>1 DEF Contents
<1> HIDE DEF m, s, t
<1>5. /\ Append(s, v[n]) \in Seq(S) /\ Len(Append(s, v[n])) = Len(s) + 1
      /\ \A i \in 1..Len(s) : Append(s, v[n])[i] = s[i]
      /\ Append(s, v[n])[Len(s) + 1] = v[n]
  <2>1. v[n] \in S  OBVIOUS
  <2> QED  BY <1>2, <2>1, AppendProperties
<1>6. ASSUME NEW i \in 1..Len(t) PROVE t[i] = Append(s, v[n])[i]
  <2>1. CASE i = Len(l)  BY <1>1, <1>2, <1>4, <1>5, <2>1
  <2>2. CASE i # Len(l)
    <3>1. i \in 1..Len(s) /\ i + 1 \in 1..Len(l) /\ i \in 1..Len(l) - 1 /\ i \in 1..Len(m) - 1
      BY <1>1, <1>2, <1>4, <2>2
    <3> QED  BY <1>1, <1>3, <1>4, <1>5, <3>1
  <2> QED  BY <2>1, <2>2
<1>7. Len(t) = Len(Append(s, v[n]))  BY <1>1, <1>2, <1>4, <1>5
<1>8. t = Append(s, v[n])  BY <1>4, <1>5, <1>6, <1>7, SeqEqual
<1> QED  BY <1>8 DEF m, s, t

\* Stepping the head takes the oldest item.
LEMMA ContentsTail ==
    ASSUME NEW l \in Seq(Nodes), Len(l) > 1, NEW S, NEW v \in [Nodes -> S]
    PROVE  /\ Contents(l, v) # <<>> /\ Head(Contents(l, v)) = v[l[2]]
           /\ Contents(Tail(l), v) = Tail(Contents(l, v))
<1> DEFINE m == Tail(l)
           s == Contents(l, v)
           t == Contents(m, v)
<1>0. /\ m \in Seq(Nodes) /\ Len(m) = Len(l) - 1 /\ Len(l) \in Nat
      /\ \A i \in 1..Len(m) : m[i] = l[i + 1]
  OBVIOUS
<1>1. /\ m \in Seq(Nodes) /\ m # <<>> /\ Len(m) = Len(l) - 1 /\ Len(l) \in Nat
      /\ \A i \in 1..Len(m) : m[i] = l[i + 1]
  <2> HIDE DEF m
  <2>1. m # <<>>  BY <1>0
  <2> QED  BY <1>0, <2>1
<1>2. s \in Seq(S) /\ Len(s) = Len(l) - 1
  <2>1. l # <<>>  OBVIOUS
  <2> QED  BY <2>1, ContentsType
<1>3. \A i \in 1..Len(l) - 1 : s[i] = v[l[i + 1]]  BY DEF Contents
<1>4. t \in Seq(S) /\ Len(t) = Len(m) - 1 /\ \A i \in 1..Len(m) - 1 : t[i] = v[m[i + 1]]
  <2> HIDE DEF m
  <2>1. t \in Seq(S) /\ Len(t) = Len(m) - 1  BY <1>1, ContentsType
  <2> QED  BY <2>1 DEF Contents
<1> HIDE DEF m, s, t
<1>5. s # <<>> /\ 1 \in 1..Len(l) - 1  BY <1>1, <1>2
<1>6. Head(s) = v[l[2]]
  <2>1. Head(s) = s[1]  BY <1>2, <1>5
  <2>2. s[1] = v[l[1 + 1]]  BY <1>3, <1>5
  <2> QED  BY <2>1, <2>2
<1>7. /\ Tail(s) \in Seq(S) /\ Len(Tail(s)) = Len(s) - 1
      /\ \A i \in 1..Len(Tail(s)) : Tail(s)[i] = s[i + 1]
  BY <1>2, <1>5, HeadTailProperties
<1>8. ASSUME NEW i \in 1..Len(t) PROVE t[i] = Tail(s)[i]
  <2>1. /\ i \in 1..Len(m) - 1 /\ i + 1 \in 1..Len(m) /\ i + 1 \in 1..Len(l) - 1
        /\ i \in 1..Len(Tail(s))
    BY <1>1, <1>2, <1>4, <1>7
  <2>2. t[i] = v[m[i + 1]] /\ m[i + 1] = l[i + 1 + 1]  BY <1>1, <1>4, <2>1
  <2>3. Tail(s)[i] = s[i + 1] /\ s[i + 1] = v[l[i + 1 + 1]]  BY <1>3, <1>7, <2>1
  <2> QED  BY <2>2, <2>3
<1>9. Len(t) = Len(Tail(s))  BY <1>1, <1>2, <1>4, <1>7
<1>10. t = Tail(s)  BY <1>4, <1>7, <1>8, <1>9, SeqEqual
<1> QED  BY <1>5, <1>6, <1>10 DEF m, s, t
\* What producers link are values.
ItemsAreValues == \A p \in Producers : pc[p] = "linking" => val[node[p]] \in Values

\* Items is the refinement mapping in these terms.
LEMMA ItemsType ==
    ASSUME TypeOK
    PROVE  /\ Items = Contents(list, val)
           /\ val \in [Nodes -> Values \cup {NULL}] /\ list \in Seq(Nodes) /\ list # <<>>
BY DEF TypeOK, Items, Contents

\* Nodes that are not linked may change without changing the items.
LEMMA SameItems ==
    ASSUME TypeOK, list' = list, NEW n, n \notin Elems(list), NEW x,
           val' = [val EXCEPT ![n] = x]
    PROVE  Items' = Items
<1>1. ASSUME NEW i \in 1..Len(list) - 1 PROVE val'[list[i + 1]] = val[list[i + 1]]
  <2>1. i + 1 \in 1..Len(list) /\ list \in Seq(Nodes)  BY DEF TypeOK
  <2>2. list[i + 1] \in Nodes /\ list[i + 1] # n  BY <2>1 DEF Elems
  <2> QED  BY <2>2 DEF TypeOK
<1> QED  BY <1>1 DEF Items

\* Each step of the queue is a step of the FIFO, or changes nothing there.
LEMMA StepRefines ==
    ASSUME IInv, ItemsAreValues, [Next]_vars
    PROVE  [Fifo!Next]_Fifo!fvars
<1> USE DEF Fifo!Next, Fifo!fvars
<1>0. TypeOK /\ HoldersOK /\ OwnedOnce  BY OwnedOnceEquiv DEF IInv
<1>1. ASSUME NEW p \in Producers, NEW v \in Values, PushBegin(p, v)
      PROVE  UNCHANGED <<Items, taken>>
  <2>1. PICK n \in free : val' = [val EXCEPT ![n] = v]  BY <1>1 DEF PushBegin
  <2>2. n \notin Elems(list)  BY <1>0 DEF OwnedOnce
  <2>3. Items' = Items  BY <1>0, <1>1, <2>1, <2>2, SameItems DEF PushBegin
  <2> QED  BY <1>1, <2>3 DEF PushBegin
<1>2. ASSUME NEW p \in Producers, PushLink(p) PROVE \E v \in Values : Fifo!Put(v)
  <2>1. /\ val' = val /\ taken' = taken /\ val[node[p]] \in Values
        /\ list' = LinkAfter(list, tail, node[p]) /\ pc[p] = "linking" /\ tailLock = NULL
    BY <1>2 DEF PushLink, TailFree, ItemsAreValues
  <2>2. node[p] \in Nodes /\ list' = Append(list, node[p])
    <3>1. /\ node[p] \in Nodes /\ list \in Seq(Nodes) /\ list # <<>>
          /\ Distinct(list) /\ tail = list[Len(list)]
      BY <1>0, <2>1 DEF TypeOK, HoldersOK, OwnedOnce, ProducerPc, ConsumerPc
    <3> QED  BY <2>1, <3>1, LinkAtEnd
  <2>3. Items' = Contents(Append(list, node[p]), val)
    BY <2>1, <2>2 DEF Items, Contents
  <2>4. Items' = Append(Items, val[node[p]])
    <3>1. /\ Items = Contents(list, val) /\ list \in Seq(Nodes) /\ list # <<>>
          /\ val \in [Nodes -> Values \cup {NULL}]
      BY <1>0, ItemsType
    <3>2. Contents(Append(list, node[p]), val) = Append(Contents(list, val), val[node[p]])
      BY <2>2, <3>1, ContentsAppend
    <3> QED  BY <2>3, <3>1, <3>2
  <2> QED  BY <2>1, <2>4 DEF Fifo!Put
<1>3. ASSUME NEW c \in Consumers, TakeHead(c) PROVE Fifo!Take(c)
  <2>1. /\ Len(list) > 1 /\ list' = Tail(list) /\ val' = val
        /\ taken' = [taken EXCEPT ![c] = val[list[2]]]
    BY <1>3 DEF TakeHead
  <2>2. Items' = Contents(Tail(list), val)  BY <2>1 DEF Items, Contents
  <2>3. Items # <<>> /\ Head(Items) = val[list[2]] /\ Items' = Tail(Items)
    BY <1>0, <2>1, <2>2, ItemsType, ContentsTail
  <2> QED  BY <2>1, <2>3 DEF Fifo!Take
<1>4. ASSUME NEW c \in Consumers, PopFree(c) PROVE UNCHANGED <<Items, taken>>
  <2>1. /\ list' = list /\ taken' = taken /\ pc[c] = "freeing"
        /\ val' = [val EXCEPT ![node[c]] = NULL]
    BY <1>4 DEF PopFree
  <2>2. node[c] \notin Elems(list)  BY <1>0, <2>1 DEF OwnedOnce, HoldersOK
  <2>3. Items' = Items  BY <1>0, <2>1, <2>2, SameItems
  <2> QED  BY <2>1, <2>3
<1>5. ASSUME NEW c \in Consumers, NoNodeMoves(c) PROVE UNCHANGED <<Items, taken>>
  BY <1>5 DEF NoNodeMoves, heap, Items
<1>6. CASE Clear
  <2>1. taken' = taken /\ Len(list') = 1  BY <1>6 DEF Clear, Initialize
  <2>2. Items' = <<>>  BY <2>1 DEF Items
  <2> QED  BY <2>1, <2>2 DEF Fifo!Clear
<1>7. CASE UNCHANGED vars  BY <1>7 DEF vars, Items
<1>8. ASSUME NEW p \in Producers, PushPublish(p) PROVE UNCHANGED <<Items, taken>>
  BY <1>8 DEF PushPublish, Items
<1>9. ASSUME NEW p \in Producers, ProducerStep(p) PROVE [Fifo!Next]_Fifo!fvars
  BY <1>1, <1>2, <1>8, <1>9 DEF ProducerStep
<1>10. ASSUME NEW c \in Consumers, ConsumerStep(c) \/ PopSpurious(c) \/ Stop(c) \/ Reset(c)
       PROVE  [Fifo!Next]_Fifo!fvars
  <2>1. CASE TakeHead(c)  BY <1>3, <2>1
  <2>2. CASE PopFree(c)  BY <1>4, <2>2
  <2>3. CASE \/ PopCall(c) \/ PopCheck(c) \/ (SeeEmpty(c) /\ pc[c] = "dequeue")
             \/ PopPark(c) \/ PopExpire(c) \/ PopResume(c) \/ PopSpurious(c)
    BY <1>5, <2>3, ConsumerControl
  <2>4. CASE Stop(c) \/ Reset(c)  BY <1>5, <2>4, StopReset
  <2> QED  BY <1>10, <2>1, <2>2, <2>3, <2>4 DEF ConsumerStep, PopDequeue, TryPop
<1> QED  BY <1>6, <1>7, <1>9, <1>10 DEF Next

\* ItemsAreValues is inductive.
LEMMA ItemsStayValues ==
    ASSUME IInv, ItemsAreValues, [Next]_vars
    PROVE  ItemsAreValues'
<1> USE DEF ProducerPc, ConsumerPc
<1>0. TypeOK /\ HoldersOK /\ OwnedOnce  BY OwnedOnceEquiv DEF IInv
<1>1. /\ pc \in [Threads -> ProducerPc \cup ConsumerPc]
      /\ node \in [Threads -> Nodes \cup {NULL}] /\ val \in [Nodes -> Values \cup {NULL}]
  BY <1>0 DEF TypeOK
<1>2. \A p \in Producers : pc[p] = "linking" =>
        node[p] # NULL /\ node[p] \in Nodes /\ node[p] \notin Elems(list) \cup free
  BY <1>0, <1>1 DEF HoldersOK, OwnedOnce
<1>3. ASSUME NEW p \in Producers, NEW v \in Values, PushBegin(p, v) PROVE ItemsAreValues'
  <2>1. PICK n \in free : /\ node' = [node EXCEPT ![p] = n]
                          /\ val' = [val EXCEPT ![n] = v]
                          /\ pc' = [pc EXCEPT ![p] = "linking"]
    BY <1>3 DEF PushBegin
  <2>2. n \in Nodes  BY <1>0 DEF TypeOK
  <2>3. ASSUME NEW q \in Producers, pc'[q] = "linking" PROVE val'[node'[q]] \in Values
    <3>1. CASE q = p  BY <1>1, <2>1, <2>2, <3>1
    <3>2. CASE q # p
      <4>1. pc[q] = "linking" /\ node'[q] = node[q]  BY <1>1, <2>1, <2>3, <3>2
      <4>2. node[q] # n /\ node[q] \in Nodes  BY <1>2, <4>1
      <4> QED  BY <1>1, <2>1, <4>1, <4>2 DEF ItemsAreValues
    <3> QED  BY <3>1, <3>2
  <2> QED  BY <2>3 DEF ItemsAreValues
<1>4. ASSUME NEW p \in Producers, PushLink(p) PROVE ItemsAreValues'
  BY <1>1, <1>4 DEF PushLink, ItemsAreValues
<1>5. ASSUME NEW p \in Producers, PushPublish(p) PROVE ItemsAreValues'
  <2>1. /\ val' = val /\ node' = [node EXCEPT ![p] = NULL]  BY <1>5 DEF PushPublish
  <2>2. /\ pc'[p] = "idle" /\ \A q \in Producers : q # p => pc'[q] = pc[q]
    BY <1>0, <1>5, PublishMoves
  <2> QED  BY <1>1, <2>1, <2>2 DEF ItemsAreValues
<1>6. ASSUME NEW c \in Consumers, TakeHead(c) PROVE ItemsAreValues'
  BY <1>1, <1>6 DEF TakeHead, ItemsAreValues
<1>7. ASSUME NEW c \in Consumers, PopFree(c) PROVE ItemsAreValues'
  <2>1. /\ node' = [node EXCEPT ![c] = NULL] /\ pc' = [pc EXCEPT ![c] = "idle"]
        /\ val' = [val EXCEPT ![node[c]] = NULL]
    BY <1>7 DEF PopFree
  <2>2. ASSUME NEW p \in Producers, pc'[p] = "linking" PROVE val'[node'[p]] \in Values
    <3>1. p # c /\ pc[p] = "linking" /\ node'[p] = node[p]  BY <1>1, <2>1, <2>2
    <3>2. node[p] # node[c] /\ node[p] \in Nodes  BY <1>0, <1>2, <3>1 DEF OwnedOnce
    <3> QED  BY <1>1, <2>1, <3>1, <3>2 DEF ItemsAreValues
  <2> QED  BY <2>2 DEF ItemsAreValues
<1>8. ASSUME NEW c \in Consumers, NoNodeMoves(c) PROVE ItemsAreValues'
  BY <1>8 DEF NoNodeMoves, heap, ItemsAreValues
<1>9. CASE Clear
  <2>1. PICK d \in free \cup Elems(list) :
          val' = [n \in Nodes |-> IF n \in Elems(list) \cup {d} THEN NULL ELSE val[n]]
    BY <1>9 DEF Clear, Elems
  <2>2. node' = node /\ pc' = pc  BY <1>9 DEF Clear
  <2> QED  BY <1>1, <1>2, <2>1, <2>2 DEF ItemsAreValues
<1>10. CASE UNCHANGED vars  BY <1>10 DEF vars, ItemsAreValues
<1>11. ASSUME NEW p \in Producers, ProducerStep(p) PROVE ItemsAreValues'
  BY <1>3, <1>4, <1>5, <1>11 DEF ProducerStep
<1>12. ASSUME NEW c \in Consumers, ConsumerStep(c) \/ PopSpurious(c) \/ Stop(c) \/ Reset(c)
       PROVE  ItemsAreValues'
  <2>1. CASE TakeHead(c)  BY <1>6, <2>1
  <2>2. CASE PopFree(c)  BY <1>7, <2>2
  <2>3. CASE \/ PopCall(c) \/ PopCheck(c) \/ (SeeEmpty(c) /\ pc[c] = "dequeue")
             \/ PopPark(c) \/ PopExpire(c) \/ PopResume(c) \/ PopSpurious(c)
    BY <1>8, <2>3, ConsumerControl
  <2>4. CASE Stop(c) \/ Reset(c)  BY <1>8, <2>4, StopReset
  <2> QED  BY <1>12, <2>1, <2>2, <2>3, <2>4 DEF ConsumerStep, PopDequeue, TryPop
<1> QED  BY <1>9, <1>10, <1>11, <1>12 DEF Next

\* The two-lock queue is a FIFO (PionLockedQueue.hpp:38): a push takes effect
\* when its node is linked, a pop when the head is stepped, whatever the other
\* threads do and wherever m_tail_ptr, m_size and the idle list lag behind.
THEOREM QueueIsFifo == Spec => ImplementsFifo
<1>1. Init => ItemsAreValues /\ Fifo!Init
  <2> SUFFICES ASSUME Init PROVE ItemsAreValues /\ Fifo!Init  OBVIOUS
  <2>1. ItemsAreValues  BY DEF Init, ItemsAreValues
  <2>2. Len(list) = 1  BY DEF Init, Initialize
  <2>3. Items = <<>>  BY <2>2 DEF Items
  <2> QED  BY <2>1, <2>3 DEF Init, Fifo!Init
<1>2. IInv /\ ItemsAreValues /\ [Next]_vars => ItemsAreValues'  BY ItemsStayValues
<1>3. IInv /\ ItemsAreValues /\ [Next]_vars => [Fifo!Next]_Fifo!fvars  BY StepRefines
<1> QED  BY <1>1, <1>2, <1>3, InitIInv, NextIInv, PTL DEF Spec, ImplementsFifo, Fifo!Spec
-----------------------------------------------------------------------------
(* The idle list *)

\* f lists the n consumers from m_idle_ptr along m_next_ptr: each once.
IdleList(n, f) ==
    /\ \A i, j \in 1..n : f[i] = f[j] => i = j
    /\ idleHead = IF n = 0 THEN NULL ELSE f[1]
    /\ \A i \in 1..n : idleNext[f[i]] = IF i = n THEN NULL ELSE f[i + 1]

\* The idle list has every waiting consumer, and others only once one has left
\* its wait unnotified.
ListsWaiting(n, f) ==
    /\ IdleList(n, f)
    /\ \A c \in Consumers : pc[c] = "waiting" => \E i \in 1..n : f[i] = c
    /\ strayed \/ \A i \in 1..n : pc[f[i]] = "waiting"

Lists == \E n \in Nat : \E f \in [1..n -> Consumers] : ListsWaiting(n, f)

\* The list has become a loop, or leads into one: it has no end.
Endless == \E S \in SUBSET Consumers : idleHead \in S /\ \A c \in S : idleNext[c] \in S

\* Unless reset() cut it, the idle list is complete or endless.
IdleInv == cut \/ Lists \/ (strayed /\ Endless)

\* A consumer that parks becomes the first of the list.
LEMMA ParkPrepends ==
    ASSUME TypeOK, NEW n \in Nat, NEW f \in [1..n -> Consumers], ListsWaiting(n, f),
           NEW c \in Consumers, \A i \in 1..n : f[i] # c, strayed' = strayed,
           pc' = [pc EXCEPT ![c] = "waiting"],
           idleNext' = [idleNext EXCEPT ![c] = idleHead], idleHead' = c
    PROVE  LET g == [i \in 1..(n + 1) |-> IF i = 1 THEN c ELSE f[i - 1]]
           IN  g \in [1..(n + 1) -> Consumers] /\ ListsWaiting(n + 1, g)'
<1> DEFINE g == [i \in 1..(n + 1) |-> IF i = 1 THEN c ELSE f[i - 1]]
<1>1. /\ g \in [1..(n + 1) -> Consumers] /\ g[1] = c
      /\ \A i \in 2..(n + 1) : g[i] = f[i - 1] /\ i - 1 \in 1..n
  OBVIOUS
<1> HIDE DEF g
<1>2. \A i \in 1..n : f[i] # c /\ f[i] \in Consumers  OBVIOUS
<1>3. idleNext' [c] = idleHead /\ \A d \in Consumers : d # c => idleNext'[d] = idleNext[d]
  BY DEF TypeOK
<1>4. \A i, j \in 1..(n + 1) : g[i] = g[j] => i = j
  BY <1>1, <1>2 DEF ListsWaiting, IdleList
<1>5. ASSUME NEW i \in 1..(n + 1)
      PROVE  idleNext'[g[i]] = IF i = n + 1 THEN NULL ELSE g[i + 1]
  <2>1. CASE i = 1
    <3>1. CASE n = 0  BY <1>1, <1>3, <2>1, <3>1 DEF ListsWaiting, IdleList
    <3>2. CASE n # 0
      <4>1. g[2] = f[1] /\ i + 1 = 2 /\ i # n + 1  BY <1>1, <2>1, <3>2
      <4> QED  BY <1>1, <1>3, <2>1, <3>2, <4>1 DEF ListsWaiting, IdleList
    <3> QED  BY <3>1, <3>2
  <2>2. CASE i # 1
    <3>1. i - 1 \in 1..n /\ g[i] = f[i - 1]  BY <1>1, <2>2
    <3>2. idleNext'[g[i]] = idleNext[f[i - 1]]  BY <1>2, <1>3, <3>1
    <3>3. CASE i = n + 1  BY <3>1, <3>2, <3>3 DEF ListsWaiting, IdleList
    <3>4. CASE i # n + 1
      <4>1. g[i + 1] = f[i] /\ i - 1 # n /\ (i - 1) + 1 = i  BY <1>1, <3>4
      <4> QED  BY <3>1, <3>2, <3>4, <4>1 DEF ListsWaiting, IdleList
    <3> QED  BY <3>3, <3>4
  <2> QED  BY <2>1, <2>2
<1>6. IdleList(n + 1, g)'  BY <1>1, <1>4, <1>5 DEF IdleList
<1>7. ASSUME NEW d \in Consumers, pc'[d] = "waiting" PROVE \E i \in 1..(n + 1) : g[i] = d
  <2>1. CASE d = c  BY <1>1, <2>1
  <2>2. CASE d # c
    <3>1. pc[d] = "waiting"  BY <1>7, <2>2 DEF TypeOK
    <3>2. PICK i \in 1..n : f[i] = d  BY <3>1 DEF ListsWaiting
    <3>3. i + 1 \in 2..(n + 1) /\ i + 1 \in 1..(n + 1) /\ (i + 1) - 1 = i  OBVIOUS
    <3>4. g[i + 1] = d  BY <1>1, <3>2, <3>3
    <3> QED  BY <3>3, <3>4
  <2> QED  BY <2>1, <2>2
<1>8. ASSUME ~strayed', NEW i \in 1..(n + 1) PROVE pc'[g[i]] = "waiting"
  <2>1. CASE i = 1  BY <1>1, <2>1 DEF TypeOK
  <2>2. CASE i # 1
    <3>1. i - 1 \in 1..n /\ g[i] = f[i - 1]  BY <1>1, <2>2
    <3>2. pc[f[i - 1]] = "waiting"  BY <1>8, <3>1 DEF ListsWaiting
    <3> QED  BY <1>2, <3>1, <3>2 DEF TypeOK
  <2> QED  BY <2>1, <2>2
<1> QED  BY <1>1, <1>6, <1>7, <1>8 DEF g, ListsWaiting

\* One that is on the list already makes it a loop.
LEMMA ParkLoops ==
    ASSUME TypeOK, NEW n \in Nat, NEW f \in [1..n -> Consumers], IdleList(n, f),
           NEW k \in 1..n,
           idleNext' = [idleNext EXCEPT ![f[k]] = idleHead], idleHead' = f[k]
    PROVE  Endless'
<1> DEFINE S == {f[i] : i \in 1..k}
<1>1. f[k] \in S /\ S \in SUBSET Consumers /\ k \in Nat  OBVIOUS
<1>2. ASSUME NEW c \in S PROVE idleNext'[c] \in S
  <2>1. PICK i \in 1..k : c = f[i]  OBVIOUS
  <2>2. CASE i = k
    <3>1. idleNext'[c] = f[1]  BY <2>1, <2>2 DEF TypeOK, IdleList
    <3> QED  BY <3>1
  <2>3. CASE i # k
    <3>1. i \in 1..n /\ i + 1 \in 1..k /\ i # n  BY <2>1, <2>3
    <3>2. f[i] # f[k] /\ f[i] \in Consumers  BY <2>3, <3>1 DEF IdleList
    <3>3. idleNext'[c] = f[i + 1]  BY <2>1, <3>1, <3>2 DEF TypeOK, IdleList
    <3> QED  BY <3>1, <3>3
  <2> QED  BY <2>2, <2>3
<1> QED  BY <1>1, <1>2 DEF Endless

\* A push that ends takes the first consumer off the list and wakes it if it waits.
LEMMA PublishTakesFirst ==
    ASSUME TypeOK, NEW n \in Nat, NEW f \in [1..n -> Consumers], ListsWaiting(n, f),
           NEW p \in Producers, PushPublish(p), n # 0
    PROVE  LET g == [i \in 1..(n - 1) |-> f[i + 1]]
           IN  /\ g \in [1..(n - 1) -> Consumers] /\ ListsWaiting(n - 1, g)'
               /\ f[1] \in Consumers /\ idleHead = f[1]
               /\ pc[f[1]] = "waiting" => pc'[f[1]] = "woken"
               /\ pc[f[1]] = "waiting" \/ strayed
<1> DEFINE g == [i \in 1..(n - 1) |-> f[i + 1]]
<1>1. /\ g \in [1..(n - 1) -> Consumers] /\ 1 \in 1..n
      /\ \A i \in 1..(n - 1) : g[i] = f[i + 1] /\ i + 1 \in 1..n
  OBVIOUS
<1> HIDE DEF g
<1>2. /\ idleHead = f[1] /\ f[1] \in Consumers /\ f[1] # NULL
      /\ pc[f[1]] = "waiting" \/ strayed
  BY <1>1 DEF ListsWaiting, IdleList
<1>3. /\ pc' = Notify(f[1], [pc EXCEPT ![p] = "idle"])
      /\ idleHead' = idleNext[f[1]] /\ idleNext' = idleNext /\ strayed' = strayed
  BY <1>2 DEF PushPublish
<1>4. p # f[1] /\ \A d \in Consumers : d # p  BY <1>2
<1>5. pc' = IF pc[f[1]] = "waiting" THEN [[pc EXCEPT ![p] = "idle"] EXCEPT ![f[1]] = "woken"]
                                    ELSE [pc EXCEPT ![p] = "idle"]
  BY <1>2, <1>3, <1>4 DEF Notify, TypeOK
<1>6. /\ pc'[f[1]] = IF pc[f[1]] = "waiting" THEN "woken" ELSE pc[f[1]]
      /\ \A d \in Consumers : d # f[1] => pc'[d] = pc[d]
  <2>1. CASE pc[f[1]] = "waiting"  BY <1>2, <1>4, <1>5, <2>1 DEF TypeOK
  <2>2. CASE pc[f[1]] # "waiting"  BY <1>2, <1>4, <1>5, <2>2 DEF TypeOK
  <2> QED  BY <2>1, <2>2
<1>7. \A i, j \in 1..(n - 1) : g[i] = g[j] => i = j
  <2> SUFFICES ASSUME NEW i \in 1..(n - 1), NEW j \in 1..(n - 1), g[i] = g[j] PROVE i = j
    OBVIOUS
  <2>1. f[i + 1] = f[j + 1] /\ i + 1 \in 1..n /\ j + 1 \in 1..n  BY <1>1
  <2>2. i + 1 = j + 1  BY <2>1 DEF ListsWaiting, IdleList
  <2> QED  BY <2>2
<1>8. idleHead' = IF n - 1 = 0 THEN NULL ELSE g[1]
  <2>1. CASE n = 1  BY <1>1, <1>3, <2>1 DEF ListsWaiting, IdleList
  <2>2. CASE n # 1
    <3>1. 1 \in 1..(n - 1) /\ g[1] = f[2]  BY <1>1, <2>2
    <3> QED  BY <1>1, <1>3, <2>2, <3>1 DEF ListsWaiting, IdleList
  <2> QED  BY <2>1, <2>2
<1>9. ASSUME NEW i \in 1..(n - 1)
      PROVE  idleNext'[g[i]] = IF i = n - 1 THEN NULL ELSE g[i + 1]
  <2>1. g[i] = f[i + 1] /\ i + 1 \in 1..n  BY <1>1
  <2>2. idleNext[f[i + 1]] = IF i + 1 = n THEN NULL ELSE f[(i + 1) + 1]
    BY <2>1 DEF ListsWaiting, IdleList
  <2>3. CASE i = n - 1  BY <1>3, <2>1, <2>2, <2>3
  <2>4. CASE i # n - 1
    <3>1. i + 1 \in 1..(n - 1)  BY <2>4
    <3>2. g[i + 1] = f[(i + 1) + 1]  BY <1>1, <3>1
    <3> QED  BY <1>3, <2>1, <2>2, <2>4, <3>2
  <2> QED  BY <2>3, <2>4
<1>10. IdleList(n - 1, g)'  BY <1>7, <1>8, <1>9 DEF IdleList
<1>11. ASSUME NEW d \in Consumers, pc'[d] = "waiting" PROVE \E i \in 1..(n - 1) : g[i] = d
  <2>1. d # f[1] /\ pc[d] = "waiting"  BY <1>6, <1>11
  <2>2. PICK i \in 1..n : f[i] = d  BY <2>1 DEF ListsWaiting
  <2>3. i - 1 \in 1..(n - 1) /\ (i - 1) + 1 = i  BY <2>1, <2>2
  <2> QED  BY <1>1, <2>2, <2>3
<1>12. ASSUME ~strayed', NEW i \in 1..(n - 1) PROVE pc'[g[i]] = "waiting"
  <2>1. g[i] = f[i + 1] /\ i + 1 \in 1..n /\ i + 1 # 1  BY <1>1
  <2>2. pc[f[i + 1]] = "waiting" /\ f[i + 1] # f[1]
    BY <1>1, <1>3, <1>12, <2>1 DEF ListsWaiting, IdleList
  <2> QED  BY <1>6, <2>1, <2>2
<1> QED  BY <1>1, <1>2, <1>6, <1>10, <1>11, <1>12 DEF g, ListsWaiting

\* A step after which nobody waits who did not before leaves the list as good as
\* it was, if none left it or one strayed.
LEMMA OthersKeepList ==
    ASSUME IdleInv, UNCHANGED <<idleHead, idleNext>>, cut' = cut,
           strayed \in BOOLEAN, strayed' \in BOOLEAN, strayed => strayed',
           \A c \in Consumers : pc'[c] = "waiting" => pc[c] = "waiting",
           \A c \in Consumers : pc[c] = "waiting" => pc'[c] = "waiting" \/ strayed'
    PROVE  IdleInv'
<1>1. CASE Lists
  <2>1. PICK n \in Nat : \E f \in [1..n -> Consumers] : ListsWaiting(n, f)  BY <1>1 DEF Lists
  <2>2. PICK f \in [1..n -> Consumers] : ListsWaiting(n, f)  BY <2>1
  <2>3. ListsWaiting(n, f)'  BY <2>2 DEF ListsWaiting, IdleList
  <2> QED  BY <2>3 DEF IdleInv, Lists
<1>2. CASE strayed /\ Endless  BY <1>2 DEF IdleInv, Endless
<1> QED  BY <1>1, <1>2 DEF IdleInv

\* The steps of a producer.
LEMMA PushIdle ==
    ASSUME IInv, IdleInv, NEW p \in Producers, ProducerStep(p) PROVE IdleInv'
<1>0. TypeOK /\ strayed \in BOOLEAN /\ \A c \in Consumers : c # p  BY DEF IInv, TypeOK
<1>1. ASSUME NEW v \in Values, PushBegin(p, v) PROVE IdleInv'
  <2>1. UNCHANGED <<idleHead, idleNext, strayed, cut>> /\ pc' = [pc EXCEPT ![p] = "linking"]
    BY <1>1 DEF PushBegin
  <2>2. \A c \in Consumers : pc'[c] = pc[c]  BY <1>0, <2>1 DEF TypeOK
  <2> QED  BY <1>0, <2>1, <2>2, OthersKeepList
<1>2. CASE PushLink(p)
  <2>1. UNCHANGED <<idleHead, idleNext, strayed, cut>> /\ pc' = [pc EXCEPT ![p] = "publishing"]
    BY <1>2 DEF PushLink
  <2>2. \A c \in Consumers : pc'[c] = pc[c]  BY <1>0, <2>1 DEF TypeOK
  <2> QED  BY <1>0, <2>1, <2>2, OthersKeepList
<1>3. CASE PushPublish(p)
  <2>0. UNCHANGED <<idleNext, strayed, cut>>  BY <1>3 DEF PushPublish
  <2>1. CASE cut  BY <2>0, <2>1 DEF IdleInv
  <2>2. CASE Lists
    <3>1. PICK n \in Nat : \E f \in [1..n -> Consumers] : ListsWaiting(n, f)  BY <2>2 DEF Lists
    <3>2. PICK f \in [1..n -> Consumers] : ListsWaiting(n, f)  BY <3>1
    <3>3. CASE n = 0
      <4>1. idleHead = NULL  BY <3>2, <3>3 DEF ListsWaiting, IdleList
      <4>2. idleHead' = idleHead /\ pc' = [pc EXCEPT ![p] = "idle"]  BY <1>3, <4>1 DEF PushPublish
      <4>3. \A c \in Consumers : pc'[c] = pc[c]  BY <1>0, <4>2 DEF TypeOK
      <4> QED  BY <1>0, <2>0, <4>2, <4>3, OthersKeepList
    <3>4. CASE n # 0
      <4> DEFINE g == [i \in 1..(n - 1) |-> f[i + 1]]
      <4>1. g \in [1..(n - 1) -> Consumers] /\ ListsWaiting(n - 1, g)'
        BY <1>0, <1>3, <3>2, <3>4, PublishTakesFirst
      <4>2. n - 1 \in Nat  BY <3>4
      <4> HIDE DEF g
      <4>3. Lists'  BY <4>1, <4>2 DEF Lists
      <4> QED  BY <4>3 DEF IdleInv
    <3> QED  BY <3>3, <3>4
  <2>3. CASE strayed /\ Endless
    <3>1. PICK S \in SUBSET Consumers : idleHead \in S /\ \A c \in S : idleNext[c] \in S
      BY <2>3 DEF Endless
    <3>2. idleHead # NULL /\ idleHead' = idleNext[idleHead]  BY <1>3, <3>1 DEF PushPublish
    <3> QED  BY <2>0, <2>3, <3>1, <3>2 DEF IdleInv, Endless
  <2> QED  BY <2>1, <2>2, <2>3 DEF IdleInv
<1> QED  BY <1>1, <1>2, <1>3 DEF ProducerStep

\* A consumer parks.
LEMMA ParkIdle ==
    ASSUME IInv, IdleInv, NEW c \in Consumers, PopPark(c), StillEmpty(c) PROVE IdleInv'
<1>0. TypeOK  BY DEF IInv
<1>1. /\ pc' = [pc EXCEPT ![c] = "waiting"] /\ pc[c] = "park"
      /\ idleNext' = [idleNext EXCEPT ![c] = idleHead] /\ idleHead' = c
      /\ strayed' = strayed /\ cut' = cut
  BY DEF PopPark
<1>2. CASE cut  BY <1>1, <1>2 DEF IdleInv
<1>3. CASE Lists
  <2>1. PICK n \in Nat : \E f \in [1..n -> Consumers] : ListsWaiting(n, f)  BY <1>3 DEF Lists
  <2>2. PICK f \in [1..n -> Consumers] : ListsWaiting(n, f)  BY <2>1
  <2>3. CASE \A i \in 1..n : f[i] # c
    <3> DEFINE g == [i \in 1..(n + 1) |-> IF i = 1 THEN c ELSE f[i - 1]]
    <3>1. g \in [1..(n + 1) -> Consumers] /\ ListsWaiting(n + 1, g)'
      BY <1>0, <1>1, <2>2, <2>3, ParkPrepends
    <3>2. n + 1 \in Nat  OBVIOUS
    <3> HIDE DEF g
    <3>3. Lists'  BY <3>1, <3>2 DEF Lists
    <3> QED  BY <3>3 DEF IdleInv
  <2>4. CASE \E i \in 1..n : f[i] = c
    <3>1. PICK k \in 1..n : f[k] = c  BY <2>4
    <3>2. strayed  BY <1>1, <2>2, <3>1 DEF ListsWaiting
    <3>3. Endless'  BY <1>0, <1>1, <2>2, <3>1, ParkLoops DEF ListsWaiting
    <3> QED  BY <1>1, <3>2, <3>3 DEF IdleInv
  <2> QED  BY <2>3, <2>4
<1>4. CASE strayed /\ Endless
  <2>1. PICK S \in SUBSET Consumers : idleHead \in S /\ \A d \in S : idleNext[d] \in S
    BY <1>4 DEF Endless
  <2>2. S \cup {c} \in SUBSET Consumers /\ idleHead' \in S \cup {c}  BY <1>1
  <2>3. \A d \in S \cup {c} : idleNext'[d] \in S \cup {c}  BY <1>0, <1>1, <2>1 DEF TypeOK
  <2>4. Endless'  BY <2>2, <2>3 DEF Endless
  <2> QED  BY <1>1, <1>4, <2>4 DEF IdleInv
<1> QED  BY <1>2, <1>3, <1>4 DEF IdleInv

\* The steps of a consumer.
LEMMA PopIdle ==
    ASSUME IInv, IdleInv, NEW c \in Consumers, ConsumerStep(c) \/ PopSpurious(c)
    PROVE  IdleInv'
<1>0. TypeOK  BY DEF IInv
<1>1. CASE PopPark(c) /\ StillEmpty(c)  BY <1>1, ParkIdle
<1>2. CASE PopExpire(c) \/ PopSpurious(c)
  <2>1. /\ UNCHANGED <<idleHead, idleNext, cut>> /\ strayed' = TRUE
        /\ pc' = [pc EXCEPT ![c] = "expired"] \/ pc' = [pc EXCEPT ![c] = "woken"]
    BY <1>2 DEF PopExpire, PopSpurious, idle
  <2>2. \A d \in Consumers : pc'[d] = "waiting" => pc[d] = "waiting"  BY <1>0, <2>1 DEF TypeOK
  <2> QED  BY <1>0, <2>1, <2>2, OthersKeepList DEF TypeOK
<1>3. CASE ~(PopPark(c) /\ StillEmpty(c)) /\ ~PopExpire(c) /\ ~PopSpurious(c)
  <2>1. /\ UNCHANGED <<idleHead, idleNext, strayed, cut>> /\ pc[c] # "waiting"
        /\ \E l \in ConsumerPc \ {"waiting"} : pc' = [pc EXCEPT ![c] = l]
    <3> USE DEF idle, ConsumerPc
    <3>1. CASE PopCall(c)  BY <3>1 DEF PopCall
    <3>2. CASE PopCheck(c)
      <4>1. CASE running[c]  BY <3>2, <4>1 DEF PopCheck
      <4>2. CASE ~running[c]  BY <3>2, <4>2 DEF PopCheck
      <4> QED  BY <4>1, <4>2
    <3>3. CASE pc[c] \in {"dequeue", "idle"} /\ TakeHead(c)  BY <3>3 DEF TakeHead
    <3>4. CASE pc[c] = "dequeue" /\ SeeEmpty(c)  BY <3>4 DEF SeeEmpty
    <3>5. CASE PopFree(c)  BY <3>5 DEF PopFree
    <3>6. CASE PopPark(c)  BY <1>3, <3>6 DEF PopPark
    <3>8. CASE PopResume(c)
      <4>1. CASE pc[c] = "woken"  BY <3>8, <4>1 DEF PopResume
      <4>2. CASE pc[c] # "woken"  BY <3>8, <4>2 DEF PopResume
      <4> QED  BY <4>1, <4>2
    <3> QED
      BY <1>3, <3>1, <3>2, <3>3, <3>4, <3>5, <3>6, <3>8 DEF ConsumerStep, PopDequeue, TryPop
  <2>2. PICK l \in ConsumerPc \ {"waiting"} : pc' = [pc EXCEPT ![c] = l]  BY <2>1
  <2>3. \A d \in Consumers : pc'[d] = "waiting" <=> pc[d] = "waiting"
    BY <1>0, <2>1, <2>2 DEF TypeOK
  <2> QED  BY <1>0, <2>1, <2>3, OthersKeepList DEF TypeOK
<1> QED  BY <1>1, <1>2, <1>3

\* stop() leaves its consumer on the list, and reset() may cut it.
LEMMA StopResetIdle ==
    ASSUME IInv, IdleInv, NEW c \in Consumers, Stop(c) \/ Reset(c) PROVE IdleInv'
<1>0. TypeOK /\ TypeOK'
  <2>1. IInv'  BY StopReset, NoNodeMovesIInv
  <2> QED  BY <2>1 DEF IInv
<1>1. CASE Stop(c)
  <2>1. /\ UNCHANGED <<idleHead, idleNext, cut>> /\ pc' = Notify(c, pc)
        /\ strayed' = (strayed \/ pc[c] = "waiting")
    BY <1>1 DEF Stop, idle
  <2>2. \A d \in Consumers : pc'[d] = pc[d] \/ (d = c /\ pc[c] = "waiting" /\ pc'[d] = "woken")
    BY <1>0, <2>1 DEF Notify, TypeOK
  <2> QED  BY <1>0, <2>1, <2>2, OthersKeepList DEF TypeOK
<1>2. CASE Reset(c)
  <2>1. /\ UNCHANGED <<idleHead, strayed, pc>> /\ cut' = (cut \/ idleNext[c] # NULL)
        /\ idleNext' = [idleNext EXCEPT ![c] = NULL]
    BY <1>2 DEF Reset
  <2>2. CASE cut'  BY <2>2 DEF IdleInv
  <2>3. CASE ~cut'
    <3>1. cut' = cut /\ idleNext' = idleNext
      <4>1. ~cut /\ idleNext[c] = NULL  BY <2>1, <2>3
      <4>2. idleNext' = idleNext  BY <1>0, <2>1, <4>1 DEF TypeOK
      <4> QED  BY <1>0, <2>3, <4>1, <4>2 DEF TypeOK
    <3> QED  BY <1>0, <2>1, <3>1, OthersKeepList DEF TypeOK
  <2> QED  BY <2>2, <2>3
<1> QED  BY <1>1, <1>2

\* IdleInv is inductive.
LEMMA NextIdle ==
    ASSUME IInv, IdleInv, [Next]_vars PROVE IdleInv'
<1>1. CASE UNCHANGED vars \/ Clear
  <2>1. UNCHANGED <<idleHead, idleNext, strayed, cut, pc>>
    BY <1>1 DEF vars, Clear, idle
  <2> QED  BY <2>1, OthersKeepList DEF IInv, TypeOK
<1> QED  BY <1>1, PushIdle, PopIdle, StopResetIdle DEF Next

\* A push that ends finds a consumer on the idle list while any waits.
LEMMA PublishFinds ==
    ASSUME IInv, IdleInv, ~cut, NEW p \in Producers, PushPublish(p),
           NEW c \in Consumers, pc[c] = "waiting"
    PROVE  \/ \E d \in Consumers : pc[d] = "waiting" /\ pc'[d] = "woken"
           \/ strayed /\ idleHead # NULL /\ pc[idleHead] # "waiting"
<1>0. TypeOK  BY DEF IInv
<1>1. CASE Lists
  <2>1. PICK n \in Nat : \E f \in [1..n -> Consumers] : ListsWaiting(n, f)  BY <1>1 DEF Lists
  <2>2. PICK f \in [1..n -> Consumers] : ListsWaiting(n, f)  BY <2>1
  <2>3. n # 0  BY <2>2 DEF ListsWaiting
  <2>4. /\ f[1] \in Consumers /\ idleHead = f[1]
        /\ pc[f[1]] = "waiting" => pc'[f[1]] = "woken"
        /\ pc[f[1]] = "waiting" \/ strayed
    BY <1>0, <2>2, <2>3, PublishTakesFirst
  <2> QED  BY <2>4
<1>2. CASE strayed /\ Endless
  <2>1. idleHead \in Consumers /\ idleHead # NULL  BY <1>2 DEF Endless
  <2>2. CASE pc[idleHead] # "waiting"  BY <1>2, <2>1, <2>2
  <2>3. CASE pc[idleHead] = "waiting"
    <3>1. pc' = Notify(idleHead, [pc EXCEPT ![p] = "idle"]) /\ p # idleHead
      BY <2>1 DEF PushPublish
    <3>2. pc'[idleHead] = "woken"  BY <1>0, <2>1, <2>3, <3>1 DEF Notify, TypeOK
    <3> QED  BY <2>1, <2>3, <3>2
  <2> QED  BY <2>2, <2>3
<1> QED  BY <1>1, <1>2 DEF IdleInv

\* "wake up an idle thread (if any)" (PionLockedQueue.hpp:243): while any consumer
\* waits, a push finds one on the idle list, which waits unless somebody has left
\* the wait by a timer, a stop() or a spurious wakeup, which leave a consumer on
\* the list and may make it a loop; reset() alone may lose the waiting ones.
THEOREM PushesWakeTheIdle == Spec => PushWakesIdle
<1>1. Init => IdleInv
  <2> SUFFICES ASSUME Init PROVE IdleInv  OBVIOUS
  <2>1. \A c \in Consumers : pc[c] # "waiting"  BY DEF Init
  <2>2. [i \in 1..0 |-> NULL] \in [1..0 -> Consumers]  OBVIOUS
  <2>3. ListsWaiting(0, [i \in 1..0 |-> NULL])  BY <2>1 DEF Init, ListsWaiting, IdleList
  <2> QED  BY <2>2, <2>3 DEF IdleInv, Lists
<1>2. IInv /\ IdleInv /\ [Next]_vars => IdleInv'  BY NextIdle
<1> DEFINE Wakes == tailLock # NULL /\ tailLock' = NULL /\ ~cut
                      /\ (\E c \in Consumers : pc[c] = "waiting")
                    => \/ \E c \in Consumers : pc[c] = "waiting" /\ pc'[c] = "woken"
                       \/ strayed /\ idleHead # NULL /\ pc[idleHead] # "waiting"
<1>3. IInv /\ IdleInv /\ [Next]_vars => [Wakes]_vars
  <2> SUFFICES ASSUME IInv, IdleInv, [Next]_vars, tailLock # NULL, tailLock' = NULL, ~cut,
                      NEW c \in Consumers, pc[c] = "waiting"
               PROVE  \/ \E d \in Consumers : pc[d] = "waiting" /\ pc'[d] = "woken"
                      \/ strayed /\ idleHead # NULL /\ pc[idleHead] # "waiting"
    OBVIOUS
  <2>1. PICK p \in Producers : PushPublish(p)
    <3>1. ASSUME NEW p \in Producers
          PROVE  ~PushLink(p) /\ \A v \in Values : ~PushBegin(p, v)
      BY DEF PushBegin, PushLink
    <3>2. ASSUME NEW d \in Consumers, ConsumerStep(d) \/ PopSpurious(d) \/ Stop(d) \/ Reset(d)
          PROVE  FALSE
      <4>1. ~PopCall(d) /\ ~PopCheck(d) /\ ~TakeHead(d)  BY DEF PopCall, PopCheck, TakeHead
      <4>2. ~SeeEmpty(d) /\ ~PopFree(d) /\ ~PopPark(d)  BY DEF SeeEmpty, PopFree, PopPark
      <4>3. ~PopExpire(d) /\ ~PopResume(d) /\ ~PopSpurious(d)
        BY DEF PopExpire, PopResume, PopSpurious
      <4>4. ~Stop(d) /\ ~Reset(d)  BY DEF Stop, Reset
      <4> QED
        BY <3>2, <4>1, <4>2, <4>3, <4>4 DEF ConsumerStep, PopDequeue, TryPop
    <3>3. ~Clear /\ Next  BY DEF Clear, vars
    <3>4. PICK p \in Producers : ProducerStep(p)  BY <3>2, <3>3 DEF Next
    <3> QED  BY <3>1, <3>4 DEF ProducerStep
  <2> QED  BY <2>1, PublishFinds
<1> QED  BY <1>1, <1>2, <1>3, InitIInv, NextIInv, PTL DEF Spec, PushWakesIdle
=============================================================================

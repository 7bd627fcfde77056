------------------------------ MODULE FifoQueue ------------------------------
(***************************************************************************)
(* What a work queue of pion promises its callers: a FIFO.  An item that   *)
(* was put is handed to exactly one consumer, in the order of the puts,    *)
(* unless the queue is cleared first.  No locks, nodes, or idle lists.     *)
(* PionLockedQueue (LockedQueue.tla) is shown to implement it.             *)
(***************************************************************************)
EXTENDS Sequences

CONSTANTS Values,     \* the items
          Consumers,  \* the threads that take items
          NULL        \* "no item"

VARIABLES queue,      \* the items put and not yet taken, oldest first
          taken       \* taken[c]: the last item handed to consumer c

fvars == <<queue, taken>>

Init == queue = <<>> /\ taken = [c \in Consumers |-> NULL]

Put(v) == queue' = Append(queue, v) /\ UNCHANGED taken

Take(c) ==
    /\ queue # <<>>
    /\ taken' = [taken EXCEPT ![c] = Head(queue)]
    /\ queue' = Tail(queue)

Clear == queue' = <<>> /\ UNCHANGED taken

Next == (\E v \in Values : Put(v)) \/ (\E c \in Consumers : Take(c)) \/ Clear

Spec == Init /\ [][Next]_fvars
=============================================================================

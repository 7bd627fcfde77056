---------------------------- MODULE MCLockedQueue ----------------------------
(* Small instances of LockedQueue for TLC. *)
EXTENDS LockedQueue, TLC

\* Threads, nodes and items that are not told apart by the specification.
Symm == Permutations(Producers) \cup Permutations(Consumers)
        \cup Permutations(Nodes) \cup Permutations(Values)
=============================================================================

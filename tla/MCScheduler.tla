----------------------------- MODULE MCScheduler -----------------------------
(* Small instances of Scheduler for TLC. *)
EXTENDS Scheduler, TLC

Symm == Permutations(Workers) \cup Permutations(Callers)
=============================================================================

---------------------------- MODULE MCReactorLock ----------------------------
(* Small instances of ReactorLock for TLC. *)
EXTENDS ReactorLock, TLC

Symm == Permutations(Readers) \cup Permutations(Writers)
=============================================================================

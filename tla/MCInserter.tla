----------------------------- MODULE MCInserter -----------------------------
(* Small instances of Inserter for TLC. *)
EXTENDS Inserter, TLC

CONSTANTS e1, e2, e3, e4, e5, k1, k2, k3, k4

\* The first two Events have the same key.
MCKeyOf == (e1 :> k1) @@ (e2 :> k1) @@ (e3 :> k2) @@ (e4 :> k3) @@ (e5 :> k4)

Symm == Permutations(Producers)
=============================================================================

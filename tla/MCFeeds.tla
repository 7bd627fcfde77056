-------------------------------- MODULE MCFeeds --------------------------------
(* Small instances of Feeds for TLC. *)
EXTENDS Feeds, TLC

Symm == Permutations(Readers) \cup Permutations(Writers) \cup Permutations(Workers)
=============================================================================

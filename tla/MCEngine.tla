------------------------------- MODULE MCEngine -------------------------------
(* Small instances of Engine for TLC. *)
EXTENDS Engine, TLC

Symm == Permutations(Reactors) \cup Permutations(Threads) \cup Permutations(Feeds)

\* A bound: a feed has to do with one Reactor only, and so it takes no second one, and no
\* save that failed, to show what may happen to it.
Fed ==
    \/ temps # {} \/ missed # {}
    \/ \E f \in Feeds : {promised[f], pointer[f]} # {NULL} \/ \E r \in Reactors : f \in outputs[r]
OneReactorForFeeds ==
    Fed => failures = 0 /\ Cardinality({r \in Reactors : object[r] # "none"}) <= 1

MCSpec == Init /\ [][Next /\ OneReactorForFeeds']_vars
=============================================================================

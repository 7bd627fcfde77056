---------------------------- MODULE MCUserInterface ----------------------------
EXTENDS UserInterface

CONSTANTS i1, i2, i3, w1, w2, w3, r1, r2, r3, r4, r5

MCConfigured == {i1, i2}
MCItems == {i1, i2, i3}
MCWorkspaces == {w1, w2, w3}
MCReactors == {r1, r2, r3, r4, r5}

\* Two workspaces, with one connection inside the first and one between them.
MCTopology ==
    [workspaces |-> <<w1, w2>>,
     home |-> r1 :> w1 @@ r2 :> w1 @@ r3 :> w2 @@ r4 :> NoWorkspace @@ r5 :> NoWorkspace,
     connections |-> <<[id |-> 1, from |-> r1, to |-> r2],
                       [id |-> 2, from |-> r2, to |-> r3]>>]
================================================================================

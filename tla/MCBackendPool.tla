--------------------------- MODULE MCBackendPool ----------------------------
(* Instances of BackendPool for TLC.                                       *)
EXTENDS BackendPool, TLC

\* The second server gets twice as many packets.
Weights == <<1, 2>>

\* The two addresses differ, or are the same.
Lists == {<<"a", "b">>, <<"a", "a">>}

Symmetry == Permutations(Callers)
=============================================================================

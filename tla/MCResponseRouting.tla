------------------------- MODULE MCResponseRouting --------------------------
(* Instances of ResponseRouting for TLC.                                   *)
EXTENDS ResponseRouting, TLC

Symmetry == Permutations(Workers) \cup Permutations(Clients) \cup Permutations(Servers)
=============================================================================

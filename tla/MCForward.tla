----------------------------- MODULE MCForward ------------------------------
(* Instances of Forward for TLC.                                           *)
EXTENDS Forward, TLC

OneShard == [k \in Keys |-> 1]

Symmetry ==
    Permutations(Keys) \cup Permutations(Procs) \cup Permutations(Sessions)
        \cup Permutations(Servers) \cup Permutations(Readers)
=============================================================================

---------------------------- MODULE MCAdmission -----------------------------
(* Instances of Admission for TLC.                                         *)
EXTENDS Admission, TLC

Packet(a, p, n, f) == [client |-> a, port |-> p, size |-> n, fragment |-> f]
Policy(c, r, s, u, t) == [chain |-> c, maxRate |-> r, maxPorts |-> s, traffic |-> t, until |-> u]
Always(t) == [k \in 0..MaxTime |-> t]

\* One or two limiters at a time, with packets only they tell apart.  The client
\* limiter sees the other client late, when its packets can sweep the watched one.
SomePolicies ==
    {Policy({"global", "frontend"}, 0, 0, 4,
            Always({Packet("a1", "q1", n, FALSE) : n \in Sizes} \cup {Packet("a1", "q1", 1, TRUE)})),
     Policy({"client"}, 0, 0, 6,
            [k \in 0..MaxTime |-> {Packet(a, "q1", 1, FALSE) : a \in IF k < 5 THEN {"a1"} ELSE Clients}]),
     Policy({"abuse"}, 1, 0, 6, Always({Packet("a1", "q1", 1, FALSE), Packet("a2", "q1", 1, FALSE)})),
     Policy({"abuse"}, 0, 1, 8, Always({Packet("a1", "q1", 1, FALSE), Packet("a1", "q2", 1, FALSE),
                                        Packet("a2", "q1", 1, FALSE)}))}

Symmetry == Permutations(Callers)
=============================================================================

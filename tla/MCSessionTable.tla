--------------------------- MODULE MCSessionTable ---------------------------
(* Instances of SessionTable for TLC.                                      *)
EXTENDS SessionTable

\* Both keys in the second of two shards: a sweep has to go on to that shard,
\* and collects two callbacks there.
SecondShard == [k \in Keys |-> 2]
=============================================================================

----------------------------- MODULE WallClock ------------------------------
(***************************************************************************)
(* The clock of the limiters.  A time.Time is a number of ticks; Unix()    *)
(* keeps the whole seconds, which is what ClientLimiter and Protector      *)
(* store and compare.                                                      *)
(***************************************************************************)
EXTENDS Integers

CONSTANT Second  \* clock ticks in a second

ASSUME SecondAssumption == Second \in Nat \ {0}

\* t.Unix(), and the whole seconds of a Duration t.
Unix(t) == t \div Second
=============================================================================

------------------------- MODULE BackendPoolProofs --------------------------
(***************************************************************************)
(* What TLAPS proves of BackendPool, for any number of servers and callers,*)
(* any weights and addresses, and any sequence of health reports.          *)
(***************************************************************************)
EXTENDS BackendPool, FiniteSetTheorems, WellFoundedInduction, TLAPS

\* The callers that may still draw a ticket of rrIndex.
Undrawn == {c \in Callers : call[c].pc \in {"weigh", "index"}}

\* Tickets are drawn within their bound, and a hash is one.
Tickets ==
    /\ algorithm = "round_robin" => rrIndex + Cardinality(Undrawn) <= MaxTickets
    /\ \A c \in Callers : call[c].pc \in {"weigh", "index"} => call[c].ticket < HashCount

\* Before the walk the index is still zero.
Unindexed == \A c \in Callers : call[c].pc \in {"idle", "weigh", "index"} => call[c].idx = 0

PoolInv == PoolTypeOK /\ Tickets /\ Unindexed

\* An int that is wide enough holds a ticket or a hash as it is.
LEMMA IndexIsRemainder ==
  ASSUME NEW u \in Nat, u < IntLimit, NEW t \in Nat \ {0}
  PROVE  GoMod(ToInt(u), t) = u % t
<1>1. IntLimit \in Nat \ {0}
  BY WidthAssumption
<1>2. u % (2 * IntLimit) = u
  BY <1>1
<1>3. ToInt(u) = u
  BY <1>1, <1>2 DEF ToInt, Truncated
<1> QED
  BY <1>3 DEF GoMod

LEMMA IndexInRange ==
  ASSUME NEW u \in Nat, u < IntLimit, NEW t \in Nat \ {0}
  PROVE  GoMod(ToInt(u), t) \in 0..(t - 1)
<1>1. u % t \in 0..(t - 1)
  OBVIOUS
<1> QED
  BY <1>1, IndexIsRemainder

LEMMA IdleLocals == Idle \in Locals
  BY WeightAssumption, PoolBoundsAssumption DEF Idle, Locals, Servers, Nil

LEMMA PoolInvInit == Init => PoolInv
<1> SUFFICES ASSUME Init PROVE PoolInv
  OBVIOUS
<1>1. PoolTypeOK
  BY IdleLocals, PoolBoundsAssumption DEF Init, PoolTypeOK, Idle
<1>2. Undrawn = {}
  BY DEF Init, Undrawn, Idle
<1>3. Cardinality(Undrawn) = 0
  BY <1>2, FS_EmptySet
<1> QED
  BY <1>1, <1>3, PoolBoundsAssumption DEF Init, PoolInv, Tickets, Unindexed, Idle

\* One caller moves, and the others stand still.
LEMMA CallerMoves ==
  ASSUME PoolInv, NEW c \in Callers, NEW r \in Locals, Becomes(c, r),
         UNCHANGED <<algorithm, address, healthy, flips>>,
         connCount' \in [Servers -> 0..MaxConns],
         rrIndex' \in 0..MaxTickets,
         algorithm = "round_robin" => rrIndex' + Cardinality(Undrawn') <= MaxTickets,
         r.pc \in {"index", "walk"} => r.total > 0 /\ r.idx \in 0..(r.total - 1),
         r.pc \in {"weigh", "index"} => r.ticket < HashCount,
         r.pc \in {"idle", "weigh", "index"} => r.idx = 0
  PROVE  PoolInv'
<1>1. /\ call' \in [Callers -> Locals]
      /\ call'[c] = r
      /\ \A d \in Callers \ {c} : call'[d] = call[d]
  BY DEF PoolInv, PoolTypeOK, Becomes
<1>2. \A d \in Callers : call'[d].pc \in {"index", "walk"} =>
         call'[d].total > 0 /\ call'[d].idx \in 0..(call'[d].total - 1)
  BY <1>1 DEF PoolInv, PoolTypeOK
<1>3. Tickets' /\ Unindexed'
  BY <1>1 DEF PoolInv, Tickets, Unindexed
<1>4. PoolTypeOK'
  BY <1>1, <1>2 DEF PoolInv, PoolTypeOK
<1> QED
  BY <1>3, <1>4 DEF PoolInv

\* ... most often without drawing a ticket.
LEMMA CallerMovesOn ==
  ASSUME PoolInv, NEW c \in Callers, NEW r \in Locals, Becomes(c, r),
         UNCHANGED <<algorithm, address, healthy, flips, rrIndex>>,
         connCount' \in [Servers -> 0..MaxConns],
         r.pc \in {"index", "walk"} => r.total > 0 /\ r.idx \in 0..(r.total - 1),
         r.pc \in {"weigh", "index"} => call[c].pc = "weigh" /\ r.ticket = call[c].ticket,
         r.pc \in {"idle", "weigh", "index"} => r.idx = 0
  PROVE  PoolInv'
<1>1. Undrawn' \subseteq Undrawn
  BY DEF PoolInv, PoolTypeOK, Becomes, Undrawn
<1>2. IsFiniteSet(Undrawn) /\ Cardinality(Undrawn') <= Cardinality(Undrawn)
      /\ Cardinality(Undrawn') \in Nat /\ Cardinality(Undrawn) \in Nat
  BY <1>1, CallersAssumption, FS_Subset, FS_CardinalityType DEF Undrawn
<1>3. rrIndex' \in 0..MaxTickets
  BY DEF PoolInv, PoolTypeOK
<1>4. algorithm = "round_robin" => rrIndex' + Cardinality(Undrawn') <= MaxTickets
  BY <1>2, <1>3, PoolBoundsAssumption DEF PoolInv, Tickets
<1>5. r.pc \in {"weigh", "index"} => r.ticket < HashCount
  BY DEF PoolInv, Tickets
<1> QED
  BY <1>3, <1>4, <1>5, CallerMoves

LEMMA CallerReturns ==
  ASSUME PoolInv, NEW c \in Callers, NEW s \in 0..N, NEW err \in BOOLEAN, Returns(c, s, err),
         UNCHANGED <<algorithm, address, healthy, flips, rrIndex, connCount>>
  PROVE  PoolInv'
<1> DEFINE r == [call[c] EXCEPT !.pc = "done", !.srv = s, !.err = err]
<1>1. r \in Locals /\ r.pc = "done" /\ connCount' \in [Servers -> 0..MaxConns]
  BY DEF PoolInv, PoolTypeOK, Locals
<1>2. Becomes(c, r)
  BY DEF Returns
<1> HIDE DEF r
<1> QED
  BY <1>1, <1>2, CallerMovesOn

LEMMA CallerLoops ==
  ASSUME PoolInv, NEW c \in Callers, NEW r \in Locals, 
         NEW after \in {"index", "least", "fallback", "done"}, Loops(c, r, after),
         UNCHANGED <<algorithm, address, healthy, flips, rrIndex, connCount>>,
         r.pc = call[c].pc, r.pc \in {"weigh", "walk", "fallback"}, r.ticket = call[c].ticket,
         r.pc = "walk" => r.total > 0 /\ r.idx \in 0..(r.total - 1),
         r.pc = "weigh" => r.idx = 0,
         after = "index" => r.pc = "weigh" /\ (r.i = N => r.total > 0)
  PROVE  PoolInv'
<1> DEFINE q == IF r.i < N THEN [r EXCEPT !.i = @ + 1] ELSE [r EXCEPT !.i = 1, !.pc = after]
<1>w. N \in Nat \ {0} /\ Servers = 1..N
  BY WeightAssumption DEF Servers
<1>1. Becomes(c, q)
  BY DEF Loops
<1>2. CASE r.i < N
  <2>1. /\ q \in Locals /\ q.pc = r.pc /\ q.total = r.total /\ q.idx = r.idx
        /\ q.ticket = r.ticket
    BY <1>w, <1>2 DEF Locals
  <2> HIDE DEF q
  <2> QED
    BY <1>1, <2>1, CallerMovesOn DEF PoolInv, PoolTypeOK
<1>3. CASE ~(r.i < N)
  <2>0. r.i = N
    BY <1>w, <1>3 DEF Locals
  <2>a. q = [r EXCEPT !.i = 1, !.pc = after] /\ 1 \in Servers
    BY <1>w, <1>3
  <2>1. /\ q \in Locals /\ q.pc = after /\ q.total = r.total /\ q.idx = r.idx
        /\ q.ticket = r.ticket
    BY <2>a DEF Locals
  <2>2. r.total \in Nat
    BY DEF Locals
  <2> HIDE DEF q
  <2> QED
    BY <1>1, <2>0, <2>1, <2>2, CallerMovesOn DEF PoolInv, PoolTypeOK
<1> QED
  BY <1>2, <1>3

LEMMA PoolInvStep == PoolInv /\ [Next]_vars => PoolInv'
<1> SUFFICES ASSUME PoolInv, [Next]_vars PROVE PoolInv'
  OBVIOUS
<1>w. N \in Nat \ {0} /\ Weight \in [Servers -> Nat \ {0}] /\ Servers = 1..N
  BY WeightAssumption DEF Servers
<1>ty. PoolTypeOK
  BY DEF PoolInv
<1>c. connCount \in [Servers -> 0..MaxConns]
  BY DEF PoolInv, PoolTypeOK
<1>l. \A c \in Callers : call[c] \in Locals
  BY DEF PoolInv, PoolTypeOK
<1>1. ASSUME NEW c \in Callers, NEW h \in 0..(HashCount - 1), Call(c, h) PROVE PoolInv'
  <2> DEFINE r == [call[c] EXCEPT !.pc = "weigh", !.ticket = h]
  <2>0. h \in Nat /\ h < HashCount /\ call[c].pc = "idle" /\ call[c].idx = 0
    BY <1>1, WidthAssumption DEF Call, At, PoolInv, Unindexed
  <2>1. r \in Locals /\ r.pc = "weigh" /\ r.idx = 0 /\ r.ticket < HashCount
    BY <1>l, <2>0 DEF Locals
  <2>2. Becomes(c, r) /\ UNCHANGED <<algorithm, address, healthy, flips, connCount, rrIndex>>
    BY <1>1 DEF Call, At
  <2>3. Undrawn' = Undrawn \cup {c} /\ c \notin Undrawn
    BY <1>1, <1>ty, <2>1, <2>2 DEF Call, At, Becomes, Undrawn, PoolTypeOK
  <2>4. IsFiniteSet(Undrawn)
    BY CallersAssumption, FS_Subset DEF Undrawn
  <2>5. Cardinality(Undrawn') = Cardinality(Undrawn) + 1 /\ Cardinality(Undrawn) \in Nat
    BY <2>3, <2>4, FS_AddElement, FS_CardinalityType
  <2>6. {d \in Picking : call[d].pc \in {"weigh", "index"}} = Undrawn
    BY DEF Picking, Undrawn
  <2>7. rrIndex \in Nat /\ rrIndex \in 0..MaxTickets
    BY <1>ty, PoolBoundsAssumption DEF PoolTypeOK
  <2>8. algorithm = "round_robin" => rrIndex + Cardinality(Undrawn) < MaxTickets
    BY <1>1, <2>6 DEF Call
  <2>9. algorithm = "round_robin" => rrIndex' + Cardinality(Undrawn') <= MaxTickets
    BY <2>2, <2>5, <2>7, <2>8, PoolBoundsAssumption
  <2> HIDE DEF r
  <2> QED
    BY <1>c, <2>1, <2>2, <2>7, <2>9, CallerMoves
<1>2. ASSUME NEW c \in Callers, Weigh(c) PROVE PoolInv'
  <2> DEFINE s == call[c].i
             t == call[c].total + (IF Eligible(s) THEN Weight[s] ELSE 0)
             r == [call[c] EXCEPT !.total = t]
             after == IF algorithm = "least_conn" THEN "least" ELSE "index"
  <2>1. s \in Servers /\ call[c].total \in Nat /\ t \in Nat
    BY <1>l, <1>w DEF Locals
  <2>2. call[c].pc = "weigh" /\ call[c].idx = 0
    BY <1>2 DEF Weigh, At, PoolInv, Unindexed
  <2>3. /\ r \in Locals /\ r.pc = "weigh" /\ r.idx = 0 /\ r.ticket = call[c].ticket
        /\ r.i = s /\ r.total = t
    BY <1>l, <2>1, <2>2 DEF Locals
  <2>4. UNCHANGED <<algorithm, address, healthy, flips, rrIndex, connCount>>
    BY <1>2 DEF Weigh, At
  <2>5. \/ (s < N \/ t > 0) /\ Loops(c, r, after)
        \/ Returns(c, Nil, TRUE)
    BY <1>2 DEF Weigh
  <2>6. CASE (s < N \/ t > 0) /\ Loops(c, r, after)
    <3>1. r.i = N => r.total > 0
      BY <1>w, <2>3, <2>6
    <3>2. after \in {"index", "least"}
      OBVIOUS
    <3> HIDE DEF s, t, r, after
    <3> QED
      BY <2>2, <2>3, <2>4, <2>6, <3>1, <3>2, CallerLoops
  <2>7. CASE Returns(c, Nil, TRUE)
    <3>1. Nil \in 0..N /\ TRUE \in BOOLEAN
      BY <1>w DEF Nil
    <3> QED
      BY <2>4, <2>7, <3>1, CallerReturns
  <2> QED
    BY <2>5, <2>6, <2>7
<1>3. ASSUME NEW c \in Callers, Index(c) PROVE PoolInv'
  <2>1. /\ call[c].pc = "index" /\ call[c].total \in Nat \ {0}
        /\ call[c].ticket \in Nat /\ call[c].ticket < HashCount
    BY <1>3, <1>l DEF Index, At, PoolInv, PoolTypeOK, Tickets, Locals
  <2>2. UNCHANGED <<algorithm, address, healthy, flips, connCount>>
    BY <1>3 DEF Index, At
  <2>3. rrIndex \in 0..MaxTickets /\ MaxTickets \in Nat
    BY <1>ty, PoolBoundsAssumption DEF PoolTypeOK
  \* A caller that has drawn its ticket is no longer among the others.
  <2>4. c \in Undrawn /\ IsFiniteSet(Undrawn)
    BY <2>1, CallersAssumption, FS_Subset DEF Undrawn
  <2>5. Cardinality(Undrawn \ {c}) = Cardinality(Undrawn) - 1 /\ Cardinality(Undrawn) \in Nat \ {0}
    BY <2>4, FS_RemoveElement, FS_CardinalityType, FS_EmptySet
  <2>6. ASSUME NEW t \in Nat, NEW x \in 0..(call[c].total - 1), Walks(c, t, x),
               \/ algorithm = "round_robin" /\ rrIndex' = rrIndex + 1
               \/ algorithm # "round_robin" /\ rrIndex' = rrIndex
        PROVE  PoolInv'
    <3> DEFINE r == [call[c] EXCEPT !.pc = "walk", !.ticket = t, !.idx = x]
    <3>0. x \in Int
      BY <2>1
    <3>1. r \in Locals /\ r.pc = "walk" /\ r.total = call[c].total /\ r.idx = x
      BY <1>l, <3>0 DEF Locals
    <3>2. Becomes(c, r)
      BY <2>6 DEF Walks
    <3>3. Undrawn' = Undrawn \ {c}
      BY <1>ty, <3>1, <3>2 DEF Undrawn, Becomes, PoolTypeOK
    <3>4. algorithm = "round_robin" => rrIndex + Cardinality(Undrawn) <= MaxTickets
      BY DEF PoolInv, Tickets
    <3>5. algorithm = "round_robin" => rrIndex' + Cardinality(Undrawn') <= MaxTickets
      BY <2>3, <2>5, <2>6, <3>3, <3>4
    <3>6. rrIndex' \in 0..MaxTickets
      BY <2>3, <2>5, <2>6, <3>4
    <3> HIDE DEF r
    <3> QED
      BY <1>c, <2>1, <2>2, <3>1, <3>2, <3>5, <3>6, CallerMoves
  <2>7. CASE algorithm = "round_robin"
    <3>1. rrIndex' = rrIndex + 1 /\ Walks(c, rrIndex, GoMod(ToInt(rrIndex), call[c].total))
      BY <1>3, <2>7 DEF Index, Add
    <3>2. rrIndex \in Nat /\ rrIndex < IntLimit
      <4>1. rrIndex + Cardinality(Undrawn) <= MaxTickets
        BY <2>7 DEF PoolInv, Tickets
      <4> QED
        BY <2>3, <2>5, <4>1, WideIntAssumption, WidthAssumption
    <3> QED
      BY <2>1, <2>6, <2>7, <3>1, <3>2, IndexInRange
  <2>8. CASE algorithm = "random"
    <3>1. \E x \in 0..(call[c].total - 1) : x \in Nat /\ Walks(c, x, x)
      BY <1>3, <2>1, <2>8 DEF Index
    <3>2. rrIndex' = rrIndex
      BY <1>3, <2>8 DEF Index
    <3> QED
      BY <2>6, <2>8, <3>1, <3>2
  <2>9. CASE algorithm = "hash"
    <3>1. rrIndex' = rrIndex /\ Walks(c, call[c].ticket, GoMod(ToInt(call[c].ticket), call[c].total))
      BY <1>3, <2>9 DEF Index
    <3>2. call[c].ticket < IntLimit
      BY <2>1, WideIntAssumption, WidthAssumption
    <3> QED
      BY <2>1, <2>6, <2>9, <3>1, <3>2, IndexInRange
  <2> QED
    BY <1>3, <2>7, <2>8, <2>9 DEF Index
<1>4. ASSUME NEW c \in Callers, Walk(c) PROVE PoolInv'
  <2> DEFINE s == call[c].i
             r == [call[c] EXCEPT !.idx = @ - Weight[s]]
  <2>1. /\ call[c].pc = "walk" /\ s \in Servers /\ s \in 0..N /\ call[c].total \in Nat \ {0}
        /\ call[c].idx \in 0..(call[c].total - 1)
    BY <1>4, <1>l, <1>w DEF Walk, At, PoolInv, PoolTypeOK, Locals
  <2>2. UNCHANGED <<algorithm, address, healthy, flips, rrIndex, connCount>>
    BY <1>4 DEF Walk, At
  <2>3. CASE Returns(c, s, FALSE)
    BY <2>1, <2>2, <2>3, CallerReturns
  <2>4. CASE ~Hits(s, call[c].idx) /\ Loops(c, r, "fallback")
    <3>1. call[c].idx - Weight[s] \in 0..(call[c].total - 1)
      BY <1>w, <2>1, <2>4 DEF Hits
    <3>2. /\ r \in Locals /\ r.pc = "walk" /\ r.total = call[c].total
          /\ r.ticket = call[c].ticket /\ r.idx = call[c].idx - Weight[s]
      BY <1>l, <2>1, <3>1 DEF Locals
    <3> HIDE DEF r, s
    <3> QED
      BY <2>1, <2>2, <2>4, <3>1, <3>2, CallerLoops
  <2>5. CASE Loops(c, call[c], "fallback")
    BY <1>l, <2>1, <2>2, <2>5, CallerLoops
  <2> QED
    BY <1>4, <2>3, <2>4, <2>5 DEF Walk
<1>5. ASSUME NEW c \in Callers, Fallback(c) PROVE PoolInv'
  <2>1. call[c].pc = "fallback" /\ call[c].i \in 0..N /\ Nil \in 0..N
    BY <1>5, <1>l, <1>w DEF Fallback, At, Locals, Nil
  <2>2. UNCHANGED <<algorithm, address, healthy, flips, rrIndex, connCount>>
    BY <1>5 DEF Fallback, At
  <2>3. CASE Returns(c, call[c].i, FALSE) \/ Returns(c, Nil, FALSE)
    BY <2>1, <2>2, <2>3, CallerReturns
  <2>4. CASE Loops(c, call[c], "done")
    BY <1>l, <2>1, <2>2, <2>4, CallerLoops
  <2> QED
    BY <1>5, <2>3, <2>4 DEF Fallback
\* leastConn keeps one of the servers, or none yet.
<1>k. ASSUME NEW c \in Callers, NEW b \in 0..N, Keeps(c, b),
             UNCHANGED <<algorithm, address, healthy, flips, rrIndex, connCount>>
      PROVE  PoolInv'
  <2>1. CASE Returns(c, b, FALSE)
    BY <1>k, <2>1, CallerReturns
  <2> DEFINE r == [call[c] EXCEPT !.pc = "least", !.i = call[c].i + 1, !.best = b]
  <2>2. CASE call[c].i < N /\ Becomes(c, r)
    <3>0. call[c].i + 1 \in Servers
      BY <1>l, <1>w, <2>2 DEF Locals
    <3>1. r \in Locals /\ r.pc = "least"
      BY <1>l, <3>0 DEF Locals
    <3> HIDE DEF r
    <3> QED
      BY <1>c, <1>k, <2>2, <3>1, CallerMovesOn
  <2> QED
    BY <1>k, <2>1, <2>2 DEF Keeps
<1>6. ASSUME NEW c \in Callers, Least(c) PROVE PoolInv'
  <2>1. call[c].i \in 0..N /\ call[c].best \in 0..N
    BY <1>l, <1>w DEF Locals
  <2>2. UNCHANGED <<algorithm, address, healthy, flips, rrIndex, connCount>>
    BY <1>6 DEF Least, At
  <2> DEFINE r == [call[c] EXCEPT !.pc = "conns"]
  <2>3. CASE Becomes(c, r)
    <3>1. r \in Locals /\ r.pc = "conns"
      BY <1>l DEF Locals
    <3> HIDE DEF r
    <3> QED
      BY <1>c, <2>2, <2>3, <3>1, CallerMovesOn
  <2> QED
    BY <1>6, <1>k, <2>1, <2>2, <2>3 DEF Least
<1>7. ASSUME NEW c \in Callers, LoadConns(c) PROVE PoolInv'
  <2> DEFINE r == [call[c] EXCEPT !.pc = "compare", !.conns = connCount[call[c].i]]
  <2>1. r \in Locals /\ r.pc = "compare"
    BY <1>c, <1>l DEF Locals
  <2>2. Becomes(c, r) /\ UNCHANGED <<algorithm, address, healthy, flips, rrIndex, connCount>>
    BY <1>7 DEF LoadConns, At
  <2> HIDE DEF r
  <2> QED
    BY <1>c, <2>1, <2>2, CallerMovesOn
<1>8. ASSUME NEW c \in Callers, Compare(c) PROVE PoolInv'
  <2>1. call[c].i \in 0..N /\ call[c].best \in 0..N
    BY <1>l, <1>w DEF Locals
  <2>2. UNCHANGED <<algorithm, address, healthy, flips, rrIndex, connCount>>
    BY <1>8 DEF Compare, At
  <2> QED
    BY <1>8, <1>k, <2>1, <2>2 DEF Compare
<1>9. ASSUME NEW c \in Callers, Finish(c) PROVE PoolInv'
  <2>1. Becomes(c, Idle) /\ UNCHANGED <<algorithm, address, healthy, flips, rrIndex>>
    BY <1>9 DEF Finish, At
  <2>2. connCount' \in [Servers -> 0..MaxConns]
    <3>1. CASE UNCHANGED connCount
      BY <1>c, <3>1
    <3>2. CASE \E s \in {call[c].srv} \ {Nil} :
                  connCount[s] < MaxConns /\ connCount' = [connCount EXCEPT ![s] = @ + 1]
      <4>1. PICK s \in {call[c].srv} \ {Nil} :
                  connCount[s] < MaxConns /\ connCount' = [connCount EXCEPT ![s] = @ + 1]
        BY <3>2
      <4>2. s \in Servers
        BY <1>l, <1>w DEF Locals, Nil
      <4> QED
        BY <1>c, <4>1, <4>2, PoolBoundsAssumption
    <3> QED
      BY <1>9, <3>1, <3>2 DEF Finish
  <2>3. Idle.pc = "idle" /\ Idle.idx = 0
    BY DEF Idle
  <2> QED
    BY <2>1, <2>2, <2>3, IdleLocals, CallerMovesOn
<1>10. ASSUME NEW a \in Addresses, NEW h \in BOOLEAN, SetHealthy(a, h) PROVE PoolInv'
  <2>1. healthy' \in [Servers -> BOOLEAN]
    BY <1>10, <1>ty DEF SetHealthy, PoolTypeOK
  <2>2. flips' \in 0..MaxFlips /\ UNCHANGED <<algorithm, address, connCount, rrIndex, call>>
    BY <1>10, <1>ty, PoolBoundsAssumption DEF SetHealthy, PoolTypeOK
  <2> QED
    BY <2>1, <2>2 DEF PoolInv, PoolTypeOK, Tickets, Unindexed, Undrawn
<1>11. ASSUME NEW s \in Servers, DecrConns(s) PROVE PoolInv'
  <2>1. connCount' \in [Servers -> 0..MaxConns]
    BY <1>11, <1>c, PoolBoundsAssumption DEF DecrConns
  <2>2. UNCHANGED <<algorithm, address, healthy, rrIndex, call, flips>>
    BY <1>11 DEF DecrConns
  <2> QED
    BY <2>1, <2>2 DEF PoolInv, PoolTypeOK, Tickets, Unindexed, Undrawn
<1>12. CASE UNCHANGED vars
  BY <1>12 DEF vars, PoolInv, PoolTypeOK, Tickets, Unindexed, Undrawn
<1> QED
  BY <1>1, <1>2, <1>3, <1>4, <1>5, <1>6, <1>7, <1>8, <1>9, <1>10, <1>11, <1>12 DEF Next, PickStep

\* Types hold, and with them what pickHealthyByWeightedIndex (backend.go:176) asks of
\* its callers: the index lies within the total weight, also while health changes.
THEOREM PoolTypeCorrect == Spec => []PoolTypeOK
<1>1. PoolInv => PoolTypeOK
  BY DEF PoolInv
<1> QED
  BY <1>1, PoolInvInit, PoolInvStep, PTL DEF Spec

-----------------------------------------------------------------------------
(* What a call may answer                                                  *)

LEMMA LeastNumber ==
  ASSUME NEW T \in SUBSET Nat, T # {}
  PROVE  \E n \in T : \A m \in T : n <= m
<1> DEFINE R == OpToRel(<, Nat)
<1>1. IsWellFoundedOn(R, Nat)
  BY NatLessThanWellFounded
<1>2. \A x, y \in Nat : x < y => <<x, y>> \in R
  BY DEF OpToRel
<1> HIDE DEF R
<1>3. PICK n \in T : \A y \in T : ~(<<y, n>> \in R)
  BY <1>1, WFMin
<1>4. \A m \in T : ~(m < n)
  BY <1>2, <1>3
<1> QED
  BY <1>4

\* serverMap has the last server of every address.
LEMMA LastOfAddress ==
  ASSUME NEW a, NEW t \in Servers, address[t] = a
  PROVE  /\ ServerByAddr(a) \in Servers
         /\ address[ServerByAddr(a)] = a
         /\ \A u \in Servers : address[u] = a => u <= ServerByAddr(a)
<1>w. N \in Nat \ {0} /\ Servers = 1..N
  BY WeightAssumption DEF Servers
<1> DEFINE T == {n \in Nat : n <= N /\ N - n \in Servers /\ address[N - n] = a}
<1>1. N - t \in T
  <2>1. N - (N - t) = t /\ N - t \in Nat /\ N - t <= N
    BY <1>w
  <2> QED
    BY <2>1
<1>2. PICK n \in T : \A m \in T : n <= m
  BY <1>1, LeastNumber
<1>3. N - n \in Servers /\ address[N - n] = a
  BY <1>2
<1>4. ASSUME NEW u \in Servers, address[u] = a PROVE u <= N - n
  <2>1. N - (N - u) = u /\ N - u \in Nat /\ N - u <= N
    BY <1>w
  <2>2. n <= N - u
    BY <1>2, <1>4, <2>1
  <2> QED
    BY <1>w, <2>2
<1>5. \E s \in Servers : address[s] = a /\ \A u \in Servers : address[u] = a => u <= s
  BY <1>3, <1>4
<1> QED
  BY <1>5 DEF ServerByAddr

\* A bad report of s was not in force all the time, or reached another server only.
Heeded(c, s) ==
    \/ address[s] \in heard[c]
    \/ \E t \in Servers : t > s /\ address[t] = address[s]

\* An answer Pick may give.
Sound(c, s) ==
    IF s = Nil THEN steady[c] = {} ELSE s \in seen[c] /\ Heeded(c, s)

\* What Pick knows with its locals r: in the loops that may end without a server,
\* none that it has passed was healthy all the time; the best server so far and the
\* one it is compared with would do as an answer, and so does the answer.
Fits(c, r) ==
    /\ r.pc \in {"idle", "weigh"} => r.best = Nil
    /\ r.pc = "idle" => r.i = 1
    /\ \/ r.pc = "weigh" /\ r.total = 0
       \/ r.pc = "fallback"
       \/ r.pc = "least" /\ r.best = Nil
       => \A s \in steady[c] : s >= r.i
    /\ r.pc \in {"least", "conns", "compare"} /\ r.best # Nil => Sound(c, r.best)
    /\ r.pc \in {"conns", "compare"} => r.best # Nil /\ Sound(c, r.i)
    /\ r.pc = "done" => Sound(c, r.srv)

\* A healthy server has had no bad report since the last good one, unless a later
\* server has its address.
ReportsReach ==
    /\ reported \in SUBSET Addresses
    /\ \A s \in Servers :
          healthy[s] => \/ address[s] \in reported
                        \/ \E t \in Servers : t > s /\ address[t] = address[s]

\* The history variables are up to date during a call.
HistoryOK ==
    /\ steady \in [Callers -> SUBSET Servers]
    /\ seen \in [Callers -> SUBSET Servers]
    /\ heard \in [Callers -> SUBSET Addresses]
    /\ \A c \in Picking : steady[c] \subseteq Up /\ Up \subseteq seen[c] /\ reported \subseteq heard[c]

CallsFit == \A c \in Callers : Fits(c, call[c])

PickInv == PoolInv /\ ReportsReach /\ HistoryOK /\ CallsFit

LEMMA PickInvInit == Init => PickInv
<1> SUFFICES ASSUME Init PROVE PickInv
  OBVIOUS
<1>1. PoolInv
  BY PoolInvInit
<1>2. address \in Seq(STRING) /\ Len(address) = N
  BY AddressAssumption DEF Init
<1>3. DOMAIN address = Servers
  BY <1>2 DEF Servers
<1>4. ReportsReach
  BY <1>3 DEF Init, ReportsReach, Addresses, ToSet
<1>5. HistoryOK
  BY DEF Init, HistoryOK, Picking, Idle
<1>6. CallsFit
  BY DEF Init, CallsFit, Fits, Idle
<1> QED
  BY <1>1, <1>4, <1>5, <1>6 DEF PickInv

\* A server found healthy is an answer.
LEMMA HealthyIsSound ==
  ASSUME PickInv, NEW c \in Picking, NEW s \in Servers, healthy[s]
  PROVE  s # Nil /\ Sound(c, s)
<1>1. s # Nil
  BY WeightAssumption DEF Servers, Nil
<1>2. s \in seen[c]
  BY DEF PickInv, HistoryOK, Up
<1>3. Heeded(c, s)
  BY DEF PickInv, HistoryOK, ReportsReach, Heeded
<1> QED
  BY <1>1, <1>2, <1>3 DEF Sound

\* A server found unhealthy was not healthy all the time.
LEMMA UnhealthyIsUnsteady ==
  ASSUME PickInv, NEW c \in Picking, NEW s, ~healthy[s]
  PROVE  s \notin steady[c]
  BY DEF PickInv, HistoryOK, Up

\* A step of Pick between its beginning and its end: it answers, or goes on.
Advances(c) ==
    \E r : /\ Becomes(c, r)
           /\ Fits(c, r)
           /\ \/ r.pc = "done"
              \/ /\ r.pc \in {"weigh", "index", "walk", "fallback", "least", "conns", "compare"}
                 /\ r.srv = call[c].srv

LEMMA ReturnAdvances ==
  ASSUME PickInv, NEW c \in Callers, NEW s, NEW err, Returns(c, s, err), Sound(c, s)
  PROVE  Advances(c)
<1> DEFINE r == [call[c] EXCEPT !.pc = "done", !.srv = s, !.err = err]
<1>1. r.pc = "done" /\ r.srv = s
  BY DEF PickInv, PoolInv, PoolTypeOK, Locals
<1>2. Becomes(c, r)
  BY DEF Returns
<1> HIDE DEF r
<1> QED
  BY <1>1, <1>2 DEF Advances, Fits

\* The loop goes on to its next server, or to a label where nothing is known yet.
LEMMA LoopAdvances ==
  ASSUME PickInv, NEW c \in Callers, NEW r \in Locals, NEW after, Loops(c, r, after),
         r.srv = call[c].srv,
         r.pc \in {"weigh", "walk", "fallback"},
         r.pc = "weigh" => r.best = Nil,
         (r.pc = "weigh" /\ r.total = 0) \/ r.pc = "fallback" => \A s \in steady[c] : s > r.i,
         \/ after \in {"index", "fallback"}
         \/ after = "least" /\ r.best = Nil
         \/ after = "done" /\ r.i < N
  PROVE  Advances(c)
<1>w. N \in Nat \ {0} /\ Servers = 1..N /\ r.i \in Servers
  BY WeightAssumption DEF Servers, Locals
<1>s. steady[c] \subseteq Servers
  BY DEF PickInv, HistoryOK
<1>1. CASE r.i < N
  <2> DEFINE q == [r EXCEPT !.i = @ + 1]
  <2>1. q.pc = r.pc /\ q.srv = r.srv /\ q.best = r.best /\ q.total = r.total /\ q.i = r.i + 1
    BY DEF Locals
  <2>2. Becomes(c, q)
    BY <1>1 DEF Loops
  <2>3. (r.pc = "weigh" /\ r.total = 0) \/ r.pc = "fallback" => \A s \in steady[c] : s >= q.i
    BY <1>w, <1>s, <2>1
  <2> HIDE DEF q
  <2>4. Fits(c, q)
    BY <2>1, <2>3 DEF Fits
  <2> QED
    BY <2>1, <2>2, <2>4 DEF Advances
<1>2. CASE ~(r.i < N)
  <2> DEFINE q == [r EXCEPT !.i = 1, !.pc = after]
  <2>1. q.pc = after /\ q.srv = r.srv /\ q.best = r.best /\ q.i = 1
    BY DEF Locals
  <2>2. Becomes(c, q)
    BY <1>2 DEF Loops
  <2>3. \A s \in steady[c] : s >= q.i
    BY <1>w, <1>s, <2>1
  <2> HIDE DEF q
  <2>4. Fits(c, q)
    BY <1>2, <2>1, <2>3 DEF Fits
  <2> QED
    BY <1>2, <2>1, <2>2, <2>4 DEF Advances
<1> QED
  BY <1>1, <1>2

\* leastConn goes on with a server that would do, or with none.
LEMMA KeepAdvances ==
  ASSUME PickInv, NEW c \in Callers, NEW b, Keeps(c, b),
         b # Nil => Sound(c, b),
         b = Nil => \A s \in steady[c] : s > call[c].i
  PROVE  Advances(c)
<1>w. N \in Nat \ {0} /\ Servers = 1..N /\ call[c].i \in Servers
  BY WeightAssumption DEF Servers, PickInv, PoolInv, PoolTypeOK, Locals
<1>s. steady[c] \subseteq Servers
  BY DEF PickInv, HistoryOK
<1>1. CASE call[c].i = N /\ Returns(c, b, FALSE)
  <2>1. b = Nil => steady[c] = {}
    BY <1>w, <1>s, <1>1
  <2>2. Sound(c, b)
    BY <2>1 DEF Sound
  <2> QED
    BY <1>1, <2>2, ReturnAdvances
<1>2. CASE call[c].i < N
  <2> DEFINE q == [call[c] EXCEPT !.pc = "least", !.i = call[c].i + 1, !.best = b]
  <2>1. q.pc = "least" /\ q.srv = call[c].srv /\ q.best = b /\ q.i = call[c].i + 1
    BY DEF PickInv, PoolInv, PoolTypeOK, Locals
  <2>a. call[c].i # N
    BY <1>2, <1>w
  <2>2. Becomes(c, q)
    BY <2>a DEF Keeps
  <2>3. b = Nil => \A s \in steady[c] : s >= q.i
    BY <1>w, <1>s, <2>1
  <2> HIDE DEF q
  <2>4. Fits(c, q)
    BY <2>1, <2>3 DEF Fits
  <2> QED
    BY <2>1, <2>2, <2>4 DEF Advances
<1> QED
  BY <1>w, <1>1, <1>2 DEF Keeps

LEMMA PickAdvances ==
  ASSUME PickInv, NEW c \in Callers,
         Weigh(c) \/ Index(c) \/ Walk(c) \/ Fallback(c) \/ Least(c) \/ LoadConns(c) \/ Compare(c)
  PROVE  /\ c \in Picking /\ Advances(c)
         /\ UNCHANGED <<address, healthy, reported, steady, seen, heard>>
<1>1. c \in Picking
  BY DEF Picking, Weigh, Index, Walk, Fallback, Least, LoadConns, Compare, At
<1>2. UNCHANGED <<address, healthy, reported, steady, seen, heard>>
  BY DEF Weigh, Index, Walk, Fallback, Least, LoadConns, Compare, At, historyVars
<1> SUFFICES Advances(c)
  BY <1>1, <1>2
<1>w. N \in Nat \ {0} /\ Servers = 1..N /\ Weight \in [Servers -> Nat \ {0}]
  BY WeightAssumption DEF Servers
<1>l. call[c] \in Locals /\ call[c].i \in Servers
  BY DEF PickInv, PoolInv, PoolTypeOK, Locals
<1>f. Fits(c, call[c])
  BY DEF PickInv, CallsFit
<1>s. steady[c] \subseteq Servers
  BY DEF PickInv, HistoryOK
\* The loop has met an unhealthy server.
<1>u. ASSUME ~healthy[call[c].i], \A s \in steady[c] : s >= call[c].i
      PROVE  \A s \in steady[c] : s > call[c].i
  BY <1>1, <1>w, <1>l, <1>s, <1>u, UnhealthyIsUnsteady
<1>3. CASE Weigh(c)
  <2> DEFINE t == call[c].total + (IF Eligible(call[c].i) THEN Weight[call[c].i] ELSE 0)
             r == [call[c] EXCEPT !.total = t]
             after == IF algorithm = "least_conn" THEN "least" ELSE "index"
  <2>1. call[c].pc = "weigh" /\ call[c].best = Nil /\ call[c].total \in Nat
    BY <1>3, <1>l, <1>f DEF Weigh, At, Fits, Locals
  <2>a. Weight[call[c].i] \in Nat \ {0}
    BY <1>w, <1>l
  <2>b. Eligible(call[c].i) <=> healthy[call[c].i]
    BY <2>a DEF Eligible
  <2>2. t \in Nat /\ (t = 0 => call[c].total = 0 /\ ~healthy[call[c].i])
    BY <2>1, <2>a, <2>b
  <2>3. t = 0 => \A s \in steady[c] : s > call[c].i
    BY <1>f, <1>u, <2>1, <2>2 DEF Fits
  <2>4. /\ r \in Locals /\ r.pc = "weigh" /\ r.best = Nil /\ r.srv = call[c].srv
        /\ r.i = call[c].i /\ r.total = t
    BY <1>l, <2>1, <2>2 DEF Locals
  <2>5. CASE Loops(c, r, after)
    <3>1. after = "index" \/ after = "least"
      OBVIOUS
    <3> HIDE DEF t, r, after
    <3> QED
      BY <2>3, <2>4, <2>5, <3>1, LoopAdvances
  <2>6. CASE call[c].i = N /\ t = 0 /\ Returns(c, Nil, TRUE)
    <3>1. steady[c] = {}
      BY <1>w, <1>s, <2>3, <2>6
    <3>2. Sound(c, Nil)
      BY <3>1 DEF Sound
    <3> QED
      BY <2>6, <3>2, ReturnAdvances
  <2> QED
    BY <1>3, <2>5, <2>6 DEF Weigh
<1>4. CASE Index(c)
  <2>1. PICK t, x : Walks(c, t, x)
    BY <1>4 DEF Index
  <2> DEFINE r == [call[c] EXCEPT !.pc = "walk", !.ticket = t, !.idx = x]
  <2>2. Becomes(c, r) /\ r.pc = "walk" /\ r.srv = call[c].srv
    BY <1>l, <2>1 DEF Walks, Locals
  <2> HIDE DEF r
  <2> QED
    BY <2>2 DEF Advances, Fits
<1>5. CASE Walk(c)
  <2>0. call[c].pc = "walk"
    BY <1>5 DEF Walk, At
  <2>1. CASE Eligible(call[c].i) /\ Returns(c, call[c].i, FALSE)
    <3>1. Sound(c, call[c].i)
      BY <1>1, <1>l, <2>1, HealthyIsSound DEF Eligible
    <3> QED
      BY <2>1, <3>1, ReturnAdvances
  <2> DEFINE r == [call[c] EXCEPT !.idx = @ - Weight[call[c].i]]
  <2>2. CASE Loops(c, r, "fallback")
    <3>1. call[c].idx - Weight[call[c].i] \in Int
      BY <1>w, <1>l DEF Locals
    <3>2. r \in Locals /\ r.pc = "walk" /\ r.srv = call[c].srv
      BY <1>l, <2>0, <3>1 DEF Locals
    <3> HIDE DEF r
    <3> QED
      BY <2>2, <3>2, LoopAdvances
  <2>3. CASE Loops(c, call[c], "fallback")
    BY <1>l, <2>0, <2>3, LoopAdvances
  <2> QED
    BY <1>5, <2>1, <2>2, <2>3 DEF Walk
<1>6. CASE Fallback(c)
  <2>0. call[c].pc = "fallback" /\ \A s \in steady[c] : s >= call[c].i
    BY <1>6, <1>f DEF Fallback, At, Fits
  <2>1. CASE healthy[call[c].i] /\ Returns(c, call[c].i, FALSE)
    <3>1. Sound(c, call[c].i)
      BY <1>1, <1>l, <2>1, HealthyIsSound
    <3> QED
      BY <2>1, <3>1, ReturnAdvances
  <2>2. CASE ~healthy[call[c].i] /\ call[c].i < N /\ Loops(c, call[c], "done")
    BY <1>l, <1>u, <2>0, <2>2, LoopAdvances
  <2>3. CASE ~healthy[call[c].i] /\ call[c].i = N /\ Returns(c, Nil, FALSE)
    <3>1. steady[c] = {}
      BY <1>w, <1>s, <1>u, <2>0, <2>3
    <3>2. Sound(c, Nil)
      BY <3>1 DEF Sound
    <3> QED
      BY <2>3, <3>2, ReturnAdvances
  <2> QED
    BY <1>6, <2>1, <2>2, <2>3 DEF Fallback
<1>7. CASE Least(c)
  <2>0. call[c].pc = "least"
    BY <1>7 DEF Least, At
  <2>1. CASE ~healthy[call[c].i] /\ Keeps(c, call[c].best)
    <3>1. call[c].best = Nil => \A s \in steady[c] : s > call[c].i
      BY <1>f, <1>u, <2>0, <2>1 DEF Fits
    <3>2. call[c].best # Nil => Sound(c, call[c].best)
      BY <1>f, <2>0 DEF Fits
    <3> QED
      BY <2>1, <3>1, <3>2, KeepAdvances
  <2>2. CASE healthy[call[c].i] /\ Keeps(c, call[c].i)
    <3>1. call[c].i # Nil /\ Sound(c, call[c].i)
      BY <1>1, <1>l, <2>2, HealthyIsSound
    <3> QED
      BY <2>2, <3>1, KeepAdvances
  <2> DEFINE r == [call[c] EXCEPT !.pc = "conns"]
  <2>3. CASE healthy[call[c].i] /\ call[c].best # Nil /\ Becomes(c, r)
    <3>1. r.pc = "conns" /\ r.srv = call[c].srv /\ r.best = call[c].best /\ r.i = call[c].i
      BY <1>l DEF Locals
    <3>2. Sound(c, call[c].i)
      BY <1>1, <1>l, <2>3, HealthyIsSound
    <3> HIDE DEF r
    <3> QED
      BY <1>f, <2>0, <2>3, <3>1, <3>2 DEF Advances, Fits
  <2> QED
    BY <1>7, <2>1, <2>2, <2>3 DEF Least
<1>8. CASE LoadConns(c)
  <2>0. call[c].pc = "conns"
    BY <1>8 DEF LoadConns, At
  <2> DEFINE r == [call[c] EXCEPT !.pc = "compare", !.conns = connCount[call[c].i]]
  <2>1. Becomes(c, r) /\ r.pc = "compare" /\ r.srv = call[c].srv
        /\ r.best = call[c].best /\ r.i = call[c].i
    BY <1>8, <1>l DEF LoadConns, Locals
  <2> HIDE DEF r
  <2> QED
    BY <1>f, <2>0, <2>1 DEF Advances, Fits
<1>9. CASE Compare(c)
  <2>0. /\ call[c].pc = "compare" /\ call[c].best # Nil
        /\ Sound(c, call[c].best) /\ Sound(c, call[c].i)
    BY <1>9, <1>f DEF Compare, At, Fits
  <2>1. CASE Keeps(c, call[c].best)
    BY <2>0, <2>1, KeepAdvances
  <2>2. CASE Keeps(c, call[c].i)
    <3>1. call[c].i # Nil
      BY <1>w, <1>l DEF Nil
    <3> QED
      BY <2>0, <2>2, <3>1, KeepAdvances
  <2> QED
    BY <1>9, <2>1, <2>2 DEF Compare
<1> QED
  BY <1>3, <1>4, <1>5, <1>6, <1>7, <1>8, <1>9

LEMMA ReportReachesLast ==
  ASSUME PickInv, NEW a, NEW h, SetHealthy(a, h)
  PROVE  /\ ServerByAddr(a) \in Servers
         /\ address[ServerByAddr(a)] = a
         /\ \A u \in Servers : address[u] = a => u <= ServerByAddr(a)
<1>1. address \in Seq(STRING) /\ Len(address) = N
  BY AddressAssumption DEF PickInv, PoolInv, PoolTypeOK
<1>2. DOMAIN address = Servers
  BY <1>1 DEF Servers
<1>3. a \in ToSet(address)
  BY DEF SetHealthy
<1> QED
  BY <1>2, <1>3, LastOfAddress DEF ToSet

\* The calls under way notice a health change.
LEMMA HealthChange ==
  ASSUME PickInv, NEW a, NEW h \in BOOLEAN, SetHealthy(a, h)
  PROVE  /\ steady' = [c \in Callers |-> steady[c] \cap Up']
         /\ seen' = [c \in Callers |-> IF c \in Picking THEN seen[c] \cup Up' ELSE seen[c]]
<1> DEFINE s == ServerByAddr(a)
           now == IF h THEN Up \cup {s} ELSE Up \ {s}
<1>1. s \in Servers
  BY ReportReachesLast
<1>2. /\ healthy' = [healthy EXCEPT ![s] = h]
      /\ steady' = [c \in Callers |-> steady[c] \cap now]
      /\ seen' = [c \in Callers |-> IF c \in Picking THEN seen[c] \cup now ELSE seen[c]]
  BY DEF SetHealthy
<1>3. healthy \in [Servers -> BOOLEAN]
  BY DEF PickInv, PoolInv, PoolTypeOK
<1>4. Up' = now
  BY <1>1, <1>2, <1>3 DEF Up
<1> QED
  BY <1>2, <1>4

LEMMA PickInvStep == PickInv /\ [Next]_vars => PickInv'
<1> SUFFICES ASSUME PickInv, [Next]_vars PROVE PickInv'
  OBVIOUS
<1>p. PoolInv'
  BY PoolInvStep DEF PickInv
<1>ty. PoolTypeOK /\ HistoryOK /\ ReportsReach /\ CallsFit
  BY DEF PickInv, PoolInv
<1>l. call \in [Callers -> Locals]
  BY <1>ty DEF PoolTypeOK
<1>1. ASSUME NEW c \in Callers, NEW h, Call(c, h) PROVE PickInv'
  <2> DEFINE r == [call[c] EXCEPT !.pc = "weigh", !.ticket = h]
  <2>1. /\ call[c].pc = "idle" /\ call' = [call EXCEPT ![c] = r]
        /\ UNCHANGED <<address, healthy, reported>>
    BY <1>1 DEF Call, At, Becomes
  <2>2. r.pc = "weigh" /\ r.best = Nil /\ r.i = 1
    BY <1>l, <1>ty, <2>1 DEF CallsFit, Fits, Locals
  <2>3. /\ steady' = [steady EXCEPT ![c] = Up] /\ seen' = [seen EXCEPT ![c] = Up]
        /\ heard' = [heard EXCEPT ![c] = reported]
    BY <1>1 DEF Call
  <2> HIDE DEF r
  <2>4. \A d \in Callers : call'[d] = IF d = c THEN r ELSE call[d]
    BY <1>l, <2>1
  <2>5. Up \subseteq Servers /\ Up' = Up
    BY <2>1 DEF Up
  <2>6. ReportsReach'
    BY <1>ty, <2>1 DEF ReportsReach
  <2>7. \A d \in Picking' : d = c \/ d \in Picking
    BY <2>4 DEF Picking
  <2>8. HistoryOK'
    BY <1>ty, <2>1, <2>3, <2>5, <2>7 DEF HistoryOK, ReportsReach
  <2>9. ASSUME NEW d \in Callers PROVE Fits(d, call[d])'
    <3>1. CASE d = c
      <4>1. \A s \in steady'[c] : s >= r.i
        BY <1>ty, <2>2, <2>3, <2>5, WeightAssumption DEF HistoryOK, Servers
      <4> QED
        BY <2>2, <2>4, <3>1, <4>1 DEF Fits
    <3>2. CASE d # c
      <4>1. call'[d] = call[d] /\ steady'[d] = steady[d] /\ seen'[d] = seen[d] /\ heard'[d] = heard[d]
        BY <1>ty, <2>3, <2>4, <3>2 DEF HistoryOK
      <4> QED
        BY <1>ty, <2>1, <4>1 DEF CallsFit, Fits, Sound, Heeded
    <3> QED
      BY <3>1, <3>2
  <2> QED
    BY <1>p, <2>6, <2>8, <2>9 DEF PickInv, CallsFit
<1>2. ASSUME NEW c \in Callers,
             Weigh(c) \/ Index(c) \/ Walk(c) \/ Fallback(c) \/ Least(c) \/ LoadConns(c) \/ Compare(c)
      PROVE  PickInv'
  <2>1. /\ c \in Picking /\ Advances(c)
        /\ UNCHANGED <<address, healthy, reported, steady, seen, heard>>
    BY <1>2, PickAdvances
  <2>2. PICK r : Becomes(c, r) /\ Fits(c, r)
    BY <2>1 DEF Advances
  <2>3. \A d \in Callers : call'[d] = IF d = c THEN r ELSE call[d]
    BY <1>l, <2>2 DEF Becomes
  <2>4. ReportsReach'
    BY <1>ty, <2>1 DEF ReportsReach
  <2>5. Picking' \subseteq Picking /\ Up' = Up
    BY <2>1, <2>3 DEF Picking, Up
  <2>6. HistoryOK'
    BY <1>ty, <2>1, <2>5 DEF HistoryOK
  <2>7. ASSUME NEW d \in Callers PROVE Fits(d, call[d])'
    <3>1. Fits(d, call'[d])
      BY <1>ty, <2>2, <2>3 DEF CallsFit
    <3> QED
      BY <2>1, <3>1 DEF Fits, Sound, Heeded
  <2> QED
    BY <1>p, <2>4, <2>6, <2>7 DEF PickInv, CallsFit
<1>3. ASSUME NEW c \in Callers, Finish(c) PROVE PickInv'
  <2>1. call' = [call EXCEPT ![c] = Idle] /\ UNCHANGED <<address, healthy, reported>>
    BY <1>3 DEF Finish, At, Becomes
  <2>3. /\ steady' = [steady EXCEPT ![c] = {}] /\ seen' = [seen EXCEPT ![c] = {}]
        /\ heard' = [heard EXCEPT ![c] = {}]
    BY <1>3 DEF Finish
  <2>4. \A d \in Callers : call'[d] = IF d = c THEN Idle ELSE call[d]
    BY <1>l, <2>1
  <2>6. ReportsReach' /\ Up' = Up
    BY <1>ty, <2>1 DEF ReportsReach, Up
  <2>7. \A d \in Picking' : d # c /\ d \in Picking
    BY <2>4 DEF Picking, Idle
  <2>8. HistoryOK'
    BY <1>ty, <2>1, <2>3, <2>6, <2>7 DEF HistoryOK
  <2>9. ASSUME NEW d \in Callers PROVE Fits(d, call[d])'
    <3>1. CASE d = c
      BY <2>4, <3>1 DEF Fits, Idle
    <3>2. CASE d # c
      <4>1. call'[d] = call[d] /\ steady'[d] = steady[d] /\ seen'[d] = seen[d] /\ heard'[d] = heard[d]
        BY <1>ty, <2>3, <2>4, <3>2 DEF HistoryOK
      <4> QED
        BY <1>ty, <2>1, <4>1 DEF CallsFit, Fits, Sound, Heeded
    <3> QED
      BY <3>1, <3>2
  <2> QED
    BY <1>p, <2>6, <2>8, <2>9 DEF PickInv, CallsFit
<1>4. ASSUME NEW a, NEW h \in BOOLEAN, SetHealthy(a, h) PROVE PickInv'
  <2> DEFINE s == ServerByAddr(a)
  <2>0. a \in Addresses
    BY <1>4, <1>ty DEF SetHealthy, Addresses, PoolTypeOK
  <2>2. /\ s \in Servers /\ address[s] = a
        /\ \A u \in Servers : address[u] = a => u <= s
    BY <1>4, ReportReachesLast
  <2>3. /\ healthy' = [healthy EXCEPT ![s] = h]
        /\ reported' = IF h THEN reported \cup {a} ELSE reported \ {a}
        /\ heard' = [c \in Callers |-> IF c \in Picking THEN heard[c] \cup reported'
                                                        ELSE heard[c]]
        /\ UNCHANGED <<address, call>>
    BY <1>4 DEF SetHealthy
  <2>4. healthy \in [Servers -> BOOLEAN]
    BY <1>ty DEF PoolTypeOK
  <2>5. /\ steady' = [c \in Callers |-> steady[c] \cap Up']
        /\ seen' = [c \in Callers |-> IF c \in Picking THEN seen[c] \cup Up' ELSE seen[c]]
        /\ Up' \subseteq Servers
    BY <1>4, HealthChange DEF Up
  <2>6. ReportsReach'
    <3>1. reported' \in SUBSET Addresses
      BY <1>ty, <2>0, <2>3 DEF ReportsReach
    <3>2. ASSUME NEW u \in Servers, healthy'[u]
          PROVE  address[u] \in reported' \/ \E t \in Servers : t > u /\ address[t] = address[u]
      <4>1. CASE address[u] # a
        <5>1. u # s /\ healthy[u]
          BY <2>2, <2>3, <2>4, <3>2, <4>1
        <5> QED
          BY <1>ty, <2>3, <4>1, <5>1 DEF ReportsReach
      <4>2. CASE address[u] = a /\ u = s
        BY <2>2, <2>3, <2>4, <3>2, <4>2
      <4>3. CASE address[u] = a /\ u # s
        <5>1. s > u
          BY <2>2, <4>3 DEF Servers
        <5> QED
          BY <2>2, <4>3, <5>1
      <4> QED
        BY <4>1, <4>2, <4>3
    <3> QED
      BY <2>3, <3>1, <3>2 DEF ReportsReach
  <2>7. Picking' = Picking
    BY <2>3 DEF Picking
  <2>8. HistoryOK'
    <3>1. /\ steady' \in [Callers -> SUBSET Servers]
          /\ seen' \in [Callers -> SUBSET Servers]
          /\ heard' \in [Callers -> SUBSET Addresses]
      BY <1>ty, <2>3, <2>5, <2>6 DEF HistoryOK, ReportsReach
    <3>2. ASSUME NEW c \in Picking
          PROVE  steady'[c] \subseteq Up' /\ Up' \subseteq seen'[c] /\ reported' \subseteq heard'[c]
      BY <2>3, <2>5 DEF Picking
    <3> QED
      BY <2>7, <3>1, <3>2 DEF HistoryOK
  <2>9. ASSUME NEW c \in Callers PROVE Fits(c, call[c])'
    <3>1. steady'[c] \subseteq steady[c] /\ seen[c] \subseteq seen'[c] /\ heard[c] \subseteq heard'[c]
      BY <2>3, <2>5
    <3>2. \A t : Sound(c, t) => Sound(c, t)'
      BY <2>3, <3>1 DEF Sound, Heeded
    <3>3. Fits(c, call[c]) /\ call'[c] = call[c]
      BY <1>ty, <2>3 DEF CallsFit
    <3> QED
      BY <3>1, <3>2, <3>3 DEF Fits
  <2> QED
    BY <1>p, <2>6, <2>8, <2>9 DEF PickInv, CallsFit
<1>5. CASE UNCHANGED <<address, healthy, reported, steady, seen, heard, call>>
  BY <1>p, <1>5 DEF PickInv, ReportsReach, HistoryOK, CallsFit, Fits, Sound, Heeded, Picking, Up
<1> QED
  BY <1>1, <1>2, <1>3, <1>4, <1>5 DEF Next, PickStep, DecrConns, vars, historyVars

LEMMA PickInvariant == Spec => []PickInv
  BY PickInvInit, PickInvStep, PTL DEF Spec

\* A bad report that is in force during the whole call keeps its server from being
\* picked, unless a later server has the same address (backend.go:73): for every
\* pool, every list of addresses and every interleaving of reports and loads.
THEOREM BadReportsHeeded == Spec => []BadReportHeeded
<1>1. PickInv => BadReportHeeded
  BY DEF PickInv, CallsFit, Fits, Sound, Heeded, BadReportHeeded
<1> QED
  BY <1>1, PickInvariant, PTL

-----------------------------------------------------------------------------
(* Pick implements LoadBalancer                                            *)

\* Where the promise sees a caller.
Stage(l) == CASE l \in {"idle", "done"} -> l [] OTHER -> "picking"

During == [c \in Callers |-> Stage(call[c].pc)]
Result == [c \in Callers |-> call[c].srv]

LEMMA PromiseInit == Init => Promise!Init
<1> SUFFICES ASSUME Init PROVE Promise!Init
  OBVIOUS
<1>1. Up = Servers
  BY DEF Init, Up
<1>2. \A c \in Callers : call[c].pc = "idle" /\ call[c].srv = Nil
  BY DEF Init, Idle
<1> QED
  BY <1>1, <1>2 DEF Init, Promise!Init

LEMMA PromiseStep == PickInv /\ [Next]_vars => [Promise!Next]_(Promise!vars)
<1> SUFFICES ASSUME PickInv, [Next]_vars PROVE Promise!Next \/ UNCHANGED Promise!vars
  OBVIOUS
<1>l. call \in [Callers -> Locals]
  BY DEF PickInv, PoolInv, PoolTypeOK
<1>h. HistoryOK
  BY DEF PickInv
\* The caller's stage and result, and nobody else's.
<1>m. ASSUME NEW c \in Callers, NEW r, call' = [call EXCEPT ![c] = r]
      PROVE  /\ During' = [During EXCEPT ![c] = Stage(r.pc)]
             /\ Result' = [Result EXCEPT ![c] = r.srv]
  BY <1>l, <1>m DEF During, Result
<1>1. ASSUME NEW c \in Callers, NEW h, Call(c, h) PROVE Promise!Call(c)
  <2> DEFINE r == [call[c] EXCEPT !.pc = "weigh", !.ticket = h]
  <2>1. call[c].pc = "idle" /\ call' = [call EXCEPT ![c] = r] /\ healthy' = healthy
    BY <1>1 DEF Call, At, Becomes
  <2>2. r.pc = "weigh" /\ r.srv = call[c].srv
    BY <1>l DEF Locals
  <2> HIDE DEF r
  <2>3. During[c] = "idle" /\ During' = [During EXCEPT ![c] = "picking"]
    BY <1>m, <2>1, <2>2 DEF During, Stage
  <2>4. Result' = Result
    BY <1>m, <2>1, <2>2 DEF Result
  <2>5. Up' = Up
    BY <2>1 DEF Up
  <2> QED
    BY <1>1, <2>3, <2>4, <2>5 DEF Call, Promise!Call, During, Result, Stage
<1>2. ASSUME NEW c \in Callers,
             Weigh(c) \/ Index(c) \/ Walk(c) \/ Fallback(c) \/ Least(c) \/ LoadConns(c) \/ Compare(c)
      PROVE  Promise!Answer(c) \/ UNCHANGED Promise!vars
  <2>1. /\ c \in Picking /\ Advances(c)
        /\ UNCHANGED <<address, healthy, reported, steady, seen, heard>>
    BY <1>2, PickAdvances
  <2>2. During[c] = "picking" /\ Up' = Up
    BY <2>1 DEF Picking, During, Stage, Up
  <2>3. PICK r : /\ Becomes(c, r)
                 /\ Fits(c, r)
                 /\ \/ r.pc = "done"
                    \/ /\ r.pc \in {"weigh", "index", "walk", "fallback", "least", "conns", "compare"}
                       /\ r.srv = call[c].srv
    BY <2>1 DEF Advances
  <2>4. /\ During' = [During EXCEPT ![c] = Stage(r.pc)]
        /\ Result' = [Result EXCEPT ![c] = r.srv]
    BY <1>m, <2>3 DEF Becomes
  <2>5. CASE r.pc = "done"
    <3>1. IF r.srv = Nil THEN steady[c] = {} ELSE r.srv \in seen[c]
      BY <2>3, <2>5 DEF Fits, Sound
    <3>2. During' = [During EXCEPT ![c] = "done"]
      BY <2>4, <2>5 DEF Stage
    <3> QED
      BY <2>1, <2>2, <2>4, <3>1, <3>2 DEF Promise!Answer, During, Result, Stage
  <2>6. CASE r.pc # "done"
    <3>1. During' = During
      BY <2>2, <2>3, <2>4, <2>6 DEF Stage, During
    <3>2. Result' = Result
      BY <2>3, <2>4, <2>6 DEF Result
    <3> QED
      BY <2>1, <2>2, <3>1, <3>2 DEF Promise!vars, During, Result, Stage
  <2> QED
    BY <2>5, <2>6
<1>3. ASSUME NEW c \in Callers, Finish(c) PROVE Promise!Finish(c)
  <2>1. call[c].pc = "done" /\ call' = [call EXCEPT ![c] = Idle] /\ healthy' = healthy
    BY <1>3 DEF Finish, At, Becomes
  <2>2. Idle.pc = "idle" /\ Idle.srv = Nil
    BY DEF Idle
  <2>3. During[c] = "done" /\ During' = [During EXCEPT ![c] = "idle"]
    BY <1>m, <2>1, <2>2 DEF During, Stage
  <2>4. Result' = [Result EXCEPT ![c] = Nil]
    BY <1>m, <2>1, <2>2
  <2>5. Up' = Up
    BY <2>1 DEF Up
  <2>6. steady' = [steady EXCEPT ![c] = {}] /\ seen' = [seen EXCEPT ![c] = {}]
    BY <1>3 DEF Finish
  <2> QED
    BY <2>3, <2>4, <2>5, <2>6 DEF Promise!Finish, During, Result, Stage
<1>4. ASSUME NEW a, NEW h \in BOOLEAN, SetHealthy(a, h)
      PROVE  \E now \in SUBSET Servers : Promise!Change(now)
  <2>1. call' = call /\ Up' \in SUBSET Servers
    BY <1>4 DEF SetHealthy, Up
  <2>2. /\ steady' = [c \in Callers |-> steady[c] \cap Up']
        /\ seen' = [c \in Callers |-> IF c \in Picking THEN seen[c] \cup Up' ELSE seen[c]]
    BY <1>4, HealthChange
  <2>3. \A c \in Callers : During[c] = "picking" <=> c \in Picking
    BY DEF During, Stage, Picking
  <2>4. seen' = [c \in Callers |-> IF During[c] = "picking" THEN seen[c] \cup Up' ELSE seen[c]]
    BY <2>2, <2>3
  <2>5. During' = During /\ Result' = Result
    BY <2>1 DEF During, Result
  <2>6. Promise!Change(Up')
    BY <2>2, <2>4, <2>5 DEF Promise!Change, During, Result, Stage
  <2> QED
    BY <2>1, <2>6
<1>5. CASE UNCHANGED <<healthy, steady, seen, call>>
  BY <1>5 DEF Promise!vars, Up
<1> QED
  BY <1>1, <1>2, <1>3, <1>4, <1>5 DEF Next, PickStep, DecrConns, vars, historyVars, Promise!Next

\* Pick (backend.go:128) implements LoadBalancer: loading each server's health by
\* itself is as good as one look at all of them, whatever the algorithm.
THEOREM PickKeepsPromise == Spec => KeepsPromise
<1>1. Spec => Promise!Init /\ [][Promise!Next]_(Promise!vars)
  BY PromiseInit, PromiseStep, PickInvariant, PTL DEF Spec
<1> QED
  BY <1>1 DEF KeepsPromise, Promise!Spec

-----------------------------------------------------------------------------
(* The reference: the weight-expanded list                                 *)

\* What holds of a number, and of the next one whenever it holds of one, holds from
\* there on.
LEMMA UpFrom ==
  ASSUME NEW a \in Nat, NEW b \in Nat, NEW Good, a \in Good,
         \A i \in Nat : a <= i /\ i < b /\ i \in Good => i + 1 \in Good
  PROVE  \A i \in a..b : i \in Good
<1> SUFFICES ASSUME NEW k \in a..b, k \notin Good PROVE FALSE
  OBVIOUS
<1> DEFINE T == {n \in Nat : a <= n /\ n <= b /\ n \notin Good}
<1>1. k \in T
  OBVIOUS
<1>2. PICK n \in T : \A m \in T : n <= m
  BY <1>1, LeastNumber
<1>3. n \in Nat /\ a <= n /\ n <= b /\ n \notin Good /\ n # a
  BY <1>2
<1>4. n - 1 \in Nat /\ a <= n - 1 /\ n - 1 < b /\ (n - 1) + 1 = n /\ ~(n <= n - 1)
  BY <1>3
<1>5. n - 1 \in Good
  BY <1>2, <1>3, <1>4
<1> QED
  BY <1>3, <1>4, <1>5

\* The list of each server's entries, and the lists of the first servers together.
Entries == [s \in Servers |-> IF healthy[s] THEN [j \in 1..Weight[s] |-> s] ELSE <<>>]
FirstEntries[i \in Servers] == IF i = 1 THEN Entries[i] ELSE FirstEntries[i - 1] \o Entries[i]

\* One server's entries all name it, and there are as many as its weight says.
LEMMA EntriesAreLists ==
  /\ Entries \in [Servers -> Seq(Servers)]
  /\ Entries \in Seq(Seq(Servers)) /\ Len(Entries) = N
  /\ \A s \in Servers : /\ Len(Entries[s]) = IF healthy[s] THEN Weight[s] ELSE 0
                        /\ \A j \in 1..Len(Entries[s]) : Entries[s][j] = s
<1>w. N \in Nat \ {0} /\ Servers = 1..N /\ Weight \in [Servers -> Nat \ {0}]
  BY WeightAssumption DEF Servers
<1>1. ASSUME NEW s \in Servers
      PROVE  /\ Entries[s] \in Seq(Servers)
             /\ Len(Entries[s]) = IF healthy[s] THEN Weight[s] ELSE 0
             /\ \A j \in 1..Len(Entries[s]) : Entries[s][j] = s
  <2>1. Weight[s] \in Nat
    BY <1>w
  <2>2. CASE healthy[s]
    <3>1. Entries[s] = [j \in 1..Weight[s] |-> s]
      BY <2>2 DEF Entries
    <3> QED
      BY <2>1, <2>2, <3>1
  <2>3. CASE ~healthy[s]
    <3>1. Entries[s] = <<>>
      BY <2>3 DEF Entries
    <3> QED
      BY <2>3, <3>1
  <2> QED
    BY <2>2, <2>3
<1>2. Entries \in [Servers -> Seq(Servers)]
  BY <1>1 DEF Entries
<1>3. Entries \in Seq(Seq(Servers)) /\ Len(Entries) = N
  BY <1>2, <1>w
<1> QED
  BY <1>1, <1>2, <1>3

\* The recursive definition of FirstEntries has a solution: one for the first n
\* servers extends to n + 1.
LEMMA FirstEntriesExist ==
  \E g : g = [i \in Servers |-> IF i = 1 THEN Entries[i] ELSE g[i - 1] \o Entries[i]]
<1>w. N \in Nat \ {0} /\ Servers = 1..N
  BY WeightAssumption DEF Servers
<1> DEFINE UpTo(g, n) == \A i \in Servers : i <= n =>
                            g[i] = IF i = 1 THEN Entries[i] ELSE g[i - 1] \o Entries[i]
           Fn(g) == g = [i \in Servers |-> g[i]]
           Good == {n \in Nat : \E g : Fn(g) /\ UpTo(g, n)}
<1>1. 0 \in Good
  <2> DEFINE g == [i \in Servers |-> <<>>]
  <2>1. Fn(g)
    OBVIOUS
  <2>2. \A i \in Servers : ~(i <= 0)
    BY <1>w
  <2>3. UpTo(g, 0)
    BY <2>2
  <2> HIDE DEF g
  <2> QED
    BY <2>1, <2>3
<1>2. ASSUME NEW n \in Nat, n \in Good PROVE n + 1 \in Good
  <2>1. PICK g : Fn(g) /\ UpTo(g, n)
    BY <1>2
  <2> DEFINE h == [i \in Servers |-> IF i = n + 1 THEN IF i = 1 THEN Entries[i] ELSE g[i - 1] \o Entries[i]
                                                  ELSE g[i]]
  <2>2. Fn(h)
    OBVIOUS
  <2>3. ASSUME NEW i \in Servers, i <= n + 1
        PROVE  h[i] = IF i = 1 THEN Entries[i] ELSE h[i - 1] \o Entries[i]
    <3>1. i \in Nat /\ i >= 1 /\ (i # 1 => i - 1 \in Servers /\ i - 1 # n + 1)
      BY <1>w, <2>3
    <3>2. i # 1 => h[i - 1] = g[i - 1]
      BY <3>1
    <3>3. CASE i = n + 1
      BY <3>2, <3>3
    <3>4. CASE i # n + 1
      <4>1. i <= n
        BY <2>3, <3>1, <3>4
      <4>2. g[i] = IF i = 1 THEN Entries[i] ELSE g[i - 1] \o Entries[i]
        BY <2>1, <4>1
      <4> QED
        BY <3>2, <3>4, <4>2
    <3> QED
      BY <3>3, <3>4
  <2>4. UpTo(h, n + 1)
    BY <2>3
  <2> HIDE DEF h, Fn, UpTo
  <2>5. n + 1 \in Nat
    OBVIOUS
  <2> QED
    BY <2>2, <2>4, <2>5
<1>3. N \in Good
  <2> HIDE DEF Good
  <2>a. \A i \in Nat : 0 <= i /\ i < N /\ i \in Good => i + 1 \in Good
    BY <1>2
  <2>b. 0 \in Nat /\ N \in Nat
    BY <1>w
  <2>1. \A i \in 0..N : i \in Good
    BY <1>1, <2>a, <2>b, UpFrom
  <2> QED
    BY <1>w, <2>1
<1>4. PICK g : Fn(g) /\ UpTo(g, N)
  BY <1>3
<1>5. \A i \in Servers : g[i] = IF i = 1 THEN Entries[i] ELSE g[i - 1] \o Entries[i]
  <2>1. \A i \in Servers : i <= N
    BY <1>w
  <2> QED
    BY <1>4, <2>1
<1>6. g = [i \in Servers |-> g[i]]
  BY <1>4
<1>7. g = [i \in Servers |-> IF i = 1 THEN Entries[i] ELSE g[i - 1] \o Entries[i]]
  BY <1>5, <1>6
<1> HIDE DEF UpTo, Fn, Good
<1> QED
  BY <1>7, Zenon

\* The reference is the list of all N servers.
LEMMA FirstEntriesGrow ==
  /\ Expanded = FirstEntries[N]
  /\ FirstEntries[1] = Entries[1]
  /\ \A i \in Servers : i # 1 => FirstEntries[i] = FirstEntries[i - 1] \o Entries[i]
<1>w. N \in Nat \ {0} /\ Servers = 1..N /\ 1 \in Servers
  BY WeightAssumption DEF Servers
<1>1. FirstEntries = [i \in Servers |-> IF i = 1 THEN Entries[i] ELSE FirstEntries[i - 1] \o Entries[i]]
  BY FirstEntriesExist, Zenon DEF FirstEntries
<1>2. FirstEntries[1] = Entries[1] /\ \A i \in Servers : i # 1 => FirstEntries[i] = FirstEntries[i - 1] \o Entries[i]
  BY <1>1, <1>w
<1>3. Expanded = FlattenSeq(Entries)
  BY DEF Expanded, Entries
<1>4. Len(Entries) = N /\ Len(Entries) # 0 /\ 1..Len(Entries) = Servers
  BY <1>w, EntriesAreLists
<1>5. FlattenSeq(Entries) = FirstEntries[N]
  BY <1>4, Zenon DEF FlattenSeq, FirstEntries
<1> QED
  BY <1>2, <1>3, <1>5

\* How many entries the first i servers have, and how many one server has.
Ahead(i) == IF i = 0 THEN 0 ELSE Len(FirstEntries[i])
Load(s) == IF healthy[s] THEN Weight[s] ELSE 0

LEMMA FirstEntriesAreLists == \A i \in Servers : FirstEntries[i] \in Seq(Servers)
<1>w. N \in Nat \ {0} /\ Servers = 1..N /\ 1 \in Servers /\ 1 \in Nat
  BY WeightAssumption DEF Servers
<1> DEFINE Good == {i \in Nat : FirstEntries[i] \in Seq(Servers)}
<1>1. 1 \in Good
  BY <1>w, EntriesAreLists, FirstEntriesGrow
<1>2. ASSUME NEW i \in Nat, 1 <= i, i < N, i \in Good PROVE i + 1 \in Good
  <2>1. i + 1 \in Servers /\ i + 1 # 1 /\ (i + 1) - 1 = i /\ i + 1 \in Nat
    BY <1>2, <1>w
  <2>2. FirstEntries[i + 1] = FirstEntries[i] \o Entries[i + 1]
    BY <2>1, FirstEntriesGrow
  <2>3. Entries[i + 1] \in Seq(Servers) /\ FirstEntries[i] \in Seq(Servers)
    BY <1>2, <2>1, EntriesAreLists
  <2>4. FirstEntries[i] \o Entries[i + 1] \in Seq(Servers)
    BY <2>3
  <2> QED
    BY <2>1, <2>2, <2>4
<1> HIDE DEF Good
<1>3. \A i \in 1..N : i \in Good
  BY <1>1, <1>2, <1>w, UpFrom
<1> QED
  BY <1>3, <1>w DEF Good

\* Server i's entries stand behind those of the servers before it.
LEMMA AheadGrows ==
  /\ Ahead(0) = 0
  /\ \A i \in 0..N : Ahead(i) \in Nat
  /\ \A i \in Servers : Load(i) \in Nat /\ Ahead(i) = Ahead(i - 1) + Load(i)
<1>w. N \in Nat \ {0} /\ Servers = 1..N /\ Weight \in [Servers -> Nat \ {0}]
  BY WeightAssumption DEF Servers
<1>1. Ahead(0) = 0
  BY DEF Ahead
<1>2. \A i \in Servers : i # 0 /\ Ahead(i) = Len(FirstEntries[i]) /\ Ahead(i) \in Nat
  <2>1. \A i \in Servers : i # 0
    BY <1>w
  <2> QED
    BY <2>1, FirstEntriesAreLists DEF Ahead
<1>3. \A i \in 0..N : i = 0 \/ i \in Servers
  BY <1>w
<1>4. \A i \in 0..N : Ahead(i) \in Nat
  BY <1>1, <1>2, <1>3
<1>5. ASSUME NEW i \in Servers PROVE Load(i) \in Nat /\ Ahead(i) = Ahead(i - 1) + Load(i)
  <2>1. Load(i) \in Nat /\ Len(Entries[i]) = Load(i)
    BY <1>w, EntriesAreLists DEF Load
  <2>2. CASE i = 1
    <3>1. Ahead(1) = Load(1) /\ 1 - 1 = 0
      BY <1>2, <2>1, <2>2, FirstEntriesGrow
    <3> QED
      BY <1>1, <2>1, <2>2, <3>1
  <2>3. CASE i # 1
    <3>1. i - 1 \in Servers
      BY <1>w, <2>3
    <3>2. FirstEntries[i] = FirstEntries[i - 1] \o Entries[i]
      BY <2>3, FirstEntriesGrow
    <3>3. FirstEntries[i - 1] \in Seq(Servers) /\ Entries[i] \in Seq(Servers)
      BY <3>1, FirstEntriesAreLists, EntriesAreLists
    <3>4. Len(FirstEntries[i]) = Len(FirstEntries[i - 1]) + Len(Entries[i])
      BY <3>2, <3>3
    <3> QED
      BY <1>2, <2>1, <3>1, <3>4
  <2> QED
    BY <2>2, <2>3
<1> QED
  BY <1>1, <1>4, <1>5

LEMMA AheadMonotone ==
  ASSUME NEW i \in 0..N, NEW j \in 0..N, i <= j
  PROVE  Ahead(i) <= Ahead(j)
<1>w. N \in Nat /\ Servers = 1..N /\ i \in Nat
  BY WeightAssumption DEF Servers
<1> DEFINE Good == {k \in Nat : Ahead(i) <= Ahead(k)}
<1>1. i \in Good
  BY <1>w, AheadGrows
<1>2. ASSUME NEW k \in Nat, i <= k, k < N, k \in Good PROVE k + 1 \in Good
  <2>1. k + 1 \in Servers /\ (k + 1) - 1 = k /\ k \in 0..N /\ k + 1 \in Nat /\ k + 1 \in 0..N
    BY <1>2, <1>w
  <2>2. Ahead(k + 1) = Ahead(k) + Load(k + 1) /\ Load(k + 1) \in Nat
    BY <2>1, AheadGrows
  <2>3. Ahead(k) \in Nat /\ Ahead(i) \in Nat /\ Ahead(i) <= Ahead(k)
    BY <1>2, <2>1, AheadGrows
  <2>4. Ahead(i) <= Ahead(k + 1)
    BY <2>2, <2>3
  <2> QED
    BY <2>1, <2>4
<1> HIDE DEF Good
<1>3. \A k \in i..N : k \in Good
  BY <1>1, <1>2, <1>w, UpFrom
<1>4. j \in i..N
  BY <1>w
<1> QED
  BY <1>3, <1>4 DEF Good

\* The reference has Ahead(N) entries, and entry x belongs to the server in whose
\* share x falls.
LEMMA ReferenceLength == Len(Expanded) = Ahead(N) /\ Ahead(N) \in Nat
<1>1. N # 0 /\ N \in 0..N
  BY WeightAssumption
<1> QED
  BY <1>1, AheadGrows, FirstEntriesGrow DEF Ahead

LEMMA ConcatEntry ==
  ASSUME NEW S, NEW u \in Seq(S), NEW v \in Seq(S), NEW j \in 1..(Len(u) + Len(v))
  PROVE  (u \o v)[j] = IF j <= Len(u) THEN u[j] ELSE v[j - Len(u)]
  OBVIOUS

LEMMA ReferenceEntry ==
  ASSUME NEW s \in Servers, NEW x \in Nat, Ahead(s - 1) <= x, x < Ahead(s)
  PROVE  Expanded[x + 1] = s
<1>w. N \in Nat \ {0} /\ Servers = 1..N /\ s \in Nat /\ s - 1 \in 0..N /\ s \in 0..N
  BY WeightAssumption DEF Servers
<1>a. \A m \in Servers : m # 0 /\ Ahead(m) = Len(FirstEntries[m]) /\ FirstEntries[m] \in Seq(Servers)
  <2>1. \A m \in Servers : m # 0
    BY <1>w
  <2> QED
    BY <2>1, FirstEntriesAreLists DEF Ahead
<1>e. /\ Entries[s] \in Seq(Servers) /\ \A j \in 1..Len(Entries[s]) : Entries[s][j] = s
      /\ Len(Entries[s]) = Load(s) /\ Load(s) \in Nat
      /\ Ahead(s - 1) \in Nat /\ Ahead(s) = Ahead(s - 1) + Load(s)
  BY <1>w, EntriesAreLists, AheadGrows DEF Load
<1> DEFINE Good == {m \in Nat : x < Ahead(m) /\ FirstEntries[m][x + 1] = s}
<1>1. s \in Good
  <2>1. CASE s = 1
    <3>1. FirstEntries[s] = Entries[s]
      BY <2>1, FirstEntriesGrow
    <3>2. x + 1 \in 1..Len(Entries[s])
      BY <1>a, <3>1
    <3> QED
      BY <1>e, <1>w, <3>1, <3>2
  <2>2. CASE s # 1
    <3>1. s - 1 \in Servers
      BY <1>w, <2>2
    <3>2. FirstEntries[s] = FirstEntries[s - 1] \o Entries[s]
      BY <2>2, FirstEntriesGrow
    <3>3. Ahead(s - 1) = Len(FirstEntries[s - 1]) /\ FirstEntries[s - 1] \in Seq(Servers)
      BY <1>a, <3>1
    <3>4. /\ (x + 1) - Ahead(s - 1) \in 1..Len(Entries[s])
          /\ x + 1 \in 1..(Len(FirstEntries[s - 1]) + Len(Entries[s]))
          /\ ~(x + 1 <= Len(FirstEntries[s - 1]))
      BY <1>e, <3>3
    <3>5. FirstEntries[s][x + 1] = Entries[s][(x + 1) - Len(FirstEntries[s - 1])]
      <4>1. Entries[s] \in Seq(Servers)
        BY <1>e
      <4>2. (FirstEntries[s - 1] \o Entries[s])[x + 1]
              = IF x + 1 <= Len(FirstEntries[s - 1]) THEN FirstEntries[s - 1][x + 1]
                ELSE Entries[s][(x + 1) - Len(FirstEntries[s - 1])]
        BY <3>3, <3>4, <4>1, ConcatEntry
      <4> QED
        BY <3>2, <3>4, <4>2
    <3>6. FirstEntries[s][x + 1] = s
      BY <1>e, <3>3, <3>4, <3>5
    <3> QED
      BY <1>w, <3>6
  <2> QED
    BY <2>1, <2>2
<1>2. ASSUME NEW m \in Nat, s <= m, m < N, m \in Good PROVE m + 1 \in Good
  <2>1. /\ m \in Servers /\ m + 1 \in Servers /\ m + 1 # 1 /\ (m + 1) - 1 = m /\ m + 1 \in Nat
        /\ m \in 0..N /\ m + 1 \in 0..N /\ m <= m + 1
    BY <1>2, <1>w
  <2>2. FirstEntries[m + 1] = FirstEntries[m] \o Entries[m + 1]
    BY <2>1, FirstEntriesGrow
  <2>3. Ahead(m) <= Ahead(m + 1) /\ Ahead(m) \in Nat /\ Ahead(m + 1) \in Nat
    BY <2>1, AheadMonotone, AheadGrows
  <2>4. x < Ahead(m) /\ FirstEntries[m][x + 1] = s
    BY <1>2
  <2>5. FirstEntries[m] \in Seq(Servers) /\ Len(FirstEntries[m]) = Ahead(m) /\ Entries[m + 1] \in Seq(Servers)
    BY <1>a, <2>1, EntriesAreLists
  <2>6. x + 1 \in 1..Len(FirstEntries[m])
    BY <2>3, <2>4, <2>5
  <2>7. FirstEntries[m + 1][x + 1] = FirstEntries[m][x + 1]
    <3>1. x + 1 \in 1..(Len(FirstEntries[m]) + Len(Entries[m + 1])) /\ x + 1 <= Len(FirstEntries[m])
      BY <2>5, <2>6
    <3> QED
      BY <2>2, <2>5, <3>1, ConcatEntry
  <2>8. x < Ahead(m + 1)
    BY <2>3, <2>4
  <2> QED
    BY <2>1, <2>4, <2>7, <2>8
<1> HIDE DEF Good
<1>3. \A m \in s..N : m \in Good
  BY <1>1, <1>2, <1>w, UpFrom
<1>4. N \in s..N
  BY <1>w
<1> QED
  BY <1>3, <1>4, FirstEntriesGrow DEF Good

LEMMA ReferenceEmpty == Ahead(N) > 0 <=> Up # {}
<1>w. N \in Nat \ {0} /\ Servers = 1..N /\ N \in 0..N /\ Weight \in [Servers -> Nat \ {0}]
  BY WeightAssumption DEF Servers
<1>1. ASSUME NEW s \in Up PROVE Ahead(N) > 0
  <2>1. s \in Servers /\ Load(s) = Weight[s] /\ Load(s) \in Nat \ {0}
    BY <1>w DEF Up, Load
  <2>2. s - 1 \in 0..N /\ s \in 0..N /\ s <= N
    BY <1>w, <2>1
  <2>3. Ahead(s) <= Ahead(N) /\ Ahead(N) \in Nat /\ Ahead(s - 1) \in Nat /\ Ahead(s) = Ahead(s - 1) + Load(s)
    BY <1>w, <2>1, <2>2, AheadGrows, AheadMonotone
  <2> QED
    BY <2>1, <2>3
<1>2. ASSUME Up = {} PROVE Ahead(N) = 0
  <2> DEFINE Good == {i \in Nat : Ahead(i) = 0}
  <2>1. 0 \in Good
    BY AheadGrows
  <2>2. ASSUME NEW i \in Nat, 0 <= i, i < N, i \in Good PROVE i + 1 \in Good
    <3>1. i + 1 \in Servers /\ (i + 1) - 1 = i /\ i + 1 \in Nat
      BY <1>w, <2>2
    <3>2. Load(i + 1) = 0
      BY <1>2, <3>1 DEF Up, Load
    <3>3. Ahead(i + 1) = Ahead(i) + Load(i + 1) /\ Ahead(i) = 0
      BY <2>2, <3>1, AheadGrows
    <3> QED
      BY <3>1, <3>2, <3>3
  <2> HIDE DEF Good
  <2>3. 0 \in Nat /\ N \in Nat /\ N \in 0..N
    BY <1>w
  <2>4. \A i \in 0..N : i \in Good
    BY <2>1, <2>2, <2>3, UpFrom
  <2> QED
    BY <2>3, <2>4 DEF Good
<1> QED
  BY <1>1, <1>2

-----------------------------------------------------------------------------
(* A Pick during which nothing changes matches the reference               *)

\* Entry x of the reference is one of s's.
Falls(x, s) == Ahead(s - 1) <= x /\ x < Ahead(s)

\* Each label is reached by its own algorithms.
LabelFits(r) ==
    /\ r.pc = "idle" => r.total = 0
    /\ r.pc \in {"idle", "index"} => r.i = 1
    /\ r.pc \in {"least", "conns", "compare"} => algorithm = "least_conn"
    /\ r.pc \in {"index", "walk"} => algorithm # "least_conn"

\* What Pick has summed up and walked past while health stays as it is: the servers
\* behind it make up its total, and those it has walked past its ticket less its index.
Exact(r) ==
    /\ r.pc = "weigh" => r.total = Ahead(r.i - 1)
    /\ r.pc \in {"index", "walk"} => r.total = Ahead(N)
    /\ r.pc = "walk" => r.idx + Ahead(r.i - 1) = r.ticket % Ahead(N)
    /\ r.pc # "fallback"

\* leastConn takes b rather than s.
Preferred(b, s) == \/ connCount[b] < connCount[s]
                   \/ connCount[b] = connCount[s] /\ b <= s

\* b has the fewest connections of the healthy servers before server k, and is the
\* first such server.
FewestBefore(b, k) ==
    IF b = Nil THEN \A s \in Up : s >= k
    ELSE /\ b \in Up
         /\ \A s \in Up : s < k => Preferred(b, s)

\* What Pick knows while neither health nor the counts change.
Chosen(r) ==
    /\ r.pc \in {"least", "conns", "compare"} => /\ Up # {} /\ r.best < r.i
                                                 /\ FewestBefore(r.best, r.i)
    /\ r.pc \in {"conns", "compare"} => healthy[r.i]
    /\ r.pc = "compare" => r.conns = connCount[r.i]
    /\ r.pc = "done" =>
          /\ r.err <=> Up = {}
          /\ Up # {} => IF algorithm = "least_conn" THEN FewestBefore(r.srv, N + 1)
                        ELSE r.srv \in Servers /\ Falls(r.ticket % Ahead(N), r.srv)

\* The callers that have seen only one state of health.
Undisturbed == quiet \cup (IF flips = 0 THEN Callers ELSE {})

ExactInv ==
    /\ quiet \subseteq Callers
    /\ \A c \in Callers : LabelFits(call[c])
    /\ \A c \in Undisturbed : Exact(call[c])
    /\ \A c \in quiet : Chosen(call[c])
    /\ flips = 0 => \A s \in Servers : healthy[s]

LEMMA ExactInvInit == Init => ExactInv
<1> SUFFICES ASSUME Init PROVE ExactInv
  OBVIOUS
<1>1. call = [c \in Callers |-> Idle] /\ quiet = Callers /\ healthy = [s \in Servers |-> TRUE]
  BY DEF Init
<1>2. LabelFits(Idle) /\ Exact(Idle) /\ Chosen(Idle)
  BY DEF LabelFits, Exact, Chosen, Idle
<1> QED
  BY <1>1, <1>2 DEF ExactInv, Undisturbed

\* A step of Pick keeps what is known as long as nothing else moves.
Keeping(c, r) ==
    /\ LabelFits(r)
    /\ Exact(call[c]) => Exact(r)
    /\ Exact(call[c]) /\ Chosen(call[c]) => Chosen(r)

\* The total is the sum over all servers passed.
LEMMA WeighKeeps ==
  ASSUME PickInv, NEW c \in Callers, LabelFits(call[c]), Weigh(c)
  PROVE  \E r : Becomes(c, r) /\ Keeping(c, r)
<1>w. N \in Nat \ {0} /\ Servers = 1..N /\ Weight \in [Servers -> Nat \ {0}]
  BY WeightAssumption DEF Servers
<1>l. call[c] \in Locals /\ call[c].i \in Servers /\ call[c].total \in Nat
  BY DEF PickInv, PoolInv, PoolTypeOK, Locals
<1> DEFINE s == call[c].i
           t == call[c].total + (IF Eligible(s) THEN Weight[s] ELSE 0)
<1>1. call[c].pc = "weigh" /\ call[c].best = Nil
  BY DEF Weigh, At, PickInv, CallsFit, Fits
<1>2. s \in 0..N /\ s - 1 \in 0..N /\ N \in 0..N /\ Weight[s] \in Nat \ {0} /\ s \in Nat
  BY <1>w, <1>l
<1>3. t = call[c].total + Load(s)
  BY <1>2 DEF Eligible, Load
<1>4. Load(s) \in Nat /\ Ahead(s) = Ahead(s - 1) + Load(s) /\ Ahead(N) \in Nat
  BY <1>l, <1>2, AheadGrows
<1>5. t \in Nat
  BY <1>l, <1>3, <1>4
<1>6. Exact(call[c]) => t = Ahead(s)
  BY <1>1, <1>3, <1>4 DEF Exact
<1>7. CASE s = N /\ t = 0 /\ Returns(c, Nil, TRUE)
  <2> DEFINE r == [call[c] EXCEPT !.pc = "done", !.srv = Nil, !.err = TRUE]
  <2>1. Becomes(c, r) /\ r.pc = "done" /\ r.err = TRUE
    BY <1>l, <1>7 DEF Returns, Locals
  <2>2. Exact(call[c]) => Up = {}
    BY <1>6, <1>7, ReferenceEmpty
  <2> HIDE DEF r
  <2>3. Keeping(c, r)
    BY <2>1, <2>2 DEF Keeping, LabelFits, Exact, Chosen
  <2> QED
    BY <2>1, <2>3
<1>8. CASE (s < N \/ t > 0)
           /\ Loops(c, [call[c] EXCEPT !.total = t], IF algorithm = "least_conn" THEN "least" ELSE "index")
  <2>1. CASE s < N
    <3> DEFINE r == [[call[c] EXCEPT !.total = t] EXCEPT !.i = @ + 1]
    <3>1. Becomes(c, r) /\ r.pc = "weigh" /\ r.total = t /\ r.i = s + 1
      BY <1>l, <1>1, <1>8, <2>1 DEF Loops, Locals
    <3>2. (s + 1) - 1 = s
      BY <1>2
    <3> HIDE DEF r, t, s
    <3>3. Exact(call[c]) => r.total = Ahead(r.i - 1)
      BY <1>6, <3>1, <3>2
    <3>4. Keeping(c, r)
      BY <3>1, <3>3 DEF Keeping, LabelFits, Exact, Chosen
    <3> QED
      BY <3>1, <3>4
  <2>2. CASE ~(s < N)
    <3> DEFINE after == IF algorithm = "least_conn" THEN "least" ELSE "index"
               r == [[call[c] EXCEPT !.total = t] EXCEPT !.i = 1, !.pc = after]
    <3>1. Becomes(c, r) /\ r.pc = after /\ r.total = t /\ r.i = 1 /\ r.best = Nil
      BY <1>l, <1>1, <1>8, <2>2 DEF Loops, Locals
    <3>2. s = N /\ t > 0
      BY <1>w, <1>2, <1>8, <2>2
    <3>3. Exact(call[c]) => t = Ahead(N) /\ Up # {}
      BY <1>6, <3>2, ReferenceEmpty
    <3>4. FewestBefore(Nil, 1) /\ Nil < 1
      BY <1>w DEF FewestBefore, Up, Nil
    <3> HIDE DEF r, t, s
    <3>5. Keeping(c, r)
      BY <3>1, <3>3, <3>4 DEF Keeping, LabelFits, Exact, Chosen
    <3> QED
      BY <3>1, <3>5
  <2> QED
    BY <2>1, <2>2
<1> QED
  BY <1>7, <1>8 DEF Weigh

\* The walk starts with the ticket's place in the reference.
LEMMA IndexDraws ==
  ASSUME PickInv, NEW c \in Callers, Index(c)
  PROVE  /\ call[c].pc = "index" /\ call[c].total \in Nat \ {0}
         /\ \E t \in Nat : /\ Walks(c, t, t % call[c].total)
                           /\ \/ algorithm = "round_robin" /\ t = rrIndex /\ rrIndex' = rrIndex + 1
                              \/ algorithm # "round_robin" /\ rrIndex' = rrIndex
<1>1. /\ call[c].pc = "index" /\ call[c].total \in Nat \ {0}
      /\ call[c].ticket \in Nat /\ call[c].ticket < HashCount
  BY DEF Index, At, PickInv, PoolInv, PoolTypeOK, Tickets, Locals
<1>2. CASE algorithm = "round_robin"
  <2>1. rrIndex' = rrIndex + 1 /\ Walks(c, rrIndex, GoMod(ToInt(rrIndex), call[c].total))
    BY <1>2 DEF Index, Add
  <2>2. rrIndex \in Nat /\ rrIndex < IntLimit
    <3>1. rrIndex + Cardinality(Undrawn) <= MaxTickets /\ rrIndex \in 0..MaxTickets
      BY <1>2 DEF PickInv, PoolInv, PoolTypeOK, Tickets
    <3>2. c \in Undrawn /\ IsFiniteSet(Undrawn)
      BY <1>1, CallersAssumption, FS_Subset DEF Undrawn
    <3>3. Cardinality(Undrawn) \in Nat \ {0}
      BY <3>2, FS_CardinalityType, FS_EmptySet
    <3> QED
      BY <3>1, <3>3, WideIntAssumption, WidthAssumption, PoolBoundsAssumption
  <2>3. GoMod(ToInt(rrIndex), call[c].total) = rrIndex % call[c].total
    BY <1>1, <2>2, IndexIsRemainder
  <2> QED
    BY <1>1, <1>2, <2>1, <2>2, <2>3
<1>3. CASE algorithm = "random"
  <2>1. PICK x \in 0..(call[c].total - 1) : Walks(c, x, x)
    BY <1>3 DEF Index
  <2>2. x \in Nat /\ x % call[c].total = x
    BY <1>1
  <2>3. rrIndex' = rrIndex
    BY <1>3 DEF Index
  <2> QED
    BY <1>1, <1>3, <2>1, <2>2, <2>3
<1>4. CASE algorithm = "hash"
  <2>1. rrIndex' = rrIndex /\ Walks(c, call[c].ticket, GoMod(ToInt(call[c].ticket), call[c].total))
    BY <1>4 DEF Index
  <2>2. call[c].ticket < IntLimit
    BY <1>1, WideIntAssumption, WidthAssumption
  <2>3. GoMod(ToInt(call[c].ticket), call[c].total) = call[c].ticket % call[c].total
    BY <1>1, <2>2, IndexIsRemainder
  <2> QED
    BY <1>1, <1>4, <2>1, <2>3
<1> QED
  BY <1>2, <1>3, <1>4 DEF Index

LEMMA IndexKeeps ==
  ASSUME PickInv, NEW c \in Callers, LabelFits(call[c]), Index(c)
  PROVE  \E r : Becomes(c, r) /\ Keeping(c, r)
<1>l. call[c] \in Locals
  BY DEF PickInv, PoolInv, PoolTypeOK
<1>1. call[c].pc = "index" /\ call[c].total \in Nat \ {0}
  BY IndexDraws
<1>2. PICK t \in Nat : Walks(c, t, t % call[c].total)
  BY IndexDraws
<1> DEFINE r == [call[c] EXCEPT !.pc = "walk", !.ticket = t, !.idx = t % call[c].total]
<1>3. /\ Becomes(c, r) /\ r.pc = "walk" /\ r.total = call[c].total /\ r.ticket = t
      /\ r.idx = t % call[c].total /\ r.i = call[c].i
  BY <1>l, <1>2 DEF Walks, Locals
<1>4. algorithm # "least_conn"
  BY <1>1 DEF LabelFits
<1>5. r.i = 1 /\ Ahead(0) = 0 /\ 1 - 1 = 0
  BY <1>1, <1>3, AheadGrows DEF LabelFits
<1>6. Exact(call[c]) => r.total = Ahead(N) /\ r.idx = t % Ahead(N)
  BY <1>1, <1>3 DEF Exact
<1>7. t % call[c].total \in Nat
  BY <1>1
<1> HIDE DEF r
<1>8. Exact(call[c]) => r.idx + Ahead(r.i - 1) = r.ticket % Ahead(N)
  <2>1. r.idx + 0 = r.idx
    BY <1>3, <1>7
  <2>2. Ahead(r.i - 1) = 0
    BY <1>5
  <2> QED
    BY <1>3, <1>6, <2>1, <2>2
<1>9. Keeping(c, r)
  BY <1>3, <1>4, <1>6, <1>8 DEF Keeping, LabelFits, Exact, Chosen
<1> QED
  BY <1>3, <1>9

\* The walk goes on, or ends at the server in whose share the ticket falls.
WalksOn(c, r) ==
    \/ r.pc = "walk" /\ r.ticket = call[c].ticket /\ picked' = picked
    \/ /\ r.pc = "done" /\ call[c].i \in Servers
       /\ Falls(call[c].ticket % Ahead(N), call[c].i)
       /\ Returns(c, call[c].i, FALSE)

LEMMA WalkKeeps ==
  ASSUME PickInv, NEW c \in Callers, LabelFits(call[c]), Walk(c)
  PROVE  \E r : Becomes(c, r) /\ Keeping(c, r) /\ (Exact(call[c]) => WalksOn(c, r))
<1>w. N \in Nat \ {0} /\ Servers = 1..N /\ Weight \in [Servers -> Nat \ {0}]
  BY WeightAssumption DEF Servers
<1>l. /\ call[c] \in Locals /\ call[c].i \in Servers /\ call[c].total \in Nat /\ call[c].idx \in Int
      /\ call[c].ticket \in Nat
  BY DEF PickInv, PoolInv, PoolTypeOK, Locals
<1> DEFINE s == call[c].i
           idx == call[c].idx
           x == call[c].ticket % Ahead(N)
<1>1. call[c].pc = "walk" /\ algorithm # "least_conn"
  BY DEF Walk, At, LabelFits
<1>2. call[c].total > 0 /\ idx \in 0..(call[c].total - 1)
  BY <1>1 DEF PickInv, PoolInv, PoolTypeOK
<1>3. s \in 0..N /\ s - 1 \in 0..N /\ N \in 0..N /\ Weight[s] \in Nat \ {0} /\ s \in Nat /\ s <= N
      /\ (s + 1) - 1 = s
  BY <1>w, <1>l
<1>4. /\ Load(s) \in Nat /\ Ahead(s) = Ahead(s - 1) + Load(s)
      /\ Ahead(N) \in Nat /\ Ahead(s - 1) \in Nat /\ Ahead(s) \in Nat /\ Ahead(s) <= Ahead(N)
  BY <1>l, <1>3, AheadGrows, AheadMonotone
<1>5. Eligible(s) <=> healthy[s]
  BY <1>3 DEF Eligible
<1>6. ASSUME Exact(call[c])
      PROVE  /\ idx + Ahead(s - 1) = x /\ x \in Nat /\ x < Ahead(N)
             /\ idx \in Nat
  <2>1. idx + Ahead(s - 1) = x /\ call[c].total = Ahead(N)
    BY <1>1, <1>6 DEF Exact
  <2>2. Ahead(N) > 0
    BY <1>2, <2>1
  <2>3. x \in Nat /\ x < Ahead(N)
    BY <1>l, <1>4, <2>2
  <2>4. idx \in Nat
    BY <1>2, <1>l
  <2> QED
    BY <2>1, <2>3, <2>4
<1>7. CASE Eligible(s) /\ Hits(s, idx) /\ Returns(c, s, FALSE)
  <2> DEFINE r == [call[c] EXCEPT !.pc = "done", !.srv = s, !.err = FALSE]
  <2>1. Becomes(c, r) /\ r.pc = "done" /\ r.err = FALSE /\ r.srv = s /\ r.ticket = call[c].ticket
    BY <1>l, <1>7 DEF Returns, Locals
  <2>2. s \in Up
    BY <1>l, <1>5, <1>7 DEF Up
  <2>3. ASSUME Exact(call[c]) PROVE Falls(x, s)
    <3>1. Load(s) = Weight[s] /\ idx < Weight[s]
      BY <1>5, <1>7 DEF Load, Hits
    <3>2. Ahead(s - 1) <= x /\ x < Ahead(s)
      BY <1>3, <1>4, <1>6, <2>3, <3>1
    <3> QED
      BY <3>2 DEF Falls
  <2> HIDE DEF r
  <2>4. Keeping(c, r)
    BY <1>1, <1>l, <2>1, <2>2, <2>3 DEF Keeping, LabelFits, Exact, Chosen
  <2>5. Exact(call[c]) => WalksOn(c, r)
    BY <1>7, <1>l, <2>1, <2>3 DEF WalksOn
  <2> QED
    BY <2>1, <2>4, <2>5
<1>8. ASSUME NEW q \in Locals, Loops(c, q, "fallback"), q.pc = "walk", q.i = s,
             q.ticket = call[c].ticket, q.total = call[c].total, picked' = picked,
             Exact(call[c]) => q.idx + Ahead(s) = x /\ q.idx \in Nat
      PROVE  \E r : Becomes(c, r) /\ Keeping(c, r) /\ (Exact(call[c]) => WalksOn(c, r))
  <2>1. CASE s < N
    <3> DEFINE r == [q EXCEPT !.i = @ + 1]
    <3>1. /\ Becomes(c, r) /\ r.pc = "walk" /\ r.i = s + 1 /\ r.ticket = q.ticket
          /\ r.total = q.total /\ r.idx = q.idx
      BY <1>8, <2>1 DEF Loops, Locals
    <3> HIDE DEF r
    <3>2. Exact(call[c]) => r.idx + Ahead(r.i - 1) = r.ticket % Ahead(N)
      BY <1>3, <1>8, <3>1
    <3>3. Exact(call[c]) => r.total = Ahead(N)
      BY <1>1, <1>8, <3>1 DEF Exact
    <3>4. Keeping(c, r)
      BY <1>1, <3>1, <3>2, <3>3 DEF Keeping, LabelFits, Exact, Chosen
    <3>5. WalksOn(c, r)
      BY <1>8, <3>1 DEF WalksOn
    <3> QED
      BY <3>1, <3>4, <3>5
  <2>2. CASE ~(s < N)
    <3>0. s = N
      BY <1>3, <1>w, <2>2
    <3> DEFINE r == [q EXCEPT !.i = 1, !.pc = "fallback"]
    <3>1. Becomes(c, r) /\ r.pc = "fallback"
      BY <1>8, <2>2 DEF Loops, Locals
    <3>2. ~Exact(call[c])
      <4>1. SUFFICES ASSUME Exact(call[c]) PROVE FALSE
        OBVIOUS
      <4>2. q.idx + Ahead(N) = x /\ q.idx \in Nat /\ x < Ahead(N) /\ x \in Nat
        BY <1>6, <1>8, <3>0, <4>1
      <4> QED
        BY <1>4, <4>2
    <3> HIDE DEF r
    <3>3. Keeping(c, r)
      BY <3>1, <3>2 DEF Keeping, LabelFits
    <3> QED
      BY <3>1, <3>2, <3>3
  <2> QED
    BY <2>1, <2>2
<1>9. CASE /\ Eligible(s) /\ ~Hits(s, idx) /\ picked' = picked
           /\ Loops(c, [call[c] EXCEPT !.idx = @ - Weight[s]], "fallback")
  <2> DEFINE q == [call[c] EXCEPT !.idx = @ - Weight[s]]
  <2>1. idx - Weight[s] \in Int
    BY <1>3, <1>l
  <2>2. /\ q \in Locals /\ q.pc = "walk" /\ q.i = s /\ q.ticket = call[c].ticket
        /\ q.total = call[c].total /\ q.idx = idx - Weight[s]
    BY <1>l, <1>1, <2>1 DEF Locals
  <2>3. ASSUME Exact(call[c]) PROVE q.idx + Ahead(s) = x /\ q.idx \in Nat
    <3>1. Load(s) = Weight[s] /\ ~(idx < Weight[s])
      BY <1>5, <1>9 DEF Load, Hits
    <3> HIDE DEF q, x, s, idx
    <3> QED
      BY <1>3, <1>4, <1>6, <2>2, <2>3, <3>1
  <2>4. Loops(c, q, "fallback") /\ picked' = picked
    BY <1>9
  <2> HIDE DEF q
  <2> QED
    BY <1>8, <2>2, <2>3, <2>4
<1>10. CASE ~Eligible(s) /\ Loops(c, call[c], "fallback") /\ picked' = picked
  <2>1. ASSUME Exact(call[c]) PROVE idx + Ahead(s) = x /\ idx \in Nat
    <3>1. Load(s) = 0
      BY <1>5, <1>10 DEF Load
    <3> HIDE DEF x, s, idx
    <3> QED
      BY <1>4, <1>6, <2>1, <3>1
  <2> QED
    BY <1>1, <1>l, <1>8, <1>10, <2>1
<1> QED
  BY <1>7, <1>9, <1>10 DEF Walk

\* leastConn goes on with the first of the healthy servers passed that have the
\* fewest connections.
LEMMA KeepKeeps ==
  ASSUME PickInv, NEW c \in Callers, NEW b, Keeps(c, b), algorithm = "least_conn",
         Chosen(call[c]) => Up # {} /\ b \in 0..call[c].i /\ FewestBefore(b, call[c].i + 1)
  PROVE  \E r : Becomes(c, r) /\ Keeping(c, r)
<1>w. N \in Nat \ {0} /\ Servers = 1..N
  BY WeightAssumption DEF Servers
<1>l. call[c] \in Locals /\ call[c].i \in Servers /\ call[c].i \in Nat
  BY <1>w DEF PickInv, PoolInv, PoolTypeOK, Locals
<1>1. CASE call[c].i = N /\ Returns(c, b, FALSE)
  <2> DEFINE r == [call[c] EXCEPT !.pc = "done", !.srv = b, !.err = FALSE]
  <2>1. Becomes(c, r) /\ r.pc = "done" /\ r.srv = b /\ r.err = FALSE
    BY <1>l, <1>1 DEF Returns, Locals
  <2> HIDE DEF r
  <2>2. Keeping(c, r)
    BY <1>1, <2>1 DEF Keeping, LabelFits, Exact, Chosen
  <2> QED
    BY <2>1, <2>2
<1>2. CASE call[c].i < N
  <2> DEFINE r == [call[c] EXCEPT !.pc = "least", !.i = call[c].i + 1, !.best = b]
  <2>a. call[c].i # N
    BY <1>2, <1>w
  <2>1. Becomes(c, r) /\ r.pc = "least" /\ r.i = call[c].i + 1 /\ r.best = b
    BY <1>l, <2>a DEF Keeps, Locals
  <2>2. Chosen(call[c]) => b < call[c].i + 1
    BY <1>l
  <2> HIDE DEF r
  <2>3. Keeping(c, r)
    BY <2>1, <2>2 DEF Keeping, LabelFits, Exact, Chosen
  <2> QED
    BY <2>1, <2>3
<1> QED
  BY <1>w, <1>l, <1>1, <1>2 DEF Keeps

LEMMA LeastKeeps ==
  ASSUME PickInv, NEW c \in Callers, LabelFits(call[c]), Least(c)
  PROVE  \E r : Becomes(c, r) /\ Keeping(c, r)
<1>w. N \in Nat \ {0} /\ Servers = 1..N
  BY WeightAssumption DEF Servers
<1>l. /\ call[c] \in Locals /\ call[c].i \in Servers /\ call[c].i \in Nat /\ call[c].best \in 0..N
  BY <1>w DEF PickInv, PoolInv, PoolTypeOK, Locals
<1>1. call[c].pc = "least" /\ algorithm = "least_conn"
  BY DEF Least, At, LabelFits
<1> DEFINE s == call[c].i
           b == call[c].best
<1>2. Chosen(call[c]) => Up # {} /\ b < s /\ FewestBefore(b, s)
  BY <1>1 DEF Chosen
<1>3. \A u \in Up : u \in Nat /\ u \in Servers
  BY <1>w DEF Up
<1>4. CASE ~healthy[s] /\ Keeps(c, b)
  <2>1. \A u \in Up : u # s
    BY <1>4 DEF Up
  <2>2. \A u \in Up : (u >= s => u >= s + 1) /\ (u < s + 1 => u < s)
    BY <1>3, <1>l, <2>1
  <2>3. FewestBefore(b, s) => FewestBefore(b, s + 1)
    BY <2>2 DEF FewestBefore
  <2>4. b < s => b \in 0..s
    BY <1>l
  <2> QED
    BY <1>1, <1>2, <1>4, <2>3, <2>4, KeepKeeps
<1>5. CASE healthy[s] /\ b = Nil /\ Keeps(c, s)
  <2>1. s \in Up /\ s # Nil /\ s \in 0..s
    BY <1>w, <1>l, <1>5 DEF Up, Nil
  <2>2. ASSUME FewestBefore(b, s) PROVE FewestBefore(s, s + 1)
    <3>1. \A u \in Up : u >= s
      BY <1>5, <2>2 DEF FewestBefore
    <3>2. \A u \in Up : u < s + 1 => u = s
      BY <1>3, <1>l, <3>1
    <3>3. \A u \in Up : u < s + 1 => Preferred(s, u)
      BY <3>1, <3>2, <1>3, <1>l DEF Preferred
    <3> QED
      BY <2>1, <3>3 DEF FewestBefore
  <2> QED
    BY <1>1, <1>2, <1>5, <2>1, <2>2, KeepKeeps
<1>6. CASE healthy[s] /\ b # Nil /\ Becomes(c, [call[c] EXCEPT !.pc = "conns"])
  <2> DEFINE r == [call[c] EXCEPT !.pc = "conns"]
  <2>1. Becomes(c, r) /\ r.pc = "conns" /\ r.i = s /\ r.best = b
    BY <1>l, <1>6 DEF Locals
  <2> HIDE DEF r
  <2>2. Keeping(c, r)
    BY <1>1, <1>2, <1>6, <2>1 DEF Keeping, LabelFits, Exact, Chosen
  <2> QED
    BY <2>1, <2>2
<1> QED
  BY <1>4, <1>5, <1>6 DEF Least

LEMMA LoadConnsKeeps ==
  ASSUME PickInv, NEW c \in Callers, LabelFits(call[c]), LoadConns(c)
  PROVE  \E r : Becomes(c, r) /\ Keeping(c, r)
<1>l. call[c] \in Locals
  BY DEF PickInv, PoolInv, PoolTypeOK
<1>1. call[c].pc = "conns" /\ algorithm = "least_conn"
  BY DEF LoadConns, At, LabelFits
<1> DEFINE r == [call[c] EXCEPT !.pc = "compare", !.conns = connCount[call[c].i]]
<1>2. /\ Becomes(c, r) /\ r.pc = "compare" /\ r.i = call[c].i /\ r.best = call[c].best
      /\ r.conns = connCount[call[c].i]
  BY <1>l DEF LoadConns, Locals
<1> HIDE DEF r
<1>3. Keeping(c, r)
  BY <1>1, <1>2 DEF Keeping, LabelFits, Exact, Chosen
<1> QED
  BY <1>2, <1>3

\* Only fewer connections win: of equals the first server stays the best.
LEMMA CompareKeeps ==
  ASSUME PickInv, NEW c \in Callers, LabelFits(call[c]), Compare(c)
  PROVE  \E r : Becomes(c, r) /\ Keeping(c, r)
<1>w. N \in Nat \ {0} /\ Servers = 1..N
  BY WeightAssumption DEF Servers
<1>l. /\ call[c] \in Locals /\ call[c].i \in Servers /\ call[c].i \in Nat /\ call[c].best \in 0..N
  BY <1>w DEF PickInv, PoolInv, PoolTypeOK, Locals
<1>1. call[c].pc = "compare" /\ algorithm = "least_conn"
  BY DEF Compare, At, LabelFits
<1>n. call[c].best # Nil
  BY <1>1 DEF PickInv, CallsFit, Fits
<1> DEFINE s == call[c].i
           b == call[c].best
           k == IF call[c].conns < connCount[b] THEN s ELSE b
<1>2. Keeps(c, k)
  BY DEF Compare
<1>3. \A u \in Up : u \in Nat /\ u \in Servers /\ connCount[u] \in Nat
  BY <1>w, PoolBoundsAssumption DEF Up, PickInv, PoolInv, PoolTypeOK
<1>4. ASSUME Chosen(call[c]) PROVE Up # {} /\ k \in 0..s /\ FewestBefore(k, s + 1)
  <2>1. Up # {} /\ b < s /\ FewestBefore(b, s) /\ healthy[s] /\ call[c].conns = connCount[s]
    BY <1>1, <1>4 DEF Chosen
  <2>2. s \in Up /\ b \in Up
    BY <1>l, <1>n, <2>1 DEF Up, FewestBefore
  <2>3. \A u \in Up : u < s => Preferred(b, u)
    <3>1. FewestBefore(b, s) /\ b # Nil
      BY <1>n, <2>1
    <3> HIDE DEF s, b
    <3> QED
      BY <3>1, Zenon DEF FewestBefore
  <2>4. \A u \in Up : u < s + 1 => u < s \/ u = s
    BY <1>3, <1>l
  <2>5. CASE connCount[s] < connCount[b]
    <3>1. k = s /\ s # Nil /\ k \in 0..s
      BY <1>w, <1>l, <2>1, <2>5 DEF Nil
    <3>2. \A u \in Up : u < s + 1 => Preferred(s, u)
      <4> SUFFICES ASSUME NEW u \in Up, u < s + 1
                   PROVE  Preferred(s, u)
        OBVIOUS
      <4>1. connCount[s] \in Nat /\ connCount[b] \in Nat /\ connCount[u] \in Nat /\ s \in Nat
        BY <1>3, <1>l, <2>2
      <4>2. CASE u = s
        BY <4>1, <4>2 DEF Preferred
      <4>3. CASE u < s
        <5>1. connCount[b] < connCount[u] \/ connCount[b] = connCount[u]
          BY <2>3, <4>3 DEF Preferred
        <5> QED
          BY <2>5, <4>1, <5>1 DEF Preferred
      <4> QED
        BY <2>4, <4>2, <4>3
    <3> QED
      BY <2>1, <2>2, <3>1, <3>2 DEF FewestBefore
  <2>6. CASE ~(connCount[s] < connCount[b])
    <3>1. k = b /\ k \in 0..s
      BY <1>l, <2>1, <2>6
    <3>2. Preferred(b, s)
      BY <1>3, <2>1, <2>2, <2>6, <1>l DEF Preferred
    <3>3. \A u \in Up : u < s + 1 => Preferred(b, u)
      BY <2>3, <2>4, <3>2
    <3> QED
      BY <1>n, <2>1, <2>2, <3>1, <3>3 DEF FewestBefore
  <2> QED
    BY <2>5, <2>6
<1> HIDE DEF k
<1> QED
  BY <1>1, <1>2, <1>4, KeepKeeps

\* No undisturbed caller gets to the fallback.
LEMMA FallbackKeeps ==
  ASSUME PickInv, NEW c \in Callers, LabelFits(call[c]), Fallback(c)
  PROVE  \E r : Becomes(c, r) /\ Keeping(c, r)
<1>l. call[c] \in Locals
  BY DEF PickInv, PoolInv, PoolTypeOK
<1>1. call[c].pc = "fallback" /\ ~Exact(call[c])
  BY DEF Fallback, At, Exact
<1>2. ASSUME NEW r, Becomes(c, r), r.pc \in {"done", "fallback"} PROVE Becomes(c, r) /\ Keeping(c, r)
  BY <1>1, <1>2 DEF Keeping, LabelFits
<1>3. ASSUME NEW s, Returns(c, s, FALSE) PROVE \E r : Becomes(c, r) /\ Keeping(c, r)
  <2> DEFINE r == [call[c] EXCEPT !.pc = "done", !.srv = s, !.err = FALSE]
  <2>1. Becomes(c, r) /\ r.pc = "done"
    BY <1>l, <1>3 DEF Returns, Locals
  <2> HIDE DEF r
  <2> QED
    BY <1>2, <2>1
<1>4. ASSUME call[c].i < N, Loops(c, call[c], "done") PROVE \E r : Becomes(c, r) /\ Keeping(c, r)
  <2> DEFINE r == [call[c] EXCEPT !.i = @ + 1]
  <2>1. Becomes(c, r) /\ r.pc = "fallback"
    BY <1>l, <1>1, <1>4 DEF Loops, Locals
  <2> HIDE DEF r
  <2> QED
    BY <1>2, <2>1
<1> QED
  BY <1>3, <1>4 DEF Fallback

\* Each step of Pick between its beginning and its end.
LEMMA PickKeeps ==
  ASSUME PickInv, NEW c \in Callers, LabelFits(call[c]),
         Weigh(c) \/ Index(c) \/ Walk(c) \/ Fallback(c) \/ Least(c) \/ LoadConns(c) \/ Compare(c)
  PROVE  /\ \E r : Becomes(c, r) /\ Keeping(c, r)
         /\ UNCHANGED <<algorithm, healthy, connCount, flips, quiet>>
<1>1. UNCHANGED <<algorithm, healthy, connCount, flips, quiet>>
  BY DEF Weigh, Index, Walk, Fallback, Least, LoadConns, Compare, At, historyVars
<1>2. ASSUME Walk(c) PROVE \E r : Becomes(c, r) /\ Keeping(c, r)
  <2>1. PICK r : Becomes(c, r) /\ Keeping(c, r) /\ (Exact(call[c]) => WalksOn(c, r))
    BY <1>2, WalkKeeps
  <2> QED
    BY <2>1
<1> QED
  BY <1>1, <1>2, WeighKeeps, IndexKeeps, FallbackKeeps, LeastKeeps, LoadConnsKeeps, CompareKeeps

\* While health stays as it is, so do the reference and what it says of a caller.
LEMMA ReferenceStays ==
  ASSUME healthy' = healthy
  PROVE  /\ Up' = Up /\ FirstEntries' = FirstEntries /\ Expanded' = Expanded
         /\ \A i : Ahead(i)' = Ahead(i)
         /\ \A x, s : Falls(x, s)' <=> Falls(x, s)
<1>1. Up' = Up /\ Expanded' = Expanded
  BY DEF Up, Expanded
<1>2. Entries' = Entries
  BY DEF Entries
<1>3. FirstEntries' = FirstEntries
  BY <1>2 DEF FirstEntries
<1>4. \A i : Ahead(i)' = Ahead(i)
  BY <1>3 DEF Ahead
<1>5. \A x, s : Falls(x, s)' <=> Falls(x, s)
  BY <1>4 DEF Falls
<1> QED
  BY <1>1, <1>3, <1>4, <1>5

LEMMA KnownStays ==
  ASSUME healthy' = healthy, algorithm' = algorithm, NEW c, NEW r, call'[c] = r
  PROVE  /\ LabelFits(call[c])' <=> LabelFits(r)
         /\ Exact(call[c])' <=> Exact(r)
         /\ connCount' = connCount => (Chosen(call[c])' <=> Chosen(r))
<1>1. Up' = Up /\ (\A i : Ahead(i)' = Ahead(i)) /\ (\A x, s : Falls(x, s)' <=> Falls(x, s))
  BY ReferenceStays
<1>2. LabelFits(call[c])' <=> LabelFits(r)
  BY DEF LabelFits
<1>3. Exact(call[c])' <=> Exact(r)
  BY <1>1 DEF Exact
<1>4. ASSUME connCount' = connCount PROVE Chosen(call[c])' <=> Chosen(r)
  <2>1. \A b, k : FewestBefore(b, k)' <=> FewestBefore(b, k)
    BY <1>1, <1>4 DEF FewestBefore, Preferred
  <2> QED
    BY <1>1, <1>4, <2>1 DEF Chosen
<1> QED
  BY <1>2, <1>3, <1>4

LEMMA ExactInvStep == PickInv /\ ExactInv /\ [Next]_vars => ExactInv'
<1> SUFFICES ASSUME PickInv, ExactInv, [Next]_vars PROVE ExactInv'
  OBVIOUS
<1>l. call \in [Callers -> Locals] /\ flips \in Nat
  BY PoolBoundsAssumption DEF PickInv, PoolInv, PoolTypeOK
<1>e. /\ quiet \subseteq Callers
      /\ \A c \in Callers : LabelFits(call[c])
      /\ \A c \in Undisturbed : Exact(call[c])
      /\ \A c \in quiet : Chosen(call[c])
      /\ flips = 0 => \A s \in Servers : healthy[s]
  BY DEF ExactInv
\* One caller moves on with locals that fit.
<1>m. ASSUME NEW c \in Callers, NEW r, Becomes(c, r), LabelFits(r),
             UNCHANGED <<algorithm, healthy, flips>>, quiet' \subseteq quiet \cup {c},
             connCount' = connCount \/ quiet' = {c},
             c \in Undisturbed' => Exact(r),
             c \in quiet' => Chosen(call[c])'
      PROVE  ExactInv'
  <2>1. call'[c] = r /\ \A d \in Callers : d # c => call'[d] = call[d]
    BY <1>l, <1>m DEF Becomes
  <2>2. quiet' \subseteq Callers
    BY <1>e, <1>m
  <2>3. Undisturbed' \subseteq Undisturbed \cup {c} /\ Undisturbed' \subseteq Callers
    BY <1>m, <2>2 DEF Undisturbed
  <2>4. ASSUME NEW d \in Callers PROVE LabelFits(call[d])'
    BY <1>e, <1>m, <2>1, <2>4, KnownStays
  <2>5. ASSUME NEW d \in Undisturbed' PROVE Exact(call[d])'
    <3>1. CASE d = c
      BY <1>m, <2>1, <2>5, <3>1, KnownStays
    <3>2. CASE d # c
      <4>1. Exact(call[d]) /\ call'[d] = call[d]
        BY <1>e, <2>1, <2>3, <2>5, <3>2
      <4> QED
        BY <1>m, <4>1, KnownStays
    <3> QED
      BY <3>1, <3>2
  <2>6. ASSUME NEW d \in quiet' PROVE Chosen(call[d])'
    <3>1. CASE d = c
      BY <1>m, <2>6, <3>1
    <3>2. CASE d # c
      <4>1. Chosen(call[d]) /\ call'[d] = call[d] /\ connCount' = connCount
        BY <1>e, <1>m, <2>1, <2>2, <2>6, <3>2
      <4> QED
        BY <1>m, <4>1, KnownStays
    <3> QED
      BY <3>1, <3>2
  <2>7. flips' = 0 => \A s \in Servers : healthy'[s]
    BY <1>e, <1>m
  <2> QED
    BY <2>2, <2>4, <2>5, <2>6, <2>7 DEF ExactInv
\* Nobody moves.
<1>s. ASSUME UNCHANGED <<algorithm, healthy, flips, call>>, quiet' \subseteq quiet,
             connCount' = connCount \/ quiet' = {}
      PROVE  ExactInv'
  <2>1. Undisturbed' \subseteq Undisturbed
    BY <1>s DEF Undisturbed
  <2>2. \A c \in Callers : LabelFits(call[c])'
    BY <1>e, <1>s, KnownStays
  <2>3. ASSUME NEW c \in Undisturbed' PROVE Exact(call[c])'
    BY <1>e, <1>s, <2>1, <2>3, KnownStays
  <2>4. ASSUME NEW c \in quiet' PROVE Chosen(call[c])'
    BY <1>e, <1>s, <2>4, KnownStays
  <2> QED
    BY <1>e, <1>s, <2>2, <2>3, <2>4 DEF ExactInv
<1>1. ASSUME NEW c \in Callers, NEW h, Call(c, h) PROVE ExactInv'
  <2> DEFINE r == [call[c] EXCEPT !.pc = "weigh", !.ticket = h]
  <2>1. /\ call[c].pc = "idle" /\ Becomes(c, r) /\ quiet' = quiet \cup {c}
        /\ UNCHANGED <<algorithm, healthy, flips, connCount>>
    BY <1>1 DEF Call, At
  <2>2. r.pc = "weigh" /\ r.i = 1 /\ r.total = 0
    BY <1>e, <1>l, <2>1 DEF LabelFits, Locals
  <2>3. 1 - 1 = 0 /\ Ahead(0) = 0
    BY AheadGrows
  <2> HIDE DEF r
  <2>4. LabelFits(r) /\ Chosen(r)
    BY <2>2 DEF LabelFits, Chosen
  <2>5. Exact(r)
    BY <2>2, <2>3 DEF Exact
  <2>6. call'[c] = r
    BY <1>l, <2>1 DEF Becomes
  <2>7. Chosen(call[c])'
    BY <2>1, <2>4, <2>6, KnownStays
  <2> QED
    BY <1>m, <2>1, <2>4, <2>5, <2>7
<1>2. ASSUME NEW c \in Callers,
             Weigh(c) \/ Index(c) \/ Walk(c) \/ Fallback(c) \/ Least(c) \/ LoadConns(c) \/ Compare(c)
      PROVE  ExactInv'
  <2>1. LabelFits(call[c])
    BY <1>e
  <2>2. PICK r : Becomes(c, r) /\ Keeping(c, r)
    BY <1>2, <2>1, PickKeeps
  <2>3. UNCHANGED <<algorithm, healthy, connCount, flips, quiet>>
    BY <1>2, <2>1, PickKeeps
  <2>4. Undisturbed' = Undisturbed /\ quiet \subseteq Undisturbed
    BY <2>3 DEF Undisturbed
  <2>5. c \in Undisturbed' => Exact(r)
    BY <1>e, <2>2, <2>4 DEF Keeping
  <2>6. c \in quiet' => Chosen(r)
    BY <1>e, <2>2, <2>3, <2>4 DEF Keeping
  <2>7. call'[c] = r
    BY <1>l, <2>2 DEF Becomes
  <2>8. c \in quiet' => Chosen(call[c])'
    BY <2>3, <2>6, <2>7, KnownStays
  <2>9. LabelFits(r)
    BY <2>2 DEF Keeping
  <2> QED
    BY <1>m, <2>2, <2>3, <2>5, <2>8, <2>9
<1>3. ASSUME NEW c \in Callers, Finish(c) PROVE ExactInv'
  <2>1. Becomes(c, Idle) /\ UNCHANGED <<algorithm, healthy, flips>>
    BY <1>3 DEF Finish, At
  <2>2. quiet' \subseteq quiet \cup {c} /\ (connCount' = connCount \/ quiet' = {c})
    BY <1>3 DEF Finish
  <2>3. LabelFits(Idle) /\ Exact(Idle)
    BY DEF LabelFits, Exact, Idle
  <2>4. call'[c].pc = "idle"
    BY <1>l, <2>1 DEF Becomes, Idle
  <2>5. Chosen(call[c])'
    BY <2>4 DEF Chosen
  <2> QED
    BY <1>m, <2>1, <2>2, <2>3, <2>5
<1>4. ASSUME NEW a, NEW h, SetHealthy(a, h) PROVE ExactInv'
  <2>1. quiet' = {} /\ flips' = flips + 1 /\ call' = call /\ algorithm' = algorithm
    BY <1>4 DEF SetHealthy
  <2>2. flips' # 0
    BY <1>l, <2>1
  <2>3. Undisturbed' = {}
    BY <2>1, <2>2 DEF Undisturbed
  <2>4. \A c \in Callers : LabelFits(call[c])'
    BY <1>e, <2>1 DEF LabelFits
  <2> QED
    BY <2>1, <2>2, <2>3, <2>4 DEF ExactInv
<1>5. ASSUME NEW s \in Servers, DecrConns(s) PROVE ExactInv'
  <2>1. UNCHANGED <<algorithm, healthy, flips, call>> /\ quiet' = {}
    BY <1>5 DEF DecrConns
  <2> QED
    BY <1>s, <2>1
<1>6. CASE UNCHANGED vars
  <2>1. UNCHANGED <<algorithm, healthy, flips, call, quiet, connCount>>
    BY <1>6 DEF vars, historyVars
  <2> QED
    BY <1>s, <2>1
<1> QED
  BY <1>1, <1>2, <1>3, <1>4, <1>5, <1>6 DEF Next, PickStep

LEMMA ExactInvariant == Spec => [](PickInv /\ ExactInv)
<1>1. Init => ExactInv
  BY ExactInvInit
<1>2. PickInv /\ ExactInv /\ [Next]_vars => ExactInv'
  BY ExactInvStep
<1> QED
  BY <1>1, <1>2, PickInvariant, PTL DEF Spec

\* A Pick during which nothing changes gives the answer of the weight-expanded list
\* (backend.go:178) or of the first healthy server with the fewest connections
\* (backend.go:204): for every pool, every weight and any number of callers that
\* interleave their loads, although the code never builds the list and sums, draws
\* and walks in separate loops.
THEOREM PicksMatchReference == Spec => []PickMatchesReference
<1>1. PickInv /\ ExactInv => PickMatchesReference
  <2> SUFFICES ASSUME PickInv, ExactInv, NEW c \in quiet, call[c].pc = "done"
               PROVE  /\ call[c].err <=> Up = {}
                      /\ Up # {} =>
                            IF algorithm = "least_conn"
                            THEN /\ call[c].srv \in Up
                                 /\ \A s \in Up : Preferred(call[c].srv, s)
                            ELSE call[c].srv = Expanded[(call[c].ticket % Len(Expanded)) + 1]
    BY DEF PickMatchesReference, Preferred
  <2>w. N \in Nat \ {0} /\ Servers = 1..N
    BY WeightAssumption DEF Servers
  <2>1. /\ call[c].err <=> Up = {}
        /\ Up # {} => IF algorithm = "least_conn" THEN FewestBefore(call[c].srv, N + 1)
                      ELSE /\ call[c].srv \in Servers
                           /\ Falls(call[c].ticket % Ahead(N), call[c].srv)
    BY DEF ExactInv, Chosen
  <2>2. \A s \in Up : s < N + 1 /\ ~(s >= N + 1)
    BY <2>w DEF Up
  <2>3. ASSUME Up # {}, algorithm = "least_conn"
        PROVE  call[c].srv \in Up /\ \A s \in Up : Preferred(call[c].srv, s)
    <3>1. FewestBefore(call[c].srv, N + 1)
      BY <2>1, <2>3
    <3> QED
      BY <2>2, <2>3, <3>1, Zenon DEF FewestBefore
  <2>4. ASSUME Up # {}, algorithm # "least_conn"
        PROVE  call[c].srv = Expanded[(call[c].ticket % Len(Expanded)) + 1]
    <3>1. call[c].srv \in Servers /\ Falls(call[c].ticket % Ahead(N), call[c].srv)
      BY <2>1, <2>4
    <3>2. Ahead(N) \in Nat /\ Ahead(N) > 0 /\ Len(Expanded) = Ahead(N)
      BY <2>4, ReferenceEmpty, ReferenceLength
    <3>3. call[c].ticket \in Nat
      BY DEF PickInv, PoolInv, PoolTypeOK, ExactInv, Locals
    <3>4. call[c].ticket % Ahead(N) \in Nat
      BY <3>2, <3>3
    <3> QED
      BY <3>1, <3>2, <3>4, ReferenceEntry DEF Falls
  <2> QED
    BY <2>1, <2>3, <2>4
<1> QED
  BY <1>1, ExactInvariant, PTL

-----------------------------------------------------------------------------
(* Round robin shares the packets out by weight                            *)

\* The calls that will return s.
Bound(s) == {c \in Callers : call[c].pc = "walk" /\ Falls(call[c].ticket % Ahead(N), s)}

\* How many of the first r tickets are for s: its weight for each whole round, and
\* the part of its entries that the last round has reached.
Reached(x, s) ==
    IF x <= Ahead(s - 1) THEN 0 ELSE IF x < Ahead(s) THEN x - Ahead(s - 1) ELSE Weight[s]

Share(r, s) == (r \div Ahead(N)) * Weight[s] + Reached(r % Ahead(N), s)

\* Every ticket drawn has been answered, or is about to be, by the server it is for.
SharesInv ==
    /\ picked \in [Servers -> Nat]
    /\ algorithm = "round_robin" /\ flips = 0
         => \A s \in Servers : picked[s] + Cardinality(Bound(s)) = Share(rrIndex, s)

\* The next number's quotient and remainder.
LEMMA NextRemainder ==
  ASSUME NEW r \in Nat, NEW t \in Nat \ {0}
  PROVE  /\ r \div t \in Nat /\ r % t \in Nat /\ r % t < t
         /\ IF (r % t) + 1 < t THEN (r + 1) \div t = r \div t /\ (r + 1) % t = (r % t) + 1
            ELSE r % t = t - 1 /\ (r + 1) \div t = (r \div t) + 1 /\ (r + 1) % t = 0
<1>1. r \div t \in Nat /\ r % t \in Nat /\ r % t < t
  OBVIOUS
<1>2. IF (r % t) + 1 < t THEN (r + 1) \div t = r \div t /\ (r + 1) % t = (r % t) + 1
      ELSE (r + 1) \div t = (r \div t) + 1 /\ (r + 1) % t = 0
  OBVIOUS
<1>3. ~((r % t) + 1 < t) => r % t = t - 1
  BY <1>1
<1> QED
  BY <1>1, <1>2, <1>3

LEMMA OneRoundMore ==
  ASSUME NEW q \in Nat, NEW w \in Nat
  PROVE  q * w \in Nat /\ (q + 1) * w = q * w + w
  OBVIOUS

\* With all servers healthy, each has as many entries as its weight says.
LEMMA FullReference ==
  ASSUME \A s \in Servers : healthy[s]
  PROVE  /\ Ahead(N) \in Nat \ {0}
         /\ \A s \in Servers : /\ Weight[s] \in Nat \ {0} /\ Ahead(s - 1) \in Nat
                               /\ Ahead(s) = Ahead(s - 1) + Weight[s] /\ Ahead(s) <= Ahead(N)
<1>w. N \in Nat \ {0} /\ Servers = 1..N /\ Weight \in [Servers -> Nat \ {0}] /\ 1 \in Servers /\ N \in 0..N
  BY WeightAssumption DEF Servers
<1>1. Up # {}
  BY <1>w DEF Up
<1>2. Ahead(N) \in Nat \ {0}
  BY <1>1, <1>w, ReferenceEmpty, AheadGrows
<1>3. ASSUME NEW s \in Servers
      PROVE  /\ Weight[s] \in Nat \ {0} /\ Ahead(s - 1) \in Nat
             /\ Ahead(s) = Ahead(s - 1) + Weight[s] /\ Ahead(s) <= Ahead(N)
  <2>1. s \in 0..N /\ s - 1 \in 0..N /\ s <= N
    BY <1>w
  <2>2. Load(s) = Weight[s]
    BY DEF Load
  <2> QED
    BY <1>w, <2>1, <2>2, AheadGrows, AheadMonotone
<1> QED
  BY <1>2, <1>3

\* A ticket more is one more for the server in whose share it falls.
LEMMA ShareStep ==
  ASSUME \A s \in Servers : healthy[s], NEW r \in Nat, NEW s \in Servers
  PROVE  /\ Share(r, s) \in Nat
         /\ Share(r + 1, s) = Share(r, s) + (IF Falls(r % Ahead(N), s) THEN 1 ELSE 0)
<1> DEFINE t == Ahead(N)
           q == r \div t
           x == r % t
           a == Ahead(s - 1)
           w == Weight[s]
<1>1. /\ t \in Nat \ {0} /\ w \in Nat \ {0} /\ a \in Nat
      /\ Ahead(s) = a + w /\ a + w <= t
  BY FullReference
<1>2. /\ q \in Nat /\ x \in Nat /\ x < t
      /\ IF x + 1 < t THEN (r + 1) \div t = q /\ (r + 1) % t = x + 1
         ELSE x = t - 1 /\ (r + 1) \div t = q + 1 /\ (r + 1) % t = 0
  BY <1>1, NextRemainder
<1>3. q * w \in Nat /\ (q + 1) * w = q * w + w
  BY <1>1, <1>2, OneRoundMore
<1>4. Share(r, s) = q * w + Reached(x, s)
  BY DEF Share
<1>5. Share(r + 1, s) = ((r + 1) \div t) * w + Reached((r + 1) % t, s)
  BY DEF Share
<1>6. Falls(x, s) <=> a <= x /\ x < a + w
  BY <1>1 DEF Falls
<1>7. \A y \in Nat : Reached(y, s) = IF y <= a THEN 0 ELSE IF y < a + w THEN y - a ELSE w
  BY <1>1 DEF Reached
<1>8. Reached(x, s) \in Nat /\ Reached(0, s) = 0
  <2>1. 0 \in Nat /\ 0 <= a
    BY <1>1
  <2>2. Reached(0, s) = 0
    BY <1>7, <2>1
  <2>3. Reached(x, s) = IF x <= a THEN 0 ELSE IF x < a + w THEN x - a ELSE w
    BY <1>2, <1>7
  <2> HIDE DEF t, q, x, a, w
  <2> QED
    BY <1>1, <1>2, <2>2, <2>3
<1> HIDE DEF t, q, x, a, w
<1>9. CASE x + 1 < t
  <2>1. Share(r + 1, s) = q * w + Reached(x + 1, s)
    BY <1>2, <1>5, <1>9
  <2>2. x + 1 \in Nat
    BY <1>2
  <2>3. /\ Reached(x + 1, s) = IF x + 1 <= a THEN 0 ELSE IF x + 1 < a + w THEN (x + 1) - a ELSE w
        /\ Reached(x, s) = IF x <= a THEN 0 ELSE IF x < a + w THEN x - a ELSE w
    BY <1>2, <1>7, <2>2
  <2>4. Reached(x + 1, s) = Reached(x, s) + (IF Falls(x, s) THEN 1 ELSE 0)
    BY <1>1, <1>2, <1>6, <2>3
  <2>5. Share(r + 1, s) = Share(r, s) + (IF Falls(x, s) THEN 1 ELSE 0) /\ Share(r, s) \in Nat
    BY <1>3, <1>4, <1>8, <2>1, <2>4
  <2> QED
    BY <2>5 DEF x, t
<1>10. CASE ~(x + 1 < t)
  <2>1. Share(r + 1, s) = (q * w + w) + 0
    BY <1>2, <1>3, <1>5, <1>8, <1>10
  <2>2. Reached(x, s) = IF x <= a THEN 0 ELSE IF x < a + w THEN x - a ELSE w
    BY <1>2, <1>7
  <2>3. w = Reached(x, s) + (IF Falls(x, s) THEN 1 ELSE 0)
    BY <1>1, <1>2, <1>6, <1>10, <2>2
  <2>4. Share(r + 1, s) = Share(r, s) + (IF Falls(x, s) THEN 1 ELSE 0) /\ Share(r, s) \in Nat
    BY <1>1, <1>3, <1>4, <1>8, <2>1, <2>3
  <2> QED
    BY <2>4 DEF x, t
<1> QED
  BY <1>9, <1>10

\* A ticket is for one server only.
LEMMA FallsOnce ==
  ASSUME NEW x \in Nat, NEW s \in Servers, NEW t \in Servers, Falls(x, s), Falls(x, t)
  PROVE  s = t
<1>w. N \in Nat \ {0} /\ Servers = 1..N
  BY WeightAssumption DEF Servers
<1>1. ASSUME NEW u \in Servers, NEW v \in Servers, Falls(x, u), Falls(x, v), u < v PROVE FALSE
  <2>1. u \in 0..N /\ v - 1 \in 0..N /\ u <= v - 1
    BY <1>w, <1>1
  <2>2. Ahead(u) <= Ahead(v - 1) /\ Ahead(u) \in Nat /\ Ahead(v - 1) \in Nat
    BY <2>1, AheadMonotone, AheadGrows
  <2>3. x < Ahead(u) /\ Ahead(v - 1) <= x
    BY <1>1 DEF Falls
  <2> QED
    BY <2>2, <2>3
<1>2. ~(s < t) /\ ~(t < s)
  BY <1>1
<1> QED
  BY <1>2, <1>w

LEMMA BoundFinite == \A s : IsFiniteSet(Bound(s)) /\ Cardinality(Bound(s)) \in Nat
<1>1. \A s : Bound(s) \subseteq Callers
  BY DEF Bound
<1> QED
  BY <1>1, CallersAssumption, FS_Subset, FS_CardinalityType

LEMMA SharesInvInit == Init => SharesInv
<1> SUFFICES ASSUME Init PROVE SharesInv
  OBVIOUS
<1>1. /\ picked = [s \in Servers |-> 0] /\ rrIndex = 0 /\ \A s \in Servers : healthy[s]
      /\ \A c \in Callers : call[c].pc = "idle"
  BY DEF Init, Idle
<1>2. ASSUME NEW s \in Servers PROVE picked[s] + Cardinality(Bound(s)) = Share(rrIndex, s)
  <2>1. Bound(s) = {}
    BY <1>1 DEF Bound
  <2>2. Cardinality(Bound(s)) = 0
    BY <2>1, FS_EmptySet
  <2>3. Ahead(N) \in Nat \ {0} /\ Weight[s] \in Nat /\ Ahead(s - 1) \in Nat
    BY <1>1, FullReference
  <2>4. 0 \div Ahead(N) = 0 /\ 0 % Ahead(N) = 0
    BY <2>3
  <2>5. Reached(0, s) = 0
    BY <2>3 DEF Reached
  <2>6. Share(0, s) = 0 * Weight[s] + 0
    BY <2>4, <2>5 DEF Share
  <2> QED
    BY <1>1, <2>2, <2>3, <2>6
<1> QED
  BY <1>1, <1>2 DEF SharesInv

\* Of the steps of Pick only the draw of a ticket and the walk's end count.
LEMMA OtherStepsCountNothing ==
  ASSUME PickInv, ExactInv, algorithm = "round_robin", flips = 0, NEW c \in Callers, PickStep(c),
         ~Index(c), ~Walk(c)
  PROVE  /\ picked' = picked /\ rrIndex' = rrIndex /\ healthy' = healthy
         /\ \E r : Becomes(c, r) /\ r.pc # "walk"
         /\ call[c].pc # "walk"
<1>l. call[c] \in Locals
  BY DEF PickInv, PoolInv, PoolTypeOK
<1>f. LabelFits(call[c]) /\ Exact(call[c])
  BY DEF ExactInv, Undisturbed
<1>1. ASSUME NEW h, Call(c, h) PROVE /\ picked' = picked /\ rrIndex' = rrIndex /\ healthy' = healthy
                                     /\ \E r : Becomes(c, r) /\ r.pc # "walk"
                                     /\ call[c].pc # "walk"
  <2> DEFINE r == [call[c] EXCEPT !.pc = "weigh", !.ticket = h]
  <2>1. Becomes(c, r) /\ r.pc = "weigh"
    BY <1>1, <1>l DEF Call, Locals
  <2>2. picked' = picked /\ rrIndex' = rrIndex /\ healthy' = healthy /\ call[c].pc # "walk"
    BY <1>1 DEF Call, At
  <2> HIDE DEF r
  <2> QED
    BY <2>1, <2>2
<1>2. CASE Finish(c)
  BY <1>2 DEF Finish, At, Idle
<1>3. CASE Weigh(c)
  <2>1. call[c].pc = "weigh" /\ rrIndex' = rrIndex /\ healthy' = healthy
    BY <1>3 DEF Weigh, At
  <2>2. CASE Returns(c, Nil, TRUE)
    <3> DEFINE r == [call[c] EXCEPT !.pc = "done", !.srv = Nil, !.err = TRUE]
    <3>1. Becomes(c, r) /\ r.pc = "done" /\ picked' = picked
      BY <1>l, <2>2 DEF Returns, Locals
    <3> HIDE DEF r
    <3> QED
      BY <2>1, <3>1
  <2>3. ASSUME NEW t, picked' = picked, Loops(c, [call[c] EXCEPT !.total = t], "index")
        PROVE  picked' = picked /\ \E r : Becomes(c, r) /\ r.pc # "walk"
    <3> DEFINE q == [call[c] EXCEPT !.total = t]
    <3>1. q.pc = "weigh" /\ Loops(c, q, "index") /\ "pc" \in DOMAIN q /\ q = [f \in DOMAIN q |-> q[f]]
      BY <1>l, <2>1, <2>3 DEF Locals
    <3> HIDE DEF q
    <3> DEFINE u == [q EXCEPT !.i = @ + 1]
               v == [q EXCEPT !.i = 1, !.pc = "index"]
    <3>2. u.pc = "weigh" /\ v.pc = "index"
      BY <3>1
    <3>3. Becomes(c, u) \/ Becomes(c, v)
      BY <3>1 DEF Loops
    <3> HIDE DEF u, v
    <3> QED
      BY <2>3, <3>2, <3>3
  <2> QED
    BY <1>3, <2>1, <2>2, <2>3 DEF Weigh
<1>4. ~Fallback(c) /\ ~Least(c) /\ ~LoadConns(c) /\ ~Compare(c)
  BY <1>f DEF Fallback, Least, LoadConns, Compare, At, Exact, LabelFits
<1> QED
  BY <1>1, <1>2, <1>3, <1>4 DEF PickStep

\* How one caller's step changes the calls that will return s.
LEMMA BoundStep ==
  ASSUME PickInv, healthy' = healthy, NEW c \in Callers, NEW r, Becomes(c, r), NEW s
  PROVE  Bound(s)' = IF r.pc = "walk" /\ Falls(r.ticket % Ahead(N), s) THEN Bound(s) \cup {c}
                     ELSE Bound(s) \ {c}
<1>1. call'[c] = r /\ \A d \in Callers : d # c => call'[d] = call[d]
  BY DEF PickInv, PoolInv, PoolTypeOK, Becomes
<1>2. \A i : Ahead(i)' = Ahead(i)
  BY ReferenceStays
<1>3. \A x : Falls(x, s)' <=> Falls(x, s)
  BY ReferenceStays
<1>4. \A d \in Callers : d \in Bound(s)' <=> call'[d].pc = "walk" /\ Falls(call'[d].ticket % Ahead(N), s)
  BY <1>2, <1>3 DEF Bound
<1>5. \A d \in Callers : d \in Bound(s) <=> call[d].pc = "walk" /\ Falls(call[d].ticket % Ahead(N), s)
  BY DEF Bound
<1>6. Bound(s)' \subseteq Callers /\ Bound(s) \subseteq Callers
  BY DEF Bound
<1> QED
  BY <1>1, <1>4, <1>5, <1>6

LEMMA SharesInvStep == PickInv /\ ExactInv /\ SharesInv /\ [Next]_vars => SharesInv'
<1> SUFFICES ASSUME PickInv, ExactInv, SharesInv, [Next]_vars PROVE SharesInv'
  OBVIOUS
<1>t. flips \in Nat /\ rrIndex \in Nat /\ call \in [Callers -> Locals]
  BY PoolBoundsAssumption DEF PickInv, PoolInv, PoolTypeOK
<1>p. picked \in [Servers -> Nat]
  BY DEF SharesInv
<1>1. picked' \in [Servers -> Nat]
  <2>1. ASSUME NEW c, NEW s, NEW e, Returns(c, s, e) PROVE picked' \in [Servers -> Nat]
    <3>1. picked' = picked \/ picked' = [picked EXCEPT ![s] = @ + 1]
      BY <2>1 DEF Returns
    <3>2. CASE s \in Servers
      BY <1>p, <3>1, <3>2
    <3>3. CASE s \notin Servers
      BY <1>p, <3>1, <3>3
    <3> QED
      BY <3>2, <3>3
  <2>2. ASSUME NEW c, NEW b, Keeps(c, b) PROVE picked' \in [Servers -> Nat]
    BY <1>p, <2>1, <2>2 DEF Keeps
  <2>3. CASE picked' = picked
    BY <1>p, <2>3
  <2> QED
    BY <2>1, <2>2, <2>3 DEF Next, PickStep, Call, Weigh, Index, Walk, Fallback, Least, LoadConns, Compare,
                            Finish, SetHealthy, DecrConns, vars, historyVars
<1> SUFFICES ASSUME algorithm' = "round_robin", flips' = 0, NEW s \in Servers
             PROVE  (picked[s] + Cardinality(Bound(s)))' = Share(rrIndex, s)'
  BY <1>1 DEF SharesInv
<1>2. ASSUME NEW a, NEW h, SetHealthy(a, h) PROVE FALSE
  <2>1. flips' = flips + 1
    BY <1>2 DEF SetHealthy
  <2> QED
    BY <1>t, <2>1
<1>3. UNCHANGED <<algorithm, healthy, flips>>
  BY <1>2 DEF Next, PickStep, Call, Weigh, Index, Walk, Fallback, Least, LoadConns, Compare,
              Finish, At, DecrConns, vars, historyVars
<1>4. /\ algorithm = "round_robin" /\ flips = 0 /\ \A u \in Servers : healthy[u]
      /\ picked[s] + Cardinality(Bound(s)) = Share(rrIndex, s)
  BY <1>3 DEF SharesInv, ExactInv
<1>5. \A x : Share(x, s)' = Share(x, s)
  BY <1>3, ReferenceStays DEF Share, Reached
<1>6. picked[s] \in Nat /\ Cardinality(Bound(s)) \in Nat /\ IsFiniteSet(Bound(s)) /\ Share(rrIndex, s) \in Nat
  BY <1>p, <1>4, <1>t, BoundFinite, ShareStep
<1> HIDE DEF SharesInv
\* A ticket is drawn.
<1>7. ASSUME NEW c \in Callers, Index(c) PROVE (picked[s] + Cardinality(Bound(s)))' = Share(rrIndex, s)'
  <2>1. call[c].pc = "index" /\ call[c].total \in Nat \ {0} /\ picked' = picked
    BY <1>7, IndexDraws DEF Index
  <2>2. rrIndex' = rrIndex + 1 /\ Walks(c, rrIndex, rrIndex % call[c].total)
    BY <1>4, <1>7, IndexDraws
  <2> DEFINE r == [call[c] EXCEPT !.pc = "walk", !.ticket = rrIndex, !.idx = rrIndex % call[c].total]
  <2>3. Becomes(c, r) /\ r.pc = "walk" /\ r.ticket = rrIndex
    BY <1>t, <2>2 DEF Walks, Locals
  <2> HIDE DEF r
  <2>4. Bound(s)' = IF Falls(rrIndex % Ahead(N), s) THEN Bound(s) \cup {c} ELSE Bound(s) \ {c}
    BY <1>3, <2>3, BoundStep
  <2>5. c \notin Bound(s)
    BY <2>1 DEF Bound
  <2>6. Cardinality(Bound(s)') = Cardinality(Bound(s)) + (IF Falls(rrIndex % Ahead(N), s) THEN 1 ELSE 0)
    <3>1. CASE Falls(rrIndex % Ahead(N), s)
      BY <1>6, <2>4, <2>5, <3>1, FS_AddElement
    <3>2. CASE ~Falls(rrIndex % Ahead(N), s)
      <4>1. Bound(s)' = Bound(s)
        BY <2>4, <2>5, <3>2
      <4> QED
        BY <1>6, <3>2, <4>1
    <3> QED
      BY <3>1, <3>2
  <2>7. Share(rrIndex + 1, s) = Share(rrIndex, s) + (IF Falls(rrIndex % Ahead(N), s) THEN 1 ELSE 0)
    BY <1>4, <1>t, ShareStep
  <2>8. Share(rrIndex, s)' = Share(rrIndex + 1, s)
    BY <1>5, <2>2
  <2>9. picked'[s] + Cardinality(Bound(s)') = Share(rrIndex + 1, s)
    BY <1>4, <1>6, <2>1, <2>6, <2>7
  <2> QED
    BY <2>8, <2>9
\* A walk goes on or ends.
<1>8. ASSUME NEW c \in Callers, Walk(c) PROVE (picked[s] + Cardinality(Bound(s)))' = Share(rrIndex, s)'
  <2> DEFINE x == call[c].ticket % Ahead(N)
  <2>1. /\ call[c].pc = "walk" /\ rrIndex' = rrIndex
        /\ LabelFits(call[c]) /\ Exact(call[c])
    BY <1>4, <1>8 DEF Walk, At, ExactInv, Undisturbed
  <2>2. PICK r : Becomes(c, r) /\ Keeping(c, r) /\ (Exact(call[c]) => WalksOn(c, r))
    BY <1>8, <2>1, WalkKeeps
  <2>3. Bound(s)' = IF r.pc = "walk" /\ Falls(r.ticket % Ahead(N), s) THEN Bound(s) \cup {c}
                    ELSE Bound(s) \ {c}
    BY <1>3, <2>2, BoundStep
  <2>4. c \in Bound(s) <=> Falls(x, s)
    BY <2>1 DEF Bound
  <2>5. x \in Nat
    <3>1. Ahead(N) \in Nat \ {0} /\ call[c].ticket \in Nat
      BY <1>4, <1>t, FullReference DEF Locals
    <3> QED
      BY <3>1
  <2> HIDE DEF x
  <2>6. picked'[s] + Cardinality(Bound(s)') = picked[s] + Cardinality(Bound(s))
    <3>1. CASE r.pc = "walk" /\ r.ticket = call[c].ticket /\ picked' = picked
      <4>1. Bound(s)' = Bound(s)
        BY <2>3, <2>4, <3>1 DEF x
      <4> QED
        BY <3>1, <4>1
    <3>2. CASE /\ r.pc = "done" /\ call[c].i \in Servers /\ Falls(x, call[c].i)
               /\ Returns(c, call[c].i, FALSE)
      <4>1. call[c].i # Nil
        BY <3>2, WeightAssumption DEF Servers, Nil
      <4>2. picked' = [picked EXCEPT ![call[c].i] = @ + 1]
        BY <1>4, <3>2, <4>1 DEF Returns
      <4>3. Bound(s)' = Bound(s) \ {c}
        BY <2>3, <3>2
      <4>4. CASE s = call[c].i
        <5>1. c \in Bound(s) /\ picked'[s] = picked[s] + 1
          BY <1>p, <2>4, <3>2, <4>2, <4>4
        <5>2. Cardinality(Bound(s) \ {c}) = Cardinality(Bound(s)) - 1
          BY <1>6, <5>1, FS_RemoveElement
        <5> QED
          BY <1>6, <4>3, <5>1, <5>2
      <4>5. CASE s # call[c].i
        <5>1. c \notin Bound(s) /\ picked'[s] = picked[s]
          BY <1>p, <2>4, <2>5, <3>2, <4>2, <4>5, FallsOnce
        <5>2. Bound(s)' = Bound(s)
          BY <4>3, <5>1
        <5> QED
          BY <5>1, <5>2
      <4> QED
        BY <4>4, <4>5
    <3>3. WalksOn(c, r)
      BY <2>1, <2>2
    <3> QED
      BY <3>1, <3>2, <3>3 DEF WalksOn, x
  <2>7. Share(rrIndex, s)' = Share(rrIndex, s)
    BY <1>5, <2>1
  <2> QED
    BY <1>4, <2>6, <2>7
<1>9. ASSUME NEW c \in Callers, PickStep(c), ~Index(c), ~Walk(c)
      PROVE  (picked[s] + Cardinality(Bound(s)))' = Share(rrIndex, s)'
  <2>1. picked' = picked /\ rrIndex' = rrIndex /\ call[c].pc # "walk"
    BY <1>4, <1>9, OtherStepsCountNothing
  <2>2. PICK r : Becomes(c, r) /\ r.pc # "walk"
    BY <1>4, <1>9, OtherStepsCountNothing
  <2>3. Bound(s)' = Bound(s) \ {c}
    BY <1>3, <2>2, BoundStep
  <2>4. c \notin Bound(s)
    BY <2>1 DEF Bound
  <2>5. Bound(s)' = Bound(s)
    BY <2>3, <2>4
  <2>6. Share(rrIndex, s)' = Share(rrIndex, s)
    BY <1>5, <2>1
  <2> QED
    BY <1>4, <2>1, <2>5, <2>6
<1>10. CASE UNCHANGED <<call, picked, rrIndex>>
  <2>1. Bound(s)' = Bound(s)
    BY <1>3, <1>10, ReferenceStays DEF Bound
  <2>2. Share(rrIndex, s)' = Share(rrIndex, s)
    BY <1>5, <1>10
  <2> QED
    BY <1>4, <1>10, <2>1, <2>2
<1> QED
  BY <1>2, <1>7, <1>8, <1>9, <1>10 DEF Next, DecrConns, vars, historyVars

\* While health is constant, round robin gives each server its weight's share of the
\* packets, whole round by whole round (backend.go:143): however many callers draw
\* tickets and walk the list at the same time, none is counted twice or passed over.
THEOREM RoundRobinIsExact == Spec => []RoundRobinExact
<1>1. PickInv /\ ExactInv /\ SharesInv => RoundRobinExact
  <2> SUFFICES ASSUME PickInv, ExactInv, SharesInv, algorithm = "round_robin", flips = 0,
                      Picking = {}, rrIndex % Len(Expanded) = 0, NEW s \in Servers
               PROVE  picked[s] = (rrIndex \div Len(Expanded)) * Weight[s]
    BY DEF RoundRobinExact
  <2>1. Len(Expanded) = Ahead(N)
    BY ReferenceLength
  <2>2. Bound(s) = {}
    BY DEF Bound, Picking
  <2>3. Cardinality(Bound(s)) = 0
    BY <2>2, FS_EmptySet
  <2>4. picked[s] + Cardinality(Bound(s)) = Share(rrIndex, s) /\ picked[s] \in Nat
    BY DEF SharesInv
  <2>5. Ahead(N) \in Nat \ {0} /\ Weight[s] \in Nat /\ Ahead(s - 1) \in Nat
    BY FullReference DEF ExactInv
  <2>6. Reached(0, s) = 0
    BY <2>5 DEF Reached
  <2>7. Share(rrIndex, s) = (rrIndex \div Ahead(N)) * Weight[s] + 0
    BY <2>1, <2>6 DEF Share
  <2>8. rrIndex \in Nat
    BY PoolBoundsAssumption DEF PickInv, PoolInv, PoolTypeOK
  <2>9. rrIndex \div Ahead(N) \in Nat
    BY <2>5, <2>8, NextRemainder
  <2>10. (rrIndex \div Ahead(N)) * Weight[s] \in Nat
    BY <2>5, <2>9, OneRoundMore
  <2> QED
    BY <2>1, <2>3, <2>4, <2>7, <2>10
<1>2. PickInv /\ ExactInv /\ SharesInv /\ [Next]_vars => SharesInv'
  BY SharesInvStep
<1> QED
  BY <1>1, <1>2, SharesInvInit, ExactInvariant, PTL DEF Spec
=============================================================================

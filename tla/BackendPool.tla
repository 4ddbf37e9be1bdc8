---------------------------- MODULE BackendPool -----------------------------
(***************************************************************************)
(* internal/backend/backend.go: Pool.Pick atomic load by atomic load, for  *)
(* all four algorithms, with SetHealthy and the connection counts changing *)
(* between any two loads.  Forward uses an abstract Pick instead.          *)
(*                                                                         *)
(* Servers are numbered in the order of the configuration.  The FNV hash   *)
(* of a client's address is any of HashCount unsigned values.              *)
(***************************************************************************)
EXTENDS Integers, Sequences, FiniteSets, SequencesExt

CONSTANTS
    N,            \* servers of the pool
    Weight,       \* Server.Weight, by number
    AddressLists, \* the possible lists of server addresses
    Callers,      \* goroutines calling Pick
    HashCount,    \* values of the hash: 2^32
    IntLimit,     \* an int lies between -IntLimit and IntLimit - 1: 2^63
    MaxTickets,   \* bound: round-robin picks
    MaxFlips,     \* bound: calls of SetHealthy that change something
    MaxConns      \* bound: connCount

Servers == 1..N
Nil     == 0   \* the nil *Server

ASSUME WeightAssumption == N \in Nat \ {0} /\ Weight \in [Servers -> Nat \ {0}]
ASSUME AddressAssumption == \A l \in AddressLists : l \in Seq(STRING) /\ Len(l) = N
ASSUME CallersAssumption == IsFiniteSet(Callers)
ASSUME WidthAssumption == {HashCount, IntLimit} \subseteq Nat \ {0}
ASSUME WideIntAssumption == HashCount <= IntLimit /\ MaxTickets <= IntLimit
ASSUME PoolBoundsAssumption == {MaxTickets, MaxFlips, MaxConns} \subseteq Nat

VARIABLES
    algorithm,  \* p.algorithm
    address,    \* Server.Address
    healthy,    \* Server.Healthy
    connCount,  \* Server.connCount
    rrIndex,    \* p.rrIndex
    call,       \* each caller's place in Pick and its locals
    flips,      \* health changes so far
    steady,     \* history: servers healthy since the caller's Pick began
    seen,       \* history: servers healthy at some moment of it
    heard,      \* history: addresses whose last report was good at some moment of it
    quiet,      \* history: callers during whose Pick nothing changed
    reported,   \* history: addresses whose last report was good
    picked      \* history: how often round robin returned each server

historyVars == <<steady, seen, heard, quiet, reported, picked>>
vars == <<algorithm, address, healthy, connCount, rrIndex, call, flips, historyVars>>

Algorithms == {"round_robin", "least_conn", "random", "hash"}

\* The locals of Pick: the loop index, the sums and the result.
Locals == [pc : {"idle", "weigh", "index", "walk", "fallback", "least", "conns", "compare",
                 "done"},
           i : Servers, total : Nat, ticket : Nat, idx : Int, best : 0..N,
           conns : 0..MaxConns, srv : 0..N, err : BOOLEAN]

Idle == [pc |-> "idle", i |-> 1, total |-> 0, ticket |-> 0, idx |-> 0, best |-> Nil,
         conns |-> 0, srv |-> Nil, err |-> FALSE]

Up        == {s \in Servers : healthy[s]}
Picking   == {c \in Callers : call[c].pc \notin {"idle", "done"}}
Addresses == UNION {ToSet(l) : l \in AddressLists}

\* Integer conversion int(u), and the % of Go, which keeps the dividend's sign.
Truncated(u, limit) ==
    LET v == u % (2 * limit) IN IF v >= limit THEN v - 2 * limit ELSE v
ToIntNarrow(u) == Truncated(u, HashCount \div 2)
ToInt(u) == Truncated(u, IntLimit)
GoMod(a, b) == IF a >= 0 THEN a % b ELSE -((-a) % b)

PoolTypeOK ==
    /\ algorithm \in Algorithms
    /\ address \in AddressLists
    /\ healthy \in [Servers -> BOOLEAN]
    /\ connCount \in [Servers -> 0..MaxConns]
    /\ rrIndex \in 0..MaxTickets
    /\ call \in [Callers -> Locals]
    /\ \A c \in Callers : call[c].pc \in {"index", "walk"} =>
                              call[c].total > 0 /\ call[c].idx \in 0..(call[c].total - 1)
    /\ flips \in 0..MaxFlips

\* NewPool: servers start healthy and uncounted.
Init ==
    /\ algorithm \in Algorithms
    /\ address \in AddressLists
    /\ healthy = [s \in Servers |-> TRUE]
    /\ connCount = [s \in Servers |-> 0]
    /\ rrIndex = 0
    /\ call = [c \in Callers |-> Idle]
    /\ flips = 0
    /\ steady = [c \in Callers |-> {}]
    /\ seen = [c \in Callers |-> {}]
    /\ heard = [c \in Callers |-> {}]
    /\ quiet = Callers
    /\ reported = ToSet(address)
    /\ picked = [s \in Servers |-> 0]

\* serverMap: the last of several servers with one address wins.
ServerByAddrFirst(a) == CHOOSE s \in Servers : /\ address[s] = a
                                               /\ \A t \in Servers : address[t] = a => s <= t
ServerByAddr(a) == CHOOSE s \in Servers : /\ address[s] = a
                                          /\ \A t \in Servers : address[t] = a => t <= s

-----------------------------------------------------------------------------
(* Pick                                                                    *)

At(c, l) ==
    /\ call[c].pc = l
    /\ UNCHANGED <<algorithm, address, healthy, flips, reported>>

Becomes(c, r) == call' = [call EXCEPT ![c] = r]

Returns(c, s, err) ==
    /\ Becomes(c, [call[c] EXCEPT !.pc = "done", !.srv = s, !.err = err])
    /\ picked' = IF algorithm = "round_robin" /\ s # Nil
                 THEN [picked EXCEPT ![s] = @ + 1] ELSE picked

\* On to the loop's next server with the locals r, or to the label after the loop.
Loops(c, r, after) ==
    Becomes(c, IF r.i < N THEN [r EXCEPT !.i = @ + 1]
                          ELSE [r EXCEPT !.i = 1, !.pc = after])

\* Pick is called for a client whose address has hash h.
Call(c, h) ==
    /\ At(c, "idle")
    /\ algorithm # "hash" => h = 0
    /\ algorithm = "round_robin" =>
          rrIndex + Cardinality({d \in Picking : call[d].pc \in {"weigh", "index"}}) < MaxTickets
    /\ Becomes(c, [call[c] EXCEPT !.pc = "weigh", !.ticket = h])
    /\ steady' = [steady EXCEPT ![c] = Up]
    /\ seen' = [seen EXCEPT ![c] = Up]
    /\ heard' = [heard EXCEPT ![c] = reported]
    /\ quiet' = quiet \cup {c}
    /\ UNCHANGED <<connCount, rrIndex, picked>>

\* One load of Healthy; defaults has made every weight positive.
EligibleByWeight(s) == Weight[s] > 0
Eligible(s) == healthy[s] /\ Weight[s] > 0

\* The total weight of the eligible servers; 0 is an error.
Weigh(c) ==
    LET s == call[c].i
        t == call[c].total + (IF Eligible(s) THEN Weight[s] ELSE 0)
    IN  /\ At(c, "weigh")
        /\ \/ /\ s < N \/ t > 0
              /\ Loops(c, [call[c] EXCEPT !.total = t],
                       IF algorithm = "least_conn" THEN "least" ELSE "index")
              /\ UNCHANGED picked
           \/ /\ s = N /\ t = 0
              /\ Returns(c, Nil, TRUE)
        /\ UNCHANGED <<connCount, rrIndex, steady, seen, heard, quiet>>

\* p.rrIndex.Add(1), one atomic step.
AddTwice(t) == t + 2
Add(t) == t + 1

Walks(c, t, idx) ==
    Becomes(c, [call[c] EXCEPT !.pc = "walk", !.ticket = t, !.idx = idx])

\* The index into the weight-expanded list.
Index(c) ==
    /\ At(c, "index")
    /\ \/ /\ algorithm = "round_robin"
          /\ rrIndex' = Add(rrIndex)
          /\ Walks(c, rrIndex, GoMod(ToInt(rrIndex), call[c].total))
       \/ /\ algorithm = "random"
          /\ \E r \in 0..(call[c].total - 1) : Walks(c, r, r)
          /\ UNCHANGED rrIndex
       \/ /\ algorithm = "hash"
          /\ Walks(c, call[c].ticket, GoMod(ToInt(call[c].ticket), call[c].total))
          /\ UNCHANGED rrIndex
    /\ UNCHANGED <<connCount, steady, seen, heard, quiet, picked>>

\* pickHealthyByWeightedIndex: the list is walked by loads of its own.
HitsOffByOne(s, idx) == idx <= Weight[s]
Hits(s, idx) == idx < Weight[s]

Walk(c) ==
    LET s == call[c].i
    IN  /\ At(c, "walk")
        /\ \/ /\ Eligible(s) /\ Hits(s, call[c].idx)
              /\ Returns(c, s, FALSE)
           \/ /\ Eligible(s) /\ ~Hits(s, call[c].idx)
              /\ Loops(c, [call[c] EXCEPT !.idx = @ - Weight[s]], "fallback")
              /\ UNCHANGED picked
           \/ /\ ~Eligible(s)
              /\ Loops(c, call[c], "fallback")
              /\ UNCHANGED picked
        /\ UNCHANGED <<connCount, rrIndex, steady, seen, heard, quiet>>

\* The first healthy server, if the index ran off the list; else nil.
Fallback(c) ==
    LET s == call[c].i
    IN  /\ At(c, "fallback")
        /\ \/ healthy[s] /\ Returns(c, s, FALSE)
           \/ ~healthy[s] /\ s < N /\ Loops(c, call[c], "done") /\ UNCHANGED picked
           \/ ~healthy[s] /\ s = N /\ Returns(c, Nil, FALSE)
        /\ UNCHANGED <<connCount, rrIndex, steady, seen, heard, quiet>>

\* leastConn goes on with b as the best server so far.
Keeps(c, b) ==
    LET s == call[c].i
    IN  \/ s = N /\ Returns(c, b, FALSE)
        \/ /\ s < N
           /\ Becomes(c, [call[c] EXCEPT !.pc = "least", !.i = s + 1, !.best = b])
           /\ UNCHANGED picked

Least(c) ==
    LET s == call[c].i
    IN  /\ At(c, "least")
        /\ \/ ~healthy[s] /\ Keeps(c, call[c].best)
           \/ healthy[s] /\ call[c].best = Nil /\ Keeps(c, s)
           \/ /\ healthy[s] /\ call[c].best # Nil
              /\ Becomes(c, [call[c] EXCEPT !.pc = "conns"])
              /\ UNCHANGED picked
        /\ UNCHANGED <<connCount, rrIndex, steady, seen, heard, quiet>>

\* s.ConnCount() and then best.ConnCount()
LoadConns(c) ==
    /\ At(c, "conns")
    /\ Becomes(c, [call[c] EXCEPT !.pc = "compare", !.conns = connCount[call[c].i]])
    /\ UNCHANGED <<connCount, rrIndex, historyVars>>

Compare(c) ==
    LET best == call[c].best
    IN  /\ At(c, "compare")
        /\ Keeps(c, IF call[c].conns < connCount[best] THEN call[c].i ELSE best)
        /\ UNCHANGED <<connCount, rrIndex, steady, seen, heard, quiet>>

\* The caller has its answer and, with session affinity, counts its new session;
\* connCount is left alone where no algorithm reads it.
Finish(c) ==
    /\ At(c, "done")
    /\ Becomes(c, Idle)
    /\ steady' = [steady EXCEPT ![c] = {}]
    /\ seen' = [seen EXCEPT ![c] = {}]
    /\ heard' = [heard EXCEPT ![c] = {}]
    /\ \/ /\ quiet' = quiet \cup {c}
          /\ UNCHANGED connCount
       \/ /\ algorithm = "least_conn"
          /\ \E s \in {call[c].srv} \ {Nil} :
                connCount[s] < MaxConns /\ connCount' = [connCount EXCEPT ![s] = @ + 1]
          /\ quiet' = {c}
    /\ UNCHANGED <<rrIndex, picked>>

-----------------------------------------------------------------------------
(* The health checker and the sessions                                     *)

\* SetHealthy: the report for an address reaches the server in serverMap.
SetHealthy(a, h) ==
    LET s   == ServerByAddr(a)
        now == IF h THEN Up \cup {s} ELSE Up \ {s}
    IN  /\ a \in ToSet(address)
        /\ h # (a \in reported)
        /\ flips < MaxFlips
        /\ flips' = flips + 1
        /\ healthy' = [healthy EXCEPT ![s] = h]
        /\ reported' = IF h THEN reported \cup {a} ELSE reported \ {a}
        /\ steady' = [c \in Callers |-> steady[c] \cap now]
        /\ seen' = [c \in Callers |-> IF c \in Picking THEN seen[c] \cup now ELSE seen[c]]
        /\ heard' = [c \in Callers |-> IF c \in Picking THEN heard[c] \cup reported'
                                                        ELSE heard[c]]
        /\ quiet' = {}
        /\ UNCHANGED <<algorithm, address, connCount, rrIndex, call, picked>>

\* DecrConns, by an eviction.
DecrConns(s) ==
    /\ connCount[s] > 0
    /\ connCount' = [connCount EXCEPT ![s] = @ - 1]
    /\ quiet' = {}
    /\ UNCHANGED <<algorithm, address, healthy, rrIndex, call, flips, steady, seen,
                   heard, reported, picked>>

PickStep(c) ==
    \/ \E h \in 0..(HashCount - 1) : Call(c, h)
    \/ Weigh(c) \/ Index(c) \/ Walk(c) \/ Fallback(c)
    \/ Least(c) \/ LoadConns(c) \/ Compare(c) \/ Finish(c)

Next ==
    \/ \E c \in Callers : PickStep(c)
    \/ \E a \in Addresses, h \in BOOLEAN : SetHealthy(a, h)
    \/ \E s \in Servers : DecrConns(s)

Spec == Init /\ [][Next]_vars

-----------------------------------------------------------------------------
(* Properties                                                              *)

\* Pick (backend.go:128) keeps the promise of LoadBalancer although it loads each
\* server's health up to three times: it returns a server that was healthy at
\* some moment of the call, and an error or nil only if no server was healthy
\* from its beginning to its end.
Promise == INSTANCE LoadBalancer WITH
    Nothing <- Nil,
    up      <- Up,
    during  <- [c \in Callers |-> CASE call[c].pc \in {"idle", "done"} -> call[c].pc
                                    [] OTHER -> "picking"],
    result  <- [c \in Callers |-> call[c].srv]

KeepsPromise == Promise!Spec

\* The reference: the list in which each healthy server stands Weight times.
Expanded ==
    FlattenSeq([s \in Servers |-> IF healthy[s] THEN [j \in 1..Weight[s] |-> s] ELSE <<>>])

\* A Pick during which nothing changed returns the entry of the expanded list at
\* its ticket, hash or random number (backend.go:178), or the first of the
\* healthy servers with the fewest connections (backend.go:204).
PickMatchesReference ==
    \A c \in quiet :
        call[c].pc = "done" =>
            /\ call[c].err <=> Up = {}
            /\ Up # {} =>
                  IF algorithm = "least_conn"
                  THEN /\ call[c].srv \in Up
                       /\ \A s \in Up : \/ connCount[call[c].srv] < connCount[s]
                                        \/ /\ connCount[call[c].srv] = connCount[s]
                                           /\ call[c].srv <= s
                  ELSE call[c].srv = Expanded[(call[c].ticket % Len(Expanded)) + 1]

\* While health is constant, concurrent round-robin callers share out the
\* packets by weight exactly (backend.go:143), whole round by whole round.
RoundRobinExact ==
    LET total == Len(Expanded)
    IN  algorithm = "round_robin" /\ flips = 0 /\ Picking = {} /\ rrIndex % total = 0
            => \A s \in Servers : picked[s] = (rrIndex \div total) * Weight[s]

\* A server is returned in spite of a bad report that was in force during the
\* whole call only if a later server of the pool has the same address: the report
\* reaches that one alone (backend.go:73, backend.go:218).
BadReportHeeded ==
    \A c \in Callers :
        call[c].pc = "done" /\ call[c].srv # Nil =>
            \/ address[call[c].srv] \in heard[c]
            \/ \E s \in Servers : s > call[c].srv /\ address[s] = address[call[c].srv]
=============================================================================

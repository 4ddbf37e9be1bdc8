--------------------------- MODULE ClientLimiter ----------------------------
(***************************************************************************)
(* internal/shaping/shaping.go: ClientLimiter, a bucket for every client   *)
(* address.  Entries are made, refreshed and swept under the shard's       *)
(* mutex; the bucket is used after the unlock, when the entry may be gone. *)
(*                                                                         *)
(* The clients of one shard; only packets are limited: client_limits has   *)
(* no bytes.  The buckets count in ticks, the entries and the sweep in     *)
(* whole seconds.                                                          *)
(***************************************************************************)
EXTENDS TokenBucket, FiniteSets

CONSTANTS
    Clients,                  \* client addresses of the shard
    ClientRate, ClientBurst,  \* limitBase
    Ttl,                      \* ttl: global.session_timeout, in ticks
    Watched                   \* the client the history follows

ASSUME ClientRatesAssumption == ClientRate \in Nat \ {0} /\ ClientBurst \in Nat
ASSUME TtlAssumption == Ttl \in Nat \ {0}
ASSUME WatchedAssumption == Watched \in Clients
ASSUME FiniteAssumption == IsFiniteSet(Clients) /\ IsFiniteSet(Callers)

VARIABLES
    entries,    \* sh.entries: a bucket's name and lastSeen in seconds, by client
    buckets,    \* the buckets in memory
    lastSweep,  \* sh.lastSweep, in seconds
    passed      \* history: packets the watched client's buckets admitted in the window

limiterVars == <<entries, buckets, lastSweep, passed>>

PerClient == Normalize(ClientBurst, ClientRate)

\* Names of buckets: one for each entry and one for each caller that uses an old one.
Names  == 1..(Cardinality(Clients) + Cardinality(Callers))
Absent == [bucket |-> 0, lastSeen |-> 0]
Unused == [tok |-> 0, lastRefill |-> -1]

\* The zero value of lastSweep is long before the present, for any Ttl.
LongAgo == -Ttl

LimiterTypeOK ==
    /\ entries \in [Clients -> [bucket : Names \cup {0}, lastSeen : 0..clock]]
    /\ buckets \in [Names -> [tok : 0..PerClient, lastRefill : -1..clock]]
    /\ lastSweep \in LongAgo..clock
    /\ passed \in Nat

LimiterInit ==
    /\ entries = [a \in Clients |-> Absent]
    /\ buckets = [b \in Names |-> Unused]
    /\ lastSweep = LongAgo
    /\ passed = 0

\* The first call of a shard that finds ttl's seconds gone since the last sweep
\* sweeps; what was last seen before the second in which ttl began goes.
SweepDue(now) == Unix(now) - lastSweep >= Unix(Ttl)
SweptAhead(es, now) ==
    [a \in Clients |-> IF es[a].lastSeen < Unix(now + Ttl) THEN Absent ELSE es[a]]
Swept(es, now) ==
    [a \in Clients |-> IF es[a].lastSeen < Unix(now - Ttl) THEN Absent ELSE es[a]]

\* The entry is refreshed before the sweep, which so never drops it.
Refreshed(a, b, now) ==
    LET es == [entries EXCEPT ![a] = [bucket |-> b, lastSeen |-> Unix(now)]]
    IN  IF SweepDue(now) THEN Swept(es, now) ELSE es

\* A bucket that neither an entry nor a caller refers to is garbage.
Collected(bs, es, held) ==
    [b \in Names |-> IF b \in held \cup {es[a].bucket : a \in Clients} THEN bs[b] ELSE Unused]

\* The locked section of ClientLimiter.Allow, which leaves with bucket b; held are
\* the buckets other callers still use.  NewBucket reads the clock itself.
FindBucket(a, b, now, held) ==
    LET new == [tok |-> PerClient, lastRefill |-> clock]
    IN  /\ entries' = Refreshed(a, b, now)
        /\ \/ /\ entries[a] # Absent
              /\ b = entries[a].bucket
              /\ buckets' = Collected(buckets, entries', held \cup {b})
           \/ /\ entries[a] = Absent
              /\ b = CHOOSE n \in Names : buckets[n] = Unused
              /\ buckets' = Collected([buckets EXCEPT ![b] = new], entries', held \cup {b})
        /\ lastSweep' = IF SweepDue(now) THEN Unix(now) ELSE lastSweep
        /\ UNCHANGED passed

\* Bucket.Allow of a bucket that limits packets only.
Refilled(b, rate, burst, now) ==
    [tok |-> Refill(b.tok, rate, burst, now - b.lastRefill),
     lastRefill |-> IF now > b.lastRefill THEN now ELSE b.lastRefill]

SpendFrom(b, rate, burst, now) ==
    LET r == Refilled(b, rate, burst, now)
    IN  IF r.tok >= 1 THEN [r EXCEPT !.tok = @ - 1] ELSE r

UseBucket(a, b, now, held, ok) ==
    /\ ok = (Refilled(buckets[b], ClientRate, PerClient, now).tok >= 1)
    /\ buckets' = Collected([buckets EXCEPT ![b] = SpendFrom(@, ClientRate, PerClient, now)],
                            entries, held)
    /\ passed' = IF ok /\ a = Watched THEN passed + 1 ELSE passed
    /\ UNCHANGED <<entries, lastSweep>>

-----------------------------------------------------------------------------
\* How long a dropped entry's bucket has been idle at least, and what a client
\* can gain in that time: its rate's supply, or a full bucket for being forgotten.
IdleTime == Ttl - Stall
Gain == IF ClientRate * IdleTime > PerClient THEN ClientRate * IdleTime ELSE PerClient

\* In any window of time a client passes no more packets than its burst and, for
\* the window's length, its rate or one burst in each session timeout, whichever is
\* more, although an idle client's bucket is thrown away and its next one starts
\* full (shaping.go:158).  Being forgotten pays only where the burst exceeds what
\* the rate supplies in that time, which config does not rule out, and then no
\* more often than that, although the times are cut to seconds (shaping.go:145).
ClientRateBound ==
    passed * IdleTime <= PerClient * IdleTime + Gain * (clock - since + Stall)
=============================================================================

-------------------------- MODULE AdmissionProofs ---------------------------
(***************************************************************************)
(* What TLAPS proves of Admission: the chain uses the global bucket as     *)
(* TokenBucket says, and the bounds of the abuse protector and of the      *)
(* per-client limiter hold for any policies, clients, ports and readers.   *)
(***************************************************************************)
EXTENDS Admission, TokenBucketProofs, FiniteSetTheorems

\* A packet on its way: its sender, and a reading not older than Stall.
UnderWay(c) == pkt[c].at # "idle"
Readings ==
    \A c \in Callers :
        /\ UnderWay(c) => /\ pkt[c].client \in Clients
                          /\ pkt[c].fate = ""
                          /\ pkt[c].port \in Ports
                          /\ pkt[c].now >= clock - Stall
        /\ pkt[c].at = "bucket" => pkt[c].bucket \in Names
        /\ pkt[c].at # "bucket" => pkt[c].bucket = 0

\* A record that is not known is blank; the count belongs to the last reading.
RecordsOK ==
    \A a \in Clients :
        /\ ~records[a].known => records[a] = NoRecord
        /\ maxRate > 0 /\ records[a].known => records[a].window = records[a].lastSeen
        /\ records[a].packets > 0 => records[a].known
        /\ records[a].lastSeen <= Unix(clock)

\* Readers under way with a reading of an earlier second than the watched one, and
\* with one of the watched second.
Early == {c \in Callers : UnderWay(c) /\ Unix(pkt[c].now) < WatchedSecond}
Present == {c \in Callers : UnderWay(c) /\ Unix(pkt[c].now) = WatchedSecond}

\* Whether the watched client's record counts the watched second.
Counting == records[Watched].window = WatchedSecond

\* How many packets a record that counts them, or not, and has p of them would let
\* pass yet.
Room(counting, p) ==
    IF counting THEN IF p > maxRate THEN 0 ELSE maxRate - p ELSE maxRate

Readers == Cardinality(Callers)

\* Each early reading to come may set the count of n packets back once.
During(n, counting, p, early) ==
    n > 0 \/ counting => n + Room(counting, p) + maxRate * early <= maxRate * Readers

\* Once the second is over each reader brings one more packet of it at most; if
\* all of them still have one, the first finds what the second has left.
After(n, counting, p, present) ==
    \/ n + present < (maxRate + 1) * Readers
    \/ /\ present = Readers
       /\ n <= maxRate * Readers
       /\ n = maxRate * Readers => counting /\ p >= maxRate

SecondInv ==
    maxRate > 0 =>
        /\ Unix(clock) < WatchedSecond => second = 0
        /\ Unix(clock) = WatchedSecond =>
              During(second, Counting, records[Watched].packets, Cardinality(Early))
        /\ Unix(clock) > WatchedSecond =>
              After(second, Counting, records[Watched].packets, Cardinality(Present))

\* A port admitted not long ago is still in the record, whatever was swept.
RecentlyUsed == {p \in Ports : used[p] >= clock - (Ttl - Stall)}
PortsKept ==
    \A p \in RecentlyUsed :
        /\ records[Watched].sessions[p] >= Unix(used[p] - Stall)
        /\ records[Watched].lastSeen >= Unix(used[p] - Stall)

PortsInv == maxPorts > 0 => PortsKept /\ PortsWithinLimit

\* A port in the record is not older than the sweep before the last, and was tried.
TriedInv ==
    maxPorts > 0 =>
        /\ records[Watched].lastSweep <= Unix(clock)
        /\ \A p \in Ports :
            records[Watched].sessions[p] # Never =>
                /\ records[Watched].sessions[p] >= Unix(Second * records[Watched].lastSweep - Ttl)
                /\ \/ tried[p] >= Second * records[Watched].sessions[p]
                   \/ Second * records[Watched].sessions[p] < clock - (2 * Ttl + Second + Stall)

\* No two clients share a bucket, a caller uses the bucket of its client's entry,
\* and only buckets of entries are in memory.
BucketsOwned ==
    /\ \A a \in Clients : entries[a] # Absent =>
          entries[a].bucket \in Names /\ buckets[entries[a].bucket].lastRefill >= 0
    /\ \A a, x \in Clients :
          entries[a] # Absent /\ entries[a].bucket = entries[x].bucket => a = x
    /\ \A c \in Callers : pkt[c].at = "bucket" =>
          /\ entries[pkt[c].client].bucket = pkt[c].bucket
          /\ entries[pkt[c].client].lastSeen >= Unix(pkt[c].now - Stall)
    /\ \A b \in Names : buckets[b] # Unused => \E a \in Clients : entries[a].bucket = b

\* Packets, or tokens, times the time a forgotten client was idle: in this measure
\* the rate's supply and a new bucket's tokens are both at most Gain times the time.
Worth(n) == n * IdleTime

\* While a client has an entry its bucket accounts for what it passed; a client
\* without one could have gained all it passed since.
ClientBalanced ==
    LET e == entries[Watched]
        b == buckets[e.bucket]
    IN  IF e = Absent
        THEN Worth(passed) <= Earned(Gain, clock, Base)
        ELSE /\ b.lastRefill < Second * (e.lastSeen + 1) + Stall
             /\ b.lastRefill < Base => passed = 0
             /\ Worth(passed + b.tok) <= Worth(PerClient) + Earned(Gain, b.lastRefill, Base)

ClientInv == BucketsOwned /\ ClientBalanced
-----------------------------------------------------------------------------
(* The global bucket: the chain calls it as TokenBucket's callers do.      *)

\* The policy stays, and says what may come at any time the clock shows.
PolicyInTime == policy \in Policies /\ clock \in 0..MaxTime

LEMMA PacketsOfPolicy ==
  ASSUME PolicyInTime PROVE policy.traffic[clock] \subseteq Packets
  BY PoliciesAssumption DEF PolicyInTime

LEMMA BucketStep == PolicyInTime /\ [AdmissionNext]_allVars => [Next]_vars
<1> SUFFICES ASSUME PolicyInTime, [AdmissionNext]_allVars PROVE [Next]_vars
  OBVIOUS
<1>1. ASSUME NEW c \in Callers, NEW q \in policy.traffic[clock], Discard(c, q) PROVE [Next]_vars
  BY <1>1 DEF Discard
<1>2. ASSUME NEW c \in Callers, NEW q \in policy.traffic[clock], Receive(c, q) PROVE [Next]_vars
  <2>1. q.size \in Sizes
    BY PacketsOfPolicy DEF Packets
  <2>2. Stamp(c, q.size) \/ UNCHANGED vars
    BY <1>2 DEF Receive
  <2> QED
    BY <2>1, <2>2 DEF Next
<1>3. ASSUME NEW c \in Callers, GlobalShaper(c) PROVE [Next]_vars
  BY <1>3 DEF GlobalShaper, Next
<1>4. ASSUME NEW c \in Callers,
             FrontendShaper(c) \/ ClientEntry(c) \/ ClientBucket(c) \/ Abuse(c)
      PROVE  [Next]_vars
  BY <1>4 DEF FrontendShaper, ClientEntry, ClientBucket, Abuse
<1>5. CASE AdmissionObserve
  BY <1>5 DEF AdmissionObserve, Next
<1>6. CASE AdmissionTick
  BY <1>6 DEF AdmissionTick, Next
<1>7. CASE UNCHANGED allVars
  BY <1>7 DEF allVars
<1> QED
  BY <1>1, <1>2, <1>3, <1>4, <1>5, <1>6, <1>7 DEF AdmissionNext, ReaderStep

LEMMA PolicyFixed == AdmissionSpec => []PolicyInTime
<1>1. AdmissionInit => PolicyInTime
  <2>1. AdmissionInit => policy \in Policies /\ clock = 0
    BY DEF AdmissionInit, Init
  <2> QED
    BY <2>1, BucketTimesAssumption DEF PolicyInTime
<1>2. PolicyInTime /\ [AdmissionNext]_allVars => PolicyInTime'
  <2> SUFFICES ASSUME PolicyInTime, [AdmissionNext]_allVars PROVE PolicyInTime'
    OBVIOUS
  <2>1. policy' = policy
    BY DEF AdmissionNext, ReaderStep, Discard, Receive, GlobalShaper, FrontendShaper,
           ClientEntry, ClientBucket, Abuse, At, AdmissionObserve, AdmissionTick, allVars
  <2>2. [Next]_vars
    BY BucketStep
  <2>3. clock' = clock \/ (clock < MaxTime /\ clock' = clock + 1)
    <3>1. ASSUME NEW c \in Callers, (\E n \in Sizes : Stamp(c, n)) \/ Allow(c)
          PROVE  clock' = clock
      BY <3>1, Zenon DEF Stamp, Allow
    <3>2. Observe => clock' = clock
      BY DEF Observe
    <3>3. Tick => clock < MaxTime /\ clock' = clock + 1
      BY DEF Tick
    <3>4. UNCHANGED vars => clock' = clock
      BY DEF vars
    <3> QED
      BY <2>2, <3>1, <3>2, <3>3, <3>4, Zenon DEF Next
  <2> QED
    BY <2>1, <2>3, BucketTimesAssumption DEF PolicyInTime
<1> QED
  BY <1>1, <1>2, PTL DEF AdmissionSpec

\* The readers of all frontends, with their late readings and the other limiters
\* behind it, use the global bucket (frontend.go: allowShaped) as callers of
\* TokenBucket: what is proved of the bucket holds in the chain.
THEOREM ChainUsesBucket == AdmissionSpec => Spec
<1>1. AdmissionInit => Init
  BY DEF AdmissionInit
<1> QED
  BY <1>1, PolicyFixed, BucketStep, PTL DEF AdmissionSpec, Spec

\* The global limiter keeps its rate within the admission chain, and withholds
\* nothing: RateBound and SupplyBound as the admission run checks them.
THEOREM ChainRateLimited == AdmissionSpec => [](RateBound /\ SupplyBound)
  BY ChainUsesBucket, RateLimited, NothingWithheld, PTL

-----------------------------------------------------------------------------
(* Types.                                                                  *)

LimiterNames == {"idle", "global", "frontend", "client", "bucket", "abuse"}
PktType(k) ==
    [at : LimiterNames, client : Clients \cup {""}, port : Ports \cup {""}, now : 0..k,
     bucket : Names \cup {0}, fate : {"", "ports"}]
PktOK == pkt \in [Callers -> PktType(clock)]
ShaperOK == shaper \in [tok : 0..FrontendCap, lastRefill : 0..clock]
AbuseOK ==
    /\ maxRate \in Nat /\ maxPorts \in Nat
    /\ records \in [Clients -> Records]
    /\ sweptAt \in Unix0..clock
    /\ second \in Nat
    /\ tried \in [Ports -> Never..clock]
    /\ used \in [Ports -> Never..clock]

LEMMA TypeParts ==
  AdmissionTypeOK <=> /\ BucketTypeOK /\ LimiterTypeOK /\ policy \in Policies
                      /\ PktOK /\ ShaperOK /\ AbuseOK
  BY SameClientsAssumption
  DEF AdmissionTypeOK, PktOK, PktType, LimiterNames, ShaperOK, AbuseOK

AdmissionInv == BucketInv /\ AdmissionTypeOK /\ Readings /\ RecordsOK

LEMMA Constants ==
  /\ PerClient \in Nat /\ FrontendCap \in Nat /\ Ttl \in Nat /\ Ttl > 0 /\ Stall \in Nat
  /\ ClientRate \in Nat /\ FrontendRate \in Nat
  /\ Never = -2 * Ttl - 1 /\ Unix0 = -Ttl /\ LongAgo = -Ttl
  /\ SessionTtl = Ttl /\ Addresses = Clients
<1>1. PerClient \in Nat /\ FrontendCap \in Nat
  BY ClientRatesAssumption, FrontendRatesAssumption, BurstNat DEF PerClient, FrontendCap
<1> QED
  BY <1>1, ClientRatesAssumption, FrontendRatesAssumption, TtlAssumption, BucketTimesAssumption,
     SameClientsAssumption
  DEF Never, Unix0, LongAgo

\* The whole seconds of a time: no later than it, and in its order.
LEMMA UnixIs ==
  /\ \A t \in Int : Unix(t) \in Int
  /\ \A t, u \in Int : t <= u => Unix(t) <= Unix(u)
  /\ \A k \in Nat : \A t \in 0..k : Unix(t) \in 0..k
  /\ Unix(0) = 0
  BY SecondAssumption DEF Unix

\* What the sweeps drop was seen or noted in an earlier second than their own.
LEMMA CutoffIs ==
  \A t \in Int : t - Ttl \in Int /\ Unix(t - Ttl) \in Int /\ Unix(t - Ttl) <= Unix(t)
  BY UnixIs, Constants

LEMMA PlaceType == \A n \in 0..3 : Place(n) \in LimiterNames \ {"bucket"}
<1> SUFFICES ASSUME NEW n \in 0..3 PROVE Place(n) \in LimiterNames \ {"bucket"}
  OBVIOUS
<1> DEFINE left == {i \in (n + 1)..Len(Order) : Order[i] \in policy.chain}
           first == CHOOSE i \in left : \A j \in left : i <= j
<1>0. /\ Len(Order) = 4
      /\ \A i \in 1..4 : Order[i] \in {"global", "frontend", "client", "abuse"}
  BY DEF Order
<1>1. left \subseteq 1..4
  BY <1>0
<1>2. CASE left = {}
  BY <1>2 DEF Place, LimiterNames
<1>3. CASE left # {}
  <2> HIDE DEF left
  <2>1. \E i \in left : \A j \in left : i <= j
    <3>1. CASE 1 \in left
      BY <3>1, <1>1
    <3>2. CASE 1 \notin left /\ 2 \in left
      BY <3>2, <1>1
    <3>3. CASE 1 \notin left /\ 2 \notin left /\ 3 \in left
      BY <3>3, <1>1
    <3>4. CASE 1 \notin left /\ 2 \notin left /\ 3 \notin left /\ 4 \in left
      BY <3>4, <1>1
    <3>5. 1 \in left \/ 2 \in left \/ 3 \in left \/ 4 \in left
      <4>1. PICK i \in 1..4 : i \in left
        BY <1>1, <1>3
      <4>2. i = 1 \/ i = 2 \/ i = 3 \/ i = 4
        OBVIOUS
      <4> QED
        BY <4>1, <4>2
    <3> QED
      BY <3>1, <3>2, <3>3, <3>4, <3>5
  <2>2. first \in left
    BY <2>1
  <2>3. Place(n) = Order[first]
    BY <1>3 DEF Place, left
  <2> HIDE DEF first
  <2> QED
    BY <2>2, <2>3, <1>0, <1>1 DEF LimiterNames
<1> QED
  BY <1>2, <1>3

LEMMA NamesPositive ==
  /\ Cardinality(Clients) \in Nat /\ Cardinality(Callers) \in Nat
  /\ Names \subseteq Nat \ {0}
<1>1. Cardinality(Clients) \in Nat /\ Cardinality(Callers) \in Nat
  BY FiniteAssumption, FS_CardinalityType
<1> QED
  BY <1>1 DEF Names

BucketType(burst, low, k) == [tok : 0..burst, lastRefill : low..k]

LEMMA SpendType ==
  ASSUME NEW rate \in Nat, NEW burst \in Nat, NEW low \in Int, low <= 0, NEW k \in Nat,
         NEW now \in 0..k, NEW b \in BucketType(burst, low, k)
  PROVE  /\ Refilled(b, rate, burst, now) \in BucketType(burst, low, k)
         /\ SpendFrom(b, rate, burst, now) \in BucketType(burst, low, k)
<1>1. b.tok \in 0..burst /\ b.lastRefill \in low..k
  BY DEF BucketType
<1>2. Refill(b.tok, rate, burst, now - b.lastRefill) \in 0..burst
  <2>1. now - b.lastRefill \in Int
    BY <1>1
  <2> QED
    BY <1>1, <2>1, RefillBounds, Zenon
<1> DEFINE t == Refill(b.tok, rate, burst, now - b.lastRefill)
           l == IF now > b.lastRefill THEN now ELSE b.lastRefill
<1>3. l \in low..k
  BY <1>1
<1>4. Refilled(b, rate, burst, now) = [tok |-> t, lastRefill |-> l]
  BY DEF Refilled
<1>5. t \in 0..burst
  BY <1>2
<1> HIDE DEF t, l
<1>6. Refilled(b, rate, burst, now) \in BucketType(burst, low, k)
  BY <1>3, <1>4, <1>5 DEF BucketType
<1>7. CASE t >= 1
  <2>1. SpendFrom(b, rate, burst, now) = [tok |-> t - 1, lastRefill |-> l]
    BY <1>4, <1>7 DEF SpendFrom
  <2>2. t - 1 \in 0..burst
    BY <1>5, <1>7
  <2> QED
    BY <1>3, <1>6, <2>1, <2>2 DEF BucketType
<1>8. CASE ~(t >= 1)
  <2>1. SpendFrom(b, rate, burst, now) = Refilled(b, rate, burst, now)
    BY <1>4, <1>8 DEF SpendFrom
  <2> QED
    BY <1>6, <2>1
<1> QED
  BY <1>7, <1>8

EntryType(k) == [bucket : Names \cup {0}, lastSeen : 0..k]
BucketsType(k) == [Names -> BucketType(PerClient, -1, k)]

LEMMA LimiterTypeParts ==
  LimiterTypeOK <=> /\ entries \in [Clients -> EntryType(clock)]
                    /\ buckets \in BucketsType(clock)
                    /\ lastSweep \in LongAgo..clock
                    /\ passed \in Nat
  BY DEF LimiterTypeOK, EntryType, BucketsType, BucketType

LEMMA AbsentType == \A k \in Nat : Absent \in EntryType(k) /\ Unused \in BucketType(PerClient, -1, k)
  BY Constants DEF Absent, EntryType, Unused, BucketType

LEMMA SweptType ==
  ASSUME NEW k \in Nat, NEW es \in [Clients -> EntryType(k)], NEW now
  PROVE  Swept(es, now) \in [Clients -> EntryType(k)]
  BY AbsentType DEF Swept

LEMMA RefreshedType ==
  ASSUME NEW k \in Nat, entries \in [Clients -> EntryType(k)], NEW now \in 0..k,
         NEW a \in Clients, NEW b \in Names
  PROVE  Refreshed(a, b, now) \in [Clients -> EntryType(k)]
<1> DEFINE es == [entries EXCEPT ![a] = [bucket |-> b, lastSeen |-> Unix(now)]]
<1>1. [bucket |-> b, lastSeen |-> Unix(now)] \in EntryType(k)
  BY UnixIs DEF EntryType
<1>2. es \in [Clients -> EntryType(k)]
  BY <1>1
<1>3. Refreshed(a, b, now) = IF SweepDue(now) THEN Swept(es, now) ELSE es
  BY DEF Refreshed
<1> HIDE DEF es
<1>4. Swept(es, now) \in [Clients -> EntryType(k)]
  BY <1>2, SweptType
<1> QED
  BY <1>2, <1>3, <1>4, Zenon

LEMMA CollectedType ==
  ASSUME NEW k \in Nat, NEW bs \in BucketsType(k), NEW es, NEW held
  PROVE  Collected(bs, es, held) \in BucketsType(k)
  BY AbsentType DEF Collected, BucketsType

LEMMA FindBucketType ==
  ASSUME LimiterTypeOK, clock \in Nat, NEW a \in Clients, NEW b \in Names, NEW now \in 0..clock,
         NEW held, FindBucket(a, b, now, held), clock' = clock
  PROVE  LimiterTypeOK'
<1> DEFINE new == [tok |-> PerClient, lastRefill |-> clock]
           bs == [buckets EXCEPT ![b] = new]
<1>0. /\ entries \in [Clients -> EntryType(clock)]
      /\ buckets \in BucketsType(clock)
      /\ lastSweep \in LongAgo..clock
      /\ passed \in Nat
  BY LimiterTypeParts
<1>1. entries' \in [Clients -> EntryType(clock)]
  BY <1>0, RefreshedType DEF FindBucket
<1>2. bs \in BucketsType(clock)
  <2>1. new \in BucketType(PerClient, -1, clock)
    BY Constants DEF BucketType
  <2> QED
    BY <1>0, <2>1 DEF BucketsType
<1>3. \/ buckets' = Collected(buckets, entries', held \cup {b})
      \/ buckets' = Collected(bs, entries', held \cup {b})
  BY DEF FindBucket
<1> HIDE DEF bs
<1>4. buckets' \in BucketsType(clock)
  BY <1>0, <1>2, <1>3, CollectedType, Zenon
<1>5. lastSweep' \in LongAgo..clock
  BY <1>0, Constants, UnixIs DEF FindBucket
<1>6. passed' \in Nat
  BY <1>0 DEF FindBucket
<1>7. LimiterTypeOK' <=> /\ entries' \in [Clients -> EntryType(clock')]
                         /\ buckets' \in BucketsType(clock')
                         /\ lastSweep' \in LongAgo..clock'
                         /\ passed' \in Nat
  BY DEF LimiterTypeOK, EntryType, BucketsType, BucketType
<1> QED
  BY <1>1, <1>4, <1>5, <1>6, <1>7, Zenon

LEMMA UseBucketType ==
  ASSUME LimiterTypeOK, clock \in Nat, NEW a, NEW b \in Names, NEW now \in 0..clock, NEW held,
         NEW ok, UseBucket(a, b, now, held, ok), clock' = clock
  PROVE  LimiterTypeOK'
<1> DEFINE bs == [buckets EXCEPT ![b] = SpendFrom(@, ClientRate, PerClient, now)]
<1>0. /\ entries \in [Clients -> EntryType(clock)]
      /\ buckets \in BucketsType(clock)
      /\ lastSweep \in LongAgo..clock
      /\ passed \in Nat
  BY LimiterTypeParts
<1>1. bs \in BucketsType(clock)
  <2>1. buckets[b] \in BucketType(PerClient, -1, clock)
    BY <1>0 DEF BucketsType
  <2>2. SpendFrom(buckets[b], ClientRate, PerClient, now) \in BucketType(PerClient, -1, clock)
    BY <2>1, SpendType, Constants, -1 \in Int
  <2> QED
    BY <1>0, <2>2 DEF BucketsType
<1>2. buckets' = Collected(bs, entries, held)
  BY DEF UseBucket
<1> HIDE DEF bs
<1>3. buckets' \in BucketsType(clock)
  BY <1>1, <1>2, CollectedType
<1>4. passed' \in Nat
  BY <1>0 DEF UseBucket
<1>5. entries' = entries /\ lastSweep' = lastSweep
  BY DEF UseBucket
<1>6. LimiterTypeOK' <=> /\ entries' \in [Clients -> EntryType(clock')]
                         /\ buckets' \in BucketsType(clock')
                         /\ lastSweep' \in LongAgo..clock'
                         /\ passed' \in Nat
  BY DEF LimiterTypeOK, EntryType, BucketsType, BucketType
<1> QED
  BY <1>0, <1>3, <1>4, <1>5, <1>6, Zenon

-----------------------------------------------------------------------------
(* What Protector.Allow does to the records.                               *)

SameCount(r, s) ==
    r.known = s.known /\ r.window = s.window /\ r.packets = s.packets /\ r.lastSeen = s.lastSeen

LEMMA NoRecordType == NoRecord \in Records
  BY Constants DEF NoRecord, Records

LEMMA OldPortsGone ==
  ASSUME NEW e \in Records, NEW now \in Int
  PROVE  LET f == WithoutOldPorts(e, now)
         IN  /\ f \in Records
             /\ SameCount(f, e) /\ f.lastSweep = e.lastSweep
             /\ \A p \in Ports : f.sessions[p] =
                    IF e.sessions[p] < Unix(now - Ttl) THEN Never ELSE e.sessions[p]
<1> DEFINE s == [p \in Ports |-> IF e.sessions[p] < Unix(now - Ttl) THEN Never ELSE e.sessions[p]]
<1>1. WithoutOldPorts(e, now) = [e EXCEPT !.sessions = s]
  BY Constants DEF WithoutOldPorts
<1>2. s \in [Ports -> Int]
  BY Constants DEF Records
<1>3. \A p \in Ports : s[p] = IF e.sessions[p] < Unix(now - Ttl) THEN Never ELSE e.sessions[p]
  OBVIOUS
<1> HIDE DEF s
<1> QED
  BY <1>1, <1>2, <1>3 DEF Records, SameCount

\* What an entry of Protector.Allow starts from.
Entered(a, now) ==
    [(IF records[a].known THEN records[a]
      ELSE [NoRecord EXCEPT !.known = TRUE, !.window = IF maxRate > 0 THEN Unix(now) ELSE @])
        EXCEPT !.lastSeen = Unix(now)]

LEMMA EnteredIs ==
  ASSUME records \in [Clients -> Records], RecordsOK, NEW a \in Clients, NEW now \in Int
  PROVE  LET e == Entered(a, now)
         IN  /\ e \in Records
             /\ e.known = TRUE /\ e.lastSeen = Unix(now)
             /\ e.packets = records[a].packets
             /\ e.lastSweep = records[a].lastSweep
             /\ e.sessions = records[a].sessions
             /\ e.window = records[a].window \/ (e.packets = 0 /\ e.window = Unix(now))
                                             \/ maxRate <= 0
<1>0. Unix(now) \in Int
  BY UnixIs
<1>1. CASE records[a].known
  BY <1>0, <1>1 DEF Entered, Records
<1>2. CASE ~records[a].known
  <2>1. records[a] = NoRecord
    BY <1>2 DEF RecordsOK
  <2> QED
    BY <1>0, <1>2, <2>1, NoRecordType DEF Entered, Records, NoRecord
<1> QED
  BY <1>1, <1>2

LEMMA CountedIs ==
  ASSUME maxRate \in Nat, NEW e \in Records, NEW now \in Int
  PROVE  LET c == Counted(e, now)
         IN  /\ c \in Records
             /\ c.known = e.known /\ c.lastSeen = e.lastSeen
             /\ c.lastSweep = e.lastSweep /\ c.sessions = e.sessions
             /\ maxRate = 0 => c = e
             /\ maxRate > 0 => c.window = Unix(now) /\ c.packets > 0
             /\ maxRate > 0 /\ e.window # Unix(now) => c.packets = 1
             /\ maxRate > 0 /\ e.window = Unix(now) =>
                    c.packets = IF e.packets > maxRate THEN e.packets ELSE e.packets + 1
<1>1. CASE maxRate = 0
  BY <1>1 DEF Counted
<1>2. CASE maxRate > 0 /\ e.window = Unix(now)
  <2> DEFINE k == IF e.packets > maxRate THEN e.packets ELSE e.packets + 1
  <2>1. Counted(e, now) = [e EXCEPT !.packets = k]
    BY <1>2 DEF Counted, Records
  <2>2. k \in Nat /\ k > 0
    BY DEF Records
  <2>3. k = IF e.packets > maxRate THEN e.packets ELSE e.packets + 1
    OBVIOUS
  <2> HIDE DEF k
  <2> QED
    BY <1>2, <2>1, <2>2, <2>3 DEF Records
<1>3. CASE maxRate > 0 /\ e.window # Unix(now)
  <2>1. Counted(e, now) = [e EXCEPT !.window = Unix(now), !.packets = 1]
    BY <1>3 DEF Counted
  <2> DEFINE c == [e EXCEPT !.window = Unix(now), !.packets = 1]
  <2>2. /\ c \in Records
        /\ c.known = e.known /\ c.lastSeen = e.lastSeen
        /\ c.lastSweep = e.lastSweep /\ c.sessions = e.sessions
        /\ c.window = Unix(now) /\ c.packets = 1
    BY UnixIs DEF Records
  <2> HIDE DEF c
  <2>3. Counted(e, now) = c
    BY <2>1 DEF c
  <2> QED
    BY <1>3, <2>2, <2>3
<1> QED
  BY <1>1, <1>2, <1>3

NotedPorts(e, f, p, now) ==
    \/ /\ Unix(now) - e.lastSweep >= Unix(Ttl)
       /\ f.lastSweep = Unix(now)
       /\ \A q \in Ports \ {p} : f.sessions[q] =
              IF e.sessions[q] < Unix(now - Ttl) THEN Never ELSE e.sessions[q]
    \/ /\ ~(Unix(now) - e.lastSweep >= Unix(Ttl))
       /\ f.lastSweep = e.lastSweep
       /\ \A q \in Ports \ {p} : f.sessions[q] = e.sessions[q]

LEMMA NotedIs ==
  ASSUME NEW e \in Records, NEW p \in Ports, NEW now \in Int
  PROVE  LET f == Noted(e, p, now)
         IN  /\ f \in Records
             /\ SameCount(f, e)
             /\ f.sessions[p] = Unix(now)
             /\ NotedPorts(e, f, p, now)
<1> DEFINE s == [e.sessions EXCEPT ![p] = Unix(now)]
           m == [e EXCEPT !.sessions = s]
           w == WithoutOldPorts(m, now)
           f == Noted(e, p, now)
<1>1. /\ s \in [Ports -> Int] /\ s[p] = Unix(now)
      /\ \A q \in Ports \ {p} : s[q] = e.sessions[q]
  BY UnixIs DEF Records
<1>2. [e EXCEPT !.sessions[p] = Unix(now)] = m
  BY DEF Records
<1> HIDE DEF s
<1>3. m \in Records /\ SameCount(m, e) /\ m.lastSweep = e.lastSweep /\ m.sessions = s
  BY <1>1 DEF Records, SameCount
<1>4. f = IF Unix(now) - e.lastSweep >= Unix(Ttl) THEN [w EXCEPT !.lastSweep = Unix(now)] ELSE m
  BY <1>2, Constants DEF Noted
<1> HIDE DEF m, f
<1>5. CASE Unix(now) - e.lastSweep >= Unix(Ttl)
  <2>1. /\ w \in Records /\ SameCount(w, m)
        /\ \A q \in Ports : w.sessions[q] = IF m.sessions[q] < Unix(now - Ttl) THEN Never ELSE m.sessions[q]
    BY <1>3, OldPortsGone, Zenon
  <2> HIDE DEF w
  <2>2. f = [w EXCEPT !.lastSweep = Unix(now)]
    BY <1>4, <1>5
  <2>3. f \in Records /\ SameCount(f, w) /\ f.lastSweep = Unix(now) /\ f.sessions = w.sessions
    BY <2>1, <2>2, UnixIs DEF Records, SameCount
  <2>4. f.sessions[p] = Unix(now)
    BY <1>1, <1>3, <2>1, <2>3, CutoffIs, UnixIs
  <2>5. \A q \in Ports \ {p} : f.sessions[q] =
              IF e.sessions[q] < Unix(now - Ttl) THEN Never ELSE e.sessions[q]
    BY <1>1, <1>3, <2>1, <2>3
  <2>6. SameCount(f, e)
    BY <1>3, <2>1, <2>3 DEF SameCount
  <2> QED
    BY <1>5, <2>3, <2>4, <2>5, <2>6 DEF NotedPorts, f
<1>6. CASE ~(Unix(now) - e.lastSweep >= Unix(Ttl))
  <2>1. f = m
    BY <1>4, <1>6
  <2> QED
    BY <1>1, <1>3, <1>6, <2>1 DEF NotedPorts, f
<1> QED
  BY <1>5, <1>6

\* How Allow leaves the records when it has made r of the one of a.
LeftWith(a, r, now) ==
    \/ records' = [records EXCEPT ![a] = r] /\ sweptAt' = sweptAt
    \/ records' = WithoutOldRecords([records EXCEPT ![a] = r], now) /\ sweptAt' = Unix(now)

Ends(c, n, r, verdict) ==
    \/ verdict = "rate" /\ maxRate > 0 /\ c.packets > maxRate /\ r = c
    \/ /\ verdict = "ports" /\ ~(maxRate > 0 /\ c.packets > maxRate)
       /\ maxPorts > 0 /\ Cardinality(PortsOf(n)) > maxPorts /\ r = n
    \/ /\ verdict = "pass" /\ ~(maxRate > 0 /\ c.packets > maxRate)
       /\ ~(maxPorts > 0 /\ Cardinality(PortsOf(n)) > maxPorts)
       /\ r = IF maxPorts > 0 THEN n ELSE c

LEMMA AllowIs ==
  ASSUME NEW a, NEW p, NEW now, NEW verdict, AbuseAllow(a, p, now, verdict)
  PROVE  LET c == Counted(Entered(a, now), now)
             n == Noted(c, p, now)
         IN  /\ \E r : Ends(c, n, r, verdict) /\ LeftWith(a, r, now)
             /\ maxRate' = maxRate /\ maxPorts' = maxPorts
<1> DEFINE c == Counted(Entered(a, now), now)
           n == Noted(c, p, now)
           z == IF maxPorts > 0 THEN n ELSE c
<1>1. /\ \/ verdict = "rate" /\ maxRate > 0 /\ c.packets > maxRate /\ LeftWith(a, c, now)
         \/ /\ verdict = "ports" /\ ~(maxRate > 0 /\ c.packets > maxRate)
            /\ maxPorts > 0 /\ Cardinality(PortsOf(n)) > maxPorts /\ LeftWith(a, n, now)
         \/ /\ verdict = "pass" /\ ~(maxRate > 0 /\ c.packets > maxRate)
            /\ ~(maxPorts > 0 /\ Cardinality(PortsOf(n)) > maxPorts)
            /\ LeftWith(a, z, now)
      /\ maxRate' = maxRate /\ maxPorts' = maxPorts
  BY Zenon DEF AbuseAllow, LeftWith, Entered
<1> QED
  BY <1>1, Zenon DEF Ends

KeptOrSwept(e, f, now) ==
    \/ f = e
    \/ e.lastSeen < Unix(now - Ttl) /\ f = NoRecord
    \/ ~(e.lastSeen < Unix(now - Ttl)) /\ f = WithoutOldPorts(e, now)

LEMMA LeftRecords ==
  ASSUME records \in [Clients -> Records], NEW a \in Clients, NEW now \in Int,
         NEW r \in Records, r.lastSeen = Unix(now), LeftWith(a, r, now)
  PROVE  /\ records' \in [Clients -> Records]
         /\ records'[a] = r \/ records'[a] = WithoutOldPorts(r, now)
         /\ \A x \in Clients \ {a} : KeptOrSwept(records[x], records'[x], now)
<1> DEFINE rs == [records EXCEPT ![a] = r]
<1>1. /\ rs \in [Clients -> Records] /\ rs[a] = r
      /\ \A x \in Clients \ {a} : rs[x] = records[x]
  OBVIOUS
<1>2. CASE records' = rs
  BY <1>1, <1>2 DEF KeptOrSwept
<1>3. CASE records' = WithoutOldRecords(rs, now)
  <2> HIDE DEF rs
  <2>1. records' = [x \in Clients |-> IF rs[x].lastSeen < Unix(now - Ttl) THEN NoRecord
                                      ELSE WithoutOldPorts(rs[x], now)]
    BY <1>3, Constants DEF WithoutOldRecords
  <2>2. \A x \in Clients : WithoutOldPorts(rs[x], now) \in Records
    BY <1>1, OldPortsGone, Zenon
  <2>3. records' \in [Clients -> Records]
    BY <2>1, <2>2, NoRecordType
  <2>4. ~(rs[a].lastSeen < Unix(now - Ttl))
    BY <1>1, CutoffIs, UnixIs
  <2>5. records'[a] = WithoutOldPorts(r, now)
    BY <1>1, <2>1, <2>4
  <2>6. \A x \in Clients \ {a} : KeptOrSwept(records[x], records'[x], now)
    BY <1>1, <2>1 DEF KeptOrSwept
  <2> QED
    BY <2>3, <2>5, <2>6
<1> QED
  BY <1>2, <1>3 DEF LeftWith

Outcome(a, c, n, now, verdict) ==
    \E r \in Records :
        /\ r = c \/ r = n
        /\ Ends(c, n, r, verdict)
        /\ records'[a] = r \/ records'[a] = WithoutOldPorts(r, now)

\* The record of the sender after Allow: r is the counted or the noted one, from
\* which old ports may be gone.
LEMMA AllowLeaves ==
  ASSUME AbuseOK, RecordsOK, NEW a \in Clients, NEW p \in Ports, NEW now \in Int, NEW verdict,
         AbuseAllow(a, p, now, verdict)
  PROVE  LET c == Counted(Entered(a, now), now)
             n == Noted(c, p, now)
         IN  /\ c \in Records /\ n \in Records
             /\ SameCount(n, c)
             /\ c.lastSeen = Unix(now) /\ c.known = TRUE
             /\ Outcome(a, c, n, now, verdict)
             /\ SameCount(records'[a], c)
             /\ records' \in [Clients -> Records]
             /\ \A x \in Clients \ {a} : KeptOrSwept(records[x], records'[x], now)
             /\ maxRate' = maxRate /\ maxPorts' = maxPorts
<1> DEFINE e == Entered(a, now)
           c == Counted(e, now)
           n == Noted(c, p, now)
<1>0. maxRate \in Nat /\ records \in [Clients -> Records]
  BY DEF AbuseOK
<1>1. e \in Records /\ e.lastSeen = Unix(now) /\ e.known = TRUE
  BY <1>0, EnteredIs, Zenon
<1> HIDE DEF e
<1>2. c \in Records /\ c.lastSeen = Unix(now) /\ c.known = TRUE
  <2>1. c \in Records /\ c.lastSeen = e.lastSeen /\ c.known = e.known
    BY <1>0, <1>1, CountedIs, Zenon
  <2> QED
    BY <1>1, <2>1, Zenon
<1> HIDE DEF c
<1>3. n \in Records /\ SameCount(n, c)
  BY <1>2, NotedIs, Zenon
<1> HIDE DEF n
<1>4. n.lastSeen = Unix(now)
  BY <1>2, <1>3, Zenon DEF SameCount
<1>5. PICK r : Ends(c, n, r, verdict) /\ LeftWith(a, r, now)
  BY AllowIs, Zenon DEF c, n, e
<1>6. r = c \/ r = n
  BY <1>5, Zenon DEF Ends
<1>7. r \in Records /\ r.lastSeen = Unix(now)
  BY <1>2, <1>3, <1>4, <1>6, Zenon
<1>8. /\ records' \in [Clients -> Records]
      /\ records'[a] = r \/ records'[a] = WithoutOldPorts(r, now)
      /\ \A x \in Clients \ {a} : KeptOrSwept(records[x], records'[x], now)
  BY <1>0, <1>5, <1>7, LeftRecords, Zenon
<1>9. SameCount(WithoutOldPorts(r, now), r)
  BY <1>7, OldPortsGone, Zenon
<1>10. SameCount(records'[a], c)
  BY <1>3, <1>6, <1>8, <1>9 DEF SameCount
<1>11. maxRate' = maxRate /\ maxPorts' = maxPorts
  BY AllowIs, Zenon
<1>12. Outcome(a, c, n, now, verdict)
  BY <1>5, <1>6, <1>7, <1>8, Zenon DEF Outcome
<1> QED
  BY <1>2, <1>3, <1>8, <1>10, <1>11, <1>12, Zenon DEF c, n, e

RecordOK(r) ==
    /\ ~r.known => r = NoRecord
    /\ maxRate > 0 /\ r.known => r.window = r.lastSeen
    /\ r.packets > 0 => r.known
    /\ r.lastSeen <= Unix(clock)

LEMMA RecordsEach == RecordsOK <=> \A a \in Clients : RecordOK(records[a])
  BY DEF RecordsOK, RecordOK

LEMMA OldPortsOfNoRecord == \A now \in Int : WithoutOldPorts(NoRecord, now) = NoRecord
<1> SUFFICES ASSUME NEW now \in Int PROVE WithoutOldPorts(NoRecord, now) = NoRecord
  OBVIOUS
<1>1. NoRecord.sessions = [p \in Ports |-> Never]
  BY DEF NoRecord
<1>2. [p \in Ports |-> IF NoRecord.sessions[p] < Unix(now - SessionTtl) THEN Never
                       ELSE NoRecord.sessions[p]] = NoRecord.sessions
  BY <1>1
<1> DEFINE f == [p \in Ports |-> IF NoRecord.sessions[p] < Unix(now - SessionTtl) THEN Never
                                 ELSE NoRecord.sessions[p]]
<1>3. WithoutOldPorts(NoRecord, now) = [NoRecord EXCEPT !.sessions = f]
  BY DEF WithoutOldPorts
<1>4. f = [p \in Ports |-> Never]
  BY <1>1, <1>2
<1> HIDE DEF f
<1> QED
  BY <1>3, <1>4 DEF NoRecord

\* RecordsOK through a call of Allow.
LEMMA AllowKeepsRecords ==
  ASSUME AbuseOK, RecordsOK, clock \in Nat, NEW a \in Clients, NEW p \in Ports,
         NEW now \in 0..clock, NEW verdict, AbuseAllow(a, p, now, verdict), clock' = clock
  PROVE  RecordsOK'
<1> DEFINE c == Counted(Entered(a, now), now)
<1>0. maxRate \in Nat /\ records \in [Clients -> Records] /\ now \in Int
  BY DEF AbuseOK
<1>1. /\ c \in Records /\ c.lastSeen = Unix(now) /\ c.known = TRUE
      /\ SameCount(records'[a], c)
      /\ records' \in [Clients -> Records]
      /\ \A x \in Clients \ {a} : KeptOrSwept(records[x], records'[x], now)
      /\ maxRate' = maxRate
  BY <1>0, AllowLeaves, Zenon
<1>2. maxRate > 0 => c.window = Unix(now)
  <2>1. Entered(a, now) \in Records
    BY <1>0, EnteredIs, Zenon
  <2> QED
    BY <1>0, <2>1, CountedIs, Zenon
<1> HIDE DEF c
<1>s. Unix(now) \in Int /\ Unix(clock) \in Int /\ Unix(now) <= Unix(clock)
  BY <1>0, UnixIs
<1>3. RecordOK(records'[a])
  BY <1>1, <1>2, <1>s DEF SameCount, RecordOK, Records
<1>4. ASSUME NEW x \in Clients \ {a} PROVE RecordOK(records'[x])
  <2>1. RecordOK(records[x]) /\ records[x] \in Records
    BY <1>0, RecordsEach
  <2>2. RecordOK(NoRecord)
    BY <1>s, Constants, UnixIs DEF RecordOK, NoRecord
  <2>3. RecordOK(WithoutOldPorts(records[x], now))
    <3>1. SameCount(WithoutOldPorts(records[x], now), records[x])
      BY <1>0, <2>1, OldPortsGone, Zenon
    <3>2. ~records[x].known => WithoutOldPorts(records[x], now) = NoRecord
      BY <1>0, <2>1, OldPortsOfNoRecord DEF RecordOK
    <3> QED
      BY <2>1, <3>1, <3>2 DEF SameCount, RecordOK
  <2> QED
    BY <1>1, <2>1, <2>2, <2>3 DEF KeptOrSwept
<1>5. \A x \in Clients : RecordOK(records'[x])
  BY <1>3, <1>4, Zenon
<1> QED
  BY <1>1, <1>5 DEF RecordsOK, RecordOK

-----------------------------------------------------------------------------
(* What a step of a reader does to its packet.                             *)

ReadingOK(m) ==
    /\ m.at # "idle" => /\ m.client \in Clients /\ m.port \in Ports
                        /\ m.now >= clock - Stall /\ m.fate = ""
    /\ m.at = "bucket" => m.bucket \in Names
    /\ m.at # "bucket" => m.bucket = 0

\* A packet is new, or is the one the reader had.
Carried(old, m) ==
    m.at # "idle" =>
        \/ m.now = clock
        \/ old.at # "idle" /\ m.now = old.now /\ m.client = old.client

Moved(c, m) ==
    pkt' = [pkt EXCEPT ![c] = m] /\ m \in PktType(clock) /\ ReadingOK(m) /\ Carried(pkt[c], m)

LEMMA RangeEnds == \A k \in Nat : 0 \in 0..k /\ k \in 0..k
  OBVIOUS

LEMMA PktMade ==
  ASSUME NEW k, NEW l \in LimiterNames, NEW a \in Clients \cup {""}, NEW p \in Ports \cup {""},
         NEW now \in 0..k, NEW b \in Names \cup {0}, NEW f \in {"", "ports"}
  PROVE  LET m == [at |-> l, client |-> a, port |-> p, now |-> now, bucket |-> b, fate |-> f]
         IN  /\ m \in PktType(k)
             /\ m.at = l /\ m.client = a /\ m.port = p /\ m.now = now /\ m.bucket = b
             /\ m.fate = f
  BY Zenon DEF PktType

LEMMA IdleOK ==
  ASSUME clock \in Nat, NEW f \in {"", "ports"}
  PROVE  Idle(f) \in PktType(clock) /\ ReadingOK(Idle(f)) /\ Idle(f).at = "idle"
<1>1. 0 \in 0..clock
  BY RangeEnds, Zenon
<1>2. "idle" \in LimiterNames /\ "" \in Clients \cup {""} /\ "" \in Ports \cup {""}
      /\ 0 \in Names \cup {0}
  BY DEF LimiterNames
<1>3. Idle(f) \in PktType(clock) /\ Idle(f).at = "idle" /\ Idle(f).bucket = 0
  <2> DEFINE m == [at |-> "idle", client |-> "", port |-> "", now |-> 0, bucket |-> 0, fate |-> f]
  <2>1. m \in PktType(clock)
    BY <1>1, <1>2, Zenon DEF PktType
  <2>2. m.at = "idle" /\ m.bucket = 0
    BY Zenon
  <2> QED
    BY <2>1, <2>2 DEF Idle
<1> QED
  BY <1>3, Zenon DEF ReadingOK

LEMMA DropsMove ==
  ASSUME clock \in Nat, NEW c \in Callers, NEW f \in {"", "ports"},
         pkt' = [pkt EXCEPT ![c] = Idle(f)]
  PROVE  Moved(c, Idle(f))
  BY IdleOK, Zenon DEF Moved, Carried

LEMMA PassesMove ==
  ASSUME PktOK, Readings, clock \in Nat, NEW c \in Callers, UnderWay(c), NEW n \in 0..3,
         Passes(c, n)
  PROVE  \E m : Moved(c, m) /\ m.at # "bucket"
<1>1. CASE Place(n) = "idle"
  <2>1. pkt' = [pkt EXCEPT ![c] = Idle("")]
    BY <1>1, Zenon DEF Passes
  <2>2. Moved(c, Idle("")) /\ Idle("").at = "idle"
    BY <2>1, DropsMove, IdleOK
  <2> QED
    BY <2>2
<1>2. CASE Place(n) # "idle"
  <2> DEFINE m == [pkt[c] EXCEPT !.at = Place(n), !.bucket = 0]
  <2>1. pkt' = [pkt EXCEPT ![c] = m]
    BY <1>2 DEF Passes, PktOK
  <2>2. pkt[c] \in PktType(clock) /\ Place(n) \in LimiterNames \ {"bucket"}
    BY PlaceType DEF PktOK
  <2>3. /\ m \in PktType(clock) /\ m.at = Place(n) /\ m.bucket = 0
        /\ m.client = pkt[c].client /\ m.port = pkt[c].port /\ m.now = pkt[c].now
        /\ m.fate = pkt[c].fate
    BY <2>2 DEF PktType
  <2> HIDE DEF m
  <2>4. ReadingOK(m) /\ Carried(pkt[c], m)
    BY <2>2, <2>3 DEF ReadingOK, Carried, Readings, UnderWay
  <2> QED
    BY <2>1, <2>2, <2>3, <2>4 DEF Moved
<1> QED
  BY <1>1, <1>2

LEMMA ReaderMoves ==
  ASSUME PktOK, Readings, PolicyInTime, clock \in Nat, NEW c \in Callers, ReaderStep(c)
  PROVE  \E m : /\ Moved(c, m)
                /\ m.at = "bucket" => ClientEntry(c)
                /\ Abuse(c) => m.at = "idle"
<1> DEFINE G == \E m : /\ Moved(c, m)
                       /\ m.at = "bucket" => ClientEntry(c)
                       /\ Abuse(c) => m.at = "idle"
<1>1. ASSUME NEW q \in policy.traffic[clock], Discard(c, q) PROVE G
  <2>1. pkt' = [pkt EXCEPT ![c] = Idle("")]
    BY <1>1 DEF Discard, Drops
  <2>2. Moved(c, Idle("")) /\ Idle("").at = "idle"
    BY <2>1, DropsMove, IdleOK
  <2> QED
    BY <2>2
<1>2. ASSUME NEW q \in policy.traffic[clock], Receive(c, q) PROVE G
  <2> DEFINE m == [at |-> Place(0), client |-> q.client, port |-> q.port, now |-> clock,
                   bucket |-> 0, fate |-> ""]
  <2>1. q \in Packets
    BY PacketsOfPolicy
  <2>2. pkt' = [pkt EXCEPT ![c] = m] /\ pkt[c].at = "idle"
    BY <1>2 DEF Receive, At
  <2>3. Place(0) \in LimiterNames \ {"bucket"}
    BY PlaceType
  <2>4. /\ m \in PktType(clock) /\ m.at # "bucket" /\ m.now = clock /\ m.bucket = 0
        /\ m.client \in Clients /\ m.port \in Ports /\ m.fate = ""
    <3>1. q.client \in Clients /\ q.port \in Ports
      BY <2>1 DEF Packets
    <3>2. clock \in 0..clock
      OBVIOUS
    <3>3. Place(0) \in LimiterNames /\ Place(0) # "bucket"
      BY <2>3
    <3>4. q.client \in Clients \cup {""} /\ q.port \in Ports \cup {""} /\ 0 \in Names \cup {0}
          /\ "" \in {"", "ports"}
      BY <3>1
    <3> QED
      BY <3>1, <3>2, <3>3, <3>4, PktMade, Zenon
  <2> HIDE DEF m
  <2>a. clock >= clock - Stall
    BY Constants
  <2>5. ReadingOK(m) /\ Carried(pkt[c], m)
    BY <2>4, <2>a, Zenon DEF ReadingOK, Carried
  <2>6. ~Abuse(c)
    BY <2>2 DEF Abuse, At
  <2> QED
    BY <2>2, <2>4, <2>5, <2>6 DEF Moved
<1>3. ASSUME GlobalShaper(c) PROVE G
  <2>1. UnderWay(c) /\ ~Abuse(c) /\ (Passes(c, 1) \/ Drops(c))
    BY <1>3 DEF GlobalShaper, At, UnderWay, Abuse
  <2>2. CASE Passes(c, 1)
    BY <2>1, <2>2, PassesMove, 1 \in 0..3
  <2>3. CASE Drops(c)
    BY <2>1, <2>3, DropsMove, IdleOK DEF Drops
  <2> QED
    BY <2>1, <2>2, <2>3
<1>4. ASSUME FrontendShaper(c) PROVE G
  <2>1. UnderWay(c) /\ ~Abuse(c) /\ (Passes(c, 2) \/ Drops(c))
    BY <1>4 DEF FrontendShaper, At, UnderWay, Abuse
  <2>2. CASE Passes(c, 2)
    BY <2>1, <2>2, PassesMove, 2 \in 0..3
  <2>3. CASE Drops(c)
    BY <2>1, <2>3, DropsMove, IdleOK DEF Drops
  <2> QED
    BY <2>1, <2>2, <2>3
<1>5. ASSUME ClientEntry(c) PROVE G
  <2>1. PICK b \in Names : pkt' = [pkt EXCEPT ![c].at = "bucket", ![c].bucket = b]
    BY <1>5 DEF ClientEntry
  <2>2. pkt[c].at = "client" /\ UnderWay(c) /\ ~Abuse(c)
    BY <1>5 DEF ClientEntry, At, UnderWay, Abuse
  <2> DEFINE m == [pkt[c] EXCEPT !.at = "bucket", !.bucket = b]
  <2>3. pkt[c] \in PktType(clock)
    BY DEF PktOK
  <2>4. pkt' = [pkt EXCEPT ![c] = m]
    BY <2>1, <2>3 DEF PktOK
  <2>5. /\ m \in PktType(clock) /\ m.at = "bucket" /\ m.bucket = b
        /\ m.client = pkt[c].client /\ m.port = pkt[c].port /\ m.now = pkt[c].now
        /\ m.fate = pkt[c].fate
    BY <2>3 DEF PktType, LimiterNames
  <2> HIDE DEF m
  <2>6. ReadingOK(m) /\ Carried(pkt[c], m)
    BY <2>2, <2>5 DEF ReadingOK, Carried, Readings, UnderWay
  <2> QED
    BY <1>5, <2>2, <2>4, <2>5, <2>6 DEF Moved
<1>6. ASSUME ClientBucket(c) PROVE G
  <2>1. UnderWay(c) /\ ~Abuse(c) /\ (Passes(c, 3) \/ Drops(c))
    BY <1>6 DEF ClientBucket, At, UnderWay, Abuse
  <2>2. CASE Passes(c, 3)
    BY <2>1, <2>2, PassesMove, 3 \in 0..3
  <2>3. CASE Drops(c)
    BY <2>1, <2>3, DropsMove, IdleOK DEF Drops
  <2> QED
    BY <2>1, <2>2, <2>3
<1>7. ASSUME Abuse(c) PROVE G
  <2>1. PICK f \in {"", "ports"} : pkt' = [pkt EXCEPT ![c] = Idle(f)]
    BY <1>7 DEF Abuse
  <2>2. Moved(c, Idle(f)) /\ Idle(f).at = "idle"
    BY <2>1, DropsMove, IdleOK
  <2> QED
    BY <2>2
<1> QED
  BY <1>1, <1>2, <1>3, <1>4, <1>5, <1>6, <1>7 DEF ReaderStep

LEMMA ClockStill ==
  ASSUME NEW c \in Callers, ReaderStep(c) PROVE clock' = clock /\ since' = since /\ policy' = policy
  BY DEF ReaderStep, Discard, Receive, GlobalShaper, FrontendShaper, ClientEntry, ClientBucket,
         Abuse, At, vars, Stamp, Allow

LEMMA PacketsStep ==
  ASSUME AdmissionInv, NEW c \in Callers, ReaderStep(c)
  PROVE  PktOK' /\ Readings'
<1>0. PktOK /\ PolicyInTime /\ clock \in Nat /\ clock' = clock /\ Readings
  BY TypeParts, ClockStill DEF AdmissionInv, BucketTypeOK, PolicyInTime
<1>1. PICK m : Moved(c, m)
  BY <1>0, ReaderMoves
<1>2. PktOK'
  BY <1>0, <1>1 DEF PktOK, Moved
<1>3. \A d \in Callers : ReadingOK(pkt[d])
  BY <1>0 DEF Readings, ReadingOK, UnderWay
<1>4. \A d \in Callers : ReadingOK(pkt'[d])
  <2>1. \A d \in Callers : pkt'[d] = m \/ pkt'[d] = pkt[d]
    BY <1>0, <1>1 DEF PktOK, Moved
  <2> QED
    BY <1>1, <1>3, <2>1, Zenon DEF Moved
<1>5. Readings'
  BY <1>0, <1>4 DEF Readings, ReadingOK, UnderWay
<1> QED
  BY <1>2, <1>5

-----------------------------------------------------------------------------
(* The inductive invariant.                                                *)

LEMMA AdmissionInvInit == AdmissionInit => AdmissionInv
<1> SUFFICES ASSUME AdmissionInit PROVE AdmissionInv
  OBVIOUS
<1>0. /\ clock = 0 /\ policy \in Policies /\ maxRate = policy.maxRate
      /\ maxPorts = policy.maxPorts
      /\ records = [a \in Clients |-> NoRecord] /\ sweptAt = -Ttl
  BY Constants DEF AdmissionInit, Init, AbuseInit
<1>1. BucketInv
  BY BucketInvInit DEF AdmissionInit
<1>a. /\ lastSweep = LongAgo /\ passed = 0
      /\ shaper = [tok |-> FrontendCap, lastRefill |-> 0]
      /\ second = 0
  BY Zenon DEF AdmissionInit, LimiterInit
<1>2. LimiterTypeOK
  <2>1. 0 \in 0..clock /\ clock \in Nat
    BY <1>0
  <2>2. entries \in [Clients -> EntryType(clock)] /\ buckets \in BucketsType(clock)
    BY <2>1, AbsentType DEF AdmissionInit, LimiterInit, BucketsType
  <2>3. lastSweep \in LongAgo..clock /\ passed \in Nat
    BY <1>0, <1>a, Constants
  <2> QED
    BY <2>2, <2>3, LimiterTypeParts
<1>3. PktOK /\ Readings
  <2>1. clock \in Nat /\ "" \in {"", "ports"}
    BY <1>0
  <2>2. Idle("") \in PktType(clock) /\ ReadingOK(Idle("")) /\ Idle("").at = "idle"
    BY <2>1, IdleOK, Zenon
  <2>3. \A c \in Callers : pkt[c] = Idle("")
    BY DEF AdmissionInit
  <2>4. PktOK
    BY <2>2 DEF PktOK, AdmissionInit
  <2>5. \A c \in Callers : ReadingOK(pkt[c])
    BY <2>2, <2>3, Zenon
  <2> QED
    BY <2>4, <2>5 DEF Readings, ReadingOK, UnderWay
<1>4. ShaperOK
  BY <1>0, <1>a, Constants DEF ShaperOK
<1>5. AbuseOK
  <2>1. maxRate \in Nat /\ maxPorts \in Nat
    BY <1>0, PoliciesAssumption
  <2>2. records \in [Clients -> Records]
    BY <1>0, NoRecordType
  <2>3. sweptAt \in Unix0..clock /\ Never \in Never..clock
    BY <1>0, Constants
  <2>4. second \in Nat
    BY <1>a
  <2>5. tried \in [Ports -> Never..clock] /\ used \in [Ports -> Never..clock]
    BY <2>3 DEF AdmissionInit
  <2> QED
    BY <2>1, <2>2, <2>3, <2>4, <2>5 DEF AbuseOK
<1>6. RecordsOK
  <2>1. RecordOK(NoRecord)
    BY <1>0, Constants, UnixIs DEF RecordOK, NoRecord
  <2> QED
    BY <1>0, <2>1, RecordsEach
<1> QED
  BY <1>0, <1>1, <1>2, <1>3, <1>4, <1>5, <1>6, TypeParts DEF AdmissionInv, BucketInv

LEMMA InvParts ==
  ASSUME AdmissionInv
  PROVE  /\ BucketInv /\ BucketTypeOK /\ LimiterTypeOK /\ policy \in Policies
         /\ PktOK /\ ShaperOK /\ AbuseOK /\ Readings /\ RecordsOK
         /\ clock \in Nat /\ since \in 0..clock /\ PolicyInTime
  BY TypeParts DEF AdmissionInv, BucketTypeOK, PolicyInTime

\* The packet of a reader that is under way.
LEMMA ReadingIs ==
  ASSUME AdmissionInv, NEW c \in Callers, UnderWay(c)
  PROVE  /\ pkt[c].client \in Clients /\ pkt[c].port \in Ports
         /\ pkt[c].now \in 0..clock /\ pkt[c].now \in Int /\ pkt[c].now >= clock - Stall
<1>1. PktOK /\ Readings /\ clock \in Nat
  BY InvParts
<1>2. pkt[c] \in PktType(clock)
  BY <1>1 DEF PktOK
<1>3. pkt[c].now \in 0..clock
  BY <1>2 DEF PktType
<1>4. pkt[c].now \in Int
  BY <1>1, <1>3
<1> QED
  BY <1>1, <1>3, <1>4 DEF Readings

LEMMA LimiterStep ==
  ASSUME AdmissionInv, NEW c \in Callers, ReaderStep(c)
  PROVE  LimiterTypeOK'
<1>0. LimiterTypeOK /\ clock \in Nat /\ clock' = clock /\ Readings
  BY InvParts, ClockStill
<1>1. CASE ClientEntry(c)
  <2>1. UnderWay(c)
    BY <1>1 DEF ClientEntry, At, UnderWay
  <2>2. pkt[c].client \in Clients /\ pkt[c].now \in 0..clock
    BY <2>1, ReadingIs
  <2>3. PICK b \in Names : FindBucket(pkt[c].client, b, pkt[c].now, InUse(c))
    BY <1>1 DEF ClientEntry
  <2> QED
    BY <1>0, <2>2, <2>3, FindBucketType, Zenon
<1>2. CASE ClientBucket(c)
  <2>1. UnderWay(c) /\ pkt[c].at = "bucket"
    BY <1>2 DEF ClientBucket, At, UnderWay
  <2>2. pkt[c].now \in 0..clock /\ pkt[c].bucket \in Names
    BY <1>0, <2>1, ReadingIs DEF Readings
  <2>3. PICK ok \in BOOLEAN :
            UseBucket(pkt[c].client, pkt[c].bucket, pkt[c].now, InUse(c), ok)
    BY <1>2 DEF ClientBucket
  <2> QED
    BY <1>0, <2>2, <2>3, UseBucketType, Zenon
<1>3. CASE UNCHANGED limiterVars
  BY <1>0, <1>3 DEF limiterVars, LimiterTypeOK
<1> QED
  BY <1>1, <1>2, <1>3
  DEF ReaderStep, Discard, Receive, GlobalShaper, FrontendShaper, Abuse

LEMMA ShaperStep ==
  ASSUME AdmissionInv, NEW c \in Callers, ReaderStep(c)
  PROVE  ShaperOK'
<1>0. ShaperOK /\ clock \in Nat /\ clock' = clock
  BY InvParts, ClockStill
<1>1. CASE FrontendShaper(c)
  <2>1. UnderWay(c)
    BY <1>1 DEF FrontendShaper, At, UnderWay
  <2>2. pkt[c].now \in 0..clock
    BY <2>1, ReadingIs
  <2>3. shaper' = SpendFrom(shaper, FrontendRate, FrontendCap, pkt[c].now)
    BY <1>1 DEF FrontendShaper
  <2>4. shaper \in BucketType(FrontendCap, 0, clock)
    BY <1>0 DEF ShaperOK, BucketType
  <2>5. 0 \in Int /\ 0 <= 0
    OBVIOUS
  <2>6. shaper' \in BucketType(FrontendCap, 0, clock)
    BY <1>0, <2>2, <2>3, <2>4, <2>5, SpendType, Constants, Zenon
  <2> QED
    BY <1>0, <2>6 DEF ShaperOK, BucketType
<1>2. CASE UNCHANGED shaper
  BY <1>0, <1>2 DEF ShaperOK
<1> QED
  BY <1>1, <1>2
  DEF ReaderStep, Discard, Receive, GlobalShaper, ClientEntry, ClientBucket, Abuse

LaterIn(h, a, p, now, g, k) ==
    /\ g \in [Ports -> Never..k]
    /\ a # Watched => g = h
    /\ \A q \in Ports \ {p} : g[q] = h[q]
    /\ a = Watched => g[p] = IF now > h[p] THEN now ELSE h[p]

LEMMA LaterIs ==
  ASSUME NEW k \in Nat, NEW h \in [Ports -> Never..k], NEW a, NEW p \in Ports, NEW now \in 0..k
  PROVE  LaterIn(h, a, p, now, Later(h, a, p, now), k)
<1>1. now \in Never..k
  BY Constants
<1> QED
  BY <1>1 DEF Later, LaterIn

LEMMA AbuseStep ==
  ASSUME AdmissionInv, NEW c \in Callers, ReaderStep(c)
  PROVE  AbuseOK' /\ RecordsOK'
<1>0. AbuseOK /\ RecordsOK /\ clock \in Nat /\ clock' = clock
  BY InvParts, ClockStill
<1>1. CASE Abuse(c)
  <2> DEFINE a == pkt[c].client
             p == pkt[c].port
             now == pkt[c].now
  <2>1. UnderWay(c)
    BY <1>1 DEF Abuse, At, UnderWay
  <2>2. a \in Clients /\ p \in Ports /\ now \in 0..clock /\ now \in Int
    BY <2>1, ReadingIs
  <2>3. PICK verdict \in {"pass", "rate", "ports"} :
          /\ AbuseAllow(a, p, now, verdict)
          /\ second' = second \/ second' = second + 1
          /\ tried' = IF maxPorts > 0 /\ verdict # "rate" THEN Later(tried, a, p, now) ELSE tried
          /\ used' = IF maxPorts > 0 /\ verdict = "pass" THEN Later(used, a, p, now) ELSE used
    BY <1>1 DEF Abuse
  <2> HIDE DEF a, p, now
  <2>4. RecordsOK'
    BY <1>0, <2>2, <2>3, AllowKeepsRecords, Zenon
  <2>5. records' \in [Clients -> Records] /\ maxRate' = maxRate /\ maxPorts' = maxPorts
    BY <1>0, <2>2, <2>3, AllowLeaves, Zenon
  <2>6. sweptAt' \in Unix0..clock
    <3>1. sweptAt' = sweptAt \/ sweptAt' = Unix(now)
      BY <2>3, AllowIs DEF LeftWith
    <3> QED
      BY <1>0, <2>2, <3>1, Constants, UnixIs DEF AbuseOK
  <2>7. second' \in Nat
    BY <1>0, <2>3 DEF AbuseOK
  <2>8. tried' \in [Ports -> Never..clock] /\ used' \in [Ports -> Never..clock]
    <3>1. tried \in [Ports -> Never..clock] /\ used \in [Ports -> Never..clock]
      BY <1>0 DEF AbuseOK
    <3>2. /\ Later(tried, a, p, now) \in [Ports -> Never..clock]
          /\ Later(used, a, p, now) \in [Ports -> Never..clock]
      BY <1>0, <2>2, <3>1, LaterIs, Zenon DEF LaterIn
    <3> QED
      BY <2>3, <3>1, <3>2
  <2>9. AbuseOK'
    BY <1>0, <2>5, <2>6, <2>7, <2>8 DEF AbuseOK
  <2> QED
    BY <2>4, <2>9
<1>2. CASE UNCHANGED <<abuseVars, historyVars>>
  BY <1>0, <1>2 DEF AbuseOK, RecordsOK, abuseVars, historyVars
<1> QED
  BY <1>1, <1>2
  DEF ReaderStep, Discard, Receive, GlobalShaper, FrontendShaper, ClientEntry, ClientBucket

LEMMA AdmissionInvStep == AdmissionInv /\ [AdmissionNext]_allVars => AdmissionInv'
<1> SUFFICES ASSUME AdmissionInv, [AdmissionNext]_allVars PROVE AdmissionInv'
  OBVIOUS
<1>0. /\ BucketInv /\ LimiterTypeOK /\ policy \in Policies /\ PolicyInTime
      /\ PktOK /\ ShaperOK /\ AbuseOK /\ Readings /\ RecordsOK /\ clock \in Nat
  BY InvParts
<1>1. BucketInv'
  BY <1>0, BucketStep, BucketInvStep
<1>2. policy' = policy
  BY DEF AdmissionNext, ReaderStep, Discard, Receive, GlobalShaper, FrontendShaper,
         ClientEntry, ClientBucket, Abuse, At, AdmissionObserve, AdmissionTick, allVars
<1> DEFINE Rest == LimiterTypeOK /\ PktOK /\ ShaperOK /\ AbuseOK /\ Readings /\ RecordsOK
<1>3. ASSUME NEW c \in Callers, ReaderStep(c) PROVE Rest'
  BY <1>3, PacketsStep, LimiterStep, ShaperStep, AbuseStep
<1>4. ASSUME AdmissionObserve PROVE Rest'
  <2>1. clock' = clock /\ passed' = 0
        /\ UNCHANGED <<entries, buckets, lastSweep, policy, pkt, shaper, abuseVars, historyVars>>
    BY <1>4 DEF AdmissionObserve, Observe
  <2>2. LimiterTypeOK'
    BY <1>0, <2>1 DEF LimiterTypeOK
  <2>3. (PktOK /\ ShaperOK /\ AbuseOK)'
    BY <1>0, <2>1 DEF PktOK, ShaperOK, AbuseOK, abuseVars, historyVars
  <2>4. Readings'
    BY <1>0, <2>1 DEF Readings, UnderWay
  <2>5. RecordsOK'
    BY <1>0, <2>1 DEF RecordsOK, abuseVars
  <2> QED
    BY <2>2, <2>3, <2>4, <2>5
<1>5. ASSUME AdmissionTick PROVE Rest'
  <2>1. /\ clock' = clock + 1
        /\ \A c \in Callers : UnderWay(c) => clock - pkt[c].now < Stall
        /\ tried' = Recent(tried, 2 * Ttl + Second + Stall)
        /\ used' = Recent(used, Ttl)
        /\ UNCHANGED <<limiterVars, policy, pkt, shaper, abuseVars, second>>
    BY <1>5 DEF AdmissionTick, Tick, UnderWay
  <2>2. 0..clock \subseteq 0..clock' /\ -1..clock \subseteq -1..clock'
        /\ LongAgo..clock \subseteq LongAgo..clock' /\ Unix0..clock \subseteq Unix0..clock'
        /\ Never..clock \subseteq Never..clock' /\ Never \in Never..clock'
    BY <1>0, <2>1, Constants
  <2>3. LimiterTypeOK'
    BY <1>0, <2>1, <2>2 DEF LimiterTypeOK, limiterVars
  <2>4. (PktOK /\ ShaperOK)'
    BY <1>0, <2>1, <2>2 DEF PktOK, PktType, ShaperOK
  <2>5. AbuseOK'
    <3>1. \A h, age : h \in [Ports -> Never..clock] => Recent(h, age) \in [Ports -> Never..clock']
      BY <2>2 DEF Recent
    <3>2. tried' \in [Ports -> Never..clock'] /\ used' \in [Ports -> Never..clock']
      BY <1>0, <2>1, <3>1, Zenon DEF AbuseOK
    <3>3. second' \in Nat
      BY <1>0, <2>1 DEF AbuseOK
    <3> QED
      BY <1>0, <2>1, <2>2, <3>2, <3>3 DEF AbuseOK, abuseVars
  <2>6. Readings'
    <3>1. \A c \in Callers : UnderWay(c) => pkt[c].now >= clock' - Stall
      <4> SUFFICES ASSUME NEW c \in Callers, UnderWay(c) PROVE pkt[c].now >= clock' - Stall
        OBVIOUS
      <4>1. pkt[c].now \in Int
        BY ReadingIs
      <4> QED
        BY <1>0, <2>1, <4>1, Constants
    <3> QED
      BY <1>0, <2>1, <3>1 DEF Readings, UnderWay
  <2>7. RecordsOK'
    <3>1. \A a \in Clients : records[a].lastSeen \in Int
      BY <1>0 DEF AbuseOK, Records
    <3>2. \A a \in Clients : records[a].lastSeen <= Unix(clock')
      <4>1. Unix(clock) <= Unix(clock') /\ Unix(clock) \in Int /\ Unix(clock') \in Int
        BY <1>0, <2>1, UnixIs
      <4> QED
        BY <1>0, <3>1, <4>1 DEF RecordsOK
    <3> QED
      BY <1>0, <2>1, <3>2 DEF RecordsOK, abuseVars
  <2> QED
    BY <2>3, <2>4, <2>5, <2>6, <2>7
<1>6. ASSUME UNCHANGED allVars PROVE Rest'
  <2>1. UNCHANGED <<clock, limiterVars, pkt, shaper, abuseVars, historyVars>>
    BY <1>6 DEF allVars, vars
  <2>2. (LimiterTypeOK /\ PktOK /\ ShaperOK)'
    BY <1>0, <2>1 DEF limiterVars, LimiterTypeOK, PktOK, ShaperOK
  <2>3. (AbuseOK /\ RecordsOK)'
    BY <1>0, <2>1 DEF abuseVars, historyVars, AbuseOK, RecordsOK
  <2>4. Readings'
    BY <1>0, <2>1 DEF Readings, UnderWay
  <2> QED
    BY <2>2, <2>3, <2>4
<1>7. Rest'
  BY <1>3, <1>4, <1>5, <1>6 DEF AdmissionNext
<1>8. AdmissionTypeOK'
  <2>1. BucketTypeOK'
    BY <1>1 DEF BucketInv
  <2> QED
    BY <1>0, <1>2, <1>7, <2>1, SameClientsAssumption
    DEF AdmissionTypeOK, PktOK, PktType, LimiterNames, ShaperOK, AbuseOK
<1> QED
  BY <1>1, <1>7, <1>8 DEF AdmissionInv

LEMMA AdmissionInvAlways == AdmissionSpec => []AdmissionInv
  BY AdmissionInvInit, AdmissionInvStep, PTL DEF AdmissionSpec

\* The limiters' state keeps its types, and every packet in the chain carries a
\* reading the clock has passed (frontend.go: readLoop).
THEOREM AdmissionTypeCorrect == AdmissionSpec => []AdmissionTypeOK
<1>1. AdmissionInv => AdmissionTypeOK
  BY DEF AdmissionInv
<1> QED
  BY <1>1, AdmissionInvAlways, PTL

-----------------------------------------------------------------------------
(* The count of a second.                                                  *)

LEMMA ReadersNat == Readers \in Nat /\ Readers > 0
<1>1. IsFiniteSet(Callers) /\ Callers # {}
  BY FiniteAssumption, ReadersAssumption
<1> QED
  BY <1>1, FS_CardinalityType, FS_EmptySet DEF Readers

LEMMA ReaderSets ==
  ASSUME NEW S \in SUBSET Callers
  PROVE  /\ Cardinality(S) \in Nat /\ Cardinality(S) <= Readers
         /\ \A T \in SUBSET S : Cardinality(T) \in Nat /\ Cardinality(T) <= Cardinality(S)
         /\ \A c \in S : \A T \in SUBSET S : c \notin T => Cardinality(T) + 1 <= Cardinality(S)
         /\ \A c \in Callers \ S : Cardinality(S) + 1 <= Readers
<1>1. \A S1, T1 : IsFiniteSet(S1) /\ T1 \subseteq S1 =>
          /\ IsFiniteSet(T1) /\ Cardinality(T1) \in Nat /\ Cardinality(T1) <= Cardinality(S1)
          /\ \A c \in S1 : c \notin T1 => Cardinality(T1) + 1 <= Cardinality(S1)
  <2> SUFFICES ASSUME NEW S1, NEW T1, IsFiniteSet(S1), T1 \subseteq S1
               PROVE  /\ IsFiniteSet(T1) /\ Cardinality(T1) \in Nat
                      /\ Cardinality(T1) <= Cardinality(S1)
                      /\ \A c \in S1 : c \notin T1 => Cardinality(T1) + 1 <= Cardinality(S1)
    OBVIOUS
  <2>1. IsFiniteSet(T1) /\ Cardinality(T1) <= Cardinality(S1)
    BY FS_Subset
  <2>2. Cardinality(T1) \in Nat /\ Cardinality(S1) \in Nat
    BY <2>1, FS_CardinalityType
  <2>3. Cardinality(S1) = Cardinality(T1) => S1 = T1
    BY FS_Subset
  <2> QED
    BY <2>1, <2>2, <2>3
<1>2. IsFiniteSet(Callers)
  BY FiniteAssumption
<1>3. IsFiniteSet(S)
  BY <1>1, <1>2
<1> QED
  BY <1>1, <1>2, <1>3 DEF Readers

LEMMA RoomIs ==
  ASSUME maxRate \in Nat, NEW counting, NEW p \in Nat
  PROVE  Room(counting, p) \in Nat
  BY DEF Room

\* The terms the count is made of: rate packets for each reader, and for each early one.
LEMMA ProductsNat ==
  ASSUME maxRate \in Nat, maxRate > 0, NEW e \in Nat
  PROVE  /\ maxRate * e \in Nat /\ maxRate * Readers \in Nat
         /\ (maxRate + 1) * Readers = maxRate * Readers + Readers
         /\ maxRate * Readers >= Readers
         /\ maxRate * e >= e
         /\ maxRate * (e + 1) = maxRate * e + maxRate
         /\ \A f \in Nat : f <= e => maxRate * f <= maxRate * e
<1>1. \A n \in Nat : maxRate * n >= n
  <2> SUFFICES ASSUME NEW n \in Nat PROVE maxRate * n >= n
    OBVIOUS
  <2>1. maxRate - 1 \in Nat
    OBVIOUS
  <2>2. (maxRate - 1) * n \in Nat
    BY <2>1, ProductNat
  <2>3. maxRate * n = (maxRate - 1) * n + n
    OBVIOUS
  <2> QED
    BY <2>2, <2>3
<1>2. maxRate * e \in Nat /\ maxRate * Readers \in Nat
  BY ProductNat, ReadersNat
<1>3. \A f \in Nat : f <= e => maxRate * f <= maxRate * e
  BY ProductMonotone
<1> QED
  BY <1>1, <1>2, <1>3, ReadersNat

\* Other clients' packets, and late ones that end, leave the count as it is.
LEMMA DuringOthers ==
  ASSUME maxRate \in Nat, maxRate > 0, NEW n \in Nat, NEW w, NEW p \in Nat,
         NEW v, NEW q \in Nat, NEW e \in Nat, NEW f \in Nat, f <= e,
         During(n, w, p, e), (v = w /\ q = p) \/ (~v /\ ~w)
  PROVE  During(n, v, q, f)
<1>1. Room(v, q) = Room(w, p)
  BY DEF Room
<1>2. n > 0 \/ v => n > 0 \/ w
  OBVIOUS
<1> DEFINE a == maxRate * e
           b == maxRate * f
           m == maxRate * Readers
           r == Room(w, p)
<1>3. a \in Nat /\ b \in Nat /\ m \in Nat /\ b <= a /\ r \in Nat
  BY ProductsNat, ProductNat, RoomIs
<1>4. n > 0 \/ w => n + r + a <= m
  BY DEF During
<1> HIDE DEF a, b, m, r
<1>5. n > 0 \/ v => n + r + b <= m
  BY <1>2, <1>3, <1>4
<1> QED
  BY <1>1, <1>5 DEF During, a, b, m, r

\* An early packet sets the count back, and is one less to come.
LEMMA DuringSetBack ==
  ASSUME maxRate \in Nat, maxRate > 0, NEW n \in Nat, NEW w, NEW p \in Nat,
         NEW q \in Nat, NEW e \in Nat, NEW f \in Nat, f + 1 <= e,
         During(n, w, p, e)
  PROVE  During(n, FALSE, q, f)
<1> DEFINE a == maxRate * e
           b == maxRate * f
           m == maxRate * Readers
           r == Room(w, p)
<1>1. a \in Nat /\ b \in Nat /\ m \in Nat /\ b + maxRate <= a /\ r \in Nat
  <2>1. maxRate * (f + 1) <= maxRate * e /\ maxRate * (f + 1) = maxRate * f + maxRate
    BY ProductsNat, f + 1 \in Nat
  <2> QED
    BY <2>1, ProductsNat, ProductNat, RoomIs
<1>2. n > 0 => n + r + a <= m
  BY DEF During
<1> HIDE DEF a, b, m, r
<1>3. n > 0 => n + maxRate + b <= m
  BY <1>1, <1>2
<1> QED
  BY <1>3 DEF During, Room, b, m

\* A packet of the second is counted, by a reader that brings no early one.
LEMMA DuringCounts ==
  ASSUME maxRate \in Nat, maxRate > 0, NEW n \in Nat, NEW w, NEW p \in Nat,
         NEW q \in Nat, NEW e \in Nat, NEW f \in Nat, f <= e, f + 1 <= Readers,
         ~w => q = 1, w => q = IF p > maxRate THEN p ELSE p + 1,
         During(n, w, p, e)
  PROVE  During(n, TRUE, q, f) /\ (q <= maxRate => During(n + 1, TRUE, q, f))
<1> DEFINE a == maxRate * e
           b == maxRate * f
           m == maxRate * Readers
           r == Room(w, p)
           s == Room(TRUE, q)
<1>1. a \in Nat /\ b \in Nat /\ m \in Nat /\ b <= a /\ b + maxRate <= m /\ r \in Nat /\ s \in Nat
  <2>1. maxRate * (f + 1) <= maxRate * Readers /\ maxRate * (f + 1) = maxRate * f + maxRate
    BY ProductsNat, ProductMonotone, ReadersNat, f + 1 \in Nat
  <2> QED
    BY <2>1, ProductsNat, ProductNat, RoomIs
<1>2. n > 0 \/ w => n + r + a <= m
  BY DEF During
<1>3. n + s <= n + r /\ (q <= maxRate => n + 1 + s <= n + r)
  BY DEF Room
<1>4. ~w => r = maxRate
  BY DEF Room
<1> HIDE DEF a, b, m, r, s
<1>5. n + s + b <= m /\ (q <= maxRate => n + 1 + s + b <= m)
  <2>1. CASE n > 0 \/ w
    BY <1>1, <1>2, <1>3, <2>1
  <2>2. CASE ~(n > 0 \/ w)
    BY <1>1, <1>3, <1>4, <2>2
  <2> QED
    BY <2>1, <2>2
<1> QED
  BY <1>5 DEF During, b, m, s

\* The second is over.
LEMMA AfterOpens ==
  ASSUME maxRate \in Nat, maxRate > 0, NEW n \in Nat, NEW w \in BOOLEAN, NEW p \in Nat,
         NEW e \in Nat, NEW l \in Nat, e + l <= Readers, During(n, w, p, e)
  PROVE  After(n, w, p, l)
<1> DEFINE a == maxRate * e
           m == maxRate * Readers
           r == Room(w, p)
           x == Readers
<1>1. /\ a \in Nat /\ m \in Nat /\ r \in Nat /\ a >= e /\ m >= x /\ x \in Nat /\ x > 0
      /\ (maxRate + 1) * Readers = m + x
  BY ProductsNat, RoomIs, ReadersNat
<1>2. n > 0 \/ w => n + r + a <= m
  BY DEF During
<1>3. r = 0 => w /\ p >= maxRate
  BY DEF Room
<1>4. After(n, w, p, l) <=> \/ n + l < m + x
                            \/ l = x /\ n <= m /\ (n = m => w /\ p >= maxRate)
  BY <1>1 DEF After
<1> HIDE DEF a, m, r, x
<1>5. e + l <= x
  BY DEF x
<1>6. \/ n + l < m + x
      \/ l = x /\ n <= m /\ (n = m => r = 0)
  <2>1. CASE n > 0 \/ w
    <3>1. n + r + e <= m /\ l <= x
      BY <1>1, <1>2, <1>5, <2>1
    <3> QED
      BY <1>1, <1>5, <3>1
  <2>2. CASE ~(n > 0 \/ w)
    BY <1>1, <1>5, <2>2
  <2> QED
    BY <2>1, <2>2
<1> QED
  BY <1>3, <1>4, <1>6

\* After the second a reader that has a packet of it brings it; it is refused if
\* the record still counts the second and is full.
LEMMA AfterSpends ==
  ASSUME maxRate \in Nat, maxRate > 0, NEW n \in Nat, NEW w, NEW p \in Nat,
         NEW v, NEW q \in Nat, NEW k \in Nat, NEW l \in Nat, k + 1 <= l,
         NEW o \in Nat, o = n \/ (o = n + 1 /\ ~(w /\ p >= maxRate)),
         After(n, w, p, l)
  PROVE  After(o, v, q, k)
<1> DEFINE m == maxRate * Readers
           x == Readers
<1>1. /\ m \in Nat /\ x \in Nat /\ x > 0
      /\ (maxRate + 1) * Readers = m + x
  BY ProductsNat, ReadersNat
<1>2. \/ n + l < m + x
      \/ l = x /\ n <= m /\ (n = m => w /\ p >= maxRate)
  BY <1>1 DEF After
<1>3. o + k < m + x => After(o, v, q, k)
  BY <1>1 DEF After
<1> HIDE DEF m, x
<1>4. o + k < m + x
  BY <1>1, <1>2
<1> QED
  BY <1>3, <1>4

\* Any other step lets no packet of the second pass.
LEMMA AfterOthers ==
  ASSUME maxRate \in Nat, maxRate > 0, NEW n \in Nat, NEW w, NEW p \in Nat,
         NEW v, NEW q \in Nat, NEW k \in Nat, NEW l \in Nat, k <= l, l <= Readers,
         k = Readers => v = w /\ q = p,
         After(n, w, p, l)
  PROVE  After(n, v, q, k)
<1> DEFINE m == maxRate * Readers
           x == Readers
<1>1. /\ m \in Nat /\ x \in Nat /\ x > 0
      /\ (maxRate + 1) * Readers = m + x
  BY ProductsNat, ReadersNat
<1>2. \/ n + l < m + x
      \/ l = x /\ n <= m /\ (n = m => w /\ p >= maxRate)
  BY <1>1 DEF After
<1>3. \/ n + k < m + x
      \/ k = x /\ n <= m /\ (n = m => v /\ q >= maxRate)
      => After(n, v, q, k)
  BY <1>1 DEF After
<1>4. k = x => v = w /\ q = p
  OBVIOUS
<1> HIDE DEF m, x
<1>5. CASE n + k < m + x
  BY <1>3, <1>5
<1>6. CASE ~(n + k < m + x)
  <2>1. k = x /\ l = x /\ n <= m /\ (n = m => w /\ p >= maxRate)
    BY <1>1, <1>2, <1>6
  <2> QED
    BY <1>3, <1>4, <2>1
<1> QED
  BY <1>5, <1>6

\* What a call of Allow does to the histories.
LEMMA AbuseIs ==
  ASSUME AdmissionInv, NEW c \in Callers, Abuse(c)
  PROVE  /\ UnderWay(c) /\ clock' = clock
         /\ \E verdict \in {"pass", "rate", "ports"} :
              LET a   == pkt[c].client
                  p   == pkt[c].port
                  now == pkt[c].now
              IN  /\ AbuseAllow(a, p, now, verdict)
                  /\ pkt' = [pkt EXCEPT ![c] = Idle(IF verdict = "ports" THEN "ports" ELSE "")]
                  /\ second' = IF maxRate > 0 /\ verdict = "pass" /\ InSecond(a, now)
                               THEN second + 1 ELSE second
                  /\ tried' = IF maxPorts > 0 /\ verdict # "rate"
                              THEN Later(tried, a, p, now) ELSE tried
                  /\ used' = IF maxPorts > 0 /\ verdict = "pass"
                             THEN Later(used, a, p, now) ELSE used
  BY DEF Abuse, At, UnderWay, vars

\* Every other step of a reader leaves the records and the histories alone.
LEMMA OthersLeaveAbuse ==
  ASSUME NEW c \in Callers, ReaderStep(c), ~Abuse(c)
  PROVE  UNCHANGED <<abuseVars, historyVars>>
  BY DEF ReaderStep, Discard, Receive, GlobalShaper, FrontendShaper, ClientEntry, ClientBucket

\* A packet of the watched client is counted in the second of its reading, afresh if
\* the record counts another one.
LEMMA WatchedCounted ==
  ASSUME AdmissionInv, maxRate > 0, NEW p \in Ports, NEW now \in 0..clock, NEW verdict,
         AbuseAllow(Watched, p, now, verdict)
  PROVE  LET r == records[Watched]
             f == records'[Watched]
         IN  /\ f.window = Unix(now)
             /\ f.packets = IF r.window # Unix(now) THEN 1
                            ELSE IF r.packets > maxRate THEN r.packets ELSE r.packets + 1
             /\ verdict = "pass" => f.packets <= maxRate
<1> DEFINE r == records[Watched]
           f == records'[Watched]
           e == Entered(Watched, now)
           c == Counted(e, now)
           n == Noted(c, p, now)
<1>0. AbuseOK /\ RecordsOK /\ clock \in Nat /\ maxRate \in Nat /\ Watched \in Clients
      /\ records \in [Clients -> Records]
  BY InvParts, WatchedAssumption DEF AbuseOK
<1>1. now \in Int /\ Unix(now) \in Int
  BY <1>0, UnixIs
<1>2. SameCount(f, c) /\ Outcome(Watched, c, n, now, verdict)
  BY <1>0, <1>1, AllowLeaves, Zenon
<1>3. /\ e \in Records /\ e.packets = r.packets
      /\ e.window = r.window \/ (e.packets = 0 /\ e.window = Unix(now)) \/ maxRate <= 0
  BY <1>0, <1>1, EnteredIs, Zenon
<1> HIDE DEF e
<1>4. /\ c.window = Unix(now)
      /\ e.window # Unix(now) => c.packets = 1
      /\ e.window = Unix(now) => c.packets = IF e.packets > maxRate THEN e.packets ELSE e.packets + 1
  BY <1>0, <1>1, <1>3, CountedIs, Zenon
<1>5. verdict = "pass" => ~(c.packets > maxRate)
  BY <1>2, Zenon DEF Outcome, Ends
<1>6. f.window = c.window /\ f.packets = c.packets
  BY <1>2 DEF SameCount
<1> HIDE DEF c, n, r, f
<1>7. e.packets \in Nat
  BY <1>3 DEF Records
<1>8. c.packets = IF r.window # Unix(now) THEN 1
                  ELSE IF r.packets > maxRate THEN r.packets ELSE r.packets + 1
  BY <1>0, <1>3, <1>4, <1>7
<1>9. c.packets \in Nat
  BY <1>3, <1>7, <1>8
<1> QED
  BY <1>0, <1>4, <1>5, <1>6, <1>8, <1>9 DEF r, f

\* A packet of another client can only sweep the watched one's record.
LEMMA WatchedSpared ==
  ASSUME AdmissionInv, NEW a \in Clients, a # Watched, NEW p \in Ports, NEW now \in 0..clock,
         NEW verdict, AbuseAllow(a, p, now, verdict)
  PROVE  LET r == records[Watched]
             f == records'[Watched]
         IN  \/ f.window = r.window /\ f.packets = r.packets
             \/ r.lastSeen < Unix(now - Ttl) /\ f = NoRecord
<1> DEFINE r == records[Watched]
           f == records'[Watched]
<1>0. AbuseOK /\ RecordsOK /\ clock \in Nat /\ Watched \in Clients \ {a} /\ now \in Int
      /\ r \in Records
  BY InvParts, WatchedAssumption DEF AbuseOK
<1>1. KeptOrSwept(r, f, now)
  BY <1>0, AllowLeaves, Zenon
<1>2. SameCount(WithoutOldPorts(r, now), r)
  BY <1>0, OldPortsGone, Zenon
<1> HIDE DEF r, f
<1> QED
  BY <1>1, <1>2 DEF KeptOrSwept, SameCount, r, f

\* The record of the watched client, while no packet of the watched second has come
\* and after it was swept, counts another second.
LEMMA CountingIs ==
  ASSUME AdmissionInv, maxRate > 0
  PROVE  /\ Counting => records[Watched].lastSeen = WatchedSecond /\ Unix(clock) >= WatchedSecond
         /\ NoRecord.window # WatchedSecond
         /\ records[Watched].packets \in Nat /\ Counting \in BOOLEAN
<1>0. AbuseOK /\ RecordsOK /\ clock \in Nat /\ Unix(clock) \in Int
  BY InvParts, UnixIs
<1>1. records[Watched] \in Records /\ RecordOK(records[Watched])
  BY <1>0, RecordsEach, WatchedAssumption DEF AbuseOK
<1>2. NoRecord.window < 0
  BY Constants DEF NoRecord
<1>3. Counting => records[Watched].lastSeen = WatchedSecond
  BY <1>1, <1>2, WatchedSecondAssumption DEF Counting, RecordOK
<1> QED
  BY <1>0, <1>1, <1>2, <1>3, WatchedSecondAssumption DEF RecordOK, Records, Counting

\* New readings are of the present second, and a reader that called Allow is idle.
LEMMA ReadersAfterStep ==
  ASSUME AdmissionInv, NEW c \in Callers, ReaderStep(c)
  PROVE  /\ Unix(clock) = WatchedSecond => Early' \subseteq Early
         /\ Unix(clock) > WatchedSecond => Present' \subseteq Present
         /\ Abuse(c) => c \notin Early' /\ c \notin Present'
<1>0. PktOK /\ PolicyInTime /\ clock \in Nat /\ Readings /\ Unix(clock) \in Int
  BY InvParts, UnixIs
<1>1. PICK m : Moved(c, m) /\ (Abuse(c) => m.at = "idle")
  BY <1>0, ReaderMoves
<1>2. pkt'[c] = m /\ \A d \in Callers : d # c => pkt'[d] = pkt[d]
  BY <1>0, <1>1 DEF PktOK, Moved
<1>3. m.at # "idle" => m.now = clock \/ (pkt[c].at # "idle" /\ m.now = pkt[c].now)
  BY <1>1 DEF Moved, Carried
<1>4. Unix(clock) = WatchedSecond => Early' \subseteq Early
  BY <1>0, <1>2, <1>3, WatchedSecondAssumption DEF Early, UnderWay
<1>5. Unix(clock) > WatchedSecond => Present' \subseteq Present
  BY <1>0, <1>2, <1>3, WatchedSecondAssumption DEF Present, UnderWay
<1>6. Abuse(c) => c \notin Early' /\ c \notin Present'
  BY <1>1, <1>2 DEF Early, Present, UnderWay
<1> QED
  BY <1>4, <1>5, <1>6

\* The invariant through a call of Allow.
LEMMA SecondThroughCall ==
  ASSUME AdmissionInv, SecondInv, NEW c \in Callers, ReaderStep(c), Abuse(c), maxRate > 0,
         maxRate' = maxRate
  PROVE  SecondInv'
<1> DEFINE a == pkt[c].client
           p == pkt[c].port
           now == pkt[c].now
           k == records[Watched].packets
           q == records'[Watched].packets
<1>0. AbuseOK /\ RecordsOK /\ clock \in Nat /\ Unix(clock) \in Int /\ maxRate \in Nat /\ second \in Nat
  BY InvParts, UnixIs DEF AbuseOK
<1>1. UnderWay(c) /\ clock' = clock
  BY AbuseIs
<1>2. a \in Clients /\ p \in Ports /\ now \in 0..clock /\ now \in Int
  BY <1>1, ReadingIs
<1>3. PICK verdict \in {"pass", "rate", "ports"} :
        /\ AbuseAllow(a, p, now, verdict)
        /\ second' = IF maxRate > 0 /\ verdict = "pass" /\ InSecond(a, now)
                     THEN second + 1 ELSE second
  BY AbuseIs
<1> HIDE DEF a, p, now
<1>s. Unix(now) \in Int /\ Unix(now) <= Unix(clock) /\ Unix(now - Ttl) \in Int
      /\ Unix(now - Ttl) <= Unix(now)
  BY <1>0, <1>2, UnixIs, CutoffIs
<1>4. a = Watched =>
        /\ records'[Watched].window = Unix(now)
        /\ q = IF records[Watched].window # Unix(now) THEN 1 ELSE IF k > maxRate THEN k ELSE k + 1
        /\ verdict = "pass" => q <= maxRate
  BY <1>2, <1>3, WatchedCounted
<1>5. a # Watched =>
        \/ records'[Watched].window = records[Watched].window /\ q = k
        \/ records[Watched].lastSeen < Unix(now - Ttl) /\ records'[Watched] = NoRecord
  BY <1>2, <1>3, WatchedSpared
<1>6. /\ Counting => records[Watched].lastSeen = WatchedSecond /\ Unix(clock) >= WatchedSecond
      /\ NoRecord.window # WatchedSecond
      /\ k \in Nat /\ Counting \in BOOLEAN
  BY CountingIs
<1>7. q \in Nat /\ Counting' \in BOOLEAN /\ second' \in Nat
  <2>1. NoRecord.packets = 0
    BY DEF NoRecord
  <2> QED
    BY <1>0, <1>3, <1>4, <1>5, <1>6, <2>1 DEF Counting
<1>8. /\ Early \in SUBSET Callers /\ Early' \in SUBSET Callers
      /\ Present \in SUBSET Callers /\ Present' \in SUBSET Callers
  BY DEF Early, Present
<1> DEFINE e == Cardinality(Early)
           f == Cardinality(Early')
           l == Cardinality(Present)
           j == Cardinality(Present')
<1>9. e \in Nat /\ f \in Nat /\ l \in Nat /\ j \in Nat /\ l <= Readers
  BY <1>8, ReaderSets
<1>10. c \notin Early' /\ c \notin Present'
  BY ReadersAfterStep
<1>11. c \in Early <=> Unix(now) < WatchedSecond
  BY <1>1 DEF Early, now
<1>12. c \in Present <=> Unix(now) = WatchedSecond
  BY <1>1 DEF Present, now
<1>13. (/\ Unix(clock) < WatchedSecond => second' = 0
        /\ Unix(clock) = WatchedSecond => During(second', Counting', q, f)
        /\ Unix(clock) > WatchedSecond => After(second', Counting', q, j))
       => SecondInv'
  BY <1>1 DEF SecondInv, During, After, Room
<1>14. /\ Unix(clock) < WatchedSecond => second = 0
       /\ Unix(clock) = WatchedSecond => During(second, Counting, k, e)
       /\ Unix(clock) > WatchedSecond => After(second, Counting, k, l)
  BY DEF SecondInv
<1>15. second' = second \/ (second' = second + 1 /\ verdict = "pass" /\ a = Watched
                                                /\ Unix(now) = WatchedSecond)
  BY <1>3 DEF InSecond
<1>16. /\ Unix(clock) = WatchedSecond => f <= e
       /\ Unix(clock) > WatchedSecond => j <= l
       /\ f + 1 <= Readers /\ j + 1 <= Readers
       /\ Unix(clock) = WatchedSecond /\ c \in Early => f + 1 <= e
       /\ Unix(clock) > WatchedSecond /\ c \in Present => j + 1 <= l
  <2>1. f + 1 <= Readers /\ j + 1 <= Readers
    BY <1>8, <1>10, ReaderSets
  <2>2. Unix(clock) = WatchedSecond => Early' \in SUBSET Early
    BY ReadersAfterStep
  <2>3. Unix(clock) > WatchedSecond => Present' \in SUBSET Present
    BY ReadersAfterStep
  <2>4. Unix(clock) = WatchedSecond => f <= e /\ (c \in Early => f + 1 <= e)
    BY <1>8, <1>10, <2>2, ReaderSets
  <2>5. Unix(clock) > WatchedSecond => j <= l /\ (c \in Present => j + 1 <= l)
    BY <1>8, <1>10, <2>3, ReaderSets
  <2> QED
    BY <2>1, <2>4, <2>5
<1>17. ASSUME a # Watched
       PROVE  (Counting' = Counting /\ q = k)
              \/ (~Counting' /\ (Unix(clock) = WatchedSecond => ~Counting))
  BY <1>0, <1>5, <1>6, <1>s, <1>17 DEF Counting
<1> HIDE DEF e, f, l, j, k, q
<1>18. CASE Unix(clock) < WatchedSecond
  BY <1>0, <1>13, <1>14, <1>15, <1>18, <1>s, WatchedSecondAssumption
<1>19. CASE Unix(clock) = WatchedSecond
  <2>1. During(second, Counting, k, e)
    BY <1>14, <1>19
  <2>2. CASE a = Watched /\ Unix(now) = WatchedSecond
    <3>1. Counting' = TRUE /\ q = IF ~Counting THEN 1 ELSE IF k > maxRate THEN k ELSE k + 1
      BY <1>4, <2>2 DEF Counting
    <3>2. second' = second \/ (second' = second + 1 /\ q <= maxRate)
      BY <1>4, <1>15, <2>2
    <3>3. f <= e /\ f + 1 <= Readers
      BY <1>16, <1>19
    <3>a. /\ ~Counting => q = 1
          /\ Counting => q = IF k > maxRate THEN k ELSE k + 1
      BY <3>1
    <3>b. k \in Nat /\ q \in Nat /\ second' \in Nat
      BY <1>6, <1>7
    <3>c. During(second, TRUE, q, f) /\ (q <= maxRate => During(second + 1, TRUE, q, f))
      BY <1>0, <1>9, <2>1, <3>3, <3>a, <3>b, DuringCounts
    <3>4. During(second', TRUE, q, f)
      BY <3>2, <3>c, Zenon
    <3>5. During(second', Counting', q, f)
      BY <3>1, <3>4, Zenon
    <3> QED
      BY <1>0, <1>13, <1>19, WatchedSecondAssumption, <3>5
  <2>3. CASE a = Watched /\ Unix(now) # WatchedSecond
    <3>1. Counting' = FALSE /\ c \in Early /\ second' = second
      BY <1>4, <1>11, <1>15, <1>19, <1>s, <2>3, WatchedSecondAssumption DEF Counting
    <3>2. f + 1 <= e
      BY <1>16, <1>19, <3>1
    <3>3. During(second, FALSE, q, f)
      BY <1>0, <1>6, <1>7, <1>9, <2>1, <3>2, DuringSetBack
    <3>4. During(second', Counting', q, f)
      BY <3>1, <3>3, Zenon
    <3> QED
      BY <1>0, <1>13, <1>19, WatchedSecondAssumption, <3>4
  <2>4. CASE a # Watched
    <3>1. second' = second
      BY <1>15, <2>4
    <3>2. (Counting' = Counting /\ q = k) \/ (~Counting' /\ ~Counting)
      BY <1>17, <1>19, <2>4
    <3>a. f <= e
      BY <1>16, <1>19
    <3>3. During(second, Counting', q, f)
      BY <1>0, <1>6, <1>7, <1>9, <2>1, <3>2, <3>a, DuringOthers
    <3> QED
      BY <1>0, <1>13, <1>19, WatchedSecondAssumption, <3>1, <3>3
  <2> QED
    BY <2>2, <2>3, <2>4
<1>20. CASE Unix(clock) > WatchedSecond
  <2>1. After(second, Counting, k, l)
    BY <1>14, <1>20
  <2>2. CASE c \in Present
    <3>1. second' = second \/ (second' = second + 1 /\ ~(Counting /\ k >= maxRate))
      <4> SUFFICES ASSUME second' # second, Counting PROVE second' = second + 1 /\ ~(k >= maxRate)
        BY <1>15
      <4>1. /\ second' = second + 1 /\ q <= maxRate
            /\ q = IF k > maxRate THEN k ELSE k + 1
        BY <1>4, <1>15 DEF Counting
      <4> QED
        BY <1>0, <1>6, <4>1
    <3>2. After(second', Counting', q, j)
      BY <1>0, <1>6, <1>7, <1>9, <1>16, <1>20, <2>1, <2>2, <3>1, AfterSpends
    <3> QED
      BY <1>0, <1>13, <1>20, WatchedSecondAssumption, <3>2
  <2>3. CASE c \notin Present
    <3>1. second' = second
      BY <1>12, <1>15, <2>3
    <3>2. j # Readers /\ j <= l
      BY <1>9, <1>16, <1>20, ReadersNat
    <3>3. After(second, Counting', q, j)
      BY <1>0, <1>6, <1>7, <1>9, <2>1, <3>2, AfterOthers
    <3> QED
      BY <1>0, <1>13, <1>20, WatchedSecondAssumption, <3>1, <3>3
  <2> QED
    BY <2>2, <2>3
<1> QED
  BY <1>0, <1>18, <1>19, <1>20, WatchedSecondAssumption

LEMMA SecondInvInit == AdmissionInit => SecondInv
<1> SUFFICES ASSUME AdmissionInit PROVE SecondInv
  OBVIOUS
<1>1. second = 0 /\ clock = 0 /\ records[Watched] = NoRecord
  BY WatchedAssumption, Constants DEF AdmissionInit, Init, AbuseInit
<1>2. AdmissionInv
  BY AdmissionInvInit
<1>3. maxRate > 0 => ~Counting
  BY <1>1, <1>2, CountingIs DEF Counting
<1>4. Unix(clock) = 0 /\ ~(Unix(clock) > WatchedSecond)
  BY <1>1, UnixIs, WatchedSecondAssumption
<1> QED
  BY <1>1, <1>3, <1>4 DEF SecondInv, During

\* The seconds go by one at a time.
LEMMA NextSecond == \A t \in Nat : Unix(t + 1) = Unix(t) \/ Unix(t + 1) = Unix(t) + 1
  BY SecondAssumption DEF Unix

LEMMA SecondInvStep == AdmissionInv /\ SecondInv /\ [AdmissionNext]_allVars => SecondInv'
<1> SUFFICES ASSUME AdmissionInv, SecondInv, [AdmissionNext]_allVars PROVE SecondInv'
  OBVIOUS
<1>0. AbuseOK /\ clock \in Nat /\ Unix(clock) \in Int /\ maxRate \in Nat /\ second \in Nat
  BY InvParts, UnixIs DEF AbuseOK
<1> DEFINE k == records[Watched].packets
           e == Cardinality(Early)
           l == Cardinality(Present)
<1>s. /\ Early \in SUBSET Callers /\ Early' \in SUBSET Callers
      /\ Present \in SUBSET Callers /\ Present' \in SUBSET Callers
  BY DEF Early, Present
<1>n. e \in Nat /\ l \in Nat /\ e' \in Nat /\ l' \in Nat /\ l <= Readers
  BY <1>s, ReaderSets
<1>m. maxRate' = maxRate
  <2>1. ASSUME NEW c \in Callers, ReaderStep(c) PROVE maxRate' = maxRate
    BY <2>1, AbuseIs, OthersLeaveAbuse DEF AbuseAllow, abuseVars
  <2> QED
    BY <2>1 DEF AdmissionNext, AdmissionObserve, AdmissionTick, abuseVars, allVars
<1>1. ASSUME NEW c \in Callers, ReaderStep(c), Abuse(c), maxRate > 0 PROVE SecondInv'
  BY <1>1, <1>m, SecondThroughCall
<1>2. ASSUME NEW c \in Callers, ReaderStep(c), ~Abuse(c), maxRate > 0 PROVE SecondInv'
  <2>1. second' = second /\ records' = records /\ clock' = clock /\ Counting' = Counting
    BY <1>2, OthersLeaveAbuse, ClockStill DEF abuseVars, historyVars, Counting
  <2>2. Unix(clock) = WatchedSecond => e' <= e
    BY <1>2, <1>s, ReadersAfterStep, ReaderSets
  <2>3. Unix(clock) > WatchedSecond => l' <= l
    BY <1>2, <1>s, ReadersAfterStep, ReaderSets
  <2>4. k \in Nat /\ Counting \in BOOLEAN
    BY <1>2, CountingIs
  <2> HIDE DEF k, e, l
  <2>5. Unix(clock) = WatchedSecond => During(second, Counting, k, e')
    <3>1. Unix(clock) = WatchedSecond => During(second, Counting, k, e)
      BY <1>2 DEF SecondInv, k, e
    <3> QED
      BY <1>0, <1>2, <1>n, <2>2, <2>4, <3>1, DuringOthers
  <2>6. Unix(clock) > WatchedSecond => After(second, Counting, k, l')
    <3>1. Unix(clock) > WatchedSecond => After(second, Counting, k, l)
      BY <1>2 DEF SecondInv, k, l
    <3> QED
      BY <1>0, <1>2, <1>n, <2>3, <2>4, <3>1, AfterOthers
  <2>7. Unix(clock) < WatchedSecond => second = 0
    BY <1>2 DEF SecondInv
  <2> QED
    BY <1>m, <2>1, <2>5, <2>6, <2>7 DEF SecondInv, During, After, Room, k, e, l
<1>3. ASSUME AdmissionObserve \/ UNCHANGED allVars PROVE SecondInv'
  <2>1. UNCHANGED <<second, records, maxRate, clock, pkt>>
    BY <1>3 DEF AdmissionObserve, Observe, abuseVars, historyVars, allVars, vars
  <2> QED
    BY <2>1 DEF SecondInv, During, After, Room, Counting, Early, Present, UnderWay
<1>4. ASSUME AdmissionTick, maxRate > 0 PROVE SecondInv'
  <2>1. clock' = clock + 1 /\ UNCHANGED <<second, records, maxRate, pkt>>
    BY <1>4 DEF AdmissionTick, Tick, abuseVars
  <2>2. Unix(clock') = Unix(clock) \/ Unix(clock') = Unix(clock) + 1
    BY <1>0, <2>1, NextSecond
  <2>3. Early' = Early /\ Present' = Present /\ Counting' = Counting
    BY <2>1 DEF Early, Present, Counting, UnderWay
  <2>4. k \in Nat /\ Counting \in BOOLEAN /\ (Unix(clock) < WatchedSecond => ~Counting)
    BY <1>0, <1>4, CountingIs, WatchedSecondAssumption
  <2>5. Unix(clock) < WatchedSecond => During(second, Counting, k, e)
    BY <1>4, <2>4 DEF SecondInv, During
  <2>6. e + l <= Readers
    <3>1. IsFiniteSet(Callers) /\ Present \subseteq Callers \ Early /\ Callers \cap Early = Early
      BY <1>0, FiniteAssumption, WatchedSecondAssumption DEF Early, Present
    <3>2. IsFiniteSet(Callers \ Early) /\ Cardinality(Callers \ Early) = Readers - e
      BY <3>1, FS_Difference DEF Readers
    <3>3. l <= Cardinality(Callers \ Early)
      BY <3>1, <3>2, FS_Subset
    <3> QED
      BY <1>n, <3>2, <3>3, ReadersNat
  <2> HIDE DEF k, e, l
  <2>7. Unix(clock) = WatchedSecond => After(second, Counting, k, l) /\ During(second, Counting, k, e)
    <3>1. Unix(clock) = WatchedSecond => During(second, Counting, k, e)
      BY <1>4 DEF SecondInv, k, e
    <3> QED
      BY <1>0, <1>4, <1>n, <2>4, <2>6, <3>1, AfterOpens
  <2>8. Unix(clock) > WatchedSecond => After(second, Counting, k, l)
    BY <1>4 DEF SecondInv, k, l
  <2>9. Unix(clock) < WatchedSecond => second = 0
    BY <1>4 DEF SecondInv
  <2>10. /\ Unix(clock') < WatchedSecond => second = 0
         /\ Unix(clock') = WatchedSecond => During(second, Counting, k, e)
         /\ Unix(clock') > WatchedSecond => After(second, Counting, k, l)
    BY <1>0, <2>2, <2>5, <2>7, <2>8, <2>9, WatchedSecondAssumption
  <2> QED
    BY <2>1, <2>3, <2>10 DEF SecondInv, During, After, Room, k, e, l
<1>5. CASE maxRate = 0
  BY <1>m, <1>5 DEF SecondInv
<1> QED
  BY <1>0, <1>1, <1>2, <1>3, <1>4, <1>5 DEF AdmissionNext

LEMMA SecondInvImplies == AdmissionInv /\ SecondInv => SecondBound
<1> SUFFICES ASSUME AdmissionInv, SecondInv, maxRate > 0
             PROVE  second < (maxRate + 1) * Cardinality(Callers)
  BY DEF SecondBound
<1>0. clock \in Nat /\ Unix(clock) \in Int /\ maxRate \in Nat /\ second \in Nat
  BY InvParts, UnixIs DEF AbuseOK
<1> DEFINE m == maxRate * Readers
           x == Readers
           k == records[Watched].packets
           e == Cardinality(Early)
           l == Cardinality(Present)
<1>1. Early \in SUBSET Callers /\ Present \in SUBSET Callers
  BY DEF Early, Present
<1>2. e \in Nat /\ l \in Nat
  BY <1>1, ReaderSets
<1>3. m \in Nat /\ x \in Nat /\ x > 0 /\ (maxRate + 1) * Readers = m + x /\ maxRate * e \in Nat
  BY <1>0, <1>2, ProductsNat, ReadersNat
<1>4. k \in Nat /\ Counting \in BOOLEAN
  BY CountingIs
<1>5. Room(Counting, k) \in Nat
  BY <1>0, <1>4, RoomIs
<1>6. During(second, Counting, k, e) => second <= m
  <2> DEFINE a == maxRate * e
             r == Room(Counting, k)
  <2>1. During(second, Counting, k, e) => second = 0 \/ second + r + a <= m
    BY <1>0 DEF During
  <2>2. a \in Nat /\ r \in Nat
    BY <1>3, <1>5
  <2> HIDE DEF a, r, m
  <2> QED
    BY <1>0, <1>3, <2>1, <2>2
<1>7. After(second, Counting, k, l) => second < m + x
  BY <1>0, <1>2, <1>3 DEF After
<1>8. \/ second = 0 \/ During(second, Counting, k, e) \/ After(second, Counting, k, l)
  BY <1>0, WatchedSecondAssumption DEF SecondInv
<1> HIDE DEF m, x, k, e, l
<1>9. second < m + x
  BY <1>0, <1>3, <1>6, <1>7, <1>8
<1> QED
  BY <1>3, <1>9 DEF Readers, x

\* Of a client's packets of one second pass fewer than max_packets_per_second_per_ip + 1
\* for each reader (abuse.go:79), for any number of readers, clients and
\* ports, any stall and any timeout: readings of other seconds that come in between
\* set the count back, but not more often.
THEOREM SecondLimited == AdmissionSpec => []SecondBound
<1>1. AdmissionSpec => []SecondInv
  BY SecondInvStep, SecondInvInit, AdmissionInvAlways, PTL DEF AdmissionSpec
<1> QED
  BY <1>1, AdmissionInvAlways, SecondInvImplies, PTL
-----------------------------------------------------------------------------
(* The ports of a client.                                                  *)

\* PortsKept, port by port: u is when the port was used last, s when the record
\* has it, l when the record was last used, k the clock.
KeptFor(u, s, l, k) == u >= k - (Ttl - Stall) => s >= Unix(u - Stall) /\ l >= Unix(u - Stall)

LEMMA PortsEach ==
  PortsKept <=> \A p \in Ports :
      KeptFor(used[p], records[Watched].sessions[p], records[Watched].lastSeen, clock)
  BY DEF PortsKept, RecentlyUsed, KeptFor

LEMMA UnixOfPast == \A t \in Nat : Unix(-t) >= -t
  BY SecondAssumption DEF Unix

\* A sweep with a reading that the clock has passed takes no port used recently.
LEMMA SweepKeepsPort ==
  ASSUME NEW k \in Nat, NEW u \in Int, NEW s \in Int, NEW l \in Int, NEW now \in 0..k,
         u >= k - (Ttl - Stall), KeptFor(u, s, l, k)
  PROVE  /\ ~(s < Unix(now - Ttl)) /\ ~(l < Unix(now - Ttl))
         /\ s # Never
<1>1. u - Stall \in Int /\ now - Ttl \in Int /\ now - Ttl <= u - Stall /\ -Ttl \in Int
      /\ -Ttl <= u - Stall
  BY Constants
<1>2. /\ Unix(u - Stall) \in Int /\ Unix(now - Ttl) \in Int
      /\ Unix(now - Ttl) <= Unix(u - Stall) /\ Unix(-Ttl) <= Unix(u - Stall)
      /\ Unix(-Ttl) \in Int
  BY <1>1, UnixIs
<1>3. Unix(-Ttl) >= -Ttl
  BY Constants, UnixOfPast
<1> QED
  BY <1>2, <1>3, Constants DEF KeptFor

\* The record of the watched client after a call of another client.
LEMMA PortsThroughOthers ==
  ASSUME NEW k \in Nat, NEW e \in Records, NEW f, NEW now \in 0..k, KeptOrSwept(e, f, now),
         NEW p \in Ports, NEW u \in Int, KeptFor(u, e.sessions[p], e.lastSeen, k)
  PROVE  KeptFor(u, f.sessions[p], f.lastSeen, k)
<1> SUFFICES ASSUME u >= k - (Ttl - Stall)
             PROVE  f.sessions[p] = e.sessions[p] /\ f.lastSeen = e.lastSeen
  BY DEF KeptFor
<1>1. e.sessions[p] \in Int /\ e.lastSeen \in Int /\ now \in Int
  BY DEF Records
<1>2. ~(e.sessions[p] < Unix(now - Ttl)) /\ ~(e.lastSeen < Unix(now - Ttl))
  BY <1>1, SweepKeepsPort
<1>3. CASE f = WithoutOldPorts(e, now)
  <2>1. /\ SameCount(f, e)
        /\ \A q \in Ports : f.sessions[q] =
               IF e.sessions[q] < Unix(now - Ttl) THEN Never ELSE e.sessions[q]
    BY <1>1, <1>3, OldPortsGone, Zenon
  <2> QED
    BY <1>2, <2>1 DEF SameCount
<1> QED
  BY <1>2, <1>3 DEF KeptOrSwept

\* The record that a call of the watched client leaves: all ports used recently are
\* in it.
LEMMA PortsThroughNote ==
  ASSUME NEW k \in Nat, NEW e \in Records, NEW p \in Ports, NEW now \in 0..k, now >= k - Stall,
         NEW q \in Ports, NEW u \in Int, u <= k,
         q # p => KeptFor(u, e.sessions[q], e.lastSeen, k),
         u >= k - (Ttl - Stall)
  PROVE  Noted(e, p, now).sessions[q] >= Unix(u - Stall) /\ Noted(e, p, now).sessions[q] # Never
<1> DEFINE f == Noted(e, p, now)
<1>1. now \in Int
  OBVIOUS
<1>2. f.sessions[p] = Unix(now) /\ NotedPorts(e, f, p, now)
  BY <1>1, NotedIs, Zenon
<1> HIDE DEF f
<1>3. CASE q = p
  <2>1. u - Stall \in Int /\ u - Stall <= now /\ now \in Nat
    BY Constants
  <2>2. Unix(u - Stall) <= Unix(now) /\ Unix(now) \in Nat
    BY <1>1, <2>1, UnixIs
  <2> QED
    BY <1>2, <1>3, <2>2, Constants DEF f
<1>4. CASE q # p
  <2>1. e.sessions[q] \in Int /\ e.lastSeen \in Int
    BY DEF Records
  <2>2. ~(e.sessions[q] < Unix(now - Ttl)) /\ e.sessions[q] # Never /\ e.sessions[q] >= Unix(u - Stall)
    BY <1>4, <2>1, SweepKeepsPort DEF KeptFor
  <2>3. f.sessions[q] = e.sessions[q]
    BY <1>2, <1>4, <2>2 DEF NotedPorts
  <2> QED
    BY <2>2, <2>3 DEF f
<1> QED
  BY <1>3, <1>4

LEMMA PortsInvInit == AdmissionInit => PortsInv
<1> SUFFICES ASSUME AdmissionInit PROVE PortsInv
  OBVIOUS
<1>1. clock = 0 /\ \A p \in Ports : used[p] = Never
  BY DEF AdmissionInit, Init
<1>2. RecentlyUsed = {}
  BY <1>1, Constants DEF RecentlyUsed
<1>3. maxPorts \in Nat
  BY AdmissionInvInit, InvParts DEF AbuseOK
<1> QED
  BY <1>2, <1>3, FS_EmptySet DEF PortsInv, PortsKept, PortsWithinLimit, RecentlyUsed

HistoryTyped ==
    clock \in Nat /\ used \in [Ports -> Never..clock] /\ tried \in [Ports -> Never..clock]

LEMMA HistoryIs == AdmissionInv => HistoryTyped
  BY InvParts DEF HistoryTyped, AbuseOK

LEMMA HistoryPrimed == AdmissionInv' => HistoryTyped'
  BY HistoryIs, PTL

LEMMA PortsInvStep == AdmissionInv /\ PortsInv /\ [AdmissionNext]_allVars => PortsInv'
<1> SUFFICES ASSUME AdmissionInv, PortsInv, [AdmissionNext]_allVars PROVE PortsInv'
  OBVIOUS
<1>0. AbuseOK /\ RecordsOK /\ clock \in Nat /\ AdmissionInv'
  BY InvParts, AdmissionInvStep
<1>a. maxPorts \in Nat /\ records \in [Clients -> Records] /\ used \in [Ports -> Never..clock]
  BY <1>0 DEF AbuseOK
<1>b. clock' \in Nat /\ used' \in [Ports -> Never..clock'] /\ Watched \in Clients
  BY <1>0, WatchedAssumption, HistoryPrimed DEF HistoryTyped
<1> DEFINE W == records[Watched]
           X == records'[Watched]
           Kept == \A p \in Ports : KeptFor(used'[p], X.sessions[p], X.lastSeen, clock')
           Limited == Cardinality(RecentlyUsed') <= maxPorts
<1>c. W \in Records
  BY <1>a, <1>b
<1>d. maxPorts > 0 => /\ \A p \in Ports : KeptFor(used[p], W.sessions[p], W.lastSeen, clock)
                      /\ Cardinality(RecentlyUsed) <= maxPorts
  BY PortsEach DEF PortsInv, PortsWithinLimit, RecentlyUsed
<1>e. maxPorts' = maxPorts /\ (maxPorts > 0 => Kept /\ Limited) => PortsInv'
  BY DEF PortsInv, PortsKept, PortsWithinLimit, RecentlyUsed, KeptFor
<1>f. RecentlyUsed' \subseteq RecentlyUsed /\ maxPorts > 0 => Limited
  <2> SUFFICES ASSUME RecentlyUsed' \subseteq RecentlyUsed, maxPorts > 0 PROVE Limited
    OBVIOUS
  <2>1. IsFiniteSet(RecentlyUsed)
    BY PortsAssumption, FS_Subset DEF RecentlyUsed
  <2>2. IsFiniteSet(RecentlyUsed')
    BY <2>1, FS_Subset
  <2>3. /\ Cardinality(RecentlyUsed) \in Nat /\ Cardinality(RecentlyUsed') \in Nat
        /\ Cardinality(RecentlyUsed') <= Cardinality(RecentlyUsed)
    BY <2>1, <2>2, FS_Subset, FS_CardinalityType
  <2> QED
    BY <1>a, <1>d, <2>3
<1>g. UNCHANGED <<used, clock>> => RecentlyUsed' = RecentlyUsed
  BY DEF RecentlyUsed
<1> HIDE DEF Limited
<1>1. ASSUME NEW c \in Callers, ReaderStep(c), Abuse(c) PROVE PortsInv'
  <2> DEFINE a == pkt[c].client
             p == pkt[c].port
             now == pkt[c].now
             m == Counted(Entered(a, now), now)
             n == Noted(m, p, now)
  <2>1. UnderWay(c) /\ clock' = clock
    BY <1>1, AbuseIs
  <2>2. a \in Clients /\ p \in Ports /\ now \in 0..clock /\ now \in Int /\ now >= clock - Stall
    BY <2>1, ReadingIs
  <2>3. PICK verdict \in {"pass", "rate", "ports"} :
          /\ AbuseAllow(a, p, now, verdict)
          /\ used' = IF maxPorts > 0 /\ verdict = "pass" THEN Later(used, a, p, now) ELSE used
    BY <1>1, AbuseIs
  <2>4. PICK r \in Records :
          /\ r = m \/ r = n
          /\ Ends(m, n, r, verdict)
          /\ records'[a] = r \/ records'[a] = WithoutOldPorts(r, now)
    <3> HIDE DEF a, p, now
    <3>1. Outcome(a, m, n, now, verdict)
      BY <1>0, <2>2, <2>3, AllowLeaves, Zenon
    <3> HIDE DEF m, n
    <3> QED
      BY <3>1, Zenon DEF Outcome
  <2>5. /\ maxPorts' = maxPorts /\ m \in Records /\ n \in Records /\ SameCount(n, m)
        /\ m.lastSeen = Unix(now)
        /\ \A x \in Clients \ {a} : KeptOrSwept(records[x], records'[x], now)
    <3> HIDE DEF a, p, now
    <3> QED
      BY <1>0, <2>2, <2>3, AllowLeaves, Zenon
  <2>6. /\ used \in [Ports -> Never..clock] => used' \in [Ports -> Never..clock]
        /\ a # Watched => used' = used
        /\ verdict # "pass" => used' = used
        /\ \A q \in Ports \ {p} : used'[q] = used[q]
    <3> HIDE DEF a, p, now
    <3>1. /\ a # Watched => Later(used, a, p, now) = used
          /\ \A q \in Ports \ {p} : Later(used, a, p, now)[q] = used[q]
      <4>1. LaterIn(used, a, p, now, Later(used, a, p, now), clock)
        BY <1>0, <1>a, <2>2, LaterIs, Zenon
      <4> QED
        BY <4>1, Zenon DEF LaterIn
    <3> QED
      BY <1>b, <2>1, <2>3, <3>1
  <2>7. ASSUME a # Watched, maxPorts > 0 PROVE Kept /\ Limited
    <3>1. used' = used /\ KeptOrSwept(W, X, now)
      BY <1>b, <2>5, <2>6, <2>7
    <3>2. ASSUME NEW q \in Ports PROVE KeptFor(used[q], X.sessions[q], X.lastSeen, clock)
      <4>1. used[q] \in Int /\ KeptFor(used[q], W.sessions[q], W.lastSeen, clock)
        BY <1>0, <1>a, <1>d, <2>7, Constants
      <4> HIDE DEF W, X, now
      <4> QED
        BY <1>0, <1>c, <2>2, <3>1, <4>1, PortsThroughOthers, Zenon
    <3>3. Kept
      BY <2>1, <3>1, <3>2
    <3> QED
      BY <1>f, <1>g, <2>1, <2>7, <3>1, <3>3
  <2>8. ASSUME a = Watched, maxPorts > 0 PROVE Kept /\ Limited
    <3>1. /\ m.sessions = W.sessions
      <4>1. Entered(a, now) \in Records /\ Entered(a, now).sessions = records[a].sessions
        BY <1>0, <1>a, <2>2, EnteredIs, Zenon
      <4>2. m.sessions = Entered(a, now).sessions
        <5>1. maxRate \in Nat
          BY <1>0 DEF AbuseOK
        <5> QED
          BY <2>2, <4>1, <5>1, CountedIs, Zenon
      <4> QED
        BY <2>8, <4>1, <4>2
    <3> HIDE DEF m, n
    <3>2. X.lastSeen = Unix(now) /\ r.lastSeen = Unix(now)
      <4>1. r.lastSeen = Unix(now)
        BY <2>4, <2>5 DEF SameCount
      <4>2. WithoutOldPorts(r, now).lastSeen = r.lastSeen
        BY <2>2, OldPortsGone, Zenon DEF SameCount
      <4> QED
        BY <2>4, <2>8, <4>1, <4>2
    <3>3. \A q \in Ports : used'[q] \in Int /\ used'[q] <= clock
      BY <1>0, <1>b, <2>1, Constants
    <3>4. ASSUME NEW q \in Ports, used'[q] >= clock - (Ttl - Stall)
          PROVE  /\ r.sessions[q] >= Unix(used'[q] - Stall)
                 /\ r = n => r.sessions[q] # Never
      <4>1. used'[q] = used[q] =>
                m.sessions[q] >= Unix(used[q] - Stall) /\ KeptFor(used[q], m.sessions[q], m.lastSeen, clock)
        <5>1. used'[q] = used[q] => W.sessions[q] >= Unix(used[q] - Stall)
          BY <1>d, <2>8, <3>4 DEF KeptFor
        <5>2. used[q] \in Int /\ used[q] <= clock
          BY <1>0, <1>a, Constants
        <5>3. Unix(now) >= Unix(used[q] - Stall)
          <6>1. used[q] - Stall \in Int /\ used[q] - Stall <= now
            BY <1>0, <2>2, <5>2, Constants
          <6> QED
            BY <2>2, <6>1, UnixIs
        <5> QED
          BY <2>5, <3>1, <5>1, <5>3 DEF KeptFor
      <4>2. CASE r = n
        <5>1. q # p => KeptFor(used'[q], m.sessions[q], m.lastSeen, clock)
          BY <2>6, <4>1
        <5>2. n.sessions[q] >= Unix(used'[q] - Stall) /\ n.sessions[q] # Never
          <6> HIDE DEF now, p
          <6> QED
            BY <1>0, <2>2, <2>5, <3>3, <3>4, <5>1, PortsThroughNote, Zenon DEF n
        <5> QED
          BY <4>2, <5>2
      <4>3. CASE r # n
        <5>1. r = m /\ verdict # "pass"
          BY <1>a, <2>4, <2>8, <4>3 DEF Ends
        <5>2. used'[q] = used[q]
          BY <2>6, <5>1
        <5> QED
          BY <4>1, <4>3, <5>1, <5>2
      <4> QED
        BY <4>2, <4>3
    <3>5. Kept
      <4> SUFFICES ASSUME NEW q \in Ports, used'[q] >= clock - (Ttl - Stall)
                   PROVE  X.sessions[q] >= Unix(used'[q] - Stall) /\ X.lastSeen >= Unix(used'[q] - Stall)
        BY <2>1 DEF KeptFor
      <4>1. r.sessions[q] >= Unix(used'[q] - Stall) /\ r.sessions[q] \in Int
        BY <2>4, <3>4 DEF Records
      <4>0. /\ used'[q] - Stall \in Int /\ now - Ttl \in Int /\ used'[q] - Stall <= now
            /\ now - Ttl <= used'[q] - Stall
        BY <1>0, <2>2, <3>3, Constants
      <4>2. Unix(now) >= Unix(used'[q] - Stall) /\ Unix(now - Ttl) <= Unix(used'[q] - Stall)
            /\ Unix(now - Ttl) \in Int /\ Unix(used'[q] - Stall) \in Int
        BY <2>2, <4>0, UnixIs
      <4>3. ~(r.sessions[q] < Unix(now - Ttl))
        BY <4>1, <4>2
      <4>4. WithoutOldPorts(r, now).sessions[q] =
                IF r.sessions[q] < Unix(now - Ttl) THEN Never ELSE r.sessions[q]
        BY <2>2, OldPortsGone, Zenon
      <4>5. X.sessions[q] = r.sessions[q]
        BY <2>4, <2>8, <4>3, <4>4
      <4> QED
        BY <3>2, <4>1, <4>2, <4>5
    <3>6. CASE verdict = "pass"
      <4>1. r = n /\ ~(Cardinality(PortsOf(n)) > maxPorts)
        BY <2>4, <2>8, <3>6 DEF Ends
      <4>2. RecentlyUsed' \subseteq PortsOf(n)
        BY <2>1, <3>4, <4>1 DEF RecentlyUsed, PortsOf
      <4>3. IsFiniteSet(PortsOf(n))
        BY PortsAssumption, FS_Subset DEF PortsOf
      <4>4. /\ Cardinality(PortsOf(n)) \in Nat
            /\ Cardinality(RecentlyUsed') <= Cardinality(PortsOf(n))
        BY <4>2, <4>3, FS_Subset, FS_CardinalityType
      <4>5. Cardinality(RecentlyUsed') \in Nat
        BY <4>2, <4>3, FS_Subset, FS_CardinalityType
      <4>6. Limited
        BY <1>a, <4>1, <4>4, <4>5 DEF Limited
      <4> QED
        BY <3>5, <4>6
    <3>7. CASE verdict # "pass"
      BY <1>f, <1>g, <2>1, <2>6, <2>8, <3>5, <3>7
    <3> QED
      BY <3>6, <3>7
  <2> QED
    BY <1>e, <2>5, <2>7, <2>8
<1>2. ASSUME NEW c \in Callers, ReaderStep(c), ~Abuse(c) PROVE PortsInv'
  <2>1. UNCHANGED <<used, records, maxPorts, clock>>
    BY <1>2, OthersLeaveAbuse, ClockStill DEF abuseVars, historyVars
  <2> QED
    BY <1>d, <1>e, <1>f, <1>g, <2>1
<1>3. CASE AdmissionObserve \/ UNCHANGED allVars
  <2>1. UNCHANGED <<used, records, maxPorts, clock>>
    BY <1>3 DEF AdmissionObserve, Observe, abuseVars, historyVars, allVars, vars
  <2> QED
    BY <1>d, <1>e, <1>f, <1>g, <2>1
<1>4. CASE AdmissionTick
  <2>1. clock' = clock + 1 /\ used' = Recent(used, Ttl) /\ UNCHANGED <<records, maxPorts>>
    BY <1>4 DEF AdmissionTick, Tick, abuseVars
  <2>2. \A p \in Ports : used'[p] >= clock' - (Ttl - Stall) =>
            used'[p] = used[p] /\ used[p] >= clock - (Ttl - Stall)
    <3> SUFFICES ASSUME NEW p \in Ports, used'[p] >= clock' - (Ttl - Stall)
                 PROVE  used'[p] = used[p] /\ used[p] >= clock - (Ttl - Stall)
      OBVIOUS
    <3>1. used'[p] = IF used[p] < clock - Ttl THEN Never ELSE used[p]
      BY <2>1 DEF Recent
    <3>2. used[p] \in Int
      BY <1>0, <1>a, Constants
    <3> QED
      BY <1>0, <2>1, <3>1, <3>2, Constants
  <2>3. RecentlyUsed' \subseteq RecentlyUsed
    BY <2>2 DEF RecentlyUsed
  <2>4. maxPorts > 0 => Kept
    BY <1>d, <2>1, <2>2 DEF KeptFor
  <2> QED
    BY <1>e, <1>f, <2>1, <2>3, <2>4
<1> QED
  BY <1>1, <1>2, <1>3, <1>4 DEF AdmissionNext

\* No more than max_sessions_per_ip ports of a client are admitted within the session
\* timeout less the time a reading may be late, whatever the sweeps take in between
\* (abuse.go:96): for any number of readers, clients and ports, and any delay.
THEOREM PortsLimited == AdmissionSpec => []PortsWithinLimit
<1>1. AdmissionSpec => []PortsInv
  BY PortsInvInit, PortsInvStep, AdmissionInvAlways, PTL DEF AdmissionSpec
<1>2. PortsInv => PortsWithinLimit
  BY DEF PortsInv, PortsWithinLimit
<1> QED
  BY <1>1, <1>2, PTL

-----------------------------------------------------------------------------
(* Why a client is refused for its ports.                                  *)

LEMMA SecondsAre ==
  /\ Second \in Nat /\ Second > 0
  /\ \A t \in Int : /\ Second * t \in Int
                   /\ Second * Unix(t) <= t /\ t < Second * Unix(t) + Second
  /\ \A x, y \in Int : x <= y => Second * x <= Second * y
  /\ \A x, y \in Int : x < y => Second * x + Second <= Second * y
  /\ \A x, y \in Int : Second * (x - y) = Second * x - Second * y
<1>1. Second \in Nat /\ Second > 0
  BY SecondAssumption
<1>2. \A x, y \in Int : x <= y => Second * x <= Second * y
  <2> SUFFICES ASSUME NEW x \in Int, NEW y \in Int, x <= y PROVE Second * x <= Second * y
    OBVIOUS
  <2>1. y - x \in Nat
    OBVIOUS
  <2>2. Second * (y - x) \in Nat
    BY <1>1, <2>1, ProductNat
  <2>3. Second * y = Second * x + Second * (y - x)
    BY <1>1
  <2> QED
    BY <1>1, <2>2, <2>3
<1>3. \A x, y \in Int : x < y => Second * x + Second <= Second * y
  <2> SUFFICES ASSUME NEW x \in Int, NEW y \in Int, x < y PROVE Second * x + Second <= Second * y
    OBVIOUS
  <2>1. x + 1 \in Int /\ x + 1 <= y
    OBVIOUS
  <2>2. Second * (x + 1) <= Second * y
    BY <1>2, <2>1
  <2>3. Second * (x + 1) = Second * x + Second
    BY <1>1
  <2> QED
    BY <2>2, <2>3
<1>4. \A x, y \in Int : Second * (x - y) = Second * x - Second * y
  BY <1>1
<1>5. \A t \in Int : Second * t \in Int /\ Second * Unix(t) <= t /\ t < Second * Unix(t) + Second
  BY <1>1 DEF Unix
<1> QED
  BY <1>1, <1>2, <1>3, <1>4, <1>5

\* How long a port in the record may go back.
Age == 2 * Ttl + Second + Stall

\* TriedInv, port by port: s is when the record has the port, w its last sweep, t
\* when the port was tried last, k the clock.
TriedFor(s, w, t, k) ==
    s # Never =>
        /\ s >= Unix(Second * w - Ttl)
        /\ t >= Second * s \/ Second * s < k - Age

LEMMA TriedEach ==
  TriedInv <=> (maxPorts > 0 =>
      /\ records[Watched].lastSweep <= Unix(clock)
      /\ \A p \in Ports :
          TriedFor(records[Watched].sessions[p], records[Watched].lastSweep, tried[p], clock))
  BY DEF TriedInv, TriedFor, Age

LEMMA TriedInvInit == AdmissionInit => TriedInv
<1> SUFFICES ASSUME AdmissionInit PROVE TriedInv
  OBVIOUS
<1>1. clock = 0 /\ records = [a \in Clients |-> NoRecord]
  BY Constants DEF AdmissionInit, Init, AbuseInit
<1>2. records[Watched] = NoRecord
  BY <1>1, WatchedAssumption
<1>3. NoRecord.lastSweep = -Ttl /\ \A p \in Ports : NoRecord.sessions[p] = Never
  BY Constants DEF NoRecord
<1> QED
  BY <1>1, <1>2, <1>3, Constants, UnixIs DEF TriedInv

\* A sweep leaves a port as it was or forgets it.
LEMMA TriedThroughSweep ==
  ASSUME NEW e \in Records, NEW f, NEW now \in Int, NEW k \in Nat, e.lastSweep <= Unix(k),
         KeptOrSwept(e, f, now),
         NEW h, \A p \in Ports : TriedFor(e.sessions[p], e.lastSweep, h[p], k)
  PROVE  f.lastSweep <= Unix(k) /\ \A p \in Ports : TriedFor(f.sessions[p], f.lastSweep, h[p], k)
<1>1. CASE f = e
  BY <1>1
<1>2. CASE f = NoRecord
  <2>1. NoRecord.lastSweep = -Ttl /\ \A p \in Ports : NoRecord.sessions[p] = Never
    BY Constants DEF NoRecord
  <2> QED
    BY <1>2, <2>1, Constants, UnixIs DEF TriedFor
<1>3. CASE f = WithoutOldPorts(e, now)
  <2>1. /\ f.lastSweep = e.lastSweep
        /\ \A q \in Ports : f.sessions[q] =
               IF e.sessions[q] < Unix(now - Ttl) THEN Never ELSE e.sessions[q]
    BY <1>3, OldPortsGone, Zenon
  <2>2. \A q \in Ports : f.sessions[q] = Never \/ f.sessions[q] = e.sessions[q]
    BY <2>1
  <2> QED
    BY <2>1, <2>2, Zenon DEF TriedFor
<1> QED
  BY <1>1, <1>2, <1>3 DEF KeptOrSwept

\* A port noted, or kept, at a reading after which the record's last sweep is v: it
\* is not older than the sweep before the last, and than the bound.
LEMMA TriedKept ==
  ASSUME NEW s \in Int, NEW w \in Int, NEW now \in Int, s >= Unix(Second * w - Ttl),
         NEW v \in Int, NEW f \in Int, f # Never,
         \/ Unix(now) - w >= Unix(Ttl) /\ v = Unix(now) /\ f = s /\ ~(s < Unix(now - Ttl))
         \/ ~(Unix(now) - w >= Unix(Ttl)) /\ v = w /\ f = s
  PROVE  f >= Unix(Second * v - Ttl) /\ Second * s > now - (2 * Ttl + Second - 1)
<1>0. /\ Ttl \in Int /\ Ttl > 0 /\ now - Ttl \in Int /\ Unix(now) \in Int /\ Unix(Ttl) \in Int
      /\ Unix(now - Ttl) \in Int /\ Second \in Nat /\ Second > 0
  <2>1. Ttl \in Int /\ Ttl > 0 /\ now - Ttl \in Int
    BY Constants
  <2> QED
    BY <2>1, UnixIs, SecondsAre
<1>1. CASE Unix(now) - w >= Unix(Ttl) /\ v = Unix(now) /\ f = s /\ ~(s < Unix(now - Ttl))
  <2>1. s >= Unix(now - Ttl)
    BY <1>0, <1>1
  <2>2. Second * Unix(now) \in Int /\ Second * Unix(now) <= now
    BY <1>0, SecondsAre
  <2>3. Second * Unix(now) - Ttl \in Int /\ Second * Unix(now) - Ttl <= now - Ttl
    BY <1>0, <2>2
  <2>4. Unix(Second * Unix(now) - Ttl) <= Unix(now - Ttl) /\ Unix(Second * Unix(now) - Ttl) \in Int
    BY <1>0, <2>3, UnixIs
  <2>5. f >= Unix(Second * v - Ttl)
    BY <1>0, <1>1, <2>1, <2>4
  <2>6. /\ Second * Unix(now - Ttl) <= Second * s /\ now - Ttl < Second * Unix(now - Ttl) + Second
        /\ Second * s \in Int /\ Second * Unix(now - Ttl) \in Int
    BY <1>0, <2>1, SecondsAre
  <2>7. Second * s > now - (2 * Ttl + Second - 1)
    BY <1>0, <2>6
  <2> QED
    BY <2>5, <2>7
<1>2. CASE ~(Unix(now) - w >= Unix(Ttl)) /\ v = w /\ f = s
  <2>1. Unix(now) - Unix(Ttl) \in Int /\ Unix(now) - Unix(Ttl) < w
    BY <1>0, <1>2
  <2>2. /\ Second * (Unix(now) - Unix(Ttl)) + Second <= Second * w
        /\ Second * (Unix(now) - Unix(Ttl)) = Second * Unix(now) - Second * Unix(Ttl)
        /\ Second * w \in Int /\ Second * Unix(now) \in Int /\ Second * Unix(Ttl) \in Int
    BY <1>0, <2>1, SecondsAre
  <2>3. now < Second * Unix(now) + Second /\ Second * Unix(Ttl) <= Ttl
    BY <1>0, SecondsAre
  <2>4. Second * w > now - Ttl
    BY <1>0, <2>2, <2>3
  <2> DEFINE x == Second * w - Ttl
  <2>5. x \in Int
    BY <1>0, <2>2
  <2> HIDE DEF x
  <2>6. Unix(x) \in Int /\ x < Second * Unix(x) + Second /\ Second * Unix(x) \in Int
    BY <2>5, UnixIs, SecondsAre
  <2>7. s >= Unix(x)
    BY DEF x
  <2>8. Second * Unix(x) <= Second * s /\ Second * s \in Int
    BY <2>6, <2>7, SecondsAre
  <2>9. x > now - 2 * Ttl
    BY <1>0, <2>2, <2>4 DEF x
  <2>10. Second * s > now - (2 * Ttl + Second - 1)
    BY <1>0, <2>5, <2>6, <2>8, <2>9
  <2> QED
    BY <1>2, <2>7, <2>10 DEF x
<1> QED
  BY <1>1, <1>2

\* The sender notes a port: with it the record still holds only ports tried since the
\* sweep before the last.
LEMMA TriedThroughNote ==
  ASSUME Stall <= Ttl, NEW e \in Records, NEW k \in Nat, NEW p \in Ports, NEW now \in 0..k,
         now >= k - Stall, e.lastSweep <= Unix(k),
         NEW h \in [Ports -> Never..k], NEW g, LaterIn(h, Watched, p, now, g, k),
         \A q \in Ports : TriedFor(e.sessions[q], e.lastSweep, h[q], k)
  PROVE  LET f == Noted(e, p, now)
         IN  /\ f.lastSweep <= Unix(k)
             /\ \A q \in Ports : TriedFor(f.sessions[q], f.lastSweep, g[q], k)
             /\ \A q \in Ports : f.sessions[q] # Never => g[q] > now - (2 * Ttl + Second - 1)
<1> DEFINE f == Noted(e, p, now)
<1>0. now \in Int /\ e.lastSweep \in Int /\ \A q \in Ports : e.sessions[q] \in Int
  BY DEF Records
<1>s. Unix(now) \in Int /\ Unix(k) \in Int /\ Unix(now) <= Unix(k)
  BY <1>0, UnixIs
<1>1. f \in Records /\ f.sessions[p] = Unix(now) /\ NotedPorts(e, f, p, now)
  BY <1>0, NotedIs, Zenon
<1> HIDE DEF f
<1>2. /\ g[p] = IF now > h[p] THEN now ELSE h[p]
      /\ \A q \in Ports \ {p} : g[q] = h[q]
      /\ \A q \in Ports : h[q] \in Int
  BY Constants DEF LaterIn
<1>3. f.lastSweep = e.lastSweep \/ f.lastSweep = Unix(now)
  BY <1>1 DEF NotedPorts
<1>4. f.lastSweep <= Unix(k) /\ f.lastSweep \in Int /\ \A q \in Ports : f.sessions[q] \in Int
  BY <1>0, <1>1, <1>3, <1>s DEF Records
<1>5. ASSUME NEW q \in Ports
      PROVE  /\ TriedFor(f.sessions[q], f.lastSweep, g[q], k)
             /\ f.sessions[q] # Never => g[q] > now - (2 * Ttl + Second - 1)
  <2>1. CASE q = p
    <3>1. f.sessions[q] = Unix(now) /\ g[q] \in Int /\ g[q] >= now
      BY <1>0, <1>1, <1>2, <2>1
    <3>2. Unix(now) >= Unix(Second * f.lastSweep - Ttl)
      <4>1. /\ Second * f.lastSweep <= Second * Unix(k) /\ Second * Unix(k) <= k
            /\ Second * f.lastSweep \in Int /\ Second * Unix(k) \in Int
        BY <1>4, <1>s, SecondsAre
      <4>2. Second * f.lastSweep - Ttl \in Int /\ Second * f.lastSweep - Ttl <= now
        BY <1>0, <4>1, Constants
      <4> QED
        BY <1>0, <4>2, UnixIs
    <3>3. g[q] > now - (2 * Ttl + Second - 1)
      BY <1>0, <3>1, Constants, SecondsAre
    <3>4. g[q] >= Second * Unix(now)
      <4>1. Second * Unix(now) \in Int /\ Second * Unix(now) <= now
        BY <1>0, <1>s, SecondsAre
      <4> QED
        BY <1>0, <3>1, <4>1
    <3> QED
      BY <3>1, <3>2, <3>3, <3>4 DEF TriedFor
  <2>2. CASE q # p
    <3> DEFINE s == e.sessions[q]
               w == e.lastSweep
               t == h[q]
               s1 == f.sessions[q]
               w1 == f.lastSweep
    <3>1. g[q] = t /\ t \in Int /\ s \in Int /\ w \in Int /\ s1 \in Int /\ w1 \in Int
      BY <1>0, <1>2, <1>4, <2>2
    <3>2. \/ Unix(now) - w >= Unix(Ttl) /\ w1 = Unix(now) /\ s1 = IF s < Unix(now - Ttl) THEN Never ELSE s
          \/ ~(Unix(now) - w >= Unix(Ttl)) /\ w1 = w /\ s1 = s
      BY <1>1, <2>2 DEF NotedPorts
    <3>3. s # Never => s >= Unix(Second * w - Ttl) /\ (t >= Second * s \/ Second * s < k - Age)
      BY DEF TriedFor
    <3> HIDE DEF s, w, t, s1, w1
    <3>4. ASSUME s1 # Never
          PROVE  s1 = s /\ s1 >= Unix(Second * w1 - Ttl) /\ Second * s > now - (2 * Ttl + Second - 1)
      <4>1. /\ s1 = s
            /\ \/ Unix(now) - w >= Unix(Ttl) /\ w1 = Unix(now) /\ s1 = s /\ ~(s < Unix(now - Ttl))
               \/ ~(Unix(now) - w >= Unix(Ttl)) /\ w1 = w /\ s1 = s
        BY <3>2, <3>4
      <4>2. s >= Unix(Second * w - Ttl)
        BY <3>3, <3>4, <4>1
      <4> QED
        BY <1>0, <3>1, <3>4, <4>1, <4>2, TriedKept, Zenon
    <3>5. ASSUME s1 # Never PROVE t >= Second * s /\ t > now - (2 * Ttl + Second - 1)
      <4>1. Second * s > now - (2 * Ttl + Second - 1) /\ s1 = s /\ Second * s \in Int
        BY <3>1, <3>4, <3>5, SecondsAre
      <4>2. ~(Second * s < k - Age)
        BY <1>0, <4>1, Constants, SecondsAre DEF Age
      <4>3. t >= Second * s
        BY <3>3, <3>5, <4>1, <4>2
      <4> QED
        BY <1>0, <3>1, <4>1, <4>3, Constants, SecondsAre
    <3> QED
      BY <3>1, <3>4, <3>5 DEF TriedFor, s, s1, w1, t
  <2> QED
    BY <2>1, <2>2
<1> QED
  BY <1>4, <1>5 DEF f

\* A call of Allow by the watched client, with the record its ports are noted in.
LEMMA WatchedCall ==
  ASSUME Stall <= Ttl, AdmissionInv, TriedInv, NEW c \in Callers, Abuse(c),
         pkt[c].client = Watched, maxPorts > 0
  PROVE  LET now == pkt[c].now
             m == Counted(Entered(Watched, now), now)
             n == Noted(m, pkt[c].port, now)
         IN  \E verdict \in {"pass", "rate", "ports"}, r \in Records :
                /\ pkt' = [pkt EXCEPT ![c] = Idle(IF verdict = "ports" THEN "ports" ELSE "")]
                /\ Ends(m, n, r, verdict)
                /\ records'[Watched] = r \/ records'[Watched] = WithoutOldPorts(r, now)
                /\ r.lastSweep <= Unix(clock)
                /\ \A q \in Ports : TriedFor(r.sessions[q], r.lastSweep, tried'[q], clock)
                /\ verdict = "ports" =>
                       \A q \in Ports : n.sessions[q] # Never => tried'[q] > now - (2 * Ttl + Second - 1)
<1> DEFINE now == pkt[c].now
           p == pkt[c].port
           e == Entered(Watched, now)
           m == Counted(e, now)
           n == Noted(m, p, now)
           W == records[Watched]
<1>0. AbuseOK /\ RecordsOK /\ clock \in Nat
  BY InvParts
<1>a. /\ maxRate \in Nat /\ maxPorts \in Nat /\ records \in [Clients -> Records]
      /\ tried \in [Ports -> Never..clock] /\ Watched \in Clients
  BY <1>0, WatchedAssumption DEF AbuseOK
<1>1. UnderWay(c)
  BY AbuseIs
<1>2. p \in Ports /\ now \in 0..clock /\ now \in Int /\ now >= clock - Stall
  BY <1>1, ReadingIs
<1>3. PICK verdict \in {"pass", "rate", "ports"} :
        /\ AbuseAllow(Watched, p, now, verdict)
        /\ pkt' = [pkt EXCEPT ![c] = Idle(IF verdict = "ports" THEN "ports" ELSE "")]
        /\ tried' = IF maxPorts > 0 /\ verdict # "rate" THEN Later(tried, Watched, p, now)
                    ELSE tried
  BY AbuseIs
<1> HIDE DEF now, p
<1>4. Outcome(Watched, m, n, now, verdict)
  BY <1>0, <1>a, <1>2, <1>3, AllowLeaves, Zenon
<1>5. e \in Records /\ e.sessions = W.sessions /\ e.lastSweep = W.lastSweep
  BY <1>0, <1>a, <1>2, EnteredIs, Zenon
<1> HIDE DEF e
<1>6. m \in Records /\ m.sessions = e.sessions /\ m.lastSweep = e.lastSweep
  BY <1>a, <1>2, <1>5, CountedIs, Zenon
<1> HIDE DEF m
<1>7. /\ m.lastSweep <= Unix(clock)
      /\ \A q \in Ports : TriedFor(m.sessions[q], m.lastSweep, tried[q], clock)
  BY <1>5, <1>6, TriedEach
<1>8. LaterIn(tried, Watched, p, now, Later(tried, Watched, p, now), clock)
  BY <1>0, <1>a, <1>2, LaterIs, Zenon
<1> DEFINE g == Later(tried, Watched, p, now)
<1>9. /\ n.lastSweep <= Unix(clock)
      /\ \A q \in Ports : TriedFor(n.sessions[q], n.lastSweep, g[q], clock)
      /\ \A q \in Ports : n.sessions[q] # Never => g[q] > now - (2 * Ttl + Second - 1)
  <2> HIDE DEF g
  <2>1. LaterIn(tried, Watched, p, now, g, clock)
    BY <1>8 DEF g
  <2> QED
    BY <1>0, <1>a, <1>2, <1>6, <1>7, <2>1, TriedThroughNote, Zenon
<1> HIDE DEF n
<1>10. PICK r \in Records :
         /\ r = m \/ r = n
         /\ Ends(m, n, r, verdict)
         /\ records'[Watched] = r \/ records'[Watched] = WithoutOldPorts(r, now)
  BY <1>4, Zenon DEF Outcome
<1>11. /\ verdict = "rate" => r = m /\ tried' = tried
       /\ verdict # "rate" => r = n /\ tried' = g
  BY <1>3, <1>10 DEF Ends
<1> HIDE DEF g
<1>12. /\ r.lastSweep <= Unix(clock)
       /\ \A q \in Ports : TriedFor(r.sessions[q], r.lastSweep, tried'[q], clock)
  BY <1>7, <1>9, <1>11, Zenon
<1>13. verdict = "ports" =>
           \A q \in Ports : n.sessions[q] # Never => tried'[q] > now - (2 * Ttl + Second - 1)
  <2>1. verdict = "ports" => verdict # "rate"
    OBVIOUS
  <2> QED
    BY <1>9, <1>11, <2>1, Zenon
<1>14. pkt' = [pkt EXCEPT ![c] = Idle(IF verdict = "ports" THEN "ports" ELSE "")]
  BY <1>3
<1> QED
  BY <1>10, <1>12, <1>13, <1>14, Zenon DEF now, p, m, n, e

LEMMA TriedInvStep ==
  ASSUME Stall <= Ttl
  PROVE  AdmissionInv /\ TriedInv /\ [AdmissionNext]_allVars => TriedInv'
<1> SUFFICES ASSUME AdmissionInv, TriedInv, [AdmissionNext]_allVars, maxPorts' > 0
             PROVE  TriedInv'
  BY DEF TriedInv
<1>0. AbuseOK /\ RecordsOK /\ clock \in Nat
  BY InvParts
<1>a. /\ maxPorts \in Nat /\ records \in [Clients -> Records]
      /\ tried \in [Ports -> Never..clock] /\ Watched \in Clients
  BY <1>0, WatchedAssumption DEF AbuseOK
<1> DEFINE W == records[Watched]
           X == records'[Watched]
           Goal == /\ X.lastSweep <= Unix(clock')
                   /\ \A p \in Ports : TriedFor(X.sessions[p], X.lastSweep, tried'[p], clock')
<1>b. maxPorts > 0 => /\ W.lastSweep <= Unix(clock)
                      /\ \A p \in Ports : TriedFor(W.sessions[p], W.lastSweep, tried[p], clock)
  BY TriedEach
<1>c. Goal => TriedInv'
  BY DEF TriedInv, TriedFor, Age
<1>d. W \in Records
  BY <1>a
<1>1. ASSUME NEW c \in Callers, ReaderStep(c), Abuse(c) PROVE Goal
  <2> DEFINE a == pkt[c].client
             p == pkt[c].port
             now == pkt[c].now
  <2>1. UnderWay(c) /\ clock' = clock
    BY <1>1, AbuseIs
  <2>2. a \in Clients /\ p \in Ports /\ now \in 0..clock /\ now \in Int
    BY <2>1, ReadingIs
  <2>3. PICK verdict \in {"pass", "rate", "ports"} :
          /\ AbuseAllow(a, p, now, verdict)
          /\ tried' = IF maxPorts > 0 /\ verdict # "rate" THEN Later(tried, a, p, now) ELSE tried
    BY <1>1, AbuseIs
  <2>4. /\ maxPorts' = maxPorts
        /\ \A x \in Clients \ {a} : KeptOrSwept(records[x], records'[x], now)
    <3> HIDE DEF a, p, now
    <3> QED
      BY <1>0, <2>2, <2>3, AllowLeaves, Zenon
  <2>5. CASE a # Watched
    <3>1. tried' = tried
      <4>1. LaterIn(tried, a, p, now, Later(tried, a, p, now), clock)
        <5> HIDE DEF a, p, now
        <5> QED
          BY <1>0, <1>a, <2>2, LaterIs, Zenon
      <4>2. Later(tried, a, p, now) = tried
        BY <2>5, <4>1, Zenon DEF LaterIn
      <4> QED
        BY <2>3, <4>2
    <3>2. KeptOrSwept(W, X, now)
      BY <1>a, <2>4, <2>5
    <3> HIDE DEF W, X, now
    <3>3. /\ X.lastSweep <= Unix(clock)
          /\ \A q \in Ports : TriedFor(X.sessions[q], X.lastSweep, tried[q], clock)
      BY <1>0, <1>b, <1>d, <2>2, <2>4, <3>2, TriedThroughSweep, Zenon
    <3> QED
      BY <2>1, <3>1, <3>3
  <2>6. CASE a = Watched
    <3>1. PICK r \in Records :
            /\ X = r \/ X = WithoutOldPorts(r, now)
            /\ r.lastSweep <= Unix(clock)
            /\ \A q \in Ports : TriedFor(r.sessions[q], r.lastSweep, tried'[q], clock)
      BY <1>1, <2>4, <2>6, WatchedCall
    <3>2. KeptOrSwept(r, X, now) \/ r.lastSeen < Unix(now - Ttl)
      BY <3>1, Zenon DEF KeptOrSwept
    <3>3. CASE X = r
      BY <2>1, <3>1, <3>3
    <3>4. CASE X = WithoutOldPorts(r, now)
      <4> HIDE DEF X, now
      <4>1. /\ X.lastSweep = r.lastSweep
            /\ \A q \in Ports : X.sessions[q] =
                   IF r.sessions[q] < Unix(now - Ttl) THEN Never ELSE r.sessions[q]
        BY <2>2, <3>4, OldPortsGone, Zenon
      <4>2. \A q \in Ports : X.sessions[q] = Never \/ X.sessions[q] = r.sessions[q]
        BY <4>1
      <4>3. \A q \in Ports : TriedFor(X.sessions[q], X.lastSweep, tried'[q], clock)
        BY <3>1, <4>1, <4>2, Zenon DEF TriedFor
      <4> QED
        BY <2>1, <3>1, <4>1, <4>3
    <3> QED
      BY <3>1, <3>3, <3>4
  <2> QED
    BY <2>5, <2>6
<1>2. ASSUME NEW c \in Callers, ReaderStep(c), ~Abuse(c) PROVE Goal
  <2>1. UNCHANGED <<tried, records, maxPorts, clock>>
    BY <1>2, OthersLeaveAbuse, ClockStill DEF abuseVars, historyVars
  <2> QED
    BY <1>b, <2>1
<1>3. ASSUME AdmissionObserve \/ UNCHANGED allVars PROVE Goal
  <2>1. UNCHANGED <<tried, records, maxPorts, clock>>
    BY <1>3 DEF AdmissionObserve, Observe, abuseVars, historyVars, allVars, vars
  <2> QED
    BY <1>b, <2>1
<1>4. ASSUME AdmissionTick PROVE Goal
  <2>1. /\ clock' = clock + 1 /\ tried' = Recent(tried, Age)
        /\ UNCHANGED <<records, maxPorts>>
    BY <1>4 DEF AdmissionTick, Tick, abuseVars, Age
  <2>2. X = W /\ maxPorts > 0
    BY <2>1
  <2>3. W.lastSweep <= Unix(clock')
    <3>1. W.lastSweep \in Int
      BY <1>d DEF Records
    <3>2. Unix(clock) \in Int /\ Unix(clock') \in Int /\ Unix(clock) <= Unix(clock')
      BY <1>0, <2>1, UnixIs
    <3> QED
      BY <1>b, <2>2, <3>1, <3>2
  <2>4. ASSUME NEW p \in Ports PROVE TriedFor(W.sessions[p], W.lastSweep, tried'[p], clock')
    <3> DEFINE s == W.sessions[p]
               w == W.lastSweep
               t == tried[p]
               u == tried'[p]
    <3>1. u = IF t < clock - Age THEN Never ELSE t
      BY <2>1 DEF Recent
    <3>2. s \in Int /\ t \in Int /\ Age \in Nat
      BY <1>0, <1>a, <1>d, Constants, SecondsAre DEF Records, Age
    <3>3. s # Never => s >= Unix(Second * w - Ttl) /\ (t >= Second * s \/ Second * s < clock - Age)
      BY <1>b, <2>2 DEF TriedFor
    <3>4. Second * s \in Int
      BY <3>2, SecondsAre
    <3> DEFINE y == Second * s
    <3> HIDE DEF s, w, t, u, y
    <3>5. t >= y \/ y < clock - Age => u >= y \/ y < clock' - Age
      BY <1>0, <2>1, <3>1, <3>2, <3>4 DEF y
    <3> QED
      BY <3>3, <3>5 DEF TriedFor, s, w, u, y
  <2> QED
    BY <2>2, <2>3, <2>4
<1> HIDE DEF Goal
<1> QED
  BY <1>1, <1>2, <1>3, <1>4, <1>c DEF AdmissionNext

\* The step of RefusedPortsRecent.
RefusedRecently ==
    \A c \in Callers :
        pkt[c].at = "abuse" /\ pkt[c].client = Watched /\ pkt'[c].fate = "ports" =>
            Cardinality({p \in Ports : tried'[p] > pkt[c].now - (2 * Ttl + Second - 1)}) > maxPorts

LEMMA RefusedStep ==
  ASSUME Stall <= Ttl
  PROVE  AdmissionInv /\ TriedInv /\ [AdmissionNext]_allVars => [RefusedRecently]_allVars
<1> SUFFICES ASSUME AdmissionInv, TriedInv, AdmissionNext, NEW c \in Callers,
                    pkt[c].at = "abuse", pkt[c].client = Watched, pkt'[c].fate = "ports"
             PROVE  Cardinality({p \in Ports : tried'[p] > pkt[c].now - (2 * Ttl + Second - 1)}) > maxPorts
  BY DEF RefusedRecently
<1>0. AbuseOK /\ PktOK /\ Readings /\ PolicyInTime /\ clock \in Nat
  BY InvParts
<1>1. pkt[c].fate = ""
  BY <1>0 DEF Readings, UnderWay
<1>2. pkt'[c] # pkt[c]
  BY <1>1
<1>3. PICK d \in Callers : ReaderStep(d)
  BY <1>2 DEF AdmissionNext, AdmissionObserve, AdmissionTick
<1>4. PICK x : Moved(d, x)
  BY <1>0, <1>3, ReaderMoves
<1>5. d = c
  BY <1>0, <1>2, <1>4 DEF Moved, PktOK
<1>6. Abuse(c)
  BY <1>3, <1>5
  DEF ReaderStep, Discard, Receive, GlobalShaper, FrontendShaper, ClientEntry, ClientBucket, At
<1> DEFINE now == pkt[c].now
           m == Counted(Entered(Watched, now), now)
           n == Noted(m, pkt[c].port, now)
           S == {p \in Ports : tried'[p] > now - (2 * Ttl + Second - 1)}
<1>7. maxPorts > 0
  <2>1. PICK verdict \in {"pass", "rate", "ports"} :
          /\ AbuseAllow(pkt[c].client, pkt[c].port, now, verdict)
          /\ pkt' = [pkt EXCEPT ![c] = Idle(IF verdict = "ports" THEN "ports" ELSE "")]
    BY <1>6, AbuseIs
  <2>2. verdict = "ports"
    BY <1>0, <2>1 DEF PktOK, Idle
  <2> QED
    BY <2>1, <2>2 DEF AbuseAllow
<1>8. PICK verdict \in {"pass", "rate", "ports"}, r \in Records :
        /\ pkt' = [pkt EXCEPT ![c] = Idle(IF verdict = "ports" THEN "ports" ELSE "")]
        /\ Ends(m, n, r, verdict)
        /\ verdict = "ports" =>
               \A q \in Ports : n.sessions[q] # Never => tried'[q] > now - (2 * Ttl + Second - 1)
  BY <1>6, <1>7, WatchedCall
<1> HIDE DEF m, n
<1>9. verdict = "ports"
  BY <1>0, <1>8 DEF PktOK, Idle
<1>10. Cardinality(PortsOf(n)) > maxPorts
  BY <1>8, <1>9 DEF Ends
<1>11. PortsOf(n) \subseteq S
  BY <1>8, <1>9, Constants DEF PortsOf
<1>12. IsFiniteSet(S)
  BY PortsAssumption, FS_Subset
<1>13. IsFiniteSet(PortsOf(n))
  BY <1>11, <1>12, FS_Subset
<1>14. /\ Cardinality(S) \in Nat /\ Cardinality(PortsOf(n)) \in Nat
       /\ Cardinality(PortsOf(n)) <= Cardinality(S)
  BY <1>11, <1>12, <1>13, FS_Subset, FS_CardinalityType
<1>15. maxPorts \in Nat
  BY <1>0 DEF AbuseOK
<1>16. Cardinality(S) > maxPorts
  BY <1>10, <1>14, <1>15
<1> QED
  BY <1>16

\* A client is refused for its ports only if it has tried more than the limit within
\* twice the session timeout and what is lost by counting whole seconds: the record
\* holds a port at most until the second sweep after its last packet (abuse.go:95).
\* A packet that stays in the chain longer than the timeout is set aside: it would
\* note a port that is older than the timeout.
THEOREM PortsRefusedRecently ==
  ASSUME Stall <= Ttl PROVE AdmissionSpec => RefusedPortsRecent
<1>1. AdmissionInv /\ TriedInv /\ [AdmissionNext]_allVars => TriedInv'
  BY TriedInvStep
<1>2. AdmissionSpec => []TriedInv
  BY <1>1, TriedInvInit, AdmissionInvAlways, PTL DEF AdmissionSpec
<1>3. AdmissionInv /\ TriedInv /\ [AdmissionNext]_allVars => [RefusedRecently]_allVars
  BY RefusedStep
<1>4. AdmissionSpec => [][RefusedRecently]_allVars
  BY <1>2, <1>3, AdmissionInvAlways, PTL DEF AdmissionSpec
<1> QED
  BY <1>4, PTL DEF RefusedPortsRecent, RefusedRecently


-----------------------------------------------------------------------------
(* The buckets of the clients.                                             *)

LEMMA EntriesTyped ==
  ASSUME AdmissionInv
  PROVE  /\ entries \in [Clients -> EntryType(clock)] /\ buckets \in BucketsType(clock)
         /\ clock \in Nat /\ since \in 0..clock /\ passed \in Nat /\ lastSweep \in Int
<1>1. LimiterTypeOK /\ clock \in Nat /\ since \in 0..clock
  BY InvParts
<1>2. lastSweep \in LongAgo..clock /\ passed \in Nat
  BY <1>1, LimiterTypeParts
<1>3. lastSweep \in Int
  BY <1>1, <1>2, Constants
<1> QED
  BY <1>1, <1>2, <1>3, LimiterTypeParts

\* A client without an entry finds a name that is free: the others have one each at most.
LEMMA NameFree ==
  ASSUME AdmissionInv, BucketsOwned, NEW a \in Clients, entries[a] = Absent
  PROVE  \E n \in Names : buckets[n] = Unused
<1> SUFFICES ASSUME \A n \in Names : buckets[n] # Unused PROVE FALSE
  OBVIOUS
<1> DEFINE Others == Clients \ {a}
           f == [n \in Names |-> CHOOSE x \in Others : entries[x].bucket = n]
<1>1. Names \subseteq Nat \ {0} /\ Cardinality(Clients) \in Nat /\ Cardinality(Callers) \in Nat
  BY NamesPositive
<1>2. entries[a].bucket = 0
  BY DEF Absent
<1>3. \A n \in Names : \E x \in Others : entries[x].bucket = n
  BY <1>1, <1>2 DEF BucketsOwned
<1>4. \A n \in Names : f[n] \in Others /\ entries[f[n]].bucket = n
  BY <1>3
<1>5. f \in [Names -> Others]
  BY <1>4
<1>6. IsFiniteSet(Others) /\ Cardinality(Others) = Cardinality(Clients) - 1
  BY FiniteAssumption, FS_RemoveElement
<1>7. IsFiniteSet(Names) /\ Cardinality(Names) = Cardinality(Clients) + Cardinality(Callers)
  <2> DEFINE k == Cardinality(Clients) + Cardinality(Callers)
  <2>1. 1 \in Int /\ k \in Int /\ k \in Nat
    BY <1>1
  <2> HIDE DEF k
  <2>2. IsFiniteSet(1..k) /\ Cardinality(1..k) = IF 1 > k THEN 0 ELSE k - 1 + 1
    BY <2>1, FS_Interval
  <2>3. Cardinality(1..k) = k
    BY <2>1, <2>2
  <2> QED
    BY <2>2, <2>3 DEF Names, k
<1>8. Cardinality(Others) < Cardinality(Names)
  BY <1>1, <1>6, <1>7
<1> HIDE DEF f, Others
<1>9. PICK n, z \in Names : n # z /\ f[n] = f[z]
  BY <1>5, <1>6, <1>7, <1>8, FS_PigeonHole
<1> QED
  BY <1>4, <1>9

\* A sweep with a reading that the clock has passed takes no entry whose bucket is
\* still in use.
LEMMA HeldEntryStays ==
  ASSUME 2 * Stall <= Ttl, AdmissionInv, BucketsOwned, NEW d \in Callers, pkt[d].at = "bucket",
         NEW now \in 0..clock
  PROVE  /\ pkt[d].client \in Clients /\ pkt[d].bucket \in Names
         /\ entries[pkt[d].client].bucket = pkt[d].bucket
         /\ entries[pkt[d].client] # Absent
         /\ ~(entries[pkt[d].client].lastSeen < Unix(now - Ttl))
<1>1. UnderWay(d) /\ pkt[d].bucket \in Names
  BY InvParts DEF UnderWay, Readings
<1>2. pkt[d].client \in Clients /\ pkt[d].now \in Int /\ pkt[d].now >= clock - Stall
  BY <1>1, ReadingIs
<1>3. /\ entries[pkt[d].client].bucket = pkt[d].bucket
      /\ entries[pkt[d].client].lastSeen >= Unix(pkt[d].now - Stall)
  BY DEF BucketsOwned
<1>4. entries[pkt[d].client] # Absent
  <2>1. pkt[d].bucket # 0
    BY <1>1, NamesPositive
  <2>2. Absent.bucket = 0
    BY DEF Absent
  <2> QED
    BY <1>3, <2>1, <2>2
<1>5. entries[pkt[d].client].lastSeen \in Int /\ clock \in Nat
  BY <1>2, EntriesTyped DEF EntryType
<1>6. ~(entries[pkt[d].client].lastSeen < Unix(now - Ttl))
  <2> DEFINE l == entries[pkt[d].client].lastSeen
             r == pkt[d].now
  <2>1. l \in Int /\ r \in Int /\ r >= clock - Stall /\ l >= Unix(r - Stall) /\ clock \in Nat
    BY <1>2, <1>3, <1>5
  <2> HIDE DEF l, r
  <2>2. r - Stall \in Int /\ now - Ttl \in Int /\ now - Ttl <= r - Stall
    BY <2>1, Constants
  <2>3. Unix(r - Stall) \in Int /\ Unix(now - Ttl) \in Int /\ Unix(now - Ttl) <= Unix(r - Stall)
    BY <2>2, UnixIs
  <2>4. ~(l < Unix(now - Ttl))
    BY <2>1, <2>3
  <2> QED
    BY <2>4 DEF l
<1> QED
  BY <1>1, <1>2, <1>3, <1>4, <1>6

\* What the locked section of ClientLimiter.Allow does to the entries.
LEMMA RefreshedIs ==
  ASSUME AdmissionInv, NEW a \in Clients, NEW b, NEW now \in 0..clock
  PROVE  LET es == Refreshed(a, b, now)
         IN  /\ es[a] = [bucket |-> b, lastSeen |-> Unix(now)]
             /\ \A x \in Clients \ {a} :
                    \/ es[x] = entries[x]
                    \/ es[x] = Absent /\ entries[x].lastSeen < Unix(now - Ttl)
<1> DEFINE e == [bucket |-> b, lastSeen |-> Unix(now)]
           es == [entries EXCEPT ![a] = e]
<1>1. entries \in [Clients -> EntryType(clock)] /\ clock \in Nat
  BY EntriesTyped
<1>2. es[a] = e /\ \A x \in Clients \ {a} : es[x] = entries[x]
  BY <1>1
<1>3. e.lastSeen = Unix(now) /\ ~(Unix(now) < Unix(now - Ttl))
  <2>1. now \in Int
    BY <1>1
  <2>2. Unix(now) \in Int
    BY <2>1, UnixIs
  <2> QED
    BY <2>1, <2>2, CutoffIs
<1>4. \A x \in Clients :
         Swept(es, now)[x] = IF es[x].lastSeen < Unix(now - Ttl) THEN Absent ELSE es[x]
  BY DEF Swept
<1>5. Refreshed(a, b, now) = Swept(es, now) \/ Refreshed(a, b, now) = es
  BY DEF Refreshed
<1> HIDE DEF es
<1>6. Swept(es, now)[a] = e
  BY <1>2, <1>3, <1>4
<1>7. \A x \in Clients \ {a} :
         \/ Swept(es, now)[x] = entries[x]
         \/ Swept(es, now)[x] = Absent /\ entries[x].lastSeen < Unix(now - Ttl)
  BY <1>2, <1>4
<1> HIDE DEF e
<1> QED
  BY <1>2, <1>5, <1>6, <1>7 DEF e

\* How ClientEntry finds the bucket b for the client a of the reader c.
Found(c, a, b, now) ==
    /\ pkt'[c].at = "bucket" /\ pkt'[c].bucket = b
    /\ pkt'[c].client = a /\ pkt'[c].now = now
    /\ \A d \in Callers \ {c} : pkt'[d] = pkt[d]
    /\ entries'[a] = [bucket |-> b, lastSeen |-> Unix(now)]
    /\ \A x \in Clients \ {a} :
          \/ entries'[x] = entries[x]
          \/ entries'[x] = Absent /\ entries[x].lastSeen < Unix(now - Ttl)
    /\ \/ entries[a] # Absent /\ b = entries[a].bucket /\ buckets'[b] = buckets[b]
       \/ /\ entries[a] = Absent /\ \A x \in Clients : entries[x].bucket # b
          /\ buckets'[b] = [tok |-> PerClient, lastRefill |-> clock]
    /\ \A n \in Names \ {b} :
          \/ buckets'[n] = buckets[n]
          \/ buckets'[n] = Unused /\ \A x \in Clients : entries'[x].bucket # n
    /\ \A n \in Names : buckets'[n] # Unused =>
          \/ n = b
          \/ \E x \in Clients : entries'[x].bucket = n
          \/ \E d \in Callers \ {c} : pkt[d].bucket = n
    /\ passed' = passed /\ clock' = clock /\ since' = since

LEMMA CollectedIs ==
  ASSUME NEW bs, NEW es, NEW held, NEW n \in Names
  PROVE  /\ n \in held \/ (\E x \in Clients : es[x].bucket = n) =>
                Collected(bs, es, held)[n] = bs[n]
         /\ n \notin held /\ (\A x \in Clients : es[x].bucket # n) =>
                Collected(bs, es, held)[n] = Unused
  BY DEF Collected

LEMMA EntryFinds ==
  ASSUME AdmissionInv, BucketsOwned, NEW c \in Callers, ClientEntry(c)
  PROVE  \E b \in Names : Found(c, pkt[c].client, b, pkt[c].now)
<1> DEFINE a == pkt[c].client
           now == pkt[c].now
<1>0. /\ PktOK /\ UnderWay(c) /\ clock' = clock /\ since' = since
  BY InvParts DEF ClientEntry, At, UnderWay, vars
<1>1. a \in Clients /\ now \in 0..clock
  BY <1>0, ReadingIs
<1>2. PICK b \in Names :
        /\ FindBucket(a, b, now, InUse(c))
        /\ pkt' = [pkt EXCEPT ![c].at = "bucket", ![c].bucket = b]
  BY DEF ClientEntry
<1>3. /\ pkt'[c].at = "bucket" /\ pkt'[c].bucket = b /\ pkt'[c].client = a /\ pkt'[c].now = now
      /\ \A d \in Callers \ {c} : pkt'[d] = pkt[d]
  <2>1. pkt[c] \in PktType(clock)
    BY <1>0 DEF PktOK
  <2>2. pkt' = [pkt EXCEPT ![c] = [pkt[c] EXCEPT !.at = "bucket", !.bucket = b]]
    BY <1>0, <1>2 DEF PktOK
  <2>3. pkt'[c] = [pkt[c] EXCEPT !.at = "bucket", !.bucket = b]
        /\ \A d \in Callers \ {c} : pkt'[d] = pkt[d]
    BY <1>0, <2>2 DEF PktOK
  <2> QED
    BY <2>1, <2>3 DEF PktType
<1> HIDE DEF a, now
<1> DEFINE new == [tok |-> PerClient, lastRefill |-> clock]
           bs == [buckets EXCEPT ![b] = new]
           held == InUse(c) \cup {b}
<1>4. entries' = Refreshed(a, b, now) /\ passed' = passed
  BY <1>2 DEF FindBucket
<1>5. /\ entries'[a] = [bucket |-> b, lastSeen |-> Unix(now)]
      /\ \A x \in Clients \ {a} :
            \/ entries'[x] = entries[x]
            \/ entries'[x] = Absent /\ entries[x].lastSeen < Unix(now - Ttl)
  BY <1>1, <1>4, RefreshedIs
<1>6. buckets \in [Names -> BucketType(PerClient, -1, clock)]
  BY EntriesTyped DEF BucketsType
<1>7. bs[b] = new /\ \A n \in Names \ {b} : bs[n] = buckets[n]
  BY <1>6
<1>8. \A n : n \in held => n = b \/ \E d \in Callers \ {c} : pkt[d].bucket = n
  BY DEF InUse
<1>9. b \in held
  OBVIOUS
<1> HIDE DEF bs, held, new
<1>10. ASSUME NEW cs, buckets' = Collected(cs, entries', held),
              \A n \in Names \ {b} : cs[n] = buckets[n]
       PROVE  /\ buckets'[b] = cs[b]
              /\ \A n \in Names \ {b} :
                    \/ buckets'[n] = buckets[n]
                    \/ buckets'[n] = Unused /\ \A x \in Clients : entries'[x].bucket # n
              /\ \A n \in Names : buckets'[n] # Unused =>
                    \/ n = b
                    \/ \E x \in Clients : entries'[x].bucket = n
                    \/ \E d \in Callers \ {c} : pkt[d].bucket = n
  <2>1. \A n \in Names :
           /\ n \in held \/ (\E x \in Clients : entries'[x].bucket = n) => buckets'[n] = cs[n]
           /\ n \notin held /\ (\A x \in Clients : entries'[x].bucket # n) =>
                 buckets'[n] = Unused
    <3> TAKE n \in Names
    <3>1. buckets'[n] = Collected(cs, entries', held)[n]
      BY <1>10
    <3> QED
      BY <3>1, CollectedIs
  <2> QED
    BY <1>8, <1>9, <1>10, <2>1, Zenon
<1>11. CASE entries[a] # Absent
  <2>1. b = entries[a].bucket /\ buckets' = Collected(buckets, entries', held)
    BY <1>2, <1>11 DEF FindBucket, held
  <2>2. /\ buckets'[b] = buckets[b]
        /\ \A n \in Names \ {b} :
              \/ buckets'[n] = buckets[n]
              \/ buckets'[n] = Unused /\ \A x \in Clients : entries'[x].bucket # n
        /\ \A n \in Names : buckets'[n] # Unused =>
              \/ n = b
              \/ \E x \in Clients : entries'[x].bucket = n
              \/ \E d \in Callers \ {c} : pkt[d].bucket = n
    BY <1>10, <2>1, Zenon
  <2>3. Found(c, a, b, now)
    BY <1>0, <1>3, <1>4, <1>5, <1>11, <2>1, <2>2, Zenon DEF Found
  <2> QED
    BY <2>3 DEF a, now
<1>12. CASE entries[a] = Absent
  <2>1. b = (CHOOSE n \in Names : buckets[n] = Unused) /\ buckets' = Collected(bs, entries', held)
    BY <1>2, <1>12 DEF FindBucket, held, bs, new
  <2>2. buckets[b] = Unused
    BY <1>1, <1>12, <2>1, NameFree, Zenon
  <2>3. \A x \in Clients : entries[x].bucket # b
    <3> SUFFICES ASSUME NEW x \in Clients, entries[x].bucket = b PROVE FALSE
      OBVIOUS
    <3>1. entries[x] # Absent
      BY NamesPositive DEF Absent
    <3>2. buckets[b].lastRefill >= 0
      BY <3>1 DEF BucketsOwned
    <3> QED
      BY <2>2, <3>2 DEF Unused
  <2>4. /\ buckets'[b] = bs[b]
        /\ \A n \in Names \ {b} :
              \/ buckets'[n] = buckets[n]
              \/ buckets'[n] = Unused /\ \A x \in Clients : entries'[x].bucket # n
        /\ \A n \in Names : buckets'[n] # Unused =>
              \/ n = b
              \/ \E x \in Clients : entries'[x].bucket = n
              \/ \E d \in Callers \ {c} : pkt[d].bucket = n
    BY <1>7, <1>10, <2>1, Zenon
  <2>5. buckets'[b] = [tok |-> PerClient, lastRefill |-> clock]
    BY <1>7, <2>4 DEF new
  <2>6. Found(c, a, b, now)
    BY <1>0, <1>3, <1>4, <1>5, <1>12, <2>3, <2>4, <2>5, Zenon DEF Found
  <2> QED
    BY <2>6 DEF a, now
<1> QED
  BY <1>11, <1>12

\* How ClientBucket uses the bucket b of its client a: the entry still refers to it.
Used(c, a, b, now, ok) ==
    /\ a \in Clients /\ b \in Names /\ entries[a].bucket = b /\ entries[a] # Absent
    /\ now \in 0..clock /\ now >= clock - Stall /\ entries[a].lastSeen >= Unix(now - Stall)
    /\ ok \in BOOLEAN /\ ok = (Refilled(buckets[b], ClientRate, PerClient, now).tok >= 1)
    /\ buckets'[b] = SpendFrom(buckets[b], ClientRate, PerClient, now)
    /\ \A n \in Names \ {b} :
          \/ buckets'[n] = buckets[n]
          \/ buckets'[n] = Unused /\ \A x \in Clients : entries[x].bucket # n
    /\ \A n \in Names : buckets'[n] # Unused =>
          \/ \E x \in Clients : entries[x].bucket = n
          \/ \E d \in Callers \ {c} : pkt[d].bucket = n
    /\ passed' = IF ok /\ a = Watched THEN passed + 1 ELSE passed
    /\ entries' = entries /\ clock' = clock /\ since' = since

LEMMA EntryUsed ==
  ASSUME 2 * Stall <= Ttl, AdmissionInv, BucketsOwned, NEW c \in Callers, ClientBucket(c)
  PROVE  \E ok \in BOOLEAN : Used(c, pkt[c].client, pkt[c].bucket, pkt[c].now, ok)
<1> DEFINE a == pkt[c].client
           b == pkt[c].bucket
           now == pkt[c].now
<1>0. /\ pkt[c].at = "bucket" /\ UnderWay(c) /\ clock' = clock /\ since' = since /\ clock \in Nat
  BY InvParts DEF ClientBucket, At, UnderWay, vars
<1>1. a \in Clients /\ now \in 0..clock /\ now >= clock - Stall
  BY <1>0, ReadingIs
<1>2. b \in Names /\ entries[a].bucket = b /\ entries[a] # Absent
  BY <1>0, <1>1, HeldEntryStays
<1>3. entries[a].lastSeen >= Unix(now - Stall)
  BY <1>0 DEF BucketsOwned
<1>4. PICK ok \in BOOLEAN : UseBucket(a, b, now, InUse(c), ok)
  BY DEF ClientBucket
<1> HIDE DEF a, b, now
<1> DEFINE bs == [buckets EXCEPT ![b] = SpendFrom(@, ClientRate, PerClient, now)]
           held == InUse(c)
<1>5. /\ ok = (Refilled(buckets[b], ClientRate, PerClient, now).tok >= 1)
      /\ buckets' = Collected(bs, entries, held)
      /\ passed' = IF ok /\ a = Watched THEN passed + 1 ELSE passed
      /\ entries' = entries
  BY <1>4 DEF UseBucket
<1>6. buckets \in [Names -> BucketType(PerClient, -1, clock)]
  BY EntriesTyped DEF BucketsType
<1>7. /\ bs[b] = SpendFrom(buckets[b], ClientRate, PerClient, now)
      /\ \A n \in Names \ {b} : bs[n] = buckets[n]
  BY <1>2, <1>6
<1>8. \A n : n \in held => \E d \in Callers \ {c} : pkt[d].bucket = n
  BY DEF InUse
<1> HIDE DEF bs, held
<1>9. \A n \in Names :
         /\ n \in held \/ (\E x \in Clients : entries[x].bucket = n) => buckets'[n] = bs[n]
         /\ n \notin held /\ (\A x \in Clients : entries[x].bucket # n) => buckets'[n] = Unused
  <2> TAKE n \in Names
  <2>1. buckets'[n] = Collected(bs, entries, held)[n]
    BY <1>5
  <2> QED
    BY <2>1, CollectedIs
<1>10. /\ buckets'[b] = SpendFrom(buckets[b], ClientRate, PerClient, now)
       /\ \A n \in Names \ {b} :
             \/ buckets'[n] = buckets[n]
             \/ buckets'[n] = Unused /\ \A x \in Clients : entries[x].bucket # n
       /\ \A n \in Names : buckets'[n] # Unused =>
             \/ \E x \in Clients : entries[x].bucket = n
             \/ \E d \in Callers \ {c} : pkt[d].bucket = n
  BY <1>1, <1>2, <1>7, <1>8, <1>9, Zenon
<1>11. Used(c, a, b, now, ok)
  BY <1>0, <1>1, <1>2, <1>3, <1>5, <1>10, Zenon DEF Used
<1> QED
  BY <1>11 DEF a, b, now

\* The parts of BucketsOwned, for a client, for two clients and for a reader.
EntryOwned(es, bs, x) ==
    es[x] # Absent => es[x].bucket \in Names /\ bs[es[x].bucket].lastRefill >= 0
HeldOwned(es, m) ==
    m.at = "bucket" => /\ es[m.client].bucket = m.bucket
                       /\ es[m.client].lastSeen >= Unix(m.now - Stall)

LEMMA OwnedEach ==
  BucketsOwned <=>
    /\ \A x \in Clients : EntryOwned(entries, buckets, x)
    /\ \A x, y \in Clients :
          entries[x] # Absent /\ entries[x].bucket = entries[y].bucket => x = y
    /\ \A d \in Callers : HeldOwned(entries, pkt[d])
    /\ \A n \in Names : buckets[n] # Unused => \E x \in Clients : entries[x].bucket = n
  BY DEF BucketsOwned, EntryOwned, HeldOwned

LEMMA NoneIsZero ==
  /\ Absent.bucket = 0 /\ 0 \notin Names
  /\ \A x \in Clients : entries[x].bucket \in Names => entries[x] # Absent
  BY NamesPositive DEF Absent

\* A reader holds a bucket only at the place before it uses it.
LEMMA HeldIsBucket ==
  ASSUME AdmissionInv, NEW d \in Callers, pkt[d].bucket \in Names
  PROVE  pkt[d].at = "bucket"
  BY InvParts, NoneIsZero DEF Readings

LEMMA OwnedThroughEntry ==
  ASSUME 2 * Stall <= Ttl, AdmissionInv, BucketsOwned, NEW c \in Callers, NEW a \in Clients,
         NEW b \in Names, NEW now \in 0..clock, now >= clock - Stall, Found(c, a, b, now)
  PROVE  BucketsOwned'
<1>0. /\ pkt'[c].at = "bucket" /\ pkt'[c].bucket = b
      /\ pkt'[c].client = a /\ pkt'[c].now = now
      /\ \A d \in Callers \ {c} : pkt'[d] = pkt[d]
      /\ entries'[a] = [bucket |-> b, lastSeen |-> Unix(now)]
  BY DEF Found
<1>1. \A x \in Clients \ {a} :
          \/ entries'[x] = entries[x]
          \/ entries'[x] = Absent /\ entries[x].lastSeen < Unix(now - Ttl)
  BY Zenon DEF Found
<1>2. \/ entries[a] # Absent /\ b = entries[a].bucket /\ buckets'[b] = buckets[b]
      \/ /\ entries[a] = Absent /\ \A x \in Clients : entries[x].bucket # b
         /\ buckets'[b] = [tok |-> PerClient, lastRefill |-> clock]
  BY Zenon DEF Found
<1>3. \A n \in Names \ {b} :
          \/ buckets'[n] = buckets[n]
          \/ buckets'[n] = Unused /\ \A x \in Clients : entries'[x].bucket # n
  BY Zenon DEF Found
<1>4. \A n \in Names : buckets'[n] # Unused =>
          \/ n = b
          \/ \E x \in Clients : entries'[x].bucket = n
          \/ \E d \in Callers \ {c} : pkt[d].bucket = n
  BY Zenon DEF Found
<1>5. entries'[a].bucket = b /\ entries'[a].lastSeen = Unix(now) /\ clock \in Nat /\ now \in Int
  BY <1>0, InvParts
<1>6. /\ \A x \in Clients : EntryOwned(entries, buckets, x)
      /\ \A x, y \in Clients :
            entries[x] # Absent /\ entries[x].bucket = entries[y].bucket => x = y
      /\ \A d \in Callers : HeldOwned(entries, pkt[d])
  BY OwnedEach, Zenon
\* Another entry that is still there is as it was, and has another bucket.
<1>7. ASSUME NEW x \in Clients \ {a}, entries'[x] # Absent
      PROVE  /\ entries'[x] = entries[x] /\ entries[x].bucket \in Names
             /\ entries[x].bucket # b
             /\ buckets'[entries[x].bucket] = buckets[entries[x].bucket]
  <2>1. entries'[x] = entries[x]
    BY <1>1, <1>7
  <2>2. entries[x].bucket \in Names
    BY <1>6, <1>7, <2>1 DEF EntryOwned
  <2>3. entries[x].bucket # b
    BY <1>2, <1>6, <1>7, <2>1
  <2> QED
    BY <1>3, <2>1, <2>2, <2>3
<1>8. ASSUME NEW x \in Clients PROVE EntryOwned(entries', buckets', x)
  <2>1. CASE x = a
    <3>1. buckets'[b].lastRefill >= 0
      BY <1>2, <1>5, <1>6 DEF EntryOwned
    <3> QED
      BY <1>5, <2>1, <3>1 DEF EntryOwned
  <2>2. CASE x # a
    BY <1>6, <1>7, <2>2 DEF EntryOwned
  <2> QED
    BY <2>1, <2>2
<1>9. ASSUME NEW x \in Clients, NEW y \in Clients,
             entries'[x] # Absent, entries'[x].bucket = entries'[y].bucket
      PROVE  x = y
  <2>1. entries'[y] # Absent
    <3>1. entries'[x].bucket \in Names
      BY <1>5, <1>7, <1>9
    <3> QED
      BY <1>9, <3>1, NoneIsZero
  <2> QED
    BY <1>5, <1>6, <1>7, <1>9, <2>1
<1>10. ASSUME NEW d \in Callers \ {c}, pkt[d].at = "bucket"
       PROVE  /\ pkt[d].client \in Clients /\ pkt[d].bucket \in Names
              /\ entries'[pkt[d].client].bucket = pkt[d].bucket
              /\ entries'[pkt[d].client].lastSeen >= Unix(pkt[d].now - Stall)
  <2> DEFINE x == pkt[d].client
  <2>1. /\ x \in Clients /\ pkt[d].bucket \in Names /\ entries[x].bucket = pkt[d].bucket
        /\ entries[x] # Absent /\ ~(entries[x].lastSeen < Unix(now - Ttl))
    BY <1>10, HeldEntryStays
  <2>2. entries[x].lastSeen >= Unix(pkt[d].now - Stall)
    BY <1>6, <1>10 DEF HeldOwned
  <2>3. pkt[d].now \in 0..clock
    BY <1>10, ReadingIs DEF UnderWay
  <2>4. CASE x = a
    <3>1. entries'[x].bucket = pkt[d].bucket
      BY <1>2, <1>5, <2>1, <2>4
    <3>2. Unix(now) >= Unix(pkt[d].now - Stall)
      <4>1. pkt[d].now - Stall \in Int /\ pkt[d].now - Stall <= now
        BY <1>5, <2>3, Constants
      <4> QED
        BY <1>5, <4>1, UnixIs
    <3> QED
      BY <1>5, <2>1, <2>4, <3>1, <3>2
  <2>5. CASE x # a
    BY <1>1, <2>1, <2>2, <2>5
  <2> QED
    BY <2>4, <2>5
<1>11. ASSUME NEW d \in Callers PROVE HeldOwned(entries', pkt'[d])
  <2>1. CASE d = c
    <3>1. Unix(now) >= Unix(now - Stall)
      <4>1. now - Stall \in Int /\ now - Stall <= now
        BY <1>5, Constants
      <4> QED
        BY <1>5, <4>1, UnixIs
    <3> QED
      BY <1>0, <1>5, <2>1, <3>1 DEF HeldOwned
  <2>2. CASE d # c
    BY <1>0, <1>10, <2>2 DEF HeldOwned
  <2> QED
    BY <2>1, <2>2
<1>12. ASSUME NEW n \in Names, buckets'[n] # Unused
       PROVE  \E x \in Clients : entries'[x].bucket = n
  <2>1. CASE n = b
    BY <1>5, <2>1
  <2>2. ASSUME NEW d \in Callers \ {c}, pkt[d].bucket = n
        PROVE  \E x \in Clients : entries'[x].bucket = n
    <3>1. pkt[d].at = "bucket"
      BY <2>2, HeldIsBucket
    <3> QED
      BY <1>10, <2>2, <3>1
  <2> QED
    BY <1>4, <1>12, <2>1, <2>2
<1>13. BucketsOwned' <=>
         /\ \A x \in Clients : EntryOwned(entries', buckets', x)
         /\ \A x, y \in Clients :
               entries'[x] # Absent /\ entries'[x].bucket = entries'[y].bucket => x = y
         /\ \A d \in Callers : HeldOwned(entries', pkt'[d])
         /\ \A n \in Names : buckets'[n] # Unused => \E x \in Clients : entries'[x].bucket = n
  BY DEF BucketsOwned, EntryOwned, HeldOwned
<1> QED
  BY <1>8, <1>9, <1>11, <1>12, <1>13, Zenon

LEMMA OwnedThroughUse ==
  ASSUME 2 * Stall <= Ttl, AdmissionInv, BucketsOwned, NEW c \in Callers, NEW a \in Clients,
         NEW b \in Names, NEW now, NEW ok, Used(c, a, b, now, ok),
         pkt'[c].at # "bucket", \A d \in Callers \ {c} : pkt'[d] = pkt[d]
  PROVE  BucketsOwned'
<1>1. /\ entries' = entries /\ entries[a].bucket = b /\ now \in 0..clock
      /\ ok = (Refilled(buckets[b], ClientRate, PerClient, now).tok >= 1)
      /\ buckets'[b] = SpendFrom(buckets[b], ClientRate, PerClient, now)
  BY Zenon DEF Used
<1>2. \A n \in Names \ {b} :
          \/ buckets'[n] = buckets[n]
          \/ buckets'[n] = Unused /\ \A x \in Clients : entries[x].bucket # n
  BY Zenon DEF Used
<1>3. \A n \in Names : buckets'[n] # Unused =>
          \/ \E x \in Clients : entries[x].bucket = n
          \/ \E d \in Callers \ {c} : pkt[d].bucket = n
  BY Zenon DEF Used
<1>4. /\ \A x \in Clients : EntryOwned(entries, buckets, x)
      /\ \A x, y \in Clients :
            entries[x] # Absent /\ entries[x].bucket = entries[y].bucket => x = y
      /\ \A d \in Callers : HeldOwned(entries, pkt[d])
  BY OwnedEach, Zenon
<1>5. buckets'[b].lastRefill >= 0
  <2>1. buckets[b].lastRefill >= 0
    BY <1>1, <1>4, NoneIsZero DEF EntryOwned
  <2>2. buckets[b] \in BucketType(PerClient, -1, clock) /\ clock \in Nat
    BY EntriesTyped DEF BucketsType
  <2>3. buckets[b].lastRefill \in Int /\ now \in Int
    BY <1>1, <2>2 DEF BucketType
  <2>4. SpendFrom(buckets[b], ClientRate, PerClient, now).lastRefill
            = IF now > buckets[b].lastRefill THEN now ELSE buckets[b].lastRefill
    BY DEF SpendFrom, Refilled
  <2> QED
    BY <1>1, <2>1, <2>3, <2>4
<1>6. ASSUME NEW x \in Clients PROVE EntryOwned(entries', buckets', x)
  BY <1>1, <1>2, <1>4, <1>5 DEF EntryOwned
<1>7. ASSUME NEW d \in Callers PROVE HeldOwned(entries', pkt'[d])
  BY <1>1, <1>4 DEF HeldOwned
<1>8. ASSUME NEW n \in Names, buckets'[n] # Unused
      PROVE  \E x \in Clients : entries'[x].bucket = n
  <2>1. ASSUME NEW d \in Callers \ {c}, pkt[d].bucket = n
        PROVE  \E x \in Clients : entries'[x].bucket = n
    <3>1. pkt[d].at = "bucket"
      BY <2>1, HeldIsBucket
    <3>2. 0 \in 0..clock
      BY InvParts
    <3>3. pkt[d].client \in Clients /\ entries[pkt[d].client].bucket = pkt[d].bucket
      BY <3>1, <3>2, HeldEntryStays
    <3> QED
      BY <1>1, <2>1, <3>3
  <2> QED
    BY <1>1, <1>3, <1>8, <2>1
<1>9. BucketsOwned' <=>
         /\ \A x \in Clients : EntryOwned(entries', buckets', x)
         /\ \A x, y \in Clients :
               entries'[x] # Absent /\ entries'[x].bucket = entries'[y].bucket => x = y
         /\ \A d \in Callers : HeldOwned(entries', pkt'[d])
         /\ \A n \in Names : buckets'[n] # Unused => \E x \in Clients : entries'[x].bucket = n
  BY DEF BucketsOwned, EntryOwned, HeldOwned
<1> QED
  BY <1>1, <1>4, <1>6, <1>7, <1>8, <1>9, Zenon

\* The steps of a reader that leave the per-client limiter alone.
Elsewhere(c) == ReaderStep(c) /\ ~ClientEntry(c) /\ ~ClientBucket(c)

LEMMA ElsewhereIs ==
  ASSUME AdmissionInv, NEW c \in Callers, Elsewhere(c)
  PROVE  /\ UNCHANGED <<entries, buckets, passed, clock, since>>
         /\ pkt'[c].at # "bucket" /\ \A d \in Callers \ {c} : pkt'[d] = pkt[d]
<1>1. PktOK /\ Readings /\ PolicyInTime /\ clock \in Nat
  BY InvParts
<1>2. ReaderStep(c) /\ ~ClientEntry(c)
  BY DEF Elsewhere
<1>3. UNCHANGED <<entries, buckets, passed, clock, since>>
  BY ClockStill DEF Elsewhere, ReaderStep, Discard, Receive, GlobalShaper, FrontendShaper, Abuse,
     limiterVars
<1>4. PICK m : Moved(c, m) /\ m.at # "bucket"
  BY <1>1, <1>2, ReaderMoves
<1>5. pkt'[c] = m /\ \A d \in Callers \ {c} : pkt'[d] = pkt[d]
  BY <1>1, <1>4 DEF PktOK, Moved
<1> QED
  BY <1>3, <1>4, <1>5

LEMMA UseMoves ==
  ASSUME AdmissionInv, NEW c \in Callers, ClientBucket(c)
  PROVE  pkt'[c].at # "bucket" /\ \A d \in Callers \ {c} : pkt'[d] = pkt[d]
<1>1. PktOK /\ Readings /\ PolicyInTime /\ clock \in Nat
  BY InvParts
<1>2. ReaderStep(c) /\ ~ClientEntry(c)
  BY DEF ReaderStep, ClientBucket, ClientEntry, At
<1>3. PICK m : Moved(c, m) /\ m.at # "bucket"
  BY <1>1, <1>2, ReaderMoves
<1>4. pkt'[c] = m /\ \A d \in Callers \ {c} : pkt'[d] = pkt[d]
  BY <1>1, <1>3 DEF PktOK, Moved
<1> QED
  BY <1>3, <1>4

LEMMA OwnedThroughOthers ==
  ASSUME BucketsOwned, entries' = entries, buckets' = buckets,
         \A d \in Callers : pkt'[d].at = "bucket" => pkt'[d] = pkt[d]
  PROVE  BucketsOwned'
<1>1. \A d \in Callers : HeldOwned(entries, pkt'[d])
  BY DEF BucketsOwned, HeldOwned
<1> QED
  BY <1>1 DEF BucketsOwned, HeldOwned

LEMMA OwnedStep ==
  ASSUME 2 * Stall <= Ttl, AdmissionInv, BucketsOwned, [AdmissionNext]_allVars
  PROVE  BucketsOwned'
<1>1. ASSUME NEW c \in Callers, ClientEntry(c) PROVE BucketsOwned'
  <2>1. PICK b \in Names : Found(c, pkt[c].client, b, pkt[c].now)
    BY <1>1, EntryFinds
  <2>2. UnderWay(c)
    BY <1>1 DEF ClientEntry, At, UnderWay
  <2>3. pkt[c].client \in Clients /\ pkt[c].now \in 0..clock /\ pkt[c].now >= clock - Stall
    BY <2>2, ReadingIs
  <2> QED
    BY <2>1, <2>3, OwnedThroughEntry
<1>2. ASSUME NEW c \in Callers, ClientBucket(c) PROVE BucketsOwned'
  <2>1. PICK ok \in BOOLEAN : Used(c, pkt[c].client, pkt[c].bucket, pkt[c].now, ok)
    BY <1>2, EntryUsed
  <2>2. pkt[c].client \in Clients /\ pkt[c].bucket \in Names
    BY <2>1 DEF Used
  <2>3. pkt'[c].at # "bucket" /\ \A d \in Callers \ {c} : pkt'[d] = pkt[d]
    BY <1>2, UseMoves
  <2> QED
    BY <2>1, <2>2, <2>3, OwnedThroughUse
<1>3. ASSUME NEW c \in Callers, Elsewhere(c) PROVE BucketsOwned'
  BY <1>3, ElsewhereIs, OwnedThroughOthers
<1>4. CASE UNCHANGED <<entries, buckets, pkt>>
  BY <1>4, OwnedThroughOthers
<1> QED
  BY <1>1, <1>2, <1>3, <1>4
  DEF AdmissionNext, Elsewhere, AdmissionObserve, AdmissionTick, limiterVars, allVars

-----------------------------------------------------------------------------
(* The balance of the watched client.                                      *)

\* How gains compare: with the supply of the rate, and with a new bucket's tokens in
\* the time a forgotten client was idle.
LEMMA GainIs ==
  ASSUME 2 * Stall <= Ttl
  PROVE  /\ IdleTime \in Nat /\ Gain \in Nat
         /\ Worth(PerClient) <= Gain * IdleTime
         /\ \A d \in Nat : Worth(ClientRate * d) <= Gain * d
<1>1. IdleTime \in Nat /\ ClientRate \in Nat /\ PerClient \in Nat
  BY Constants DEF IdleTime
<1>2. ClientRate * IdleTime \in Nat
  BY <1>1, ProductNat
<1> DEFINE s == ClientRate * IdleTime
<1>3. s \in Nat /\ Gain = IF s > PerClient THEN s ELSE PerClient
  BY <1>2 DEF Gain
<1> HIDE DEF s
<1>4. Gain \in Nat /\ PerClient <= Gain /\ s <= Gain
  BY <1>1, <1>3
<1>5. Worth(PerClient) <= Gain * IdleTime
  <2>1. IdleTime * PerClient <= IdleTime * Gain
    BY <1>1, <1>4, ProductMonotone
  <2>2. Worth(PerClient) = IdleTime * PerClient /\ Gain * IdleTime = IdleTime * Gain
    BY <1>1, <1>4 DEF Worth
  <2> QED
    BY <2>1, <2>2
<1>6. ASSUME NEW d \in Nat PROVE Worth(ClientRate * d) <= Gain * d
  <2>1. d * s <= d * Gain
    BY <1>3, <1>4, ProductMonotone
  <2>2. Worth(ClientRate * d) = d * s /\ Gain * d = d * Gain
    BY <1>1, <1>4 DEF Worth, s
  <2> QED
    BY <2>1, <2>2
<1> QED
  BY <1>1, <1>4, <1>5, <1>6

LEMMA WorthIs ==
  ASSUME 2 * Stall <= Ttl
  PROVE  /\ \A m \in Nat : Worth(m) \in Nat
         /\ \A m, n \in Nat : Worth(m + n) = Worth(m) + Worth(n)
         /\ \A m, n \in Nat : m <= n => Worth(m) <= Worth(n)
         /\ Worth(0) = 0
<1>1. IdleTime \in Nat
  BY GainIs
<1>2. ASSUME NEW m \in Nat PROVE Worth(m) \in Nat
  BY <1>1, ProductNat DEF Worth
<1>3. ASSUME NEW m \in Nat, NEW n \in Nat PROVE Worth(m + n) = Worth(m) + Worth(n)
  BY <1>1 DEF Worth
<1>4. ASSUME NEW m \in Nat, NEW n \in Nat, m <= n PROVE Worth(m) <= Worth(n)
  <2>1. IdleTime * m <= IdleTime * n
    BY <1>1, <1>4, ProductMonotone
  <2>2. Worth(m) = IdleTime * m /\ Worth(n) = IdleTime * n
    BY <1>1 DEF Worth
  <2> QED
    BY <2>1, <2>2
<1>5. Worth(0) = 0
  BY <1>1 DEF Worth
<1> QED
  BY <1>2, <1>3, <1>4, <1>5

\* Gains add up over time.
LEMMA EarnedLater ==
  ASSUME NEW rate \in Nat, NEW refill \in Int, NEW base \in Int, refill >= base, NEW d \in Nat
  PROVE  Earned(rate, refill + d, base) = Earned(rate, refill, base) + rate * d
<1>1. refill + d >= base /\ refill + d \in Int
  OBVIOUS
<1>2. rate * (refill + d - base) = rate * (refill - base) + rate * d
  OBVIOUS
<1> QED
  BY <1>1, <1>2 DEF Earned

LEMMA EarnedMonotone ==
  ASSUME NEW rate \in Nat, NEW refill \in Int, NEW later \in Int, NEW base \in Int,
         refill <= later
  PROVE  Earned(rate, refill, base) <= Earned(rate, later, base)
<1>1. CASE refill >= base
  <2>1. PICK d \in Nat : later = refill + d
    BY later - refill \in Nat
  <2>2. rate * d \in Nat /\ Earned(rate, refill, base) \in Nat
    BY ProductNat, EarnedNat
  <2>3. Earned(rate, later, base) = Earned(rate, refill, base) + rate * d
    BY <1>1, <2>1, EarnedLater
  <2> QED
    BY <2>2, <2>3
<1>2. CASE ~(refill >= base)
  <2>1. Earned(rate, later, base) \in Nat
    BY EarnedNat
  <2> QED
    BY <1>2, <2>1 DEF Earned
<1> QED
  BY <1>1, <1>2

\* What a bucket with tok tokens, last refilled at refill, accounts for when its
\* client was last seen in the second seen and passed n packets in a window that
\* began at base.
Accounted(seen, refill, tok, n, base) ==
    /\ refill < Second * (seen + 1) + Stall
    /\ refill < base => n = 0
    /\ Worth(n + tok) <= Worth(PerClient) + Earned(Gain, refill, base)

LEMMA BalancedIs ==
  ClientBalanced <=>
    /\ entries[Watched] = Absent => Worth(passed) <= Earned(Gain, clock, Base)
    /\ entries[Watched] # Absent =>
          Accounted(entries[Watched].lastSeen, buckets[entries[Watched].bucket].lastRefill,
                    buckets[entries[Watched].bucket].tok, passed, Base)
  BY DEF ClientBalanced, Accounted

\* An entry refreshed with a reading no later than Stall ago.
LEMMA SeenRecently ==
  ASSUME NEW k \in Int, NEW now \in Int, now >= k - Stall
  PROVE  k < Second * (Unix(now) + 1) + Stall
<1>1. Stall \in Nat /\ Second \in Nat /\ Unix(now) \in Int
  BY Constants, UnixIs, SecondsAre
<1>2. now < Second * Unix(now) + Second
  BY SecondsAre
<1>3. Second * (Unix(now) + 1) = Second * Unix(now) + Second
  BY <1>1
<1> DEFINE x == Second * Unix(now)
           y == Second * (Unix(now) + 1)
<1>4. x \in Int /\ y = x + Second /\ now < x + Second
  BY <1>1, <1>2, <1>3, SecondsAre
<1> HIDE DEF x, y
<1>5. k < y + Stall
  BY <1>1, <1>4
<1> QED
  BY <1>5 DEF y

\* A client without an entry starts with a full bucket.
LEMMA AccountOpens ==
  ASSUME 2 * Stall <= Ttl, NEW k \in Nat, NEW now \in Int, now >= k - Stall, NEW n \in Nat,
         NEW base \in Int, base <= k, Worth(n) <= Earned(Gain, k, base)
  PROVE  Accounted(Unix(now), k, PerClient, n, base)
<1>0. PerClient \in Nat /\ Gain \in Nat /\ k \in Int
  BY Constants, GainIs
<1>1. Earned(Gain, k, base) \in Nat /\ PerClient \in Nat
  BY <1>0, EarnedNat, Zenon
<1>2. k < Second * (Unix(now) + 1) + Stall
  BY Constants, SeenRecently
<1>3. Worth(n + PerClient) = Worth(n) + Worth(PerClient) /\ Worth(n) \in Nat /\ Worth(PerClient) \in Nat
  BY <1>1, WorthIs
<1>4. Worth(n + PerClient) <= Worth(PerClient) + Earned(Gain, k, base)
  BY <1>1, <1>3
<1>5. ~(k < base)
  OBVIOUS
<1> QED
  BY <1>2, <1>4, <1>5 DEF Accounted

\* A client is forgotten only after a time in which it could gain a full bucket.
LEMMA AccountCloses ==
  ASSUME 2 * Stall <= Ttl, NEW k \in Nat, NEW now \in 0..k, NEW seen \in Nat,
         NEW refill \in Int, NEW tok \in Nat, NEW n \in Nat, NEW base \in Int, base <= k,
         seen < Unix(now - Ttl), Accounted(seen, refill, tok, n, base)
  PROVE  Worth(n) <= Earned(Gain, k, base)
<1>1. /\ Gain \in Nat /\ IdleTime \in Nat /\ PerClient \in Nat
      /\ Worth(PerClient) <= Gain * IdleTime
  BY GainIs, Constants
<1>2. /\ refill < Second * (seen + 1) + Stall
      /\ refill < base => n = 0
      /\ Worth(n + tok) <= Worth(PerClient) + Earned(Gain, refill, base)
  BY DEF Accounted
<1>3. Earned(Gain, k, base) \in Nat /\ Earned(Gain, refill, base) \in Nat
  BY <1>1, EarnedNat
<1>4. CASE refill < base
  <2>1. Worth(n) = 0
    BY <1>2, <1>4, WorthIs
  <2> QED
    BY <1>3, <2>1
<1>5. CASE refill >= base
  <2>1. refill + IdleTime <= k
    <3>1. now \in Int /\ now - Ttl \in Int /\ Ttl \in Nat /\ Stall \in Nat /\ now <= k
      BY Constants
    <3>2. Unix(now - Ttl) \in Int /\ Second * Unix(now - Ttl) <= now - Ttl
      BY <3>1, UnixIs, SecondsAre
    <3>3. seen + 1 \in Int /\ seen + 1 <= Unix(now - Ttl)
      BY <3>2
    <3>4. Second * (seen + 1) <= Second * Unix(now - Ttl)
      BY <3>2, <3>3, SecondsAre
    <3> DEFINE x == Second * (seen + 1)
               y == Second * Unix(now - Ttl)
    <3>5. x \in Int /\ y \in Int
      BY <3>2, <3>3, SecondsAre
    <3>6. refill < x + Stall /\ x <= y /\ y <= now - Ttl
      BY <1>2, <3>2, <3>4
    <3> HIDE DEF x, y
    <3> QED
      BY <3>1, <3>5, <3>6 DEF IdleTime
  <2>2. Earned(Gain, refill + IdleTime, base) = Earned(Gain, refill, base) + Gain * IdleTime
    BY <1>1, <1>5, EarnedLater, Zenon
  <2>3. Earned(Gain, refill + IdleTime, base) <= Earned(Gain, k, base)
    <3>1. refill + IdleTime \in Int /\ k \in Int
      BY <1>1
    <3> QED
      BY <1>1, <2>1, <3>1, EarnedMonotone, Zenon
  <2>4. /\ Worth(n) <= Worth(n + tok) /\ Worth(n) \in Nat /\ Worth(n + tok) \in Nat
        /\ Worth(PerClient) \in Nat
    <3>1. n + tok \in Nat /\ n <= n + tok
      OBVIOUS
    <3> QED
      BY <1>1, <3>1, WorthIs, Zenon
  <2>5. Gain * IdleTime \in Nat /\ Earned(Gain, refill + IdleTime, base) \in Nat
    BY <1>1, ProductNat, EarnedNat
  <2> QED
    BY <1>1, <1>2, <1>3, <2>2, <2>3, <2>4, <2>5
<1> QED
  BY <1>4, <1>5

\* What a refill adds to the bucket is no more than its client gains.
LEMMA RefillKeepsWorth ==
  ASSUME 2 * Stall <= Ttl, NEW tok \in 0..PerClient, NEW n \in Nat, NEW refill \in Int,
         NEW base \in Int, NEW now \in Int, now >= base,
         refill < base => n = 0,
         Worth(n + tok) <= Worth(PerClient) + Earned(Gain, refill, base),
         NEW next, next = IF now > refill THEN now ELSE refill
  PROVE  /\ next >= base
         /\ Worth(n + Refill(tok, ClientRate, PerClient, now - refill))
                <= Worth(PerClient) + Earned(Gain, next, base)
<1> DEFINE t == Refill(tok, ClientRate, PerClient, now - refill)
<1>0. ClientRate \in Nat /\ PerClient \in Nat /\ Gain \in Nat
  BY Constants, GainIs
<1>1. /\ t \in 0..PerClient
      /\ now - refill <= 0 => t = tok
      /\ now - refill > 0 => t <= tok + ClientRate * (now - refill)
  <2>1. now - refill \in Int
    OBVIOUS
  <2> QED
    BY <1>0, <2>1, RefillBounds, Zenon
<1> HIDE DEF t
<1>2. CASE now <= refill
  <2>1. t = tok /\ next = refill /\ refill >= base
    BY <1>1, <1>2
  <2> QED
    BY <2>1 DEF t
<1>3. CASE now > refill /\ refill < base
  <2>1. n = 0 /\ next = now
    BY <1>3
  <2>2. n + t = t /\ t \in Nat /\ t <= PerClient
    BY <1>0, <1>1, <2>1
  <2>3. Worth(t) \in Nat /\ Worth(PerClient) \in Nat /\ Worth(t) <= Worth(PerClient)
    BY <1>0, <2>2, WorthIs
  <2>4. Earned(Gain, now, base) \in Nat
    BY <1>0, EarnedNat
  <2>5. Worth(n + t) <= Worth(PerClient) + Earned(Gain, next, base)
    BY <2>1, <2>2, <2>3, <2>4
  <2> QED
    BY <2>1, <2>5 DEF t
<1>4. CASE now > refill /\ refill >= base
  <2>1. PICK d \in Nat : now = refill + d
    BY <1>4, now - refill \in Nat
  <2>2. next = now /\ now - refill = d /\ now - refill > 0
    BY <1>4, <2>1
  <2>3. t <= tok + ClientRate * d /\ ClientRate * d \in Nat /\ t \in Nat /\ tok \in Nat
    BY <1>0, <1>1, <2>2, ProductNat
  <2> DEFINE g == ClientRate * d
  <2>4. Worth(g) <= Gain * d
    BY GainIs
  <2>5. g \in Nat /\ t <= tok + g
    BY <2>3
  <2> HIDE DEF g
  <2>6. n + t \in Nat /\ n + tok \in Nat /\ (n + tok) + g \in Nat /\ n + t <= (n + tok) + g
    BY <2>3, <2>5
  <2>7. Worth(n + t) <= Worth((n + tok) + g)
    BY <2>6, WorthIs
  <2>8. Worth((n + tok) + g) = Worth(n + tok) + Worth(g)
    <3> DEFINE m == n + tok
    <3>1. m \in Nat /\ g \in Nat
      BY <2>5, <2>6
    <3> HIDE DEF m
    <3>2. Worth(m + g) = Worth(m) + Worth(g)
      BY <3>1, WorthIs
    <3> QED
      BY <3>2 DEF m
  <2>9. Earned(Gain, now, base) = Earned(Gain, refill, base) + Gain * d
    <3>1. refill >= base
      BY <1>4
    <3>2. Earned(Gain, refill + d, base) = Earned(Gain, refill, base) + Gain * d
      BY <1>0, <3>1, EarnedLater, Zenon
    <3> QED
      BY <2>1, <3>2, Zenon
  <2>10. /\ Earned(Gain, refill, base) \in Nat /\ Gain * d \in Nat /\ Worth(PerClient) \in Nat
         /\ Worth(n + t) \in Nat /\ Worth(n + tok) \in Nat /\ Worth(g) \in Nat
    BY <1>0, <2>5, <2>6, WorthIs, EarnedNat, ProductNat
  <2>11. Worth(n + t) <= Worth(PerClient) + Earned(Gain, now, base)
    BY <2>4, <2>7, <2>8, <2>9, <2>10
  <2> QED
    BY <1>4, <2>2, <2>11 DEF t
<1> QED
  BY <1>2, <1>3, <1>4

\* A use of the bucket spends what the balance allows.
LEMMA AccountSpends ==
  ASSUME 2 * Stall <= Ttl, NEW k \in Nat, NEW bk \in BucketType(PerClient, -1, k),
         NEW now \in 0..k, NEW seen \in Int, seen >= Unix(now - Stall), NEW n \in Nat,
         NEW base \in Int, now >= base,
         NEW ok \in BOOLEAN, ok = (Refilled(bk, ClientRate, PerClient, now).tok >= 1),
         Accounted(seen, bk.lastRefill, bk.tok, n, base)
  PROVE  LET s == SpendFrom(bk, ClientRate, PerClient, now)
         IN  Accounted(seen, s.lastRefill, s.tok, IF ok THEN n + 1 ELSE n, base)
<1> DEFINE refill == bk.lastRefill
           tok    == bk.tok
           next   == IF now > refill THEN now ELSE refill
           t      == Refill(tok, ClientRate, PerClient, now - refill)
           r      == [tok |-> t, lastRefill |-> next]
           s      == SpendFrom(bk, ClientRate, PerClient, now)
           last   == Second * (seen + 1) + Stall
<1>1. tok \in 0..PerClient /\ refill \in Int /\ now \in Int
  BY DEF BucketType
<1>2. /\ refill < last
      /\ refill < base => n = 0
      /\ Worth(n + tok) <= Worth(PerClient) + Earned(Gain, refill, base)
  BY DEF Accounted
<1>3. ClientRate \in Nat /\ PerClient \in Nat /\ Stall \in Nat
  BY Constants
<1>4. next >= base /\ Worth(n + t) <= Worth(PerClient) + Earned(Gain, next, base)
  <2> HIDE DEF tok, refill
  <2> QED
    BY <1>1, <1>2, RefillKeepsWorth, Zenon
<1>5. Refilled(bk, ClientRate, PerClient, now) = r /\ r.tok = t /\ r.lastRefill = next
  BY DEF Refilled
<1>6. t \in 0..PerClient /\ t \in Int /\ next \in Int
  <2>1. now - refill \in Int
    BY <1>1
  <2>2. t \in 0..PerClient
    BY <1>1, <1>3, <2>1, RefillBounds, Zenon
  <2>3. next \in Int
    BY <1>1
  <2> QED
    BY <1>3, <2>2, <2>3
<1>7. next < last
  <2> DEFINE x == Second * (Unix(now - Stall) + 1)
             y == Second * (seen + 1)
  <2>1. now - Stall \in Int /\ now - Stall >= now - Stall
    BY <1>1, <1>3
  <2>2. now < x + Stall
    BY <1>1, <2>1, SeenRecently
  <2>3. Unix(now - Stall) \in Int
    BY <2>1, UnixIs
  <2>4. Unix(now - Stall) + 1 \in Int /\ seen + 1 \in Int /\ Unix(now - Stall) + 1 <= seen + 1
    BY <2>3
  <2>5. x <= y /\ x \in Int /\ y \in Int
    BY <2>4, SecondsAre
  <2>6. last = y + Stall
    OBVIOUS
  <2> HIDE DEF x, y, last, refill
  <2> QED
    BY <1>1, <1>2, <1>3, <2>2, <2>5, <2>6
<1>8. ok = (t >= 1) /\ s = IF t >= 1 THEN [r EXCEPT !.tok = @ - 1] ELSE r
  BY <1>5 DEF SpendFrom
<1> HIDE DEF t, next, last
<1>9. CASE t >= 1
  <2>1. s = [r EXCEPT !.tok = @ - 1] /\ ok
    BY <1>8, <1>9, Zenon
  <2>2. s.tok = t - 1 /\ s.lastRefill = next
    <3> HIDE DEF s
    <3> QED
      BY <2>1
  <2>3. n + 1 + (t - 1) = n + t /\ ~(next < base)
    BY <1>4, <1>6
  <2> HIDE DEF s
  <2>4. Worth(n + 1 + (t - 1)) <= Worth(PerClient) + Earned(Gain, next, base)
    BY <1>4, <2>3
  <2>5. Accounted(seen, next, t - 1, n + 1, base)
    BY <1>7, <2>3, <2>4, Zenon DEF Accounted, last
  <2> QED
    BY <2>1, <2>2, <2>5 DEF s
<1>10. CASE ~(t >= 1)
  <2>1. s = r /\ ~ok
    BY <1>8, <1>10, Zenon
  <2>2. s.tok = t /\ s.lastRefill = next
    <3> HIDE DEF s
    <3> QED
      BY <2>1
  <2>3. ~(next < base)
    BY <1>4, <1>6
  <2> HIDE DEF s
  <2>4. Accounted(seen, next, t, n, base)
    BY <1>4, <1>7, <2>3, Zenon DEF Accounted, last
  <2> QED
    BY <2>1, <2>2, <2>4 DEF s
<1> QED
  BY <1>9, <1>10

\* What a step may do to the watched client's entry and bucket.
LEMMA BalancedPrimed ==
  /\ entries'[Watched] = Absent => Worth(passed') <= Earned(Gain, clock', Base')
  /\ entries'[Watched] # Absent =>
        Accounted(entries'[Watched].lastSeen, buckets'[entries'[Watched].bucket].lastRefill,
                  buckets'[entries'[Watched].bucket].tok, passed', Base')
  => ClientBalanced'
<1>1. ClientBalanced' <=>
        /\ entries'[Watched] = Absent => Worth(passed') <= Earned(Gain, clock', Base')
        /\ entries'[Watched] # Absent =>
              /\ buckets'[entries'[Watched].bucket].lastRefill
                    < Second * (entries'[Watched].lastSeen + 1) + Stall
              /\ buckets'[entries'[Watched].bucket].lastRefill < Base' => passed' = 0
              /\ Worth(passed' + buckets'[entries'[Watched].bucket].tok)
                    <= Worth(PerClient) + Earned(Gain, buckets'[entries'[Watched].bucket].lastRefill, Base')
  BY DEF ClientBalanced, Earned, Worth
<1> QED
  BY <1>1, Zenon DEF Accounted

LEMMA WatchedTyped ==
  ASSUME AdmissionInv, BucketsOwned
  PROVE  /\ Watched \in Clients /\ clock \in Nat /\ since \in Nat /\ passed \in Nat
         /\ Base \in Int /\ Base <= clock /\ clock - Stall >= Base
         /\ entries[Watched].lastSeen \in Nat
         /\ entries[Watched] # Absent =>
               /\ entries[Watched].bucket \in Names
               /\ buckets[entries[Watched].bucket] \in BucketType(PerClient, -1, clock)
               /\ buckets[entries[Watched].bucket].lastRefill \in Int
               /\ buckets[entries[Watched].bucket].tok \in Nat
<1>1. /\ entries \in [Clients -> EntryType(clock)] /\ buckets \in BucketsType(clock)
      /\ clock \in Nat /\ since \in 0..clock /\ passed \in Nat
  BY EntriesTyped
<1>2. Watched \in Clients
  BY WatchedAssumption
<1>3. since \in Nat /\ Base \in Int /\ Base <= clock /\ clock - Stall >= Base
  BY <1>1, Constants DEF Base
<1>4. entries[Watched].lastSeen \in Nat
  <2>1. entries[Watched] \in EntryType(clock)
    BY <1>1, <1>2
  <2>2. entries[Watched].lastSeen \in 0..clock
    BY <2>1 DEF EntryType
  <2> QED
    BY <1>1, <2>2
<1>5. ASSUME entries[Watched] # Absent
      PROVE  /\ entries[Watched].bucket \in Names
             /\ buckets[entries[Watched].bucket] \in BucketType(PerClient, -1, clock)
             /\ buckets[entries[Watched].bucket].lastRefill \in Int
             /\ buckets[entries[Watched].bucket].tok \in Nat
  <2>1. entries[Watched].bucket \in Names
    BY <1>2, <1>5 DEF BucketsOwned
  <2>2. buckets[entries[Watched].bucket] \in BucketType(PerClient, -1, clock)
    BY <1>1, <2>1 DEF BucketsType
  <2> QED
    BY <1>1, <2>1, <2>2, Constants DEF BucketType
<1> QED
  BY <1>1, <1>2, <1>3, <1>4, <1>5

LEMMA BalancedThroughEntry ==
  ASSUME 2 * Stall <= Ttl, AdmissionInv, BucketsOwned, ClientBalanced, NEW c \in Callers,
         NEW a \in Clients, NEW b \in Names, NEW now \in 0..clock, now >= clock - Stall,
         Found(c, a, b, now)
  PROVE  ClientBalanced'
<1> DEFINE w == Watched
<1>0. /\ entries'[a] = [bucket |-> b, lastSeen |-> Unix(now)]
      /\ passed' = passed /\ clock' = clock /\ since' = since /\ Base' = Base
  BY DEF Found, Base
<1>1. \A x \in Clients \ {a} :
          \/ entries'[x] = entries[x]
          \/ entries'[x] = Absent /\ entries[x].lastSeen < Unix(now - Ttl)
  BY Zenon DEF Found
<1>2. \/ entries[a] # Absent /\ b = entries[a].bucket /\ buckets'[b] = buckets[b]
      \/ /\ entries[a] = Absent /\ \A x \in Clients : entries[x].bucket # b
         /\ buckets'[b] = [tok |-> PerClient, lastRefill |-> clock]
  BY Zenon DEF Found
<1>3. \A n \in Names \ {b} :
          \/ buckets'[n] = buckets[n]
          \/ buckets'[n] = Unused /\ \A x \in Clients : entries'[x].bucket # n
  BY Zenon DEF Found
<1>4. entries'[a].bucket = b /\ entries'[a].lastSeen = Unix(now) /\ entries'[a] # Absent
  BY <1>0, NoneIsZero
<1>5. /\ entries[w] = Absent => Worth(passed) <= Earned(Gain, clock, Base)
      /\ entries[w] # Absent =>
            Accounted(entries[w].lastSeen, buckets[entries[w].bucket].lastRefill,
                      buckets[entries[w].bucket].tok, passed, Base)
  BY BalancedIs, Zenon
<1>6. /\ w \in Clients /\ clock \in Nat /\ passed \in Nat /\ Base \in Int /\ Base <= clock
      /\ entries[w].lastSeen \in Nat /\ now \in Int
      /\ entries[w] # Absent => /\ entries[w].bucket \in Names
                                /\ buckets[entries[w].bucket].lastRefill \in Int
                                /\ buckets[entries[w].bucket].tok \in Nat
  BY WatchedTyped
<1>7. CASE a = w /\ entries[w] = Absent
  <2>1. Accounted(Unix(now), clock, PerClient, passed, Base)
    BY <1>5, <1>6, <1>7, AccountOpens
  <2>2. buckets'[b].tok = PerClient /\ buckets'[b].lastRefill = clock
    BY <1>2, <1>7
  <2> QED
    BY <1>0, <1>4, <1>7, <2>1, <2>2, BalancedPrimed
<1>8. CASE a = w /\ entries[w] # Absent
  <2> DEFINE bk == buckets[b]
  <2>1. b = entries[w].bucket /\ buckets'[b] = bk
    BY <1>2, <1>8
  <2>2. Accounted(entries[w].lastSeen, bk.lastRefill, bk.tok, passed, Base)
    BY <1>5, <1>8, <2>1
  <2>3. bk.lastRefill < Second * (Unix(now) + 1) + Stall
    <3>1. bk \in BucketType(PerClient, -1, clock)
      BY <2>1, <1>8, WatchedTyped
    <3>2. bk.lastRefill \in -1..clock
      BY <3>1 DEF BucketType
    <3>3. bk.lastRefill \in Int /\ now >= bk.lastRefill - Stall
      BY <1>6, <3>2, Constants
    <3> QED
      BY <1>6, <3>3, SeenRecently
  <2>4. Accounted(Unix(now), bk.lastRefill, bk.tok, passed, Base)
    BY <2>2, <2>3 DEF Accounted
  <2> QED
    BY <1>0, <1>4, <1>8, <2>1, <2>4, BalancedPrimed
<1>9. CASE a # w /\ entries'[w] = entries[w]
  <2>1. CASE entries[w] = Absent
    BY <1>0, <1>5, <1>9, <2>1, BalancedPrimed
  <2>2. CASE entries[w] # Absent
    <3>1. entries[w].bucket # b
      BY <1>2, <1>6, <1>9, <2>2 DEF BucketsOwned
    <3>2. buckets'[entries[w].bucket] = buckets[entries[w].bucket]
      BY <1>3, <1>6, <1>9, <2>2, <3>1
    <3> QED
      BY <1>0, <1>5, <1>9, <2>2, <3>2, BalancedPrimed
  <2> QED
    BY <2>1, <2>2
<1>10. CASE a # w /\ entries'[w] = Absent /\ entries[w] # Absent /\ entries[w].lastSeen < Unix(now - Ttl)
  <2>1. Worth(passed) <= Earned(Gain, clock, Base)
    BY <1>5, <1>6, <1>10, AccountCloses
  <2> QED
    BY <1>0, <1>10, <2>1, BalancedPrimed
<1> QED
  BY <1>1, <1>6, <1>7, <1>8, <1>9, <1>10

LEMMA BalancedThroughUse ==
  ASSUME 2 * Stall <= Ttl, AdmissionInv, BucketsOwned, ClientBalanced, NEW c \in Callers, NEW a, NEW b, NEW now,
         NEW ok, Used(c, a, b, now, ok)
  PROVE  ClientBalanced'
<1> DEFINE w == Watched
<1>0. /\ a \in Clients /\ b \in Names /\ entries[a].bucket = b /\ entries[a] # Absent
      /\ now \in 0..clock /\ now >= clock - Stall /\ entries[a].lastSeen >= Unix(now - Stall)
      /\ ok \in BOOLEAN /\ ok = (Refilled(buckets[b], ClientRate, PerClient, now).tok >= 1)
      /\ buckets'[b] = SpendFrom(buckets[b], ClientRate, PerClient, now)
      /\ passed' = (IF ok /\ a = Watched THEN passed + 1 ELSE passed)
      /\ entries' = entries /\ clock' = clock /\ since' = since /\ Base' = Base
  BY Zenon DEF Used, Base
<1>1. \A n \in Names \ {b} :
          \/ buckets'[n] = buckets[n]
          \/ buckets'[n] = Unused /\ \A x \in Clients : entries[x].bucket # n
  BY Zenon DEF Used
<1>2. /\ entries[w] = Absent => Worth(passed) <= Earned(Gain, clock, Base)
      /\ entries[w] # Absent =>
            Accounted(entries[w].lastSeen, buckets[entries[w].bucket].lastRefill,
                      buckets[entries[w].bucket].tok, passed, Base)
  BY BalancedIs, Zenon
<1>3. /\ w \in Clients /\ clock \in Nat /\ passed \in Nat /\ Base \in Int
      /\ clock - Stall >= Base /\ entries[w].lastSeen \in Nat
      /\ entries[w] # Absent => /\ entries[w].bucket \in Names
                                /\ buckets[entries[w].bucket] \in BucketType(PerClient, -1, clock)
  BY WatchedTyped
<1>4. CASE a = w
  <2> DEFINE bk == buckets[b]
             s  == SpendFrom(bk, ClientRate, PerClient, now)
  <2>1. Accounted(entries[w].lastSeen, bk.lastRefill, bk.tok, passed, Base)
    BY <1>0, <1>2, <1>4
  <2>2. bk \in BucketType(PerClient, -1, clock) /\ entries[w].lastSeen \in Int
        /\ entries[w].lastSeen >= Unix(now - Stall)
    BY <1>0, <1>3, <1>4
  <2>3. now >= Base
    BY <1>0, <1>3, Constants
  <2>4. ok = (Refilled(bk, ClientRate, PerClient, now).tok >= 1)
    BY <1>0
  <2> HIDE DEF bk
  <2>5. Accounted(entries[w].lastSeen, s.lastRefill, s.tok, IF ok THEN passed + 1 ELSE passed, Base)
    BY <1>0, <1>3, <2>1, <2>2, <2>3, <2>4, AccountSpends, Zenon
  <2>6. passed' = IF ok THEN passed + 1 ELSE passed
    BY <1>0, <1>4, Zenon
  <2>7. buckets'[entries[w].bucket] = s
    BY <1>0, <1>4 DEF bk
  <2> HIDE DEF s
  <2>8. Accounted(entries'[w].lastSeen, buckets'[entries'[w].bucket].lastRefill,
                  buckets'[entries'[w].bucket].tok, passed', Base')
    BY <1>0, <2>5, <2>6, <2>7
  <2>9. entries'[w] # Absent
    BY <1>0, <1>4
  <2> QED
    BY <2>8, <2>9, BalancedPrimed
<1>5. CASE a # w
  <2>1. passed' = passed
    BY <1>0, <1>5
  <2>2. CASE entries[w] = Absent
    BY <1>0, <1>2, <2>1, <2>2, BalancedPrimed
  <2>3. CASE entries[w] # Absent
    <3>1. entries[w].bucket # b
      BY <1>0, <1>3, <1>5, <2>3 DEF BucketsOwned
    <3>2. buckets'[entries[w].bucket] = buckets[entries[w].bucket]
      BY <1>1, <1>3, <2>3, <3>1
    <3> QED
      BY <1>0, <1>2, <2>1, <2>3, <3>2, BalancedPrimed
  <2> QED
    BY <2>2, <2>3
<1> QED
  BY <1>4, <1>5

LEMMA BalancedThroughObserve ==
  ASSUME 2 * Stall <= Ttl, AdmissionInv, BucketsOwned, ClientBalanced, AdmissionObserve
  PROVE  ClientBalanced'
<1> DEFINE w == Watched
<1>1. /\ passed' = 0 /\ since' = clock /\ clock' = clock /\ entries' = entries
      /\ buckets' = buckets /\ Base' = clock - Stall
  BY DEF AdmissionObserve, Observe, Base
<1>2. /\ clock \in Nat /\ clock - Stall \in Int
      /\ entries[w] # Absent =>
            /\ buckets[entries[w].bucket] \in BucketType(PerClient, -1, clock)
            /\ buckets[entries[w].bucket].lastRefill \in Int
  BY WatchedTyped, Constants
<1>3. \A refill \in Int : Earned(Gain, refill, clock - Stall) \in Nat
  BY <1>2, GainIs, EarnedNat
<1>4. CASE entries[w] = Absent
  <2>1. Worth(0) <= Earned(Gain, clock, clock - Stall)
    BY <1>2, <1>3, WorthIs
  <2> QED
    BY <1>1, <1>4, <2>1, BalancedPrimed
<1>5. CASE entries[w] # Absent
  <2> DEFINE bk == buckets[entries[w].bucket]
  <2>1. bk.lastRefill < Second * (entries[w].lastSeen + 1) + Stall
    BY <1>5, BalancedIs DEF Accounted
  <2>2. bk.tok \in 0..PerClient /\ Earned(Gain, bk.lastRefill, clock - Stall) \in Nat
    BY <1>2, <1>3, <1>5 DEF BucketType
  <2> HIDE DEF bk
  <2>3. Worth(0 + bk.tok) <= Worth(PerClient) + Earned(Gain, bk.lastRefill, clock - Stall)
    <3>1. PerClient \in Nat /\ bk.tok \in Nat /\ 0 + bk.tok = bk.tok /\ bk.tok <= PerClient
      BY <2>2, Constants
    <3>2. Worth(bk.tok) <= Worth(PerClient) /\ Worth(bk.tok) \in Nat /\ Worth(PerClient) \in Nat
      BY <3>1, WorthIs
    <3> QED
      BY <2>2, <3>1, <3>2
  <2>4. Accounted(entries[w].lastSeen, bk.lastRefill, bk.tok, 0, clock - Stall)
    BY <2>1, <2>3 DEF Accounted
  <2> QED
    BY <1>1, <1>5, <2>4, BalancedPrimed DEF bk
<1> QED
  BY <1>4, <1>5

LEMMA BalancedThroughTick ==
  ASSUME 2 * Stall <= Ttl, AdmissionInv, BucketsOwned, ClientBalanced, clock' \in {clock, clock + 1},
         UNCHANGED <<entries, buckets, passed, since>>
  PROVE  ClientBalanced'
<1> DEFINE w == Watched
<1>1. Base' = Base
  BY DEF Base
<1>2. clock \in Nat /\ Base \in Int /\ Base <= clock /\ passed \in Nat
  BY WatchedTyped
<1>3. CASE entries[w] = Absent
  <2>1. clock' \in Int /\ clock \in Int /\ clock <= clock'
    <3>1. clock' = clock \/ clock' = clock + 1
      OBVIOUS
    <3> QED
      BY <1>2, <3>1
  <2>2. Worth(passed) <= Earned(Gain, clock, Base)
    BY <1>3, BalancedIs
  <2>3. Worth(passed) \in Nat /\ Gain \in Nat
    BY <1>2, WorthIs, GainIs
  <2>4. Earned(Gain, clock, Base) <= Earned(Gain, clock', Base)
    BY <1>2, <2>1, <2>3, EarnedMonotone
  <2>5. Earned(Gain, clock, Base) \in Nat /\ Earned(Gain, clock', Base) \in Nat
    BY <1>2, <2>1, <2>3, EarnedNat
  <2>6. Worth(passed') <= Earned(Gain, clock', Base')
    BY <1>1, <2>2, <2>3, <2>4, <2>5
  <2> QED
    BY <1>3, <2>6, BalancedPrimed
<1>4. CASE entries[w] # Absent
  BY <1>1, <1>4, BalancedIs, BalancedPrimed
<1> QED
  BY <1>3, <1>4

LEMMA ClientInvInit ==
  ASSUME 2 * Stall <= Ttl PROVE AdmissionInit => ClientInv
<1> SUFFICES ASSUME AdmissionInit PROVE ClientInv
  OBVIOUS
<1>1. /\ entries = [a \in Clients |-> Absent] /\ buckets = [b \in Names |-> Unused]
      /\ passed = 0 /\ clock = 0 /\ since = 0
  BY DEF AdmissionInit, LimiterInit, Init
<1>2. \A c \in Callers : pkt[c].at = "idle"
  BY DEF AdmissionInit, Idle
<1>3. BucketsOwned
  BY <1>1, <1>2 DEF BucketsOwned
<1>4. ClientBalanced
  <2>1. entries[Watched] = Absent
    BY <1>1, WatchedAssumption
  <2>2. Base \in Int
    BY <1>1, Constants DEF Base
  <2>3. Earned(Gain, clock, Base) \in Nat
    <3>1. Gain \in Nat /\ clock \in Int
      BY <1>1, GainIs
    <3> QED
      BY <2>2, <3>1, EarnedNat, Zenon
  <2>4. Worth(passed) <= Earned(Gain, clock, Base)
    BY <1>1, <2>3, WorthIs
  <2> QED
    BY <2>1, <2>4, BalancedIs
<1> QED
  BY <1>3, <1>4 DEF ClientInv

LEMMA ClientInvStep ==
  ASSUME 2 * Stall <= Ttl
  PROVE  AdmissionInv /\ ClientInv /\ [AdmissionNext]_allVars => ClientInv'
<1> SUFFICES ASSUME AdmissionInv, ClientInv, [AdmissionNext]_allVars PROVE ClientInv'
  OBVIOUS
<1>1. BucketsOwned /\ BucketsOwned'
  BY OwnedStep DEF ClientInv
<1>2. ClientBalanced'
  <2>0. ClientBalanced /\ clock \in Nat
    BY InvParts DEF ClientInv
  <2>1. ASSUME NEW c \in Callers, ClientEntry(c) PROVE ClientBalanced'
    <3>1. PICK b \in Names : Found(c, pkt[c].client, b, pkt[c].now)
      BY <1>1, <2>1, EntryFinds
    <3>2. UnderWay(c)
      BY <2>1 DEF ClientEntry, At, UnderWay
    <3>3. pkt[c].client \in Clients /\ pkt[c].now \in 0..clock /\ pkt[c].now >= clock - Stall
      BY <3>2, ReadingIs
    <3> QED
      BY <1>1, <2>0, <3>1, <3>3, BalancedThroughEntry
  <2>2. ASSUME NEW c \in Callers, ClientBucket(c) PROVE ClientBalanced'
    <3>1. PICK ok \in BOOLEAN : Used(c, pkt[c].client, pkt[c].bucket, pkt[c].now, ok)
      BY <1>1, <2>2, EntryUsed
    <3> QED
      BY <1>1, <2>0, <3>1, BalancedThroughUse, Zenon
  <2>3. ASSUME NEW c \in Callers, Elsewhere(c) PROVE ClientBalanced'
    BY <1>1, <2>0, <2>3, ElsewhereIs, BalancedThroughTick
  <2>4. CASE AdmissionObserve
    BY <1>1, <2>0, <2>4, BalancedThroughObserve
  <2>5. CASE AdmissionTick
    <3>1. clock' = clock + 1 /\ UNCHANGED <<entries, buckets, passed, since>>
      BY <2>5 DEF AdmissionTick, Tick, limiterVars
    <3> QED
      BY <1>1, <2>0, <3>1, BalancedThroughTick
  <2>6. CASE UNCHANGED allVars
    <3>1. UNCHANGED <<entries, buckets, passed, since, clock>>
      BY <2>6 DEF allVars, limiterVars, vars
    <3> QED
      BY <1>1, <2>0, <3>1, BalancedThroughTick
  <2> QED
    BY <2>1, <2>2, <2>3, <2>4, <2>5, <2>6 DEF AdmissionNext, Elsewhere
<1> QED
  BY <1>1, <1>2 DEF ClientInv

LEMMA ClientInvImplies ==
  ASSUME 2 * Stall <= Ttl PROVE AdmissionInv /\ ClientInv => ClientRateBound
<1> SUFFICES ASSUME AdmissionInv, ClientInv
             PROVE  passed * IdleTime <= PerClient * IdleTime + Gain * (clock - since + Stall)
  BY DEF ClientRateBound
<1> DEFINE e == Earned(Gain, clock, Base)
<1>1. BucketsOwned /\ ClientBalanced
  BY DEF ClientInv
<1>2. clock \in Nat /\ since \in Nat /\ passed \in Nat /\ Base \in Int /\ Base <= clock
      /\ PerClient \in Nat /\ Gain \in Nat
  BY <1>1, WatchedTyped, Constants, GainIs
<1>3. e = Gain * (clock - since + Stall) /\ e \in Nat
  <2>1. clock - Base = clock - since + Stall
    BY <1>2, Constants DEF Base
  <2> QED
    BY <1>2, <2>1, EarnedNat DEF Earned
<1>4. Worth(passed) \in Nat /\ Worth(PerClient) \in Nat
  BY <1>2, WorthIs
<1>5. CASE entries[Watched] = Absent
  <2>1. Worth(passed) <= e
    BY <1>1, <1>5, BalancedIs
  <2> HIDE DEF e
  <2> QED
    BY <1>3, <1>4, <2>1 DEF Worth
<1>6. CASE entries[Watched] # Absent
  <2> DEFINE bk == buckets[entries[Watched].bucket]
             g  == Earned(Gain, bk.lastRefill, Base)
  <2>1. bk.tok \in Nat /\ bk.lastRefill \in Int /\ bk.lastRefill <= clock
    <3>1. bk.tok \in Nat /\ bk.lastRefill \in Int /\ bk \in BucketType(PerClient, -1, clock)
      BY <1>1, <1>6, WatchedTyped
    <3> QED
      BY <1>2, <3>1 DEF BucketType
  <2>2. Worth(passed + bk.tok) <= Worth(PerClient) + g
    BY <1>1, <1>6, BalancedIs DEF Accounted
  <2>3. g \in Nat /\ g <= e
    <3>1. clock \in Int
      BY <1>2
    <3>2. g \in Nat
      BY <1>2, <2>1, EarnedNat, Zenon
    <3>3. g <= e
      BY <1>2, <2>1, <3>1, EarnedMonotone, Zenon
    <3> QED
      BY <3>2, <3>3
  <2>4. Worth(passed) <= Worth(passed + bk.tok) /\ Worth(passed + bk.tok) \in Nat
    <3>1. passed + bk.tok \in Nat /\ passed <= passed + bk.tok
      BY <1>2, <2>1
    <3> QED
      BY <1>2, <3>1, WorthIs
  <2> HIDE DEF bk, g, e
  <2>5. Worth(passed) <= Worth(PerClient) + e
    BY <1>3, <1>4, <2>2, <2>3, <2>4
  <2> QED
    BY <1>3, <2>5 DEF Worth
<1> QED
  BY <1>5, <1>6

\* The per-client limit (shaping.go:140), where the session timeout is at least twice
\* the time a reading may be late: in any window a client passes no more than its
\* burst and what its rate, or a burst for each timeout it may be forgotten in, adds
\* to it, however often its entry is swept and made anew while readers wait with old
\* readings.
THEOREM ClientRateLimited == ASSUME 2 * Stall <= Ttl PROVE AdmissionSpec => []ClientRateBound
<1>1. AdmissionInv /\ ClientInv /\ [AdmissionNext]_allVars => ClientInv'
  BY ClientInvStep
<1>2. AdmissionInit => ClientInv
  BY ClientInvInit
<1>3. AdmissionSpec => []ClientInv
  BY <1>1, <1>2, AdmissionInvAlways, PTL DEF AdmissionSpec
<1>4. AdmissionInv /\ ClientInv => ClientRateBound
  BY ClientInvImplies
<1> QED
  BY <1>3, <1>4, AdmissionInvAlways, PTL
=============================================================================

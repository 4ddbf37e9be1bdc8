----------------------- MODULE ResponseRoutingProofs ------------------------
(***************************************************************************)
(* What TLAPS proves of ResponseRouting, for any number of workers,        *)
(* clients and backends, any queue length, TTL and stall, and any number   *)
(* of network faults.                                                      *)
(***************************************************************************)
EXTENDS ResponseRouting, SequenceTheorems, NaturalsInduction, WellFoundedInduction, TLAPS

-----------------------------------------------------------------------------
(* Queues                                                                  *)

\* A set of positions has a first one.
LEMMA FirstOf ==
  ASSUME NEW T \in SUBSET Nat, T # {}
  PROVE  Min(T) \in T /\ \A m \in T : Min(T) <= m
<1> DEFINE R == OpToRel(<, Nat)
<1>1. IsWellFoundedOn(R, Nat)
  BY NatLessThanWellFounded
<1>2. \A x, y \in Nat : x < y => <<x, y>> \in R
  BY DEF OpToRel
<1> HIDE DEF R
<1>3. PICK n \in T : \A y \in T : ~(<<y, n>> \in R)
  BY <1>1, WFMin
<1>4. \A m \in T : ~(m < n)
  BY <1>2, <1>3
<1>5. \A m \in T : n <= m
  BY <1>4
<1> QED
  BY <1>5 DEF Min

\* r is what is left of queue q when routes are taken out.
Kept(r, q) ==
    \E f \in [1..Len(r) -> 1..Len(q)] :
        /\ \A i \in 1..Len(r) : r[i] = q[f[i]]
        /\ \A i, j \in 1..Len(r) : i < j => f[i] < f[j]

\* pruneExpiredRoutes cuts off a number of routes at the front and stops at a live one.
LEMMA PruneCuts ==
  ASSUME NEW q \in Seq(Routes), NEW t \in Int
  PROVE  LET r == pruneExpiredRoutes(q, t)
         IN  \E d \in 0..Len(q) :
                /\ r \in Seq(Routes)
                /\ Len(r) = Len(q) - d
                /\ \A i \in 1..Len(r) : r[i] = q[i + d]
                /\ Len(r) > 0 => r[1].at >= t - TTL
                /\ d = 0 => r = q
                /\ r = q => d = 0
<1> DEFINE valid == {i \in DOMAIN q : q[i].at >= t - TTL}
           r == pruneExpiredRoutes(q, t)
<1>0. Len(q) \in Nat /\ DOMAIN q = 1..Len(q)
  OBVIOUS
<1>1. CASE valid = {}
  <2>1. r = <<>>
    BY <1>1 DEF pruneExpiredRoutes
  <2>2. Len(q) = 0 <=> q = <<>>
    OBVIOUS
  <2> HIDE DEF r
  <2>3. r \in Seq(Routes) /\ Len(r) = Len(q) - Len(q) /\ Len(r) = 0
    BY <1>0, <2>1
  <2>4. \E d \in 0..Len(q) :
            /\ Len(r) = Len(q) - d
            /\ \A i \in 1..Len(r) : r[i] = q[i + d]
            /\ Len(r) > 0 => r[1].at >= t - TTL
            /\ d = 0 => r = q
            /\ r = q => d = 0
    <3>1. Len(q) \in 0..Len(q)
      BY <1>0
    <3>2. \A i \in 1..Len(r) : FALSE
      BY <2>3
    <3> QED
      BY <2>1, <2>2, <2>3, <3>1, <3>2
  <2> QED
    BY <2>3, <2>4 DEF r
<1>2. CASE valid # {}
  <2> DEFINE m == Min(valid)
  <2>1. m \in valid
    <3>1. valid \in SUBSET Nat
      BY <1>0
    <3> HIDE DEF valid
    <3> QED
      BY <1>2, <3>1, FirstOf
  <2>2. r = SubSeq(q, m, Len(q))
    BY <1>2 DEF pruneExpiredRoutes
  <2>3. m \in 1..Len(q) /\ q[m].at >= t - TTL
    BY <1>0, <2>1
  <2> HIDE DEF m, r, valid
  <2>4. /\ r \in Seq(Routes)
        /\ Len(r) = Len(q) - m + 1
        /\ \A i \in 1..(Len(q) - m + 1) : r[i] = q[m + i - 1]
    BY <1>0, <2>2, <2>3, SubSeqProperties
  <2>5. m = 1 => r = q
    BY <2>2, SubSeqFull
  <2>6. m - 1 \in 0..Len(q) /\ m \in Int
    BY <1>0, <2>3
  <2>7. Len(r) = Len(q) - (m - 1) /\ Len(r) > 0 /\ Len(r) \in Nat
    BY <1>0, <2>3, <2>4
  <2>8. \A i \in 1..Len(r) : r[i] = q[i + (m - 1)]
    <3> SUFFICES ASSUME NEW i \in 1..Len(r) PROVE r[i] = q[i + (m - 1)]
      OBVIOUS
    <3>1. m + i - 1 = i + (m - 1) /\ i \in 1..(Len(q) - m + 1)
      BY <2>4, <2>6
    <3> QED
      BY <2>4, <3>1
  <2>9. r[1].at >= t - TTL
    <3>1. r[1] = q[1 + (m - 1)] /\ 1 + (m - 1) = m
      BY <2>6, <2>7, <2>8
    <3> QED
      BY <2>3, <3>1
  <2>10. r = q => m - 1 = 0
    BY <1>0, <2>6, <2>7
  <2>11. m - 1 = 0 => r = q
    BY <2>5, <2>6
  <2>12. \E d \in 0..Len(q) :
            /\ Len(r) = Len(q) - d
            /\ \A i \in 1..Len(r) : r[i] = q[i + d]
            /\ Len(r) > 0 => r[1].at >= t - TTL
            /\ d = 0 => r = q
            /\ r = q => d = 0
    BY <2>6, <2>7, <2>8, <2>9, <2>10, <2>11
  <2> QED
    BY <2>4, <2>12 DEF r
<1> QED
  BY <1>1, <1>2

\* Without takes out one route of that id, or none if there is none.
LEMMA WithoutOne ==
  ASSUME NEW q \in Seq(Routes), NEW id
  PROVE  LET r == Without(q, id)
         IN  \/ (\A i \in 1..Len(q) : q[i].id # id) /\ r = q
             \/ \E k \in 1..Len(q) :
                   /\ q[k].id = id
                   /\ r \in Seq(Routes)
                   /\ Len(r) = Len(q) - 1
                   /\ \A i \in 1..(k - 1) : r[i] = q[i]
                   /\ \A i \in k..(Len(q) - 1) : r[i] = q[i + 1]
<1> DEFINE at == {i \in DOMAIN q : q[i].id = id}
           r == Without(q, id)
<1>0. Len(q) \in Nat /\ DOMAIN q = 1..Len(q)
  OBVIOUS
<1>1. CASE at = {}
  BY <1>0, <1>1 DEF Without
<1>2. CASE at # {}
  <2> DEFINE k == Min(at)
  <2>1. k \in at
    <3>1. at \in SUBSET Nat
      BY <1>0
    <3> HIDE DEF at
    <3> QED
      BY <1>2, <3>1, FirstOf
  <2>2. k \in 1..Len(q) /\ q[k].id = id
    BY <1>0, <2>1
  <2>3. r = SubSeq(q, 1, k - 1) \o SubSeq(q, k + 1, Len(q))
    BY <1>2 DEF Without, RemoveAt
  <2> HIDE DEF k, r, at
  <2> DEFINE a == SubSeq(q, 1, k - 1)
             b == SubSeq(q, k + 1, Len(q))
  <2>4. a \in Seq(Routes) /\ Len(a) = k - 1 /\ \A i \in 1..(k - 1) : a[i] = q[i]
    <3>2. a \in Seq(Routes) /\ Len(a) = k - 1
      BY <1>0, <2>2
    <3>3. ASSUME NEW i \in 1..(k - 1) PROVE a[i] = q[i]
      BY <1>0, <2>2
    <3> QED
      BY <3>2, <3>3
  <2>5. b \in Seq(Routes) /\ Len(b) = Len(q) - k /\ \A i \in 1..(Len(q) - k) : b[i] = q[k + i]
    <3>1. k + 1 \in Nat /\ k \in Int /\ Len(q) \in Nat /\ k + 1 \in 1..(Len(q) + 1)
      BY <1>0, <2>2
    <3>2. b \in Seq(Routes) /\ Len(b) = Len(q) - k
      <4>1. Len(q) \in ((k + 1) - 1)..Len(q)
        BY <1>0, <2>2
      <4>2. b \in Seq(Routes) /\ Len(b) = IF k + 1 <= Len(q) THEN Len(q) - (k + 1) + 1 ELSE 0
        BY <3>1, <4>1, SubSeqProperties
      <4> QED
        BY <2>2, <3>1, <4>2
    <3>3. ASSUME NEW i \in 1..(Len(q) - k) PROVE b[i] = q[k + i]
      <4>1. i \in 1..(Len(q) - (k + 1) + 1) /\ (k + 1) + i - 1 = k + i
        BY <1>0, <2>2
      <4>2. \A l \in 1..(Len(q) - (k + 1) + 1) : b[l] = q[(k + 1) + l - 1]
        BY <1>0, <3>1, SubSeqProperties
      <4> QED
        BY <4>1, <4>2
    <3> QED
      BY <3>2, <3>3
  <2>6. r = a \o b
    BY <2>3
  <2> HIDE DEF a, b
  <2>7. r \in Seq(Routes) /\ Len(r) = Len(q) - 1
    <3>1. r \in Seq(Routes) /\ Len(r) = Len(a) + Len(b)
      BY <2>4, <2>5, <2>6, ConcatProperties
    <3> QED
      BY <1>0, <2>2, <2>4, <2>5, <3>1
  <2>8. ASSUME NEW i \in 1..(k - 1) PROVE r[i] = q[i]
    BY <1>0, <2>2, <2>4, <2>5, <2>6
  <2>9. ASSUME NEW i \in k..(Len(q) - 1) PROVE r[i] = q[i + 1]
    <3>1. i - (k - 1) \in 1..(Len(q) - k) /\ k + (i - (k - 1)) = i + 1
      BY <1>0, <2>2
    <3>2. r[i] = b[i - (k - 1)]
      BY <1>0, <2>2, <2>4, <2>5, <2>6
    <3> QED
      BY <2>5, <3>1, <3>2
  <2>10. \E j \in 1..Len(q) :
             /\ q[j].id = id
             /\ \A i \in 1..(j - 1) : r[i] = q[i]
             /\ \A i \in j..(Len(q) - 1) : r[i] = q[i + 1]
    BY <2>2, <2>8, <2>9
  <2> QED
    BY <2>7, <2>10 DEF r
<1> QED
  BY <1>1, <1>2

\* The front route taken out.
LEMMA RemoveFront ==
  ASSUME NEW q \in Seq(Routes), Len(q) > 0
  PROVE  /\ RemoveAt(q, 1) \in Seq(Routes)
         /\ Len(RemoveAt(q, 1)) = Len(q) - 1
         /\ \A i \in 1..(Len(q) - 1) : RemoveAt(q, 1)[i] = q[i + 1]
<1>1. RemoveAt(q, 1) = SubSeq(q, 2, Len(q))
  <2>1. RemoveAt(q, 1) = SubSeq(q, 1, 1 - 1) \o SubSeq(q, 1 + 1, Len(q))
    BY DEF RemoveAt
  <2>2. SubSeq(q, 1, 1 - 1) = <<>>
    BY SubSeqEmpty
  <2>3. SubSeq(q, 2, Len(q)) \in Seq(Routes)
    OBVIOUS
  <2> QED
    BY <2>1, <2>2, <2>3, ConcatEmptySeq
<1>2. Len(q) \in Nat /\ \A i \in 2..Len(q) : q[i] \in Routes
  OBVIOUS
<1>3. /\ SubSeq(q, 2, Len(q)) \in Seq(Routes)
      /\ Len(SubSeq(q, 2, Len(q))) = IF 2 <= Len(q) THEN Len(q) - 2 + 1 ELSE 0
      /\ \A i \in 1..(Len(q) - 2 + 1) : SubSeq(q, 2, Len(q))[i] = q[2 + i - 1]
  BY <1>2, SubSeqProperties
<1>4. \A i \in 1..(Len(q) - 1) : i \in 1..(Len(q) - 2 + 1) /\ 2 + i - 1 = i + 1
  BY <1>2
<1> DEFINE r == RemoveAt(q, 1)
<1>5. r \in Seq(Routes) /\ Len(r) = IF 2 <= Len(q) THEN Len(q) - 2 + 1 ELSE 0
  BY <1>1, <1>3
<1>6. \A i \in 1..(Len(q) - 2 + 1) : r[i] = q[2 + i - 1]
  BY <1>1, <1>3
<1> HIDE DEF r
<1>7. Len(r) = Len(q) - 1
  <2>1. CASE 2 <= Len(q)
    BY <1>2, <1>5, <2>1
  <2>2. CASE Len(q) = 1
    BY <1>5, <2>2
  <2>3. \A n \in Nat : n > 0 => 2 <= n \/ n = 1
    OBVIOUS
  <2> QED
    BY <1>2, <2>1, <2>2, <2>3, Zenon
<1>8. \A i \in 1..(Len(q) - 1) : r[i] = q[i + 1]
  BY <1>4, <1>6
<1> QED
  BY <1>5, <1>7, <1>8 DEF r

\* Taking out routes does not change their order.
LEMMA KeptShift ==
  ASSUME NEW q \in Seq(Routes), NEW r \in Seq(Routes), NEW d \in 0..Len(q),
         Len(r) = Len(q) - d, \A i \in 1..Len(r) : r[i] = q[i + d]
  PROVE  Kept(r, q)
<1> DEFINE f == [i \in 1..Len(r) |-> i + d]
<1>1. Len(q) \in Nat /\ Len(r) \in Nat
  OBVIOUS
<1>2. f \in [1..Len(r) -> 1..Len(q)]
  BY <1>1
<1>3. \A i \in 1..Len(r) : r[i] = q[f[i]]
  OBVIOUS
<1>4. \A i, j \in 1..Len(r) : i < j => f[i] < f[j]
  BY <1>1
<1> HIDE DEF f
<1> QED
  BY <1>2, <1>3, <1>4 DEF Kept

LEMMA KeptGap ==
  ASSUME NEW q \in Seq(Routes), NEW r \in Seq(Routes), NEW k \in 1..Len(q),
         Len(r) = Len(q) - 1, \A i \in 1..(k - 1) : r[i] = q[i],
         \A i \in k..(Len(q) - 1) : r[i] = q[i + 1]
  PROVE  Kept(r, q)
<1> DEFINE f == [i \in 1..Len(r) |-> IF i < k THEN i ELSE i + 1]
<1>1. Len(q) \in Nat /\ Len(r) \in Nat /\ k \in Nat
  OBVIOUS
<1>2. f \in [1..Len(r) -> 1..Len(q)]
  BY <1>1
<1>3. \A i \in 1..Len(r) : r[i] = q[f[i]]
  <2> SUFFICES ASSUME NEW i \in 1..Len(r) PROVE r[i] = q[f[i]]
    OBVIOUS
  <2>1. CASE i < k
    BY <1>1, <2>1
  <2>2. CASE ~(i < k)
    BY <1>1, <2>2
  <2> QED
    BY <2>1, <2>2
<1>4. \A i, j \in 1..Len(r) : i < j => f[i] < f[j]
  BY <1>1
<1> HIDE DEF f
<1> QED
  BY <1>2, <1>3, <1>4 DEF Kept

-----------------------------------------------------------------------------
(* The inductive invariant                                                 *)

\* Ids grow towards the end of a queue, and times nearly do.
Ordered(q, s, t) ==
    /\ \A i \in 1..Len(q) : q[i].id \in 1..s /\ q[i].at <= t
    /\ \A i, j \in 1..Len(q) : i < j => q[i].id < q[j].id /\ q[j].at >= q[i].at - Stall

Holding(w) == worker[w].pc \in {"shape", "send", "cancel"}

\* A route is sent, or in the hands of the one worker that will send it or take it back.
Owned(b, id) ==
    id \in sent \/ \E w \in Workers : worker[w].server = b /\ worker[w].id = id /\ Holding(w)

\* The workers' readings are recent, and each holds an id of its own that is not sent.
WorkersOK ==
    /\ \A w \in Workers :
          /\ worker[w].at <= now
          /\ worker[w].pc # "idle" => worker[w].server \in Servers /\ worker[w].client \in Clients
          /\ worker[w].pc \in {"enqueue", "cancel"} => now - worker[w].at <= Stall
          /\ Holding(w) => worker[w].id \in 1..seq /\ worker[w].id \notin sent
    /\ \A v, w \in Workers : Holding(v) /\ Holding(w) /\ worker[v].id = worker[w].id => v = w

\* While b is undisturbed the requests under way are, in order, those of the first
\* routes of its queue; the other routes are not sent, and those of the workers that
\* will send are among them.
Matched(b) ==
    b \notin disturbed =>
        /\ Len(flight[b]) <= Len(pendingRoutes[b])
        /\ \A i \in 1..Len(flight[b]) : /\ flight[b][i].client = pendingRoutes[b][i].client
                                        /\ pendingRoutes[b][i].id \in sent
        /\ \A i \in (Len(flight[b]) + 1)..Len(pendingRoutes[b]) : pendingRoutes[b][i].id \notin sent
        /\ \A w \in Workers :
              worker[w].server = b /\ worker[w].pc \in {"shape", "send"} =>
                  \E i \in 1..Len(pendingRoutes[b]) :
                      /\ pendingRoutes[b][i].id = worker[w].id
                      /\ pendingRoutes[b][i].client = worker[w].client

RoutingInv ==
    /\ RoutingTypeOK
    /\ \A b \in Servers : Ordered(pendingRoutes[b], seq, now)
    /\ WorkersOK
    /\ \A b \in Servers : \A i \in 1..Len(pendingRoutes[b]) : Owned(b, pendingRoutes[b][i].id)
    /\ \A b \in Servers : Matched(b)
    /\ MatchedUnlessDisturbed

LEMMA KeptOrdered ==
  ASSUME NEW q \in Seq(Routes), NEW r \in Seq(Routes), NEW s \in Nat, NEW t \in Nat,
         Ordered(q, s, t), Kept(r, q)
  PROVE  Ordered(r, s, t)
<1>1. PICK f \in [1..Len(r) -> 1..Len(q)] :
         /\ \A i \in 1..Len(r) : r[i] = q[f[i]]
         /\ \A i, j \in 1..Len(r) : i < j => f[i] < f[j]
  BY DEF Kept
<1>2. \A i \in 1..Len(r) : f[i] \in 1..Len(q)
  BY <1>1
<1> QED
  BY <1>1, <1>2 DEF Ordered

LEMMA OrderedLater ==
  ASSUME NEW q \in Seq(Routes), NEW s \in Nat, NEW t \in Nat, Ordered(q, s, t)
  PROVE  Ordered(q, s + 1, t) /\ Ordered(q, s, t + 1)
<1>1. \A i \in 1..Len(q) : q[i].at \in Int
  <2>1. \A i \in 1..Len(q) : q[i] \in Routes
    OBVIOUS
  <2> QED
    BY <2>1 DEF Routes
<1>2. \A i \in 1..Len(q) : q[i].id \in 1..s /\ q[i].at <= t
  BY DEF Ordered
<1>3. \A i \in 1..Len(q) : q[i].id \in 1..(s + 1) /\ q[i].at <= t + 1
  BY <1>1, <1>2
<1> QED
  BY <1>2, <1>3 DEF Ordered

LEMMA AppendOrdered ==
  ASSUME NEW q \in Seq(Routes), NEW r \in Routes, NEW s \in Nat, NEW t \in Nat,
         Ordered(q, s, t), r.id = s + 1, r.at <= t, t - r.at <= Stall
  PROVE  Ordered(Append(q, r), s + 1, t)
<1> DEFINE n == Len(q)
           a == Append(q, r)
<1>1. n \in Nat /\ Len(a) = n + 1 /\ a[n + 1] = r /\ \A i \in 1..n : a[i] = q[i]
  OBVIOUS
<1>2. \A i \in 1..n : q[i] \in Routes /\ q[i].id \in Nat /\ q[i].at \in Nat
  <2>1. \A i \in 1..n : q[i] \in Routes
    OBVIOUS
  <2> QED
    BY <2>1 DEF Routes
<1>3. r.at \in Nat /\ Stall \in Nat
  BY TimesAssumption DEF Routes
<1> HIDE DEF a, n
<1>4. \A i \in 1..n : q[i].id \in 1..s /\ q[i].at <= t
  BY DEF Ordered, n
<1>5. \A i, j \in 1..n : i < j => q[i].id < q[j].id /\ q[j].at >= q[i].at - Stall
  BY DEF Ordered, n
<1>6. \A i \in 1..(n + 1) : i \in 1..n \/ i = n + 1
  BY <1>1
<1>7. \A i \in 1..(n + 1) : a[i].id \in 1..(s + 1) /\ a[i].at <= t
  <2> SUFFICES ASSUME NEW i \in 1..(n + 1) PROVE a[i].id \in 1..(s + 1) /\ a[i].at <= t
    OBVIOUS
  <2>1. CASE i \in 1..n
    <3>1. q[i].id \in 1..s /\ q[i].at <= t /\ a[i] = q[i]
      BY <1>1, <1>4, <2>1
    <3> QED
      BY <3>1
  <2>2. CASE i = n + 1
    BY <1>1, <2>2
  <2> QED
    BY <1>6, <2>1, <2>2
<1>8. \A i, j \in 1..(n + 1) : i < j => a[i].id < a[j].id /\ a[j].at >= a[i].at - Stall
  <2> SUFFICES ASSUME NEW i \in 1..(n + 1), NEW j \in 1..(n + 1), i < j
               PROVE  a[i].id < a[j].id /\ a[j].at >= a[i].at - Stall
    OBVIOUS
  <2>1. i \in 1..n /\ a[i] = q[i]
    BY <1>1
  <2>2. CASE j \in 1..n
    BY <1>1, <1>5, <2>1, <2>2
  <2>3. CASE j = n + 1
    <3>1. a[j] = r /\ q[i].id \in 1..s /\ q[i].at <= t /\ q[i].at \in Nat
      BY <1>1, <1>2, <1>4, <2>1, <2>3
    <3>2. q[i].id < r.id
      BY <3>1
    <3>3. r.at >= q[i].at - Stall
      BY <1>3, <3>1
    <3> QED
      BY <2>1, <3>1, <3>2, <3>3
  <2> QED
    BY <1>6, <2>2, <2>3
<1> QED
  BY <1>1, <1>7, <1>8 DEF Ordered, a

LEMMA RoutingInvInit == Init => RoutingInv
<1> SUFFICES ASSUME Init PROVE RoutingInv
  OBVIOUS
<1> USE DEF Init
<1>1. \A b \in Servers : /\ pendingRoutes[b] = <<>> /\ flight[b] = <<>>
                         /\ Len(pendingRoutes[b]) = 0 /\ Len(flight[b]) = 0
  OBVIOUS
<1>2. \A w \in Workers : worker[w] = Idle
  OBVIOUS
<1>3. RoutingTypeOK
  <2>1. pendingRoutes \in [Servers -> Seq(Routes)] /\ flight \in [Servers -> Seq(Requests)]
    OBVIOUS
  <2>2. \A b \in Servers : Len(pendingRoutes[b]) <= MaxRoutes
    BY <1>1, RoutesAssumption
  <2>3. Idle \in Locals
    BY DEF Idle, Locals
  <2>4. worker \in [Workers -> Locals]
    BY <2>3
  <2>5. seq \in Nat /\ now \in 0..MaxTime /\ sent \subseteq 1..seq /\ disturbed \subseteq Servers
        /\ requests \in 0..MaxRequests /\ faults \in 0..MaxFaults
    BY RoutingBoundsAssumption
  <2>6. last \in [to : Clients \cup {Nobody}, for : Clients \cup {Nobody}, calm : BOOLEAN]
    BY Zenon
  <2> QED
    BY <2>1, <2>2, <2>4, <2>5, <2>6, Zenon DEF RoutingTypeOK
<1>4. \A b \in Servers : Ordered(pendingRoutes[b], seq, now)
  BY <1>1 DEF Ordered
<1>5. WorkersOK
  BY <1>2 DEF WorkersOK, Idle, Holding
<1>6. \A b \in Servers : \A i \in 1..Len(pendingRoutes[b]) : Owned(b, pendingRoutes[b][i].id)
  BY <1>1
<1>7. \A b \in Servers : Matched(b)
  BY <1>1, <1>2 DEF Matched, Idle
<1>8. MatchedUnlessDisturbed
  BY DEF MatchedUnlessDisturbed
<1> HIDE DEF Init
<1> QED
  BY <1>3, <1>4, <1>5, <1>6, <1>7, <1>8 DEF RoutingInv

\* The types of the parts that the steps read, from the invariant.
LEMMA Parts ==
  ASSUME RoutingInv
  PROVE  /\ pendingRoutes \in [Servers -> Seq(Routes)]
         /\ \A b \in Servers : /\ pendingRoutes[b] \in Seq(Routes)
                               /\ Len(pendingRoutes[b]) \in Nat
                               /\ Len(pendingRoutes[b]) <= MaxRoutes
         /\ seq \in Nat
         /\ worker \in [Workers -> Locals]
         /\ \A w \in Workers : /\ worker[w] \in Locals
                               /\ worker[w].id \in Nat
                               /\ worker[w].at \in Nat
         /\ flight \in [Servers -> Seq(Requests)]
         /\ \A b \in Servers : flight[b] \in Seq(Requests) /\ Len(flight[b]) \in Nat
         /\ now \in Nat /\ now \in 0..MaxTime
         /\ sent \subseteq 1..seq
         /\ disturbed \subseteq Servers
<1>1. RoutingTypeOK
  BY DEF RoutingInv
<1>2. pendingRoutes \in [Servers -> Seq(Routes)] /\ flight \in [Servers -> Seq(Requests)]
      /\ worker \in [Workers -> Locals] /\ sent \subseteq 1..seq /\ disturbed \subseteq Servers
      /\ now \in 0..MaxTime /\ seq \in Nat
  BY <1>1, Zenon DEF RoutingTypeOK
<1>3. \A b \in Servers : Len(pendingRoutes[b]) <= MaxRoutes
  BY <1>1, Zenon DEF RoutingTypeOK
<1>4. now \in Nat
  BY <1>2, RoutingBoundsAssumption
<1>5. \A w \in Workers : worker[w] \in Locals
  BY <1>2
<1>6. \A w \in Workers : worker[w].id \in Nat /\ worker[w].at \in Nat
  BY <1>5 DEF Locals
<1>7. \A b \in Servers : pendingRoutes[b] \in Seq(Routes) /\ flight[b] \in Seq(Requests)
  BY <1>2
<1>8. \A b \in Servers : Len(pendingRoutes[b]) \in Nat /\ Len(flight[b]) \in Nat
  BY <1>7
<1> QED
  BY <1>2, <1>3, <1>4, <1>5, <1>6, <1>7, <1>8

\* The parts of the type invariant that few actions touch.
Counters ==
    /\ last \in [to : Clients \cup {Nobody}, for : Clients \cup {Nobody}, calm : BOOLEAN]
    /\ requests \in 0..MaxRequests
    /\ faults \in 0..MaxFaults

LEMMA TypesAgain ==
  ASSUME pendingRoutes' \in [Servers -> Seq(Routes)],
         \A b \in Servers : Len(pendingRoutes'[b]) <= MaxRoutes,
         seq' \in Nat, worker' \in [Workers -> Locals], flight' \in [Servers -> Seq(Requests)],
         now' \in 0..MaxTime, sent' \subseteq 1..seq', disturbed' \subseteq Servers, Counters'
  PROVE  RoutingTypeOK'
  BY Zenon DEF RoutingTypeOK, Counters

LEMMA CountersNow == RoutingInv => Counters
  BY Zenon DEF RoutingInv, RoutingTypeOK, Counters

-----------------------------------------------------------------------------
(* Steps that change a worker only                                         *)

LEMMA WorkerOnly ==
  ASSUME RoutingInv, NEW w \in Workers, NEW r \in Locals,
         worker' = [worker EXCEPT ![w] = r],
         UNCHANGED <<pendingRoutes, seq, flight, now, sent, last, disturbed, faults>>,
         requests' \in 0..MaxRequests,
         r.at <= now,
         r.pc # "idle" => r.server \in Servers /\ r.client \in Clients,
         r.pc \in {"enqueue", "cancel"} => now - r.at <= Stall,
         r.pc \in {"shape", "send", "cancel"} <=> Holding(w),
         Holding(w) => r.id = worker[w].id /\ r.server = worker[w].server /\ r.client = worker[w].client,
         r.pc \in {"shape", "send"} => worker[w].pc \in {"shape", "send"}
  PROVE  RoutingInv'
<1>1. worker'[w] = r /\ \A v \in Workers : v # w => worker'[v] = worker[v]
  BY Parts
<1>2. /\ \A v \in Workers : Holding(v)' <=> Holding(v)
      /\ \A v \in Workers : Holding(v) => /\ worker'[v].id = worker[v].id
                                          /\ worker'[v].server = worker[v].server
                                          /\ worker'[v].client = worker[v].client
  BY <1>1 DEF Holding
<1>3. RoutingTypeOK'
  <2>1. Counters'
    BY CountersNow, Zenon DEF Counters
  <2>2. worker' \in [Workers -> Locals]
    BY Parts
  <2> QED
    BY <2>1, <2>2, Parts, TypesAgain
<1>4. \A b \in Servers : Ordered(pendingRoutes[b], seq, now)'
  BY Zenon DEF RoutingInv, Ordered
<1>5. WorkersOK'
  <2>1. ASSUME NEW v \in Workers
        PROVE  /\ worker'[v].at <= now'
               /\ worker'[v].pc # "idle" => worker'[v].server \in Servers /\ worker'[v].client \in Clients
               /\ worker'[v].pc \in {"enqueue", "cancel"} => now' - worker'[v].at <= Stall
               /\ Holding(v)' => worker'[v].id \in 1..seq' /\ worker'[v].id \notin sent'
    <3>1. CASE v = w
      BY <3>1, <1>1, <1>2 DEF RoutingInv, WorkersOK
    <3>2. CASE v # w
      BY <3>2, <1>1, <1>2 DEF RoutingInv, WorkersOK
    <3> QED
      BY <3>1, <3>2
  <2>2. \A u, v \in Workers : Holding(u)' /\ Holding(v)' /\ worker'[u].id = worker'[v].id => u = v
    BY <1>2 DEF RoutingInv, WorkersOK
  <2> QED
    BY <2>1, <2>2 DEF WorkersOK
<1>6. ASSUME NEW b \in Servers, NEW i \in 1..Len(pendingRoutes'[b])
      PROVE  Owned(b, pendingRoutes[b][i].id)'
  <2>1. Owned(b, pendingRoutes[b][i].id)
    BY <1>6 DEF RoutingInv
  <2> QED
    BY <2>1, <1>2 DEF Owned
<1>7. ASSUME NEW b \in Servers PROVE Matched(b)'
  <2>1. Matched(b)
    BY DEF RoutingInv
  <2>2. ASSUME NEW v \in Workers, worker'[v].server = b, worker'[v].pc \in {"shape", "send"}
        PROVE  /\ worker[v].server = b /\ worker[v].pc \in {"shape", "send"}
               /\ worker'[v].id = worker[v].id /\ worker'[v].client = worker[v].client
    <3>1. Holding(v)
      BY <2>2, <1>2 DEF Holding
    <3>2. worker[v].pc \in {"shape", "send"}
      BY <2>2, <1>1
    <3> QED
      BY <2>2, <3>1, <3>2, <1>2
  <2> QED
    BY <2>1, <2>2 DEF Matched
<1>8. MatchedUnlessDisturbed'
  BY Zenon DEF RoutingInv, MatchedUnlessDisturbed
<1> QED
  BY <1>3, <1>4, <1>5, <1>6, <1>7, <1>8 DEF RoutingInv

LEMMA DispatchStep ==
  ASSUME RoutingInv, NEW w \in Workers, NEW c \in Clients, NEW b \in Servers, Dispatch(w, c, b)
  PROVE  RoutingInv'
<1> DEFINE r == [pc |-> "enqueue", client |-> c, server |-> b, id |-> 0, at |-> now]
<1>1. r \in Locals
  BY Parts DEF Locals
<1>2. worker' = [worker EXCEPT ![w] = r]
  BY DEF Dispatch
<1>3. /\ r.pc = "enqueue" /\ r.at = now /\ r.server \in Servers /\ r.client \in Clients
      /\ r.at <= now /\ now - r.at <= Stall
  BY Parts, TimesAssumption
<1>4. ~Holding(w)
  BY DEF Dispatch, Holding
<1>5. requests' \in 0..MaxRequests
  BY CountersNow, RoutingBoundsAssumption DEF Dispatch, Counters
<1> HIDE DEF r
<1> QED
  BY <1>1, <1>2, <1>3, <1>4, <1>5, WorkerOnly DEF Dispatch

LEMMA ShapeStep ==
  ASSUME RoutingInv, NEW w \in Workers,
         \/ Shape(w)
         \/ worker[w].pc = "send" /\ worker' = Stamped(w, "cancel")
            /\ UNCHANGED <<pendingRoutes, seq, flight, now, sent, last, disturbed, requests, faults>>
  PROVE  RoutingInv'
<1>1. \/ worker' = [worker EXCEPT ![w] = [@ EXCEPT !.pc = "send"]] /\ worker[w].pc = "shape"
      \/ worker' = [worker EXCEPT ![w] = [@ EXCEPT !.pc = "cancel", !.at = now]]
  BY Parts DEF Shape, Refused, Stamped
<1>2. Holding(w) /\ worker[w].pc \in {"shape", "send"}
  BY DEF Shape, Holding
<1>3. UNCHANGED <<pendingRoutes, seq, flight, now, sent, last, disturbed, requests, faults>>
  BY DEF Shape
<1>4. worker[w] \in Locals /\ worker[w].at <= now /\ worker[w].server \in Servers /\ worker[w].client \in Clients
  BY <1>2, Parts DEF RoutingInv, WorkersOK, Holding
<1>5. PICK r \in Locals : /\ worker' = [worker EXCEPT ![w] = r]
                          /\ r.id = worker[w].id /\ r.server = worker[w].server
                          /\ r.client = worker[w].client
                          /\ \/ r.pc = "send" /\ r.at = worker[w].at
                             \/ r.pc = "cancel" /\ r.at = now
  <2>1. CASE worker' = [worker EXCEPT ![w] = [@ EXCEPT !.pc = "send"]]
    <3> DEFINE r == [worker[w] EXCEPT !.pc = "send"]
    <3>1. r \in Locals /\ r.id = worker[w].id /\ r.server = worker[w].server /\ r.at = worker[w].at
          /\ r.client = worker[w].client /\ r.pc = "send"
      BY <1>4 DEF Locals
    <3>2. worker' = [worker EXCEPT ![w] = r]
      BY <2>1, Zenon
    <3> HIDE DEF r
    <3> QED
      BY <3>1, <3>2
  <2>2. CASE worker' = [worker EXCEPT ![w] = [@ EXCEPT !.pc = "cancel", !.at = now]]
    <3> DEFINE r == [worker[w] EXCEPT !.pc = "cancel", !.at = now]
    <3>0. now \in Nat
      BY Parts
    <3>1. r \in Locals /\ r.id = worker[w].id /\ r.server = worker[w].server /\ r.at = now
          /\ r.client = worker[w].client /\ r.pc = "cancel"
      BY <1>4, <3>0 DEF Locals
    <3>2. worker' = [worker EXCEPT ![w] = r]
      BY <2>2
    <3> HIDE DEF r
    <3> QED
      BY <3>1, <3>2
  <2> QED
    BY <1>1, <2>1, <2>2
<1>6. r.at <= now /\ (r.pc = "cancel" => now - r.at <= Stall)
  BY <1>4, <1>5, Parts, TimesAssumption
<1>7. requests' \in 0..MaxRequests
  BY <1>3, CountersNow, Zenon DEF Counters
<1>8. r.pc \in {"send", "cancel"}
  BY <1>5
<1> QED
  BY <1>2, <1>3, <1>4, <1>5, <1>6, <1>7, <1>8, WorkerOnly

-----------------------------------------------------------------------------
(* Steps that take routes out of a queue                                   *)

\* What is left of a queue keeps its facts, and Without leaves no route of that id.
LEMMA WithoutGone ==
  ASSUME NEW q \in Seq(Routes), NEW s \in Nat, NEW t \in Nat, Ordered(q, s, t), NEW id
  PROVE  LET r == Without(q, id)
         IN  /\ r \in Seq(Routes)
             /\ Len(r) <= Len(q)
             /\ Kept(r, q)
             /\ \A i \in 1..Len(r) : r[i].id # id
<1> DEFINE r == Without(q, id)
<1>0. Len(q) \in Nat
  OBVIOUS
<1>1. CASE (\A i \in 1..Len(q) : q[i].id # id) /\ r = q
  <2> HIDE DEF r
  <2>1. 0 \in 0..Len(q) /\ Len(r) = Len(q) - 0 /\ \A i \in 1..Len(r) : r[i] = q[i + 0]
    BY <1>0, <1>1
  <2>2. r \in Seq(Routes) /\ Kept(r, q)
    BY <1>1, <2>1, KeptShift
  <2> QED
    BY <1>0, <1>1, <2>2 DEF r
<1>2. CASE \E k \in 1..Len(q) :
               /\ q[k].id = id
               /\ r \in Seq(Routes)
               /\ Len(r) = Len(q) - 1
               /\ \A i \in 1..(k - 1) : r[i] = q[i]
               /\ \A i \in k..(Len(q) - 1) : r[i] = q[i + 1]
  <2> HIDE DEF r
  <2>1. PICK k \in 1..Len(q) :
               /\ q[k].id = id
               /\ r \in Seq(Routes)
               /\ Len(r) = Len(q) - 1
               /\ \A i \in 1..(k - 1) : r[i] = q[i]
               /\ \A i \in k..(Len(q) - 1) : r[i] = q[i + 1]
    BY <1>2
  <2>2. Kept(r, q)
    BY <2>1, KeptGap
  <2>3. ASSUME NEW i \in 1..Len(r) PROVE r[i].id # id
    <3>1. \A j, l \in 1..Len(q) : j < l => q[j].id < q[l].id
      BY DEF Ordered
    <3>2. \A j \in 1..Len(q) : q[j].id \in 1..s
      BY DEF Ordered
    <3>3. CASE i < k
      <4>1. i \in 1..(k - 1) /\ i \in 1..Len(q) /\ r[i] = q[i]
        BY <1>0, <2>1, <3>3
      <4>2. q[i].id < q[k].id /\ q[i].id \in 1..s /\ q[k].id \in 1..s
        BY <3>1, <3>2, <3>3, <4>1
      <4>3. q[i].id # q[k].id
        BY <4>2
      <4> QED
        BY <2>1, <4>1, <4>3
    <3>4. CASE ~(i < k)
      <4>1. i \in k..(Len(q) - 1) /\ i + 1 \in 1..Len(q) /\ k < i + 1
        BY <1>0, <2>1, <3>4
      <4>2. r[i] = q[i + 1]
        BY <2>1, <4>1
      <4>3. q[k].id < q[i + 1].id /\ q[i + 1].id \in 1..s /\ q[k].id \in 1..s
        BY <3>1, <3>2, <4>1
      <4>4. q[i + 1].id # q[k].id
        BY <4>3
      <4> QED
        BY <2>1, <4>2, <4>4
    <3> QED
      BY <3>3, <3>4
  <2> QED
    BY <1>0, <2>1, <2>2, <2>3 DEF r
<1> QED
  BY <1>1, <1>2, WithoutOne, Zenon

LEMMA PruneKeeps ==
  ASSUME NEW q \in Seq(Routes), NEW t \in Int
  PROVE  LET r == pruneExpiredRoutes(q, t)
         IN  r \in Seq(Routes) /\ Len(r) <= Len(q) /\ Kept(r, q)
<1> DEFINE r == pruneExpiredRoutes(q, t)
<1>1. PICK d \in 0..Len(q) :
         r \in Seq(Routes) /\ Len(r) = Len(q) - d /\ \A i \in 1..Len(r) : r[i] = q[i + d]
  BY PruneCuts, Zenon
<1>2. Len(q) \in Nat
  OBVIOUS
<1> HIDE DEF r
<1>3. Len(r) <= Len(q)
  BY <1>1, <1>2
<1>4. Kept(r, q)
  BY <1>1, KeptShift
<1> QED
  BY <1>1, <1>3, <1>4 DEF r

LEMMA KeptMember ==
  ASSUME NEW q, NEW r, Kept(r, q), NEW i \in 1..Len(r)
  PROVE  \E j \in 1..Len(q) : r[i] = q[j]
  BY DEF Kept

\* A backend that a step does not touch.
LEMMA OtherMatched ==
  ASSUME NEW c \in Servers, Matched(c),
         pendingRoutes'[c] = pendingRoutes[c], flight'[c] = flight[c],
         \A i \in 1..Len(pendingRoutes[c]) :
            pendingRoutes[c][i].id \in sent' <=> pendingRoutes[c][i].id \in sent,
         Len(flight[c]) \in Nat, Len(pendingRoutes[c]) \in Nat,
         c \notin disturbed' => c \notin disturbed,
         \A v \in Workers : worker'[v].server = c /\ worker'[v].pc \in {"shape", "send"} =>
                              worker'[v] = worker[v]
  PROVE  Matched(c)'
<1> SUFFICES ASSUME c \notin disturbed' PROVE Matched(c)'
  BY Zenon DEF Matched
<1> DEFINE q == pendingRoutes[c]
           f == flight[c]
<1>1. /\ Len(f) <= Len(q)
      /\ \A i \in 1..Len(f) : f[i].client = q[i].client /\ q[i].id \in sent
      /\ \A i \in (Len(f) + 1)..Len(q) : q[i].id \notin sent
      /\ \A w \in Workers : worker[w].server = c /\ worker[w].pc \in {"shape", "send"} =>
            \E i \in 1..Len(q) : q[i].id = worker[w].id /\ q[i].client = worker[w].client
  BY Zenon DEF Matched
<1>2. pendingRoutes'[c] = q /\ flight'[c] = f
  OBVIOUS
<1>3. \A i \in 1..Len(q) : q[i].id \in sent' <=> q[i].id \in sent
  OBVIOUS
<1>4. Len(f) \in Nat /\ Len(q) \in Nat
  OBVIOUS
<1> HIDE DEF q, f
<1>5. \A i \in 1..Len(f) : i \in 1..Len(q)
  BY <1>1, <1>4
<1>6. \A i \in (Len(f) + 1)..Len(q) : i \in 1..Len(q)
  BY <1>4
<1>7. \A i \in 1..Len(f) : f[i].client = q[i].client /\ q[i].id \in sent'
  BY <1>1, <1>3, <1>5
<1>8. \A i \in (Len(f) + 1)..Len(q) : q[i].id \notin sent'
  BY <1>1, <1>3, <1>6
<1>9. \A w \in Workers : worker'[w].server = c /\ worker'[w].pc \in {"shape", "send"} =>
            \E i \in 1..Len(q) : q[i].id = worker'[w].id /\ q[i].client = worker'[w].client
  BY <1>1
<1>10. Len(f) <= Len(q)
  BY <1>1
<1>11. /\ Len(flight'[c]) <= Len(pendingRoutes'[c])
       /\ \A i \in 1..Len(flight'[c]) : /\ flight'[c][i].client = pendingRoutes'[c][i].client
                                         /\ pendingRoutes'[c][i].id \in sent'
  BY <1>2, <1>7, <1>10
<1>12. \A i \in (Len(flight'[c]) + 1)..Len(pendingRoutes'[c]) : pendingRoutes'[c][i].id \notin sent'
  BY <1>2, <1>8
<1>13. \A w \in Workers : worker'[w].server = c /\ worker'[w].pc \in {"shape", "send"} =>
            \E i \in 1..Len(pendingRoutes'[c]) : /\ pendingRoutes'[c][i].id = worker'[w].id
                                                /\ pendingRoutes'[c][i].client = worker'[w].client
  BY <1>2, <1>9
<1> QED
  BY <1>11, <1>12, <1>13, Zenon DEF Matched

\* A route of the shortened queue keeps its owner, so all that is left is Matched(b).
LEMMA Shrink ==
  ASSUME RoutingInv, NEW b \in Servers, NEW r \in Seq(Routes),
         Kept(r, pendingRoutes[b]), Len(r) <= Len(pendingRoutes[b]),
         pendingRoutes' = [pendingRoutes EXCEPT ![b] = r],
         worker' \in [Workers -> Locals],
         \A v \in Workers :
            \/ worker'[v] = worker[v]
            \/ /\ worker'[v] = Idle
               /\ Holding(v) => /\ worker[v].server = b
                                /\ \A i \in 1..Len(r) : r[i].id # worker[v].id,
         flight' \in [Servers -> Seq(Requests)],
         \A c \in Servers : c # b => flight'[c] = flight[c],
         UNCHANGED <<seq, now, sent>>,
         disturbed \subseteq disturbed', disturbed' \subseteq Servers,
         Counters', Matched(b)', MatchedUnlessDisturbed'
  PROVE  RoutingInv'
<1> USE Parts
<1>1. /\ pendingRoutes'[b] = r
      /\ \A c \in Servers : c # b => pendingRoutes'[c] = pendingRoutes[c]
      /\ pendingRoutes' \in [Servers -> Seq(Routes)]
  OBVIOUS
<1>2. RoutingTypeOK'
  <2>1. Len(r) \in Nat /\ Len(r) <= MaxRoutes
    BY RoutesAssumption
  <2>2. \A c \in Servers : Len(pendingRoutes'[c]) <= MaxRoutes
    BY <1>1, <2>1
  <2> QED
    BY <1>1, <2>2, TypesAgain
<1>3. ASSUME NEW c \in Servers PROVE Ordered(pendingRoutes[c], seq, now)'
  <2>1. Ordered(pendingRoutes[c], seq, now)
    BY DEF RoutingInv
  <2>2. CASE c = b
    BY <1>1, <2>1, <2>2, KeptOrdered
  <2>3. CASE c # b
    BY <1>1, <2>1, <2>3
  <2> QED
    BY <2>2, <2>3
<1>4. \A v \in Workers : worker'[v] = Idle => ~Holding(v)' /\ worker'[v].pc = "idle" /\ worker'[v].at = 0
  BY DEF Holding, Idle
<1>5. \A v \in Workers : Holding(v)' => worker'[v] = worker[v] /\ Holding(v)
  BY <1>4 DEF Holding
<1>6. WorkersOK'
  <2>0. WorkersOK
    BY DEF RoutingInv
  <2>1. ASSUME NEW v \in Workers
        PROVE  /\ worker'[v].at <= now'
               /\ worker'[v].pc # "idle" => worker'[v].server \in Servers /\ worker'[v].client \in Clients
               /\ worker'[v].pc \in {"enqueue", "cancel"} => now' - worker'[v].at <= Stall
               /\ Holding(v)' => worker'[v].id \in 1..seq' /\ worker'[v].id \notin sent'
    <3>1. CASE worker'[v] = worker[v]
      BY <2>0, <3>1, <1>5 DEF WorkersOK
    <3>2. CASE worker'[v] = Idle
      <4>1. worker'[v].pc = "idle" /\ ~Holding(v)'
        BY <1>4, <3>2
      <4>2. worker'[v].at <= now'
        BY <1>4, <3>2
      <4> QED
        BY <4>1, <4>2
    <3> QED
      BY <3>1, <3>2
  <2>2. \A u, v \in Workers : Holding(u)' /\ Holding(v)' /\ worker'[u].id = worker'[v].id => u = v
    BY <1>5, <2>0 DEF WorkersOK
  <2> QED
    BY <2>1, <2>2 DEF WorkersOK
<1>7. ASSUME NEW c \in Servers, NEW i \in 1..Len(pendingRoutes'[c])
      PROVE  Owned(c, pendingRoutes[c][i].id)'
  <2> DEFINE id == pendingRoutes'[c][i].id
  <2>1. Owned(c, id)
    <3>1. \A j \in 1..Len(pendingRoutes[c]) : Owned(c, pendingRoutes[c][j].id)
      BY DEF RoutingInv
    <3>2. \E j \in 1..Len(pendingRoutes[c]) : pendingRoutes'[c][i] = pendingRoutes[c][j]
      <4>1. CASE c = b
        BY <1>1, <4>1, KeptMember
      <4>2. CASE c # b
        BY <1>1, <4>2
      <4> QED
        BY <4>1, <4>2
    <3> QED
      BY <3>1, <3>2
  <2>2. CASE id \in sent
    BY <2>2 DEF Owned
  <2>3. ASSUME NEW v \in Workers, worker[v].server = c, worker[v].id = id, Holding(v)
        PROVE  worker'[v] = worker[v] /\ Holding(v)'
    <3>1. ~(worker[v].server = b /\ \A j \in 1..Len(r) : r[j].id # worker[v].id)
      BY <1>1, <2>3
    <3>2. worker'[v] = worker[v]
      BY <2>3, <3>1
    <3> QED
      BY <2>3, <3>2 DEF Holding
  <2> QED
    BY <2>1, <2>2, <2>3 DEF Owned
<1>8. ASSUME NEW c \in Servers PROVE Matched(c)'
  <2>1. CASE c = b
    BY <2>1
  <2>2. CASE c # b
    <3>1. Matched(c)
      BY DEF RoutingInv
    <3>2. pendingRoutes'[c] = pendingRoutes[c] /\ flight'[c] = flight[c] /\ sent' = sent
      BY <1>1, <2>2
    <3>3. c \notin disturbed' => c \notin disturbed
      OBVIOUS
    <3>4. \A v \in Workers : worker'[v].pc \in {"shape", "send"} => worker'[v] = worker[v]
      BY <1>4
    <3> QED
      BY <3>1, <3>2, <3>3, <3>4, OtherMatched
  <2> QED
    BY <2>1, <2>2
<1> QED
  BY <1>2, <1>3, <1>6, <1>7, <1>8 DEF RoutingInv

\* Matched(b) of the next state, for a queue and a flight given by name.
LEMMA MatchedBy ==
  ASSUME NEW b \in Servers, NEW q, NEW f, pendingRoutes'[b] = q, flight'[b] = f,
         b \notin disturbed' => Len(f) <= Len(q),
         b \notin disturbed' =>
            \A i \in 1..Len(f) : f[i].client = q[i].client /\ q[i].id \in sent',
         b \notin disturbed' => \A i \in (Len(f) + 1)..Len(q) : q[i].id \notin sent',
         b \notin disturbed' =>
            \A w \in Workers : worker'[w].server = b /\ worker'[w].pc \in {"shape", "send"} =>
               \E i \in 1..Len(q) : q[i].id = worker'[w].id /\ q[i].client = worker'[w].client
  PROVE  Matched(b)'
<1> SUFFICES ASSUME b \notin disturbed' PROVE Matched(b)'
  BY Zenon DEF Matched
<1>1. /\ Len(flight'[b]) <= Len(pendingRoutes'[b])
      /\ \A i \in 1..Len(flight'[b]) : /\ flight'[b][i].client = pendingRoutes'[b][i].client
                                       /\ pendingRoutes'[b][i].id \in sent'
  OBVIOUS
<1>2. \A i \in (Len(flight'[b]) + 1)..Len(pendingRoutes'[b]) : pendingRoutes'[b][i].id \notin sent'
  OBVIOUS
<1>3. \A w \in Workers : worker'[w].server = b /\ worker'[w].pc \in {"shape", "send"} =>
            \E i \in 1..Len(pendingRoutes'[b]) : /\ pendingRoutes'[b][i].id = worker'[w].id
                                                 /\ pendingRoutes'[b][i].client = worker'[w].client
  OBVIOUS
<1> QED
  BY <1>1, <1>2, <1>3, Zenon DEF Matched

\* What Matched says of a backend that is not disturbed.
LEMMA Undisturbed ==
  ASSUME RoutingInv, NEW b \in Servers, b \notin disturbed
  PROVE  /\ Len(flight[b]) <= Len(pendingRoutes[b])
         /\ \A i \in 1..Len(flight[b]) : /\ flight[b][i].client = pendingRoutes[b][i].client
                                         /\ pendingRoutes[b][i].id \in sent
         /\ \A i \in (Len(flight[b]) + 1)..Len(pendingRoutes[b]) : pendingRoutes[b][i].id \notin sent
         /\ \A w \in Workers :
               worker[w].server = b /\ worker[w].pc \in {"shape", "send"} =>
                  \E i \in 1..Len(pendingRoutes[b]) :
                      /\ pendingRoutes[b][i].id = worker[w].id
                      /\ pendingRoutes[b][i].client = worker[w].client
<1>1. Matched(b)
  BY Zenon DEF RoutingInv
<1> QED
  BY <1>1, Zenon DEF Matched

\* A backend that is not disturbed by pruning loses no route by it.
LEMMA CalmKeeps ==
  ASSUME NEW b \in Servers, NEW t, disturbed' = disturbed \cup Expires(b, t), b \notin disturbed'
  PROVE  b \notin disturbed /\ pruneExpiredRoutes(pendingRoutes[b], t) = pendingRoutes[b]
  BY DEF Expires

LEMMA ExpiresGrows ==
  ASSUME RoutingInv, NEW b \in Servers, NEW t, disturbed' = disturbed \cup Expires(b, t)
  PROVE  disturbed \subseteq disturbed' /\ disturbed' \subseteq Servers
  BY Parts DEF Expires

LEMMA CancelStep ==
  ASSUME RoutingInv, NEW w \in Workers, CancelPendingRoute(w)
  PROVE  RoutingInv'
<1>1. worker[w].pc = "cancel" /\ Holding(w)
  BY DEF CancelPendingRoute, Holding
<1>b. PICK b : b = worker[w].server
  OBVIOUS
<1> DEFINE t == worker[w].at
           id == worker[w].id
           p == pruneExpiredRoutes(pendingRoutes[b], t)
           r == Without(p, id)
<1>2. b \in Servers /\ t \in Nat /\ id \in 1..seq /\ id \notin sent
  BY <1>1, <1>b, Parts DEF RoutingInv, WorkersOK
<1>3. /\ pendingRoutes' = [pendingRoutes EXCEPT ![b] = r]
      /\ worker' = [worker EXCEPT ![w] = Idle]
      /\ disturbed' = disturbed \cup Expires(b, t)
      /\ UNCHANGED <<seq, flight, now, sent, last, requests, faults>>
  BY <1>b DEF CancelPendingRoute
<1> HIDE DEF CancelPendingRoute
<1>4. p \in Seq(Routes) /\ Len(p) <= Len(pendingRoutes[b]) /\ Kept(p, pendingRoutes[b])
  BY <1>2, Parts, PruneKeeps
<1>5. Ordered(pendingRoutes[b], seq, now)
  BY <1>2 DEF RoutingInv
<1>6. Ordered(p, seq, now)
  <2>1. pendingRoutes[b] \in Seq(Routes) /\ seq \in Nat /\ now \in Nat
    BY <1>2, Parts
  <2> HIDE DEF p
  <2> QED
    BY <1>4, <1>5, <2>1, KeptOrdered
<1>7. r \in Seq(Routes) /\ Len(r) <= Len(p) /\ Kept(r, p) /\ \A i \in 1..Len(r) : r[i].id # id
  <2> HIDE DEF p, id
  <2> QED
    BY <1>4, <1>6, Parts, WithoutGone
<1>8. Kept(r, pendingRoutes[b])
  <2> HIDE DEF r, p
  <2>1. PICK f \in [1..Len(r) -> 1..Len(p)] :
            /\ \A i \in 1..Len(r) : r[i] = p[f[i]]
            /\ \A i, j \in 1..Len(r) : i < j => f[i] < f[j]
    BY <1>7 DEF Kept
  <2>2. PICK g \in [1..Len(p) -> 1..Len(pendingRoutes[b])] :
            /\ \A i \in 1..Len(p) : p[i] = pendingRoutes[b][g[i]]
            /\ \A i, j \in 1..Len(p) : i < j => g[i] < g[j]
    BY <1>4 DEF Kept
  <2> DEFINE h == [i \in 1..Len(r) |-> g[f[i]]]
  <2>3. h \in [1..Len(r) -> 1..Len(pendingRoutes[b])]
    BY <2>1, <2>2
  <2>4. \A i \in 1..Len(r) : r[i] = pendingRoutes[b][h[i]]
    BY <2>1, <2>2
  <2>5. \A i, j \in 1..Len(r) : i < j => h[i] < h[j]
    BY <2>1, <2>2
  <2> HIDE DEF h
  <2> QED
    BY <2>3, <2>4, <2>5 DEF Kept
<1>9. disturbed \subseteq disturbed' /\ disturbed' \subseteq Servers
  BY <1>2, <1>3, ExpiresGrows
<1>10. worker'[w] = Idle /\ \A v \in Workers : v # w => worker'[v] = worker[v]
  BY <1>3, Parts
<1>11. Matched(b)'
  <2> DEFINE q == pendingRoutes[b]
             f == flight[b]
  <2>1. pendingRoutes'[b] = r /\ flight'[b] = f /\ sent' = sent
    BY <1>2, <1>3, Parts
  <2>2. ASSUME b \notin disturbed'
        PROVE  /\ Len(f) <= Len(r)
               /\ \A i \in 1..Len(f) : f[i].client = r[i].client /\ r[i].id \in sent
               /\ \A i \in (Len(f) + 1)..Len(r) : r[i].id \notin sent
               /\ \A v \in Workers : worker'[v].server = b /\ worker'[v].pc \in {"shape", "send"} =>
                     \E i \in 1..Len(r) : r[i].id = worker'[v].id /\ r[i].client = worker'[v].client
    <3>1. b \notin disturbed /\ p = q
      BY <1>2, <1>3, <2>2, CalmKeeps
    <3>2. /\ Len(f) <= Len(q)
          /\ \A i \in 1..Len(f) : f[i].client = q[i].client /\ q[i].id \in sent
          /\ \A i \in (Len(f) + 1)..Len(q) : q[i].id \notin sent
          /\ \A v \in Workers : worker[v].server = b /\ worker[v].pc \in {"shape", "send"} =>
                \E i \in 1..Len(q) : q[i].id = worker[v].id /\ q[i].client = worker[v].client
      BY <1>2, <3>1, Undisturbed
    <3>3. ASSUME NEW v \in Workers, worker'[v].server = b, worker'[v].pc \in {"shape", "send"}
          PROVE  /\ worker'[v] = worker[v] /\ worker[v].id # id
                 /\ \E i \in 1..Len(q) : q[i].id = worker[v].id /\ q[i].client = worker[v].client
      <4>1. v # w
        BY <1>10, <3>3 DEF Idle
      <4>2. worker'[v] = worker[v]
        BY <1>10, <4>1
      <4>3. Holding(v)
        BY <3>3, <4>2 DEF Holding
      <4>4. worker[v].id # id
        BY <1>1, <4>1, <4>3 DEF RoutingInv, WorkersOK
      <4> QED
        BY <3>2, <3>3, <4>2, <4>4
    <3>4. q \in Seq(Routes) /\ Len(q) \in Nat /\ Len(f) \in Nat /\ Len(r) \in Nat
      BY <1>2, <1>7, Parts
    <3>5. r = Without(q, id)
      BY <3>1
    <3> HIDE DEF r, q, f, id
    <3>6. CASE r = q
      BY <3>2, <3>3, <3>6
    <3>7. CASE \E k \in 1..Len(q) :
                  /\ q[k].id = id
                  /\ Len(r) = Len(q) - 1
                  /\ \A i \in 1..(k - 1) : r[i] = q[i]
                  /\ \A i \in k..(Len(q) - 1) : r[i] = q[i + 1]
      <4>1. PICK k \in 1..Len(q) :
                  /\ q[k].id = id
                  /\ Len(r) = Len(q) - 1
                  /\ \A i \in 1..(k - 1) : r[i] = q[i]
                  /\ \A i \in k..(Len(q) - 1) : r[i] = q[i + 1]
        BY <3>7
      <4>2. k \notin 1..Len(f)
        BY <1>2, <3>2, <4>1
      <4>3. k > Len(f) /\ k \in Nat
        BY <3>4, <4>1, <4>2
      <4>4. Len(f) <= Len(r)
        BY <3>4, <4>1, <4>3
      <4>5. ASSUME NEW i \in 1..Len(f)
            PROVE  f[i].client = r[i].client /\ r[i].id \in sent
        <5>1. i \in 1..(k - 1)
          BY <3>4, <4>3
        <5> QED
          BY <3>2, <4>1, <5>1
      <4>6. ASSUME NEW i \in (Len(f) + 1)..Len(r) PROVE r[i].id \notin sent
        <5>1. CASE i < k
          <6>1. i \in 1..(k - 1) /\ i \in (Len(f) + 1)..Len(q)
            BY <3>4, <4>1, <4>3, <5>1
          <6> QED
            BY <3>2, <4>1, <6>1
        <5>2. CASE ~(i < k)
          <6>1. i \in k..(Len(q) - 1) /\ i + 1 \in (Len(f) + 1)..Len(q)
            BY <3>4, <4>1, <4>3, <5>2
          <6> QED
            BY <3>2, <4>1, <6>1
        <5> QED
          BY <5>1, <5>2
      <4>7. ASSUME NEW v \in Workers, worker'[v].server = b, worker'[v].pc \in {"shape", "send"}
            PROVE  \E i \in 1..Len(r) : r[i].id = worker'[v].id /\ r[i].client = worker'[v].client
        <5>1. PICK j \in 1..Len(q) : q[j].id = worker[v].id /\ q[j].client = worker[v].client
          BY <3>3, <4>7
        <5>2. worker'[v] = worker[v] /\ worker[v].id # id
          BY <3>3, <4>7
        <5>3. j # k
          BY <4>1, <5>1, <5>2
        <5>4. CASE j < k
          <6>1. j \in 1..(k - 1) /\ j \in 1..Len(r)
            BY <3>4, <4>1, <4>3, <5>4
          <6>2. r[j] = q[j]
            BY <4>1, <6>1
          <6> QED
            BY <5>1, <5>2, <6>1, <6>2
        <5>5. CASE j > k
          <6>1. j - 1 \in k..(Len(q) - 1) /\ j - 1 \in 1..Len(r) /\ (j - 1) + 1 = j
            BY <3>4, <4>1, <4>3, <5>5
          <6>2. r[j - 1] = q[j]
            BY <4>1, <6>1
          <6> QED
            BY <5>1, <5>2, <6>1, <6>2
        <5>6. j < k \/ j > k
          BY <3>4, <5>3
        <5> QED
          BY <5>4, <5>5, <5>6
      <4> QED
        BY <4>4, <4>5, <4>6, <4>7
    <3> QED
      BY <3>4, <3>5, <3>6, <3>7, WithoutOne
  <2> HIDE DEF f, r
  <2> QED
    BY <1>2, <2>1, <2>2, MatchedBy
<1>12. \A v \in Workers : \/ worker'[v] = worker[v]
                          \/ /\ worker'[v] = Idle
                             /\ Holding(v) => /\ worker[v].server = b
                                              /\ \A i \in 1..Len(r) : r[i].id # worker[v].id
  BY <1>7, <1>10, <1>b
<1>13. worker' \in [Workers -> Locals]
  <2>1. Idle \in Locals
    BY DEF Idle, Locals
  <2> QED
    BY <1>3, <2>1, Parts
<1>14. Counters' /\ MatchedUnlessDisturbed'
  BY <1>3, CountersNow, Zenon DEF Counters, RoutingInv, MatchedUnlessDisturbed
<1>15. Len(r) <= Len(pendingRoutes[b])
  <2>1. Len(r) \in Nat /\ Len(p) \in Nat /\ Len(pendingRoutes[b]) \in Nat
    BY <1>2, <1>4, <1>7, Parts
  <2> QED
    BY <1>4, <1>7, <2>1
<1>16. flight' \in [Servers -> Seq(Requests)] /\ \A c \in Servers : c # b => flight'[c] = flight[c]
  BY <1>3, Parts
<1> HIDE DEF r, p
<1> QED
  BY <1>2, <1>3, <1>7, <1>8, <1>9, <1>11, <1>12, <1>13, <1>14, <1>15, <1>16, Shrink

\* The queue is full: the packet is dropped, and the expired routes with it.
LEMMA EnqueueFullStep ==
  ASSUME RoutingInv, NEW w \in Workers, NEW b \in Servers, NEW t \in Nat,
         worker[w].pc = "enqueue",
         pendingRoutes' = [pendingRoutes EXCEPT ![b] = pruneExpiredRoutes(pendingRoutes[b], t)],
         worker' = [worker EXCEPT ![w] = Idle],
         disturbed' = disturbed \cup Expires(b, t),
         UNCHANGED <<seq, flight, now, sent, last, requests, faults>>
  PROVE  RoutingInv'
<1> DEFINE r == pruneExpiredRoutes(pendingRoutes[b], t)
<1>1. ~Holding(w)
  BY DEF Holding
<1>2. r \in Seq(Routes) /\ Len(r) <= Len(pendingRoutes[b]) /\ Kept(r, pendingRoutes[b])
  BY Parts, PruneKeeps
<1>3. disturbed \subseteq disturbed' /\ disturbed' \subseteq Servers
  BY ExpiresGrows
<1>4. worker'[w] = Idle /\ \A v \in Workers : v # w => worker'[v] = worker[v]
  BY Parts
<1>5. \A v \in Workers : \/ worker'[v] = worker[v]
                         \/ /\ worker'[v] = Idle
                            /\ Holding(v) => /\ worker[v].server = b
                                             /\ \A i \in 1..Len(r) : r[i].id # worker[v].id
  BY <1>1, <1>4
<1>6. worker' \in [Workers -> Locals]
  <2>1. Idle \in Locals
    BY DEF Idle, Locals
  <2> QED
    BY <2>1, Parts
<1>7. Counters' /\ MatchedUnlessDisturbed'
  BY CountersNow, Zenon DEF Counters, RoutingInv, MatchedUnlessDisturbed
<1>8. Matched(b)'
  <2>1. CASE b \in disturbed'
    BY <2>1, Zenon DEF Matched
  <2>2. CASE b \notin disturbed'
    <3>1. b \notin disturbed /\ r = pendingRoutes[b]
      BY <2>2, CalmKeeps
    <3>2. pendingRoutes'[b] = pendingRoutes[b]
      BY <3>1, Parts
    <3>3. \A v \in Workers : worker'[v].server = b /\ worker'[v].pc \in {"shape", "send"} =>
                                worker'[v] = worker[v]
      BY <1>4 DEF Idle
    <3>4. Matched(b)
      BY Zenon DEF RoutingInv
    <3> QED
      BY <3>1, <3>2, <3>3, <3>4, Parts, OtherMatched
  <2> QED
    BY <2>1, <2>2
<1>9. flight' \in [Servers -> Seq(Requests)] /\ \A c \in Servers : c # b => flight'[c] = flight[c]
  BY Parts
<1>10. pendingRoutes' = [pendingRoutes EXCEPT ![b] = r]
  OBVIOUS
<1> HIDE DEF r
<1> QED
  BY <1>2, <1>3, <1>5, <1>6, <1>7, <1>8, <1>9, <1>10, Shrink

LEMMA LastOrBefore == \A m \in Nat : \A i \in 1..(m + 1) : i \in 1..m \/ i = m + 1
  OBVIOUS

LEMMA RelabelledRecord ==
  ASSUME NEW l \in Locals, NEW i \in Nat
  PROVE  LET k == [l EXCEPT !.pc = "shape", !.id = i]
         IN  /\ k \in Locals /\ k.pc = "shape" /\ k.id = i
             /\ k.server = l.server /\ k.client = l.client /\ k.at = l.at
  BY DEF Locals

LEMMA Relabelled ==
  ASSUME worker \in [Workers -> Locals], NEW w \in Workers, seq \in Nat,
         worker' = [worker EXCEPT ![w].pc = "shape", ![w].id = seq + 1]
  PROVE  /\ worker'[w] \in Locals /\ worker'[w].pc = "shape" /\ worker'[w].id = seq + 1
         /\ worker'[w].server = worker[w].server /\ worker'[w].client = worker[w].client
         /\ worker'[w].at = worker[w].at
         /\ \A v \in Workers : v # w => worker'[v] = worker[v]
<1> DEFINE k == [worker[w] EXCEPT !.pc = "shape", !.id = seq + 1]
<1>1. worker'[w] = k
  OBVIOUS
<1>2. worker[w] \in Locals /\ seq + 1 \in Nat
  OBVIOUS
<1>3. /\ k \in Locals /\ k.pc = "shape" /\ k.id = seq + 1
      /\ k.server = worker[w].server /\ k.client = worker[w].client /\ k.at = worker[w].at
  BY <1>2, RelabelledRecord, Zenon
<1>4. \A v \in Workers : v # w => worker'[v] = worker[v]
  OBVIOUS
<1> HIDE DEF k
<1> QED
  BY <1>1, <1>3, <1>4, Zenon

\* A route joins the queue.
Joining(w, b, c, t) ==
    /\ worker[w].pc = "enqueue" /\ worker[w].server = b /\ worker[w].client = c /\ worker[w].at = t
    /\ Room(pruneExpiredRoutes(pendingRoutes[b], t))
    /\ seq' = seq + 1
    /\ pendingRoutes' = [pendingRoutes EXCEPT ![b] =
          Append(pruneExpiredRoutes(pendingRoutes[b], t), [id |-> seq + 1, client |-> c, at |-> t])]
    /\ worker' = [worker EXCEPT ![w].pc = "shape", ![w].id = seq + 1]
    /\ disturbed' = disturbed \cup Expires(b, t)
    /\ UNCHANGED <<flight, now, sent, last, requests, faults>>

LEMMA EnqueueRoomStep ==
  ASSUME RoutingInv, NEW w \in Workers, NEW b \in Servers, NEW c \in Clients, NEW t \in Nat,
         Joining(w, b, c, t)
  PROVE  RoutingInv'
<1>0. /\ seq' = seq + 1
      /\ disturbed' = disturbed \cup Expires(b, t)
      /\ UNCHANGED <<flight, now, sent, last, requests, faults>>
  BY Zenon DEF Joining
<1> USE Parts
<1> DEFINE p == pruneExpiredRoutes(pendingRoutes[b], t)
           route == [id |-> seq + 1, client |-> c, at |-> t]
           r == Append(p, route)
           n == Len(p)
<1>1. ~Holding(w)
  BY DEF Holding, Joining
<1>2. p \in Seq(Routes) /\ Len(p) <= Len(pendingRoutes[b]) /\ Kept(p, pendingRoutes[b])
  BY PruneKeeps
<1>3. n \in Nat /\ n + 1 <= MaxRoutes
  <2>1. n \in Nat
    BY <1>2
  <2>2. n < MaxRoutes
    BY Zenon DEF Room, Joining
  <2> QED
    BY <2>1, <2>2, RoutesAssumption
<1>4. route \in Routes /\ route.id = seq + 1 /\ route.client = c /\ route.at = t
  BY DEF Routes
<1>5. t <= now /\ now - t <= Stall
  <2>1. worker[w].pc = "enqueue" /\ worker[w].at = t
    BY Zenon DEF Joining
  <2> QED
    BY <2>1 DEF RoutingInv, WorkersOK
<1>10. worker \in [Workers -> Locals] /\ seq \in Nat
  OBVIOUS
<1>6. \A v \in Workers : v # w => worker'[v] = worker[v]
  BY <1>10, Relabelled, Zenon DEF Joining
<1>7. /\ worker'[w] \in Locals /\ worker'[w].pc = "shape" /\ worker'[w].id = seq + 1
      /\ worker'[w].server = b /\ worker'[w].client = c /\ worker'[w].at = t
  BY <1>10, Relabelled, Zenon DEF Joining
<1>8. /\ pendingRoutes'[b] = r
      /\ \A d \in Servers : d # b => pendingRoutes'[d] = pendingRoutes[d]
      /\ pendingRoutes' = [pendingRoutes EXCEPT ![b] = r]
  <2>1. pendingRoutes' = [pendingRoutes EXCEPT ![b] = r]
    BY Zenon DEF Joining
  <2> HIDE DEF r
  <2> QED
    BY <2>1
<1> HIDE DEF p, route
<1>9. r \in Seq(Routes) /\ Len(r) = n + 1 /\ r[n + 1] = route /\ \A i \in 1..n : r[i] = p[i]
  BY <1>2, <1>4
<1> HIDE DEF r, n
<1>11. disturbed \subseteq disturbed' /\ disturbed' \subseteq Servers
  BY <1>0, ExpiresGrows
<1>12. \A i \in 1..(n + 1) : i \in 1..n \/ i = n + 1
  BY <1>3, LastOrBefore, Zenon
<1>13. \A id \in sent : id \in 1..seq
  OBVIOUS
<1>14. seq + 1 \notin sent
  BY <1>13
<1> HIDE Parts
<1>15. \A v \in Workers : Holding(v)' => v = w \/ (v # w /\ Holding(v) /\ worker'[v] = worker[v])
  BY <1>6 DEF Holding
<1>16. \A v \in Workers : Holding(v) => v # w /\ worker'[v] = worker[v] /\ Holding(v)'
  BY <1>1, <1>6 DEF Holding
<1>17. WorkersOK
  BY DEF RoutingInv
<1>20. RoutingTypeOK'
  <2>1. Counters'
    BY <1>0, CountersNow, Zenon DEF Counters
  <2>2. worker' \in [Workers -> Locals]
    <3>1. \A v \in Workers : worker'[v] \in Locals
      BY <1>6, <1>7, Parts
    <3>2. DOMAIN worker' = Workers /\ worker' = [v \in Workers |-> worker'[v]]
      BY Parts DEF Joining
    <3> QED
      BY <3>1, <3>2
  <2>3. \A d \in Servers : Len(pendingRoutes'[d]) <= MaxRoutes
    BY <1>3, <1>8, <1>9, Parts
  <2>4. pendingRoutes' \in [Servers -> Seq(Routes)]
    BY <1>8, <1>9, Parts
  <2>5. seq' \in Nat /\ sent' \subseteq 1..seq'
    BY <1>0, <1>13, Parts
  <2> QED
    BY <1>0, Parts, <1>11, <2>1, <2>2, <2>3, <2>4, <2>5, TypesAgain
<1>21. ASSUME NEW d \in Servers PROVE Ordered(pendingRoutes[d], seq, now)'
  <2>1. Ordered(pendingRoutes[d], seq, now)
    BY DEF RoutingInv
  <2>2. CASE d = b
    <3>1. Ordered(p, seq, now)
      BY <1>2, <2>1, <2>2, KeptOrdered, Parts
    <3>2. Ordered(r, seq + 1, now)
      BY <1>2, <1>4, <1>5, <3>1, AppendOrdered, Parts DEF r
    <3> QED
      BY <1>0, <1>8, <2>2, <3>2
  <2>3. CASE d # b
    <3>1. Ordered(pendingRoutes[d], seq + 1, now)
      BY <2>1, Parts, OrderedLater
    <3> QED
      BY <1>0, <1>8, <2>3, <3>1
  <2> QED
    BY <2>2, <2>3
<1>22. WorkersOK'
  <2>1. ASSUME NEW v \in Workers
        PROVE  /\ worker'[v].at <= now'
               /\ worker'[v].pc # "idle" => worker'[v].server \in Servers /\ worker'[v].client \in Clients
               /\ worker'[v].pc \in {"enqueue", "cancel"} => now' - worker'[v].at <= Stall
               /\ Holding(v)' => worker'[v].id \in 1..seq' /\ worker'[v].id \notin sent'
    <3>1. CASE v = w
      <4>1. worker'[v].at <= now' /\ worker'[v].id \in 1..seq'
        BY <1>0, <1>5, <1>7, <3>1, Parts
      <4>2. worker'[v].id \notin sent'
        BY <1>0, <1>7, <1>14, <3>1
      <4> QED
        BY <1>7, <3>1, <4>1, <4>2
    <3>2. CASE v # w
      <4>1. worker'[v] = worker[v] /\ (Holding(v)' => Holding(v))
        BY <1>6, <1>15, <3>2
      <4>2. Holding(v)' => worker'[v].id \in 1..seq' /\ worker'[v].id \notin sent'
        BY <1>0, <1>17, <4>1, Parts DEF WorkersOK
      <4> QED
        BY <1>0, <1>17, <4>1, <4>2 DEF WorkersOK
    <3> QED
      BY <3>1, <3>2
  <2>2. ASSUME NEW u \in Workers, NEW v \in Workers, Holding(u)', Holding(v)', worker'[u].id = worker'[v].id
        PROVE  u = v
    <3>1. \A x \in Workers : Holding(x) => worker[x].id # seq + 1
      BY <1>17, Parts DEF WorkersOK
    <3>2. CASE u = w \/ v = w
      BY <1>7, <1>15, <2>2, <3>1, <3>2
    <3>3. CASE u # w /\ v # w
      BY <1>15, <1>17, <2>2, <3>3 DEF WorkersOK
    <3> QED
      BY <3>2, <3>3
  <2> QED
    BY <2>1, <2>2 DEF WorkersOK
<1>23. ASSUME NEW d \in Servers, NEW i \in 1..Len(pendingRoutes'[d])
       PROVE  Owned(d, pendingRoutes[d][i].id)'
  <2>1. \A j \in 1..Len(pendingRoutes[d]) : Owned(d, pendingRoutes[d][j].id)
    BY DEF RoutingInv
  <2>2. CASE \E j \in 1..Len(pendingRoutes[d]) : pendingRoutes'[d][i] = pendingRoutes[d][j]
    <3>1. Owned(d, pendingRoutes'[d][i].id)
      BY <2>1, <2>2
    <3> QED
      BY <1>0, <3>1, <1>16 DEF Owned
  <2>3. CASE d = b /\ i = n + 1
    <3>1. pendingRoutes'[d][i].id = seq + 1
      BY <1>4, <1>8, <1>9, <2>3
    <3>2. Holding(w)'
      BY <1>7 DEF Holding
    <3> QED
      BY <1>7, <2>3, <3>1, <3>2 DEF Owned
  <2>4. CASE d = b /\ i # n + 1
    <3>1. i \in 1..n /\ pendingRoutes'[d][i] = p[i]
      BY <1>8, <1>9, <1>12, <2>4
    <3>2. \E j \in 1..Len(pendingRoutes[d]) : p[i] = pendingRoutes[d][j]
      BY <1>2, <2>4, <3>1, KeptMember DEF n
    <3> QED
      BY <2>2, <3>1, <3>2
  <2>5. CASE d # b
    BY <1>8, <2>2, <2>5
  <2> QED
    BY <2>3, <2>4, <2>5
<1>24. Matched(b)'
  <2> DEFINE f == flight[b]
  <2>1. flight'[b] = f /\ sent' = sent
    BY <1>0
  <2>2. ASSUME b \notin disturbed'
        PROVE  /\ Len(f) <= Len(r)
               /\ \A i \in 1..Len(f) : f[i].client = r[i].client /\ r[i].id \in sent
               /\ \A i \in (Len(f) + 1)..Len(r) : r[i].id \notin sent
               /\ \A v \in Workers : worker'[v].server = b /\ worker'[v].pc \in {"shape", "send"} =>
                     \E i \in 1..Len(r) : r[i].id = worker'[v].id /\ r[i].client = worker'[v].client
    <3>1. b \notin disturbed /\ p = pendingRoutes[b]
      BY <1>0, <2>2, CalmKeeps DEF p
    <3>2. /\ Len(f) <= n
          /\ \A i \in 1..Len(f) : f[i].client = p[i].client /\ p[i].id \in sent
          /\ \A i \in (Len(f) + 1)..n : p[i].id \notin sent
          /\ \A v \in Workers : worker[v].server = b /\ worker[v].pc \in {"shape", "send"} =>
                \E i \in 1..n : p[i].id = worker[v].id /\ p[i].client = worker[v].client
      <4> DEFINE q == pendingRoutes[b]
      <4>1. /\ Len(f) <= Len(q)
            /\ \A i \in 1..Len(f) : f[i].client = q[i].client /\ q[i].id \in sent
            /\ \A i \in (Len(f) + 1)..Len(q) : q[i].id \notin sent
            /\ \A v \in Workers : worker[v].server = b /\ worker[v].pc \in {"shape", "send"} =>
                  \E i \in 1..Len(q) : q[i].id = worker[v].id /\ q[i].client = worker[v].client
        BY <3>1, Undisturbed, Zenon
      <4>2. q = p
        BY <3>1
      <4> HIDE DEF q, f
      <4> QED
        BY <4>1, <4>2 DEF n
    <3>3. Len(f) \in Nat
      BY Parts
    <3> HIDE DEF f
    <3>4. Len(f) <= Len(r) /\ \A i \in 1..Len(f) : i \in 1..n
      BY <1>3, <1>9, <3>2, <3>3
    <3>5. \A i \in 1..Len(f) : f[i].client = r[i].client /\ r[i].id \in sent
      BY <1>9, <3>2, <3>4
    <3>6. ASSUME NEW i \in (Len(f) + 1)..Len(r) PROVE r[i].id \notin sent
      <4>1. CASE i = n + 1
        BY <1>4, <1>9, <1>14, <4>1
      <4>2. CASE i # n + 1
        <5>1. i \in (Len(f) + 1)..n /\ i \in 1..n
          BY <1>3, <1>9, <3>3, <4>2
        <5> QED
          BY <1>9, <3>2, <5>1
      <4> QED
        BY <4>1, <4>2
    <3>7. ASSUME NEW v \in Workers, worker'[v].server = b, worker'[v].pc \in {"shape", "send"}
          PROVE  \E i \in 1..Len(r) : r[i].id = worker'[v].id /\ r[i].client = worker'[v].client
      <4>1. CASE v = w
        <5>1. n + 1 \in 1..Len(r)
          BY <1>3, <1>9
        <5> QED
          BY <1>4, <1>7, <1>9, <4>1, <5>1
      <4>2. CASE v # w
        <5>1. PICK i \in 1..n : p[i].id = worker[v].id /\ p[i].client = worker[v].client
          BY <1>6, <3>2, <3>7, <4>2
        <5>2. i \in 1..Len(r) /\ r[i] = p[i]
          BY <1>3, <1>9
        <5>3. worker'[v] = worker[v]
          BY <1>6, <4>2
        <5> QED
          BY <5>1, <5>2, <5>3
      <4> QED
        BY <4>1, <4>2
    <3> QED
      BY <3>4, <3>5, <3>6, <3>7
  <2>3. pendingRoutes'[b] = r
    BY <1>8
  <2> HIDE DEF f
  <2>4. b \notin disturbed' =>
           /\ Len(f) <= Len(r)
           /\ \A i \in 1..Len(f) : f[i].client = r[i].client /\ r[i].id \in sent'
           /\ \A i \in (Len(f) + 1)..Len(r) : r[i].id \notin sent'
    BY <2>1, <2>2
  <2>5. b \notin disturbed' =>
           \A v \in Workers : worker'[v].server = b /\ worker'[v].pc \in {"shape", "send"} =>
                 \E i \in 1..Len(r) : r[i].id = worker'[v].id /\ r[i].client = worker'[v].client
    BY <2>2, Zenon
  <2> QED
    BY <2>1, <2>3, <2>4, <2>5, MatchedBy
<1>25. ASSUME NEW d \in Servers PROVE Matched(d)'
  <2>1. CASE d = b
    BY <1>24, <2>1
  <2>2. CASE d # b
    <3>1. Matched(d)
      BY DEF RoutingInv
    <3>2. pendingRoutes'[d] = pendingRoutes[d] /\ flight'[d] = flight[d] /\ sent' = sent
      BY <1>0, <1>8, <2>2
    <3>3. \A v \in Workers : worker'[v].server = d => worker'[v] = worker[v]
      BY <1>6, <1>7, <2>2
    <3> QED
      BY <1>11, <3>1, <3>2, <3>3, OtherMatched, Parts
  <2> QED
    BY <2>1, <2>2
<1>26. MatchedUnlessDisturbed'
  BY <1>0, Zenon DEF RoutingInv, MatchedUnlessDisturbed
<1> QED
  BY <1>20, <1>21, <1>22, <1>23, <1>25, <1>26 DEF RoutingInv

LEMMA EnqueueStep ==
  ASSUME RoutingInv, NEW w \in Workers, EnqueuePendingRoute(w)
  PROVE  RoutingInv'
<1>1. worker[w].pc = "enqueue"
  BY DEF EnqueuePendingRoute
<1>2. worker[w].server \in Servers /\ worker[w].client \in Clients /\ worker[w].at \in Nat
  BY <1>1, Parts DEF RoutingInv, WorkersOK
<1>3. PICK b \in Servers : b = worker[w].server
  BY <1>2
<1>4. PICK c \in Clients : c = worker[w].client
  BY <1>2
<1>5. PICK t \in Nat : t = worker[w].at
  BY <1>2
<1>6. CASE Room(pruneExpiredRoutes(pendingRoutes[b], t))
  <2>1. /\ seq' = seq + 1
        /\ pendingRoutes' = [pendingRoutes EXCEPT ![b] =
               Append(pruneExpiredRoutes(pendingRoutes[b], t), [id |-> seq + 1, client |-> c, at |-> t])]
        /\ worker' = [worker EXCEPT ![w].pc = "shape", ![w].id = seq + 1]
        /\ disturbed' = disturbed \cup Expires(b, t)
        /\ UNCHANGED <<flight, now, sent, last, requests, faults>>
    BY <1>3, <1>4, <1>5, <1>6, Zenon DEF EnqueuePendingRoute, Joins
  <2> QED
    BY <1>1, <1>3, <1>4, <1>5, <1>6, <2>1, EnqueueRoomStep DEF Joining
<1>7. CASE ~Room(pruneExpiredRoutes(pendingRoutes[b], t))
  <2>1. /\ pendingRoutes' = [pendingRoutes EXCEPT ![b] = pruneExpiredRoutes(pendingRoutes[b], t)]
        /\ worker' = [worker EXCEPT ![w] = Idle]
        /\ disturbed' = disturbed \cup Expires(b, t)
        /\ UNCHANGED <<seq, flight, now, sent, last, requests, faults>>
    BY <1>3, <1>5, <1>7, Zenon DEF EnqueuePendingRoute
  <2> QED
    BY <1>1, <2>1, EnqueueFullStep
<1> QED
  BY <1>6, <1>7

\* An answer takes the front route, whose client it is for unless b is disturbed.
LEMMA ResponseStep ==
  ASSUME RoutingInv, NEW b \in Servers, BackendResponse(b)
  PROVE  RoutingInv'
<1> DEFINE q == pendingRoutes[b]
           f == flight[b]
           p == pruneExpiredRoutes(q, now)
           r == IF p = <<>> THEN <<>> ELSE RemoveAt(p, 1)
<1>1. /\ f # <<>>
      /\ flight' = [flight EXCEPT ![b] = Tail(f)]
      /\ disturbed' = disturbed \cup Expires(b, now)
      /\ pendingRoutes' = [pendingRoutes EXCEPT ![b] = r]
      /\ UNCHANGED <<seq, worker, now, sent, requests, faults>>
  BY Zenon DEF BackendResponse, OldestRoute
<1>2. \/ p = <<>> /\ last' = last
      \/ p # <<>> /\ last' = [to |-> p[1].client, for |-> Head(f).client, calm |-> b \notin disturbed']
  BY Zenon DEF BackendResponse, OldestRoute
<1>3. now \in Int /\ q \in Seq(Routes) /\ Len(q) \in Nat /\ f \in Seq(Requests) /\ Len(f) \in Nat
  BY Parts
<1>4. p \in Seq(Routes) /\ Len(p) <= Len(q) /\ Kept(p, q) /\ Len(p) \in Nat
  <2> HIDE DEF q
  <2> QED
    BY <1>3, PruneKeeps
<1>5. Len(f) > 0 /\ Tail(f) \in Seq(Requests) /\ Len(Tail(f)) = Len(f) - 1 /\ Head(f) = f[1]
      /\ \A i \in 1..(Len(f) - 1) : Tail(f)[i] = f[i + 1]
  <2> HIDE DEF f
  <2> QED
    BY <1>1, <1>3
<1>6. disturbed \subseteq disturbed' /\ disturbed' \subseteq Servers
  BY <1>1, ExpiresGrows
<1>7. \/ p = <<>> /\ r = <<>>
      \/ /\ Len(p) > 0
         /\ r \in Seq(Routes)
         /\ Len(r) = Len(p) - 1
         /\ \A i \in 1..(Len(p) - 1) : r[i] = p[i + 1]
  <2> HIDE DEF p
  <2>1. p # <<>> => Len(p) > 0
    BY <1>4
  <2> QED
    BY <1>4, <2>1, RemoveFront
<1> DEFINE g == Tail(f)
<1> HIDE DEF r
<1>8. r \in Seq(Routes) /\ Len(r) \in Nat /\ Len(r) <= Len(q) /\ Kept(r, q)
  <2> HIDE DEF p, q
  <2>1. CASE p = <<>> /\ r = <<>>
    <3>1. r \in Seq(Routes) /\ Len(r) = 0
      BY <2>1
    <3>2. Len(q) \in 0..Len(q) /\ Len(r) = Len(q) - Len(q) /\ \A i \in 1..Len(r) : r[i] = q[i + Len(q)]
      BY <1>3, <3>1
    <3>3. Kept(r, q)
      BY <1>3, <3>1, <3>2, KeptShift, Zenon
    <3>4. Len(r) \in Nat /\ Len(r) <= Len(q)
      BY <1>3, <3>1
    <3> QED
      BY <3>1, <3>3, <3>4
  <2>2. CASE /\ Len(p) > 0
             /\ r \in Seq(Routes)
             /\ Len(r) = Len(p) - 1
             /\ \A i \in 1..(Len(p) - 1) : r[i] = p[i + 1]
    <3>1. PICK d \in 0..Len(q) : Len(p) = Len(q) - d /\ \A i \in 1..Len(p) : p[i] = q[i + d]
      BY <1>3, PruneCuts, Zenon DEF p
    <3>2. d + 1 \in 0..Len(q) /\ Len(r) = Len(q) - (d + 1) /\ Len(r) \in Nat
      BY <1>3, <1>4, <2>2, <3>1
    <3>3. ASSUME NEW i \in 1..Len(r) PROVE r[i] = q[i + (d + 1)]
      <4>1. i \in 1..(Len(p) - 1) /\ i + 1 \in 1..Len(p) /\ (i + 1) + d = i + (d + 1)
        BY <1>4, <2>2, <3>1
      <4> QED
        BY <2>2, <3>1, <4>1
    <3>4. Kept(r, q)
      BY <1>3, <2>2, <3>2, <3>3, KeptShift
    <3>5. Len(r) <= Len(q)
      BY <1>3, <3>2
    <3> QED
      BY <2>2, <3>2, <3>4, <3>5
  <2> QED
    BY <1>7, <2>1, <2>2
<1>9. b \notin disturbed' =>
         /\ p = q
         /\ Len(f) <= Len(q)
         /\ \A i \in 1..Len(f) : f[i].client = q[i].client /\ q[i].id \in sent
         /\ \A i \in (Len(f) + 1)..Len(q) : q[i].id \notin sent
         /\ \A v \in Workers : worker[v].server = b /\ worker[v].pc \in {"shape", "send"} =>
               \E i \in 1..Len(q) : q[i].id = worker[v].id /\ q[i].client = worker[v].client
  BY <1>1, CalmKeeps, Undisturbed
<1>10. Matched(b)'
  <2>1. pendingRoutes'[b] = r /\ flight'[b] = g /\ sent' = sent /\ worker' = worker
    BY <1>1, Parts
  <2>2. ASSUME b \notin disturbed'
        PROVE  /\ Len(g) <= Len(r)
               /\ \A i \in 1..Len(g) : g[i].client = r[i].client /\ r[i].id \in sent
               /\ \A i \in (Len(g) + 1)..Len(r) : r[i].id \notin sent
               /\ \A v \in Workers : worker[v].server = b /\ worker[v].pc \in {"shape", "send"} =>
                     \E i \in 1..Len(r) : r[i].id = worker[v].id /\ r[i].client = worker[v].client
    <3>1. /\ Len(f) <= Len(q)
          /\ \A i \in 1..Len(f) : f[i].client = q[i].client /\ q[i].id \in sent
          /\ \A i \in (Len(f) + 1)..Len(q) : q[i].id \notin sent
          /\ \A v \in Workers : worker[v].server = b /\ worker[v].pc \in {"shape", "send"} =>
                \E i \in 1..Len(q) : q[i].id = worker[v].id /\ q[i].client = worker[v].client
      BY <1>9, <2>2, Zenon
    <3>2. p = q
      BY <1>9, <2>2, Zenon
    <3>3. \A v \in Workers : worker[v].server = b /\ worker[v].pc \in {"shape", "send"} =>
                                worker[v].id \notin sent
      BY DEF RoutingInv, WorkersOK, Holding
    <3> HIDE DEF p, q, f, g
    <3>4. Len(q) > 0
      BY <1>3, <1>5, <3>1
    <3>5. Len(r) = Len(q) - 1 /\ \A i \in 1..(Len(q) - 1) : r[i] = q[i + 1]
      BY <1>7, <3>2, <3>4
    <3>6. Len(g) = Len(f) - 1 /\ \A i \in 1..(Len(f) - 1) : g[i] = f[i + 1]
      BY <1>5 DEF g
    <3>7. Len(g) <= Len(r)
      BY <1>3, <3>1, <3>5, <3>6
    <3>8. ASSUME NEW i \in 1..Len(g) PROVE g[i].client = r[i].client /\ r[i].id \in sent
      <4>1. i \in 1..(Len(f) - 1) /\ i \in 1..(Len(q) - 1) /\ i + 1 \in 1..Len(f)
        BY <1>3, <3>1, <3>6
      <4> QED
        BY <3>1, <3>5, <3>6, <4>1
    <3>9. ASSUME NEW i \in (Len(g) + 1)..Len(r) PROVE r[i].id \notin sent
      <4>1. i \in 1..(Len(q) - 1) /\ i + 1 \in (Len(f) + 1)..Len(q)
        BY <1>3, <1>5, <3>5, <3>6
      <4> QED
        BY <3>1, <3>5, <4>1
    <3>10. ASSUME NEW v \in Workers, worker[v].server = b, worker[v].pc \in {"shape", "send"}
           PROVE  \E i \in 1..Len(r) : r[i].id = worker[v].id /\ r[i].client = worker[v].client
      <4>1. PICK j \in 1..Len(q) : q[j].id = worker[v].id /\ q[j].client = worker[v].client
        BY <3>1, <3>10
      <4>2. j \notin 1..Len(f)
        BY <3>1, <3>3, <3>10, <4>1
      <4>3. j - 1 \in 1..(Len(q) - 1) /\ (j - 1) + 1 = j
        BY <1>3, <1>5, <4>2
      <4>4. r[j - 1] = q[j] /\ j - 1 \in 1..Len(r)
        BY <3>5, <4>3
      <4> QED
        BY <4>1, <4>4
    <3> QED
      BY <3>7, <3>8, <3>9, <3>10
  <2> HIDE DEF g
  <2>3. b \notin disturbed' =>
           /\ Len(g) <= Len(r)
           /\ \A i \in 1..Len(g) : g[i].client = r[i].client /\ r[i].id \in sent'
           /\ \A i \in (Len(g) + 1)..Len(r) : r[i].id \notin sent'
    BY <2>1, <2>2
  <2>4. b \notin disturbed' =>
           \A v \in Workers : worker'[v].server = b /\ worker'[v].pc \in {"shape", "send"} =>
                 \E i \in 1..Len(r) : r[i].id = worker'[v].id /\ r[i].client = worker'[v].client
    BY <2>1, <2>2
  <2> QED
    BY <2>1, <2>3, <2>4, MatchedBy
<1>11. Counters' /\ MatchedUnlessDisturbed'
  <2>1. requests' \in 0..MaxRequests /\ faults' \in 0..MaxFaults
    BY <1>1, CountersNow, Zenon DEF Counters
  <2>2. CASE last' = last
    BY <2>1, <2>2, CountersNow, Zenon DEF Counters, RoutingInv, MatchedUnlessDisturbed
  <2>3. CASE p # <<>> /\ last' = [to |-> p[1].client, for |-> Head(f).client, calm |-> b \notin disturbed']
    <3>1. p[1] \in Routes /\ f[1] \in Requests
      <4> HIDE DEF p, f
      <4> QED
        BY <1>3, <1>4, <1>5, <2>3
    <3>2. p[1].client \in Clients \cup {Nobody} /\ Head(f).client \in Clients \cup {Nobody}
      BY <1>5, <3>1 DEF Routes, Requests
    <3>3. last' \in [to : Clients \cup {Nobody}, for : Clients \cup {Nobody}, calm : BOOLEAN]
      BY <2>3, <3>2, Zenon
    <3>4. b \notin disturbed' => p[1].client = Head(f).client
      <4>1. 1 \in 1..Len(f)
        BY <1>3, <1>5
      <4> QED
        BY <1>5, <1>9, <4>1, Zenon
    <3>5. MatchedUnlessDisturbed'
      <4>1. last'.to = p[1].client /\ last'.for = Head(f).client /\ last'.calm = (b \notin disturbed')
        BY <2>3, Zenon
      <4> QED
        BY <3>4, <4>1, Zenon DEF MatchedUnlessDisturbed
    <3> QED
      BY <2>1, <3>3, <3>5, Zenon DEF Counters
  <2> QED
    BY <1>2, <2>2, <2>3
<1>12. flight' \in [Servers -> Seq(Requests)] /\ \A d \in Servers : d # b => flight'[d] = flight[d]
  BY <1>1, <1>5, Parts
<1>13. worker' \in [Workers -> Locals] /\ \A v \in Workers : worker'[v] = worker[v]
  BY <1>1, Parts
<1> QED
  BY <1>1, <1>6, <1>8, <1>10, <1>11, <1>12, <1>13, Shrink

-----------------------------------------------------------------------------
(* Sending                                                                 *)

\* The request leaves.  Unless it overtakes another its route is the first unsent one.
Sending(w, b, c, id) ==
    /\ worker[w].pc = "send" /\ worker[w].server = b /\ worker[w].client = c /\ worker[w].id = id
    /\ flight' = [flight EXCEPT ![b] = Append(@, [client |-> c, id |-> id])]
    /\ sent' = sent \cup {id}
    /\ disturbed' = IF Overtaken(b, id) THEN disturbed \cup {b} ELSE disturbed
    /\ worker' = [worker EXCEPT ![w] = Idle]
    /\ UNCHANGED <<pendingRoutes, seq, now, last, requests, faults>>

LEMMA SentStep ==
  ASSUME RoutingInv, NEW w \in Workers, NEW b \in Servers, NEW c \in Clients, NEW id \in Nat,
         Sending(w, b, c, id)
  PROVE  RoutingInv'
<1> DEFINE q == pendingRoutes[b]
           f == flight[b]
           request == [client |-> c, id |-> id]
           g == Append(f, request)
<1>1. /\ worker[w].pc = "send" /\ worker[w].server = b /\ worker[w].client = c /\ worker[w].id = id
      /\ flight' = [flight EXCEPT ![b] = g]
      /\ worker' = [worker EXCEPT ![w] = Idle]
  BY DEF Sending
<1>2. /\ sent' = sent \cup {id}
      /\ disturbed' = IF Overtaken(b, id) THEN disturbed \cup {b} ELSE disturbed
      /\ UNCHANGED <<pendingRoutes, seq, now, last, requests, faults>>
  BY DEF Sending
<1>3. WorkersOK
  BY DEF RoutingInv
<1>4. Holding(w) /\ id \in 1..seq /\ id \notin sent
  BY <1>1, <1>3 DEF WorkersOK, Holding
<1>5. /\ q \in Seq(Routes) /\ Len(q) \in Nat /\ f \in Seq(Requests) /\ Len(f) \in Nat
      /\ seq \in Nat /\ now \in Nat
  BY Parts
<1>6. request \in Requests /\ request.client = c
  BY DEF Requests
<1>7. g \in Seq(Requests) /\ Len(g) = Len(f) + 1 /\ g[Len(f) + 1] = request
      /\ \A i \in 1..Len(f) : g[i] = f[i]
  <2> HIDE DEF f, request
  <2> QED
    BY <1>5, <1>6
<1> HIDE DEF request, g
<1>8. worker'[w] = Idle /\ \A v \in Workers : v # w => worker'[v] = worker[v]
  BY <1>1, Parts
<1>9. worker'[w].pc = "idle" /\ ~Holding(w)' /\ worker'[w].at = 0
  BY <1>8 DEF Idle, Holding
<1>10. \A v \in Workers : Holding(v)' => v # w /\ worker'[v] = worker[v] /\ Holding(v)
  BY <1>8, <1>9 DEF Holding
<1>11. \A v \in Workers : Holding(v) /\ v # w => worker[v].id # id
  BY <1>1, <1>3, <1>4 DEF WorkersOK
<1>12. flight'[b] = g /\ \A d \in Servers : d # b => flight'[d] = flight[d]
  BY <1>1, Parts
<1>13. disturbed \subseteq disturbed' /\ disturbed' \subseteq Servers
  BY <1>2, Parts
<1>14. ASSUME NEW d \in Servers, NEW i \in 1..Len(pendingRoutes[d]), pendingRoutes[d][i].id = id
       PROVE  d = b
  <2>1. Owned(d, id)
    BY <1>14 DEF RoutingInv
  <2>2. PICK v \in Workers : worker[v].server = d /\ worker[v].id = id /\ Holding(v)
    BY <1>4, <2>1 DEF Owned
  <2>3. v = w
    BY <1>11, <2>2
  <2> QED
    BY <1>1, <2>2, <2>3
<1>20. RoutingTypeOK'
  <2>1. Counters'
    BY <1>2, CountersNow, Zenon DEF Counters
  <2>2. worker' \in [Workers -> Locals]
    <3>1. Idle \in Locals
      BY DEF Idle, Locals
    <3> QED
      BY <1>1, <3>1, Parts
  <2>3. flight' \in [Servers -> Seq(Requests)]
    BY <1>1, <1>7, Parts
  <2>4. sent' \subseteq 1..seq'
    BY <1>2, <1>4, Parts
  <2> QED
    BY <1>2, <1>13, <2>1, <2>2, <2>3, <2>4, Parts, TypesAgain
<1>21. ASSUME NEW d \in Servers PROVE Ordered(pendingRoutes[d], seq, now)'
  BY <1>2, Zenon DEF RoutingInv, Ordered
<1>22. WorkersOK'
  <2>1. ASSUME NEW v \in Workers
        PROVE  /\ worker'[v].at <= now'
               /\ worker'[v].pc # "idle" => worker'[v].server \in Servers /\ worker'[v].client \in Clients
               /\ worker'[v].pc \in {"enqueue", "cancel"} => now' - worker'[v].at <= Stall
               /\ Holding(v)' => worker'[v].id \in 1..seq' /\ worker'[v].id \notin sent'
    <3>1. CASE v = w
      <4>1. worker'[v].at <= now'
        BY <1>2, <1>5, <1>9, <3>1
      <4> QED
        BY <1>9, <3>1, <4>1
    <3>2. CASE v # w
      <4>1. worker'[v] = worker[v] /\ (Holding(v)' => Holding(v)) /\ (Holding(v) => worker[v].id # id)
        BY <1>8, <1>10, <1>11, <3>2
      <4>2. Holding(v)' => worker'[v].id \in 1..seq' /\ worker'[v].id \notin sent'
        BY <1>2, <1>3, <4>1 DEF WorkersOK
      <4> QED
        BY <1>2, <1>3, <4>1, <4>2 DEF WorkersOK
    <3> QED
      BY <3>1, <3>2
  <2>2. \A u, v \in Workers : Holding(u)' /\ Holding(v)' /\ worker'[u].id = worker'[v].id => u = v
    BY <1>3, <1>10 DEF WorkersOK
  <2> QED
    BY <2>1, <2>2 DEF WorkersOK
<1>23. ASSUME NEW d \in Servers, NEW i \in 1..Len(pendingRoutes'[d])
       PROVE  Owned(d, pendingRoutes[d][i].id)'
  <2>1. pendingRoutes' = pendingRoutes
    BY <1>2
  <2>2. Owned(d, pendingRoutes[d][i].id)
    BY <1>23, <2>1 DEF RoutingInv
  <2>3. CASE pendingRoutes[d][i].id \in sent'
    BY <2>1, <2>3 DEF Owned
  <2>4. CASE pendingRoutes[d][i].id \notin sent'
    <3>1. pendingRoutes[d][i].id \notin sent /\ pendingRoutes[d][i].id # id
      BY <1>2, <2>4
    <3>2. PICK v \in Workers : worker[v].server = d /\ worker[v].id = pendingRoutes[d][i].id /\ Holding(v)
      BY <2>2, <3>1 DEF Owned
    <3>3. v # w
      BY <1>1, <3>1, <3>2
    <3>4. worker'[v] = worker[v] /\ Holding(v)'
      BY <1>8, <3>2, <3>3 DEF Holding
    <3> QED
      BY <2>1, <3>2, <3>4 DEF Owned
  <2> QED
    BY <2>3, <2>4
<1>24. Matched(b)'
  <2>1. pendingRoutes'[b] = q /\ flight'[b] = g
    BY <1>2, <1>12
  <2>2. ASSUME b \notin disturbed'
        PROVE  /\ Len(g) <= Len(q)
               /\ \A i \in 1..Len(g) : g[i].client = q[i].client /\ q[i].id \in sent'
               /\ \A i \in (Len(g) + 1)..Len(q) : q[i].id \notin sent'
               /\ \A v \in Workers : worker'[v].server = b /\ worker'[v].pc \in {"shape", "send"} =>
                     \E i \in 1..Len(q) : q[i].id = worker'[v].id /\ q[i].client = worker'[v].client
    <3>1. b \notin disturbed /\ ~Overtaken(b, id)
      BY <1>2, <2>2
    <3>2. /\ Len(f) <= Len(q)
          /\ \A i \in 1..Len(f) : f[i].client = q[i].client /\ q[i].id \in sent
          /\ \A i \in (Len(f) + 1)..Len(q) : q[i].id \notin sent
          /\ \A v \in Workers : worker[v].server = b /\ worker[v].pc \in {"shape", "send"} =>
                \E i \in 1..Len(q) : q[i].id = worker[v].id /\ q[i].client = worker[v].client
      BY <3>1, Undisturbed, Zenon
    <3>3. PICK k \in 1..Len(q) : q[k].id = id /\ q[k].client = c
      <4>1. \E i \in 1..Len(q) : q[i].id = worker[w].id /\ q[i].client = worker[w].client
        BY <1>1, <3>2
      <4> QED
        BY <1>1, <4>1
    <3>4. \A i \in 1..Len(q) : q[i].id < id => q[i].id \in sent
      <4>1. DOMAIN q = 1..Len(q)
        BY <1>5
      <4> QED
        BY <3>1, <4>1 DEF Overtaken
    <3>5. /\ \A i, j \in 1..Len(q) : i < j => q[i].id < q[j].id
          /\ \A i \in 1..Len(q) : q[i].id \in 1..seq
      BY DEF RoutingInv, Ordered
    <3> HIDE DEF q, f
    <3>6. k = Len(f) + 1
      <4>1. k \notin 1..Len(f)
        BY <1>4, <3>2, <3>3
      <4>2. k <= Len(f) + 1
        <5> SUFFICES ASSUME Len(f) + 1 < k PROVE FALSE
          BY <1>5
        <5>1. Len(f) + 1 \in 1..Len(q) /\ Len(f) + 1 \in (Len(f) + 1)..Len(q)
          BY <1>5
        <5>2. q[Len(f) + 1].id < id
          BY <3>3, <3>5, <5>1
        <5> QED
          BY <3>2, <3>4, <5>1, <5>2
      <4> QED
        BY <1>5, <4>1, <4>2
    <3>7. Len(g) <= Len(q)
      BY <1>5, <1>7, <3>6
    <3>8. ASSUME NEW i \in 1..Len(g) PROVE g[i].client = q[i].client /\ q[i].id \in sent'
      <4>1. CASE i = Len(f) + 1
        BY <1>2, <1>6, <1>7, <3>3, <3>6, <4>1
      <4>2. CASE i # Len(f) + 1
        <5>1. i \in 1..Len(f)
          BY <1>5, <1>7, <4>2
        <5> QED
          BY <1>2, <1>7, <3>2, <5>1
      <4> QED
        BY <4>1, <4>2
    <3>9. ASSUME NEW i \in (Len(g) + 1)..Len(q) PROVE q[i].id \notin sent'
      <4>1. i \in (Len(f) + 1)..Len(q) /\ k < i /\ i \in 1..Len(q)
        BY <1>5, <1>7, <3>6
      <4>2. q[i].id \notin sent
        BY <3>2, <4>1
      <4>3. q[i].id # id
        <5>1. q[k].id < q[i].id /\ q[k].id \in 1..seq /\ q[i].id \in 1..seq
          BY <3>5, <4>1
        <5>2. q[k].id # q[i].id
          BY <5>1
        <5> QED
          BY <3>3, <5>2
      <4> QED
        BY <1>2, <4>2, <4>3
    <3>10. ASSUME NEW v \in Workers, worker'[v].server = b, worker'[v].pc \in {"shape", "send"}
           PROVE  \E i \in 1..Len(q) : q[i].id = worker'[v].id /\ q[i].client = worker'[v].client
      <4>1. worker'[v] = worker[v]
        BY <1>8, <1>9, <3>10
      <4> QED
        BY <3>2, <3>10, <4>1
    <3> QED
      BY <3>7, <3>8, <3>9, <3>10
  <2> HIDE DEF q
  <2> QED
    BY <2>1, <2>2, MatchedBy
<1>25. ASSUME NEW d \in Servers PROVE Matched(d)'
  <2>1. CASE d = b
    BY <1>24, <2>1
  <2>2. CASE d # b
    <3>1. Matched(d)
      BY DEF RoutingInv
    <3>2. pendingRoutes'[d] = pendingRoutes[d] /\ flight'[d] = flight[d]
      BY <1>2, <1>12, <2>2
    <3>3. \A i \in 1..Len(pendingRoutes[d]) :
             pendingRoutes[d][i].id \in sent' <=> pendingRoutes[d][i].id \in sent
      BY <1>2, <1>14, <2>2
    <3>4. \A v \in Workers : worker'[v].server = d /\ worker'[v].pc \in {"shape", "send"} =>
                                worker'[v] = worker[v]
      BY <1>8, <1>9
    <3>5. d \notin disturbed' => d \notin disturbed
      BY <1>13
    <3> QED
      BY <3>1, <3>2, <3>3, <3>4, <3>5, OtherMatched, Parts
  <2> QED
    BY <2>1, <2>2
<1>26. MatchedUnlessDisturbed'
  BY <1>2, Zenon DEF RoutingInv, MatchedUnlessDisturbed
<1> QED
  BY <1>20, <1>21, <1>22, <1>23, <1>25, <1>26 DEF RoutingInv

LEMMA SendStep ==
  ASSUME RoutingInv, NEW w \in Workers, Send(w)
  PROVE  RoutingInv'
<1>1. worker[w].pc = "send"
  BY DEF Send
<1>2. worker[w].server \in Servers /\ worker[w].client \in Clients /\ worker[w].id \in Nat
  BY <1>1, Parts DEF RoutingInv, WorkersOK
<1>3. PICK b \in Servers : b = worker[w].server
  BY <1>2
<1>4. PICK c \in Clients : c = worker[w].client
  BY <1>2
<1>5. PICK id \in Nat : id = worker[w].id
  BY <1>2
<1>6. CASE Sending(w, b, c, id)
  BY <1>6, SentStep
<1>7. CASE /\ worker' = Stamped(w, "cancel")
           /\ UNCHANGED <<pendingRoutes, seq, flight, now, sent, last, disturbed, requests, faults>>
  BY <1>1, <1>7, ShapeStep
<1> QED
  BY <1>1, <1>3, <1>4, <1>5, <1>6, <1>7, Zenon DEF Send, Sending

-----------------------------------------------------------------------------
(* The network and the clock                                               *)

\* What a fault leaves of the requests under way.
LEMMA FaultyFlight ==
  ASSUME NEW f \in Seq(Requests), NEW i \in 1..Len(f)
  PROVE  RemoveAt(f, i) \in Seq(Requests) /\ InsertAt(f, i, f[i]) \in Seq(Requests)
<1>1. Len(f) \in Nat /\ f[i] \in Requests
  OBVIOUS
<1>2. SubSeq(f, 1, i - 1) \in Seq(Requests)
  BY <1>1
<1>3. SubSeq(f, i + 1, Len(f)) \in Seq(Requests)
  BY <1>1
<1>4. SubSeq(f, i, Len(f)) \in Seq(Requests)
  BY <1>1
<1>5. <<f[i]>> \in Seq(Requests)
  BY <1>1
<1>6. SubSeq(f, 1, i - 1) \o <<f[i]>> \in Seq(Requests)
  BY <1>2, <1>5, ConcatProperties
<1>7. (SubSeq(f, 1, i - 1) \o <<f[i]>>) \o SubSeq(f, i, Len(f)) \in Seq(Requests)
  BY <1>4, <1>6, ConcatProperties
<1>8. SubSeq(f, 1, i - 1) \o SubSeq(f, i + 1, Len(f)) \in Seq(Requests)
  BY <1>2, <1>3, ConcatProperties
<1> QED
  BY <1>7, <1>8, Zenon DEF RemoveAt, InsertAt

LEMMA SameOwners ==
  ASSUME RoutingInv, UNCHANGED <<pendingRoutes, worker, sent>>
  PROVE  \A d \in Servers : \A i \in 1..Len(pendingRoutes'[d]) : Owned(d, pendingRoutes[d][i].id)'
<1> SUFFICES ASSUME NEW d \in Servers, NEW i \in 1..Len(pendingRoutes[d])
             PROVE  Owned(d, pendingRoutes[d][i].id)'
  OBVIOUS
<1>1. Owned(d, pendingRoutes[d][i].id)
  BY DEF RoutingInv
<1> QED
  BY <1>1 DEF Owned, Holding

LEMMA FaultStep ==
  ASSUME RoutingInv, NEW b \in Servers, Fault(b)
  PROVE  RoutingInv'
<1>1. /\ faults < MaxFaults /\ faults' = faults + 1
      /\ disturbed' = disturbed \cup {b}
      /\ UNCHANGED <<pendingRoutes, seq, worker, now, sent, last, requests>>
  BY DEF Fault
<1>2. flight \in [Servers -> Seq(Requests)] /\ flight[b] \in Seq(Requests) /\ Len(flight[b]) \in Nat
  BY Parts
<1>3. DOMAIN flight[b] = 1..Len(flight[b]) /\ \A i \in 1..Len(flight[b]) : flight[b][i] \in Requests
  BY <1>2
<1>4. /\ flight' \in [Servers -> Seq(Requests)]
      /\ \A d \in Servers : d # b => flight'[d] = flight[d]
  <2>1. ASSUME NEW g \in Seq(Requests), flight' = [flight EXCEPT ![b] = g]
        PROVE  /\ flight' \in [Servers -> Seq(Requests)]
               /\ \A d \in Servers : d # b => flight'[d] = flight[d]
    BY <1>2, <2>1
  <2>2. ASSUME NEW i \in DOMAIN flight[b], flight' = [flight EXCEPT ![b] = RemoveAt(flight[b], i)]
        PROVE  \E g \in Seq(Requests) : flight' = [flight EXCEPT ![b] = g]
    <3>1. RemoveAt(flight[b], i) \in Seq(Requests)
      BY <1>2, <1>3, FaultyFlight
    <3> QED
      BY <2>2, <3>1, Zenon
  <2>3. ASSUME NEW i \in DOMAIN flight[b],
               flight' = [flight EXCEPT ![b] = InsertAt(flight[b], i, flight[b][i])]
        PROVE  \E g \in Seq(Requests) : flight' = [flight EXCEPT ![b] = g]
    <3>1. InsertAt(flight[b], i, flight[b][i]) \in Seq(Requests)
      BY <1>2, <1>3, FaultyFlight
    <3> QED
      BY <2>3, <3>1, Zenon
  <2>4. ASSUME NEW i \in 2..Len(flight[b]),
               flight' = [flight EXCEPT ![b][i] = flight[b][i - 1], ![b][i - 1] = flight[b][i]]
        PROVE  \E g \in Seq(Requests) : flight' = [flight EXCEPT ![b] = g]
    <3> DEFINE f == flight[b]
               g == [f EXCEPT ![i] = f[i - 1], ![i - 1] = f[i]]
    <3>1. flight' = [flight EXCEPT ![b] = g]
      BY <1>2, <2>4
    <3>2. i \in 1..Len(f) /\ i - 1 \in 1..Len(f)
      BY <1>2, <2>4
    <3>3. f[i] \in Requests /\ f[i - 1] \in Requests
      BY <1>3, <3>2
    <3>4. f \in [1..Len(f) -> Requests]
      BY <1>2
    <3>5. g \in [1..Len(f) -> Requests]
      <4> HIDE DEF f
      <4> QED
        BY <3>3, <3>4
    <3>6. g \in Seq(Requests)
      <4> HIDE DEF g, f
      <4> QED
        BY <1>2, <3>5, IsASeq DEF f
    <3> HIDE DEF g
    <3> QED
      BY <3>1, <3>6
  <2>5. ASSUME flight' = [flight EXCEPT ![b] = Append(flight[b], [client |-> Nobody, id |-> 0])]
        PROVE  \E g \in Seq(Requests) : flight' = [flight EXCEPT ![b] = g]
    <3>1. [client |-> Nobody, id |-> 0] \in Requests
      BY DEF Requests
    <3>2. Append(flight[b], [client |-> Nobody, id |-> 0]) \in Seq(Requests)
      BY <1>2, <3>1, AppendProperties, Zenon
    <3> QED
      BY <2>5, <3>2, Zenon
  <2>6. \/ \E i \in DOMAIN flight[b] : flight' = [flight EXCEPT ![b] = RemoveAt(flight[b], i)]
        \/ \E i \in DOMAIN flight[b] :
              flight' = [flight EXCEPT ![b] = InsertAt(flight[b], i, flight[b][i])]
        \/ \E i \in 2..Len(flight[b]) :
              flight' = [flight EXCEPT ![b][i] = flight[b][i - 1], ![b][i - 1] = flight[b][i]]
        \/ flight' = [flight EXCEPT ![b] = Append(flight[b], [client |-> Nobody, id |-> 0])]
    BY <1>2, Zenon DEF Fault
  <2>7. \E g \in Seq(Requests) : flight' = [flight EXCEPT ![b] = g]
    BY <2>2, <2>3, <2>4, <2>5, <2>6, Zenon
  <2> QED
    BY <2>1, <2>7, Zenon
<1>5. Counters'
  <2>1. faults' \in 0..MaxFaults
    <3>1. faults \in 0..MaxFaults
      BY CountersNow, Zenon DEF Counters
    <3> QED
      BY <1>1, <3>1, RoutingBoundsAssumption
  <2> QED
    BY <1>1, <2>1, CountersNow, Zenon DEF Counters
<1>6. RoutingTypeOK'
  BY <1>1, <1>4, <1>5, Parts, TypesAgain
<1>7. \A d \in Servers : Ordered(pendingRoutes[d], seq, now)'
  BY <1>1, Zenon DEF RoutingInv, Ordered
<1>8. WorkersOK'
  BY <1>1, Zenon DEF RoutingInv, WorkersOK, Holding
<1>9. \A d \in Servers : \A i \in 1..Len(pendingRoutes'[d]) : Owned(d, pendingRoutes[d][i].id)'
  BY <1>1, SameOwners
<1>10. ASSUME NEW d \in Servers PROVE Matched(d)'
  <2>1. CASE d = b
    BY <1>1, <2>1 DEF Matched
  <2>2. CASE d # b
    <3>1. Matched(d)
      BY DEF RoutingInv
    <3> QED
      BY <1>1, <1>4, <2>2, <3>1, OtherMatched, Parts
  <2> QED
    BY <2>1, <2>2
<1>11. MatchedUnlessDisturbed'
  BY <1>1, Zenon DEF RoutingInv, MatchedUnlessDisturbed
<1> QED
  BY <1>6, <1>7, <1>8, <1>9, <1>10, <1>11 DEF RoutingInv

\* A quiet backend has nothing left to mismatch.
LEMMA SettleStep ==
  ASSUME RoutingInv, NEW b \in Servers, Settle(b)
  PROVE  RoutingInv'
<1>1. /\ disturbed' = disturbed \ {b}
      /\ UNCHANGED <<pendingRoutes, seq, worker, flight, now, sent, last, requests, faults>>
  BY DEF Settle
<1>2. /\ pendingRoutes[b] = <<>> /\ flight[b] = <<>>
      /\ \A w \in Workers : worker[w].server = b => worker[w].pc \notin {"shape", "send"}
  BY DEF Settle
<1>3. Counters'
  BY <1>1, CountersNow, Zenon DEF Counters
<1>4. RoutingTypeOK'
  BY <1>1, <1>3, Parts, TypesAgain
<1>5. \A d \in Servers : Ordered(pendingRoutes[d], seq, now)'
  BY <1>1, Zenon DEF RoutingInv, Ordered
<1>6. WorkersOK'
  BY <1>1, Zenon DEF RoutingInv, WorkersOK, Holding
<1>7. \A d \in Servers : \A i \in 1..Len(pendingRoutes'[d]) : Owned(d, pendingRoutes[d][i].id)'
  BY <1>1, SameOwners
<1>8. ASSUME NEW d \in Servers PROVE Matched(d)'
  <2>1. CASE d = b
    <3>1. Len(pendingRoutes'[b]) = 0 /\ Len(flight'[b]) = 0
      BY <1>1, <1>2
    <3>2. \A w \in Workers : worker'[w].server = b => worker'[w].pc \notin {"shape", "send"}
      BY <1>1, <1>2
    <3> QED
      BY <2>1, <3>1, <3>2 DEF Matched
  <2>2. CASE d # b
    <3>1. Matched(d)
      BY DEF RoutingInv
    <3> QED
      BY <1>1, <2>2, <3>1, OtherMatched, Parts
  <2> QED
    BY <2>1, <2>2
<1>9. MatchedUnlessDisturbed'
  BY <1>1, Zenon DEF RoutingInv, MatchedUnlessDisturbed
<1> QED
  BY <1>4, <1>5, <1>6, <1>7, <1>8, <1>9 DEF RoutingInv

LEMMA TickStep ==
  ASSUME RoutingInv, Tick
  PROVE  RoutingInv'
<1>1. /\ now < MaxTime /\ now' = now + 1
      /\ \A w \in Workers : worker[w].pc \in {"enqueue", "cancel"} => now - worker[w].at < Stall
      /\ UNCHANGED <<pendingRoutes, seq, worker, flight, sent, last, disturbed, requests, faults>>
  BY DEF Tick
<1>2. Counters'
  BY <1>1, CountersNow, Zenon DEF Counters
<1>3. RoutingTypeOK'
  <2>1. now' \in 0..MaxTime
    BY <1>1, Parts, RoutingBoundsAssumption
  <2> QED
    BY <1>1, <1>2, <2>1, Parts, TypesAgain
<1>4. ASSUME NEW d \in Servers PROVE Ordered(pendingRoutes[d], seq, now)'
  <2>1. Ordered(pendingRoutes[d], seq, now)
    BY DEF RoutingInv
  <2>2. Ordered(pendingRoutes[d], seq, now + 1)
    BY <2>1, Parts, OrderedLater
  <2> QED
    BY <1>1, <2>2
<1>5. WorkersOK'
  <2>1. WorkersOK
    BY DEF RoutingInv
  <2>2. ASSUME NEW w \in Workers
        PROVE  /\ worker[w].at <= now'
               /\ worker[w].pc \in {"enqueue", "cancel"} => now' - worker[w].at <= Stall
    <3>1. worker[w].at <= now /\ worker[w].at \in Nat /\ now \in Nat /\ Stall \in Nat
      BY <2>1, Parts, TimesAssumption DEF WorkersOK
    <3>2. worker[w].at <= now'
      BY <1>1, <3>1
    <3>3. now - worker[w].at < Stall => now' - worker[w].at <= Stall
      BY <1>1, <3>1
    <3> QED
      BY <1>1, <3>2, <3>3, Zenon
  <2> QED
    BY <1>1, <2>1, <2>2, Zenon DEF WorkersOK, Holding
<1>6. \A d \in Servers : \A i \in 1..Len(pendingRoutes'[d]) : Owned(d, pendingRoutes[d][i].id)'
  BY <1>1, SameOwners
<1>7. \A d \in Servers : Matched(d)'
  <2> SUFFICES ASSUME NEW d \in Servers PROVE Matched(d)'
    OBVIOUS
  <2>1. Matched(d)
    BY DEF RoutingInv
  <2> QED
    BY <1>1, <2>1, OtherMatched, Parts
<1>8. MatchedUnlessDisturbed'
  BY <1>1, Zenon DEF RoutingInv, MatchedUnlessDisturbed
<1> QED
  BY <1>3, <1>4, <1>5, <1>6, <1>7, <1>8 DEF RoutingInv

LEMMA RoutingInvStep == RoutingInv /\ [Next]_vars => RoutingInv'
<1> SUFFICES ASSUME RoutingInv, [Next]_vars PROVE RoutingInv'
  OBVIOUS
<1>1. ASSUME NEW w \in Workers, NEW c \in Clients, NEW b \in Servers, Dispatch(w, c, b)
      PROVE  RoutingInv'
  BY <1>1, DispatchStep
<1>2. ASSUME NEW w \in Workers, EnqueuePendingRoute(w) PROVE RoutingInv'
  BY <1>2, EnqueueStep
<1>3. ASSUME NEW w \in Workers, Shape(w) PROVE RoutingInv'
  BY <1>3, ShapeStep
<1>4. ASSUME NEW w \in Workers, Send(w) PROVE RoutingInv'
  BY <1>4, SendStep
<1>5. ASSUME NEW w \in Workers, CancelPendingRoute(w) PROVE RoutingInv'
  BY <1>5, CancelStep
<1>6. ASSUME NEW b \in Servers, BackendResponse(b) PROVE RoutingInv'
  BY <1>6, ResponseStep
<1>7. ASSUME NEW b \in Servers, Fault(b) PROVE RoutingInv'
  BY <1>7, FaultStep
<1>8. ASSUME NEW b \in Servers, Settle(b) PROVE RoutingInv'
  BY <1>8, SettleStep
<1>9. CASE Tick
  BY <1>9, TickStep
<1>10. CASE UNCHANGED vars
  <2>1. UNCHANGED <<pendingRoutes, seq, worker, flight, now, sent, last, disturbed, requests, faults>>
    BY <1>10, Zenon DEF vars
  <2>2. RoutingTypeOK'
    BY <2>1, Zenon DEF RoutingInv, RoutingTypeOK
  <2>3. \A d \in Servers : Ordered(pendingRoutes[d], seq, now)'
    BY <2>1, Zenon DEF RoutingInv, Ordered
  <2>4. WorkersOK'
    BY <2>1, Zenon DEF RoutingInv, WorkersOK, Holding
  <2>5. \A d \in Servers : \A i \in 1..Len(pendingRoutes'[d]) : Owned(d, pendingRoutes[d][i].id)'
    BY <2>1, SameOwners
  <2>6. ASSUME NEW d \in Servers PROVE Matched(d)'
    <3>1. Matched(d)
      BY DEF RoutingInv
    <3> QED
      BY <2>1, <3>1, OtherMatched, Parts
  <2>7. MatchedUnlessDisturbed'
    BY <2>1, Zenon DEF RoutingInv, MatchedUnlessDisturbed
  <2> QED
    BY <2>2, <2>3, <2>4, <2>5, <2>6, <2>7 DEF RoutingInv
<1> QED
  BY <1>1, <1>2, <1>3, <1>4, <1>5, <1>6, <1>7, <1>8, <1>9, <1>10, Zenon DEF Next

LEMMA RoutingInvHolds == Spec => []RoutingInv
  BY RoutingInvInit, RoutingInvStep, PTL DEF Spec

-----------------------------------------------------------------------------
(* The theorems                                                            *)

\* The types of the routing state hold at all times; in particular no queue outgrows
\* maxPendingRoutesPerBackend and no route is sent that was not given an id.
THEOREM RoutingTypeCorrect == Spec => []RoutingTypeOK
<1>1. RoutingInv => RoutingTypeOK
  BY DEF RoutingInv
<1> QED
  BY <1>1, RoutingInvHolds, PTL

\* Every queued route is that of a request that was sent, or of a worker that will
\* send it or take it back: forward's error paths leave no route behind.
THEOREM RoutesOwned == Spec => []NoOrphanRoute
<1>1. RoutingInv => NoOrphanRoute
  <2> SUFFICES ASSUME RoutingInv, NEW b \in Servers, NEW i \in DOMAIN pendingRoutes[b]
               PROVE  LET id == pendingRoutes[b][i].id
                      IN  \/ id \in sent
                          \/ \E w \in Workers : /\ worker[w].server = b
                                                /\ worker[w].id = id
                                                /\ worker[w].pc \in {"shape", "send", "cancel"}
    BY DEF NoOrphanRoute
  <2>1. i \in 1..Len(pendingRoutes[b])
    BY Parts
  <2>2. Owned(b, pendingRoutes[b][i].id)
    BY <2>1 DEF RoutingInv
  <2> QED
    BY <2>2, Zenon DEF Owned, Holding
<1> QED
  BY <1>1, RoutingInvHolds, PTL

\* However long workers take between the clock and the lock, up to Stall, a queue is
\* out of time order by no more than that.
THEOREM QueuesNearlySorted == Spec => []NearlySorted
<1>1. RoutingInv => NearlySorted
  <2> SUFFICES ASSUME RoutingInv, NEW b \in Servers,
                      NEW i \in DOMAIN pendingRoutes[b], NEW j \in DOMAIN pendingRoutes[b], i < j
               PROVE  pendingRoutes[b][j].at >= pendingRoutes[b][i].at - Stall
    BY DEF NearlySorted
  <2>1. i \in 1..Len(pendingRoutes[b]) /\ j \in 1..Len(pendingRoutes[b])
    BY Parts
  <2>2. Ordered(pendingRoutes[b], seq, now)
    BY DEF RoutingInv
  <2> QED
    BY <2>1, <2>2 DEF Ordered
<1> QED
  BY <1>1, RoutingInvHolds, PTL

\* A response reaches another client than the one it answers only through a backend
\* that lost, repeated or reordered an answer, whose route expired, or to which two
\* workers sent in another order than they queued.
THEOREM AnswersMatchUnlessDisturbed == Spec => []MatchedUnlessDisturbed
<1>1. RoutingInv => MatchedUnlessDisturbed
  BY DEF RoutingInv
<1> QED
  BY <1>1, RoutingInvHolds, PTL

\* Which step refuses a packet.
LEMMA RefusingStep ==
  ASSUME RoutingInv, [Next]_vars, NEW w \in Workers,
         worker[w].pc = "enqueue", worker'[w].pc = "idle"
  PROVE  EnqueuePendingRoute(w) /\ ~Room(pruneExpiredRoutes(pendingRoutes[worker[w].server], worker[w].at))
<1>1. worker'[w] # worker[w]
  OBVIOUS
<1>2. worker \in [Workers -> Locals] /\ seq \in Nat
  BY Parts
<1>3. PICK v \in Workers : \/ \E c \in Clients, b \in Servers : Dispatch(v, c, b)
                           \/ EnqueuePendingRoute(v) \/ Shape(v) \/ Send(v) \/ CancelPendingRoute(v)
  BY <1>1 DEF Next, vars, BackendResponse, Fault, Settle, Tick
<1>4. v = w
  <2> SUFFICES ASSUME v # w PROVE worker'[w] = worker[w]
    BY <1>1
  <2>1. CASE \E c \in Clients, b \in Servers : Dispatch(v, c, b)
    BY <1>2, <2>1 DEF Dispatch
  <2>2. CASE EnqueuePendingRoute(v)
    BY <1>2, <2>2 DEF EnqueuePendingRoute
  <2>3. CASE Shape(v)
    BY <1>2, <2>3 DEF Shape, Refused, Stamped
  <2>4. CASE Send(v)
    BY <1>2, <2>4 DEF Send, Stamped
  <2>5. CASE CancelPendingRoute(v)
    BY <1>2, <2>5 DEF CancelPendingRoute
  <2> QED
    BY <1>3, <2>1, <2>2, <2>3, <2>4, <2>5
<1>5. EnqueuePendingRoute(w)
  BY <1>3, <1>4 DEF Dispatch, Shape, Send, CancelPendingRoute
<1>6. CASE Room(pruneExpiredRoutes(pendingRoutes[worker[w].server], worker[w].at))
  <2>1. worker' = [worker EXCEPT ![w].pc = "shape", ![w].id = seq + 1]
    BY <1>5, <1>6, Zenon DEF EnqueuePendingRoute
  <2>2. worker'[w].pc = "shape"
    BY <1>2, <2>1, Relabelled, Zenon
  <2> QED
    BY <2>2
<1> QED
  BY <1>5, <1>6

\* A packet is refused for want of room only while the queue holds MaxRoutes routes
\* younger than the TTL and two stalls: dead routes further back never block a backend.
THEOREM RefusedOnlyByLiveRoutes == Spec => RefusedOnlyByLive
<1> DEFINE A == \A w \in Workers :
                  worker[w].pc = "enqueue" /\ worker'[w].pc = "idle" =>
                    LET queue == pendingRoutes'[worker[w].server]
                    IN  /\ Len(queue) >= MaxRoutes
                        /\ \A i \in DOMAIN queue : queue[i].at >= now - TTL - 2 * Stall
<1>1. RoutingInv /\ [Next]_vars => A
  <2> SUFFICES ASSUME RoutingInv, [Next]_vars, NEW w \in Workers,
                      worker[w].pc = "enqueue", worker'[w].pc = "idle"
               PROVE  LET queue == pendingRoutes'[worker[w].server]
                      IN  /\ Len(queue) >= MaxRoutes
                          /\ \A i \in DOMAIN queue : queue[i].at >= now - TTL - 2 * Stall
    OBVIOUS
  <2> DEFINE b == worker[w].server
             t == worker[w].at
             q == pendingRoutes[b]
             r == pruneExpiredRoutes(q, t)
  <2>1. EnqueuePendingRoute(w) /\ ~Room(r)
    BY RefusingStep
  <2>2. b \in Servers /\ t \in Nat /\ t <= now /\ now - t <= Stall
    BY Parts DEF RoutingInv, WorkersOK
  <2>3. q \in Seq(Routes) /\ Ordered(q, seq, now) /\ seq \in Nat /\ now \in Nat
    BY <2>2, Parts DEF RoutingInv
  <2>4. pendingRoutes'[b] = r
    <3>1. pendingRoutes' = [pendingRoutes EXCEPT ![b] = r]
      BY <2>1, Zenon DEF EnqueuePendingRoute
    <3> HIDE DEF b, r
    <3> QED
      BY <2>2, <3>1, Parts
  <2> HIDE DEF b, t, q
  <2>5. PICK d \in 0..Len(q) : r \in Seq(Routes) /\ (Len(r) > 0 => r[1].at >= t - TTL)
    <3>1. t \in Int
      BY <2>2
    <3> QED
      BY <2>3, <3>1, PruneCuts, Zenon
  <2>6. Kept(r, q)
    BY <2>2, <2>3, PruneKeeps
  <2> HIDE DEF r
  <2>7. Ordered(r, seq, now)
    BY <2>3, <2>5, <2>6, KeptOrdered
  <2>8. Len(r) >= MaxRoutes
    BY <2>1, <2>5, RoutesAssumption DEF Room
  <2>9. ASSUME NEW i \in DOMAIN r PROVE r[i].at >= now - TTL - 2 * Stall
    <3>1. i \in 1..Len(r) /\ 1 \in 1..Len(r) /\ Len(r) > 0 /\ (i = 1 \/ 1 < i)
      BY <2>5
    <3>2. r[i] \in Routes /\ r[1] \in Routes
      BY <2>5, <3>1
    <3>3. r[i].at \in Nat /\ r[1].at \in Nat
      BY <3>2 DEF Routes
    <3>4. 1 < i => r[i].at >= r[1].at - Stall
      BY <2>7, <3>1 DEF Ordered
    <3>5. r[1].at >= t - TTL /\ TTL \in Nat /\ Stall \in Nat /\ t \in Nat /\ now \in Nat /\ now - t <= Stall
      BY <2>2, <2>3, <2>5, <3>1, TimesAssumption
    <3>6. CASE i = 1
      BY <3>3, <3>5, <3>6
    <3>7. CASE 1 < i
      BY <3>3, <3>4, <3>5, <3>7
    <3> QED
      BY <3>1, <3>6, <3>7
  <2> QED
    BY <2>4, <2>8, <2>9 DEF b
<1>2. RefusedOnlyByLive <=> [][A]_vars
  BY DEF RefusedOnlyByLive
<1> HIDE DEF A
<1>3. Spec => [][A]_vars
  BY <1>1, RoutingInvHolds, PTL DEF Spec
<1> QED
  BY <1>2, <1>3
=============================================================================

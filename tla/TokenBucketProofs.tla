------------------------- MODULE TokenBucketProofs --------------------------
(***************************************************************************)
(* What TLAPS proves of TokenBucket: the rate bound, for all rates, bursts *)
(* and packet sizes, any number of callers, any stall and any run length.  *)
(***************************************************************************)
EXTENDS TokenBucket, TLAPS

\* The earliest clock reading that a call within the window can carry.
Base == since - Stall

\* Tokens earned in the window so far.
Earned(rate, refill, base) == IF refill >= base THEN rate * (refill - base) ELSE 0

\* What was spent in the window and what is left in the bucket were in the bucket
\* at the start or were earned since.  While the last refill predates every call
\* of the window nothing can have been spent in it.
Window(spent, tok, rate, burst) ==
    rate > 0 =>
        /\ lastRefill < Base => spent = 0
        /\ spent + tok <= burst + Earned(rate, lastRefill, Base)

\* No pending call carries a reading older than Stall.
CallsRecent == \A c \in Callers : call[c].pending => call[c].now >= clock - Stall

BucketInv ==
    /\ BucketTypeOK
    /\ CallsRecent
    /\ Window(packets, packetTok, PacketRate, PacketBurst)
    /\ Window(bytes, byteTok, ByteRate, ByteBurst)

-----------------------------------------------------------------------------
LEMMA ProductNat == \A r, x \in Nat : r * x \in Nat
  OBVIOUS

\* A burst is a number of tokens, configured or a second's worth.
LEMMA BurstNat == \A burst, rate \in Nat : Normalize(burst, rate) \in Nat
  BY SecondAssumption, ProductNat DEF Normalize

LEMMA BurstsNat == PacketBurst \in Nat /\ ByteBurst \in Nat
  BY RatesAssumption, BurstsAssumption, BurstNat DEF PacketBurst, ByteBurst

LEMMA ProductMonotone ==
  ASSUME NEW r \in Nat, NEW x \in Nat, NEW y \in Nat, x <= y
  PROVE  r * x <= r * y
<1>1. PICK d \in Nat : y = x + d
  BY y - x \in Nat
<1>2. r * y = r * x + r * d
  BY <1>1
<1> QED
  BY <1>2, ProductNat

LEMMA EarnedNat ==
  ASSUME NEW rate \in Nat, NEW refill \in Int, NEW base \in Int
  PROVE  Earned(rate, refill, base) \in Nat
<1>1. CASE refill >= base
  <2>1. refill - base \in Nat
    BY <1>1
  <2> QED
    BY <1>1, <2>1, ProductNat DEF Earned
<1>2. CASE ~(refill >= base)
  BY <1>2 DEF Earned
<1> QED
  BY <1>1, <1>2

LEMMA RefillBounds ==
  ASSUME NEW rate \in Nat, NEW burst \in Nat, NEW tok \in 0..burst,
         NEW elapsed \in Int
  PROVE  /\ Refill(tok, rate, burst, elapsed) \in 0..burst
         /\ elapsed <= 0 => Refill(tok, rate, burst, elapsed) = tok
         /\ elapsed > 0 => Refill(tok, rate, burst, elapsed) <= tok + rate * elapsed
<1>1. CASE elapsed <= 0
  BY <1>1 DEF Refill
<1>2. CASE elapsed > 0
  <2>1. rate * elapsed \in Nat /\ elapsed * rate = rate * elapsed
    BY <1>2, ProductNat
  <2> QED
    BY <1>2, <2>1 DEF Refill
<1> QED
  BY <1>1, <1>2

\* The heart of the argument: a refill at a reading not older than the window's
\* base keeps the balance of one dimension.
LEMMA RefillKeepsBalance ==
  ASSUME NEW rate \in Nat, NEW burst \in Nat, NEW tok \in 0..burst,
         NEW spent \in Nat, NEW refill \in Int, NEW base \in Int, NEW now \in Int,
         now >= base,
         refill < base => spent = 0,
         spent + tok <= burst + Earned(rate, refill, base),
         NEW next, next = IF now > refill THEN now ELSE refill
  PROVE  /\ next >= base
         /\ spent + Refill(tok, rate, burst, now - refill)
                <= burst + Earned(rate, next, base)
<1> DEFINE t == Refill(tok, rate, burst, now - refill)
<1>0. /\ t \in 0..burst
      /\ now - refill <= 0 => t = tok
      /\ now - refill > 0 => t <= tok + rate * (now - refill)
  <2>1. now - refill \in Int
    OBVIOUS
  <2> QED
    BY <2>1, RefillBounds, Zenon
<1> HIDE DEF t
<1>1. t \in 0..burst
  BY <1>0
<1>2. CASE now <= refill
  <2>1. t = tok /\ next = refill
    BY <1>0, <1>2
  <2>2. refill >= base
    BY <1>2
  <2> QED
    BY <2>1, <2>2 DEF t
<1>3. CASE now > refill /\ refill < base
  <2>1. rate * (now - base) \in Nat
    BY now - base \in Nat, ProductNat
  <2> QED
    BY <1>1, <1>3, <2>1 DEF Earned, t
<1>4. CASE now > refill /\ refill >= base
  <2>1. t <= tok + rate * (now - refill)
    BY <1>0, <1>4
  <2>2. rate * (now - base) = rate * (now - refill) + rate * (refill - base)
    OBVIOUS
  <2> QED
    BY <1>1, <1>4, <2>1, <2>2 DEF Earned, t
<1> QED
  BY <1>2, <1>3, <1>4

-----------------------------------------------------------------------------
LEMMA BucketInvInit == Init => BucketInv
<1> SUFFICES ASSUME Init PROVE BucketInv
  OBVIOUS
<1> USE RatesAssumption, BucketTimesAssumption, BurstsNat
<1>1. CallsRecent
  BY DEF Init, CallsRecent, NoCall
<1>2. call \in [Callers -> [pending : BOOLEAN, size : Sizes \cup {0}, now : 0..clock]]
  BY DEF Init, NoCall
<1>3. BucketTypeOK
  BY <1>2 DEF Init, BucketTypeOK
<1>4. /\ lastRefill = 0 /\ since = 0 /\ packets = 0 /\ bytes = 0
      /\ packetTok \in 0..PacketBurst /\ byteTok \in 0..ByteBurst
  BY DEF Init
<1>5. \A rate \in Nat : Earned(rate, 0, 0 - Stall) \in Nat
  BY ProductNat DEF Earned
<1>6. Window(packets, packetTok, PacketRate, PacketBurst)
  BY <1>4, <1>5 DEF Window, Base
<1>7. Window(bytes, byteTok, ByteRate, ByteBurst)
  BY <1>4, <1>5 DEF Window, Base
<1> QED
  BY <1>1, <1>3, <1>6, <1>7 DEF BucketInv

LEMMA BucketInvStep == BucketInv /\ [Next]_vars => BucketInv'
<1> SUFFICES ASSUME BucketInv, [Next]_vars PROVE BucketInv'
  OBVIOUS
<1> USE RatesAssumption, BucketTimesAssumption, SizesAssumption, BurstsNat
<1>ty. BucketTypeOK /\ CallsRecent
  BY DEF BucketInv
<1>w. /\ Window(packets, packetTok, PacketRate, PacketBurst)
      /\ Window(bytes, byteTok, ByteRate, ByteBurst)
  BY DEF BucketInv
<1>1. ASSUME NEW c \in Callers, NEW n \in Sizes, Stamp(c, n) PROVE BucketInv'
  <2>1. BucketTypeOK'
    BY <1>1, <1>ty DEF Stamp, BucketTypeOK
  <2>2. CallsRecent'
    BY <1>1, <1>ty DEF Stamp, BucketTypeOK, CallsRecent
  <2>3. (Window(packets, packetTok, PacketRate, PacketBurst)
         /\ Window(bytes, byteTok, ByteRate, ByteBurst))'
    BY <1>1, <1>w DEF Stamp, Window, Base
  <2> QED
    BY <2>1, <2>2, <2>3 DEF BucketInv
<1>2. ASSUME NEW c \in Callers, Allow(c) PROVE BucketInv'
  <2> DEFINE n   == call[c].size
             now == call[c].now
             pt  == Refill(packetTok, PacketRate, PacketBurst, now - lastRefill)
             bt  == Refill(byteTok, ByteRate, ByteBurst, now - lastRefill)
  <2>c. call[c] \in [pending : BOOLEAN, size : Sizes \cup {0}, now : 0..clock]
    BY <1>ty DEF BucketTypeOK
  <2>p. call[c].now >= clock - Stall
    BY <1>2, <1>ty, Zenon DEF Allow, CallsRecent
  <2>1. /\ n \in Nat /\ now \in 0..clock /\ now >= clock - Stall
        /\ lastRefill \in 0..clock /\ since \in 0..clock /\ clock \in 0..MaxTime
        /\ packetTok \in 0..PacketBurst /\ byteTok \in 0..ByteBurst
        /\ packets \in Nat /\ bytes \in Nat
    <3>1. n \in Sizes \cup {0} /\ now \in 0..clock
      BY <2>c
    <3>2. Sizes \cup {0} \subseteq Nat
      BY SizesAssumption
    <3>3. n \in Nat
      BY <3>1, <3>2, Zenon
    <3> QED
      BY <1>ty, <2>p, <3>1, <3>3 DEF BucketTypeOK
  <2>i. now - lastRefill \in Int /\ now \in Int /\ lastRefill \in Int
    BY <2>1
  <2>2. now >= Base /\ Base \in Int /\ since' = since /\ clock' = clock
    BY <1>2, <2>1 DEF Allow, Base
  <2>3. lastRefill' = IF now > lastRefill THEN now ELSE lastRefill
    BY <1>2 DEF Allow, RefilledAt
  <2>4. pt \in 0..PacketBurst /\ bt \in 0..ByteBurst
    BY <2>1, <2>i, RatesAssumption, BurstsNat, RefillBounds, Zenon
  <2>5. \/ /\ packetTok' = (IF PacketRate > 0 THEN pt - 1 ELSE pt)
           /\ byteTok' = (IF ByteRate > 0 THEN bt - n ELSE bt)
           /\ PacketRate > 0 => pt >= 1
           /\ ByteRate > 0 => bt >= n
           /\ packets' = packets + 1 /\ bytes' = bytes + n
        \/ packetTok' = pt /\ byteTok' = bt /\ packets' = packets /\ bytes' = bytes
    BY <1>2 DEF Allow, Enough, Spend
  <2>6. PacketRate > 0 =>
          lastRefill' >= Base /\ packets + pt <= PacketBurst + Earned(PacketRate, lastRefill', Base)
    <3> HAVE PacketRate > 0
    <3>1. /\ lastRefill < Base => packets = 0
          /\ packets + packetTok <= PacketBurst + Earned(PacketRate, lastRefill, Base)
      BY <1>w, Zenon DEF Window
    <3>2. /\ PacketRate \in Nat /\ PacketBurst \in Nat /\ packetTok \in 0..PacketBurst /\ packets \in Nat
          /\ lastRefill \in Int /\ now \in Int /\ Base \in Int /\ now >= Base
      BY <2>1, <2>2, <2>i, RatesAssumption, BurstsNat, Zenon
    <3> HIDE RatesAssumption, BucketTimesAssumption, SizesAssumption, BurstsNat
    <3> QED
      BY <2>3, <3>1, <3>2, RefillKeepsBalance, Zenon
  <2>7. ByteRate > 0 =>
          lastRefill' >= Base /\ bytes + bt <= ByteBurst + Earned(ByteRate, lastRefill', Base)
    <3> HAVE ByteRate > 0
    <3>1. /\ lastRefill < Base => bytes = 0
          /\ bytes + byteTok <= ByteBurst + Earned(ByteRate, lastRefill, Base)
      BY <1>w, Zenon DEF Window
    <3>2. /\ ByteRate \in Nat /\ ByteBurst \in Nat /\ byteTok \in 0..ByteBurst /\ bytes \in Nat
          /\ lastRefill \in Int /\ now \in Int /\ Base \in Int /\ now >= Base
      BY <2>1, <2>2, <2>i, RatesAssumption, BurstsNat, Zenon
    <3> HIDE RatesAssumption, BucketTimesAssumption, SizesAssumption, BurstsNat
    <3> QED
      BY <2>3, <3>1, <3>2, RefillKeepsBalance, Zenon
  <2>8. lastRefill' \in 0..clock /\ Base' = Base
    BY <2>1, <2>2, <2>3 DEF Base
  <2>9. call' \in [Callers -> [pending : BOOLEAN, size : Sizes \cup {0}, now : 0..clock]]
    BY <1>2, <1>ty, <2>1 DEF Allow, BucketTypeOK, NoCall
  <2>10. BucketTypeOK'
    BY <2>1, <2>2, <2>4, <2>5, <2>8, <2>9 DEF BucketTypeOK
  <2>11. CallsRecent'
    BY <1>2, <1>ty, <2>2 DEF Allow, CallsRecent, BucketTypeOK, NoCall
  <2>12. \A r \in Nat : Earned(r, lastRefill', Base) \in Nat
    <3>1. lastRefill' \in Int /\ Base \in Int
      BY <2>i, <2>2, <2>3
    <3> QED
      BY <3>1, EarnedNat, Zenon
  <2>13. Window(packets, packetTok, PacketRate, PacketBurst)'
    BY <2>1, <2>2, <2>4, <2>5, <2>6, <2>8, <2>12 DEF Window
  <2>14. Window(bytes, byteTok, ByteRate, ByteBurst)'
    BY <2>1, <2>2, <2>4, <2>5, <2>7, <2>8, <2>12 DEF Window
  <2> QED
    BY <2>10, <2>11, <2>13, <2>14 DEF BucketInv
<1>3. CASE Observe
  <2>1. BucketTypeOK' /\ CallsRecent'
    BY <1>3, <1>ty DEF Observe, BucketTypeOK, CallsRecent
  <2>2. \A r \in Nat : Earned(r, lastRefill, clock - Stall) \in Nat
    BY <1>ty, ProductNat DEF Earned, BucketTypeOK
  <2>3. Window(packets, packetTok, PacketRate, PacketBurst)'
    BY <1>3, <1>ty, <2>2 DEF Observe, Window, Base, BucketTypeOK
  <2>4. Window(bytes, byteTok, ByteRate, ByteBurst)'
    BY <1>3, <1>ty, <2>2 DEF Observe, Window, Base, BucketTypeOK
  <2> QED
    BY <2>1, <2>3, <2>4 DEF BucketInv
<1>4. CASE Tick
  <2>1. BucketTypeOK'
    BY <1>4, <1>ty DEF Tick, BucketTypeOK
  <2>2. CallsRecent'
    BY <1>4, <1>ty DEF Tick, BucketTypeOK, CallsRecent
  <2>3. (Window(packets, packetTok, PacketRate, PacketBurst)
         /\ Window(bytes, byteTok, ByteRate, ByteBurst))'
    BY <1>4, <1>w DEF Tick, Window, Base
  <2> QED
    BY <2>1, <2>2, <2>3 DEF BucketInv
<1>5. CASE UNCHANGED vars
  BY <1>5 DEF vars, BucketInv, BucketTypeOK, CallsRecent, Window, Base
<1> QED
  BY <1>1, <1>2, <1>3, <1>4, <1>5 DEF Next

\* The balance and the length of the window give the bound.
LEMMA BucketInvImpliesRateBound == BucketInv => RateBound
<1> SUFFICES ASSUME BucketInv PROVE RateBound
  OBVIOUS
<1> USE RatesAssumption, BucketTimesAssumption, BurstsNat
<1>1. /\ lastRefill \in 0..clock /\ since \in 0..clock /\ clock \in 0..MaxTime
      /\ packetTok \in 0..PacketBurst /\ byteTok \in 0..ByteBurst
      /\ packets \in Nat /\ bytes \in Nat
  BY DEF BucketInv, BucketTypeOK
<1>2. ASSUME NEW r \in Nat
      PROVE  Earned(r, lastRefill, Base) <= r * (clock - since + Stall)
             /\ Earned(r, lastRefill, Base) \in Nat /\ r * (clock - since + Stall) \in Nat
  <2>1. clock - since + Stall \in Nat
    BY <1>1
  <2>2. CASE lastRefill >= Base
    <3>1. lastRefill - Base \in Nat /\ lastRefill - Base <= clock - since + Stall
      BY <1>1, <2>2 DEF Base
    <3> QED
      BY <2>1, <2>2, <3>1, ProductMonotone, ProductNat DEF Earned
  <2>3. CASE ~(lastRefill >= Base)
    BY <2>1, <2>3, ProductNat DEF Earned
  <2> QED
    BY <2>2, <2>3
<1>3. PacketRate > 0 => packets <= PacketBurst + PacketRate * (clock - since + Stall)
  BY <1>1, <1>2 DEF BucketInv, Window
<1>4. ByteRate > 0 => bytes <= ByteBurst + ByteRate * (clock - since + Stall)
  BY <1>1, <1>2 DEF BucketInv, Window
<1> QED
  BY <1>3, <1>4 DEF RateBound

\* The tokens of a bucket stay between 0 and the burst (shaping.go:66): no caller
\* overdraws it and no refill overfills it.
THEOREM BucketTypeCorrect == Spec => []BucketTypeOK
<1>1. BucketInv => BucketTypeOK
  BY DEF BucketInv
<1> QED
  BY <1>1, BucketInvInit, BucketInvStep, PTL DEF Spec

\* The rate limit (shaping.go:59): over any window of time, whatever the order in
\* which the goroutines' clock readings reach the bucket.
THEOREM RateLimited == Spec => []RateBound
  BY BucketInvInit, BucketInvStep, BucketInvImpliesRateBound, PTL DEF Spec

-----------------------------------------------------------------------------
(* The supply                                                              *)

LEMMA RefillKeepsSupply ==
  ASSUME NEW rate \in Nat, rate > 0, NEW burst \in Nat, NEW tok \in 0..burst,
         NEW spent \in Nat, NEW refill \in Int, NEW opened \in Int, NEW now \in Int,
         tok + spent >= burst \/ tok + spent >= rate * (refill - opened),
         NEW next, next = IF now > refill THEN now ELSE refill,
         NEW t, t = Refill(tok, rate, burst, now - refill)
  PROVE  t + spent >= burst \/ t + spent >= rate * (next - opened)
<1>1. CASE now <= refill
  BY <1>1 DEF Refill
<1>2. CASE now > refill
  <2>1. (now - refill) * rate \in Nat
    BY <1>2, ProductNat
  <2>2. t = burst \/ t = tok + (now - refill) * rate
    BY <1>2 DEF Refill
  <2>3. rate * (now - opened) = (now - refill) * rate + rate * (refill - opened)
    OBVIOUS
  <2>4. rate * (refill - opened) \in Int /\ rate * (now - opened) \in Int /\ next = now
    BY <1>2
  <2> HIDE DEF Refill
  <2> QED
    BY <2>1, <2>2, <2>3, <2>4
<1> QED
  BY <1>1, <1>2

\* A window that has just opened was supplied with nothing yet.
LEMMA SupplyOpens ==
  ASSUME NEW rate \in Nat, NEW tok \in Nat, NEW refill \in Nat, NEW now \in Nat, refill <= now
  PROVE  tok >= rate * (refill - now)
<1>1. rate * (now - refill) \in Nat
  BY now - refill \in Nat, ProductNat
<1>2. rate * (refill - now) = 0 - rate * (now - refill)
  OBVIOUS
<1> QED
  BY <1>1, <1>2

LEMMA SupplyStep == BucketInv /\ SupplyBound /\ [Next]_vars => SupplyBound'
<1> SUFFICES ASSUME BucketInv, SupplyBound, [Next]_vars PROVE SupplyBound'
  OBVIOUS
<1> USE RatesAssumption, BurstsNat
<1>ty. /\ lastRefill \in 0..clock /\ since \in 0..clock /\ clock \in Nat
       /\ packetTok \in 0..PacketBurst /\ byteTok \in 0..ByteBurst
       /\ packets \in Nat /\ bytes \in Nat
  BY BucketTimesAssumption DEF BucketInv, BucketTypeOK
<1>1. ASSUME NEW c \in Callers, Allow(c) PROVE SupplyBound'
  <2> DEFINE n   == call[c].size
             now == call[c].now
             pt  == Refill(packetTok, PacketRate, PacketBurst, now - lastRefill)
             bt  == Refill(byteTok, ByteRate, ByteBurst, now - lastRefill)
  <2>1. n \in Nat /\ now \in Int /\ now - lastRefill \in Int
    <3>1. call[c] \in [pending : BOOLEAN, size : Sizes \cup {0}, now : 0..clock]
      BY DEF BucketInv, BucketTypeOK
    <3>2. Sizes \cup {0} \subseteq Nat
      BY SizesAssumption
    <3> QED
      BY <1>ty, <3>1, <3>2
  <2>2. lastRefill' = (IF now > lastRefill THEN now ELSE lastRefill) /\ since' = since
    BY <1>1 DEF Allow, RefilledAt
  <2>3. \/ /\ packetTok' = (IF PacketRate > 0 THEN pt - 1 ELSE pt)
           /\ byteTok' = (IF ByteRate > 0 THEN bt - n ELSE bt)
           /\ packets' = packets + 1 /\ bytes' = bytes + n
        \/ packetTok' = pt /\ byteTok' = bt /\ packets' = packets /\ bytes' = bytes
    BY <1>1 DEF Allow, Enough, Spend
  <2>4. pt \in 0..PacketBurst /\ bt \in 0..ByteBurst
    BY <1>ty, <2>1, RatesAssumption, BurstsNat, RefillBounds, Zenon
  <2>5. ASSUME PacketRate > 0
        PROVE  \/ pt + packets >= PacketBurst
               \/ pt + packets >= PacketRate * (lastRefill' - since)
    <3>1. lastRefill \in Int /\ since \in Int
      BY <1>ty
    <3>2. packetTok + packets >= PacketBurst \/ packetTok + packets >= PacketRate * (lastRefill - since)
      BY <2>5, Zenon DEF SupplyBound, Supplied
    <3> QED
      BY <1>ty, <2>1, <2>2, <2>5, <3>1, <3>2, RefillKeepsSupply, Zenon
  <2>6. ASSUME ByteRate > 0
        PROVE  \/ bt + bytes >= ByteBurst
               \/ bt + bytes >= ByteRate * (lastRefill' - since)
    <3>1. lastRefill \in Int /\ since \in Int
      BY <1>ty
    <3>2. byteTok + bytes >= ByteBurst \/ byteTok + bytes >= ByteRate * (lastRefill - since)
      BY <2>6, Zenon DEF SupplyBound, Supplied
    <3> QED
      BY <1>ty, <2>1, <2>2, <2>6, <3>1, <3>2, RefillKeepsSupply, Zenon
  <2> HIDE DEF pt, bt, n
  <2>7. PacketRate > 0 => packetTok' + packets' = pt + packets
    BY <1>ty, <2>3, <2>4
  <2>8. ByteRate > 0 => byteTok' + bytes' = bt + bytes
    BY <1>ty, <2>1, <2>3, <2>4
  <2> QED
    BY <2>2, <2>5, <2>6, <2>7, <2>8 DEF SupplyBound, Supplied
<1>2. CASE Observe
  <2>1. \A rate \in Nat, tok \in Nat : tok >= rate * (lastRefill - clock)
    BY <1>ty, SupplyOpens
  <2>2. packetTok + 0 = packetTok /\ byteTok + 0 = byteTok /\ packetTok \in Nat /\ byteTok \in Nat
    BY <1>ty
  <2> QED
    BY <1>2, <2>1, <2>2 DEF Observe, SupplyBound, Supplied
<1>3. CASE UNCHANGED <<lastRefill, packetTok, byteTok, since, packets, bytes>>
  BY <1>3 DEF SupplyBound, Supplied
<1> QED
  BY <1>1, <1>2, <1>3 DEF Next, Stamp, Tick, vars

\* A bucket withholds nothing (shaping.go:66): what it has left and what it let
\* through in a window make up the burst or the rate's supply since then.
THEOREM NothingWithheld == Spec => []SupplyBound
<1>1. Init => SupplyBound
  BY RatesAssumption, BurstsNat DEF Init, SupplyBound, Supplied
<1> QED
  BY <1>1, BucketInvInit, BucketInvStep, SupplyStep, PTL DEF Spec
=============================================================================

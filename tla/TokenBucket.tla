---------------------------- MODULE TokenBucket -----------------------------
(***************************************************************************)
(* internal/shaping/shaping.go: a Bucket shared by the goroutines that     *)
(* call Allow.  Each caller reads the clock before it takes the bucket's   *)
(* mutex, so Allow sees times that are late and out of order.              *)
(*                                                                         *)
(* One unit of time is a clock tick and the rates are per tick, so that    *)
(* tokens are integers; the rounding of float64 tokens is left out.        *)
(***************************************************************************)
EXTENDS WallClock

CONSTANTS
    PacketRate, ByteRate,      \* limits.PacketsPerSecond, BytesPerSecond; 0: no limit
    BurstPackets, BurstBytes,  \* limits.BurstPackets, BurstBytes as configured
    Callers,                   \* goroutines calling Allow
    Sizes,                     \* packet sizes in bytes
    Stall,                     \* longest time between a caller's clock reading and Allow
    MaxTime                    \* bound: clock

ASSUME RatesAssumption == PacketRate \in Nat /\ ByteRate \in Nat
ASSUME BurstsAssumption == BurstPackets \in Nat /\ BurstBytes \in Nat
ASSUME SizesAssumption == Sizes \subseteq Nat
ASSUME BucketTimesAssumption == Stall \in Nat /\ MaxTime \in Nat

\* Limits.Normalize: a limited dimension without a burst gets a second's worth.
Normalize(burst, rate) == IF burst <= 0 /\ rate > 0 THEN rate * Second ELSE burst

PacketBurst == Normalize(BurstPackets, PacketRate)
ByteBurst   == Normalize(BurstBytes, ByteRate)

VARIABLES
    lastRefill,           \* b.lastRefill
    packetTok, byteTok,   \* b.packetTok, b.byteTok
    call,                 \* each caller's pending Allow: its size and its clock reading
    clock,
    since,                \* history: the start of the observed window
    packets, bytes        \* history: what was admitted in the window

vars == <<lastRefill, packetTok, byteTok, call, clock, since, packets, bytes>>

NoCall == [pending |-> FALSE, size |-> 0, now |-> 0]

BucketTypeOK ==
    /\ lastRefill \in 0..clock
    /\ packetTok \in 0..PacketBurst
    /\ byteTok \in 0..ByteBurst
    /\ call \in [Callers -> [pending : BOOLEAN, size : Sizes \cup {0}, now : 0..clock]]
    /\ clock \in 0..MaxTime
    /\ since \in 0..clock
    /\ packets \in Nat
    /\ bytes \in Nat

\* NewBucket: a limited dimension starts full.
Init ==
    /\ lastRefill = 0
    /\ packetTok = IF PacketRate > 0 THEN PacketBurst ELSE 0
    /\ byteTok = IF ByteRate > 0 THEN ByteBurst ELSE 0
    /\ call = [c \in Callers |-> NoCall]
    /\ clock = 0
    /\ since = 0
    /\ packets = 0
    /\ bytes = 0

\* The caller reads time.Now() for a packet of n bytes.
Stamp(c, n) ==
    /\ ~call[c].pending
    /\ call' = [call EXCEPT ![c] = [pending |-> TRUE, size |-> n, now |-> clock]]
    /\ UNCHANGED <<lastRefill, packetTok, byteTok, clock, since, packets, bytes>>

\* tok += elapsed * rate, cut off at the burst.
RefillUncapped(tok, rate, burst, elapsed) == tok + elapsed * rate
RefillAfresh(tok, rate, burst, elapsed) ==
    IF rate > 0 /\ elapsed > 0
    THEN IF elapsed * rate > burst THEN burst ELSE elapsed * rate
    ELSE tok
Refill(tok, rate, burst, elapsed) ==
    IF rate > 0 /\ elapsed > 0
    THEN IF tok + elapsed * rate > burst THEN burst ELSE tok + elapsed * rate
    ELSE tok

Enough(tok, rate, n) == rate > 0 => tok >= n

Spend(tok, rate, n) == IF rate > 0 THEN tok - n ELSE tok

\* lastRefill never goes back: a late reading adds nothing.
RefilledAlways(now) == now
RefilledAt(now) == IF now > lastRefill THEN now ELSE lastRefill

\* Bucket.Allow, under the bucket's mutex.
Allow(c) ==
    LET n   == call[c].size
        now == call[c].now
        pt  == Refill(packetTok, PacketRate, PacketBurst, now - lastRefill)
        bt  == Refill(byteTok, ByteRate, ByteBurst, now - lastRefill)
    IN  /\ call[c].pending
        /\ lastRefill' = RefilledAt(now)
        /\ \/ /\ Enough(pt, PacketRate, 1) /\ Enough(bt, ByteRate, n)
              /\ packetTok' = Spend(pt, PacketRate, 1)
              /\ byteTok' = Spend(bt, ByteRate, n)
              /\ packets' = packets + 1
              /\ bytes' = bytes + n
           \/ /\ ~(Enough(pt, PacketRate, 1) /\ Enough(bt, ByteRate, n))
              /\ packetTok' = pt
              /\ byteTok' = bt
              /\ UNCHANGED <<packets, bytes>>
        /\ call' = [call EXCEPT ![c] = NoCall]
        /\ UNCHANGED <<clock, since>>

\* A window of observation may open at any time.
Observe ==
    /\ since' = clock
    /\ packets' = 0
    /\ bytes' = 0
    /\ UNCHANGED <<lastRefill, packetTok, byteTok, call, clock>>

Tick ==
    /\ clock < MaxTime
    /\ \A c \in Callers : call[c].pending => clock - call[c].now < Stall
    /\ clock' = clock + 1
    /\ UNCHANGED <<lastRefill, packetTok, byteTok, call, since, packets, bytes>>

Next ==
    \/ \E c \in Callers : (\E n \in Sizes : Stamp(c, n)) \/ Allow(c)
    \/ Observe
    \/ Tick

Spec == Init /\ [][Next]_vars

-----------------------------------------------------------------------------
\* In any window of time, whenever it opens, no more packets and bytes pass than
\* the burst and the rate times the window's length, counted from the earliest
\* clock reading a call in the window can carry (shaping.go:59).  Late and
\* out-of-order readings earn no token twice.
RateBound ==
    /\ PacketRate > 0 => packets <= PacketBurst + PacketRate * (clock - since + Stall)
    /\ ByteRate > 0 => bytes <= ByteBurst + ByteRate * (clock - since + Stall)

\* Whether the tokens left and those spent in the window make up what was due.
Supplied(tok, spent, rate, burst) ==
    tok + spent >= burst \/ tok + spent >= rate * (lastRefill - since)

\* A bucket withholds nothing: the tokens it still has and the traffic it charged
\* in the window make up the burst or what the rate has supplied since the window
\* opened (shaping.go:66), so it refuses a packet only when others took its share.
\* A packet refused for its bytes has cost no packet token (shaping.go:86-96).
SupplyBound ==
    /\ PacketRate > 0 => Supplied(packetTok, packets, PacketRate, PacketBurst)
    /\ ByteRate > 0 => Supplied(byteTok, bytes, ByteRate, ByteBurst)
=============================================================================

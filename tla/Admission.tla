----------------------------- MODULE Admission ------------------------------
(***************************************************************************)
(* internal/frontend/frontend.go: what readLoop puts a packet through      *)
(* before the session cap: size, fragments, allowShaped (the global bucket *)
(* of TokenBucket, the frontend's bucket, ClientLimiter) and the abuse     *)
(* protector, all with one clock reading.  A reader is a caller of each;   *)
(* the limiters are shared by the readers of all frontends, so a reading   *)
(* may be late at any of them.                                             *)
(***************************************************************************)
EXTENDS ClientLimiter, AbuseProtector, Sequences

CONSTANTS
    FrontendRate, FrontendBurst,  \* the frontend's shaper: packets per second, burst
    MaxPacketSize,                \* f.maxPacketSize
    WatchedSecond,                \* the second the history follows
    Policies                      \* the limiters that are not nil, the packets that
                                  \* may come at each time, and until when

\* Start runs at least one reader, whatever workers says (frontend.go:147).
ASSUME ReadersAssumption == Callers # {}

ASSUME FrontendRatesAssumption == FrontendRate \in Nat \ {0} /\ FrontendBurst \in Nat

\* start gives the limiter and the protector the same session_timeout.
ASSUME SameClientsAssumption == Addresses = Clients /\ SessionTtl = Ttl

Packets == [client : Clients, port : Ports, size : Sizes, fragment : BOOLEAN]

ASSUME PoliciesAssumption ==
    \A q \in Policies :
        /\ q.maxRate \in Nat /\ q.maxPorts \in Nat
        /\ \A t \in 0..MaxTime : q.traffic[t] \subseteq Packets

ASSUME WatchedSecondAssumption == WatchedSecond \in Nat

VARIABLES
    policy,      \* the policy in use
    pkt,         \* each reader's packet and its place in readLoop
    shaper,      \* the frontend's bucket
    second,      \* history: the watched client's packets admitted with a reading
                 \* of the watched second
    tried, used  \* history: latest reading with which a port was tried, was admitted

historyVars == <<second, tried, used>>
allVars == <<vars, limiterVars, policy, pkt, shaper, abuseVars, historyVars>>

Order == <<"global", "frontend", "client", "abuse">>

\* fate: whether the reader's last packet was refused for its port.
Idle(f) == [at |-> "idle", client |-> "", port |-> "", now |-> 0, bucket |-> 0, fate |-> f]

FrontendCap == Normalize(FrontendBurst, FrontendRate)

Records ==
    [known : BOOLEAN, window : Int, packets : Nat, lastSeen : Int, lastSweep : Int,
     sessions : [Ports -> Int]]

AdmissionTypeOK ==
    /\ BucketTypeOK
    /\ LimiterTypeOK
    /\ policy \in Policies
    /\ pkt \in [Callers -> [at : {"idle", "global", "frontend", "client", "bucket", "abuse"},
                            client : Clients \cup {""}, port : Ports \cup {""}, now : 0..clock,
                            bucket : Names \cup {0}, fate : {"", "ports"}]]
    /\ shaper \in [tok : 0..FrontendCap, lastRefill : 0..clock]
    /\ maxRate \in Nat /\ maxPorts \in Nat
    /\ records \in [Addresses -> Records]
    /\ sweptAt \in Unix0..clock
    /\ second \in Nat
    /\ tried \in [Ports -> Never..clock]
    /\ used \in [Ports -> Never..clock]

AdmissionInit ==
    /\ Init
    /\ LimiterInit
    /\ policy \in Policies
    /\ AbuseInit(policy.maxRate, policy.maxPorts)
    /\ pkt = [c \in Callers |-> Idle("")]
    /\ shaper = [tok |-> FrontendCap, lastRefill |-> 0]
    /\ second = 0
    /\ tried = [p \in Ports |-> Never]
    /\ used = [p \in Ports |-> Never]

\* The place in readLoop after the first n limiters: a limiter that is nil is passed over.
Place(n) ==
    LET left == {i \in (n + 1)..Len(Order) : Order[i] \in policy.chain}
    IN  IF left = {} THEN "idle" ELSE Order[CHOOSE i \in left : \A j \in left : i <= j]

Passes(c, n) ==
    pkt' = [pkt EXCEPT ![c] = IF Place(n) = "idle" THEN Idle("")
                              ELSE [@ EXCEPT !.at = Place(n), !.bucket = 0]]
Drops(c) == pkt' = [pkt EXCEPT ![c] = Idle("")]

At(c, l) == pkt[c].at = l /\ UNCHANGED policy

\* A datagram that is too large or a fragment is dropped before any limiter sees it.
Discard(c, q) ==
    /\ At(c, "idle")
    /\ q.size > MaxPacketSize \/ q.fragment
    /\ Drops(c)
    /\ UNCHANGED <<vars, limiterVars, shaper, abuseVars, historyVars>>

\* now := time.Now(), the one reading for the whole chain.
Receive(c, q) ==
    /\ At(c, "idle")
    /\ ~(q.size > MaxPacketSize \/ q.fragment)
    /\ pkt' = [pkt EXCEPT ![c] = [at |-> Place(0), client |-> q.client, port |-> q.port,
                                  now |-> clock, bucket |-> 0, fate |-> ""]]
    /\ IF "global" \in policy.chain THEN Stamp(c, q.size) ELSE UNCHANGED vars
    /\ UNCHANGED <<limiterVars, shaper, abuseVars, historyVars>>

\* allowShaped: a token taken here is gone, whatever the next limiters say.
GlobalShaper(c) ==
    /\ At(c, "global")
    /\ Allow(c)
    /\ IF packets' > packets THEN Passes(c, 1) ELSE Drops(c)
    /\ UNCHANGED <<limiterVars, shaper, abuseVars, historyVars>>

FrontendShaper(c) ==
    /\ At(c, "frontend")
    /\ shaper' = SpendFrom(shaper, FrontendRate, FrontendCap, pkt[c].now)
    /\ IF Refilled(shaper, FrontendRate, FrontendCap, pkt[c].now).tok >= 1
       THEN Passes(c, 2) ELSE Drops(c)
    /\ UNCHANGED <<vars, limiterVars, abuseVars, historyVars>>

InUse(c) == {pkt[d].bucket : d \in Callers \ {c}}

ClientEntry(c) ==
    /\ At(c, "client")
    /\ \E b \in Names :
          /\ FindBucket(pkt[c].client, b, pkt[c].now, InUse(c))
          /\ pkt' = [pkt EXCEPT ![c].at = "bucket", ![c].bucket = b]
    /\ UNCHANGED <<vars, shaper, abuseVars, historyVars>>

ClientBucket(c) ==
    /\ At(c, "bucket")
    /\ \E ok \in BOOLEAN :
          /\ UseBucket(pkt[c].client, pkt[c].bucket, pkt[c].now, InUse(c), ok)
          /\ IF ok THEN Passes(c, 3) ELSE Drops(c)
    /\ UNCHANGED <<vars, shaper, abuseVars, historyVars>>

\* A packet of the watched client and the watched second.
InSecond(a, now) == a = Watched /\ Unix(now) = WatchedSecond

Later(h, a, p, now) == IF a = Watched /\ now > h[p] THEN [h EXCEPT ![p] = now] ELSE h

Abuse(c) ==
    LET a   == pkt[c].client
        p   == pkt[c].port
        now == pkt[c].now
    IN  /\ At(c, "abuse")
        /\ \E verdict \in {"pass", "rate", "ports"} :
              /\ AbuseAllow(a, p, now, verdict)
              /\ pkt' = [pkt EXCEPT ![c] = Idle(IF verdict = "ports" THEN "ports" ELSE "")]
              /\ second' = IF maxRate > 0 /\ verdict = "pass" /\ InSecond(a, now)
                           THEN second + 1 ELSE second
              /\ tried' = IF maxPorts > 0 /\ verdict # "rate" THEN Later(tried, a, p, now) ELSE tried
              /\ used' = IF maxPorts > 0 /\ verdict = "pass" THEN Later(used, a, p, now) ELSE used
        /\ UNCHANGED <<vars, limiterVars, shaper>>

\* A window of observation opens.
AdmissionObserve ==
    /\ policy.chain \cap {"global", "client"} # {}
    /\ Observe
    /\ passed' = 0
    /\ UNCHANGED <<entries, buckets, lastSweep, policy, pkt, shaper, abuseVars, historyVars>>

\* Times so long past that no property looks at them.
Recent(h, age) ==
    [p \in Ports |-> IF h[p] < clock - age THEN Never ELSE h[p]]

AdmissionTick ==
    /\ clock < policy.until
    /\ \A c \in Callers : pkt[c].at # "idle" => clock - pkt[c].now < Stall
    /\ Tick
    /\ tried' = Recent(tried, 2 * Ttl + Second + Stall)
    /\ used' = Recent(used, Ttl)
    /\ UNCHANGED <<limiterVars, policy, pkt, shaper, abuseVars, second>>

ReaderStep(c) ==
    \/ \E q \in policy.traffic[clock] : Discard(c, q) \/ Receive(c, q)
    \/ GlobalShaper(c) \/ FrontendShaper(c) \/ ClientEntry(c) \/ ClientBucket(c) \/ Abuse(c)

AdmissionNext ==
    \/ \E c \in Callers : ReaderStep(c)
    \/ AdmissionObserve
    \/ AdmissionTick

AdmissionSpec == AdmissionInit /\ [][AdmissionNext]_allVars

-----------------------------------------------------------------------------
(* Properties                                                              *)

\* Of the packets of one client with readings of one second, with however many
\* interleaved calls of other seconds, pass at most max_packets_per_second_per_ip
\* for each reader, and one more for each reader but one: a reading of another
\* second sets the count back to zero (abuse.go:79), and every reader can come with
\* one of the second before once the second has begun, or with one of this second
\* once it is over.  A single reader keeps to the limit.
SecondBound == maxRate > 0 => second < (maxRate + 1) * Cardinality(Callers)

\* No more than max_sessions_per_ip ports of one client are admitted within the
\* session timeout, less the time a reading may be late, whatever sweeps come in
\* between (abuse.go:96).
PortsWithinLimit ==
    maxPorts > 0 =>
        Cardinality({p \in Ports : used[p] >= clock - (Ttl - Stall)}) <= maxPorts

\* A client is refused for its ports only if it has tried more than the limit
\* within twice the session timeout, and what the sweeps lose by counting whole
\* seconds: a port is forgotten at the second sweep after its last packet at the
\* latest (abuse.go:95), and refused ones count too.
RefusedPortsRecent ==
    [][\A c \in Callers :
          pkt[c].at = "abuse" /\ pkt[c].client = Watched /\ pkt'[c].fate = "ports" =>
              Cardinality({p \in Ports : tried'[p] > pkt[c].now - (2 * Ttl + Second - 1)})
                  > maxPorts]_allVars
=============================================================================

--------------------------- MODULE AbuseProtector ---------------------------
(***************************************************************************)
(* internal/abuse/abuse.go: Protector, which counts each address's packets *)
(* in the current second and the ports it has used.  Allow is one step     *)
(* under the shard's mutex, but with a clock reading that may be older     *)
(* than the one of the call before.                                        *)
(*                                                                         *)
(* The addresses of one shard; their records hold whole seconds.           *)
(***************************************************************************)
EXTENDS WallClock, FiniteSets

CONSTANTS
    Addresses,  \* source addresses of the shard
    Ports,      \* source ports
    SessionTtl  \* cfg.SessionTTL, in ticks

ASSUME SessionTtlAssumption == SessionTtl \in Nat \ {0}
ASSUME PortsAssumption == IsFiniteSet(Ports)

VARIABLES
    maxRate,    \* cfg.MaxPacketsPerSecond, 0 for no limit
    maxPorts,   \* cfg.MaxSessionsPerClient, 0 for no limit
    records,    \* sh.entries
    sweptAt     \* sh.lastSweep

abuseVars == <<maxRate, maxPorts, records, sweptAt>>

\* A port that is not in the map, and the zero time, long before the present for
\* any SessionTtl.
Never == -2 * SessionTtl - 1
Unix0 == -SessionTtl

NoRecord == [known |-> FALSE, window |-> Unix0, packets |-> 0, lastSeen |-> Unix0,
             lastSweep |-> Unix0, sessions |-> [p \in Ports |-> Never]]

AbuseInit(rate, ports) ==
    /\ maxRate = rate
    /\ maxPorts = ports
    /\ records = [a \in Addresses |-> NoRecord]
    /\ sweptAt = Unix0

\* sweepEntrySessionsLocked
WithoutEarlierPorts(e, now) ==
    [e EXCEPT !.sessions =
        [p \in Ports |-> IF e.sessions[p] < Unix(now) THEN Never ELSE e.sessions[p]]]
WithoutOldPorts(e, now) ==
    [e EXCEPT !.sessions =
        [p \in Ports |-> IF e.sessions[p] < Unix(now - SessionTtl) THEN Never ELSE e.sessions[p]]]

\* sweepLocked
WithoutOldRecords(rs, now) ==
    [a \in Addresses |-> IF rs[a].lastSeen < Unix(now - SessionTtl)
                         THEN NoRecord ELSE WithoutOldPorts(rs[a], now)]

\* The packet counted in its second; a reading of another second starts afresh.
\* How far the count is above the limit makes no difference.
CountedAfresh(e, now) == [e EXCEPT !.window = Unix(now), !.packets = 1]
Counted(e, now) ==
    IF maxRate = 0 THEN e
    ELSE IF e.window = Unix(now) THEN [e EXCEPT !.packets = IF @ > maxRate THEN @ ELSE @ + 1]
    ELSE [e EXCEPT !.window = Unix(now), !.packets = 1]

\* The port is noted before the limit is checked, and old ports go only now and then.
NotedUnswept(e, p, now) == [e EXCEPT !.sessions[p] = Unix(now)]
Noted(e, p, now) ==
    LET n == [e EXCEPT !.sessions[p] = Unix(now)]
    IN  IF Unix(now) - e.lastSweep >= Unix(SessionTtl)
        THEN [WithoutOldPorts(n, now) EXCEPT !.lastSweep = Unix(now)] ELSE n

PortsOf(e) == {p \in Ports : e.sessions[p] # Never}

\* Protector.Allow: how it ends, and the records it leaves.  The window of a protector
\* that counts no packets is never read, and stays at zero.
AbuseAllow(a, p, now, verdict) ==
    LET e == [(IF records[a].known THEN records[a]
               ELSE [NoRecord EXCEPT !.known = TRUE, !.window = IF maxRate > 0 THEN Unix(now) ELSE @])
                 EXCEPT !.lastSeen = Unix(now)]
        c == Counted(e, now)
        n == Noted(c, p, now)
        Leaves(r) ==
            LET rs == [records EXCEPT ![a] = r]
            IN  IF Unix(now) - sweptAt >= Unix(SessionTtl)
                THEN records' = WithoutOldRecords(rs, now) /\ sweptAt' = Unix(now)
                ELSE records' = rs /\ UNCHANGED sweptAt
    IN  /\ \/ /\ maxRate > 0 /\ c.packets > maxRate
              /\ verdict = "rate"
              /\ Leaves(c)
           \/ /\ ~(maxRate > 0 /\ c.packets > maxRate)
              /\ maxPorts > 0 /\ Cardinality(PortsOf(n)) > maxPorts
              /\ verdict = "ports"
              /\ Leaves(n)
           \/ /\ ~(maxRate > 0 /\ c.packets > maxRate)
              /\ ~(maxPorts > 0 /\ Cardinality(PortsOf(n)) > maxPorts)
              /\ verdict = "pass"
              /\ Leaves(IF maxPorts > 0 THEN n ELSE c)
        /\ UNCHANGED <<maxRate, maxPorts>>
=============================================================================

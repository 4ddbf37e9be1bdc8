-------------------------- MODULE ResponseRouting ---------------------------
(***************************************************************************)
(* internal/frontend/frontend.go, forward from enqueuePendingRoute on and  *)
(* backendReadLoop: how a backend's response finds its client.  UDP has no *)
(* request identifier, so each worker queues a route for the backend and   *)
(* then sends, and the reader of the shared outbound socket gives every    *)
(* response to the oldest route queued for its source.                     *)
(*                                                                         *)
(* pendingRoutesMu makes each route operation one step, but the time it    *)
(* compares with was read before the lock was taken (dequeue reads it      *)
(* under the lock), and the datagram is sent after the unlock.  The        *)
(* backend and the network are external: a backend answers each request    *)
(* once and in order; every departure from that is a Fault step.           *)
(***************************************************************************)
EXTENDS Integers, Sequences, FiniteSets, SequencesExt

CONSTANTS
    Workers,      \* forwardWorker goroutines
    Clients,      \* client addresses, with the listener socket each came by
    Servers,      \* the backend pool
    Nobody,       \* the addressee of a datagram no request asked for
    MaxRoutes,    \* maxPendingRoutesPerBackend
    TTL,          \* pendingRouteTTL, in clock ticks
    Stall,        \* longest time between a worker's time.Now() and its lock
    MaxRequests,  \* bound: requests dispatched
    MaxFaults,    \* bound: network faults
    MaxTime       \* bound: clock

ASSUME NobodyAssumption == Nobody \notin Clients
ASSUME RoutesAssumption == MaxRoutes \in Nat \ {0}
ASSUME TimesAssumption == TTL \in Nat /\ Stall \in Nat
ASSUME RoutingBoundsAssumption == {MaxRequests, MaxFaults, MaxTime} \subseteq Nat

VARIABLES
    pendingRoutes,  \* the queue of routes of each backend
    seq,            \* pendingRouteSeq
    worker,         \* each worker's place in forward and its locals
    flight,         \* requests at each backend or on the wire, answers included
    now,            \* the clock
    sent,           \* history: ids of the routes whose request was sent
    last,           \* history: the last delivery, to which client an answer for which
    disturbed,      \* history: backends whose answers no longer match their routes
    requests, faults

vars == <<pendingRoutes, seq, worker, flight, now, sent, last, disturbed, requests,
          faults>>

Idle == [pc |-> "idle", client |-> Nobody, server |-> Nobody, id |-> 0, at |-> 0]

Routes   == [id : Nat, client : Clients, at : Nat]
Requests == [client : Clients \cup {Nobody}, id : Nat]
Locals   == [pc : {"idle", "enqueue", "shape", "send", "cancel"},
             client : Clients \cup {Nobody}, server : Servers \cup {Nobody}, id : Nat, at : Nat]

RoutingTypeOK ==
    /\ pendingRoutes \in [Servers -> Seq(Routes)]
    /\ \A b \in Servers : Len(pendingRoutes[b]) <= MaxRoutes
    /\ seq \in Nat
    /\ worker \in [Workers -> Locals]
    /\ flight \in [Servers -> Seq(Requests)]
    /\ now \in 0..MaxTime
    /\ sent \subseteq 1..seq
    /\ last \in [to : Clients \cup {Nobody}, for : Clients \cup {Nobody}, calm : BOOLEAN]
    /\ disturbed \subseteq Servers
    /\ requests \in 0..MaxRequests
    /\ faults \in 0..MaxFaults

Init ==
    /\ pendingRoutes = [b \in Servers |-> <<>>]
    /\ seq = 0
    /\ worker = [w \in Workers |-> Idle]
    /\ flight = [b \in Servers |-> <<>>]
    /\ now = 0
    /\ sent = {}
    /\ last = [to |-> Nobody, for |-> Nobody, calm |-> TRUE]
    /\ disturbed = {}
    /\ requests = 0
    /\ faults = 0

\* pruneExpiredRoutes drops the expired routes at the front, and only those.
PruneNothing(queue, t) == queue
pruneExpiredRoutes(queue, t) ==
    LET valid == {i \in DOMAIN queue : queue[i].at >= t - TTL}
    IN  IF valid = {} THEN <<>> ELSE SubSeq(queue, Min(valid), Len(queue))

\* A route that expires may still be answered: from then on answers shift.
Expires(b, t) == IF pruneExpiredRoutes(pendingRoutes[b], t) # pendingRoutes[b]
                 THEN {b} ELSE {}

-----------------------------------------------------------------------------
(* forward, from the chosen server on                                      *)

Stamped(w, to) == [worker EXCEPT ![w].pc = to, ![w].at = now]

\* forward has chosen b for a packet of c and reads the clock.
Dispatch(w, c, b) ==
    /\ worker[w].pc = "idle"
    /\ requests < MaxRequests
    /\ requests' = requests + 1
    /\ worker' = [worker EXCEPT ![w] =
          [pc |-> "enqueue", client |-> c, server |-> b, id |-> 0, at |-> now]]
    /\ UNCHANGED <<pendingRoutes, seq, flight, now, sent, last, disturbed, faults>>

Room(queue) == Len(queue) < MaxRoutes

Jumps(queue, route) == <<route>> \o queue
Joins(queue, route) == Append(queue, route)

\* enqueuePendingRoute; a full queue drops the packet.
EnqueuePendingRoute(w) ==
    LET b     == worker[w].server
        queue == pruneExpiredRoutes(pendingRoutes[b], worker[w].at)
        route == [id |-> seq + 1, client |-> worker[w].client, at |-> worker[w].at]
    IN  /\ worker[w].pc = "enqueue"
        /\ \/ /\ Room(queue)
              /\ seq' = seq + 1
              /\ pendingRoutes' = [pendingRoutes EXCEPT ![b] = Joins(queue, route)]
              /\ worker' = [worker EXCEPT ![w].pc = "shape", ![w].id = seq + 1]
           \/ /\ ~Room(queue)
              /\ pendingRoutes' = [pendingRoutes EXCEPT ![b] = queue]
              /\ worker' = [worker EXCEPT ![w] = Idle]
              /\ UNCHANGED seq
        /\ disturbed' = disturbed \cup Expires(b, worker[w].at)
        /\ UNCHANGED <<flight, now, sent, last, requests, faults>>

\* backendShaper.Allow: a refused packet takes its route back, as of now.
RefusedForgetsRoute(w) == [worker EXCEPT ![w] = Idle]
Refused(w) == Stamped(w, "cancel")

Shape(w) ==
    /\ worker[w].pc = "shape"
    /\ \/ worker' = [worker EXCEPT ![w].pc = "send"]
       \/ worker' = Refused(w)
    /\ UNCHANGED <<pendingRoutes, seq, flight, now, sent, last, disturbed,
                   requests, faults>>

\* Routes queued for b before route id whose request has not been sent.
Overtaken(b, id) ==
    \E i \in DOMAIN pendingRoutes[b] :
        pendingRoutes[b][i].id < id /\ pendingRoutes[b][i].id \notin sent

\* WriteToUDPAddrPort, which may fail.
Send(w) ==
    LET b == worker[w].server
    IN  /\ worker[w].pc = "send"
        /\ \/ /\ flight' = [flight EXCEPT ![b] =
                    Append(@, [client |-> worker[w].client, id |-> worker[w].id])]
              /\ sent' = sent \cup {worker[w].id}
              /\ disturbed' = IF Overtaken(b, worker[w].id) THEN disturbed \cup {b}
                              ELSE disturbed
              /\ worker' = [worker EXCEPT ![w] = Idle]
           \/ /\ worker' = Stamped(w, "cancel")
              /\ UNCHANGED <<flight, sent, disturbed>>
        /\ UNCHANGED <<pendingRoutes, seq, now, last, requests, faults>>

\* The queue without its first route of that id.
Without(queue, id) ==
    LET at == {i \in DOMAIN queue : queue[i].id = id}
    IN  IF at = {} THEN queue ELSE RemoveAt(queue, Min(at))

CancelPendingRoute(w) ==
    LET b     == worker[w].server
        queue == pruneExpiredRoutes(pendingRoutes[b], worker[w].at)
    IN  /\ worker[w].pc = "cancel"
        /\ pendingRoutes' = [pendingRoutes EXCEPT ![b] = Without(queue, worker[w].id)]
        /\ worker' = [worker EXCEPT ![w] = Idle]
        /\ disturbed' = disturbed \cup Expires(b, worker[w].at)
        /\ UNCHANGED <<seq, flight, now, sent, last, requests, faults>>

-----------------------------------------------------------------------------
(* backendReadLoop                                                         *)

\* The route a response is given to.
NewestRoute(queue) == Len(queue)
OldestRoute(queue) == 1

\* An answer of b arrives; dequeuePendingRoute yields its client, or none.
BackendResponse(b) ==
    LET queue == pruneExpiredRoutes(pendingRoutes[b], now)
        i     == OldestRoute(queue)
    IN  /\ flight[b] # <<>>
        /\ flight' = [flight EXCEPT ![b] = Tail(@)]
        /\ disturbed' = disturbed \cup Expires(b, now)
        /\ \/ /\ queue = <<>>
              /\ pendingRoutes' = [pendingRoutes EXCEPT ![b] = <<>>]
              /\ UNCHANGED last
           \/ /\ queue # <<>>
              /\ pendingRoutes' = [pendingRoutes EXCEPT ![b] = RemoveAt(queue, i)]
              /\ last' = [to |-> queue[i].client, for |-> Head(flight[b]).client,
                          calm |-> b \notin disturbed']
        /\ UNCHANGED <<seq, worker, now, sent, requests, faults>>

-----------------------------------------------------------------------------
(* The network, the backends and the clock                                 *)

\* A request or its answer is lost, answered twice, overtaken by the next one,
\* or b sends what nobody asked for.
Fault(b) ==
    /\ faults < MaxFaults
    /\ faults' = faults + 1
    /\ disturbed' = disturbed \cup {b}
    /\ \/ \E i \in DOMAIN flight[b] :
             flight' = [flight EXCEPT ![b] = RemoveAt(@, i)]
       \/ \E i \in DOMAIN flight[b] :
             flight' = [flight EXCEPT ![b] = InsertAt(@, i, @[i])]
       \/ \E i \in 2..Len(flight[b]) :
             flight' = [flight EXCEPT ![b][i] = flight[b][i - 1],
                                      ![b][i - 1] = flight[b][i]]
       \/ flight' = [flight EXCEPT ![b] = Append(@, [client |-> Nobody, id |-> 0])]
    /\ UNCHANGED <<pendingRoutes, seq, worker, now, sent, last, requests>>

\* With nothing queued, under way or unanswered, b starts afresh.
Settle(b) ==
    /\ b \in disturbed
    /\ pendingRoutes[b] = <<>>
    /\ flight[b] = <<>>
    /\ \A w \in Workers : worker[w].server = b => worker[w].pc \notin {"shape", "send"}
    /\ disturbed' = disturbed \ {b}
    /\ UNCHANGED <<pendingRoutes, seq, worker, flight, now, sent, last, requests, faults>>

Tick ==
    /\ now < MaxTime
    /\ \A w \in Workers : worker[w].pc \in {"enqueue", "cancel"} => now - worker[w].at < Stall
    /\ now' = now + 1
    /\ UNCHANGED <<pendingRoutes, seq, worker, flight, sent, last, disturbed,
                   requests, faults>>

Next ==
    \/ \E w \in Workers :
          \/ \E c \in Clients, b \in Servers : Dispatch(w, c, b)
          \/ EnqueuePendingRoute(w) \/ Shape(w) \/ Send(w) \/ CancelPendingRoute(w)
    \/ \E b \in Servers : BackendResponse(b) \/ Fault(b) \/ Settle(b)
    \/ Tick

Spec == Init /\ [][Next]_vars

-----------------------------------------------------------------------------
(* Properties                                                              *)

\* What TestFrontendRoutesResponsesToMatchingClientRequests expects: a client
\* gets the answers to its own requests (frontend.go:540).
ResponsesMatch == last.to = last.for

\* Answers go to the wrong client only through a backend whose sends left in
\* another order than their routes were queued, that did not answer every
\* request once and in order, or whose route expired, since it was last quiet.
MatchedUnlessDisturbed == last.calm => last.to = last.for

\* Every queued route belongs to a request that was sent or to a worker that is
\* still to send it or take it back: a cancelled request leaves no route behind
\* to swallow another client's answer (frontend.go:586).
NoOrphanRoute ==
    \A b \in Servers : \A i \in DOMAIN pendingRoutes[b] :
        LET id == pendingRoutes[b][i].id
        IN  \/ id \in sent
            \/ \E w \in Workers : /\ worker[w].server = b
                                  /\ worker[w].id = id
                                  /\ worker[w].pc \in {"shape", "send", "cancel"}

\* A queue is out of time order by at most the time a worker spends between its
\* clock reading and the lock; pruning the front (frontend.go:623) relies on it.
NearlySorted ==
    \A b \in Servers : \A i, j \in DOMAIN pendingRoutes[b] :
        i < j => pendingRoutes[b][j].at >= pendingRoutes[b][i].at - Stall

\* A packet is refused for want of room (frontend.go:571) only while MaxRoutes
\* routes are not older than the TTL, give or take the two clock readings.
RefusedOnlyByLive ==
    [][\A w \in Workers :
          worker[w].pc = "enqueue" /\ worker'[w].pc = "idle" =>
              LET queue == pendingRoutes'[worker[w].server]
              IN  /\ Len(queue) >= MaxRoutes
                  /\ \A i \in DOMAIN queue : queue[i].at >= now - TTL - 2 * Stall]_vars
=============================================================================

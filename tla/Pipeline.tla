------------------------------ MODULE Pipeline ------------------------------
(***************************************************************************)
(* internal/frontend/frontend.go: the goroutines of one frontend, from     *)
(* Start to Stop.  Readers hand packet buffers to forwarding workers over  *)
(* the bounded channel workCh, one more goroutine reads the backends'      *)
(* answers, buffers are recycled through a sync.Pool, and Stop closes      *)
(* stopCh, then the sockets, then waits for everybody.                     *)
(*                                                                         *)
(* The five checks of readLoop are one choice here, and the outcome of     *)
(* forward another: SessionTable, Forward and ResponseRouting say what     *)
(* they are.                                                               *)
(***************************************************************************)
EXTENDS Integers, Sequences, FiniteSets

CONSTANTS
    Readers, Workers,   \* goroutines running readLoop and forwardWorker
    Backend,            \* the goroutine running backendReadLoop
    NumListeners,       \* listener sockets
    QueueCap,           \* cap(workCh)
    Buffers, NoBuffer,  \* packet buffers
    MaxPackets          \* bound: datagrams received from clients and backends

ASSUME GoroutinesAssumption ==
    Readers \cap Workers = {} /\ Backend \notin Readers \cup Workers
ASSUME CrewAssumption == IsFiniteSet(Readers) /\ IsFiniteSet(Workers) /\ Workers # {}
ASSUME ListenersAssumption == NumListeners \in Nat \ {0}
ASSUME BuffersAssumption == NoBuffer \notin Buffers
ASSUME PipelineBoundsAssumption == {QueueCap, MaxPackets} \subseteq Nat

VARIABLES
    phase,      \* how far Start or Stop has come
    listeners,  \* open sockets among f.listenConns
    sendConn,   \* the outbound socket is open
    stopCh,     \* stopCh is closed
    at,         \* where each goroutine stands
    buf,        \* the buffer each goroutine owns
    workCh,     \* buffers handed over to the workers
    pool,       \* buffers at rest in bufPool
    received,   \* counters.PacketsReceived
    forwarded,  \* counters.PacketsForwarded
    dropped,    \* counters.PacketsDropped
    unrouted,   \* history: answers among the dropped
    discarded,  \* history: packets thrown away by the drain
    answers     \* history: datagrams from backends

vars == <<phase, listeners, sendConn, stopCh, at, buf, workCh, pool, received,
          forwarded, dropped, unrouted, discarded, answers>>
lifeVars  == <<phase, listeners, sendConn, stopCh>>
countVars == <<received, forwarded, dropped, unrouted, discarded, answers>>

Goroutines == Readers \cup Workers \cup {Backend}

PipelineTypeOK ==
    /\ phase \in {"new", "bound", "running", "failed", "stopping", "closing",
                  "waiting", "stopped"}
    /\ listeners \subseteq 1..NumListeners
    /\ sendConn \in BOOLEAN
    /\ stopCh \in BOOLEAN
    /\ at \in [Goroutines -> {"none", "top", "get", "read", "check", "enqueue",
                              "answer", "error", "select", "forward", "put",
                              "drain", "done"}]
    /\ buf \in [Goroutines -> Buffers \cup {NoBuffer}]
    /\ workCh \in Seq(Buffers) /\ Len(workCh) <= QueueCap
    /\ pool \subseteq Buffers
    /\ {received, forwarded, dropped, unrouted, discarded, answers} \subseteq Nat

Init ==
    /\ phase = "new"
    /\ listeners = {}
    /\ sendConn = FALSE
    /\ stopCh = FALSE
    /\ at = [g \in Goroutines |-> "none"]
    /\ buf = [g \in Goroutines |-> NoBuffer]
    /\ workCh = <<>>
    /\ pool = {}
    /\ received = 0
    /\ forwarded = 0
    /\ dropped = 0
    /\ unrouted = 0
    /\ discarded = 0
    /\ answers = 0

-----------------------------------------------------------------------------
(* Start                                                                   *)

\* closeListeners, called when a later bind fails.
KeepListeners == listeners
CloseListeners == {}

\* One turn of the bind loop.
Bind ==
    /\ phase = "new"
    /\ \/ /\ listeners' = listeners \cup {Cardinality(listeners) + 1}
          /\ phase' = IF listeners' = 1..NumListeners THEN "bound" ELSE "new"
       \/ /\ listeners' = CloseListeners
          /\ phase' = "failed"
    /\ UNCHANGED <<sendConn, stopCh, at, buf, workCh, pool, countVars>>

\* The outbound socket, and the go statements.
Launch ==
    /\ phase = "bound"
    /\ \/ /\ sendConn' = TRUE
          /\ phase' = "running"
          /\ at' = [g \in Goroutines |-> IF g \in Workers THEN "select" ELSE "top"]
          /\ UNCHANGED listeners
       \/ /\ listeners' = CloseListeners
          /\ phase' = "failed"
          /\ UNCHANGED <<sendConn, at>>
    /\ UNCHANGED <<stopCh, buf, workCh, pool, countVars>>

-----------------------------------------------------------------------------
(* Buffers                                                                 *)

Goes(g, l) == at' = [at EXCEPT ![g] = l]

Owned == {buf[g] : g \in Goroutines} \cup {workCh[i] : i \in DOMAIN workCh}

\* New buffers are alike, so it does not matter which of them is allocated.
Fresh == LET new == Buffers \ (Owned \cup pool)
         IN  {b \in new : b = CHOOSE c \in new : TRUE}

\* bufPool.Get: a pooled buffer, or a new one if the pool has none.
GetBuffer(g, b) ==
    /\ at[g] = "get"
    /\ b \in pool \/ (pool = {} /\ b \in Fresh)
    /\ pool' = pool \ {b}
    /\ buf' = [buf EXCEPT ![g] = b]
    /\ Goes(g, "read")
    /\ UNCHANGED <<lifeVars, workCh, countVars>>

\* bufPool.Put
PutBuffer(g) ==
    /\ pool' = pool \cup {buf[g]}
    /\ buf' = [buf EXCEPT ![g] = NoBuffer]

-----------------------------------------------------------------------------
(* readLoop and backendReadLoop                                            *)

\* The select at the top of both read loops.
TopBlind(g) == Goes(g, "get")
Top(g) == Goes(g, IF stopCh THEN "done" ELSE "get")

LoopTop(g) ==
    /\ at[g] = "top"
    /\ Top(g)
    /\ UNCHANGED <<lifeVars, buf, workCh, pool, countVars>>

Open(g) == IF g = Backend THEN sendConn ELSE listeners # {}

\* A datagram arrives: from a client ...
ReadPacket(r) ==
    /\ at[r] = "read"
    /\ Open(r)
    /\ received + answers < MaxPackets
    /\ received' = received + 1
    /\ Goes(r, "check")
    /\ UNCHANGED <<lifeVars, buf, workCh, pool, forwarded, dropped, unrouted,
                   discarded, answers>>

\* ... or from a backend.
ReadAnswer ==
    /\ at[Backend] = "read"
    /\ Open(Backend)
    /\ received + answers < MaxPackets
    /\ answers' = answers + 1
    /\ Goes(Backend, "answer")
    /\ UNCHANGED <<lifeVars, buf, workCh, pool, received, forwarded, dropped,
                   unrouted, discarded>>

\* A read fails, for good once the socket is closed.
ReadError(g) ==
    /\ at[g] = "read"
    /\ PutBuffer(g)
    /\ Goes(g, "error")
    /\ UNCHANGED <<lifeVars, workCh, countVars>>

AfterError(g) ==
    /\ at[g] = "error"
    /\ Goes(g, IF stopCh THEN "done" ELSE "top")
    /\ UNCHANGED <<lifeVars, buf, workCh, pool, countVars>>

\* Size, fragment, shaping, abuse and session-cap checks.
CheckPacket(r) ==
    /\ at[r] = "check"
    /\ \/ /\ Goes(r, "enqueue")
          /\ UNCHANGED <<buf, pool, dropped>>
       \/ /\ dropped' = dropped + 1
          /\ PutBuffer(r)
          /\ Goes(r, "top")
    /\ UNCHANGED <<lifeVars, workCh, received, forwarded, unrouted, discarded, answers>>

SaturatedUncounted == dropped
Saturated == dropped + 1

HandOverAndPut(r) == PutBuffer(r)
HandOver(r) == UNCHANGED pool /\ buf' = [buf EXCEPT ![r] = NoBuffer]

QueueRoom == Len(workCh) < QueueCap

\* The buffer changes owner, or the packet is dropped: the pool is saturated.
EnqueuePacket(r) ==
    /\ at[r] = "enqueue"
    /\ Goes(r, "top")
    /\ \/ /\ QueueRoom
          /\ workCh' = Append(workCh, buf[r])
          /\ HandOver(r)
          /\ UNCHANGED dropped
       \/ /\ ~QueueRoom
          /\ dropped' = Saturated
          /\ PutBuffer(r)
          /\ UNCHANGED workCh
    /\ UNCHANGED <<lifeVars, received, forwarded, unrouted, discarded, answers>>

\* An answer without a route is dropped and counted; one from an unknown source
\* is only dropped; the others go to their client, successfully or not.
RelayAnswer ==
    /\ at[Backend] = "answer"
    /\ \/ dropped' = dropped + 1 /\ unrouted' = unrouted + 1
       \/ UNCHANGED <<dropped, unrouted>>
    /\ PutBuffer(Backend)
    /\ Goes(Backend, "top")
    /\ UNCHANGED <<lifeVars, workCh, received, forwarded, discarded, answers>>

-----------------------------------------------------------------------------
(* forwardWorker                                                           *)

\* The select chooses at random when both cases are ready.
SelectStop(w) ==
    /\ at[w] = "select"
    /\ stopCh
    /\ Goes(w, "drain")
    /\ UNCHANGED <<lifeVars, buf, workCh, pool, countVars>>

SelectPacket(w) ==
    /\ at[w] = "select"
    /\ workCh # <<>>
    /\ buf' = [buf EXCEPT ![w] = Head(workCh)]
    /\ workCh' = Tail(workCh)
    /\ Goes(w, "forward")
    /\ UNCHANGED <<lifeVars, pool, countVars>>

\* forward counts the packet exactly once; a send on a closed socket fails.
ForwardPacket(w) ==
    /\ at[w] = "forward"
    /\ \/ sendConn /\ forwarded' = forwarded + 1 /\ UNCHANGED dropped
       \/ dropped' = dropped + 1 /\ UNCHANGED forwarded
    /\ Goes(w, "put")
    /\ UNCHANGED <<lifeVars, buf, workCh, pool, received, unrouted, discarded, answers>>

PutPacket(w) ==
    /\ at[w] = "put"
    /\ PutBuffer(w)
    /\ Goes(w, "select")
    /\ UNCHANGED <<lifeVars, workCh, countVars>>

\* The inner loop after stopCh: return the queued buffers, forward nothing.
Drain(w) ==
    /\ at[w] = "drain"
    /\ \/ /\ workCh # <<>>
          /\ pool' = pool \cup {Head(workCh)}
          /\ workCh' = Tail(workCh)
          /\ discarded' = discarded + 1
          /\ UNCHANGED at
       \/ /\ workCh = <<>>
          /\ Goes(w, "done")
          /\ UNCHANGED <<pool, workCh, discarded>>
    /\ UNCHANGED <<lifeVars, buf, received, forwarded, dropped, unrouted, answers>>

-----------------------------------------------------------------------------
(* Stop                                                                    *)

StopSignal ==
    /\ phase = "running"
    /\ stopCh' = TRUE
    /\ phase' = "stopping"
    /\ UNCHANGED <<listeners, sendConn, at, buf, workCh, pool, countVars>>

StopListeners ==
    /\ phase = "stopping"
    /\ listeners' = {}
    /\ phase' = "closing"
    /\ UNCHANGED <<sendConn, stopCh, at, buf, workCh, pool, countVars>>

SendConnLeftOpen == sendConn
SendConnClosed == FALSE

StopSendConn ==
    /\ phase = "closing"
    /\ sendConn' = SendConnClosed
    /\ phase' = "waiting"
    /\ UNCHANGED <<listeners, stopCh, at, buf, workCh, pool, countVars>>

\* wg.Wait
StopWait ==
    /\ phase = "waiting"
    /\ \A g \in Goroutines : at[g] = "done"
    /\ phase' = "stopped"
    /\ UNCHANGED <<listeners, sendConn, stopCh, at, buf, workCh, pool, countVars>>

-----------------------------------------------------------------------------
\* Steps a goroutine takes by itself; a read waits for the network.
LoopStep(g) ==
    \/ LoopTop(g)
    \/ \E b \in Buffers : GetBuffer(g, b)
    \/ AfterError(g)

ReaderStep(r)  == LoopStep(r) \/ CheckPacket(r) \/ EnqueuePacket(r)
BackendStep    == LoopStep(Backend) \/ RelayAnswer
WorkerStep(w)  == SelectStop(w) \/ SelectPacket(w) \/ ForwardPacket(w) \/ PutPacket(w) \/ Drain(w)
NetworkStep    == \/ \E r \in Readers : ReadPacket(r) \/ ReadError(r)
                  \/ ReadAnswer
                  \/ ReadError(Backend)
StopStep       == StopListeners \/ StopSendConn \/ StopWait

Next ==
    \/ Bind
    \/ Launch
    \/ \E r \in Readers : ReaderStep(r)
    \/ \E w \in Workers : WorkerStep(w)
    \/ BackendStep
    \/ NetworkStep
    \/ StopSignal
    \/ StopStep

Spec == Init /\ [][Next]_vars

\* Every runnable goroutine is scheduled, and a read of a closed socket returns.
Fairness ==
    /\ \A r \in Readers : WF_vars(ReaderStep(r)) /\ WF_vars(~Open(r) /\ ReadError(r))
    /\ WF_vars(BackendStep) /\ WF_vars(~Open(Backend) /\ ReadError(Backend))
    /\ \A w \in Workers : WF_vars(WorkerStep(w))
    /\ WF_vars(StopStep)

FairSpec == Spec /\ Fairness

-----------------------------------------------------------------------------
(* Properties                                                              *)

\* A packet buffer has one owner (frontend.go:359): it is in the pool, in one
\* slot of workCh or with one goroutine, so no datagram is overwritten while it
\* is being forwarded.
OneOwner ==
    /\ \A g, h \in Goroutines : buf[g] = buf[h] /\ buf[g] # NoBuffer => g = h
    /\ \A i, j \in DOMAIN workCh : workCh[i] = workCh[j] => i = j
    /\ \A g \in Goroutines, i \in DOMAIN workCh : buf[g] # workCh[i]
    /\ pool \cap Owned = {}

InHand == {g \in Readers : at[g] \in {"check", "enqueue"}}
          \cup {w \in Workers : at[w] = "forward"}

\* The counters account for every packet received: forwarded, dropped, still in
\* hand or in the channel, or thrown away by the drain, and none of them twice.
\* What the drain throws away no counter shows, and README.md:18 promises that a
\* shutdown "drains in-flight work before exiting": it is returned to the pool
\* (frontend.go:378), not forwarded.
Accounting ==
    received = forwarded + (dropped - unrouted) + discarded
               + Cardinality(InHand) + Len(workCh)

\* A Start that fails leaves no socket bound (frontend.go:176), so that a retry
\* can bind the same address, and no goroutine that nobody would stop.
FailedStartClosesAll ==
    phase = "failed" =>
        /\ listeners = {} /\ ~sendConn
        /\ \A g \in Goroutines : at[g] = "none"

\* When Stop returns, what is left in workCh was enqueued after the last worker
\* had gone: at most one packet for each reader, which then sees stopCh.  This is
\* less than README.md:18 ("drains in-flight work before exiting") and
\* frontend.go:378 ("Drain any remaining work") say: a packet can stay undrained.
StopLeavesAtMostOnePerReader ==
    phase = "stopped" => Len(workCh) <= Cardinality(Readers)

\* Stop returns: nobody stays blocked in a read or in the select.
StopReturns == stopCh ~> phase = "stopped"
=============================================================================

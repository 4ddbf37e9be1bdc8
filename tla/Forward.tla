------------------------------ MODULE Forward -------------------------------
(***************************************************************************)
(* internal/frontend/frontend.go: the path of a client packet from the     *)
(* session cap of readLoop through workCh to the choice of its backend     *)
(* server in forward, with the part of internal/backend it uses (server    *)
(* health, connCount, Pick).  Composed with SessionTable: a worker is a    *)
(* process of the table and every table access of forward is a step of it. *)
(*                                                                         *)
(* One frontend is modelled; the sessions of others are in the same table  *)
(* and count towards its cap as its own do.  Pick is abstract here: it     *)
(* reads the servers' health twice, to weigh and to choose, and returns    *)
(* any server that is healthy when it chooses, whatever the algorithm.     *)
(* The loads of one such reading are one step.  The connCount Adds are     *)
(* folded into the binding store next to them: they commute with every     *)
(* other Add and nothing here reads connCount in between.  ServerByAddr    *)
(* never fails: addresses come from the pool, which does not change.       *)
(* What happens to the packet after the choice is ResponseRouting.         *)
(***************************************************************************)
EXTENDS SessionTable, Sequences, FiniteSetsExt

CONSTANTS
    Readers,        \* readLoop goroutines
    Servers,        \* the backend pool
    NoServer,       \* the nil *Server, and a nil onEvict
    Affinity,       \* cfg.SessionAffinity
    MaxSessions,    \* cfg.MaxSessions, 0 for no cap
    QueueCap,       \* cap(workCh)
    MaxPackets,     \* bound: packets received
    MaxFlips,       \* bound: health changes
    MaxEvents       \* bound: both together

ASSUME ReadersAssumption == IsFiniteSet(Readers)
ASSUME NoServerAssumption == NoServer \notin Servers
ASSUME ServersAssumption == IsFiniteSet(Servers)
ASSUME AffinityAssumption == Affinity \in BOOLEAN
ASSUME BoundsAssumption == {MaxSessions, QueueCap, MaxPackets, MaxFlips, MaxEvents} \subseteq Nat

VARIABLES
    reader,     \* each reader's place in readLoop and the client of its packet
    workCh,     \* the bounded channel to the workers
    worker,     \* each worker's place in forward and its locals
    binding,    \* Session.binding
    healthy,    \* Server.Healthy
    connCount,  \* Server.connCount
    crashed,    \* a nil *Server was dereferenced: the process is gone
    leaked,     \* history: evictions that found no callback
    assigned,   \* history: server of the last packet sent through a key's session,
                \* until a server's health changes
    received,   \* packets received so far
    flips       \* health changes so far

fwdVars == <<reader, workCh, worker, binding, healthy, connCount, crashed,
             leaked, assigned, received, flips>>
vars    == <<tableVars, fwdVars>>

AnyServer  == Servers \cup {NoServer}
IdleReader == [pc |-> "idle", key |-> NoKey]
IdleWorker == [pc |-> "idle", key |-> NoKey, srv |-> NoServer, newSrv |-> NoServer]

ReaderStates == [pc : {"idle", "get", "len", "enqueue"}, key : Keys \cup {NoKey}]
WorkerStates ==
    [pc : {"idle", "lookup", "weigh", "choose", "alloc", "insert", "count",
           "wireload", "wire", "compare", "touch", "load", "check",
           "reweigh", "rechoose", "transfer", "send"},
     key : Keys \cup {NoKey}, srv : AnyServer, newSrv : AnyServer]
Bindings == [addr : AnyServer, onEvict : AnyServer]

ForwardTypeOK ==
    /\ reader \in [Readers -> ReaderStates]
    /\ workCh \in Seq(Keys) /\ Len(workCh) <= QueueCap
    /\ worker \in [Procs -> WorkerStates]
    /\ binding \in [Sessions -> Bindings]
    /\ healthy \in [Servers -> BOOLEAN]
    /\ connCount \in [Servers -> Int]
    /\ crashed \in BOOLEAN
    /\ leaked \in Nat
    /\ assigned \in [Keys -> AnyServer]
    /\ received \in 0..MaxPackets
    /\ flips \in 0..MaxFlips

Init ==
    /\ TableInit
    /\ reader = [r \in Readers |-> IdleReader]
    /\ workCh = <<>>
    /\ worker = [w \in Procs |-> IdleWorker]
    /\ binding = [s \in Sessions |-> [addr |-> NoServer, onEvict |-> NoServer]]
    /\ healthy = [b \in Servers |-> TRUE]
    /\ connCount = [b \in Servers |-> 0]
    /\ crashed = FALSE
    /\ leaked = 0
    /\ assigned = [k \in Keys |-> NoServer]
    /\ received = 0
    /\ flips = 0

\* A panic takes every goroutine with it.
Alive == ~crashed /\ UNCHANGED crashed

-----------------------------------------------------------------------------
(* readLoop: the session cap and the hand-over to the workers              *)

ReaderAt(r, l) ==
    /\ reader[r].pc = l
    /\ Alive
    /\ UNCHANGED <<tableVars, worker, binding, healthy, connCount, leaked, assigned, flips>>

\* A packet has passed the size, fragment, shaping and abuse checks.
Receive(r, k) ==
    /\ ReaderAt(r, "idle")
    /\ received < MaxPackets /\ received + flips < MaxEvents
    /\ received' = received + 1
    /\ reader' = [reader EXCEPT ![r] =
                     [pc |-> IF MaxSessions > 0 THEN "get" ELSE "enqueue", key |-> k]]
    /\ UNCHANGED workCh

\* f.sessions.Get(key) == nil, under the shard's RLock.
CapGet(r) ==
    /\ ReaderAt(r, "get")
    /\ ~Locked(reader[r].key)
    /\ reader' = [reader EXCEPT ![r].pc =
                     IF entries[reader[r].key] = NoSession THEN "len" ELSE "enqueue"]
    /\ UNCHANGED <<workCh, received>>

\* f.sessions.Len() >= f.cfg.MaxSessions
FullOffByOne == count > MaxSessions
FullMiscounted == count + 1 >= MaxSessions
Full == count >= MaxSessions

CapLen(r) ==
    /\ ReaderAt(r, "len")
    /\ \/ Full /\ reader' = [reader EXCEPT ![r] = IdleReader]
       \/ ~Full /\ reader' = [reader EXCEPT ![r].pc = "enqueue"]
    /\ UNCHANGED <<workCh, received>>

HasRoom == Len(workCh) < QueueCap

\* The select with a default: a full channel drops the packet.
Enqueue(r) ==
    /\ ReaderAt(r, "enqueue")
    /\ reader' = [reader EXCEPT ![r] = IdleReader]
    /\ \/ HasRoom /\ workCh' = Append(workCh, reader[r].key)
       \/ ~HasRoom /\ UNCHANGED workCh
    /\ UNCHANGED received

-----------------------------------------------------------------------------
(* forward                                                                 *)

WorkerAt(w, l) ==
    /\ worker[w].pc = l
    /\ Alive
    /\ UNCHANGED <<reader, received, healthy, leaked, flips>>

Goes(w, l)  == worker' = [worker EXCEPT ![w].pc = l]
Returns(w)  == worker' = [worker EXCEPT ![w] = IdleWorker]
Bound(w)    == binding[sess[w]].addr
UpdateServer(s, addr, onEvict) ==
    binding' = [binding EXCEPT ![s] = [addr |-> addr, onEvict |-> onEvict]]

Take(w) ==
    /\ WorkerAt(w, "idle")
    /\ workCh # <<>>
    /\ workCh' = Tail(workCh)
    /\ worker' = [worker EXCEPT ![w].pc = IF Affinity THEN "lookup" ELSE "weigh",
                                ![w].key = Head(workCh)]
    /\ UNCHANGED <<tableVars, binding, connCount, assigned>>

\* Where forward goes on once GetOrCreate has a session that already existed.
Found == IF Affinity THEN "touch" ELSE "compare"

LookupStep(w) ==
    /\ WorkerAt(w, "lookup")
    /\ Lookup(w, worker[w].key)
    /\ Goes(w, IF pc'[w] = "found" THEN Found ELSE IF Affinity THEN "weigh" ELSE "alloc")
    /\ UNCHANGED <<workCh, binding, connCount, assigned>>

SomeHealthy == \E b \in Servers : healthy[b]

\* The weight loop of Pick; no healthy server means an error and a drop.
Weigh(w) ==
    /\ WorkerAt(w, "weigh")
    /\ \/ SomeHealthy /\ Goes(w, "choose") /\ UNCHANGED tableVars
       \/ ~SomeHealthy /\ Returns(w) /\ IF Affinity THEN NewFnNil(w) ELSE UNCHANGED tableVars
    /\ UNCHANGED <<workCh, binding, connCount, assigned>>

\* Pick found nobody healthy when it chose, and its nil result is dereferenced.
PickNil(w) ==
    /\ worker[w].pc \in {"choose", "rechoose"}
    /\ ~SomeHealthy
    /\ ~crashed
    /\ crashed' = TRUE
    /\ UNCHANGED <<tableVars, reader, workCh, worker, binding, healthy, connCount,
                   leaked, assigned, received, flips>>

\* Affinity mode: newFn wraps the chosen server's address in a session.
ChooseNew(w, b, s) ==
    /\ Affinity
    /\ WorkerAt(w, "choose")
    /\ healthy[b]
    /\ NewFn(w, s)
    /\ UpdateServer(s, b, NoServer)
    /\ Goes(w, "insert")
    /\ UNCHANGED <<workCh, connCount, assigned>>

\* Without affinity Pick comes first and GetOrCreate afterwards.
ChooseEach(w, b) ==
    /\ ~Affinity
    /\ WorkerAt(w, "choose")
    /\ healthy[b]
    /\ worker' = [worker EXCEPT ![w].pc = "lookup", ![w].srv = b]
    /\ UNCHANGED <<tableVars, workCh, binding, connCount, assigned>>

Alloc(w, s) ==
    /\ WorkerAt(w, "alloc")
    /\ NewFn(w, s)
    /\ UpdateServer(s, worker[w].srv, NoServer)
    /\ Goes(w, "insert")
    /\ UNCHANGED <<workCh, connCount, assigned>>

InsertStep(w) ==
    /\ WorkerAt(w, "insert")
    /\ Insert(w)
    /\ Goes(w, IF pc'[w] = "count" THEN "count" ELSE Found)
    /\ UNCHANGED <<workCh, binding, connCount, assigned>>

CountStep(w) ==
    /\ WorkerAt(w, "count")
    /\ CountAdd(w)
    /\ Goes(w, IF Affinity THEN "wireload" ELSE "touch")
    /\ UNCHANGED <<workCh, binding, connCount, assigned>>

\* BackendAddr(), read by the creator before it wires the session and by every
\* worker before it checks the server's health.
LoadAddr(w) ==
    /\ \/ WorkerAt(w, "wireload")
          /\ worker' = [worker EXCEPT ![w].pc = "wire", ![w].srv = Bound(w)]
       \/ WorkerAt(w, "load")
          /\ worker' = [worker EXCEPT ![w].pc = "check", ![w].srv = Bound(w)]
    /\ UNCHANGED <<tableVars, workCh, binding, connCount, assigned>>

\* The creator counts the session and registers the eviction callback.
Wire(w) ==
    /\ WorkerAt(w, "wire")
    /\ connCount' = [connCount EXCEPT ![worker[w].srv] = @ + 1]
    /\ UpdateServer(sess[w], worker[w].srv, worker[w].srv)
    /\ Goes(w, "touch")
    /\ UNCHANGED <<tableVars, workCh, assigned>>

\* Without affinity a found session is pointed at the server just picked.
Compare(w) ==
    /\ WorkerAt(w, "compare")
    /\ IF Bound(w) = worker[w].srv THEN UNCHANGED binding
       ELSE UpdateServer(sess[w], worker[w].srv, NoServer)
    /\ Goes(w, "touch")
    /\ UNCHANGED <<tableVars, workCh, connCount, assigned>>

TouchStep(w) ==
    /\ WorkerAt(w, "touch")
    /\ Touch(w)
    /\ Goes(w, IF Affinity THEN "load" ELSE "send")
    /\ UNCHANGED <<workCh, binding, connCount, assigned>>

Check(w) ==
    /\ WorkerAt(w, "check")
    /\ Goes(w, IF healthy[worker[w].srv] THEN "send" ELSE "reweigh")
    /\ UNCHANGED <<tableVars, workCh, binding, connCount, assigned>>

\* The second Pick, for a session whose server went unhealthy.
Reweigh(w) ==
    /\ WorkerAt(w, "reweigh")
    /\ \/ SomeHealthy /\ Goes(w, "rechoose") /\ UNCHANGED tableVars
       \/ ~SomeHealthy /\ Returns(w) /\ Release(w)
    /\ UNCHANGED <<workCh, binding, connCount, assigned>>

Rechoose(w, b) ==
    /\ WorkerAt(w, "rechoose")
    /\ healthy[b]
    /\ worker' = [worker EXCEPT ![w].pc = "transfer", ![w].newSrv = b]
    /\ UNCHANGED <<tableVars, workCh, binding, connCount, assigned>>

\* connCount moves from the server loaded before to the new one.
MovedForgetOld(from, to) == [connCount EXCEPT ![to] = @ + 1]
Moved(from, to) == [[connCount EXCEPT ![from] = @ - 1] EXCEPT ![to] = @ + 1]

Transfer(w) ==
    LET newSrv == worker[w].newSrv
    IN  /\ WorkerAt(w, "transfer")
        /\ connCount' = Moved(worker[w].srv, newSrv)
        /\ UpdateServer(sess[w], newSrv, newSrv)
        /\ worker' = [worker EXCEPT ![w].pc = "send", ![w].srv = newSrv]
        /\ UNCHANGED <<tableVars, workCh, assigned>>

Removed == callbacks \cup evicted

\* The packet leaves for srv and the worker is done with the session.
Send(w) ==
    /\ WorkerAt(w, "send")
    /\ Release(w)
    /\ Returns(w)
    /\ assigned' = IF flips > 0 \/ sess[w] \in Removed THEN assigned
                   ELSE [assigned EXCEPT ![worker[w].key] = worker[w].srv]
    /\ UNCHANGED <<workCh, binding, connCount>>

-----------------------------------------------------------------------------
(* The reaper, the health checker and the clock                            *)

\* callEvict loads the binding when it runs, not when it was collected.
OnEvictForgotten(s) == connCount
OnEvict(s) ==
    IF binding[s].onEvict = NoServer THEN connCount
    ELSE [connCount EXCEPT ![binding[s].onEvict] = @ - 1]

EvictStep(s) ==
    /\ Alive
    /\ RunCallback(s)
    /\ connCount' = OnEvict(s)
    /\ leaked' = IF binding[s].onEvict = NoServer THEN leaked + 1 ELSE leaked
    /\ UNCHANGED <<reader, workCh, worker, binding, healthy, assigned, received, flips>>

RemoveStep ==
    /\ Alive
    /\ SweepDelete
    /\ assigned' = [assigned EXCEPT ![victim] = NoServer]
    /\ UNCHANGED <<reader, workCh, worker, binding, healthy, connCount, leaked, received, flips>>

ReaperStep ==
    /\ Alive
    /\ \/ SweepStart
       \/ SweepLock
       \/ \E k \in Keys : SweepCheck(k)
       \/ SweepCount
       \/ SweepUnlock
       \/ NextShard
    /\ UNCHANGED fwdVars

\* Pool.SetHealthy, called by the health checker.
SetHealthy(b) ==
    /\ Alive
    /\ flips < MaxFlips /\ received + flips < MaxEvents
    /\ flips' = flips + 1
    /\ healthy' = [healthy EXCEPT ![b] = ~@]
    /\ assigned' = [k \in Keys |-> NoServer]
    /\ UNCHANGED <<tableVars, reader, workCh, worker, binding, connCount, leaked, received>>

ClockStep ==
    /\ Alive
    /\ Tick
    /\ UNCHANGED fwdVars

-----------------------------------------------------------------------------
ReaderStep(r) ==
    \/ \E k \in Keys : Receive(r, k)
    \/ CapGet(r) \/ CapLen(r) \/ Enqueue(r)

WorkerStep(w) ==
    \/ Take(w) \/ LookupStep(w) \/ Weigh(w) \/ PickNil(w)
    \/ \E b \in Servers, s \in Sessions : ChooseNew(w, b, s)
    \/ \E b \in Servers : ChooseEach(w, b) \/ Rechoose(w, b)
    \/ \E s \in Sessions : Alloc(w, s)
    \/ InsertStep(w) \/ CountStep(w) \/ LoadAddr(w) \/ Wire(w) \/ Compare(w)
    \/ TouchStep(w) \/ Check(w) \/ Reweigh(w) \/ Transfer(w) \/ Send(w)

Next ==
    \/ \E r \in Readers : ReaderStep(r)
    \/ \E w \in Procs : WorkerStep(w)
    \/ \E s \in Sessions : EvictStep(s)
    \/ RemoveStep
    \/ ReaperStep
    \/ \E b \in Servers : SetHealthy(b)
    \/ ClockStep

Spec == Init /\ [][Next]_vars

-----------------------------------------------------------------------------
(* Properties                                                              *)

\* Sessions in the table whose creator has yet to wire them.
Unwired == {sess[w] : w \in {v \in Procs : worker[v].pc \in {"count", "wireload", "wire"}}}

\* The servers' connCounts (backend.go:33) add up to the number of wired sessions
\* whose eviction callback has yet to run, and one for every session that was
\* evicted before its creator wired it (frontend.go:426): such a session is never
\* given back, and nothing else is lost, however re-picks, evictions and health
\* changes interleave.
ConnTotalExact ==
    Affinity =>
        MapThenSumSet(LAMBDA b : connCount[b], Servers) =
            Cardinality((InTable \cup callbacks) \ Unwired)
                + leaked - Cardinality(Unwired \cap evicted)

\* leastConn's premise (backend.go:198): with nothing in progress, a server's
\* connCount is the number of table entries bound to it.
ConnCountReflectsSessions ==
    (rpc = "idle" /\ \A w \in Procs : worker[w].pc = "idle") =>
        \A b \in Servers :
            connCount[b] = Cardinality({k \in Present : binding[entries[k]].addr = b})

\* That premise holds in affinity mode until a server's health changes or a
\* session is evicted before it is wired (frontend.go:423).
ConnCountUntilFailover == Affinity /\ flips = 0 /\ leaked = 0 => ConnCountReflectsSessions

\* Session affinity (frontend.go:408): until a server's health changes, a packet
\* sent through a session that is still in the table goes where that client's
\* last packet went, whichever workers handle the two.
Sticky ==
    [][\A w \in Procs :
          /\ Affinity /\ flips = 0
          /\ worker[w].pc = "send" /\ worker'[w].pc = "idle"
          /\ sess[w] \notin Removed
          => assigned[worker[w].key] \in {NoServer, worker[w].srv}]_vars

\* The session cap (frontend.go:350) is checked by the reader and used up later
\* by a worker.  It is exceeded by at most the packets that can be under way in
\* between: one per reader, one per worker and a full channel.
CapOvershootBounded ==
    MaxSessions > 0 =>
        Cardinality(Present) <= MaxSessions - 1 + Cardinality(Readers)
                                + Cardinality(Procs) + QueueCap

\* A packet is refused at the cap only while the table holds MaxSessions
\* sessions, one in the middle of its removal included.
RefusedOnlyWhenFull ==
    [][\A r \in Readers :
          reader[r].pc = "len" /\ reader'[r].pc = "idle" =>
              Cardinality(Present) + (IF rpc = "discount" THEN 1 ELSE 0) >= MaxSessions]_vars

\* Pick never hands forward a nil server (backend.go:187).
PickNeverNil == ~crashed
=============================================================================

--------------------------- MODULE ForwardProofs ----------------------------
(***************************************************************************)
(* What TLAPS proves of Forward, for every set of readers, workers,        *)
(* clients, servers and sessions, every cap and every channel size.        *)
(***************************************************************************)
EXTENDS Forward, SessionTableProofs, WellFoundedInduction

-----------------------------------------------------------------------------
(* Workers and the table                                                   *)

\* Where a worker stands in forward says where it stands in the table.
PlaceFor(l, t) ==
    /\ l \in {"idle", "lookup"} => t = "idle"
    /\ l \in {"weigh", "choose"} => t = IF Affinity THEN "miss" ELSE "idle"
    /\ l = "alloc" => t = "miss"
    /\ l = "insert" => t = "insert"
    /\ l = "count" => t = "count"
    /\ l \in {"wireload", "wire"} => t = "created"
    /\ l = "compare" => t = "found"
    /\ l \in {"touch", "load", "check", "reweigh", "rechoose", "transfer", "send"}
          => t \in {"created", "found"}
TablePlace(w) == PlaceFor(worker[w].pc, pc[w])

\* A worker with a packet works for that packet's client.
ForItsClient(w) ==
    /\ worker[w].pc # "idle" => worker[w].key \in Keys
    /\ pc[w] # "idle" => key[w] = worker[w].key

ReadersInHand == \A r \in Readers : reader[r].pc # "idle" => reader[r].key \in Keys
WorkersLinked == \A w \in Procs : TablePlace(w) /\ ForItsClient(w)

ForwardInv == ForwardTypeOK /\ ReadersInHand /\ WorkersLinked

-----------------------------------------------------------------------------
(* A step of a worker, told without EXCEPT                                 *)

Becomes(f, g, w, l, k, b, c) ==
    /\ g \in [Procs -> WorkerStates]
    /\ g[w] = [pc |-> l, key |-> k, srv |-> b, newSrv |-> c]
    /\ \A v \in Procs \ {w} : g[v] = f[v]
Became(w, l, k, b, c) == Becomes(worker, worker', w, l, k, b, c)

Places == {"idle", "lookup", "weigh", "choose", "alloc", "insert", "count", "wireload",
           "wire", "compare", "touch", "load", "check", "reweigh", "rechoose",
           "transfer", "send"}

LEMMA RecordsMove ==
  ASSUME NEW f \in [Procs -> WorkerStates], NEW w \in Procs, NEW l \in Places,
         NEW k \in Keys \cup {NoKey}, NEW b \in AnyServer
  PROVE  /\ Becomes(f, [f EXCEPT ![w].pc = l], w, l, f[w].key, f[w].srv, f[w].newSrv)
         /\ Becomes(f, [f EXCEPT ![w].pc = l, ![w].key = k], w, l, k, f[w].srv, f[w].newSrv)
         /\ Becomes(f, [f EXCEPT ![w].pc = l, ![w].srv = b], w, l, f[w].key, b, f[w].newSrv)
         /\ Becomes(f, [f EXCEPT ![w].pc = l, ![w].newSrv = b], w, l, f[w].key, f[w].srv, b)
  BY DEF WorkerStates, Places, Becomes

LEMMA WorkerMoves ==
  ASSUME ForwardTypeOK, NEW w \in Procs,
         NEW l \in Places
  PROVE  /\ Goes(w, l) => Became(w, l, worker[w].key, worker[w].srv, worker[w].newSrv)
         /\ Returns(w) => Became(w, "idle", NoKey, NoServer, NoServer)
         /\ \A k \in Keys : worker' = [worker EXCEPT ![w].pc = l, ![w].key = k]
               => Became(w, l, k, worker[w].srv, worker[w].newSrv)
         /\ \A b \in AnyServer : worker' = [worker EXCEPT ![w].pc = l, ![w].srv = b]
               => Became(w, l, worker[w].key, b, worker[w].newSrv)
         /\ \A b \in AnyServer : worker' = [worker EXCEPT ![w].pc = l, ![w].newSrv = b]
               => Became(w, l, worker[w].key, worker[w].srv, b)
<1>0. worker \in [Procs -> WorkerStates]
  BY DEF ForwardTypeOK
<1>1. ASSUME Goes(w, l) PROVE Became(w, l, worker[w].key, worker[w].srv, worker[w].newSrv)
  <2>1. worker' = [worker EXCEPT ![w].pc = l]
    BY <1>1 DEF Goes
  <2>2. NoKey \in Keys \cup {NoKey} /\ NoServer \in AnyServer
    BY DEF AnyServer
  <2> QED
    BY <1>0, <2>1, <2>2, RecordsMove, Zenon DEF Became
<1>2. ASSUME Returns(w) PROVE Became(w, "idle", NoKey, NoServer, NoServer)
  BY <1>0, <1>2 DEF Returns, Became, Becomes, IdleWorker, WorkerStates, AnyServer
<1>3. ASSUME NEW k \in Keys, worker' = [worker EXCEPT ![w].pc = l, ![w].key = k]
      PROVE  Became(w, l, k, worker[w].srv, worker[w].newSrv)
  <2>2. k \in Keys \cup {NoKey} /\ NoServer \in AnyServer
    BY DEF AnyServer
  <2> QED
    BY <1>0, <1>3, <2>2, RecordsMove, Zenon DEF Became
<1>4. ASSUME NEW b \in AnyServer, worker' = [worker EXCEPT ![w].pc = l, ![w].srv = b]
      PROVE  Became(w, l, worker[w].key, b, worker[w].newSrv)
  <2>2. NoKey \in Keys \cup {NoKey}
    OBVIOUS
  <2> QED
    BY <1>0, <1>4, <2>2, RecordsMove, Zenon DEF Became
<1>5. ASSUME NEW b \in AnyServer, worker' = [worker EXCEPT ![w].pc = l, ![w].newSrv = b]
      PROVE  Became(w, l, worker[w].key, worker[w].srv, b)
  <2>2. NoKey \in Keys \cup {NoKey}
    OBVIOUS
  <2> QED
    BY <1>0, <1>5, <2>2, RecordsMove, Zenon DEF Became
<1> QED
  BY <1>1, <1>2, <1>3, <1>4, <1>5

\* The same for the worker's operation on the table.
Proceeded(p, l, k, s) ==
    /\ pc'[p] = l
    /\ key'[p] = k
    /\ sess'[p] = s
    /\ \A q \in Procs \ {p} : pc'[q] = pc[q] /\ key'[q] = key[q] /\ sess'[q] = sess[q]

LEMMA ProcMoves ==
  ASSUME TypeOK, NEW p \in Procs
  PROVE  /\ \A k \in Keys : Lookup(p, k) =>
               Proceeded(p, IF entries[k] = NoSession THEN "miss" ELSE "found", k, entries[k])
         /\ NewFnNil(p) => Proceeded(p, "idle", NoKey, NoSession)
         /\ Release(p) => Proceeded(p, "idle", NoKey, NoSession)
         /\ \A s \in Sessions : NewFn(p, s) => Proceeded(p, "insert", key[p], s)
         /\ Insert(p) => \/ Proceeded(p, "count", key[p], sess[p])
                         \/ Proceeded(p, "found", key[p], entries[key[p]])
         /\ CountAdd(p) => Proceeded(p, "created", key[p], sess[p])
         /\ Touch(p) => Proceeded(p, pc[p], key[p], sess[p])
<1> USE DEF TypeOK, Proceeded
<1>1. ASSUME NEW k \in Keys, Lookup(p, k)
      PROVE  Proceeded(p, IF entries[k] = NoSession THEN "miss" ELSE "found", k, entries[k])
  BY <1>1 DEF Lookup
<1>2. ASSUME NewFnNil(p) \/ Release(p) PROVE Proceeded(p, "idle", NoKey, NoSession)
  BY <1>2 DEF NewFnNil, Release, Return
<1>3. ASSUME NEW s \in Sessions, NewFn(p, s) PROVE Proceeded(p, "insert", key[p], s)
  BY <1>3 DEF NewFn
<1>4. ASSUME Insert(p) PROVE \/ Proceeded(p, "count", key[p], sess[p])
                             \/ Proceeded(p, "found", key[p], entries[key[p]])
  BY <1>4 DEF Insert, Winner
<1>5. ASSUME CountAdd(p) PROVE Proceeded(p, "created", key[p], sess[p])
  BY <1>5 DEF CountAdd
<1>6. ASSUME Touch(p) PROVE Proceeded(p, pc[p], key[p], sess[p])
  BY <1>6 DEF Touch, procVars
<1> HIDE DEF Proceeded
<1> QED
  BY <1>1, <1>2, <1>3, <1>4, <1>5, <1>6

LEMMA LinkKept ==
  ASSUME WorkersLinked, NEW w \in Procs, TablePlace(w)', ForItsClient(w)',
         \A v \in Procs \ {w} : /\ worker'[v] = worker[v]
                                 /\ pc'[v] = pc[v] /\ key'[v] = key[v]
  PROVE  WorkersLinked'
<1> SUFFICES ASSUME NEW v \in Procs PROVE TablePlace(v)' /\ ForItsClient(v)'
  BY DEF WorkersLinked
<1>1. CASE v = w
  BY <1>1
<1>2. CASE v # w
  <2>1. worker'[v] = worker[v] /\ pc'[v] = pc[v] /\ key'[v] = key[v]
    BY <1>2
  <2>2. TablePlace(v) /\ ForItsClient(v)
    BY DEF WorkersLinked
  <2> QED
    BY <2>1, <2>2 DEF TablePlace, ForItsClient
<1> QED
  BY <1>1, <1>2

LEMMA ForwardInvInit == Init => ForwardInv
<1> SUFFICES ASSUME Init PROVE ForwardInv
  OBVIOUS
<1> USE DEF Init
<1>1. reader \in [Readers -> ReaderStates]
  BY DEF ReaderStates, IdleReader
<1>2. worker \in [Procs -> WorkerStates]
  BY DEF WorkerStates, IdleWorker, AnyServer
<1>3. workCh \in Seq(Keys) /\ Len(workCh) = 0
  OBVIOUS
<1>4. Len(workCh) <= QueueCap /\ received \in 0..MaxPackets /\ flips \in 0..MaxFlips
  BY <1>3, BoundsAssumption
<1>5. binding \in [Sessions -> Bindings] /\ assigned \in [Keys -> AnyServer]
  BY DEF Bindings, AnyServer
<1>6. healthy \in [Servers -> BOOLEAN] /\ crashed \in BOOLEAN
  BY Zenon
<1>7. connCount \in [Servers -> Int] /\ leaked \in Nat
  OBVIOUS
<1>8. ForwardTypeOK
  BY <1>1, <1>2, <1>3, <1>4, <1>5, <1>6, <1>7, Zenon DEF ForwardTypeOK
<1>9. ReadersInHand
  BY DEF ReadersInHand, IdleReader
<1>10. WorkersLinked
  BY DEF WorkersLinked, TablePlace, PlaceFor, ForItsClient, IdleWorker, TableInit
<1> QED
  BY <1>8, <1>9, <1>10 DEF ForwardInv

\* readLoop
ReadBecomes(f, g, r, l, k) ==
    /\ g \in [Readers -> ReaderStates]
    /\ g[r].pc = l /\ g[r].key = k
    /\ \A q \in Readers \ {r} : g[q] = f[q]

LEMMA ReadersMove ==
  ASSUME NEW f \in [Readers -> ReaderStates], NEW r \in Readers,
         NEW l \in {"idle", "get", "len", "enqueue"}, NEW k \in Keys \cup {NoKey}
  PROVE  /\ ReadBecomes(f, [f EXCEPT ![r] = [pc |-> l, key |-> k]], r, l, k)
         /\ ReadBecomes(f, [f EXCEPT ![r].pc = l], r, l, f[r].key)
  BY DEF ReaderStates, ReadBecomes

\* A reader's step, told without EXCEPT.
LEMMA ReaderMoves ==
  ASSUME ForwardInv, NEW r \in Readers, ReaderStep(r)
  PROVE  \/ /\ \E k \in Keys : ReadBecomes(reader, reader', r,
                                   IF MaxSessions > 0 THEN "get" ELSE "enqueue", k)
            /\ workCh' = workCh /\ received < MaxPackets /\ received' = received + 1
         \/ /\ reader[r].pc = "get"
            /\ ReadBecomes(reader, reader', r, IF entries[reader[r].key] = NoSession
                                               THEN "len" ELSE "enqueue", reader[r].key)
            /\ workCh' = workCh /\ received' = received
         \/ /\ reader[r].pc = "len"
            /\ \/ Full /\ ReadBecomes(reader, reader', r, "idle", NoKey)
               \/ ~Full /\ ReadBecomes(reader, reader', r, "enqueue", reader[r].key)
            /\ workCh' = workCh /\ received' = received
         \/ /\ reader[r].pc = "enqueue"
            /\ ReadBecomes(reader, reader', r, "idle", NoKey)
            /\ \/ Len(workCh) < QueueCap /\ workCh' = Append(workCh, reader[r].key)
               \/ workCh' = workCh
            /\ received' = received
<1>0. reader \in [Readers -> ReaderStates] /\ NoKey \in Keys \cup {NoKey}
  BY DEF ForwardInv, ForwardTypeOK
<1>1. ASSUME NEW k \in Keys, Receive(r, k)
      PROVE  /\ ReadBecomes(reader, reader', r, IF MaxSessions > 0 THEN "get" ELSE "enqueue", k)
             /\ workCh' = workCh /\ received < MaxPackets /\ received' = received + 1
  <2> DEFINE l == IF MaxSessions > 0 THEN "get" ELSE "enqueue"
  <2>1. l \in {"idle", "get", "len", "enqueue"} /\ k \in Keys \cup {NoKey}
    BY Zenon
  <2>2. reader' = [reader EXCEPT ![r] = [pc |-> l, key |-> k]]
    BY <1>1, Zenon DEF Receive
  <2> HIDE DEF l
  <2>3. ReadBecomes(reader, reader', r, l, k)
    BY <1>0, <2>1, <2>2, ReadersMove, Zenon
  <2> QED
    BY <1>1, <2>3, Zenon DEF Receive, l
<1>2. CASE CapGet(r)
  <2> DEFINE l == IF entries[reader[r].key] = NoSession THEN "len" ELSE "enqueue"
  <2>1. l \in {"idle", "get", "len", "enqueue"}
    BY Zenon
  <2>2. reader' = [reader EXCEPT ![r].pc = l]
    BY <1>2, Zenon DEF CapGet
  <2> HIDE DEF l
  <2>3. ReadBecomes(reader, reader', r, l, reader[r].key)
    BY <1>0, <2>1, <2>2, ReadersMove, Zenon
  <2> QED
    BY <1>2, <2>3, Zenon DEF CapGet, ReaderAt, l
<1>3. CASE CapLen(r)
  <2>1. ASSUME reader' = [reader EXCEPT ![r] = IdleReader]
        PROVE  ReadBecomes(reader, reader', r, "idle", NoKey)
    BY <1>0, <2>1, ReadersMove, Zenon DEF IdleReader
  <2>2. ASSUME reader' = [reader EXCEPT ![r].pc = "enqueue"]
        PROVE  ReadBecomes(reader, reader', r, "enqueue", reader[r].key)
    BY <1>0, <2>2, ReadersMove, Zenon
  <2> QED
    BY <1>3, <2>1, <2>2, Zenon DEF CapLen, ReaderAt
<1>4. CASE Enqueue(r)
  <2>1. ReadBecomes(reader, reader', r, "idle", NoKey)
    BY <1>0, <1>4, ReadersMove, Zenon DEF IdleReader, Enqueue
  <2> QED
    BY <1>4, <2>1, Zenon DEF Enqueue, ReaderAt, HasRoom
<1> QED
  BY <1>1, <1>2, <1>3, <1>4, Zenon DEF ReaderStep

LEMMA ReaderInvStep ==
  ASSUME ForwardInv, NEW r \in Readers, ReaderStep(r)
  PROVE  ForwardInv' /\ UNCHANGED tableVars
<1> USE DEF ForwardInv
<1>0. /\ reader \in [Readers -> ReaderStates]
      /\ workCh \in Seq(Keys) /\ Len(workCh) <= QueueCap
      /\ received \in 0..MaxPackets
      /\ QueueCap \in Nat /\ MaxPackets \in Nat
  BY BoundsAssumption DEF ForwardTypeOK
<1>1. /\ UNCHANGED <<tableVars, worker, binding, healthy, connCount, leaked, assigned, flips>>
      /\ UNCHANGED crashed
  BY Zenon DEF ReaderStep, Receive, CapGet, CapLen, Enqueue, ReaderAt, Alive
<1>2. WorkersLinked'
  <2>1. worker' = worker /\ pc' = pc /\ key' = key
    BY <1>1 DEF tableVars
  <2> QED
    BY <2>1 DEF WorkersLinked, TablePlace, ForItsClient
<1>3. PICK l, k : /\ ReadBecomes(reader, reader', r, l, k)
                  /\ l # "idle" => k \in Keys
  BY ReaderMoves, Zenon DEF ReadersInHand
<1>4. reader' \in [Readers -> ReaderStates] /\ ReadersInHand'
  BY <1>3 DEF ReadBecomes, ReadersInHand
<1>5. workCh' \in Seq(Keys) /\ Len(workCh') <= QueueCap
  <2>1. CASE workCh' = workCh
    BY <1>0, <2>1
  <2>2. CASE /\ reader[r].pc = "enqueue" /\ Len(workCh) < QueueCap
             /\ workCh' = Append(workCh, reader[r].key)
    <3>1. reader[r].key \in Keys
      BY <2>2 DEF ReadersInHand
    <3> QED
      BY <1>0, <2>2, <3>1
  <2> QED
    BY <2>1, <2>2, ReaderMoves, Zenon
<1>6. received' \in 0..MaxPackets
  <2>1. received' = received \/ (received < MaxPackets /\ received' = received + 1)
    BY ReaderMoves, Zenon
  <2> QED
    BY <1>0, <2>1
<1> QED
  BY <1>1, <1>2, <1>4, <1>5, <1>6, Zenon DEF ForwardTypeOK

\* The servers, the sessions and what a worker leaves alone.
ServerSide ==
    /\ binding \in [Sessions -> Bindings]
    /\ connCount \in [Servers -> Int]
    /\ assigned \in [Keys -> AnyServer]

LEMMA WorkerFrame ==
  ASSUME ForwardInv, ServerSide', WorkersLinked',
         worker' \in [Procs -> WorkerStates],
         UNCHANGED <<reader, received, healthy, leaked, flips, crashed>>,
         \/ workCh' = workCh
         \/ workCh # <<>> /\ workCh' = Tail(workCh)
  PROVE  ForwardInv'
<1>1. workCh' \in Seq(Keys) /\ Len(workCh') <= QueueCap
  <2>1. workCh \in Seq(Keys) /\ Len(workCh) <= QueueCap /\ QueueCap \in Nat
    BY BoundsAssumption DEF ForwardInv, ForwardTypeOK
  <2> QED
    BY <2>1
<1>2. ReadersInHand'
  BY DEF ForwardInv, ReadersInHand
<1>3. ForwardTypeOK'
  BY <1>1, Zenon DEF ForwardInv, ForwardTypeOK, ServerSide
<1> QED
  BY <1>2, <1>3 DEF ForwardInv

LEMMA BindingMoves ==
  ASSUME binding \in [Sessions -> Bindings], NEW s, NEW a \in AnyServer, NEW b \in AnyServer,
         UpdateServer(s, a, b)
  PROVE  /\ binding' \in [Sessions -> Bindings]
         /\ s \in Sessions => binding'[s] = [addr |-> a, onEvict |-> b]
         /\ \A t \in Sessions \ {s} : binding'[t] = binding[t]
  BY DEF UpdateServer, Bindings

LEMMA CountsMove ==
  ASSUME NEW f \in [Servers -> Int]
  PROVE  /\ \A b : [f EXCEPT ![b] = @ + 1] \in [Servers -> Int]
         /\ \A b : [f EXCEPT ![b] = @ - 1] \in [Servers -> Int]
         /\ \A b, c : [[f EXCEPT ![b] = @ - 1] EXCEPT ![c] = @ + 1] \in [Servers -> Int]
<1>1. ASSUME NEW g \in [Servers -> Int], NEW b PROVE [g EXCEPT ![b] = @ + 1] \in [Servers -> Int]
  <2>1. [g EXCEPT ![b] = @ + 1] = [x \in Servers |-> IF x = b THEN g[x] + 1 ELSE g[x]]
    OBVIOUS
  <2>2. \A x \in Servers : g[x] \in Int /\ g[x] + 1 \in Int
    OBVIOUS
  <2> QED
    BY <2>1, <2>2
<1>2. ASSUME NEW g \in [Servers -> Int], NEW b PROVE [g EXCEPT ![b] = @ - 1] \in [Servers -> Int]
  <2>1. [g EXCEPT ![b] = @ - 1] = [x \in Servers |-> IF x = b THEN g[x] - 1 ELSE g[x]]
    OBVIOUS
  <2>2. \A x \in Servers : g[x] \in Int /\ g[x] - 1 \in Int
    OBVIOUS
  <2> QED
    BY <2>1, <2>2
<1> QED
  BY <1>1, <1>2, Zenon

\* forward: a worker's step keeps its two places together and is a step of the
\* table, or leaves the table alone.
LEMMA WorkerInvStep ==
  ASSUME TypeOK, InHand, ForwardInv, NEW w \in Procs, WorkerStep(w)
  PROVE  ForwardInv' /\ [TableNext]_tableVars
<1> DEFINE Goal == ForwardInv' /\ [TableNext]_tableVars
<1>fwd. ForwardTypeOK /\ WorkersLinked /\ TablePlace(w) /\ ForItsClient(w)
  BY DEF ForwardInv, WorkersLinked
<1>ty. /\ worker[w].key \in Keys \cup {NoKey} /\ worker[w].srv \in AnyServer
       /\ worker[w].newSrv \in AnyServer /\ worker[w] \in WorkerStates
       /\ ServerSide /\ connCount \in [Servers -> Int] /\ workCh \in Seq(Keys)
       /\ binding \in [Sessions -> Bindings] /\ assigned \in [Keys -> AnyServer]
  BY <1>fwd DEF ForwardTypeOK, WorkerStates, ServerSide
<1>addr. ASSUME NEW s \in Sessions PROVE binding[s].addr \in AnyServer
  BY <1>ty DEF Bindings
\* A worker at place l has hold t on the table, and both are its packet's.
<1>act. ASSUME [TableNext]_tableVars, ServerSide',
               NEW l \in Places, NEW k, NEW b, NEW c, Became(w, l, k, b, c),
               NEW t, NEW tk, NEW ts, Proceeded(w, t, tk, ts), PlaceFor(l, t),
               l # "idle" => k \in Keys, t # "idle" => tk = k,
               UNCHANGED <<reader, received, healthy, leaked, flips, crashed>>,
               \/ workCh' = workCh
               \/ workCh # <<>> /\ workCh' = Tail(workCh)
        PROVE  Goal
  <2>1. /\ worker'[w].pc = l /\ worker'[w].key = k /\ worker' \in [Procs -> WorkerStates]
        /\ \A v \in Procs \ {w} : worker'[v] = worker[v]
    BY <1>act DEF Became, Becomes
  <2>2. /\ pc'[w] = t /\ key'[w] = tk
        /\ \A v \in Procs \ {w} : pc'[v] = pc[v] /\ key'[v] = key[v]
    BY <1>act DEF Proceeded
  <2>3. TablePlace(w)' /\ ForItsClient(w)'
    BY <1>act, <2>1, <2>2 DEF TablePlace, ForItsClient
  <2>4. WorkersLinked'
    BY <1>fwd, <2>1, <2>2, <2>3, LinkKept
  <2> QED
    BY <1>act, <2>1, <2>4, WorkerFrame
<1>same. UNCHANGED tableVars => Proceeded(w, pc[w], key[w], sess[w])
  BY DEF tableVars, Proceeded
<1>side. UNCHANGED <<binding, connCount, assigned>> => ServerSide'
  BY <1>ty DEF ServerSide
<1>frame. ASSUME NEW l, WorkerAt(w, l)
          PROVE  /\ worker[w].pc = l /\ PlaceFor(l, pc[w])
                 /\ l # "idle" => worker[w].key \in Keys
                 /\ pc[w] # "idle" => key[w] = worker[w].key
                 /\ UNCHANGED <<reader, received, healthy, leaked, flips, crashed>>
  BY <1>frame, <1>fwd DEF WorkerAt, Alive, TablePlace, ForItsClient
<1>1. CASE Take(w)
  <2> DEFINE l == IF Affinity THEN "lookup" ELSE "weigh"
  <2>1. Head(workCh) \in Keys /\ l \in Places
    BY <1>1, <1>ty, AffinityAssumption DEF Take, Places
  <2>2. Became(w, l, Head(workCh), worker[w].srv, worker[w].newSrv)
    BY <1>1, <1>fwd, <2>1, WorkerMoves DEF Take
  <2>3. pc[w] = "idle" /\ PlaceFor(l, pc[w])
    BY <1>1, <1>frame DEF Take, PlaceFor
  <2>4. /\ UNCHANGED tableVars /\ ServerSide'
        /\ UNCHANGED <<reader, received, healthy, leaked, flips, crashed>>
        /\ workCh # <<>> /\ workCh' = Tail(workCh)
    BY <1>1, <1>side, <1>frame DEF Take
  <2> QED
    BY <1>same, <2>1, <2>2, <2>3, <2>4, <1>act
<1>2. CASE LookupStep(w)
  <2>0. PICK l \in Places : /\ Goes(w, l)
                            /\ pc'[w] = "found" => l = Found
                            /\ pc'[w] # "found" => l = IF Affinity THEN "weigh" ELSE "alloc"
    BY <1>2, AffinityAssumption DEF LookupStep, Found, Places
  <2>1. /\ WorkerAt(w, "lookup") /\ Lookup(w, worker[w].key)
        /\ workCh' = workCh /\ UNCHANGED <<binding, connCount, assigned>>
    BY <1>2 DEF LookupStep
  <2>2. worker[w].key \in Keys
    BY <1>frame, <2>1
  <2>3. PICK t \in {"miss", "found"} : Proceeded(w, t, worker[w].key, entries[worker[w].key])
    BY <2>1, <2>2, ProcMoves
  <2>4. Became(w, l, worker[w].key, worker[w].srv, worker[w].newSrv)
    BY <1>fwd, <2>0, WorkerMoves
  <2>5. PlaceFor(l, t)
    BY <2>0, <2>3 DEF PlaceFor, Found, Proceeded
  <2>6. TableNext
    BY <2>1, <2>2 DEF TableNext, ProcStep
  <2> QED
    BY <1>act, <1>frame, <1>side, <2>1, <2>2, <2>3, <2>4, <2>5, <2>6
<1>3. CASE Weigh(w)
  <2>1. /\ WorkerAt(w, "weigh")
        /\ workCh' = workCh /\ UNCHANGED <<binding, connCount, assigned>>
    BY <1>3 DEF Weigh
  <2>2. CASE Goes(w, "choose") /\ UNCHANGED tableVars
    <3>1. Became(w, "choose", worker[w].key, worker[w].srv, worker[w].newSrv)
      BY <1>fwd, <2>2, WorkerMoves DEF Places
    <3>2. PlaceFor("choose", pc[w]) /\ "choose" \in Places
      BY <1>frame, <2>1 DEF PlaceFor, Places
    <3> QED
      BY <1>act, <1>frame, <1>side, <1>same, <2>1, <2>2, <3>1, <3>2
  <2>3. CASE Returns(w) /\ NewFnNil(w)
    <3>1. Became(w, "idle", NoKey, NoServer, NoServer)
      BY <1>fwd, <2>3, WorkerMoves DEF Places
    <3>2. PlaceFor("idle", "idle") /\ "idle" \in Places
      BY DEF PlaceFor, Places
    <3>3. Proceeded(w, "idle", NoKey, NoSession)
      BY <2>3, ProcMoves
    <3>4. TableNext
      BY <2>3 DEF TableNext, ProcStep
    <3> QED
      BY <1>act, <1>frame, <1>side, <2>1, <3>1, <3>2, <3>3, <3>4
  <2>4. CASE Returns(w) /\ ~Affinity /\ UNCHANGED tableVars
    <3>1. Became(w, "idle", NoKey, NoServer, NoServer)
      BY <1>fwd, <2>4, WorkerMoves DEF Places
    <3>2. PlaceFor("idle", pc[w]) /\ "idle" \in Places /\ pc[w] = "idle"
      BY <1>frame, <2>1, <2>4 DEF PlaceFor, Places
    <3> QED
      BY <1>act, <1>frame, <1>side, <1>same, <2>1, <2>4, <3>1, <3>2
  <2> QED
    BY <1>3, <2>2, <2>3, <2>4 DEF Weigh
<1>4. CASE PickNil(w)
  <2>1. UNCHANGED <<tableVars, reader, workCh, worker, binding, healthy, connCount,
                    leaked, assigned, received, flips>>
    BY <1>4 DEF PickNil
  <2>2. crashed' \in BOOLEAN
    BY <1>4, Zenon DEF PickNil
  <2>3. pc' = pc /\ key' = key
    BY <2>1 DEF tableVars
  <2>4. WorkersLinked' /\ ReadersInHand'
    BY <2>1, <2>3 DEF ForwardInv, WorkersLinked, TablePlace, ForItsClient, ReadersInHand
  <2>5. ForwardTypeOK'
    BY <2>1, <2>2, Zenon DEF ForwardInv, ForwardTypeOK
  <2> QED
    BY <2>1, <2>4, <2>5 DEF ForwardInv
<1>5. ASSUME NEW s \in Sessions, NEW b \in AnyServer, NewFn(w, s), UpdateServer(s, b, NoServer),
             Goes(w, "insert"), UNCHANGED <<workCh, connCount, assigned>>,
             NEW l \in {"choose", "alloc"}, WorkerAt(w, l)
      PROVE  Goal
  <2>1. Became(w, "insert", worker[w].key, worker[w].srv, worker[w].newSrv)
    BY <1>5, <1>fwd, WorkerMoves DEF Places
  <2>2. PlaceFor("insert", "insert") /\ "insert" \in Places
    BY DEF PlaceFor, Places
  <2>3. Proceeded(w, "insert", key[w], s) /\ pc[w] # "idle"
    BY <1>5, ProcMoves DEF NewFn
  <2>4. TableNext
    BY <1>5 DEF TableNext, ProcStep
  <2>5. ServerSide'
    BY <1>5, <1>ty, BindingMoves DEF ServerSide, AnyServer
  <2> QED
    BY <1>5, <1>act, <1>frame, <2>1, <2>2, <2>3, <2>4, <2>5
<1>6. ASSUME NEW b \in Servers, NEW s \in Sessions, ChooseNew(w, b, s) PROVE Goal
  BY <1>5, <1>6 DEF ChooseNew, AnyServer
<1>7. ASSUME NEW s \in Sessions, Alloc(w, s) PROVE Goal
  BY <1>5, <1>7, <1>ty DEF Alloc
\* Steps that leave the table alone.
<1>own. ASSUME UNCHANGED tableVars, ServerSide', NEW l \in Places, NEW b, NEW c,
               Became(w, l, worker[w].key, b, c), PlaceFor(l, pc[w]),
               NEW m, WorkerAt(w, m), m # "idle", workCh' = workCh
        PROVE  Goal
  BY <1>own, <1>act, <1>frame, <1>same
<1>8. ASSUME NEW b \in Servers, ChooseEach(w, b) PROVE Goal
  <2>1. /\ WorkerAt(w, "choose") /\ worker' = [worker EXCEPT ![w].pc = "lookup", ![w].srv = b]
        /\ UNCHANGED <<tableVars, workCh, binding, connCount, assigned>> /\ ~Affinity
    BY <1>8 DEF ChooseEach
  <2>2. Became(w, "lookup", worker[w].key, b, worker[w].newSrv)
    BY <1>fwd, <2>1, WorkerMoves DEF Places, AnyServer
  <2>3. PlaceFor("lookup", pc[w]) /\ "lookup" \in Places
    BY <1>frame, <2>1 DEF PlaceFor, Places
  <2> QED
    BY <1>own, <1>side, <2>1, <2>2, <2>3
<1>9. CASE InsertStep(w)
  <2>1. /\ WorkerAt(w, "insert") /\ Insert(w)
        /\ workCh' = workCh /\ UNCHANGED <<binding, connCount, assigned>>
    BY <1>9 DEF InsertStep
  <2>2. PICK l \in Places : /\ Goes(w, l)
                            /\ pc'[w] = "count" => l = "count"
                            /\ pc'[w] # "count" => l = Found
    BY <1>9, AffinityAssumption DEF InsertStep, Found, Places
  <2>3. PICK t \in {"count", "found"} : \E ts : Proceeded(w, t, key[w], ts)
    BY <2>1, ProcMoves
  <2>4. Became(w, l, worker[w].key, worker[w].srv, worker[w].newSrv)
    BY <1>fwd, <2>2, WorkerMoves
  <2>5. PlaceFor(l, t)
    BY <2>2, <2>3 DEF PlaceFor, Found, Proceeded
  <2>6. TableNext
    BY <2>1 DEF TableNext, ProcStep
  <2>7. key[w] = worker[w].key
    BY <1>frame, <2>1 DEF Insert
  <2> QED
    BY <1>act, <1>frame, <1>side, <2>1, <2>3, <2>4, <2>5, <2>6, <2>7
<1>10. CASE CountStep(w)
  <2>1. /\ WorkerAt(w, "count") /\ CountAdd(w)
        /\ workCh' = workCh /\ UNCHANGED <<binding, connCount, assigned>>
    BY <1>10 DEF CountStep
  <2>2. PICK l \in {"wireload", "touch"} : Goes(w, l)
    BY <1>10 DEF CountStep
  <2>3. Proceeded(w, "created", key[w], sess[w]) /\ TableNext
    BY <2>1, ProcMoves DEF TableNext, ProcStep
  <2>4. Became(w, l, worker[w].key, worker[w].srv, worker[w].newSrv)
    BY <1>fwd, <2>2, WorkerMoves DEF Places
  <2>5. PlaceFor(l, "created") /\ l \in Places
    BY <2>2 DEF PlaceFor, Places
  <2>7. key[w] = worker[w].key
    BY <1>frame, <2>1 DEF CountAdd
  <2> QED
    BY <1>act, <1>frame, <1>side, <2>1, <2>3, <2>4, <2>5, <2>7
<1>sess. ASSUME pc[w] \notin {"idle", "miss"} PROVE sess[w] \in Sessions /\ Bound(w) \in AnyServer
  BY <1>sess, <1>addr DEF InHand, Bound
<1>11. CASE LoadAddr(w)
  <2>1. PICK m \in {"wireload", "load"} : WorkerAt(w, m) /\
               worker' = [worker EXCEPT ![w].pc = IF m = "load" THEN "check" ELSE "wire",
                                        ![w].srv = Bound(w)]
    BY <1>11 DEF LoadAddr
  <2> DEFINE l == IF m = "load" THEN "check" ELSE "wire"
  <2>2. UNCHANGED <<tableVars, workCh, binding, connCount, assigned>>
    BY <1>11 DEF LoadAddr
  <2>3. pc[w] \notin {"idle", "miss"} /\ PlaceFor(l, pc[w]) /\ l \in Places
    BY <1>frame, <2>1 DEF PlaceFor, Places
  <2>4. Became(w, l, worker[w].key, Bound(w), worker[w].newSrv)
    BY <1>fwd, <1>sess, <2>1, <2>3, WorkerMoves
  <2> QED
    BY <1>own, <1>side, <2>1, <2>2, <2>3, <2>4
<1>12. CASE Wire(w)
  <2>1. /\ WorkerAt(w, "wire") /\ UpdateServer(sess[w], worker[w].srv, worker[w].srv)
        /\ Goes(w, "touch") /\ UNCHANGED <<tableVars, workCh, assigned>>
        /\ connCount' = [connCount EXCEPT ![worker[w].srv] = @ + 1]
    BY <1>12 DEF Wire
  <2>2. Became(w, "touch", worker[w].key, worker[w].srv, worker[w].newSrv)
    BY <1>fwd, <2>1, WorkerMoves DEF Places
  <2>3. PlaceFor("touch", pc[w]) /\ "touch" \in Places
    BY <1>frame, <2>1 DEF PlaceFor, Places
  <2>4. connCount' \in [Servers -> Int]
    BY <1>ty, <2>1, CountsMove, Zenon
  <2>5. ServerSide'
    BY <1>ty, <2>1, <2>4, BindingMoves DEF ServerSide
  <2> QED
    BY <1>own, <2>1, <2>2, <2>3, <2>5
<1>13. CASE Compare(w)
  <2>1. /\ WorkerAt(w, "compare") /\ Goes(w, "touch")
        /\ UNCHANGED <<tableVars, workCh, connCount, assigned>>
        /\ binding' = binding \/ UpdateServer(sess[w], worker[w].srv, NoServer)
    BY <1>13 DEF Compare
  <2>2. Became(w, "touch", worker[w].key, worker[w].srv, worker[w].newSrv)
    BY <1>fwd, <2>1, WorkerMoves DEF Places
  <2>3. PlaceFor("touch", pc[w]) /\ "touch" \in Places
    BY <1>frame, <2>1 DEF PlaceFor, Places
  <2>4. binding' \in [Sessions -> Bindings]
    BY <1>ty, <2>1, BindingMoves DEF AnyServer
  <2>5. ServerSide'
    BY <1>ty, <2>1, <2>4 DEF ServerSide
  <2> QED
    BY <1>own, <2>1, <2>2, <2>3, <2>5
<1>14. CASE TouchStep(w)
  <2>1. /\ WorkerAt(w, "touch") /\ Touch(w)
        /\ workCh' = workCh /\ UNCHANGED <<binding, connCount, assigned>>
    BY <1>14 DEF TouchStep
  <2>2. PICK l \in {"load", "send"} : Goes(w, l)
    BY <1>14 DEF TouchStep
  <2>3. Proceeded(w, pc[w], key[w], sess[w]) /\ TableNext
    BY <2>1, ProcMoves DEF TableNext, ProcStep
  <2>4. Became(w, l, worker[w].key, worker[w].srv, worker[w].newSrv)
    BY <1>fwd, <2>2, WorkerMoves DEF Places
  <2>5. PlaceFor(l, pc[w]) /\ l \in Places
    BY <1>frame, <2>1, <2>2 DEF PlaceFor, Places
  <2> QED
    BY <1>act, <1>frame, <1>side, <2>1, <2>3, <2>4, <2>5
<1>15. CASE Check(w)
  <2>1. /\ WorkerAt(w, "check") /\ UNCHANGED <<tableVars, workCh, binding, connCount, assigned>>
    BY <1>15 DEF Check
  <2>2. PICK l \in {"send", "reweigh"} : Goes(w, l)
    BY <1>15 DEF Check
  <2>3. Became(w, l, worker[w].key, worker[w].srv, worker[w].newSrv)
    BY <1>fwd, <2>2, WorkerMoves DEF Places
  <2>4. PlaceFor(l, pc[w]) /\ l \in Places
    BY <1>frame, <2>1, <2>2 DEF PlaceFor, Places
  <2> QED
    BY <1>own, <1>side, <2>1, <2>3, <2>4
\* The packet leaves, or is dropped, and the session is let go.
<1>rel. ASSUME NEW m, WorkerAt(w, m), Returns(w), Release(w), ServerSide', workCh' = workCh
        PROVE  Goal
  <2>1. Became(w, "idle", NoKey, NoServer, NoServer)
    BY <1>fwd, <1>rel, WorkerMoves DEF Places
  <2>2. PlaceFor("idle", "idle") /\ "idle" \in Places
    BY DEF PlaceFor, Places
  <2>3. Proceeded(w, "idle", NoKey, NoSession) /\ TableNext
    BY <1>rel, ProcMoves DEF TableNext, ProcStep
  <2> QED
    BY <1>act, <1>frame, <1>rel, <2>1, <2>2, <2>3
<1>16. CASE Reweigh(w)
  <2>1. /\ WorkerAt(w, "reweigh") /\ workCh' = workCh
        /\ UNCHANGED <<binding, connCount, assigned>>
    BY <1>16 DEF Reweigh
  <2>2. CASE Goes(w, "rechoose") /\ UNCHANGED tableVars
    <3>1. Became(w, "rechoose", worker[w].key, worker[w].srv, worker[w].newSrv)
      BY <1>fwd, <2>2, WorkerMoves DEF Places
    <3>2. PlaceFor("rechoose", pc[w]) /\ "rechoose" \in Places
      BY <1>frame, <2>1 DEF PlaceFor, Places
    <3> QED
      BY <1>own, <1>side, <2>1, <2>2, <3>1, <3>2
  <2>3. CASE Returns(w) /\ Release(w)
    BY <1>rel, <1>side, <2>1, <2>3
  <2> QED
    BY <1>16, <2>2, <2>3 DEF Reweigh
<1>17. ASSUME NEW b \in Servers, Rechoose(w, b) PROVE Goal
  <2>1. /\ WorkerAt(w, "rechoose")
        /\ worker' = [worker EXCEPT ![w].pc = "transfer", ![w].newSrv = b]
        /\ UNCHANGED <<tableVars, workCh, binding, connCount, assigned>>
    BY <1>17 DEF Rechoose
  <2>2. Became(w, "transfer", worker[w].key, worker[w].srv, b)
    BY <1>fwd, <2>1, WorkerMoves DEF Places, AnyServer
  <2>3. PlaceFor("transfer", pc[w]) /\ "transfer" \in Places
    BY <1>frame, <2>1 DEF PlaceFor, Places
  <2> QED
    BY <1>own, <1>side, <2>1, <2>2, <2>3
<1>18. CASE Transfer(w)
  <2> DEFINE newSrv == worker[w].newSrv
  <2>1. /\ WorkerAt(w, "transfer") /\ UpdateServer(sess[w], newSrv, newSrv)
        /\ worker' = [worker EXCEPT ![w].pc = "send", ![w].srv = newSrv]
        /\ UNCHANGED <<tableVars, workCh, assigned>>
        /\ connCount' = Moved(worker[w].srv, newSrv)
    BY <1>18 DEF Transfer
  <2>2. Became(w, "send", worker[w].key, newSrv, worker[w].newSrv)
    BY <1>fwd, <1>ty, <2>1, WorkerMoves DEF Places
  <2>3. PlaceFor("send", pc[w]) /\ "send" \in Places
    BY <1>frame, <2>1 DEF PlaceFor, Places
  <2>4. connCount' \in [Servers -> Int]
    BY <1>ty, <2>1, CountsMove, Zenon DEF Moved
  <2>5. ServerSide'
    BY <1>ty, <2>1, <2>4, BindingMoves DEF ServerSide
  <2> QED
    BY <1>own, <2>1, <2>2, <2>3, <2>5
<1>19. CASE Send(w)
  <2>1. /\ WorkerAt(w, "send") /\ Release(w) /\ Returns(w)
        /\ UNCHANGED <<workCh, binding, connCount>>
        /\ \/ assigned' = assigned
           \/ assigned' = [assigned EXCEPT ![worker[w].key] = worker[w].srv]
    BY <1>19 DEF Send
  <2>2. ServerSide'
    BY <1>ty, <2>1 DEF ServerSide
  <2> QED
    BY <1>rel, <2>1, <2>2
<1> QED
  BY <1>1, <1>2, <1>3, <1>4, <1>6, <1>7, <1>8, <1>9, <1>10, <1>11, <1>12, <1>13, <1>14,
     <1>15, <1>16, <1>17, <1>18, <1>19 DEF WorkerStep

LEMMA HealthFlips ==
  ASSUME NEW f \in [Servers -> BOOLEAN], NEW b \in Servers
  PROVE  [f EXCEPT ![b] = ~@] \in [Servers -> BOOLEAN]
  BY Zenon

\* The reaper, the health checker and the clock leave the workers where they are.
LEMMA OthersInvStep ==
  ASSUME TypeOK, ForwardInv,
         \/ \E s \in Sessions : EvictStep(s)
         \/ RemoveStep
         \/ ReaperStep
         \/ \E b \in Servers : SetHealthy(b)
         \/ ClockStep
  PROVE  ForwardInv' /\ [TableNext]_tableVars
<1>0. /\ UNCHANGED <<reader, workCh, worker, binding, received, crashed>> /\ UNCHANGED procVars
  BY Zenon DEF EvictStep, RemoveStep, ReaperStep, SetHealthy, ClockStep, Alive, fwdVars,
         RunCallback, SweepDelete, SweepStart, SweepLock, SweepCheck, SweepCount, SweepUnlock,
         NextShard, Tick, tableVars, procVars
<1>1. WorkersLinked' /\ ReadersInHand'
  BY <1>0 DEF ForwardInv, WorkersLinked, TablePlace, ForItsClient, ReadersInHand, procVars
<1>2. connCount' \in [Servers -> Int]
  <2>1. connCount \in [Servers -> Int]
    BY DEF ForwardInv, ForwardTypeOK
  <2>2. \/ connCount' = connCount
        \/ \E b : connCount' = [connCount EXCEPT ![b] = @ - 1]
    BY Zenon DEF EvictStep, RemoveStep, ReaperStep, SetHealthy, ClockStep, fwdVars, OnEvict
  <2>3. \A b : [connCount EXCEPT ![b] = @ - 1] \in [Servers -> Int]
    BY <2>1, CountsMove
  <2> QED
    BY <2>1, <2>2, <2>3
<1>3. leaked' \in Nat
  <2>1. leaked' = leaked \/ leaked' = leaked + 1
    BY Zenon DEF EvictStep, RemoveStep, ReaperStep, SetHealthy, ClockStep, fwdVars
  <2> QED
    BY <2>1 DEF ForwardInv, ForwardTypeOK
<1>4. assigned' \in [Keys -> AnyServer]
  <2>0. assigned \in [Keys -> AnyServer]
    BY DEF ForwardInv, ForwardTypeOK
  <2>1. \/ assigned' = assigned
        \/ assigned' = [assigned EXCEPT ![victim] = NoServer]
        \/ assigned' = [k \in Keys |-> NoServer]
    BY Zenon DEF EvictStep, RemoveStep, ReaperStep, SetHealthy, ClockStep, fwdVars
  <2> QED
    BY <2>0, <2>1 DEF AnyServer
<1>5. flips' \in 0..MaxFlips
  <2>1. flips' = flips \/ (flips < MaxFlips /\ flips' = flips + 1)
    BY Zenon DEF EvictStep, RemoveStep, ReaperStep, SetHealthy, ClockStep, fwdVars
  <2>2. flips \in 0..MaxFlips /\ MaxFlips \in Nat
    BY BoundsAssumption DEF ForwardInv, ForwardTypeOK
  <2> QED
    BY <2>1, <2>2
<1>6. healthy' \in [Servers -> BOOLEAN]
  <2>0. healthy \in [Servers -> BOOLEAN]
    BY DEF ForwardInv, ForwardTypeOK
  <2>1. \/ healthy' = healthy
        \/ \E b \in Servers : healthy' = [healthy EXCEPT ![b] = ~@]
    BY Zenon DEF EvictStep, RemoveStep, ReaperStep, SetHealthy, ClockStep, fwdVars
  <2> QED
    BY <2>0, <2>1, HealthFlips, Zenon
<1>7. ForwardTypeOK'
  BY <1>0, <1>2, <1>3, <1>4, <1>5, <1>6, Zenon DEF ForwardInv, ForwardTypeOK
<1>8. [TableNext]_tableVars
  BY Zenon DEF EvictStep, RemoveStep, ReaperStep, SetHealthy, ClockStep, TableNext, SweepStep
<1> QED
  BY <1>1, <1>7, <1>8 DEF ForwardInv

LEMMA ForwardInvStep ==
  TypeOK /\ InHand /\ ForwardInv /\ [Next]_vars => ForwardInv' /\ [TableNext]_tableVars
<1> SUFFICES ASSUME TypeOK, InHand, ForwardInv, [Next]_vars
             PROVE  ForwardInv' /\ [TableNext]_tableVars
  OBVIOUS
<1>1. CASE Next
  BY <1>1, ReaderInvStep, WorkerInvStep, OthersInvStep, Zenon DEF Next
<1>2. CASE UNCHANGED vars
  <2>1. UNCHANGED tableVars /\ UNCHANGED fwdVars
    BY <1>2 DEF vars
  <2>2. pc' = pc /\ key' = key
    BY <2>1 DEF tableVars
  <2>3. WorkersLinked' /\ ReadersInHand'
    BY <2>1, <2>2 DEF ForwardInv, WorkersLinked, TablePlace, ForItsClient, ReadersInHand, fwdVars
  <2>4. ForwardTypeOK'
    BY <2>1, Zenon DEF ForwardInv, ForwardTypeOK, fwdVars
  <2> QED
    BY <2>1, <2>3, <2>4 DEF ForwardInv
<1> QED
  BY <1>1, <1>2

\* What holds in every reachable state, whatever the mode.
Base == StageInv /\ CountConservation /\ ForwardInv

LEMMA BaseKept == Spec => []Base
<1>1. Init => Base
  BY StageInvInit, CountConservationInit, ForwardInvInit DEF Init, Base
<1>2. Base /\ [Next]_vars => Base' /\ [TableNext]_tableVars
  <2> SUFFICES ASSUME Base, [Next]_vars PROVE Base' /\ [TableNext]_tableVars
    OBVIOUS
  <2>1. TableInv /\ TypeOK /\ InHand
    BY DEF Base, StageInv, TableInv
  <2>2. ForwardInv' /\ [TableNext]_tableVars
    BY <2>1, ForwardInvStep DEF Base
  <2> QED
    BY <2>1, <2>2, StageInvStep, CountConservationStep DEF Base
<1> QED
  BY <1>1, <1>2, PTL DEF Spec

\* forward and readLoop touch the session table only as SessionTable describes
\* (frontend.go:408, frontend.go:453): whatever is proved of the table alone
\* holds of the table under them.
THEOREM TableUnderForward == Spec => TableSpec
<1>1. Init => TableInit
  BY DEF Init
<1>2. Base /\ [Next]_vars => [TableNext]_tableVars
  BY ForwardInvStep DEF Base, StageInv, TableInv
<1> QED
  BY <1>1, <1>2, BaseKept, PTL DEF Spec, TableSpec

\* Every reachable state of the packet path is well typed (frontend.go:362): the
\* channel never holds more than its capacity.
THEOREM ForwardTypeCorrect == Spec => []ForwardTypeOK
<1>1. Base => ForwardTypeOK
  BY DEF Base, ForwardInv
<1> QED
  BY <1>1, BaseKept, PTL

-----------------------------------------------------------------------------
(* The session cap                                                         *)

\* Clients with an entry, and clients whose packet is past the cap and may still
\* make one: with a reader that has admitted it, in the channel, with a worker.
Admitted == {r \in Readers : reader[r].pc = "enqueue"}
Bringing == {w \in Procs : worker[w].pc \in {"lookup", "weigh", "choose", "alloc", "insert"}}
AdmittedKeys == {reader[r].key : r \in Admitted}
QueuedKeys == {workCh[i] : i \in 1..Len(workCh)}
BroughtKeys == {worker[w].key : w \in Bringing}
UnderWay == Present \cup AdmittedKeys \cup QueuedKeys \cup BroughtKeys

UnderWayBounded ==
    MaxSessions > 0 =>
        Cardinality(UnderWay) <= MaxSessions - 1 + Cardinality(Readers)
                                 + Cardinality(Procs) + QueueCap

\* What a worker's step does to the clients under way.
LEMMA WorkerCarries ==
  ASSUME TypeOK, InHand, ForwardInv, NEW w \in Procs, WorkerStep(w)
  PROVE  /\ \A v \in Procs \ {w} : worker'[v] = worker[v]
         /\ worker'[w].pc \in {"lookup", "weigh", "choose", "alloc", "insert"} =>
               \/ w \in Bringing /\ worker'[w].key = worker[w].key
               \/ workCh # <<>> /\ worker'[w].key = Head(workCh)
         /\ \/ entries' = entries
            \/ /\ w \in Bringing
               /\ entries' = [entries EXCEPT ![worker[w].key] = sess[w]]
         /\ \/ workCh' = workCh
            \/ workCh # <<>> /\ workCh' = Tail(workCh)
         /\ reader' = reader
<1> DEFINE Goal1 == /\ \A v \in Procs \ {w} : worker'[v] = worker[v]
                    /\ worker'[w].pc \in {"lookup", "weigh", "choose", "alloc", "insert"} =>
                          \/ w \in Bringing /\ worker'[w].key = worker[w].key
                          \/ workCh # <<>> /\ worker'[w].key = Head(workCh)
<1> HIDE DEF Goal1
<1>0. ForwardTypeOK /\ TablePlace(w) /\ ForItsClient(w)
  BY DEF ForwardInv, WorkersLinked
<1>1. reader' = reader
  BY Zenon DEF WorkerStep, Take, LookupStep, Weigh, PickNil, ChooseNew, ChooseEach, Rechoose,
     Alloc, InsertStep, CountStep, LoadAddr, Wire, Compare, TouchStep, Check, Reweigh, Transfer,
     Send, WorkerAt
<1>2. \/ workCh' = workCh
      \/ workCh # <<>> /\ workCh' = Tail(workCh)
  BY Zenon DEF WorkerStep, Take, LookupStep, Weigh, PickNil, ChooseNew, ChooseEach, Rechoose,
     Alloc, InsertStep, CountStep, LoadAddr, Wire, Compare, TouchStep, Check, Reweigh, Transfer,
     Send
<1>3. \/ entries' = entries
      \/ /\ w \in Bringing
         /\ entries' = [entries EXCEPT ![worker[w].key] = sess[w]]
  <2>1. CASE InsertStep(w)
    <3>1. key[w] = worker[w].key /\ w \in Bringing
      BY <1>0, <2>1 DEF InsertStep, WorkerAt, ForItsClient, Insert, Bringing
    <3> QED
      BY <2>1, <3>1 DEF InsertStep, Insert
  <2>2. CASE ~InsertStep(w)
    BY <2>2, Zenon DEF WorkerStep, Take, LookupStep, Weigh, PickNil, ChooseNew, ChooseEach,
       Rechoose, Alloc, CountStep, LoadAddr, Wire, Compare, TouchStep, Check, Reweigh, Transfer,
       Send, tableVars, Lookup, NewFn, NewFnNil, CountAdd, Touch, Release
  <2> QED
    BY <2>1, <2>2
\* A worker that only goes on, keeping its client.
<1>4. ASSUME NEW l \in Places, NEW b, NEW c, Became(w, l, worker[w].key, b, c),
             l \in {"lookup", "weigh", "choose", "alloc", "insert"} => w \in Bringing
      PROVE  Goal1
  BY <1>4 DEF Became, Becomes, Goal1
<1>5. ASSUME Returns(w) PROVE Goal1
  <2>1. Became(w, "idle", NoKey, NoServer, NoServer)
    BY <1>0, <1>5, WorkerMoves DEF Places
  <2> QED
    BY <2>1 DEF Became, Becomes, Goal1
<1>6. ASSUME NEW l \in Places, Goes(w, l),
             l \in {"lookup", "weigh", "choose", "alloc", "insert"} => w \in Bringing
      PROVE  Goal1
  BY <1>0, <1>4, <1>6, WorkerMoves
<1>7. ASSUME Take(w) PROVE Goal1
  <2>1. PICK l \in Places : worker' = [worker EXCEPT ![w].pc = l, ![w].key = Head(workCh)]
    BY <1>7 DEF Take, Places
  <2>2. workCh # <<>> /\ Head(workCh) \in Keys
    BY <1>0, <1>7 DEF Take, ForwardTypeOK
  <2>3. Became(w, l, Head(workCh), worker[w].srv, worker[w].newSrv)
    BY <1>0, <2>1, <2>2, WorkerMoves
  <2> QED
    BY <2>2, <2>3 DEF Became, Becomes, Goal1
<1>8. ASSUME LookupStep(w) PROVE Goal1
  BY <1>6, <1>8 DEF LookupStep, WorkerAt, Bringing, Places, Found
<1>9. ASSUME Weigh(w) PROVE Goal1
  BY <1>5, <1>6, <1>9 DEF Weigh, WorkerAt, Bringing, Places
<1>10. ASSUME PickNil(w) PROVE Goal1
  BY <1>10 DEF PickNil, Bringing, Goal1
<1>11. ASSUME NEW s \in Sessions, Alloc(w, s) \/ \E b \in Servers : ChooseNew(w, b, s)
       PROVE  Goal1
  BY <1>6, <1>11 DEF ChooseNew, Alloc, WorkerAt, Bringing, Places
<1>12. ASSUME NEW b \in Servers, ChooseEach(w, b) PROVE Goal1
  <2>1. Became(w, "lookup", worker[w].key, b, worker[w].newSrv) /\ w \in Bringing
    BY <1>0, <1>12, WorkerMoves DEF ChooseEach, Places, AnyServer, WorkerAt, Bringing
  <2> QED
    BY <1>4, <2>1 DEF Places
<1>13. ASSUME NEW b \in Servers, Rechoose(w, b) PROVE Goal1
  <2>1. Became(w, "transfer", worker[w].key, worker[w].srv, b)
    BY <1>0, <1>13, WorkerMoves DEF Rechoose, Places, AnyServer
  <2> QED
    BY <1>4, <2>1 DEF Places
<1>14. ASSUME InsertStep(w) PROVE Goal1
  BY <1>6, <1>14 DEF InsertStep, Places, Found
<1>15. ASSUME CountStep(w) PROVE Goal1
  BY <1>6, <1>15 DEF CountStep, Places
<1>16. ASSUME LoadAddr(w) PROVE Goal1
  <2>0. sess[w] \in Sessions
    BY <1>0, <1>16 DEF LoadAddr, WorkerAt, TablePlace, PlaceFor, InHand
  <2>1. Bound(w) \in AnyServer
    BY <1>0, <2>0 DEF ForwardTypeOK, Bindings, Bound
  <2>2. \E l \in {"wire", "check"} : Became(w, l, worker[w].key, Bound(w), worker[w].newSrv)
    BY <1>0, <1>16, <2>1, WorkerMoves DEF LoadAddr, Places
  <2> QED
    BY <1>4, <2>2 DEF Places
<1>17. ASSUME Wire(w) \/ Compare(w) \/ TouchStep(w) \/ Check(w) PROVE Goal1
  BY <1>6, <1>17 DEF Wire, Compare, TouchStep, Check, Places
<1>18. ASSUME Reweigh(w) PROVE Goal1
  BY <1>5, <1>6, <1>18 DEF Reweigh, Places
<1>19. ASSUME Transfer(w) PROVE Goal1
  <2>1. worker[w].newSrv \in AnyServer
    BY <1>0 DEF ForwardTypeOK, WorkerStates
  <2>2. Became(w, "send", worker[w].key, worker[w].newSrv, worker[w].newSrv)
    BY <1>0, <1>19, <2>1, WorkerMoves DEF Transfer, Places
  <2> QED
    BY <1>4, <2>2 DEF Places
<1>20. ASSUME Send(w) PROVE Goal1
  BY <1>5, <1>20 DEF Send
<1>21. Goal1
  BY <1>7, <1>8, <1>9, <1>10, <1>11, <1>12, <1>13, <1>14, <1>15, <1>16, <1>17, <1>18, <1>19,
     <1>20 DEF WorkerStep
<1> QED
  BY <1>1, <1>2, <1>3, <1>21 DEF Goal1

LEMMA UnderWayFinite ==
  ASSUME ForwardInv
  PROVE  UnderWay \subseteq Keys /\ IsFiniteSet(UnderWay) /\ Cardinality(UnderWay) \in Nat
<1>1. AdmittedKeys \subseteq Keys
  BY DEF ForwardInv, ReadersInHand, AdmittedKeys, Admitted
<1>2. QueuedKeys \subseteq Keys
  BY DEF ForwardInv, ForwardTypeOK, QueuedKeys
<1>3. BroughtKeys \subseteq Keys
  BY DEF ForwardInv, WorkersLinked, ForItsClient, BroughtKeys, Bringing
<1>4. UnderWay \subseteq Keys
  BY <1>1, <1>2, <1>3 DEF UnderWay, Present
<1> QED
  BY <1>4, KeysAssumption, FS_Subset, FS_CardinalityType

\* Only the cap check adds a client: every other step passes one on or drops it.
LEMMA WorkerShrinks ==
  ASSUME TypeOK, InHand, ForwardInv, NEW w \in Procs, WorkerStep(w)
  PROVE  UnderWay' \subseteq UnderWay
<1>0. workCh \in Seq(Keys)
  BY DEF ForwardInv, ForwardTypeOK
<1>1. workCh # <<>> => Head(workCh) \in QueuedKeys
  <2> SUFFICES ASSUME workCh # <<>> PROVE \E i \in 1..Len(workCh) : Head(workCh) = workCh[i]
    BY DEF QueuedKeys
  <2>1. 1 \in 1..Len(workCh) /\ Head(workCh) = workCh[1]
    BY <1>0
  <2> QED
    BY <2>1
<1>2. QueuedKeys' \subseteq QueuedKeys
  <2>1. CASE workCh' = workCh
    BY <2>1 DEF QueuedKeys
  <2>2. CASE workCh # <<>> /\ workCh' = Tail(workCh)
    <3> SUFFICES ASSUME NEW i \in 1..Len(workCh')
                 PROVE  \E j \in 1..Len(workCh) : workCh'[i] = workCh[j]
      BY DEF QueuedKeys
    <3>1. i + 1 \in 1..Len(workCh) /\ workCh'[i] = workCh[i + 1]
      BY <1>0, <2>2
    <3> QED
      BY <3>1
  <2> QED
    BY <2>1, <2>2, WorkerCarries
<1>3. AdmittedKeys' = AdmittedKeys
  BY WorkerCarries DEF AdmittedKeys, Admitted
<1>4. Present' \subseteq UnderWay
  <2>1. CASE entries' = entries
    BY <2>1 DEF Present, UnderWay
  <2>2. CASE w \in Bringing /\ entries' = [entries EXCEPT ![worker[w].key] = sess[w]]
    <3>1. worker[w].key \in BroughtKeys
      BY <2>2 DEF BroughtKeys
    <3>2. \A k \in Keys : k # worker[w].key => entries'[k] = entries[k]
      BY <2>2 DEF TypeOK
    <3> QED
      BY <3>1, <3>2 DEF Present, UnderWay
  <2> QED
    BY <2>1, <2>2, WorkerCarries
<1>5. BroughtKeys' \subseteq BroughtKeys \cup QueuedKeys
  <2> SUFFICES ASSUME NEW v \in Bringing' PROVE worker'[v].key \in BroughtKeys \cup QueuedKeys
    BY DEF BroughtKeys
  <2>1. CASE v # w
    <3>1. v \in Procs /\ worker'[v] = worker[v]
      BY <2>1, WorkerCarries DEF Bringing
    <3> QED
      BY <3>1 DEF Bringing, BroughtKeys
  <2>2. CASE v = w
    <3>1. \/ w \in Bringing /\ worker'[w].key = worker[w].key
          \/ workCh # <<>> /\ worker'[w].key = Head(workCh)
      BY <2>2, WorkerCarries DEF Bringing
    <3> QED
      BY <1>1, <2>2, <3>1 DEF BroughtKeys
  <2> QED
    BY <2>1, <2>2
<1> QED
  BY <1>2, <1>3, <1>4, <1>5 DEF UnderWay

LEMMA ReaderShrinks ==
  ASSUME ForwardInv, NEW r \in Readers, ReaderStep(r), MaxSessions > 0
  PROVE  UnderWay' \subseteq UnderWay \/ (reader[r].pc = "len" /\ ~Full)
<1> SUFFICES ASSUME ~(reader[r].pc = "len" /\ ~Full) PROVE UnderWay' \subseteq UnderWay
  OBVIOUS
<1>0. workCh \in Seq(Keys) /\ entries' = entries /\ worker' = worker
  BY ReaderInvStep, Zenon DEF ForwardInv, ForwardTypeOK, tableVars, ReaderStep, Receive, CapGet,
     CapLen, Enqueue, ReaderAt
<1>1. Present' = Present /\ BroughtKeys' = BroughtKeys
  BY <1>0 DEF Present, BroughtKeys, Bringing
<1>2. /\ \A q \in Readers \ {r} : reader'[q] = reader[q]
      /\ reader'[r].pc = "enqueue" =>
            /\ reader[r].pc = "get" /\ reader'[r].key = reader[r].key
            /\ entries[reader[r].key] # NoSession
  BY ReaderMoves, Zenon DEF ReadBecomes
<1>3. reader[r].pc = "get" => reader[r].key \in Keys
  BY DEF ForwardInv, ReadersInHand
<1>4. AdmittedKeys' \subseteq AdmittedKeys \cup Present
  <2> SUFFICES ASSUME NEW q \in Admitted' PROVE reader'[q].key \in AdmittedKeys \cup Present
    BY DEF AdmittedKeys
  <2>1. CASE q # r
    BY <1>2, <2>1 DEF Admitted, AdmittedKeys
  <2>2. CASE q = r
    BY <1>2, <1>3, <2>2 DEF Admitted, Present
  <2> QED
    BY <2>1, <2>2
<1>5. QueuedKeys' \subseteq QueuedKeys \cup AdmittedKeys
  <2>1. CASE workCh' = workCh
    BY <2>1 DEF QueuedKeys
  <2>2. CASE reader[r].pc = "enqueue" /\ workCh' = Append(workCh, reader[r].key)
    <3>1. reader[r].key \in AdmittedKeys /\ reader[r].key \in Keys
      BY <2>2 DEF AdmittedKeys, Admitted, ForwardInv, ReadersInHand
    <3> SUFFICES ASSUME NEW i \in 1..Len(workCh')
                 PROVE  workCh'[i] \in QueuedKeys \cup AdmittedKeys
      BY DEF QueuedKeys
    <3>2. \/ i \in 1..Len(workCh) /\ workCh'[i] = workCh[i]
          \/ workCh'[i] = reader[r].key
      BY <1>0, <2>2, <3>1
    <3> QED
      BY <3>1, <3>2 DEF QueuedKeys
  <2> QED
    BY <2>1, <2>2, ReaderMoves, Zenon
<1> QED
  BY <1>1, <1>4, <1>5 DEF UnderWay

LEMMA ImageBound ==
  ASSUME NEW S, IsFiniteSet(S), NEW f
  PROVE  /\ IsFiniteSet({f[x] : x \in S})
         /\ Cardinality({f[x] : x \in S}) <= Cardinality(S)
<1> DEFINE T == {f[x] : x \in S}
           g == [x \in S |-> f[x]]
<1>1. g \in Surjection(S, T)
  BY DEF Surjection
<1> HIDE DEF T, g
<1>2. IsFiniteSet(T) /\ Cardinality(T) <= Cardinality(S)
  BY <1>1, FS_Surjection
<1> QED
  BY <1>2 DEF T

LEMMA UnionBound ==
  ASSUME NEW S, IsFiniteSet(S), NEW T, IsFiniteSet(T)
  PROVE  /\ IsFiniteSet(S \cup T)
         /\ Cardinality(S \cup T) <= Cardinality(S) + Cardinality(T)
<1>1. S \cap T \subseteq S
  OBVIOUS
<1>2. IsFiniteSet(S \cap T)
  BY <1>1, FS_Subset
<1>3. Cardinality(S \cap T) \in Nat /\ Cardinality(S) \in Nat /\ Cardinality(T) \in Nat
  BY <1>2, FS_CardinalityType
<1>4. /\ IsFiniteSet(S \cup T)
      /\ Cardinality(S \cup T) = Cardinality(S) + Cardinality(T) - Cardinality(S \cap T)
  BY FS_Union
<1> QED
  BY <1>3, <1>4

\* One client per reader, one per place of the channel, one per worker that has
\* not inserted yet; and a worker between its insertion and its Add is not one
\* of these.
PartsBounded ==
    /\ Cardinality(UnderWay) <= Cardinality(Present) + Cardinality(Readers) + QueueCap
                                + Cardinality(Procs) - Cardinality(Uncounted)
    /\ {Cardinality(Readers), Cardinality(Procs), Cardinality(Present),
        Cardinality(Uncounted), Cardinality(UnderWay)} \subseteq Nat

LEMMA UnderWayParts == ForwardInv => PartsBounded
<1> SUFFICES ASSUME ForwardInv PROVE PartsBounded
  OBVIOUS
<1>0. /\ IsFiniteSet(Present) /\ IsFiniteSet(Admitted) /\ IsFiniteSet(Bringing)
      /\ IsFiniteSet(Uncounted)
      /\ Cardinality(Admitted) <= Cardinality(Readers)
      /\ Bringing \subseteq Procs /\ Uncounted \subseteq Procs
  <2>1. /\ Present \in SUBSET Keys /\ Admitted \in SUBSET Readers
        /\ Bringing \in SUBSET Procs /\ Uncounted \in SUBSET Procs
    BY DEF Present, Admitted, Bringing, Uncounted
  <2> QED
    BY <2>1, KeysAssumption, ReadersAssumption, ProcsAssumption, FS_Subset
<1>1. IsFiniteSet(AdmittedKeys) /\ Cardinality(AdmittedKeys) <= Cardinality(Admitted)
  <2> DEFINE f == [r \in Readers |-> reader[r].key]
  <2>1. AdmittedKeys = {f[r] : r \in Admitted}
    BY DEF AdmittedKeys, Admitted
  <2> HIDE DEF f
  <2> QED
    BY <1>0, <2>1, ImageBound
<1>2. IsFiniteSet(BroughtKeys) /\ Cardinality(BroughtKeys) <= Cardinality(Bringing)
  <2> DEFINE f == [w \in Procs |-> worker[w].key]
  <2>1. BroughtKeys = {f[w] : w \in Bringing}
    BY DEF BroughtKeys, Bringing
  <2> HIDE DEF f
  <2> QED
    BY <1>0, <2>1, ImageBound
<1>3. IsFiniteSet(QueuedKeys) /\ Cardinality(QueuedKeys) <= QueueCap
  <2>1. Len(workCh) \in Nat /\ Len(workCh) <= QueueCap /\ QueueCap \in Nat
    BY BoundsAssumption DEF ForwardInv, ForwardTypeOK
  <2>2. IsFiniteSet(1..Len(workCh)) /\ Cardinality(1..Len(workCh)) <= QueueCap
    <3> DEFINE n == Len(workCh)
    <3> HIDE DEF n
    <3>1. n \in Nat /\ n <= QueueCap
      BY <2>1 DEF n
    <3>2. IsFiniteSet(1..n) /\ Cardinality(1..n) = IF 1 > n THEN 0 ELSE n - 1 + 1
      BY <3>1, FS_Interval
    <3>3. Cardinality(1..n) <= QueueCap
      BY <2>1, <3>1, <3>2
    <3> QED
      BY <3>2, <3>3 DEF n
  <2>3. IsFiniteSet(QueuedKeys) /\ Cardinality(QueuedKeys) <= Cardinality(1..Len(workCh))
    BY <2>2, ImageBound DEF QueuedKeys
  <2>4. Cardinality(QueuedKeys) \in Nat /\ Cardinality(1..Len(workCh)) \in Nat
    BY <2>2, <2>3, FS_CardinalityType
  <2> QED
    BY <2>1, <2>2, <2>3, <2>4
<1>4. Cardinality(Bringing) + Cardinality(Uncounted) <= Cardinality(Procs)
  <2>1. Bringing \cap Uncounted = {}
    BY DEF ForwardInv, WorkersLinked, TablePlace, PlaceFor, Bringing, Uncounted
  <2>2. Cardinality(Bringing \cup Uncounted) = Cardinality(Bringing) + Cardinality(Uncounted)
    <3>1. Cardinality(Bringing) \in Nat /\ Cardinality(Uncounted) \in Nat
      BY <1>0, FS_CardinalityType
    <3>2. Cardinality(Bringing \cup Uncounted) =
            Cardinality(Bringing) + Cardinality(Uncounted) - Cardinality(Bringing \cap Uncounted)
      BY <1>0, FS_Union
    <3>3. Cardinality(Bringing \cap Uncounted) = 0
      BY <2>1, FS_EmptySet
    <3> QED
      BY <3>1, <3>2, <3>3
  <2>3. Cardinality(Bringing \cup Uncounted) <= Cardinality(Procs)
    <3>1. Bringing \cup Uncounted \subseteq Procs
      BY <1>0
    <3> QED
      BY <3>1, ProcsAssumption, FS_Subset
  <2> QED
    BY <2>2, <2>3
<1> DEFINE A == Present \cup AdmittedKeys
           B == A \cup QueuedKeys
<1>5. IsFiniteSet(A) /\ Cardinality(A) <= Cardinality(Present) + Cardinality(AdmittedKeys)
  BY <1>0, <1>1, UnionBound
<1> HIDE DEF A
<1>6. IsFiniteSet(B) /\ Cardinality(B) <= Cardinality(A) + Cardinality(QueuedKeys)
  BY <1>3, <1>5, UnionBound
<1> HIDE DEF B
<1>7. /\ IsFiniteSet(UnderWay)
      /\ Cardinality(UnderWay) <= Cardinality(B) + Cardinality(BroughtKeys)
  <2>1. UnderWay = B \cup BroughtKeys
    BY DEF A, B, UnderWay
  <2> QED
    BY <1>2, <1>6, <2>1, UnionBound
<1>8. /\ Cardinality(A) \in Nat /\ Cardinality(B) \in Nat /\ Cardinality(UnderWay) \in Nat
      /\ Cardinality(Present) \in Nat /\ Cardinality(AdmittedKeys) \in Nat
      /\ Cardinality(BroughtKeys) \in Nat /\ Cardinality(QueuedKeys) \in Nat
      /\ Cardinality(Admitted) \in Nat /\ Cardinality(Bringing) \in Nat
      /\ Cardinality(Uncounted) \in Nat /\ Cardinality(Readers) \in Nat
      /\ Cardinality(Procs) \in Nat /\ QueueCap \in Nat
  BY <1>0, <1>1, <1>2, <1>3, <1>5, <1>6, <1>7, FS_CardinalityType, ReadersAssumption,
     ProcsAssumption, BoundsAssumption
<1> QED
  BY <1>0, <1>1, <1>2, <1>3, <1>4, <1>5, <1>6, <1>7, <1>8 DEF PartsBounded

LEMMA UnderWayBoundedStep ==
  Base /\ UnderWayBounded /\ [Next]_vars => UnderWayBounded'
<1> SUFFICES ASSUME Base, UnderWayBounded, [Next]_vars, MaxSessions > 0
             PROVE  Cardinality(UnderWay') <= MaxSessions - 1 + Cardinality(Readers)
                                              + Cardinality(Procs) + QueueCap
  BY DEF UnderWayBounded
<1>base. TypeOK /\ InHand /\ ForwardInv /\ CountConservation
  BY DEF Base, StageInv, TableInv
<1>inv. ForwardInv'
  BY <1>base, ForwardInvStep
<1>max. MaxSessions \in Nat /\ QueueCap \in Nat
  BY BoundsAssumption
<1>1. ASSUME UnderWay' \subseteq UnderWay
      PROVE  Cardinality(UnderWay') <= MaxSessions - 1 + Cardinality(Readers)
                                       + Cardinality(Procs) + QueueCap
  <2>1. IsFiniteSet(UnderWay)
    BY <1>base, UnderWayFinite
  <2>2. IsFiniteSet(UnderWay') /\ Cardinality(UnderWay') <= Cardinality(UnderWay)
    BY <1>1, <2>1, FS_Subset
  <2>3. /\ Cardinality(UnderWay) \in Nat /\ Cardinality(UnderWay') \in Nat
        /\ Cardinality(Readers) \in Nat /\ Cardinality(Procs) \in Nat
    BY <2>1, <2>2, FS_CardinalityType, ReadersAssumption, ProcsAssumption
  <2> QED
    BY <1>max, <2>2, <2>3 DEF UnderWayBounded
<1>2. ASSUME NEW r \in Readers, ReaderStep(r), ~Full
      PROVE  Cardinality(UnderWay') <= MaxSessions - 1 + Cardinality(Readers)
                                       + Cardinality(Procs) + QueueCap
  <2>1. UNCHANGED tableVars
    BY <1>2, <1>base, ReaderInvStep
  <2>2. Present' = Present /\ Uncounted' = Uncounted /\ Undiscounted = {}
    <3>1. entries' = entries /\ pc' = pc
      BY <2>1 DEF tableVars
    <3>2. \A w \in Procs : pc[w] # "delcount"
      <4> TAKE w \in Procs
      <4>1. worker[w] \in WorkerStates /\ TablePlace(w)
        BY <1>base DEF ForwardInv, ForwardTypeOK, WorkersLinked
      <4> QED
        BY <4>1 DEF WorkerStates, TablePlace, PlaceFor
    <3> QED
      BY <3>1, <3>2 DEF Present, Uncounted, Undiscounted
  <2>3. /\ Cardinality(UnderWay') <= Cardinality(Present') + Cardinality(Readers) + QueueCap
                                     + Cardinality(Procs) - Cardinality(Uncounted')
        /\ {Cardinality(Readers), Cardinality(Procs), Cardinality(Present'),
            Cardinality(Uncounted'), Cardinality(UnderWay')} \subseteq Nat
    <3>1. ForwardInv' => PartsBounded'
      BY UnderWayParts, PTL
    <3> QED
      BY <1>inv, <3>1 DEF PartsBounded
  <2>4. count < MaxSessions /\ count \in Int
    BY <1>2, <1>base, <1>max DEF Full, TypeOK
  <2>5. Cardinality(Undiscounted) = 0
    BY <2>2, FS_EmptySet
  <2>6. count >= Cardinality(Present) - Cardinality(Uncounted)
    <3>1. count = Cardinality(Present) - Cardinality(Uncounted) + 0
                  + (IF rpc = "discount" THEN 1 ELSE 0)
      BY <1>base, <2>5 DEF CountConservation
    <3> QED
      BY <2>2, <2>3, <3>1
  <2> QED
    BY <1>max, <2>2, <2>3, <2>4, <2>6
<1>3. ASSUME NEW r \in Readers, ReaderStep(r)
      PROVE  Cardinality(UnderWay') <= MaxSessions - 1 + Cardinality(Readers)
                                       + Cardinality(Procs) + QueueCap
  BY <1>1, <1>2, <1>3, <1>base, ReaderShrinks
<1>4. ASSUME NEW w \in Procs, WorkerStep(w) PROVE UnderWay' \subseteq UnderWay
  BY <1>4, <1>base, WorkerShrinks
<1>5. ASSUME \/ \E s \in Sessions : EvictStep(s)
             \/ RemoveStep
             \/ ReaperStep
             \/ \E b \in Servers : SetHealthy(b)
             \/ ClockStep
             \/ UNCHANGED vars
      PROVE  UnderWay' \subseteq UnderWay
  <2>1. UNCHANGED <<reader, workCh, worker>>
    BY <1>5, Zenon DEF EvictStep, RemoveStep, ReaperStep, SetHealthy, ClockStep, fwdVars, vars
  <2>2. entries' = entries \/ entries' = [entries EXCEPT ![victim] = NoSession]
    BY <1>5, Zenon DEF EvictStep, RemoveStep, ReaperStep, SetHealthy, ClockStep, vars, tableVars,
       RunCallback, SweepDelete, SweepStart, SweepLock, SweepCheck, SweepCount, SweepUnlock,
       NextShard, Tick
  <2>3. Present' \subseteq Present
    BY <1>base, <2>2 DEF Present, TypeOK
  <2> QED
    BY <2>1, <2>3 DEF UnderWay, AdmittedKeys, Admitted, QueuedKeys, BroughtKeys, Bringing
<1> QED
  BY <1>1, <1>3, <1>4, <1>5 DEF Next

\* The cap is checked by a reader and used up later by a worker, yet it is exceeded
\* by no more than the packets that can be in between (frontend.go:350), for
\* every number of readers and workers and every channel size.
THEOREM CapHolds == Spec => []CapOvershootBounded
<1>1. Init => UnderWayBounded
  <2> SUFFICES ASSUME Init, MaxSessions > 0
               PROVE  Cardinality(UnderWay) <= MaxSessions - 1 + Cardinality(Readers)
                                               + Cardinality(Procs) + QueueCap
    BY DEF UnderWayBounded
  <2>1. Present = {} /\ Uncounted = {}
    BY DEF Init, TableInit, Present, Uncounted
  <2>2. Cardinality(Present) = 0 /\ Cardinality(Uncounted) = 0
    BY <2>1, FS_EmptySet
  <2>3. MaxSessions \in Nat /\ QueueCap \in Nat
    BY BoundsAssumption
  <2> QED
    BY <2>2, <2>3, ForwardInvInit, UnderWayParts DEF PartsBounded
<1>2. Spec => []UnderWayBounded
  BY <1>1, BaseKept, UnderWayBoundedStep, PTL DEF Spec
<1>3. Base /\ UnderWayBounded => CapOvershootBounded
  <2> SUFFICES ASSUME Base, UnderWayBounded, MaxSessions > 0
               PROVE  Cardinality(Present) <= MaxSessions - 1 + Cardinality(Readers)
                                              + Cardinality(Procs) + QueueCap
    BY DEF CapOvershootBounded
  <2>1. Present \subseteq UnderWay /\ IsFiniteSet(UnderWay) /\ ForwardInv
    BY UnderWayFinite DEF UnderWay, Base
  <2>2. Cardinality(Present) <= Cardinality(UnderWay)
    BY <2>1, FS_Subset
  <2>3. MaxSessions \in Nat /\ QueueCap \in Nat
    BY BoundsAssumption
  <2> QED
    BY <2>1, <2>2, <2>3, UnderWayParts DEF UnderWayBounded, PartsBounded
<1> QED
  BY <1>2, <1>3, BaseKept, PTL

\* A packet is refused at the cap only while the table really is full
\* (frontend.go:350): no counter that ran ahead turns a client away.
THEOREM RefusalsJustified == Spec => RefusedOnlyWhenFull
<1>1. Base /\ [Next]_vars =>
        [\A r \in Readers :
            reader[r].pc = "len" /\ reader'[r].pc = "idle" =>
              Cardinality(Present) + (IF rpc = "discount" THEN 1 ELSE 0) >= MaxSessions]_vars
  <2> SUFFICES ASSUME Base, Next, NEW r \in Readers, reader[r].pc = "len", reader'[r].pc = "idle"
               PROVE  Cardinality(Present) + (IF rpc = "discount" THEN 1 ELSE 0) >= MaxSessions
    OBVIOUS
  <2>base. TypeOK /\ ForwardInv /\ CountConservation /\ MaxSessions \in Nat
    BY BoundsAssumption DEF Base, StageInv, TableInv
  <2>1. Full
    <3>1. PICK q \in Readers : ReaderStep(q)
      BY Zenon DEF Next, EvictStep, RemoveStep, ReaperStep, SetHealthy, ClockStep, fwdVars,
         WorkerStep, Take, LookupStep, Weigh, PickNil, ChooseNew, ChooseEach, Rechoose,
         Alloc, InsertStep, CountStep, LoadAddr, Wire, Compare, TouchStep, Check, Reweigh,
         Transfer, Send, WorkerAt
    <3>2. q = r
      BY <2>base, <3>1, ReaderMoves DEF ReadBecomes
    <3> QED
      BY <2>base, <3>1, <3>2, ReaderMoves DEF ReadBecomes
  <2>2. Undiscounted = {}
    <3>1. \A w \in Procs : pc[w] # "delcount"
      <4> TAKE w \in Procs
      <4>1. worker[w] \in WorkerStates /\ TablePlace(w)
        BY <2>base DEF ForwardInv, ForwardTypeOK, WorkersLinked
      <4> QED
        BY <4>1 DEF WorkerStates, TablePlace, PlaceFor
    <3> QED
      BY <3>1 DEF Undiscounted
  <2>3. Cardinality(Undiscounted) = 0
    BY <2>2, FS_EmptySet
  <2> QED
    BY <2>base, <2>1, <2>3, Cardinalities DEF CountConservation, Full, TypeOK
<1> QED
  BY <1>1, BaseKept, PTL DEF Spec, RefusedOnlyWhenFull

-----------------------------------------------------------------------------
(* Session affinity and the servers' connection counts                     *)

\* Until a server's health changes no session is moved: a worker in affinity mode
\* has the server its session is bound to, and the creator finds the callback
\* unset until it wires the session.
Steady(w) ==
    /\ worker[w].pc \notin {"compare", "alloc", "reweigh", "rechoose", "transfer"}
    /\ pc[w] \notin {"idle", "miss"} => Bound(w) \in Servers
    /\ worker[w].pc \in {"wire", "check", "send"} => worker[w].srv = Bound(w)
    /\ worker[w].pc \in {"insert", "count", "wireload", "wire"}
          => binding[sess[w]].onEvict = NoServer

SteadyInv ==
    /\ \A b \in Servers : healthy[b] = TRUE
    /\ \A w \in Procs : Steady(w)
    /\ \A s \in inserted : binding[s].addr \in Servers

\* What a client's last packet was sent to is what its session is bound to.
AssignedInv ==
    \A k \in Keys : assigned[k] # NoServer =>
        entries[k] # NoSession /\ assigned[k] = binding[entries[k]].addr

\* Sessions that are counted: in the table or awaiting their callback, and wired.
Live == InTable \cup callbacks
Wired == Live \ Unwired
WiredTo(b) == {s \in Wired : binding[s].addr = b}

ConnInv ==
    /\ \A s \in Wired : binding[s].onEvict = binding[s].addr
    /\ leaked = 0 => /\ Unwired \cap evicted = {}
                     /\ \A b \in Servers : connCount[b] = Cardinality(WiredTo(b))

AffinityInv == Affinity /\ flips = 0 => SteadyInv /\ AssignedInv /\ ConnInv

\* The steps a worker takes in affinity mode before the first health change.
LEMMA SteadySteps ==
  ASSUME Base, Affinity, SteadyInv, NEW w \in Procs, WorkerStep(w)
  PROVE  \/ Take(w) \/ LookupStep(w) \/ Weigh(w) \/ PickNil(w)
         \/ \E b \in Servers, s \in Sessions : ChooseNew(w, b, s)
         \/ InsertStep(w) \/ CountStep(w) \/ LoadAddr(w) \/ Wire(w)
         \/ TouchStep(w) \/ Check(w) \/ Send(w)
<1>1. worker[w].pc \notin {"compare", "alloc", "reweigh", "rechoose", "transfer"}
  BY DEF SteadyInv, Steady
<1>2. /\ ~Compare(w) /\ ~Reweigh(w) /\ ~Transfer(w)
      /\ \A b \in Servers : ~ChooseEach(w, b) /\ ~Rechoose(w, b)
      /\ \A s \in Sessions : ~Alloc(w, s)
  BY <1>1 DEF Compare, Reweigh, Transfer, ChooseEach, Rechoose, Alloc, WorkerAt
<1> QED
  BY <1>2, Zenon DEF WorkerStep

LEMMA BoundSessions ==
  ASSUME Base
  PROVE  /\ InTable \subseteq inserted /\ callbacks \subseteq inserted
         /\ inserted = Live \cup evicted /\ evicted \cap Live = {}
         /\ InTable \cap callbacks = {}
         /\ inserted \subseteq Sessions /\ binding \in [Sessions -> Bindings]
         /\ \A v \in Procs : worker[v] \in WorkerStates /\ TablePlace(v) /\ ForItsClient(v)
         /\ \A v \in Procs : pc[v] \notin {"idle", "miss"} => sess[v] \in Sessions
<1>1. \A v \in Procs : worker[v] \in WorkerStates /\ TablePlace(v) /\ ForItsClient(v)
  BY DEF Base, ForwardInv, WorkersLinked, ForwardTypeOK
<1>2. \A v \in Procs : pc[v] \notin {"delcount", "delevict"}
  BY <1>1 DEF TablePlace, PlaceFor, WorkerStates
<1>3. Evicting = callbacks
  BY <1>2 DEF Evicting
<1>4. OneStage /\ TypeOK /\ InHand /\ binding \in [Sessions -> Bindings]
  BY DEF Base, StageInv, TableInv, ForwardInv, ForwardTypeOK
<1> QED
  BY <1>1, <1>3, <1>4 DEF OneStage, TypeOK, InHand, Live

LEMMA SteadyWorker ==
  ASSUME Base, Affinity, SteadyInv, NEW w \in Procs, WorkerStep(w)
  PROVE  SteadyInv'
<1>b. /\ InTable \subseteq inserted /\ inserted \subseteq Sessions
      /\ binding \in [Sessions -> Bindings]
      /\ \A v \in Procs : worker[v] \in WorkerStates /\ TablePlace(v) /\ ForItsClient(v)
      /\ \A v \in Procs : pc[v] \notin {"idle", "miss"} => sess[v] \in Sessions
  BY BoundSessions
<1>ty. TypeOK /\ ForwardTypeOK /\ Fresh /\ OneCreator
  BY DEF Base, StageInv, TableInv, ForwardInv
<1>in. \A k \in Keys : entries[k] # NoSession => entries[k] \in inserted
  BY <1>b DEF InTable, Present
<1>own. Steady(w) /\ TablePlace(w)
  BY <1>b DEF SteadyInv
\* Every other worker keeps its place, its session and that session's server.
<1>rest. ASSUME NEW l, NEW k, NEW b, NEW c, Became(w, l, k, b, c),
                NEW t, NEW tk, NEW ts, Proceeded(w, t, tk, ts), healthy' = healthy,
                \A v \in Procs \ {w} :
                   /\ pc[v] \notin {"idle", "miss"} =>
                         binding'[sess[v]].addr = binding[sess[v]].addr
                   /\ worker[v].pc \in {"insert", "count", "wireload", "wire"} =>
                         binding'[sess[v]].onEvict = binding[sess[v]].onEvict,
                \A s \in inserted' : binding'[s].addr \in Servers,
                /\ l \notin {"compare", "alloc", "reweigh", "rechoose", "transfer"}
                /\ t \notin {"idle", "miss"} => binding'[ts].addr \in Servers
                /\ l \in {"wire", "check", "send"} => b = binding'[ts].addr
                /\ l \in {"insert", "count", "wireload", "wire"}
                      => binding'[ts].onEvict = NoServer
         PROVE  SteadyInv'
  <2>1. /\ worker'[w].pc = l /\ worker'[w].srv = b
        /\ \A v \in Procs \ {w} : worker'[v] = worker[v]
    BY <1>rest DEF Became, Becomes
  <2>2. /\ pc'[w] = t /\ sess'[w] = ts
        /\ \A v \in Procs \ {w} : pc'[v] = pc[v] /\ sess'[v] = sess[v]
    BY <1>rest DEF Proceeded
  <2>3. Steady(w)'
    BY <1>rest, <2>1, <2>2 DEF Steady, Bound
  <2>4. ASSUME NEW v \in Procs \ {w} PROVE Steady(v)'
    <3>1. Steady(v) /\ TablePlace(v) /\ worker[v] \in WorkerStates
      BY <1>b DEF SteadyInv
    <3>2. worker[v].pc \in {"wire", "check", "send"} => pc[v] \notin {"idle", "miss"}
      BY <3>1 DEF TablePlace, PlaceFor
    <3> QED
      BY <1>rest, <2>1, <2>2, <3>1, <3>2 DEF Steady, Bound
  <2> QED
    BY <1>rest, <2>3, <2>4 DEF SteadyInv
\* The common case: no binding is written.
<1>keep. ASSUME NEW l, NEW k, NEW b, NEW c, Became(w, l, k, b, c),
                NEW t, NEW tk, NEW ts, Proceeded(w, t, tk, ts), healthy' = healthy,
                binding' = binding,
                \A s \in inserted' : s \in inserted \/ (pc[w] = "insert" /\ s = sess[w]),
                /\ l \notin {"compare", "alloc", "reweigh", "rechoose", "transfer"}
                /\ t \notin {"idle", "miss"} => binding[ts].addr \in Servers
                /\ l \in {"wire", "check", "send"} => b = binding[ts].addr
                /\ l \in {"insert", "count", "wireload", "wire"}
                      => binding[ts].onEvict = NoServer
         PROVE  SteadyInv'
  <2>1. \A s \in inserted' : binding'[s].addr \in Servers
    BY <1>keep, <1>own DEF SteadyInv, Steady, Bound
  <2> QED
    BY <1>keep, <1>rest, <2>1
<1>same. UNCHANGED tableVars => Proceeded(w, pc[w], key[w], sess[w]) /\ inserted' = inserted
  BY DEF tableVars, Proceeded
<1>1. CASE Take(w)
  <2>1. Head(workCh) \in Keys
    BY <1>1, <1>ty DEF Take, ForwardTypeOK
  <2>2. Became(w, "lookup", Head(workCh), worker[w].srv, worker[w].newSrv)
    BY <1>1, <1>ty, <2>1, WorkerMoves DEF Take, Places
  <2>3. /\ UNCHANGED tableVars /\ binding' = binding /\ healthy' = healthy
        /\ pc[w] = "idle"
    BY <1>1, <1>own DEF Take, WorkerAt, TablePlace, PlaceFor
  <2> QED
    BY <1>keep, <1>same, <2>2, <2>3
<1>2. CASE LookupStep(w)
  <2>0. worker[w].key \in Keys
    BY <1>2, <1>b DEF LookupStep, WorkerAt, ForItsClient
  <2>1. PICK t \in {"miss", "found"} :
           /\ Proceeded(w, t, worker[w].key, entries[worker[w].key])
           /\ t = "found" => entries[worker[w].key] # NoSession
    BY <1>2, <1>ty, <2>0, ProcMoves DEF LookupStep
  <2>2. PICK l \in {"touch", "weigh"} : Goes(w, l)
    BY <1>2 DEF LookupStep, Found
  <2>3. Became(w, l, worker[w].key, worker[w].srv, worker[w].newSrv)
    BY <1>ty, <2>2, WorkerMoves DEF Places
  <2>4. binding' = binding /\ healthy' = healthy /\ inserted' = inserted
    BY <1>2 DEF LookupStep, WorkerAt, Lookup
  <2>5. t = "found" => binding[entries[worker[w].key]].addr \in Servers
    BY <1>in, <2>0, <2>1 DEF SteadyInv
  <2> QED
    BY <1>keep, <2>1, <2>2, <2>3, <2>4, <2>5
<1>3. CASE Weigh(w)
  <2>1. binding' = binding /\ healthy' = healthy
    BY <1>3 DEF Weigh, WorkerAt
  <2>2. CASE Goes(w, "choose") /\ UNCHANGED tableVars
    <3>1. Became(w, "choose", worker[w].key, worker[w].srv, worker[w].newSrv)
      BY <1>ty, <2>2, WorkerMoves DEF Places
    <3>2. pc[w] = "miss"
      BY <1>3, <1>own DEF Weigh, WorkerAt, TablePlace, PlaceFor
    <3> QED
      BY <1>keep, <1>same, <2>1, <2>2, <3>1, <3>2
  <2>3. CASE Returns(w) /\ NewFnNil(w)
    <3>1. Became(w, "idle", NoKey, NoServer, NoServer)
      BY <1>ty, <2>3, WorkerMoves DEF Places
    <3>2. Proceeded(w, "idle", NoKey, NoSession) /\ inserted' = inserted
      BY <1>ty, <2>3, ProcMoves DEF NewFnNil
    <3> QED
      BY <1>keep, <2>1, <3>1, <3>2
  <2> QED
    BY <1>3, <2>2, <2>3 DEF Weigh
<1>4. CASE PickNil(w)
  <2>1. worker' = worker /\ binding' = binding /\ healthy' = healthy /\ UNCHANGED tableVars
    BY <1>4 DEF PickNil
  <2>2. pc' = pc /\ sess' = sess /\ inserted' = inserted
    BY <2>1 DEF tableVars
  <2> QED
    BY <2>1, <2>2 DEF SteadyInv, Steady, Bound
<1>5. ASSUME NEW x \in Servers, NEW s \in Sessions, ChooseNew(w, x, s) PROVE SteadyInv'
  <2>1. /\ NewFn(w, s) /\ UpdateServer(s, x, NoServer) /\ Goes(w, "insert") /\ healthy' = healthy
    BY <1>5 DEF ChooseNew, WorkerAt
  <2>2. Became(w, "insert", worker[w].key, worker[w].srv, worker[w].newSrv)
    BY <1>ty, <2>1, WorkerMoves DEF Places
  <2>3. Proceeded(w, "insert", key[w], s)
    BY <1>ty, <2>1, ProcMoves
  <2>4. /\ binding'[s] = [addr |-> x, onEvict |-> NoServer]
        /\ \A t \in Sessions \ {s} : binding'[t] = binding[t]
    BY <1>b, <2>1, BindingMoves DEF AnyServer
  <2>5. /\ inserted' = inserted \ {s}
        /\ \A v \in Procs : sess[v] # s
    BY <2>1, SessionsAssumption DEF NewFn, Free, Held
  <2>6. \A v \in Procs : pc[v] \notin {"idle", "miss"} => binding'[sess[v]] = binding[sess[v]]
    BY <1>b, <2>4, <2>5
  <2>7. \A v \in Procs : worker[v].pc \in {"insert", "count", "wireload", "wire"}
                            => pc[v] \notin {"idle", "miss"}
    BY <1>b DEF TablePlace, PlaceFor
  <2>8. \A t \in inserted' : binding'[t].addr \in Servers
    BY <1>b, <2>4, <2>5 DEF SteadyInv
  <2>9. binding'[s].addr = x /\ binding'[s].onEvict = NoServer
    BY <2>4
  <2> QED
    BY <1>rest, <2>1, <2>2, <2>3, <2>6, <2>7, <2>8, <2>9
<1>6. CASE InsertStep(w)
  <2>0. /\ pc[w] = "insert" /\ key[w] \in Keys /\ sess[w] \in Sessions /\ worker[w].pc = "insert"
    BY <1>6, <1>b DEF InsertStep, WorkerAt, ForItsClient, Insert
  <2>1. binding' = binding /\ healthy' = healthy /\ Insert(w)
    BY <1>6 DEF InsertStep, WorkerAt
  <2>2. CASE Vacant(key[w])
    <3>1. Proceeded(w, "count", key[w], sess[w])
      BY <1>ty, <2>1, <2>2, ProcMoves DEF Insert, Proceeded, TypeOK
    <3>2. Goes(w, "count")
      BY <1>6, <3>1 DEF InsertStep, Proceeded
    <3>3. Became(w, "count", worker[w].key, worker[w].srv, worker[w].newSrv)
      BY <1>ty, <3>2, WorkerMoves DEF Places
    <3>4. inserted' = inserted \cup {sess[w]}
      BY <2>1, <2>2 DEF Insert
    <3> QED
      BY <1>keep, <1>own, <2>0, <2>1, <3>1, <3>3, <3>4 DEF Steady, Bound
  <2>3. CASE ~Vacant(key[w])
    <3>1. Proceeded(w, "found", key[w], entries[key[w]])
      BY <1>ty, <2>1, <2>3, ProcMoves DEF Insert, Proceeded, TypeOK
    <3>2. Goes(w, "touch")
      BY <1>6, <3>1 DEF InsertStep, Proceeded, Found
    <3>3. Became(w, "touch", worker[w].key, worker[w].srv, worker[w].newSrv)
      BY <1>ty, <3>2, WorkerMoves DEF Places
    <3>4. inserted' = inserted
      BY <2>1, <2>3 DEF Insert
    <3>5. binding[entries[key[w]]].addr \in Servers
      BY <1>in, <2>0, <2>3 DEF Vacant, SteadyInv
    <3> QED
      BY <1>keep, <2>1, <3>1, <3>3, <3>4, <3>5
  <2> QED
    BY <2>2, <2>3
<1>7. CASE CountStep(w)
  <2>1. /\ binding' = binding /\ healthy' = healthy /\ CountAdd(w) /\ Goes(w, "wireload")
        /\ worker[w].pc = "count" /\ pc[w] = "count"
    BY <1>7 DEF CountStep, WorkerAt, CountAdd
  <2>2. Proceeded(w, "created", key[w], sess[w]) /\ inserted' = inserted
    BY <1>ty, <2>1, ProcMoves DEF CountAdd
  <2>3. Became(w, "wireload", worker[w].key, worker[w].srv, worker[w].newSrv)
    BY <1>ty, <2>1, WorkerMoves DEF Places
  <2> QED
    BY <1>keep, <1>own, <2>1, <2>2, <2>3 DEF Steady, Bound
<1>8. CASE LoadAddr(w)
  <2>1. PICK m \in {"wireload", "load"} : /\ worker[w].pc = m
               /\ worker' = [worker EXCEPT ![w].pc = IF m = "load" THEN "check" ELSE "wire",
                                           ![w].srv = Bound(w)]
    BY <1>8 DEF LoadAddr, WorkerAt
  <2> DEFINE l == IF m = "load" THEN "check" ELSE "wire"
  <2>2. UNCHANGED tableVars /\ binding' = binding /\ healthy' = healthy
    BY <1>8 DEF LoadAddr, WorkerAt
  <2>3. Bound(w) \in Servers
    BY <1>own, <2>1 DEF TablePlace, PlaceFor, Steady
  <2>4. Became(w, l, worker[w].key, Bound(w), worker[w].newSrv)
    BY <1>ty, <2>1, <2>3, WorkerMoves DEF Places, AnyServer
  <2>5. l = "wire" => binding[sess[w]].onEvict = NoServer
    BY <1>own, <2>1 DEF Steady
  <2> QED
    BY <1>keep, <1>same, <2>2, <2>3, <2>4, <2>5 DEF Bound
<1>9. CASE Wire(w)
  <2>1. /\ worker[w].pc = "wire" /\ UpdateServer(sess[w], worker[w].srv, worker[w].srv)
        /\ Goes(w, "touch") /\ UNCHANGED tableVars /\ healthy' = healthy
    BY <1>9 DEF Wire, WorkerAt
  <2>2. /\ pc[w] = "created" /\ sess[w] \in Sessions /\ worker[w].srv = Bound(w)
        /\ Bound(w) \in Servers
    BY <1>b, <1>own, <2>1 DEF TablePlace, PlaceFor, Steady
  <2>3. Became(w, "touch", worker[w].key, worker[w].srv, worker[w].newSrv)
    BY <1>ty, <2>1, WorkerMoves DEF Places
  <2>4. /\ binding'[sess[w]] = [addr |-> worker[w].srv, onEvict |-> worker[w].srv]
        /\ \A t \in Sessions \ {sess[w]} : binding'[t] = binding[t]
    BY <1>b, <2>1, <2>2, BindingMoves DEF AnyServer
  <2>5. \A t \in Sessions : binding'[t].addr = binding[t].addr
    BY <2>2, <2>4 DEF Bound
  <2>6. \A v \in Procs \ {w} : worker[v].pc \in {"insert", "count", "wireload", "wire"}
                                  => sess[v] # sess[w] /\ sess[v] \in Sessions
    BY <1>b, <1>ty, <2>2 DEF TablePlace, PlaceFor, Fresh, OneCreator
  <2>7. \A t \in inserted' : binding'[t].addr \in Servers
    BY <1>b, <1>same, <2>1, <2>5 DEF SteadyInv
  <2> QED
    BY <1>b, <1>rest, <1>same, <2>1, <2>2, <2>3, <2>4, <2>5, <2>6, <2>7 DEF Bound
<1>10. CASE TouchStep(w)
  <2>1. /\ binding' = binding /\ healthy' = healthy /\ Touch(w) /\ Goes(w, "load")
    BY <1>10 DEF TouchStep, WorkerAt
  <2>2. Proceeded(w, pc[w], key[w], sess[w]) /\ inserted' = inserted
    BY <1>ty, <2>1, ProcMoves DEF Touch
  <2>3. Became(w, "load", worker[w].key, worker[w].srv, worker[w].newSrv)
    BY <1>ty, <2>1, WorkerMoves DEF Places
  <2> QED
    BY <1>keep, <1>own, <2>1, <2>2, <2>3 DEF Steady, Bound
<1>11. CASE Check(w)
  <2>1. /\ worker[w].pc = "check" /\ UNCHANGED tableVars /\ binding' = binding
        /\ healthy' = healthy
    BY <1>11 DEF Check, WorkerAt
  <2>2. worker[w].srv = Bound(w) /\ Bound(w) \in Servers
    BY <1>own, <2>1 DEF TablePlace, PlaceFor, Steady
  <2>3. healthy[worker[w].srv] = TRUE
    BY <2>2 DEF SteadyInv
  <2>4. Goes(w, "send")
    BY <1>11, <2>3, Zenon DEF Check
  <2>5. Became(w, "send", worker[w].key, worker[w].srv, worker[w].newSrv)
    BY <1>ty, <2>4, WorkerMoves DEF Places
  <2> QED
    BY <1>keep, <1>same, <2>1, <2>2, <2>5 DEF Bound
<1>12. CASE Send(w)
  <2>1. /\ binding' = binding /\ healthy' = healthy /\ Release(w) /\ Returns(w)
    BY <1>12 DEF Send, WorkerAt
  <2>2. Proceeded(w, "idle", NoKey, NoSession) /\ inserted' = inserted
    BY <1>ty, <2>1, ProcMoves DEF Release
  <2>3. Became(w, "idle", NoKey, NoServer, NoServer)
    BY <1>ty, <2>1, WorkerMoves DEF Places
  <2> QED
    BY <1>keep, <2>1, <2>2, <2>3
<1> QED
  BY <1>1, <1>2, <1>3, <1>4, <1>5, <1>6, <1>7, <1>8, <1>9, <1>10, <1>11, <1>12, SteadySteps

\* What such a step does to the table and to the bindings: it writes the binding
\* of a session nobody else knows, or wires the session it created.
LEMMA SteadyEffect ==
  ASSUME Base, Affinity, SteadyInv, NEW w \in Procs, WorkerStep(w)
  PROVE  /\ callbacks' = callbacks /\ leaked' = leaked /\ flips' = flips
         /\ \/ InsertStep(w) /\ Vacant(key[w])
            \/ entries' = entries
         /\ \A t \in Live : binding'[t].addr = binding[t].addr
         /\ Wire(w) \/ (connCount' = connCount /\ \A t \in Live : binding'[t] = binding[t])
         /\ Send(w) \/ assigned' = assigned
         /\ evicted' \subseteq evicted
<1>b. /\ InTable \subseteq inserted /\ inserted \subseteq Sessions
      /\ binding \in [Sessions -> Bindings] /\ Live \subseteq Sessions
      /\ \A v \in Procs : worker[v] \in WorkerStates /\ TablePlace(v) /\ ForItsClient(v)
      /\ \A v \in Procs : pc[v] \notin {"idle", "miss"} => sess[v] \in Sessions
  BY BoundSessions
<1> DEFINE Quiet == /\ callbacks' = callbacks /\ leaked' = leaked /\ flips' = flips
                    /\ evicted' = evicted /\ binding' = binding /\ connCount' = connCount
<1>q. Quiet => /\ callbacks' = callbacks /\ leaked' = leaked /\ flips' = flips
               /\ evicted' \subseteq evicted /\ connCount' = connCount
               /\ \A t \in Live : binding'[t] = binding[t] /\ binding'[t].addr = binding[t].addr
  OBVIOUS
<1>1. CASE Take(w) \/ LookupStep(w) \/ Weigh(w) \/ PickNil(w) \/ CountStep(w) \/ LoadAddr(w)
           \/ TouchStep(w) \/ Check(w)
  <2>1. Quiet /\ entries' = entries /\ assigned' = assigned
    BY <1>1, Zenon DEF Take, LookupStep, Weigh, PickNil, CountStep, LoadAddr, TouchStep, Check,
       WorkerAt, tableVars, Lookup, NewFnNil, CountAdd, Touch, reaperVars
  <2> QED
    BY <1>q, <2>1
<1>2. CASE Send(w)
  <2>1. Quiet /\ entries' = entries
    BY <1>2, Zenon DEF Send, WorkerAt, Release, reaperVars
  <2> QED
    BY <1>2, <1>q, <2>1
<1>3. CASE InsertStep(w)
  <2>1. Quiet /\ assigned' = assigned
    BY <1>3, Zenon DEF InsertStep, WorkerAt, Insert, reaperVars
  <2>2. Vacant(key[w]) \/ entries' = entries
    BY <1>3, Zenon DEF InsertStep, Insert
  <2> QED
    BY <1>3, <1>q, <2>1, <2>2
<1>4. ASSUME NEW x \in Servers, NEW s \in Sessions, ChooseNew(w, x, s)
      PROVE  /\ callbacks' = callbacks /\ leaked' = leaked /\ flips' = flips
             /\ entries' = entries /\ connCount' = connCount /\ assigned' = assigned
             /\ evicted' \subseteq evicted
             /\ \A t \in Live : binding'[t] = binding[t]
  <2>1. /\ callbacks' = callbacks /\ leaked' = leaked /\ flips' = flips
        /\ entries' = entries /\ connCount' = connCount /\ assigned' = assigned
        /\ evicted' = evicted \ {s} /\ UpdateServer(s, x, NoServer) /\ s \in Free
    BY <1>4, Zenon DEF ChooseNew, WorkerAt, NewFn
  <2>2. s \notin Live
    BY <2>1 DEF Free, Live
  <2>3. \A t \in Sessions \ {s} : binding'[t] = binding[t]
    BY <1>b, <2>1, BindingMoves DEF AnyServer
  <2> QED
    BY <1>b, <2>1, <2>2, <2>3
<1>5. CASE Wire(w)
  <2>1. /\ callbacks' = callbacks /\ leaked' = leaked /\ flips' = flips
        /\ entries' = entries /\ assigned' = assigned /\ evicted' = evicted
        /\ UpdateServer(sess[w], worker[w].srv, worker[w].srv) /\ worker[w].pc = "wire"
    BY <1>5, Zenon DEF Wire, WorkerAt, tableVars
  <2>2. Steady(w) /\ TablePlace(w) /\ worker[w].srv \in AnyServer
    BY <1>b DEF SteadyInv, WorkerStates
  <2>3. sess[w] \in Sessions /\ worker[w].srv = binding[sess[w]].addr
    BY <1>b, <2>1, <2>2 DEF TablePlace, PlaceFor, Steady, Bound
  <2>4. /\ binding'[sess[w]] = [addr |-> worker[w].srv, onEvict |-> worker[w].srv]
        /\ \A t \in Sessions \ {sess[w]} : binding'[t] = binding[t]
    BY <1>b, <2>1, <2>2, <2>3, BindingMoves
  <2>5. \A t \in Sessions : binding'[t].addr = binding[t].addr
    BY <2>3, <2>4
  <2> QED
    BY <1>5, <1>b, <2>1, <2>5
<1> HIDE DEF Quiet
<1> QED
  BY <1>1, <1>2, <1>3, <1>4, <1>5, SteadySteps

LEMMA AssignedWorker ==
  ASSUME Base, Affinity, flips = 0, SteadyInv, AssignedInv, NEW w \in Procs, WorkerStep(w)
  PROVE  /\ AssignedInv'
         /\ Send(w) /\ sess[w] \notin Removed
               => assigned[worker[w].key] \in {NoServer, worker[w].srv}
<1>b. /\ inserted = Live \cup evicted
      /\ \A v \in Procs : TablePlace(v) /\ ForItsClient(v)
  BY BoundSessions
<1>ty. /\ entries \in [Keys -> Sessions \cup {NoSession}]
       /\ assigned \in [Keys -> AnyServer]
       /\ UnderItsKey /\ ReturnedInserted
  BY DEF Base, StageInv, TableInv, TypeOK, ForwardInv, ForwardTypeOK
<1>live. \A k \in Keys : entries[k] # NoSession => entries[k] \in Live
  BY DEF Live, InTable, Present
<1>1. ASSUME assigned' = assigned, entries' = entries PROVE AssignedInv'
  BY <1>1, <1>live, SteadyEffect DEF AssignedInv
<1>2. ASSUME assigned' = assigned, InsertStep(w), Vacant(key[w]) PROVE AssignedInv'
  <2>1. key[w] = worker[w].key /\ worker[w].key \in Keys
    BY <1>2, <1>b DEF InsertStep, WorkerAt, Insert, ForItsClient
  <2>2. /\ \A k \in Keys : k # key[w] => entries'[k] = entries[k]
        /\ assigned[key[w]] = NoServer
    BY <1>2, <1>ty, <2>1 DEF InsertStep, Insert, Vacant, AssignedInv
  <2> QED
    BY <1>2, <1>live, <2>2, SteadyEffect DEF AssignedInv
<1>3. CASE Send(w)
  <2>0. /\ worker[w].pc = "send" /\ entries' = entries /\ binding' = binding
    BY <1>3 DEF Send, WorkerAt, Release
  <2>1. /\ pc[w] \in {"created", "found"} /\ key[w] = worker[w].key /\ worker[w].key \in Keys
        /\ worker[w].srv = binding[sess[w]].addr
    BY <1>b, <2>0 DEF TablePlace, PlaceFor, ForItsClient, SteadyInv, Steady, Bound
  <2>2. ASSUME sess[w] \notin Removed
        PROVE  /\ entries[worker[w].key] = sess[w] /\ sess[w] # NoSession
               /\ assigned[worker[w].key] \in {NoServer, worker[w].srv}
    <3>1. sess[w] \in inserted /\ sess[w] \in Sessions
      BY <1>ty, <2>1, BoundSessions DEF ReturnedInserted
    <3>2. sess[w] \in InTable
      BY <1>b, <2>2, <3>1 DEF Removed, Live
    <3>3. entries[worker[w].key] = sess[w]
      BY <1>ty, <2>1, <3>2 DEF UnderItsKey
    <3>4. sess[w] # NoSession
      BY <3>1, SessionsAssumption
    <3> QED
      BY <2>1, <3>3, <3>4 DEF AssignedInv
  <2>3. \/ assigned' = assigned
        \/ /\ sess[w] \notin Removed
           /\ assigned' = [assigned EXCEPT ![worker[w].key] = worker[w].srv]
    BY <1>3, Zenon DEF Send
  <2>4. AssignedInv'
    BY <1>ty, <2>0, <2>1, <2>2, <2>3 DEF AssignedInv
  <2> QED
    BY <2>2, <2>4
<1>4. CASE ~Send(w)
  BY <1>1, <1>2, <1>4, SteadyEffect
<1> QED
  BY <1>3, <1>4

\* A session a worker has got in affinity mode is bound to a server, and a worker
\* that counts a session or moves its count has servers to do so.
Served(w) ==
    /\ worker[w].pc \notin {"compare", "alloc"}
    /\ pc[w] \notin {"idle", "miss"} => Bound(w) \in Servers
    /\ worker[w].pc \in {"wire", "check", "reweigh", "rechoose", "transfer"}
          => worker[w].srv \in Servers
    /\ worker[w].pc = "transfer" => worker[w].newSrv \in Servers

ServedInv ==
    /\ \A w \in Procs : Served(w)
    /\ \A s \in inserted : binding[s].addr \in Servers

LEMMA SteadyServed ==
  ASSUME Base, SteadyInv
  PROVE  ServedInv
<1> SUFFICES ASSUME NEW w \in Procs PROVE Served(w)
  BY DEF ServedInv, SteadyInv
<1>1. Steady(w) /\ TablePlace(w)
  BY BoundSessions DEF SteadyInv
<1>2. worker[w].pc \in {"wire", "check"} => pc[w] \notin {"idle", "miss"}
  BY <1>1 DEF TablePlace, PlaceFor
<1> QED
  BY <1>1, <1>2 DEF Steady, Served

LEMMA AffinitySteps ==
  ASSUME Affinity, ServedInv, NEW w \in Procs, WorkerStep(w)
  PROVE  \/ Take(w) \/ LookupStep(w) \/ Weigh(w) \/ PickNil(w)
         \/ \E b \in Servers, s \in Sessions : ChooseNew(w, b, s)
         \/ InsertStep(w) \/ CountStep(w) \/ LoadAddr(w) \/ Wire(w)
         \/ TouchStep(w) \/ Check(w) \/ Reweigh(w)
         \/ \E b \in Servers : Rechoose(w, b)
         \/ Transfer(w) \/ Send(w)
<1>1. worker[w].pc \notin {"compare", "alloc"}
  BY DEF ServedInv, Served
<1>2. /\ ~Compare(w) /\ \A b \in Servers : ~ChooseEach(w, b)
      /\ \A s \in Sessions : ~Alloc(w, s)
  BY <1>1 DEF Compare, ChooseEach, Alloc, WorkerAt
<1> QED
  BY <1>2, Zenon DEF WorkerStep

\* A session bound to a server, and one whose eviction gives a count back.
Bindable(t) == binding[t].addr \in Servers
Callable(t) == binding[t].onEvict # NoServer

LEMMA ServedWorker ==
  ASSUME Base, Affinity, ServedInv, NEW w \in Procs, WorkerStep(w)
  PROVE  /\ ServedInv'
         /\ \A t \in Live : Callable(t) => Callable(t)'
<1> DEFINE Goal == ServedInv' /\ \A t \in Live : Callable(t) => Callable(t)'
<1>b. /\ InTable \subseteq inserted /\ inserted \subseteq Sessions /\ Live \subseteq inserted
      /\ binding \in [Sessions -> Bindings]
      /\ \A v \in Procs : worker[v] \in WorkerStates /\ TablePlace(v) /\ ForItsClient(v)
      /\ \A v \in Procs : pc[v] \notin {"idle", "miss"} => sess[v] \in Sessions
  BY BoundSessions
<1>ty. TypeOK /\ ForwardTypeOK
  BY DEF Base, StageInv, TableInv, ForwardInv
<1>in. \A k \in Keys : entries[k] # NoSession => entries[k] \in inserted
  BY <1>b DEF InTable, Present
<1>own. Served(w) /\ TablePlace(w) /\ worker[w].srv \in AnyServer /\ worker[w].newSrv \in AnyServer
  BY <1>b DEF ServedInv, WorkerStates
\* Every other worker keeps its place and its session, which stays bound to a server.
<1>rest. ASSUME NEW l, NEW k, NEW b, NEW c, Became(w, l, k, b, c),
                NEW t, NEW tk, NEW ts, Proceeded(w, t, tk, ts),
                \A s \in Sessions : Bindable(s) => Bindable(s)',
                \A s \in Live : Callable(s) => Callable(s)',
                \A s \in inserted' : Bindable(s)',
                /\ l \notin {"compare", "alloc"}
                /\ t \notin {"idle", "miss"} => binding'[ts].addr \in Servers
                /\ l \in {"wire", "check", "reweigh", "rechoose", "transfer"} => b \in Servers
                /\ l = "transfer" => c \in Servers
         PROVE  Goal
  <2>1. /\ worker'[w].pc = l /\ worker'[w].srv = b /\ worker'[w].newSrv = c
        /\ \A v \in Procs \ {w} : worker'[v] = worker[v]
    BY <1>rest DEF Became, Becomes
  <2>2. /\ pc'[w] = t /\ sess'[w] = ts
        /\ \A v \in Procs \ {w} : pc'[v] = pc[v] /\ sess'[v] = sess[v]
    BY <1>rest DEF Proceeded
  <2>3. Served(w)'
    BY <1>rest, <2>1, <2>2 DEF Served, Bound
  <2>4. ASSUME NEW v \in Procs \ {w} PROVE Served(v)'
    <3>1. Served(v)
      BY DEF ServedInv
    <3> QED
      BY <1>b, <1>rest, <2>1, <2>2, <3>1 DEF Served, Bound, Bindable
  <2> QED
    BY <1>rest, <2>3, <2>4 DEF ServedInv, Bindable
\* The common case: no binding is written.
<1>keep. ASSUME NEW l, NEW k, NEW b, NEW c, Became(w, l, k, b, c),
                NEW t, NEW tk, NEW ts, Proceeded(w, t, tk, ts),
                binding' = binding,
                \A s \in inserted' : s \in inserted \/ (pc[w] = "insert" /\ s = sess[w]),
                /\ l \notin {"compare", "alloc"}
                /\ t \notin {"idle", "miss"} => binding[ts].addr \in Servers
                /\ l \in {"wire", "check", "reweigh", "rechoose", "transfer"} => b \in Servers
                /\ l = "transfer" => c \in Servers
         PROVE  Goal
  <2>1. \A s \in inserted' : Bindable(s)'
    BY <1>keep, <1>own DEF ServedInv, Served, Bound, Bindable
  <2>2. /\ \A s \in Sessions : Bindable(s) => Bindable(s)'
        /\ \A s \in Live : Callable(s) => Callable(s)'
    BY <1>keep DEF Bindable, Callable
  <2> HIDE DEF Goal
  <2> QED
    BY <1>keep, <1>rest, <2>1, <2>2
<1>same. UNCHANGED tableVars => Proceeded(w, pc[w], key[w], sess[w]) /\ inserted' = inserted
  BY DEF tableVars, Proceeded
<1>goes. ASSUME NEW l \in Places, Goes(w, l)
         PROVE  Became(w, l, worker[w].key, worker[w].srv, worker[w].newSrv)
  BY <1>goes, <1>ty, WorkerMoves
<1>ret. ASSUME Returns(w) PROVE Became(w, "idle", NoKey, NoServer, NoServer)
  BY <1>ret, <1>ty, WorkerMoves DEF Places
<1>on. worker[w].pc \in {"wireload", "wire", "touch", "load", "check", "reweigh", "rechoose", "transfer"}
          => pc[w] \in {"created", "found"} /\ binding[sess[w]].addr \in Servers /\ sess[w] \in Sessions
  BY <1>b, <1>own DEF TablePlace, PlaceFor, Served, Bound
<1> SUFFICES Goal
  OBVIOUS
<1> HIDE DEF Goal
<1>1. CASE Take(w)
  <2>1. Head(workCh) \in Keys
    BY <1>1, <1>ty DEF Take, ForwardTypeOK
  <2>2. Became(w, "lookup", Head(workCh), worker[w].srv, worker[w].newSrv)
    BY <1>1, <1>ty, <2>1, WorkerMoves DEF Take, Places
  <2>3. UNCHANGED tableVars /\ binding' = binding /\ pc[w] = "idle"
    BY <1>1, <1>own DEF Take, WorkerAt, TablePlace, PlaceFor
  <2> QED
    BY <1>keep, <1>same, <2>2, <2>3
<1>2. CASE LookupStep(w)
  <2>0. worker[w].key \in Keys
    BY <1>2, <1>b DEF LookupStep, WorkerAt, ForItsClient
  <2>1. PICK t \in {"miss", "found"} :
           /\ Proceeded(w, t, worker[w].key, entries[worker[w].key])
           /\ t = "found" => entries[worker[w].key] # NoSession
    BY <1>2, <1>ty, <2>0, ProcMoves DEF LookupStep
  <2>2. PICK l \in {"touch", "weigh"} : Goes(w, l)
    BY <1>2 DEF LookupStep, Found
  <2>3. Became(w, l, worker[w].key, worker[w].srv, worker[w].newSrv)
    BY <1>goes, <2>2 DEF Places
  <2>4. binding' = binding /\ inserted' = inserted
    BY <1>2 DEF LookupStep, Lookup
  <2>5. t = "found" => binding[entries[worker[w].key]].addr \in Servers
    BY <1>in, <2>0, <2>1 DEF ServedInv
  <2> QED
    BY <1>keep, <2>1, <2>2, <2>3, <2>4, <2>5
<1>3. CASE Weigh(w)
  <2>1. binding' = binding
    BY <1>3 DEF Weigh
  <2>2. CASE Goes(w, "choose") /\ UNCHANGED tableVars
    <3>1. Became(w, "choose", worker[w].key, worker[w].srv, worker[w].newSrv)
      BY <1>goes, <2>2 DEF Places
    <3>2. pc[w] = "miss"
      BY <1>3, <1>own DEF Weigh, WorkerAt, TablePlace, PlaceFor
    <3> QED
      BY <1>keep, <1>same, <2>1, <2>2, <3>1, <3>2
  <2>3. CASE Returns(w) /\ NewFnNil(w)
    <3>1. Proceeded(w, "idle", NoKey, NoSession) /\ inserted' = inserted
      BY <1>ty, <2>3, ProcMoves DEF NewFnNil
    <3> QED
      BY <1>keep, <1>ret, <2>1, <2>3, <3>1
  <2> QED
    BY <1>3, <2>2, <2>3 DEF Weigh
<1>4. CASE PickNil(w)
  <2>1. worker' = worker /\ binding' = binding /\ UNCHANGED tableVars
    BY <1>4 DEF PickNil
  <2>2. pc' = pc /\ sess' = sess /\ inserted' = inserted
    BY <2>1 DEF tableVars
  <2> QED
    BY <2>1, <2>2 DEF Goal, ServedInv, Served, Bound, Callable
<1>5. ASSUME NEW x \in Servers, NEW s \in Sessions, ChooseNew(w, x, s) PROVE Goal
  <2>1. /\ NewFn(w, s) /\ UpdateServer(s, x, NoServer) /\ Goes(w, "insert")
    BY <1>5 DEF ChooseNew
  <2>2. Became(w, "insert", worker[w].key, worker[w].srv, worker[w].newSrv)
    BY <1>goes, <2>1 DEF Places
  <2>3. Proceeded(w, "insert", key[w], s)
    BY <1>ty, <2>1, ProcMoves
  <2>4. /\ binding'[s] = [addr |-> x, onEvict |-> NoServer]
        /\ \A t \in Sessions \ {s} : binding'[t] = binding[t]
    BY <1>b, <2>1, BindingMoves DEF AnyServer
  <2>5. inserted' = inserted \ {s} /\ s \notin Live
    BY <2>1 DEF NewFn, Free, Live
  <2>6. /\ \A t \in Sessions : Bindable(t) => Bindable(t)'
        /\ \A t \in Live : Callable(t) => Callable(t)'
    BY <1>b, <2>4, <2>5 DEF Bindable, Callable
  <2>8. \A t \in inserted' : Bindable(t)'
    BY <1>b, <2>4, <2>5 DEF ServedInv, Bindable
  <2>9. binding'[s].addr \in Servers
    BY <2>4
  <2> QED
    BY <1>rest, <2>2, <2>3, <2>6, <2>8, <2>9
<1>6. CASE InsertStep(w)
  <2>0. /\ pc[w] = "insert" /\ key[w] \in Keys /\ sess[w] \in Sessions /\ worker[w].pc = "insert"
    BY <1>6, <1>b DEF InsertStep, WorkerAt, ForItsClient, Insert
  <2>1. binding' = binding /\ Insert(w)
    BY <1>6 DEF InsertStep
  <2>2. CASE Vacant(key[w])
    <3>1. Proceeded(w, "count", key[w], sess[w])
      BY <1>ty, <2>1, <2>2, ProcMoves DEF Insert, Proceeded, TypeOK
    <3>2. Goes(w, "count")
      BY <1>6, <3>1 DEF InsertStep, Proceeded
    <3>3. Became(w, "count", worker[w].key, worker[w].srv, worker[w].newSrv)
      BY <1>goes, <3>2 DEF Places
    <3>4. inserted' = inserted \cup {sess[w]}
      BY <2>1, <2>2 DEF Insert
    <3> QED
      BY <1>keep, <1>own, <2>0, <2>1, <3>1, <3>3, <3>4 DEF Served, Bound
  <2>3. CASE ~Vacant(key[w])
    <3>1. Proceeded(w, "found", key[w], entries[key[w]])
      BY <1>ty, <2>1, <2>3, ProcMoves DEF Insert, Proceeded, TypeOK
    <3>2. Goes(w, "touch")
      BY <1>6, <3>1 DEF InsertStep, Proceeded, Found
    <3>3. Became(w, "touch", worker[w].key, worker[w].srv, worker[w].newSrv)
      BY <1>goes, <3>2 DEF Places
    <3>4. inserted' = inserted
      BY <2>1, <2>3 DEF Insert
    <3>5. binding[entries[key[w]]].addr \in Servers
      BY <1>in, <2>0, <2>3 DEF Vacant, ServedInv
    <3> QED
      BY <1>keep, <2>1, <3>1, <3>3, <3>4, <3>5
  <2> QED
    BY <2>2, <2>3
<1>7. CASE CountStep(w)
  <2>1. /\ binding' = binding /\ CountAdd(w) /\ Goes(w, "wireload") /\ pc[w] = "count"
    BY <1>7 DEF CountStep, CountAdd
  <2>2. Proceeded(w, "created", key[w], sess[w]) /\ inserted' = inserted
    BY <1>ty, <2>1, ProcMoves DEF CountAdd
  <2>3. Became(w, "wireload", worker[w].key, worker[w].srv, worker[w].newSrv)
    BY <1>goes, <2>1 DEF Places
  <2> QED
    BY <1>keep, <1>own, <2>1, <2>2, <2>3 DEF Served, Bound
<1>8. CASE LoadAddr(w)
  <2>1. PICK m \in {"wireload", "load"} : /\ worker[w].pc = m
               /\ worker' = [worker EXCEPT ![w].pc = IF m = "load" THEN "check" ELSE "wire",
                                           ![w].srv = Bound(w)]
    BY <1>8 DEF LoadAddr, WorkerAt
  <2> DEFINE l == IF m = "load" THEN "check" ELSE "wire"
  <2>2. UNCHANGED tableVars /\ binding' = binding
    BY <1>8 DEF LoadAddr
  <2>3. Bound(w) \in Servers
    BY <1>on, <2>1 DEF Bound
  <2>4. Became(w, l, worker[w].key, Bound(w), worker[w].newSrv)
    BY <1>ty, <2>1, <2>3, WorkerMoves DEF Places, AnyServer
  <2> QED
    BY <1>keep, <1>same, <2>2, <2>3, <2>4 DEF Bound
\* Wire and Transfer bind the session to a server and register its callback.
<1>bind. ASSUME NEW x \in Servers, UpdateServer(sess[w], x, x), sess[w] \in Sessions, UNCHANGED tableVars
         PROVE  /\ \A t \in Sessions : Bindable(t) => Bindable(t)'
                /\ \A t \in Live : Callable(t) => Callable(t)'
                /\ \A t \in inserted' : Bindable(t)'
                /\ binding'[sess[w]].addr \in Servers
  <2>1. /\ binding'[sess[w]] = [addr |-> x, onEvict |-> x]
        /\ \A t \in Sessions \ {sess[w]} : binding'[t] = binding[t]
    BY <1>b, <1>bind, BindingMoves DEF AnyServer
  <2>2. /\ \A t \in Sessions : Bindable(t) => Bindable(t)'
        /\ \A t \in Sessions : Callable(t) => Callable(t)'
        /\ binding'[sess[w]].addr \in Servers
    BY <2>1, NoServerAssumption DEF Bindable, Callable
  <2> QED
    BY <1>b, <1>bind, <1>same, <2>2 DEF ServedInv, Bindable
<1>9. CASE Wire(w)
  <2>1. /\ worker[w].pc = "wire" /\ UpdateServer(sess[w], worker[w].srv, worker[w].srv)
        /\ Goes(w, "touch") /\ UNCHANGED tableVars
    BY <1>9 DEF Wire, WorkerAt
  <2>2. worker[w].srv \in Servers
    BY <1>own, <2>1 DEF Served
  <2>3. Became(w, "touch", worker[w].key, worker[w].srv, worker[w].newSrv)
    BY <1>goes, <2>1 DEF Places
  <2> QED
    BY <1>bind, <1>on, <1>rest, <1>same, <2>1, <2>2, <2>3
<1>10. CASE TouchStep(w)
  <2>1. /\ binding' = binding /\ Touch(w) /\ Goes(w, "load") /\ worker[w].pc = "touch"
    BY <1>10 DEF TouchStep, WorkerAt
  <2>2. Proceeded(w, pc[w], key[w], sess[w]) /\ inserted' = inserted
    BY <1>ty, <2>1, ProcMoves DEF Touch
  <2>3. Became(w, "load", worker[w].key, worker[w].srv, worker[w].newSrv)
    BY <1>goes, <2>1 DEF Places
  <2> QED
    BY <1>keep, <1>on, <2>1, <2>2, <2>3
<1>11. CASE Check(w)
  <2>1. /\ worker[w].pc = "check" /\ UNCHANGED tableVars /\ binding' = binding
    BY <1>11 DEF Check, WorkerAt
  <2>2. worker[w].srv \in Servers
    BY <1>own, <2>1 DEF Served
  <2>3. PICK l \in {"send", "reweigh"} : Goes(w, l)
    BY <1>11 DEF Check
  <2>4. Became(w, l, worker[w].key, worker[w].srv, worker[w].newSrv)
    BY <1>goes, <2>3 DEF Places
  <2> QED
    BY <1>keep, <1>on, <1>same, <2>1, <2>2, <2>3, <2>4
<1>12. CASE Reweigh(w)
  <2>1. worker[w].pc = "reweigh" /\ binding' = binding
    BY <1>12 DEF Reweigh, WorkerAt
  <2>2. CASE Goes(w, "rechoose") /\ UNCHANGED tableVars
    <3>1. Became(w, "rechoose", worker[w].key, worker[w].srv, worker[w].newSrv)
      BY <1>goes, <2>2 DEF Places
    <3>2. worker[w].srv \in Servers
      BY <1>own, <2>1 DEF Served
    <3> QED
      BY <1>keep, <1>on, <1>same, <2>1, <2>2, <3>1, <3>2
  <2>3. CASE Returns(w) /\ Release(w)
    <3>1. Proceeded(w, "idle", NoKey, NoSession) /\ inserted' = inserted
      BY <1>ty, <2>3, ProcMoves DEF Release
    <3> QED
      BY <1>keep, <1>ret, <2>1, <2>3, <3>1
  <2> QED
    BY <1>12, <2>2, <2>3 DEF Reweigh
<1>13. ASSUME NEW x \in Servers, Rechoose(w, x) PROVE Goal
  <2>1. /\ worker[w].pc = "rechoose" /\ binding' = binding /\ UNCHANGED tableVars
        /\ worker' = [worker EXCEPT ![w].pc = "transfer", ![w].newSrv = x]
    BY <1>13 DEF Rechoose, WorkerAt
  <2>2. worker[w].srv \in Servers
    BY <1>own, <2>1 DEF Served
  <2>3. Became(w, "transfer", worker[w].key, worker[w].srv, x)
    BY <1>ty, <2>1, WorkerMoves DEF Places, AnyServer
  <2> QED
    BY <1>keep, <1>on, <1>same, <2>1, <2>2, <2>3
<1>14. CASE Transfer(w)
  <2> DEFINE x == worker[w].newSrv
  <2>1. /\ worker[w].pc = "transfer" /\ UpdateServer(sess[w], x, x) /\ UNCHANGED tableVars
        /\ worker' = [worker EXCEPT ![w].pc = "send", ![w].srv = x]
    BY <1>14 DEF Transfer, WorkerAt
  <2>2. x \in Servers
    BY <1>own, <2>1 DEF Served
  <2>3. Became(w, "send", worker[w].key, x, worker[w].newSrv)
    BY <1>ty, <2>1, <2>2, WorkerMoves DEF Places, AnyServer
  <2> QED
    BY <1>bind, <1>on, <1>rest, <1>same, <2>1, <2>2, <2>3
<1>15. CASE Send(w)
  <2>1. binding' = binding /\ Release(w) /\ Returns(w)
    BY <1>15 DEF Send
  <2>2. Proceeded(w, "idle", NoKey, NoSession) /\ inserted' = inserted
    BY <1>ty, <2>1, ProcMoves DEF Release
  <2> QED
    BY <1>keep, <1>ret, <2>1, <2>2
<1> QED
  BY <1>1, <1>2, <1>3, <1>4, <1>5, <1>6, <1>7, <1>8, <1>9, <1>10, <1>11, <1>12, <1>13, <1>14, <1>15,
     AffinitySteps

\* A session is unwired from its insertion to its creator's Wire.
Wiring == {"count", "wireload", "wire"}

LEMMA UnwiredEffect ==
  ASSUME Base, Affinity, ServedInv, NEW w \in Procs, WorkerStep(w)
  PROVE  \/ /\ InsertStep(w) /\ Vacant(key[w])
            /\ Unwired' = Unwired \cup {sess[w]}
         \/ Wire(w) /\ Unwired' = Unwired \ {sess[w]}
         \/ /\ ~Wire(w) /\ entries' = entries
            /\ Unwired' = Unwired
<1>b. /\ \A v \in Procs : worker[v] \in WorkerStates /\ TablePlace(v) /\ ForItsClient(v)
      /\ \A v \in Procs : pc[v] \notin {"idle", "miss"} => sess[v] \in Sessions
  BY BoundSessions
<1>ty. TypeOK /\ ForwardTypeOK /\ OneCreator
  BY DEF Base, StageInv, TableInv, ForwardInv
<1>un. /\ Unwired = {sess[v] : v \in {u \in Procs : worker[u].pc \in Wiring}}
       /\ Unwired' = {sess'[v] : v \in {u \in Procs : worker'[u].pc \in Wiring}}
  BY DEF Unwired, Wiring
<1>keep. ASSUME NEW l, NEW k, NEW b, NEW c, Became(w, l, k, b, c),
                NEW t, NEW tk, NEW ts, Proceeded(w, t, tk, ts),
                \/ worker[w].pc \notin Wiring /\ l \notin Wiring
                \/ worker[w].pc \in Wiring /\ l \in Wiring /\ ts = sess[w]
         PROVE  Unwired' = Unwired
  <2>1. worker'[w].pc = l /\ \A v \in Procs \ {w} : worker'[v] = worker[v]
    BY <1>keep DEF Became, Becomes
  <2>2. sess'[w] = ts /\ \A v \in Procs \ {w} : sess'[v] = sess[v]
    BY <1>keep DEF Proceeded
  <2> QED
    BY <1>keep, <1>un, <2>1, <2>2
<1>same. UNCHANGED tableVars => Proceeded(w, pc[w], key[w], sess[w]) /\ entries' = entries
  BY DEF tableVars, Proceeded
<1>goes. ASSUME NEW l \in Places, Goes(w, l)
         PROVE  Became(w, l, worker[w].key, worker[w].srv, worker[w].newSrv)
  BY <1>goes, <1>ty, WorkerMoves
<1>ret. ASSUME Returns(w) PROVE Became(w, "idle", NoKey, NoServer, NoServer)
  BY <1>ret, <1>ty, WorkerMoves DEF Places
<1>1. ASSUME Take(w) PROVE Unwired' = Unwired /\ entries' = entries
  <2>1. Became(w, "lookup", Head(workCh), worker[w].srv, worker[w].newSrv)
    <3>1. Head(workCh) \in Keys
      BY <1>1, <1>ty DEF Take, ForwardTypeOK
    <3> QED
      BY <1>1, <1>ty, <3>1, WorkerMoves DEF Take, Places
  <2>2. UNCHANGED tableVars /\ worker[w].pc = "idle"
    BY <1>1 DEF Take, WorkerAt
  <2> QED
    BY <1>keep, <1>same, <2>1, <2>2 DEF Wiring
<1>2. ASSUME LookupStep(w) PROVE Unwired' = Unwired /\ entries' = entries
  <2>1. worker[w].pc = "lookup" /\ worker[w].key \in Keys /\ Lookup(w, worker[w].key)
    BY <1>2, <1>b DEF LookupStep, WorkerAt, ForItsClient
  <2>2. PICK l \in {"touch", "weigh"} : Goes(w, l)
    BY <1>2 DEF LookupStep, Found
  <2>3. \E t, tk, ts : Proceeded(w, t, tk, ts)
    BY <1>ty, <2>1, ProcMoves
  <2>4. entries' = entries
    BY <2>1 DEF Lookup
  <2> QED
    BY <1>keep, <1>goes, <2>1, <2>2, <2>3, <2>4 DEF Wiring, Places
<1>3. ASSUME Weigh(w) PROVE Unwired' = Unwired /\ entries' = entries
  <2>0. worker[w].pc = "weigh"
    BY <1>3 DEF Weigh, WorkerAt
  <2>1. ASSUME Goes(w, "choose"), UNCHANGED tableVars PROVE Unwired' = Unwired /\ entries' = entries
    BY <1>keep, <1>goes, <1>same, <2>0, <2>1 DEF Wiring, Places
  <2>2. ASSUME Returns(w), NewFnNil(w) PROVE Unwired' = Unwired /\ entries' = entries
    <3>1. Proceeded(w, "idle", NoKey, NoSession) /\ entries' = entries
      BY <1>ty, <2>2, ProcMoves DEF NewFnNil
    <3> QED
      BY <1>keep, <1>ret, <2>0, <2>2, <3>1 DEF Wiring
  <2> QED
    BY <1>3, <2>1, <2>2 DEF Weigh
<1>4. ASSUME PickNil(w) PROVE Unwired' = Unwired /\ entries' = entries
  <2>1. worker' = worker /\ sess' = sess /\ entries' = entries
    BY <1>4 DEF PickNil, tableVars
  <2> QED
    BY <2>1 DEF Unwired
<1>5. ASSUME NEW x \in Servers, NEW s \in Sessions, ChooseNew(w, x, s)
      PROVE  Unwired' = Unwired /\ entries' = entries
  <2>1. worker[w].pc = "choose" /\ Goes(w, "insert") /\ NewFn(w, s)
    BY <1>5 DEF ChooseNew, WorkerAt
  <2>2. Proceeded(w, "insert", key[w], s) /\ entries' = entries
    BY <1>ty, <2>1, ProcMoves DEF NewFn
  <2> QED
    BY <1>keep, <1>goes, <2>1, <2>2 DEF Wiring, Places
<1>6. ASSUME InsertStep(w)
      PROVE  \/ Vacant(key[w]) /\ Unwired' = Unwired \cup {sess[w]}
             \/ Unwired' = Unwired /\ entries' = entries
  <2>0. worker[w].pc = "insert" /\ Insert(w)
    BY <1>6 DEF InsertStep, WorkerAt
  <2>1. CASE Vacant(key[w])
    <3>1. Proceeded(w, "count", key[w], sess[w])
      BY <1>ty, <2>0, <2>1, ProcMoves DEF Insert, Proceeded, TypeOK
    <3>2. Became(w, "count", worker[w].key, worker[w].srv, worker[w].newSrv)
      BY <1>6, <1>goes, <3>1 DEF InsertStep, Proceeded, Places
    <3>3. worker'[w].pc = "count" /\ \A v \in Procs \ {w} : worker'[v] = worker[v]
      BY <3>2 DEF Became, Becomes
    <3>4. \A v \in Procs : sess'[v] = sess[v]
      BY <3>1 DEF Proceeded
    <3> QED
      BY <1>un, <2>0, <2>1, <3>3, <3>4 DEF Wiring
  <2>2. CASE ~Vacant(key[w])
    <3>1. Proceeded(w, "found", key[w], entries[key[w]]) /\ entries' = entries
      BY <1>ty, <2>0, <2>2, ProcMoves DEF Insert, Proceeded, TypeOK
    <3>2. Goes(w, "touch")
      BY <1>6, <3>1 DEF InsertStep, Proceeded, Found
    <3> QED
      BY <1>keep, <1>goes, <2>0, <3>1, <3>2 DEF Wiring, Places
  <2> QED
    BY <2>1, <2>2
<1>7. ASSUME CountStep(w) PROVE Unwired' = Unwired /\ entries' = entries
  <2>1. worker[w].pc = "count" /\ Goes(w, "wireload") /\ CountAdd(w)
    BY <1>7 DEF CountStep, WorkerAt
  <2>2. Proceeded(w, "created", key[w], sess[w]) /\ entries' = entries
    BY <1>ty, <2>1, ProcMoves DEF CountAdd
  <2> QED
    BY <1>keep, <1>goes, <2>1, <2>2 DEF Wiring, Places
<1>8. ASSUME LoadAddr(w) PROVE Unwired' = Unwired /\ entries' = entries
  <2>1. PICK m \in {"wireload", "load"} : /\ worker[w].pc = m
               /\ worker' = [worker EXCEPT ![w].pc = IF m = "load" THEN "check" ELSE "wire",
                                           ![w].srv = Bound(w)]
    BY <1>8 DEF LoadAddr, WorkerAt
  <2> DEFINE l == IF m = "load" THEN "check" ELSE "wire"
  <2>2. UNCHANGED tableVars
    BY <1>8 DEF LoadAddr
  <2>3. Bound(w) \in AnyServer
    BY <1>b, <2>1 DEF TablePlace, PlaceFor, ServedInv, Served, AnyServer
  <2>4. Became(w, l, worker[w].key, Bound(w), worker[w].newSrv)
    BY <1>ty, <2>1, <2>3, WorkerMoves DEF Places
  <2> QED
    BY <1>keep, <1>same, <2>1, <2>2, <2>4 DEF Wiring
<1>9. ASSUME Wire(w) PROVE Unwired' = Unwired \ {sess[w]}
  <2>1. worker[w].pc = "wire" /\ Goes(w, "touch") /\ UNCHANGED tableVars
    BY <1>9 DEF Wire, WorkerAt
  <2>2. Became(w, "touch", worker[w].key, worker[w].srv, worker[w].newSrv)
    BY <1>goes, <2>1 DEF Places
  <2>3. worker'[w].pc = "touch" /\ \A v \in Procs \ {w} : worker'[v] = worker[v]
    BY <2>2 DEF Became, Becomes
  <2>4. sess' = sess
    BY <2>1 DEF tableVars
  <2>5. \A v \in Procs \ {w} : worker[v].pc \in Wiring => sess[v] # sess[w]
    BY <1>b, <1>ty, <2>1 DEF TablePlace, PlaceFor, OneCreator, Wiring
  <2> QED
    BY <1>un, <2>1, <2>3, <2>4, <2>5 DEF Wiring
<1>10. ASSUME TouchStep(w) PROVE Unwired' = Unwired /\ entries' = entries
  <2>1. worker[w].pc = "touch" /\ Goes(w, "load") /\ Touch(w)
    BY <1>10 DEF TouchStep, WorkerAt
  <2>2. Proceeded(w, pc[w], key[w], sess[w]) /\ entries' = entries
    BY <1>ty, <2>1, ProcMoves DEF Touch
  <2> QED
    BY <1>keep, <1>goes, <2>1, <2>2 DEF Wiring, Places
<1>11. ASSUME Check(w) PROVE Unwired' = Unwired /\ entries' = entries
  <2>1. PICK l \in {"send", "reweigh"} : worker[w].pc = "check" /\ Goes(w, l) /\ UNCHANGED tableVars
    BY <1>11 DEF Check, WorkerAt
  <2> QED
    BY <1>keep, <1>goes, <1>same, <2>1 DEF Wiring, Places
<1>12. ASSUME Send(w) PROVE Unwired' = Unwired /\ entries' = entries
  <2>1. worker[w].pc = "send" /\ Returns(w) /\ Release(w)
    BY <1>12 DEF Send, WorkerAt
  <2>2. Proceeded(w, "idle", NoKey, NoSession) /\ entries' = entries
    BY <1>ty, <2>1, ProcMoves DEF Release
  <2> QED
    BY <1>keep, <1>ret, <2>1, <2>2 DEF Wiring
<1>13. ASSUME Reweigh(w) PROVE Unwired' = Unwired /\ entries' = entries
  <2>0. worker[w].pc = "reweigh"
    BY <1>13 DEF Reweigh, WorkerAt
  <2>1. ASSUME Goes(w, "rechoose"), UNCHANGED tableVars PROVE Unwired' = Unwired /\ entries' = entries
    BY <1>keep, <1>goes, <1>same, <2>0, <2>1 DEF Wiring, Places
  <2>2. ASSUME Returns(w), Release(w) PROVE Unwired' = Unwired /\ entries' = entries
    <3>1. Proceeded(w, "idle", NoKey, NoSession) /\ entries' = entries
      BY <1>ty, <2>2, ProcMoves DEF Release
    <3> QED
      BY <1>keep, <1>ret, <2>0, <2>2, <3>1 DEF Wiring
  <2> QED
    BY <1>13, <2>1, <2>2 DEF Reweigh
<1>14. ASSUME NEW x \in Servers, Rechoose(w, x) PROVE Unwired' = Unwired /\ entries' = entries
  <2>1. /\ worker[w].pc = "rechoose" /\ UNCHANGED tableVars
        /\ worker' = [worker EXCEPT ![w].pc = "transfer", ![w].newSrv = x]
    BY <1>14 DEF Rechoose, WorkerAt
  <2>2. Became(w, "transfer", worker[w].key, worker[w].srv, x)
    BY <1>ty, <2>1, WorkerMoves DEF Places, AnyServer
  <2> QED
    BY <1>keep, <1>same, <2>1, <2>2 DEF Wiring
<1>15. ASSUME Transfer(w) PROVE Unwired' = Unwired /\ entries' = entries
  <2>1. /\ worker[w].pc = "transfer" /\ UNCHANGED tableVars
        /\ worker' = [worker EXCEPT ![w].pc = "send", ![w].srv = worker[w].newSrv]
    BY <1>15 DEF Transfer, WorkerAt
  <2>2. worker[w].newSrv \in AnyServer
    BY <1>b DEF WorkerStates
  <2>3. Became(w, "send", worker[w].key, worker[w].newSrv, worker[w].newSrv)
    BY <1>ty, <2>1, <2>2, WorkerMoves DEF Places
  <2> QED
    BY <1>keep, <1>same, <2>1, <2>3 DEF Wiring
<1>16. CASE Wire(w)
  BY <1>9, <1>16
<1>17. CASE ~Wire(w)
  BY <1>1, <1>2, <1>3, <1>4, <1>5, <1>6, <1>7, <1>8, <1>10, <1>11, <1>12, <1>13, <1>14, <1>15,
     <1>17, AffinitySteps
<1> QED
  BY <1>16, <1>17

LEMMA WiredFinite ==
  ASSUME IsFiniteSet(callbacks)
  PROVE  \A b : IsFiniteSet(WiredTo(b)) /\ Cardinality(WiredTo(b)) \in Nat
<1>1. Present \in SUBSET Keys
  BY DEF Present
<1>2. IsFiniteSet(Present)
  BY <1>1, KeysAssumption, FS_Subset
<1>3. IsFiniteSet(InTable)
  BY <1>2, ImageBound DEF InTable
<1>4. IsFiniteSet(Live)
  BY <1>3, UnionBound DEF Live
<1>5. \A b : WiredTo(b) \in SUBSET Live
  BY DEF WiredTo, Wired
<1>6. \A b : IsFiniteSet(WiredTo(b))
  BY <1>4, <1>5, FS_Subset
<1> QED
  BY <1>6, FS_CardinalityType

LEMMA ConnWorker ==
  ASSUME Base, IsFiniteSet(callbacks), Affinity, SteadyInv, ConnInv,
         NEW w \in Procs, WorkerStep(w)
  PROVE  ConnInv'
<1>b. /\ inserted = Live \cup evicted /\ inserted \subseteq Sessions
      /\ \A v \in Procs : worker[v] \in WorkerStates /\ TablePlace(v) /\ ForItsClient(v)
      /\ \A v \in Procs : pc[v] \notin {"idle", "miss"} => sess[v] \in Sessions
      /\ binding \in [Sessions -> Bindings]
  BY BoundSessions
<1>ty. /\ entries \in [Keys -> Sessions \cup {NoSession}]
       /\ connCount \in [Servers -> Int]
       /\ Fresh /\ ReturnedInserted
  BY DEF Base, StageInv, TableInv, TypeOK, ForwardInv, ForwardTypeOK
<1>e. /\ callbacks' = callbacks /\ leaked' = leaked /\ evicted' \subseteq evicted
      /\ \A t \in Live : binding'[t].addr = binding[t].addr
      /\ Wire(w) \/ (connCount' = connCount /\ \A t \in Live : binding'[t] = binding[t])
  BY SteadyEffect
\* The set of wired sessions stays as it is.
<1>keep. ASSUME Wired' = Wired, connCount' = connCount, \A t \in Live : binding'[t] = binding[t],
                leaked = 0 => Unwired' \cap evicted' = {}
         PROVE  ConnInv'
  <2>1. \A t \in Wired' : binding'[t] = binding[t]
    BY <1>keep DEF Wired
  <2>2. \A b : WiredTo(b)' = WiredTo(b)
    BY <1>keep, <2>1 DEF WiredTo
  <2> QED
    BY <1>e, <1>keep, <2>1, <2>2 DEF ConnInv
<1>1. ASSUME ~Wire(w), entries' = entries, Unwired' = Unwired PROVE ConnInv'
  <2>1. Live' = Live
    BY <1>1, <1>e DEF Live, InTable, Present
  <2>2. Wired' = Wired
    BY <1>1, <2>1 DEF Wired
  <2> QED
    BY <1>1, <1>e, <1>keep, <2>2 DEF ConnInv
<1>2. ASSUME InsertStep(w), Vacant(key[w]), Unwired' = Unwired \cup {sess[w]} PROVE ConnInv'
  <2>1. /\ pc[w] = "insert" /\ key[w] \in Keys /\ sess[w] \in Sessions
        /\ worker[w].pc = "insert"
    BY <1>2, <1>b DEF InsertStep, WorkerAt, Insert, ForItsClient
  <2>2. /\ entries' = [entries EXCEPT ![key[w]] = sess[w]] /\ entries[key[w]] = NoSession
        /\ evicted' = evicted
    BY <1>2 DEF InsertStep, Insert, Vacant
  <2>3. sess[w] \notin Live /\ sess[w] \notin evicted
    BY <1>b, <1>ty, <2>1 DEF Fresh
  <2>4. InTable' = InTable \cup {sess[w]}
    BY <1>ty, <2>1, <2>2, SessionsAssumption DEF InTable, Present
  <2>5. Wired' = Wired
    BY <1>2, <1>e, <2>3, <2>4 DEF Wired, Live
  <2>6. ~Wire(w)
    BY <2>1 DEF Wire, WorkerAt
  <2> QED
    BY <1>2, <1>e, <1>keep, <2>2, <2>3, <2>5, <2>6 DEF ConnInv
<1>3. ASSUME Wire(w), Unwired' = Unwired \ {sess[w]} PROVE ConnInv'
  <2> DEFINE s == sess[w]
             x == worker[w].srv
  <2>1. /\ worker[w].pc = "wire" /\ UpdateServer(s, x, x) /\ entries' = entries
        /\ connCount' = [connCount EXCEPT ![x] = @ + 1] /\ evicted' = evicted
    BY <1>3 DEF Wire, WorkerAt, tableVars
  <2>2. Steady(w) /\ TablePlace(w)
    BY <1>b DEF SteadyInv
  <2>3. pc[w] = "created" /\ s \in Sessions /\ x = binding[s].addr /\ x \in Servers
    BY <1>b, <2>1, <2>2 DEF TablePlace, PlaceFor, Steady, Bound
  <2>4. /\ binding'[s] = [addr |-> x, onEvict |-> x]
        /\ \A t \in Sessions \ {s} : binding'[t] = binding[t]
    BY <1>b, <2>1, <2>3, BindingMoves DEF AnyServer
  <2>5. s \in Live \cup evicted /\ s \in Unwired
    BY <1>b, <1>ty, <2>1, <2>3 DEF ReturnedInserted, Unwired
  <2>6. Live' = Live
    BY <1>e, <2>1 DEF Live, InTable, Present
  <2>7. Wired' = Wired \cup (Live \cap {s}) /\ s \notin Wired
    BY <1>3, <2>5, <2>6 DEF Wired
  <2>8. \A t \in Wired' : binding'[t].onEvict = binding'[t].addr
    <3> TAKE t \in Wired'
    <3>1. CASE t = s
      BY <2>4, <3>1
    <3>2. CASE t # s
      <4>1. t \in Wired /\ t \in Sessions
        BY <1>b, <2>7, <3>2 DEF Wired
      <4> QED
        BY <2>4, <3>2, <4>1 DEF ConnInv
    <3> QED
      BY <3>1, <3>2
  <2>9. ASSUME leaked = 0
        PROVE  /\ Unwired' \cap evicted' = {}
               /\ \A b \in Servers : connCount'[b] = Cardinality(WiredTo(b)')
    <3>1. Unwired \cap evicted = {} /\ \A b \in Servers : connCount[b] = Cardinality(WiredTo(b))
      BY <2>9 DEF ConnInv
    <3>2. s \in Live
      BY <2>5, <3>1
    <3>3. Wired' = Wired \cup {s}
      BY <2>7, <3>2
    <3>4. ASSUME NEW b \in Servers PROVE connCount'[b] = Cardinality(WiredTo(b)')
      <4>1. Wired \subseteq Sessions /\ Wired \subseteq Live
        BY <1>b DEF Wired
      <4>2. CASE b = x
        <5>1. WiredTo(b)' = WiredTo(b) \cup {s} /\ s \notin WiredTo(b)
          BY <1>e, <2>3, <2>4, <2>7, <3>3, <4>1, <4>2 DEF WiredTo
        <5>2. Cardinality(WiredTo(b)') = Cardinality(WiredTo(b)) + 1
          BY <5>1, WiredFinite, FS_AddElement
        <5> QED
          BY <1>ty, <2>1, <3>1, <4>2, <5>2
      <4>3. CASE b # x
        <5>1. WiredTo(b)' = WiredTo(b)
          BY <1>e, <2>3, <2>4, <2>7, <3>3, <4>1, <4>3 DEF WiredTo
        <5> QED
          BY <1>ty, <2>1, <3>1, <4>3, <5>1
      <4> QED
        BY <4>2, <4>3
    <3> QED
      BY <1>3, <2>1, <3>1, <3>4
  <2> QED
    BY <1>e, <2>8, <2>9 DEF ConnInv
<1> QED
  BY <1>1, <1>2, <1>3, SteadyServed, UnwiredEffect

\* The reaper, the clock and the readers.
LEMMA SteadyOthers ==
  ASSUME Base, IsFiniteSet(callbacks), Affinity, SteadyInv, AssignedInv, ConnInv,
         \/ \E r \in Readers : ReaderStep(r)
         \/ \E s \in Sessions : EvictStep(s)
         \/ RemoveStep
         \/ ReaperStep
         \/ ClockStep
         \/ UNCHANGED vars
  PROVE  SteadyInv' /\ AssignedInv' /\ ConnInv'
<1>0. /\ UNCHANGED <<worker, binding, healthy>>
      /\ UNCHANGED <<pc, sess, inserted>>
  BY Zenon DEF ReaderStep, Receive, CapGet, CapLen, Enqueue, ReaderAt, EvictStep, RemoveStep,
     ReaperStep, ClockStep, fwdVars, RunCallback, SweepDelete, SweepStart, SweepLock, SweepCheck,
     SweepCount, SweepUnlock, NextShard, Tick, tableVars, procVars, vars
<1>1. SteadyInv'
  BY <1>0 DEF SteadyInv, Steady, Bound
<1>un. Unwired' = Unwired
  BY <1>0 DEF Unwired
<1>b. /\ callbacks \subseteq inserted /\ InTable \cap callbacks = {}
      /\ inserted \subseteq Sessions
  BY BoundSessions
<1>ty. /\ entries \in [Keys -> Sessions \cup {NoSession}]
       /\ connCount \in [Servers -> Int] /\ leaked \in Nat
       /\ assigned \in [Keys -> AnyServer]
       /\ CallbacksSwept /\ SweepFrozen
  BY DEF Base, StageInv, TableInv, TypeOK, ForwardInv, ForwardTypeOK
\* Nothing that matters here is touched.
<1>2. ASSUME Live' = Live, UNCHANGED <<connCount, leaked, evicted>> PROVE ConnInv'
  <2>1. Wired' = Wired /\ \A b : WiredTo(b)' = WiredTo(b)
    BY <1>0, <1>2, <1>un DEF Wired, WiredTo
  <2> QED
    BY <1>0, <1>2, <1>un, <2>1 DEF ConnInv
<1>3. ASSUME entries' = entries, assigned' = assigned PROVE AssignedInv'
  BY <1>0, <1>3 DEF AssignedInv
<1>4. ASSUME \/ \E r \in Readers : ReaderStep(r)
             \/ ReaperStep
             \/ ClockStep
             \/ UNCHANGED vars
      PROVE  AssignedInv' /\ ConnInv'
  <2>1. /\ entries' = entries /\ UNCHANGED <<connCount, leaked, evicted, assigned>>
        /\ callbacks' = callbacks \/ (rpc = "lock" /\ callbacks' = {})
    BY <1>4, Zenon DEF ReaderStep, Receive, CapGet, CapLen, Enqueue, ReaderAt, reaperVars,
       ReaperStep, ClockStep, fwdVars, SweepStart, SweepLock, SweepCheck,
       SweepCount, SweepUnlock, NextShard, Tick, tableVars, vars
  <2>2. callbacks' = callbacks
    BY <1>ty, <2>1 DEF CallbacksSwept
  <2>3. Live' = Live
    BY <2>1, <2>2 DEF Live, InTable, Present
  <2> QED
    BY <1>2, <1>3, <2>1, <2>3
<1>5. ASSUME RemoveStep PROVE AssignedInv' /\ ConnInv'
  <2>1. /\ entries' = [entries EXCEPT ![victim] = NoSession]
        /\ callbacks' = callbacks \cup {entries[victim]}
        /\ assigned' = [assigned EXCEPT ![victim] = NoServer]
        /\ UNCHANGED <<connCount, leaked, evicted>>
        /\ victim \in Keys /\ entries[victim] # NoSession
    BY <1>5, <1>ty DEF RemoveStep, SweepDelete, Collect, SweepFrozen
  <2>2. /\ entries'[victim] = NoSession /\ assigned'[victim] = NoServer
        /\ \A k \in Keys : k # victim => entries'[k] = entries[k] /\ assigned'[k] = assigned[k]
    BY <1>ty, <2>1
  <2>3. AssignedInv'
    BY <1>0, <2>2 DEF AssignedInv
  <2>4. InTable \subseteq InTable' \cup {entries[victim]} /\ InTable' \subseteq InTable
        /\ entries[victim] \in InTable
    BY <2>1, <2>2 DEF InTable, Present
  <2>5. Live' = Live
    BY <2>1, <2>4 DEF Live
  <2> QED
    BY <1>2, <2>1, <2>3, <2>5
<1>6. ASSUME NEW s \in Sessions, EvictStep(s) PROVE AssignedInv' /\ ConnInv'
  <2>1. /\ s \in callbacks /\ callbacks' = callbacks \ {s} /\ evicted' = evicted \cup {s}
        /\ connCount' = OnEvict(s) /\ entries' = entries /\ assigned' = assigned
        /\ leaked' = IF binding[s].onEvict = NoServer THEN leaked + 1 ELSE leaked
    BY <1>6 DEF EvictStep, RunCallback
  <2>2. AssignedInv'
    BY <1>3, <2>1
  <2>3. Live' = Live \ {s} /\ s \in Live
    BY <1>b, <2>1 DEF Live, InTable, Present
  <2>4. Wired' = Wired \ {s}
    BY <1>un, <2>3 DEF Wired
  <2>5. \A t \in Wired' : binding'[t].onEvict = binding'[t].addr
    BY <1>0, <2>4 DEF ConnInv
  <2>6. ASSUME leaked' = 0
        PROVE  /\ Unwired' \cap evicted' = {}
               /\ \A b \in Servers : connCount'[b] = Cardinality(WiredTo(b)')
    <3>1. leaked = 0 /\ binding[s].onEvict # NoServer
      BY <1>ty, <2>1, <2>6
    <3>2. s \notin Unwired
      BY <3>1 DEF Unwired, SteadyInv, Steady
    <3>3. s \in Wired
      BY <2>3, <3>2 DEF Wired
    <3> DEFINE x == binding[s].addr
    <3>4. binding[s].onEvict = x /\ x \in Servers
      BY <1>b, <2>1, <3>3 DEF ConnInv, SteadyInv
    <3>5. connCount' = [connCount EXCEPT ![x] = @ - 1]
      BY <2>1, <3>1, <3>4 DEF OnEvict
    <3>6. Unwired \cap evicted = {} /\ \A b \in Servers : connCount[b] = Cardinality(WiredTo(b))
      BY <3>1 DEF ConnInv
    <3>7. ASSUME NEW b \in Servers PROVE connCount'[b] = Cardinality(WiredTo(b)')
      <4>1. CASE b = x
        <5>1. WiredTo(b)' = WiredTo(b) \ {s} /\ s \in WiredTo(b)
          BY <1>0, <2>4, <3>3, <4>1 DEF WiredTo
        <5>2. Cardinality(WiredTo(b)') = Cardinality(WiredTo(b)) - 1
          BY <5>1, WiredFinite, FS_RemoveElement
        <5> QED
          BY <1>ty, <3>5, <3>6, <4>1, <5>2
      <4>2. CASE b # x
        <5>1. WiredTo(b)' = WiredTo(b)
          BY <1>0, <2>4, <4>2 DEF WiredTo
        <5> QED
          BY <1>ty, <3>5, <3>6, <4>2, <5>1
      <4> QED
        BY <4>1, <4>2
    <3> QED
      BY <1>un, <2>1, <3>2, <3>6, <3>7
  <2> QED
    BY <2>2, <2>5, <2>6 DEF ConnInv
<1> QED
  BY <1>1, <1>4, <1>5, <1>6

CallbacksFinite == IsFiniteSet(callbacks)

LEMMA CallbacksFiniteStep == CallbacksFinite /\ [Next]_vars => CallbacksFinite'
<1> SUFFICES ASSUME CallbacksFinite, [Next]_vars PROVE IsFiniteSet(callbacks')
  BY DEF CallbacksFinite
<1>1. \/ callbacks' = callbacks
      \/ callbacks' = {}
      \/ \E s : callbacks' = callbacks \cup {s}
      \/ \E s : callbacks' = callbacks \ {s}
  <2>1. ASSUME NEW r \in Readers, ReaderStep(r) PROVE callbacks' = callbacks
    BY <2>1, Zenon DEF ReaderStep, Receive, CapGet, CapLen, Enqueue, ReaderAt, tableVars
  <2>2. ASSUME NEW w \in Procs, WorkerStep(w) PROVE callbacks' = callbacks
    BY <2>2, Zenon DEF WorkerStep, Take, LookupStep, Weigh, PickNil, ChooseNew, ChooseEach,
       Rechoose, Alloc, InsertStep, CountStep, LoadAddr, Wire, Compare, TouchStep, Check, Reweigh,
       Transfer, Send, tableVars, reaperVars, Lookup, NewFn, NewFnNil, Insert, CountAdd, Touch,
       Release
  <2>3. ASSUME \/ ReaperStep
               \/ ClockStep
               \/ \E b \in Servers : SetHealthy(b)
               \/ UNCHANGED vars
        PROVE  callbacks' = callbacks \/ callbacks' = {}
    BY <2>3, Zenon DEF ReaperStep, ClockStep, SetHealthy, vars, tableVars, reaperVars, SweepStart,
       SweepLock, SweepCheck, SweepCount, SweepUnlock, NextShard, Tick
  <2>4. ASSUME RemoveStep PROVE \E s : callbacks' = callbacks \cup {s}
    BY <2>4, Zenon DEF RemoveStep, SweepDelete, Collect
  <2>5. ASSUME NEW s \in Sessions, EvictStep(s) PROVE callbacks' = callbacks \ {s}
    BY <2>5, Zenon DEF EvictStep, RunCallback
  <2> QED
    BY <2>1, <2>2, <2>3, <2>4, <2>5 DEF Next
<1> QED
  BY <1>1, FS_EmptySet, FS_AddElement, FS_RemoveElement DEF CallbacksFinite

LEMMA AffinityInvInit == Init => CallbacksFinite /\ AffinityInv
<1> SUFFICES ASSUME Init PROVE CallbacksFinite /\ AffinityInv
  OBVIOUS
<1>1. callbacks = {} /\ inserted = {} /\ evicted = {} /\ entries = [k \in Keys |-> NoSession]
  BY DEF Init, TableInit
<1>2. CallbacksFinite
  BY <1>1, FS_EmptySet DEF CallbacksFinite
<1>3. \A w \in Procs : worker[w].pc = "idle" /\ pc[w] = "idle"
  BY DEF Init, TableInit, IdleWorker
<1>4. SteadyInv
  <2>1. \A b \in Servers : healthy[b] = TRUE
    BY Zenon DEF Init
  <2> QED
    BY <1>1, <1>3, <2>1 DEF SteadyInv, Steady
<1>5. AssignedInv
  BY DEF Init, AssignedInv
<1>6. Wired = {} /\ Unwired = {}
  BY <1>1, <1>3 DEF Wired, Live, InTable, Present, Unwired
<1>7. \A b \in Servers : connCount[b] = Cardinality(WiredTo(b))
  <2>1. \A b : WiredTo(b) = {}
    BY <1>6 DEF WiredTo
  <2> QED
    BY <2>1, FS_EmptySet DEF Init
<1> QED
  BY <1>2, <1>4, <1>5, <1>6, <1>7 DEF AffinityInv, ConnInv

LEMMA AffinityInvStep == Base /\ CallbacksFinite /\ AffinityInv /\ [Next]_vars => AffinityInv'
<1> SUFFICES ASSUME Base, CallbacksFinite, AffinityInv, [Next]_vars, Affinity, flips' = 0
             PROVE  SteadyInv' /\ AssignedInv' /\ ConnInv'
  BY DEF AffinityInv
<1>0. flips \in Nat
  BY BoundsAssumption DEF Base, ForwardInv, ForwardTypeOK
<1>1. flips' = flips \/ (flips' = flips + 1 /\ \E b \in Servers : SetHealthy(b))
  BY Zenon DEF Next, vars, ReaderStep, Receive, CapGet, CapLen, Enqueue, ReaderAt, EvictStep,
     RemoveStep, ReaperStep, SetHealthy, ClockStep, fwdVars, WorkerStep, Take, LookupStep, Weigh,
     PickNil, ChooseNew, ChooseEach, Rechoose, Alloc, InsertStep, CountStep, LoadAddr, Wire,
     Compare, TouchStep, Check, Reweigh, Transfer, Send, WorkerAt
<1>2. flips = 0
  BY <1>0, <1>1
<1>3. \A b \in Servers : ~SetHealthy(b)
  BY <1>2 DEF SetHealthy
<1>4. SteadyInv /\ AssignedInv /\ ConnInv /\ IsFiniteSet(callbacks)
  BY <1>2 DEF AffinityInv, CallbacksFinite
<1>5. ASSUME NEW w \in Procs, WorkerStep(w) PROVE SteadyInv' /\ AssignedInv' /\ ConnInv'
  BY <1>2, <1>4, <1>5, SteadyWorker, AssignedWorker, ConnWorker
<1> QED
  BY <1>3, <1>4, <1>5, SteadyOthers DEF Next

LEMMA AffinityInvKept == Spec => [](Base /\ CallbacksFinite /\ AffinityInv)
  BY BaseKept, AffinityInvInit, CallbacksFiniteStep, AffinityInvStep, PTL DEF Spec

\* leastConn's premise (backend.go:198) in affinity mode: as long as no server has
\* changed its health and no session was evicted before it was wired, connCount
\* at rest is the number of table entries bound to the server.
THEOREM CountsReflectSessions == Spec => []ConnCountUntilFailover
<1>1. Base /\ CallbacksFinite /\ AffinityInv => ConnCountUntilFailover
  <2> SUFFICES ASSUME Base, CallbacksFinite, AffinityInv, Affinity, flips = 0, leaked = 0,
                      rpc = "idle", \A w \in Procs : worker[w].pc = "idle",
                      NEW b \in Servers
               PROVE  connCount[b] = Cardinality({k \in Present : binding[entries[k]].addr = b})
    BY DEF ConnCountUntilFailover, ConnCountReflectsSessions
  <2>1. connCount[b] = Cardinality(WiredTo(b))
    BY DEF AffinityInv, ConnInv
  <2>2. callbacks = {}
    BY DEF Base, StageInv, CallbacksSwept
  <2>3. Unwired = {}
    BY DEF Unwired
  <2>4. WiredTo(b) = {s \in InTable : binding[s].addr = b}
    BY <2>2, <2>3 DEF WiredTo, Wired, Live
  <2> DEFINE K == {k \in Present : binding[entries[k]].addr = b}
             f == [k \in K |-> entries[k]]
  <2>5. \A k, l \in Present : entries[k] = entries[l] => k = l
    BY DEF Base, StageInv, OneStage
  <2>6. f \in Bijection(K, WiredTo(b))
    BY <2>4, <2>5 DEF Bijection, Injection, IsInjective, Surjection, InTable, Present
  <2>7. K \in SUBSET Keys
    BY DEF Present
  <2>8. IsFiniteSet(K)
    BY <2>7, KeysAssumption, FS_Subset
  <2> HIDE DEF K, f
  <2>9. Cardinality(WiredTo(b)) = Cardinality(K)
    BY <2>6, <2>8, FS_Bijection DEF ExistsBijection
  <2> QED
    BY <2>1, <2>9 DEF K
<1> QED
  BY <1>1, AffinityInvKept, PTL

\* Session affinity (frontend.go:408): until a server's health changes, whichever
\* workers handle a client's packets, they go where its session is bound.
THEOREM AffinityKept == Spec => Sticky
<1>1. Base /\ AffinityInv /\ [Next]_vars =>
        [\A w \in Procs :
            /\ Affinity /\ flips = 0
            /\ worker[w].pc = "send" /\ worker'[w].pc = "idle"
            /\ sess[w] \notin Removed
            => assigned[worker[w].key] \in {NoServer, worker[w].srv}]_vars
  <2> SUFFICES ASSUME Base, AffinityInv, Next, NEW w \in Procs, Affinity, flips = 0,
                      worker[w].pc = "send", worker'[w].pc = "idle", sess[w] \notin Removed
               PROVE  assigned[worker[w].key] \in {NoServer, worker[w].srv}
    OBVIOUS
  <2>1. SteadyInv /\ AssignedInv
    BY DEF AffinityInv
  <2>2. PICK v \in Procs : WorkerStep(v)
    BY Zenon DEF Next, ReaderStep, Receive, CapGet, CapLen, Enqueue, ReaderAt, EvictStep,
       RemoveStep, ReaperStep, SetHealthy, ClockStep, fwdVars
  <2>3. TypeOK /\ InHand /\ ForwardInv
    BY DEF Base, StageInv, TableInv
  <2>4. v = w
    BY <2>2, <2>3, WorkerCarries
  <2>5. Send(w)
    <3>1. worker[w].pc = "send" => ~Take(w) /\ ~LookupStep(w) /\ ~Weigh(w) /\ ~PickNil(w)
             /\ ~InsertStep(w) /\ ~CountStep(w) /\ ~LoadAddr(w) /\ ~Wire(w)
             /\ ~TouchStep(w) /\ ~Check(w)
             /\ \A b \in Servers, s \in Sessions : ~ChooseNew(w, b, s)
      BY DEF Take, LookupStep, Weigh, PickNil, InsertStep, CountStep, LoadAddr, Wire, TouchStep,
         Check, ChooseNew, WorkerAt
    <3> QED
      BY <2>1, <2>2, <2>4, <3>1, SteadySteps
  <2> QED
    BY <2>1, <2>2, <2>4, <2>5, AssignedWorker
<1> QED
  BY <1>1, AffinityInvKept, PTL DEF Spec, Sticky

-----------------------------------------------------------------------------
(* Sums over the servers                                                   *)

LEMMA LeastNumber ==
  ASSUME NEW T \in SUBSET Nat, T # {}
  PROVE  \E n \in T : \A m \in T : n <= m
<1> DEFINE R == OpToRel(<, Nat)
<1>1. IsWellFoundedOn(R, Nat)
  BY NatLessThanWellFounded
<1>2. \A x, y \in Nat : x < y => <<x, y>> \in R
  BY DEF OpToRel
<1> HIDE DEF R
<1>3. PICK n \in T : \A y \in T : ~(<<y, n>> \in R)
  BY <1>1, WFMin
<1>4. \A m \in T : ~(m < n)
  BY <1>2, <1>3
<1> QED
  BY <1>4

\* The element a fold takes out of a set, and what is left.
Some(s) == CHOOSE x \in s : TRUE
Less(s) == s \ {Some(s)}

LEMMA OneTaken ==
  ASSUME NEW S, IsFiniteSet(S), NEW s \in SUBSET S, s # {}
  PROVE  /\ Some(s) \in s /\ Less(s) \in SUBSET S
         /\ Cardinality(s) \in Nat /\ Cardinality(Less(s)) \in Nat
         /\ Cardinality(Less(s)) = Cardinality(s) - 1
<1>1. Some(s) \in s
  BY DEF Some
<1>2. IsFiniteSet(s) /\ IsFiniteSet(Less(s))
  BY FS_Subset DEF Less
<1> QED
  BY <1>1, <1>2, FS_RemoveElement, FS_CardinalityType DEF Less

\* What holds of the empty set, and of a set whenever it holds of the set without the
\* element taken, holds of every subset.
LEMMA OneByOne ==
  ASSUME NEW S, IsFiniteSet(S), NEW Good, {} \in Good,
         \A s \in SUBSET S : s # {} /\ Less(s) \in Good => s \in Good
  PROVE  SUBSET S \subseteq Good
<1> SUFFICES ASSUME NEW u \in SUBSET S, u \notin Good PROVE FALSE
  OBVIOUS
<1> DEFINE T == {n \in Nat : \E s \in SUBSET S : s \notin Good /\ Cardinality(s) = n}
<1>1. Cardinality(u) \in T
  BY FS_Subset, FS_CardinalityType
<1>2. PICK n \in T : \A m \in T : n <= m
  BY <1>1, LeastNumber
<1>3. PICK s \in SUBSET S : s \notin Good /\ Cardinality(s) = n
  BY <1>2
<1>4. s # {} /\ Less(s) \notin Good
  BY <1>3
<1>5. Less(s) \in SUBSET S /\ Cardinality(Less(s)) \in Nat /\ Cardinality(Less(s)) = n - 1 /\ n \in Nat
  BY <1>3, <1>4, OneTaken
<1>6. Cardinality(Less(s)) \in T
  BY <1>4, <1>5
<1>7. n <= Cardinality(Less(s))
  BY <1>2, <1>6
<1> QED
  BY <1>5, <1>7

\* g sums up f over the subsets of S.
IsSum(g, f, S) ==
  g = [s \in SUBSET S |-> IF s = {} THEN 0 ELSE f[Some(s)] + g[Less(s)]]

Sum(f, S) == MapThenSumSet(LAMBDA b : f[b], S)

LEMMA SumExists ==
  ASSUME NEW S, IsFiniteSet(S), NEW f
  PROVE  \E g : IsSum(g, f, S)
<1> DEFINE UpTo(g, n) ==
             \A s \in SUBSET S : Cardinality(s) <= n =>
                g[s] = IF s = {} THEN 0 ELSE f[Some(s)] + g[Less(s)]
           Fn(g) == g = [s \in SUBSET S |-> g[s]]
           T == {n \in Nat : ~ \E g : Fn(g) /\ UpTo(g, n)}
<1>c. \A s \in SUBSET S : Cardinality(s) \in Nat /\ (Cardinality(s) = 0 <=> s = {})
  BY FS_Subset, FS_CardinalityType, FS_EmptySet
<1>1. ASSUME T # {} PROVE FALSE
  <2>1. PICK n \in T : \A m \in T : n <= m
    BY <1>1, LeastNumber
  <2>2. n # 0
    <3> DEFINE g == [s \in SUBSET S |-> 0]
    <3>1. Fn(g)
      OBVIOUS
    <3>2. UpTo(g, 0)
      BY <1>c
    <3> QED
      BY <3>1, <3>2
  <2>a. n \in Nat
    OBVIOUS
  <2>3. n - 1 \in Nat /\ n - 1 \notin T
    <3> HIDE DEF T
    <3>1. n - 1 \in Nat /\ ~(n <= n - 1)
      BY <2>2, <2>a
    <3> QED
      BY <2>1, <3>1
  <2>4. PICK g : Fn(g) /\ UpTo(g, n - 1)
    BY <2>3
  <2> DEFINE h == [s \in SUBSET S |-> IF Cardinality(s) = n THEN f[Some(s)] + g[Less(s)] ELSE g[s]]
  <2>5. Fn(h)
    OBVIOUS
  <2>6. ASSUME NEW s \in SUBSET S, Cardinality(s) <= n
        PROVE  h[s] = IF s = {} THEN 0 ELSE f[Some(s)] + h[Less(s)]
    <3>1. CASE s = {}
      <4>1. Cardinality(s) = 0
        BY <3>1, <1>c
      <4>2. g[s] = 0
        <5>1. Cardinality(s) <= n - 1
          BY <2>3, <4>1
        <5> QED
          BY <2>4, <3>1, <5>1
      <4> QED
        BY <2>2, <3>1, <4>1, <4>2
    <3>2. CASE s # {}
      <4>1. Less(s) \in SUBSET S /\ Cardinality(Less(s)) = Cardinality(s) - 1 /\ Cardinality(s) \in Nat
        BY <3>2, OneTaken
      <4>2. Cardinality(Less(s)) # n /\ n \in Nat
        BY <2>6, <4>1
      <4>3. h[Less(s)] = g[Less(s)]
        BY <4>1, <4>2
      <4>4. CASE Cardinality(s) = n
        BY <3>2, <4>3, <4>4
      <4>5. CASE Cardinality(s) # n
        <5>1. Cardinality(s) <= n - 1
          BY <2>6, <4>1, <4>2, <4>5
        <5>2. g[s] = f[Some(s)] + g[Less(s)]
          BY <2>4, <3>2, <5>1
        <5> QED
          BY <3>2, <4>3, <4>5, <5>2
      <4> QED
        BY <4>4, <4>5
    <3> QED
      BY <3>1, <3>2
  <2>7. UpTo(h, n)
    BY <2>6
  <2> HIDE DEF h
  <2> QED
    BY <2>1, <2>5, <2>7
<1>2. Cardinality(S) \in Nat /\ Cardinality(S) \notin T
  BY <1>1, FS_CardinalityType
<1>3. PICK g : Fn(g) /\ UpTo(g, Cardinality(S))
  BY <1>2
<1>4. \A s \in SUBSET S : Cardinality(s) <= Cardinality(S)
  BY FS_Subset
<1>5. \A s \in SUBSET S : g[s] = IF s = {} THEN 0 ELSE f[Some(s)] + g[Less(s)]
  BY <1>3, <1>4
<1>6. g = [s \in SUBSET S |-> g[s]]
  BY <1>3
<1>7. g = [s \in SUBSET S |-> IF s = {} THEN 0 ELSE f[Some(s)] + g[Less(s)]]
  BY <1>5, <1>6
<1> QED
  BY <1>7 DEF IsSum

LEMMA SumEquation ==
  ASSUME NEW S, IsFiniteSet(S), NEW f
  PROVE  \E g : /\ Sum(f, S) = g[S]
                /\ g[{}] = 0
                /\ \A s \in SUBSET S : s # {} => g[s] = f[Some(s)] + g[Less(s)]
<1>1. Sum(f, S) = (CHOOSE g : IsSum(g, f, S))[S]
  BY Zenon DEF Sum, MapThenSumSet, MapThenFoldSet, IsSum, Some, Less
<1>2. PICK g : IsSum(g, f, S) /\ Sum(f, S) = g[S]
  BY <1>1, SumExists, Zenon
<1>3. \A s \in SUBSET S : g[s] = IF s = {} THEN 0 ELSE f[Some(s)] + g[Less(s)]
  BY <1>2 DEF IsSum
<1>4. g[{}] = 0
  BY <1>3
<1>5. \A s \in SUBSET S : s # {} => g[s] = f[Some(s)] + g[Less(s)]
  BY <1>3
<1> QED
  BY <1>2, <1>4, <1>5

LEMMA SumOfZeros ==
  ASSUME NEW S, IsFiniteSet(S), NEW f, \A b \in S : f[b] = 0
  PROVE  Sum(f, S) = 0
<1>1. PICK g : /\ Sum(f, S) = g[S]
               /\ g[{}] = 0
               /\ \A s \in SUBSET S : s # {} => g[s] = f[Some(s)] + g[Less(s)]
  BY SumEquation
<1> DEFINE Good == {s \in SUBSET S : g[s] = 0}
<1>2. {} \in Good
  BY <1>1
<1>3. ASSUME NEW s \in SUBSET S, s # {}, Less(s) \in Good PROVE s \in Good
  <2>1. Some(s) \in S
    BY <1>3, OneTaken
  <2>2. f[Some(s)] = 0 /\ g[Less(s)] = 0
    BY <1>3, <2>1
  <2>3. g[s] = f[Some(s)] + g[Less(s)]
    BY <1>1, <1>3
  <2> QED
    BY <2>2, <2>3
<1>4. SUBSET S \subseteq Good
  <2> HIDE DEF Good
  <2> QED
    BY <1>2, <1>3, OneByOne
<1> QED
  BY <1>1, <1>4

LEMMA SumUpdate ==
  ASSUME NEW S, IsFiniteSet(S), NEW f \in [S -> Int], NEW b \in S, NEW d \in Int,
         NEW h \in [S -> Int], h[b] = f[b] + d, \A c \in S \ {b} : h[c] = f[c]
  PROVE  Sum(f, S) \in Int /\ Sum(h, S) = Sum(f, S) + d
<1>1. PICK g : /\ Sum(f, S) = g[S]
               /\ g[{}] = 0
               /\ \A s \in SUBSET S : s # {} => g[s] = f[Some(s)] + g[Less(s)]
  BY SumEquation
<1>2. PICK k : /\ Sum(h, S) = k[S]
               /\ k[{}] = 0
               /\ \A s \in SUBSET S : s # {} => k[s] = h[Some(s)] + k[Less(s)]
  BY SumEquation
<1> DEFINE Gap(s) == IF b \in s THEN d ELSE 0
           Good == {s \in SUBSET S : g[s] \in Int /\ k[s] = g[s] + Gap(s)}
<1>3. {} \in Good
  BY <1>1, <1>2
<1>4. ASSUME NEW s \in SUBSET S, s # {}, Less(s) \in Good PROVE s \in Good
  <2>1. Some(s) \in s /\ Some(s) \in S
    BY <1>4, OneTaken
  <2>2. g[Less(s)] \in Int /\ k[Less(s)] = g[Less(s)] + Gap(Less(s))
    BY <1>4
  <2>3. g[s] = f[Some(s)] + g[Less(s)] /\ k[s] = h[Some(s)] + k[Less(s)]
    BY <1>1, <1>2, <1>4
  <2>4. f[Some(s)] \in Int /\ h[Some(s)] \in Int
    BY <2>1
  <2>5. CASE Some(s) = b
    <3>1. Gap(s) = d /\ Gap(Less(s)) = 0
      BY <2>1, <2>5 DEF Less
    <3> HIDE DEF Gap
    <3>2. g[s] \in Int /\ k[s] = g[s] + d
      BY <2>2, <2>3, <2>4, <2>5, <3>1
    <3> QED
      BY <3>1, <3>2
  <2>6. CASE Some(s) # b
    <3>1. Gap(s) = Gap(Less(s)) /\ Gap(s) \in Int
      BY <2>6 DEF Less
    <3>2. h[Some(s)] = f[Some(s)]
      BY <2>1, <2>6
    <3> HIDE DEF Gap
    <3>3. g[s] \in Int /\ k[s] = g[s] + Gap(s)
      BY <2>2, <2>3, <2>4, <3>1, <3>2
    <3> QED
      BY <3>3
  <2> QED
    BY <2>5, <2>6
<1>5. SUBSET S \subseteq Good
  <2> HIDE DEF Good
  <2> QED
    BY <1>3, <1>4, OneByOne
<1>6. g[S] \in Int /\ k[S] = g[S] + d
  BY <1>5
<1> QED
  BY <1>1, <1>2, <1>6

-----------------------------------------------------------------------------
(* The sum of the connection counts                                        *)

\* What a worker's step in affinity mode does to the counts, the callbacks and the
\* history.
LEMMA CountEffect ==
  ASSUME Base, Affinity, ServedInv, NEW w \in Procs, WorkerStep(w)
  PROVE  /\ callbacks' = callbacks /\ leaked' = leaked
         /\ \/ Wire(w) /\ connCount' = [connCount EXCEPT ![worker[w].srv] = @ + 1]
            \/ /\ ~Wire(w) /\ Transfer(w)
               /\ connCount' = Moved(worker[w].srv, worker[w].newSrv)
            \/ ~Wire(w) /\ ~Transfer(w) /\ connCount' = connCount
         /\ \E s : /\ evicted' = evicted \ {s}
                   /\ s \notin Unwired
<1> DEFINE Quiet == callbacks' = callbacks /\ leaked' = leaked /\ evicted' = evicted
<1>n. NoSession \notin evicted /\ \A v \in Procs : pc[v] \notin {"idle", "miss"} => sess[v] # NoSession
  BY SessionsAssumption, BoundSessions DEF Base, StageInv, TableInv, TypeOK
<1>u. NoSession \notin Unwired /\ evicted \ {NoSession} = evicted
  <2>1. \A v \in Procs : worker[v].pc \in {"count", "wireload", "wire"} => pc[v] \notin {"idle", "miss"}
    BY BoundSessions DEF TablePlace, PlaceFor
  <2> QED
    BY <1>n, <2>1 DEF Unwired
<1>p. ASSUME NEW l, WorkerAt(w, l), l # "wire" PROVE ~Wire(w)
  BY <1>p DEF WorkerAt, Wire
<1>q. ASSUME NEW l, WorkerAt(w, l), l # "transfer" PROVE ~Transfer(w)
  BY <1>q DEF WorkerAt, Transfer
<1>1. ASSUME Take(w) \/ LookupStep(w) \/ Weigh(w) \/ PickNil(w) \/ CountStep(w) \/ LoadAddr(w)
             \/ TouchStep(w) \/ Check(w) \/ Send(w) \/ InsertStep(w) \/ Reweigh(w)
             \/ \E x \in Servers : Rechoose(w, x)
      PROVE  Quiet /\ connCount' = connCount /\ ~Wire(w) /\ ~Transfer(w)
  <2>1. Quiet /\ connCount' = connCount
    BY <1>1, Zenon DEF Take, LookupStep, Weigh, PickNil, CountStep, LoadAddr, TouchStep, Check,
       WorkerAt, tableVars, Lookup, NewFnNil, CountAdd, Touch, reaperVars, Send, Release, InsertStep,
       Insert, Reweigh, Rechoose
  <2>2. worker[w].pc \notin {"wire", "transfer"}
    BY <1>1 DEF Take, LookupStep, Weigh, PickNil, CountStep, LoadAddr, TouchStep, Check,
       WorkerAt, Send, InsertStep, Reweigh, Rechoose
  <2>3. ~Wire(w) /\ ~Transfer(w)
    BY <2>2 DEF Wire, Transfer, WorkerAt
  <2> QED
    BY <2>1, <2>3
<1>2. ASSUME NEW x \in Servers, NEW s \in Sessions, ChooseNew(w, x, s)
      PROVE  /\ callbacks' = callbacks /\ leaked' = leaked /\ connCount' = connCount
             /\ ~Wire(w) /\ ~Transfer(w)
             /\ evicted' = evicted \ {s} /\ s \notin Unwired
  <2>1. /\ callbacks' = callbacks /\ leaked' = leaked /\ connCount' = connCount
        /\ evicted' = evicted \ {s} /\ s \in Free /\ WorkerAt(w, "choose")
    BY <1>2, Zenon DEF ChooseNew, WorkerAt, NewFn
  <2>2. s \notin Unwired
    BY <2>1, SessionsAssumption DEF Free, Held, Unwired
  <2> QED
    BY <1>p, <1>q, <2>1, <2>2
<1>3. ASSUME Wire(w) PROVE Quiet /\ connCount' = [connCount EXCEPT ![worker[w].srv] = @ + 1]
  BY <1>3, Zenon DEF Wire, WorkerAt, tableVars
<1>4. ASSUME Transfer(w) PROVE Quiet /\ connCount' = Moved(worker[w].srv, worker[w].newSrv) /\ ~Wire(w)
  BY <1>4, <1>p, Zenon DEF Transfer, WorkerAt, tableVars
<1>5. Quiet => \E s : evicted' = evicted \ {s} /\ s \notin Unwired
  BY <1>u
<1>6. CASE Wire(w)
  BY <1>3, <1>5, <1>6
<1>7. CASE Transfer(w)
  BY <1>4, <1>5, <1>7
<1>8. CASE \E x \in Servers, s \in Sessions : ChooseNew(w, x, s)
  BY <1>2, <1>8
<1>9. CASE Take(w) \/ LookupStep(w) \/ Weigh(w) \/ PickNil(w) \/ CountStep(w) \/ LoadAddr(w)
             \/ TouchStep(w) \/ Check(w) \/ Send(w) \/ InsertStep(w) \/ Reweigh(w)
             \/ \E x \in Servers : Rechoose(w, x)
  BY <1>1, <1>5, <1>9
<1> QED
  BY <1>6, <1>7, <1>8, <1>9, AffinitySteps

\* g is f with one more at c.
OneMore(f, g, c) ==
    /\ f \in [Servers -> Int] /\ g \in [Servers -> Int] /\ c \in Servers
    /\ g[c] = f[c] + 1 /\ \A x \in Servers \ {c} : g[x] = f[x]
SumOneMore(f, g) == Sum(f, Servers) \in Int /\ Sum(g, Servers) = Sum(f, Servers) + 1

LEMMA OneMoreInSum ==
  ASSUME NEW f, NEW g, NEW c, OneMore(f, g, c)
  PROVE  SumOneMore(f, g)
<1>1. /\ f \in [Servers -> Int] /\ g \in [Servers -> Int] /\ c \in Servers
      /\ g[c] = f[c] + 1 /\ \A x \in Servers \ {c} : g[x] = f[x]
  BY DEF OneMore
<1>2. Sum(f, Servers) \in Int /\ Sum(g, Servers) = Sum(f, Servers) + 1
  BY <1>1, ServersAssumption, SumUpdate
<1> QED
  BY <1>2 DEF SumOneMore

\* A Wire adds one to the sum, an eviction takes one away, a Transfer leaves it.
LEMMA SumsMove ==
  ASSUME NEW f \in [Servers -> Int], NEW a \in Servers, NEW b \in Servers
  PROVE  /\ Sum(f, Servers) \in Int
         /\ Sum([f EXCEPT ![a] = @ + 1], Servers) = Sum(f, Servers) + 1
         /\ Sum([f EXCEPT ![a] = @ - 1], Servers) = Sum(f, Servers) - 1
         /\ Sum([[f EXCEPT ![a] = @ - 1] EXCEPT ![b] = @ + 1], Servers) = Sum(f, Servers)
<1> DEFINE up == [f EXCEPT ![a] = @ + 1]
           down == [f EXCEPT ![a] = @ - 1]
           moved == [down EXCEPT ![b] = @ + 1]
<1>1. up \in [Servers -> Int] /\ down \in [Servers -> Int] /\ moved \in [Servers -> Int]
  BY CountsMove
<1>2. OneMore(f, up, a)
  BY <1>1 DEF OneMore
<1>3. OneMore(down, f, a)
  BY <1>1 DEF OneMore
<1>4. OneMore(down, moved, b)
  <2> HIDE DEF down
  <2> QED
    BY <1>1 DEF OneMore
<1> HIDE DEF up, down, moved
<1>5. SumOneMore(f, up) /\ SumOneMore(down, f) /\ SumOneMore(down, moved)
  BY <1>2, <1>3, <1>4, OneMoreInSum
<1>6. /\ Sum(f, Servers) \in Int /\ Sum(up, Servers) = Sum(f, Servers) + 1
      /\ Sum(down, Servers) = Sum(f, Servers) - 1 /\ Sum(moved, Servers) = Sum(f, Servers)
  BY <1>5 DEF SumOneMore
<1> QED
  BY <1>6 DEF up, down, moved

\* Sessions counted on some server, and sessions evicted before they were wired.
Early == Unwired \cap evicted

LEMMA CountedFinite ==
  ASSUME IsFiniteSet(callbacks)
  PROVE  /\ IsFiniteSet(Wired) /\ Cardinality(Wired) \in Nat
         /\ IsFiniteSet(Early) /\ Cardinality(Early) \in Nat
<1>1. Present \in SUBSET Keys
  BY DEF Present
<1>2. IsFiniteSet(Present)
  BY <1>1, KeysAssumption, FS_Subset
<1>3. IsFiniteSet(InTable)
  BY <1>2, ImageBound DEF InTable
<1>4. IsFiniteSet(Live)
  BY <1>3, UnionBound DEF Live
<1>5. IsFiniteSet(Wired)
  BY <1>4, FS_Subset DEF Wired
<1> DEFINE W == {v \in Procs : worker[v].pc \in {"count", "wireload", "wire"}}
<1>6. IsFiniteSet(W)
  BY ProcsAssumption, FS_Subset
<1>7. IsFiniteSet(Unwired)
  BY <1>6, ImageBound DEF Unwired
<1>8. IsFiniteSet(Early)
  BY <1>7, FS_Subset DEF Early
<1> QED
  BY <1>5, <1>8, FS_CardinalityType

Total == Sum(connCount, Servers)
Due == Cardinality(Wired) + leaked - Cardinality(Early)

\* The sum of the counts is what it should be, and a wired session has a callback.
TotalInv == Total = Due /\ \A s \in Wired : Callable(s)

LEMMA TotalWorker ==
  ASSUME Base, IsFiniteSet(callbacks), Affinity, ServedInv, TotalInv,
         NEW w \in Procs, WorkerStep(w)
  PROVE  TotalInv'
<1>b. /\ inserted = Live \cup evicted /\ evicted \cap Live = {} /\ inserted \subseteq Sessions
      /\ binding \in [Sessions -> Bindings]
      /\ \A v \in Procs : worker[v] \in WorkerStates /\ TablePlace(v) /\ ForItsClient(v)
      /\ \A v \in Procs : pc[v] \notin {"idle", "miss"} => sess[v] \in Sessions
  BY BoundSessions
<1>ty. /\ entries \in [Keys -> Sessions \cup {NoSession}]
       /\ connCount \in [Servers -> Int] /\ leaked \in Nat
       /\ Fresh /\ ReturnedInserted
  BY DEF Base, StageInv, TableInv, TypeOK, ForwardInv, ForwardTypeOK
<1>f. /\ IsFiniteSet(Wired) /\ Cardinality(Wired) \in Nat
      /\ IsFiniteSet(Early) /\ Cardinality(Early) \in Nat
  BY CountedFinite
<1>e. /\ callbacks' = callbacks /\ leaked' = leaked
      /\ \/ Wire(w) /\ connCount' = [connCount EXCEPT ![worker[w].srv] = @ + 1]
         \/ /\ ~Wire(w) /\ Transfer(w)
            /\ connCount' = Moved(worker[w].srv, worker[w].newSrv)
         \/ ~Wire(w) /\ ~Transfer(w) /\ connCount' = connCount
  BY CountEffect
<1>s. Served(w) /\ TablePlace(w)
  BY <1>b DEF ServedInv
<1>c. \A t \in Live : Callable(t) => Callable(t)'
  BY ServedWorker
<1>d. /\ Total' = Sum(connCount', Servers)
      /\ Due' = Cardinality(Wired') + leaked' - Cardinality(Early')
  BY DEF Total, Due
\* Anything but a Wire leaves the sum as it is.
<1>sum. ~Wire(w) => Total' = Total
  <2>1. CASE connCount' = connCount
    BY <1>d, <2>1 DEF Total
  <2>2. CASE Transfer(w) /\ connCount' = Moved(worker[w].srv, worker[w].newSrv)
    <3>1. worker[w].srv \in Servers /\ worker[w].newSrv \in Servers
      BY <1>s, <2>2 DEF Transfer, WorkerAt, Served
    <3> QED
      BY <1>d, <1>ty, <2>2, <3>1, SumsMove DEF Moved, Total
  <2> QED
    BY <1>e, <2>1, <2>2
<1>keep. ASSUME ~Wire(w), Wired' = Wired, Early' = Early PROVE TotalInv'
  <2>1. \A t \in Wired' : Callable(t)'
    BY <1>c, <1>keep DEF TotalInv, Wired
  <2>2. Total' = Due'
    BY <1>d, <1>e, <1>keep, <1>sum DEF TotalInv, Due
  <2> QED
    BY <2>1, <2>2 DEF TotalInv
<1>1. ASSUME ~Wire(w), entries' = entries, Unwired' = Unwired PROVE TotalInv'
  <2>1. Live' = Live
    BY <1>1, <1>e DEF Live, InTable, Present
  <2>2. Wired' = Wired
    BY <1>1, <2>1 DEF Wired
  <2>3. PICK s : evicted' = evicted \ {s} /\ s \notin Unwired
    BY CountEffect
  <2>4. Early' = Early
    BY <1>1, <2>3 DEF Early
  <2> QED
    BY <1>1, <1>keep, <2>2, <2>4
<1>2. ASSUME InsertStep(w), Vacant(key[w]), Unwired' = Unwired \cup {sess[w]} PROVE TotalInv'
  <2>1. /\ pc[w] = "insert" /\ key[w] \in Keys /\ sess[w] \in Sessions
        /\ worker[w].pc = "insert"
    BY <1>2, <1>b DEF InsertStep, WorkerAt, Insert, ForItsClient
  <2>2. /\ entries' = [entries EXCEPT ![key[w]] = sess[w]] /\ entries[key[w]] = NoSession
        /\ evicted' = evicted
    BY <1>2 DEF InsertStep, Insert, Vacant
  <2>3. sess[w] \notin Live /\ sess[w] \notin evicted
    BY <1>b, <1>ty, <2>1 DEF Fresh
  <2>4. InTable' = InTable \cup {sess[w]}
    BY <1>ty, <2>1, <2>2, SessionsAssumption DEF InTable, Present
  <2>5. Wired' = Wired
    BY <1>2, <1>e, <2>3, <2>4 DEF Wired, Live
  <2>6. ~Wire(w)
    BY <2>1 DEF Wire, WorkerAt
  <2>7. Early' = Early
    BY <1>2, <2>2, <2>3 DEF Early
  <2> QED
    BY <1>keep, <2>5, <2>6, <2>7
<1>3. ASSUME Wire(w), Unwired' = Unwired \ {sess[w]} PROVE TotalInv'
  <2> DEFINE s == sess[w]
             x == worker[w].srv
  <2>1. /\ worker[w].pc = "wire" /\ UpdateServer(s, x, x) /\ entries' = entries
        /\ connCount' = [connCount EXCEPT ![x] = @ + 1] /\ evicted' = evicted
    BY <1>3 DEF Wire, WorkerAt, tableVars
  <2>3. pc[w] = "created" /\ s \in Sessions /\ x \in Servers
    BY <1>b, <1>s, <2>1 DEF TablePlace, PlaceFor, Served
  <2>4. binding'[s] = [addr |-> x, onEvict |-> x]
    BY <1>b, <2>1, <2>3, BindingMoves DEF AnyServer
  <2>5. s \in Live \cup evicted /\ s \in Unwired
    BY <1>b, <1>ty, <2>1, <2>3 DEF ReturnedInserted, Unwired
  <2>6. Live' = Live
    BY <1>e, <2>1 DEF Live, InTable, Present
  <2>7. Total' = Total + 1 /\ Total \in Int
    BY <1>d, <1>ty, <2>1, <2>3, SumsMove DEF Total
  <2>8. \A t \in Wired' : Callable(t)'
    <3> SUFFICES ASSUME NEW t \in Wired' PROVE Callable(t)'
      OBVIOUS
    <3>1. CASE t = s
      BY <2>3, <2>4, <3>1, NoServerAssumption DEF Callable
    <3>2. CASE t # s
      <4>1. t \in Wired /\ t \in Live
        BY <1>3, <2>6, <3>2 DEF Wired
      <4> QED
        BY <1>c, <4>1 DEF TotalInv
    <3> QED
      BY <3>1, <3>2
  <2>9. Due' = Due + 1
    <3>1. CASE s \in Live
      <4>1. Wired' = Wired \cup {s} /\ s \notin Wired /\ Early' = Early
        BY <1>3, <1>b, <2>1, <2>5, <2>6, <3>1 DEF Wired, Early
      <4>2. Cardinality(Wired') = Cardinality(Wired) + 1
        BY <1>f, <4>1, FS_AddElement
      <4> QED
        BY <1>d, <1>e, <1>f, <1>ty, <4>1, <4>2 DEF Due
    <3>2. CASE s \in evicted
      <4>1. Wired' = Wired /\ Early' = Early \ {s} /\ s \in Early
        BY <1>3, <1>b, <2>1, <2>5, <2>6, <3>2 DEF Wired, Early
      <4>2. Cardinality(Early') = Cardinality(Early) - 1
        BY <1>f, <4>1, FS_RemoveElement
      <4> QED
        BY <1>d, <1>e, <1>f, <1>ty, <4>1, <4>2 DEF Due
    <3> QED
      BY <2>5, <3>1, <3>2
  <2>10. Total' = Due'
    BY <2>7, <2>9 DEF TotalInv
  <2> QED
    BY <2>8, <2>10 DEF TotalInv
<1> QED
  BY <1>1, <1>2, <1>3, UnwiredEffect

\* The reaper, the health checker, the clock and the readers.
LEMMA TotalOthers ==
  ASSUME Base, IsFiniteSet(callbacks), ServedInv, TotalInv,
         \/ \E r \in Readers : ReaderStep(r)
         \/ \E s \in Sessions : EvictStep(s)
         \/ RemoveStep
         \/ ReaperStep
         \/ \E b \in Servers : SetHealthy(b)
         \/ ClockStep
         \/ UNCHANGED vars
  PROVE  ServedInv' /\ TotalInv'
<1>0. UNCHANGED <<worker, binding, pc, sess, inserted>>
  BY Zenon DEF ReaderStep, Receive, CapGet, CapLen, Enqueue, ReaderAt, EvictStep, RemoveStep,
     ReaperStep, ClockStep, fwdVars, RunCallback, SweepDelete, SweepStart, SweepLock, SweepCheck,
     SweepCount, SweepUnlock, NextShard, Tick, tableVars, procVars, vars, SetHealthy
<1>1. ServedInv'
  BY <1>0 DEF ServedInv, Served, Bound
<1>un. Unwired' = Unwired /\ \A t : Callable(t)' = Callable(t)
  BY <1>0 DEF Unwired, Callable
<1>b. /\ callbacks \subseteq inserted /\ InTable \cap callbacks = {}
      /\ inserted \subseteq Sessions /\ evicted \cap Live = {} /\ binding \in [Sessions -> Bindings]
  BY BoundSessions
<1>ty. /\ entries \in [Keys -> Sessions \cup {NoSession}]
       /\ connCount \in [Servers -> Int] /\ leaked \in Nat
       /\ CallbacksSwept /\ SweepFrozen
  BY DEF Base, StageInv, TableInv, TypeOK, ForwardInv, ForwardTypeOK
<1>f. /\ IsFiniteSet(Wired) /\ Cardinality(Wired) \in Nat
      /\ IsFiniteSet(Early) /\ Cardinality(Early) \in Nat
  BY CountedFinite
<1>d. /\ Total' = Sum(connCount', Servers)
      /\ Due' = Cardinality(Wired') + leaked' - Cardinality(Early')
  BY DEF Total, Due
<1>2. ASSUME Live' = Live, UNCHANGED <<connCount, leaked, evicted>> PROVE TotalInv'
  <2>1. Wired' = Wired /\ Early' = Early
    BY <1>2, <1>un DEF Wired, Early
  <2> QED
    BY <1>2, <1>d, <1>un, <2>1 DEF TotalInv, Total, Due
<1>3. ASSUME \/ \E r \in Readers : ReaderStep(r)
             \/ ReaperStep
             \/ \E b \in Servers : SetHealthy(b)
             \/ ClockStep
             \/ UNCHANGED vars
      PROVE  TotalInv'
  <2>1. /\ entries' = entries /\ UNCHANGED <<connCount, leaked, evicted>>
        /\ callbacks' = callbacks \/ (rpc = "lock" /\ callbacks' = {})
    BY <1>3, Zenon DEF ReaderStep, Receive, CapGet, CapLen, Enqueue, ReaderAt, reaperVars,
       ReaperStep, ClockStep, fwdVars, SweepStart, SweepLock, SweepCheck,
       SweepCount, SweepUnlock, NextShard, Tick, tableVars, vars, SetHealthy
  <2>2. callbacks' = callbacks
    BY <1>ty, <2>1 DEF CallbacksSwept
  <2>3. Live' = Live
    BY <2>1, <2>2 DEF Live, InTable, Present
  <2> QED
    BY <1>2, <2>1, <2>3
<1>4. ASSUME RemoveStep PROVE TotalInv'
  <2>1. /\ entries' = [entries EXCEPT ![victim] = NoSession]
        /\ callbacks' = callbacks \cup {entries[victim]}
        /\ UNCHANGED <<connCount, leaked, evicted>>
        /\ victim \in Keys /\ entries[victim] # NoSession
    BY <1>4, <1>ty DEF RemoveStep, SweepDelete, Collect, SweepFrozen
  <2>2. /\ entries'[victim] = NoSession
        /\ \A k \in Keys : k # victim => entries'[k] = entries[k]
    BY <1>ty, <2>1
  <2>3. InTable \subseteq InTable' \cup {entries[victim]} /\ InTable' \subseteq InTable
        /\ entries[victim] \in InTable
    BY <2>1, <2>2 DEF InTable, Present
  <2>4. Live' = Live
    BY <2>1, <2>3 DEF Live
  <2> QED
    BY <1>2, <2>1, <2>4
\* callEvict: a wired session gives its count back.  One that is not yet wired is
\* remembered as leaked, or gives back what a re-pick registered; its Wire is to come.
<1>5. ASSUME NEW s \in Sessions, EvictStep(s) PROVE TotalInv'
  <2>1. /\ s \in callbacks /\ callbacks' = callbacks \ {s} /\ evicted' = evicted \cup {s}
        /\ connCount' = OnEvict(s) /\ entries' = entries
        /\ leaked' = IF binding[s].onEvict = NoServer THEN leaked + 1 ELSE leaked
    BY <1>5 DEF EvictStep, RunCallback
  <2>2. Live' = Live \ {s} /\ s \in Live /\ s \notin evicted
    BY <1>b, <2>1 DEF Live, InTable, Present
  <2>3. \A t \in Wired' : Callable(t)'
    BY <1>un, <2>2 DEF TotalInv, Wired
  <2>4. binding[s].onEvict \in AnyServer
    BY <1>b DEF Bindings
  <2>5. CASE s \in Unwired
    <3>1. Wired' = Wired /\ Early' = Early \cup {s} /\ s \notin Early
      BY <1>un, <2>1, <2>2, <2>5 DEF Wired, Early
    <3>2. Cardinality(Early') = Cardinality(Early) + 1
      BY <1>f, <3>1, FS_AddElement
    <3>3. CASE binding[s].onEvict = NoServer
      <4>1. Total' = Total /\ leaked' = leaked + 1
        BY <1>d, <2>1, <3>3 DEF OnEvict, Total
      <4>2. Due' = Due
        BY <1>d, <1>f, <1>ty, <3>1, <3>2, <4>1 DEF Due
      <4> QED
        BY <2>3, <4>1, <4>2 DEF TotalInv
    <3>4. CASE binding[s].onEvict # NoServer
      <4>0. binding[s].onEvict \in Servers
        BY <2>4, <3>4 DEF AnyServer
      <4>1. Total' = Total - 1 /\ leaked' = leaked
        BY <1>d, <1>ty, <2>1, <3>4, <4>0, SumsMove DEF OnEvict, Total
      <4>2. Due' = Due - 1
        BY <1>d, <1>f, <1>ty, <3>1, <3>2, <4>1 DEF Due
      <4> QED
        BY <2>3, <4>1, <4>2 DEF TotalInv
    <3> QED
      BY <3>3, <3>4
  <2>6. CASE s \notin Unwired
    <3>1. Wired' = Wired \ {s} /\ Early' = Early /\ s \in Wired
      BY <1>un, <2>1, <2>2, <2>6 DEF Wired, Early
    <3>2. Cardinality(Wired') = Cardinality(Wired) - 1
      BY <1>f, <3>1, FS_RemoveElement
    <3>3. binding[s].onEvict # NoServer /\ binding[s].onEvict \in Servers
      BY <2>4, <3>1 DEF TotalInv, Callable, AnyServer
    <3>4. Total' = Total - 1 /\ leaked' = leaked
      BY <1>d, <1>ty, <2>1, <3>3, SumsMove DEF OnEvict, Total
    <3>5. Due' = Due - 1
      BY <1>d, <1>f, <1>ty, <3>1, <3>2, <3>4 DEF Due
    <3> QED
      BY <2>3, <3>4, <3>5 DEF TotalInv
  <2> QED
    BY <2>5, <2>6
<1> QED
  BY <1>1, <1>3, <1>4, <1>5

CountsInv == Affinity => ServedInv /\ TotalInv

LEMMA CountsInvInit == Init => CountsInv
<1> SUFFICES ASSUME Init PROVE ServedInv /\ TotalInv
  BY DEF CountsInv
<1>1. callbacks = {} /\ inserted = {} /\ evicted = {} /\ entries = [k \in Keys |-> NoSession]
  BY DEF Init, TableInit
<1>2. \A w \in Procs : worker[w].pc = "idle" /\ pc[w] = "idle"
  BY DEF Init, TableInit, IdleWorker
<1>3. ServedInv
  BY <1>1, <1>2 DEF ServedInv, Served
<1>4. Wired = {} /\ Early = {}
  BY <1>1 DEF Wired, Live, InTable, Present, Early
<1>5. Total = 0
  <2>1. \A b \in Servers : connCount[b] = 0
    BY DEF Init
  <2> QED
    BY <2>1, ServersAssumption, SumOfZeros DEF Total
<1>6. Due = 0
  BY <1>4, FS_EmptySet DEF Due, Init
<1> QED
  BY <1>3, <1>4, <1>5, <1>6 DEF TotalInv

LEMMA CountsInvStep == Base /\ CallbacksFinite /\ CountsInv /\ [Next]_vars => CountsInv'
<1> SUFFICES ASSUME Base, IsFiniteSet(callbacks), ServedInv, TotalInv, Affinity, [Next]_vars
             PROVE  ServedInv' /\ TotalInv'
  BY DEF CountsInv, CallbacksFinite
<1>1. ASSUME NEW w \in Procs, WorkerStep(w) PROVE ServedInv' /\ TotalInv'
  BY <1>1, ServedWorker, TotalWorker
<1> QED
  BY <1>1, TotalOthers DEF Next

\* The servers' connCounts (backend.go:33) add up, in affinity mode, to the wired
\* sessions whose callback is still to come and one for every session evicted before
\* its creator wired it (frontend.go:426), for every number of servers, workers and
\* sessions and however failovers, re-picks and evictions interleave.
THEOREM ConnTotalKept == Spec => []ConnTotalExact
<1>1. CountsInv => ConnTotalExact
  BY DEF CountsInv, TotalInv, Total, Due, Sum, Wired, Live, Early, ConnTotalExact
<1> QED
  BY <1>1, AffinityInvKept, CountsInvInit, CountsInvStep, PTL DEF Spec
=============================================================================

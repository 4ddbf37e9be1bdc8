# A TLA+ model of light-udp-proxy

light-udp-proxy is a UDP load balancer in Go. This directory holds TLA+ modules
that model its concurrent core and its configuration, TLC configurations that check them on small
instances, and proofs that TLAPS checks for every instance. `PROJECT.json` maps
each definition to the lines it models and lists the runs, the mutations each
property detects, the hazards of the code and the disagreements found.

    tlc -workers 2 -config SessionTable.cfg MCSessionTable
    tlapm SessionTableProofs.tla

## The system

A *proxy* starts *frontends*, each of which listens on a UDP port and forwards
the datagrams of its clients to a *backend pool*. All frontends share one
session table, one set of counters, the global and per-client rate limiters and
the abuse protector.

| component (source under `internal/`) | state | operations | shared with |
|---|---|---|---|
| session table (`session/`) | 256 mutex-protected maps, an atomic counter, atomics in every session | `GetOrCreate`, `Get`, `Touch`, `UpdateServer`, `Delete`, `Stop`; a reaper goroutine | workers and readers of all frontends |
| frontend (`frontend/`) | sockets, a bounded channel, a buffer pool, queues of pending routes | `Start`, `Stop`; reader, worker and answer goroutines | table, pool, limiters, counters |
| backend pool (`backend/`) | per server: health, connCount; a round-robin index | `Pick`, `SetHealthy`, counting | frontends, health checker |
| health checker (`healthcheck/`) | probes under way | rounds of concurrent probes | pool |
| token bucket, client limiter (`shaping/`) | tokens, time of last refill; a swept map of buckets | `Allow` | readers and workers of all frontends |
| abuse protector (`abuse/`) | per address: packets this second, ports seen | `Allow`, lazy sweeps | readers of all frontends |
| proxy (`proxy/`) | pointers to all of the above | `start`, `stop`, `reload`, signal loop | everything |
| metrics (`metrics/`) | counters, an HTTP listener | `Start`, `Stop`, read-out | everything |
| configuration, QoS (`config/`, `qos/`) | none that changes | `Parse`, `defaults`, `validate`, `ParsePriority`, `WorkerMultiplier` | proxy, frontends |
| fragments, socket options, logger, `main` | none that changes | system calls | – |

What is hard here is concurrency. A packet is touched by a reader and then by
one of many workers; two packets of one client can be in the hands of two
workers; the reaper, the health checker, the backends' answers, Stop and reload
run beside them. Sessions are shared without locks, and several decisions
(session cap, health, route order) are made in one step and used in a later
one. Datagrams get lost, duplicated and reordered. Nothing is persistent: there
is no crash recovery.

What makes each part correct:

* table: the counter agrees with the maps, every session is evicted exactly
  once, two creators agree on one session, only idle sessions expire, and they do;
* forwarding: connCount follows the sessions, a client stays on its server, the
  cap caps, a server is always there to send to;
* response routing: an answer reaches the client whose request it answers;
* pipeline: a buffer has one owner, every packet is accounted for, Stop returns;
* backend pool: `Pick` finds a healthy server if there is one, by weight or by
  connections, whatever changes while it looks;
* limiters: no window of time lets more through than burst and rate allow, and
  nothing is withheld; what is swept away was not needed;
* abuse protector: packets per second and ports per client stay within the
  limits, old ports are forgotten;
* configuration: what `validate` accepts `start` does not refuse;
* life cycle: what was started can be stopped, reload and signals take effect.

## Modules

| module | models | composed with |
|---|---|---|
| `SessionTable` | `session.go` | – |
| `Forward` | `frontend.go` from the session cap to the chosen server | extends `SessionTable` |
| `BackendPool` | `backend.go`: `Pick` load by load, `SetHealthy`, connection counts | implements `LoadBalancer` |
| `LoadBalancer` | nothing: the abstract specification of `Pick` | – |
| `ResponseRouting` | `frontend.go` from `enqueuePendingRoute` to the client, an unreliable network | – |
| `Pipeline` | `frontend.go`: goroutines, buffers, counters, `Start`, `Stop` | – |
| `TokenBucket` | `shaping.go`: `Limits`, `Bucket` | – |
| `WallClock` | `time.Time.Unix`: from ticks of the clock to whole seconds | – |
| `ClientLimiter` | `shaping.go`: `ClientLimiter` | extends `TokenBucket` and with it `WallClock` |
| `AbuseProtector` | `abuse.go` | extends `WallClock` |
| `Admission` | `frontend.go`: `readLoop` up to the session cap, `allowShaped` | extends `ClientLimiter` and `AbuseProtector` |
| `Config` | `config.go`: `defaults`, `validate`; `qos/priority.go`; the start order and the number of workers | – |
| `ProxyLifecycle` | `proxy.go`, `healthcheck.go`, start and stop of `metrics.go` | extends `Config` |
| `SessionTableProofs`, `TokenBucketProofs`, `PipelineProofs`, `BackendPoolProofs`, `ProxyLifecycleProofs`, `ResponseRoutingProofs`, `ForwardProofs`, `AdmissionProofs` | theorems | extend the modules they are about |
| `MC...` | constants and symmetry for TLC | extend the modules they run |

**SessionTable.** `entries` is the union of the shard maps, `ShardFor` the hash.
`GetOrCreate` is `Lookup` (the RLock section), `NewFn`/`NewFnNil` (no lock),
`Insert` (the Lock section) and `CountAdd`; `Delete` is `Delete`, `DeleteCount`,
`DeleteEvict`. A critical section is one step because its mutex hides the inside
from everybody who needs the mutex. The reaper's is not: while it holds a shard
others read the counter and call `Touch`, so its loop is split at every atomic
access, and `Locked` makes the others wait. Time is the age of each session,
cut off where it no longer matters; session identities are reused once nobody
refers to them, so no run length is built in. What advances the clock (`Tick`,
Forward's `ClockStep`) stands for `time.Now` and is external to the code.

**Forward.** One frontend: its readers check the cap (`CapGet`, `CapLen`) and enqueue; workers run
`forward`, with one step per table operation, binding load or store, and health
reading. `worker[w]` is the place in `forward` and its locals, `binding[s]` the
atomic pointer of a session. `Pick` is abstract: it reads health once to weigh
and once to choose and returns any server that is healthy at the second
reading. An increment of connCount is folded into the binding store beside it.
`leaked` is history: sessions that were evicted before their creator had wired
the callback, whose unit of connCount nobody gives back.

**BackendPool.** `call[c]` is a caller's place in `Pick` and its locals. Each
load of a server's health or connCount is a step: once to add up the weights,
once to walk the list, once more in the fallback. `Index` is the ticket of
`rrIndex`, the random number or the hash, converted with Go's `int` and `%`
(`Truncated`, `GoMod`). `serverMap` keeps the last of several servers with one
address (`ServerByAddr`). `LoadBalancer` says what a caller may rely on; the
refinement maps the loads to one step `Answer`. `steady`, `seen`, `heard` and
`quiet` are history: what was true during all, or at some moment, of a call.

**ResponseRouting.** A route operation is one step under `pendingRoutesMu`, but
its time was read up to `Stall` earlier and the datagram leaves after the
unlock. `flight` holds, per backend, the requests and answers under way in
order; `Fault` loses, duplicates, swaps or invents one. `disturbed` is history:
the backends whose answers may be shifted, and why.

**Pipeline.** Every goroutine is a place (`at`) and a buffer it owns (`buf`).
The checks of `readLoop` are one choice, the result of `forward` another. Start
can fail at every socket; Stop closes stopCh, the listeners and the outbound
socket in turn and waits.

**TokenBucket.** A caller reads the clock (`Stamp`) and calls `Allow` up to
`Stall` later. `since`, `packets` and `bytes` are history: a window that may
open at any moment, and what passed in it.

**ClientLimiter, AbuseProtector, Admission.** A reader takes one clock reading
(`Receive`) and goes through the limiters that are not nil, in the order of
`Order`; each is a step under its own mutex, so another reader with an earlier
or a later reading may come in between. `ClientLimiter.Allow` is two steps:
`ClientEntry` finds or makes the entry and sweeps under the shard's mutex,
`ClientBucket` spends after the unlock, when the entry may be gone; buckets have
names, which are reused when neither an entry nor a reader refers to them.
`AbuseAllow` is the whole of `Protector.Allow` with its two lazy sweeps. A second has
`Second` ticks: buckets count in ticks, but lastSeen, lastSweep and the ages they are
compared with are whole seconds (`Unix`), as in the code, so an entry can go when it
has been idle for little more than the timeout, whatever seconds that covers. History:
the window of TokenBucket (`since`, `passed`), the packets one client passed with
readings of one second (`second`), and when ports were last tried and admitted.
`second` counts every such packet, also one that is admitted when later seconds have
been seen.

**Config.** A file is a record; `defaults` and `validate` are operators on it.
`Accepted` are the configurations a file can become, and a generation of
ProxyLifecycle is made from one of them: `Nth` is its start order, `Workers` the
number of its workers, `Conflict` and `SeveralPorts` what makes listening fail.

**ProxyLifecycle.** The main goroutine walks through `start`, the signal loop,
`reload` and `stop`; components are numbered by the generation that made them,
and `p` says which generation each pointer of the proxy belongs to. Every start
and reload reads one of `Files`, and `Obstacles` are the reasons for which a step
of `start` can fail: the file's, and with `EnvFailures` the environment's. The metrics
listener is closed by `Close` only if `Serve` has registered it (net/http);
signals are put into a channel of one slot without blocking (os/signal).

## Runs

Runs marked *violation* state what a comment, a document or a test of the
repository says; TLC shows a behaviour of the code that disagrees.

| run | checks | instance |
|---|---|---|
| table | `TypeOK` `CountConservation` `OneStage` `SharedSession` `NoPrematureEviction` `ExpiredLeaves` `CallbacksRun` `StopEndsReaper` | two processes and the reaper, two keys in the second of two shards, two session identities, fair |
| forward_affinity | `ConnTotalExact` `ConnCountUntilFailover` `Sticky` | two workers, one client, two servers, three packets, two health changes, sessions that expire at any moment |
| forward_cap | `CapOvershootBounded` `RefusedOnlyWhenFull` | four clients, cap 1, one reader, one worker, queue of 1, no affinity |
| conn_drift | *violation* `ConnCountReflectsSessions` | one health change, two workers on one client; the timeout is too long for a session to expire |
| pick_nil | *violation* `PickNeverNil` | both servers fail between the two loops of `Pick` |
| routing | `NoOrphanRoute` `MatchedUnlessDisturbed` `NearlySorted` `RefusedOnlyByLive` | two workers and clients, one backend, four requests, queue of 2, TTL 2, stall 1, one fault, five ticks |
| routing_overtaking | *violation* `ResponsesMatch` | two requests queued in one order and sent in the other, no fault |
| pipeline | `OneOwner` `Accounting` `FailedStartClosesAll` `StopLeavesAtMostOnePerReader` `StopReturns` | one reader, one worker, the answer reader, two listeners, queue of 2, three datagrams, fair |
| admission | `AdmissionTypeOK` `RateBound` `SupplyBound` `ClientRateBound` `SecondBound` `PortsWithinLimit` `RefusedPortsRecent` | two readers, two clients, two ports, a second of 2 ticks, session timeout 3, stall 1, client burst 5 at rate 1, up to eight ticks; each policy turns on the limiters it is about |
| backend_pool | `PoolTypeOK` `PickMatchesReference` `RoundRobinExact` `BadReportHeeded` `KeepsPromise` | two callers, two servers of weights 1 and 2 with different or equal addresses, all four algorithms, 8 hashes and an int that holds them |
| lifecycle | `NoOrphan` `RunsItsConfig` `AcceptedConfigStarts` `CancelledProbeHarmless` `AcceptedTermExits` `ReloadEnds` | three generations from sixteen files (one for each check of `validate`, and some that are accepted), two frontends, one server, three signals, any failure, fair |
| lifecycle_term_lost | *violation* `TermHonoured` | a signal lost to a full channel, no failure, fair |

The modules of the other runs have a type invariant too (`ForwardTypeOK`,
`RoutingTypeOK`, `PipelineTypeOK`, `LifecycleTypeOK`); it documents
the variables and can be added to the run's configuration, but is not listed.

What the passing runs show, in short: `table` that the counter, the maps and
the callbacks agree under every interleaving and that the reaper does its work;
`forward_affinity` that the units of connCount are the sessions and the leaks,
and sit where the sessions are until health changes; `forward_cap` how soft the
cap is; `routing` the exact circumstances under which an answer can reach the
wrong client; `pipeline` that no buffer has two owners and Stop returns;
`admission` what each limiter lets through and that it withholds nothing, with
readings that arrive out of order; `backend_pool` that `Pick` keeps its promise
under concurrent changes and agrees with the weight-expanded list without them;
`lifecycle` that nothing that was started escapes the next stop, and that an
accepted file is what runs, highest priorities first.

**Bounds.** Every race in the list of hazards is between two goroutines of a
kind, or one of each of two kinds, over one client, session, route or buffer;
the runs have two of what races and one more identity than can be in use where
identities are reused. Queues hold one or two, so that they are full and empty.
Timeouts are one to three ticks, so that things are fresh, just alive and expired. The
overshoot of the cap needs as many clients as can be under way at once plus
those in the table: four.
In Forward and SessionTable a timeout of 0 lets a session expire one tick after
its last packet, so it can expire between any two steps. In `backend_pool` six
tickets are two rounds of the total weight 3, so that `RoundRobinExact` is
tested at 3 and at 6; `HashCount` = `IntLimit` = 8 stands for the 32-bit hash and
an `int` that holds every hash, as the 64-bit one does. In `admission` the
session timeout of 3 ticks is a second and a half, so that cutting times to seconds
matters; eight ticks, for the policy about ports, are twice the timeout and the second
that the sweeps may lose, after which a port must be forgotten; six, for the client
limiter, are enough for an entry to be swept while its bucket is not yet full
again, because the burst of 5 exceeds what the rate supplies in the timeout; and six,
for the limit per second, are the second before `WatchedSecond`, this second and the one
after it. `Watched` is the one client whose window is followed, any one being
like the other.
`MaxPackets`, `MaxFlips`, `MaxEvents` (packets and health changes of
Forward together), `MaxRequests`, `MaxFaults`, `MaxTime` and the policies' `until`,
`MaxTickets`, `MaxConns`, `MaxGen` and `MaxSignals` bound only how often the
environment acts; SessionTable has no such bound. The theorems remove the bounds
where they exist. Symmetry is used only for sets whose members the constants
treat alike, and never with liveness (`KeepsPromise` and `RefusedPortsRecent` are
safety properties). Deadlock is checked for `table`, `admission` and `conn_drift`. For
`table` that says little, since a tick of the clock is nearly always possible: that
the goroutines get on is what its liveness properties say.
Deadlock is not checked where the bounded environment runs dry or the process can end: a
panic or the last packet in Forward, the last ticket in BackendPool, the last
request in ResponseRouting, Stop in Pipeline, the end of the process in
ProxyLifecycle.

**Fairness.** Weak fairness of each goroutine's own steps: the Go scheduler runs
what is runnable, and a ticker fires. Strong fairness of the stop case of a
`select` with a ticker (reaper, checker): Go chooses at random among ready cases.
A read is fair only when its socket is closed; nothing is assumed of the
network, of clients, of backends or of signals. A probe ends because its
deadline does.

## Theorems

Every invariant below is proved as `Init => Inv`, `Inv /\ [Next]_vars => Inv'` and
`Inv => property`, with one lemma per action or group of actions. The constants
are those of the code, unbounded; the assumptions are the named `ASSUME`s of the
modules: finite sets where something is counted, positive sizes, timeouts and rates
(a limiter with rate 0 is nil and not in the chain), at least one reader, `WideIntAssumption` for `Pick`, and that `Files` are well-formed files one of which can be loaded.

`SessionTableProofs` (any sets of keys, goroutines and sessions, any number of
shards, any timeout):

* `TableTypeCorrect`: `TableSpec => []TypeOK`;
* `CountNeverDrifts`: `TableSpec => []CountConservation`. The invariant is about
  cardinalities of sets of keys and of goroutines that change by one element in
  different steps. It is not inductive by itself: `InHand` adds that a process
  between two steps of an operation has a key and a session in hand, and
  `SweepFrozen` that the reaper's victim is in its locked shard and still in the
  table, which holds because `Insert` and `Delete` wait for the lock. Then every
  step changes at most one set by one known member, and the library's theorems
  about adding and removing an element give the balance;
* `EvictedOnce` (`OneStage`) and `RacersShare` (`SharedSession`). `StageInv` adds
  that a session just made is nowhere else (`Fresh`) and has one creator
  (`OneCreator`), that a session in the table is under its own key
  (`UnderItsKey`), that a process returns only what was inserted
  (`ReturnedInserted`), and that the reaper's list of callbacks is empty between
  sweeps (`CallbacksSwept`);
* `OnlyIdleExpire` (`NoPrematureEviction`), an action property, from
  `StaleExpired`: what the reaper found stale stays older than the timeout.

`TokenBucketProofs` (any rates, bursts, sizes, callers, stall and run length):

* `BucketTypeCorrect`: `Spec => []BucketTypeOK`;
* `RateLimited`: `Spec => []RateBound`. The strengthening `Window` balances what
  was spent in the window and what is left against the burst and what was
  earned since the earliest reading a call in the window can carry
  (`since - Stall`), and says that nothing was spent while the last refill is
  older than that; `CallsRecent` bounds the age of pending readings. The lemma
  `RefillKeepsBalance` does the arithmetic for one dimension;
* `NothingWithheld` (`SupplyBound`): the other side of the balance.

`PipelineProofs` (any number of readers, workers, listeners and buffers, any
capacity of workCh):

* `BuffersHaveOneOwner` (`OneOwner`) and `PacketsAccountedFor` (`Accounting`).
  `PipelineInv` adds that nothing runs before `Start` succeeded (`Unlaunched`),
  that a goroutine between Get and Put has a buffer (`Holding`) and that readers
  and workers keep to their own loops (`Roles`);
* `FailedStartIsClean` (`FailedStartClosesAll`): a failed `Start` leaves no listener, no
  outbound socket and no goroutine, from `BindsInOrder` and `Unlaunched`;
* `StopLeavesLittle` (`StopLeavesAtMostOnePerReader`). `StopInv` counts: once
  stopCh is closed and the last worker has drained the channel, what is in it
  was put there by readers that are past their enqueue (`PastEnqueue`) and will
  not come back to it.

`BackendPoolProofs` (any number of servers, any weights, addresses, callers):

* `PoolTypeCorrect` (`PoolTypeOK`), in which the index of the walk is below the
  total weight and not negative. `Tickets` and `Unindexed` say that what is
  converted to `int` fits it;
* `BadReportsHeeded` (`BadReportHeeded`). `ReportsReach` ties a server's health
  to the reports about its address, `HistoryOK` the history variables to health
  while a call is under way, and `CallsFit` each caller's locals to the loads it
  has done;
* `PickKeepsPromise`: `Spec => KeepsPromise`, the refinement of `LoadBalancer`:
  the initial state maps to an initial state and each load to a stutter or to
  one step of the abstract specification. `CallsFit` is what it rests on too;
* `PicksMatchReference` (`PickMatchesReference`). The reference is a fold over the
  list of servers, the code three loops that never build that list. `Ahead(i)`
  counts the entries of the first `i` servers in the list (`AheadGrows`), and entry
  `x` belongs to the server in whose share `x` falls (`ReferenceEntry`). `ExactInv` says,
  of a call during which health stays as it is, that its total is `Ahead` of the
  servers it has passed, that its index and what it has walked past make up its
  ticket modulo the total, and that it never gets to the fallback (`Exact`); of
  leastConn, that its best server has the fewest connections of the healthy ones
  passed and is the first such (`Chosen`);
* `RoundRobinIsExact` (`RoundRobinExact`). `SharesInv` holds in the middle of a round
  and of any number of calls: what a server was picked for and the calls that walk
  towards it are together its share of the tickets drawn (`Share`), whole rounds and
  the part of its entries the last round has reached. A draw adds one to the share of
  one server (`ShareStep`, `FallsOnce`), and the end of a walk moves one from the
  calls to the picks.

The prover has no induction over data, so the facts about the list rest on a least
counterexample (`LeastNumber`, `UpFrom`), and that the recursive definition of
`FirstEntries` has a solution is proved server by server (`FirstEntriesExist`).

`ProxyLifecycleProofs` (any files, generations and signals, failures included):

* `LifecycleTypeCorrect`; `NothingOrphaned` (`NoOrphan`), `ServesItsConfig`
  (`RunsItsConfig`), `ValidatedConfigStarts` (`AcceptedConfigStarts`) and
  `CutOffProbesHarmless` (`CancelledProbeHarmless`). `LifecycleInv` says for each kind of
  component which generations of it can exist at each step of `start` and `stop`
  (`FrontendsKnown`, `ReapersKnown`, `CheckersKnown`, `MetricsKnown`), that only
  past checkers are cancelled outside of stop (`CancelledPast`), and that a start that
  came to its end started every frontend of the file (`StartComplete`). The lemmas `NthFrontend`
  and `NthDescends` say that `Nth` enumerates the frontends by priority.

`ResponseRoutingProofs` (any number of workers, clients, backends and faults, any
queue length, TTL and stall):

* `RoutesOwned` (`NoOrphanRoute`), `QueuesNearlySorted` (`NearlySorted`),
  `AnswersMatchUnlessDisturbed` (`MatchedUnlessDisturbed`), `RefusedOnlyByLiveRoutes`
  (`RefusedOnlyByLive`), and `RoutingTypeCorrect`. `RoutingInv` says that ids grow along a queue and times nearly do
  (`Ordered`), that each worker holds an unsent id of its own (`WorkersOK`), that
  every route is sent or held (`Owned`), and, the heart of it, that at an
  undisturbed backend the requests under way are those of the first routes of
  its queue, in order, and all later routes are unsent (`Matched`). So a send that overtakes nobody is the send of the
  first unsent route, a cancelled route is never among the sent ones, and an answer meets its own
  route. `Kept` and its lemmas carry order and ownership over to what pruning
  and cancelling leave of a queue.

`ForwardProofs` (any number of readers, workers, clients, servers, sessions and
packets, any cap and channel; it rests on `SessionTableProofs`):

* `TableUnderForward`: `Spec => TableSpec`, so that every theorem about the table
  holds of the table under `forward`; and `ForwardTypeCorrect`. `ForwardInv` says
  for each place of a worker in `forward` where it stands in its table operation
  (`PlaceFor`) and that the operation is for its packet's client (`ForItsClient`);
* `CapHolds` (`CapOvershootBounded`). What is bounded is `UnderWay`: the clients
  with an entry and those whose packet is past the cap check and may still make
  one. Every step but the check itself passes such a client on or drops it. At
  the check `CountNeverDrifts` gives the entries that `Len()` has not seen, one
  for each worker before its Add; those workers are not among the ones that
  still bring a client, so the two together are no more than the workers;
* `RefusalsJustified` (`RefusedOnlyWhenFull`), an action property;
* `CountsReflectSessions` (`ConnCountUntilFailover`). `SteadyInv`: until a failover a
  worker that is about to wire, check or send has the server its session is
  bound to, and the callback of a session is unset until its creator wires it.
  `ConnInv`: connCount is at every moment the number of wired sessions that are in
  the table or await their callback; at rest these are the entries, one for each
  by `OneStage`;
* `AffinityKept` (`Sticky`), an action property, from `SteadyInv` and `AssignedInv`;
* `ConnTotalKept` (`ConnTotalExact`), also after failovers, when a single server's count
  says nothing any more. `ServedInv` says that where a worker reads or moves a
  binding it names a server, and `TotalInv` that the counts add up to the wired
  sessions whose callback is still to come, with the leaks, and that each of those has a
  callback. The sum is a fold over the set of servers: `SumExists` and `SumUpdate` say
  that it exists and that changing one count by `d` changes it by `d`, by induction
  over the subsets of a finite set (`OneByOne`, from a subset of least size).
  A transfer takes one from a server and gives it to another, whichever worker's
  view of the binding is stale, so the sum stays.

`AdmissionProofs` (any clients, ports, readers, rates and policies, any session
timeout and stall; it rests on `TokenBucketProofs`):

* `ChainUsesBucket`: `AdmissionSpec => Spec` of TokenBucket, and with it
  `ChainRateLimited` (`RateBound` and `SupplyBound` in the chain);
* `AdmissionTypeCorrect` (`AdmissionTypeOK`). `AdmissionInv` adds that a packet under
  way has a sender and a reading not older than `Stall` (`Readings`), and how a
  record's count, window and lastSeen hang together (`RecordsOK`);
* `SecondLimited` (`SecondBound`), without a hypothesis on timeout or stall. `SecondInv`
  follows the packets of one second through three phases. Before it, none has passed.
  During it (`During`), only a reader with a reading of an earlier second (`Early`) can
  set the count back, and each can once, so the packets passed, what the count leaves
  (`Room`) and a whole limit for each early reader make up at most `maxRate` for each
  reader. After it (`After`), no new reading of it can be taken: each reader that still
  has one (`Present`) brings at most one more packet, and if all of them have, the
  first to come finds what the second left of the count;
* `PortsLimited` (`PortsWithinLimit`), from `PortsKept`: a port admitted not long ago is
  still in the client's record, with at least the second of that reading, whichever of
  the two sweeps came in between;
* `PortsRefusedRecently` (`RefusedPortsRecent`), an action property. `TriedInv`: no port
  in the record is older than the timeout before the record's last sweep, and
  each was tried in the second the record says;
* `ClientRateLimited` (`ClientRateBound`). `BucketsOwned` says that no two clients share
  a bucket and that a reader that holds one holds that of its client's entry,
  although entries are swept in between: a sweep cannot take an entry that was
  refreshed with a reading not older than two stalls. `ClientBalanced` is the balance of
  `TokenBucketProofs` for the bucket of an entry. A dropped entry's bucket has been idle
  for at least `IdleTime`, the timeout less a stall, whatever the seconds cut off; in
  that time the client gains what its rate supplies or, where the burst is more than
  that, the full bucket it starts with again (`Gain`). Everything is multiplied by
  `IdleTime` (`Worth`) to keep to integers.

Two of them have a hypothesis on the timeout that the code leaves to the operator:
`PortsRefusedRecently` needs `Stall <= Ttl` and `ClientRateLimited` `2 * Stall <= Ttl`. A
stall is the time between a reader's `time.Now()` and a lock a few lines further on; the
session timeout is 60 seconds unless configured otherwise, and nothing keeps a file
from making it shorter than a second (the whole seconds of `Ttl` are then 0, which the
theorems include). No theorem relates the burst to the rate.

`Stall <= Ttl` cannot be dropped: with `Stall` 2, `Ttl` 1 and `Second` 1 on the instance
of the admission run, TLC finds `RefusedPortsRecent` violated, because a packet that
waited in the chain for longer than the timeout notes a port that is too old from
the start. `2 * Stall <= Ttl` may be more than `ClientRateLimited` needs: below it a reader
may hold a bucket whose entry is gone while its client has a new one, and the proof
does not balance the two, but with `Stall` 2, `Ttl` 3, `Second` 2 and bursts of 1 and of 5
TLC finds no violation.

Only checked by TLC: liveness (`ExpiredLeaves`, `CallbacksRun`, `StopEndsReaper`,
`StopReturns`, `AcceptedTermExits`, `ReloadEnds`), which needs fairness and is out of reach of
the prover. Every safety property of a passing run is stated by a theorem.

## What the checks say about the code

The session table, the rate limiters, `Pick`, buffer ownership, the packet counters and
the clean-up of the life cycle do what they should. Five disagreements are quoted in
`PROJECT.json`; the first four have a run of their own:

* connCount drifts for good after a failover of a session that its creator has not
  wired yet (`conn_drift`), against the comment in `backend.go` on which least_conn
  rests: another worker takes from the first server a count that was never added and
  adds one to the second, where the creator adds one more. Two workers that fail
  over one session at once, and a session evicted before it is wired, lead to a
  drift too;
* `Pick` can return nil without an error (`pick_nil`);
* two workers can swap the answers of their clients (`routing_overtaking`);
* a shutdown signal during a reload can be lost (`lifecycle_term_lost`);
* Stop does not drain: `README.md:18` says that SIGINT and SIGTERM drain "in-flight work
  before exiting", and the comment at `frontend.go:378` "Drain any remaining work". What
  the workers' drain does is return the buffers: packets that were accepted into
  `workCh` are neither forwarded nor counted as dropped. `Accounting` holds because
  its sum has terms for them, `discarded` and the length of `workCh`, and
  `StopLeavesAtMostOnePerReader` says how many even the drain leaves behind.

The models show a few more behaviours a reader may not expect, which the
passing properties state the way they are:

* `ConnTotalExact` and `ConnCountUntilFailover` are about affinity mode: without
  it sessions are never counted and connCount stays 0;
* `Sticky` is about constant health: two workers that re-pick for one client
  choose independently;
* `CapOvershootBounded`: the cap is checked before the session exists, so it is
  exceeded by the packets under way; and `Len()` counts the sessions of all
  frontends, although `max_sessions` is set for one;
* `StopLeavesAtMostOnePerReader`: a reader may enqueue one more packet after the last
  worker has gone, and its buffer does not come back to the pool;
* `ConnTotalExact` counts leaks: a session that is evicted before its creator
  has wired it keeps its unit of connCount for ever;
* `BadReportHeeded`: of two servers with one address only the last hears of its
  health; the others stay healthy and are picked;
* `PickMatchesReference` rests on `WideIntAssumption`. With a 32-bit `int` (the
  arm builds of `.goreleaser.yaml`) half of the hashes become negative, the first
  server is picked for all of them whatever the weights, against the comment
  at `backend.go:151`; at `frontend.go:669` the same conversion gives a negative
  index and a panic;
* `SecondBound`: with several readers the limit per second is soft, because a reading of
  another second sets the count back: of one second fewer than
  `max_packets_per_second_per_ip` + 1 packets for each reader pass. With two readers and
  a limit of 1 three can: one passes, a reading of the second before resets the count,
  another passes, and so does a late one after a packet of the next second. A single
  reader keeps to the limit;
* `ClientRateBound`: a client that is idle for the session timeout is forgotten and starts
  with a full bucket. Where the burst is more than the rate supplies in that time,
  which `validate` does not rule out, it gets a burst for each timeout (less the stall)
  instead of its rate;
* `RefusedPortsRecent` and `PortsWithinLimit`: a port counts for up to twice the
  timeout and almost a second, because the sweeps are lazy and count whole seconds; and
  refused ports count, so a client that goes on trying stays refused;
* in Admission a packet that a later limiter refuses has already spent the
  tokens of the earlier ones; a packet larger than the burst never passes;
* `AcceptedConfigStarts` is about priorities and backend names: `validate` lets
  through a listen address used twice and `reuse_port` with port 0, which `start`
  refuses; with `reuse_port` two frontends on one address share its packets;
* `ReloadEnds`: a reload ends, but there is a time without frontends in it,
  although `README.md:17` says "without downtime". It stops everything first and
  start may then fail, even by itself: a metrics server closed before its `Serve`
  goroutine ran keeps its address until it does.

## Not modelled, and the plan

What is left to do is proof: `ClientRateLimited` for timeouts between one and two
stalls, with an invariant about the buckets that have lost their entry.

Left out for good, because they keep no state or are system calls: YAML decoding,
the parsing of byte sizes (where a product that overflows is not reported),
fragment detection and socket options, the metrics handler, logging and the
command line. Left out of the modules: the float64 rounding of tokens, the
duration of `Server.Close`, `Stop` on a frontend that does not run, and the
listener by which an answer leaves.

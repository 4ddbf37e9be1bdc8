------------------------------- MODULE Config -------------------------------
(***************************************************************************)
(* internal/config/config.go and internal/qos: what Parse makes of a file  *)
(* and which files it refuses, the priorities, and what Proxy.start takes  *)
(* from an accepted file: the order of the frontends and their workers.    *)
(*                                                                         *)
(* A file is a record with "" or a number <= 0 for a missing value.  The   *)
(* limits that only Admission uses have no defaults and no checks here and *)
(* are left out, as are YAML itself and the log level.                     *)
(***************************************************************************)
EXTENDS Integers, Sequences, FiniteSets, Functions

\* A duration in seconds, a size or a count, and a string, or its default.
OrDefault(n, d) == IF n <= 0 THEN d ELSE n
OrElse(s, d)    == IF s = "" THEN d ELSE s

-----------------------------------------------------------------------------
(* qos                                                                     *)

\* The priorities, as WorkerMultiplier ranks them; Priority itself is one less.
Rank == [bulk |-> 1, low |-> 2, normal |-> 3, high |-> 4, critical |-> 5]

\* strings.ToLower(strings.TrimSpace(v)), for the spellings that occur.
Folded(v) == CASE v = " Critical" -> "critical" [] v = " " -> "" [] OTHER -> v

Parses(v) == Folded(v) \in DOMAIN Rank \cup {""}

ParsePriority(v) == Rank[OrElse(Folded(v), "normal")]

-----------------------------------------------------------------------------
(* config                                                                  *)

ServerType   == [address : STRING, weight : Int]
BackendType  == [name : STRING, loadBalance : STRING, interval : Int, timeout : Int,
                 servers : Seq(ServerType)]
FrontendType == [name : STRING, listen : STRING, backend : STRING, priority : STRING]
FileType     == [maxPacketSize : Int, workerThreads : Int, sessionTimeout : Int,
                 cleanupInterval : Int, metricsAddr : STRING, reusePort : BOOLEAN,
                 frontends : Seq(FrontendType), backends : Seq(BackendType)]

Algorithms == {"round_robin", "least_conn", "random", "hash"}

DefaultServer(s) == [s EXCEPT !.weight = OrDefault(@, 1)]

DefaultBackend(b) ==
    [b EXCEPT !.loadBalance = OrElse(@, "round_robin"),
              !.interval = OrDefault(@, 10),
              !.timeout = OrDefault(@, 2),
              !.servers = [i \in DOMAIN @ |-> DefaultServer(@[i])]]

DefaultFrontend(f) == [f EXCEPT !.priority = OrElse(@, "normal")]

defaults(c) ==
    [c EXCEPT !.maxPacketSize = OrDefault(@, 65535),
              !.workerThreads = OrDefault(@, 4),
              !.sessionTimeout = OrDefault(@, 60),
              !.cleanupInterval = OrDefault(@, 10),
              !.metricsAddr = OrElse(@, "0.0.0.0:9090"),
              !.frontends = [i \in DOMAIN @ |-> DefaultFrontend(@[i])],
              !.backends = [i \in DOMAIN @ |-> DefaultBackend(@[i])]]

Names(list) == {list[i].name : i \in DOMAIN list}

DistinctNames(list) == \A i, j \in DOMAIN list : list[i].name = list[j].name => i = j

ValidBackend(b) ==
    /\ b.name # ""
    /\ b.servers # <<>>
    /\ b.loadBalance \in Algorithms
    /\ \A s \in Range(b.servers) : s.address # ""

\* Without the lookup of the backend a frontend names.
ValidFrontendAlone(f, c) == f.name # "" /\ f.listen # "" /\ f.backend # "" /\ Parses(f.priority)
ValidFrontend(f, c) ==
    /\ f.name # "" /\ f.listen # "" /\ f.backend # ""
    /\ f.backend \in Names(c.backends)
    /\ Parses(f.priority)

validate(c) ==
    /\ c.frontends # <<>> /\ c.backends # <<>>
    /\ \A b \in Range(c.backends) : ValidBackend(b)
    /\ DistinctNames(c.backends)
    /\ \A f \in Range(c.frontends) : ValidFrontend(f, c)
    /\ DistinctNames(c.frontends)

\* The configurations that Load can return for the given files.
Accepted(files) == {c \in {defaults(f) : f \in files} : validate(c)}

-----------------------------------------------------------------------------
(* What Proxy.start and Frontend.Start take from a configuration           *)

Level(c, i) == ParsePriority(c.frontends[i].priority)

\* sort.SliceStable by descending priority: the frontend in place n.
AsListed(c, n) == n
Nth(c, n) ==
    CHOOSE i \in DOMAIN c.frontends :
        Cardinality({j \in DOMAIN c.frontends :
            Level(c, j) > Level(c, i) \/ (Level(c, j) = Level(c, i) /\ j < i)}) = n - 1

\* WorkerThreads * WorkerMultiplier / 3 in integers, but at least one.
Workers(c, i) == OrDefault((c.workerThreads * Level(c, i)) \div Rank["normal"], 1)

\* SO_REUSEPORT needs several workers to make several sockets, and then a fixed port.
Ephemeral(f) == f.listen = ":0"
SeveralPorts(c, i) == c.reusePort /\ Workers(c, i) > 1 /\ Ephemeral(c.frontends[i])

\* Two sockets on one fixed address need SO_REUSEPORT.
Conflict(c, i, j) ==
    /\ ~c.reusePort
    /\ c.frontends[i].listen = c.frontends[j].listen
    /\ ~Ephemeral(c.frontends[i])
=============================================================================

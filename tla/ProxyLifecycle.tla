--------------------------- MODULE ProxyLifecycle ---------------------------
(***************************************************************************)
(* internal/proxy/proxy.go: the main goroutine that starts, stops and      *)
(* reloads all components on signals, with the goroutines it has to        *)
(* outlive: the health checkers (internal/healthcheck) and the metrics     *)
(* server (internal/metrics).                                              *)
(*                                                                         *)
(* Every start builds a new generation of components; p keeps one pointer  *)
(* per kind.  Frontends start and stop in one step each: Pipeline has the  *)
(* detail.  Composed with Config: every start works from a file that Load  *)
(* has accepted.  All files name one metrics address, the worst case.      *)
(***************************************************************************)
EXTENDS Config

CONSTANTS
    Files,          \* what the configuration file may hold
    Servers,        \* servers of its backend pool
    EnvFailures,    \* names, sockets and ports can fail to resolve, open or bind
    MaxGen,         \* bound: generations
    MaxSignals      \* bound: signals

\* What Load can return.
Loadable == Accepted(Files)

ASSUME FilesAssumption == Files \subseteq FileType /\ Loadable # {}
ASSUME EnvAssumption == EnvFailures \in BOOLEAN
ASSUME LifecycleBoundsAssumption == MaxGen \in Nat \ {0} /\ MaxSignals \in Nat

VARIABLES
    pc,         \* where the main goroutine stands in Run, start, stop or reload
    goal,       \* what stop was called for
    step,       \* how far stop has come in StopOrder
    gen,        \* the generation start builds or has built
    cfg,        \* p.cfg
    failure,    \* history: why the last start failed
    p,          \* the generation p.sessions, p.metrics and p.hcCancel belong to
    started,    \* frontends of generation gen in p.frontends
    frontends,  \* running frontends, by generation
    reapers,    \* generations whose session table has a running reaper
    metrics,    \* each generation's metrics server
    probing,    \* each generation's probes under way
    checker,    \* each generation's health checker
    cancelled,  \* generations whose hcCancel was called
    unhealthy,  \* each generation's servers with Healthy false
    sigCh,      \* the signal channel
    termSent,   \* a SIGINT or SIGTERM was sent to the process
    signals     \* signals sent so far

mainVars    == <<pc, goal, step, gen, cfg, failure, p, started>>
checkerVars == <<probing, checker, unhealthy>>
signalVars  == <<sigCh, termSent, signals>>
vars == <<mainVars, frontends, reapers, metrics, checkerVars, cancelled, signalVars>>

Gens == 1..MaxGen

NumFrontends == Len(cfg.frontends)

\* The order of Proxy.stop.
StopOrderCheckersFirst == <<"hcCancel", "hcWait", "frontends", "metrics", "sessions">>
StopOrder == <<"frontends", "hcCancel", "hcWait", "metrics", "sessions">>

LifecycleTypeOK ==
    /\ pc \in {"pools", "sessions", "metrics", "checkers", "frontends", "wait",
               "load", "stop", "exited", "failed"}
    /\ goal \in {"none", "exit", "reload"}
    /\ step \in 1..Len(StopOrder)
    /\ gen \in Gens
    /\ cfg \in Loadable
    /\ failure \in {"", "env", "metrics", "priority", "backend", "ports", "listen"}
    /\ p \in [{"sessions", "metrics", "hcCancel"} -> 0..gen]
    /\ started \in Nat
    /\ frontends \subseteq Gens \X Nat
    /\ reapers \subseteq Gens
    /\ metrics \in [Gens -> {"none", "bound", "serving", "closing", "closed"}]
    /\ probing \in [Gens -> SUBSET Servers]
    /\ checker \in [Gens -> {"none", "probing", "idle", "done"}]
    /\ cancelled \subseteq 0..gen
    /\ unhealthy \in [Gens -> SUBSET Servers]
    /\ sigCh \in Seq({"hup", "term"}) /\ Len(sigCh) <= 1
    /\ termSent \in BOOLEAN
    /\ signals \in 0..MaxSignals

Init ==
    /\ pc = "pools"
    /\ goal = "none"
    /\ step = 1
    /\ gen = 1
    /\ cfg \in Loadable
    /\ failure = ""
    /\ p = [x \in {"sessions", "metrics", "hcCancel"} |-> 0]
    /\ started = 0
    /\ frontends = {}
    /\ reapers = {}
    /\ metrics = [g \in Gens |-> "none"]
    /\ probing = [g \in Gens |-> {}]
    /\ checker = [g \in Gens |-> "none"]
    /\ cancelled = {}
    /\ unhealthy = [g \in Gens |-> {}]
    /\ sigCh = <<>>
    /\ termSent = FALSE
    /\ signals = 0

-----------------------------------------------------------------------------
(* start                                                                   *)

\* start returns an error: Run gives up the first time and carries on later.
StartFailsForGood(why) == pc' = "failed" /\ failure' = why
StartFails(why) ==
    /\ pc' = IF gen = 1 THEN "failed" ELSE "wait"
    /\ failure' = why
StartGoesTo(l) == pc' = l /\ UNCHANGED failure

\* NewPool for every backend, healthy until probed.
StartPools ==
    /\ pc = "pools"
    /\ \/ StartGoesTo("sessions")
       \/ EnvFailures /\ StartFails("env")
    /\ UNCHANGED <<goal, step, gen, cfg, p, started, frontends, reapers, metrics,
                   checkerVars, cancelled, signalVars>>

StartSessions ==
    /\ pc = "sessions"
    /\ StartGoesTo("metrics")
    /\ p' = [p EXCEPT !["sessions"] = gen, !["metrics"] = gen]
    /\ reapers' = reapers \cup {gen}
    /\ UNCHANGED <<goal, step, gen, cfg, started, frontends, metrics, checkerVars,
                   cancelled, signalVars>>

\* An earlier generation's listener still holds the metrics address.
AddressInUse == \E g \in Gens : metrics[g] \in {"bound", "serving", "closing"}

\* Server.Start: Listen, and a goroutine for Serve.
StartMetrics ==
    /\ pc = "metrics"
    /\ \/ /\ ~AddressInUse
          /\ metrics' = [metrics EXCEPT ![gen] = "bound"]
          /\ StartGoesTo("checkers")
       \/ /\ AddressInUse \/ EnvFailures
          /\ StartFails("metrics")
          /\ UNCHANGED metrics
    /\ UNCHANGED <<goal, step, gen, cfg, p, started, frontends, reapers, checkerVars,
                   cancelled, signalVars>>

\* A goroutine for Checker.Run, which returns at once if checks are disabled.
StartCheckers ==
    /\ pc = "checkers"
    /\ StartGoesTo("frontends")
    /\ p' = [p EXCEPT !["hcCancel"] = gen]
    /\ \/ /\ checker' = [checker EXCEPT ![gen] = "probing"]
          /\ probing' = [probing EXCEPT ![gen] = Servers]
       \/ /\ checker' = [checker EXCEPT ![gen] = "done"]
          /\ UNCHANGED probing
    /\ UNCHANGED <<goal, step, gen, cfg, started, frontends, reapers, metrics,
                   unhealthy, cancelled, signalVars>>

\* All priorities are parsed before the first frontend starts.
Unparsed == \E f \in Range(cfg.frontends) : ~Parses(f.priority)

\* Why the frontend after the first n cannot start; the environment aside, all of it
\* lies in the configuration.
Obstacles(n) ==
    LET i   == Nth(cfg, n + 1)
        why == [priority |-> Unparsed,
                backend  |-> cfg.frontends[i].backend \notin Names(cfg.backends),
                ports    |-> SeveralPorts(cfg, i),
                listen   |-> \E m \in 1..n : Conflict(cfg, Nth(cfg, m), i)]
    IN  {w \in DOMAIN why : why[w]}

\* The frontends one by one; the first that fails ends start.
StartFrontends ==
    /\ pc = "frontends"
    /\ \/ /\ started < NumFrontends
          /\ Obstacles(started) = {}
          /\ started' = started + 1
          /\ frontends' = frontends \cup {<<gen, started + 1>>}
          /\ UNCHANGED <<pc, failure>>
       \/ /\ started < NumFrontends
          /\ \E why \in Obstacles(started) \cup (IF EnvFailures THEN {"env"} ELSE {}) : StartFails(why)
          /\ UNCHANGED <<started, frontends>>
       \/ /\ started = NumFrontends
          /\ StartGoesTo("wait")
          /\ UNCHANGED <<started, frontends>>
    /\ UNCHANGED <<goal, step, gen, cfg, p, reapers, metrics, checkerVars, cancelled,
                   signalVars>>

-----------------------------------------------------------------------------
(* stop and reload                                                         *)

StopFor(g) == pc' = "stop" /\ goal' = g /\ step' = 1

\* Where stop goes when one of its steps is done.
StopNext ==
    \/ /\ step < Len(StopOrder)
       /\ step' = step + 1
       /\ UNCHANGED <<pc, gen, failure, started>>
    \/ /\ step = Len(StopOrder)
       /\ step' = 1
       /\ \/ /\ goal = "exit"
             /\ pc' = "exited"
             /\ UNCHANGED <<gen, failure, started>>
          \/ /\ goal = "reload"
             /\ pc' = "pools"
             /\ gen' = gen + 1
             /\ failure' = ""
             /\ started' = 0

StopAt(s) == pc = "stop" /\ StopOrder[step] = s

StopFrontends ==
    /\ StopAt("frontends")
    /\ frontends' = frontends \ {<<gen, i>> : i \in 1..started}
    /\ StopNext
    /\ UNCHANGED <<goal, cfg, p, reapers, metrics, checkerVars, cancelled, signalVars>>

CancelForgotten == cancelled
Cancel == cancelled \cup {p["hcCancel"]}

StopCheckers ==
    /\ StopAt("hcCancel")
    /\ cancelled' = Cancel
    /\ StopNext
    /\ UNCHANGED <<goal, cfg, p, frontends, reapers, metrics, checkerVars, signalVars>>

\* hcWg.Wait
WaitCheckers ==
    /\ StopAt("hcWait")
    /\ \A g \in Gens : checker[g] \in {"none", "done"}
    /\ StopNext
    /\ UNCHANGED <<goal, cfg, p, frontends, reapers, metrics, checkerVars, cancelled,
                   signalVars>>

\* Server.Close closes the listener if Serve has registered it.
StopMetrics ==
    /\ StopAt("metrics")
    /\ metrics' = [metrics EXCEPT ![p["metrics"]] =
          CASE @ = "bound" -> "closing" [] @ = "serving" -> "closed" [] OTHER -> @]
    /\ StopNext
    /\ UNCHANGED <<goal, cfg, p, frontends, reapers, checkerVars, cancelled, signalVars>>

TableLeftRunning == reapers
TableStopped == reapers \ {p["sessions"]}

StopSessions ==
    /\ StopAt("sessions")
    /\ reapers' = TableStopped
    /\ StopNext
    /\ UNCHANGED <<goal, cfg, p, frontends, metrics, checkerVars, cancelled, signalVars>>

\* reload reads the file before it stops anything, and does nothing else if it
\* cannot be read or is refused.  stop does not look at p.cfg.
Load ==
    /\ pc = "load"
    /\ \/ gen < MaxGen /\ cfg' \in Loadable /\ StopFor("reload")
       \/ pc' = "wait" /\ UNCHANGED <<goal, step, cfg>>
    /\ UNCHANGED <<gen, failure, p, started, frontends, reapers, metrics, checkerVars,
                   cancelled, signalVars>>

\* The signal loop of Run.
TakeSignal ==
    /\ pc = "wait"
    /\ sigCh # <<>>
    /\ sigCh' = Tail(sigCh)
    /\ \/ Head(sigCh) = "hup" /\ pc' = "load" /\ UNCHANGED <<goal, step>>
       \/ Head(sigCh) = "term" /\ StopFor("exit")
    /\ UNCHANGED <<gen, cfg, failure, p, started, frontends, reapers, metrics, checkerVars,
                   cancelled, termSent, signals>>

-----------------------------------------------------------------------------
(* The other goroutines, which end with the process                        *)

Alive == pc \notin {"exited", "failed"}

\* http.Server.Serve runs; on a closed server it closes the listener and returns.
Serve(g) ==
    /\ Alive
    /\ metrics[g] \in {"bound", "closing"}
    /\ metrics' = [metrics EXCEPT ![g] = IF @ = "bound" THEN "serving" ELSE "closed"]
    /\ UNCHANGED <<mainVars, frontends, reapers, checkerVars, cancelled, signalVars>>

\* A probe ends and SetHealthy records it.  An answer or a timeout means healthy,
\* any other error unhealthy, and so does a timeout after the cancellation.
Probe(g, s) ==
    /\ Alive
    /\ s \in probing[g]
    /\ probing' = [probing EXCEPT ![g] = @ \ {s}]
    /\ \/ unhealthy' = [unhealthy EXCEPT ![g] = @ \ {s}]
       \/ unhealthy' = [unhealthy EXCEPT ![g] = @ \cup {s}]
    /\ UNCHANGED <<mainVars, frontends, reapers, metrics, checker, cancelled, signalVars>>

\* wg.Wait at the end of checkAll.
Checked(g) ==
    /\ Alive
    /\ checker[g] = "probing"
    /\ probing[g] = {}
    /\ checker' = [checker EXCEPT ![g] = "idle"]
    /\ UNCHANGED <<mainVars, frontends, reapers, metrics, probing, unhealthy,
                   cancelled, signalVars>>

\* The select of Checker.Run: the next round, or the end.
CheckerTick(g) ==
    /\ Alive
    /\ checker[g] = "idle"
    /\ checker' = [checker EXCEPT ![g] = "probing"]
    /\ probing' = [probing EXCEPT ![g] = Servers]
    /\ UNCHANGED <<mainVars, frontends, reapers, metrics, unhealthy, cancelled, signalVars>>

CheckerDone(g) ==
    /\ Alive
    /\ checker[g] = "idle"
    /\ g \in cancelled
    /\ checker' = [checker EXCEPT ![g] = "done"]
    /\ UNCHANGED <<mainVars, frontends, reapers, metrics, probing, unhealthy,
                   cancelled, signalVars>>

Slot == Len(sigCh) < 1

\* signal.Notify is in force once the first start has returned.
Notified == Alive /\ (gen > 1 \/ pc \in {"wait", "load", "stop"})

\* The runtime relays a signal without blocking: a full channel loses it.
Signal(s) ==
    /\ Notified
    /\ signals < MaxSignals
    /\ signals' = signals + 1
    /\ termSent' = (termSent \/ s = "term")
    /\ \/ Slot /\ sigCh' = Append(sigCh, s)
       \/ ~Slot /\ UNCHANGED sigCh
    /\ UNCHANGED <<mainVars, frontends, reapers, metrics, checkerVars, cancelled>>

-----------------------------------------------------------------------------
MainStep ==
    \/ StartPools \/ StartSessions \/ StartMetrics \/ StartCheckers \/ StartFrontends
    \/ StopFrontends \/ StopCheckers \/ WaitCheckers \/ StopMetrics \/ StopSessions
    \/ Load \/ TakeSignal

Next ==
    \/ MainStep
    \/ \E g \in Gens :
          \/ Serve(g)
          \/ \E s \in Servers : Probe(g, s)
          \/ Checked(g) \/ CheckerTick(g) \/ CheckerDone(g)
    \/ \E s \in {"hup", "term"} : Signal(s)

Spec == Init /\ [][Next]_vars

\* Goroutines are scheduled, probes time out, and the select of a cancelled
\* checker cannot pick the ticker for ever.
Fairness ==
    /\ WF_vars(MainStep)
    /\ \A g \in Gens :
          /\ WF_vars(Serve(g))
          /\ \A s \in Servers : WF_vars(Probe(g, s))
          /\ WF_vars(Checked(g))
          /\ SF_vars(CheckerDone(g))

FairSpec == Spec /\ Fairness

-----------------------------------------------------------------------------
(* Properties                                                              *)

\* However starts fail and reloads follow each other, what runs can be stopped:
\* a running frontend, reaper or checker is one that p points to, and after the
\* last stop (proxy.go:194) none is left, nor a metrics listener once Serve ran.
NoOrphan ==
    pc # "failed" =>
        /\ frontends \subseteq {<<gen, i>> : i \in 1..started}
        /\ reapers \subseteq {p["sessions"]}
        /\ \A g \in Gens : /\ checker[g] \in {"probing", "idle"} => g = p["hcCancel"]
                           /\ metrics[g] \in {"bound", "serving"} => g = p["metrics"]
        /\ pc \in {"exited", "pools"} =>
              /\ frontends = {} /\ reapers = {}
              /\ \A g \in Gens : /\ checker[g] \notin {"probing", "idle"}
                                 /\ metrics[g] \notin {"bound", "serving"}

Up == {Nth(cfg, i) : i \in {n \in 1..NumFrontends : <<gen, n>> \in frontends}}

\* While the proxy waits for signals it serves its configuration: all frontends
\* run, or the last start failed, and then no frontend runs while one of higher
\* priority does not (proxy.go:161).
RunsItsConfig ==
    pc = "wait" =>
        /\ Up = DOMAIN cfg.frontends \/ failure # ""
        /\ \A i \in Up, j \in DOMAIN cfg.frontends \ Up : Level(cfg, i) >= Level(cfg, j)

\* What validate accepts (config.go:261) start does not refuse: a start never fails
\* for a priority or a backend name (proxy.go:155, 166), whichever file a reload
\* finds.  Other things validate does not look at can still fail: a listen address
\* used twice, or reuse_port with port 0.
AcceptedConfigStarts == failure \notin {"priority", "backend"}

\* A probe that is cut off by the cancellation reports its server unhealthy
\* (healthcheck.go:146); by then no frontend uses that pool any more.
CancelledProbeHarmless ==
    [][\A g \in Gens :
          g \in cancelled /\ ~(unhealthy'[g] \subseteq unhealthy[g])
              => \A f \in frontends : f[1] # g]_vars

\* A shutdown signal that got into the channel ends the process, also when it
\* comes during a reload: stop (proxy.go:194) never waits for ever.
AcceptedTermExits == sigCh = <<"term">> ~> pc = "exited"

\* A reload ends (proxy.go:212): the time without frontends between its stop and its
\* start is finite, whatever the checkers were doing and however start fails.
ReloadEnds == pc = "load" ~> pc = "wait"

\* "SIGINT / SIGTERM: graceful shutdown" (README.md:167).
TermHonoured == termSent ~> pc = "exited"
=============================================================================

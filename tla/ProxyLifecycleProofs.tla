------------------------ MODULE ProxyLifecycleProofs ------------------------
(***************************************************************************)
(* What TLAPS proves of ProxyLifecycle and of the operators of Config it   *)
(* uses, for every set of configuration files, every number of             *)
(* generations and signals, and with or without failures outside.          *)
(***************************************************************************)
EXTENDS ProxyLifecycle, FiniteSetTheorems, SequenceTheorems, TLAPS

-----------------------------------------------------------------------------
(* Configurations                                                          *)

\* What every configuration that Load returns has.
LEMMA LoadableConfig ==
  ASSUME NEW c \in Loadable
  PROVE  /\ \E n \in Nat \ {0} : DOMAIN c.frontends = 1..n /\ Len(c.frontends) = n
         /\ \A i \in DOMAIN c.frontends :
               /\ Parses(c.frontends[i].priority)
               /\ c.frontends[i].backend \in Names(c.backends)
               /\ Level(c, i) \in 1..5
<1>1. PICK f \in Files : c = defaults(f)
  BY DEF Loadable, Accepted
<1>2. validate(c)
  BY DEF Loadable, Accepted
<1>3. f \in FileType
  BY FilesAssumption
<1>4. c.frontends = [i \in DOMAIN f.frontends |-> DefaultFrontend(f.frontends[i])]
  BY <1>1, <1>3 DEF defaults, FileType
<1>5. f.frontends \in Seq(FrontendType)
  BY <1>3 DEF FileType
<1> DEFINE n == Len(f.frontends)
<1>6. n \in Nat /\ DOMAIN f.frontends = 1..n
  BY <1>5
<1>7. DOMAIN c.frontends = 1..n
  BY <1>4, <1>6
<1>8. Len(c.frontends) = n /\ c.frontends \in Seq(Range(c.frontends))
  <2>1. c.frontends = [i \in 1..n |-> c.frontends[i]]
    BY <1>4, <1>6
  <2> QED
    BY <1>6, <1>7, <2>1 DEF Range
<1>9. n # 0
  BY <1>2, <1>6, <1>7, <1>8 DEF validate
<1>10. ASSUME NEW i \in DOMAIN c.frontends
       PROVE  /\ Parses(c.frontends[i].priority)
              /\ c.frontends[i].backend \in Names(c.backends)
  BY <1>2 DEF validate, ValidFrontend, Range
<1>11. ASSUME NEW i \in DOMAIN c.frontends PROVE Level(c, i) \in 1..5
  <2> DEFINE v == Folded(c.frontends[i].priority)
  <2>1. v \in {"bulk", "low", "normal", "high", "critical", ""}
    BY <1>10 DEF Parses, Rank
  <2> HIDE DEF v
  <2>2. OrElse(v, "normal") \in {"bulk", "low", "normal", "high", "critical"}
    BY <2>1 DEF OrElse
  <2>3. Rank[OrElse(v, "normal")] \in 1..5
    BY <2>2 DEF Rank
  <2> QED
    BY <2>3 DEF Level, ParsePriority, v
<1> QED
  BY <1>6, <1>7, <1>8, <1>9, <1>10, <1>11

\* The frontends that start before frontend i.
Before(c, i) ==
    {j \in DOMAIN c.frontends :
        Level(c, j) > Level(c, i) \/ (Level(c, j) = Level(c, i) /\ j < i)}

\* The sort puts exactly one frontend in each place, and the higher levels first.
LEMMA NthFrontend ==
  ASSUME NEW c \in Loadable, NEW n \in 1..Len(c.frontends)
  PROVE  Nth(c, n) \in DOMAIN c.frontends /\ Cardinality(Before(c, Nth(c, n))) = n - 1
<1>1. PICK len \in Nat \ {0} : DOMAIN c.frontends = 1..len /\ Len(c.frontends) = len
  BY LoadableConfig
<1>2. \A i \in 1..len : Level(c, i) \in 1..5
  BY <1>1, LoadableConfig
<1>3. \A i \in 1..len : /\ Before(c, i) \subseteq (1..len) \ {i}
                        /\ IsFiniteSet(Before(c, i))
                        /\ Cardinality(Before(c, i)) \in 0..(len - 1)
  <2> SUFFICES ASSUME NEW i \in 1..len
               PROVE  /\ Before(c, i) \subseteq (1..len) \ {i}
                      /\ IsFiniteSet(Before(c, i))
                      /\ Cardinality(Before(c, i)) \in 0..(len - 1)
    OBVIOUS
  <2>1. Before(c, i) \subseteq (1..len) \ {i}
    BY <1>1, <1>2 DEF Before
  <2>2. IsFiniteSet(1..len) /\ Cardinality(1..len) = len
    BY FS_Interval
  <2> DEFINE S == 1..len
  <2> HIDE DEF S
  <2>a. i \in S /\ IsFiniteSet(S) /\ Cardinality(S) = len
    BY <2>2 DEF S
  <2>b. IsFiniteSet(S \ {i}) /\ Cardinality(S \ {i}) = len - 1
    BY <2>a, FS_RemoveElement
  <2>3. IsFiniteSet((1..len) \ {i}) /\ Cardinality((1..len) \ {i}) = len - 1
    BY <2>b DEF S
  <2> QED
    BY <2>1, <2>3, FS_Subset, FS_CardinalityType
<1>4. \A i, j \in 1..len : i # j => Cardinality(Before(c, i)) # Cardinality(Before(c, j))
  <2>1. ASSUME NEW i \in 1..len, NEW j \in 1..len, j \in Before(c, i)
        PROVE  Cardinality(Before(c, j)) < Cardinality(Before(c, i))
    <3>1. Before(c, j) \subseteq Before(c, i) /\ j \notin Before(c, j)
      BY <1>1, <1>2, <2>1 DEF Before
    <3>2. Before(c, j) # Before(c, i)
      BY <2>1, <3>1
    <3> QED
      BY <1>3, <3>1, <3>2, FS_Subset, FS_CardinalityType
  <2>2. \A i, j \in 1..len : i # j => i \in Before(c, j) \/ j \in Before(c, i)
    BY <1>1, <1>2 DEF Before
  <2>3. \A i \in 1..len : Cardinality(Before(c, i)) \in Int
    BY <1>3
  <2> QED
    BY <2>1, <2>2, <2>3
<1> DEFINE rank == [i \in 1..len |-> Cardinality(Before(c, i))]
<1>5. rank \in Injection(1..len, 0..(len - 1))
  <2>1. rank \in [1..len -> 0..(len - 1)]
    BY <1>3
  <2>2. \A i, j \in 1..len : rank[i] = rank[j] => i = j
    BY <1>4
  <2> HIDE DEF rank
  <2> QED
    BY <2>1, <2>2 DEF Injection, IsInjective
<1>6. IsFiniteSet(0..(len - 1)) /\ Cardinality(0..(len - 1)) = len /\ Cardinality(1..len) = len
  BY FS_Interval
<1>7. rank \in Surjection(1..len, 0..(len - 1))
  <2> HIDE DEF rank
  <2> QED
    BY <1>5, <1>6, FS_Injection
<1>8. \E i \in 1..len : rank[i] = n - 1
  <2>1. n - 1 \in 0..(len - 1)
    BY <1>1
  <2> HIDE DEF rank
  <2> QED
    BY <1>7, <2>1 DEF Surjection
<1>9. \E i \in DOMAIN c.frontends : Cardinality(Before(c, i)) = n - 1
  BY <1>1, <1>8
<1> QED
  BY <1>9 DEF Nth, Before

\* ... so frontend after frontend is started in descending priority, each of them once.
LEMMA NthDescends ==
  ASSUME NEW c \in Loadable
  PROVE  /\ \A m, n \in 1..Len(c.frontends) : m < n => Level(c, Nth(c, m)) >= Level(c, Nth(c, n))
         /\ {Nth(c, n) : n \in 1..Len(c.frontends)} = DOMAIN c.frontends
<1>1. PICK len \in Nat \ {0} : DOMAIN c.frontends = 1..len /\ Len(c.frontends) = len
  BY LoadableConfig
<1>2. \A i \in 1..len : Level(c, i) \in 1..5
  BY <1>1, LoadableConfig
<1>3. \A n \in 1..len : Nth(c, n) \in 1..len /\ Cardinality(Before(c, Nth(c, n))) = n - 1
  BY <1>1, NthFrontend
<1>f. \A i \in 1..len : IsFiniteSet(Before(c, i))
  BY <1>1, FS_Interval, FS_Subset DEF Before
<1>4. ASSUME NEW m \in 1..len, NEW n \in 1..len, m < n,
             ~(Level(c, Nth(c, m)) >= Level(c, Nth(c, n)))
      PROVE  FALSE
  <2> DEFINE a == Nth(c, m)
             b == Nth(c, n)
  <2>1. a \in 1..len /\ b \in 1..len /\ Level(c, a) \in Int /\ Level(c, b) \in Int
    BY <1>2, <1>3
  <2>2. Level(c, b) > Level(c, a)
    BY <1>4, <2>1
  <2> HIDE DEF a, b
  <2>3. Before(c, b) \subseteq Before(c, a)
    BY <1>1, <1>2, <2>1, <2>2 DEF Before
  <2>4. Cardinality(Before(c, b)) <= Cardinality(Before(c, a))
    BY <1>f, <2>1, <2>3, FS_Subset
  <2> QED
    BY <1>3, <1>4, <2>4 DEF a, b
<1> DEFINE nth == [n \in 1..len |-> Nth(c, n)]
<1>5. nth \in Injection(1..len, 1..len)
  <2>1. nth \in [1..len -> 1..len]
    BY <1>3
  <2>2. \A m, n \in 1..len : nth[m] = nth[n] => m = n
    <3> SUFFICES ASSUME NEW m \in 1..len, NEW n \in 1..len, Nth(c, m) = Nth(c, n) PROVE m = n
      OBVIOUS
    <3>1. m - 1 = n - 1
      BY <1>3
    <3> QED
      BY <3>1
  <2> HIDE DEF nth
  <2> QED
    BY <2>1, <2>2 DEF Injection, IsInjective
<1>6. nth \in Surjection(1..len, 1..len)
  <2> HIDE DEF nth
  <2> QED
    BY <1>5, FS_Injection, FS_Interval
<1>7. \A i \in 1..len : \E n \in 1..len : Nth(c, n) = i
  BY <1>6 DEF Surjection
<1> QED
  BY <1>1, <1>3, <1>4, <1>7

-----------------------------------------------------------------------------
(* The main goroutine                                                      *)

\* The steps of stop.
LEMMA StopSteps ==
  /\ Len(StopOrder) = 5
  /\ \A s \in 1..5 : /\ StopOrder[s] = "frontends" <=> s = 1
                     /\ StopOrder[s] = "hcCancel"  <=> s = 2
                     /\ StopOrder[s] = "hcWait"    <=> s = 3
                     /\ StopOrder[s] = "metrics"   <=> s = 4
                     /\ StopOrder[s] = "sessions"  <=> s = 5
  BY DEF StopOrder

StopPast(n) == pc = "exited" \/ (pc = "stop" /\ step > n)

\* The frontends that run are those of p.frontends, until stop has stopped them; a new
\* generation starts with none.
FrontendsKnown ==
    /\ pc \in {"pools", "sessions", "metrics", "checkers"} => started = 0
    /\ pc # "failed" => frontends = IF StopPast(1) THEN {} ELSE {<<gen, i>> : i \in 1..started}

ReapersKnown ==
    /\ reapers \subseteq {p["sessions"]}
    /\ pc \in {"pools", "sessions", "exited"} => reapers = {}

CheckersKnown ==
    \A g \in Gens :
        checker[g] \in {"probing", "idle"} =>
            /\ g = p["hcCancel"]
            /\ pc \notin {"pools", "sessions", "metrics", "checkers"} /\ ~StopPast(3)

MetricsKnown ==
    /\ pc = "metrics" => p["metrics"] = gen
    /\ \A g \in Gens :
          metrics[g] \in {"bound", "serving"} =>
              /\ g = p["metrics"]
              /\ pc \notin {"pools", "sessions"} /\ ~StopPast(4)

\* A generation is cancelled after its frontends have stopped.
CancelledPast == ~StopPast(2) => \A g \in cancelled : g < gen

\* Load does not go beyond the last generation.
ReloadBounded == pc = "stop" /\ goal = "reload" => gen < MaxGen

\* start goes through the frontends to the last one unless it fails, and never for what
\* validate has checked.
StartComplete ==
    /\ pc \notin {"stop", "exited", "failed"} => started <= NumFrontends
    /\ pc \in {"wait", "load"} => failure # "" \/ started = NumFrontends
    /\ failure \notin {"priority", "backend"}

LifecycleInv ==
    /\ LifecycleTypeOK
    /\ FrontendsKnown
    /\ ReapersKnown
    /\ CheckersKnown
    /\ MetricsKnown
    /\ CancelledPast
    /\ ReloadBounded
    /\ StartComplete

\* The type invariant in three parts.
MainTypes ==
    /\ pc \in {"pools", "sessions", "metrics", "checkers", "frontends", "wait",
               "load", "stop", "exited", "failed"}
    /\ goal \in {"none", "exit", "reload"}
    /\ step \in 1..Len(StopOrder)
    /\ gen \in Gens
    /\ cfg \in Loadable
    /\ failure \in {"", "env", "metrics", "priority", "backend", "ports", "listen"}
    /\ p \in [{"sessions", "metrics", "hcCancel"} -> 0..gen]
    /\ started \in Nat

ComponentTypes ==
    /\ frontends \subseteq Gens \X Nat
    /\ reapers \subseteq Gens
    /\ metrics \in [Gens -> {"none", "bound", "serving", "closing", "closed"}]
    /\ probing \in [Gens -> SUBSET Servers]
    /\ checker \in [Gens -> {"none", "probing", "idle", "done"}]
    /\ cancelled \subseteq 0..gen
    /\ unhealthy \in [Gens -> SUBSET Servers]

SignalTypes ==
    /\ sigCh \in Seq({"hup", "term"}) /\ Len(sigCh) <= 1
    /\ termSent \in BOOLEAN
    /\ signals \in 0..MaxSignals

LEMMA TypeParts ==
  /\ LifecycleTypeOK <=> MainTypes /\ ComponentTypes /\ SignalTypes
  /\ LifecycleTypeOK' <=> MainTypes' /\ ComponentTypes' /\ SignalTypes'
  BY Zenon DEF LifecycleTypeOK, MainTypes, ComponentTypes, SignalTypes

LEMMA LifecycleInvInit == Init => LifecycleInv
<1> SUFFICES ASSUME Init PROVE LifecycleInv
  OBVIOUS
<1>1. termSent \in BOOLEAN
  BY Zenon DEF Init
<1>2. LifecycleTypeOK
  <2>1. MainTypes
    <3>1. 1 \in 1..MaxGen /\ 1 \in 1..5 /\ 0 \in 0..1
      BY LifecycleBoundsAssumption
    <3> QED
      BY <3>1, StopSteps DEF Init, MainTypes, Gens
  <2>2. ComponentTypes
    BY DEF Init, ComponentTypes
  <2>3. SignalTypes
    <3>1. 0 \in 0..MaxSignals /\ <<>> \in Seq({"hup", "term"}) /\ Len(<<>>) <= 1
      BY LifecycleBoundsAssumption
    <3>2. sigCh = <<>> /\ signals = 0
      BY Zenon DEF Init
    <3> QED
      BY <1>1, <3>1, <3>2, Zenon DEF SignalTypes
  <2> QED
    BY <2>1, <2>2, <2>3, TypeParts
<1>3. FrontendsKnown
  <2>1. {<<gen, i>> : i \in 1..0} = {}
    OBVIOUS
  <2>2. pc = "pools" /\ started = 0 /\ frontends = {}
    BY DEF Init
  <2> QED
    BY <2>1, <2>2 DEF FrontendsKnown, StopPast
<1>4. \A g \in Gens : checker[g] = "none" /\ metrics[g] = "none"
  BY DEF Init
<1>5. ReapersKnown /\ CancelledPast /\ ReloadBounded
  BY DEF Init, ReapersKnown, CancelledPast, ReloadBounded
<1>6. CheckersKnown /\ MetricsKnown
  <2>1. pc = "pools"
    BY DEF Init
  <2> QED
    BY <1>4, <2>1 DEF CheckersKnown, MetricsKnown
<1>7. StartComplete
  <2>1. cfg \in Loadable /\ started = 0 /\ pc = "pools" /\ failure = ""
    BY DEF Init
  <2>2. NumFrontends \in Nat
    BY <2>1, LoadableConfig DEF NumFrontends
  <2> QED
    <3>0. started = 0
      BY <2>1, Zenon
    <3>1. started <= NumFrontends
      BY <2>2, <3>0
    <3> QED
      BY <2>1, <3>1 DEF StartComplete
<1> QED
  BY <1>2, <1>3, <1>5, <1>6, <1>7 DEF LifecycleInv

\* Where stop goes: to its next step, or out of stop with its last one.
LEMMA StopGoes ==
  ASSUME LifecycleInv, pc = "stop", StopNext
  PROVE  \/ /\ step < 5 /\ step' = step + 1 /\ pc' = "stop"
            /\ gen' = gen /\ failure' = failure /\ started' = started
         \/ /\ step = 5 /\ step' = 1 /\ pc' = "exited"
            /\ gen' = gen /\ failure' = failure /\ started' = started
         \/ /\ step = 5 /\ step' = 1 /\ pc' = "pools"
            /\ gen' = gen + 1 /\ gen < MaxGen /\ failure' = "" /\ started' = 0
  <1>1. step \in 1..5 /\ goal \in {"none", "exit", "reload"}
    BY StopSteps, TypeParts DEF LifecycleInv, MainTypes
  <1> QED
    BY <1>1, StopSteps DEF LifecycleInv, ReloadBounded, StopNext

LEMMA LifecycleTypeStep == LifecycleInv /\ [Next]_vars => LifecycleTypeOK'
<1> SUFFICES ASSUME LifecycleInv, [Next]_vars PROVE MainTypes' /\ ComponentTypes' /\ SignalTypes'
  BY TypeParts
<1> USE DEF MainTypes, ComponentTypes
<1>m. MainTypes
  BY TypeParts DEF LifecycleInv
<1>c. ComponentTypes
  BY TypeParts DEF LifecycleInv
<1>s. SignalTypes
  BY TypeParts DEF LifecycleInv
<1>u. UNCHANGED signalVars => SignalTypes'
  BY <1>s, Zenon DEF SignalTypes, signalVars
<1>g. gen \in 1..MaxGen /\ gen \in Nat /\ MaxGen \in Nat /\ gen \in Gens /\ gen \in 0..gen
  <2>1. gen \in Gens
    BY <1>m, Zenon
  <2> QED
    BY <2>1, LifecycleBoundsAssumption DEF Gens
<1>l. Len(StopOrder) = 5 /\ 1 \in 1..5
  BY StopSteps
<1>1. CASE StartPools
  BY <1>1, <1>m, <1>c, <1>u DEF StartPools, StartGoesTo, StartFails, checkerVars
<1>2. CASE StartSessions
  BY <1>2, <1>m, <1>c, <1>u, <1>g DEF StartSessions, StartGoesTo, checkerVars
<1>3. CASE StartMetrics
  BY <1>3, <1>m, <1>c, <1>u DEF StartMetrics, StartGoesTo, StartFails, checkerVars
<1>4. CASE StartCheckers
  BY <1>4, <1>m, <1>c, <1>u, <1>g DEF StartCheckers, StartGoesTo, checkerVars
<1>5. CASE StartFrontends
  <2>1. Obstacles(started) \subseteq {"priority", "backend", "ports", "listen"}
    BY DEF Obstacles
  <2>2. pc' \in {"frontends", "wait", "failed"}
    BY <1>5 DEF StartFrontends, StartGoesTo, StartFails
  <2>3. failure' \in {"", "env", "metrics", "priority", "backend", "ports", "listen"}
    BY <1>5, <1>m, <2>1 DEF StartFrontends, StartGoesTo, StartFails
  <2>4. started' \in Nat /\ frontends' \subseteq Gens \X Nat
    <3>1. started \in Nat /\ frontends \subseteq Gens \X Nat
      BY <1>m, <1>c, Zenon
    <3>2. \/ started' = started /\ frontends' = frontends
          \/ started' = started + 1 /\ frontends' = frontends \cup {<<gen, started + 1>>}
      BY <1>5 DEF StartFrontends
    <3> QED
      BY <3>1, <3>2, <1>g
  <2> QED
    BY <1>5, <1>m, <1>c, <1>u, <2>2, <2>3, <2>4 DEF StartFrontends, checkerVars
<1>6. ASSUME pc = "stop", StopNext
      PROVE  /\ pc' \in {"stop", "exited", "pools"} /\ step' \in 1..Len(StopOrder) /\ gen' \in Gens
             /\ 0..gen \subseteq 0..gen' /\ started' \in Nat
             /\ failure' \in {"", "env", "metrics", "priority", "backend", "ports", "listen"}
  <2>1. step \in 1..Len(StopOrder)
    BY <1>m, Zenon
  <2>2. step \in 1..5 /\ step \in Int
    BY <2>1, <1>l
  <2>3. step' \in 1..Len(StopOrder)
    <3>1. step' = 1 \/ (step < 5 /\ step' = step + 1)
      BY <1>6, StopGoes, Zenon
    <3> QED
      BY <1>l, <2>2, <3>1
  <2>4. gen' = gen \/ (gen' = gen + 1 /\ gen < MaxGen)
    BY <1>6, StopGoes, Zenon
  <2>5. gen' \in Gens /\ 0..gen \subseteq 0..gen'
    BY <2>4, <1>g DEF Gens
  <2>6. started' = started \/ started' = 0
    BY <1>6, StopGoes, Zenon
  <2>7. failure' = failure \/ failure' = ""
    BY <1>6, StopGoes, Zenon
  <2>8. pc' \in {"stop", "exited", "pools"}
    BY <1>6, StopGoes
  <2>9. started \in Nat /\ failure \in {"", "env", "metrics", "priority", "backend", "ports", "listen"}
    BY <1>m, Zenon
  <2>10. started' \in Nat
    <3>1. started \in Nat /\ 0 \in Nat
      BY <2>9
    <3> QED
      BY <2>6, <3>1, Zenon
  <2>11. failure' \in {"", "env", "metrics", "priority", "backend", "ports", "listen"}
    BY <2>7, <2>9
  <2> HIDE DEF MainTypes, ComponentTypes
  <2> QED
    BY <2>3, <2>5, <2>8, <2>10, <2>11, Zenon
<1>p. ASSUME 0..gen \subseteq 0..gen', p' = p
      PROVE  p' \in [{"sessions", "metrics", "hcCancel"} -> 0..gen']
  BY <1>p, <1>m
<1>7. CASE StopFrontends
  BY <1>7, <1>6, <1>p, <1>m, <1>c, <1>u DEF StopFrontends, StopAt, checkerVars
<1>8. CASE StopCheckers
  <2>1. p["hcCancel"] \in 0..gen
    BY <1>m
  <2> QED
    BY <1>8, <1>6, <1>p, <1>m, <1>c, <1>u, <2>1 DEF StopCheckers, StopAt, Cancel, checkerVars
<1>9. CASE WaitCheckers
  BY <1>9, <1>6, <1>p, <1>m, <1>c, <1>u DEF WaitCheckers, StopAt, checkerVars
<1>10. CASE StopMetrics
  <2>1. metrics' \in [Gens -> {"none", "bound", "serving", "closing", "closed"}]
    BY <1>10, <1>c DEF StopMetrics
  <2> QED
    BY <1>10, <1>6, <1>p, <1>m, <1>c, <1>u, <2>1 DEF StopMetrics, StopAt, checkerVars
<1>11. CASE StopSessions
  BY <1>11, <1>6, <1>p, <1>m, <1>c, <1>u DEF StopSessions, StopAt, TableStopped, checkerVars
<1>12. CASE Load
  BY <1>12, <1>m, <1>c, <1>u, <1>l DEF Load, StopFor, checkerVars
<1>13. CASE TakeSignal
  <2>1. sigCh' \in Seq({"hup", "term"}) /\ Len(sigCh') <= 1
    BY <1>13, <1>s DEF TakeSignal, SignalTypes
  <2>2. SignalTypes'
    BY <1>13, <1>s, <2>1, Zenon DEF TakeSignal, SignalTypes
  <2>3. MainTypes'
    BY <1>13, <1>m, <1>l DEF TakeSignal, StopFor
  <2> QED
    BY <1>13, <1>c, <2>2, <2>3 DEF TakeSignal, checkerVars
<1>o. ASSUME UNCHANGED mainVars PROVE MainTypes' /\ gen' = gen
  BY <1>o, <1>m, Zenon DEF mainVars
<1>14. ASSUME NEW g \in Gens, Serve(g) PROVE MainTypes' /\ ComponentTypes' /\ SignalTypes'
  BY <1>14, <1>o, <1>c, <1>u DEF Serve, checkerVars
<1>15. ASSUME NEW g \in Gens, NEW s \in Servers, Probe(g, s)
       PROVE  MainTypes' /\ ComponentTypes' /\ SignalTypes'
  <2>1. probing' \in [Gens -> SUBSET Servers]
    BY <1>15, <1>c DEF Probe
  <2>2. unhealthy[g] \subseteq Servers
    BY <1>c
  <2>3. unhealthy' \in [Gens -> SUBSET Servers]
    BY <1>15, <1>c, <2>2 DEF Probe
  <2> QED
    BY <1>15, <1>o, <1>c, <1>u, <2>1, <2>3 DEF Probe
<1>16. ASSUME NEW g \in Gens, Checked(g) PROVE MainTypes' /\ ComponentTypes' /\ SignalTypes'
  BY <1>16, <1>o, <1>c, <1>u DEF Checked
<1>17. ASSUME NEW g \in Gens, CheckerTick(g) PROVE MainTypes' /\ ComponentTypes' /\ SignalTypes'
  BY <1>17, <1>o, <1>c, <1>u DEF CheckerTick
<1>18. ASSUME NEW g \in Gens, CheckerDone(g) PROVE MainTypes' /\ ComponentTypes' /\ SignalTypes'
  BY <1>18, <1>o, <1>c, <1>u DEF CheckerDone
<1>19. ASSUME NEW s \in {"hup", "term"}, Signal(s)
       PROVE  MainTypes' /\ ComponentTypes' /\ SignalTypes'
  <2>1. termSent' \in BOOLEAN
    BY <1>19, Zenon DEF Signal
  <2>2. signals' \in 0..MaxSignals
    BY <1>19, <1>s, LifecycleBoundsAssumption DEF Signal, SignalTypes
  <2>3. sigCh' \in Seq({"hup", "term"}) /\ Len(sigCh') <= 1
    BY <1>19, <1>s DEF Signal, Slot, SignalTypes
  <2>4. SignalTypes'
    BY <2>1, <2>2, <2>3, Zenon DEF SignalTypes
  <2> QED
    BY <1>19, <1>o, <1>c, <2>4 DEF Signal, checkerVars
<1>20. CASE UNCHANGED vars
  BY <1>20, <1>m, <1>c, <1>u, Zenon DEF vars, mainVars, checkerVars
<1> HIDE DEF MainTypes, ComponentTypes
<1> QED
  BY <1>1, <1>2, <1>3, <1>4, <1>5, <1>7, <1>8, <1>9, <1>10, <1>11, <1>12, <1>13, <1>14,
     <1>15, <1>16, <1>17, <1>18, <1>19, <1>20 DEF Next, MainStep
\* What an action that is not the main goroutine's leaves alone.
LEMMA OthersStep ==
  ASSUME LifecycleInv, UNCHANGED mainVars, frontends' = frontends, reapers' = reapers,
         cancelled' = cancelled
  PROVE  /\ FrontendsKnown' /\ ReapersKnown' /\ CancelledPast' /\ ReloadBounded' /\ StartComplete'
         /\ (checker' = checker => CheckersKnown') /\ (metrics' = metrics => MetricsKnown')
<1>1. FrontendsKnown'
  BY Zenon DEF LifecycleInv, mainVars, FrontendsKnown, StopPast
<1>2. ReapersKnown'
  BY Zenon DEF LifecycleInv, mainVars, ReapersKnown
<1>3. CancelledPast' /\ ReloadBounded'
  BY Zenon DEF LifecycleInv, mainVars, CancelledPast, ReloadBounded, StopPast
<1>4. StartComplete'
  BY Zenon DEF LifecycleInv, mainVars, StartComplete, NumFrontends
<1>5. checker' = checker => CheckersKnown'
  BY Zenon DEF LifecycleInv, mainVars, CheckersKnown, StopPast
<1>6. metrics' = metrics => MetricsKnown'
  BY Zenon DEF LifecycleInv, mainVars, MetricsKnown, StopPast
<1> QED
  BY <1>1, <1>2, <1>3, <1>4, <1>5, <1>6

LEMMA StartStep ==
  ASSUME LifecycleInv, StartPools \/ StartSessions \/ StartMetrics \/ StartCheckers \/ StartFrontends
  PROVE  /\ FrontendsKnown' /\ ReapersKnown' /\ CheckersKnown' /\ MetricsKnown'
         /\ CancelledPast' /\ ReloadBounded' /\ StartComplete'
<1>m. MainTypes
  BY TypeParts DEF LifecycleInv
<1>c. ComponentTypes
  BY TypeParts DEF LifecycleInv
<1>g. gen \in Gens /\ gen \in Nat /\ started \in Nat /\ NumFrontends \in Nat
  <2>1. gen \in Gens /\ started \in Nat /\ cfg \in Loadable
    BY <1>m, Zenon DEF MainTypes
  <2>2. Gens \subseteq Nat
    BY LifecycleBoundsAssumption DEF Gens
  <2>3. NumFrontends \in Nat
    BY <2>1, LoadableConfig DEF NumFrontends
  <2> QED
    BY <2>1, <2>2, <2>3
<1> USE DEF LifecycleInv
<1>1. CASE StartPools
  <2>1. pc = "pools" /\ pc' \in {"sessions", "failed", "wait"} /\ (pc' = "wait" => failure' # "")
    BY <1>1 DEF StartPools, StartGoesTo, StartFails
  <2>2. failure' \in {failure, "env"}
    BY <1>1 DEF StartPools, StartGoesTo, StartFails
  <2>3. FrontendsKnown'
    BY <1>1, <2>1 DEF StartPools, FrontendsKnown, StopPast
  <2>4. ReapersKnown'
    BY <1>1, <2>1 DEF StartPools, ReapersKnown
  <2>5. CheckersKnown' /\ MetricsKnown'
    BY <1>1, <2>1 DEF StartPools, CheckersKnown, MetricsKnown, checkerVars
  <2>6. CancelledPast' /\ ReloadBounded'
    BY <1>1, <2>1 DEF StartPools, CancelledPast, ReloadBounded, StopPast
  <2>7. StartComplete'
    BY <1>1, <2>1, <2>2 DEF StartPools, StartComplete, NumFrontends
  <2> QED
    BY <2>3, <2>4, <2>5, <2>6, <2>7
<1>2. CASE StartSessions
  <2>1. pc = "sessions" /\ pc' = "metrics" /\ p'["metrics"] = gen /\ p'["sessions"] = gen
        /\ gen' = gen /\ failure' = failure /\ started' = started
    BY <1>2, <1>m DEF StartSessions, StartGoesTo, MainTypes
  <2>3. FrontendsKnown'
    BY <1>2, <2>1 DEF StartSessions, FrontendsKnown, StopPast
  <2>4. ReapersKnown'
    BY <1>2, <2>1 DEF StartSessions, ReapersKnown
  <2>5. CheckersKnown' /\ MetricsKnown'
    BY <1>2, <2>1 DEF StartSessions, CheckersKnown, MetricsKnown, checkerVars
  <2>6. CancelledPast' /\ ReloadBounded'
    BY <1>2, <2>1 DEF StartSessions, CancelledPast, ReloadBounded, StopPast
  <2>7. StartComplete'
    BY <1>2, <2>1 DEF StartSessions, StartComplete, NumFrontends
  <2> QED
    BY <2>3, <2>4, <2>5, <2>6, <2>7
<1>3. CASE StartMetrics
  <2>1. pc = "metrics" /\ pc' \in {"checkers", "failed", "wait"} /\ (pc' = "wait" => failure' # "")
    BY <1>3 DEF StartMetrics, StartGoesTo, StartFails
  <2>2. failure' \in {failure, "metrics"}
    BY <1>3 DEF StartMetrics, StartGoesTo, StartFails
  <2>3. FrontendsKnown'
    BY <1>3, <2>1 DEF StartMetrics, FrontendsKnown, StopPast
  <2>4. ReapersKnown'
    BY <1>3, <2>1 DEF StartMetrics, ReapersKnown
  <2>5. CheckersKnown'
    BY <1>3, <2>1 DEF StartMetrics, CheckersKnown, checkerVars
  <2>m. MetricsKnown'
    <3>1. \A x \in Gens : metrics'[x] = metrics[x] \/ x = gen
      BY <1>3, <1>c DEF StartMetrics, ComponentTypes
    <3> QED
      BY <1>3, <2>1, <3>1 DEF StartMetrics, MetricsKnown, StopPast
  <2>6. CancelledPast' /\ ReloadBounded'
    BY <1>3, <2>1 DEF StartMetrics, CancelledPast, ReloadBounded, StopPast
  <2>7. StartComplete'
    BY <1>3, <2>1, <2>2 DEF StartMetrics, StartComplete, NumFrontends
  <2> QED
    BY <2>3, <2>4, <2>5, <2>m, <2>6, <2>7
<1>4. CASE StartCheckers
  <2>1. pc = "checkers" /\ pc' = "frontends" /\ p'["hcCancel"] = gen /\ p'["metrics"] = p["metrics"]
        /\ p'["sessions"] = p["sessions"] /\ failure' = failure
    BY <1>4, <1>m DEF StartCheckers, StartGoesTo, MainTypes
  <2>3. FrontendsKnown'
    BY <1>4, <2>1 DEF StartCheckers, FrontendsKnown, StopPast
  <2>4. ReapersKnown'
    BY <1>4, <2>1 DEF StartCheckers, ReapersKnown
  <2>5. CheckersKnown'
    <3>1. \A x \in Gens : checker'[x] = checker[x] \/ x = gen
      BY <1>4, <1>c DEF StartCheckers, ComponentTypes
    <3> QED
      BY <1>4, <2>1, <3>1 DEF StartCheckers, CheckersKnown, StopPast
  <2>m. MetricsKnown'
    BY <1>4, <2>1 DEF StartCheckers, MetricsKnown, StopPast
  <2>6. CancelledPast' /\ ReloadBounded'
    BY <1>4, <2>1 DEF StartCheckers, CancelledPast, ReloadBounded, StopPast
  <2>7. StartComplete'
    BY <1>4, <2>1 DEF StartCheckers, StartComplete, NumFrontends
  <2> QED
    BY <2>3, <2>4, <2>5, <2>m, <2>6, <2>7
<1>5. CASE StartFrontends
  <2>1. pc = "frontends" /\ pc' \in {"frontends", "failed", "wait"} /\ UNCHANGED <<gen, cfg, p, step>>
    BY <1>5 DEF StartFrontends, StartGoesTo, StartFails
  <2>2. ASSUME started < NumFrontends
        PROVE  Obstacles(started) \subseteq {"ports", "listen"}
    <3>1. cfg \in Loadable
      BY <1>m, Zenon DEF MainTypes
    <3>2. started + 1 \in 1..Len(cfg.frontends)
      BY <2>2, <1>g DEF NumFrontends
    <3>3. Nth(cfg, started + 1) \in DOMAIN cfg.frontends
      BY <3>1, <3>2, NthFrontend
    <3>4. cfg.frontends[Nth(cfg, started + 1)].backend \in Names(cfg.backends)
      BY <3>1, <3>3, LoadableConfig
    <3>5. ~Unparsed
      BY <3>1, LoadableConfig DEF Unparsed, Range
    <3> QED
      <4>1. Obstacles(started) \subseteq {"priority", "backend", "ports", "listen"}
        BY DEF Obstacles
      <4>2. "priority" \notin Obstacles(started)
        BY <3>5 DEF Obstacles
      <4>3. "backend" \notin Obstacles(started)
        BY <3>4 DEF Obstacles
      <4> QED
        BY <4>1, <4>2, <4>3
  <2>3. \/ /\ started < NumFrontends /\ started' = started + 1 /\ pc' = pc /\ failure' = failure
           /\ frontends' = frontends \cup {<<gen, started + 1>>}
        \/ started' = started /\ frontends' = frontends
           /\ (failure' \in {"ports", "listen", "env"} \/ (failure' = failure /\ started = NumFrontends))
    BY <1>5, <2>2 DEF StartFrontends, StartGoesTo, StartFails
  <2>4. FrontendsKnown'
    <3>1. frontends = {<<gen, i>> : i \in 1..started}
      BY <2>1 DEF FrontendsKnown, StopPast
    <3>2. 1..(started + 1) = (1..started) \cup {started + 1}
      BY <1>g
    <3>3. frontends' = {<<gen, i>> : i \in 1..started'}
      BY <2>3, <3>1, <3>2
    <3> QED
      BY <2>1, <3>3 DEF FrontendsKnown, StopPast
  <2>5. ReapersKnown'
    BY <1>5, <2>1 DEF StartFrontends, ReapersKnown
  <2>6. CheckersKnown' /\ MetricsKnown'
    BY <1>5, <2>1 DEF StartFrontends, CheckersKnown, MetricsKnown, StopPast, checkerVars
  <2>7. CancelledPast' /\ ReloadBounded'
    BY <1>5, <2>1 DEF StartFrontends, CancelledPast, ReloadBounded, StopPast
  <2>8. StartComplete'
    <3>1. NumFrontends' = NumFrontends /\ started <= NumFrontends
      BY <2>1 DEF StartComplete, NumFrontends
    <3>2. started' <= NumFrontends'
      BY <2>3, <3>1, <1>g
    <3>3. failure' # "" \/ started' = NumFrontends' \/ pc' = "frontends"
      BY <2>1, <2>3, <3>1
    <3>4. failure' \notin {"priority", "backend"}
      BY <2>3 DEF StartComplete
    <3> QED
      BY <2>1, <3>2, <3>3, <3>4 DEF StartComplete
  <2> QED
    BY <2>4, <2>5, <2>6, <2>7, <2>8
<1> HIDE DEF LifecycleInv
<1> QED
  BY <1>1, <1>2, <1>3, <1>4, <1>5
LEMMA StopStep ==
  ASSUME LifecycleInv,
         StopFrontends \/ StopCheckers \/ WaitCheckers \/ StopMetrics \/ StopSessions
  PROVE  /\ FrontendsKnown' /\ ReapersKnown' /\ CheckersKnown' /\ MetricsKnown'
         /\ CancelledPast' /\ ReloadBounded' /\ StartComplete'
<1>m. MainTypes
  BY TypeParts DEF LifecycleInv
<1>c. ComponentTypes
  BY TypeParts DEF LifecycleInv
<1>s. step \in 1..5
  <2>1. step \in 1..Len(StopOrder)
    BY <1>m, Zenon DEF MainTypes
  <2> QED
    BY <2>1, StopSteps
<1>g. gen \in Gens /\ gen \in Nat /\ started \in Nat
  <2>1. gen \in Gens /\ started \in Nat
    BY <1>m, Zenon DEF MainTypes
  <2>2. Gens \subseteq Nat
    BY LifecycleBoundsAssumption DEF Gens
  <2> QED
    BY <2>1, <2>2
<1>1. pc = "stop" /\ StopNext /\ UNCHANGED <<goal, cfg, p, checker>>
  BY DEF StopFrontends, StopCheckers, WaitCheckers, StopMetrics, StopSessions, StopAt, checkerVars
<1>2. \/ /\ step < 5 /\ step' = step + 1 /\ pc' = "stop"
         /\ gen' = gen /\ failure' = failure /\ started' = started
      \/ /\ step = 5 /\ step' = 1 /\ pc' = "exited"
         /\ gen' = gen /\ failure' = failure /\ started' = started
      \/ /\ step = 5 /\ step' = 1 /\ pc' = "pools"
         /\ gen' = gen + 1 /\ gen < MaxGen /\ failure' = "" /\ started' = 0
  BY <1>1, StopGoes
\* What the step number says, before and after the step.
<1>3. \A n \in 1..4 : pc' \in {"stop", "exited"} => (StopPast(n)' <=> step >= n)
  <2>1. (pc' = "stop" /\ step' = step + 1) \/ (pc' = "exited" /\ step = 5) \/ pc' = "pools"
    BY <1>2, Zenon
  <2>2. (pc' = "stop" /\ step' = step + 1) => \A n \in 1..4 : StopPast(n)' <=> step >= n
    BY <1>s DEF StopPast
  <2>3. (pc' = "exited" /\ step = 5) => \A n \in 1..4 : StopPast(n)' <=> step >= n
    BY DEF StopPast
  <2> QED
    BY <2>1, <2>2, <2>3
<1>4. \A n \in 1..4 : StopPast(n) <=> step > n
  BY <1>1 DEF StopPast
<1>5. pc' \in {"exited", "pools"} => step = 5
  BY <1>2
<1>6. pc' \in {"stop", "exited", "pools"}
  BY <1>2
<1>f. FrontendsKnown'
  <2>1. CASE StopFrontends
    <3>1. step = 1
      BY <2>1, <1>s, StopSteps DEF StopFrontends, StopAt
    <3>2. frontends' = {}
      BY <2>1, <1>1, <3>1 DEF StopFrontends, LifecycleInv, FrontendsKnown, StopPast
    <3>3. StopPast(1)' /\ pc' = "stop"
      BY <1>2, <3>1 DEF StopPast
    <3> QED
      BY <3>2, <3>3 DEF FrontendsKnown
  <2>2. CASE StopCheckers \/ WaitCheckers \/ StopMetrics \/ StopSessions
    <3>1. step # 1 /\ frontends' = frontends
      BY <2>2, <1>s, StopSteps DEF StopCheckers, WaitCheckers, StopMetrics, StopSessions, StopAt
    <3>2. step > 1
      BY <3>1, <1>s
    <3>3. frontends' = {}
      BY <1>1, <1>4, <3>1, <3>2 DEF LifecycleInv, FrontendsKnown
    <3>4. pc' \in {"stop", "exited"} => StopPast(1)'
      BY <1>3, <1>s, <3>2
    <3>5. pc' = "pools" => started' = 0
      BY <1>2
    <3>6. {<<gen', i>> : i \in 1..0} = {}
      OBVIOUS
    <3> QED
      BY <1>6, <3>3, <3>4, <3>5, <3>6 DEF FrontendsKnown
  <2> QED
    BY <2>1, <2>2
<1>r. ReapersKnown'
  <2>1. reapers \subseteq {p["sessions"]}
    BY DEF LifecycleInv, ReapersKnown
  <2>2. reapers' \subseteq {p'["sessions"]}
    BY <2>1, <1>1 DEF StopFrontends, StopCheckers, WaitCheckers, StopMetrics, StopSessions, TableStopped
  <2>3. step = 5 => reapers' = {}
    BY <2>1, StopSteps DEF StopFrontends, StopCheckers, WaitCheckers, StopMetrics, StopSessions,
                           TableStopped, StopAt
  <2> QED
    BY <2>2, <2>3, <1>5, <1>6 DEF ReapersKnown
<1>k. CheckersKnown'
  <2>1. ASSUME NEW g \in Gens, checker[g] \in {"probing", "idle"}
        PROVE  g = p["hcCancel"] /\ step < 3
    <3>1. g = p["hcCancel"] /\ ~(step > 3)
      BY <2>1, <1>4 DEF LifecycleInv, CheckersKnown
    <3>2. step # 3
      BY <2>1, StopSteps DEF StopFrontends, StopCheckers, WaitCheckers, StopMetrics, StopSessions, StopAt
    <3> QED
      BY <3>1, <3>2, <1>s
  <2>2. ASSUME step < 3 PROVE pc' = "stop" /\ ~StopPast(3)'
    <3>0. step # 5
      BY <2>2, <1>s
    <3>1. pc' = "stop"
      BY <3>0, <1>2, Zenon
    <3> QED
      BY <2>2, <3>1, <1>3, <1>s
  <2> QED
    BY <1>1, <2>1, <2>2 DEF CheckersKnown
<1>e. MetricsKnown'
  <2>1. ASSUME NEW g \in Gens, metrics'[g] \in {"bound", "serving"}
        PROVE  g = p["metrics"] /\ step < 4
    <3>1. metrics[g] \in {"bound", "serving"}
      BY <2>1, <1>c DEF StopFrontends, StopCheckers, WaitCheckers, StopMetrics, StopSessions, ComponentTypes
    <3>2. g = p["metrics"] /\ ~(step > 4)
      BY <3>1, <1>4 DEF LifecycleInv, MetricsKnown
    <3>3. CASE StopMetrics
      <4>1. metrics'[g] \notin {"bound", "serving"}
        BY <3>3, <3>1, <3>2, <1>c DEF StopMetrics, ComponentTypes
      <4> QED
        BY <4>1, <2>1
    <3>4. CASE StopFrontends \/ StopCheckers \/ WaitCheckers \/ StopSessions
      <4>1. step # 4
        BY <3>4, StopSteps DEF StopFrontends, StopCheckers, WaitCheckers, StopSessions, StopAt
      <4> QED
        BY <4>1, <3>2, <1>s
    <3> QED
      BY <3>3, <3>4
  <2>2. ASSUME step < 4 PROVE pc' = "stop" /\ ~StopPast(4)'
    <3>0. step # 5
      BY <2>2, <1>s
    <3>1. pc' = "stop"
      BY <3>0, <1>2, Zenon
    <3> QED
      BY <2>2, <3>1, <1>3, <1>s
  <2> QED
    BY <1>1, <1>6, <2>1, <2>2 DEF MetricsKnown
<1>n. CancelledPast'
  <2>1. cancelled' = cancelled \/ (step = 2 /\ StopCheckers)
    BY <1>s, StopSteps DEF StopFrontends, StopCheckers, WaitCheckers, StopMetrics, StopSessions, StopAt
  <2>2. CASE pc' = "pools"
    <3>1. step = 5 /\ gen' = gen + 1
      BY <2>2, <1>2
    <3>2. cancelled' = cancelled
      BY <2>1, <3>1
    <3>3. cancelled \subseteq 0..gen
      BY <1>c, Zenon DEF ComponentTypes
    <3> QED
      BY <3>1, <3>2, <3>3, <1>g DEF CancelledPast
  <2>3. CASE pc' # "pools" /\ step >= 2
    BY <2>3, <1>3, <1>6 DEF CancelledPast
  <2>4. CASE step = 1
    <3>1. gen' = gen /\ cancelled' = cancelled
      BY <2>1, <2>4, <1>2
    <3>2. ~StopPast(2)
      BY <1>4, <2>4
    <3> QED
      BY <3>1, <3>2 DEF LifecycleInv, CancelledPast
  <2> QED
    BY <2>2, <2>3, <2>4, <1>s
<1>b. ReloadBounded'
  BY <1>1, <1>2 DEF LifecycleInv, ReloadBounded
<1>a. StartComplete'
  <2>1. failure' \notin {"priority", "backend"}
    BY <1>2 DEF LifecycleInv, StartComplete
  <2>2. pc' = "pools" => started' <= NumFrontends'
    <3>1. cfg' \in Loadable
      BY <1>1, <1>m, Zenon DEF MainTypes
    <3>2. NumFrontends' \in Nat
      BY <3>1, LoadableConfig DEF NumFrontends
    <3>3. pc' = "pools" => started' = 0
      BY <1>2
    <3> QED
      BY <3>2, <3>3
  <2> QED
    BY <1>6, <2>1, <2>2 DEF StartComplete
<1> QED
  BY <1>f, <1>r, <1>k, <1>e, <1>n, <1>b, <1>a
LEMMA LifecycleInvStep == LifecycleInv /\ [Next]_vars => LifecycleInv'
<1> SUFFICES ASSUME LifecycleInv, [Next]_vars
             PROVE  /\ FrontendsKnown' /\ ReapersKnown' /\ CheckersKnown' /\ MetricsKnown'
                    /\ CancelledPast' /\ ReloadBounded' /\ StartComplete'
  BY LifecycleTypeStep DEF LifecycleInv
<1> DEFINE Rest == /\ FrontendsKnown /\ ReapersKnown /\ CheckersKnown /\ MetricsKnown
                   /\ CancelledPast /\ ReloadBounded /\ StartComplete
<1>m. MainTypes
  BY TypeParts DEF LifecycleInv
<1>c. ComponentTypes
  BY TypeParts DEF LifecycleInv
<1>1. CASE StartPools \/ StartSessions \/ StartMetrics \/ StartCheckers \/ StartFrontends
  BY <1>1, StartStep
<1>2. CASE StopFrontends \/ StopCheckers \/ WaitCheckers \/ StopMetrics \/ StopSessions
  BY <1>2, StopStep
<1>3. CASE Load
  <2>1. pc = "load" /\ pc' \in {"stop", "wait"} /\ (pc' = "stop" => step' = 1 /\ gen < MaxGen)
        /\ (pc' = "wait" => cfg' = cfg)
    BY <1>3 DEF Load, StopFor
  <2>2. ~StopPast(1)' /\ ~StopPast(2)' /\ ~StopPast(3)' /\ ~StopPast(4)'
    BY <2>1 DEF StopPast
  <2>3. ~StopPast(1) /\ ~StopPast(2) /\ ~StopPast(3) /\ ~StopPast(4)
    BY <2>1 DEF StopPast
  <2>4. FrontendsKnown'
    BY <1>3, <2>1, <2>2, <2>3 DEF Load, LifecycleInv, FrontendsKnown
  <2>5. ReapersKnown'
    BY <1>3, <2>1 DEF Load, LifecycleInv, ReapersKnown
  <2>6. CheckersKnown' /\ MetricsKnown'
    BY <1>3, <2>1, <2>2 DEF Load, LifecycleInv, CheckersKnown, MetricsKnown, checkerVars
  <2>7. CancelledPast'
    BY <1>3, <2>3 DEF Load, LifecycleInv, CancelledPast
  <2>8. ReloadBounded'
    BY <1>3, <2>1 DEF Load, ReloadBounded
  <2>9. StartComplete'
    BY <1>3, <2>1 DEF Load, LifecycleInv, StartComplete, NumFrontends
  <2> QED
    BY <2>4, <2>5, <2>6, <2>7, <2>8, <2>9
<1>4. CASE TakeSignal
  <2>1. pc = "wait" /\ pc' \in {"stop", "load"} /\ (pc' = "stop" => step' = 1 /\ goal' = "exit")
    BY <1>4 DEF TakeSignal, StopFor
  <2>2. ~StopPast(1)' /\ ~StopPast(2)' /\ ~StopPast(3)' /\ ~StopPast(4)'
    BY <2>1 DEF StopPast
  <2>3. ~StopPast(1) /\ ~StopPast(2) /\ ~StopPast(3) /\ ~StopPast(4)
    BY <2>1 DEF StopPast
  <2>4. FrontendsKnown'
    BY <1>4, <2>1, <2>2, <2>3 DEF TakeSignal, LifecycleInv, FrontendsKnown
  <2>5. ReapersKnown'
    BY <1>4, <2>1 DEF TakeSignal, LifecycleInv, ReapersKnown
  <2>6. CheckersKnown' /\ MetricsKnown'
    BY <1>4, <2>1, <2>2 DEF TakeSignal, LifecycleInv, CheckersKnown, MetricsKnown, checkerVars
  <2>7. CancelledPast'
    BY <1>4, <2>3 DEF TakeSignal, LifecycleInv, CancelledPast
  <2>8. ReloadBounded'
    BY <2>1 DEF ReloadBounded
  <2>9. StartComplete'
    BY <1>4, <2>1 DEF TakeSignal, LifecycleInv, StartComplete, NumFrontends
  <2> QED
    BY <2>4, <2>5, <2>6, <2>7, <2>8, <2>9
<1>5. ASSUME NEW g \in Gens, Serve(g) PROVE Rest'
  <2>1. \A x \in Gens : metrics'[x] \in {"bound", "serving"} => metrics[x] \in {"bound", "serving"}
    BY <1>5, <1>c DEF Serve, ComponentTypes
  <2>2. MetricsKnown'
    BY <1>5, <2>1 DEF Serve, mainVars, LifecycleInv, MetricsKnown, StopPast
  <2> QED
    BY <1>5, <2>2, OthersStep DEF Serve, checkerVars
<1>6. ASSUME NEW g \in Gens, NEW s \in Servers, Probe(g, s) PROVE Rest'
  BY <1>6, OthersStep DEF Probe
<1>7. ASSUME NEW g \in Gens, Checked(g) \/ CheckerTick(g) \/ CheckerDone(g) PROVE Rest'
  <2>1. \A x \in Gens : checker'[x] \in {"probing", "idle"} => checker[x] \in {"probing", "idle"}
    BY <1>7, <1>c DEF Checked, CheckerTick, CheckerDone, ComponentTypes
  <2>2. UNCHANGED mainVars
    BY <1>7 DEF Checked, CheckerTick, CheckerDone
  <2>3. CheckersKnown'
    BY <2>1, <2>2 DEF mainVars, LifecycleInv, CheckersKnown, StopPast
  <2> QED
    BY <1>7, <2>2, <2>3, OthersStep DEF Checked, CheckerTick, CheckerDone
<1>8. ASSUME NEW s \in {"hup", "term"}, Signal(s) PROVE Rest'
  BY <1>8, OthersStep DEF Signal, checkerVars
<1>9. CASE UNCHANGED vars
  BY <1>9, OthersStep DEF vars, checkerVars
<1> QED
  BY <1>1, <1>2, <1>3, <1>4, <1>5, <1>6, <1>7, <1>8, <1>9 DEF Next, MainStep

LEMMA AlwaysLifecycleInv == Spec => []LifecycleInv
  BY LifecycleInvInit, LifecycleInvStep, PTL DEF Spec

-----------------------------------------------------------------------------
(* Theorems                                                                *)

\* The variables have their types, and p never points past the current generation.
THEOREM LifecycleTypeCorrect == Spec => []LifecycleTypeOK
<1>1. LifecycleInv => LifecycleTypeOK
  BY DEF LifecycleInv
<1> QED
  BY <1>1, AlwaysLifecycleInv, PTL

\* Proxy.stop reaches everything that start has left running, whichever starts failed
\* and how often the configuration was reloaded.
THEOREM NothingOrphaned == Spec => []NoOrphan
<1>1. LifecycleInv => NoOrphan
  <2> SUFFICES ASSUME LifecycleInv, pc # "failed" PROVE NoOrphan
    BY DEF NoOrphan
  <2>1. frontends \subseteq {<<gen, i>> : i \in 1..started}
    BY DEF LifecycleInv, FrontendsKnown
  <2>2. reapers \subseteq {p["sessions"]}
    BY DEF LifecycleInv, ReapersKnown
  <2>3. \A g \in Gens : /\ checker[g] \in {"probing", "idle"} => g = p["hcCancel"]
                        /\ metrics[g] \in {"bound", "serving"} => g = p["metrics"]
    BY DEF LifecycleInv, CheckersKnown, MetricsKnown
  <2>4. ASSUME pc \in {"exited", "pools"}
        PROVE  /\ frontends = {} /\ reapers = {}
               /\ \A g \in Gens : /\ checker[g] \notin {"probing", "idle"}
                                  /\ metrics[g] \notin {"bound", "serving"}
    <3>1. {<<gen, i>> : i \in 1..0} = {}
      OBVIOUS
    <3>2. frontends = {}
      BY <2>4, <3>1 DEF LifecycleInv, FrontendsKnown, StopPast
    <3> QED
      BY <2>4, <3>2 DEF LifecycleInv, ReapersKnown, CheckersKnown, MetricsKnown, StopPast
  <2> QED
    BY <2>1, <2>2, <2>3, <2>4 DEF NoOrphan
<1> QED
  BY <1>1, AlwaysLifecycleInv, PTL

\* What validate accepts, start does not refuse: every frontend's priority parses and
\* its backend exists.
THEOREM ValidatedConfigStarts == Spec => []AcceptedConfigStarts
<1>1. LifecycleInv => AcceptedConfigStarts
  BY DEF LifecycleInv, StartComplete, AcceptedConfigStarts
<1> QED
  BY <1>1, AlwaysLifecycleInv, PTL

\* The proxy that waits for signals has started its frontends from the highest priority
\* down, all of them unless a start failed.
THEOREM ServesItsConfig == Spec => []RunsItsConfig
<1>1. LifecycleInv => RunsItsConfig
  <2> SUFFICES ASSUME LifecycleInv, pc = "wait" PROVE RunsItsConfig
    BY DEF RunsItsConfig
  <2>m. MainTypes
    BY TypeParts DEF LifecycleInv
  <2>1. cfg \in Loadable /\ started \in Nat
    BY <2>m, Zenon DEF MainTypes
  <2>2. frontends = {<<gen, i>> : i \in 1..started}
    BY DEF LifecycleInv, FrontendsKnown, StopPast
  <2>3. started <= NumFrontends /\ (failure # "" \/ started = NumFrontends)
    BY DEF LifecycleInv, StartComplete
  <2>4. NumFrontends \in Nat
    BY <2>1, LoadableConfig DEF NumFrontends
  <2>a. started \in Nat /\ NumFrontends \in Nat
    BY <2>1, <2>4
  <2>b. started <= NumFrontends
    BY <2>3
  <2>5. {n \in 1..NumFrontends : <<gen, n>> \in frontends} = 1..started
    <3>1. \A n : <<gen, n>> \in frontends <=> n \in 1..started
      BY <2>2
    <3>2. 1..started \subseteq 1..NumFrontends
      BY <2>a, <2>b
    <3> QED
      BY <3>1, <3>2
  <2>6. Up = {Nth(cfg, n) : n \in 1..started}
    BY <2>5 DEF Up
  <2>7. /\ \A m, n \in 1..NumFrontends : m < n => Level(cfg, Nth(cfg, m)) >= Level(cfg, Nth(cfg, n))
        /\ {Nth(cfg, n) : n \in 1..NumFrontends} = DOMAIN cfg.frontends
    BY <2>1, NthDescends DEF NumFrontends
  <2>8. Up = DOMAIN cfg.frontends \/ failure # ""
    BY <2>3, <2>6, <2>7
  <2>9. ASSUME NEW i \in Up, NEW j \in DOMAIN cfg.frontends \ Up
        PROVE  Level(cfg, i) >= Level(cfg, j)
    <3>1. PICK m \in 1..started : i = Nth(cfg, m)
      BY <2>6
    <3>2. PICK n \in 1..NumFrontends : j = Nth(cfg, n)
      BY <2>7
    <3>3. n \notin 1..started
      BY <2>6, <3>2
    <3>4. m < n /\ m \in 1..NumFrontends
      <4>1. m \in Int /\ 1 <= m /\ m <= started /\ n \in Int /\ 1 <= n
        BY <2>a
      <4>2. n > started
        BY <2>a, <3>3, <4>1
      <4> QED
        BY <2>a, <2>b, <4>1, <4>2
    <3> QED
      BY <2>7, <3>1, <3>2, <3>4
  <2> QED
    BY <2>8, <2>9 DEF RunsItsConfig
<1> QED
  BY <1>1, AlwaysLifecycleInv, PTL

\* Whatever a cut-off probe reports, no frontend picks from that pool any more: stop
\* stops the frontends before it cancels the checkers.
THEOREM CutOffProbesHarmless == Spec => CancelledProbeHarmless
<1> DEFINE A == \A g \in Gens :
                  g \in cancelled /\ ~(unhealthy'[g] \subseteq unhealthy[g])
                      => \A f \in frontends : f[1] # g
<1>1. LifecycleInv /\ [Next]_vars => A
  <2> SUFFICES ASSUME LifecycleInv, [Next]_vars, NEW g \in Gens, g \in cancelled,
                      ~(unhealthy'[g] \subseteq unhealthy[g]), NEW f \in frontends
               PROVE  f[1] # g
    OBVIOUS
  <2>m. MainTypes
    BY TypeParts DEF LifecycleInv
  <2>1. gen \in Nat
    <3>1. gen \in Gens
      BY <2>m, Zenon DEF MainTypes
    <3> QED
      BY <3>1, LifecycleBoundsAssumption DEF Gens
  <2>2. Alive
    <3>1. unhealthy' # unhealthy
      OBVIOUS
    <3>2. \E h \in Gens : \E s \in Servers : Probe(h, s)
      BY <3>1 DEF Next, MainStep, vars, checkerVars, StartPools, StartSessions, StartMetrics,
                  StartCheckers, StartFrontends, StopFrontends, StopCheckers, WaitCheckers,
                  StopMetrics, StopSessions, Load, TakeSignal, Serve, Checked, CheckerTick,
                  CheckerDone, Signal
    <3> QED
      BY <3>2 DEF Probe
  <2>3. frontends = IF StopPast(1) THEN {} ELSE {<<gen, i>> : i \in 1..started}
    BY <2>2 DEF Alive, LifecycleInv, FrontendsKnown
  <2>4. f[1] = gen /\ ~StopPast(1)
    BY <2>3
  <2>5. ~StopPast(2)
    <3>1. step \in 1..5
      <4>1. step \in 1..Len(StopOrder)
        BY <2>m, Zenon DEF MainTypes
      <4> QED
        BY <4>1, StopSteps
    <3> QED
      BY <2>4, <3>1 DEF StopPast
  <2>6. g < gen /\ g \in Int
    BY <2>5, LifecycleBoundsAssumption DEF LifecycleInv, CancelledPast, Gens
  <2> QED
    BY <2>1, <2>4, <2>6
<1> QED
  BY <1>1, AlwaysLifecycleInv, PTL DEF Spec, CancelledProbeHarmless
=============================================================================

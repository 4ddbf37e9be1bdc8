------------------------- MODULE SessionTableProofs -------------------------
(***************************************************************************)
(* What TLAPS proves of SessionTable, for every set of keys, processes and *)
(* sessions, every number of shards and every timeout.                     *)
(***************************************************************************)
EXTENDS SessionTable, FiniteSetTheorems, TLAPS

\* A process in the middle of an operation has its key and its session in hand.
InHand ==
    \A p \in Procs :
        /\ pc[p] # "idle" => key[p] \in Keys
        /\ pc[p] \notin {"idle", "miss"} => sess[p] \in Sessions

\* Nobody removes an entry of the shard the reaper has locked.
SweepFrozen ==
    /\ rpc \in {"sweep", "delete", "discount"} =>
          \A k \in todo : entries[k] # NoSession /\ ShardFor[k] = shard
    /\ rpc = "delete" =>
          /\ victim \in Keys
          /\ victim \notin todo
          /\ entries[victim] # NoSession
          /\ ShardFor[victim] = shard

TableInv == TypeOK /\ InHand /\ SweepFrozen

LEMMA TableInvInit == TableInit => TableInv
<1> SUFFICES ASSUME TableInit PROVE TableInv
  OBVIOUS
<1> USE DEF TableInit
<1>1. 0 \in 0..(Timeout + 1) /\ 1 \in 1..NumShards
  BY ShardsAssumption, TimeoutAssumption
<1>2. stopped \in BOOLEAN
  BY Zenon
<1>3. age \in [Sessions -> 0..(Timeout + 1)]
  BY <1>1
<1>4. TypeOK
  BY <1>1, <1>2, <1>3 DEF TypeOK, NoKey
<1>5. InHand /\ SweepFrozen
  BY DEF InHand, SweepFrozen
<1> QED
  BY <1>4, <1>5 DEF TableInv

LEMMA TableInvStep == TableInv /\ [TableNext]_tableVars => TableInv'
<1> SUFFICES ASSUME TableInv, [TableNext]_tableVars PROVE TableInv'
  OBVIOUS
<1> USE ShardsAssumption, TimeoutAssumption, SessionsAssumption
<1> USE DEF TableInv, TypeOK, InHand, SweepFrozen, procVars, reaperVars, NoKey
<1>1. ASSUME NEW p \in Procs, NEW k \in Keys, Lookup(p, k) PROVE TableInv'
  BY <1>1 DEF Lookup, Locked
<1>2. ASSUME NEW p \in Procs, NEW k \in Keys, Delete(p, k) PROVE TableInv'
  BY <1>2 DEF Delete, Locked
<1>3. ASSUME NEW p \in Procs, NewFnNil(p) PROVE TableInv'
  BY <1>3 DEF NewFnNil, Return
<1>4. ASSUME NEW p \in Procs, NEW s \in Sessions, NewFn(p, s) PROVE TableInv'
  BY <1>4 DEF NewFn
<1>5. ASSUME NEW p \in Procs, Insert(p) PROVE TableInv'
  BY <1>5 DEF Insert, Vacant, Winner, Locked
<1>6. ASSUME NEW p \in Procs, CountAdd(p) PROVE TableInv'
  BY <1>6 DEF CountAdd
<1>7. ASSUME NEW p \in Procs, Touch(p) PROVE TableInv'
  BY <1>7 DEF Touch
<1>8. ASSUME NEW p \in Procs, Release(p) PROVE TableInv'
  BY <1>8 DEF Release, Return
<1>9. ASSUME NEW p \in Procs, DeleteCount(p) PROVE TableInv'
  BY <1>9 DEF DeleteCount
<1>10. ASSUME NEW p \in Procs, DeleteEvict(p) PROVE TableInv'
  BY <1>10 DEF DeleteEvict, Return
<1>11. CASE SweepStart
  BY <1>11 DEF SweepStart, Expired
<1>12. CASE SweepLock
  BY <1>12 DEF SweepLock, Present
<1>13. ASSUME NEW k \in Keys, SweepCheck(k) PROVE TableInv'
  BY <1>13 DEF SweepCheck
<1>14. CASE SweepDelete
  BY <1>14 DEF SweepDelete, Collect
<1>15. CASE SweepCount
  BY <1>15 DEF SweepCount
<1>16. CASE SweepUnlock
  BY <1>16 DEF SweepUnlock, AfterUnlock
<1>17. ASSUME NEW s \in Sessions, RunCallback(s) PROVE TableInv'
  BY <1>17 DEF RunCallback
<1>18. CASE NextShard
  BY <1>18 DEF NextShard, MoreShards
<1>19. CASE ReaperExit
  BY <1>19 DEF ReaperExit, StopReady
<1>20. CASE Stop
  BY <1>20 DEF Stop
<1>21. CASE Tick
  BY <1>21 DEF Tick
<1>22. CASE UNCHANGED tableVars
  BY <1>22 DEF tableVars
<1> QED
  BY <1>1, <1>2, <1>3, <1>4, <1>5, <1>6, <1>7, <1>8, <1>9, <1>10, <1>11, <1>12,
     <1>13, <1>14, <1>15, <1>16, <1>17, <1>18, <1>19, <1>20, <1>21, <1>22
  DEF TableNext, ProcStep, SweepStep

\* Every reachable state of the table is well typed (session.go:110).
THEOREM TableTypeCorrect == TableSpec => []TypeOK
<1>1. TableSpec => []TableInv
  BY TableInvInit, TableInvStep, PTL DEF TableSpec
<1>2. TableInv => TypeOK
  BY DEF TableInv
<1> QED
  BY <1>1, <1>2, PTL

-----------------------------------------------------------------------------
(* The counter                                                             *)

\* The number of arguments at which a function has the value v, when one more
\* gets it, and when one loses it.
At(D, f, v) == {x \in D : f[x] = v}

LEMMA AtEnter ==
  ASSUME NEW D, IsFiniteSet(D), NEW f, NEW g, NEW d \in D, NEW v,
         f[d] # v, g[d] = v, \A x \in D \ {d} : g[x] = f[x]
  PROVE  Cardinality(At(D, g, v)) = Cardinality(At(D, f, v)) + 1
<1>1. IsFiniteSet(At(D, f, v))
  BY FS_Subset DEF At
<1>2. At(D, g, v) = At(D, f, v) \cup {d} /\ d \notin At(D, f, v)
  BY DEF At
<1> QED
  BY <1>1, <1>2, FS_AddElement

LEMMA AtLeave ==
  ASSUME NEW D, IsFiniteSet(D), NEW f, NEW g, NEW d \in D, NEW v,
         f[d] = v, g[d] # v, \A x \in D \ {d} : g[x] = f[x]
  PROVE  Cardinality(At(D, g, v)) = Cardinality(At(D, f, v)) - 1
<1>1. IsFiniteSet(At(D, f, v))
  BY FS_Subset DEF At
<1>2. At(D, g, v) = At(D, f, v) \ {d} /\ d \in At(D, f, v)
  BY DEF At
<1> QED
  BY <1>1, <1>2, FS_RemoveElement

LEMMA AtSame ==
  ASSUME NEW D, NEW f, NEW g, NEW d, NEW v,
         f[d] # v, g[d] # v, \A x \in D \ {d} : g[x] = f[x]
  PROVE  At(D, g, v) = At(D, f, v)
  BY DEF At

\* The same for the keys that have an entry.
LEMMA PresentAdd ==
  ASSUME NEW k \in Keys, entries[k] = NoSession, entries'[k] # NoSession,
         \A l \in Keys \ {k} : entries'[l] = entries[l]
  PROVE  Cardinality(Present') = Cardinality(Present) + 1
<1>1. IsFiniteSet(Present)
  BY KeysAssumption, FS_Subset DEF Present
<1>2. Present' = Present \cup {k} /\ k \notin Present
  BY DEF Present
<1> QED
  BY <1>1, <1>2, FS_AddElement

LEMMA PresentRemove ==
  ASSUME NEW k \in Keys, entries[k] # NoSession, entries'[k] = NoSession,
         \A l \in Keys \ {k} : entries'[l] = entries[l]
  PROVE  Cardinality(Present') = Cardinality(Present) - 1
<1>1. IsFiniteSet(Present)
  BY KeysAssumption, FS_Subset DEF Present
<1>2. Present' = Present \ {k} /\ k \in Present
  BY DEF Present
<1> QED
  BY <1>1, <1>2, FS_RemoveElement

LEMMA Cardinalities ==
  /\ Cardinality(Present) \in Nat
  /\ Cardinality(Uncounted) \in Nat
  /\ Cardinality(Undiscounted) \in Nat
<1>1. IsFiniteSet(Present) /\ IsFiniteSet(Uncounted) /\ IsFiniteSet(Undiscounted)
  BY KeysAssumption, ProcsAssumption, FS_Subset DEF Present, Uncounted, Undiscounted
<1> QED
  BY <1>1, FS_CardinalityType

LEMMA CountConservationInit == TableInit => CountConservation
<1> SUFFICES ASSUME TableInit PROVE CountConservation
  OBVIOUS
<1>1. Present = {} /\ Uncounted = {} /\ Undiscounted = {}
  BY DEF TableInit, Present, Uncounted, Undiscounted
<1>2. count = 0 /\ rpc = "idle"
  BY DEF TableInit
<1> QED
  BY <1>1, <1>2, FS_EmptySet DEF CountConservation

LEMMA CountConservationStep ==
  TableInv /\ CountConservation /\ [TableNext]_tableVars => CountConservation'
<1> SUFFICES ASSUME TableInv, CountConservation, [TableNext]_tableVars
             PROVE  CountConservation'
  OBVIOUS
<1> USE DEF procVars, reaperVars, tableVars
<1>ty. /\ count \in Int
       /\ \A f : \A p \in Procs : pc' = [pc EXCEPT ![p] = f] =>
             pc'[p] = f /\ \A q \in Procs \ {p} : pc'[q] = pc[q]
       /\ entries \in [Keys -> Sessions \cup {NoSession}]
  BY DEF TableInv, TypeOK
<1>a. Uncounted = At(Procs, pc, "count") /\ Uncounted' = At(Procs, pc', "count")
  BY DEF Uncounted, At
<1>b. Undiscounted = At(Procs, pc, "delcount") /\ Undiscounted' = At(Procs, pc', "delcount")
  BY DEF Undiscounted, At
<1>c. entries' = entries => Present' = Present
  BY DEF Present
<1>d. pc' = pc => Uncounted' = Uncounted /\ Undiscounted' = Undiscounted
  BY DEF Uncounted, Undiscounted
\* A step of p that neither enters nor leaves an interval between update and Add.
<1>e. ASSUME NEW p \in Procs, entries' = entries, count' = count, rpc' = rpc,
             pc[p] \notin {"count", "delcount"}, pc'[p] \notin {"count", "delcount"},
             \A q \in Procs \ {p} : pc'[q] = pc[q]
      PROVE  CountConservation'
  <2>1. Uncounted' = Uncounted /\ Undiscounted' = Undiscounted
    BY <1>a, <1>b, <1>e, AtSame
  <2> QED
    BY <1>c, <1>e, <2>1 DEF CountConservation
<1>1. ASSUME NEW p \in Procs, NEW k \in Keys, Lookup(p, k) PROVE CountConservation'
  BY <1>1, <1>e, <1>ty DEF Lookup
<1>2. ASSUME NEW p \in Procs, NEW k \in Keys, Delete(p, k) PROVE CountConservation'
  <2>0. /\ pc[p] = "idle" /\ pc'[p] = "delcount"
        /\ \A q \in Procs \ {p} : pc'[q] = pc[q]
    BY <1>2, <1>ty DEF Delete
  <2>1. Cardinality(Present') = Cardinality(Present) - 1
    BY <1>2, <1>ty, PresentRemove DEF Delete
  <2>2. Cardinality(Undiscounted') = Cardinality(Undiscounted) + 1
    BY <1>b, <2>0, AtEnter, ProcsAssumption
  <2>3. Uncounted' = Uncounted
    BY <1>a, <2>0, AtSame
  <2>4. count' = count /\ rpc' = rpc
    BY <1>2 DEF Delete
  <2> QED
    BY <2>1, <2>2, <2>3, <2>4, Cardinalities DEF CountConservation
<1>3. ASSUME NEW p \in Procs, NewFnNil(p) \/ Release(p) \/ DeleteEvict(p)
      PROVE  CountConservation'
  BY <1>3, <1>e, <1>ty DEF NewFnNil, Release, DeleteEvict, Return
<1>4. ASSUME NEW p \in Procs, NEW s \in Sessions, NewFn(p, s) PROVE CountConservation'
  BY <1>4, <1>e, <1>ty DEF NewFn
<1>5. ASSUME NEW p \in Procs, Insert(p) PROVE CountConservation'
  <2>0. key[p] \in Keys /\ sess[p] # NoSession /\ pc[p] = "insert"
    BY <1>5, SessionsAssumption DEF Insert, TableInv, InHand
  <2>1. CASE Vacant(key[p])
    <3>0. /\ pc[p] = "insert" /\ pc'[p] = "count"
          /\ \A q \in Procs \ {p} : pc'[q] = pc[q]
      BY <1>5, <1>ty, <2>1 DEF Insert
    <3>1. Cardinality(Present') = Cardinality(Present) + 1
      BY <1>5, <1>ty, <2>0, <2>1, PresentAdd DEF Insert, Vacant
    <3>2. Cardinality(Uncounted') = Cardinality(Uncounted) + 1
      BY <1>a, <3>0, AtEnter, ProcsAssumption
    <3>3. Undiscounted' = Undiscounted
      BY <1>b, <3>0, AtSame
    <3>4. count' = count /\ rpc' = rpc
      BY <1>5 DEF Insert
    <3> QED
      BY <3>1, <3>2, <3>3, <3>4, Cardinalities DEF CountConservation
  <2>2. CASE ~Vacant(key[p])
    <3>1. /\ entries' = entries /\ count' = count /\ rpc' = rpc
          /\ pc'[p] = "found" /\ \A q \in Procs \ {p} : pc'[q] = pc[q]
      BY <1>5, <1>ty, <2>2 DEF Insert
    <3> QED
      BY <1>e, <2>0, <3>1
  <2> QED
    BY <2>1, <2>2
<1>6. ASSUME NEW p \in Procs, CountAdd(p) PROVE CountConservation'
  <2>0. /\ pc[p] = "count" /\ pc'[p] = "created"
        /\ \A q \in Procs \ {p} : pc'[q] = pc[q]
    BY <1>6, <1>ty DEF CountAdd
  <2>1. Cardinality(Uncounted') = Cardinality(Uncounted) - 1
    BY <1>a, <2>0, AtLeave, ProcsAssumption
  <2>2. Undiscounted' = Undiscounted
    BY <1>b, <2>0, AtSame
  <2>3. count' = count + 1 /\ rpc' = rpc /\ Present' = Present
    BY <1>6, <1>c DEF CountAdd
  <2> QED
    BY <1>ty, <2>1, <2>2, <2>3, Cardinalities DEF CountConservation
<1>7. ASSUME NEW p \in Procs, DeleteCount(p) PROVE CountConservation'
  <2>0. /\ pc[p] = "delcount" /\ pc'[p] = "delevict"
        /\ \A q \in Procs \ {p} : pc'[q] = pc[q]
    BY <1>7, <1>ty DEF DeleteCount
  <2>1. Cardinality(Undiscounted') = Cardinality(Undiscounted) - 1
    BY <1>b, <2>0, AtLeave, ProcsAssumption
  <2>2. Uncounted' = Uncounted
    BY <1>a, <2>0, AtSame
  <2>3. count' = count - 1 /\ rpc' = rpc /\ Present' = Present
    BY <1>7, <1>c DEF DeleteCount
  <2> QED
    BY <1>ty, <2>1, <2>2, <2>3, Cardinalities DEF CountConservation
<1>8. CASE SweepDelete
  <2>1. Cardinality(Present') = Cardinality(Present) - 1
    BY <1>8, <1>ty, PresentRemove DEF SweepDelete, TableInv, SweepFrozen
  <2>2. count' = count /\ rpc = "delete" /\ rpc' = "discount" /\ pc' = pc
    BY <1>8 DEF SweepDelete
  <2> QED
    BY <1>d, <1>ty, <2>1, <2>2, Cardinalities DEF CountConservation
<1>9. CASE SweepCount
  <2>1. count' = count - 1 /\ rpc = "discount" /\ rpc' = "sweep" /\ pc' = pc /\ entries' = entries
    BY <1>9 DEF SweepCount
  <2> QED
    BY <1>c, <1>d, <1>ty, <2>1, Cardinalities DEF CountConservation
<1>10. ASSUME NEW p \in Procs, Touch(p) PROVE CountConservation'
  BY <1>10, <1>c, <1>d DEF CountConservation, Touch
<1>11. ASSUME NEW k \in Keys, SweepCheck(k) PROVE CountConservation'
  BY <1>11, <1>c, <1>d DEF CountConservation, SweepCheck
<1>12. ASSUME NEW s \in Sessions, RunCallback(s) PROVE CountConservation'
  BY <1>12, <1>c, <1>d DEF CountConservation, RunCallback
<1>13. CASE SweepStart \/ SweepLock \/ SweepUnlock \/ NextShard \/ ReaperExit
  BY <1>13, <1>c, <1>d
  DEF CountConservation, SweepStart, SweepLock, SweepUnlock, AfterUnlock, NextShard, ReaperExit
<1>14. CASE Stop \/ Tick \/ UNCHANGED tableVars
  BY <1>14, <1>c, <1>d DEF CountConservation, Stop, Tick
<1> QED
  BY <1>1, <1>2, <1>3, <1>4, <1>5, <1>6, <1>7, <1>8, <1>9, <1>10, <1>11, <1>12,
     <1>13, <1>14
  DEF TableNext, ProcStep, SweepStep

\* The O(1) counter behind Len() and Count() never drifts (session.go:226): no
\* interleaving of any number of goroutines loses or doubles an atomic Add.
THEOREM CountNeverDrifts == TableSpec => []CountConservation
<1>1. TableInit => TableInv /\ CountConservation
  BY TableInvInit, CountConservationInit
<1>2. TableInv /\ CountConservation /\ [TableNext]_tableVars
        => TableInv' /\ CountConservation'
  BY TableInvStep, CountConservationStep
<1> QED
  BY <1>1, <1>2, PTL DEF TableSpec

-----------------------------------------------------------------------------
(* The stages of a session                                                 *)

\* A session that newFn has just made is known to nobody but its maker.
Fresh ==
    \A p \in Procs : pc[p] = "insert" =>
        /\ sess[p] \notin inserted
        /\ \A q \in Procs \ {p} : sess[q] # sess[p]

\* The slice of callbacks is empty except between a shard's Lock and the end of
\* the loop that runs them.
CallbacksSwept == rpc \in {"idle", "lock", "exited"} => callbacks = {}

\* A session returned by GetOrCreate stands, if anywhere, under the caller's key.
UnderItsKey ==
    \A p \in Procs :
        pc[p] \in {"count", "created", "found"} /\ sess[p] \in InTable
            => entries[key[p]] = sess[p]

\* A session returned by GetOrCreate has been in the table.
ReturnedInserted ==
    \A p \in Procs : pc[p] \in {"count", "created", "found"} => sess[p] \in inserted

\* Two callers are not both told that they created a session.
OneCreator ==
    \A p, q \in Procs :
        /\ {pc[p], pc[q]} \subseteq {"count", "created"}
        /\ sess[p] = sess[q]
        => p = q

StageInv ==
    /\ TableInv
    /\ OneStage
    /\ Fresh
    /\ CallbacksSwept
    /\ UnderItsKey
    /\ ReturnedInserted
    /\ OneCreator

LEMMA StageInvInit == TableInit => StageInv
<1> SUFFICES ASSUME TableInit PROVE StageInv
  OBVIOUS
<1>1. TableInv
  BY TableInvInit
<1>2. OneStage
  BY DEF TableInit, OneStage, Present, InTable, Evicting
<1>3. Fresh /\ CallbacksSwept /\ UnderItsKey /\ ReturnedInserted /\ OneCreator
  BY DEF TableInit, Fresh, CallbacksSwept, UnderItsKey, ReturnedInserted, OneCreator
<1> QED
  BY <1>1, <1>2, <1>3 DEF StageInv

LEMMA StageInvStep == StageInv /\ [TableNext]_tableVars => StageInv'
<1> SUFFICES ASSUME StageInv, [TableNext]_tableVars PROVE StageInv'
  OBVIOUS
<1> USE SessionsAssumption
<1> USE DEF TableInv, TypeOK, InHand, SweepFrozen, procVars, reaperVars, NoKey
<1>inv. TableInv'
  BY TableInvStep DEF StageInv
<1> USE DEF StageInv, OneStage, Fresh, CallbacksSwept, UnderItsKey, ReturnedInserted,
            OneCreator, InTable, Present, Evicting
<1>1. ASSUME NEW p \in Procs, NEW k \in Keys, Lookup(p, k) PROVE StageInv'
  BY <1>1, <1>inv DEF Lookup
<1>2. ASSUME NEW p \in Procs, NEW k \in Keys, Delete(p, k) PROVE StageInv'
  BY <1>2, <1>inv DEF Delete
<1>3. ASSUME NEW p \in Procs, NewFnNil(p) PROVE StageInv'
  BY <1>3, <1>inv DEF NewFnNil, Return
<1>4. ASSUME NEW p \in Procs, NEW s \in Sessions, NewFn(p, s) PROVE StageInv'
  BY <1>4, <1>inv DEF NewFn, Free, Held
<1>5. ASSUME NEW p \in Procs, Insert(p) PROVE StageInv'
  BY <1>5, <1>inv DEF Insert, Vacant, Winner
<1>6. ASSUME NEW p \in Procs, CountAdd(p) PROVE StageInv'
  BY <1>6, <1>inv DEF CountAdd
<1>7. ASSUME NEW p \in Procs, Touch(p) PROVE StageInv'
  BY <1>7, <1>inv DEF Touch
<1>8. ASSUME NEW p \in Procs, Release(p) PROVE StageInv'
  BY <1>8, <1>inv DEF Release, Return
<1>9. ASSUME NEW p \in Procs, DeleteCount(p) PROVE StageInv'
  BY <1>9, <1>inv DEF DeleteCount
<1>10. ASSUME NEW p \in Procs, DeleteEvict(p) PROVE StageInv'
  BY <1>10, <1>inv DEF DeleteEvict, Return
<1>11. CASE SweepStart
  BY <1>11, <1>inv DEF SweepStart
<1>12. CASE SweepLock
  BY <1>12, <1>inv DEF SweepLock
<1>13. ASSUME NEW k \in Keys, SweepCheck(k) PROVE StageInv'
  BY <1>13, <1>inv DEF SweepCheck
<1>14. CASE SweepDelete
  BY <1>14, <1>inv DEF SweepDelete, Collect
<1>15. CASE SweepCount
  BY <1>15, <1>inv DEF SweepCount
<1>16. CASE SweepUnlock
  BY <1>16, <1>inv DEF SweepUnlock, AfterUnlock
<1>17. ASSUME NEW s \in Sessions, RunCallback(s) PROVE StageInv'
  BY <1>17, <1>inv DEF RunCallback
<1>18. CASE NextShard
  BY <1>18, <1>inv DEF NextShard
<1>19. CASE ReaperExit
  BY <1>19, <1>inv DEF ReaperExit
<1>20. CASE Stop
  BY <1>20, <1>inv DEF Stop
<1>21. CASE Tick
  BY <1>21, <1>inv DEF Tick
<1>22. CASE UNCHANGED tableVars
  BY <1>22, <1>inv DEF tableVars
<1> HIDE DEF StageInv
<1> QED
  BY <1>1, <1>2, <1>3, <1>4, <1>5, <1>6, <1>7, <1>8, <1>9, <1>10, <1>11, <1>12,
     <1>13, <1>14, <1>15, <1>16, <1>17, <1>18, <1>19, <1>20, <1>21, <1>22
  DEF TableNext, ProcStep, SweepStep

LEMMA StagesKept == TableSpec => []StageInv
  BY StageInvInit, StageInvStep, PTL DEF TableSpec

\* A session that entered the table is in the table, on its way out or evicted,
\* in exactly one place (session.go:206, session.go:291): its callback runs once.
THEOREM EvictedOnce == TableSpec => []OneStage
<1>1. StageInv => OneStage
  BY DEF StageInv
<1> QED
  BY <1>1, StagesKept, PTL

\* Racing callers of GetOrCreate agree on one session (session.go:199).
THEOREM RacersShare == TableSpec => []SharedSession
<1>1. StageInv => SharedSession
  BY DEF StageInv, SharedSession, ReturnedInserted, OneCreator, UnderItsKey
<1> QED
  BY <1>1, StagesKept, PTL

-----------------------------------------------------------------------------
(* The reaper's clock                                                      *)

\* Sessions older than the cutoff of a sweep are still idle for too long: a
\* packet takes a session out of stale.
StaleExpired == \A s \in stale : age[s] > Timeout

LEMMA StaleExpiredStep == TableInv /\ StaleExpired /\ [TableNext]_tableVars => StaleExpired'
<1> SUFFICES ASSUME TableInv, StaleExpired, [TableNext]_tableVars PROVE StaleExpired'
  OBVIOUS
<1> USE TimeoutAssumption DEF TableInv, TypeOK, StaleExpired, procVars, reaperVars
<1>1. ASSUME NEW p \in Procs, ProcStep(p) PROVE StaleExpired'
  BY <1>1 DEF ProcStep, Lookup, Delete, NewFnNil, NewFn, Insert, CountAdd, Touch, Release,
              DeleteCount, DeleteEvict
<1>2. CASE SweepStep
  BY <1>2 DEF SweepStep, SweepStart, Expired, SweepLock, SweepCheck, SweepDelete, SweepCount,
              SweepUnlock, RunCallback, NextShard
<1>3. CASE ReaperExit \/ Stop \/ Tick \/ UNCHANGED tableVars
  BY <1>3 DEF ReaperExit, Stop, Tick, tableVars
<1> QED
  BY <1>1, <1>2, <1>3 DEF TableNext

\* The reaper removes only what has been idle for longer than the timeout
\* (session.go:290), however packets interleave with the sweep.
THEOREM OnlyIdleExpire == TableSpec => NoPrematureEviction
<1>1. TableInit => StaleExpired
  BY DEF TableInit, StaleExpired
<1>2. TableSpec => [](TableInv /\ StaleExpired)
  BY <1>1, TableInvInit, TableInvStep, StaleExpiredStep, PTL DEF TableSpec
<1>3. TableInv /\ StaleExpired /\ [TableNext]_tableVars
        => [rpc = "sweep" /\ rpc' = "delete" => age[entries[victim']] > Timeout]_tableVars
  <2> SUFFICES ASSUME StaleExpired, TableNext, rpc = "sweep", rpc' = "delete"
               PROVE  age[entries[victim']] > Timeout
    BY DEF tableVars
  <2>1. \E k \in Keys : SweepCheck(k)
    BY DEF TableNext, ProcStep, Lookup, Delete, NewFnNil, NewFn, Insert, CountAdd, Touch,
           Release, DeleteCount, DeleteEvict, SweepStep, SweepStart, SweepLock, SweepDelete,
           SweepCount, SweepUnlock, AfterUnlock, RunCallback, NextShard, ReaperExit, Stop,
           Tick, reaperVars
  <2> QED
    BY <2>1 DEF SweepCheck, StaleExpired
<1> QED
  BY <1>2, <1>3, PTL DEF TableSpec, NoPrematureEviction
=============================================================================

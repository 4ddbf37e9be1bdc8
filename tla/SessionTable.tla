---------------------------- MODULE SessionTable ----------------------------
(***************************************************************************)
(* internal/session/session.go: the sharded table of active UDP sessions,  *)
(* its O(1) counter and its background reaper.                             *)
(*                                                                         *)
(* Processes run GetOrCreate, Touch and Delete; one reaper goroutine runs  *)
(* evictExpired.  A shard mutex makes each of their critical sections one  *)
(* step, except the reaper's, which other goroutines can observe through   *)
(* the lock-free fields (count, LastSeen) while the shard is held: there   *)
(* every atomic access is a step of its own.                               *)
(*                                                                         *)
(* Time is relative: age[s] is the time since s.LastSeen, cut off at       *)
(* Timeout + 1, the first age at which evictExpired finds s expired.       *)
(* Session identities are recycled once unreachable, as memory is.         *)
(***************************************************************************)
EXTENDS Integers, FiniteSets

CONSTANTS
    Keys,        \* client address and frontend name
    Procs,       \* goroutines that use the table
    Sessions,    \* *Session pointers
    NoSession,   \* the nil pointer
    NumShards,   \* numShards
    ShardFor,    \* shardFor, tabulated
    Timeout      \* t.timeout, in clock ticks

ASSUME KeysAssumption == IsFiniteSet(Keys)
ASSUME ProcsAssumption == IsFiniteSet(Procs)
ASSUME SessionsAssumption == NoSession \notin Sessions
ASSUME ShardsAssumption ==
    NumShards \in Nat \ {0} /\ ShardFor \in [Keys -> 1..NumShards]
ASSUME TimeoutAssumption == Timeout \in Nat

VARIABLES
    entries,     \* shards[i].entries, all shards together
    count,       \* t.count
    age,         \* time since each session's LastSeen
    pc,          \* where each process stands in its table operation
    key,         \* the key of that operation
    sess,        \* the session the process has in hand
    stopped,     \* stopCh is closed
    rpc,         \* where the reaper stands
    shard,       \* the shard evictExpired is at
    stale,       \* sessions last seen before the sweep's cutoff
    todo,        \* keys of the locked shard the range loop has yet to visit
    victim,      \* the key found expired, about to be deleted
    callbacks,   \* evictExpired's callbacks slice
    inserted,    \* history: sessions that entered the table
    evicted      \* history: sessions whose callEvict has run

procVars   == <<pc, key, sess>>
reaperVars == <<rpc, shard, stale, todo, victim, callbacks>>
tableVars  == <<entries, count, age, pc, key, sess, stopped, rpc, shard,
                stale, todo, victim, callbacks, inserted, evicted>>

NoKey == NoSession

Present == {k \in Keys : entries[k] # NoSession}
InTable == {entries[k] : k \in Present}

\* Processes between the insertion and count.Add(1), and between the deletion
\* and count.Add(-1).
Uncounted    == {p \in Procs : pc[p] = "count"}
Undiscounted == {p \in Procs : pc[p] = "delcount"}

\* Sessions out of the table whose callEvict is still to come.
Evicting == callbacks \cup
            {sess[p] : p \in {q \in Procs : pc[q] \in {"delcount", "delevict"}}}

Held == {sess[p] : p \in Procs} \ {NoSession}
Free == Sessions \ (InTable \cup Held \cup callbacks)

\* The reaper holds a shard's mutex from the start of the range loop to its end.
LockedNever(k) == FALSE
Locked(k) == rpc \in {"sweep", "delete", "discount"} /\ ShardFor[k] = shard

TypeOK ==
    /\ entries \in [Keys -> Sessions \cup {NoSession}]
    /\ count \in Int
    /\ age \in [Sessions -> 0..(Timeout + 1)]
    /\ pc \in [Procs -> {"idle", "miss", "insert", "count", "created", "found",
                         "delcount", "delevict"}]
    /\ key \in [Procs -> Keys \cup {NoKey}]
    /\ sess \in [Procs -> Sessions \cup {NoSession}]
    /\ stopped \in BOOLEAN
    /\ rpc \in {"idle", "lock", "sweep", "delete", "discount", "callbacks",
                "exited"}
    /\ shard \in 1..NumShards
    /\ stale \subseteq Sessions
    /\ todo \subseteq Keys
    /\ victim \in Keys \cup {NoKey}
    /\ callbacks \subseteq Sessions
    /\ inserted \subseteq Sessions
    /\ evicted \subseteq Sessions

TableInit ==
    /\ entries = [k \in Keys |-> NoSession]
    /\ count = 0
    /\ age = [s \in Sessions |-> 0]
    /\ pc = [p \in Procs |-> "idle"]
    /\ key = [p \in Procs |-> NoKey]
    /\ sess = [p \in Procs |-> NoSession]
    /\ stopped = FALSE
    /\ rpc = "idle"
    /\ shard = 1
    /\ stale = {}
    /\ todo = {}
    /\ victim = NoKey
    /\ callbacks = {}
    /\ inserted = {}
    /\ evicted = {}

-----------------------------------------------------------------------------
(* GetOrCreate, Touch, Delete                                              *)

\* The first RLock section of GetOrCreate: a hit returns the session.
Lookup(p, k) ==
    /\ pc[p] = "idle"
    /\ ~Locked(k)
    /\ key' = [key EXCEPT ![p] = k]
    /\ sess' = [sess EXCEPT ![p] = entries[k]]
    /\ pc' = [pc EXCEPT ![p] = IF entries[k] = NoSession THEN "miss" ELSE "found"]
    /\ UNCHANGED <<entries, count, age, stopped, reaperVars, inserted, evicted>>

\* The operation returns and the process drops its pointer.
Return(p) ==
    /\ pc' = [pc EXCEPT ![p] = "idle"]
    /\ key' = [key EXCEPT ![p] = NoKey]
    /\ sess' = [sess EXCEPT ![p] = NoSession]

\* newFn, run without a lock, has no session to offer.
NewFnNil(p) ==
    /\ pc[p] = "miss"
    /\ Return(p)
    /\ UNCHANGED <<entries, count, age, stopped, reaperVars, inserted, evicted>>

\* newFn allocates a session; NewSession stamps LastSeen.
NewFn(p, s) ==
    /\ pc[p] = "miss"
    /\ s \in Free
    /\ pc' = [pc EXCEPT ![p] = "insert"]
    /\ sess' = [sess EXCEPT ![p] = s]
    /\ age' = [age EXCEPT ![s] = 0]
    /\ stale' = stale \ {s}
    /\ inserted' = inserted \ {s}
    /\ evicted' = evicted \ {s}
    /\ UNCHANGED <<entries, count, key, stopped, rpc, shard, todo, victim, callbacks>>

\* The recheck under the Lock: has another process inserted meanwhile?
VacantUnchecked(k) == TRUE
Vacant(k) == entries[k] = NoSession

\* What the loser of that race returns.
WinnerForgotten(p) == sess[p]
Winner(p) == entries[key[p]]

\* The Lock section of GetOrCreate: a session that got there first wins.
Insert(p) ==
    /\ pc[p] = "insert"
    /\ ~Locked(key[p])
    /\ \/ /\ Vacant(key[p])
          /\ entries' = [entries EXCEPT ![key[p]] = sess[p]]
          /\ inserted' = inserted \cup {sess[p]}
          /\ pc' = [pc EXCEPT ![p] = "count"]
          /\ UNCHANGED sess
       \/ /\ ~Vacant(key[p])
          /\ sess' = [sess EXCEPT ![p] = Winner(p)]
          /\ pc' = [pc EXCEPT ![p] = "found"]
          /\ UNCHANGED <<entries, inserted>>
    /\ UNCHANGED <<count, age, key, stopped, reaperVars, evicted>>

\* t.count.Add(1), after the unlock.
CountAdd(p) ==
    /\ pc[p] = "count"
    /\ count' = count + 1
    /\ pc' = [pc EXCEPT ![p] = "created"]
    /\ UNCHANGED <<entries, age, key, sess, stopped, reaperVars, inserted, evicted>>

\* Session.Touch, lock-free: it may hit a session that has left the table.
Touch(p) ==
    /\ pc[p] \in {"created", "found"}
    /\ age' = [age EXCEPT ![sess[p]] = 0]
    /\ stale' = stale \ {sess[p]}
    /\ UNCHANGED <<entries, count, procVars, stopped, rpc, shard, todo, victim,
                   callbacks, inserted, evicted>>

Release(p) ==
    /\ pc[p] \in {"created", "found"}
    /\ Return(p)
    /\ UNCHANGED <<entries, count, age, stopped, reaperVars, inserted, evicted>>

\* The Lock section of Delete.
Delete(p, k) ==
    /\ pc[p] = "idle"
    /\ ~Locked(k)
    /\ entries[k] # NoSession
    /\ entries' = [entries EXCEPT ![k] = NoSession]
    /\ pc' = [pc EXCEPT ![p] = "delcount"]
    /\ key' = [key EXCEPT ![p] = k]
    /\ sess' = [sess EXCEPT ![p] = entries[k]]
    /\ UNCHANGED <<count, age, stopped, reaperVars, inserted, evicted>>

DeleteCount(p) ==
    /\ pc[p] = "delcount"
    /\ count' = count - 1
    /\ pc' = [pc EXCEPT ![p] = "delevict"]
    /\ UNCHANGED <<entries, age, key, sess, stopped, reaperVars, inserted, evicted>>

\* sess.callEvict()
DeleteEvict(p) ==
    /\ pc[p] = "delevict"
    /\ evicted' = evicted \cup {sess[p]}
    /\ Return(p)
    /\ UNCHANGED <<entries, count, age, stopped, reaperVars, inserted>>

-----------------------------------------------------------------------------
(* The reaper                                                              *)

ExpiredEarly == {s \in Sessions : age[s] >= Timeout}
Expired == {s \in Sessions : age[s] > Timeout}

\* The ticker fires and evictExpired fixes its cutoff.
SweepStart ==
    /\ rpc = "idle"
    /\ rpc' = "lock"
    /\ shard' = 1
    /\ stale' = Expired
    /\ UNCHANGED <<entries, count, age, procVars, stopped, todo, victim,
                   callbacks, inserted, evicted>>

\* callbacks[:0] and the shard's Lock.
SweepLock ==
    /\ rpc = "lock"
    /\ rpc' = "sweep"
    /\ callbacks' = {}
    /\ todo' = {k \in Present : ShardFor[k] = shard}
    /\ UNCHANGED <<entries, count, age, procVars, stopped, shard, stale, victim,
                   inserted, evicted>>

\* LastSeenTime().Before(cutoff) for the next entry of the range loop.
SweepCheck(k) ==
    /\ rpc = "sweep"
    /\ k \in todo
    /\ todo' = todo \ {k}
    /\ \/ /\ entries[k] \in stale
          /\ rpc' = "delete"
          /\ victim' = k
       \/ /\ entries[k] \notin stale
          /\ UNCHANGED <<rpc, victim>>
    /\ UNCHANGED <<entries, count, age, procVars, stopped, shard, stale,
                   callbacks, inserted, evicted>>

\* callbacks = append(callbacks, sess.callEvict)
CollectLast(s) == {s}
Collect(s) == callbacks \cup {s}

SweepDelete ==
    /\ rpc = "delete"
    /\ rpc' = "discount"
    /\ entries' = [entries EXCEPT ![victim] = NoSession]
    /\ callbacks' = Collect(entries[victim])
    /\ UNCHANGED <<count, age, procVars, stopped, shard, stale, todo, victim,
                   inserted, evicted>>

\* t.count.Add(-1), under the lock but visible to every Len().
SweepCount ==
    /\ rpc = "discount"
    /\ rpc' = "sweep"
    /\ count' = count - 1
    /\ victim' = NoKey
    /\ UNCHANGED <<entries, age, procVars, stopped, shard, stale, todo,
                   callbacks, inserted, evicted>>

\* After the unlock the callbacks run, whether or not stopCh has been closed.
AfterUnlockOrStop == IF stopped THEN "exited" ELSE "callbacks"
AfterUnlock == "callbacks"

SweepUnlock ==
    /\ rpc = "sweep"
    /\ todo = {}
    /\ rpc' = AfterUnlock
    /\ UNCHANGED <<entries, count, age, procVars, stopped, shard, stale, todo,
                   victim, callbacks, inserted, evicted>>

\* cb(), with no lock held.
RunCallback(s) ==
    /\ rpc = "callbacks"
    /\ s \in callbacks
    /\ callbacks' = callbacks \ {s}
    /\ evicted' = evicted \cup {s}
    /\ UNCHANGED <<entries, count, age, procVars, stopped, rpc, shard, stale,
                   todo, victim, inserted>>

MoreShardsOffByOne == shard < NumShards - 1
MoreShards == shard < NumShards

\* The next iteration of the shard loop, or back to the select.
NextShard ==
    /\ rpc = "callbacks"
    /\ callbacks = {}
    /\ \/ /\ MoreShards
          /\ shard' = shard + 1
          /\ rpc' = "lock"
          /\ UNCHANGED stale
       \/ /\ ~MoreShards
          /\ shard' = 1
          /\ rpc' = "idle"
          /\ stale' = {}
    /\ UNCHANGED <<entries, count, age, procVars, stopped, todo, victim,
                   callbacks, inserted, evicted>>

StopReadyWhenEmpty == stopped /\ Present = {}
StopReady == stopped

\* The select takes the stopCh case.
ReaperExit ==
    /\ rpc = "idle"
    /\ StopReady
    /\ rpc' = "exited"
    /\ UNCHANGED <<entries, count, age, procVars, stopped, shard, stale, todo,
                   victim, callbacks, inserted, evicted>>

Stop ==
    /\ stopped' = TRUE
    /\ UNCHANGED <<entries, count, age, procVars, reaperVars, inserted, evicted>>

\* A tick of the clock.
Tick ==
    /\ age' = [s \in Sessions |-> IF age[s] > Timeout THEN age[s] ELSE age[s] + 1]
    /\ UNCHANGED <<entries, count, procVars, stopped, reaperVars, inserted, evicted>>

-----------------------------------------------------------------------------
ProcStep(p) ==
    \/ \E k \in Keys : Lookup(p, k) \/ Delete(p, k)
    \/ NewFnNil(p)
    \/ \E s \in Sessions : NewFn(p, s)
    \/ Insert(p)
    \/ CountAdd(p)
    \/ Touch(p)
    \/ Release(p)
    \/ DeleteCount(p)
    \/ DeleteEvict(p)

SweepStep ==
    \/ SweepStart
    \/ SweepLock
    \/ \E k \in Keys : SweepCheck(k)
    \/ SweepDelete
    \/ SweepCount
    \/ SweepUnlock
    \/ \E s \in Sessions : RunCallback(s)
    \/ NextShard

TableNext ==
    \/ \E p \in Procs : ProcStep(p)
    \/ SweepStep
    \/ ReaperExit
    \/ Stop
    \/ Tick

TableSpec == TableInit /\ [][TableNext]_tableVars

\* The Go scheduler and the ticker keep the reaper going; the select picks among
\* ready cases at random, so it cannot avoid a closed stopCh for ever.
TableFairness == WF_tableVars(SweepStep) /\ SF_tableVars(ReaperExit)

FairTableSpec == TableSpec /\ TableFairness
-----------------------------------------------------------------------------
(* What the table promises                                                 *)

\* Len() (session.go:226) is the number of table entries, corrected by exactly
\* the operations that are between their map update and their atomic Add: no
\* interleaving of GetOrCreate, Delete and the reaper loses or doubles an Add.
CountConservation ==
    count = Cardinality(Present) - Cardinality(Uncounted)
            + Cardinality(Undiscounted) + (IF rpc = "discount" THEN 1 ELSE 0)

\* A session that entered the table is at every moment in exactly one of three
\* places: in the table under one key, removed with its eviction callback still
\* to come in exactly one place, or evicted.  So its callback runs exactly once,
\* and an insertion never overwrites a live entry.
OneStage ==
    /\ \A k, l \in Present : entries[k] = entries[l] => k = l
    /\ \A p, q \in Procs :
          /\ {pc[p], pc[q]} \subseteq {"delcount", "delevict"}
          /\ sess[p] = sess[q]
          => p = q
    /\ \A p \in Procs : pc[p] \in {"delcount", "delevict"} => sess[p] \notin callbacks
    /\ InTable \cap Evicting = {}
    /\ evicted \cap (InTable \cup Evicting) = {}
    /\ inserted = InTable \cup Evicting \cup evicted

\* GetOrCreate never returns a session that lost the insertion race, tells at
\* most one caller that it created a given session, and two callers with the
\* same key hold different sessions only if one of these was removed since.
SharedSession ==
    /\ \A p \in Procs : pc[p] \in {"count", "created", "found"} => sess[p] \in inserted
    /\ \A p, q \in Procs :
          /\ pc[p] \in {"count", "created", "found"}
          /\ pc[q] \in {"count", "created", "found"}
          => /\ pc[p] # "found" /\ pc[q] # "found" /\ sess[p] = sess[q] => p = q
             /\ key[p] = key[q] /\ {sess[p], sess[q]} \subseteq InTable
                => sess[p] = sess[q]

\* The reaper finds an entry expired (session.go:291) only while it has been
\* idle for longer than Timeout, although the cutoff was computed before the
\* first shard was locked and Touch takes no lock.
NoPrematureEviction ==
    [][rpc = "sweep" /\ rpc' = "delete" => age[entries[victim']] > Timeout]_tableVars

\* An expired session leaves the table unless a packet refreshes it first or
\* the table is stopped: the reaper visits every shard again and again.
ExpiredLeaves ==
    \A k \in Keys, s \in Sessions :
        entries[k] = s /\ age[s] > Timeout
            ~> entries[k] # s \/ age[s] <= Timeout \/ stopped

\* A session removed by the reaper is evicted by it even when Stop comes in
\* between: no server keeps the count of a session that is gone.
CallbacksRun == \A s \in Sessions : s \in callbacks ~> s \in evicted

\* Stop ends the reaper goroutine.
StopEndsReaper == stopped ~> rpc = "exited"
=============================================================================

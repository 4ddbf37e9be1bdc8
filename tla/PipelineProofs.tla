--------------------------- MODULE PipelineProofs ---------------------------
(***************************************************************************)
(* What TLAPS proves of Pipeline, for any number of readers, workers and   *)
(* listeners, any capacity of workCh and any number of packets.            *)
(***************************************************************************)
EXTENDS Pipeline, FiniteSetTheorems, SequenceTheorems, TLAPS

\* Before Start has succeeded no goroutine runs and no outbound socket is open.
Unlaunched ==
    phase \in {"new", "bound", "failed"} =>
        sendConn = FALSE /\ \A g \in Goroutines : at[g] = "none"

\* The bind loop has opened the first sockets and not yet the last.
BindsInOrder ==
    phase = "new" => \E k \in 0..(NumListeners - 1) : listeners = 1..k

\* A goroutine has a buffer between Get and Put or the hand-over.
Holding ==
    \A g \in Goroutines :
        at[g] \in {"read", "check", "enqueue", "answer", "forward", "put"} =>
            buf[g] \in Buffers

\* A goroutine keeps to its own loop.
Roles ==
    /\ \A r \in Readers :
          at[r] \in {"none", "top", "get", "read", "check", "enqueue", "error", "done"}
    /\ \A w \in Workers : at[w] \in {"none", "select", "forward", "put", "drain", "done"}

PipelineInv ==
    /\ PipelineTypeOK
    /\ Unlaunched
    /\ BindsInOrder
    /\ Holding
    /\ Roles

LEMMA PipelineInvInit == Init => PipelineInv
<1> SUFFICES ASSUME Init PROVE PipelineInv
  OBVIOUS
<1>1. \E k \in 0..(NumListeners - 1) : {} = 1..k
  <2>1. 0 \in 0..(NumListeners - 1) /\ {} = 1..0
    BY ListenersAssumption
  <2> QED
    BY <2>1
<1>2. sendConn \in BOOLEAN /\ stopCh \in BOOLEAN
  BY Zenon DEF Init
<1>3. PipelineTypeOK
  BY <1>2, PipelineBoundsAssumption DEF Init, PipelineTypeOK
<1>4. Unlaunched /\ BindsInOrder /\ Holding /\ Roles
  BY <1>1 DEF Init, Unlaunched, BindsInOrder, Holding, Roles, Goroutines
<1> QED
  BY <1>3, <1>4 DEF PipelineInv

\* A socket more.
LEMMA BindNext ==
  ASSUME NEW k \in 0..(NumListeners - 1)
  PROVE  /\ (1..k) \cup {Cardinality(1..k) + 1} = 1..(k + 1)
         /\ 1..(k + 1) \subseteq 1..NumListeners
         /\ 1..(k + 1) # 1..NumListeners => k + 1 \in 0..(NumListeners - 1)
<1>1. Cardinality(1..k) = k
  BY FS_Interval, ListenersAssumption
<1> QED
  BY <1>1, ListenersAssumption

LEMMA PipelineInvStep == PipelineInv /\ [Next]_vars => PipelineInv'
<1> SUFFICES ASSUME PipelineInv, [Next]_vars PROVE PipelineInv'
  OBVIOUS
<1> USE GoroutinesAssumption, BuffersAssumption, PipelineBoundsAssumption
<1> USE DEF PipelineInv, PipelineTypeOK, Unlaunched, BindsInOrder, Holding, Roles,
            Goroutines, lifeVars, countVars, Goes, PutBuffer
<1>1. CASE Bind
  <2>1. PICK k \in 0..(NumListeners - 1) : listeners = 1..k
    BY <1>1 DEF Bind
  <2>2. /\ listeners' \subseteq 1..NumListeners
        /\ phase' = "new" => \E j \in 0..(NumListeners - 1) : listeners' = 1..j
    BY <1>1, <2>1, BindNext DEF Bind, CloseListeners
  <2> QED
    BY <1>1, <2>2 DEF Bind
<1>2. CASE Launch
  BY <1>2 DEF Launch, CloseListeners
<1>3. ASSUME NEW g \in Readers \cup {Backend}, LoopTop(g) PROVE PipelineInv'
  BY <1>3 DEF LoopTop, Top
<1>4. ASSUME NEW g \in Readers \cup {Backend}, NEW b \in Buffers, GetBuffer(g, b) PROVE PipelineInv'
  BY <1>4 DEF GetBuffer
<1>5. ASSUME NEW g \in Readers \cup {Backend}, AfterError(g) PROVE PipelineInv'
  BY <1>5 DEF AfterError
<1>6. ASSUME NEW r \in Readers, CheckPacket(r) PROVE PipelineInv'
  <2>1. CASE Goes(r, "enqueue") /\ UNCHANGED <<buf, pool, dropped>>
    BY <1>6, <2>1 DEF CheckPacket
  <2>2. CASE dropped' = dropped + 1 /\ PutBuffer(r) /\ Goes(r, "top")
    BY <1>6, <2>2 DEF CheckPacket
  <2> QED
    BY <1>6, <2>1, <2>2 DEF CheckPacket
<1>7. ASSUME NEW r \in Readers, EnqueuePacket(r) PROVE PipelineInv'
  <2>1. CASE QueueRoom
    <3>1. workCh' \in Seq(Buffers) /\ Len(workCh') <= QueueCap
      BY <1>7, <2>1 DEF EnqueuePacket, QueueRoom
    <3>2. UNCHANGED <<lifeVars, pool, countVars>>
      BY <1>7, <2>1 DEF EnqueuePacket, HandOver
    <3>3. /\ at' \in [Goroutines -> {"none", "top", "get", "read", "check", "enqueue",
                      "answer", "error", "select", "forward", "put", "drain", "done"}]
          /\ buf' \in [Goroutines -> Buffers \cup {NoBuffer}]
      BY <1>7, <2>1 DEF EnqueuePacket, HandOver
    <3>4. PipelineTypeOK'
      BY <3>1, <3>2, <3>3
    <3>5. (Unlaunched /\ BindsInOrder /\ Holding /\ Roles)'
      BY <1>7, <2>1, <3>2 DEF EnqueuePacket, HandOver
    <3> QED
      BY <3>4, <3>5
  <2>2. CASE ~QueueRoom
    BY <1>7, <2>2 DEF EnqueuePacket, Saturated
  <2> QED
    BY <2>1, <2>2
<1>8. CASE RelayAnswer
  BY <1>8 DEF RelayAnswer
<1>9. ASSUME NEW w \in Workers, SelectStop(w) PROVE PipelineInv'
  BY <1>9 DEF SelectStop
<1>10. ASSUME NEW w \in Workers, SelectPacket(w) PROVE PipelineInv'
  BY <1>10 DEF SelectPacket
<1>11. ASSUME NEW w \in Workers, ForwardPacket(w) PROVE PipelineInv'
  BY <1>11 DEF ForwardPacket
<1>12. ASSUME NEW w \in Workers, PutPacket(w) PROVE PipelineInv'
  BY <1>12 DEF PutPacket
<1>13. ASSUME NEW w \in Workers, Drain(w) PROVE PipelineInv'
  <2>1. CASE workCh # <<>>
    <3>1. Head(workCh) \in Buffers /\ Tail(workCh) \in Seq(Buffers) /\ Len(Tail(workCh)) <= QueueCap
      BY <2>1
    <3>2. /\ workCh' = Tail(workCh) /\ pool' = pool \cup {Head(workCh)}
          /\ discarded' = discarded + 1
          /\ UNCHANGED <<lifeVars, at, buf, received, forwarded, dropped, unrouted, answers>>
      BY <1>13, <2>1 DEF Drain
    <3>3. PipelineTypeOK'
      BY <3>1, <3>2
    <3>4. (Unlaunched /\ BindsInOrder /\ Holding /\ Roles)'
      BY <3>2
    <3> QED
      BY <3>3, <3>4
  <2>2. CASE workCh = <<>>
    BY <1>13, <2>2 DEF Drain
  <2> QED
    BY <2>1, <2>2
<1>14. ASSUME NEW r \in Readers, ReadPacket(r) PROVE PipelineInv'
  BY <1>14 DEF ReadPacket
<1>15. CASE ReadAnswer
  BY <1>15 DEF ReadAnswer
<1>16. ASSUME NEW g \in Readers \cup {Backend}, ReadError(g) PROVE PipelineInv'
  BY <1>16 DEF ReadError
<1>17. CASE StopSignal \/ StopListeners \/ StopSendConn \/ StopWait
  BY <1>17 DEF StopSignal, StopListeners, StopSendConn, SendConnClosed, StopWait
<1>18. CASE UNCHANGED vars
  BY <1>18 DEF vars
<1> HIDE DEF PipelineInv
<1> QED
  BY <1>1, <1>2, <1>3, <1>4, <1>5, <1>6, <1>7, <1>8, <1>9, <1>10, <1>11, <1>12,
     <1>13, <1>14, <1>15, <1>16, <1>17, <1>18
  DEF Next, ReaderStep, LoopStep, WorkerStep, BackendStep, NetworkStep, StopStep

-----------------------------------------------------------------------------
(* Buffers                                                                 *)

\* OneOwner, said of one buffer at a time.
LEMMA OwnersApart ==
  OneOwner <=>
    /\ \A g, h \in Goroutines : buf[g] = buf[h] /\ buf[g] # NoBuffer => g = h
    /\ \A i, j \in DOMAIN workCh : workCh[i] = workCh[j] => i = j
    /\ \A g \in Goroutines, i \in DOMAIN workCh : buf[g] # workCh[i]
    /\ \A g \in Goroutines : buf[g] \notin pool
    /\ \A i \in DOMAIN workCh : workCh[i] \notin pool
  BY DEF OneOwner, Owned

LEMMA OneOwnerStep == PipelineInv /\ OneOwner /\ [Next]_vars => OneOwner'
<1> SUFFICES ASSUME PipelineInv, OneOwner, [Next]_vars PROVE OneOwner'
  OBVIOUS
<1> USE GoroutinesAssumption, BuffersAssumption
<1>ty. /\ buf \in [Goroutines -> Buffers \cup {NoBuffer}]
       /\ workCh \in Seq(Buffers)
       /\ pool \subseteq Buffers
  BY DEF PipelineInv, PipelineTypeOK
<1>h. Holding
  BY DEF PipelineInv
<1>o. /\ \A g, h \in Goroutines : buf[g] = buf[h] /\ buf[g] # NoBuffer => g = h
      /\ \A i, j \in DOMAIN workCh : workCh[i] = workCh[j] => i = j
      /\ \A g \in Goroutines, i \in DOMAIN workCh : buf[g] # workCh[i]
      /\ \A g \in Goroutines : buf[g] \notin pool
      /\ \A i \in DOMAIN workCh : workCh[i] \notin pool
  BY OwnersApart
<1>p. (OneOwner <=>
         /\ \A g, h \in Goroutines : buf[g] = buf[h] /\ buf[g] # NoBuffer => g = h
         /\ \A i, j \in DOMAIN workCh : workCh[i] = workCh[j] => i = j
         /\ \A g \in Goroutines, i \in DOMAIN workCh : buf[g] # workCh[i]
         /\ \A g \in Goroutines : buf[g] \notin pool
         /\ \A i \in DOMAIN workCh : workCh[i] \notin pool)'
  BY DEF OneOwner, Owned
<1>same. ASSUME UNCHANGED <<buf, workCh, pool>> PROVE OneOwner'
  BY <1>o, <1>p, <1>same
\* The owner gives its buffer back.
<1>put. ASSUME NEW g \in Goroutines, buf[g] \in Buffers, PutBuffer(g), workCh' = workCh
        PROVE  OneOwner'
  BY <1>ty, <1>o, <1>p, <1>put DEF PutBuffer
<1>1. ASSUME NEW g \in Goroutines, NEW b \in Buffers, GetBuffer(g, b) PROVE OneOwner'
  <2>1. \A h \in Goroutines : buf[h] # b
    BY <1>1, <1>o DEF GetBuffer, Fresh, Owned
  <2>2. \A i \in DOMAIN workCh : workCh[i] # b
    BY <1>1, <1>o DEF GetBuffer, Fresh, Owned
  <2>3. buf' = [buf EXCEPT ![g] = b] /\ pool' = pool \ {b} /\ workCh' = workCh
    BY <1>1 DEF GetBuffer
  <2> QED
    BY <1>ty, <1>o, <1>p, <2>1, <2>2, <2>3
<1>2. ASSUME NEW g \in Goroutines, ReadError(g) PROVE OneOwner'
  BY <1>2, <1>h, <1>put DEF ReadError, Holding
<1>3. ASSUME NEW r \in Readers, CheckPacket(r) PROVE OneOwner'
  <2>1. r \in Goroutines /\ buf[r] \in Buffers /\ workCh' = workCh
    BY <1>3, <1>h DEF CheckPacket, Holding, Goroutines
  <2> QED
    BY <1>3, <1>put, <1>same, <2>1 DEF CheckPacket
<1>4. ASSUME NEW r \in Readers, EnqueuePacket(r) PROVE OneOwner'
  <2>1. r \in Goroutines /\ buf[r] \in Buffers
    BY <1>4, <1>h DEF EnqueuePacket, Holding, Goroutines
  <2>2. CASE QueueRoom
    <3>1. /\ workCh' = Append(workCh, buf[r])
          /\ buf' = [buf EXCEPT ![r] = NoBuffer] /\ pool' = pool
      BY <1>4, <2>2 DEF EnqueuePacket, HandOver
    <3>2. /\ DOMAIN workCh' = 1..(Len(workCh) + 1) /\ DOMAIN workCh = 1..Len(workCh)
          /\ Len(workCh) \in Nat
          /\ \A i \in 1..Len(workCh) : workCh'[i] = workCh[i] /\ workCh[i] \in Buffers
          /\ workCh'[Len(workCh) + 1] = buf[r]
      BY <1>ty, <2>1, <3>1
    <3>3. \A g \in Goroutines : buf'[g] = IF g = r THEN NoBuffer ELSE buf[g]
      BY <1>ty, <2>1, <3>1
    <3>4. \A i \in DOMAIN workCh' : i \in DOMAIN workCh \/ i = Len(workCh) + 1
      BY <3>2
    <3>5. \A i, j \in DOMAIN workCh' : workCh'[i] = workCh'[j] => i = j
      BY <1>o, <2>1, <3>2, <3>4
    <3>6. \A g \in Goroutines, i \in DOMAIN workCh' : buf'[g] # workCh'[i]
      <4> SUFFICES ASSUME NEW g \in Goroutines, NEW i \in DOMAIN workCh' PROVE buf'[g] # workCh'[i]
        OBVIOUS
      <4>1. CASE i \in DOMAIN workCh
        BY <1>o, <3>2, <3>3, <4>1
      <4>2. CASE i = Len(workCh) + 1
        BY <1>o, <2>1, <3>2, <3>3, <4>2
      <4> QED
        BY <3>4, <4>1, <4>2
    <3>7. \A g, h \in Goroutines : buf'[g] = buf'[h] /\ buf'[g] # NoBuffer => g = h
      BY <1>o, <3>3
    <3>8. /\ \A g \in Goroutines : buf'[g] \notin pool'
          /\ \A i \in DOMAIN workCh' : workCh'[i] \notin pool'
      BY <1>ty, <1>o, <2>1, <3>1, <3>2, <3>3, <3>4
    <3> QED
      BY <1>p, <3>5, <3>6, <3>7, <3>8
  <2>3. CASE ~QueueRoom
    BY <1>4, <1>put, <2>1, <2>3 DEF EnqueuePacket
  <2> QED
    BY <2>2, <2>3
<1>5. CASE RelayAnswer
  <2>1. Backend \in Goroutines /\ buf[Backend] \in Buffers /\ workCh' = workCh /\ PutBuffer(Backend)
    BY <1>5, <1>h DEF RelayAnswer, Holding, Goroutines
  <2> QED
    BY <1>put, <2>1
<1>6. ASSUME NEW w \in Workers, SelectPacket(w) PROVE OneOwner'
  <2>1. w \in Goroutines /\ workCh # <<>>
    BY <1>6 DEF SelectPacket, Goroutines
  <2>2. workCh' = Tail(workCh) /\ buf' = [buf EXCEPT ![w] = Head(workCh)] /\ pool' = pool
    BY <1>6 DEF SelectPacket
  <2>3. /\ Len(workCh) \in Nat /\ DOMAIN workCh = 1..Len(workCh) /\ 1 \in DOMAIN workCh
        /\ DOMAIN workCh' = 1..(Len(workCh) - 1)
        /\ \A i \in DOMAIN workCh' : workCh'[i] = workCh[i + 1] /\ i + 1 \in DOMAIN workCh
        /\ Head(workCh) = workCh[1]
    BY <1>ty, <2>1, <2>2
  <2>4. \A g \in Goroutines : buf'[g] = IF g = w THEN workCh[1] ELSE buf[g]
    BY <1>ty, <2>1, <2>2, <2>3
  <2>5. \A i \in DOMAIN workCh' : i + 1 # 1 /\ \A j \in DOMAIN workCh' : i + 1 = j + 1 => i = j
    BY <2>3
  <2> QED
    BY <1>o, <1>p, <2>1, <2>2, <2>3, <2>4, <2>5
<1>7. ASSUME NEW w \in Workers, PutPacket(w) PROVE OneOwner'
  <2>1. w \in Goroutines /\ buf[w] \in Buffers /\ workCh' = workCh /\ PutBuffer(w)
    BY <1>7, <1>h DEF PutPacket, Holding, Goroutines
  <2> QED
    BY <1>put, <2>1
<1>8. ASSUME NEW w \in Workers, Drain(w) PROVE OneOwner'
  <2>1. CASE workCh # <<>>
    <3>1. workCh' = Tail(workCh) /\ buf' = buf /\ pool' = pool \cup {Head(workCh)}
      BY <1>8, <2>1 DEF Drain
    <3>2. /\ Len(workCh) \in Nat /\ DOMAIN workCh = 1..Len(workCh) /\ 1 \in DOMAIN workCh
          /\ DOMAIN workCh' = 1..(Len(workCh) - 1)
          /\ \A i \in DOMAIN workCh' : workCh'[i] = workCh[i + 1] /\ i + 1 \in DOMAIN workCh
          /\ Head(workCh) = workCh[1]
      BY <1>ty, <2>1, <3>1
    <3>3. \A i \in DOMAIN workCh' : i + 1 # 1 /\ \A j \in DOMAIN workCh' : i + 1 = j + 1 => i = j
      BY <3>2
    <3> QED
      BY <1>o, <1>p, <3>1, <3>2, <3>3
  <2>2. CASE workCh = <<>>
    BY <1>8, <2>2, <1>same DEF Drain
  <2> QED
    BY <2>1, <2>2
<1>9. CASE UNCHANGED <<buf, workCh, pool>>
  BY <1>9, <1>same
<1> QED
  BY <1>1, <1>2, <1>3, <1>4, <1>5, <1>6, <1>7, <1>8, <1>9
  DEF Next, ReaderStep, LoopStep, WorkerStep, BackendStep, NetworkStep, StopStep, Goroutines,
      Bind, Launch, LoopTop, AfterError, ReadPacket, ReadAnswer, SelectStop, ForwardPacket,
      StopSignal, StopListeners, StopSendConn, StopWait, vars

LEMMA PipelineInvariant == Spec => []PipelineInv
  BY PipelineInvInit, PipelineInvStep, PTL DEF Spec

\* No two goroutines, queue slots or the pool ever share a buffer
\* (frontend.go:359), however many readers and workers there are.
THEOREM BuffersHaveOneOwner == Spec => []OneOwner
<1>1. Init => OneOwner
  BY DEF Init, OneOwner, Owned
<1> QED
  BY <1>1, PipelineInvInit, PipelineInvStep, OneOwnerStep, PTL DEF Spec

-----------------------------------------------------------------------------
(* Counters                                                                *)

\* Only the goroutine that moves can take a packet in hand or let go of one.
LEMMA HandMoves ==
  ASSUME PipelineInv, NEW g \in Goroutines, NEW l, Goes(g, l)
  PROVE  InHand' = IF \/ g \in Readers /\ l \in {"check", "enqueue"}
                      \/ g \in Workers /\ l = "forward"
                   THEN InHand \cup {g} ELSE InHand \ {g}
  BY GoroutinesAssumption DEF PipelineInv, PipelineTypeOK, Goroutines, Goes, InHand

\* One packet more, or one less, in hand.
LEMMA HandCount ==
  /\ IsFiniteSet(InHand) /\ Cardinality(InHand) \in Nat
  /\ \A g : /\ g \notin InHand => Cardinality(InHand \cup {g}) = Cardinality(InHand) + 1
            /\ g \in InHand => Cardinality(InHand \ {g}) = Cardinality(InHand) - 1
<1>1. IsFiniteSet(InHand)
  <2>1. IsFiniteSet(Readers \cup Workers) /\ InHand \subseteq Readers \cup Workers
    BY CrewAssumption, FS_Union DEF InHand
  <2> QED
    BY <2>1, FS_Subset
<1> QED
  BY <1>1, FS_CardinalityType, FS_AddElement, FS_RemoveElement

LEMMA AccountingStep == PipelineInv /\ Accounting /\ [Next]_vars => Accounting'
<1> SUFFICES ASSUME PipelineInv, Accounting, [Next]_vars PROVE Accounting'
  OBVIOUS
<1> USE GoroutinesAssumption
<1>ty. /\ at \in [Goroutines -> {"none", "top", "get", "read", "check", "enqueue", "answer",
                                 "error", "select", "forward", "put", "drain", "done"}]
       /\ workCh \in Seq(Buffers) /\ Len(workCh) \in Nat
       /\ {received, forwarded, dropped, unrouted, discarded, answers} \subseteq Nat
       /\ Cardinality(InHand) \in Nat
  BY HandCount DEF PipelineInv, PipelineTypeOK
<1>n. /\ received \in Nat /\ forwarded \in Nat /\ dropped \in Nat /\ unrouted \in Nat
      /\ discarded \in Nat /\ Cardinality(InHand) \in Nat /\ Len(workCh) \in Nat
  BY <1>ty
<1>a. received = forwarded + (dropped - unrouted) + discarded + Cardinality(InHand) + Len(workCh)
  BY DEF Accounting
\* Steps of a goroutine that neither takes nor gives a packet.
<1>idle. ASSUME NEW g \in Goroutines, g \notin InHand, NEW l, Goes(g, l),
                l \notin {"check", "enqueue", "forward"}, workCh' = workCh,
                UNCHANGED <<received, forwarded, dropped - unrouted, discarded>>
         PROVE  Accounting'
  <2>1. InHand' = InHand
    BY <1>idle, HandMoves
  <2> QED
    BY <1>idle, <1>a, <2>1 DEF Accounting
<1>1. CASE Bind \/ StopSignal \/ StopListeners \/ StopSendConn \/ StopWait \/ UNCHANGED vars
  <2>1. InHand' = InHand
    BY <1>1 DEF InHand, Bind, StopSignal, StopListeners, StopSendConn, StopWait, vars
  <2>2. UNCHANGED <<received, forwarded, dropped, unrouted, discarded, workCh>>
    BY <1>1 DEF Bind, StopSignal, StopListeners, StopSendConn, StopWait, vars, countVars
  <2> QED
    BY <1>a, <2>1, <2>2 DEF Accounting
<1>2. CASE Launch
  <2>1. InHand = {} /\ InHand' = {}
    BY <1>2 DEF Launch, InHand, PipelineInv, Unlaunched, Goroutines
  <2>2. UNCHANGED <<received, forwarded, dropped, unrouted, discarded, workCh>>
    BY <1>2 DEF Launch, countVars
  <2> QED
    BY <1>a, <2>1, <2>2 DEF Accounting
<1>3. ASSUME NEW g \in Goroutines,
             LoopTop(g) \/ AfterError(g) \/ ReadError(g) \/ \E b \in Buffers : GetBuffer(g, b)
      PROVE  Accounting'
  <2>1. PICK l \in {"top", "get", "read", "error", "done"} : Goes(g, l)
    BY <1>3 DEF LoopTop, Top, AfterError, ReadError, GetBuffer
  <2>2. g \notin InHand /\ UNCHANGED <<workCh, received, forwarded, dropped, unrouted, discarded>>
    BY <1>3 DEF LoopTop, AfterError, ReadError, GetBuffer, InHand, countVars
  <2> QED
    BY <1>idle, <2>1, <2>2
<1>4. ASSUME NEW w \in Workers, SelectStop(w) \/ PutPacket(w) PROVE Accounting'
  <2>1. PICK l \in {"drain", "select"} : Goes(w, l)
    BY <1>4 DEF SelectStop, PutPacket
  <2>2. w \notin InHand /\ UNCHANGED <<workCh, received, forwarded, dropped, unrouted, discarded>>
    BY <1>4 DEF SelectStop, PutPacket, InHand, countVars
  <2> QED
    BY <1>idle, <2>1, <2>2 DEF Goroutines
<1>5. CASE ReadAnswer
  <2>1. Backend \in Goroutines /\ Backend \notin InHand
    BY DEF InHand, Goroutines
  <2> QED
    BY <1>5, <1>idle, <2>1 DEF ReadAnswer
<1>6. CASE RelayAnswer
  <2>1. Backend \in Goroutines /\ Backend \notin InHand
    BY DEF InHand, Goroutines
  <2>2. (dropped - unrouted)' = dropped - unrouted
    BY <1>6, <1>ty DEF RelayAnswer
  <2>3. UNCHANGED <<workCh, received, forwarded, discarded>> /\ Goes(Backend, "top")
    BY <1>6 DEF RelayAnswer
  <2> QED
    BY <1>idle, <2>1, <2>2, <2>3
<1>7. ASSUME NEW r \in Readers, ReadPacket(r) PROVE Accounting'
  <2>1. r \notin InHand /\ r \in Goroutines /\ Goes(r, "check")
    BY <1>7 DEF ReadPacket, InHand, Goroutines
  <2>2. InHand' = InHand \cup {r}
    BY <2>1, HandMoves
  <2>3. Cardinality(InHand') = Cardinality(InHand) + 1
    BY <2>1, <2>2, HandCount
  <2>4. received' = received + 1 /\ UNCHANGED <<forwarded, dropped, unrouted, discarded, workCh>>
    BY <1>7 DEF ReadPacket
  <2> QED
    BY <1>a, <1>n, <2>3, <2>4 DEF Accounting
<1>8. ASSUME NEW r \in Readers, CheckPacket(r) PROVE Accounting'
  <2>1. r \in InHand /\ r \in Goroutines
    BY <1>8 DEF CheckPacket, InHand, Goroutines
  <2>2. CASE Goes(r, "enqueue") /\ UNCHANGED <<buf, pool, dropped>>
    <3>1. InHand' = InHand
      BY <2>1, <2>2, HandMoves
    <3> QED
      BY <1>8, <1>a, <2>2, <3>1 DEF CheckPacket, Accounting
  <2>3. CASE dropped' = dropped + 1 /\ PutBuffer(r) /\ Goes(r, "top")
    <3>1. InHand' = InHand \ {r}
      BY <2>1, <2>3, HandMoves
    <3>2. Cardinality(InHand') = Cardinality(InHand) - 1
      BY <2>1, <3>1, HandCount
    <3>3. dropped' = dropped + 1 /\ UNCHANGED <<received, forwarded, unrouted, discarded, workCh>>
      BY <1>8, <2>3 DEF CheckPacket
    <3> QED
      BY <1>a, <1>n, <3>2, <3>3 DEF Accounting
  <2> QED
    BY <1>8, <2>2, <2>3 DEF CheckPacket
<1>9. ASSUME NEW r \in Readers, EnqueuePacket(r) PROVE Accounting'
  <2>1. r \in InHand /\ r \in Goroutines /\ Goes(r, "top")
    BY <1>9 DEF EnqueuePacket, InHand, Goroutines
  <2>2. InHand' = InHand \ {r}
    BY <2>1, HandMoves
  <2>3. Cardinality(InHand') = Cardinality(InHand) - 1
    BY <2>1, <2>2, HandCount
  <2>4. \/ Len(workCh') = Len(workCh) + 1 /\ dropped' = dropped
        \/ workCh' = workCh /\ dropped' = dropped + 1
    BY <1>9, <1>ty DEF EnqueuePacket, Saturated
  <2>5. UNCHANGED <<received, forwarded, unrouted, discarded>>
    BY <1>9 DEF EnqueuePacket
  <2>6. CASE Len(workCh') = Len(workCh) + 1 /\ dropped' = dropped
    BY <1>a, <1>n, <2>3, <2>5, <2>6 DEF Accounting
  <2>7. CASE workCh' = workCh /\ dropped' = dropped + 1
    BY <1>a, <1>n, <2>3, <2>5, <2>7 DEF Accounting
  <2> QED
    BY <2>4, <2>6, <2>7
<1>10. ASSUME NEW w \in Workers, SelectPacket(w) PROVE Accounting'
  <2>1. w \notin InHand /\ w \in Goroutines /\ Goes(w, "forward")
    BY <1>10 DEF SelectPacket, InHand, Goroutines
  <2>2. InHand' = InHand \cup {w}
    BY <2>1, HandMoves
  <2>3. Cardinality(InHand') = Cardinality(InHand) + 1
    BY <2>1, <2>2, HandCount
  <2>4. Len(workCh') = Len(workCh) - 1
    BY <1>10, <1>ty DEF SelectPacket
  <2> QED
    BY <1>10, <1>a, <1>ty, <2>3, <2>4 DEF SelectPacket, Accounting, countVars
<1>11. ASSUME NEW w \in Workers, ForwardPacket(w) PROVE Accounting'
  <2>1. w \in InHand /\ w \in Goroutines /\ Goes(w, "put")
    BY <1>11 DEF ForwardPacket, InHand, Goroutines
  <2>2. InHand' = InHand \ {w}
    BY <2>1, HandMoves
  <2>3. Cardinality(InHand') = Cardinality(InHand) - 1
    BY <2>1, <2>2, HandCount
  <2>4. \/ forwarded' = forwarded + 1 /\ dropped' = dropped
        \/ dropped' = dropped + 1 /\ forwarded' = forwarded
    BY <1>11 DEF ForwardPacket
  <2>5. UNCHANGED <<received, unrouted, discarded, workCh>>
    BY <1>11 DEF ForwardPacket
  <2> QED
    BY <1>a, <1>n, <2>3, <2>4, <2>5 DEF Accounting
<1>12. ASSUME NEW w \in Workers, Drain(w) PROVE Accounting'
  <2>1. w \notin InHand /\ w \in Goroutines
    BY <1>12 DEF Drain, InHand, Goroutines
  <2>2. CASE workCh # <<>>
    <3>1. InHand' = InHand /\ Len(workCh') = Len(workCh) - 1
      BY <1>12, <1>ty, <2>2 DEF Drain, InHand
    <3> QED
      BY <1>12, <1>a, <1>ty, <2>2, <3>1 DEF Drain, Accounting
  <2>3. CASE workCh = <<>>
    BY <1>12, <1>idle, <2>1, <2>3 DEF Drain
  <2> QED
    BY <2>2, <2>3
<1> QED
  BY <1>1, <1>2, <1>3, <1>4, <1>5, <1>6, <1>7, <1>8, <1>9, <1>10, <1>11, <1>12
  DEF Next, ReaderStep, LoopStep, WorkerStep, BackendStep, NetworkStep, StopStep, Goroutines

\* The counters of metrics.go account for every packet received, none of them
\* twice, for any number of goroutines and any traffic.
THEOREM PacketsAccountedFor == Spec => []Accounting
<1>1. Init => Accounting
  <2> SUFFICES ASSUME Init PROVE Accounting
    OBVIOUS
  <2>1. InHand = {} /\ Len(workCh) = 0
    BY DEF Init, InHand, Goroutines
  <2>2. Cardinality(InHand) = 0
    BY <2>1, FS_EmptySet
  <2> QED
    BY <2>1, <2>2 DEF Init, Accounting
<1> QED
  BY <1>1, PipelineInvInit, PipelineInvStep, AccountingStep, PTL DEF Spec

-----------------------------------------------------------------------------
(* Start and Stop                                                          *)

\* The sockets of a failed Start.
NothingBound == phase = "failed" => listeners = {}

\* A Start that returns an error has closed every socket it bound
\* (frontend.go:176) and launched no goroutine, at whichever bind it failed.
THEOREM FailedStartIsClean == Spec => []FailedStartClosesAll
<1>1. Init => NothingBound
  BY DEF Init, NothingBound
<1>2. PipelineInv /\ NothingBound /\ [Next]_vars => NothingBound'
  BY DEF PipelineInv, Unlaunched, NothingBound, Next, vars, lifeVars, Bind, Launch,
         CloseListeners, ReaderStep, LoopStep, WorkerStep, BackendStep, NetworkStep, StopStep,
         LoopTop, GetBuffer, AfterError, CheckPacket, EnqueuePacket, RelayAnswer, SelectStop,
         SelectPacket, ForwardPacket, PutPacket, Drain, ReadPacket, ReadAnswer, ReadError,
         StopSignal, StopListeners, StopSendConn, StopWait
<1>3. PipelineInv /\ NothingBound => FailedStartClosesAll
  BY DEF PipelineInv, Unlaunched, NothingBound, FailedStartClosesAll
<1> QED
  BY <1>1, <1>2, <1>3, PipelineInvInit, PipelineInvStep, PTL DEF Spec

\* The readers that have handed over or dropped their packet and hold no other.
PastEnqueue == {r \in Readers : at[r] \in {"top", "error", "done"}}

\* Workers leave the select for stopCh alone; Stop returns when all are done; and
\* what the last worker did not see, a reader put there that holds no packet now.
StopInv ==
    /\ \A w \in Workers : at[w] \in {"drain", "done"} => stopCh
    /\ phase = "stopped" => \A g \in Goroutines : at[g] = "done"
    /\ (\A w \in Workers : at[w] = "done") => Len(workCh) <= Cardinality(PastEnqueue)

LEMMA StopInvStep == PipelineInv /\ StopInv /\ [Next]_vars => StopInv'
<1> SUFFICES ASSUME PipelineInv, StopInv, [Next]_vars PROVE StopInv'
  OBVIOUS
<1> USE GoroutinesAssumption, CrewAssumption
<1>ty. /\ at \in [Goroutines -> {"none", "top", "get", "read", "check", "enqueue", "answer",
                                 "error", "select", "forward", "put", "drain", "done"}]
       /\ workCh \in Seq(Buffers) /\ Len(workCh) \in Nat
       /\ Roles
  BY DEF PipelineInv, PipelineTypeOK
<1>s. StopInv
  OBVIOUS
<1>f. /\ IsFiniteSet(PastEnqueue) /\ Cardinality(PastEnqueue) \in Nat
      /\ IsFiniteSet(PastEnqueue') /\ Cardinality(PastEnqueue') \in Nat
  BY FS_Subset, FS_CardinalityType DEF PastEnqueue
\* Once every worker is done stopCh is closed and a reader can only move on to its end.
<1>mono. ASSUME \A w \in Workers : at[w] = "done",
                PastEnqueue \subseteq PastEnqueue', workCh' = workCh
         PROVE  Len(workCh') <= Cardinality(PastEnqueue')
  <2>1. Cardinality(PastEnqueue) <= Cardinality(PastEnqueue')
    BY <1>f, <1>mono, FS_Subset
  <2> QED
    BY <1>f, <1>ty, <1>s, <1>mono, <2>1 DEF StopInv
<1>1. CASE Bind \/ StopSignal \/ StopListeners \/ StopSendConn \/ StopWait \/ UNCHANGED vars
  <2>1. UNCHANGED <<at, workCh>> /\ (stopCh' = stopCh \/ stopCh' = TRUE)
    BY <1>1 DEF Bind, StopSignal, StopListeners, StopSendConn, StopWait, vars
  <2>2. PastEnqueue' = PastEnqueue
    BY <2>1 DEF PastEnqueue
  <2>3. phase' = "stopped" => \A g \in Goroutines : at[g] = "done"
    BY <1>1, <1>s DEF StopInv, Bind, StopSignal, StopListeners, StopSendConn, StopWait, vars
  <2> QED
    BY <1>s, <2>1, <2>2, <2>3 DEF StopInv
<1>2. CASE Launch
  <2>1. /\ phase' # "stopped"
        /\ \A w \in Workers : at'[w] \in {"none", "select"}
    BY <1>2, <1>ty DEF Launch, Goroutines, PipelineInv, Unlaunched
  <2> QED
    BY <2>1 DEF StopInv
<1>3. ASSUME NEW g \in Readers \cup {Backend}, NEW l, Goes(g, l), at[g] # "done",
             workCh' = workCh, UNCHANGED <<phase, stopCh>>,
             stopCh /\ at[g] \in {"top", "error"} => l \in {"top", "error", "done"}
      PROVE  StopInv'
  <2>1. \A w \in Workers : at'[w] = at[w]
    BY <1>3, <1>ty DEF Goes, Goroutines
  <2>2. phase' # "stopped"
    BY <1>3, <1>s DEF StopInv, Goroutines
  <2>3. ASSUME \A w \in Workers : at[w] = "done" PROVE PastEnqueue \subseteq PastEnqueue'
    <3>1. stopCh
      BY <1>s, <2>3 DEF StopInv
    <3> QED
      BY <1>3, <1>ty, <3>1 DEF Goes, Goroutines, PastEnqueue
  <2> QED
    BY <1>3, <1>s, <1>mono, <2>1, <2>2, <2>3 DEF StopInv
<1>4. ASSUME NEW w \in Workers, NEW l, Goes(w, l), l # "done", l = "drain" => stopCh,
             at[w] # "done", UNCHANGED <<phase, stopCh>>
      PROVE  StopInv'
  <2>1. at'[w] = l /\ \A v \in Workers \ {w} : at'[v] = at[v]
    BY <1>4, <1>ty DEF Goes, Goroutines
  <2>2. phase' # "stopped"
    BY <1>4, <1>s DEF StopInv, Goroutines
  <2> QED
    BY <1>4, <1>s, <2>1, <2>2 DEF StopInv
<1>5. ASSUME NEW g \in Readers \cup {Backend},
             LoopTop(g) \/ AfterError(g) \/ ReadError(g) \/ \E b \in Buffers : GetBuffer(g, b)
      PROVE  StopInv'
  <2>1. \E l : /\ Goes(g, l)
               /\ stopCh /\ at[g] \in {"top", "error"} => l \in {"top", "error", "done"}
    BY <1>5 DEF LoopTop, Top, AfterError, ReadError, GetBuffer
  <2>2. at[g] # "done" /\ UNCHANGED <<workCh, phase, stopCh>>
    BY <1>5 DEF LoopTop, AfterError, ReadError, GetBuffer, lifeVars
  <2> QED
    BY <1>3, <2>1, <2>2
<1>6. ASSUME NEW r \in Readers, ReadPacket(r) \/ CheckPacket(r) PROVE StopInv'
  <2>1. /\ \E l : Goes(r, l)
        /\ at[r] \in {"read", "check"} /\ UNCHANGED <<workCh, phase, stopCh>>
    BY <1>6 DEF ReadPacket, CheckPacket, lifeVars
  <2> QED
    BY <1>3, <2>1
<1>7. CASE ReadAnswer \/ RelayAnswer
  <2>1. /\ \E l : Goes(Backend, l)
        /\ at[Backend] \in {"read", "answer"} /\ UNCHANGED <<workCh, phase, stopCh>>
    BY <1>7 DEF ReadAnswer, RelayAnswer, lifeVars
  <2> QED
    BY <1>3, <2>1
<1>8. ASSUME NEW r \in Readers, EnqueuePacket(r) PROVE StopInv'
  <2>1. Goes(r, "top") /\ at[r] = "enqueue" /\ UNCHANGED <<phase, stopCh>>
    BY <1>8 DEF EnqueuePacket, lifeVars
  <2>2. CASE workCh' = workCh
    BY <1>3, <2>1, <2>2
  <2>3. CASE workCh' = Append(workCh, buf[r])
    <3>1. Len(workCh') = Len(workCh) + 1
      BY <1>ty, <2>3
    <3>2. PastEnqueue' = PastEnqueue \cup {r} /\ r \notin PastEnqueue
      BY <1>ty, <2>1 DEF PastEnqueue, Goes, Goroutines
    <3>3. Cardinality(PastEnqueue') = Cardinality(PastEnqueue) + 1
      BY <1>f, <3>2, FS_AddElement
    <3>4. \A w \in Workers : at'[w] = at[w]
      BY <1>ty, <2>1 DEF Goes, Goroutines
    <3>5. phase' # "stopped"
      BY <1>s, <2>1 DEF StopInv, Goroutines
    <3>6. (\A w \in Workers : at'[w] = "done") => Len(workCh') <= Cardinality(PastEnqueue')
      BY <1>s, <1>f, <1>ty, <3>1, <3>3, <3>4 DEF StopInv
    <3> QED
      BY <1>s, <2>1, <3>4, <3>5, <3>6 DEF StopInv
  <2> QED
    BY <1>8, <2>2, <2>3 DEF EnqueuePacket
<1>9. ASSUME NEW w \in Workers, SelectStop(w) \/ SelectPacket(w) \/ ForwardPacket(w) \/ PutPacket(w)
      PROVE  StopInv'
  <2>1. \E l \in {"select", "forward", "put", "drain"} : Goes(w, l) /\ (l = "drain" => stopCh)
    BY <1>9 DEF SelectStop, SelectPacket, ForwardPacket, PutPacket
  <2>2. at[w] # "done" /\ UNCHANGED <<phase, stopCh>>
    BY <1>9 DEF SelectStop, SelectPacket, ForwardPacket, PutPacket, lifeVars
  <2> QED
    BY <1>4, <2>1, <2>2
<1>10. ASSUME NEW w \in Workers, Drain(w) PROVE StopInv'
  <2>1. at[w] = "drain" /\ UNCHANGED <<phase, stopCh>>
    BY <1>10 DEF Drain, lifeVars
  <2>2. phase # "stopped"
    BY <1>s, <2>1 DEF StopInv, Goroutines
  <2>3. CASE workCh # <<>>
    BY <1>10, <1>s, <2>1, <2>2, <2>3 DEF StopInv, Drain
  <2>4. CASE workCh = <<>>
    <3>1. Goes(w, "done") /\ workCh' = <<>>
      BY <1>10, <2>4 DEF Drain
    <3>2. \A v \in Workers \ {w} : at'[v] = at[v]
      BY <1>ty, <3>1 DEF Goes, Goroutines
    <3>3. stopCh' /\ phase' # "stopped"
      BY <1>s, <2>1, <2>2 DEF StopInv
    <3>4. Len(workCh') <= Cardinality(PastEnqueue')
      BY <1>f, <3>1
    <3> QED
      BY <1>s, <3>2, <3>3, <3>4 DEF StopInv
  <2> QED
    BY <2>3, <2>4
<1> QED
  BY <1>1, <1>2, <1>5, <1>6, <1>7, <1>8, <1>9, <1>10
  DEF Next, ReaderStep, LoopStep, WorkerStep, BackendStep, NetworkStep, StopStep

\* What Stop leaves behind in workCh (frontend.go:379) is at most one packet for
\* each reader, whatever the capacity of the channel and the number of workers.
THEOREM StopLeavesLittle == Spec => []StopLeavesAtMostOnePerReader
<1>1. Init => StopInv
  BY CrewAssumption DEF Init, StopInv, Goroutines
<1>2. StopInv => StopLeavesAtMostOnePerReader
  <2> SUFFICES ASSUME StopInv, phase = "stopped" PROVE Len(workCh) <= Cardinality(Readers)
    BY DEF StopLeavesAtMostOnePerReader
  <2>1. Len(workCh) <= Cardinality(PastEnqueue)
    BY DEF StopInv, Goroutines
  <2>2. PastEnqueue = Readers
    BY DEF StopInv, Goroutines, PastEnqueue
  <2> QED
    BY <2>1, <2>2
<1> QED
  BY <1>1, <1>2, PipelineInvInit, PipelineInvStep, StopInvStep, PTL DEF Spec
=============================================================================

-------------------------- MODULE BlockQueueProofs --------------------------
(***************************************************************************)
(* Proofs about BlockQueue for every capacity, every set of items and      *)
(* every finite set of consumers.                                          *)
(***************************************************************************)
EXTENDS BlockQueue, FiniteSetTheorems, SequenceTheorems, TLAPS

(* The types, and queue size <= peak_size_ <= capacity_, are preserved by  *)
(* every method of the queue.                                              *)
LEMMA TypeStep == TypeOK /\ [Next]_vars => TypeOK'
<1> SUFFICES ASSUME TypeOK, [Next]_vars PROVE TypeOK'
  OBVIOUS
<1>1. ASSUME NEW x \in Items, Push(x) PROVE TypeOK'
  <2>1. CASE PushOutcome = "OK"
    <3>1. Len(data_queue) < Capacity /\ ~stopped
      BY <2>1, CapacityAssumption DEF PushOutcome, TypeOK
    <3>a. /\ data_queue' = Append(data_queue, x)
          /\ accepted' = Append(accepted, x)
      BY <1>1, <2>1 DEF Push
    <3>b. data_queue \in Seq(Items) /\ accepted \in Seq(Items)
      BY DEF TypeOK
    <3>2. data_queue' \in Seq(Items) /\ Len(data_queue') = Len(data_queue) + 1
      BY <3>a, <3>b, AppendProperties
    <3>3. peak_size' \in 0..Capacity /\ Len(data_queue') <= peak_size'
      BY <1>1, <2>1, <3>1, <3>2, CapacityAssumption DEF Push, TypeOK
    <3>4. /\ waiting' \subseteq Consumers /\ woken' \subseteq Consumers
          /\ waiting' \cap woken' = {}
      BY <1>1, <2>1 DEF Push, NotifyOne, TypeOK
    <3>5. accepted' \in Seq(Items)
      BY <3>a, <3>b, AppendProperties
    <3>6. result' \in [Items -> PushResults] /\ UNCHANGED <<stopped, delivered, discarded>>
      BY <1>1, <2>1 DEF Push, TypeOK, PushResults
    <3> QED BY <3>2, <3>3, <3>4, <3>5, <3>6 DEF TypeOK
  <2>2. CASE PushOutcome # "OK"
    <3>1. PushOutcome \in PushResults
      BY DEF PushOutcome, PushResults
    <3> QED BY <1>1, <2>2, <3>1 DEF Push, queueVars, histVars, TypeOK
  <2> QED BY <2>1, <2>2
<1>2. ASSUME NEW c \in Consumers, PopCall(c) \/ PopWake(c) PROVE TypeOK'
  <2>1. CASE data_queue # << >>
    <3>1. /\ Tail(data_queue) \in Seq(Items) /\ Head(data_queue) \in Items
          /\ Len(Tail(data_queue)) = Len(data_queue) - 1 /\ Len(data_queue) \in Nat
      BY <2>1, HeadTailProperties DEF TypeOK
    <3>2. TakeFront /\ TestAndTake(c)
      BY <1>2, <2>1 DEF PopCall, PopWake, TestAndTake
    <3>3. delivered' \in Seq(Items)
      BY <3>1, <3>2 DEF TakeFront, TypeOK
    <3>4. data_queue' = Tail(data_queue)
      BY <3>2 DEF TakeFront
    <3>5. waiting' = waiting /\ woken' = woken \ {c}
      BY <2>1, <3>2 DEF TestAndTake
    <3>6. UNCHANGED <<stopped, peak_size, result, accepted, discarded>>
      BY <3>2 DEF TestAndTake
    <3> QED BY <3>1, <3>3, <3>4, <3>5, <3>6, CapacityAssumption DEF TypeOK
  <2>2. CASE data_queue = << >>
    BY <1>2, <2>2 DEF PopCall, PopWake, TestAndTake, TypeOK
  <2> QED BY <2>1, <2>2
<1>3. ASSUME NEW c \in Consumers, SpuriousWake(c) PROVE TypeOK'
  BY <1>3 DEF SpuriousWake, histVars, TypeOK
<1>4. CASE TryPop
  <2>1. /\ Tail(data_queue) \in Seq(Items) /\ Head(data_queue) \in Items
        /\ Len(Tail(data_queue)) = Len(data_queue) - 1 /\ Len(data_queue) \in Nat
    BY <1>4, HeadTailProperties DEF TryPop, TypeOK
  <2>2. delivered' \in Seq(Items)
    BY <1>4, <2>1, AppendProperties DEF TryPop, TakeFront, TypeOK
  <2> QED BY <1>4, <2>1, <2>2 DEF TryPop, TakeFront, TypeOK
<1>5. CASE Stop
  BY <1>5 DEF Stop, NotifyAll, histVars, TypeOK
<1>6. CASE Abort
  <2>1. discarded' \in Seq(Items)
    BY <1>6, ConcatProperties DEF Abort, TypeOK
  <2> QED BY <1>6, <2>1 DEF Abort, NotifyAll, TypeOK
<1>7. CASE UNCHANGED vars
  BY <1>7 DEF vars, queueVars, histVars, TypeOK
<1> QED BY <1>1, <1>2, <1>3, <1>4, <1>5, <1>6, <1>7 DEF Next

(* Every reachable state of the queue has the declared types and bounds.   *)
THEOREM TypeCorrect == Safety => []TypeOK
<1>1. Init => TypeOK
  <2>1. << >> \in Seq(Items) /\ Len(<< >>) = 0
    BY EmptySeq
  <2>2. ASSUME Init PROVE result \in [Items -> PushResults]
    BY <2>2 DEF Init, PushResults
  <2>3. 0 \in 0..Capacity /\ 0 <= 0
    BY CapacityAssumption
  <2> QED BY <2>1, <2>2, <2>3 DEF Init, TypeOK
<1> QED BY <1>1, TypeStep, PTL DEF Safety

(* Taking a consumer out of woken lowers its size by at most one, putting  *)
(* one in raises it by one: the two facts about sizes the wake-up argument *)
(* needs.                                                                  *)
LEMMA WokenSize ==
  ASSUME TypeOK
  PROVE  /\ Cardinality(woken) \in Nat
         /\ \A c \in Consumers \ woken :
              Cardinality(woken \cup {c}) = Cardinality(woken) + 1
         /\ \A c \in woken : Cardinality(woken \ {c}) = Cardinality(woken) - 1
<1>1. IsFiniteSet(woken)
  BY ConsumersAssumption, FS_Subset DEF TypeOK
<1> QED BY <1>1, FS_CardinalityType, FS_AddElement, FS_RemoveElement

(* Every method preserves: a consumer stays blocked only while the queue   *)
(* runs and each queued item has a woken consumer on its way.              *)
LEMMA WakeupStep == TypeOK /\ NoLostWakeup /\ [Next]_vars => NoLostWakeup'
<1> SUFFICES ASSUME TypeOK, NoLostWakeup, [Next]_vars, waiting' # {}
             PROVE  ~stopped' /\ Len(data_queue') <= Cardinality(woken)'
  BY DEF NoLostWakeup
<1>0. Len(data_queue) \in Nat /\ Cardinality(woken) \in Nat
  BY WokenSize DEF TypeOK
<1>1. ASSUME NEW x \in Items, Push(x)
      PROVE  ~stopped' /\ Len(data_queue') <= Cardinality(woken)'
  <2>1. CASE PushOutcome = "OK" /\ waiting # {}
    <3>1. PICK c \in waiting : woken' = woken \cup {c}
      BY <1>1, <2>1 DEF Push, NotifyOne
    <3>2. c \in Consumers \ woken
      BY DEF TypeOK
    <3>3. Cardinality(woken)' = Cardinality(woken) + 1
      BY <3>1, <3>2, WokenSize
    <3>4. Len(data_queue') = Len(data_queue) + 1
      BY <1>1, <2>1 DEF Push, TypeOK
    <3> QED BY <1>0, <1>1, <2>1, <3>3, <3>4 DEF NoLostWakeup, Push
  <2>2. CASE PushOutcome = "OK" /\ waiting = {}
    BY <1>1, <2>2 DEF Push, NotifyOne
  <2>3. CASE PushOutcome # "OK"
    BY <1>1, <2>3 DEF Push, queueVars, NoLostWakeup
  <2> QED BY <2>1, <2>2, <2>3
<1>2. ASSUME NEW c \in Consumers, PopCall(c) \/ PopWake(c)
      PROVE  ~stopped' /\ Len(data_queue') <= Cardinality(woken)'
  <2>1. CASE data_queue = << >>
    <3>1. /\ data_queue' = data_queue /\ stopped' = stopped
          /\ woken' = woken \ {c}
          /\ waiting' = IF stopped THEN waiting ELSE waiting \cup {c}
      BY <1>2, <2>1 DEF PopCall, PopWake, TestAndTake
    <3>2. Cardinality(woken \ {c}) >= 0
      BY WokenSize, <1>0, <3>1, ConsumersAssumption, FS_Subset, FS_CardinalityType DEF TypeOK
    <3> QED BY <2>1, <3>1, <3>2 DEF NoLostWakeup
  <2>2. CASE data_queue # << >>
    <3>1. /\ data_queue' = Tail(data_queue) /\ stopped' = stopped
          /\ woken' = woken \ {c} /\ waiting' = waiting
      BY <1>2, <2>2 DEF PopCall, PopWake, TestAndTake, TakeFront
    <3>2. Len(data_queue') = Len(data_queue) - 1
      BY <2>2, <3>1 DEF TypeOK
    <3>3. Cardinality(woken)' >= Cardinality(woken) - 1
      <4>1. CASE c \in woken
        BY <4>1, <1>0, <3>1, WokenSize
      <4>2. CASE c \notin woken
        <5>1. woken' = woken
          BY <4>2, <3>1
        <5> QED BY <5>1, <1>0
      <4> QED BY <4>1, <4>2
    <3>4. Cardinality(woken)' \in Nat
      BY <3>1, ConsumersAssumption, FS_Subset, FS_CardinalityType DEF TypeOK
    <3> QED BY <1>0, <3>1, <3>2, <3>3, <3>4 DEF NoLostWakeup
  <2> QED BY <2>1, <2>2
<1>3. ASSUME NEW c \in Consumers, SpuriousWake(c)
      PROVE  ~stopped' /\ Len(data_queue') <= Cardinality(woken)'
  <2>1. c \in Consumers \ woken /\ woken' = woken \cup {c}
    BY <1>3 DEF SpuriousWake, TypeOK
  <2>2. Cardinality(woken)' = Cardinality(woken) + 1
    BY <2>1, WokenSize
  <2> QED BY <1>0, <1>3, <2>2 DEF SpuriousWake, NoLostWakeup
<1>4. CASE TryPop
  <2>1. Len(data_queue') = Len(data_queue) - 1
    BY <1>4 DEF TryPop, TakeFront, TypeOK
  <2> QED BY <1>0, <1>4, <2>1 DEF TryPop, NoLostWakeup
<1>5. CASE Stop
  BY <1>5 DEF Stop, NotifyAll
<1>6. CASE Abort
  BY <1>6 DEF Abort, NotifyAll
<1>7. CASE UNCHANGED vars
  BY <1>7 DEF vars, queueVars, NoLostWakeup
<1> QED BY <1>1, <1>2, <1>3, <1>4, <1>5, <1>6, <1>7 DEF Next

(* No schedule of pushes, pops, spurious wake-ups, stop and abort leaves a *)
(* consumer asleep beside an item nobody was woken for, or asleep on a     *)
(* stopped queue.                                                          *)
THEOREM NoWakeupIsLost == Safety => []NoLostWakeup
<1>1. Init => NoLostWakeup
  BY DEF Init, NoLostWakeup
<1> QED BY <1>1, WakeupStep, TypeCorrect, PTL DEF Safety

(* Moving the front of a sequence to the end of another one does not       *)
(* change their concatenation: what pop does to the history of the queue.  *)
LEMMA MoveFront ==
  ASSUME NEW S, NEW d \in Seq(S), NEW q \in Seq(S), q # << >>
  PROVE  Append(d, Head(q)) \o Tail(q) = d \o q
<1>1. Head(q) \in S /\ Tail(q) \in Seq(S)
  BY HeadTailProperties
<1>2. Append(d, Head(q)) = d \o <<Head(q)>>
  BY <1>1, AppendIsConcat
<1>3. <<Head(q)>> \o Tail(q) = q
  <2>1. <<Head(q)>> \in Seq(S) /\ Len(<<Head(q)>>) = 1 /\ <<Head(q)>>[1] = Head(q)
    BY <1>1
  <2>2. /\ <<Head(q)>> \o Tail(q) \in Seq(S)
        /\ Len(<<Head(q)>> \o Tail(q)) = 1 + Len(Tail(q))
        /\ \A i \in 1 .. 1 + Len(Tail(q)) :
              (<<Head(q)>> \o Tail(q))[i] = IF i <= 1 THEN <<Head(q)>>[i] ELSE Tail(q)[i - 1]
    BY <1>1, <2>1, ConcatProperties
  <2>3. /\ Len(Tail(q)) = Len(q) - 1 /\ Len(q) \in Nat
        /\ \A i \in 1 .. Len(Tail(q)) : Tail(q)[i] = q[i + 1]
    BY HeadTailProperties
  <2>4. Head(q) = q[1]
    OBVIOUS
  <2>5. ASSUME NEW i \in 1 .. Len(q) PROVE (<<Head(q)>> \o Tail(q))[i] = q[i]
    BY <2>1, <2>2, <2>3, <2>4
  <2> QED BY <2>2, <2>3, <2>5, SeqEqual
<1>4. (d \o <<Head(q)>>) \o Tail(q) = d \o (<<Head(q)>> \o Tail(q))
  BY <1>1, ConcatAssociative
<1> QED BY <1>2, <1>3, <1>4

(* What FifoConservation needs to be inductive: items are discarded only   *)
(* by abort, which leaves a stopped and empty queue behind.                *)
FifoInv ==
  /\ FifoConservation
  /\ discarded # << >> => stopped /\ data_queue = << >>

(* Every method preserves the order and the conservation of items.         *)
LEMMA FifoStep == TypeOK /\ FifoInv /\ [Next]_vars => FifoInv'
<1> SUFFICES ASSUME TypeOK, FifoInv, [Next]_vars PROVE FifoInv'
  OBVIOUS
<1>0. /\ data_queue \in Seq(Items) /\ accepted \in Seq(Items)
      /\ delivered \in Seq(Items) /\ discarded \in Seq(Items)
      /\ delivered \o data_queue \in Seq(Items)
  BY ConcatProperties DEF TypeOK
<1>1. ASSUME TakeFront, data_queue # << >>, UNCHANGED <<accepted, discarded, stopped>>
      PROVE  FifoInv'
  <2>1. discarded = << >>
    BY <1>1 DEF FifoInv
  <2>2. delivered' \o data_queue' = delivered \o data_queue
    BY <1>0, <1>1, MoveFront DEF TakeFront
  <2> QED BY <1>1, <2>1, <2>2 DEF FifoInv, FifoConservation
<1>2. ASSUME NEW x \in Items, Push(x) PROVE FifoInv'
  <2>1. CASE PushOutcome = "OK"
    <3>1. /\ data_queue' = Append(data_queue, x) /\ accepted' = Append(accepted, x)
          /\ UNCHANGED <<stopped, delivered, discarded>>
      BY <1>2, <2>1 DEF Push
    <3>2. discarded = << >>
      BY <2>1 DEF PushOutcome, FifoInv
    <3>3. accepted = delivered \o data_queue
      BY <1>0, <3>2, ConcatEmptySeq DEF FifoInv, FifoConservation
    <3>4. <<x>> \in Seq(Items)
      OBVIOUS
    <3>5. /\ Append(accepted, x) = (delivered \o data_queue) \o <<x>>
          /\ Append(data_queue, x) = data_queue \o <<x>>
      BY <1>0, <3>3, AppendIsConcat
    <3>6. (delivered \o data_queue) \o <<x>> = delivered \o (data_queue \o <<x>>)
      BY <1>0, <3>4, ConcatAssociative
    <3>7. accepted' = delivered' \o data_queue'
      BY <3>1, <3>5, <3>6
    <3>8. delivered' \o data_queue' \in Seq(Items)
      BY <1>0, <3>1, <3>7, AppendProperties
    <3>9. accepted' = delivered' \o data_queue' \o discarded'
      BY <3>1, <3>2, <3>7, <3>8, ConcatEmptySeq
    <3> QED BY <3>1, <3>2, <3>9 DEF FifoInv, FifoConservation
  <2>2. CASE PushOutcome # "OK"
    BY <1>2, <2>2 DEF Push, queueVars, histVars, FifoInv, FifoConservation
  <2> QED BY <2>1, <2>2
<1>3. ASSUME NEW c \in Consumers, PopCall(c) \/ PopWake(c) PROVE FifoInv'
  <2>1. CASE data_queue # << >>
    <3>1. TakeFront /\ UNCHANGED <<accepted, discarded, stopped>>
      BY <1>3, <2>1 DEF PopCall, PopWake, TestAndTake
    <3> QED BY <1>1, <2>1, <3>1
  <2>2. CASE data_queue = << >>
    BY <1>3, <2>2 DEF PopCall, PopWake, TestAndTake, FifoInv, FifoConservation
  <2> QED BY <2>1, <2>2
<1>4. ASSUME NEW c \in Consumers, SpuriousWake(c) PROVE FifoInv'
  BY <1>4 DEF SpuriousWake, histVars, FifoInv, FifoConservation
<1>5. CASE TryPop
  BY <1>1, <1>5 DEF TryPop
<1>6. CASE Stop
  BY <1>6 DEF Stop, histVars, FifoInv, FifoConservation
<1>7. CASE Abort
  <2>1. /\ data_queue' = << >> /\ stopped' = TRUE
        /\ UNCHANGED <<accepted, delivered>>
        /\ discarded' = discarded \o data_queue
    BY <1>7 DEF Abort
  <2>2. delivered' \o data_queue' = delivered
    BY <1>0, <2>1, ConcatEmptySeq
  <2>3. accepted = delivered \o (discarded \o data_queue)
    <3>1. CASE discarded = << >>
      BY <1>0, <3>1, ConcatEmptySeq DEF FifoInv, FifoConservation
    <3>2. CASE discarded # << >>
      BY <1>0, <3>2, ConcatEmptySeq DEF FifoInv, FifoConservation
    <3> QED BY <3>1, <3>2
  <2> QED BY <2>1, <2>2, <2>3 DEF FifoInv, FifoConservation
<1>8. CASE UNCHANGED vars
  BY <1>8 DEF vars, queueVars, histVars, FifoInv, FifoConservation
<1> QED BY <1>2, <1>3, <1>4, <1>5, <1>6, <1>7, <1>8 DEF Next

(* Whatever the interleaving, consumers receive the accepted items in      *)
(* order, and the only items they never receive are the queued ones abort  *)
(* reports as discarded.                                                   *)
THEOREM ItemsLeaveInOrder == Safety => []FifoConservation
<1>1. Init => FifoInv
  BY ConcatEmptySeq, EmptySeq DEF Init, FifoInv, FifoConservation
<1>2. FifoInv => FifoConservation
  BY DEF FifoInv
<1> QED BY <1>1, <1>2, FifoStep, TypeCorrect, PTL DEF Safety

(* Every step of the queue with threads is a step, or a stutter, of the    *)
(* queue without them.                                                     *)
LEMMA RefinementStep ==
  TypeOK /\ TypeOK' /\ [Next]_vars => [Abstract!Next]_(Abstract!vars)
<1> SUFFICES ASSUME TypeOK, TypeOK', [Next]_vars
             PROVE  Abstract!Next \/ UNCHANGED Abstract!vars
  OBVIOUS
<1> USE DEF Abstract!Next, Abstract!vars
<1>1. ASSUME NEW x \in Items, Push(x) PROVE Abstract!Next \/ UNCHANGED Abstract!vars
  <2>1. CASE PushOutcome = "OK"
    <3>1. ~stopped /\ Len(data_queue) < Capacity
      BY <2>1, CapacityAssumption DEF PushOutcome, TypeOK
    <3>2. data_queue' = Append(data_queue, x) /\ stopped' = stopped
      BY <1>1, <2>1 DEF Push
    <3>3. (waiting \cup woken)' = waiting \cup woken
      BY <1>1, <2>1 DEF Push, NotifyOne
    <3>4. Abstract!Offer(x)
      BY <3>1, <3>2, <3>3 DEF Abstract!Offer
    <3> QED BY <3>4
  <2>2. CASE PushOutcome # "OK"
    BY <1>1, <2>2 DEF Push, queueVars
  <2> QED BY <2>1, <2>2
<1>2. ASSUME NEW c \in Consumers, PopCall(c) \/ PopWake(c)
      PROVE  Abstract!Next \/ UNCHANGED Abstract!vars
  <2>0. TestAndTake(c) /\ c \notin waiting
    BY <1>2 DEF PopCall, PopWake, TypeOK
  <2>1. CASE data_queue # << >>
    <3>1. (waiting \cup woken)' = (waiting \cup woken) \ {c}
      BY <2>0, <2>1 DEF TestAndTake
    <3>2. Abstract!Take(c)
      BY <2>0, <2>1, <3>1 DEF TestAndTake, TakeFront, Abstract!Take
    <3> QED BY <3>2
  <2>2. CASE data_queue = << >> /\ ~stopped
    <3>1. (waiting \cup woken)' = waiting \cup woken \cup {c}
      BY <2>0, <2>2 DEF TestAndTake
    <3>2. Abstract!Ask(c)
      BY <2>0, <2>2, <3>1 DEF TestAndTake, Abstract!Ask
    <3> QED BY <3>2
  <2>3. CASE data_queue = << >> /\ stopped
    <3>1. (waiting \cup woken)' = (waiting \cup woken) \ {c}
      BY <2>0, <2>3 DEF TestAndTake
    <3>2. Abstract!Release(c)
      BY <2>0, <2>3, <3>1 DEF TestAndTake, Abstract!Release
    <3> QED BY <3>2
  <2> QED BY <2>1, <2>2, <2>3
<1>3. ASSUME NEW c \in Consumers, SpuriousWake(c)
      PROVE  Abstract!Next \/ UNCHANGED Abstract!vars
  BY <1>3 DEF SpuriousWake
<1>4. CASE TryPop
  BY <1>4 DEF TryPop, TakeFront, Abstract!Poll
<1>5. CASE Stop
  BY <1>5 DEF Stop, NotifyAll, Abstract!Close
<1>6. CASE Abort
  BY <1>6 DEF Abort, NotifyAll, Abstract!Discard
<1>7. CASE UNCHANGED vars
  BY <1>7 DEF vars, queueVars
<1> QED BY <1>1, <1>2, <1>3, <1>4, <1>5, <1>6, <1>7 DEF Next

(* The safety part of ImplementsBoundedQueue: for its callers the queue    *)
(* with its mutex and condition variable is the plain bounded FIFO.        *)
THEOREM ImplementsSafety == Safety => Abstract!Safety
<1>1. Init => Abstract!Init
  BY DEF Init, Abstract!Init
<1> QED BY <1>1, RefinementStep, TypeCorrect, PTL DEF Safety, Abstract!Safety
=============================================================================

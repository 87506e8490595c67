----------------------------- MODULE BlockQueue -----------------------------
(***************************************************************************)
(* BlockQueue<T> (include/concurrent/BlockQueue.hpp): the bounded queue    *)
(* between the reactor and the workers.  Every method body runs under      *)
(* mutex_, so it is one step; what is not one step is a pop that blocks:   *)
(* cv_.wait releases the mutex, and the thread that was notified runs its  *)
(* predicate again only when it gets the mutex back, by which time another *)
(* consumer may have been faster.                                          *)
(***************************************************************************)
EXTENDS Naturals, Sequences, FiniteSets

CONSTANTS
  Consumers,   \* threads that call pop
  Items,       \* values that are pushed, each by one call of push
  Capacity     \* capacity_

ASSUME CapacityAssumption == Capacity \in Nat

ASSUME ConsumersAssumption == IsFiniteSet(Consumers)

VARIABLES
  data_queue,  \* data_queue_
  stopped,     \* stopped_
  peak_size,   \* peak_size_
  waiting,     \* consumers blocked in cv_.wait
  woken,       \* consumers notified, waiting for the mutex
  result,      \* what push returned for each item, "none" before the call
  accepted,    \* history: items for which push returned OK, in order
  delivered,   \* history: items handed out by pop and tryPop, in order
  discarded    \* history: items thrown away by abort

queueVars == <<data_queue, stopped, peak_size, waiting, woken>>
histVars == <<accepted, delivered, discarded>>
vars == <<queueVars, result, histVars>>

PushResults == {"none", "OK", "FULL", "STOPPED"}

Init ==
  /\ data_queue = << >>
  /\ stopped = FALSE
  /\ peak_size = 0
  /\ waiting = {}
  /\ woken = {}
  /\ result = [x \in Items |-> "none"]
  /\ accepted = << >>
  /\ delivered = << >>
  /\ discarded = << >>

-----------------------------------------------------------------------------
(* condition_variable: notify_one wakes some blocked thread, if any. *)
NotifyOne ==
  IF waiting = {}
  THEN UNCHANGED <<waiting, woken>>
  ELSE \E c \in waiting : /\ waiting' = waiting \ {c}
                          /\ woken' = woken \cup {c}

NotifyAll ==
  /\ woken' = woken \cup waiting
  /\ waiting' = {}

PushOutcome ==
  IF stopped THEN "STOPPED"
  ELSE IF Len(data_queue) >= Capacity THEN "FULL"
  ELSE "OK"

Push(x) ==
  /\ result[x] = "none"
  /\ result' = [result EXCEPT ![x] = PushOutcome]
  /\ IF PushOutcome = "OK"
     THEN /\ data_queue' = Append(data_queue, x)
          /\ peak_size' = IF Len(data_queue') > peak_size
                          THEN Len(data_queue') ELSE peak_size
          /\ NotifyOne
          /\ accepted' = Append(accepted, x)
          /\ UNCHANGED <<stopped, delivered, discarded>>
     ELSE UNCHANGED <<queueVars, histVars>>

(* Mutant: the most recent item is removed. *)
TakeBack ==
  /\ data_queue' = SubSeq(data_queue, 1, Len(data_queue) - 1)
  /\ delivered' = Append(delivered, data_queue[Len(data_queue)])

(* Removal of the front item. *)
TakeFront ==
  /\ data_queue' = Tail(data_queue)
  /\ delivered' = Append(delivered, Head(data_queue))

(* Mutant: a stopped queue is not drained. *)
TestAndTakeUndrained(c) ==
  /\ IF data_queue # << >> /\ ~stopped
     THEN /\ TakeFront
          /\ waiting' = waiting
          /\ woken' = woken \ {c}
     ELSE /\ UNCHANGED <<data_queue, delivered>>
          /\ waiting' = IF stopped THEN waiting ELSE waiting \cup {c}
          /\ woken' = woken \ {c}
  /\ UNCHANGED <<stopped, peak_size, result, accepted, discarded>>

(* The part of pop that holds the mutex: test the predicate, then take an *)
(* item, return false, or (go back to) wait.                              *)
TestAndTake(c) ==
  /\ IF data_queue # << >>
     THEN /\ TakeFront
          /\ waiting' = waiting
          /\ woken' = woken \ {c}
     ELSE /\ UNCHANGED <<data_queue, delivered>>
          /\ waiting' = IF stopped THEN waiting ELSE waiting \cup {c}
          /\ woken' = woken \ {c}
  /\ UNCHANGED <<stopped, peak_size, result, accepted, discarded>>

PopCall(c) == c \notin waiting \cup woken /\ TestAndTake(c)

PopWake(c) == c \in woken /\ TestAndTake(c)

(* cv_.wait may return without a notification. *)
SpuriousWake(c) ==
  /\ c \in waiting
  /\ waiting' = waiting \ {c}
  /\ woken' = woken \cup {c}
  /\ UNCHANGED <<data_queue, stopped, peak_size, result, histVars>>

TryPop ==
  /\ data_queue # << >>
  /\ TakeFront
  /\ UNCHANGED <<stopped, peak_size, waiting, woken, result, accepted, discarded>>

(* Mutant: stop wakes one consumer only. *)
StopOne ==
  /\ stopped' = TRUE
  /\ NotifyOne
  /\ UNCHANGED <<data_queue, peak_size, result, histVars>>

Stop ==
  /\ stopped' = TRUE
  /\ NotifyAll
  /\ UNCHANGED <<data_queue, peak_size, result, histVars>>

Abort ==
  /\ stopped' = TRUE
  /\ discarded' = discarded \o data_queue
  /\ data_queue' = << >>
  /\ NotifyAll
  /\ UNCHANGED <<peak_size, result, accepted, delivered>>

Next ==
  \/ \E x \in Items : Push(x)
  \/ \E c \in Consumers : PopCall(c) \/ PopWake(c) \/ SpuriousWake(c)
  \/ TryPop
  \/ Stop
  \/ Abort

Safety == Init /\ [][Next]_vars

(* A thread that was woken gets the mutex in the end.  Nothing is assumed *)
(* of spurious wake-ups, nor that anybody ever pushes, pops or stops.     *)
Fairness == \A c \in Consumers : WF_vars(PopWake(c))

Spec == Safety /\ Fairness

-----------------------------------------------------------------------------
(* Types, and the bounds the three size accessors report: the queue never *)
(* exceeds its recorded peak and the peak never exceeds capacity_.        *)
TypeOK ==
  /\ data_queue \in Seq(Items)
  /\ stopped \in BOOLEAN
  /\ peak_size \in 0..Capacity
  /\ Len(data_queue) <= peak_size
  /\ waiting \subseteq Consumers
  /\ woken \subseteq Consumers
  /\ waiting \cap woken = {}
  /\ result \in [Items -> PushResults]
  /\ accepted \in Seq(Items)
  /\ delivered \in Seq(Items)
  /\ discarded \in Seq(Items)

(* No wake-up is lost: while a consumer stays blocked in pop, the queue is *)
(* not stopped and every queued item has a woken consumer of its own       *)
(* coming to fetch it.  This is what notify_one after each accepted push   *)
(* and notify_all in stop and abort have to achieve.                       *)
NoLostWakeup ==
  waiting # {} => /\ ~stopped
                  /\ Len(data_queue) <= Cardinality(woken)

(* Items leave in the order in which push accepted them; none is lost,     *)
(* duplicated or invented, and only abort throws items away.               *)
FifoConservation == accepted = delivered \o data_queue \o discarded

(* The queue implements the specification without threads: in particular   *)
(* a blocked consumer that could be served is eventually served.           *)
Abstract == INSTANCE BoundedQueue
              WITH items <- data_queue, closed <- stopped, asking <- waiting \cup woken

ImplementsBoundedQueue == Abstract!Spec
=============================================================================

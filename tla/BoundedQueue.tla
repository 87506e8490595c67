---------------------------- MODULE BoundedQueue ----------------------------
(***************************************************************************)
(* What a BlockQueue promises its callers, without mutexes, condition      *)
(* variables or wake-ups: a bounded FIFO that can be closed.  A consumer   *)
(* that asks is served as soon as there is something to serve it with: an  *)
(* item, or the news that the queue is closed and empty.                   *)
(***************************************************************************)
EXTENDS Naturals, Sequences

CONSTANTS
  Consumers,   \* threads that call pop
  Items,       \* values that are pushed
  Capacity     \* capacity of the queue

VARIABLES
  items,       \* contents, oldest first
  closed,      \* no further item is accepted
  asking       \* consumers inside a pop that has not returned

vars == <<items, closed, asking>>

Init ==
  /\ items = << >>
  /\ closed = FALSE
  /\ asking = {}

(* An item is accepted only by an open queue with room for it. *)
Offer(x) ==
  /\ ~closed
  /\ Len(items) < Capacity
  /\ items' = Append(items, x)
  /\ UNCHANGED <<closed, asking>>

(* A consumer calls pop and there is nothing to serve it with. *)
Ask(c) ==
  /\ items = << >>
  /\ ~closed
  /\ asking' = asking \cup {c}
  /\ UNCHANGED <<items, closed>>

(* A consumer, blocked or just arriving, gets the oldest item. *)
Take(c) ==
  /\ items # << >>
  /\ items' = Tail(items)
  /\ asking' = asking \ {c}
  /\ UNCHANGED closed

(* A consumer learns that the queue is closed and drained. *)
Release(c) ==
  /\ items = << >>
  /\ closed
  /\ asking' = asking \ {c}
  /\ UNCHANGED <<items, closed>>

(* The non-blocking tryPop takes the oldest item. *)
Poll ==
  /\ items # << >>
  /\ items' = Tail(items)
  /\ UNCHANGED <<closed, asking>>

Close ==
  /\ closed' = TRUE
  /\ UNCHANGED <<items, asking>>

(* Closing that throws the contents away. *)
Discard ==
  /\ closed' = TRUE
  /\ items' = << >>
  /\ UNCHANGED asking

Serve(c) == c \in asking /\ (Take(c) \/ Release(c))

Next ==
  \/ \E x \in Items : Offer(x)
  \/ \E c \in Consumers : Ask(c) \/ Take(c) \/ Release(c)
  \/ Poll
  \/ Close
  \/ Discard

(* A blocked consumer is not left blocked while it could be served. *)
Fairness == WF_vars(\E c \in Consumers : Serve(c))

Safety == Init /\ [][Next]_vars

Spec == Safety /\ Fairness
=============================================================================

--------------------------- MODULE ShutdownBudget ---------------------------
(***************************************************************************)
(* How long a shutdown of the gateway takes: the reactor's drain, the AUTH *)
(* workers and the config puller against one clock (net/TcpServer.cpp),    *)
(* with the timeouts that parseStartupConfig accepts                       *)
(* (control/StartupConfig.cpp) and requests to the control plane that end  *)
(* at their deadline (ControlPlaneClient).  getaddrinfo takes no time      *)
(* here; it is the limit of the deadline that the documentation names.     *)
(*                                                                         *)
(* Time passes only while every thread is blocked or waits for the network.*)
(***************************************************************************)
EXTENDS Integers, FiniteSetsExt

CONSTANTS
  AuthWorkers,
  Tasks,          \* the AUTH tasks that are queued when the model starts
  MaxTimeout,     \* a bound on both timeouts
  Margin,         \* SHUTDOWN_SAFETY_MARGIN_MS
  PullInterval,   \* the puller's wait between two fetches
  MaxStart        \* a bound on the time at which the drain begins

ASSUME BudgetAssumption ==
  /\ Tasks \in Nat /\ MaxTimeout \in Nat /\ Margin \in Nat
  /\ PullInterval \in Nat /\ MaxStart \in Nat

VARIABLES
  now,
  timeouts,   \* [control_plane, shutdown], as accepted at startup
  state,      \* state_
  deadline,   \* shutdown_deadline_, 0 until it is set
  locked,     \* the reactor holds shutdown_deadline_mutex_
  rpc,        \* the reactor: "loop", "store", "notify", "drain", "join", "finished"
  queue,      \* the size of auth_queue_; open says that it is not stopped
  auth,       \* each AUTH worker: [pc, from, until, not_after]
  puller      \* the puller: [pc, until]

vars == <<now, timeouts, state, deadline, locked, rpc, queue, auth, puller>>

(* parseStartupConfig throws unless this holds. *)
Accepts(control_plane, shutdown) == shutdown >= 2 * control_plane + Margin

Init ==
  /\ now = 1
  /\ timeouts \in {t \in [control_plane : 1..MaxTimeout, shutdown : 1..MaxTimeout] :
                     Accepts(t.control_plane, t.shutdown)}
  /\ state = "RUNNING"
  /\ deadline = 0 /\ locked = FALSE
  /\ rpc = "loop"
  /\ queue = [size |-> Tasks, open |-> TRUE]
  /\ auth = [w \in AuthWorkers |-> [pc |-> "pop", from |-> 0, until |-> 0, not_after |-> 0]]
  /\ puller = [pc |-> "check", until |-> 0]

-----------------------------------------------------------------------------
(* The reactor.                                                            *)

(* Mutant: the state changes before the mutex is taken. *)
DrainCasUnlocked ==
  /\ rpc = "loop" /\ now <= MaxStart
  /\ state' = "DRAINING" /\ rpc' = "store"
  /\ UNCHANGED <<now, timeouts, deadline, locked, queue, auth, puller>>

(* beginDraining takes the mutex and moves the state on. *)
DrainCas ==
  /\ rpc = "loop" /\ now <= MaxStart
  /\ locked' = TRUE
  /\ state' = "DRAINING" /\ rpc' = "store"
  /\ UNCHANGED <<now, timeouts, deadline, queue, auth, puller>>

DrainStore ==
  /\ rpc = "store"
  /\ deadline' = now + timeouts.shutdown
  /\ locked' = FALSE
  /\ rpc' = "notify"
  /\ UNCHANGED <<now, timeouts, state, queue, auth, puller>>

WakePuller == puller' = IF puller.pc = "asleep" THEN [puller EXCEPT !.pc = "test"] ELSE puller

(* The queue is stopped and the puller woken, if it is already asleep. *)
DrainNotify ==
  /\ rpc = "notify"
  /\ queue' = [queue EXCEPT !.open = FALSE]
  /\ WakePuller
  /\ rpc' = "drain"
  /\ UNCHANGED <<now, timeouts, state, deadline, locked, auth>>

AuthDone == \A w \in AuthWorkers : auth[w].pc = "done"

(* The drain is complete, which the clients' sockets can delay but not     *)
(* bring about, or its deadline has come and the queue is aborted.         *)
(* finishShutdown wakes the puller once more before it joins the threads.  *)
DrainEnds ==
  /\ rpc = "drain"
  /\ \/ AuthDone /\ UNCHANGED queue
     \/ now >= deadline /\ queue' = [queue EXCEPT !.size = 0]
  /\ state' = "STOPPED"
  /\ WakePuller
  /\ rpc' = "join"
  /\ UNCHANGED <<now, timeouts, deadline, locked, auth>>

Join ==
  /\ rpc = "join"
  /\ AuthDone /\ puller.pc = "done"
  /\ rpc' = "finished"
  /\ UNCHANGED <<now, timeouts, state, deadline, locked, queue, auth, puller>>

-----------------------------------------------------------------------------
(* AUTH workers.                                                           *)

NoLimit == now + timeouts.control_plane

AuthStep(w, record) ==
  /\ auth' = [auth EXCEPT ![w] = record]
  /\ UNCHANGED <<now, timeouts, state, deadline, locked, rpc, puller>>

(* pop: a task, or the end of the loop once the queue is stopped. *)
AuthPop(w) ==
  /\ auth[w].pc = "pop"
  /\ \/ /\ queue.size > 0
        /\ queue' = [queue EXCEPT !.size = @ - 1]
        /\ AuthStep(w, [auth[w] EXCEPT !.pc = "state"])
     \/ /\ queue.size = 0 /\ ~queue.open
        /\ AuthStep(w, [auth[w] EXCEPT !.pc = "done"]) /\ UNCHANGED queue

(* A request that starts while the server runs has its own timeout only. *)
AuthState(w) ==
  /\ auth[w].pc = "state"
  /\ AuthStep(w, IF state = "RUNNING"
                 THEN [pc |-> "calling", from |-> now, until |-> NoLimit, not_after |-> NoLimit]
                 ELSE [auth[w] EXCEPT !.pc = "limit"])
  /\ UNCHANGED queue

(* Mutant: requests that start during the drain are not limited. *)
AuthLimitForgotten(w) ==
  /\ auth[w].pc = "limit" /\ ~locked
  /\ AuthStep(w, [pc |-> "calling", from |-> now, until |-> NoLimit, not_after |-> NoLimit])
  /\ UNCHANGED queue

(* shutdownDeadline, under the mutex, is the request's limit. *)
AuthLimit(w) ==
  /\ auth[w].pc = "limit" /\ ~locked
  /\ AuthStep(w, [pc |-> "calling", from |-> now, until |-> Min({NoLimit, deadline}),
                  not_after |-> deadline])
  /\ UNCHANGED queue

(* checkAuth returns, at its deadline or before. *)
AuthReturns(w) ==
  /\ auth[w].pc = "calling"
  /\ AuthStep(w, [auth[w] EXCEPT !.pc = "pop"])
  /\ UNCHANGED queue

-----------------------------------------------------------------------------
(* The config puller.                                                      *)

PullerStep(from, to, until) ==
  /\ puller.pc = from
  /\ puller' = [pc |-> to, until |-> until]
  /\ UNCHANGED <<now, timeouts, state, deadline, locked, rpc, queue, auth>>

PullerCheck ==
  IF state = "RUNNING" THEN PullerStep("check", "fetching", NoLimit)
                       ELSE PullerStep("check", "done", 0)

(* fetchConfig returns, at its deadline or before. *)
PullerReturns == PullerStep("fetching", "test", 0)

PullerTest == PullerStep("test", IF state = "RUNNING" THEN "dozing" ELSE "check", 0)

PullerSleeps == PullerStep("dozing", "asleep", now + PullInterval)

PullerTimeout == now >= puller.until /\ PullerStep("asleep", "check", 0)

-----------------------------------------------------------------------------
(* Nobody has a step to take that does not wait. *)
Waiting ==
  /\ \/ rpc = "loop" /\ now < MaxStart
     \/ rpc = "drain" /\ now < deadline
     \/ rpc = "join" /\ ~(AuthDone /\ puller.pc = "done")
  /\ \A w \in AuthWorkers :
       \/ auth[w].pc = "done"
       \/ auth[w].pc = "calling" /\ now < auth[w].until
       \/ auth[w].pc = "pop" /\ queue.size = 0 /\ queue.open
  /\ \/ puller.pc = "done"
     \/ puller.pc \in {"fetching", "asleep"} /\ now < puller.until

Tick ==
  /\ Waiting
  /\ now' = now + 1
  /\ UNCHANGED <<timeouts, state, deadline, locked, rpc, queue, auth, puller>>

Finished == rpc = "finished" /\ UNCHANGED vars

Next ==
  \/ DrainCas \/ DrainStore \/ DrainNotify \/ DrainEnds \/ Join
  \/ \E w \in AuthWorkers : AuthPop(w) \/ AuthState(w) \/ AuthLimit(w) \/ AuthReturns(w)
  \/ PullerCheck \/ PullerReturns \/ PullerTest \/ PullerSleeps \/ PullerTimeout
  \/ Tick \/ Finished

Spec == Init /\ [][Next]_vars

-----------------------------------------------------------------------------
(* Types of the variables. *)
TypeOK ==
  /\ now \in Nat /\ deadline \in Nat /\ locked \in BOOLEAN
  /\ state \in {"RUNNING", "DRAINING", "STOPPED"}
  /\ rpc \in {"loop", "store", "notify", "drain", "join", "finished"}
  /\ queue \in [size : 0..Tasks, open : BOOLEAN]
  /\ auth \in [AuthWorkers -> [pc : {"pop", "state", "limit", "calling", "done"},
                               from : Nat, until : Nat, not_after : Nat]]
  /\ puller \in [pc : {"check", "fetching", "test", "dozing", "asleep", "done"}, until : Nat]

(* A worker that sees DRAINING never reads a deadline that has not been    *)
(* stored yet (its default would end the request before it begins), and a  *)
(* request that was in flight when the drain began, and the first one that *)
(* a worker takes from the queue after it, have their whole timeout: that  *)
(* is what the shutdown timeout's lower bound is for.                      *)
InFlightWorkIsCovered ==
  \A w \in AuthWorkers :
    auth[w].pc = "calling" /\ deadline > 0 =>
      /\ auth[w].not_after > 0
      /\ auth[w].from <= (deadline - timeouts.shutdown) + timeouts.control_plane =>
           auth[w].until = auth[w].from + timeouts.control_plane

(* No AUTH worker and no fetch outlasts the shutdown deadline, and         *)
(* finishShutdown joins every thread by then, unless the puller missed     *)
(* both wake-ups: notify_all is called without the mutex that the puller   *)
(* tests its condition under, so its wait can go on for one interval from  *)
(* the start of the drain, and no longer.                                  *)
ShutdownEndsInTime ==
  deadline > 0 /\ rpc # "finished" =>
    /\ ~AuthDone \/ puller.pc = "fetching" => now <= deadline
    /\ now <= (deadline - timeouts.shutdown) + Max({timeouts.shutdown, PullInterval})

====

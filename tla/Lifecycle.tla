------------------------------ MODULE Lifecycle ------------------------------
(***************************************************************************)
(* The life of a TcpServer: start with an initialisation that may fail,    *)
(* the threads it spawns, stop called by other threads, the signal handler, *)
(* finishShutdown with its joins and condition variables, and the          *)
(* destruction of the server.  What the reactor and the workers do with    *)
(* connections is the subject of Gateway; here a worker is a thread that   *)
(* leaves once its queue is stopped, and a drain may end when all workers  *)
(* have left or the deadline has passed.                                   *)
(*                                                                         *)
(* A step is one access to something another thread can see.  Accesses     *)
(* that follow each other and that no thread can tell apart are one step.  *)
(***************************************************************************)
EXTENDS Naturals, FiniteSets

CONSTANTS
  Callers,      \* threads that call stop
  Workers,      \* normal and auth workers
  InitMayFail,  \* bound: whether a call of initServer fails in this run
  EpollMayFail  \* bound: whether epoll_wait fails in this run

ASSUME ThreadAssumption ==
  IsFiniteSet(Callers) /\ IsFiniteSet(Workers) /\ Workers # {}

ASSUME FaultAssumption == {InitMayFail, EpollMayFail} \subseteq BOOLEAN

VARIABLES
  server,  \* the fields of TcpServer that several threads access
  lpc,     \* the thread in start: initialisation, reactor, finishShutdown
  wpc,     \* each worker
  ppc,     \* the config puller
  kpc,     \* each caller of stop
  hpc,     \* the signal handler
  host     \* the thread it runs on, which stands still meanwhile

vars == <<server, lpc, wpc, ppc, kpc, hpc, host>>

-----------------------------------------------------------------------------
(* notifier is "closing" between the exchange of fd_ for -1 and close;     *)
(* eventfd says that its counter is not zero; queues_stopped is about      *)
(* request_queue_ and auth_queue_; deadline says that it has passed.       *)
(* strays is a history: the threads that have written to the number of the *)
(* closed eventfd, which may be another file's by then.                    *)
Starter == "start"
Puller == "puller"
Threads == {Starter, Puller} \cup Workers \cup Callers
Nobody == "nobody"

Server ==
  [state : {"RUNNING", "DRAINING", "STOPPED"}, started : BOOLEAN,
   shutdown_finished : BOOLEAN, stop_requested : BOOLEAN,
   signal_stop_requested : BOOLEAN, instance : BOOLEAN, handlers : BOOLEAN,
   listener : BOOLEAN, notifier : {"none", "open", "closing"}, eventfd : BOOLEAN,
   ready : BOOLEAN, queues_stopped : BOOLEAN, deadline : BOOLEAN,
   strays : SUBSET Threads]

NewServer ==
  [state |-> "STOPPED", started |-> FALSE, shutdown_finished |-> FALSE,
   stop_requested |-> FALSE, signal_stop_requested |-> FALSE, instance |-> FALSE,
   handlers |-> FALSE, listener |-> FALSE, notifier |-> "none", eventfd |-> FALSE,
   ready |-> FALSE, queues_stopped |-> FALSE, deadline |-> FALSE,
   strays |-> {}]

Init ==
  /\ server = NewServer
  /\ lpc = "new"
  /\ wpc = [w \in Workers |-> "new"]
  /\ ppc = "new"
  /\ kpc = [k \in Callers |-> "idle"]
  /\ hpc = "idle"
  /\ host = Nobody

(* The thread in start goes on, which it does not while it handles a       *)
(* signal.                                                                 *)
StarterAt(from, to) ==
  /\ host # Starter
  /\ lpc = from
  /\ lpc' = to
  /\ UNCHANGED <<hpc, host>>

(* It leaves the other threads alone. *)
Go(from, to) == StarterAt(from, to) /\ UNCHANGED <<wpc, ppc, kpc>>

-----------------------------------------------------------------------------
(* start.                                                                  *)

StartCas ==
  /\ ~server.started
  /\ Go("new", "open")
  /\ server' = [server EXCEPT !.started = TRUE, !.shutdown_finished = FALSE]

(* initServer up to notifier_.open. *)
InitOpen ==
  /\ Go("open", "register")
  /\ server' = [server EXCEPT !.listener = TRUE, !.notifier = "open"]

(* A call of initServer fails, before or after the notifier is open. *)
InitFails ==
  /\ InitMayFail
  /\ Go("open", "cleanup") \/ Go("register", "cleanup")
  /\ UNCHANGED server

InitCleanup ==
  /\ Go("cleanup", "rethrow")
  /\ server' = [server EXCEPT !.listener = FALSE, !.notifier = "none", !.eventfd = FALSE]

(* The exception leaves start.  Nobody who waits for the end is notified. *)
InitRethrow ==
  /\ Go("rethrow", "failed")
  /\ server' = [server EXCEPT !.started = FALSE]

(* initServer has returned: the state is RUNNING and the readiness file    *)
(* created before the first thread exists.                                 *)
EnterRunning ==
  /\ Go("register", "spawn")
  /\ server' = [server EXCEPT !.instance = TRUE, !.signal_stop_requested = FALSE,
                              !.state = "RUNNING", !.ready = TRUE]

(* The handlers are installed, the workers and the puller spawned. *)
Spawn ==
  /\ StarterAt("spawn", "top")
  /\ server' = [server EXCEPT !.handlers = TRUE]
  /\ wpc' = [w \in Workers |-> "work"]
  /\ ppc' = "check"
  /\ UNCHANGED <<kpc>>

-----------------------------------------------------------------------------
(* The reactor: loop and beginDraining.                                    *)

StopWanted == server.stop_requested \/ server.signal_stop_requested

LoopTop ==
  /\ lpc = "top"
  /\ \/ server.state = "RUNNING" /\ StopWanted /\ Go("top", "drain") /\ UNCHANGED server
     \/ server.state = "STOPPED" /\ Go("top", "finish") /\ UNCHANGED server
     \/ /\ server.state = "DRAINING" \/ (server.state = "RUNNING" /\ ~StopWanted)
        /\ Go("top", "wait") /\ UNCHANGED server

(* epoll_wait returns with the events of clients, of the listener, and of  *)
(* the notifier if its counter is not zero, or without any.                *)
EpollReturns ==
  /\ Go("wait", IF server.eventfd THEN "consume" ELSE "handled")
  /\ UNCHANGED server

(* epollTimeoutMs is -1 unless the state is DRAINING. *)
EpollMustReturn ==
  server.eventfd \/ (server.state = "DRAINING" /\ server.deadline)

(* epoll_wait is interrupted, or fails for another reason. *)
EpollFails ==
  /\ EpollMayFail
  /\ lpc = "wait"
  /\ Go("wait", "top") \/ Go("wait", "drain")
  /\ UNCHANGED server

Consume ==
  /\ Go("consume", "handled")
  /\ server' = [server EXCEPT !.eventfd = FALSE]

NoProducersLeft == \A w \in Workers : wpc[w] \in {"load", "write", "done"}

(* The end of the loop's body.  Whether the peers have taken all output is *)
(* left open, so a drain with no workers left may or may not be complete.  *)
DrainCheck ==
  /\ Go("handled", "top")
  /\ \/ /\ server.state = "DRAINING" /\ (NoProducersLeft \/ server.deadline)
        /\ server' = [server EXCEPT !.state = "STOPPED"]
     \/ /\ server.state # "DRAINING" \/ ~server.deadline
        /\ UNCHANGED server

(* beginDraining returns at once unless the state is RUNNING; otherwise the *)
(* readiness file goes and the listener is closed.  (It returns to          *)
(* epoll_wait or, after a failure, to the loop's condition, which holds: no *)
(* other thread changes the state of a server that was RUNNING.)            *)
DrainCas ==
  \/ /\ server.state = "RUNNING"
     /\ Go("drain", "release")
     /\ server' = [server EXCEPT !.state = "DRAINING", !.ready = FALSE, !.listener = FALSE]
  \/ server.state # "RUNNING" /\ Go("drain", "top") /\ UNCHANGED server

(* background_wait_cv_.notify_all, without the mutex the puller waits with. *)
WakePuller == ppc' = IF ppc = "asleep" THEN "test" ELSE ppc

(* The readiness file is gone (beginDraining has removed it before), the    *)
(* queues are stopped and the threads that wait woken.                      *)
Release(from, to) ==
  /\ StarterAt(from, to)
  /\ server' = [server EXCEPT !.ready = FALSE, !.queues_stopped = TRUE]
  /\ WakePuller
  /\ UNCHANGED <<wpc, kpc>>

DrainRelease == Release("release", "top")

-----------------------------------------------------------------------------
(* finishShutdown.                                                         *)

FinishRelease == Release("finish", "join")

(* Mutant: the workers are not joined. *)
JoinPullerOnly ==
  /\ Go("join", "close")
  /\ ppc = "done"
  /\ UNCHANGED server

(* The joins of the puller, the workers and the auth workers. *)
JoinThreads ==
  /\ Go("join", "close")
  /\ ppc = "done" /\ \A w \in Workers : wpc[w] = "done"
  /\ UNCHANGED server

(* The connections and the listener are closed, and fd_ is exchanged. *)
CloseSockets ==
  /\ Go("close", "close_notifier")
  /\ server' = [server EXCEPT !.listener = FALSE, !.notifier = "closing"]

CloseNotifier ==
  /\ Go("close_notifier", "finished")
  /\ server' = [server EXCEPT !.notifier = "none", !.eventfd = FALSE]

(* Mutant: the handler still finds the server. *)
SetFinishedKeepsInstance ==
  /\ Go("finished", "lock")
  /\ server' = [server EXCEPT !.state = "STOPPED", !.shutdown_finished = TRUE]

SetFinished ==
  /\ Go("finished", "lock")
  /\ server' = [server EXCEPT !.instance = FALSE, !.state = "STOPPED",
                              !.shutdown_finished = TRUE]

(* Mutant: stopped_mutex_ is not locked before the notification. *)
SkipStoppedMutex == Go("lock", "notify") /\ UNCHANGED server

(* The empty critical section: no caller is between its test and its wait. *)
LockStoppedMutex ==
  /\ Go("lock", "notify")
  /\ \A k \in Callers : kpc[k] # "dozing"
  /\ UNCHANGED server

NotifyCallers ==
  /\ StarterAt("notify", "returned")
  /\ kpc' = [k \in Callers |-> IF kpc[k] = "asleep" THEN "test" ELSE kpc[k]]
  /\ UNCHANGED <<server, wpc, ppc>>

(* The owner destroys the server, as main and the tests do: when start has *)
(* returned or thrown, and with nobody in a call of stop.  The destructor's *)
(* own stop finds the server finished, or never started.                   *)
Destroy ==
  /\ Go("returned", "destroyed") \/ Go("failed", "destroyed")
  /\ \A k \in Callers : kpc[k] \in {"idle", "returned"} /\ host # k
  /\ server' = IF server.started THEN server
               ELSE [server EXCEPT !.state = "STOPPED", !.shutdown_finished = TRUE]

-----------------------------------------------------------------------------
(* ReactorNotifier::notify reads fd_ and then writes to what it has read;   *)
(* in between the descriptor can be closed, and another file can have got   *)
(* its number.                                                              *)

Descriptor == server.notifier = "open"

WriteEventfd(thread) ==
  server' = IF server.notifier = "none" THEN [server EXCEPT !.strays = @ \cup {thread}]
            ELSE [server EXCEPT !.eventfd = TRUE]

(* Workers.                                                                *)

WorkerAt(w, from, to) ==
  /\ host # w
  /\ wpc[w] = from
  /\ wpc' = [wpc EXCEPT ![w] = to]
  /\ UNCHANGED <<lpc, ppc, kpc, hpc, host>>

(* A worker has pushed a response and is about to write to the notifier. *)
WorkerResponds(w) == Descriptor /\ WorkerAt(w, "work", "respond") /\ UNCHANGED server

WorkerNotifies(w) ==
  /\ WorkerAt(w, "respond", "work") \/ WorkerAt(w, "write", "done")
  /\ WriteEventfd(w)

(* The queue is stopped and empty: the worker leaves.  The last one stops  *)
(* the response queue and wakes the reactor.                               *)
WorkerLeaves(w) ==
  /\ server.queues_stopped
  /\ WorkerAt(w, "work", IF \A v \in Workers \ {w} : wpc[v] \in {"load", "write", "done"}
                         THEN "load" ELSE "done")
  /\ UNCHANGED server

WorkerLoads(w) ==
  /\ WorkerAt(w, "load", IF Descriptor THEN "write" ELSE "done")
  /\ UNCHANGED server

-----------------------------------------------------------------------------
(* The config puller.                                                      *)

PullerAt(from, to) ==
  /\ host # Puller
  /\ ppc = from
  /\ ppc' = to
  /\ UNCHANGED <<server, lpc, wpc, kpc, hpc, host>>

(* The loop's condition; fetchConfig, which returns within its deadline, and *)
(* the application of its result follow before the next access.              *)
PullerCheck == PullerAt("check", IF server.state = "RUNNING" THEN "test" ELSE "done")

(* wait_for tests its predicate with the mutex held and goes to sleep. *)
PullerTest == PullerAt("test", IF server.state = "RUNNING" THEN "dozing" ELSE "check")

PullerSleep == PullerAt("dozing", "asleep")

PullerWakesSpuriously == PullerAt("asleep", "test")

(* Mutant: wait instead of wait_for. *)
PullerNeverTimesOut == FALSE /\ PullerAt("asleep", "check")

(* The five seconds have passed. *)
PullerTimeout == PullerAt("asleep", "check")

-----------------------------------------------------------------------------
(* stop, called by another thread than the reactor's.                      *)

CallerAt(k, from, to) ==
  /\ host # k
  /\ kpc[k] = from
  /\ kpc' = [kpc EXCEPT ![k] = to]
  /\ UNCHANGED <<lpc, wpc, ppc, hpc, host>>

(* No stop comes before start, main only calls start and the destructor's  *)
(* stop comes after it; and none after the destructor.                     *)
StopCall(k) ==
  /\ lpc \notin {"new", "destroyed"}
  /\ CallerAt(k, "idle", IF server.started THEN "check" ELSE "never")
  /\ UNCHANGED server

(* started_ was false: two stores, and nobody is woken. *)
StopNeverStarted(k) ==
  /\ CallerAt(k, "never", "never_finished")
  /\ server' = [server EXCEPT !.state = "STOPPED"]

StopNeverFinished(k) ==
  /\ CallerAt(k, "never_finished", "returned")
  /\ server' = [server EXCEPT !.shutdown_finished = TRUE]

StopCheck(k) ==
  /\ CallerAt(k, "check", IF server.shutdown_finished THEN "returned" ELSE "request")
  /\ UNCHANGED server

StopRequest(k) ==
  /\ CallerAt(k, "request", "load")
  /\ server' = [server EXCEPT !.stop_requested = TRUE]

StopLoad(k) ==
  /\ CallerAt(k, "load", IF Descriptor THEN "write" ELSE "test")
  /\ UNCHANGED server

StopNotify(k) == CallerAt(k, "write", "test") /\ WriteEventfd(k)

(* stopped_cv_.wait: the caller holds stopped_mutex_ until it sleeps. *)
StopTest(k) ==
  /\ \A j \in Callers : kpc[j] # "dozing"
  /\ CallerAt(k, "test", IF server.shutdown_finished THEN "returned" ELSE "dozing")
  /\ UNCHANGED server

StopSleep(k) == CallerAt(k, "dozing", "asleep") /\ UNCHANGED server

StopWakesSpuriously(k) == CallerAt(k, "asleep", "test") /\ UNCHANGED server

-----------------------------------------------------------------------------
(* The signal handler.  The kernel picks a thread that does not block the  *)
(* signal, and no thread does.                                             *)

HandlerAt(from, to) ==
  /\ hpc = from
  /\ hpc' = to
  /\ host' = IF to = "done" THEN Nobody ELSE host
  /\ UNCHANGED <<lpc, wpc, ppc, kpc>>

Alive ==
  {Starter} \cup Callers \cup {w \in Workers : wpc[w] \notin {"new", "done"}}
    \cup (IF ppc \in {"new", "done"} THEN {} ELSE {Puller})

SignalArrives ==
  /\ server.handlers
  /\ hpc = "idle"
  /\ hpc' = "instance"
  /\ host' \in Alive
  /\ server' = [server EXCEPT !.signal_stop_requested = TRUE]
  /\ UNCHANGED <<lpc, wpc, ppc, kpc>>

SignalInstance ==
  /\ HandlerAt("instance", IF server.instance THEN "load" ELSE "done")
  /\ UNCHANGED server

SignalLoad == HandlerAt("load", IF Descriptor THEN "write" ELSE "done") /\ UNCHANGED server

SignalNotify == HandlerAt("write", "done") /\ WriteEventfd(host)

DeadlinePasses ==
  /\ server.state = "DRAINING" /\ ~server.deadline
  /\ server' = [server EXCEPT !.deadline = TRUE]
  /\ UNCHANGED <<lpc, wpc, ppc, kpc, hpc, host>>

-----------------------------------------------------------------------------
StartStep ==
  \/ StartCas \/ InitOpen \/ InitFails \/ InitCleanup \/ InitRethrow
  \/ EnterRunning \/ Spawn

ReactorStep ==
  \/ LoopTop \/ Consume \/ DrainCheck \/ DrainCas \/ DrainRelease

FinishStep ==
  \/ FinishRelease \/ JoinThreads \/ CloseSockets \/ CloseNotifier
  \/ SetFinished \/ LockStoppedMutex \/ NotifyCallers

WorkerStep(w) == WorkerNotifies(w) \/ WorkerLeaves(w) \/ WorkerLoads(w)

PullerStep == PullerCheck \/ PullerTest \/ PullerSleep \/ PullerTimeout

CallerStep(k) ==
  \/ StopNeverStarted(k) \/ StopNeverFinished(k) \/ StopCheck(k) \/ StopRequest(k)
  \/ StopLoad(k) \/ StopNotify(k) \/ StopTest(k) \/ StopSleep(k)

HandlerStep == SignalInstance \/ SignalLoad \/ SignalNotify

(* start has returned, or has thrown and is not called again. *)
Terminated == lpc \in {"returned", "failed", "destroyed"} /\ UNCHANGED vars

Next ==
  \/ StartStep
  \/ ReactorStep
  \/ EpollReturns
  \/ EpollFails
  \/ FinishStep
  \/ Destroy
  \/ \E w \in Workers : WorkerStep(w) \/ WorkerResponds(w)
  \/ PullerStep \/ PullerWakesSpuriously
  \/ \E k \in Callers : StopCall(k) \/ CallerStep(k) \/ StopWakesSpuriously(k)
  \/ SignalArrives \/ HandlerStep
  \/ DeadlinePasses
  \/ Terminated

Spec == Init /\ [][Next]_vars

(* Threads that are not blocked are scheduled, fetchConfig and wait_for     *)
(* have deadlines, and time passes.  epoll_wait may be interrupted or fail, *)
(* but not every time while it has something to return for.  A stopped     *)
(* queue takes no more tasks, so a worker finds it empty in the end.       *)
Fairness ==
  /\ WF_vars(StartStep \/ ReactorStep \/ FinishStep)
  /\ SF_vars(EpollMustReturn /\ EpollReturns)
  /\ WF_vars(\E w \in Workers : WorkerStep(w)) /\ SF_vars(\E w \in Workers : WorkerLeaves(w))
  /\ WF_vars(PullerStep)
  /\ \A k \in Callers : WF_vars(CallerStep(k))
  /\ WF_vars(HandlerStep)
  /\ WF_vars(DeadlinePasses)

FairSpec == Spec /\ Fairness

-----------------------------------------------------------------------------
(* Types of the server's fields and of the places its threads can be in. *)
TypeOK ==
  /\ server \in Server
  /\ lpc \in {"new", "open", "register", "cleanup", "rethrow", "failed",
              "spawn", "top", "wait", "consume", "handled", "drain", "release",
              "finish", "join", "close", "close_notifier",
              "finished", "lock", "notify", "returned", "destroyed"}
  /\ wpc \in [Workers -> {"new", "work", "respond", "load", "write", "done"}]
  /\ ppc \in {"new", "check", "test", "dozing", "asleep", "done"}
  /\ kpc \in [Callers -> {"idle", "never", "never_finished", "check", "request", "load",
                          "write", "test", "dozing", "asleep", "returned"}]
  /\ hpc \in {"idle", "instance", "load", "write", "done"}
  /\ host \in IF hpc \in {"idle", "done"} THEN {Nobody} ELSE Threads

(* No thread of the server writes to a number that is not its eventfd's     *)
(* any more, neither in its own code nor in the signal handler that the     *)
(* kernel runs on it: finishShutdown joins the threads, handler and all,    *)
(* before it closes the notifier.  (A thread outside that is overtaken in   *)
(* stop, or in the handler, between the load of fd_ and the write may.)     *)
NoStrayWrites == server.strays \subseteq Callers

(* What stop waits for is a promise to its caller: once a started server is *)
(* finished every thread has left, every descriptor is closed, and the      *)
(* thread in start has only its handshake with the callers left to do       *)
(* (stopped_mutex_ and stopped_cv_, so that stop's return alone does not    *)
(* allow to destroy the server).  Nor is the signal handler inside, on any  *)
(* thread that the server can wait for; and after the destructor it does    *)
(* not get inside.                                                          *)
StopMeansStopped ==
  server.shutdown_finished /\ server.started =>
    /\ ppc = "done" /\ \A w \in Workers : wpc[w] = "done"
    /\ ~server.listener /\ server.notifier = "none"
    /\ server.state = "STOPPED"
    /\ lpc \in {"lock", "notify", "returned", "destroyed"}
    /\ hpc \in {"load", "write"} => host \in Callers /\ lpc # "destroyed"

(* A caller of stop that waits is released, unless the start it overlapped *)
(* has failed (start resets started_ and throws, and notifies nobody).     *)
StopReturns ==
  \A k \in Callers :
    kpc[k] \notin {"idle", "returned"} ~> kpc[k] = "returned" \/ lpc = "failed"

(* A signal that the handler has taken ends the server, wherever the       *)
(* reactor and the puller were: no thread sleeps through the shutdown.     *)
SignalStopsServer == hpc # "idle" ~> lpc \in {"returned", "destroyed"}

====

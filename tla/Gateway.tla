------------------------------- MODULE Gateway -------------------------------
(***************************************************************************)
(* The data plane of the gateway (TcpServer): one reactor thread that owns *)
(* every connection, normal workers and auth workers that take work from   *)
(* two bounded queues and put responses into a third, an eventfd with      *)
(* which they wake the reactor, and the graceful shutdown of all of them.  *)
(*                                                                         *)
(* A step is what one thread does between two accesses to state it shares  *)
(* with the others: one queue operation, one access to the set of rejected *)
(* responses, one write of the eventfd.  Everything else the reactor does  *)
(* is invisible to the workers, so a handler is cut only where it touches  *)
(* shared state.  Queues are BoundedQueues (see BlockQueue): each          *)
(* operation is atomic and a blocked pop is a pop that is not enabled.     *)
(***************************************************************************)
EXTENDS Integers, Sequences, FiniteSets

CONSTANTS
  Fds,               \* descriptors accept4 can return
  Clients,           \* client ids
  None,              \* no client, no descriptor, no job
  Workers,           \* threads running normalWorkerLoop
  AuthWorkers,       \* threads running authWorkerLoop
  RequestCapacity,   \* capacity of request_queue_
  AuthCapacity,      \* capacity of auth_queue_
  ResponseCapacity,  \* capacity of response_queue_
  OutputLimits,      \* values of slow_client_output_limit, in responses
  ConnectionLimits,  \* values of max_connections_per_client
  MaxConnId,         \* bound: connections accepted in one run
  MaxFrames,         \* bound: frames received in one run
  MaxChunk,          \* bound: complete frames in what one recv returns
  MaxBatch,          \* bound: socket events in one epoll_wait
  MayFail,           \* bound: whether epoll and socket calls fail in this run
  MayStop            \* bound: whether stop is called in this run

ASSUME NoneAssumption == None \notin Clients /\ None \notin Fds

ASSUME FiniteAssumption ==
  /\ IsFiniteSet(Workers) /\ IsFiniteSet(AuthWorkers) /\ IsFiniteSet(Fds)
  /\ Workers # {} /\ AuthWorkers # {}
  /\ Workers \cap AuthWorkers = {}

ASSUME BoundAssumption ==
  /\ RequestCapacity \in Nat \ {0} /\ AuthCapacity \in Nat \ {0}
  /\ ResponseCapacity \in Nat \ {0}
  /\ OutputLimits \subseteq Nat /\ OutputLimits # {}
  /\ ConnectionLimits \subseteq Nat \ {0} /\ ConnectionLimits # {}
  /\ MaxConnId \in Nat /\ MaxFrames \in Nat /\ MaxChunk \in Nat /\ MaxBatch \in Nat
  /\ MayFail \in BOOLEAN /\ MayStop \in BOOLEAN

VARIABLES
  state,           \* state_
  connections,     \* connections_: descriptor -> Connection
  next_conn_id,    \* next_conn_id_
  windows,         \* keys of rate_limit_windows_
  cancelled,       \* conn_ids whose AuthCancellation is set
  queue,           \* contents of the three queues
  stopped,         \* stopped_ of the three queues
  rejected,        \* rejected_response_connections_
  producers,       \* response_producers_remaining_
  eventfd,         \* the notifier's counter is not zero
  stop_requested,  \* stop_requested_ or signal_stop_requested_
  stopper,         \* progress of the caller of stop, or of the signal handler
  deadline,        \* the shutdown deadline has passed
  runtime_config,  \* runtime_config_: the two limits that applyResponse reads
  rpc,             \* where the reactor is
  cur,             \* descriptor the reactor is handling
  batch,           \* socket events of this epoll_wait still to be handled
  accepting,       \* the listener's event is still to be handled
  notified,        \* the notifier's event is still to be handled
  todo,            \* decoded work still to be pushed
  local_responses, \* responses of decodeAndEnqueue still to be applied
  wpc,             \* where each worker is
  job,             \* what each worker is handling
  input_left,      \* frames the peers may still send
  granted,         \* history: <<conn_id, client>> the control plane allowed
  drained          \* history: conn_ids closed by the drain rule

tableVars == <<connections, windows, cancelled>>
pollVars == <<batch, accepting, notified>>
decodeVars == <<todo, local_responses, input_left>>
queueVars == <<queue, stopped, rejected>>
workerVars == <<wpc, job, producers, granted>>
stopVars == <<stop_requested, stopper, deadline>>
vars == <<state, tableVars, next_conn_id, drained, pollVars, decodeVars, rpc, cur,
          queueVars, workerVars, stopVars, runtime_config, eventfd>>

-----------------------------------------------------------------------------
Producers == Workers \cup AuthWorkers
QueueNames == {"request", "auth", "response"}

(* Requests, auth tasks and responses carry the key of their connection.   *)
(* client is the id an AUTH claims, or client_id_to_authenticate of an     *)
(* AUTH_RESP.                                                              *)
Message == [fd : Fds, conn_id : Nat, type : {"REQUEST", "AUTH", "RESP", "AUTH_RESP"},
            client : Clients \cup {None}, close : BOOLEAN]

Connection == [conn_id : Nat, client : Clients \cup {None},
               auth_pending : BOOLEAN, closing : BOOLEAN, read_eof : BOOLEAN,
               in_flight_work : Nat, output : Seq(Message)]

(* A connection as handleAccept creates it; conn_id 0 stands for no         *)
(* connection.  client differs from None exactly when authenticated is set. *)
NewConnection(id) ==
  [conn_id |-> id, client |-> None, auth_pending |-> FALSE,
   closing |-> FALSE, read_eof |-> FALSE, in_flight_work |-> 0, output |-> << >>]

NoConnection == NewConnection(0)

RuntimeConfig == [max_connections_per_client : ConnectionLimits,
                  slow_client_output_limit : OutputLimits]

Live == {fd \in Fds : connections[fd].conn_id # 0}

Capacity(q) == CASE q = "request" -> RequestCapacity
                 [] q = "auth" -> AuthCapacity
                 [] q = "response" -> ResponseCapacity

PushResult(q) ==
  IF stopped[q] THEN "STOPPED"
  ELSE IF Len(queue[q]) >= Capacity(q) THEN "FULL"
  ELSE "OK"

RequestOf(fd) == [fd |-> fd, conn_id |-> connections[fd].conn_id, type |-> "REQUEST",
                  client |-> None, close |-> FALSE]

AuthTaskOf(fd, c) == [fd |-> fd, conn_id |-> connections[fd].conn_id, type |-> "AUTH",
                      client |-> c, close |-> FALSE]

(* A handler's answer, and the gateway's own 400, 429, 500 and 503. *)
ResponseTo(m) == [m EXCEPT !.type = "RESP"]

AuthAllowed(m) == [m EXCEPT !.type = "AUTH_RESP"]

(* Denied, unavailable, malformed, internal error or overload: all close. *)
AuthRefused(m) == [m EXCEPT !.type = "AUTH_RESP", !.client = None, !.close = TRUE]

OverloadResponse(m) == IF m.type = "AUTH" THEN AuthRefused(m) ELSE ResponseTo(m)

QueueFor(m) == IF m.type = "AUTH" THEN "auth" ELSE "request"

SourceOf(w) == IF w \in AuthWorkers THEN "auth" ELSE "request"

-----------------------------------------------------------------------------
Init ==
  /\ state = "RUNNING"
  /\ connections = [fd \in Fds |-> NoConnection]
  /\ next_conn_id = 1
  /\ windows = {}
  /\ cancelled = {}
  /\ queue = [q \in QueueNames |-> << >>]
  /\ stopped = [q \in QueueNames |-> FALSE]
  /\ rejected = {}
  /\ producers = Cardinality(Producers)
  /\ eventfd = FALSE
  /\ stop_requested = FALSE
  /\ stopper = "idle"
  /\ deadline = FALSE
  /\ runtime_config \in RuntimeConfig
  /\ rpc = "top"
  /\ cur = None
  /\ batch = {}
  /\ accepting = FALSE
  /\ notified = FALSE
  /\ todo = << >>
  /\ local_responses = << >>
  /\ wpc = [w \in Producers |-> "pop"]
  /\ job = [w \in Producers |-> None]
  /\ input_left = MaxFrames
  /\ granted = {}
  /\ drained = {}

-----------------------------------------------------------------------------
(* Mutant: the rate window outlives the client's last connection. *)
CloseConnectionsKeepWindow(conns, wins, S) ==
  /\ connections' = [fd \in Fds |-> IF fd \in S THEN NoConnection ELSE conns[fd]]
  /\ windows' = wins
  /\ cancelled' = cancelled \cup {conns[fd].conn_id : fd \in {g \in S : conns[g].auth_pending}}

(* closeConnection for the descriptors in S of the table conns: the task of *)
(* a pending authentication is cancelled, and the rate window of a client   *)
(* goes with its last authenticated connection.                             *)
CloseConnections(conns, wins, S) ==
  LET left == [fd \in Fds |-> IF fd \in S THEN NoConnection ELSE conns[fd]]
      gone == {conns[fd].client : fd \in S} \ {left[fd].client : fd \in Fds}
  IN  /\ connections' = left
      /\ windows' = wins \ gone
      /\ cancelled' = cancelled \cup {conns[fd].conn_id : fd \in {g \in S : conns[g].auth_pending}}

(* Those of the descriptors in S for which an epoll_ctl(MOD) fails. *)
Failing(S) == IF MayFail THEN SUBSET S ELSE {{}}

(* Mutant: work in flight does not keep the connection open. *)
CanCloseIgnoringWork(c) ==
  /\ c.conn_id # 0
  /\ c.closing \/ c.read_eof \/ state = "DRAINING"
  /\ c.output = << >>

CanCloseAfterDrain(c) ==
  /\ c.conn_id # 0
  /\ c.closing \/ c.read_eof \/ state = "DRAINING"
  /\ c.in_flight_work = 0
  /\ c.output = << >>

(* The table becomes conns, in which fd has changed.  With check set the    *)
(* drain rule may close fd; otherwise its events are re-registered, and a   *)
(* failing epoll_ctl(MOD) closes it.                                        *)
UpdateConnection(conns, fd, check) ==
  IF check /\ CanCloseAfterDrain(conns[fd])
  THEN /\ CloseConnections(conns, windows, {fd})
       /\ drained' = drained \cup {conns[fd].conn_id}
  ELSE /\ \E failed \in Failing({fd}) : CloseConnections(conns, windows, failed)
       /\ UNCHANGED drained

(* A repeated end of stream only applies the drain rule. *)
MarkReadEof(fd) ==
  IF connections[fd].read_eof /\ ~CanCloseAfterDrain(connections[fd])
  THEN UNCHANGED <<tableVars, drained>>
  ELSE UpdateConnection([connections EXCEPT ![fd].read_eof = TRUE], fd, TRUE)

(* Mutant: connections about to close are not counted. *)
CountOpenOnly(c, except) ==
  Cardinality({fd \in Fds \ {except} : connections[fd].client = c /\ ~connections[fd].read_eof})

CountAuthenticated(c, except) ==
  Cardinality({fd \in Fds \ {except} : connections[fd].client = c})

(* Mutant: any connection on the descriptor will do. *)
MatchesFdOnly(m) == connections[m.fd].conn_id # 0

(* Is the connection the response is for still the one on its descriptor? *)
Matches(m) == connections[m.fd].conn_id = m.conn_id

(* Mutant: the finished piece of work is not subtracted. *)
FinishNoWork(n, fromWorker) == n

FinishWork(n, fromWorker) == IF fromWorker /\ n > 0 THEN n - 1 ELSE n

(* applyResponse; a response whose connection is gone is dropped. *)
ApplyResponse(m, fromWorker) ==
  LET c == connections[m.fd]
      full == /\ m.client # None
              /\ CountAuthenticated(m.client, m.fd) >= runtime_config.max_connections_per_client
      answer == IF full THEN AuthRefused(m) ELSE m
      done == [connections EXCEPT ![m.fd] = [c EXCEPT
        !.in_flight_work = FinishWork(@, fromWorker),
        !.auth_pending = @ /\ m.type # "AUTH_RESP" /\ ~m.close,
        !.client = IF answer.client # None THEN answer.client ELSE @,
        !.closing = @ \/ answer.close,
        !.output = Append(@, answer)]]
  IN  IF ~Matches(m)
      THEN UNCHANGED <<tableVars, drained>>
      ELSE IF Len(c.output) + 1 > runtime_config.slow_client_output_limit
      THEN CloseConnections(done, windows, {m.fd}) /\ UNCHANGED drained
      ELSE UpdateConnection(done, m.fd, FALSE)

-----------------------------------------------------------------------------
(* The reactor: loop(). *)

(* beginDraining; the re-registration of the connections may fail for any. *)
BeginDraining ==
  IF state = "RUNNING"
  THEN /\ state' = "DRAINING"
       /\ stopped' = [stopped EXCEPT !["request"] = TRUE, !["auth"] = TRUE]
       /\ \E failed \in Failing(Live) : CloseConnections(connections, windows, failed)
  ELSE UNCHANGED <<state, stopped, tableVars>>

LoopTop ==
  /\ rpc = "top"
  /\ rpc' = IF state = "STOPPED" THEN "finish" ELSE "wait"
  /\ IF stop_requested THEN BeginDraining ELSE UNCHANGED <<state, stopped, tableVars>>
  /\ UNCHANGED <<next_conn_id, drained, pollVars, decodeVars, cur, queue, rejected,
                 workerVars, stopVars, runtime_config, eventfd>>

(* Mutant: the timeout is always -1. *)
EpollNeverTimesOut == FALSE

(* epollTimeoutMs: -1 unless the state is DRAINING, then what is left until *)
(* the deadline.  (In the last millisecond it is rounded to 0 and the loop  *)
(* repeats.)                                                                *)
EpollTimesOut == state = "DRAINING" /\ deadline

(* epoll_wait returns events of live connections, of the listener, which is *)
(* closed once draining starts, and of the notifier, which is ready as long *)
(* as its counter is not zero; or none when it times out.                   *)
EpollWait ==
  /\ rpc = "wait"
  /\ rpc' = "batch"
  /\ notified' = eventfd
  /\ \E ready \in SUBSET Live, incoming \in BOOLEAN :
       /\ Cardinality(ready) <= MaxBatch
       /\ incoming => state = "RUNNING" /\ next_conn_id <= MaxConnId
       /\ ready # {} \/ incoming \/ eventfd \/ EpollTimesOut
       /\ batch' = {[fd |-> fd, conn_id |-> connections[fd].conn_id] : fd \in ready}
       /\ accepting' = incoming
  /\ UNCHANGED <<state, tableVars, next_conn_id, drained, decodeVars, cur,
                 queueVars, workerVars, stopVars, runtime_config, eventfd>>

(* When epoll_wait cannot go on waiting, whatever the peers do. *)
EpollMustReturn == eventfd \/ EpollTimesOut

(* EINTR: back to the loop condition. *)
EpollInterrupted ==
  /\ rpc = "wait"
  /\ rpc' = "top"
  /\ UNCHANGED <<state, tableVars, next_conn_id, drained, pollVars, decodeVars, cur,
                 queueVars, workerVars, stopVars, runtime_config, eventfd>>

(* Any other failure of epoll_wait starts the shutdown. *)
EpollFailed ==
  /\ MayFail
  /\ rpc = "wait"
  /\ rpc' = "top"
  /\ BeginDraining
  /\ UNCHANGED <<next_conn_id, drained, pollVars, decodeVars, cur, queue, rejected,
                 workerVars, stopVars, runtime_config, eventfd>>

(* Mutant: the rejected connections are closed as soon as the reactor is   *)
(* notified, in the middle of the batch.                                   *)
HandleNotifierEagerly ==
  /\ rpc = "batch"
  /\ notified
  /\ notified' = FALSE
  /\ eventfd' = FALSE
  /\ rejected' = {}
  /\ CloseConnections(connections, windows,
                      {k.fd : k \in {r \in rejected : connections[r.fd].conn_id = r.conn_id}})
  /\ UNCHANGED <<state, next_conn_id, drained, batch, accepting, decodeVars, rpc, cur,
                 queue, stopped, workerVars, stopVars, runtime_config>>

HandleNotifier ==
  /\ rpc = "batch"
  /\ notified
  /\ notified' = FALSE
  /\ eventfd' = FALSE
  /\ UNCHANGED <<state, tableVars, next_conn_id, drained, batch, accepting, decodeVars, rpc, cur,
                 queueVars, workerVars, stopVars, runtime_config>>

(* handleAccept: one turn of its loop.  accept4 ends the loop with EAGAIN   *)
(* or an error; a failing EPOLL_CTL_ADD wastes the conn_id.                 *)
HandleAccept ==
  /\ rpc = "batch"
  /\ accepting
  /\ \/ /\ accepting' = FALSE
        /\ UNCHANGED <<connections, next_conn_id>>
     \/ /\ state = "RUNNING" /\ next_conn_id <= MaxConnId
        /\ next_conn_id' = next_conn_id + 1
        /\ \E fd \in Fds \ Live :
             \/ connections' = [connections EXCEPT ![fd] = NewConnection(next_conn_id)]
             \/ MayFail /\ UNCHANGED connections
        /\ UNCHANGED accepting
  /\ UNCHANGED <<state, windows, cancelled, drained, batch, notified, decodeVars, rpc, cur,
                 queueVars, workerVars, stopVars, runtime_config, eventfd>>

(* A socket's event.  EPOLLERR closes; EPOLLIN or a hang-up reads while     *)
(* RUNNING; the hang-up and EPOLLOUT are chosen where the loop tests them.  *)
HandleEvent(e) ==
  /\ rpc = "batch"
  /\ e \in batch
  /\ batch' = batch \ {e}
  /\ \/ /\ MayFail
        /\ rpc' = "batch" /\ cur' = None
        /\ CloseConnections(connections, windows, {e.fd})
     \/ /\ rpc' = (IF state = "RUNNING" THEN "read" ELSE "hup") /\ cur' = e.fd
        /\ UNCHANGED tableVars
     \/ /\ state = "RUNNING" /\ connections[e.fd].output # << >>
        /\ rpc' = "write" /\ cur' = e.fd
        /\ UNCHANGED tableVars
  /\ UNCHANGED <<state, next_conn_id, drained, accepting, notified, decodeVars,
                 queueVars, workerVars, stopVars, runtime_config, eventfd>>

BatchDone ==
  /\ rpc = "batch"
  /\ batch = {} /\ ~accepting /\ ~notified
  /\ rpc' = "responses"
  /\ UNCHANGED <<state, tableVars, next_conn_id, drained, pollVars, decodeVars, cur,
                 queueVars, workerVars, stopVars, runtime_config, eventfd>>

-----------------------------------------------------------------------------
(* handleRead, one turn of its loop per step. *)

CanRead == /\ rpc = "read"
           /\ cur \in Live
           /\ ~connections[cur].closing /\ ~connections[cur].read_eof

(* Nothing to read, or recv says EAGAIN. *)
ReadAgain ==
  /\ rpc = "read"
  /\ rpc' = "hup"
  /\ UNCHANGED <<state, tableVars, next_conn_id, drained, pollVars, decodeVars, cur,
                 queueVars, workerVars, stopVars, runtime_config, eventfd>>

(* recv fails, or what was read is refused: an invalid or too large frame,  *)
(* a request before authentication, a second AUTH while one is pending.     *)
(* Requests decoded before the refused frame have touched the rate window.  *)
ReadClose ==
  /\ CanRead
  /\ rpc' = "hup"
  /\ \E touched \in SUBSET ({connections[cur].client} \ {None}) :
       CloseConnections(connections, windows \cup touched, {cur})
  /\ UNCHANGED <<state, next_conn_id, drained, pollVars, decodeVars, cur,
                 queueVars, workerVars, stopVars, runtime_config, eventfd>>

(* End of stream: a truncated frame is forgotten, then markReadEof. *)
ReadEof ==
  /\ CanRead
  /\ rpc' = "hup"
  /\ MarkReadEof(cur)
  /\ UNCHANGED <<state, next_conn_id, pollVars, decodeVars, cur,
                 queueVars, workerVars, stopVars, runtime_config, eventfd>>

(* Mutant: an AUTH is taken while another one is pending. *)
MayAuthenticateAgain(c) == c.client = None

MayAuthenticate(c) == c.client = None /\ ~c.auth_pending

(* decodeAndEnqueue, up to its first push: the AUTH frame of a connection  *)
(* that is not authenticated.                                              *)
ReadAuth(c) ==
  /\ CanRead
  /\ MayAuthenticate(connections[cur])
  /\ input_left > 0
  /\ input_left' = input_left - 1
  /\ connections' = [connections EXCEPT ![cur].auth_pending = TRUE]
  /\ todo' = <<AuthTaskOf(cur, c)>>
  /\ rpc' = "push"
  /\ UNCHANGED <<state, windows, cancelled, next_conn_id, drained, pollVars, local_responses, cur,
                 queueVars, workerVars, stopVars, runtime_config, eventfd>>

(* The same for an authenticated one: admit frames that become work, refuse *)
(* frames answered at once, a repeated AUTH with 400 or, over the rate       *)
(* limit, a request with 429.  Every request looks up the rate window.       *)
ReadRequests(admit, refuse) ==
  /\ CanRead
  /\ connections[cur].client # None
  /\ admit + refuse \in 1..MaxChunk
  /\ input_left >= admit + refuse
  /\ input_left' = input_left - (admit + refuse)
  /\ todo' = [i \in 1..admit |-> RequestOf(cur)]
  /\ local_responses' = [i \in 1..refuse |-> ResponseTo(RequestOf(cur))]
  /\ windows' \in {windows \cup {connections[cur].client}}
                   \cup (IF admit = 0 THEN {windows} ELSE {})
  /\ rpc' = IF admit > 0 THEN "push" ELSE "local"
  /\ UNCHANGED <<state, connections, cancelled, next_conn_id, drained, pollVars, cur,
                 queueVars, workerVars, stopVars, runtime_config, eventfd>>

(* Where decodeAndEnqueue goes next; when it returns, handleRead reads on. *)
AfterPush(work, responses) ==
  IF work # << >> THEN "push" ELSE IF responses # << >> THEN "local" ELSE "read"

(* Push of one decoded item.  The queue is shared, so a worker may have     *)
(* answered the item before the reactor counts it in Admit.                 *)
PushWork ==
  /\ rpc = "push"
  /\ LET m == Head(todo) q == QueueFor(m) IN
       IF PushResult(q) = "OK"
       THEN /\ queue' = [queue EXCEPT ![q] = Append(@, m)]
            /\ rpc' = "admit"
            /\ UNCHANGED <<todo, local_responses>>
       ELSE /\ todo' = Tail(todo)
            /\ local_responses' = Append(local_responses, OverloadResponse(m))
            /\ rpc' = AfterPush(todo', local_responses')
            /\ UNCHANGED queue
  /\ UNCHANGED <<state, tableVars, next_conn_id, drained, pollVars, input_left, cur,
                 stopped, rejected, workerVars, stopVars, runtime_config, eventfd>>

Admit ==
  /\ rpc = "admit"
  /\ LET m == Head(todo) IN
       connections' = IF Matches(m)
                      THEN [connections EXCEPT ![m.fd].in_flight_work = @ + 1]
                      ELSE connections
  /\ todo' = Tail(todo)
  /\ rpc' = AfterPush(todo', local_responses)
  /\ UNCHANGED <<state, windows, cancelled, next_conn_id, drained, pollVars,
                 local_responses, input_left, cur, queueVars, workerVars, stopVars,
                 runtime_config, eventfd>>

ApplyLocal ==
  /\ rpc = "local"
  /\ ApplyResponse(Head(local_responses), FALSE)
  /\ local_responses' = Tail(local_responses)
  /\ rpc' = AfterPush(<< >>, local_responses')
  /\ UNCHANGED <<state, next_conn_id, pollVars, todo, input_left, cur,
                 queueVars, workerVars, stopVars, runtime_config, eventfd>>

(* After handleRead: the peer may have hung up (markReadEof). *)
HandleHangup ==
  /\ rpc = "hup"
  /\ rpc' = "write"
  /\ \/ UNCHANGED <<tableVars, drained>>
     \/ /\ cur \in Live
        /\ MarkReadEof(cur)
  /\ UNCHANGED <<state, next_conn_id, pollVars, decodeVars, cur,
                 queueVars, workerVars, stopVars, runtime_config, eventfd>>

(* handleWrite: sent responses leave the buffer; with the buffer empty the  *)
(* drain rule applies, otherwise send said EAGAIN; a failed send closes.    *)
HandleWrite ==
  /\ rpc = "write"
  /\ rpc' = "batch"
  /\ cur' = None
  /\ \/ UNCHANGED <<tableVars, drained>>
     \/ /\ cur \in Live /\ connections[cur].output # << >>
        /\ \E sent \in 1..Len(connections[cur].output) :
             LET rest == SubSeq(connections[cur].output, sent + 1, Len(connections[cur].output))
                 after == [connections EXCEPT ![cur].output = rest]
             IN  IF rest = << >>
                 THEN UpdateConnection(after, cur, TRUE)
                 ELSE connections' = after /\ UNCHANGED <<windows, cancelled, drained>>
     \/ /\ MayFail
        /\ cur \in Live /\ connections[cur].output # << >>
        /\ CloseConnections(connections, windows, {cur})
        /\ UNCHANGED drained
  /\ UNCHANGED <<state, next_conn_id, pollVars, decodeVars,
                 queueVars, workerVars, stopVars, runtime_config, eventfd>>

-----------------------------------------------------------------------------
(* The end of an iteration of loop(). *)

(* drainResponseQueue: one tryPop and applyResponse. *)
DrainResponse ==
  /\ rpc = "responses"
  /\ IF queue["response"] = << >>
     THEN /\ rpc' = "rejected"
          /\ UNCHANGED <<queue, tableVars, drained>>
     ELSE /\ queue' = [queue EXCEPT !["response"] = Tail(@)]
          /\ ApplyResponse(Head(queue["response"]), TRUE)
          /\ UNCHANGED rpc
  /\ UNCHANGED <<state, next_conn_id, pollVars, decodeVars, cur, stopped, rejected,
                 workerVars, stopVars, runtime_config, eventfd>>

(* drainRejectedResponses: the set is swapped out under its mutex. *)
DrainRejected ==
  /\ rpc = "rejected"
  /\ rpc' = "check"
  /\ rejected' = {}
  /\ CloseConnections(connections, windows, {k.fd : k \in {r \in rejected : Matches(r)}})
  /\ UNCHANGED <<state, next_conn_id, drained, pollVars, decodeVars, cur, queue, stopped,
                 workerVars, stopVars, runtime_config, eventfd>>

(* The DRAINING branch.  drainComplete reads what the workers change one    *)
(* after the other, each under its own lock: the count of the producers,    *)
(* the three queues, the rejected set.                                      *)
CheckDrain ==
  /\ rpc = "check"
  /\ rpc' = CASE state # "DRAINING" -> "top"
              [] state = "DRAINING" /\ producers = 0 -> "request"
              [] state = "DRAINING" /\ producers # 0 -> "late"
  /\ UNCHANGED <<state, tableVars, next_conn_id, drained, pollVars, decodeVars, cur,
                 queueVars, workerVars, stopVars, runtime_config, eventfd>>

(* Mutant: the response queue is not looked at. *)
RequestsDrained(q) == q # "response" => stopped[q] /\ queue[q] = << >>

(* stopped() and size(): a queue that is stopped stays so. *)
QueueDrained(q) == stopped[q] /\ queue[q] = << >>

AfterQueue == [request |-> "auth", auth |-> "response", response |-> "complete"]

CheckQueue(q) ==
  /\ rpc = q
  /\ rpc' = IF QueueDrained(q) THEN AfterQueue[q] ELSE "late"
  /\ UNCHANGED <<state, tableVars, next_conn_id, drained, pollVars, decodeVars, cur,
                 queueVars, workerVars, stopVars, runtime_config, eventfd>>

(* The rest of drainComplete: the rejected set, and the connections that    *)
(* have nothing left are closed.                                            *)
CheckConnections ==
  /\ rpc = "complete"
  /\ LET done == {fd \in Live : rejected = {} /\ CanCloseAfterDrain(connections[fd])} IN
       /\ CloseConnections(connections, windows, done)
       /\ drained' = drained \cup {connections[fd].conn_id : fd \in done}
       /\ IF rejected = {} /\ done = Live
          THEN state' = "STOPPED" /\ rpc' = "top"
          ELSE rpc' = "late" /\ UNCHANGED state
  /\ UNCHANGED <<next_conn_id, pollVars, decodeVars, cur, queueVars, workerVars, stopVars,
                 runtime_config, eventfd>>

(* The drain is not complete: at the deadline the queues are aborted. *)
CheckDeadline ==
  /\ rpc = "late"
  /\ rpc' = "top"
  /\ IF deadline
     THEN /\ state' = "STOPPED"
          /\ queue' = [q \in QueueNames |-> << >>]
          /\ stopped' = [q \in QueueNames |-> TRUE]
     ELSE UNCHANGED <<state, queue, stopped>>
  /\ UNCHANGED <<tableVars, next_conn_id, drained, pollVars, decodeVars, cur, rejected,
                 workerVars, stopVars, runtime_config, eventfd>>

(* finishShutdown, up to the joins. *)
StopQueues ==
  /\ rpc = "finish"
  /\ rpc' = "join"
  /\ stopped' = [q \in QueueNames |-> TRUE]
  /\ UNCHANGED <<state, tableVars, next_conn_id, drained, pollVars, decodeVars, cur,
                 queue, rejected, workerVars, stopVars, runtime_config, eventfd>>

(* The rest of it, when every worker has been joined. *)
FinishShutdown ==
  /\ rpc = "join"
  /\ \A w \in Producers : wpc[w] = "exited"
  /\ rpc' = "done"
  /\ CloseConnections(connections, windows, Live)
  /\ UNCHANGED <<state, next_conn_id, drained, pollVars, decodeVars, cur,
                 queueVars, workerVars, stopVars, runtime_config, eventfd>>

-----------------------------------------------------------------------------
(* The workers: normalWorkerLoop and authWorkerLoop. *)

WorkerPop(w) ==
  LET q == SourceOf(w) IN
  /\ wpc[w] = "pop"
  /\ queue[q] # << >>
  /\ queue' = [queue EXCEPT ![q] = Tail(@)]
  /\ job' = [job EXCEPT ![w] = Head(queue[q])]
  /\ wpc' = [wpc EXCEPT ![w] = IF w \in AuthWorkers THEN "check" ELSE "work"]
  /\ UNCHANGED <<state, tableVars, next_conn_id, drained, pollVars, decodeVars, rpc, cur,
                 stopped, rejected, producers, granted, stopVars, runtime_config, eventfd>>

(* pop returns false: the queue is stopped and empty. *)
WorkerPopFails(w) ==
  /\ wpc[w] = "pop"
  /\ queue[SourceOf(w)] = << >> /\ stopped[SourceOf(w)]
  /\ wpc' = [wpc EXCEPT ![w] = "leave"]
  /\ UNCHANGED <<state, tableVars, next_conn_id, drained, pollVars, decodeVars, rpc, cur,
                 queueVars, job, producers, granted, stopVars, runtime_config, eventfd>>

(* A task whose connection was closed meanwhile is dropped. *)
AuthCheck(w) ==
  /\ wpc[w] = "check"
  /\ IF job[w].conn_id \in cancelled
     THEN wpc' = [wpc EXCEPT ![w] = "pop"] /\ job' = [job EXCEPT ![w] = None]
     ELSE wpc' = [wpc EXCEPT ![w] = "work"] /\ UNCHANGED job
  /\ UNCHANGED <<state, tableVars, next_conn_id, drained, pollVars, decodeVars, rpc, cur,
                 queueVars, producers, granted, stopVars, runtime_config, eventfd>>

(* The handler, then the push of enqueueWorkerResponse.  A request always   *)
(* has one response, an exception gives 500; an AUTH is allowed or refused. *)
WorkerRespond(w) ==
  /\ wpc[w] = "work"
  /\ \E answer \in IF w \in AuthWorkers
                   THEN {AuthAllowed(job[w]), AuthRefused(job[w])}
                   ELSE {ResponseTo(job[w])} :
       /\ granted' = granted \cup (IF answer.client = None THEN {}
                                   ELSE {<<answer.conn_id, answer.client>>})
       /\ IF PushResult("response") = "OK"
          THEN /\ queue' = [queue EXCEPT !["response"] = Append(@, answer)]
               /\ wpc' = [wpc EXCEPT ![w] = "notify"]
               /\ job' = [job EXCEPT ![w] = None]
          ELSE /\ wpc' = [wpc EXCEPT ![w] = "reject"]
               /\ UNCHANGED <<queue, job>>
  /\ UNCHANGED <<state, tableVars, next_conn_id, drained, pollVars, decodeVars, rpc, cur,
                 stopped, rejected, producers, stopVars, runtime_config, eventfd>>

(* A response that found no room costs its connection. *)
WorkerReject(w) ==
  /\ wpc[w] = "reject"
  /\ rejected' = rejected \cup {[fd |-> job[w].fd, conn_id |-> job[w].conn_id]}
  /\ wpc' = [wpc EXCEPT ![w] = "notify"]
  /\ job' = [job EXCEPT ![w] = None]
  /\ UNCHANGED <<state, tableVars, next_conn_id, drained, pollVars, decodeVars, rpc, cur,
                 queue, stopped, producers, granted, stopVars, runtime_config, eventfd>>

(* Mutant: only the first of several queued responses is announced. *)
WorkerNotifyFirst(w) ==
  /\ wpc[w] = "notify"
  /\ eventfd' = (eventfd \/ Len(queue["response"]) = 1)
  /\ wpc' = [wpc EXCEPT ![w] = "pop"]
  /\ UNCHANGED <<state, tableVars, next_conn_id, drained, pollVars, decodeVars, rpc, cur,
                 queueVars, job, producers, granted, stopVars, runtime_config>>

WorkerNotify(w) ==
  /\ wpc[w] = "notify"
  /\ eventfd' = TRUE
  /\ wpc' = [wpc EXCEPT ![w] = "pop"]
  /\ UNCHANGED <<state, tableVars, next_conn_id, drained, pollVars, decodeVars, rpc, cur,
                 queueVars, job, producers, granted, stopVars, runtime_config>>

(* Mutant: the last but one producer takes itself for the last. *)
IsNearlyLastProducer == producers <= 2

IsLastProducer == producers = 1

(* onResponseProducerExited: the decrement, the stop, the notification. *)
WorkerLeave(w) ==
  /\ wpc[w] = "leave"
  /\ producers' = producers - 1
  /\ wpc' = [wpc EXCEPT ![w] = IF IsLastProducer THEN "stopq" ELSE "exited"]
  /\ UNCHANGED <<state, tableVars, next_conn_id, drained, pollVars, decodeVars, rpc, cur,
                 queueVars, job, granted, stopVars, runtime_config, eventfd>>

StopResponses(w) ==
  /\ wpc[w] = "stopq"
  /\ stopped' = [stopped EXCEPT !["response"] = TRUE]
  /\ wpc' = [wpc EXCEPT ![w] = "wake"]
  /\ UNCHANGED <<state, tableVars, next_conn_id, drained, pollVars, decodeVars, rpc, cur,
                 queue, rejected, job, producers, granted, stopVars, runtime_config, eventfd>>

(* Mutant: the reactor is not told that the last producer is gone. *)
LeaveSilently(w) ==
  /\ wpc[w] = "wake"
  /\ wpc' = [wpc EXCEPT ![w] = "exited"]
  /\ UNCHANGED <<state, tableVars, next_conn_id, drained, pollVars, decodeVars, rpc, cur,
                 queueVars, job, producers, granted, stopVars, runtime_config, eventfd>>

WakeReactor(w) ==
  /\ wpc[w] = "wake"
  /\ eventfd' = TRUE
  /\ wpc' = [wpc EXCEPT ![w] = "exited"]
  /\ UNCHANGED <<state, tableVars, next_conn_id, drained, pollVars, decodeVars, rpc, cur,
                 queueVars, job, producers, granted, stopVars, runtime_config>>

-----------------------------------------------------------------------------
(* The caller of stop, or the signal handler: the flag, then the eventfd. *)
RequestStop ==
  /\ MayStop
  /\ stopper = "idle"
  /\ stopper' = "requested"
  /\ stop_requested' = TRUE
  /\ UNCHANGED <<state, tableVars, next_conn_id, drained, pollVars, decodeVars, rpc, cur,
                 queueVars, workerVars, deadline, runtime_config, eventfd>>

NotifyStop ==
  /\ stopper = "requested"
  /\ stopper' = "notified"
  /\ eventfd' = TRUE
  /\ UNCHANGED <<state, tableVars, next_conn_id, drained, pollVars, decodeVars, rpc, cur,
                 queueVars, workerVars, stop_requested, deadline, runtime_config>>

(* shutdown_deadline_ passes. *)
DeadlinePasses ==
  /\ state = "DRAINING"
  /\ ~deadline
  /\ deadline' = TRUE
  /\ UNCHANGED <<state, tableVars, next_conn_id, drained, pollVars, decodeVars, rpc, cur,
                 queueVars, workerVars, stop_requested, stopper, runtime_config, eventfd>>

-----------------------------------------------------------------------------
(* configPullerLoop: a configuration has been fetched and replaces the      *)
(* current one if it is newer (see ConfigSync), so the limits may grow and  *)
(* shrink; after a fetch that fails, or brings nothing newer, they stay.    *)
(* The thread is joined before start() returns; of the fetches that end     *)
(* after RUNNING the code applies one at most, the model any number.        *)
PullConfig ==
  /\ rpc # "done"
  /\ runtime_config' \in RuntimeConfig
  /\ UNCHANGED <<state, tableVars, next_conn_id, drained, pollVars, decodeVars, rpc, cur,
                 queueVars, workerVars, stopVars, eventfd>>

(* start() has returned. *)
Terminated == rpc = "done" /\ UNCHANGED vars

-----------------------------------------------------------------------------
ReadStep ==
  \/ ReadAgain \/ ReadClose \/ ReadEof
  \/ \E c \in Clients : ReadAuth(c)
  \/ \E admit, refuse \in 0..MaxChunk : ReadRequests(admit, refuse)

BatchStep ==
  \/ HandleNotifier \/ HandleAccept \/ BatchDone
  \/ \E e \in batch : HandleEvent(e)
  \/ ReadStep \/ PushWork \/ Admit \/ ApplyLocal \/ HandleHangup \/ HandleWrite

(* The reactor, apart from epoll_wait. *)
ReactorStep ==
  \/ LoopTop \/ BatchStep \/ DrainResponse \/ DrainRejected
  \/ CheckDrain \/ CheckConnections \/ CheckDeadline
  \/ \E q \in QueueNames : CheckQueue(q)
  \/ StopQueues \/ FinishShutdown

WorkerStep(w) ==
  \/ WorkerPop(w) \/ WorkerPopFails(w) \/ AuthCheck(w) \/ WorkerRespond(w) \/ WorkerReject(w)
  \/ WorkerNotify(w) \/ WorkerLeave(w) \/ StopResponses(w) \/ WakeReactor(w)

Next ==
  \/ ReactorStep \/ EpollWait \/ EpollInterrupted \/ EpollFailed
  \/ \E w \in Producers : WorkerStep(w)
  \/ RequestStop \/ NotifyStop \/ DeadlinePasses \/ PullConfig
  \/ Terminated

Safety == Init /\ [][Next]_vars

(* Threads are scheduled; a handler returns (the control plane client has   *)
(* deadlines); a caller of stop goes on to notify; time passes.             *)
(* epoll_wait returns when the eventfd is readable or its timeout is over,  *)
(* unless it is interrupted, which does not happen for ever.  Nothing is    *)
(* assumed of the peers: their events may never come.                       *)
Fairness ==
  /\ WF_vars(ReactorStep) /\ SF_vars(EpollMustReturn /\ EpollWait)
  /\ \A w \in Producers : WF_vars(WorkerStep(w))
  /\ WF_vars(NotifyStop) /\ WF_vars(DeadlinePasses)

Spec == Safety /\ Fairness

-----------------------------------------------------------------------------
(* Properties. *)

Key == [fd : Fds, conn_id : Nat]

WithinOutputLimit(output) == \E limit \in OutputLimits : Len(output) <= limit

TableOK ==
  /\ connections \in [Fds -> Connection]
  /\ \A fd \in Fds : WithinOutputLimit(connections[fd].output)
  /\ windows \subseteq Clients
  /\ cancelled \subseteq Nat

ControlOK ==
  /\ state \in {"RUNNING", "DRAINING", "STOPPED"}
  /\ next_conn_id \in Nat \ {0}
  /\ drained \subseteq Nat
  /\ eventfd \in BOOLEAN /\ stop_requested \in BOOLEAN /\ deadline \in BOOLEAN
  /\ stopper \in {"idle", "requested", "notified"}
  /\ batch \subseteq Key
  /\ accepting \in BOOLEAN /\ notified \in BOOLEAN
  /\ runtime_config \in RuntimeConfig

ReactorOK ==
  /\ rpc \in {"top", "wait", "batch", "read", "push", "admit", "local", "hup", "write",
              "responses", "rejected", "check", "request", "auth", "response", "complete", "late",
              "finish", "join", "done"}
  /\ cur \in Fds \cup {None}
  /\ rpc \in {"read", "push", "admit", "local", "hup", "write"} => cur \in Fds
  /\ todo \in Seq(Message) /\ local_responses \in Seq(Message)
  /\ rpc \in {"push", "admit"} => todo # << >>
  /\ rpc = "local" => local_responses # << >>
  /\ input_left \in Nat

QueueOK ==
  /\ queue \in [QueueNames -> Seq(Message)]
  /\ \A q \in QueueNames : Len(queue[q]) <= Capacity(q)
  /\ stopped \in [QueueNames -> BOOLEAN]
  /\ rejected \subseteq Key

WorkerOK ==
  /\ wpc \in [Producers -> {"pop", "check", "work", "reject", "notify", "leave",
                            "stopq", "wake", "exited"}]
  /\ job \in [Producers -> Message \cup {None}]
  /\ \A w \in Producers : wpc[w] \in {"check", "work", "reject"} => job[w] \in Message
  /\ producers \in Int
  /\ granted \subseteq Nat \X Clients

(* Types.  In particular no queue exceeds its capacity and no output buffer *)
(* the largest limit, and a thread has an item in hand wherever its code    *)
(* uses one.                                                                *)
TypeOK == TableOK /\ ControlOK /\ ReactorOK /\ QueueOK /\ WorkerOK

(* The work of connection id that is on its way: queued, in a worker's      *)
(* hands, or answered and not yet applied.                                  *)
QueuedFor(q, id) == {i \in 1..Len(queue[q]) : queue[q][i].conn_id = id}

HandledFor(id) ==
  {w \in Producers : wpc[w] \in {"check", "work", "reject"} /\ job[w].conn_id = id}

OutstandingWork(id) ==
  Cardinality(QueuedFor("request", id)) + Cardinality(QueuedFor("auth", id))
    + Cardinality(HandledFor(id)) + Cardinality(QueuedFor("response", id))

(* in_flight_work is exactly the connection's work that is on its way,      *)
(* although the reactor counts an item only after the push, when it may     *)
(* already be answered, and although a response can be lost to a full       *)
(* queue: then the count stays too high, and the connection is listed in    *)
(* rejected_response_connections_ so that it is closed instead of waiting   *)
(* for ever.  Hence the assertion of applyResponse ("in_flight_work         *)
(* accounting violation") never fires.                                      *)
InFlightAccounting ==
  state # "STOPPED" =>
    \A fd \in Live :
      LET id == connections[fd].conn_id
          counted == connections[fd].in_flight_work
                       + (IF rpc = "admit" /\ Head(todo).conn_id = id THEN 1 ELSE 0)
      IN  IF [fd |-> fd, conn_id |-> id] \in rejected
          THEN counted > OutstandingWork(id)
          ELSE counted = OutstandingWork(id)

(* A connection is authenticated as a client only if the control plane      *)
(* allowed that client on that very connection, not on an earlier one with  *)
(* the same descriptor (the conn_id test of applyResponse).                 *)
AuthenticatedOnlyIfGranted ==
  \A fd \in Fds :
    connections[fd].client # None => <<connections[fd].conn_id, connections[fd].client>> \in granted

(* A connection's output buffer holds only answers to its own requests,     *)
(* however descriptors were reused since (the same test).                   *)
ResponsesReachTheirConnection ==
  \A fd \in Fds : \A i \in 1..Len(connections[fd].output) :
    connections[fd].output[i].conn_id = connections[fd].conn_id

(* An AUTH that is applied does not take its client above                   *)
(* max_connections_per_client as it is at that moment, however many AUTHs   *)
(* of the client were pending together and although the config puller       *)
(* replaces the limit at any time.  (Connections that were authenticated    *)
(* under a higher limit stay.)                                              *)
ConnectionsOf(c) == {fd \in Fds : connections[fd].client = c}

ClientConnectionLimit ==
  [][\A c \in Clients :
       ~(ConnectionsOf(c)' \subseteq ConnectionsOf(c)) =>
         Cardinality(ConnectionsOf(c)') <= runtime_config.max_connections_per_client]_vars

(* What of connection id is on its way, of the given types: decoded and not *)
(* yet pushed, queued, in a worker's hands, or answered and not yet applied. *)
OnTheWay(id, types) ==
  LET unpushed == IF rpc = "admit" THEN Tail(todo) ELSE todo
      moving == unpushed \o queue["request"] \o queue["auth"] \o queue["response"]
                  \o local_responses
  IN  Cardinality({i \in 1..Len(moving) : moving[i].conn_id = id /\ moving[i].type \in types})
        + Cardinality({w \in HandledFor(id) : job[w].type \in types})

(* One AUTH at a time: a connection has an AUTH, or the answer to one, on   *)
(* its way only while auth_pending is set, and never two; and it has        *)
(* requests on their way only if it is authenticated.  So decodeAndEnqueue  *)
(* may look at the two flags of the connection alone, wherever the workers  *)
(* are with what was admitted before.                                       *)
OneAuthPerConnection ==
  \A fd \in Live :
    LET c == connections[fd] IN
    /\ OnTheWay(c.conn_id, {"AUTH", "AUTH_RESP"}) <= IF c.auth_pending THEN 1 ELSE 0
    /\ OnTheWay(c.conn_id, {"REQUEST", "RESP"}) > 0 => c.client # None

(* rate_limit_windows_ has entries only for clients that are connected, so  *)
(* it cannot grow with the clients ever seen (closeConnection erases).      *)
WindowsBelongToConnections ==
  windows \subseteq {connections[fd].client : fd \in Live}

(* A connection closed because it was drained (canCloseAfterDrain) leaves   *)
(* nothing behind: no request of it is queued, being handled or answered.   *)
DrainedLeavesNothing ==
  state # "STOPPED" =>
    \A id \in drained : OutstandingWork(id) = 0

(* An event still to be handled belongs to the connection it was reported   *)
(* for: closing descriptors and accepting on them again within one batch    *)
(* never hands an event to a newer connection, which loop() does not test.  *)
BatchIsFresh ==
  \A e \in batch : connections[e.fd].conn_id = e.conn_id

(* The reactor never sleeps in epoll_wait on work it was not told of: a     *)
(* response, a rejected response or a stop request is pending only if the   *)
(* eventfd is readable or the one who left it is about to write to it.      *)
NoLostNotification ==
  rpc = "wait" /\ ~eventfd =>
    /\ queue["response"] # << >> \/ rejected # {} => \E w \in Producers : wpc[w] = "notify"
    /\ stop_requested /\ state = "RUNNING" => stopper = "requested"

(* When the workers are gone and the reactor still waits, it waits for a    *)
(* peer to take its output: every connection that is left has some, and     *)
(* none of them counts work that nobody will finish.                        *)
DrainWaitsOnlyForPeers ==
  rpc = "wait" /\ ~eventfd /\ state = "DRAINING" /\ (\A w \in Producers : wpc[w] = "exited") =>
    /\ Live # {}
    /\ \A fd \in Live : connections[fd].output # << >> /\ connections[fd].in_flight_work = 0

(* While the server runs or drains, no worker finds the response queue      *)
(* stopped: it is stopped by the last of them (onResponseProducerExited).   *)
ResponsesAcceptedUntilLastWorker ==
  state # "STOPPED" /\ stopped["response"] =>
    \A w \in Producers : wpc[w] \in {"wake", "exited"}

(* A shutdown that ends before its deadline has lost nothing: every queue   *)
(* is empty, no worker holds an item and no connection is left.             *)
GracefulStopIsComplete ==
  state = "STOPPED" /\ ~deadline =>
    /\ Live = {} /\ rejected = {}
    /\ \A q \in QueueNames : queue[q] = << >>
    /\ \A w \in Producers : wpc[w] \in {"wake", "exited"}

(* stop() and SIGTERM succeed: the reactor ends, with every worker joined,  *)
(* even if a peer never reads its responses.                                *)
ShutdownCompletes == stop_requested ~> rpc = "done"

(* Work that is admitted is finished: a worker takes it, its response is    *)
(* applied or, when it was rejected, the connection is closed; nothing of   *)
(* it stays behind in a queue while the reactor sleeps.                     *)
AdmittedWorkFinishes ==
  \A fd \in Fds : connections[fd].in_flight_work > 0 ~> connections[fd].in_flight_work = 0
=============================================================================

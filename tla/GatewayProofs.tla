---------------------------- MODULE GatewayProofs ----------------------------
(***************************************************************************)
(* Invariants of Gateway for every number of descriptors, clients, workers *)
(* and queue slots, from what GatewayStepProofs says of its steps.         *)
(***************************************************************************)
EXTENDS GatewayStepProofs

-----------------------------------------------------------------------------
(* Responses reach the connection they are for.                            *)

(* The connection of a descriptor gets output only through applyResponse,   *)
(* which compares the conn_ids; an emptied or new slot has none.            *)
LEMMA ResponsesStep ==
  TypeOK /\ ResponsesReachTheirConnection /\ [Next]_vars => ResponsesReachTheirConnection'
<1> SUFFICES ASSUME TypeOK, ResponsesReachTheirConnection, [Next]_vars, NEW g \in Fds,
                    NEW i \in 1..Len(connections'[g].output)
             PROVE  connections'[g].output[i].conn_id = connections'[g].conn_id
  BY DEF ResponsesReachTheirConnection
<1>1. SlotChange(g) /\ next_conn_id \in Nat
  BY TypeStep DEF StepTypes, TableChange, TypeOK, ControlOK
<1>2. connections[g].output \in Seq(Message) /\ Len(connections[g].output) \in Nat
  BY LenProperties DEF TypeOK, TableOK, Connection
<1>3. \A j \in 1..Len(connections[g].output) :
        connections[g].output[j].conn_id = connections[g].conn_id
  BY DEF ResponsesReachTheirConnection
<1>4. CASE connections'[g] = NoConnection \/ connections'[g] = NewConnection(next_conn_id)
  <2>1. connections'[g].output = << >>
    BY <1>1, <1>4, NewConnectionType DEF NoConnection
  <2> QED BY <2>1
<1>5. CASE Written(g)
  BY <1>3, <1>5 DEF Written
<1>6. ASSUME NEW m, Applied(g, m)
      PROVE  connections'[g].output[i].conn_id = connections'[g].conn_id
  <2>1. PICK a \in Message : a.conn_id = m.conn_id /\ connections'[g].output = Append(connections[g].output, a)
    BY <1>6 DEF Applied
  <2>2. m.conn_id = connections[g].conn_id /\ connections'[g].conn_id = connections[g].conn_id
    BY <1>6 DEF Applied, Matches
  <2>3. /\ Len(Append(connections[g].output, a)) = Len(connections[g].output) + 1
        /\ \A j \in 1..Len(connections[g].output) :
             Append(connections[g].output, a)[j] = connections[g].output[j]
        /\ Append(connections[g].output, a)[Len(connections[g].output) + 1] = a
    BY <1>2, <2>1, AppendProperties
  <2>4. CASE i = Len(connections[g].output) + 1
    BY <2>1, <2>2, <2>3, <2>4
  <2>5. CASE i # Len(connections[g].output) + 1
    <3>1. i \in 1..Len(connections[g].output)
      BY <1>2, <2>1, <2>3, <2>5
    <3> QED BY <1>3, <2>1, <2>2, <2>3, <3>1
  <2> QED BY <2>4, <2>5
<1> QED BY <1>1, <1>4, <1>5, <1>6 DEF SlotChange

(* Whatever descriptors are reused while workers are busy, an output buffer *)
(* only ever holds answers to requests of its own connection.               *)
THEOREM ResponsesReachTheirOwner == Safety => []ResponsesReachTheirConnection
<1>1. Init => ResponsesReachTheirConnection
  <2>1. NoConnection.output = << >>
    BY NewConnectionType DEF NoConnection
  <2> QED BY <2>1, EmptySeq DEF Init, ResponsesReachTheirConnection
<1> QED BY <1>1, ResponsesStep, GatewayTypes, PTL DEF Safety

-----------------------------------------------------------------------------
(* Authentication.                                                         *)

(* The inductive invariant: a response on its way that would authenticate   *)
(* its connection carries a grant of the control plane for that connection, *)
(* and responses the reactor makes itself authenticate nobody.              *)
Backed(m) == m.client # None => <<m.conn_id, m.client>> \in granted

GrantsOnTheWay ==
  /\ \A i \in 1..Len(queue["response"]) : Backed(queue["response"][i])
  /\ \A i \in 1..Len(local_responses) : local_responses[i].client = None
  /\ \A i \in 1..Len(todo) : todo[i].type # "AUTH" => todo[i].client = None

(* The invariant depends on these variables only.                           *)
LEMMA GrantsKept ==
  ASSUME GrantsOnTheWay, UNCHANGED <<queue, local_responses, todo, granted>>
  PROVE  GrantsOnTheWay'
BY DEF GrantsOnTheWay, Backed

(* Steps of the reactor: what it decodes carries no grant.                  *)
LEMMA GrantsReactorStep ==
  ASSUME TypeOK, GrantsOnTheWay, ReactorStep
  PROVE  GrantsOnTheWay'
<1>0. /\ queue["response"] \in Seq(Message) /\ Len(queue["response"]) \in Nat
      /\ local_responses \in Seq(Message) /\ Len(local_responses) \in Nat
      /\ todo \in Seq(Message) /\ Len(todo) \in Nat
      /\ "response" \in QueueNames /\ queue \in [QueueNames -> Seq(Message)]
  BY LenProperties DEF TypeOK, QueueOK, ReactorOK, QueueNames
<1>1. CASE \/ LoopTop \/ HandleNotifier \/ HandleAccept \/ BatchDone \/ (\E e \in batch : HandleEvent(e))
           \/ ReadAgain \/ ReadClose \/ ReadEof \/ HandleHangup \/ HandleWrite
           \/ DrainRejected \/ CheckDrain \/ (\E q \in QueueNames : CheckQueue(q))
           \/ CheckConnections \/ StopQueues \/ FinishShutdown
  <2>1. UNCHANGED <<queue, local_responses, todo, granted>>
    BY <1>1 DEF LoopTop, HandleNotifier, HandleAccept, BatchDone, HandleEvent, ReadAgain, ReadClose,
                ReadEof, HandleHangup, HandleWrite, DrainRejected, CheckDrain, CheckQueue,
                CheckConnections, StopQueues, FinishShutdown,
                decodeVars, queueVars, workerVars
  <2> QED BY <2>1, GrantsKept
<1>2. ASSUME NEW c \in Clients, ReadAuth(c) PROVE GrantsOnTheWay'
  <2>1. todo' = <<AuthTaskOf(cur, c)>> /\ UNCHANGED <<queue, local_responses, granted>>
    BY <1>2 DEF ReadAuth, queueVars, workerVars
  <2>2. AuthTaskOf(cur, c).type = "AUTH"
    BY DEF AuthTaskOf
  <2> HIDE DEF AuthTaskOf
  <2>3. \A i \in 1..Len(todo') : todo'[i].type = "AUTH"
    BY <2>1, <2>2
  <2> QED BY <2>1, <2>3 DEF GrantsOnTheWay, Backed
<1>3. ASSUME NEW admit \in 0..MaxChunk, NEW refuse \in 0..MaxChunk, ReadRequests(admit, refuse)
      PROVE  GrantsOnTheWay'
  <2>1. /\ todo' = [i \in 1..admit |-> RequestOf(cur)]
        /\ local_responses' = [i \in 1..refuse |-> ResponseTo(RequestOf(cur))]
        /\ UNCHANGED <<queue, granted>>
    BY <1>3 DEF ReadRequests, queueVars, workerVars
  <2>2. RequestOf(cur).client = None /\ ResponseTo(RequestOf(cur)).client = None
    BY DEF RequestOf, ResponseTo
  <2>3. admit \in Nat /\ refuse \in Nat
    BY BoundAssumption
  <2> HIDE DEF RequestOf, ResponseTo
  <2>4. \A i \in 1..Len(todo') : todo'[i].client = None
    BY <2>1, <2>2, <2>3
  <2>5. \A i \in 1..Len(local_responses') : local_responses'[i].client = None
    BY <2>1, <2>2, <2>3
  <2> QED BY <2>1, <2>4, <2>5 DEF GrantsOnTheWay, Backed
<1>4. CASE PushWork
  <2> DEFINE m == Head(todo)
  <2>1. todo # << >>
    BY <1>4 DEF PushWork, TypeOK, ReactorOK
  <2>2. /\ Len(todo) >= 1 /\ m = todo[1] /\ m \in Message
        /\ Tail(todo) \in Seq(Message) /\ Len(Tail(todo)) = Len(todo) - 1
        /\ \A i \in 1..Len(Tail(todo)) : Tail(todo)[i] = todo[i + 1]
    BY <1>0, <2>1, HeadTailProperties, EmptySeq
  <2>3. UNCHANGED granted
    BY <1>4 DEF PushWork, workerVars
  <2>4. CASE PushResult(QueueFor(m)) = "OK"
    <3>1. queue' = [queue EXCEPT ![QueueFor(m)] = Append(@, m)] /\ UNCHANGED <<todo, local_responses>>
      BY <1>4, <2>4 DEF PushWork
    <3>2. queue'["response"] = queue["response"]
      BY <1>0, <3>1 DEF QueueFor
    <3>3. \A i \in 1..Len(queue'["response"]) : Backed(queue["response"][i])
      BY <3>2 DEF GrantsOnTheWay
    <3>4. \A i \in 1..Len(queue'["response"]) : Backed(queue["response"][i])'
      BY <2>3, <3>2, <3>3 DEF Backed
    <3> QED BY <3>1, <3>4 DEF GrantsOnTheWay
  <2>5. CASE PushResult(QueueFor(m)) # "OK"
    <3>1. /\ todo' = Tail(todo) /\ local_responses' = Append(local_responses, OverloadResponse(m))
          /\ UNCHANGED queue
      BY <1>4, <2>5 DEF PushWork
    <3> HIDE DEF m
    <3>2. m.type # "AUTH" => m.client = None
      <4>1. 1 \in 1..Len(todo)
        BY <1>0, <2>2
      <4> QED BY <2>2, <4>1 DEF GrantsOnTheWay
    <3>3. OverloadResponse(m).client = None /\ OverloadResponse(m) \in Message
      BY <2>2, <3>2, AnswerType DEF OverloadResponse, AuthRefused, ResponseTo, Message
    <3> DEFINE r == OverloadResponse(m)
    <3> HIDE DEF r
    <3>4. /\ Len(local_responses') = Len(local_responses) + 1
          /\ \A i \in 1..Len(local_responses) : local_responses'[i] = local_responses[i]
          /\ local_responses'[Len(local_responses) + 1] = r
      <4>1. r \in Message /\ local_responses' = Append(local_responses, r)
        BY <3>1, <3>3 DEF r
      <4> QED BY <1>0, <4>1, AppendProperties
    <3>5. \A i \in 1..Len(local_responses') : local_responses'[i].client = None
      <4>1. r.client = None
        BY <3>3 DEF r
      <4>2. \A i \in 1..Len(local_responses) : local_responses[i].client = None
        BY DEF GrantsOnTheWay
      <4>3. \A i \in 1..Len(local_responses') : i \in 1..Len(local_responses) \/ i = Len(local_responses) + 1
        BY <1>0, <3>4
      <4> QED BY <3>4, <4>1, <4>2, <4>3
    <3>6. \A i \in 1..Len(todo') : todo'[i].type # "AUTH" => todo'[i].client = None
      BY <1>0, <2>2, <3>1 DEF GrantsOnTheWay
    <3> QED BY <2>3, <3>1, <3>5, <3>6 DEF GrantsOnTheWay, Backed
  <2> QED BY <2>4, <2>5
<1>5. CASE Admit
  <2>1. todo # << >> /\ todo' = Tail(todo) /\ UNCHANGED <<queue, local_responses, granted>>
    BY <1>5 DEF Admit, TypeOK, ReactorOK, queueVars, workerVars
  <2>2. Len(todo') = Len(todo) - 1 /\ \A i \in 1..Len(todo') : todo'[i] = todo[i + 1]
    BY <1>0, <2>1, HeadTailProperties
  <2>3. \A i \in 1..Len(todo') : i + 1 \in 1..Len(todo)
    BY <1>0, <2>2
  <2>4. \A i \in 1..Len(todo') : todo'[i].type # "AUTH" => todo'[i].client = None
    BY <2>2, <2>3 DEF GrantsOnTheWay
  <2> QED BY <2>1, <2>4 DEF GrantsOnTheWay, Backed
<1>6. CASE ApplyLocal
  <2>1. /\ local_responses # << >> /\ local_responses' = Tail(local_responses)
        /\ UNCHANGED <<queue, todo, granted>>
    BY <1>6 DEF ApplyLocal, TypeOK, ReactorOK, queueVars, workerVars
  <2>2. /\ Len(local_responses') = Len(local_responses) - 1
        /\ \A i \in 1..Len(local_responses') : local_responses'[i] = local_responses[i + 1]
    BY <1>0, <2>1, HeadTailProperties
  <2>3. \A i \in 1..Len(local_responses') : i + 1 \in 1..Len(local_responses)
    BY <1>0, <2>2
  <2>4. \A i \in 1..Len(local_responses') : local_responses'[i].client = None
    BY <2>2, <2>3 DEF GrantsOnTheWay
  <2> QED BY <2>1, <2>4 DEF GrantsOnTheWay, Backed
<1>7. CASE DrainResponse \/ CheckDeadline
  <2>1. /\ UNCHANGED <<local_responses, todo, granted>>
        /\ \/ UNCHANGED queue
           \/ queue["response"] # << >> /\ queue' = [queue EXCEPT !["response"] = Tail(@)]
           \/ queue' = [q \in QueueNames |-> << >>]
    BY <1>7 DEF DrainResponse, CheckDeadline, decodeVars, workerVars
  <2>2. CASE UNCHANGED queue
    BY <2>1, <2>2, GrantsKept
  <2>3. CASE queue["response"] # << >> /\ queue' = [queue EXCEPT !["response"] = Tail(@)]
    <3> DEFINE old == queue["response"]
               new == queue'["response"]
    <3>1. new = Tail(old)
      BY <1>0, <2>3
    <3>2. Len(Tail(old)) = Len(old) - 1 /\ \A i \in 1..Len(Tail(old)) : Tail(old)[i] = old[i + 1]
      BY <1>0, <2>3, HeadTailProperties
    <3>3. \A i \in 1..Len(old) : Backed(old[i])
      BY DEF GrantsOnTheWay
    <3>4. Len(old) \in Nat
      BY <1>0
    <3> HIDE DEF old, new
    <3>5. \A i \in 1..Len(new) : i + 1 \in 1..Len(old) /\ new[i] = old[i + 1]
      BY <3>1, <3>2, <3>4
    <3>6. \A i \in 1..Len(new) : Backed(new[i])
      BY <3>3, <3>5
    <3> QED BY <2>1, <3>6 DEF GrantsOnTheWay, Backed, new
  <2>4. CASE queue' = [q \in QueueNames |-> << >>]
    <3>1. queue'["response"] = << >>
      BY <1>0, <2>4
    <3> QED BY <2>1, <3>1 DEF GrantsOnTheWay, Backed
  <2> QED BY <2>1, <2>2, <2>3, <2>4
<1> QED BY <1>1, <1>2, <1>3, <1>4, <1>5, <1>6, <1>7 DEF ReactorStep, BatchStep, ReadStep

(* Steps of the workers: an answer that authenticates is granted first.     *)
LEMMA GrantsWorkerStep ==
  ASSUME TypeOK, GrantsOnTheWay, NEW w \in Producers, WorkerStep(w)
  PROVE  GrantsOnTheWay' /\ granted \subseteq granted'
<1>0. /\ queue["response"] \in Seq(Message) /\ Len(queue["response"]) \in Nat
      /\ "response" \in QueueNames /\ queue \in [QueueNames -> Seq(Message)]
  BY LenProperties DEF TypeOK, QueueOK, QueueNames
<1>1. CASE \/ WorkerPopFails(w) \/ AuthCheck(w) \/ WorkerReject(w) \/ WorkerNotify(w)
           \/ WorkerLeave(w) \/ StopResponses(w) \/ WakeReactor(w)
  <2>1. UNCHANGED <<queue, local_responses, todo, granted>>
    BY <1>1 DEF WorkerPopFails, AuthCheck, WorkerReject, WorkerNotify, WorkerLeave, StopResponses,
                WakeReactor, decodeVars, queueVars
  <2> QED BY <2>1, GrantsKept
<1>2. CASE WorkerPop(w)
  <2>1. UNCHANGED <<local_responses, todo, granted>>
    BY <1>2 DEF WorkerPop, decodeVars
  <2>2. queue'["response"] = queue["response"]
    BY <1>0, <1>2 DEF WorkerPop, SourceOf
  <2>3. \A i \in 1..Len(queue'["response"]) : Backed(queue["response"][i])
    BY <2>2 DEF GrantsOnTheWay
  <2>4. \A i \in 1..Len(queue'["response"]) : Backed(queue["response"][i])'
    BY <2>1, <2>2, <2>3 DEF Backed
  <2> QED BY <2>1, <2>4 DEF GrantsOnTheWay
<1>3. CASE WorkerRespond(w)
  <2>1. job[w] \in Message
    BY <1>3 DEF WorkerRespond, TypeOK, WorkerOK
  <2>2. PICK answer \in Message :
          /\ granted' = granted \cup (IF answer.client = None THEN {}
                                      ELSE {<<answer.conn_id, answer.client>>})
          /\ UNCHANGED queue \/ queue' = [queue EXCEPT !["response"] = Append(@, answer)]
    BY <1>3, <2>1, AnswerType DEF WorkerRespond
  <2>3. UNCHANGED <<local_responses, todo>> /\ granted \subseteq granted'
    BY <1>3, <2>2 DEF WorkerRespond, decodeVars
  <2>4. \A m : Backed(m) => (m.client # None => <<m.conn_id, m.client>> \in granted')
    BY <2>3 DEF Backed
  <2>5. answer.client # None => <<answer.conn_id, answer.client>> \in granted'
    BY <2>2
  <2>6. \A i \in 1..Len(queue'["response"]) :
          \/ queue'["response"][i] = answer
          \/ i \in 1..Len(queue["response"]) /\ queue'["response"][i] = queue["response"][i]
    <3>1. CASE UNCHANGED queue
      BY <3>1
    <3>2. CASE queue' = [queue EXCEPT !["response"] = Append(@, answer)]
      <4>1. queue'["response"] = Append(queue["response"], answer)
        BY <1>0, <3>2
      <4>2. /\ Len(Append(queue["response"], answer)) = Len(queue["response"]) + 1
            /\ \A i \in 1..Len(queue["response"]) :
                 Append(queue["response"], answer)[i] = queue["response"][i]
            /\ Append(queue["response"], answer)[Len(queue["response"]) + 1] = answer
        BY <1>0, AppendProperties
      <4>3. ASSUME NEW i \in 1..(Len(queue["response"]) + 1), i # Len(queue["response"]) + 1
            PROVE  i \in 1..Len(queue["response"])
        BY <1>0, <4>3
      <4> QED BY <4>1, <4>2, <4>3
    <3> QED BY <2>2, <3>1, <3>2
  <2>7. \A i \in 1..Len(queue'["response"]) :
          queue'["response"][i].client # None =>
            <<queue'["response"][i].conn_id, queue'["response"][i].client>> \in granted'
    BY <2>4, <2>5, <2>6 DEF GrantsOnTheWay
  <2> QED BY <2>3, <2>7 DEF GrantsOnTheWay, Backed
<1> QED BY <1>1, <1>2, <1>3 DEF WorkerStep

LEMMA GrantsStep ==
  TypeOK /\ GrantsOnTheWay /\ [Next]_vars => GrantsOnTheWay' /\ granted \subseteq granted'
<1> SUFFICES ASSUME TypeOK, GrantsOnTheWay, [Next]_vars
             PROVE  GrantsOnTheWay' /\ granted \subseteq granted'
  OBVIOUS
<1>1. CASE ReactorStep
  <2>1. UNCHANGED granted
    BY <1>1 DEF ReactorStep, BatchStep, ReadStep, LoopTop, HandleNotifier, HandleAccept, BatchDone,
                HandleEvent, ReadAgain, ReadClose, ReadEof, ReadAuth, ReadRequests, PushWork, Admit,
                ApplyLocal, HandleHangup, HandleWrite, DrainResponse, DrainRejected, CheckDrain,
                CheckQueue, CheckConnections, CheckDeadline, StopQueues, FinishShutdown, workerVars
  <2> QED BY <1>1, <2>1, GrantsReactorStep
<1>2. CASE EpollWait \/ EpollInterrupted \/ EpollFailed \/ RequestStop \/ NotifyStop \/ DeadlinePasses
           \/ PullConfig \/ UNCHANGED vars
  <2>1. UNCHANGED <<queue, local_responses, todo, granted>>
    BY <1>2 DEF EpollWait, EpollInterrupted, EpollFailed, RequestStop, NotifyStop, DeadlinePasses,
                PullConfig, vars, decodeVars, queueVars, workerVars
  <2> QED BY <2>1, GrantsKept
<1>3. ASSUME NEW w \in Producers, WorkerStep(w)
      PROVE  GrantsOnTheWay' /\ granted \subseteq granted'
  BY <1>3, GrantsWorkerStep
<1> QED BY <1>1, <1>2, <1>3 DEF Next, Terminated

(* A slot changes its client only by applying the answer at the head of one *)
(* of the two sequences, for its own connection.                            *)
LEMMA AuthenticationStep ==
  TypeOK /\ GrantsOnTheWay /\ AuthenticatedOnlyIfGranted /\ [Next]_vars => AuthenticatedOnlyIfGranted'
<1> SUFFICES ASSUME TypeOK, GrantsOnTheWay, AuthenticatedOnlyIfGranted, [Next]_vars,
                    NEW g \in Fds, connections'[g].client # None
             PROVE  <<connections'[g].conn_id, connections'[g].client>> \in granted'
  BY DEF AuthenticatedOnlyIfGranted
<1>1. SlotChange(g) /\ next_conn_id \in Nat /\ granted \subseteq granted'
  BY TypeStep, GrantsStep DEF StepTypes, TableChange, TypeOK, ControlOK
<1>2. connections[g].client # None => <<connections[g].conn_id, connections[g].client>> \in granted
  BY DEF AuthenticatedOnlyIfGranted
<1>3. connections'[g] # NoConnection /\ connections'[g] # NewConnection(next_conn_id)
  BY <1>1, NewConnectionType DEF NoConnection
<1>4. CASE Written(g)
  BY <1>1, <1>2, <1>4 DEF Written
<1>5. ASSUME NEW m, Applied(g, m), Backed(m)
      PROVE  <<connections'[g].conn_id, connections'[g].client>> \in granted'
  BY <1>1, <1>2, <1>5 DEF Applied, Matches, Backed
<1>6. CASE rpc = "local" /\ Applied(g, Head(local_responses))
  <2>1. local_responses \in Seq(Message) /\ local_responses # << >>
    BY <1>6 DEF TypeOK, ReactorOK
  <2>2. Len(local_responses) \in Nat /\ Len(local_responses) # 0 /\ Head(local_responses) = local_responses[1]
    BY <2>1, LenProperties, EmptySeq, HeadTailProperties
  <2>3. Backed(Head(local_responses))
    BY <2>2 DEF GrantsOnTheWay, Backed
  <2> QED BY <1>5, <1>6, <2>3
<1>7. CASE rpc = "responses" /\ queue["response"] # << >> /\ Applied(g, Head(queue["response"]))
  <2>1. queue["response"] \in Seq(Message)
    BY DEF TypeOK, QueueOK, QueueNames
  <2>2. /\ Len(queue["response"]) \in Nat /\ Len(queue["response"]) # 0
        /\ Head(queue["response"]) = queue["response"][1]
    BY <1>7, <2>1, LenProperties, EmptySeq, HeadTailProperties
  <2>3. Backed(Head(queue["response"]))
    BY <2>2 DEF GrantsOnTheWay
  <2> QED BY <1>5, <1>7, <2>3
<1> QED BY <1>1, <1>3, <1>4, <1>6, <1>7 DEF SlotChange

(* However descriptors are reused and answers delayed, a connection is      *)
(* authenticated only as a client the control plane allowed on it.          *)
THEOREM OnlyGrantedClients == Safety => []AuthenticatedOnlyIfGranted
<1>1. Init => GrantsOnTheWay /\ AuthenticatedOnlyIfGranted
  <2>1. NoConnection.client = None
    BY NewConnectionType DEF NoConnection
  <2>2. Init => GrantsOnTheWay
    <3>1. Init => queue["response"] = << >> /\ local_responses = << >> /\ todo = << >>
      BY DEF Init, QueueNames
    <3> QED BY <3>1 DEF GrantsOnTheWay
  <2> QED BY <2>1, <2>2 DEF Init, AuthenticatedOnlyIfGranted
<1>2. TypeOK /\ GrantsOnTheWay /\ AuthenticatedOnlyIfGranted /\ [Next]_vars
        => GrantsOnTheWay' /\ AuthenticatedOnlyIfGranted'
  BY GrantsStep, AuthenticationStep
<1> QED BY <1>1, <1>2, GatewayTypes, PTL DEF Safety

-----------------------------------------------------------------------------
(* No notification is lost.                                                *)

(* Somebody has told the reactor, or is about to.                           *)
Told == eventfd \/ \E w \in Producers : wpc[w] = "notify"

(* The inductive invariant: what arrives after the reactor has looked for   *)
(* it, and before it sleeps, has been announced.                            *)
Checking == {"check", "request", "auth", "response", "complete", "late", "top", "wait"}

Announced ==
  /\ rpc \in {"rejected"} \cup Checking /\ queue["response"] # << >> => Told
  /\ rpc \in Checking /\ rejected # {} => Told
  /\ rpc = "wait" /\ stop_requested /\ state = "RUNNING" => eventfd \/ stopper = "requested"

LEMMA AnnouncedReactorStep ==
  ASSUME TypeOK, Announced, ReactorStep
  PROVE  Announced'
<1>0. /\ "response" \in QueueNames /\ queue \in [QueueNames -> Seq(Message)]
      /\ stop_requested \in BOOLEAN
  BY DEF TypeOK, QueueOK, ControlOK, QueueNames
<1>1. CASE LoopTop
  <2>1. UNCHANGED <<queue, rejected, eventfd, wpc, stop_requested>> /\ rpc = "top"
    BY <1>1 DEF LoopTop, workerVars, stopVars
  <2>2. stop_requested' => state' # "RUNNING"
    BY <1>1, <2>1 DEF LoopTop, BeginDraining
  <2> QED BY <2>1, <2>2 DEF Announced, Told, Checking
<1>2. CASE BatchStep \/ StopQueues \/ FinishShutdown
  <2>1. rpc' \notin {"rejected"} \cup Checking
    BY <1>2 DEF BatchStep, ReadStep, HandleNotifier, HandleAccept, BatchDone, HandleEvent, ReadAgain,
                ReadClose, ReadEof, ReadAuth, ReadRequests, PushWork, Admit, ApplyLocal, HandleHangup,
                HandleWrite, AfterPush, StopQueues, FinishShutdown, Checking
  <2> QED BY <2>1 DEF Announced, Checking
<1>3. CASE DrainResponse
  <2>1. rpc' \in {"responses", "rejected"} /\ (rpc' = "rejected" => queue'["response"] = << >>)
    BY <1>3 DEF DrainResponse
  <2> QED BY <2>1 DEF Announced, Checking
<1>4. CASE DrainRejected
  <2>1. /\ rpc = "rejected" /\ rpc' = "check" /\ rejected' = {}
        /\ UNCHANGED <<queue, eventfd, wpc>>
    BY <1>4 DEF DrainRejected, workerVars
  <2> QED BY <2>1 DEF Announced, Told, Checking
<1>5. CASE CheckDrain \/ (\E q \in QueueNames : CheckQueue(q)) \/ CheckConnections \/ CheckDeadline
  <2>1. rpc \in Checking \ {"wait"} /\ rpc' \in Checking \ {"wait"}
    BY <1>5 DEF CheckDrain, CheckQueue, CheckConnections, CheckDeadline, AfterQueue, QueueNames, Checking
  <2>2. /\ UNCHANGED <<rejected, eventfd, wpc>>
        /\ queue' = queue \/ queue' = [q \in QueueNames |-> << >>]
    BY <1>5 DEF CheckDrain, CheckQueue, CheckConnections, CheckDeadline, queueVars, workerVars
  <2>3. queue'["response"] # << >> => queue["response"] # << >>
    BY <1>0, <2>2
  <2> QED BY <2>1, <2>2, <2>3 DEF Announced, Told
<1> QED BY <1>1, <1>2, <1>3, <1>4, <1>5 DEF ReactorStep

LEMMA AnnouncedWorkerStep ==
  ASSUME TypeOK, Announced, NEW w \in Producers, WorkerStep(w)
  PROVE  Announced'
<1>0. /\ "response" \in QueueNames /\ queue \in [QueueNames -> Seq(Message)]
      /\ wpc \in [Producers -> {"pop", "check", "work", "reject", "notify", "leave",
                                "stopq", "wake", "exited"}]
  BY DEF TypeOK, QueueOK, WorkerOK, QueueNames
<1>1. UNCHANGED <<rpc, state, stop_requested, stopper>>
  BY DEF WorkerStep, WorkerPop, WorkerPopFails, AuthCheck, WorkerRespond, WorkerReject, WorkerNotify,
         WorkerLeave, StopResponses, WakeReactor, stopVars
<1>2. CASE WorkerNotify(w) \/ WakeReactor(w)
  BY <1>2 DEF WorkerNotify, WakeReactor, Announced, Told
<1>3. CASE WorkerReject(w)
  <2>1. wpc'[w] = "notify" /\ UNCHANGED eventfd
    BY <1>0, <1>3 DEF WorkerReject
  <2>2. Told'
    BY <2>1 DEF Told
  <2> QED BY <1>1, <2>1, <2>2 DEF Announced
<1>4. CASE \/ WorkerPop(w) \/ WorkerPopFails(w) \/ AuthCheck(w) \/ WorkerRespond(w)
           \/ WorkerLeave(w) \/ StopResponses(w)
  <2>1. UNCHANGED <<rejected, eventfd>>
    BY <1>4 DEF WorkerPop, WorkerPopFails, AuthCheck, WorkerRespond, WorkerLeave, StopResponses, queueVars
  <2>2. Told => Told'
    <3>1. \A v \in Producers : wpc[v] = "notify" => wpc'[v] = "notify"
      BY <1>0, <1>4 DEF WorkerPop, WorkerPopFails, AuthCheck, WorkerRespond, WorkerLeave, StopResponses
    <3> QED BY <2>1, <3>1 DEF Told
  <2>3. queue'["response"] = queue["response"] \/ Told'
    <3>1. CASE WorkerRespond(w)
      BY <1>0, <3>1 DEF WorkerRespond, Told
    <3>2. CASE ~WorkerRespond(w)
      BY <1>0, <1>4, <3>2 DEF WorkerPop, WorkerPopFails, AuthCheck, WorkerLeave, StopResponses, SourceOf, queueVars
    <3> QED BY <3>1, <3>2
  <2> QED BY <1>1, <2>1, <2>2, <2>3 DEF Announced
<1> QED BY <1>2, <1>3, <1>4 DEF WorkerStep

LEMMA AnnouncedStep == TypeOK /\ Announced /\ [Next]_vars => Announced'
<1> SUFFICES ASSUME TypeOK, Announced, [Next]_vars
             PROVE  Announced'
  OBVIOUS
<1>1. CASE ReactorStep
  BY <1>1, AnnouncedReactorStep
<1>2. ASSUME NEW w \in Producers, WorkerStep(w) PROVE Announced'
  BY <1>2, AnnouncedWorkerStep
<1>3. CASE EpollWait
  BY <1>3 DEF EpollWait, Announced, Checking
<1>4. CASE EpollInterrupted \/ EpollFailed
  <2>1. rpc = "wait" /\ rpc' = "top" /\ UNCHANGED <<queue, rejected, eventfd, wpc>>
    BY <1>4 DEF EpollInterrupted, EpollFailed, queueVars, workerVars
  <2> QED BY <2>1 DEF Announced, Told, Checking
<1>5. CASE RequestStop \/ NotifyStop
  <2>1. /\ UNCHANGED <<rpc, queue, rejected, wpc, state>>
        /\ eventfd' \/ (eventfd' = eventfd /\ stopper' = "requested")
    BY <1>5 DEF RequestStop, NotifyStop, queueVars, workerVars
  <2> QED BY <2>1 DEF Announced, Told
<1>6. CASE DeadlinePasses \/ PullConfig \/ UNCHANGED vars
  <2>1. UNCHANGED <<rpc, queue, rejected, wpc, state, eventfd, stopper, stop_requested>>
    BY <1>6 DEF DeadlinePasses, PullConfig, vars, queueVars, workerVars, stopVars
  <2> QED BY <2>1 DEF Announced, Told
<1> QED BY <1>1, <1>2, <1>3, <1>4, <1>5, <1>6 DEF Next, Terminated

(* The reactor never sleeps on a response, a rejected response or a stop    *)
(* request that nobody has told or will tell it of.                         *)
THEOREM NotificationsArrive == Safety => []NoLostNotification
<1>1. Init => Announced
  BY DEF Init, Announced, QueueNames, Checking
<1>2. TypeOK /\ Announced => NoLostNotification
  BY DEF Announced, Told, Checking, NoLostNotification
<1> QED BY <1>1, <1>2, AnnouncedStep, GatewayTypes, PTL DEF Safety
=============================================================================

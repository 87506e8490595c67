-------------------------- MODULE GatewayStepProofs --------------------------
(***************************************************************************)
(* What a step of Gateway can do, for every number of descriptors, clients, *)
(* workers and queue slots.  The table of connections changes only through *)
(* a few operators; what each of them can do is stated once, in the lemmas *)
(* of the first part.  The types follow from them, and so do the           *)
(* invariants proved in GatewayProofs.                                     *)
(***************************************************************************)
EXTENDS Gateway, FiniteSetTheorems, SequenceTheorems, TLAPS

-----------------------------------------------------------------------------
(* What the operations on the table do.                                    *)

(* A table of well-typed connections, none with too much output.           *)
Tables == {conns \in [Fds -> Connection] : \A fd \in Fds : WithinOutputLimit(conns[fd].output)}

(* The slot of a descriptor that is not in use is well typed.              *)
LEMMA NewConnectionType ==
  ASSUME NEW id \in Nat
  PROVE  /\ NewConnection(id) \in Connection
         /\ NewConnection(id).conn_id = id /\ NewConnection(id).client = None
         /\ NewConnection(id).output = << >> /\ WithinOutputLimit(NewConnection(id).output)
<1>1. << >> \in Seq(Message) /\ Len(<< >>) = 0
  BY EmptySeq
<1>2. WithinOutputLimit(<< >>)
  <2>1. PICK limit \in OutputLimits : limit \in Nat
    BY BoundAssumption
  <2>2. Len(<< >>) <= limit
    BY <1>1, <2>1
  <2> QED BY <2>1, <2>2, Zenon DEF WithinOutputLimit
<1> QED BY <1>1, <1>2 DEF NewConnection, Connection

(* closeConnection empties the slots it closes and leaves the others alone; *)
(* it never adds a rate window.                                             *)
LEMMA CloseEffect ==
  ASSUME TableOK, NEW conns \in [Fds -> Connection],
         NEW wins \in SUBSET Clients, NEW S \in SUBSET Fds,
         \A fd \in Fds \ S : WithinOutputLimit(conns[fd].output),
         CloseConnections(conns, wins, S)
  PROVE  /\ TableOK'
         /\ \A fd \in Fds : connections'[fd] = IF fd \in S THEN NoConnection ELSE conns[fd]
<1>1. NoConnection \in Connection /\ WithinOutputLimit(NoConnection.output)
  BY NewConnectionType DEF NoConnection
<1>2. connections' = [fd \in Fds |-> IF fd \in S THEN NoConnection ELSE conns[fd]]
  BY DEF CloseConnections
<1>3. connections' \in [Fds -> Connection]
  BY <1>1, <1>2
<1>4. \A fd \in Fds : WithinOutputLimit(connections'[fd].output)
  BY <1>1, <1>2
<1>5. windows' \subseteq Clients
  BY DEF CloseConnections
<1>6. \A fd \in Fds : conns[fd].conn_id \in Nat
  BY DEF Connection
<1>7. cancelled' \subseteq Nat
  BY <1>6 DEF CloseConnections, TableOK
<1> QED BY <1>2, <1>3, <1>4, <1>5, <1>7 DEF TableOK

(* Applying a change to one connection closes it or keeps the change, and   *)
(* touches no other.                                                        *)
LEMMA UpdateEffect ==
  ASSUME TableOK, NEW conns \in Tables, NEW fd \in Fds, NEW check \in BOOLEAN,
         drained \subseteq Nat, UpdateConnection(conns, fd, check)
  PROVE  /\ TableOK' /\ drained' \subseteq Nat
         /\ \A g \in Fds : connections'[g] = conns[g] \/ connections'[g] = NoConnection
<1>0. windows \in SUBSET Clients /\ {fd} \in SUBSET Fds
  BY DEF TableOK
<1>1. CASE check /\ CanCloseAfterDrain(conns[fd])
  <2>1. CloseConnections(conns, windows, {fd}) /\ drained' = drained \cup {conns[fd].conn_id}
    BY <1>1 DEF UpdateConnection
  <2>2. conns[fd].conn_id \in Nat
    BY DEF Tables, Connection
  <2> QED BY <1>0, <2>1, <2>2, CloseEffect DEF Tables
<1>2. CASE ~(check /\ CanCloseAfterDrain(conns[fd]))
  <2>1. PICK failed \in Failing({fd}) : CloseConnections(conns, windows, failed)
    BY <1>2 DEF UpdateConnection
  <2>2. failed \in SUBSET Fds
    BY <2>1 DEF Failing
  <2>3. drained' = drained
    BY <1>2 DEF UpdateConnection
  <2> QED BY <1>0, <2>1, <2>2, <2>3, CloseEffect DEF Tables
<1> QED BY <1>1, <1>2

(* Changing one slot of the table.                                          *)
LEMMA SlotUpdate ==
  ASSUME NEW conns \in [Fds -> Connection], NEW fd \in Fds, NEW c \in Connection,
         NEW after, after = [conns EXCEPT ![fd] = c]
  PROVE  after \in [Fds -> Connection] /\ \A g \in Fds : after[g] = IF g = fd THEN c ELSE conns[g]
OBVIOUS

(* markReadEof closes the connection or marks it; it keeps who it is and    *)
(* what it still has to send.                                               *)
LEMMA EofEffect ==
  ASSUME TableOK, NEW fd \in Fds, drained \subseteq Nat, MarkReadEof(fd)
  PROVE  /\ TableOK' /\ drained' \subseteq Nat
         /\ \A g \in Fds : \/ connections'[g] = NoConnection
                           \/ /\ connections'[g].conn_id = connections[g].conn_id
                              /\ connections'[g].client = connections[g].client
                              /\ connections'[g].output = connections[g].output
<1> DEFINE after == [connections EXCEPT ![fd].read_eof = TRUE]
<1>1. CASE UNCHANGED <<tableVars, drained>>
  BY <1>1 DEF tableVars, TableOK
<1>2. CASE UpdateConnection(after, fd, TRUE)
  <2> DEFINE c == [connections[fd] EXCEPT !.read_eof = TRUE]
  <2>0. /\ connections \in [Fds -> Connection] /\ connections[fd] \in Connection
        /\ \A g \in Fds : WithinOutputLimit(connections[g].output)
    BY DEF TableOK
  <2>a. /\ c \in Connection /\ c.conn_id = connections[fd].conn_id
        /\ c.client = connections[fd].client /\ c.output = connections[fd].output
    BY <2>0 DEF Connection
  <2>b. after = [connections EXCEPT ![fd] = c]
    OBVIOUS
  <2> HIDE DEF c
  <2>c. after \in [Fds -> Connection] /\ \A g \in Fds : after[g] = IF g = fd THEN c ELSE connections[g]
    <3> HIDE DEF after
    <3> QED BY <2>0, <2>a, <2>b, SlotUpdate
  <2>1. after \in Tables
    <3> HIDE DEF after
    <3> QED BY <2>0, <2>a, <2>c DEF Tables
  <2>2. \A g \in Fds : /\ after[g].conn_id = connections[g].conn_id
                       /\ after[g].client = connections[g].client
                       /\ after[g].output = connections[g].output
    <3> HIDE DEF after
    <3> QED BY <2>a, <2>c
  <2> HIDE DEF after
  <2> QED BY <1>2, <2>1, <2>2, UpdateEffect
<1> QED BY <1>1, <1>2 DEF MarkReadEof

(* Answers are messages for the connection of the request.                 *)
LEMMA AnswerType ==
  ASSUME NEW m \in Message
  PROVE  \A a \in {ResponseTo(m), AuthAllowed(m), AuthRefused(m), OverloadResponse(m)} :
           a \in Message /\ a.conn_id = m.conn_id /\ a.fd = m.fd /\ a.client \in {m.client, None}
<1> DEFINE Answers(a) == a \in Message /\ a.conn_id = m.conn_id /\ a.fd = m.fd
                         /\ a.client \in {m.client, None}
<1>1. Answers(ResponseTo(m))
  BY DEF ResponseTo, Message
<1>2. Answers(AuthAllowed(m))
  BY DEF AuthAllowed, Message
<1>3. Answers(AuthRefused(m))
  BY DEF AuthRefused, Message
<1>4. OverloadResponse(m) \in {ResponseTo(m), AuthRefused(m)}
  BY DEF OverloadResponse
<1>5. Answers(OverloadResponse(m))
  BY <1>1, <1>3, <1>4
<1> HIDE DEF Answers
<1>6. \A a \in {ResponseTo(m), AuthAllowed(m), AuthRefused(m), OverloadResponse(m)} : Answers(a)
  BY <1>1, <1>2, <1>3, <1>5, Zenon
<1> QED BY <1>6 DEF Answers

(* applyResponse changes at most the connection the message is for, and     *)
(* only when it is still the same connection: it closes it, or appends an   *)
(* answer of that connection to its output and, for an allowed AUTH, sets   *)
(* its client.                                                              *)
Applied(g, m) ==
  /\ g = m.fd /\ Matches(m)
  /\ connections'[g].conn_id = connections[g].conn_id
  /\ connections'[g].client \in {connections[g].client} \cup ({m.client} \ {None})
  /\ \E a \in Message : a.conn_id = m.conn_id /\ connections'[g].output = Append(connections[g].output, a)

(* What applyResponse does to the table.                                    *)
LEMMA ApplyEffect ==
  ASSUME TableOK, drained \subseteq Nat, runtime_config \in RuntimeConfig,
         NEW m \in Message, NEW b \in BOOLEAN, ApplyResponse(m, b)
  PROVE  /\ TableOK' /\ drained' \subseteq Nat
         /\ \A g \in Fds : \/ connections'[g] = connections[g]
                           \/ connections'[g] = NoConnection
                           \/ Applied(g, m)
<1> DEFINE c == connections[m.fd]
           full == /\ m.client # None
                   /\ CountAuthenticated(m.client, m.fd) >= runtime_config.max_connections_per_client
           limit == runtime_config.slow_client_output_limit
           answer == IF full THEN AuthRefused(m) ELSE m
           left == FinishWork(c.in_flight_work, b)
           pending == c.auth_pending /\ m.type # "AUTH_RESP" /\ ~m.close
           client == IF answer.client # None THEN answer.client ELSE c.client
           closing == c.closing \/ answer.close
           output == Append(c.output, answer)
           upd == [c EXCEPT !.in_flight_work = left, !.auth_pending = pending,
                            !.client = client, !.closing = closing, !.output = output]
           done == [connections EXCEPT ![m.fd] = upd]
<1>1. m.fd \in Fds /\ m.client \in Clients \cup {None} /\ m.close \in BOOLEAN
  BY DEF Message
<1>2. c \in Connection /\ c.output \in Seq(Message)
  BY <1>1 DEF TableOK, Connection
<1>3. answer \in Message /\ answer.conn_id = m.conn_id /\ answer.client \in {m.client, None}
  BY AnswerType
<1> HIDE DEF answer
<1>4. output \in Seq(Message) /\ Len(output) = Len(c.output) + 1
  BY <1>2, <1>3, AppendProperties
<1>5. left \in Nat
  BY <1>2 DEF FinishWork, Connection
<1>6. /\ upd \in Connection
      /\ upd.conn_id = c.conn_id /\ upd.output = output
      /\ upd.client \in {c.client} \cup ({m.client} \ {None})
  <2>1. answer.client \in Clients \cup {None} /\ c.client \in Clients \cup {None}
    BY <1>2, <1>3 DEF Message, Connection
  <2>2. client \in Clients \cup {None} /\ client \in {c.client} \cup ({m.client} \ {None})
    BY <1>3, <2>1
  <2>3. pending \in BOOLEAN /\ closing \in BOOLEAN
    OBVIOUS
  <2> HIDE DEF c, left, pending, client, closing, output
  <2> DEFINE u1 == [c EXCEPT !.in_flight_work = left]
             u2 == [u1 EXCEPT !.auth_pending = pending]
             u3 == [u2 EXCEPT !.client = client]
             u4 == [u3 EXCEPT !.closing = closing]
             u5 == [u4 EXCEPT !.output = output]
  <2>4. u1 \in Connection /\ u1.conn_id = c.conn_id
    BY <1>2, <1>5 DEF Connection
  <2> HIDE DEF u1
  <2>5. u2 \in Connection /\ u2.conn_id = c.conn_id
    BY <2>3, <2>4 DEF Connection
  <2> HIDE DEF u2
  <2>6. u3 \in Connection /\ u3.conn_id = c.conn_id /\ u3.client = client
    BY <2>2, <2>5 DEF Connection
  <2> HIDE DEF u3
  <2>7. u4 \in Connection /\ u4.conn_id = c.conn_id /\ u4.client = client
    BY <2>3, <2>6 DEF Connection
  <2> HIDE DEF u4
  <2>8. /\ u5 \in Connection /\ u5.conn_id = c.conn_id /\ u5.client = client
        /\ u5.output = output
    BY <1>4, <2>7 DEF Connection
  <2>9. upd = u5
    BY DEF u1, u2, u3, u4
  <2> HIDE DEF upd, u5
  <2> QED BY <2>2, <2>8, <2>9
<1> HIDE DEF upd
<1>7. /\ done \in [Fds -> Connection]
      /\ \A g \in Fds : done[g] = IF g = m.fd THEN upd ELSE connections[g]
  BY <1>1, <1>6 DEF TableOK
<1>8. CASE ~Matches(m)
  BY <1>8 DEF ApplyResponse, tableVars, TableOK
<1>9. CASE Matches(m) /\ Len(c.output) + 1 > limit
  <2> DEFINE S == {m.fd}
  <2>1. CloseConnections(done, windows, S) /\ drained' = drained
    BY <1>9 DEF ApplyResponse, upd, answer
  <2>2. S \in SUBSET Fds
    BY <1>1
  <2>3. \A g \in Fds : g \notin S => done[g] = connections[g]
    BY <1>7
  <2> HIDE DEF done, S
  <2>4. windows \in SUBSET Clients /\ \A g \in Fds \ S : WithinOutputLimit(done[g].output)
    BY <2>3 DEF TableOK
  <2>5. /\ TableOK'
        /\ \A g \in Fds : connections'[g] = IF g \in S THEN NoConnection ELSE done[g]
    BY <1>7, <2>1, <2>2, <2>4, CloseEffect
  <2> QED BY <2>1, <2>3, <2>5
<1>10. CASE Matches(m) /\ ~(Len(c.output) + 1 > limit)
  <2>1. UpdateConnection(done, m.fd, FALSE)
    BY <1>10 DEF ApplyResponse, upd, answer
  <2>2. WithinOutputLimit(output)
    <3>1. limit \in OutputLimits /\ limit \in Nat
      BY BoundAssumption DEF RuntimeConfig
    <3> HIDE DEF limit, output
    <3>2. Len(output) <= limit
      BY <1>2, <1>4, <1>10, <3>1, LenProperties
    <3> QED BY <3>1, <3>2 DEF WithinOutputLimit
  <2>3. done \in Tables
    BY <1>6, <1>7, <2>2 DEF TableOK, Tables
  <2>4. Applied(m.fd, m) \/ connections'[m.fd] # upd
    BY <1>1, <1>3, <1>6, <1>10 DEF Applied
  <2> HIDE DEF done
  <2> QED BY <1>1, <1>7, <2>1, <2>3, <2>4, UpdateEffect
<1> QED BY <1>8, <1>9, <1>10

(* handleWrite removes a prefix of the output, or closes the connection.    *)
Written(g) ==
  /\ connections'[g].conn_id = connections[g].conn_id
  /\ connections'[g].client = connections[g].client
  /\ connections'[g].output \in Seq(Message)
  /\ \A i \in 1..Len(connections'[g].output) :
       \E j \in 1..Len(connections[g].output) :
         connections'[g].output[i] = connections[g].output[j]

(* What handleWrite does to the table.                                      *)
LEMMA WriteEffect ==
  ASSUME TypeOK, HandleWrite
  PROVE  /\ TableOK' /\ drained' \subseteq Nat
         /\ \A g \in Fds :
              \/ connections'[g] = connections[g]
              \/ connections'[g] = NoConnection
              \/ Written(g)
<1> USE DEF TypeOK
<1>0. cur \in Fds /\ drained \subseteq Nat /\ windows \in SUBSET Clients
  BY DEF HandleWrite, ReactorOK, ControlOK, TableOK
<1>1. CASE UNCHANGED <<tableVars, drained>>
  BY <1>0, <1>1 DEF tableVars, TableOK
<1>2. ASSUME NEW sent \in 1..Len(connections[cur].output),
             LET rest == SubSeq(connections[cur].output, sent + 1, Len(connections[cur].output))
                 after == [connections EXCEPT ![cur].output = rest]
             IN  IF rest = << >>
                 THEN UpdateConnection(after, cur, TRUE)
                 ELSE connections' = after /\ UNCHANGED <<windows, cancelled, drained>>
      PROVE  /\ TableOK' /\ drained' \subseteq Nat
             /\ \A g \in Fds :
                  \/ connections'[g] = connections[g]
                  \/ connections'[g] = NoConnection
                  \/ Written(g)
  <2> DEFINE out == connections[cur].output
             rest == SubSeq(out, sent + 1, Len(out))
             after == [connections EXCEPT ![cur].output = rest]
  <2>1. out \in Seq(Message) /\ Len(out) \in Nat /\ WithinOutputLimit(out)
    BY <1>0, LenProperties DEF TableOK, Connection
  <2>2. /\ rest \in Seq(Message) /\ Len(rest) <= Len(out) /\ Len(rest) \in Nat
        /\ \A i \in 1..Len(rest) : rest[i] = out[sent + i] /\ sent + i \in 1..Len(out)
    <3>1. \A i \in (sent + 1)..Len(out) : out[i] \in Message
      BY <1>2, <2>1, ElementOfSeq
    <3>2. sent \in Nat /\ sent <= Len(out)
      BY <1>2, <2>1
    <3> HIDE DEF out
    <3>3. /\ rest \in Seq(Message)
          /\ Len(rest) = IF sent + 1 <= Len(out) THEN Len(out) - (sent + 1) + 1 ELSE 0
          /\ \A i \in 1..(Len(out) - (sent + 1) + 1) : rest[i] = out[sent + 1 + i - 1]
      BY <3>1, <3>2, <2>1, SubSeqProperties
    <3> HIDE DEF rest
    <3>4. Len(rest) = Len(out) - sent
      BY <2>1, <3>2, <3>3
    <3> QED BY <2>1, <3>2, <3>3, <3>4
  <2>3. IF rest = << >>
        THEN UpdateConnection(after, cur, TRUE)
        ELSE connections' = after /\ UNCHANGED <<windows, cancelled, drained>>
    BY <1>2
  <2> HIDE DEF rest
  <2>4. /\ \A g \in Fds : /\ after[g].conn_id = connections[g].conn_id
                          /\ after[g].client = connections[g].client
                          /\ after[g].output = IF g = cur THEN rest ELSE connections[g].output
        /\ after \in [Fds -> Connection]
    <3> DEFINE c == [connections[cur] EXCEPT !.output = rest]
    <3>1. connections \in [Fds -> Connection] /\ connections[cur] \in Connection
      BY <1>0 DEF TableOK
    <3>2. /\ c \in Connection /\ c.conn_id = connections[cur].conn_id
          /\ c.client = connections[cur].client /\ c.output = rest
      BY <2>2, <3>1 DEF Connection
    <3>3. after = [connections EXCEPT ![cur] = c]
      OBVIOUS
    <3> HIDE DEF c, after
    <3>4. after \in [Fds -> Connection] /\ \A g \in Fds : after[g] = IF g = cur THEN c ELSE connections[g]
      BY <1>0, <3>1, <3>2, <3>3, SlotUpdate
    <3> QED BY <3>2, <3>4
  <2>5. after \in Tables
    <3> HIDE DEF after, out
    <3>1. \A g \in Fds : WithinOutputLimit(connections[g].output)
      BY DEF TableOK
    <3>2. WithinOutputLimit(rest)
      BY <2>1, <2>2, BoundAssumption DEF WithinOutputLimit
    <3> QED BY <2>4, <3>1, <3>2 DEF Tables
  <2>6. \A g \in Fds \ {cur} : after[g] = connections[g]
    BY DEF TableOK
  <2> HIDE DEF after
  <2>7. TableOK' /\ drained' \subseteq Nat
        /\ \A g \in Fds : connections'[g] = after[g] \/ connections'[g] = NoConnection
    <3>1. CASE rest = << >>
      BY <1>0, <2>3, <2>5, <3>1, UpdateEffect
    <3>2. CASE rest # << >>
      BY <1>0, <2>3, <2>5, <3>2 DEF TableOK, Tables
    <3> QED BY <3>1, <3>2
  <2>8. connections'[cur] # after[cur]
        \/ /\ connections'[cur].conn_id = connections[cur].conn_id
           /\ connections'[cur].client = connections[cur].client
           /\ connections'[cur].output = rest
    BY <1>0, <2>4
  <2>9. \A i \in 1..Len(rest) : \E j \in 1..Len(out) : rest[i] = out[j]
    BY <2>2
  <2> HIDE DEF out
  <2>10. ASSUME NEW g \in Fds
         PROVE  \/ connections'[g] = connections[g]
                \/ connections'[g] = NoConnection
                \/ g = cur /\ connections'[cur] = after[cur]
    BY <2>6, <2>7
  <2>11. connections'[cur] = after[cur] => Written(cur)
    BY <2>2, <2>8, <2>9 DEF out, Written
  <2> QED BY <2>7, <2>10, <2>11
<1>3. CASE CloseConnections(connections, windows, {cur}) /\ UNCHANGED drained
  <2>1. {cur} \in SUBSET Fds /\ connections \in [Fds -> Connection]
        /\ \A fd \in Fds \ {cur} : WithinOutputLimit(connections[fd].output)
    BY <1>0 DEF TableOK
  <2>2. /\ TableOK'
        /\ \A g \in Fds : connections'[g] = IF g \in {cur} THEN NoConnection ELSE connections[g]
    BY <1>0, <1>3, <2>1, CloseEffect
  <2> QED BY <1>0, <1>3, <2>2
<1> QED BY <1>1, <1>2, <1>3 DEF HandleWrite

-----------------------------------------------------------------------------
(* Types.                                                                  *)

(* A push that succeeds keeps the queue within its capacity.                *)
LEMMA PushType ==
  ASSUME QueueOK, NEW q \in QueueNames, NEW m \in Message, PushResult(q) = "OK",
         queue' = [queue EXCEPT ![q] = Append(@, m)], UNCHANGED <<stopped, rejected>>
  PROVE  QueueOK'
<1>1. queue[q] \in Seq(Message) /\ Len(queue[q]) \in Nat
  BY LenProperties DEF QueueOK
<1>2. Append(queue[q], m) \in Seq(Message) /\ Len(Append(queue[q], m)) = Len(queue[q]) + 1
  BY <1>1, AppendProperties
<1>3. Capacity(q) \in Nat
  BY BoundAssumption DEF Capacity, QueueNames
<1>4. Len(queue[q]) + 1 <= Capacity(q)
  BY <1>1, <1>3 DEF PushResult
<1>5. queue' \in [QueueNames -> Seq(Message)]
  BY <1>2 DEF QueueOK
<1>6. \A r \in QueueNames : Len(queue'[r]) <= Capacity(r)
  BY <1>2, <1>4 DEF QueueOK
<1> QED BY <1>5, <1>6 DEF QueueOK, Capacity

(* A pop returns a message and leaves the rest of the queue.                *)
LEMMA PopType ==
  ASSUME QueueOK, NEW q \in QueueNames, queue[q] # << >>,
         queue' = [queue EXCEPT ![q] = Tail(@)], UNCHANGED <<stopped, rejected>>
  PROVE  QueueOK' /\ Head(queue[q]) \in Message
<1>1. queue[q] \in Seq(Message) /\ Len(queue[q]) \in Nat
  BY LenProperties DEF QueueOK
<1>2. /\ Tail(queue[q]) \in Seq(Message) /\ Len(Tail(queue[q])) = Len(queue[q]) - 1
      /\ Head(queue[q]) \in Message
  BY <1>1, HeadTailProperties
<1>3. Capacity(q) \in Nat
  BY BoundAssumption DEF Capacity, QueueNames
<1>5. queue' \in [QueueNames -> Seq(Message)]
  BY <1>2 DEF QueueOK
<1>6. \A r \in QueueNames : Len(queue'[r]) <= Capacity(r)
  BY <1>1, <1>2, <1>3 DEF QueueOK
<1> QED BY <1>2, <1>5, <1>6 DEF QueueOK, Capacity

(* beginDraining keeps the types.                                           *)
LEMMA DrainingType ==
  ASSUME TypeOK, BeginDraining, UNCHANGED <<queue, rejected>>
  PROVE  /\ TableOK' /\ QueueOK' /\ state' \in {"RUNNING", "DRAINING", "STOPPED"}
         /\ \A g \in Fds : connections'[g] = connections[g] \/ connections'[g] = NoConnection
<1>1. CASE state = "RUNNING"
  <2>1. PICK failed \in Failing(Live) : CloseConnections(connections, windows, failed)
    BY <1>1 DEF BeginDraining
  <2>2. /\ failed \in SUBSET Fds /\ connections \in [Fds -> Connection]
        /\ windows \in SUBSET Clients
        /\ \A fd \in Fds \ failed : WithinOutputLimit(connections[fd].output)
    BY <2>1 DEF Failing, Live, TypeOK, TableOK
  <2>3. /\ TableOK'
        /\ \A g \in Fds : connections'[g] = IF g \in failed THEN NoConnection ELSE connections[g]
    BY <2>1, <2>2, CloseEffect DEF TypeOK
  <2>4. state' = "DRAINING" /\ stopped' = [stopped EXCEPT !["request"] = TRUE, !["auth"] = TRUE]
    BY <1>1 DEF BeginDraining
  <2>5. QueueOK'
    BY <2>4 DEF TypeOK, QueueOK, Capacity, QueueNames
  <2> QED BY <2>3, <2>4, <2>5
<1>2. CASE state # "RUNNING"
  BY <1>2 DEF BeginDraining, tableVars, TypeOK, TableOK, QueueOK, ControlOK, Capacity
<1> QED BY <1>1, <1>2

-----------------------------------------------------------------------------
(* What a step of the system can do to the table.                          *)

(* The slot of a descriptor is emptied, given to a new connection, kept     *)
(* with part of its output sent, or changed by applyResponse.               *)
SlotChange(g) ==
  \/ connections'[g] = NoConnection
  \/ connections'[g] = NewConnection(next_conn_id)
  \/ Written(g)
  \/ rpc = "local" /\ Applied(g, Head(local_responses))
  \/ rpc = "responses" /\ queue["response"] # << >> /\ Applied(g, Head(queue["response"]))

(* A connection that keeps its id, client and output is kept.               *)
LEMMA Keeping ==
  ASSUME TableOK, NEW g \in Fds,
         connections'[g].conn_id = connections[g].conn_id,
         connections'[g].client = connections[g].client,
         connections'[g].output = connections[g].output
  PROVE  SlotChange(g)
<1>1. connections[g].output \in Seq(Message)
  BY DEF TableOK, Connection
<1> QED BY <1>1 DEF SlotChange, Written

(* The table keeps its type and every slot changes in one of these ways.    *)
TableChange == TableOK' /\ drained' \subseteq Nat /\ \A g \in Fds : SlotChange(g)

(* A step that does not touch the table.                                    *)
LEMMA TableKept ==
  ASSUME TypeOK, UNCHANGED <<tableVars, drained>>
  PROVE  TableChange
<1>1. TableOK' /\ drained' \subseteq Nat
  BY DEF TypeOK, TableOK, ControlOK, tableVars
<1>2. connections' = connections
  BY DEF tableVars
<1>3. \A g \in Fds : SlotChange(g)
  BY <1>2, Keeping DEF TypeOK
<1> QED BY <1>1, <1>3 DEF TableChange

(* A step that closes connections.                                          *)
LEMMA TableClosed ==
  ASSUME TypeOK, NEW wins \in SUBSET Clients, NEW S \in SUBSET Fds,
         CloseConnections(connections, wins, S), drained' \subseteq Nat
  PROVE  TableChange
<1>1. connections \in [Fds -> Connection] /\ TableOK
      /\ \A fd \in Fds \ S : WithinOutputLimit(connections[fd].output)
  BY DEF TypeOK, TableOK
<1>2. /\ TableOK'
      /\ \A g \in Fds : connections'[g] = IF g \in S THEN NoConnection ELSE connections[g]
  BY <1>1, CloseEffect
<1>3. ASSUME NEW g \in Fds PROVE SlotChange(g)
  <2>1. CASE g \in S
    BY <1>2, <2>1 DEF SlotChange
  <2>2. CASE g \notin S
    BY <1>1, <1>2, <2>2, Keeping
  <2> QED BY <2>1, <2>2
<1> QED BY <1>2, <1>3 DEF TableChange

(* An event of the loop that only starts the drain.                         *)
LEMMA TableDraining ==
  ASSUME TypeOK, BeginDraining, UNCHANGED <<queue, rejected, drained>>
  PROVE  TableChange
<1>1. /\ TableOK'
      /\ \A g \in Fds : connections'[g] = connections[g] \/ connections'[g] = NoConnection
  BY DrainingType
<1>2. drained' \subseteq Nat /\ TableOK
  BY DEF TypeOK, ControlOK
<1>3. ASSUME NEW g \in Fds PROVE SlotChange(g)
  <2>1. CASE connections'[g] = NoConnection
    BY <2>1 DEF SlotChange
  <2>2. CASE connections'[g] = connections[g]
    BY <1>2, <2>2, Keeping
  <2> QED BY <1>1, <2>1, <2>2
<1> QED BY <1>1, <1>2, <1>3 DEF TableChange

(* A step that applies markReadEof.                                         *)
LEMMA TableEof ==
  ASSUME TypeOK, NEW fd \in Fds, MarkReadEof(fd)
  PROVE  TableChange
<1>0. TableOK /\ drained \subseteq Nat
  BY DEF TypeOK, ControlOK
<1>1. /\ TableOK' /\ drained' \subseteq Nat
      /\ \A g \in Fds : \/ connections'[g] = NoConnection
                        \/ /\ connections'[g].conn_id = connections[g].conn_id
                           /\ connections'[g].client = connections[g].client
                           /\ connections'[g].output = connections[g].output
  BY <1>0, EofEffect
<1>2. ASSUME NEW g \in Fds PROVE SlotChange(g)
  <2>1. CASE connections'[g] = NoConnection
    BY <2>1 DEF SlotChange
  <2>2. CASE connections'[g] # NoConnection
    BY <1>0, <1>1, <2>2, Keeping
  <2> QED BY <2>1, <2>2
<1> QED BY <1>1, <1>2 DEF TableChange

(* A step that applies a response.                                          *)
LEMMA TableApplied ==
  ASSUME TypeOK, NEW m \in Message, NEW b \in BOOLEAN, ApplyResponse(m, b),
         \/ rpc = "local" /\ m = Head(local_responses)
         \/ rpc = "responses" /\ queue["response"] # << >> /\ m = Head(queue["response"])
  PROVE  TableChange
<1>0. TableOK /\ drained \subseteq Nat /\ runtime_config \in RuntimeConfig
  BY DEF TypeOK, ControlOK
<1>1. /\ TableOK' /\ drained' \subseteq Nat
      /\ \A g \in Fds : \/ connections'[g] = connections[g]
                        \/ connections'[g] = NoConnection
                        \/ Applied(g, m)
  BY <1>0, ApplyEffect
<1>2. ASSUME NEW g \in Fds PROVE SlotChange(g)
  <2>1. CASE connections'[g] = NoConnection \/ Applied(g, m)
    BY <2>1 DEF SlotChange
  <2>2. CASE connections'[g] = connections[g]
    BY <1>0, <2>2, Keeping
  <2> QED BY <1>1, <2>1, <2>2
<1> QED BY <1>1, <1>2 DEF TableChange

-----------------------------------------------------------------------------
(* The parts of the type invariant that a step leaves alone.               *)
LEMMA QueueKept == QueueOK /\ UNCHANGED queueVars => QueueOK'
BY DEF QueueOK, queueVars, Capacity

(* No worker moves.                                                        *)
LEMMA WorkerKept == WorkerOK /\ UNCHANGED workerVars => WorkerOK'
BY DEF WorkerOK, workerVars

(* Neither the phase of the server nor the events at hand change.          *)
LEMMA ControlKept ==
  ControlOK /\ drained' \subseteq Nat
    /\ UNCHANGED <<state, next_conn_id, pollVars, stopVars, runtime_config, eventfd>>
    => ControlOK'
BY DEF ControlOK, pollVars, stopVars

(* The reactor moves to a place where it has nothing in hand, or stays on   *)
(* the connection it is handling.                                           *)
LEMMA ReactorMoves ==
  ASSUME ReactorOK, UNCHANGED <<decodeVars, cur>>,
         \/ rpc' = rpc
         \/ rpc' \in {"top", "wait", "batch", "responses", "rejected", "check", "request", "auth",
                      "response", "complete", "late", "finish", "join", "done"}
         \/ rpc' \in {"read", "hup", "write"} /\ cur \in Fds
  PROVE  ReactorOK'
BY DEF ReactorOK, decodeVars

(* What a step of the system establishes.                                   *)
StepTypes == TableChange /\ ControlOK' /\ ReactorOK' /\ QueueOK' /\ WorkerOK'

(* The outer steps of loop() keep the types.                                *)
LEMMA LoopTypes ==
  ASSUME TypeOK,
         \/ LoopTop \/ EpollWait \/ EpollInterrupted \/ EpollFailed \/ HandleNotifier
         \/ HandleAccept \/ BatchDone \/ (\E e \in batch : HandleEvent(e))
  PROVE  StepTypes
<1>0. TableOK /\ ControlOK /\ ReactorOK /\ QueueOK /\ WorkerOK /\ drained \subseteq Nat
  BY DEF TypeOK, ControlOK
<1>1. CASE LoopTop
  <2>1. TableChange /\ QueueOK' /\ state' \in {"RUNNING", "DRAINING", "STOPPED"}
    <3>1. CASE stop_requested
      BY <1>1, <3>1, TableDraining, DrainingType DEF LoopTop
    <3>2. CASE ~stop_requested
      <4>1. UNCHANGED <<tableVars, drained>> /\ UNCHANGED queueVars /\ UNCHANGED state
        BY <1>1, <3>2 DEF LoopTop, queueVars
      <4> QED BY <1>0, <4>1, TableKept, QueueKept DEF ControlOK
    <3> QED BY <3>1, <3>2
  <2>2. ReactorOK'
    BY <1>0, <1>1, ReactorMoves DEF LoopTop
  <2>3. ControlOK' /\ WorkerOK'
    BY <1>0, <1>1, <2>1, WorkerKept DEF LoopTop, ControlOK, pollVars, stopVars
  <2> QED BY <2>1, <2>2, <2>3 DEF StepTypes
<1>2. CASE EpollWait
  <2>1. batch' \subseteq Key
    <3>1. PICK ready \in SUBSET Live : batch' = {[fd |-> fd, conn_id |-> connections[fd].conn_id] : fd \in ready}
      BY <1>2 DEF EpollWait
    <3>2. \A fd \in ready : fd \in Fds /\ connections[fd].conn_id \in Nat
      BY <1>0 DEF Live, TableOK, Connection
    <3>3. \A fd \in ready : [fd |-> fd, conn_id |-> connections[fd].conn_id] \in Key
      BY <3>2 DEF Key
    <3> QED BY <3>1, <3>3, Zenon
  <2>2. ControlOK'
    BY <1>0, <1>2, <2>1 DEF EpollWait, ControlOK, stopVars
  <2>3. TableChange
    BY <1>2, TableKept DEF EpollWait
  <2>4. ReactorOK' /\ QueueOK' /\ WorkerOK'
    BY <1>0, <1>2, ReactorMoves, QueueKept, WorkerKept DEF EpollWait
  <2> QED BY <2>2, <2>3, <2>4 DEF StepTypes
<1>3. CASE EpollInterrupted
  BY <1>0, <1>3, TableKept, ControlKept, ReactorMoves, QueueKept, WorkerKept
     DEF EpollInterrupted, StepTypes
<1>4. CASE EpollFailed
  <2>1. TableChange /\ QueueOK' /\ state' \in {"RUNNING", "DRAINING", "STOPPED"}
    BY <1>4, TableDraining, DrainingType DEF EpollFailed
  <2>2. ReactorOK'
    BY <1>0, <1>4, ReactorMoves DEF EpollFailed
  <2>3. ControlOK' /\ WorkerOK'
    BY <1>0, <1>4, <2>1, WorkerKept DEF EpollFailed, ControlOK, pollVars, stopVars
  <2> QED BY <2>1, <2>2, <2>3 DEF StepTypes
<1>5. CASE HandleNotifier
  <2>1. ControlOK'
    BY <1>0, <1>5 DEF HandleNotifier, ControlOK, stopVars
  <2>2. TableChange
    BY <1>5, TableKept DEF HandleNotifier
  <2> QED BY <1>0, <1>5, <2>1, <2>2, ReactorMoves, QueueKept, WorkerKept DEF HandleNotifier, StepTypes
<1>6. CASE HandleAccept
  <2>1. ControlOK'
    <3>1. next_conn_id' \in {next_conn_id, next_conn_id + 1} /\ accepting' \in {accepting, FALSE}
      BY <1>6 DEF HandleAccept
    <3>2. UNCHANGED <<state, drained, batch, notified, stopVars, runtime_config, eventfd>>
      BY <1>6 DEF HandleAccept
    <3>3. next_conn_id' \in Nat \ {0}
      BY <1>0, <3>1 DEF ControlOK
    <3>4. accepting' \in BOOLEAN
      BY <1>0, <3>1, Zenon DEF ControlOK
    <3> QED BY <1>0, <3>2, <3>3, <3>4 DEF ControlOK, stopVars
  <2>2. TableChange
    <3>1. CASE UNCHANGED connections
      BY <1>6, <3>1, TableKept DEF HandleAccept, tableVars
    <3>2. ASSUME NEW fd \in Fds, connections' = [connections EXCEPT ![fd] = NewConnection(next_conn_id)]
          PROVE  TableChange
      <4>1. next_conn_id \in Nat
        BY <1>0 DEF ControlOK
      <4>2. /\ NewConnection(next_conn_id) \in Connection
            /\ WithinOutputLimit(NewConnection(next_conn_id).output)
        BY <4>1, NewConnectionType
      <4>3. /\ connections' \in [Fds -> Connection]
            /\ \A g \in Fds : connections'[g] = IF g = fd THEN NewConnection(next_conn_id) ELSE connections[g]
        BY <1>0, <3>2, <4>2 DEF TableOK
      <4>4. UNCHANGED <<windows, cancelled, drained>>
        BY <1>6 DEF HandleAccept
      <4>5. TableOK'
        BY <1>0, <4>2, <4>3, <4>4 DEF TableOK
      <4>6. ASSUME NEW g \in Fds PROVE SlotChange(g)
        <5>1. CASE g = fd
          BY <4>3, <5>1 DEF SlotChange
        <5>2. CASE g # fd
          BY <1>0, <4>3, <5>2, Keeping
        <5> QED BY <5>1, <5>2
      <4> QED BY <1>0, <4>4, <4>5, <4>6 DEF TableChange
    <3> QED BY <1>6, <3>1, <3>2 DEF HandleAccept
  <2> QED BY <1>0, <1>6, <2>1, <2>2, ReactorMoves, QueueKept, WorkerKept DEF HandleAccept, StepTypes
<1>7. CASE BatchDone
  BY <1>0, <1>7, TableKept, ControlKept, ReactorMoves, QueueKept, WorkerKept
     DEF BatchDone, StepTypes
<1>8. ASSUME NEW e \in batch, HandleEvent(e) PROVE StepTypes
  <2>1. e.fd \in Fds
    BY <1>0 DEF ControlOK, Key
  <2>2. ControlOK'
    BY <1>0, <1>8 DEF HandleEvent, ControlOK, stopVars
  <2>3. ReactorOK'
    BY <1>0, <1>8, <2>1 DEF HandleEvent, ReactorOK, decodeVars
  <2>4. TableChange
    <3>1. CASE UNCHANGED tableVars
      BY <1>8, <3>1, TableKept DEF HandleEvent
    <3>2. CASE CloseConnections(connections, windows, {e.fd})
      <4>1. windows \in SUBSET Clients /\ {e.fd} \in SUBSET Fds /\ drained' \subseteq Nat
        BY <1>0, <1>8, <2>1 DEF HandleEvent, TableOK
      <4> QED BY <3>2, <4>1, TableClosed
    <3> QED BY <1>8, <3>1, <3>2 DEF HandleEvent
  <2> QED BY <1>0, <1>8, <2>2, <2>3, <2>4, QueueKept, WorkerKept DEF HandleEvent, StepTypes
<1> QED BY <1>1, <1>2, <1>3, <1>4, <1>5, <1>6, <1>7, <1>8

(* The steps of handleRead, handleWrite and their callees keep the types.   *)
LEMMA HandlerTypes ==
  ASSUME TypeOK, ReadStep \/ PushWork \/ Admit \/ ApplyLocal \/ HandleHangup \/ HandleWrite
  PROVE  StepTypes
<1>0. TableOK /\ ControlOK /\ ReactorOK /\ QueueOK /\ WorkerOK /\ drained \subseteq Nat
  BY DEF TypeOK, ControlOK
<1>1. CASE ReadAgain
  <2>1. cur \in Fds
    BY <1>0, <1>1 DEF ReadAgain, ReactorOK
  <2> QED BY <1>0, <1>1, <2>1, TableKept, ControlKept, ReactorMoves, QueueKept, WorkerKept
             DEF ReadAgain, StepTypes
<1>2. CASE ReadClose
  <2>1. cur \in Fds /\ {cur} \in SUBSET Fds
    BY <1>0, <1>2 DEF ReadClose, CanRead, ReactorOK
  <2>2. PICK touched \in SUBSET ({connections[cur].client} \ {None}) :
           CloseConnections(connections, windows \cup touched, {cur})
    BY <1>2 DEF ReadClose
  <2>3. windows \cup touched \in SUBSET Clients
    BY <1>0, <2>1, <2>2 DEF TableOK, Connection
  <2>4. drained' \subseteq Nat
    BY <1>0, <1>2 DEF ReadClose
  <2>5. TableChange
    BY <2>1, <2>2, <2>3, <2>4, TableClosed
  <2> QED BY <1>0, <1>2, <2>1, <2>4, <2>5, ControlKept, ReactorMoves, QueueKept, WorkerKept
             DEF ReadClose, StepTypes
<1>3. CASE ReadEof
  <2>1. cur \in Fds /\ MarkReadEof(cur)
    BY <1>0, <1>3 DEF ReadEof, CanRead, ReactorOK
  <2>2. TableChange
    BY <2>1, TableEof
  <2>3. drained' \subseteq Nat
    BY <2>2 DEF TableChange
  <2> QED BY <1>0, <1>3, <2>1, <2>2, <2>3, ControlKept, ReactorMoves, QueueKept, WorkerKept
             DEF ReadEof, StepTypes
<1>4. CASE HandleHangup
  <2>1. cur \in Fds
    BY <1>0, <1>4 DEF HandleHangup, ReactorOK
  <2>2. TableChange
    <3>1. CASE UNCHANGED <<tableVars, drained>>
      BY <3>1, TableKept
    <3>2. CASE MarkReadEof(cur)
      BY <2>1, <3>2, TableEof
    <3> QED BY <1>4, <3>1, <3>2 DEF HandleHangup
  <2>3. drained' \subseteq Nat
    BY <2>2 DEF TableChange
  <2> QED BY <1>0, <1>4, <2>1, <2>2, <2>3, ControlKept, ReactorMoves, QueueKept, WorkerKept
             DEF HandleHangup, StepTypes
<1>5. CASE HandleWrite
  <2>1. TableOK' /\ drained' \subseteq Nat
        /\ \A g \in Fds : connections'[g] = connections[g] \/ connections'[g] = NoConnection \/ Written(g)
    BY <1>5, WriteEffect
  <2>2. ASSUME NEW g \in Fds PROVE SlotChange(g)
    <3>1. CASE connections'[g] = connections[g]
      BY <1>0, <3>1, Keeping
    <3>2. CASE connections'[g] # connections[g]
      BY <2>1, <3>2 DEF SlotChange
    <3> QED BY <3>1, <3>2
  <2>3. TableChange
    BY <2>1, <2>2 DEF TableChange
  <2>4. ReactorOK'
    BY <1>0, <1>5 DEF HandleWrite, ReactorOK, decodeVars
  <2> QED BY <1>0, <1>5, <2>1, <2>3, <2>4, ControlKept, QueueKept, WorkerKept
             DEF HandleWrite, StepTypes
<1>6. ASSUME NEW c \in Clients, ReadAuth(c) PROVE StepTypes
  <2>1. cur \in Fds /\ connections[cur] \in Connection
    BY <1>0, <1>6 DEF ReadAuth, CanRead, ReactorOK, TableOK
  <2>2. AuthTaskOf(cur, c) \in Message
    BY <2>1 DEF AuthTaskOf, Message, Connection
  <2>3. <<AuthTaskOf(cur, c)>> \in Seq(Message) /\ <<AuthTaskOf(cur, c)>> # << >>
    BY <2>2
  <2>4. input_left' \in Nat /\ todo' = <<AuthTaskOf(cur, c)>> /\ rpc' = "push"
        /\ UNCHANGED <<local_responses, cur>>
    BY <1>0, <1>6 DEF ReadAuth, ReactorOK
  <2>5. ReactorOK'
    BY <1>0, <2>1, <2>3, <2>4 DEF ReactorOK
  <2>6. /\ \A g \in Fds : /\ connections'[g].conn_id = connections[g].conn_id
                          /\ connections'[g].client = connections[g].client
                          /\ connections'[g].output = connections[g].output
        /\ connections' \in [Fds -> Connection]
    <3>1. connections' = [connections EXCEPT ![cur].auth_pending = TRUE]
      BY <1>6 DEF ReadAuth
    <3> QED BY <1>0, <2>1, <3>1 DEF TableOK, Connection
  <2>7. UNCHANGED <<windows, cancelled, drained>>
    BY <1>6 DEF ReadAuth
  <2>8. TableOK'
    BY <1>0, <2>6, <2>7 DEF TableOK
  <2>9. TableChange
    BY <1>0, <2>6, <2>7, <2>8, Keeping DEF TableChange
  <2> QED BY <1>0, <1>6, <2>5, <2>7, <2>9, ControlKept, QueueKept, WorkerKept DEF ReadAuth, StepTypes
<1>7. ASSUME NEW admit \in 0..MaxChunk, NEW refuse \in 0..MaxChunk, ReadRequests(admit, refuse)
      PROVE  StepTypes
  <2>1. cur \in Fds /\ connections[cur] \in Connection /\ connections[cur].client \in Clients
    BY <1>0, <1>7 DEF ReadRequests, CanRead, ReactorOK, TableOK, Connection
  <2>2. RequestOf(cur) \in Message
    BY <2>1 DEF RequestOf, Message, Connection
  <2>3. ResponseTo(RequestOf(cur)) \in Message
    BY <2>2, AnswerType
  <2>4. admit \in Nat /\ refuse \in Nat /\ input_left \in Nat
    BY <1>0, BoundAssumption DEF ReactorOK
  <2>5. todo' \in Seq(Message) /\ (admit > 0 => todo' # << >>)
    <3>1. todo' = [i \in 1..admit |-> RequestOf(cur)]
      BY <1>7 DEF ReadRequests
    <3> DEFINE m == RequestOf(cur)
    <3> HIDE DEF m
    <3>2. todo' = [i \in 1..admit |-> m] /\ m \in Message
      BY <2>2, <3>1 DEF m
    <3>3. todo' \in Seq(Message) /\ Len(todo') = admit
      BY <2>4, <3>2
    <3> QED BY <2>4, <3>3, EmptySeq
  <2>6. local_responses' \in Seq(Message) /\ (refuse > 0 => local_responses' # << >>)
    <3>1. local_responses' = [i \in 1..refuse |-> ResponseTo(RequestOf(cur))]
      BY <1>7 DEF ReadRequests
    <3> DEFINE m == ResponseTo(RequestOf(cur))
    <3> HIDE DEF m
    <3>2. local_responses' = [i \in 1..refuse |-> m] /\ m \in Message
      BY <2>3, <3>1 DEF m
    <3>3. local_responses' \in Seq(Message) /\ Len(local_responses') = refuse
      BY <2>4, <3>2
    <3> QED BY <2>4, <3>3, EmptySeq
  <2>7. /\ input_left' = input_left - (admit + refuse) /\ input_left >= admit + refuse
        /\ admit + refuse >= 1 /\ rpc' = IF admit > 0 THEN "push" ELSE "local"
        /\ UNCHANGED cur
    <3>1. /\ input_left' = input_left - (admit + refuse) /\ input_left >= admit + refuse
          /\ admit + refuse \in 1..MaxChunk
          /\ rpc' = (IF admit > 0 THEN "push" ELSE "local") /\ UNCHANGED cur
      BY <1>7, Zenon DEF ReadRequests
    <3>2. admit + refuse >= 1
      BY <2>4, <3>1, BoundAssumption
    <3> QED BY <3>1, <3>2
  <2>8. ReactorOK'
    <3>1. /\ rpc' \in {"push", "local"} /\ cur' \in Fds
          /\ (rpc' = "push" => todo' # << >>) /\ (rpc' = "local" => local_responses' # << >>)
      BY <2>1, <2>4, <2>5, <2>6, <2>7
    <3>2. input_left' \in Nat
      BY <2>4, <2>7
    <3> QED BY <2>5, <2>6, <3>1, <3>2 DEF ReactorOK
  <2>9. UNCHANGED <<connections, cancelled, drained>> /\ windows' \subseteq Clients
    BY <1>0, <1>7, <2>1 DEF ReadRequests, TableOK
  <2>10. TableOK'
    BY <1>0, <2>9 DEF TableOK
  <2>11. TableChange
    BY <1>0, <2>9, <2>10, Keeping DEF TableChange
  <2> QED BY <1>0, <1>7, <2>8, <2>9, <2>11, ControlKept, QueueKept, WorkerKept DEF ReadRequests, StepTypes
<1>8. CASE PushWork
  <2> DEFINE m == Head(todo)
  <2>1. todo \in Seq(Message) /\ todo # << >> /\ local_responses \in Seq(Message) /\ cur \in Fds
    BY <1>0, <1>8 DEF PushWork, ReactorOK
  <2>2. m \in Message /\ Tail(todo) \in Seq(Message)
    BY <2>1, HeadTailProperties
  <2>3. QueueFor(m) \in QueueNames
    BY DEF QueueFor, QueueNames
  <2>4. CASE PushResult(QueueFor(m)) = "OK"
    <3>1. /\ queue' = [queue EXCEPT ![QueueFor(m)] = Append(@, m)]
          /\ rpc' = "admit" /\ UNCHANGED <<todo, local_responses, input_left, cur, stopped, rejected>>
      BY <1>8, <2>4 DEF PushWork
    <3>2. QueueOK'
      <4> HIDE DEF m
      <4> QED BY <1>0, <2>2, <2>3, <2>4, <3>1, PushType
    <3>3. ReactorOK'
      BY <1>0, <2>1, <3>1 DEF ReactorOK
    <3>4. TableChange
      BY <1>8, TableKept DEF PushWork
    <3> QED BY <1>0, <1>8, <3>2, <3>3, <3>4, ControlKept, WorkerKept DEF PushWork, StepTypes
  <2>5. CASE PushResult(QueueFor(m)) # "OK"
    <3>1. /\ todo' = Tail(todo) /\ local_responses' = Append(local_responses, OverloadResponse(m))
          /\ rpc' = AfterPush(todo', local_responses')
          /\ UNCHANGED <<input_left, cur>> /\ UNCHANGED queueVars
      BY <1>8, <2>5 DEF PushWork, queueVars
    <3>2. OverloadResponse(m) \in Message
      BY <2>2, AnswerType
    <3>3. local_responses' \in Seq(Message) /\ todo' \in Seq(Message)
      BY <2>1, <2>2, <3>1, <3>2, AppendProperties
    <3>4. ReactorOK'
      BY <1>0, <2>1, <3>1, <3>3 DEF ReactorOK, AfterPush
    <3>5. TableChange
      BY <1>8, TableKept DEF PushWork
    <3> QED BY <1>0, <1>8, <3>1, <3>4, <3>5, ControlKept, QueueKept, WorkerKept DEF PushWork, StepTypes
  <2> QED BY <2>4, <2>5
<1>9. CASE Admit
  <2> DEFINE m == Head(todo)
  <2>1. todo \in Seq(Message) /\ todo # << >> /\ cur \in Fds
    BY <1>0, <1>9 DEF Admit, ReactorOK
  <2>2. m \in Message /\ Tail(todo) \in Seq(Message)
    BY <2>1, HeadTailProperties
  <2>3. ReactorOK'
    BY <1>0, <1>9, <2>1, <2>2 DEF Admit, ReactorOK, AfterPush
  <2>4. /\ \A g \in Fds : /\ connections'[g].conn_id = connections[g].conn_id
                          /\ connections'[g].client = connections[g].client
                          /\ connections'[g].output = connections[g].output
        /\ connections' \in [Fds -> Connection]
    <3>1. connections' = IF Matches(m) THEN [connections EXCEPT ![m.fd].in_flight_work = @ + 1] ELSE connections
      BY <1>9 DEF Admit
    <3>2. m.fd \in Fds
      BY <2>2 DEF Message
    <3> HIDE DEF m
    <3>3. CASE ~Matches(m)
      BY <1>0, <3>1, <3>3 DEF TableOK
    <3>4. CASE Matches(m)
      <4>1. connections' = [connections EXCEPT ![m.fd].in_flight_work = connections[m.fd].in_flight_work + 1]
        BY <3>1, <3>4
      <4>2. connections[m.fd].in_flight_work + 1 \in Nat
        BY <1>0, <3>2 DEF TableOK, Connection
      <4> DEFINE n == connections[m.fd].in_flight_work + 1
                 c == [connections[m.fd] EXCEPT !.in_flight_work = n]
      <4>3. connections \in [Fds -> Connection] /\ connections[m.fd] \in Connection
        BY <1>0, <3>2 DEF TableOK
      <4>4. connections' = [connections EXCEPT ![m.fd] = c]
        BY <4>1
      <4> HIDE DEF n
      <4>5. /\ c \in Connection /\ c.conn_id = connections[m.fd].conn_id
            /\ c.client = connections[m.fd].client /\ c.output = connections[m.fd].output
        BY <4>2, <4>3 DEF Connection, n
      <4> HIDE DEF c
      <4>6. /\ connections' \in [Fds -> Connection]
            /\ \A g \in Fds : connections'[g] = IF g = m.fd THEN c ELSE connections[g]
        BY <3>2, <4>3, <4>4, <4>5, SlotUpdate
      <4> QED BY <4>5, <4>6
    <3> QED BY <3>3, <3>4
  <2>5. UNCHANGED <<windows, cancelled, drained>>
    BY <1>9 DEF Admit
  <2>6. TableOK'
    BY <1>0, <2>4, <2>5 DEF TableOK
  <2>7. TableChange
    BY <1>0, <2>4, <2>5, <2>6, Keeping DEF TableChange
  <2> QED BY <1>0, <1>9, <2>3, <2>5, <2>7, ControlKept, QueueKept, WorkerKept DEF Admit, StepTypes
<1>10. CASE ApplyLocal
  <2>1. local_responses \in Seq(Message) /\ local_responses # << >> /\ cur \in Fds /\ rpc = "local"
    BY <1>0, <1>10 DEF ApplyLocal, ReactorOK
  <2>2. Head(local_responses) \in Message /\ Tail(local_responses) \in Seq(Message)
    BY <2>1, HeadTailProperties
  <2>3. ApplyResponse(Head(local_responses), FALSE)
    BY <1>10 DEF ApplyLocal
  <2>4. TableChange
    BY <2>1, <2>2, <2>3, TableApplied
  <2>5. ReactorOK'
    BY <1>0, <1>10, <2>1, <2>2 DEF ApplyLocal, ReactorOK, AfterPush
  <2>6. drained' \subseteq Nat
    BY <2>4 DEF TableChange
  <2> QED BY <1>0, <1>10, <2>4, <2>5, <2>6, ControlKept, QueueKept, WorkerKept DEF ApplyLocal, StepTypes
<1> QED BY <1>1, <1>2, <1>3, <1>4, <1>5, <1>6, <1>7, <1>8, <1>9, <1>10 DEF ReadStep

(* The end of an iteration of loop(), and finishShutdown, keep the types.   *)
LEMMA DrainTypes ==
  ASSUME TypeOK,
         \/ DrainResponse \/ DrainRejected \/ CheckDrain \/ (\E q \in QueueNames : CheckQueue(q))
         \/ CheckConnections \/ CheckDeadline \/ StopQueues \/ FinishShutdown
  PROVE  StepTypes
<1>0. /\ TableOK /\ ControlOK /\ ReactorOK /\ QueueOK /\ WorkerOK /\ drained \subseteq Nat
      /\ windows \in SUBSET Clients /\ "response" \in QueueNames
  BY DEF TypeOK, ControlOK, TableOK, QueueNames
<1>1. CASE DrainResponse
  <2>1. CASE queue["response"] = << >>
    <3>1. UNCHANGED <<tableVars, drained>> /\ UNCHANGED queueVars
      BY <1>1, <2>1 DEF DrainResponse, queueVars
    <3> QED BY <1>0, <1>1, <3>1, TableKept, ControlKept, ReactorMoves, QueueKept, WorkerKept
               DEF DrainResponse, StepTypes
  <2>2. CASE queue["response"] # << >>
    <3>1. /\ queue' = [queue EXCEPT !["response"] = Tail(@)]
          /\ ApplyResponse(Head(queue["response"]), TRUE)
          /\ UNCHANGED <<stopped, rejected, rpc>> /\ rpc = "responses"
      BY <1>1, <2>2 DEF DrainResponse
    <3>2. QueueOK' /\ Head(queue["response"]) \in Message
      BY <1>0, <2>2, <3>1, PopType
    <3>3. TableChange
      BY <2>2, <3>1, <3>2, TableApplied
    <3>4. drained' \subseteq Nat
      BY <3>3 DEF TableChange
    <3> QED BY <1>0, <1>1, <3>1, <3>2, <3>3, <3>4, ControlKept, ReactorMoves, WorkerKept
               DEF DrainResponse, StepTypes
  <2> QED BY <2>1, <2>2
<1>2. CASE DrainRejected
  <2> DEFINE S == {k.fd : k \in {r \in rejected : Matches(r)}}
  <2>1. S \in SUBSET Fds
    BY <1>0 DEF QueueOK, Key
  <2>2. CloseConnections(connections, windows, S) /\ drained' \subseteq Nat
    BY <1>0, <1>2 DEF DrainRejected
  <2> HIDE DEF S
  <2>3. TableChange
    BY <1>0, <2>1, <2>2, TableClosed
  <2>4. QueueOK'
    BY <1>0, <1>2 DEF DrainRejected, QueueOK, Capacity
  <2> QED BY <1>0, <1>2, <2>2, <2>3, <2>4, ControlKept, ReactorMoves, WorkerKept
             DEF DrainRejected, StepTypes
<1>3. CASE CheckDrain \/ \E q \in QueueNames : CheckQueue(q)
  <2>1. rpc' \in {"top", "request", "auth", "response", "complete", "late"}
    BY <1>3 DEF CheckDrain, CheckQueue, AfterQueue, QueueNames
  <2>2. /\ UNCHANGED <<tableVars, drained>> /\ UNCHANGED <<decodeVars, cur>>
        /\ UNCHANGED queueVars /\ UNCHANGED workerVars
        /\ UNCHANGED <<state, next_conn_id, pollVars, stopVars, runtime_config, eventfd>>
    BY <1>3 DEF CheckDrain, CheckQueue
  <2>3. drained' \subseteq Nat
    BY <1>0, <2>2
  <2>4. ReactorOK'
    BY <1>0, <2>1, <2>2, ReactorMoves
  <2> QED BY <1>0, <2>2, <2>3, <2>4, TableKept, ControlKept, QueueKept, WorkerKept DEF StepTypes
<1>4. CASE CheckConnections
  <2> DEFINE done == {fd \in Live : rejected = {} /\ CanCloseAfterDrain(connections[fd])}
  <2>1. done \in SUBSET Fds
    BY DEF Live
  <2>2. /\ CloseConnections(connections, windows, done)
        /\ drained' = drained \cup {connections[fd].conn_id : fd \in done}
        /\ state' \in {state, "STOPPED"} /\ rpc' \in {"top", "late"}
    BY <1>4 DEF CheckConnections
  <2>3. \A fd \in Fds : connections[fd].conn_id \in Nat
    BY <1>0 DEF TableOK, Connection
  <2> HIDE DEF done
  <2>4. drained' \subseteq Nat
    BY <1>0, <2>1, <2>2, <2>3
  <2>5. TableChange
    BY <1>0, <2>1, <2>2, <2>4, TableClosed
  <2>6. ControlOK'
    BY <1>0, <1>4, <2>2, <2>4 DEF CheckConnections, ControlOK, pollVars, stopVars
  <2>7. ReactorOK'
    BY <1>0, <1>4, <2>2, ReactorMoves DEF CheckConnections
  <2> QED BY <1>0, <1>4, <2>5, <2>6, <2>7, QueueKept, WorkerKept DEF CheckConnections, StepTypes
<1>5. CASE CheckDeadline
  <2>1. /\ state' \in {state, "STOPPED"}
        /\ \/ UNCHANGED <<queue, stopped>>
           \/ /\ queue' = [q \in QueueNames |-> << >>]
              /\ stopped' = [q \in QueueNames |-> TRUE]
        /\ UNCHANGED rejected
    BY <1>5 DEF CheckDeadline
  <2>2. QueueOK'
    <3>1. CASE UNCHANGED <<queue, stopped>>
      BY <1>0, <2>1, <3>1 DEF QueueOK, Capacity
    <3>2. CASE queue' = [q \in QueueNames |-> << >>] /\ stopped' = [q \in QueueNames |-> TRUE]
      <4>1. << >> \in Seq(Message) /\ Len(<< >>) = 0
        BY EmptySeq
      <4>2. \A q \in QueueNames : Capacity(q) \in Nat
        BY BoundAssumption DEF Capacity, QueueNames
      <4>3. queue' \in [QueueNames -> Seq(Message)] /\ stopped' \in [QueueNames -> BOOLEAN]
        BY <3>2, <4>1
      <4>4. \A q \in QueueNames : Len(queue'[q]) <= Capacity(q)
        BY <3>2, <4>1, <4>2
      <4> QED BY <1>0, <2>1, <4>3, <4>4 DEF QueueOK, Capacity
    <3> QED BY <2>1, <3>1, <3>2
  <2>3. ControlOK'
    BY <1>0, <1>5, <2>1 DEF CheckDeadline, ControlOK, pollVars, stopVars
  <2>4. TableChange
    BY <1>5, TableKept DEF CheckDeadline
  <2> QED BY <1>0, <1>5, <2>2, <2>3, <2>4, ReactorMoves, WorkerKept DEF CheckDeadline, StepTypes
<1>6. CASE StopQueues
  <2>1. QueueOK'
    BY <1>0, <1>6 DEF StopQueues, QueueOK, Capacity
  <2> QED BY <1>0, <1>6, <2>1, TableKept, ControlKept, ReactorMoves, WorkerKept DEF StopQueues, StepTypes
<1>7. CASE FinishShutdown
  <2>1. Live \in SUBSET Fds /\ drained' \subseteq Nat
    BY <1>0, <1>7 DEF Live, FinishShutdown
  <2>2. TableChange
    BY <1>0, <1>7, <2>1, TableClosed DEF FinishShutdown
  <2> QED BY <1>0, <1>7, <2>1, <2>2, ControlKept, ReactorMoves, QueueKept, WorkerKept
             DEF FinishShutdown, StepTypes
<1> QED BY <1>1, <1>2, <1>3, <1>4, <1>5, <1>6, <1>7

(* The steps of a worker keep the types.                                    *)
LEMMA WorkerTypes ==
  ASSUME TypeOK, NEW w \in Producers, WorkerStep(w)
  PROVE  StepTypes
<1>0. TableOK /\ ControlOK /\ ReactorOK /\ QueueOK /\ WorkerOK /\ drained \subseteq Nat
  BY DEF TypeOK, ControlOK
<1>a. SourceOf(w) \in QueueNames /\ "response" \in QueueNames
  BY DEF SourceOf, QueueNames
<1>b. UNCHANGED <<tableVars, drained, decodeVars, rpc, cur>>
  BY DEF WorkerStep, WorkerPop, WorkerPopFails, AuthCheck, WorkerRespond, WorkerReject,
         WorkerNotify, WorkerLeave, StopResponses, WakeReactor
<1>c. TableChange /\ ReactorOK'
  BY <1>0, <1>b, TableKept, ReactorMoves
<1>1. CASE WorkerPop(w)
  <2>1. /\ queue[SourceOf(w)] # << >> /\ queue' = [queue EXCEPT ![SourceOf(w)] = Tail(@)]
        /\ job' = [job EXCEPT ![w] = Head(queue[SourceOf(w)])]
        /\ UNCHANGED <<stopped, rejected, producers, granted>>
        /\ wpc' = [wpc EXCEPT ![w] = IF w \in AuthWorkers THEN "check" ELSE "work"]
    BY <1>1 DEF WorkerPop
  <2>2. QueueOK' /\ Head(queue[SourceOf(w)]) \in Message
    BY <1>0, <1>a, <2>1, PopType
  <2>3. WorkerOK'
    BY <1>0, <2>1, <2>2 DEF WorkerOK
  <2>4. ControlOK'
    BY <1>0, <1>1, ControlKept DEF WorkerPop
  <2> QED BY <1>c, <2>2, <2>3, <2>4 DEF StepTypes
<1>2. CASE WorkerPopFails(w)
  <2>1. WorkerOK'
    BY <1>0, <1>2 DEF WorkerPopFails, WorkerOK
  <2> QED BY <1>0, <1>2, <1>c, <2>1, ControlKept, QueueKept DEF WorkerPopFails, StepTypes
<1>3. CASE AuthCheck(w)
  <2>1. WorkerOK'
    BY <1>0, <1>3 DEF AuthCheck, WorkerOK
  <2> QED BY <1>0, <1>3, <1>c, <2>1, ControlKept, QueueKept DEF AuthCheck, StepTypes
<1>4. CASE WorkerRespond(w)
  <2>1. wpc[w] = "work" /\ job[w] \in Message
    BY <1>0, <1>4 DEF WorkerRespond, WorkerOK
  <2>2. PICK answer \in {AuthAllowed(job[w]), AuthRefused(job[w]), ResponseTo(job[w])} :
          /\ granted' = granted \cup (IF answer.client = None THEN {}
                                      ELSE {<<answer.conn_id, answer.client>>})
          /\ IF PushResult("response") = "OK"
             THEN /\ queue' = [queue EXCEPT !["response"] = Append(@, answer)]
                  /\ wpc' = [wpc EXCEPT ![w] = "notify"]
                  /\ job' = [job EXCEPT ![w] = None]
             ELSE /\ wpc' = [wpc EXCEPT ![w] = "reject"]
                  /\ UNCHANGED <<queue, job>>
    BY <1>4 DEF WorkerRespond
  <2>3. answer \in Message
    BY <2>1, <2>2, AnswerType
  <2>4. answer.conn_id \in Nat /\ answer.client \in Clients \cup {None}
    BY <2>3 DEF Message
  <2>5. granted' \subseteq Nat \X Clients
    <3>1. granted \subseteq Nat \X Clients
      BY <1>0 DEF WorkerOK
    <3>2. answer.client # None => <<answer.conn_id, answer.client>> \in Nat \X Clients
      BY <2>4
    <3>3. granted' = granted \/ (/\ answer.client # None
                               /\ granted' = granted \cup {<<answer.conn_id, answer.client>>})
      BY <2>2, Zenon
    <3> QED BY <3>1, <3>2, <3>3, Zenon
  <2>6. UNCHANGED <<stopped, rejected, producers>>
    BY <1>4 DEF WorkerRespond
  <2>7. QueueOK'
    <3>1. CASE PushResult("response") = "OK"
      BY <1>0, <1>a, <2>2, <2>3, <2>6, <3>1, PushType
    <3>2. CASE PushResult("response") # "OK"
      BY <1>0, <2>2, <2>6, <3>2, QueueKept DEF queueVars
    <3> QED BY <3>1, <3>2
  <2>8. WorkerOK'
    BY <1>0, <2>1, <2>2, <2>5, <2>6 DEF WorkerOK
  <2> QED BY <1>0, <1>4, <1>c, <2>7, <2>8, ControlKept DEF WorkerRespond, StepTypes
<1>5. CASE WorkerReject(w)
  <2>1. job[w] \in Message
    BY <1>0, <1>5 DEF WorkerReject, WorkerOK
  <2>2. rejected' \subseteq Key
    <3>1. [fd |-> job[w].fd, conn_id |-> job[w].conn_id] \in Key
      BY <2>1 DEF Message, Key
    <3> QED BY <1>0, <1>5, <3>1 DEF WorkerReject, QueueOK
  <2>3. QueueOK'
    BY <1>0, <1>5, <2>2 DEF WorkerReject, QueueOK, Capacity
  <2>4. WorkerOK'
    BY <1>0, <1>5 DEF WorkerReject, WorkerOK
  <2> QED BY <1>0, <1>5, <1>c, <2>3, <2>4, ControlKept DEF WorkerReject, StepTypes
<1>6. CASE WorkerNotify(w) \/ WakeReactor(w)
  <2>1. WorkerOK'
    BY <1>0, <1>6 DEF WorkerNotify, WakeReactor, WorkerOK
  <2>2. ControlOK'
    BY <1>0, <1>6 DEF WorkerNotify, WakeReactor, ControlOK, pollVars, stopVars
  <2> QED BY <1>0, <1>6, <1>c, <2>1, <2>2, QueueKept DEF WorkerNotify, WakeReactor, StepTypes
<1>7. CASE WorkerLeave(w)
  <2>1. WorkerOK'
    <3>1. /\ UNCHANGED <<job, granted>> /\ producers' = producers - 1
          /\ \E pc \in {"stopq", "exited"} : wpc' = [wpc EXCEPT ![w] = pc]
      BY <1>7 DEF WorkerLeave
    <3> QED BY <1>0, <3>1 DEF WorkerOK
  <2> QED BY <1>0, <1>7, <1>c, <2>1, ControlKept, QueueKept DEF WorkerLeave, StepTypes
<1>8. CASE StopResponses(w)
  <2>1. WorkerOK'
    BY <1>0, <1>8 DEF StopResponses, WorkerOK
  <2>2. QueueOK'
    BY <1>0, <1>8 DEF StopResponses, QueueOK, Capacity
  <2> QED BY <1>0, <1>8, <1>c, <2>1, <2>2, ControlKept DEF StopResponses, StepTypes
<1> QED BY <1>1, <1>2, <1>3, <1>4, <1>5, <1>6, <1>7, <1>8 DEF WorkerStep

(* Every step keeps the types and changes the table in one of the ways      *)
(* listed in SlotChange.                                                    *)
LEMMA TypeStep == TypeOK /\ [Next]_vars => StepTypes
<1> SUFFICES ASSUME TypeOK, [Next]_vars PROVE StepTypes
  OBVIOUS
<1>0. TableOK /\ ControlOK /\ ReactorOK /\ QueueOK /\ WorkerOK /\ drained \subseteq Nat
  BY DEF TypeOK, ControlOK
<1>1. CASE ReactorStep
  BY <1>1, LoopTypes, HandlerTypes, DrainTypes DEF ReactorStep, BatchStep
<1>2. CASE EpollWait \/ EpollInterrupted \/ EpollFailed
  BY <1>2, LoopTypes
<1>3. ASSUME NEW w \in Producers, WorkerStep(w) PROVE StepTypes
  BY <1>3, WorkerTypes
<1>4. CASE RequestStop \/ NotifyStop \/ DeadlinePasses \/ PullConfig
  <2>1. ControlOK'
    BY <1>0, <1>4 DEF RequestStop, NotifyStop, DeadlinePasses, PullConfig, ControlOK, pollVars, stopVars
  <2>2. UNCHANGED <<tableVars, drained>> /\ UNCHANGED <<decodeVars, rpc, cur>>
        /\ UNCHANGED queueVars /\ UNCHANGED workerVars
    BY <1>4 DEF RequestStop, NotifyStop, DeadlinePasses, PullConfig
  <2> QED BY <1>0, <2>1, <2>2, TableKept, ReactorMoves, QueueKept, WorkerKept DEF StepTypes
<1>5. CASE UNCHANGED vars
  <2>1. UNCHANGED <<tableVars, drained>> /\ UNCHANGED <<decodeVars, rpc, cur>>
        /\ UNCHANGED queueVars /\ UNCHANGED workerVars
        /\ UNCHANGED <<state, next_conn_id, pollVars, stopVars, runtime_config, eventfd>>
    BY <1>5 DEF vars
  <2> QED BY <1>0, <2>1, TableKept, ControlKept, ReactorMoves, QueueKept, WorkerKept DEF StepTypes
<1> QED BY <1>1, <1>2, <1>3, <1>4, <1>5 DEF Next, Terminated

(* The initial state has the types.                                         *)
LEMMA InitType == Init => TypeOK
<1> SUFFICES ASSUME Init PROVE TypeOK
  OBVIOUS
<1>1. << >> \in Seq(Message) /\ Len(<< >>) = 0
  BY EmptySeq
<1>2. NoConnection \in Connection /\ WithinOutputLimit(NoConnection.output)
  BY NewConnectionType DEF NoConnection
<1>3. TableOK
  BY <1>2 DEF Init, TableOK
<1>4. ControlOK
  <2>1. next_conn_id \in Nat \ {0} /\ drained \subseteq Nat /\ batch \subseteq Key
    BY DEF Init
  <2> QED BY <2>1, Zenon DEF Init, ControlOK
<1>5. ReactorOK
  BY <1>1, BoundAssumption DEF Init, ReactorOK
<1>6. QueueOK
  <2>1. \A q \in QueueNames : Capacity(q) \in Nat
    BY BoundAssumption DEF Capacity, QueueNames
  <2>2. queue \in [QueueNames -> Seq(Message)] /\ \A q \in QueueNames : Len(queue[q]) = 0
    BY <1>1 DEF Init
  <2>3. stopped \in [QueueNames -> BOOLEAN] /\ rejected \subseteq Key
    BY DEF Init
  <2> QED BY <2>1, <2>2, <2>3 DEF QueueOK
<1>7. WorkerOK
  <2>1. IsFiniteSet(Producers)
    BY FiniteAssumption, FS_Union DEF Producers
  <2>2. producers \in Int
    BY <2>1, FS_CardinalityType DEF Init
  <2> QED BY <2>2 DEF Init, WorkerOK
<1> QED BY <1>3, <1>4, <1>5, <1>6, <1>7 DEF TypeOK

(* Every reachable state of the gateway has the declared types and bounds:  *)
(* in particular no queue and no output buffer ever exceeds its limit.      *)
THEOREM GatewayTypes == Safety => []TypeOK
<1>1. TypeOK /\ [Next]_vars => TypeOK'
  BY TypeStep DEF StepTypes, TableChange, TypeOK
<1> QED BY <1>1, InitType, PTL DEF Safety
=============================================================================

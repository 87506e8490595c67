------------------------- MODULE ControlPlaneClient -------------------------
(***************************************************************************)
(* One request to the control plane: requestJsonOnce and checkAuth         *)
(* (control/ControlPlaneClient.cpp) over SocketDeadline                    *)
(* (control/SocketDeadline.cpp).  All socket calls are non-blocking; the   *)
(* client waits in poll, and in getaddrinfo, which has no deadline.        *)
(*                                                                         *)
(* Time passes only while the client waits: the instructions between two   *)
(* system calls take none.  send and recv retried after EINTR change       *)
(* nothing and are left out; poll retried after EINTR computes its timeout *)
(* again.                                                                  *)
(***************************************************************************)
EXTENDS HttpResponse

CONSTANTS
  Responses,      \* what the control plane may send
  Buffer,         \* the size of the receive buffer
  timeout_ms,
  NotAfters,      \* the callers' own limits
  Addresses,      \* the number of addresses that getaddrinfo returns
  RequestParts,   \* the pieces in which a request can be sent
  ResolveTime     \* a bound on the time that getaddrinfo takes

ASSUME TimeAssumption ==
  /\ Buffer \in Nat \ {0} /\ timeout_ms \in Nat \ {0} /\ NotAfters \subseteq Nat
  /\ Addresses \in Nat /\ RequestParts \in Nat \ {0} /\ ResolveTime \in Nat

VARIABLES
  pc,
  now,
  not_after,   \* the caller's limit
  deadline,    \* SocketDeadline::deadline_, 0 until it is known
  wake,        \* when the poll in progress times out
  addresses,   \* the addresses that have not been tried
  unsent,      \* the pieces of the request that have not been sent
  response,    \* what the control plane sends
  wire,        \* the part of it that has arrived at the socket and was not received
  coming,      \* the part that it has still to send
  peer,        \* the control plane's side: "open", "closed" or "broken"
  parser

vars == <<pc, now, not_after, deadline, wake, addresses, unsent, response, wire, coming, peer,
          parser>>

netVars == <<response, wire, coming, peer>>

(* A response before it is put on the wire: a status line, header lines,   *)
(* whether the empty line that closes the header follows, and a body.      *)
Wire(r) ==
  FlattenSeq([i \in 1..Len(r.headers) + 1 |->
               <<IF i = 1 THEN Token("status", <<r.status>>) ELSE r.headers[i - 1]>> \o Crlf])
    \o (IF r.closed THEN Crlf \o r.body ELSE <<>>)

Init ==
  /\ pc = "begin"
  /\ now = 0
  /\ not_after \in NotAfters
  /\ deadline = 0
  /\ wake = 0
  /\ addresses = Addresses
  /\ unsent = RequestParts
  /\ response \in Responses
  /\ wire = <<>>
  /\ coming = Wire(response)
  /\ peer = "open"
  /\ parser = NewParser

Expired == deadline <= now

(* requestJsonOnce returns, with an error or with the parser's result. *)
Return(error) == pc' = "done" /\ parser' = FinishOnTransportError(parser, error)

-----------------------------------------------------------------------------
(* waitForSocket: the thread polls until the deadline, and again after     *)
(* EINTR.                                                                  *)

(* Mutant: every poll is given the whole timeout. *)
PollWholeTimeout(place) == pc' = place /\ wake' = now + timeout_ms

(* poll's timeout is what remains until the deadline. *)
Poll(place) == pc' = place /\ wake' = deadline

(* The state in which a wait goes on. *)
After == [connecting |-> "send", sending |-> "send", receiving |-> "receive"]

(* What poll was waiting for is there: for POLLIN something to read or the *)
(* end of the stream, for POLLOUT whatever the network does.               *)
PollReady ==
  /\ pc \in DOMAIN After
  /\ pc = "receiving" => wire # <<>> \/ peer # "open"
  /\ pc' = After[pc]
  /\ UNCHANGED <<now, not_after, deadline, wake, addresses, unsent, netVars, parser>>

PollTimeout ==
  /\ pc \in DOMAIN After
  /\ now >= wake
  /\ Return("DeadlineExceeded")
  /\ UNCHANGED <<now, not_after, deadline, wake, addresses, unsent, netVars>>

PollInterrupted ==
  /\ pc \in DOMAIN After
  /\ IF Expired THEN Return("DeadlineExceeded") /\ UNCHANGED wake
     ELSE Poll(pc) /\ UNCHANGED parser
  /\ UNCHANGED <<now, not_after, deadline, addresses, unsent, netVars>>

(* A connection attempt that fails, at poll or by SO_ERROR, is followed by *)
(* the next address; the other waits end the request.                      *)
PollFails ==
  /\ pc \in DOMAIN After
  /\ CASE pc = "connecting" -> pc' = "connect" /\ UNCHANGED parser
       [] pc = "sending" -> Return("SendFailed")
       [] pc = "receiving" -> Return("ReceiveFailed")
  /\ UNCHANGED <<now, not_after, deadline, wake, addresses, unsent, netVars>>

-----------------------------------------------------------------------------
(* SocketDeadline::connect.                                                *)

Begin ==
  /\ pc = "begin"
  /\ IF not_after <= now THEN Return("DeadlineExceeded")
     ELSE pc' = "resolving" /\ UNCHANGED parser
  /\ UNCHANGED <<now, not_after, deadline, wake, addresses, unsent, netVars>>

SocketDeadlineOf == Min({now + timeout_ms, not_after})

Resolve ==
  /\ pc = "resolving"
  /\ \/ Return("ResolveFailed") /\ UNCHANGED deadline
     \/ pc' = "connect" /\ deadline' = SocketDeadlineOf /\ UNCHANGED parser
  /\ UNCHANGED <<now, not_after, wake, addresses, unsent, netVars>>

AddressesEnd == addresses = 0

(* One turn of the loop over the addresses. *)
ConnectNext ==
  /\ pc = "connect"
  /\ IF AddressesEnd \/ Expired
     THEN /\ Return(IF AddressesEnd THEN "ConnectFailed" ELSE "DeadlineExceeded")
          /\ UNCHANGED <<addresses, wake>>
     ELSE /\ addresses' = addresses - 1
          /\ \/ pc' = "connect" /\ UNCHANGED wake
             \/ pc' = "send" /\ UNCHANGED wake
             \/ Poll("connecting")
          /\ UNCHANGED parser
  /\ UNCHANGED <<now, not_after, deadline, unsent, netVars>>

-----------------------------------------------------------------------------
(* sendAll and receive.                                                    *)

Send ==
  /\ pc = "send"
  /\ \/ /\ unsent = 0
        /\ pc' = "receive" /\ UNCHANGED <<unsent, wake, parser>>
     \/ /\ unsent > 0 /\ Expired
        /\ Return("DeadlineExceeded") /\ UNCHANGED <<unsent, wake>>
     \/ /\ unsent > 0 /\ ~Expired
        /\ \/ \E sent \in 1..unsent : unsent' = unsent - sent /\ UNCHANGED <<pc, wake, parser>>
           \/ Poll("sending") /\ UNCHANGED <<unsent, parser>>
           \/ Return("SendFailed") /\ UNCHANGED <<unsent, wake>>
  /\ UNCHANGED <<now, not_after, deadline, addresses, netVars>>

Receive ==
  /\ pc = "receive"
  /\ \/ /\ parser.done
        /\ pc' = "done" /\ UNCHANGED <<wire, wake, parser>>
     \/ /\ ~parser.done /\ Expired
        /\ Return("DeadlineExceeded") /\ UNCHANGED <<wire, wake>>
     \/ /\ ~parser.done /\ ~Expired
        /\ \/ /\ wire # <<>>
              /\ LET n == Min({Buffer, Len(wire)})
                 IN  /\ parser' = Consume(parser, SubSeq(wire, 1, n))
                     /\ wire' = SubSeq(wire, n + 1, Len(wire))
              /\ UNCHANGED <<pc, wake>>
           \/ /\ wire = <<>> /\ peer = "closed"
              /\ parser' = FinishOnEof(parser)
              /\ pc' = "done" /\ UNCHANGED <<wire, wake>>
           \/ /\ peer = "broken"
              /\ Return("ReceiveFailed") /\ UNCHANGED <<wire, wake>>
           \/ /\ wire = <<>> /\ peer = "open"
              /\ Poll("receiving") /\ UNCHANGED <<wire, parser>>
  /\ UNCHANGED <<now, not_after, deadline, addresses, unsent, response, coming, peer>>

-----------------------------------------------------------------------------
(* The control plane and the clock.                                        *)

PeerSends ==
  /\ peer = "open" /\ unsent = 0
  /\ coming # <<>>
  /\ \E k \in 1..Len(coming) :
       wire' = wire \o SubSeq(coming, 1, k) /\ coming' = SubSeq(coming, k + 1, Len(coming))
  /\ UNCHANGED <<pc, now, not_after, deadline, wake, addresses, unsent, response, peer, parser>>

PeerEnds ==
  /\ peer = "open" /\ unsent < RequestParts
  /\ peer' \in {"closed", "broken"}
  /\ UNCHANGED <<pc, now, not_after, deadline, wake, addresses, unsent, response, wire, coming, parser>>

(* getaddrinfo takes as long as it likes; a poll returns when it is due. *)
Tick ==
  /\ (pc = "resolving" /\ now < ResolveTime) \/ (pc \in DOMAIN After /\ now < wake)
  /\ now' = now + 1
  /\ UNCHANGED <<pc, not_after, deadline, wake, addresses, unsent, netVars, parser>>

Done == pc = "done" /\ UNCHANGED vars

ClientStep ==
  \/ Begin \/ Resolve \/ ConnectNext \/ Send \/ Receive
  \/ PollReady \/ PollTimeout \/ PollFails

Next == ClientStep \/ PollInterrupted \/ PeerSends \/ PeerEnds \/ Tick \/ Done

Spec == Init /\ [][Next]_vars

-----------------------------------------------------------------------------
(* What a response must be like, stated on the response and not on the     *)
(* tokens that arrive.                                                     *)

Lengths(r) == {i \in DOMAIN r.headers : r.headers[i].kind = "length"}

DeclaredText(r) == r.headers[CHOOSE i \in Lengths(r) : TRUE].text

DeclaredLength(r) ==
  LET t == DeclaredText(r) IN MapThenSumSet(LAMBDA i : t[i] * Radix^(Len(t) - i), DOMAIN t)

WellFormed(r) ==
  /\ r.closed /\ r.status # 0
  /\ 3 * Len(r.headers) + 5 <= MaxHeader
  /\ \A i \in DOMAIN r.headers : r.headers[i].kind \in {"length", "other"}
  /\ Cardinality(Lengths(r)) = 1
  /\ DeclaredText(r) # <<>> /\ \A c \in Range(DeclaredText(r)) : c < Radix
  /\ DeclaredLength(r) <= MaxBody

(* Types of the variables. *)
TypeOK ==
  /\ pc \in {"begin", "resolving", "connect", "send", "receive", "done"} \cup DOMAIN After
  /\ now \in 0..(ResolveTime + timeout_ms)
  /\ not_after \in NotAfters /\ deadline \in Nat /\ wake \in Nat
  /\ addresses \in 0..Addresses /\ unsent \in 0..RequestParts
  /\ response \in Responses
  /\ peer \in {"open", "closed", "broken"}
  /\ parser.done \in BOOLEAN /\ parser.headers_parsed \in BOOLEAN
  /\ parser.content_length \in -1..MaxBody
  /\ parser.received \o wire \o coming = Wire(response)

(* One absolute deadline bounds connect, send and receive together: the    *)
(* client never waits for the network past it, nor past its caller's       *)
(* limit, however often a wait is interrupted, restarted for the next      *)
(* address or ended by one more byte.                                      *)
WaitsEndAtTheDeadline ==
  pc \in DOMAIN After => now <= deadline /\ deadline <= not_after

(* However the response is cut, the parser is in the state in which it     *)
(* would be if what it has received had come in one piece: between two     *)
(* reads of requestJsonOnce only consume has changed it.                   *)
CutsDoNotMatter ==
  pc = "receive" => parser = Consume(NewParser, parser.received)

(* A response is taken for complete only if it is well formed and all of   *)
(* the declared body has arrived, and the caller gets just that body; and  *)
(* consume never refuses a well-formed response, unless more than the      *)
(* declared body arrives.                                                  *)
CompleteIffWellFormed ==
  parser.done =>
    IF parser.error \in {"None", "HttpStatusError"}
    THEN /\ WellFormed(response)
         /\ parser.status = response.status
         /\ parser.body = SubSeq(response.body, 1, DeclaredLength(response))
         /\ Len(parser.body) = DeclaredLength(response)
    ELSE pc = "receive" /\ WellFormed(response) =>
           Len(response.body) > DeclaredLength(response)

(* AUTH fails closed: the client is allowed only if a well-formed response *)
(* with status 2xx says so in a body that has arrived completely.          *)
AuthFailsClosed ==
  Outcome(parser) = "Allowed" =>
    /\ WellFormed(response) /\ response.status \in 200..299
    /\ DeclaredLength(response) = 2
    /\ SubSeq(response.body, 1, 2) = AuthBody("true")

====

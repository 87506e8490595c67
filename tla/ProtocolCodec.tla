--------------------------- MODULE ProtocolCodec ----------------------------
(***************************************************************************)
(* The frames of the gateway's TCP protocol (protocol/ProtocolCodec.cpp)   *)
(* and a connection's input buffer that they are decoded from              *)
(* (handleRead and decodeAndEnqueue in net/TcpServer.cpp).                 *)
(*                                                                         *)
(* A byte has Base values and a length prefix LengthBytes bytes, so that   *)
(* the sums of the code, which are modulo 2^32, are modulo Base^LengthBytes*)
(* here.  The connection is authenticated; what is admitted is handed to   *)
(* the queue by the actions of Gateway.                                    *)
(***************************************************************************)
EXTENDS Integers, Sequences, FiniteSetsExt, SequencesExt

CONSTANTS
  Base,
  LengthBytes,
  Streams,         \* what a client may send: frames, and the bytes after them
  Limits,          \* the values of max_payload_size in the runtime config
  MaxPayload,      \* MAX_PAYLOAD_SIZE
  Buffer           \* the size of the read buffer

ASSUME CodecAssumption ==
  /\ Base \in Nat \ {0, 1} /\ LengthBytes \in Nat \ {0}
  /\ MaxPayload \in Nat /\ Limits \subseteq Nat /\ Buffer \in Nat \ {0}

(* version, type and a request_id of one byte each. *)
FIXED_BODY_SIZE == 3

MAX_BODY_SIZE == MaxPayload + FIXED_BODY_SIZE

Width == Base ^ LengthBytes

(* htonl *)
BigEndian(n) == [i \in 1..LengthBytes |-> (n \div Base ^ (LengthBytes - i)) % Base]

(* ntohl *)
FromBigEndian(bytes) == FoldLeft(LAMBDA n, byte : Base * n + byte, 0, bytes)

(* The order of the fields on the wire. *)
Encode(frame) ==
  BigEndian((FIXED_BODY_SIZE + Len(frame.payload)) % Width)
    \o <<frame.version, frame.type, frame.request_id>> \o frame.payload

EncodeAll(frames) == FlattenSeq([i \in DOMAIN frames |-> Encode(frames[i])])

-----------------------------------------------------------------------------
(* decode.  index is read_index; status is "go on" until the loop ends.    *)

InvalidLength(length, limit) ==
  length < FIXED_BODY_SIZE \/ length > MAX_BODY_SIZE \/ length > limit

(* A length is judged before the frame is waited for. *)
Judge(length, remaining, limit) ==
  CASE InvalidLength(length, limit) -> "INVALID_LENGTH"
    [] ~InvalidLength(length, limit) /\ remaining < (LengthBytes + length) % Width ->
         "NEED_MORE_DATA"
    [] OTHER -> "go on"

(* One turn of the loop. *)
DecodeOne(buffer, acc, limit) ==
  LET remaining == Len(buffer) - acc.index
      At(i)     == buffer[acc.index + LengthBytes + i]
      length    == FromBigEndian(SubSeq(buffer, acc.index + 1, acc.index + LengthBytes))
      verdict   == Judge(length, remaining, limit)
  IN  CASE acc.status # "go on" -> acc
        [] acc.status = "go on" /\ remaining = 0 -> [acc EXCEPT !.status = "OK"]
        [] acc.status = "go on" /\ remaining \in 1..(LengthBytes - 1) ->
             [acc EXCEPT !.status = "NEED_MORE_DATA"]
        [] OTHER ->
             IF verdict # "go on" THEN [acc EXCEPT !.status = verdict]
             ELSE [acc EXCEPT
                     !.index = @ + LengthBytes + length,
                     !.requests = Append(@,
                       [version |-> At(1), type |-> At(2), request_id |-> At(3),
                        payload |-> [i \in 1..(length - FIXED_BODY_SIZE) |->
                                       At(FIXED_BODY_SIZE + i)]])]

(* The loop ends within one turn more than the buffer has bytes. *)
Loop(buffer, limit) ==
  FoldLeft(LAMBDA acc, turn : DecodeOne(buffer, acc, limit),
           [index |-> 0, requests |-> <<>>, status |-> "go on"],
           [turn \in 1..(Len(buffer) + 1) |-> turn])

(* Mutant: the consumed bytes stay in the buffer if more data is needed. *)
EraseIfDone(buffer, loop) ==
  IF loop.status = "OK" THEN <<>> ELSE buffer

(* The consumed bytes are erased, unless a length was invalid. *)
Erase(buffer, loop) ==
  IF loop.status = "INVALID_LENGTH" THEN buffer
  ELSE SubSeq(buffer, loop.index + 1, Len(buffer))

-----------------------------------------------------------------------------
(* The connection.                                                         *)

VARIABLES
  stream,            \* what the client sends
  rest,              \* the bytes of it that have not been read
  input_buffer,
  admitted,          \* the requests that decodeAndEnqueue has let pass
  max_payload_size,  \* of the runtime config
  connection         \* "open", "eof" (read_eof) or "closed"

vars == <<stream, rest, input_buffer, admitted, max_payload_size, connection>>

Bytes(s) == EncodeAll(s.frames) \o s.tail

Init ==
  /\ stream \in Streams
  /\ rest = Bytes(stream)
  /\ input_buffer = <<>>
  /\ admitted = <<>>
  /\ max_payload_size \in Limits
  /\ connection = "open"

(* decodeAndEnqueue of the buffer: an invalid length closes the connection *)
(* and drops what was decoded before it; the end of the input drops an     *)
(* incomplete frame.                                                       *)
DecodeAndEnqueue(buffer, eof) ==
  LET loop == Loop(buffer, max_payload_size)
  IN  IF loop.status = "INVALID_LENGTH"
      THEN /\ connection' = "closed"
           /\ input_buffer' = <<>>
           /\ UNCHANGED admitted
      ELSE /\ connection' = IF eof THEN "eof" ELSE connection
           /\ input_buffer' = IF eof THEN <<>> ELSE Erase(buffer, loop)
           /\ admitted' = admitted \o loop.requests

Read ==
  /\ connection = "open"
  /\ \E k \in 1..Min({Buffer, Len(rest)}) :
       /\ DecodeAndEnqueue(input_buffer \o SubSeq(rest, 1, k), FALSE)
       /\ rest' = SubSeq(rest, k + 1, Len(rest))
  /\ UNCHANGED <<stream, max_payload_size>>

(* recv has nothing more for now: the buffer is decoded once more. *)
ReadAgain ==
  /\ connection = "open"
  /\ DecodeAndEnqueue(input_buffer, FALSE)
  /\ UNCHANGED <<stream, rest, max_payload_size>>

(* The peer has closed its side, perhaps in the middle of a frame. *)
ReadEof ==
  /\ connection = "open"
  /\ DecodeAndEnqueue(input_buffer, TRUE)
  /\ UNCHANGED <<stream, rest, max_payload_size>>

(* The puller has applied a new runtime config. *)
ConfigChanges ==
  /\ max_payload_size' \in Limits
  /\ UNCHANGED <<stream, rest, input_buffer, admitted, connection>>

Next == Read \/ ReadAgain \/ ReadEof \/ ConfigChanges

Spec == Init /\ [][Next]_vars

-----------------------------------------------------------------------------
(* Types of the variables. *)
TypeOK ==
  /\ input_buffer \in Seq(0..(Base - 1)) /\ rest \in Seq(0..(Base - 1))
  /\ \A i \in DOMAIN admitted : Len(admitted[i].payload) <= MaxPayload
  /\ max_payload_size \in Limits
  /\ connection \in {"open", "eof", "closed"}

(* However the bytes are cut into reads, and whatever the limits were when *)
(* they arrived: while the connection is open, the frames let pass, the    *)
(* buffer and what has not been read are together exactly what was sent.   *)
(* Nothing is kept back but the start of one frame, and of one whose       *)
(* declared length the hard limits permit, so the buffer cannot grow.      *)
NothingLostOrInvented ==
  /\ connection = "open" => EncodeAll(admitted) \o input_buffer \o rest = Bytes(stream)
  /\ IsPrefix(EncodeAll(admitted), Bytes(stream))
  /\ Len(input_buffer) >= LengthBytes =>
       LET length == FromBigEndian(SubSeq(input_buffer, 1, LengthBytes))
       IN  length \in FIXED_BODY_SIZE..MAX_BODY_SIZE /\ Len(input_buffer) < LengthBytes + length

====

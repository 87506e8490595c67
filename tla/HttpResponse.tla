---------------------------- MODULE HttpResponse ----------------------------
(***************************************************************************)
(* The incremental parser of the control plane's HTTP responses            *)
(* (control/HttpResponseParser.cpp) and what checkAuth makes of its result *)
(* (control/ControlPlaneClient.cpp).                                       *)
(*                                                                         *)
(* A response is a sequence of tokens: a status line, header lines, the    *)
(* characters CR and LF, and pieces of a body.  TCP delivers it in chunks  *)
(* that are cut between any two of them, within the four characters that   *)
(* close the header too.  Sizes are counted in tokens.                     *)
(***************************************************************************)
EXTENDS Integers, Sequences, FiniteSetsExt, SequencesExt

CONSTANTS
  MaxHeader,   \* MAX_CONTROL_PLANE_HTTP_HEADER_BYTES
  MaxBody,     \* MAX_CONTROL_PLANE_HTTP_BODY_BYTES
  Radix,       \* the base of a Content-Length, 10 in the code
  Width        \* the number of values of a size_t

ASSUME LimitAssumption ==
  /\ MaxHeader \in Nat /\ MaxBody \in Nat
  /\ Radix \in 1..(MaxBody + 1) /\ Width \in Nat /\ Width > MaxBody + 1

(* A token: text is the code of a status line, <<0>> if it is malformed,   *)
(* and the characters of a Content-Length; those from Radix on are not     *)
(* digits.                                                                 *)
Token(kind, text) == [kind |-> kind, text |-> text]

Crlf == <<Token("cr", <<>>), Token("lf", <<>>)>>

(* HttpResponseParser with the fields of its result_. *)
NewParser ==
  [received |-> <<>>, headers_parsed |-> FALSE, body_offset |-> 0, status_code |-> 0,
   content_length |-> -1, done |-> FALSE, error |-> "None", status |-> 0, body |-> <<>>]

Fail(p, error, status) ==
  [p EXCEPT !.error = error, !.status = status, !.body = <<>>, !.done = TRUE]

-----------------------------------------------------------------------------
(* parseContentLength: the value of the text, -1 if it is not a number,     *)
(* and MaxBody + 1 for every value above MaxBody.                           *)

NextDigit(parsed, digit) ==
  CASE parsed \in {-1, MaxBody + 1} -> parsed
    [] digit >= Radix -> -1
    [] parsed > (MaxBody - digit) \div Radix -> MaxBody + 1
    [] OTHER -> (parsed * Radix + digit) % Width

ParseContentLength(text) == IF text = <<>> THEN -1 ELSE FoldLeft(NextDigit, 0, text)

-----------------------------------------------------------------------------
(* parseHeaders.                                                           *)

(* Mutant: a second Content-Length replaces the first. *)
HeaderLineLastLength(acc, line) ==
  IF line.kind = "length" /\ ParseContentLength(line.text) \in 0..MaxBody
  THEN [acc EXCEPT !.length = ParseContentLength(line.text)] ELSE acc

(* One turn of the loop over the header lines; the first failure stands. *)
HeaderLine(acc, line) ==
  CASE acc.error # "None" -> acc
    [] line.kind = "length" ->
         LET value == ParseContentLength(line.text)
         IN  CASE acc.length # -1 -> [acc EXCEPT !.error = "DuplicateContentLength"]
               [] acc.length = -1 /\ value = -1 -> [acc EXCEPT !.error = "MalformedResponse"]
               [] acc.length = -1 /\ value > MaxBody -> [acc EXCEPT !.error = "BodyTooLarge"]
               [] OTHER -> [acc EXCEPT !.length = value]
    [] line.kind = "transfer" -> [acc EXCEPT !.transfer = TRUE]
    [] line.kind \in {"encoding", "nocolon"} -> [acc EXCEPT !.error = "MalformedResponse"]
    [] OTHER -> acc

HeaderLines(lines) ==
  FoldLeft(HeaderLine, [error |-> "None", length |-> -1, transfer |-> FALSE], lines)

HeaderError(acc) ==
  CASE acc.error # "None" -> acc.error
    [] acc.transfer /\ acc.length # -1 -> "MalformedResponse"
    [] acc.transfer -> "UnsupportedTransferEncoding"
    [] acc.length = -1 -> "MissingContentLength"
    [] OTHER -> "None"

(* header_end tokens come before the four that close the header.           *)
(* A header that is only a status line is malformed.                       *)
ParseHeaders(p, header_end) ==
  LET lines == SelectSeq(SubSeq(p.received, 1, header_end), LAMBDA t : t.kind \notin {"cr", "lf"})
      code  == IF lines = <<>> \/ Head(lines).kind # "status" THEN 0 ELSE Head(lines).text[1]
      acc   == HeaderLines(Tail(lines))
      q     == [p EXCEPT !.status_code = code, !.content_length = acc.length]
  IN  CASE Len(lines) < 2 \/ code = 0 -> Fail(p, "MalformedResponse", 0)
        [] HeaderError(acc) # "None" -> Fail(q, HeaderError(acc), code)
        [] OTHER -> [q EXCEPT !.headers_parsed = TRUE, !.body_offset = header_end + 4]

-----------------------------------------------------------------------------
(* consume and the two ways to finish without a complete response.         *)

FinishBodyIfComplete(p) ==
  LET body == SubSeq(p.received, p.body_offset + 1, Len(p.received))
  IN  CASE Len(body) > p.content_length -> Fail(p, "MalformedResponse", p.status_code)
        [] Len(body) < p.content_length -> p
        [] OTHER ->
             [p EXCEPT !.status = p.status_code, !.body = body, !.done = TRUE,
                       !.error = IF p.status_code \in 200..299
                                 THEN "None" ELSE "HttpStatusError"]

(* Where find("\r\n\r\n") can succeed, from the place first on. *)
Find(received, first) ==
  {i \in first..(Len(received) - 4) : SubSeq(received, i + 1, i + 4) = Crlf \o Crlf}

(* Mutant: the search goes on at the last chunk. *)
HeaderEndsInChunk(received, chunk) == Find(received, Len(received) - Len(chunk))

HeaderEnds(received, chunk) == Find(received, 0)

TooLong(size) == size > MaxHeader

Consume(p, chunk) ==
  LET q    == [p EXCEPT !.received = @ \o chunk]
      ends == HeaderEnds(q.received, chunk)
      h    == ParseHeaders(q, Min(ends))
  IN  CASE p.done -> p
        [] ~p.done /\ p.headers_parsed -> FinishBodyIfComplete(q)
        [] ~p.done /\ ~p.headers_parsed /\ ends = {} ->
             IF TooLong(Len(q.received)) THEN Fail(q, "HeaderTooLarge", 0) ELSE q
        [] OTHER ->
             CASE TooLong(Min(ends) + 4) -> Fail(q, "HeaderTooLarge", 0)
               [] h.done -> h
               [] OTHER -> FinishBodyIfComplete(h)

FinishOnTransportError(p, error) == IF p.done THEN p ELSE Fail(p, error, p.status_code)

FinishOnEof(p) ==
  IF p.done THEN p
  ELSE Fail(p, IF p.headers_parsed THEN "PrematureEof" ELSE "MalformedResponse", p.status_code)

-----------------------------------------------------------------------------
(* checkAuth: the body is parsed as JSON and its field allowed looked up.  *)

AuthBody(answer) == <<Token("{", <<>>), Token(answer, <<>>)>>

Ok(p) == p.error = "None" /\ p.status \in 200..299

(* Mutant: the outcome is read from the body of any complete response. *)
OutcomeOfAnyStatus(p) ==
  CASE p.body = AuthBody("true") -> "Allowed"
    [] p.body = AuthBody("false") -> "Denied"
    [] OTHER -> "Unavailable"

Outcome(p) ==
  CASE Ok(p) /\ p.body = AuthBody("true") -> "Allowed"
    [] Ok(p) /\ p.body = AuthBody("false") -> "Denied"
    [] OTHER -> "Unavailable"

====

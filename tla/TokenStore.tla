----------------------------- MODULE TokenStore -----------------------------
(***************************************************************************)
(* Tokens and authentication in the Go control plane.  Every request runs  *)
(* in a goroutine of its own, and several control planes may share one     *)
(* Redis, so handleAuthCheck is cut where it calls the store: each call of *)
(* Store is atomic (a mutex in memoryStore; one command or one Lua script  *)
(* in redisStore), the sequence of its three calls is not.  A call may     *)
(* fail, one that timed out may still have taken effect, and the Redis     *)
(* client repeats a call whose reply was lost.                             *)
(***************************************************************************)
EXTENDS Naturals, FiniteSets

CONSTANTS
  Clients,     \* client ids that validTokenClientID accepts
  Checks,      \* goroutines serving POST /auth/check
  Admins,      \* administrators, each with one request at a time
  Limit,       \* authFailures.limit
  Retries,     \* how often the Redis client repeats a call; none in memory
  MaxSecret,   \* bound: secrets generated in one run
  MayFail      \* bound: whether calls of the store fail in this run

ASSUME TokenAssumption ==
  /\ IsFiniteSet(Checks)
  /\ Limit \in Nat \ {0} /\ Retries \in Nat /\ MaxSecret \in Nat /\ MayFail \in BOOLEAN

VARIABLES
  tokens,       \* token:<client_id>: the token records; generation 0: none
  failures,     \* auth:failures:<client_id>: the counter, and whether it expires
  next_secret,  \* what generate() returns next
  known,        \* secrets that a reply delivered
  check,        \* what each goroutine of Checks is doing
  seen          \* generation and digest of each record as each administrator saw it last

vars == <<tokens, failures, next_secret, known, check, seen>>

-----------------------------------------------------------------------------
(* A token that generate() never returned. *)
Guess == 0

(* HMAC-SHA256 with the pepper: distinct secrets have distinct digests. *)
Digest(secret) == [hmac |-> secret]

Record == [generation : Nat, digest : [hmac : Nat], disabled : BOOLEAN]

NoRecord == [generation |-> 0, digest |-> Digest(Guess), disabled |-> FALSE]

(* What an administrator keeps of a record. *)
Seen(record) == [generation |-> record.generation, digest |-> record.digest]

NoFailures == [count |-> 0, expires |-> FALSE]

Replies ==
  {"none", "OK", "INVALID_CREDENTIALS", "TOKEN_DISABLED", "RATE_LIMITED", "AUTH_UNAVAILABLE"}

Init ==
  /\ tokens = [c \in Clients |-> NoRecord]
  /\ failures = [c \in Clients |-> NoFailures]
  /\ next_secret = 1
  /\ known = {}
  /\ check \in [Checks -> {[pc |-> "idle", client |-> c, secret |-> Guess,
                            reply |-> "none", stale |-> FALSE, tries |-> 0] : c \in Clients}]
  /\ seen = [a \in Admins |-> [c \in Clients |-> Seen(NoRecord)]]

-----------------------------------------------------------------------------
(* verifyDigest. *)
Decision(c, secret) ==
  IF tokens[c].generation = 0 THEN "INVALID_CREDENTIALS"
  ELSE IF tokens[c].disabled THEN "TOKEN_DISABLED"
  ELSE IF tokens[c].digest # Digest(secret) THEN "INVALID_CREDENTIALS"
  ELSE "OK"

(* recordAuthFailure: the first failure starts the window. *)
Recorded(f) == [count |-> f.count + 1, expires |-> f.expires \/ f.count = 0]

(* Mutant: increment and expiry are two commands, and the second may not come. *)
RecordFailureInTwoSteps(c) ==
  failures' \in {[failures EXCEPT ![c] = Recorded(@)], [failures EXCEPT ![c].count = @ + 1]}

RecordFailure(c) == failures' = [failures EXCEPT ![c] = Recorded(@)]

Answer(h, reply) ==
  check' = [check EXCEPT ![h].pc = "idle", ![h].secret = Guess, ![h].reply = reply,
                         ![h].tries = 0]

GoTo(h, pc) == check' = [check EXCEPT ![h].pc = pc]

(* handleAuthCheck is entered.  stale is a history field: the token the     *)
(* request carries was not valid when the request began.                    *)
AuthBegin(h, c, secret) ==
  /\ check[h].pc = "idle"
  /\ secret \in known \cup {Guess}
  /\ check' = [check EXCEPT ![h] = [pc |-> "limited", client |-> c, secret |-> secret,
                                    reply |-> "none", stale |-> Decision(c, secret) # "OK",
                                    tries |-> 0]]
  /\ UNCHANGED <<tokens, failures, next_secret, known, seen>>

(* Mutant: the limit is tested one failure too late. *)
LimitReachedLate(c) == failures[c].count > Limit

(* authFailureLimited. *)
LimitReached(c) == failures[c].count >= Limit

AuthLimited(h) ==
  /\ check[h].pc = "limited"
  /\ IF LimitReached(check[h].client) THEN Answer(h, "RATE_LIMITED") ELSE GoTo(h, "verify")
  /\ UNCHANGED <<tokens, failures, next_secret, known, seen>>

(* Mutant: the digest decides, whether the record is disabled or not. *)
AuthVerifyDigestOnly(h) ==
  /\ check[h].pc = "verify"
  /\ LET record == tokens[check[h].client]
         match == record.generation > 0 /\ record.digest = Digest(check[h].secret)
     IN
       check' = [check EXCEPT ![h].pc = IF match THEN "clear" ELSE "record",
                              ![h].reply = IF match THEN "OK" ELSE "INVALID_CREDENTIALS"]
  /\ UNCHANGED <<tokens, failures, next_secret, known, seen>>

AuthVerify(h) ==
  /\ check[h].pc = "verify"
  /\ LET decision == Decision(check[h].client, check[h].secret) IN
       check' = [check EXCEPT ![h].pc = IF decision = "OK" THEN "clear" ELSE "record",
                              ![h].reply = decision]
  /\ UNCHANGED <<tokens, failures, next_secret, known, seen>>

AuthRecord(h) ==
  /\ check[h].pc = "record"
  /\ RecordFailure(check[h].client)
  /\ LET count == failures'[check[h].client].count IN
       Answer(h, IF count >= Limit THEN "RATE_LIMITED" ELSE check[h].reply)
  /\ UNCHANGED <<tokens, next_secret, known, seen>>

AuthClear(h) ==
  /\ check[h].pc = "clear"
  /\ failures' = [failures EXCEPT ![check[h].client] = NoFailures]
  /\ Answer(h, "OK")
  /\ UNCHANGED <<tokens, next_secret, known, seen>>

(* The call that h makes now has changed the counter of c. *)
CounterChanged(h, c) ==
  \/ check[h].pc = "record" /\ RecordFailure(c)
  \/ check[h].pc = "clear" /\ failures' = [failures EXCEPT ![c] = NoFailures]

(* newRedisStore leaves the client's retries on: a call that was carried    *)
(* out, and whose reply was lost, is sent again.                            *)
AuthRepeat(h) ==
  /\ MayFail
  /\ check[h].tries < Retries
  /\ CounterChanged(h, check[h].client)
  /\ check' = [check EXCEPT ![h].tries = @ + 1]
  /\ UNCHANGED <<tokens, next_secret, known, seen>>

(* A call of the store fails; the counter may have been changed all the same. *)
AuthStoreFails(h) ==
  /\ MayFail
  /\ check[h].pc # "idle"
  /\ UNCHANGED failures \/ CounterChanged(h, check[h].client)
  /\ Answer(h, "AUTH_UNAVAILABLE")
  /\ UNCHANGED <<tokens, next_secret, known, seen>>

(* The window ends: PEXPIRE in Redis, expiresAt in memory. *)
FailuresExpire(c) ==
  /\ failures[c].expires
  /\ failures' = [failures EXCEPT ![c] = NoFailures]
  /\ UNCHANGED <<tokens, next_secret, known, check, seen>>

-----------------------------------------------------------------------------
(* The administrators' requests. *)

(* listTokens, one record of it. *)
ListToken(a, c) ==
  /\ seen' = [seen EXCEPT ![a][c] = Seen(tokens[c])]
  /\ UNCHANGED <<tokens, failures, next_secret, known, check>>

(* A script has put a new secret into the record of c.  The reply that      *)
(* delivers it may be lost; when the Redis client then sends the script     *)
(* again, this ends in a conflict, and the secret is lost all the same.     *)
Issue(a, c, record) ==
  /\ next_secret <= MaxSecret
  /\ next_secret' = next_secret + 1
  /\ tokens' = [tokens EXCEPT ![c] = record]
  /\ \/ known' = known \cup {next_secret} /\ seen' = [seen EXCEPT ![a][c] = Seen(record)]
     \/ MayFail /\ UNCHANGED <<known, seen>>
  /\ UNCHANGED <<failures, check>>

(* createToken: 409 when there is a record, disabled or not. *)
CreateToken(a, c) ==
  /\ tokens[c].generation = 0
  /\ Issue(a, c, [generation |-> 1, digest |-> Digest(next_secret), disabled |-> FALSE])

(* Mutant: If-Match is not compared. *)
RotateAnyGeneration(a, c) ==
  /\ tokens[c].generation > 0 /\ seen[a][c].generation > 0
  /\ Issue(a, c, [generation |-> tokens[c].generation + 1,
                  digest |-> Digest(next_secret), disabled |-> FALSE])

(* Mutant: rotating a disabled record only enables it. *)
RotateEnables(a, c) ==
  /\ tokens[c].generation > 0 /\ seen[a][c].generation = tokens[c].generation
  /\ Issue(a, c, [generation |-> tokens[c].generation + 1, disabled |-> FALSE,
                  digest |-> IF tokens[c].disabled THEN tokens[c].digest ELSE Digest(next_secret)])

(* rotateToken with the generation the administrator saw in If-Match; any   *)
(* other generation is a conflict.                                          *)
RotateToken(a, c) ==
  /\ tokens[c].generation > 0 /\ seen[a][c].generation = tokens[c].generation
  /\ Issue(a, c, [generation |-> tokens[c].generation + 1,
                  digest |-> Digest(next_secret), disabled |-> FALSE])

(* disableToken: the generation stays. *)
DisableToken(a, c) ==
  /\ tokens[c].generation > 0
  /\ tokens' = [tokens EXCEPT ![c].disabled = TRUE]
  /\ UNCHANGED <<failures, next_secret, known, check, seen>>

-----------------------------------------------------------------------------
CheckStep(h) ==
  \/ AuthLimited(h) \/ AuthVerify(h) \/ AuthRecord(h) \/ AuthClear(h)
  \/ AuthRepeat(h) \/ AuthStoreFails(h)

Next ==
  \/ \E h \in Checks : CheckStep(h)
  \/ \E h \in Checks, c \in Clients, s \in known \cup {Guess} : AuthBegin(h, c, s)
  \/ \E c \in Clients : FailuresExpire(c)
  \/ \E a \in Admins, c \in Clients :
       ListToken(a, c) \/ CreateToken(a, c) \/ RotateToken(a, c) \/ DisableToken(a, c)

Safety == Init /\ [][Next]_vars

(* A counter that expires does so; nothing is asked of the goroutines. *)
Fairness == \A c \in Clients : WF_vars(FailuresExpire(c))

Spec == Safety /\ Fairness

-----------------------------------------------------------------------------
(* Types; a goroutine that has passed the verification knows its outcome.   *)
TypeOK ==
  /\ tokens \in [Clients -> Record]
  /\ failures \in [Clients -> [count : Nat, expires : BOOLEAN]]
  /\ next_secret \in Nat \ {0}
  /\ known \subseteq 1..(next_secret - 1)
  /\ check \in [Checks -> [pc : {"idle", "limited", "verify", "record", "clear"},
                           client : Clients, secret : Nat, reply : Replies, stale : BOOLEAN,
                           tries : 0..Retries]]
  /\ seen \in [Admins -> [Clients -> {Seen(record) : record \in Record}]]

(* A token that was not valid when the request arrived is never accepted,   *)
(* although rotateToken enables a disabled record again and although the    *)
(* check is not atomic: what disableToken or rotateToken has revoked stays  *)
(* revoked.                                                                 *)
RevokedIsNeverAccepted ==
  \A h \in Checks : check[h].reply = "OK" => ~check[h].stale

(* The limit of failed authentications is tested before the failure is      *)
(* recorded, so concurrent requests can pass it together, but no more of    *)
(* them than there are requests in progress, and each counts at most once   *)
(* for every time the Redis client sends its script.                        *)
FailureCountBounded ==
  \A c \in Clients : failures[c].count < Limit + Cardinality(Checks) * (1 + Retries)

(* A rotation replaces the very secret its administrator saw: two           *)
(* administrators that read the same generation cannot both rotate it, and  *)
(* the second does not void the secret the first was given.                 *)
RotationReplacesWhatWasSeen ==
  [][\A a \in Admins, c \in Clients :
       RotateToken(a, c) => seen[a][c].digest = tokens[c].digest]_vars

(* Once issued, a secret is accepted without interruption or for ever       *)
(* refused: no sequence of administrative requests makes it valid again.    *)
RevocationIsFinal ==
  [][\A c \in Clients : \A s \in 1..(next_secret - 1) :
       Decision(c, s)' = "OK" => Decision(c, s) = "OK"]_vars

(* A client that ran into the limit gets out of it: every counter that      *)
(* reaches the limit has an expiry, whichever call has started it and       *)
(* however that call ended.                                                 *)
LockoutEnds ==
  \A c \in Clients : failures[c].count >= Limit ~> failures[c].count < Limit
=============================================================================

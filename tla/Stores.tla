------------------------------- MODULE Stores -------------------------------
(***************************************************************************)
(* The two implementations of the control plane's Store interface, side by *)
(* side: memoryStore (Go maps under a mutex) and redisStore (hashes, a     *)
(* set, counters with a time to live, Lua scripts).  Every operation runs  *)
(* on both with the same arguments at the same time, and the two replies   *)
(* are kept, so that a run compares the two stores.  Both start empty: a   *)
(* control plane in memory, and one with a fresh Redis.                    *)
(***************************************************************************)
EXTENDS Naturals, FiniteSets, Functions

CONSTANTS
  Clients,        \* client ids
  Digests,        \* token digests
  Settings,       \* the fields of a configuration that validates
  Defaults,       \* the fields of defaultRuntimeConfig
  Limit, Window,  \* authFailures.limit and authFailures.window
  MaxTime,        \* bound: the clock
  MaxVersion,     \* bound: token generations and config versions
  MaxFailures     \* bound: failures counted in one window

ASSUME StoresAssumption ==
  /\ Defaults \in Settings
  /\ {Limit, Window, MaxVersion, MaxFailures} \subseteq Nat \ {0} /\ MaxTime \in Nat

VARIABLES
  now,     \* the clock of both
  memory,  \* memoryStore
  redis,   \* the keys of Redis; a key that does not exist is not in the domain
  reply,   \* the last operation, and what it returned by memory and by redis
  early    \* history: a configuration was accepted before Redis had one

vars == <<now, memory, redis, reply, early>>

-----------------------------------------------------------------------------
(* The functions of map and Hash type are partial: *)
Put(f, k, v) == [x \in DOMAIN f \cup {k} |-> IF x = k THEN v ELSE f[x]]

Drop(f, k) == Restrict(f, DOMAIN f \ {k})

Partial(K, V) == UNION {[S -> V] : S \in SUBSET K}

Nothing == [x \in {} |-> x]

Token == [digest : Digests, generation : 1..MaxVersion, created_at : 0..MaxTime,
          updated_at : 0..MaxTime, disabled : BOOLEAN]

Config == [version : 1..MaxVersion, fields : Settings]

(* tokenEntry: a record without its digest. *)
Entry(t) == [generation |-> t.generation, created_at |-> t.created_at,
             updated_at |-> t.updated_at, disabled |-> t.disabled]

DefaultConfig == [version |-> 1, fields |-> Defaults]

Returns(op, m, r) == reply' = [op |-> op, memory |-> m, redis |-> r]

(* The client id that handlers refuse for a token, and handleAuthCheck does *)
(* not: its hash would have the name of the set token:index.                *)
Index == "index"

Init ==
  /\ now = 0
  /\ memory = [tokens |-> Nothing, authFailures |-> Nothing, config |-> DefaultConfig]
  /\ redis = [token |-> Nothing, index |-> {}, failures |-> Nothing, config |-> Nothing]
  /\ reply = [op |-> "none", memory |-> <<"none">>, redis |-> <<"none">>]
  /\ early = FALSE

-----------------------------------------------------------------------------
(* verifyDigest. *)
MemoryVerify(c, d) ==
  IF c \notin DOMAIN memory.tokens THEN <<"invalid">>
  ELSE IF memory.tokens[c].disabled THEN <<"disabled">>
  ELSE IF memory.tokens[c].digest # d THEN <<"invalid">>
  ELSE <<"allowed">>

(* HMGET of a set that exists is an error. *)
RedisVerify(c, d) ==
  LET digest == IF c \in DOMAIN redis.token THEN {redis.token[c].digest} ELSE {} IN
  IF c = Index /\ redis.index # {} THEN <<"error">>
  ELSE IF digest = {} THEN <<"invalid">>
  ELSE IF redis.token[c].disabled THEN <<"disabled">>
  ELSE IF d \notin digest THEN <<"invalid">>
  ELSE <<"allowed">>

VerifyDigest(c, d) ==
  /\ Returns(IF c = Index THEN "verifyDigest of index" ELSE "verifyDigest",
             MemoryVerify(c, d), RedisVerify(c, d))
  /\ UNCHANGED <<now, memory, redis, early>>

(* now.Before(counter.expiresAt) *)
MemoryFailures(c) ==
  c \in DOMAIN memory.authFailures /\ now < memory.authFailures[c].expiresAt

(* authFailureLimited: the memory store deletes a counter it finds expired. *)
AuthFailureLimited(c) ==
  /\ Returns("authFailureLimited",
             <<MemoryFailures(c) /\ memory.authFailures[c].count >= Limit>>,
             <<c \in DOMAIN redis.failures /\ redis.failures[c].count >= Limit>>)
  /\ memory' = IF MemoryFailures(c) THEN memory
               ELSE [memory EXCEPT !.authFailures = Drop(@, c)]
  /\ UNCHANGED <<now, redis, early>>

(* Mutant: every failure sets the time to live again. *)
RedisRecordRolling(c) ==
  LET count == IF c \in DOMAIN redis.failures THEN redis.failures[c].count + 1 ELSE 1
  IN  [count |-> count, ttl |-> Window]

(* The Lua script of recordAuthFailure: INCR, and PEXPIRE for the first one. *)
RedisRecord(c) ==
  IF c \in DOMAIN redis.failures THEN [redis.failures[c] EXCEPT !.count = @ + 1]
  ELSE [count |-> 1, ttl |-> Window]

RecordAuthFailure(c) ==
  LET m == IF MemoryFailures(c) THEN [memory.authFailures[c] EXCEPT !.count = @ + 1]
           ELSE [count |-> 1, expiresAt |-> now + Window]
      r == RedisRecord(c)
  IN  /\ m.count <= MaxFailures /\ r.count <= MaxFailures
      /\ memory' = [memory EXCEPT !.authFailures = Put(@, c, m)]
      /\ redis' = [redis EXCEPT !.failures = Put(@, c, r)]
      /\ Returns("recordAuthFailure", <<m.count>>, <<r.count>>)
      /\ UNCHANGED <<now, early>>

ClearAuthFailures(c) ==
  /\ memory' = [memory EXCEPT !.authFailures = Drop(@, c)]
  /\ redis' = [redis EXCEPT !.failures = Drop(@, c)]
  /\ Returns("clearAuthFailures", <<"ok">>, <<"ok">>)
  /\ UNCHANGED <<now, early>>

-----------------------------------------------------------------------------
(* createToken: the handler builds the record, the Lua script the hash and the index. *)
CreateToken(c, d) ==
  LET record == [digest |-> d, generation |-> 1, created_at |-> now,
                 updated_at |-> now, disabled |-> FALSE]
      in_memory == c \in DOMAIN memory.tokens
      in_redis == c \in DOMAIN redis.token
  IN  /\ memory' = IF in_memory THEN memory
                   ELSE [memory EXCEPT !.tokens = Put(@, c, record)]
      /\ redis' = IF in_redis THEN redis
                  ELSE [redis EXCEPT !.token = Put(@, c, record), !.index = @ \cup {c}]
      /\ Returns("createToken", <<IF in_memory THEN "exists" ELSE "ok">>,
                 <<IF in_redis THEN "exists" ELSE "ok">>)
      /\ UNCHANGED <<now, early>>

(* The record that rotateToken writes, in either store. *)
Rotated(t, d) ==
  [t EXCEPT !.generation = @ + 1, !.digest = d, !.updated_at = now, !.disabled = FALSE]

(* What the handler's reply takes of rotateToken's result. *)
RotateReply(store, c, expected) ==
  IF c \notin DOMAIN store THEN <<"not found">>
  ELSE IF store[c].generation # expected THEN <<"conflict">>
  ELSE <<"ok", store[c].generation + 1>>

RotateToken(c, expected, d) ==
  LET m == RotateReply(memory.tokens, c, expected)
      r == RotateReply(redis.token, c, expected)
  IN  /\ expected < MaxVersion
      /\ memory' = IF m[1] = "ok" THEN [memory EXCEPT !.tokens[c] = Rotated(@, d)] ELSE memory
      /\ redis' = IF r[1] = "ok" THEN [redis EXCEPT !.token[c] = Rotated(@, d)] ELSE redis
      /\ Returns("rotateToken", m, r)
      /\ UNCHANGED <<now, early>>

(* The Lua script of disableToken. *)
RedisDisable(c) ==
  IF c \notin DOMAIN redis.token THEN redis
  ELSE [redis EXCEPT !.token[c].disabled = TRUE, !.token[c].updated_at = now]

DisableToken(c) ==
  LET found(store) == <<IF c \in DOMAIN store THEN "ok" ELSE "not found">> IN
  /\ memory' = IF c \notin DOMAIN memory.tokens THEN memory
               ELSE [memory EXCEPT !.tokens[c].disabled = TRUE, !.tokens[c].updated_at = now]
  /\ redis' = RedisDisable(c)
  /\ Returns("disableToken", found(memory.tokens), found(redis.token))
  /\ UNCHANGED <<now, early>>

(* listTokens: Redis reads the index, and skips an id whose hash is empty. *)
ListTokens ==
  /\ Returns("listTokens",
             <<[c \in DOMAIN memory.tokens |-> Entry(memory.tokens[c])]>>,
             <<[c \in redis.index \cap DOMAIN redis.token |-> Entry(redis.token[c])]>>)
  /\ UNCHANGED <<now, memory, redis, early>>

-----------------------------------------------------------------------------
(* getConfig: the initialising script, then HGETALL. *)
GetConfig ==
  LET config == IF DOMAIN redis.config = {} THEN Put(Nothing, "active", DefaultConfig)
                ELSE redis.config
  IN  /\ redis' = [redis EXCEPT !.config = config]
      /\ Returns("getConfig", <<memory.config>>, <<config["active"]>>)
      /\ UNCHANGED <<now, memory, early>>

(* updateConfig: the Lua script finds no version before the first getConfig. *)
UpdateConfig(expected, fields) ==
  LET next == [version |-> expected + 1, fields |-> fields]
      m == memory.config.version = expected
      r == DOMAIN redis.config # {} /\ redis.config["active"].version = expected
  IN  /\ expected < MaxVersion
      /\ memory' = IF m THEN [memory EXCEPT !.config = next] ELSE memory
      /\ redis' = IF r THEN [redis EXCEPT !.config = Put(@, "active", next)] ELSE redis
      /\ Returns("updateConfig", IF m THEN <<"ok", next>> ELSE <<"conflict">>,
                 IF r THEN <<"ok", next>> ELSE <<"conflict">>)
      /\ early' = (early \/ (m /\ DOMAIN redis.config = {}))
      /\ UNCHANGED now

-----------------------------------------------------------------------------
(* Time passes: Redis deletes the counters whose time to live is over. *)
Tick ==
  /\ now < MaxTime
  /\ now' = now + 1
  /\ redis' = [redis EXCEPT !.failures =
                 [c \in {x \in DOMAIN @ : @[x].ttl > 1} |-> [@[c] EXCEPT !.ttl = @ - 1]]]
  /\ UNCHANGED <<memory, reply, early>>

Next ==
  \/ \E c \in Clients :
       \/ \E d \in Digests :
            \/ CreateToken(c, d)
            \/ \E expected \in 1..MaxVersion : RotateToken(c, expected, d)
       \/ DisableToken(c)
       \/ AuthFailureLimited(c) \/ RecordAuthFailure(c) \/ ClearAuthFailures(c)
  \/ \E c \in Clients \cup {Index}, d \in Digests : VerifyDigest(c, d)
  \/ ListTokens
  \/ GetConfig
  \/ \E expected \in 1..MaxVersion, fields \in Settings : UpdateConfig(expected, fields)
  \/ Tick

Spec == Init /\ [][Next]_vars

-----------------------------------------------------------------------------
(* The type of every variable; a token hash in Redis has all its fields. *)
TypeOK ==
  /\ now \in 0..MaxTime
  /\ memory.tokens \in Partial(Clients, Token)
  /\ memory.authFailures \in
       Partial(Clients, [count : 1..MaxFailures, expiresAt : 0..MaxTime + Window])
  /\ memory.config \in Config
  /\ redis.token \in Partial(Clients, Token)
  /\ redis.index \subseteq Clients
  /\ redis.failures \in Partial(Clients, [count : 1..MaxFailures, ttl : 1..Window])
  /\ redis.config \in Partial({"active"}, Config)
  /\ early \in BOOLEAN

(* The same sequence of operations gets the same replies from both stores, *)
(* and leaves the same in both: the same token records, each with its id   *)
(* in token:index; the same configuration; and for each client the same    *)
(* count of failures, to end at the same time.  The memory store may also  *)
(* hold counters that ended, which authFailureLimited and                  *)
(* recordAuthFailure read as none.  There are two exceptions, where        *)
(* docs/redis_schema.md (MemoryStore mimics the same behaviour) says more  *)
(* than the code does, and the stores differ nowhere else.  An update of   *)
(* version 1 before any getConfig is accepted in memory and a conflict in  *)
(* Redis, and from then on the configurations, not the tokens, may differ. *)
(* And a check of the client id index is refused as invalid in memory, and *)
(* fails in Redis once there is a token.                                   *)
StoresAgree ==
  /\ \/ reply.memory = reply.redis
     \/ reply.op \in {"getConfig", "updateConfig"} /\ early
     \/ reply = [op |-> "verifyDigest of index", memory |-> <<"invalid">>, redis |-> <<"error">>]
  /\ redis.token = memory.tokens
  /\ redis.index = DOMAIN redis.token
  /\ early \/ (IF DOMAIN redis.config = {} THEN DefaultConfig ELSE redis.config["active"])
               = memory.config
  /\ \A c \in Clients :
       IF c \in DOMAIN redis.failures
       THEN /\ c \in DOMAIN memory.authFailures
            /\ memory.authFailures[c] = [count |-> redis.failures[c].count,
                                         expiresAt |-> now + redis.failures[c].ttl]
       ELSE c \in DOMAIN memory.authFailures => memory.authFailures[c].expiresAt <= now
=============================================================================

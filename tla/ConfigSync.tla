----------------------------- MODULE ConfigSync -----------------------------
(***************************************************************************)
(* The runtime configuration on its way from the administrators to the     *)
(* gateways.  PUT /config compares and replaces config:active in one Redis *)
(* script.  GET /config runs a script that creates config:active if there  *)
(* is none, and reads it with a second command.  The config puller of each *)
(* gateway fetches it, validates it and takes it over if it is newer.      *)
(* Requests may be delayed, repeated, and fail with or without effect; the *)
(* store may lose its contents.                                            *)
(***************************************************************************)
EXTENDS Naturals, FiniteSets

CONSTANTS
  Admins,      \* administrators
  Gateways,    \* gateway processes
  Fields,      \* what PUT /config is called with
  MaxVersion,  \* bound: the highest version written in one run
  MaxPuts,     \* bound: updates on their way at a time
  MaxLosses,   \* bound: how often the store loses its contents
  MayFail      \* bound: whether requests fail in this run

ASSUME ConfigAssumption ==
  /\ \A f \in Fields : f \in [max_payload_size : Nat, max_connections_per_client : Nat,
                              max_requests_per_client_per_second : Nat,
                              slow_client_output_limit : Nat, log_level : STRING]
  /\ MaxVersion \in Nat /\ MaxPuts \in Nat /\ MaxLosses \in Nat /\ MayFail \in BOOLEAN

VARIABLES
  active,    \* config:active
  pc,        \* where the GET of each administrator and each config puller is
  seen,      \* the configuration each administrator was given last
  puts,      \* updates sent and not yet executed
  fetched,   \* what the last GET of each config puller returned
  runtime,   \* runtime_config_ of each gateway
  losses     \* how often the store has lost its contents

vars == <<active, pc, seen, puts, fetched, runtime, losses>>

-----------------------------------------------------------------------------
(* A configuration: its version, what PUT /config sets, and                 *)
(* request_queue_capacity_display, which no request sets.                   *)
Config(version, fields, display) ==
  [version |-> version, fields |-> fields, display |-> display]

(* defaultRuntimeConfig in Go and RuntimeConfig{} in C++ are the same. *)
DefaultFields ==
  [max_payload_size |-> 1048576, max_connections_per_client |-> 2,
   max_requests_per_client_per_second |-> 100, slow_client_output_limit |-> 8388608,
   log_level |-> "INFO"]

DefaultDisplay == 4096

DefaultConfig == Config(1, DefaultFields, DefaultDisplay)

(* No config:active: redisInt makes 0 of a missing number, and a missing    *)
(* log_level is the empty string.                                           *)
Absent ==
  Config(0, [f \in DOMAIN DefaultFields |-> IF f = "log_level" THEN "" ELSE 0], 0)

(* A hash without request_queue_capacity_display, for which the script of   *)
(* getConfig has its HSETNX.                                                *)
WithoutDisplay == Config(2, DefaultFields, 0)

(* strings.ToUpper, on the spellings that occur. *)
ToUpper(level) ==
  LET upper == [debug |-> "DEBUG", info |-> "INFO", warn |-> "WARN", error |-> "ERROR",
                Warn |-> "WARN", verbose |-> "VERBOSE"]
  IN  IF level \in DOMAIN upper THEN upper[level] ELSE level

LogLevels == {"DEBUG", "INFO", "WARN", "ERROR"}

(* validateConfigUpdate. *)
ValidateConfigUpdate(f) ==
  /\ f.max_payload_size \in 10..4194314
  /\ f.max_connections_per_client \in 1..2147483647
  /\ f.max_requests_per_client_per_second \in 1..2147483647
  /\ f.slow_client_output_limit \in (f.max_payload_size + 4)..67108864
  /\ ToUpper(f.log_level) \in LogLevels

MaxPayloadSize == 4 * 1024 * 1024

(* parseRuntimeConfig. *)
ParseRuntimeConfig(c) ==
  /\ c.version >= 1
  /\ c.fields.max_payload_size \in 10..(MaxPayloadSize + 10)
  /\ c.fields.max_connections_per_client \in 1..2147483647
  /\ c.fields.max_requests_per_client_per_second \in 1..2147483647
  /\ c.fields.slow_client_output_limit \in (c.fields.max_payload_size + 4)..(64 * 1024 * 1024)
  /\ c.fields.log_level \in LogLevels
  /\ c.display \in 1..65536

Init ==
  /\ active \in {Absent, WithoutDisplay}
  /\ pc = [r \in Admins \cup Gateways |-> "get"]
  /\ seen = [a \in Admins |-> Absent]
  /\ puts = {}
  /\ fetched = [g \in Gateways |-> Absent]
  /\ runtime = [g \in Gateways |-> DefaultConfig]
  /\ losses = 0

-----------------------------------------------------------------------------
(* The control plane. *)

GoTo(r, label) == pc' = [pc EXCEPT ![r] = label]

(* What a stored configuration's display capacity becomes if it has none. *)
DisplayOr(display) == IF active.display = 0 THEN display ELSE active.display

(* getConfig of either kind of reader begins: the script that creates the   *)
(* hash, or completes it.                                                   *)
GetInit(r) ==
  /\ pc[r] = "get"
  /\ GoTo(r, "read")
  /\ active' = IF active.version = 0 THEN DefaultConfig
               ELSE [active EXCEPT !.display = DisplayOr(DefaultDisplay)]
  /\ UNCHANGED <<seen, puts, fetched, runtime, losses>>

(* HGETALL for an administrator's GET. *)
GetRead(a) ==
  /\ a \in Admins /\ pc[a] = "read"
  /\ GoTo(a, "get")
  /\ seen' = [seen EXCEPT ![a] = active]
  /\ UNCHANGED <<active, puts, fetched, runtime, losses>>

(* handleConfigUpdate is entered with the ETag the administrator has in     *)
(* If-Match; parseGeneration wants it to be positive.  base is a history    *)
(* field: what the administrator was shown with that ETag.                  *)
SendUpdate(a, f) ==
  /\ seen[a].version > 0 /\ seen[a].version < MaxVersion
  /\ ValidateConfigUpdate(f)
  /\ Cardinality(puts) < MaxPuts
  /\ puts' = puts \cup {[admin |-> a, base |-> seen[a], fields |-> f]}
  /\ UNCHANGED <<active, pc, seen, fetched, runtime, losses>>

(* Mutant: the version in If-Match is not compared. *)
MatchesAnyVersion(put) == active.version > 0

(* The comparison of the update script. *)
MatchesVersion(put) == active.version > 0 /\ active.version = put.base.version

(* Mutant: the fields are written and the version is not. *)
SuccessorSameVersion(put) ==
  Config(active.version, [put.fields EXCEPT !.log_level = ToUpper(@)], DisplayOr(DefaultDisplay))

(* Mutant: the log level is written as it was sent. *)
SuccessorAsSent(put) ==
  Config(active.version + 1, put.fields, DisplayOr(DefaultDisplay))

(* What the update script writes. *)
Successor(put) ==
  Config(active.version + 1, [put.fields EXCEPT !.log_level = ToUpper(@)],
         DisplayOr(DefaultDisplay))

(* updateConfig: compare, increment and write every field, or conflict. *)
UpdateConfig(put) ==
  /\ put \in puts
  /\ puts' = puts \ {put}
  /\ IF MatchesVersion(put)
     THEN /\ active' = Successor(put)
          /\ \/ seen' = [seen EXCEPT ![put.admin] = Successor(put)]
             \/ MayFail /\ UNCHANGED seen
     ELSE UNCHANGED <<active, seen>>
  /\ UNCHANGED <<pc, fetched, runtime, losses>>

(* Redis restarts without its data. *)
StoreLost ==
  /\ losses < MaxLosses
  /\ losses' = losses + 1
  /\ active' = Absent
  /\ UNCHANGED <<pc, seen, puts, fetched, runtime>>

-----------------------------------------------------------------------------
(* configPullerLoop of a gateway. *)

(* fetchConfig: HGETALL answers the GET; a body that parseRuntimeConfig     *)
(* refuses counts as a failed fetch.                                        *)
FetchConfig(g) ==
  /\ g \in Gateways /\ pc[g] = "read"
  /\ IF ParseRuntimeConfig(active)
     THEN GoTo(g, "apply") /\ fetched' = [fetched EXCEPT ![g] = active]
     ELSE GoTo(g, "wait") /\ UNCHANGED fetched
  /\ UNCHANGED <<active, seen, puts, runtime, losses>>

(* The request of an administrator or a gateway fails at either command. *)
GetFails(r) ==
  /\ MayFail
  /\ pc[r] \in {"get", "read"}
  /\ GoTo(r, IF r \in Gateways THEN "wait" ELSE "get")
  /\ UNCHANGED <<active, seen, puts, fetched, runtime, losses>>

(* Mutant: any other version is taken over. *)
IsOther(candidate, current) == candidate.version # current.version

(* The comparison of applyRuntimeConfigIfNewer. *)
IsNewer(candidate, current) == candidate.version > current.version

ApplyRuntimeConfigIfNewer(g) ==
  /\ pc[g] = "apply"
  /\ GoTo(g, "wait")
  /\ runtime' = [runtime EXCEPT ![g] = IF IsNewer(fetched[g], @) THEN fetched[g] ELSE @]
  /\ UNCHANGED <<active, seen, puts, fetched, losses>>

(* Five seconds later. *)
WaitOver(g) ==
  /\ pc[g] = "wait"
  /\ GoTo(g, "get")
  /\ UNCHANGED <<active, seen, puts, fetched, runtime, losses>>

-----------------------------------------------------------------------------
PullerStep(g) == GetInit(g) \/ FetchConfig(g) \/ GetFails(g) \/ ApplyRuntimeConfigIfNewer(g) \/ WaitOver(g)

Next ==
  \/ \E g \in Gateways : PullerStep(g)
  \/ \E a \in Admins : GetInit(a) \/ GetRead(a) \/ GetFails(a)
  \/ \E a \in Admins, f \in Fields : SendUpdate(a, f)
  \/ \E put \in puts : UpdateConfig(put)
  \/ StoreLost

Safety == Init /\ [][Next]_vars

(* The puller threads run, and the control plane does not fail for ever: a  *)
(* fetch that is attempted again and again is answered at some time.        *)
Fairness ==
  \A g \in Gateways : /\ WF_vars(PullerStep(g))
                      /\ SF_vars(GetInit(g))
                      /\ SF_vars(FetchConfig(g))

Spec == Safety /\ Fairness

-----------------------------------------------------------------------------
Numbers == DOMAIN DefaultFields \ {"log_level"}

IsConfig(c) ==
  /\ DOMAIN c = {"version", "fields", "display"}
  /\ c.version \in Nat /\ c.display \in Nat
  /\ DOMAIN c.fields = DOMAIN DefaultFields
  /\ \A f \in Numbers : c.fields[f] \in Nat
  /\ c.fields.log_level \in STRING

(* Types. A puller that is about to apply a configuration has validated it. *)
TypeOK ==
  /\ DOMAIN pc = Admins \cup Gateways /\ DOMAIN seen = Admins
  /\ DOMAIN fetched = Gateways /\ DOMAIN runtime = Gateways
  /\ \A r \in DOMAIN pc : pc[r] \in {"get", "read", "apply", "wait"}
  /\ IsConfig(active)
  /\ \A a \in Admins : IsConfig(seen[a])
  /\ \A g \in Gateways : IsConfig(fetched[g]) /\ IsConfig(runtime[g])
  /\ \A put \in puts : put.admin \in Admins /\ IsConfig(put.base) /\ put.fields \in Fields
  /\ losses \in 0..MaxLosses
  /\ \A g \in Gateways : pc[g] = "apply" => ParseRuntimeConfig(fetched[g])

(* As long as the store keeps its data a version names one configuration:   *)
(* two gateways, an administrator and the store that have the same version  *)
(* have the same values, and nobody is ahead of the store.                  *)
VersionNamesOneConfig ==
  LET held == {active} \cup {runtime[g] : g \in Gateways} \cup {seen[a] : a \in Admins}
  IN  losses = 0 =>
        /\ \A c, d \in held : c.version = d.version => c = d
        /\ active.version > 0 => \A c \in held : c.version <= active.version

(* No update is lost: whenever updateConfig replaces a configuration, its   *)
(* administrator had been shown exactly the configuration that is replaced, *)
(* however long the request took and whatever else was sent meanwhile, as   *)
(* long as the store keeps its data.                                        *)
NoUpdateIsLost ==
  [][\A put \in puts :
       losses = 0 /\ UpdateConfig(put) /\ active' # active => put.base = active]_vars

(* A gateway keeps its last known good configuration: what replaces it is   *)
(* a valid one with a higher version, even after the store has lost its     *)
(* data and counts from 1 again.                                            *)
LastKnownGood ==
  [][\A g \in Gateways : runtime'[g] # runtime[g] =>
       ParseRuntimeConfig(runtime'[g]) /\ runtime'[g].version > runtime[g].version]_vars

(* Every configuration that validateConfigUpdate lets in reaches every      *)
(* gateway, or a later one does: parseRuntimeConfig, which knows only       *)
(* capitals in log_level and insists on a display capacity, refuses nothing *)
(* of what the two scripts leave in the store, and failed fetches are       *)
(* repeated, as long as the store keeps its data.                           *)
UpdatesReachGateways ==
  \A g \in Gateways, v \in 1..MaxVersion :
    losses = 0 /\ active.version = v ~> losses > 0 \/ runtime[g].version >= v
=============================================================================

# Verification of gateway-system

TLA+ specifications of the gateway: the C++ data plane (`cpp-gateway`) and the
Go control plane with its Redis store (`go-control-plane`). TLC checks them on
small instances, TLAPS proves part of what is checked for all values of the
constants. Every definition that models code is listed with its lines in
`PROJECT.json` under `map`.

## The system

    clients ──TCP──> reactor ──request_queue_──> workers ──┐
                        │  ──auth_queue_──> auth workers ──┤── HTTP /auth/check ──> Go ──> Redis
                        │ <──────response_queue_───────────┘                        │
                        └ config puller ──────────── HTTP GET /config ──────────────┘
                                       administrators ── /tokens, PUT /config ──────┘

* **Reactor** (`TcpServer`): one thread with an edge-triggered epoll. It owns
  every `Connection`, decodes frames, admits work to two bounded queues, applies
  the responses of the workers, and drains everything at shutdown.
* **Workers and auth workers**: blocking consumers of `BlockQueue`s. They push
  responses to a third queue and write an eventfd (`ReactorNotifier`).
* **Control plane client** (`ControlPlaneClient`, `HttpResponseParser`,
  `SocketDeadline`): one HTTP request per connection under an absolute deadline.
* **Config puller**: a thread that fetches the runtime configuration every five
  seconds.
* **Go control plane**: handlers over a `Store`, either in memory or in Redis
  with Lua scripts: tokens with generations, counters of failed authentications
  with an expiry, a versioned configuration.
* Around them: startup configuration on both sides, logger, log storage,
  statistics, HTTP helpers. `PROJECT.json` lists every part with its status.

## Modules

| Module | Models | Checked by | Proved in |
| --- | --- | --- | --- |
| `BoundedQueue` | what a queue promises | | |
| `BlockQueue` | `BlockQueue.hpp` | `queue` | `BlockQueueProofs` |
| `Gateway` | `TcpServer`, its workers, notifier and connections | `gateway`, `gateway_shutdown`, `gateway_liveness` | `GatewayStepProofs`, `GatewayProofs` |
| `Lifecycle` | `start`, `stop`, signals, threads and notifier of `TcpServer` | `lifecycle` | |
| `ShutdownBudget` | the times of a shutdown, and the startup validation of its timeouts | `shutdown_budget` | |
| `ProtocolCodec` | `ProtocolCodec.cpp` and the input buffer of a connection | `codec` | |
| `HttpResponse` | `HttpResponseParser` and `checkAuth`'s outcome | `client` | |
| `ControlPlaneClient` | one request under a `SocketDeadline`, and what it receives | `client` | |
| `TokenStore` | tokens and `/auth/check` in Go | `tokens` | |
| `ConfigSync` | `/config` in Go, config pullers in C++ | `config` | |
| `Stores` | `memoryStore` and `redisStore` side by side | `stores` | |
| `ServeUntilShutdown` | `app.go` | `control_plane_shutdown` | |

`ControlPlaneClient` is composed with the parser of `HttpResponse`, and
`ConfigSync` has both the Go and the C++ side of the configuration. The other
modules meet in their interfaces: `Gateway` chooses among the outcomes that
`ProtocolCodec` and `HttpResponse` produce, `ShutdownBudget` and `Lifecycle`
assume of a request what `ControlPlaneClient` shows (it waits for nothing beyond
its deadline), and `Lifecycle` treats as one thread what `Gateway` says of a
worker.

The `MC` modules add symmetry sets and, where the inputs are structured
(responses, frames, configurations), the small sets of them. Operators marked
"Mutant" in a comment are wrong variants of the definition that follows them.
They belong to no specification; each one, put in the place of that definition,
makes TLC report the property listed with it in `PROJECT.json`.

### BlockQueue and BoundedQueue

`BlockQueue` has the mutex-protected queue, its `stopped_` flag and, for every
consumer, whether it runs, sleeps in the condition variable or has been woken
and has not run yet. `Push`, `TryPop`, `Stop` and `Abort` are critical sections
and therefore single actions. `pop` is cut at the wait: `PopCall` tests the
predicate and takes an item or sleeps, `PopWake` tests it again. A sleeping
consumer may wake spuriously.

`BoundedQueue` is the abstract queue without a condition variable: a consumer
asks, and later takes an item or is released. `ImplementsBoundedQueue` states
the refinement including fairness. `Gateway` uses the abstract view: its queue
operations are atomic, and a blocked `pop` is one that is not enabled.

### Gateway

A step is what one thread does between two accesses to shared state: a queue
operation, an access to `rejected_response_connections_`, a write of the
eventfd. The rest of what the reactor does is invisible to the workers, so its
handlers are cut only there. `rpc` says where the reactor is:

    top ─> wait ─> batch ─> responses ─> rejected ─> check ─> top ... finish ─> join ─> done
                   │                                   └ request ─> auth ─> response ─> complete ─┐
                   │                                     └────────── late ─> top <────────────────┘
                   └ read ─> push ─> admit ─> local ─> read ... hup ─> write ─> batch

* `connections` is `connections_` by descriptor. A descriptor is free as soon as
  its connection is closed, and `HandleAccept` may reuse it at once. `conn_id`s
  are never reused.
* A connection keeps `in_flight_work`, the pending authentication, `closing`,
  `read_eof`, and its output buffer as a sequence of responses. Bytes, payloads
  and frame layout are abstracted away; what `decode` can return (nothing, an
  AUTH, requests, an invalid frame) is a choice.
* `PushWork` and `Admit` are two actions because the code counts an item after
  it has pushed it.
* What the control plane says of an AUTH is a choice; `granted` records the
  positive answers.
* `runtime_config` has the two limits that `applyResponse` reads when it applies
  a response. `PullConfig` is the puller replacing them, at any time until the
  reactor has joined it.
* The drain test reads the three queues one after the other, and the workers run
  in between: `CheckDrain`, `CheckQueue`, `CheckConnections`, `CheckDeadline`.
* `deadline` is set by `DeadlinePasses` at any time after draining began.
* `eventfd` says that the counter is not zero, which is all epoll looks at.

The frames the peers send, the connections accepted, the size of one epoll batch
and of one `recv` are bounded by constants named as bounds in the module.

### TokenStore

A store call is atomic (a mutex, one Redis command or one script), a handler is
not. `handleAuthCheck` is cut at its calls: `AuthLimited`, `AuthVerify`, and
`AuthRecord` or `AuthClear`. An administrator sends the generation that was
shown last, however old. A call may fail without effect or after it has taken
effect (`AuthStoreFails`, and the lost reply in `Issue`). `newRedisStore` leaves
the retries of the Redis client on, so a script whose reply was lost may be
carried out again (`AuthRepeat`); for the scripts of the administrators this ends
in a conflict, which is a lost reply to them. A call that has returned does not
take effect later. The expiry of a counter is an event that may come at any
time once it is set. Secrets are numbers; a digest is an injective function of
the secret, as the comparison of HMACs assumes.

### ConfigSync

`getConfig` is two commands (`GetInit`, then `GetRead` for an administrator or
`FetchConfig` for a gateway), `updateConfig` one script. Updates wait in `puts`,
so they can be executed late, in any order, and after the administrator has gone
on. `StoreLost` empties Redis, which `docker-compose.yml` gives no named volume.
Both validations are modelled with their ranges: `ValidateConfigUpdate` in Go,
`ParseRuntimeConfig` in C++, `log_level` included: Go accepts it in any case and
stores it in capitals, C++ accepts only those. `request_queue_capacity_display`
is no field of an update; the script keeps the stored one, or sets the default
where it is missing, as in a hash of an older version, with which a run may
begin. The administrator is assumed to send the ETag of
the last answer in `If-Match`.

### Lifecycle

`Gateway` begins with a running server; `Lifecycle` is about how it gets there
and ends. One thread is in `start` (`lpc`): the compare-and-swap of `started_`,
`initServer` which may fail before or after the notifier is open, RUNNING and
the readiness file, the threads, the loop, `finishShutdown`. Other threads call
`stop`, the signal handler runs once at any time after it is installed, workers
use the notifier and leave, the puller fetches and waits. `notify` is two steps,
the load of `fd_` and the write, and a condition variable is three places
(testing, about to sleep with the mutex, asleep), so that lost wakeups and
writes to a closed descriptor can happen. The handler runs on any thread of the
process (`host`), which stands still meanwhile. `strays` records the threads
that wrote to the number of the closed eventfd. `Destroy` is the owner's
destructor, after `start` has ended and with nobody in `stop`.
`background_wait_cv_` is notified without its mutex, as in the code: the puller
may miss it and then waits its interval out.

Not modelled: `stop` before `start` (nothing in the program calls it then),
`stop` on the reactor's own thread (which returns without waiting), the
unsynchronised read of `loop_thread_id_`, `start` called again after it has
failed, and a `std::thread` that cannot be created (the program terminates).

### ShutdownBudget

A clock with whole ticks. `Accepts` is the test in `parseStartupConfig`; every
pair of timeouts it lets through is an initial state. AUTH workers pop tasks,
read the state, ask for the shutdown deadline under its mutex, and are busy for
as long as the client's deadline allows; the puller's fetch has no limit but its
timeout. Time passes only when no thread can go on by itself, except that any
request may end early. The resolver is taken to answer in no time:
`docs/shutdown.md` names `getaddrinfo` as the exception.

### ProtocolCodec

`Encode` and `Loop` are `encode` and `decode` on sequences of bytes in base 4
with a two-byte length; the limits are scaled with them, the additions wrap at
the width of the field. A stream is a sequence of frames and a tail, cut into
reads anywhere. `NothingLostOrInvented` compares the encoding of what was
admitted with the bytes that were sent, not with another parser.

### HttpResponse and ControlPlaneClient

A response is a sequence of tokens (status line, header line, CR, LF, piece of a
body), so that all the cuts that matter for the control flow can be taken, the
ones within the four characters that close the header too, and no string is put
together. Trimming and the case of header names are below that
level. `WellFormed` says what a response must be like without reference to the
parser. Every call of `poll` may return because the socket is ready, return
early, be interrupted, fail, or time out; `getaddrinfo` takes any time, as the
code's comment says, and the deadline starts after it unless the caller has a
limit.

### Stores

Every action performs one operation of the `Store` interface on both
implementations; `StoresAgree` compares the replies and the data.
The stores differ in how a failure counter expires: Redis removes the key, the
memory store keeps the entry until it is looked at. Both start empty, and they
differ visibly in two places, which `StoresAgree` names: an update before the
first read of the configuration, and an authentication of the client id `index`.
What the handlers do not use of a reply (the rest of the record that
`rotateToken` returns) is left out.

### ServeUntilShutdown

`Serve` and `Shutdown` of `net/http` are external and modelled by their
documented contract: after `Shutdown` begins, `Serve` returns `ErrServerClosed`
and no connection is accepted; `Shutdown` returns once all connections are idle
or closed, or when its context ends. A connection that is accepted in the last
instant is taken to be known to `Shutdown`. Requests call the store while they
run. The signal can come before the goroutine has called `Serve`.

## Runs

| Run | Shows | States |
| --- | --- | --- |
| `queue` | `NoLostWakeup`, `FifoConservation`: no consumer sleeps while there is something for it, no item is lost or reordered; `ImplementsBoundedQueue`: the refinement, liveness included | 21 787 |
| `gateway` | `AuthenticatedOnlyIfGranted`, `ResponsesReachTheirConnection`, `OneAuthPerConnection`, `InFlightAccounting`, `BatchIsFresh`, `ClientConnectionLimit` with two clients, reused descriptors, full queues and a limit per client that changes | 1 036 108 |
| `gateway_shutdown` | stop at any time and failing system calls: `WindowsBelongToConnections`, `GracefulStopIsComplete`, `DrainedLeavesNothing`, `NoLostNotification`, `DrainWaitsOnlyForPeers`, `ResponsesAcceptedUntilLastWorker` | 2 343 891 |
| `gateway_liveness` | `ShutdownCompletes`, `AdmittedWorkFinishes` | 130 429 |
| `tokens` | `RevokedIsNeverAccepted`, `RevocationIsFinal`, `RotationReplacesWhatWasSeen`, `FailureCountBounded`, and that a lockout ends (`LockoutEnds`) | 687 662 |
| `config` | `VersionNamesOneConfig`, `NoUpdateIsLost` and `UpdatesReachGateways` while the store keeps its data, `LastKnownGood` also when it does not | 55 385 |
| `lifecycle` | `NoStrayWrites`, `StopMeansStopped`, and that `stop` returns and a signal ends the server (`StopReturns`, `SignalStopsServer`) | 221 585 |
| `client` | `CutsDoNotMatter`, `CompleteIffWellFormed`, `AuthFailsClosed` for what is received; `WaitsEndAtTheDeadline` for its times | 1 242 612 |
| `shutdown_budget` | `InFlightWorkIsCovered`, `ShutdownEndsInTime` | 75 912 |
| `codec` | `NothingLostOrInvented` | 6 416 |
| `stores` | `StoresAgree` | 646 228 |
| `control_plane_shutdown` | `RequestsKeepTheirStore`, `ShutdownReturnsEventually` | 845 |

Each property is explained in a comment at its definition. The runs list what
takes several steps to go wrong. `TypeOK` of `BlockQueue` and `Gateway` is
proved; in the other modules it documents the variables and no run lists it.

Deadlock is checked in every run but one: a gateway that has stopped stutters
(`Terminated`), and only in `control_plane_shutdown`, where the process exits,
may a behaviour end.

### Where the documents say more than the code does

Met while modelling. No run checks these sentences; the models follow the code.

| Says | The code |
| --- | --- |
| `docs/architecture.md:24`: RUNNING → DRAINING → STOPPED | A `stop` that found the server not started stores STOPPED even if `start` has meanwhile reached RUNNING; there is no drain then. No caller in the program does that. |
| `ControlPlaneClientTest.cpp:217`: extra body is rejected | The response is complete as soon as the declared length has arrived; an excess in a later chunk is never read. |
| `TcpServer.cpp:787`: complete frames are handed to the queue after each read | Complete frames in front of an invalid length in the same read are dropped with the connection. |
| `docs/redis_schema.md:16`: the memory store behaves the same | Before the first GET of the configuration, an update of version 1 succeeds in memory and conflicts in Redis. An authentication of client id `index` is invalid in memory and an error in Redis once `token:index` exists. `StoresAgree` has both as its exceptions. |
| `docs/protocol.md:35`: 429 beyond the limit per second | Windows are fixed, so twice the limit can pass within one second across two of them. |

### Bounds

* Queues: capacity 2 with three consumers and four items, so that several
  consumers sleep and the queue is full and empty in one run.
* Gateway: capacities and output limit 1, a limit of 1 or 2 connections per
  client that changes at any time, so that every queue is full when a
  second item comes; two connections on two descriptors, so that a descriptor is
  reused while work for its old connection is on its way; chunks of two frames
  in `gateway`, so that one `recv` yields admitted and refused frames. Shutdown
  and failing calls are checked in runs of their own to keep each one small. The
  liveness run has one descriptor and no symmetry.
* Tokens: two checks against a limit of two failures are enough to pass the
  limit together; three secrets allow create, rotate, disable and rotate again.
  Two administrators, so that one holds what the other has replaced. One
  repetition by the Redis client.
* Configuration: one administrator with two updates on their way, three
  versions, one gateway and at most one loss of the store's data. The updates
  are the smallest and the largest admitted values, the tightest combination of
  payload and output limit, and values just outside every range that TLC's
  integers can express.
* Lifecycle: two workers, so that one of them is the last to leave; one caller
  of `stop` next to the signal handler, and `initServer` and `epoll_wait` that
  may fail. Two callers do not wait for each other, only for the reactor.
* Times: the control plane timeout and the shutdown timeout range over all
  accepted pairs up to `MaxTimeout` ticks, so that a worker handles several
  tasks within one drain and the puller's interval is shorter and longer than
  the timeout. The client has two addresses and a request in two parts, so that
  the deadline can pass in every loop.
* Codec: up to two frames and seven tails; reads up to nine bytes hold two
  frames and part of a third. Two limits, so that a frame can become too large
  while it is buffered.
* Responses: every status line; every kind of header line alone, before and
  after a valid Content-Length, with seven Content-Length texts (empty, not a
  number, at, above and far above the limit); bodies shorter than, equal to and
  longer than declared; headers of exactly and one above the limit, and one that
  is never closed.
* Stores: one client next to the reserved id, two digests, three generations and
  a failure window of two ticks; operations on different clients do not meet.
* ServeUntilShutdown: two connections, so that they are in different states when
  the shutdown begins.

### Fairness

* Gateway: threads are scheduled, so each worker's and the reactor's steps are
  weakly fair. A handler returns because the control plane client has deadlines.
  `epoll_wait` has to return only when the eventfd is written or its timeout is
  over (`EpollMustReturn`): a reactor that nobody notifies may sleep for ever.
  It may be interrupted, but not for ever (strong fairness). The caller of
  `stop` goes on to write the eventfd, and time passes the deadline.
* Queue: consumers that were woken run. No fairness on producers.
* Tokens: an expiry that is set comes. Nothing is asked of the goroutines.
* Configuration: pullers run, and a fetch that is repeated for ever succeeds at
  some time. Without that, a gateway keeps its last configuration, which is what
  `docs/failure_semantics.md` promises.
* Lifecycle: threads that can run do, time passes, and `epoll_wait` returns
  (strong fairness) when it has something to return for. Some worker or other
  goes on while one can, and one that may leave does in the end, because a
  stopped queue takes no more tasks. No fairness for spurious
  wakeups, for failures, or for who calls `stop`.
* Control plane: the goroutines run, and the shutdown's context ends. None for
  requests, which may run for ever.

## Proofs

`BlockQueueProofs`, for any capacity, consumers and items:

* `TypeCorrect`: `TypeOK`, which includes the capacity.
* `NoWakeupIsLost`: `NoLostWakeup` is inductive together with the types. It
  compares the number of items with the consumers that are awake.
* `ItemsLeaveInOrder`: by `FifoInv`, which relates what was accepted to what left
  and what is queued.
* `ImplementsSafety`: every step of `BlockQueue` is a step of `BoundedQueue` or
  changes nothing there.

`GatewayStepProofs` and `GatewayProofs`, which extends it, for any descriptors,
clients, workers, capacities, limits and bounds, from the assumptions on
constants at the head of `Gateway`:

* `GatewayTypes` (in `GatewayStepProofs`): `TypeOK`, by one lemma per group of
  actions and one per shared operator (`CloseEffect`, `UpdateEffect`,
  `ApplyEffect`, ...). The lemmas also say which parts of the state an action
  can touch, and the later proofs use them.
* `ResponsesReachTheirOwner`: a response enters an output buffer only where
  `Matches` holds, and a buffer starts empty. Inductive with the types.
* `OnlyGrantedClients`: the property is not inductive, since it says nothing of
  answers that are still queued. `GrantsOnTheWay` adds that every queued response
  that would authenticate its connection is backed by `granted`, and that the
  responses the reactor makes itself authenticate nobody.
* `NotificationsArrive`: `Announced` extends `NoLostNotification` from the
  reactor's sleep to every place of its loop, the four steps of the drain test
  included: what is left for it is announced by the eventfd, by a worker about
  to write it, or will be seen in this iteration because the reactor has not
  yet come to the response drain.

All `ASSUME`s are evaluated by the runs whose modules extend these modules.

Only model-checked: all liveness properties and the refinement's fairness
(liveness is outside the prover), the properties that count with cardinalities
(`InFlightAccounting`, `ClientConnectionLimit`, `FailureCountBounded`), the
other properties of `Gateway` (`OneAuthPerConnection`, `BatchIsFresh`,
`WindowsBelongToConnections`, the drain properties), and everything outside
`BlockQueue` and `Gateway`.

Candidates for proofs next: `RevokedIsNeverAccepted` and `FailureCountBounded`
(the count plus the checks that have passed the limit test is bounded),
`VersionNamesOneConfig` and `NoUpdateIsLost`, `StopMeansStopped` and
`NoStrayWrites`, `ResponsesAcceptedUntilLastWorker`, `BatchIsFresh`,
`InFlightAccounting`.

## Not modelled

* **The vendored JSON library** (`include/nlohmann/json.hpp`): 24 765 of the
  28 935 lines under `src` that are not tests. It is a general-purpose library
  and no part of this system's design; the gateway calls a handful of its
  functions on bounded strings. What they return is a choice in the callers'
  models. The specifications map about 2 700 of the remaining 4 170 lines, and
  therefore less than a tenth of all lines.
* **Logger, `LogStorage`, `StatsManager`**: output under a mutex, and atomic
  counters that only the STATS reply reads. No other part depends on them.
* **The times and counts of the rate windows**: `Gateway` has which windows
  exist, and a request may be refused by its window at any time.
* **Environment parsing** on both sides and the **HTTP helpers** of the control
  plane (bearer checks, body limits, error bodies): sequential or stateless, one
  call at a time, covered by unit tests.
* **Payloads**: what `PING`, `ECHO` and `STATS` put into a response, and the
  text of requests to the control plane.
* **HMAC, Redis, `net/http`, the kernel**: by the contract the code relies on.
  Redis scripts are atomic, a failing command may or may not have taken effect.
* **That a request to the control plane returns** is not stated as a liveness
  property; `WaitsEndAtTheDeadline` is its safety part: no wait goes beyond the
  deadline.
* **Hazards without a property** are listed in `PROJECT.json` with the reason: a
  `stop` that overlaps a failing `start`, a caller of `stop` that is overtaken
  before its write to the eventfd, an `epoll_wait` that never stops failing, a
  write to the log file that fails half-way, and requests that are still running
  when the shutdown of the control plane times out.

# Verification of the notification delivery service

TLA+ specifications, TLC runs and TLAPS proofs for the service in `src/`: a Go
program that accepts a notification, stores it in PostgreSQL and delivers it to an
external provider through a broker (RabbitMQ, NSQ or an in-process channel), with
retries, leases and a compensator that brings back whatever was lost.

```
tlc -workers 2 -config MCDelivery.cfg MCDelivery             # a run
tlapm DeliverySafety.tla                                     # a proof module
```

`PROJECT.json` lists the runs, maps every definition to its source lines, and names
for each property a plausible bug (a `..._Something` operator kept beside the real
one) under which TLC must find it violated.

## 1. The system

| Component | Source | State it keeps | Operations |
|---|---|---|---|
| Event repository | `internal/store/event_repo.go`, `internal/domain/event.go`, `migrations_sql/0001_init.sql` | the rows of `notification_event`: status, attempt_count, enqueued_at, lease_token, lease_until, last_result | one guarded `UPDATE ... WHERE` per transition |
| Notification service | `internal/application/notification` | none | Submit (idempotent insert, direct publish), GetStatus |
| Publish service | `internal/publish` | none | PublishAndMark |
| Brokers | `internal/mq` | the queue; RabbitMQ connections; memory channel and delayed-requeue goroutines | Publish, Start, Close, requeue with delay |
| Worker | `internal/worker/processor.go` | one goroutine per delivery: event, lease token, attempt number | HandleDelivery: claim, prepare, call, settle |
| Circuit breaker, limiter | `internal/worker/breaker.go`, `limiter.go` | state, failure count, generation, probe flag; slots | Allow, Observe, Abort, Acquire |
| Compensator | `internal/worker/compensator.go` | the rows the last scan read | scan of unpublished rows, scan of expired leases |
| Provider registry, adapters | `internal/provider`, `internal/provider/adapters` | the actions resolved at start-up; the cached FCM client | Config, Build, Validate, SendActionRequest, classification of the answer |
| Interfaces | `internal/api`, `grpcapi`, `mcpapi` | none | authentication, translation of requests, errors and answers |
| Processes | `cmd/server`, `cmd/worker`, `internal/worker/worker.go` | what runs, which error waits where | start-up, failure, signal, shutdown in order |
| Configuration, logging, generated code | `internal/config`, `internal/logging`, `gen`, `docs` | none after start | |

Accepting and delivering interact through the table and the broker only. A message carries
an event id and nothing else; everything a worker decides, it decides from the row it
claimed. Workers, compensators and API goroutines never talk to each other: a lease token
in the `WHERE` clause of every statement is what keeps a late one from doing harm. Within
one worker process, the handler goroutines share the breaker and the slots of each action.

What is hard about it:

- **Concurrency.** Several messages for one event, several workers, several
  compensators, and a worker that outlived its lease, all updating one row.
- **Failure.** A process can die between any two statements; a statement can be
  committed and its answer lost; a publish can be stored and its confirmation lost; the
  memory broker drops messages when full and loses them all with the process.
- **Counting.** `attempt_count` is raised by the claim, before the provider call, and
  taken back on two paths. Whether a claim still has a call left is decided from it.
- **Time.** Leases expire under workers that are still at work, and scans act on rows
  they read earlier.
- **Liveness.** A row that is marked as published is invisible to the publish scan, a
  row without a deadline to the lease scan; either would be lost silently.
- **Idempotency.** Three protocols, each with its own encoding of a payload and its own
  error codes, race on one unique key; a client that lost an answer must be told the truth
  when it asks again.
- **Connections.** A RabbitMQ acknowledgement is bound to a channel that may be gone while
  the goroutine holding the delivery still works; a delayed retry is a publish followed by
  an acknowledgement on different channels.
- **Shutdown.** `main` and the worker both close the memory broker, which waits for
  consumers and timers, while calls still arrive or hang.
- **Ambiguous answers.** Whatever an adapter reports (accepted, refused, never sent,
  unavailable) decides between success, retry and an open circuit; the exchange can break
  at every stage.

The hazards are listed, at their lines, in `PROJECT.json`.

## 2. Modules

| Module | Models | Builds on |
|---|---|---|
| `EventRepo` | the statements of `event_repo.go` on one row, as operators from row to row with their `WHERE` clauses | |
| `Delivery` | API goroutine, publish service, broker, workers, both compensator loops, time, crashes | `EventRepo` |
| `DeliveryContract` | what a source system may rely on, without rows or leases | |
| `DeliveryTypes`, `DeliverySafety`, `DeliveryRefinement` | proofs about `Delivery` | `Delivery`, `DeliveryContract` |
| `ActionBreaker` | breaker and slots of one action with the handler code between Allow and Observe | |
| `ActionBreakerProofs` | proofs about `ActionBreaker` | `ActionBreaker` |
| `NotificationService` | REST, gRPC and MCP requests through Service.Submit and GetStatus, with the registry and the unique key | |
| `NotificationServiceProofs` | proofs about `NotificationService` | `NotificationService` |
| `RabbitMQ` | publisher, consumer, delayed retries and reconnects of `rabbitmq.go` against an external broker | `MessageQueue` |
| `MessageQueue` | what a durable publish and the consumer promise, without channels, deliveries or delays | |
| `RabbitMQProofs` | proofs about `RabbitMQ` and `RequeueDelay` | `RabbitMQ`, `RequeueDelay` |
| `MemoryBroker` | channel, consumer pool, delayed requeues and Close of `memory.go` | |
| `Server` | `cmd/server` in memory mode with the embedded worker, composed with its broker | `MemoryBroker` |
| `ServerProofs` | proofs about `Server` and `MemoryBroker` | `Server` |
| `ProviderCall` | configuration, validation, exchange and classification of the five adapters, for one action | |
| `ProviderCallProofs` | proofs about `ProviderCall` | `ProviderCall` |
| `RequeueDelay` | `linearRequeueDelay` in wrapping arithmetic | |
| `MCDelivery`, `MCActionBreaker`, `MCNotificationService`, `MCRabbitMQ`, `MCServer`, `MCProviderCall` | instances for TLC | |

### EventRepo and Delivery

`row[e]` is the row of event `e` (or `Absent`). A PostgreSQL statement is atomic, so an
action of `Delivery` is one statement, broker call or provider call together with the
local code up to the next one; what the goroutine knows in between is in `worker` (event,
token and attempt number of a handler), `todo` and `marking` (what a caller of
`PublishAndMark` still has to publish or mark) and `snapshot` (rows the lease scan
read). All of it is lost when the process dies, `row` is not.

| Action | Code |
|---|---|
| `ApiInsert` | `Service.Submit`: insert, then the goroutine owes a publish |
| `Publish`, `PublishFails`, `Mark`, `MarkFails` | `publish.Service.PublishAndMark`, for the API goroutine and both scan loops |
| `Deliver`, `ClaimEvent` | broker hands over a message; `HandleDelivery` claims |
| `FinishExhaustedBeforeProvider`, `DeferForOpenCircuit`, `StartRequesting`, `RenewBeforeSend`, `SendActionRequest`, `ProviderReturns`, `SettleSuccess`, `RetryOrFail` | `Processor.process` and what it calls, in that order |
| `SelectPendingToPublish`, `SelectExpiredLeases`, `RecoverOne` | the compensator's two loops |
| `LeaseExpires`, `LeaseExpiresEarly` | time passes; *early* means under a worker still at work |
| `CrashWorker`, `CrashCompensator`, `CrashServer`, `DuplicateDelivery` | the environment |

`Exec` is the common form of a worker's statement: the guard holds and the row changes;
or the lease is gone and the message is acknowledged (`ErrNotClaimed`); or the database
reports an error, with the statement committed or not, and the broker redelivers.

Abstractions. `lease_until` is null, in the future or in the past. `next_attempt_at` is
set once, to the present, so a PENDING row is always due. Delays of redelivery, response
bodies, payloads and timestamps are left out: no guard reads them. The breaker appears as
"the circuit may be open" (`DeferForOpenCircuit`, a fault of the environment); the breaker
itself is `ActionBreaker`. `calls`, `confirmed` and `overrun` are history variables: which
attempt numbers reached the provider, whether a call was confirmed, whether a lease ran
out under its holder.

`durable` is the broker of a behaviour, chosen from `BrokerKinds` at the start. `TRUE` is
NSQ or RabbitMQ: a confirmed message is kept until acknowledged, may be duplicated, and the
receipt allows `enqueued_at` to be set. `FALSE` is `MemoryBroker`: nothing is marked, a full
channel drops a requeue, and one crash takes API, queue, workers and compensator together.
That NSQ keeps a message it confirmed is an assumption about NSQ's configuration, not
something the code ensures. `Configured` are the events whose action every worker's registry
has; any other event finds its action or not, delivery by delivery, which covers workers
started with different versions of `providers.yaml`.

### DeliveryContract

Outcome of an event (absent, open, succeeded, failed), the calls made per attempt number
and whether one was confirmed. It promises: at most one call per attempt number and none
beyond `max_attempts`; *succeeded* only after a confirmed call; *failed* only where a limit
is set; outcomes are final. It does not promise exactly-once: a worker that lost its lease
may call the provider although the event has been settled by then. `ImplementsContract`
is the refinement, with the outcome read off the row's status.

### ActionBreaker

`state`, `consecutiveFailure`, `generation`, `openUntil` and `halfOpenInFlight` are the
fields of `actionBreaker`; `sem` counts taken slots. A handler goes from Allow through
Acquire and the two database statements (`Prepared` or `PrepareFails`) to the provider call,
Observe, and the return that releases the slot. A rejected delivery changes nothing here.
The token bucket only delays Acquire. Panics in an adapter are not modelled.

### NotificationService

`table` holds the row of every event id, `call[c]` the request a client has under way with
the step it is at, `registry` the actions the process knows. `Receive` is everything before
the first statement (authentication, field checks, Registry.Lookup, Adapter.Validate);
`resolveExisting` is the look-up before the INSERT and again after it was rejected;
`Insert`, `InsertCollides` and `InsertRejected` are the outcomes of the statement;
`Publish` is the direct PublishAndMark, whose failure does not change the answer. Any number
of requests interleave between these steps. `StorageFails` includes the INSERT that was
committed although an error was reported, `AnswerLost` the broken client connection,
`Restart` the end of the process and a start with other actions. A payload is a value and
the spelling of its numbers: `canonicalEqual` compares text, jsonb writes exponents out, and
MCP passes numbers through float64, which gives integers above 2^53 another value (`Float64`)
and spells large ones with an exponent. `HttpStatus`, `applicationError` and `toolError` are the
three protocols' codes.

### RabbitMQ

The broker's side (`msg`, what is ready or unacknowledged on which channel) is external and
modelled from how the code uses it: publisher confirms, manual acknowledgement, prefetch,
redelivery when a channel closes, a durable queue. The code's side is the publisher's one
channel, `runLoop` with its reconnects, and one task per delivery: handle, delay, publish the
replacement, wait for its confirmation under `retryMu`, acknowledge the original. A task
keeps the channel generation of its delivery; an acknowledgement on a dead channel does
nothing. The broker may nack a replacement on an open channel at any time, which stores
nothing and returns the original. Faults are a lost connection or channel, a lost confirmation, a broker stop, a
publisher loss and the shutdown of the worker. The number of copies a slot table can hold is
the only bound the environment adds.

`MessageQueue` is the queue the rest of the system sees: events sent, kept and done. An event
that reached the queue is kept until a handler has returned nil for it; nothing is handled
that was not sent; and without another publish only an event that was handled before comes
back (its acknowledgement went down with the channel). `ImplementsQueue` is the refinement:
an event counts as kept while the broker has a message of it whose replacement is not in the
queue already (`Fresh`).

### MemoryBroker and Server

`MemoryBroker` defines the operations of the broker as actions; `Server` extends it and adds
`main`, the goroutine of Worker.Run, the two servers and the calls that publish. Both main and
the worker call Close; `once` is how far the first of them is (`closeOnce`). gRPC's
GracefulStop has a timeout after which Stop cancels the handlers and still waits for them
(`ForcedStop`, `CanceledCalls`); http.Server.Shutdown gives up at its timeout and leaves
handlers running (`forced`). The end of `run` is the end of the process. With an external
broker `cmd/server` does a part of the same steps.

### ProviderCall

One action of any adapter: `Build` resolves configuration and credential or refuses to
start, `Validate` is the check at Submit, `SendActionRequest` is a sequence of stages (dial,
write, wait, redirect, body for HTTP; the SMTP dialogue; client creation and send for FCM).
`Breaks` ends the exchange at any stage with any error that stage can give, `Cancel` ends the
worker's context at any time. One call can send more than one request: lark_bot and
loadtest_http follow redirects (a 307 repeats the request, any other becomes a GET without
the message), net/http repeats a webhook request whose reused connection failed, and the
Firebase SDK retries on its own. `request` is the one under way, `vendor` what the vendor did
with its message, `earlier` the most it did with an earlier copy, `answered` whether it said
anything; the adapter sees none of them, and the properties compare its report with them. A
408, a 5xx or a redirect may come from a vendor that accepted; only an explicit code refuses. Building the request
body, signing and MIME encoding are abstracted to whether the payload is valid.

### RequeueDelay

The delay both brokers and the NSQ consumer apply, with the product taken modulo the width
of `time.Duration`. It has no state, so it is a function with a theorem (in
`RabbitMQProofs`, whose requeueAfter waits for it) and no run.

## 3. Runs

| Run | Instance | Question |
|---|---|---|
| `delivery` | 1 event, 2 workers, 1 compensator, both kinds of broker, 2 faults, 2 messages, limit 2, fairness | every safety property, the invariant of the proofs, the refinement, and that every event settles, also one whose action is missing at some deliveries |
| `breaker` | 3 handlers, 2 slots, threshold 2, 4 generations, fairness | breaker and slots |
| `submit` | 2 clients, 2 event ids, 2 keys, 2 actions, 3 values, 1 fault, fairness | Submit and GetStatus over three protocols: idempotent, truthful, finally answered |
| `rabbitmq` | 1 event and 1 malformed message, 1 slot, prefetch 2, 6 messages, 1 fault, fairness | a confirmed message is kept, duplicates are bounded, handling never stops; the refinement of `MessageQueue` |
| `server` | 2 calls, 2 consumers, buffer of 1, fairness | the process always ends, in the right order, and says why |
| `adapters` | every adapter with every class of configuration, credential and payload | success and rejection are the vendor's own words; a shutdown is not an outage |
| `attempt_count`, `smallint`, `diagnosis`, `duplicate`, `presend`, `reachable` | the smallest instance that shows it, or that of `submit` or `adapters` | six statements of the repository the code does not keep (section 5) |

Properties of `Delivery`:

- `ProviderCallBudget`, `AttemptCountCoversCalls`: the counter and its roll-backs never
  allow a number to be used twice or a call beyond the limit, and never under-report.
- `NoLostWakeup`: a PENDING row with `enqueued_at` has a message somewhere.
- `AlwaysRecoverable`: a PROCESSING row is always within reach of the lease scan.
- `OutcomeJustified`: SUCCEEDED after a confirmed call, FAILED at the limit.
- `ExclusiveProcessing`: two workers are past Claim for one event only after a lease ran
  out under one of them.
- `TerminalIsFinal`: nobody touches a settled row.
- `EventuallySettled`: every stored event becomes SUCCEEDED or FAILED.

Properties of `ActionBreaker`: `ProbeAccounted`, `OpenIsUnpermitted`,
`StreakMatchesState`, `SlotsAccounted`, `ProbeDecides`, `ProbesHappen`; each is explained
above its definition.

Properties of `NotificationService`:

- `OneEventPerSourceRequest`, `AnswersAgree`: one row per source request, and every
  acceptance anyone ever gets for it names that row.
- `RefusedAttemptStoredNothing`: of one attempt's answers only "try later" can hide an event
  that attempt stored; the three code tables keep that distinction. A refused repetition says
  nothing of the attempts before it (section 5, `duplicate`).
- `AcceptedContentIsStored`: the event an acceptance names carries the caller's action and
  content, whoever stored it; over MCP, what float64 leaves of the content.
- `PublishedOnceStored`: stored first, published directly at most once.
- `EventuallyAnswered`: a client that keeps retrying gets a final answer, unless the table
  cannot hold its request (section 5).

Properties of `RabbitMQ`: `ConfirmedIsKept` (the receipt the compensator trusts),
`DuplicatesNeedFaults` (a delayed retry duplicates nothing by itself), `ImplementsQueue` (also
an unconfirmed event leaves the queue only by being handled), `HandledUntilDone` (no fault
leaves the queue parked). Of `Server`: `DatabaseOutlivesUsers`,
`CleanExitNeedsSignal`, `EventuallyExits`. Of `ProviderCall`: `VerdictIsVendors` (no lost or
unreadable answer becomes a success or a rejection), `ShutdownIsNotOutage` (a call that the
worker's own shutdown cut is not counted against the vendor).

Bounds. `MaxCopies` bounds the messages of one event, `MaxFaults` the faults of one
behaviour (lost answers, failed publishes, crashes, duplicates, early expiry, open
circuit, an action that is missing), `SmallintMax` the column, `MaxGeneration` the breaker's
generations. Two workers, two messages and two faults reach the cases that matter: a lease
that runs out under its holder, recovery and a second claim while the first worker is still at
its call, or a crash on top of either. The safety theorems hold for any number of faults.
Two tokens are enough, since a token is free again once no row, worker or snapshot refers to
it; `TokenChoice` lets a claim take one particular free token, because tokens are only
compared for equality (a symmetry reduction that, unlike SYMMETRY, temporal properties allow).
Two attempts distinguish the first, the last and the one too many. Three
handlers let an old permit, a probe and a rejected handler coexist; four generations go
through closed, open, half-open, reopened and closed again. For submitting, two clients
are enough for every race on one key, two ids and two keys for an id collision between
different requests, and one fault for each kind of lost answer; the requests
(`MCRequests`) are chosen, not combined: every flaw occurs once (a scheme in lower case with gRPC,
which accepts it), every protocol with a sound request, and the payloads are equal, respelt, rounded
together by float64 and different. For RabbitMQ, one slot with prefetch 2 lets one delivery wait out its
delay while another is handled, and one fault at any moment meets every stage of the
retry; six slots are shown sufficient in the cfg. For the server, two calls and a buffer
of one reach the full channel and a call on each side of every shutdown step.
`ProviderCall` has no bound: its classes are finite. The proofs lift the bounds of
`Delivery`, `ActionBreaker`, `NotificationService`, `Server` and `RabbitMQ` for safety.

Deadlock is not checked where a behaviour ends: every event has settled, the breaker has used
its generations, the RabbitMQ event is done, the provider call is over. It is checked for
`submit`, where a client can always ask again, and for `server`, which stops only after its
exit (`Terminated`).

Fairness. Goroutines are scheduled and every call they make has a timeout, so the handler of
each worker and each of the two loops of a compensator, with its publishes, is weakly fair
(one condition per goroutine: its own state decides what it does next); tickers keep firing; a
lease nobody renews runs out. Delivery of a message is strongly fair: brokers serve in
arrival order, so a message is not passed over for ever while workers keep becoming
free. In `ActionBreaker` Acquire is strongly fair, because Go serves waiting channel
senders in order. Nothing is assumed of the API client or of its goroutine's publish,
nothing of the circuit being closed except that deferrals count as faults, and no fault
is owed. `EventuallySettled` therefore says: once the faults stop, the event settles. With
`max_attempts = 0` it would not hold and is not claimed.

In `NotificationService` a request's goroutine proceeds and a client keeps retrying (both
weakly fair); faults are bounded, not fair. In `RabbitMQ` the consumer loop, the broker's
delivery and some task that can run are weakly fair: a broker that went down comes back, and
timers fire. The publisher owes nothing. In `Server` the goroutines of broker, worker and main
are weakly fair, handlers return because a provider call has a timeout, and a gRPC call whose
context Stop cancelled returns; other calls and scans may hang for ever.

## 4. Proofs

All hold for every value of the constants: any set of events, workers, compensators,
handlers, clients, requests, calls, consumers and messages, any limit, buffer, prefetch and
number of faults. The assumptions are the named `ASSUME`s of `EventRepo`, `Delivery`,
`ActionBreaker`, `NotificationService`, `MemoryBroker` and `RabbitMQ`. Three have
substance: `max_attempts` is within SMALLINT, which `validateRequeueConfig` enforces; the
failure threshold is positive, which `internal/provider/adapters/config.go` enforces; the
buffer is positive, which `NewMemoryBroker` enforces.

| Theorem | Module | States |
|---|---|---|
| `TypeCorrect` | `DeliveryTypes` | `TypeOK` |
| `Invariance` | `DeliverySafety` | `SafetyInv`, the inductive invariant |
| `CallsWithinBudget` | `DeliverySafety` | `ProviderCallBudget` |
| `CallsAreCovered` | `DeliverySafety` | `AttemptCountCoversCalls` |
| `WakeupIsNeverLost` | `DeliverySafety` | `NoLostWakeup` |
| `RowsStayRecoverable` | `DeliverySafety` | `AlwaysRecoverable` |
| `OutcomesAreJustified` | `DeliverySafety` | `OutcomeJustified` |
| `ProcessingIsExclusive` | `DeliverySafety` | `ExclusiveProcessing` |
| `OutcomesAreFinal` | `DeliveryRefinement` | `TerminalIsFinal` |
| `Refinement` | `DeliveryRefinement` | `ImplementsContract` |
| `BreakerTypeCorrect` | `ActionBreakerProofs` | `TypeOK` |
| `ProbeIsAccounted` | `ActionBreakerProofs` | `ProbeAccounted` |
| `OpenHasNoPermit` | `ActionBreakerProofs` | `OpenIsUnpermitted` |
| `StreakIsOfState` | `ActionBreakerProofs` | `StreakMatchesState` |
| `SlotsAreAccounted` | `ActionBreakerProofs` | `SlotsAccounted` |
| `ProbeAloneDecides` | `ActionBreakerProofs` | `ProbeDecides` |
| `SubmitTypeCorrect` | `NotificationServiceProofs` | `TypeOK` |
| `OneEventIsStored` | `NotificationServiceProofs` | `OneEventPerSourceRequest` |
| `AcceptancesAgree` | `NotificationServiceProofs` | `AnswersAgree` |
| `RefusalsStoreNothing` | `NotificationServiceProofs` | `RefusedAttemptStoredNothing` |
| `AcceptancesMatchContent` | `NotificationServiceProofs` | `AcceptedContentIsStored` |
| `DirectPublishOnce` | `NotificationServiceProofs` | `PublishedOnceStored` |
| `ServerTypeCorrect` | `ServerProofs` | `TypeOK` |
| `DatabaseIsClosedLast` | `ServerProofs` | `DatabaseOutlivesUsers` |
| `CleanExitIsSignalled` | `ServerProofs` | `CleanExitNeedsSignal` |
| `RabbitTypeCorrect` | `RabbitMQProofs` | `TypeOK` |
| `PublishedIsKept` | `RabbitMQProofs` | `ConfirmedIsKept` |
| `RetriesDoNotMultiply` | `RabbitMQProofs` | `DuplicatesNeedFaults` |
| `LateAnswersAreHarmless` | `RabbitMQProofs` | `AnswersItsOwn`: an acknowledgement that reaches the broker answers the message that was delivered |
| `QueueRefinement` | `RabbitMQProofs` | `ImplementsQueue` |
| `VerdictsAreTheVendors` | `ProviderCallProofs` | `VerdictIsVendors` |
| `ShutdownsAreNotOutages` | `ProviderCallProofs` | `ShutdownIsNotOutage` |
| `DelayIsCappedProduct` | `RabbitMQProofs` | the delay is min(default * max(attempts, 1), max); the product never wraps |

**Delivery.** None of the properties is inductive by itself. The budget, for instance,
needs to know why two workers on one event never have the same attempt number although
the counter is also decremented. The invariant `SafetyInv` says:

- `ClaimInv`: the lease holder's attempt number is the row's counter; a worker that lost
  its lease has a number that is not larger, and strictly smaller while another holds the
  lease; tokens and, per event, numbers of active workers are distinct.
- `CallInv`: a number that was used is covered by the counter and the limit; a worker
  that has not called yet has an unused number. So a roll-back, which only happens before
  the call and under the lease, gives back a number nobody used and no other worker has.
- `ExclusiveInv`: unless its lease ran out, an active worker still holds an unexpired
  lease, so neither Claim nor the lease scan can select its row.
- `WakeInv`: a PENDING row is marked, or about to be, only while a message is in the queue
  or at a worker about to claim; in memory mode nothing is ever marked.

`StepShape` first reduces every action to one of a few shapes (a claim, a step towards
the call, a call, an answer, a release, a recovery, or nothing as far as claims are
concerned), and the preservation lemmas are about shapes. The refinement then needs only
this invariant and `TerminalStep`.

**ActionBreaker.** `Inv` adds to the properties that a permit's generation is not newer
than the breaker's (`PermitsAreOld`) and that permits of the current generation are probes
exactly when the breaker is half open (`PermitsFitState`). Every transition that ends a
generation leaves no permit of the new one, which is what makes late answers harmless.
The slots are a cardinality argument over the handlers past Acquire.

**NotificationService.** `SubmitInv` adds to the properties what each step of Submit relies
on from the steps before it: a caller about to publish has a row of its own that nobody published, and no
other caller has the same one (`WakeInv`, `CallerInv`), an attempt stores nothing before its
INSERT, and an acceptance that was given names a stored row (`AnswerInv`, `VerdictInv`). All
of it survives other callers' steps because rows are never changed here (`Kept`); the
uniqueness of the row comes from the unique key alone, not from the look-up.

**Server.** `ServerInv` follows the shutdown: what each stage of Close has seen stays true,
since no consumer starts after it and a delayed requeue needs a consumer (`CloseInv`); a
server main has waited for has no calls left, except HTTP after its timeout
(`ShutdownInv`); `run` returns nil only from a branch a signal led to (`ExitInv`).

**RabbitMQ.** `RabbitInv` has four parts besides the types.

- `ChannelInv` and `TaskInv`: only the open channel has deliveries outstanding, no more than
  the prefetch, and a delivery of that channel is the broker's own record of it, held by one
  goroutine. That is why a goroutine that outlived its channel can do no harm, although slots
  are reused and its message may be out again on a later channel.
- `OriginInv`: every message and delivery of an event goes back to a publish.
- `KeptInv`: an event that was sent and is not done has a message nobody has replaced.
  `ConfirmedIsKept` alone is not inductive: it allows two originals whose goroutines are both
  about to acknowledge, each counting on the other. The replacement a goroutine published is
  not itself replaced when it is published, so each retry hands `Fresh` on.
- `CopiesInv`: a potential that counts the copies there are or will be without another
  fault: messages not replaced, deliveries of a dead channel that will still publish, and
  originals that will come back although they have been replaced. A publish adds one to it, a
  fault at most the prefetch, every other step nothing. The messages alone can grow
  without a fault (a stale delivery publishes), so the bound is not inductive without the
  rest.

For the refinement, `FreshStep` sorts every step into a publish, the end of a handler, or
one after which every event kept before is still kept; what such a step brings back was
done, by `KeptInv`.

**ProviderCall.** The model has no constants and the run covers all its states; the proof
says why the reports are right. `CallInv` records what each stage knows of the vendor
(accepted or refused, and answered, once a reply is at hand; untouched by a GET without the
message) and what each error implies (a reply or an FCM refusal means a message not taken, the
end of the context is known to the adapter), and a result is sound (`Sound`) because a
classification combines only those two. An SMTP error in `data_write`, for instance, says
nothing of the vendor unless it is a reply.

**Only model-checked:** the liveness properties `EventuallySettled`, `ProbesHappen`,
`EventuallyAnswered`, `HandledUntilDone` and `EventuallyExits` (fairness is out of the prover's
reach), and the six violations.

## 5. Where the code and the repository's words differ

1. `attempt_count` run. A comment in `event_repo.go` says the roll-back keeps the column
   equal to the number of real provider calls. A worker that dies between Claim and the
   call leaves a claim in the counter that no call matches. The counter is an upper bound
   (`AttemptCountCoversCalls`, proved), not the exact number.
2. `smallint` run. The configuration accepts `max_attempts = 32767`. If a worker dies in
   call 32767, the next claim would have to write 32768, which the column cannot hold; the
   claim fails for ever and the event is never marked FAILED.
3. `diagnosis` run. `request_may_have_been_sent` comes from the row as the scan read it;
   the worker may have moved on to the call before the guarded update runs.

4. `duplicate` run. `api/handlers.go:19` and `plans/system-design-plan.md:209` say that a
   source request repeated with identical content returns the original event as a duplicate.
   Not so for a number written as `1e2`, which jsonb stores as `100` and `canonicalEqual`
   compares as text; nor over MCP for a number float64 prints with an exponent; nor after a
   restart without the action, because Submit consults the registry before the table and
   answers 422 for an event that is stored and will be retried or failed by the workers.
5. `presend` run. The comment of PreSendFailure (`httpclient/client.go:106-108`) says that no
   request bytes could have reached the vendor. The dial that fails may be that of a replay or
   of a redirect, and the vendor has the first request.
6. `reachable` run. The comment in `process` (`worker/processor.go:156-157`) and
   `plans/system-design-plan.md:727` say that successes and explicit responses of the vendor
   prove it reachable. Five classes of FCM and SMTP results count as such although no vendor
   need have answered: they clear the failure count and close a half-open circuit.

Behaviour that a property excepts or a hazard notes, without a run of its own:

- MCP integers above 2^53 are rounded before anything is compared or stored. What is stored is
  then not what the caller wrote, and two payloads that round together are duplicates of each
  other, against `plans/system-design-plan.md:210` (different content is a conflict).
  `AcceptedContentIsStored` speaks of the rounded content.
- The RabbitMQ receipt says durable although the queue may be configured not to be
  (`durable` defaults to false), against `mq/mq.go:43-44` (Durable only when the broker
  acknowledged persistence); messages the broker returns as unroutable are not noticed. The
  model's queue is durable.
- A request the columns cannot hold (a field too long, `\u0000` in the payload) passes every
  check and is answered "unavailable, try again" for ever; `EventuallyAnswered` excepts it.
- loadtest_http behind a 301, 302 or 303 takes the answer to a GET without the message for a
  success; `VerdictIsVendors` excepts it. The adapter is for loopback endpoints only.

Behaviour about which the repository says nothing else:

- The RabbitMQ publisher opens its connection once. After a loss every publish of that
  process fails until it is restarted.
- With the retry channel gone, a delivery that asks for a delay is put back at once and
  comes back at once, until the consumer's own channel is lost too and it reconnects.
- Close of the RabbitMQ consumer does not wait for handlers; their messages come back.
- HTTP calls past the shutdown timeout and scans of the compensator may find the database
  closed.
- A webhook payload within the limit at Submit may be beyond it after jsonb rewrote it; every
  attempt then ends in `ADAPTER_ERROR`. A Lark signing secret that resolves to the empty
  string sends unsigned.

## 6. Not modelled, and the plan

Not modelled: configuration loading, logging, the database connection and generated code,
because nothing in them changes state after start; ListCapabilities, health, Swagger and
body limits, which only read or reject; the wording of answers. The NSQ client has no module:
its connection, backoff and requeue are the library's, and what the repository adds (the
delay, finish or requeue) is `RequeueDelay` and the queue of `Delivery`. Of `cmd/worker`, only
what it shares with the embedded worker is modelled. Panics in adapters and clock steps of the
database are left out (leases are written and compared with its own clock).

Left in the plan, in order:

1. What the memory broker promises (much less than `MessageQueue`: it may forget) as an abstract
   specification of `MemoryBroker`, and `Delivery` over the two abstract queues in place of
   its own.
2. Lemmas about `EventRepo`'s operators, cited by the delivery proofs, stated for reuse.

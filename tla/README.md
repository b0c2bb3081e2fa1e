# Game Rewards Service: TLA+ models and proofs

The service accepts reward claims over HTTP, stores each in PostgreSQL together
with its idempotent response and an outbox event, and publishes the events from
separate worker processes. This directory models the parts of it that are hard
to test: concurrent transactions, leases, lost answers, crashes, shutdown.

Every module translates the Go code and SQL of the repository; `PROJECT.json`
("map") names the lines behind each definition.

## 1. Inventory

| Part | State | Operations | Interacts through |
|---|---|---|---|
| Reward claim transactions (`internal/rewards`) | tables `reward_claims`, `reward_claim_idempotency_keys`, `outbox_events` | `createClaim`: reserve key, or load and replay; insert claim; insert event; complete key; commit or roll back | PostgreSQL rows and the waits on uncommitted ones |
| Outbox store (`internal/outbox/store.go`) | `outbox_events`: status, failed_attempts, lease | `ClaimNext`, `MarkPublished`, `ScheduleRetry`, `MarkDeadLetter` | single-statement transactions, fenced by `locked_by` |
| Worker loop (`internal/outbox/worker.go`) | the event in hand, its failure count as read | `Run`, `runOnce`, `processEvent` | store, publisher, context |
| Publisher (`internal/outbox/publisher.go`) | none | `Publish` | downstream system, which deduplicates by event id |
| Backoff (`internal/outbox/backoff.go`) | none | `retryDelay` | called by the loop |
| Configuration (`internal/config`) | none | loaders, `validateOutbox` | read once at startup |
| Worker process (`cmd/worker`) | readiness flag, contexts, results channel | `run`, `stopComponents` | goroutines, signals, `/readyz` |
| API process (`cmd/api`) | serve-result channel, requests in progress, pool | `run`, `stopHTTPServer` | goroutines, signals, `net/http` |
| HTTP API (`internal/httpapi`) | per request: header sent, status recorded | claim handler, middleware | rewards service, `net/http`, metrics |
| Claim validation (`internal/rewards/service.go`) | none | `prepareCreateClaim` | handler before it, CHECKs behind it |
| Error classes (`internal/postgres`, both `mapPostgresError`) | none | `IsUnavailable` | driver errors, contexts |
| Health, admin server | none of their own | probes, middleware | processes above |
| Metrics (`internal/observability`) | counters | observers | handler, worker loop |

Hard behaviours, and what correctness means there:

* **Claims**: two requests with one key, or for one reward, interleave; any
  statement may fail; COMMIT may be applied unnoticed; retention deletes records.
  A reward is granted once, atomically with its event and response, and a retry
  gets the answer of the first try.
* **Outbox**: workers crash, leases expire during a publish, answers are lost,
  statements execute after their client gave up. No event is lost or dead-lettered
  early; a settled row stays settled; stale finalizations are rejected; every
  event is settled in the end.
* **HTTP**: the client leaves, the query times out or the handler panics at any
  step. Response, recorded status and metrics tell one story, silence is never
  taken for success, every request ends.
* **API process**: signal, failing listener and shutdown timeout race while
  requests are in progress. The exit code tells the truth, requests are served
  to the end unless something failed, the process ends.
* **End to end**: the workers see exactly what transactions commit; every grant
  is announced, and nothing else is.
* **Worker process**: signal, component failure and timeout race. The exit code
  tells the truth, readiness does not outlive the loop, the process ends.
* **Numbers**: the lease must outlast an iteration; durations must not overflow.

`PROJECT.json` lists these hazards one by one, with lines and properties.

## 2. Modules

| Module | Models | Notes |
|---|---|---|
| `Outbox` | store, worker loop, publisher, retention | core of the project |
| `DeliveryContract` | what the outbox promises | abstract; `Outbox` implements it |
| `RewardClaims` | `createClaim` in concurrent transactions | |
| `ClaimLedger` | what the endpoint promises | abstract; `RewardClaims` implements it |
| `WorkerProcess` | `cmd/worker/main.go`, readiness probe | |
| `LeaseBudget` | `validateOutbox` and one iteration in discrete time | |
| `Backoff` | the loop of `retryDelay` | |
| `TimeDuration` | Go's `time.Duration` and its wrap-around | extended by the two above |
| `HttpExchange` | one request through either HTTP server: middleware, claim handler, validation, error classes, request and reward metrics | |
| `ApiProcess` | `cmd/api/main.go`, requests in progress, the pool | |
| `Service` | API transactions and workers over one table | composes `RewardClaims` and `Outbox` |
| `WorkerMetrics` | the worker's counters beside the table | extends `Outbox` |
| `MC*` | instances for TLC | symmetry sets |
| `*Proofs` | theorems checked by TLAPS | |

Definitions whose comment begins with "Faulty variant" are not part of the
specifications. Each is a plausible mistake in the definition that follows it;
putting it in that definition's place makes TLC report the property paired with
it in `PROJECT.json` ("mutants"). They show that the properties can fail.

### Outbox

*State.* One function per column of `outbox_events` that a decision or a CHECK
reads; of the timestamps `published_at` and `dead_lettered_at`, which only CHECKs
read, whether they are set. The clock is one bit per row, `due`: `available_at <= now()` of a pending row,
`locked_until <= now()` of a processing row. Each worker has its place in the
loop (`pc`), the event in hand (`held`), the failure count it read (`seen`) and
whether its context is done (`canceled`). `inflight` holds the statements sent
and not executed. `delivered` is the downstream system. `leaseOf` and `lease`
are history: names for acquisitions, which the code does not have.

*Statements.* A worker's step adds a statement to `inflight`; `Execute` runs it
as one transaction and answers, unless the answer is lost. A worker may give up
on a statement at any time (`StoreUnavailable`: query timeout or an error that
`IsUnavailable` accepts, and the loop goes on; `StoreCanceled`, `StoreFatal`:
`Run` returns; `Crash`). What is given up on disappears, or, with
`LateExecution`, may stay in flight and execute later: the server can work on a
statement whose client has closed the connection.

*Publishing.* `Deliver` may happen at any time while the worker is publishing,
so a failed or timed-out publish may have delivered. Success implies delivery;
that is the `Publisher` contract. Once the context is done nothing is recorded:
`processEvent` returns `ctx.Err()` after a failure, and after a success
`MarkPublished` fails on its canceled context before anything is sent.

*SKIP LOCKED.* `ClaimNextEmpty` may pass over a claimable row while another
statement that could have it locked is in flight.

*Worker ids.* `newWorkerID` is random per process. A model id is used again only
when no row and no statement refers to it.

### RewardClaims

*State.* The committed tables (`claims`, `keyRow`, `events`), and per request
its place in `createClaim`, its parameters and the uncommitted rows of its
transaction. A key is a hash, a reward a normalised (player, campaign, reward)
triple, a response its status with a claim id; equal bodies are equal responses.

*Transactions.* READ COMMITTED: a statement reads what is committed. An
`ON CONFLICT DO NOTHING` insert waits while another transaction holds an
uncommitted row with the same key (`KeyContended`, `ClaimContended`). COMMIT
publishes all rows at once. `Fail` stands for query timeout, lost connection,
canceled request and death of the process; after COMMIT was sent it leaves the
transaction in doubt, to be rolled back or applied (`LateCommit`). A failing
`BeginTx` is a request that fails at its first statement. `Replayed`, which only
feeds metrics and a header, and the checks of a stored body's syntax, which the
table's CHECK and the single writer exclude, are left out.

### WorkerProcess

One action per shared-memory step of the three goroutines. `workerReady`,
`workerCtx`, the results channel (in order) and the shutdown deadline are state.
`querying` holds a pool connection and ends by its query timeout; `publishing`
holds none and may last for ever. `ClosePool` is the deferred `dbPool.Close`,
which waits for checked-out connections. `Shutdown` of `net/http` is taken to
fail only by its deadline.

### HttpExchange

*State.* One request: its place, the panic on its way up, the request's context
and the query's, what was decoded and passed on, the driver's error and what
became of it, the `statusRecorder`, the header `net/http` was given, and the
labels the two counters were increased with. The database is not there:
`CreateClaimReturns` yields any result or any driver error.

*Errors* are sets of traits, one for each thing `errors.Is` and `errors.As` are
asked; a wrapped driver error may have several. `mapPostgresError`,
`IsUnavailable`, `writeCreateClaimError`, `ObserveRewardClaim` are translated as
operators on them. `context.WithTimeoutCause` keeps the first cause: `query` is
`timeout` or `canceled` by whichever comes first, and the end of the request's
context reaches it by a step of its own.

*Strings* are records of what the checks ask: padding, size, whether a character
takes several bytes, forbidden characters.

*Ending.* After the handler, the deferred function of `requestLogger` recovers,
counts and panics again if need be; then `net/http` completes the response, with
an implicit 200 if there is none, or closes the connection. The admin server
differs in one check and has no claim route.

### ApiProcess

The main goroutine, the goroutine of `Serve`, and each request as the place it
is at; `in_tx` and `rolling_back` hold a pool connection. `Shutdown` waits for
`Serve` and for connections that have a request, or for its deadline; `Close`
closes connections and waits for nobody; `dbPool.Close` refuses new connections
and waits for those in use. Those three are external, modelled by what the
process relies on.

### Service

`RewardClaims` and an instance of `Outbox` whose events are named by the claim
ids, that is by the calls. A step of the API that commits an event is an
`InsertEvent` of the outbox in the same instant; every other step leaves the
other side alone. `InsertEvent` is the environment's choice in `Outbox`; here it
is bound to the commits, so that what is known of both sides holds together.

### WorkerMetrics

`Outbox` with the counters a worker increases when the answer of a finalization
arrives (`ObserveTransition`), when it gives up on one (`ObserveOperationError`),
and not at all (`Unobserved`: canceled, or dead). Counters are summed over
processes and kept per event. `opErrors` and `cut` are kept per event too: the
finalizations of the event that ended without an answer, with an operation error
on the dashboard and without. `MaxUnheard` bounds them for TLC; the theorems hold
for every bound. `ObservePublish` is the return of a publish; `publisherFailures`
is history, the failures of the publisher under workers that were not shutting
down, which is what `failed_attempts` is meant to count. An answer reaches its
worker in the step that executes the statement, or never: whether it comes at
once or after other workers' steps decides only when a transition is counted, and
a transition on record stays so.

### LeaseBudget and Backoff

`LeaseBudget` starts from any configuration, runs `validateOutbox` in two's
complement, and lets one worker iterate while another waits for the lease to run
out. Queries and publishes end within their timeouts and take no time in
between: the "normal-path I/O budget" of the runbook. The lease reaches the
server as `lockTTL.Seconds()` and becomes an interval there, which rounds to
microseconds; the model passes it on as it is, so `LeaseCoversIteration` says
nothing of a margin below a microsecond. `Backoff` runs the loop of
`retryDelay` round by round.

## 3. Runs

| Run | Instance | Shows |
|---|---|---|
| `outbox_late` | `WorkerMetrics`: 2 workers, 1 event, 3 acquisitions, 2 failures, late execution, 2 finalizations given up on, 3 failed publishes | CHECK constraints, at-least-once, `DeliveryContract`; counters never claim too much, an undercount leaves a trace; a shutdown is never a failure |
| `outbox_prompt` | 3 workers, 2 events, no late execution | fence rejects stale finalizations; failures stay below the maximum |
| `outbox_overshoot` | 2 workers, 1 event, 3 acquisitions, late execution | **violation**: see Findings |
| `claims_safety` | 4 requests, 2 keys, 2 rewards | the claim properties (among them one answer per key) and `ClaimLedger` |
| `claims_live` | 3 requests, 2 keys, 2 rewards, fairness | every call returns |
| `service_safety` | 2 requests, 2 keys, 1 reward, 2 workers, 2 acquisitions, late execution | only grants are announced, no grant is lost |
| `service_live` | 1 request, 2 workers, 2 failures, no late execution, fairness | every grant's event is settled; a worker told to stop stops |
| `http_exchange` | one request, either server, limits of 1, fairness | response, status and metrics agree; validation matches the tables; panics are visible; every request ends |
| `api_process` | 3 requests, fairness | exit code, requests served to the end, termination |
| `worker_process` | whole state space, fairness | exit code, readiness, termination |
| `lease_budget` | durations 1..9 | validation is exact, lease covers iteration |
| `backoff` | durations up to 15, 7 failures | capped exponential |

The type invariants, `DeadLetterAtThreshold`, `SettledIsFinal` and
`StoredResponseImmutable` are proved for all constants (section 5) and are not
checked again by a run; the last three also follow from properties that are
(`ImplementsContract`, `NoGrantLost`, `DeterministicReplay` with
`ImplementsLedger`). `HttpExchange` keeps its type invariant in its run, since it
says more than types: an answer has a result or an error to go by.

*Bounds.* Two failures are the least maximum with both a retry and a dead
letter. One event suffices for `outbox_late`, rows being independent but for the
workers' attention; `outbox_prompt` has two. Two finalizations given up on let
one worker lose an answer and another leave a statement behind that runs late.
Three failed publishes (`MaxPublisherFailures`) are one for each acquisition.
Three acquisitions let an abandoned statement, the row's lease and a new claim
have different names. There is one worker more than events, so that a fresh id
always exists. Four requests allow a claim, a concurrent rival, a retry and a
request after retention. One request suffices for `HttpExchange`, whose requests
share nothing but the database; a limit of 1 has sizes below, at and above it.
Three requests in `ApiProcess` allow one answered, one in a transaction and one
not yet read when the shutdown begins. Two requests with different keys for one
reward in `service_safety` let one be rolled back or refused while the other's
event is on its way; a maximum of one failure suffices there, since retries are
`outbox_late`'s subject. Durations up to 9 contain accepted and refused
configurations on both sides of each comparison, and sums that wrap.

*Deadlock* is checked for the outbox and for the service, which never stop.
`outbox_late` stops at its bound. Requests are one-shot, a process exits,
`retryDelay` returns and a refused configuration stops the process: those runs
allow the final state.

*Fairness.* `Outbox`: goroutines and timers run (weak fairness of loop steps and
of time). The retries of the loop and the lease budget make it happen again and
again that a claim is served and answered, that a publish returns before its
lease is over, and that a finalization executes: strong fairness per event.
Disruptions (shutdown, crash, fatal error) are assumed to stop eventually;
otherwise nothing can be promised. `RewardClaims`: a statement that need not
wait is executed, and an abandoned transaction is ended by the server, its
client being gone or its bounded rollback arriving; no fairness on failures,
retention or begin. `WorkerProcess`: goroutines run, the deadline and query
timeouts expire; nothing is assumed of the publisher or of a component's
obedience. `ApiProcess`: goroutines run, the shutdown deadline expires, the query
timeout ends every transaction and bounds its rollback; nothing is assumed of
clients or of handlers outside a transaction. `HttpExchange`: the handler's steps
are taken (reads and writes end by the server's timeouts), the query timeout
expires, and the driver returns once its context is done; nothing is assumed of
the database before. `Service`: the fairness of its two components.

## 4. Findings

`outbox_overshoot` (documentation and code differ). `docs/architecture.md:95`:
"after a publish failure reaches the configured maximum failures, the event
moves to `dead_letter`". The fence of the finalizing statements compares the
worker id only. If a worker gives up on a `ScheduleRetry` that the server
executes much later, after the same worker has leased the row again, the fence
lets it pass. The row ends up pending with the maximum of failures on record,
and is published again. At-least-once delivery is not affected (`outbox_late`
and the theorem `AtLeastOnce` include late execution). Without late execution
the documented behaviour is proved (`PromptAttempts`, `PromptFencing`).

## 5. Proofs

All theorems hold for every value of the constants under the named assumptions:
`OutboxAssumption` (a positive maximum, NULL distinct), `ClaimsAssumption` (NULL
distinct), `ServiceAssumption` (that of `Outbox` for the events of the service),
`DurationAssumption` (a positive width), `BackoffAssumption` (a bound on attempts),
`LimitsAssumption` (positive limits, NULL distinct), `ColumnAssumption` (the limit
of the service and the one written in the migration are equal: both are 128),
`MetricsAssumption` (finitely many worker processes).

* `OutboxProofs`. `OutboxInv` adds to the properties what a statement in flight
  knows however late it executes: a `mark_published` is of a delivered event, a
  `mark_dead_letter` was decided from a count that can only have grown. From it:
  `TypeCorrect`, `ConstraintsHold`, `AtLeastOnce`, `DeadLetterThreshold`,
  `SettledStays`, and `Refinement` to `DeliveryContract`. Under
  `~LateExecution`, `PromptInv` adds that every statement in flight is awaited
  and that a worker whose id is on the row works under the row's acquisition
  or holds none: `PromptAttempts`, `PromptFencing`.
* `RewardClaimsProofs`. The invariant ties each uncommitted row to its
  transaction's place in `createClaim`, makes holders of one key or reward
  exclude each other, and says that a committed record carries a response. From
  it the safety theorems, and `LedgerRefinement`: a commit is a grant or a
  refusal, every other step but retention a stutter.
  `ReplayIsDeterministic` needs one more strengthening: a call that will give, or
  has given, a response has it on record under its key until the key is
  forgotten.
* `ApiProcessProofs`. The invariant relates the channel to the goroutine that
  sends on it, and the phases of the shutdown to what may still be open:
  `ApiTypes`, `ApiExitZero`, `ApiFailureCause`, `ApiServesToTheEnd`, for any number of requests.
* `ServiceProofs`. Every step of the service is a step of each component or
  leaves it alone, so both inductive invariants carry over; the link is
  `OneTable`: what the API has committed is what the workers see
  (`ServiceInvariance`). From it `GrantsAnnounced` and `GrantsKept`; and the
  service keeps both contracts, `ServiceKeepsLedger` and `ServiceKeepsContract`.
* `WorkerProcessProofs`. The invariant counts: results received and results in
  the channel are those of the goroutines that have sent. From it
  `ProcessTypes`, `ReadinessIsHonest`, `CleanExit`, `BlamedExit`.
* `HttpExchangeProofs`. `HttpInv` says what is known at each place of a request:
  the recorder holds what the header says (`HeaderRecorded`), a panic ends in an
  abort or in the middleware's 500 (`PanicHandled`), a handler that returns
  without a word has seen its client go (`SilenceExcused`), the request is
  counted when the middleware logs it (`RequestCounted`), an error is classified
  by the traits the driver gave it and by what ended the query first
  (`CallClassified`), the answer is the one for that class (`AnswerMatchesCall`),
  and the input is what the two validations let through (`InputValidated`). From it `HttpTypes`, `StatusRecorded`,
  `SilenceIsNoSuccess`, `SwitchesAgree`, `FirstCause`, `ValidationFits`,
  `PanicsShow`, for every limit on ids and keys.
* `WorkerMetricsProofs`. `CountersSound`: a counter goes up only in the step that
  puts its transition on record, and the row was open before. `UndercountsShow`
  is not inductive as stated: a finalization given up on has its error on record
  at once and may become an uncounted transition much later. `Accounted` adds
  the finalizations in flight that nobody waits for to the uncounted ones; and
  `LeasesSound` says that an acquisition names one worker and at most one
  statement in flight, so that no answer is taken for another's. Each step then
  keeps the balance (`Balance`), in terms of the cardinalities of two sets.
  `ShutdownIsNoFailure` needs the same: `FailuresCovered` adds the failures still
  in flight to those on record, and the publisher's cover both.
  `MetricsObserveOnly`: the counters disturb nothing.
* `DurationProofs`. For `retryDelay`, the loop invariant relates the delay to the
  rounds done: `RetryDelayIsCapped`, that doubling with the early exits computes
  `base * 2^n` cut off at `max`. It needs
  induction over the exponent; `SetInduction` states it for the set of numbers
  with the property (from the well-foundedness of `<`), which the provers can
  instantiate, and `Pow2Def` and `Pow2Monotone` rest on it. For the lease,
  the invariant says how much of it is left at each call: `LeaseTypes`,
  `ValidationExact`, `LeaseCovers`.

Only model-checked: the liveness properties (`EveryExchangeEnds`, termination of
both processes, `GrantIsSettled`, `WorkersStop`, the return of every call), since
fairness and ENABLED are beyond the prover. Every invariant and every refinement
that a run checks is also proved.

## 6. Not modelled, and the plan

Left to prove: the step invariants behind the liveness properties (that an
unfinished process or request always has an enabled step of its own), as far as
they can be stated without ENABLED.

Not modelled, and why:

* Parsing of environment variables (`internal/config`, but for durations and the
  lease budget), request ids, header names, response texts and log lines: pure
  conversions that no decision and no property depends on.
* Metric labels, durations, registration, and the counters of claim and publish
  attempts: each is increased next to the call it counts (`ObservePublish` is
  there for what the return of a publish leads to, not for its counter).
* A clock that runs backwards: `updated_at >= created_at` compares two readings
  of the server's clock, and an UPDATE refused by it stops a worker. Time is one
  bit per row in `Outbox`.
* The readiness answer as a snapshot: the checks run one after the other and the
  endpoint promises none. `WorkerProcess` has the probe's two steps.

# KMan automation platform: specifications and proofs

TLA+ models of the platform's logic (circuit breaker, Redis work queues, WhatsApp
delivery with its limiter and retries, the data pipeline's jobs and figures, reporting and
its schedules, the automation engine with its rules and the AI judgment service), the TLC
runs that check them on small instances, and TLAPS proofs that hold for every value of
the constants.

    tlc  -workers 2 -config MCAdapter.cfg MCAdapter       # one run
    tlapm DeliveryProofs.tla                              # one proof module

## The system

Five FastAPI services share a library. Each service is one asyncio event loop per
process: code between two `await`s runs without interleaving, and everything else
interleaves. PostgreSQL and Redis are shared by all processes and instances.

| Component (source) | State it keeps | Operations | Talks to |
|---|---|---|---|
| Circuit breaker (`shared/common/http.py`) | `_state`, `_failures`, `_opened_at`, per client object | `call`, `_on_failure`, `_on_success` | every HTTP client of the services |
| Service client (same file) | connection, breaker | `request`: three attempts inside one breaker call | AI service, adapters |
| Work queues (`shared/messaging/queue_contract.py`) | Redis lists `kman:queue:*`, keys `kman:dedupe:<id>` with a 24 h TTL | `enqueue_message`, `dequeue_message`, `consume` | automation engine (producer), AI judgment (consumer), operators with `redis-cli` |
| WhatsApp delivery (`whatsapp_adapter/app/services/delivery_service.py`) | rows of `whatsapp_delivery_attempts`, keys `kman:dedupe:wa:<id>` | `deliver`, `_deliver_one`, `_persist_attempt` | limiter, workspace client, database |
| Retry worker (`workers/retry_worker.py`) | its task | `_scan_once` every 30 s, `_retry` | calls `deliver` under the row's own dedupe id |
| Workspace client (`services/workspace_client.py`) | client, breaker | `deliver`: POST loop, answer to exception | the workspace, an external service |
| Rate limiter (`core/rate_limiter.py`) | Redis hash per destination | Lua `acquire`, fail-open | Redis |
| Data pipeline (`workers/runner.py`, `services/job_service.py`) | jobs in memory, a semaphore | poll loop, one task per pending job, cancel | connectors |
| Reporting (`workers/scheduler.py`, `services/*`, `api/reports.py`) | report and schedule rows, cron jobs in memory, artifact files | generate, deliver, reload schedules | WhatsApp adapter |
| Automation engine (`services/*`, `core/rules.py`, `workers/scheduler.py`) | order, stock, dispute, compensation rows | checks and decisions, three interval jobs | work queues, AI judgment |
| AI judgment (`adapters/*`, `services/*`, `workers/consumer.py`) | cached adapter, audit rows | judge, consume disputes | model providers |

What is hard here, and what the properties are for:

* **Overlapping calls of one breaker.** The guarded call runs outside the lock, so
  results arrive late, after the circuit opened, or never (cancellation).
* **Claim, then push or deliver.** A dedupe key and the work it stands for are two
  Redis calls, or a Redis call and a database insert. Crashes and errors fall in between.
* **Retries that meet their own dedupe key**, in the queue and in the adapter.
* **Ambiguous POSTs.** A timeout may follow a message the workspace took.
* **Several instances.** Retry workers of several adapter instances scan the same rows, and
  their clocks differ at the shared token bucket.
* **Select, compute, commit.** Every database session of the automation engine and of the
  schedules API reads a row, awaits, and writes what it changed over what is there by now.
* **Runs that outlive their caller.** A timed-out triage leaves the AI service at work, and
  paid; a crash leaves a report row RUNNING.
* **Boundaries** of rules, pages, periods and thresholds.

`PROJECT.json` lists every hazard at its line with the properties that cover it.

## What each module models

### CircuitBreaker

The breaker with any number of tasks in `call()`. None of the three critical
sections awaits while it holds the lock, so each is one action: `Admit` (the `OPEN`
test and the step to half-open), `OnSuccess`, `OnFailure`. The guarded call is the
time between `Admit(c)` and `Succeed(c)`, `Fail(c)` or `Cancel(c)`; a cancelled call
runs neither handler, because `CancelledError` is no `Exception`. `remoteUp`, which
flips at any time, decides how a call ends. `age` counts ticks since the circuit
opened up to `ResetTimeout`, and `failures` stops at the threshold: neither cap
hides a behaviour, the code only compares with `>=`.

Correct means: a closed circuit is below its threshold, only half-open leads from
open to closed, an open circuit admits nobody, and in the long run the circuit
closes for a remote service that stays up and not for one that stays down.

### WorkQueue and AtMostOnceQueue

One queue with its dedupe keys, any number of `enqueue_message()` callers, operators
and `consume()` loops. Each Redis call is an action: `Claim`/`ClaimHeld` (SET NX),
`Push` (LPUSH), `Dequeue` (BRPOP), then the handler, then the requeue of a failed
message through the same two calls (`RequeueClaim` or `RequeueHeld`, `RequeuePush`).
`PushLost`, `DequeueRaises` and `ConsumerDies` are the crashes and Redis errors between
them. A *copy* is a dedupe id with the number of the grant it was pushed under. The
number is a history variable that tells two messages of one id apart.

`AtMostOnceQueue` is what the queue promises a handler: items are issued, given to one
worker at most once, finished at most once, possibly never given to anyone.
`WorkQueue` implements it under the mapping at the end of `WorkQueue.tla`.

### Delivery

`DeliveryService.deliver()` run by request handlers and by retry workers of any number
of instances, over shared dedupe keys, attempt rows and a workspace. A worker's `pc`
is the await it is at:

| `pc` | code | actions that leave it |
|---|---|---|
| idle | not in `deliver()` | `Request`, `Scan` |
| next | the `for msg in request.messages` loop | `Claim`, `Skip`, `ClaimRaises`, `Finish` |
| acquire | `rate_limiter.acquire` | `Acquire`, `AcquireDenied`, `AcquireRaises` |
| post | the POST loop of `WorkspaceClient.deliver` | `PostAnswered`, `PostUnreadable`, `PostRefused`, `PostFails`, `CircuitRefuses` |
| record | `_persist_attempt` | `Record`, `RecordRaises` |

`PostFails` stands for a 5xx, a timeout or a broken connection. The workspace may have taken
the message (`MayReceive`), and so it may have after a 200, whose `accepted`, `rejected` and
`errors` no code looks at: `PostAnswered` makes a `sent` row of every 200 that parses. What
`SentRowsWereAnswered` claims is such an answer for each row, not a receipt. `RecordRaises`
distinguishes the insert inside the `try` (a `sent` row that fails to be written turns the
message into a failed one) from those in the `except` clauses (the batch ends). `Crash` is the
death of a process or the cancellation of the retry worker's task by `stop()`. History
variables count what the workspace took (`received`) and answered (`answered`), dedupe windows,
and windows lost without a row.

Left out: the order of a batch; the limiter's tokens and the breaker's state (both may
refuse at any time; `Outbound` has them in full); what the workspace says of a message in the
body of a 200; the `attempts` column, which every
insert sets to 1, so the `MAX_ATTEMPTS` test excludes no row; backoff times (a scan takes
any subset of the due rows); the body of a retried message, which the code replaces by the
text `(retry)`.

### RateLimiter and Outbound

`RateLimiter` is the token bucket of one destination. `BeginAcquire` reads the instance's
clock (and loads the script, once per instance), `Execute` is the Lua script with the
reading as its argument, so readings arrive late, out of order and skewed. A reading behind
the stamp refills nothing but moves the stamp back, which later refills that stretch of time
again: `regress` adds up those stretches. `Unavailable` is the fail-open path, `NoScript` the
error reply of a Redis that lost the script, `RedisRestarts` and `BucketExpires` are Redis.

`Outbound` is the way of one message: token, breaker, then the POST loop. Redis is shared by
all processes, a breaker only by the tasks of its process (`Home`): `circuit[i]` is an INSTANCE
of `CircuitBreaker` for each process, whose callers are the process's tasks at work.
`Response` and `NoResponse` end an attempt. The loop runs inside the breaker's call and only
an exception after the last attempt is a failure to it; the status is read behind the call.
Hence the run `workspace_down`: a workspace that answers every POST with a 503 never opens the
circuit, against the README's "opens after 5 consecutive failures". `UsesBreaker` ties the two
modules: whatever the limiter, the loop, the clock and the other processes do, each delivery
is one call of its process's breaker, admitted and ended once, and nothing else moves that
circuit.
`WorkspaceLoadBounded` is the limit all instances together keep: a full bucket, once more
per restart, the refill of the time and of the regressed time, plus the unanswered acquires.

### AutomationRules and Decisions

`AutomationRules` has the pure functions of `core/rules.py` and of the services. Times are
naturals, amounts cents; means and percentages are compared by cross-multiplication. A
message is the set of patterns it matches. `Flush` is SQLAlchemy's unit of work: an UPDATE
writes the columns the session changed, over the row as it is by now.

`Decisions` is the compensation table: `decide()` inserts whatever the rules say of its
inputs. Its properties relate a decision to the order's value, to every other decision and
to what the delay check suggested for the same delay.

### AutomationEngine

The order, delay and stock checks as overlapping requests. A request is two actions, the
select (`OrderRead`, `DelayRead`, `StockRead`) and the flush with its commit (`OrderInsert`,
`OrderUpdate`, ...), since other requests run in the awaits between them. `RollBack` is
`session_scope()`'s except branch or the death of the process. A second insert of an order
meets its unique key and raises; nothing guards `(sku, warehouse)`, so two first checks of a
sku insert two rows and every later `scalar_one_or_none()` raises (`StockReadRaises`). An
expected delivery that is no date raises before the select (`DelayUnreadable`), with no other
request involved. `twins` holds the orders and skus two of whose first checks overlapped,
`clashed` the orders with overlapping delay checks: only the first excuses an error.
`Kept` is the history column: `append()` changes the loaded list in place, the assigned copy
equals it, and the session writes nothing unless the list was empty or was cut. That is why
no check ever answers `dropping` (`stock_drops_unseen`).

### AIJudgment and DisputeTriage

`AIJudgment` has the adapters `KMAN_AI_PROVIDER` can make (`Providers`: one that calls, one
without a key, a stub, and none for an unknown name, where every call fails outside the
handler's `try`), the service's three ways in (`/judgment`, an endpoint of the task's own, the
queue's handler), the adapters' retry loop, what a reply becomes (`Replies`, `AdapterReads`,
`HasResult`, `Result`) and the audit entries. The result is built and logged in the step in
which the reply arrives, because nothing awaits in between.

`DisputeTriage` extends it: the engine's request, `ServiceClient.request()`'s attempts, each
a call `<<triage, attempt>>` of the service that goes on when the client has timed out, the
merge of answer and rules (`AiDecision`; a confidence is any number or a NaN, as in the code),
the fallback, and `persist_triage()` as select and
write. The breaker is left out for a reason in the code: each triage makes a `ServiceClient`
of its own, whose breaker sees one outcome.

### Reporting

Schedule rows, cron jobs in the process, edits through the API, reloads in two steps (the
select, then the registration), runs step by step (`Fires` or `AsksFor`, `InsertsReport`,
`Rendered` or `RenderRaises`, `HandsOver`, `Announces`), and crashes. `handed` says that
`deliver_report()` was called: it swallows every failure and its callers ignore its answer.
`Renderable` is the templates whose variables the callers' data has. In the code there is none;
the passing run takes a template that fits its data, so that the steps behind rendering are
checked too, and `scheduled_reports` takes the templates as they are.

### Analytics

RFM segments, funnel, cohorts, anomalies, chunks, the paged read and the summaries as
operators on a stream of orders or a series of numbers. The rows of a period or of a
status are the positions of its orders in the stream. The state is the input, grown one
element per step, so a property over it holds for every input up to the bound. Squares and
products replace roots and divisions. Times are in UTC. The labels of the cohorts' days, weeks
and months are a parameter, `Calendar`, so that nothing proved depends on a calendar.

### JobRunner

The data pipeline's jobs: `CreateJob` and `CancelJob` are the API, `Poll` is one round of
`_loop()` (JobService's coroutines never suspend, so a round is one action), `Start` or
`StartUnknown` is `_execute()` from the semaphore to the handler's first await,
`JobReturns`, `JobRaises` and `CancelRunning` are the ways it ends. `waiting[j]`
counts the tasks of a job that have no permit yet: each poll adds one while the job is
pending. `permit[p]` is the job whose handler runs under a permit, so the concurrency
cap holds by the shape of the state and is no property. `StopLoop`, `CancelRunning` and
`CancelWaiting` are the shutdown. Which waiting task gets a permit is left open (the
code's semaphore is first-in first-out); progress and results are left out. A task that finds
a free permit takes it in its first step, long before the next poll a second later, so `Poll`
happens only when no task waits beside a free permit (`PermitsAreTaken`): a task that waits
across polls waits for an occupied permit.

### The MC modules

`MCWorkers`, `MCAdapter`, `MCEngine` and `MCReporting` put modules that share no state side by
side: a behaviour of theirs takes one of the modules and leaves the others at their initial
states. The parts that do interact are composed in `Outbound` and `DisputeTriage`.
`MCWorkQueue`, `MCJobRunner`, `MCDelivery`, `MCOutbound` and `MCStock` are for the violations, which
need one module and few of its faults; `MCStock` adds a history of the readings the stock
checks saw.

## The runs

Deadlock checking is off where the system may rest: for the queue (all loops may have
stopped), for delivery and the engine (windows, times, triages and tables of the model are used up),
for the jobs (the service has shut down) and for reporting (no request comes).

| Run | Shows |
|---|---|
| `breaker` | Type, a closed circuit is below its threshold, an open one holds, and two liveness properties: three callers, threshold 2, two ticks. Two calls open the circuit while the third, admitted before, is in flight. |
| `breaker_reopen` | *Violation.* The docstring's "failure re-opens" (`http.py:35-37`): after a late success cleared the count of the open circuit, a failed trial leaves it half-open. |
| `workers` | The queue: type, one copy per window, one handler per copy, refinement of `AtMostOnceQueue`, and that no loop wedges, for two ids, two consumers, all faults, two grants per id. The job runner: type, status against running handlers, early cancellation, every job settles, for three jobs (one of an unknown kind), two permits, one job per poll, two waiting tasks per job. |
| `queue_loses_work` | *Violation.* `consume`'s docstring (`queue_contract.py:147-148`): one exception in a handler, no other fault, and the accepted message is in no queue. |
| `adapter` | Delivery: one message, two request handlers and a retry worker, two POSTs, three windows, all faults; a failed or rate-limited message is taken up in the next window. Outbound: two processes, one with two tasks, a bucket of one token, a skew of one tick, one restart, three acquires, two attempts. |
| `delivery_resends` | *Violation.* The README's "ensures retries do not produce duplicate deliveries": a row that once failed is delivered again after the message was sent. |
| `workspace_down` | *Violation.* The README's "Circuit breaker opens after 5 consecutive failures" (line 100) and "`5xx` — workspace down" (line 60): deliveries that end in a 5xx leave the circuit closed, as many as there are. |
| `jobs_resurrect` | *Violation.* The lifecycle of the service's README (lines 56-58): two jobs hold both permits, a third one is cancelled while its task waits, and runs when a permit is free. |
| `engine` | Two requests on one order and one sku; two decisions on both sides of every limit; two triages of one dispute with two attempts each against two attempts of the adapter, and one call from any other entry of the AI service under any adapter. No step takes a triage back (`TriageOnlyAdvances`), and every triage ends. |
| `stock_drops_unseen` | *Violation.* The README's "rising / stable / dropping from history" (line 37): one request at a time reads 0, 4, 0, 0, and no answer was `dropping`. |
| `reporting` | One schedule and one request on demand, an editor beside the start-up's reload, two report rows, every fault; streams of up to three orders (or four of one customer and two more), series of up to six numbers. |
| `scheduled_reports` | *Violation.* The service's README, "scheduled runs always deliver to the configured recipients" (line 35): with nothing failing, rendering raises and nothing is handed over. |

### Bounds, and why they are enough

* *breaker*: with a threshold of 2 and 3 calls, results of calls admitted before the
  opening arrive after it. A larger threshold only adds failures of the same kind.
* *workers*, the queue: two grants per id allow the first copy, an expired key, and a second copy
  that meets the first one's requeue. Two ids let copies of different ids overtake each
  other on the list. `MaxGrants` bounds `Grant`, and `Expire` leaves a grant for the
  requeue that may follow, so the bound never blocks a consumer.
* *adapter*: workers on different messages share nothing but the batch they come in, and a
  batch that ends early leaves its messages as they were; one message with three workers is
  where they meet. Two POSTs have a first, repeated attempt and a last one. Two windows let a
  stale row meet a new delivery, and three windows let the liveness property speak of the
  first two. Two tasks of one process overlap in one breaker, a third has one of its own.
  `MaxTime`, `MaxAcquires` and `MaxRestarts` let a late reading meet a stamp that is ahead,
  an expired bucket and one that a restart emptied.
* *workers*, the runner: three jobs compete for two permits, so a task waits while others run,
  and two waiting tasks of one job are a duplicate. A poll that takes one job starves the older
  ones while it can. `MaxWaiting` only holds back polls that would add a third task of one job.
* *engine*: two requests give every pair of overlapping reads and writes of one row, and a
  request may follow in the slot of an ended one, any number of times. `HistoryLimit` 3 is
  reached and passed. Two rows of the table (`MaxRows`) are what the pairwise properties speak
  of; `Delays` and `Prices` hold the values around 2, 5, 10 days, 20.00 and 100.00, and 9.00,
  which is below the fixed minimum. Two attempts have a first, repeated one and a last one.
  Only one of the two triages may use the AI (`Askers`), the other triages by the rules: enough
  for both to write. The confidences are below and above the limit, a NaN and one that is no
  number at all.
* *reporting*: `MaxReports` 2 gives a schedule and a request, or two runs of one schedule, a
  row each. An editor and the start-up are two reloads that overtake each other. Three orders
  make two customers and a repeated one; four orders at once and two more reach "loyal" and
  "champions", which need three and five. `MaxSeries` 6 passes `Sigma` squared (4) by two.

The proofs below do not depend on these bounds: they hold for all values of the constants.

### Fairness, and why the code justifies it

* *CircuitBreaker*: time passes (weak). Callers keep calling (weak). A started call ends
  (strong in `Succeed \/ Fail`), because httpx bounds every request by a timeout, and the
  only cancellation in the code, `RetryWorker.stop()`, happens once, at shutdown.
* *WorkQueue*: a running loop takes its next step (strong, because a loop that dies and is
  restarted must still get to poll some time). A started enqueue ends (weak). Nothing is
  assumed of crashes, restarts, stops or producers.
* *Delivery*: retry workers keep scanning and find each due row again and again (the loop
  catches every exception and waits 30 s; a row's backoff is seconds). The claim of a
  worker that meets a free key again and again succeeds some time (strong, outages are not
  for ever). Batches and attempts end (weak, every await is bounded by a timeout). Keys
  expire (24 h TTL).
* *JobRunner*: the loop polls (weak), a free permit goes to some waiting task (weak), a
  handler ends (weak: it reads finite data). The set of jobs is finite. With jobs arriving
  for ever the newest-first list does starve old ones.

* *DisputeTriage*: a request's attempt, its wait and its writes go on (weak): httpx's timeout
  fires, the back-off ends, the database answers. Nothing is assumed of the AI service,
  which may hang or die, and nothing of `Abort`.
* *AutomationEngine, Reporting, Outbound, Decisions, Analytics*: none. Their properties are
  safety properties.

## What is proved

Eight modules prove, from the named assumptions on the constants only
(`BreakerAssumption`, `QueueAssumption`, `DeliveryAssumption`, `RunnerAssumption`,
`RateAssumption`, `OutboundAssumption`, `DecisionsAssumption`, `EngineAssumption`,
`JudgmentAssumption`, `TriageAssumption`, `AnalyticsAssumption`, `ReportingAssumption`):

* **Breaker** (`CircuitBreakerProofs`). Type correctness, `ClosedBelowThreshold` and
  `OpenHolds`. The first two are inductive together; the action property follows from the actions.
* **Queue** (`WorkQueueProofs`). Type correctness, `OneCopyPerWindow`, `NoCopyStartsTwice`,
  `OneHandlerPerCopy`, and `QueueIsAtMostOnce`: every step of `WorkQueue` is a step of
  `AtMostOnceQueue` or a stutter. None of these is inductive alone. The invariant adds
  that every copy in sight carries a grant number that was really granted, and that the
  places a copy can be in (on its way, on the list, requeued) exclude each other.
* **Delivery** (`DeliveryProofs`). Type correctness, `OneDelivererPerMessage`,
  `EveryWindowRecordedOnce`, `SentRowsWereAnswered` and `DuplicatesBounded`. The invariant
  `DeliveryInv` adds what a delivery under way still owes: it holds its key, a `sent` row about
  to be written has an answer of its own (`SentAccounted`), and a call that made `posts` POSTs
  used at most that many of its window's receipts (`ReceiptsAccounted`). The key lemma is that
  a message with an expired key is delivered by nobody, so each `SET NX` opens a window exactly
  when the last one is accounted for.
* **Jobs** (`DataPipelineProofs`). Type correctness, `RunningIsExecuting` and
  `EarlyCancelHonoured`, which are inductive only together: a job with a running handler is not
  pending, so a cancellation that finds a pending job without a task finds one that nothing can
  start.

* **Outbound** (`OutboundProofs`). Type correctness and `WorkspaceLoadBounded`, for any number
  of processes. The load's invariant (`BucketInv`) is a balance at every moment: the
  tokens taken, those in the bucket and those the time since its stamp will refill never exceed the
  budget; an expired bucket has had the time to fill (`Rate * Expiry >= Capacity`, an
  assumption that is 0.5/s for an hour against 5 in the code). `CountInv` passes from tokens
  to deliveries: each delivery, and each task admitted by the limiter and not yet by a
  breaker, used a grant or a free acquire. `OutboundUsesBreaker` shows every step of the
  composition to be, for each process, one of its breaker's own or none of its business, and
  `OutboundCircuitHolds` carries `OpenHolds` over to deliveries.
* **Decisions** (`DecisionsProofs`). `RefundWithinValue` and `OffersConsistent`, for all
  delays, values and tiers: every row is what the rules give for its inputs
  (`DecidedByRule`), and the rules are monotone, by cases on their branches.
* **AI judgment and triage** (`DecisionsProofs`). `JudgmentAuditMatches` is
  `AuditMatchesAnswers` for any adapter and any calls; its invariant says what the log holds of
  a call in each phase (`Due`), and that only a call of an adapter with a key waits. For
  triages: type correctness, `RowIsOneDecision`, `TriageOnlyAdvances`, and
  `TriageUsesJudgment`, the refinement: every step of `DisputeTriage` is one of
  `AIJudgment` or a stutter, so the audit log is true of a triage's attempts as well. The
  invariant (`TriageInv`) carries the decisions taken to the row (`Carried`), and says that
  what a write found is still the row unless two writes overlapped (`WritesKnown`,
  `FoundHolds`, `FoundStays`). An update of some columns then makes one whole decision of the
  two. Confidences are any integers, a NaN, or no number.
* **Engine** (`AutomationEngineProofs`). Type correctness, `RowHoldsLastCheck`,
  `ErrorsNeedOverlap`, and why no drop is seen (`EngineNoDropIsEverSeen`), for any number of
  requests. The invariant adds that rows once found stay (`RowsStay`), that
  a session without overlap still holds the dates of the row it read (`ReadsHold`), that two
  sessions that could clash are known to have overlapped (`OverlapsKnown`), and that an absent
  row has no dates. That no drop is seen needs that every history, in the table and in a
  request's hands, is still the one zero of its insert (`FirstReading`).
* **Reporting** (`ReportingProofs`). Type correctness, `RunningIsRendering`,
  `DoneIsAnnounced` and `JobMatchesRow`, for any number of schedules, editors and requests.
  Three invariants beside the type: `ReportInv` (a run owns the row it works on, and what
  the row reads follows from how far the run got), `AnnouncedInv` (what was promised for a
  finished one) and `ReloadInv` (while a commit is not in the jobs, a reload that will
  register it is still to come, or the schedule is marked stale).
* **Figures** (`DataPipelineProofs`). `ReadOnce`, `FiguresAddUp` and `ShortSeriesNeverAlarm`
  for streams, series, pages and chunks of any length. The invariant is only the type of the
  input; the work is in what the operators compute. Sums (`SumFunctionOnSet`) and
  concatenations (`FlattenSeq`) of the community modules are recursive functions behind a
  `CHOOSE`: `SumExists` and `FlattenChoice` show that there is one. The sums' lemmas follow (a
  sum does not depend on the order, is linear, adds up over parts), and with them: breakdowns
  add up to totals because the keys part the rows (`PartsAddUp`); adjacent periods share the
  rows of the common instant (`PeriodsMeet`); segments are monotone (`SegmentsMonotone`). Two
  theorems show what the service's README promises and the code cannot do:
  `FiguresCohortsNeverAge`, because an order's offset in its cohort is 0 (`OffsetIsZero`), and
  `FiguresNobodyIsRegular`. `ShortSeriesNeverAlarm` is that of n numbers none is further from
  the mean than the deviation times the root of n - 1 (`FurthestValue`), shown by adding up the
  squares of (n - 1) x + (v - sum), which cannot be negative.

The type invariants of `Outbound`, `DisputeTriage`, `Reporting` and `Analytics` are
established by these proofs alone; no run repeats them.

Induction over data. The library's induction theorems take an operator as a parameter,
which the provers here cannot instantiate. `SubsetInduction`, `ElementInduction` and
`CountingInduction` take a *set* `Holds` of the values that satisfy a claim instead, and
follow from the library's first-order facts about the subsets of a finite set
(`FS_StrictSubsetOrderingWellFounded`, `FS_FiniteSubsetsOfFinite`, `WFMin`).

Only model-checked: the liveness properties `RecoveryCloses`, `DeadRemoteFencedOff`,
`QueuedIsTaken`, `FailedIsRetriedNextWindow`, `EveryJobSettles` and `EveryTriageEnds`,
which the proof system cannot reach (nor can it reason about `ENABLED`).
Of the last one the safety half is proved: a triage has fewer steps left after each. The
violations need no proof. `QueueNoCopyStartsTwice` is proved though no run lists its
invariant: the refinement implies it.

## Assumptions of the models

* `Delivery` assumes that a dedupe key outlives the delivery it guards: three POSTs of at
  most 10 s and their backoff, against 24 h. Redis is assumed not to forget keys. With
  the default image and snapshots only, a Redis crash may lose the latest of them.
* `Acquire` in `Delivery` includes the limiter's fail-open path.
* Clients time out, and monotonic time does not stop.
* `Outbound` counts one clock for the bucket and the breaker's window. The clock of an
  instance lags the fastest one by at most `MaxSkew`.
* `AutomationEngine`, `DisputeTriage` and `Reporting` take a commit as one step (READ
  COMMITTED: a flush writes over what is there by now). `Reporting` takes APScheduler's
  defaults: one instance of a job, replaced by a job of the same id.
* No code of the repository writes a stock row's quantity; `Restock` stands for whatever does.
* Confidence is in whole percent in `DisputeTriage` (of any size, or a NaN), means are exact in
  `Analytics`.

## Noticed while modelling

Besides the violations the runs find:

* Delivery. The retry worker sends the text `(retry)` instead of the message, since the row
  does not keep the body, and it meets the dedupe key of the attempt it retries until the
  key expires, while `RUNBOOK.md:77-78` says it "picks them up every 30s". `MAX_ATTEMPTS`
  and the exponential backoff never take effect, because each attempt inserts a new row with
  `attempts=1`. The workspace's `Retry-After` is logged but not waited for. A 200 that
  lists the message under `rejected` or `errors` (`whatsapp_contract.py:49-56`) makes a `sent` row
  like any other.
* Limiter. The reload of a flushed script tests the text of the error for `NOSCRIPT`, which
  redis-py strips; the error is raised, against the comment "fail open" (`rate_limiter.py:95`),
  and so is every later one of that instance.
* Automation. `api/disputes.py:51` names `ListResponse` without importing it, a `NameError` at
  import. The scheduler's jobs swallow their exceptions; the README says the work is
  re-enqueued. `dispute_service.py:4-6` and `RUNBOOK.md:67-69` promise a fallback with
  confidence 0.0 and a note; the code returns the rules' decision with the rules' confidence.
  An AI answer may override an escalation for a legal threat, may carry any confidence (95 is
  9500 percent; a NaN is not below the limit), and takes over the rules' confidence when it
  gives none. Each triage makes its own `ServiceClient`, so the breaker the READMEs describe
  never opens.
* AI judgment. Extraction and summaries always fail, after the provider was paid: their result
  is built without the required `id` (`ai_contract.py:46`). A label outside the allowed ones is
  replaced, and put back by the merge of the raw reply. Drafts are logged as judgments. "Every
  AI call is logged" (`audit_service.py:1`, the service's README line 81, `RUNBOOK.md:136`)
  does not hold for errors behind the tasks' own endpoints, for the queue, nor for any call
  under an unknown provider: `AuditMatchesAnswers` demands none of these entries, and
  `LogError`, `Ask` and `LogResult` show which are missing. No start-up code runs
  `workers/consumer.py`.
* Reporting. `deliver_report()`'s outcome is stored nowhere, against the README ("the report
  summary records the delivery outcome") and `delivery_service.py:4-5`. The unit test of the
  templates passes the very variable the callers never pass. A cohort starts on the
  order's own day whatever its size, so no cohort has a period but 0, against "cohort
  retention by day / week / month" (`data_pipeline/README.md:36`), and the conditions of the
  segments leave nobody to be "regular", which line 34 lists. With 3 sigma a series
  of nine numbers or fewer has no anomaly.

## Not modelled

* `moving_average()`, `summarize_stock()`, the renderers and the cost estimate: arithmetic or
  formatting of one value, no state. `BatchAccumulator` and `core/streaming.py`: a buffer
  without a caller and generators over one connector.
* The automation engine's scheduler: three interval jobs that enqueue fixed samples; what
  an enqueue does is `WorkQueue`'s.
* The inbound webhook (a signature check and one best-effort publish), status reads,
  configuration, logging, event classes, health checks.
* Prompts, token counts, model names; the model providers and the workspace, beyond what
  they may answer.
* The compositions of the queue with the AI consumer (nothing starts it) and of reporting
  with the adapter's batches (the answer is ignored).

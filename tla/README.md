# Verification of the flunq.io workflow engine

TLA+ modules, TLC configurations and TLAPS proofs for the event-driven workflow engine under `src/`.
Line numbers refer to that tree. `PROJECT.json` is the machine-readable index: components, runs,
mutants, the map from definitions to source lines, findings, hazards and theorems.

## 1. The system

A workflow definition (SDL 1.0.0) is a `do` list of named tasks. Five services run it, connected only by
Redis streams (one per tenant and workflow) and Redis keys:

```
 API ──execution.started──▶ ┌────────┐ ──▶ worker (decides the next step)
 └─ record: pending         │ stream │ ◀── task.requested / timer.scheduled / task.completed (set)
                            │        │     workflow.completed ; record: running/completed/failed
 executor ──task.completed─▶│        │
 timer    ──timer.fired───▶ └────────┘
```

| Component | State | Operations | Interactions | What is hard | What makes it correct |
|---|---|---|---|---|---|
| **Engine** `worker/internal/engine` | none; a value rebuilt per event | `ProcessEvent`, `RebuildState`, `GetNextTask`, `buildTaskInputFromDSL` | called by the processor | position = number of completed tasks; the triggering event is applied twice; a failed task stays pending | a task at most once, in order; nothing after a failure |
| **Workflow processor** `worker/internal/processor` | mutex map, semaphore, stop channel, in-flight goroutines | subscription loop, `ProcessWorkflowEvent`, the publications, record writes, retry, dead letter, ack, `Stop` | reads and appends to the stream, writes the execution record | goroutines × processes × retries × crashes; publish, record and ack are three calls, each may fail | `SequentialOrder`, `CompletionSound`, `SingleRequest`, `FailureStops`, progress |
| **Event stream** `shared/pkg/eventstreaming` | streams, consumer groups, pending entries | `Publish`, `Subscribe`, `GetEventHistory`, `Acknowledge`, discovery, `Close` | used by every service | only new entries are read; an unreadable stream is skipped silently; streams are rediscovered and compared by their number only | each entry reaches one consumer of a group; late streams are found |
| **Task executor service** `executor/internal/processor` | semaphore, in-flight goroutines | consume `task.requested`, run, publish `task.completed`, dead letter, ack, `Stop` | stream; the executors | no retry of publication or ack; dead letters nobody reads | `NoSilentDrop`, `AnsweredOnce`, `EveryRequestAnswered` |
| **Try executor** `try_task_executor.go`, `error_handler.go` | error context per call | attempts, catch filter, retry policy, recovery, scheduled retry | timer service through the stream | a hard limit and policy limits; a scheduled retry is an immediate failure; answers of recovery tasks carry no ids | `LimitRespected`, `CaughtOnly` |
| **Call executor, OpenAPI client** `openapi_*.go` | a cache of documents per process | load, resolve, request | external HTTP | an expired document is deleted under the read lock | `FreshIsKept` |
| **Timer service** `timer/internal/processor` | the sorted set of timers | register, pop, push back, publish | consumes `timer.scheduled`, appends `timer.fired` | pop before publish; two-call push back; look-ahead | a timer fires once, not before its time |
| **API services** `api/internal/services`, `models` | definitions and records, in Redis | create/update/delete/list a workflow, execute, cancel and list executions | writes records, appends `execution.started` | races with the worker over the record; publications whose failure is only logged; pages cut from different scans | `RestMeansRecorded`, `OutcomeKept`, `WalkComplete`, `DefinitionKept` |
| **Shared storage** `shared/pkg/storage` | Redis keys of definitions and executions | `Create/Get/Update/DeleteWorkflow…`, `Create/Get/UpdateExecution`, scans | API and worker | exists-then-set and read-merge-write are not atomic | `DoneIsOver`, `StartKept` |

HTTP decoding, schema validation, jq, the legacy storage adapter and serializer of the worker, the Postgres and Kafka
stubs, generated protobuf code, the MCP server and most of the web interface keep no protocol state; `PROJECT.json` lists
them, each with its reason.

## 2. The modules

| Module | What it is |
|---|---|
| `WorkflowEngine` | Events, the replay (`ProcessEvent`, `RebuildState`) and the decision (`GetNextTask`, `NextStep`) as pure operators |
| `WorkflowProcessor` | The worker processes, the stream, its consumer group and the execution record as a state machine; the properties |
| `SequentialExecution` | The abstract specification: an execution's tasks succeed one after the other until it is completed or failed |
| `ExecutionRefinement` | The refinement mapping from `WorkflowProcessor` to `SequentialExecution` |
| `MCWorkflowProcessor` | Task lists and symmetry for TLC |
| `TimerService`, `MCTimerService` | The timer processes: registration, the shared sorted set, the scheduler loop, a clock |
| `EventStream` | The streams of several tenants as one consumer group sees them: publication, discovery, groups, reads |
| `OpenAPILoader` | The document cache that the goroutines of an executor process share |
| `TryExecution` | What the executors compute: outcomes of a call, catch filter, retry policy, what is done about an error (pure operators) |
| `TaskExecutor`, `MCTaskExecutor` | The executor processes; composes the three modules above |
| `ExecutionControl`, `MCExecutionControl` | The record of an execution and its writers: the API that creates and cancels, the goroutines of a worker that overwrite it; extends `WorkflowEngine` |
| `WorkflowCatalog`, `MCWorkflowCatalog` | The stored definitions: creation, update, deletion, execution, and clients that walk through the pages of the list |
| `WorkflowProcessorProofs` | Type correctness, the bounds of every reference into the stream, and that `replay` is what `RebuildState` computes from it |
| `SequentialOrderProofs` | `SequentialOrder`, `CompletionSound` and `RecordJustified` for all constants |
| `OneWorkerProofs` | The other safety properties of `WorkflowProcessor` and the refinement `ImplementsSequence`, for one worker process and otherwise all constants |
| `TimerServiceProofs` | Type correctness of `TimerService`, `NotTooEarly`, `AcceptedIsKept` and `Punctual` for all constants |
| `TimerOnceProofs` | `FiredOnce` of `TimerService` for all constants |
| `WorkflowCatalogProofs` | Type correctness of `WorkflowCatalog`, `DefinitionKept`, `NextPageExists` and `WalkComplete` for all constants |
| `ExecutionControlProofs` | Type correctness of `ExecutionControl` and its safety properties but `CancelIsFinal` for all constants |
| `TaskExecutorProofs` | Type correctness of `TaskExecutor` and all its safety properties for all constants |

### The worker service

| Variable | In the code |
|---|---|
| `log` | the workflow's Redis stream (`XADD` order) |
| `replay` | not a variable of the program. `replay[e]` is what `RebuildState` computes from the entries of `e` in `log`; `Publish` keeps it up to date, so that a replay is a lookup. That it is nothing else is a theorem (`ReplayIsRebuiltHolds`). |
| `record` | `Execution.Status` in the store |
| `cursor`, `acked` | the group's last-delivered-id and the entries `XACK`ed |
| `inbox[w]` | entries read by `redis_stream.go start` and not yet taken by `eventProcessingLoop` |
| `lock[w]` | the mutex `getWorkflowLock` returns; all executions of the model belong to one workflow, so a process has one |
| `job[w][g]` | the goroutine that holds permit `g` of the semaphore: its event, attempt, rebuilt state and step, and where it is in `ProcessWorkflowEvent` |
| `closed[w]` | `Stop` has closed the Redis client of the process |
| `dead`, `answered` | entries given up; `task.requested`/`timer.scheduled` entries the other services have consumed |
| `faults`, `losses` | budgets: how many calls have failed, how many processes crashed or were stopped and answers or starts got lost |

| Action | Code |
|---|---|
| `ExecuteWorkflow` | `WorkflowService.ExecuteWorkflow`: record, then event, whose failure is only logged |
| `Deliver` | `XREADGROUP >` and the subscription's filter (filtered entries are acknowledged) |
| `Spawn` | `eventProcessingLoop` takes an event once a permit is free |
| `Skip`, `Rebuild`, `RebuildBlind`, `RebuildFails` | `ProcessWorkflowEvent` from `Lock` to the choice of the step |
| `PublishStep`, `PublishStepFails` | `publishTaskRequestedEvent`, `Schedule`, `publishTaskCompletedEvent`, `publishWorkflowCompletedEvent` |
| `CompleteRecord` | `updateExecutionStatus` (its error is only logged) |
| `UpdateRecord`, `UpdateRecordFails` | `updateWorkflowRecord` and the deferred `Unlock` |
| `DeadLetter`, `Acknowledge` | the two exits of the goroutine |
| `Crash`, `Stop`, `Restart` | a process dies, or closes its connection and waits for its goroutines |
| `ExecutorAnswers`, `ExecutorDrops`, `TimerFires`, `TimerDrops` | the executor and the timer as the stream shows them |

Atomicity. Reading the history and choosing the step are one action: within a process the mutex excludes
others meanwhile, and another process's entries that arrive between the read and the publication are covered
by the publication being an action of its own. Publication, the two record writes and the acknowledgement are
separate actions, because a failing call, a crash or another process can come between any two of them.
The backoff sleep is not modelled: the attempt's next action may come arbitrarily late.

Errors. A publication or record write that returns an error may or may not have taken effect
(`PublishError`, `WriteRecord`), except on a closed connection: a call that `Close` cuts off counts as one that failed just before. `GetEventHistory` skips a stream that `XRANGE` cannot
read (`redis_stream.go:225-230`): with `SilentReads = TRUE` a faulty read is an empty history
(`RebuildBlind`). The state rebuilt from such a history names no execution unless the triggering event is
`execution.started` (`EngineState.context`), so the events published from it carry an empty execution id
(`NoExecution`); they belong to no execution's history and, having no tenant, are given up by the worker that
reads them (`RebuildFails`). Runs with `SilentReads = FALSE` assume that such reads do not fail silently.

Data. Payloads, variables, outputs and jq are left out. A failed answer of a task, the duration of a wait
and the order of two deliveries are nondeterministic. `TaskKind` says what dispatching a task amounts to; `"invalid"` is a task whose dispatch always errs.
Task names are distinct (`TaskListAssumption`); the DSL 0.8 path is not modelled.

### The timer service

| `TimerService` | Code |
|---|---|
| `requests`, `cursor`, `acked` | the `timer.scheduled` entries and the group `timer-service` |
| `timers` | the sorted set `flunq:timers:all`; a member is the payload, so equal payloads are one member, and its score is the `fire_at` it contains |
| `sched[s]` | where `schedulerLoop` is: `peek` (top of the loop), `asleep`, `backoff` (the second after a failed peek), `pop` (inside the batch, with what is left of it), `holding` (a popped timer that only this process knows) |
| `job[s][g]` | the goroutine that registers an entry; an entry the subscription buffers counts as one that has not called Redis yet |
| `fired` | the `timer.fired` entries, with the time of their publication |
| `Schedule` | `TimerWaitScheduler.Schedule` in the worker: `fire_at` is written in whole seconds (`FireAt`) |
| `Register`, `RegisterFails`, `Acknowledge` | `registerTimer` with its three attempts, the dead letter (nobody reads it), the ack |
| `Peek`, `PeekFails`, `Wake`, `Pop`, `EndBatch`, `Fire`, `PushBack` | the steps of `schedulerLoop`, each with its failing call |

Time is one discrete clock for all processes (their clocks are assumed to agree). `Tick` may happen between any two
steps; `PromptSpec` lets it happen only when every goroutine is idle and every scheduler sleeps, that is, calls take no time
compared with a tick. At `Horizon` the clock stops and sleepers wake, so that what was due before it can still fire.
The two failures the code ignores while it holds a timer (publication, push back) and a pop whose answer is lost count as losses,
all other failing calls as faults; `MaxFailures` bounds both.

### The executor service

| `TaskExecutor` | Code |
|---|---|
| `stream`, `group`, `cursor` | the streams of tenants and workflows, where the consumer group exists, and how far it was served |
| `known[p]` | the list of streams a process reads. `redis_stream.go:75` replaces it only by a list of another *length*, so it is kept as a set and a length: a scan that repeats a key makes them differ |
| `requests`, `acked` | the `task.requested` entries with their task, and those acknowledged |
| `job[p][g]` | the goroutine that holds permit `g`: its request, the attempt it is in, the result to publish, the last error |
| `cache[p]`, `access[p][g]` | the process's OpenAPI document (absent, fresh, expired), and where a goroutine is in `getDocument` (holding the read lock, about to delete, fetching, about to store) |
| `calls`, `uncaught` | attempts at a request, and those whose error no filter matched (for the properties) |
| `died` | concurrent access to the Go map killed a process: `openapi_loader.go:342` deletes under the read lock |
| `Discover`, `DiscoverBadly` | the ticker's rediscovery, creation of groups, `NOGROUP`; scans that break off or repeat a key |
| `Deliver`, `LoseEntry` | `XREADGROUP >` with a free permit; an answer that is lost |
| `Load`, `DocumentExpires` | the cache's steps |
| `AttemptReturns`, `AttemptErrs`, `AttemptIsHandled` | an executor returns a result, an error outside a try block, an error inside one: `executeTryBlock`, `HandleError` |
| `ScheduleRetry` | `scheduleRetry` with the failure that is answered besides |
| `PublishResult…`, `DeadLetter`, `AcknowledgeEvent…` | the tail of `processTaskEvent` and of the goroutine, each call with its failing form |
| `Stop`, `Exit`, `Crash`, `MapRaceIsFatal` | ends of a process; a new one starts with nothing |
| `PublishTimerFired`, `WorkerGivesUp` | what becomes of the timer of a delayed retry |

`TryExecution` keeps the Go type of values that a filter is compared with, since that decides whether they match
(`error_handler.go:253`), and every combination of result and error an executor can return, since the processor
treats them differently. Data of requests and responses is left out.

### The record of an execution

`ExecutionControl` follows the goroutines of one worker process and requests to cancel at the granularity of calls to Redis; every
update is a read and a write. `record[e]` holds what the writers disagree about: the status, whose start time is stored, whether
there is a completion time, and the tenant. What an attempt decides comes from `WorkflowEngine`, as in `WorkflowProcessor`.

| `ExecutionControl` | Code |
|---|---|
| `replay`, `triggers`, `asked` | the stream, by execution: the state a replay builds, the events the worker processes, the requests no executor has answered |
| `handled`, `dead` | events acknowledged after they were processed, and events given up |
| `lock` | the mutex of the workflow: taken by an attempt (`Decide`) and free in the backoff between two (`workflow_processor.go:262-282`, `:362-364`) |
| `job[g]` | the goroutine that holds permit `g`: its event, the attempt, the rebuilt status, context and step, the record it read |
| `request[c]` | a request to cancel: the record it read and what it has come to |
| `unread`, `restarted` | history variables: executions whose history was once read as empty, executions whose `execution.started` was decided more than once |

| Action | Code |
|---|---|
| `ExecuteWorkflow` | record, then event, whose failure is only logged |
| `TakeEvent` | the loop hands the next event to a goroutine |
| `Rebuild`, `RebuildBlind`, `RebuildFails` | `Lock`, history, definition, the trigger applied once more (`:452`), the choice of the step; a history that silently reads as empty (`redis_stream.go:225-230`); a read that reports its failure |
| `PublishStep`, `PublishStepFails` | the step's event; a failing publication may have reached the stream |
| `ReadToComplete`, `UpdateExecutionStatus` | `updateExecutionStatus` after `workflow.completed`, its errors only logged |
| `ReadTimes`, `UpdateWorkflowState`, `UpdateWorkflowStateFails` | `updateWorkflowRecord` with the adapter's read and write, `Unlock`, the acknowledgement |
| `ReadToCancel`, `WriteCancelled`, `WriteCancelledFails` | `CancelExecution` |

Every error of an attempt leads to the next one or to the dead letter (`AfterError`), with the mutex free. A failing update may have
been stored. `GetByID` loses the tenant and `Update` writes `default-tenant` for it (`shared_execution_repository.go`), as the
code does. An attempt that has seen no history names its execution only if its event is `execution.started`; otherwise it publishes
events and writes a record of no execution. Left to `WorkflowProcessor`: waits and sets, several processes, their crashes and stops, and the
consumer group. An acknowledgement that fails changes nothing here, since nobody reads the entry again.

### The catalog of workflows

`WorkflowCatalog`: `definition[w]` is what is stored under the key of `w`, whose tenant may be none; `request[r]` is a
request between its look-up and its effect; `walk[c]` is a client between two pages. A scan may miss a workflow that comes or goes meanwhile,
or, counted in `disturbed`, any workflow (an unreadable value) or return one twice (a `SCAN` during a rehash). Rows are placed
by any order the sort may produce: `sort.Slice` is not stable, and sorting by `created_at` compares nothing.

## 3. What the runs check

The runs of the worker, the executor, the record and the catalog say `CHECK_DEADLOCK FALSE`: when everything has been asked for and
answered and the budgets are spent the system rests. The runs of `MCTimerService` check deadlock: the scheduler loop never stops.

| Run | Instance | Properties |
|---|---|---|
| `one_worker` | 1 process × 2 permits, call-wait-call, 2 failing calls | `TypeOK`, `SingleRequest`, `FailureStops`, `TriggerIrrelevant`, `RestMeansDone`, `RestMeansRecorded` |
| `two_workers` | 2 processes × 1 permit, 2 calls, 1 failing call (also silent), 1 loss | `SequentialOrder`, `CompletionSound`, `RecordJustified` |
| `two_executions` | 2 executions, 1 process × 2 permits, 2 calls, no failure | `ImplementsSequence`, `OutcomeIsFinal` |
| `liveness` | call-wait, 2 failing calls, fairness | `ImplementsExecution` |
| `dead_letter` | call-invalid, 2 permits, 2 failing calls, 1 loss, fairness | `EveryExecutionEnds`, `ImplementsSequence` |
| `timer_safety` | 2 processes, 2 waits, 1 failing call, crash or stop, batches of 1 | `TypeOK`, `NotTooEarly`, `FiredOnce`, `AcceptedIsKept` |
| `timer_prompt` | `PromptSpec`, 2 processes, 2 waits, 1 failing call, crash or stop, batches of 2 | `Punctual`, `EveryTimerFires` |
| `executor` | 2 tenants, 1 process × 2 permits, a request of any of 6 kinds and a call, 1 failing call, crash, stop or lost answer, fairness | `TypeOK`, `NoSilentDrop`, `AnsweredOnce`, `LimitRespected`, `CaughtOnly`, `FreshIsKept`, `EveryRequestAnswered` |
| `control` | 1 execution of 2 tasks, 1 process × 2 permits, 1 request to cancel, 3 attempts, 3 failing calls (also silent), fairness | `TypeOK`, `DoneIsOver`, `StartKept`, `HiddenMeansCancelled`, `RestMeansRecorded`, `OutcomeKept`, `EventuallyOver` |
| `catalog` | 3 workflows of 3 names, with and without tenant, 1 request at a time, 1 client, pages of 1 and of 2, 1 inexact scan | `TypeOK`, `WalkComplete`, `DefinitionKept`, `NextPageExists` |
| `retry_never_runs` | one try task with a delayed retry, fairness | `RetryHappens` (violated) |
| `cancel_not_final` | 1 execution, 1 request to cancel, no failure | `CancelIsFinal` (violated) |

- `SequentialOrder`, `CompletionSound` and `RecordJustified` hold whatever happens: several processes,
  failing and silent calls, crashes. They rest on the stream only ever growing.
- `SingleRequest`, `FailureStops` and `ImplementsSequence` hold for one process: its mutex makes
  read-decide-publish atomic, and a repeated attempt finds its own publication in the history. With two
  processes and one failing call TLC finds counterexamples to `SingleRequest`, `FailureStops` and
  `TriggerIrrelevant`, so the runs with two processes do not list them: the mutex is the only protection, and it is
  local to a process.
- `RestMeansRecorded` (of the worker) needs one process (a stale write of a second one may come last), `OutcomeIsFinal`
  needs calls that do not fail (a repeated attempt for `execution.started` writes `running` over `failed`).
- `RestMeansDone` and `ImplementsExecution` need `MaxLosses = 0`: nothing re-reads an entry that a dead
  process held, and nothing repeats a lost answer. `EveryExecutionEnds` says the same with the loss as a way out.
  All five runs of the worker but `two_workers` let calls fail only with an error (`SilentReads = FALSE`); so do the theorems of
  `OneWorkerProofs`. With `SilentReads = TRUE` `EveryExecutionEnds` is violated: a goroutine that takes a task's answer for the whole history counts one
  completed task, finds the second in the list to be that very task, does nothing, acknowledges the event, and the
  execution stalls without a dead letter.
- `FiredOnce` needs `ZADD` not to fail after taking effect (`faults = 0`): otherwise the timer may fire between two attempts of its
  registration. `NotTooEarly` is what is left of punctuality when the truncation to seconds and the look-ahead
  add up; `Punctual` bounds lateness by `MaxSleep`, although a scheduler may have looked while another held the first timer;
  its clock starts when the request arrives if the wait is over by then, and of several requests with one payload, which are one member of the set, the latest counts.
- `NoSilentDrop` and `AnsweredOnce` hold with crashes because an entry is delivered once and never claimed again; what is
  lost is lost whole. `EveryRequestAnswered` lists the ways out: a process that died, a lost answer of Redis, or the failure of
  the very calls that tell of the request. It depends on `Topology` replacing the list of streams whenever its length changes.
- `LimitRespected`: the policy's limit binds where the policy is consulted; an error no filter matches is tried `MaxTries` times.
  `CaughtOnly` compares with what a filter means to its author; it holds because a filter that cannot match (numbers) only fails to
  catch. `FreshIsKept` is what the read lock still gives although `delete` runs under it.
- `OutcomeKept` names the two ways a completed record is replaced: a request to cancel that read it before, and a goroutine that
  took the history for empty and, at `execution.started`, writes `running`. Without the second exception TLC finds a trace with two failing calls (the publication of the first request, and the silent read). Repeated
  attempts with the mutex free between them never do it: whoever reads the history then finds every task done.
- `RestMeansRecorded` (of `ExecutionControl`) says what is left on record at rest. A completion is there or was cancelled. A task's failure is there,
  with one exception, which needs no cancel and a single failing call: attempt 1 at
  `execution.started` publishes the request, its record write fails, the mutex is released; the executor reports a failure, another goroutine records
  `failed`; attempt 2 rebuilds `failed`, applies `execution.started` again, finds a pending task, does nothing, and writes `running`, for
  ever. `restarted` marks the executions where this may have happened, and TLC finds the trace when the exception is dropped.
  `EventuallyOver` has the same exception, besides a start that was never published, dead letters and empty histories.
- `HiddenMeansCancelled` and `StartKept` name the only ways a record loses its tenant or its start.
- `WalkComplete` holds although pages are cut from different scans, for names of their own: what is
  created into a page shifts later rows back, never forward, and a tenant's workflows never disappear, because updating and deleting look
  under another key. That last fact is `DefinitionKept`. By `created_at` nothing of the kind holds, since the order of a page is arbitrary.

### Statements of the documentation and what the code does

Two runs show one each:

| Run | Statement | What happens |
|---|---|---|
| `retry_never_runs` | "Schedule retry via timer service instead of blocking" (`try_task_executor.go:193`), "pending retry" (`:205`) | the timer carries no tenant and reaches no executor; the task has already been answered with a failure |
| `cancel_not_final` | "terminated before completion" (`api/internal/models/execution.go:16`) | nobody subscribes to `execution.cancelled`; the worker writes `running` and in the end `completed` over the record |

Others appear in the models as what an action does, without a run of their own. Worker and streams:

- "ensures exactly-once processing" (`docs/WORKER_EVENT_PROCESSING.md:43`): a record write that fails after the publication publishes
  `workflow.completed` again.
- "Failed workers don't lose events" (`:42`): the entries of a crashed process stay pending for ever.
- "Waits for in-flight tasks to complete" (`:138`): `Stop` closes the connection before it waits.
- "Prevents concurrent processing of same workflow" (`:137`) holds inside a process only.
- "Complete workflow state reconstruction from event history" (`README.md:47`): a failed `XRANGE` yields an empty history and no error.
- "Lookahead mechanism prevents premature timer firing" (`timer/README.md:72`): truncation and look-ahead fire a timer early;
  "ensures timer survival across restarts" (`:515`) does not hold for a popped timer.

Executors:

- A retry policy that is exhausted without recovery tasks ends in `ignore`: the task succeeds. So does every error where `catch` is
  missing.
- An error no filter matches is tried again up to five times: `case ErrorActionFail:` is empty.
- `status: 503` never matches: the definition holds a float64, the error an int.
- The answer of a recovery task has neither workflow nor execution, so nobody finds it.
- What goes wrong before a response is a result without an error: `catch` is not asked. A plain `call` with an HTTP error becomes a dead letter
  and is never answered.
- A parameter expression that cannot be evaluated is sent as text in a query.
- A try block in the documented format is an "unsupported task type".
- The cleanup of the document cache is never started (`executor/docs/OPENAPI_CALLS.md:383`).

API:

- A cancelled execution is stored as `failed`, and under `default-tenant`, so it vanishes from its tenant's list.
- Workflows of a tenant can be executed but neither updated nor deleted: those look under the key without tenant, and the answer is 500.
- `page` without `size` is ignored, as is sorting by `created_at` and the status filter `faulted`.

### Bounds

Worker: two or three tasks are enough for a first, a middle and a last position and for every kind; two permits (or
processes) for every pairwise interleaving under one mutex (or none). `InboxSize = 1` still lets a second
entry be buffered while the permits are taken. `MaxAttempts = 3` as in the code. An `invalid` task reaches the dead letter queue without any fault,
and so does a stopped process, because failing calls of a closed connection cost no budget. The stream needs no bound of its own: it is finite because steps are.

Timer: `MaxFailures` bounds failing calls, crashes and stops together. A second is two ticks, the look-ahead one, so that both can take a timer
before its time and their sum is still seen;
waits of one and three (five) ticks are shorter and longer than `MaxSleep`. `BatchSize = 1` makes the batch end matter with two timers,
`2` lets one batch reach a timer that is not due.

Executor: `MaxTroubles = 1` is one failing call, lost answer, crash or stop. Two tenants make a stream appear while another is read; two permits share the document cache;
the six kinds of task cover filters that match and do not, limits below and above `MaxTries` (3 instead of 5), delays, recovery, a malformed catch
block, an unknown type, and a parameter expression that may stay text. The limit of `TwoAttempts` is below `MaxTries`, so both bounds are met.

Record: two tasks make a first, a middle and a last event; `MaxFaults = 3 = MaxAttempts` lets an event be given up, and is more than any
exception of a property needs. Two permits let a second goroutine have the mutex in the backoff of the first. One request to cancel is enough, since a
second finds what the first one left or races like it. One execution: the worker's goroutines of two meet only at the mutex, and the theorems are about any number
(their invariant was checked with two executions and one failing call).

Catalog: three workflows and pages of one row make a first, a middle and a last page; one client, since clients do not interact; one inexact scan
shows that the other walks do not depend on it. The theorems of section 4 have none of these bounds.

Symmetry is used over permits (over processes in the timer runs), and only in runs without liveness properties.

### Fairness

Worker: `FairSpec` assumes weak fairness of each subscription (`Deliver`), each goroutine (its step or its error),
`Restart` after a stop, and of the executor and timer services together. That is what the Go scheduler, the blocking read
loop and supervision give. No fairness on the client (`ExecuteWorkflow`), on `Crash`/`Stop`, nor on faults, which the budget
bounds. A goroutine that waits for the mutex is served because the holder is itself fair and never blocks.

Timer: `PromptSpec` includes weak fairness of the clock, of each scheduler loop, of each registering goroutine and of a restart.

Executor: the ticker (`Discover`), the reader (`Deliver`), each goroutine, the end of a stopped process, and the timer service and worker
that treat the retry's timer. Record: the worker's goroutines together (one that can go on does, which is less than fairness of each), the executor's answers, and a request that has read the record. Clients are never fair.

## 4. What is proved

`WorkflowProcessorProofs`: `THEOREM TypeCorrect == Spec => []TypeOK`, from the inductive invariant `TypeInv`:
`TypeOK` together with the bounds of everything that points into the stream (cursor, buffers, jobs,
answered entries are at most `Len(log)`). `TypeOK` alone is not inductive: `Deliver` and
`Rebuild` read `log[i]`, and only a bound makes that an event.
`ReplayIsRebuiltHolds`: in every state `replay[e]` is `RebuildState` of the entries of `e` that the history filter finds in `log`. Both loops are
recursive functions. The prover has no induction rule that could be used for them, so that a loop over typed passes has a course (`CourseExists`) and only one
(`CourseUnique`) is proved by the least pass that would be an exception (`LeastOf`, from the well-foundedness of `<`); that a longer history is one pass
more follows (`RebuildAppend`, `EventsAppend`).

`SequentialOrderProofs`: `SequentialOrderHolds` and `CompletionSoundHolds`, for any number of
processes, permits, executions and tasks, any budgets and both values of `SilentReads`, from `OrderInv`:

1. `ReplayOK`: `replay[e].completed` is a prefix of the task list, and its names are exactly the tasks of `e`
   whose success is in the stream;
2. `EntriesOK`: every entry is justified by the entries before it: a task handed out or reported has all its
   predecessors reported, a completion has them all;
3. `StepsOK`: the step a goroutine is about to publish, however old the state it was chosen from, is justified by
   the stream as it is now. The stream only grows, so it stays justified.

An action that appends an entry uses 3 for a worker's publication and 2 for the answer to an older entry,
and monotonicity for all the rest. A state rebuilt without its history names its execution only
if it was built from `execution.started`, and then asks for the first task, which needs no justification. No mutex
is used in the argument: that is why these two hold for several processes while `SingleRequest` does not.

`RecordJustifiedHolds`, under the same assumptions, from `BackedInv`: every status that somebody may write (the replayed one, the one in a
goroutine's hands) is backed by an entry that shows the outcome, and so is the stored one. A status travels from the replay to the goroutine and
steps later to the record; it stays backed on the way because the stream only grows. A goroutine that found an empty history either names no execution or
writes `running`.

`OneWorkerProofs` assumes `OneWorker`: there is one process and an unreadable stream is not taken for an empty one (the setting of the run
`one_worker`). Everything else stays arbitrary: executions, goroutines, tasks, attempts, failing calls, crashes, stops, losses. Each conjunct of it is needed:
TLC has the counterexamples of section 3.

- `OneWorkerInv`: a goroutine between its decision and the unlock holds the mutex (`MutexOK`); what it decided is still
  right (`DecisionOK`: whatever was requested has succeeded, and the task it is going to request was not requested), because only the executor and the
  timer service can publish meanwhile; a request stays pending or completed in every later replay (`Held`); an answer belongs to one consumed request
  (`AnswersOK`). `SingleRequest` and `FailureStops` are conjuncts of it and not inductive without the rest: they speak of the stream, while the next request
  depends on what a goroutine holds.
- `ImplementsSequenceHolds`: initial states map to the abstract initial states, and every step to an abstract step or a stutter.
  A success moves the mapped state only if it is the first of its task, and then it is the next task in order (`OrderInv`); a failure, a
  completion or a start moves it only from the right phase, which is what `OneWorkerInv` gives.
- `RestInv` says what is under way: as long as nothing was lost or given up, a started execution has its outcome in the stream, a request or timer that nobody consumed, or
  an event that no goroutine has handled (`LiveOK`), and a completed one has its record or a goroutine that will still write it (`FinishedOK`).
  The step argument shows for each handled event what takes its place: the goroutine publishes a request, a timer, a result or a completion, or it does nothing because
  a request is pending (`PendingOK`), which is then under way itself. A service at rest has nothing under way: `RestMeansDoneHolds`,
  `RestMeansRecordedHolds`. `CompletedStays` (a stored completion is final, whatever fails) follows as well.
- `TriggerIrrelevantHolds`: the triggering event is in the history, so a success in it has taken its task off the pending list and is not counted twice; the
  choice depends on these two only. With `ReplayIsRebuiltHolds` this is a statement about the history a goroutine reads.
- `OutcomeIsFinalHolds` needs `MaxFaults = 0` besides: after a failing call the repeated attempt for `execution.started` may write `running` over a stored
  `failed`; TLC shows it in 18 steps. `OutcomeInv`: an entry has at most one goroutine or buffer (`DeliveredOnce`), an execution at most one entry that somebody
  will still act on (`OnePursued`), and none once its outcome is stored or in the hands of a goroutine about to store it (`Exhausted`). A loss or a crash takes pursuers away and never
  adds one; what a stopped process has in hand cannot be stored.

`TimerServiceProofs`, for any timers, processes, permits, settings and bounds:

- `TimerInv` says where timers come from: only a scheduler inside a batch holds one (`HeldOK`), every member of the set, every held
  timer and every fired one is the payload of a request (`AskedOK`), and what was fired was due within the look-ahead
  (`FiredOK`). With the rounding of `fire_at` that gives `NotTooEarlyHolds`, crashes and failing calls included.
- `KeptInv` adds that a goroutine past its registration has entered its timer or given it up, and that a client is closed only by a
  counted loss. `AcceptedIsKept` alone is not inductive: the acknowledgement follows the registration as a step of its own, and
  a closed client would drop popped timers without touching the budget. The step argument follows a timer from the
  set (`Pop`) to a scheduler and from there back (`PushBack`) or into the stream (`Fire`).
- `PunctualHolds`, under `PromptSpec` (time passes only when no scheduler or goroutine has a step left to take), from `PunctualInv`: a scheduler that sleeps
  wakes at once or before any member of the set is overdue (`SleepersOK`), and a registration happens in the tick of its request
  (`FreshOK`), so that no nap, being at most `MaxSleep`, is too long for what enters the set during it. Time then passes only up to the next waking, and the set is
  never overdue (`SetOK`). It assumes that nothing has failed.

`TimerOnceProofs`, under the same assumptions, counts: `Copies` of a timer are its entries in the stream, the schedulers that
hold it and its membership of the set.

- `OnceInv`: no two goroutines register one entry of the stream (`DeliveredOnce`), and a timer has at most as many copies as
  requests that a goroutine took and is done with. `FiredOnce` counts only the fired ones and is not inductive: popping and pushing back
  move a copy (`HandedOn`), and a registration is the one step that makes one (`RegisterCounted`), for which its request is
  counted from then on (`RegisteredGrows`: it is never handed out again). A crash or a lost call only takes copies away. The condition
  `faults = 0` enters in one place: a `ZADD` that failed after taking effect makes a copy while its request is still to be registered.
  That the schedulers holding a timer are finitely many is part of the invariant, as the number of processes is not assumed finite.

`WorkflowCatalogProofs`, for any workflows, names, tenants, clients, requests, page sizes and bounds:

- `CatalogInv`: what a request has found (`RequestOK`) stays true until it acts. A request that will store or remove has found its workflow under
  no tenant's key, and no step moves a workflow from there to a tenant or back, so the definition of a workflow under a tenant's key is
  never touched (lemma `Stable`). That gives `DefinitionKeptHolds`, which is not inductive alone: `RemoveKeys` removes from any key and relies on a look-up
  made steps ago.
- `PagesInv` adds, for a walk with exact scans, that the next page is not empty (`NextOK`) and that in front of a
  workflow that was not shown there are at least as many matching names as the next page's offset (`ToComeOK`), counted over what
  the running scan is bound to return. A row's place is the number of rows before it (`Rank`, by an injection into an interval), and for a name of its
  own these are exactly the rows that precede it by name (`PlaceOfUnique`); so a row behind the page just cut is not behind the next offset either, and what
  others create only adds to the count. That gives `NextPageExistsHolds` and `WalkCompleteHolds`.

`ExecutionControlProofs`, for any executions, permits, requests to cancel, number of tasks, attempts and failing calls, silent ones included: every
property of the run `control` but `EventuallyOver`, from `ControlInv`. None is inductive alone, because whoever writes the record writes what it
decided and read some steps ago, and others have had the mutex since:

- `StreamOK`: what the stream holds of an execution, and that nothing but the start is in it before an attempt at the start has decided. `HistoryOK`, for an execution whose
  history was never read as empty: its tasks succeeded in order, at most the next one is pending, once (`Fits`), and it is either unanswered or has failed. That rests on
  the mutex: nobody else publishes between a decision and its publication.
- `HolderOK` says of the goroutine with the mutex that the step it chose is still the next one (`StepOK`) and that the status it will write may be
  older than the stream, but not if it handles the last event, and never than a completed record (`StatusOK`). `Apart`: no two goroutines have the same event.
  A goroutine that waits for a further attempt has nothing in hand but its event, which is why others may do anything meanwhile: it starts from the history again. The
  exception for `execution.started` enters where the trigger is applied once more.
- `RecordOK`: what the record tells once the last event is handled, with the exceptions the properties name.
- `RequestOK` says of a request to cancel that it writes only a record it read as running, whose start was lost only to a failing call.
- The step argument needs only that the stream grows, that records are never removed, that a request that has written stays so and that failures are
  counted; what a step does not touch is carried over by a few lemmas.

`TaskExecutorProofs`, for any finite set of tenants and any processes, goroutines, tasks, settings and bounds: every property of the run `executor` but
`EveryRequestAnswered`, from `ExecutorInv`. None but the type is inductive alone:

- `RequestOK` says of a request that it is in the streams once, that nothing is published of it before it was handed out (`Taken`), and how its
  attempts relate to its policy. `Asked` says that only requests are requested, so that a delivery is always of a request the invariant speaks about.
- `JobOK` says of a goroutine that no other, of any process, has its request (`Alone`), that nothing is published before the phase that publishes it, and that on
  a client that is not closed it acknowledges only what was told (`Told`). A closed client never acknowledges, which is why `Stop` may come between any two steps.
- A delivery is the step that needs the most: the entry handed out is the least that waits (lemma `Least`), the group's cursor passes it once, and so no goroutine
  has its request (`HandedOut`). Everything else follows a request through the phases of the one goroutine that has it; `OthersStay` and `CalmJobs` carry the rest over.
- `DocumentOK` (no goroutine is about to delete a document that has not expired) gives `FreshIsKeptHolds`: it holds because storing waits for the readers' lock.

Its assumptions are those TLC evaluates: tenants are names other than `default`, a task has at most one retry policy (`ExecutorAssumption`), at least one attempt is allowed.

Assumptions: `ExecutionsAssumption`, `TaskListAssumption` (distinct names, non-empty list), `ProcessorAssumption`, `TimerAssumption`, `CatalogAssumption`, `ControlAssumption`, `StreamAssumption`, `TryAssumption`, `ExecutorAssumption`.

Only model-checked: what is temporal (`ImplementsExecution`, `EveryExecutionEnds`, `EveryTimerFires`, `EveryRequestAnswered`, `EventuallyOver`).
Liveness under fairness and `ENABLED` are beyond the proof system. Every invariant and every action property of a passing run is
proved. `RetryHappens` and `CancelIsFinal`, which TLC refutes, are of course not.

## 5. Plan

In this order, the behaviour that decides executions first:

1. **done** – `WorkflowEngine`, `WorkflowProcessor`, `SequentialExecution`, `ExecutionRefinement`, their runs and first proofs.
2. **done** – `TimerService`, its runs and proofs.
3. **done** – `TryExecution`, `OpenAPILoader`, `EventStream`, `TaskExecutor`, with its proofs.
4. **done** – `ExecutionControl`: cancel and the read-merge-write of the record against a worker, with its proofs.
5. **done** – `WorkflowCatalog` with its proofs.
6. **done** – proofs of the remaining safety properties of the worker and the timer: `RecordJustified`, the properties of one process (mutex and rest
   invariants), the refinement `ImplementsSequence` step by step, `OutcomeIsFinal`, `Punctual`, and the replay.
7. A second tenant in the worker's stream, with the history over several streams.

## 6. Not modelled

- The `timer.fired` of a delayed retry. It lies in the default tenant's stream, outside the one stream of `WorkflowProcessor` and `ExecutionControl`, but it names the execution, and the
  history is read from the streams of all tenants: a replay after it finds one more completed task, named `<task>_retry`. What is said of the order of tasks, of failures
  and of records is said of executions without such a timer. (`TaskExecutor` follows the timer itself: `retry_never_runs`.)
- The DSL 0.8 path of the engine (`IsWorkflowComplete`, states) and its functions for `task.failed`, an event no service publishes.
- Payloads, variables, jq, schema validation, encodings, metrics, logging: no control depends on them beyond the outcomes the models choose from.
- The reclaim loops: off by default, and they only count.
- The history over several streams; `WorkflowProcessor` has one stream, `EventStream` several without histories.
- The order of recovery tasks (a Go map's) and the expressions of `when` and `exceptWhen`, which the code does not evaluate.
- `GetExecution`, which reads keys nobody writes; the event history of the API, always empty; pages and filters of the list of executions, which no handler calls.
- Postgres and Kafka (stubs), generated code, the MCP server, presentation.

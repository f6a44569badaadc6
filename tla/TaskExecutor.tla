---------------------------- MODULE TaskExecutor ----------------------------
(***************************************************************************)
(* The executor service (executor/internal/processor): processes that take *)
(* task.requested events off the tenants' streams, each handled by one of  *)
(* a bounded number of goroutines, which runs the executor for the task's  *)
(* type, publishes the result or a dead letter, and acknowledges.          *)
(*                                                                         *)
(* The worker is reduced to the requests it publishes, the timer service   *)
(* to the answer it gives to a retry's timer.                              *)
(***************************************************************************)
EXTENDS EventStream, TryExecution

CONSTANTS
  Permits,      \* permits of a process's semaphore (EXECUTOR_CONCURRENCY)
  Tasks         \* bound: the tasks the first, second ... request may be for:
                \* tenant, type, call and catch block

ASSUME ExecutorAssumption ==
  /\ Len(Tasks) \in Nat /\ DOMAIN Tasks = 1 .. Len(Tasks)
  /\ \A r \in DOMAIN Tasks : \A task \in Tasks[r] :
       /\ task.tenant \in Tenants /\ task.call \in CallConfig
       /\ task.catch.retry \subseteq Policy
       /\ \A a, b \in task.catch.retry : a = b

VARIABLES
  requests,  \* the task of every request, in order of publication
  job,       \* job[p][g]: the goroutine that handles a request
  acked,     \* requests acknowledged
  cache,     \* cache[p]: p's copy of the OpenAPI document
  access,    \* access[p][g]: what g does with it
  calls,     \* calls[r]: attempts at request r so far
  uncaught,  \* uncaught[r]: those whose error no catch block caught
  died       \* a race in the document cache has killed a process

INSTANCE OpenAPILoader WITH Services <- Processes, Goroutines <- Permits

documentVars == <<cache, access>>
jobVars == <<job, acked, calls, uncaught>>
vars == <<stream, group, cursor, known, closed, faults, losses, requests, job,
          acked, cache, access, calls, uncaught, died>>

Requests == DOMAIN Tasks
NoRequest == 0

TaskOf(r) == requests[r]
TenantOf(r) == TaskOf(r).tenant

Entry(type, r, success) == [type |-> type, request |-> r, success |-> success]

Phases == {"idle", "attempting", "scheduling", "publishing", "dead", "acking"}

(* What a goroutine knows: its request, the attempt it is in, the result   *)
(* to publish, whether that is a recovery task's, and the last error.      *)
Job == [phase: Phases, request: Requests \cup {NoRequest}, attempt: 0 .. MaxTries,
        success: BOOLEAN, recovered: BOOLEAN,
        error: Statuses \cup {NoError, InternalError}]

IdleJob == [phase |-> "idle", request |-> NoRequest, attempt |-> 0,
            success |-> FALSE, recovered |-> FALSE, error |-> NoError]

Init ==
  /\ StreamInit
  /\ LoaderInit
  /\ requests = <<>>
  /\ job = [p \in Processes |-> [g \in Permits |-> IdleJob]]
  /\ acked = {}
  /\ calls = [r \in Requests |-> 0]
  /\ uncaught = [r \in Requests |-> 0]
  /\ died = FALSE

SetJob(p, g, j) == job' = [job EXCEPT ![p][g] = j]
In(p, g, phase) == job[p][g].phase = phase
Request(p, g) == job[p][g].request
Task(p, g) == TaskOf(Request(p, g))

-----------------------------------------------------------------------------
(* A worker requests a task.                                               *)

RequestTask(task) ==
  /\ Len(requests) < Len(Tasks)
  /\ task \in Tasks[Len(requests) + 1]
  /\ requests' = Append(requests, task)
  /\ Append1(task.tenant, "workflow",
             Entry("task.requested", Len(requests) + 1, FALSE))
  /\ UNCHANGED <<group, cursor, known, closed, budgets, jobVars, documentVars, died>>

(* The subscription, and what it buffers for the goroutine that is free.   *)

Subscribed == {"task.requested"}

Discover(p) ==
  /\ Rediscover(p) \/ RecreateGroups(p)
  /\ UNCHANGED <<requests, jobVars, documentVars, died>>

DiscoverBadly(p) ==
  /\ RediscoverFails(p) \/ RediscoverRepeats(p)
  /\ UNCHANGED <<requests, jobVars, documentVars, died>>

LoseEntry(p, k) ==
  /\ ReadLost(p, k, Subscribed)
  /\ UNCHANGED <<requests, jobVars, documentVars, died>>

-----------------------------------------------------------------------------
(* Running a task.                                                         *)

Result(p, g, success) ==
  SetJob(p, g, [job[p][g] EXCEPT !.phase = "publishing", !.success = success,
                                 !.error = NoError])

(* An attempt at a call looks the document up first; every other attempt   *)
(* has nothing to wait for.                                                *)
StartAttempt(p, g, task) ==
  /\ Go(p, g, IF task.call.type = "openapi" THEN "reading" ELSE "none")
  /\ UNCHANGED cache

(* An entry goes to a goroutine as soon as one is free.                    *)
Deliver(p, g, k) ==
  LET r   == stream[k][NextEntry(k, Subscribed)].request
      new == [IdleJob EXCEPT !.request = r]
  IN  /\ In(p, g, "idle")
      /\ Read(p, k, Subscribed)
      /\ IF TaskOf(r).type \in Executors \cup {"try"}
         THEN /\ SetJob(p, g, [new EXCEPT !.phase = "attempting", !.attempt = 1])
              /\ StartAttempt(p, g, TaskOf(r))
         ELSE /\ SetJob(p, g, [new EXCEPT !.phase = "dead"])
              /\ UNCHANGED documentVars
      /\ UNCHANGED <<budgets, requests, acked, calls, uncaught, died>>

Load(p, g) ==
  /\ LoadDocument(p, g)
  /\ UNCHANGED <<streamVars, requests, jobVars, died>>

(* What an attempt can come to; without the document there is no call.     *)
Outcomes(task) ==
  CASE task.type = "call" -> ExecuteCall(task.call)
    [] task.type = "try"  -> ExecuteTryTasks(task.call)
    [] OTHER              -> ExecuteSimple

AttemptOutcomes(p, g) ==
  IF access[p][g] = "failed" THEN {ErrorResult} ELSE Outcomes(Task(p, g))

Attempted(p, g) ==
  /\ In(p, g, "attempting")
  /\ access[p][g] \in {"none", "loaded", "failed"}
  /\ calls' = [calls EXCEPT ![Request(p, g)] = @ + 1]

(* The result is published whether or not it says success; a try block is  *)
(* left as soon as an attempt returns no error.                            *)
AttemptReturns(p, g) ==
  /\ Attempted(p, g)
  /\ \E o \in AttemptOutcomes(p, g) :
       /\ o.error = NoError
       /\ Result(p, g, o.success)
  /\ Go(p, g, "none")
  /\ UNCHANGED <<streamVars, requests, acked, uncaught, cache, died>>

(* Outside a try block an error is the processor's, and the end.           *)
AttemptErrs(p, g) ==
  /\ Attempted(p, g)
  /\ Task(p, g).type = "call"
  /\ \E o \in AttemptOutcomes(p, g) :
       /\ o.error # NoError
       /\ SetJob(p, g, [job[p][g] EXCEPT !.phase = "dead", !.error = o.error])
  /\ Go(p, g, "none")
  /\ UNCHANGED <<streamVars, requests, acked, uncaught, cache, died>>

(* Faulty variant: one attempt too many.                                   *)
TryAgainOnceMore(p, g, error) ==
  IF job[p][g].attempt > MaxTries
  THEN /\ SetJob(p, g, [job[p][g] EXCEPT !.phase = "publishing",
                                         !.success = FALSE, !.error = error])
       /\ Go(p, g, "none") /\ UNCHANGED cache
  ELSE /\ SetJob(p, g, [job[p][g] EXCEPT !.attempt = @ + 1, !.error = error])
       /\ StartAttempt(p, g, Task(p, g))

(* Attempts start again at one: the count a retry carries is lost on the   *)
(* way, and the loop ends after MaxTries.                                  *)
TryAgain(p, g, error) ==
  IF job[p][g].attempt = MaxTries
  THEN /\ SetJob(p, g, [job[p][g] EXCEPT !.phase = "publishing",
                                         !.success = FALSE, !.error = error])
       /\ Go(p, g, "none") /\ UNCHANGED cache
  ELSE /\ SetJob(p, g, [job[p][g] EXCEPT !.attempt = @ + 1, !.error = error])
       /\ StartAttempt(p, g, Task(p, g))

(* Leave the try block, to publish or to schedule a retry.                 *)
Leave(p, g, phase, error, success, recovered) ==
  /\ SetJob(p, g, [job[p][g] EXCEPT !.phase = phase, !.error = error,
                                    !.success = success,
                                    !.recovered = recovered])
  /\ Go(p, g, "none")
  /\ UNCHANGED cache

(* A try block whose catch block cannot be parsed fails; so does one whose *)
(* recovery fails.  An error that no filter matches is tried again, for    *)
(* the case of the switch that is meant to fail the task is empty.         *)
Handle(p, g, error, handling) ==
  CASE handling.action = "fail" ->
         /\ TryAgain(p, g, error)
         /\ uncaught' = [uncaught EXCEPT ![Request(p, g)] = @ + 1]
    [] handling.action = "retry" ->
         /\ IF handling.delay = 0 THEN TryAgain(p, g, error)
            ELSE Leave(p, g, "scheduling", error, FALSE, FALSE)
         /\ UNCHANGED uncaught
    [] handling.action = "recover" ->
         /\ \E o \in ExecuteRecoveryTasks(Task(p, g).catch.recovery) :
              Leave(p, g, "publishing", error, o.success, o.success)
         /\ UNCHANGED uncaught
    [] handling.action = "ignore" ->
         /\ Leave(p, g, "publishing", error, TRUE, FALSE)
         /\ UNCHANGED uncaught

AttemptIsHandled(p, g) ==
  /\ Attempted(p, g)
  /\ Task(p, g).type = "try"
  /\ \E o \in AttemptOutcomes(p, g), late \in BOOLEAN :
       /\ o.error # NoError
       /\ IF Task(p, g).catch.malformed
          THEN /\ Leave(p, g, "publishing", o.error, FALSE, FALSE)
               /\ UNCHANGED uncaught
          ELSE \E h \in HandleError(Task(p, g).catch, o.error,
                                     job[p][g].attempt, late) :
                 Handle(p, g, o.error, h)
  /\ UNCHANGED <<streamVars, requests, acked, died>>

(* The timer carries no tenant.  Whether or not it could be published, the *)
(* task is answered with a failure.                                        *)
ScheduleRetry(p, g) ==
  LET timer == Entry("timer.scheduled", Request(p, g), FALSE)
  IN  /\ In(p, g, "scheduling")
      /\ Publish(p, "", "workflow", timer) \/ PublishFails(p, "", "workflow", timer)
      /\ Result(p, g, FALSE)
      /\ UNCHANGED <<group, cursor, known, closed, requests, acked, calls,
                     uncaught, documentVars, died>>

-----------------------------------------------------------------------------
(* Answering.  The result of a recovery task names no workflow, execution  *)
(* or task.                                                                *)

Answer(p, g) ==
  LET j == job[p][g]
  IN  IF j.recovered THEN Entry("task.completed", NoRequest, TRUE)
      ELSE Entry("task.completed", j.request, j.success)

AnswerWorkflow(p, g) == IF job[p][g].recovered THEN "" ELSE "workflow"

Proceed(p, g, phase) ==
  /\ SetJob(p, g, [job[p][g] EXCEPT !.phase = phase])
  /\ UNCHANGED <<group, cursor, known, closed, requests, acked, calls, uncaught,
                 documentVars, died>>

PublishResult(p, g) ==
  /\ In(p, g, "publishing")
  /\ Publish(p, TenantOf(Request(p, g)), AnswerWorkflow(p, g), Answer(p, g))
  /\ Proceed(p, g, "acking")

(* Faulty variant: a result that cannot be published is given up.          *)
PublishResultGivesUp(p, g) ==
  /\ In(p, g, "publishing")
  /\ PublishFails(p, TenantOf(Request(p, g)), AnswerWorkflow(p, g), Answer(p, g))
  /\ Proceed(p, g, "acking")

PublishResultFails(p, g) ==
  /\ In(p, g, "publishing")
  /\ PublishFails(p, TenantOf(Request(p, g)), AnswerWorkflow(p, g), Answer(p, g))
  /\ Proceed(p, g, "dead")

(* The request goes to its own stream again, as a dead letter; an error    *)
(* doing so is dropped.                                                    *)
DeadLetter(p, g) ==
  LET tenant == TenantOf(Request(p, g))
      letter == Entry("task.dlq", Request(p, g), FALSE)
  IN  /\ In(p, g, "dead")
      /\ \/ Publish(p, tenant, "workflow", letter)
         \/ PublishFails(p, tenant, "workflow", letter)
      /\ Proceed(p, g, "acking")

(* An acknowledgement that fails is logged; nobody claims the entry again, *)
(* for the claim loop claims from a stream that does not exist.            *)
Finish(p, g) ==
  /\ SetJob(p, g, IdleJob)
  /\ UNCHANGED <<stream, group, cursor, known, closed, requests, calls, uncaught,
                 documentVars, died>>

AcknowledgeEvent(p, g) ==
  /\ In(p, g, "acking")
  /\ Succeed(p)
  /\ acked' = acked \cup {Request(p, g)}
  /\ Finish(p, g)

(* Faulty variant: the entry is given to the group again.                  *)
AcknowledgeFailsRedelivers(p, g) ==
  /\ In(p, g, "acking")
  /\ Fault(p)
  /\ cursor' = [cursor EXCEPT ![<<TenantOf(Request(p, g)), "workflow">>] = 0]
  /\ SetJob(p, g, IdleJob)
  /\ UNCHANGED <<stream, group, known, closed, requests, acked, calls, uncaught,
                 documentVars, died>>

AcknowledgeFails(p, g) ==
  /\ In(p, g, "acking")
  /\ Fault(p)
  /\ UNCHANGED acked
  /\ Finish(p, g)

-----------------------------------------------------------------------------
(* Ends.  Stop closes the Redis client first and waits for the goroutines  *)
(* afterwards; a process that ends is replaced by a new one.               *)

DocumentExpires(p) ==
  /\ Expire(p)
  /\ UNCHANGED <<streamVars, requests, jobVars, died>>

StartOver(p) ==
  /\ job' = [job EXCEPT ![p] = [g \in Permits |-> IdleJob]]
  /\ known' = [known EXCEPT ![p] = Nowhere]
  /\ closed' = [closed EXCEPT ![p] = FALSE]
  /\ ForgetDocuments(p)
  /\ UNCHANGED <<stream, group, cursor, requests, acked, calls, uncaught>>

Stop(p) ==
  /\ ~closed[p]
  /\ Loss
  /\ closed' = [closed EXCEPT ![p] = TRUE]
  /\ UNCHANGED <<stream, group, cursor, known, requests, jobVars, documentVars, died>>

Exit(p) ==
  /\ closed[p]
  /\ StartOver(p)
  /\ UNCHANGED <<budgets, died>>

Crash(p) ==
  /\ ~closed[p]
  /\ Loss
  /\ StartOver(p)
  /\ UNCHANGED died

MapRaceIsFatal(p) ==
  /\ MapRace(p)
  /\ died' = TRUE
  /\ StartOver(p)
  /\ UNCHANGED budgets

-----------------------------------------------------------------------------
(* What becomes of a retry's timer: the timer service fires it, without    *)
(* what told it apart from a wait task's, and the worker, which finds no   *)
(* workflow under no tenant, makes a dead letter of it.                    *)

Published(type, r) ==
  UNION {{<<k, i>> : i \in {j \in DOMAIN stream[k] :
            stream[k][j].type = type /\ stream[k][j].request = r}} : k \in Keys}

Follows(r, type, cause) ==
  /\ Cardinality(Published(type, r)) < Cardinality(Published(cause, r))
  /\ Append1("", "workflow", Entry(type, r, FALSE))
  /\ UNCHANGED <<group, cursor, known, closed, budgets, requests, jobVars,
                 documentVars, died>>

PublishTimerFired(r) == Follows(r, "timer.fired", "timer.scheduled")
WorkerGivesUp(r) == Follows(r, "workflow.dlq", "timer.fired")

-----------------------------------------------------------------------------
Stream(p) ==
  \/ Discover(p)
  \/ DiscoverBadly(p)
  \/ \E k \in Keys : LoseEntry(p, k)

Work(p, g) ==
  \/ Load(p, g)
  \/ AttemptReturns(p, g)
  \/ AttemptErrs(p, g)
  \/ AttemptIsHandled(p, g)
  \/ ScheduleRetry(p, g)
  \/ PublishResult(p, g)
  \/ PublishResultFails(p, g)
  \/ DeadLetter(p, g)
  \/ AcknowledgeEvent(p, g)
  \/ AcknowledgeFails(p, g)

Next ==
  \/ \E task \in UNION {Tasks[r] : r \in Requests} : RequestTask(task)
  \/ \E p \in Processes :
       \/ Stream(p)
       \/ \E g \in Permits : Work(p, g) \/ \E k \in Keys : Deliver(p, g, k)
       \/ DocumentExpires(p)
       \/ Stop(p)
       \/ Exit(p)
       \/ Crash(p)
       \/ MapRaceIsFatal(p)
  \/ \E r \in Requests : PublishTimerFired(r) \/ WorkerGivesUp(r)

Spec == Init /\ [][Next]_vars

(* The reader's loop looks for streams every five seconds and reads in     *)
(* between; a stopped process ends; goroutines run on.  No call to Redis   *)
(* fails for ever (MaxTroubles bounds them), the timer service and the     *)
(* worker keep up.                                                         *)
ServiceFairness ==
  /\ \A p \in Processes :
       /\ WF_vars(Discover(p))
       /\ WF_vars(\E g \in Permits, k \in Keys : Deliver(p, g, k))
       /\ \A g \in Permits : WF_vars(Work(p, g))
       /\ WF_vars(Exit(p))
  /\ WF_vars(\E r \in Requests : PublishTimerFired(r) \/ WorkerGivesUp(r))

FairSpec == Spec /\ ServiceFairness
-----------------------------------------------------------------------------
TypeOK ==
  /\ \A k \in Keys : cursor[k] \in 0 .. Len(stream[k])
  /\ group \subseteq Existing
  /\ \A p \in Processes : known[p].keys \subseteq Existing /\ closed[p] \in BOOLEAN
  /\ faults + losses \in 0 .. MaxTroubles
  /\ \A i \in 1 .. Len(requests) : requests[i] \in Tasks[i]
  /\ \A p \in Processes, g \in Permits :
       /\ job[p][g] \in Job
       /\ access[p][g] \in Accesses
       /\ In(p, g, "idle") <=> Request(p, g) = NoRequest
       /\ access[p][g] # "none" => In(p, g, "attempting")
  /\ \A p \in Processes : cache[p] \in {"absent", "fresh", "expired"}
  /\ acked \subseteq 1 .. Len(requests)
  /\ \A r \in Requests : uncaught[r] \in 0 .. calls[r]
  /\ died \in BOOLEAN

Completions(r) == Published("task.completed", r)
DeadLetters(r) == Published("task.dlq", r)

(* An answer of a recovery task, which says of no request that it is its.  *)
Misaddressed(tenant) ==
  {i \in 1 .. Len(stream[<<tenant, "default">>]) :
     stream[<<tenant, "default">>][i].type = "task.completed"}

Recoverable(r) == r \in DOMAIN requests /\ TaskOf(r).catch.recovery # {}

Accounted(r) ==
  \/ Completions(r) # {}
  \/ DeadLetters(r) # {}
  \/ Recoverable(r) /\ Misaddressed(TaskOf(r).tenant) # {}

(* The calls that tell of a request: two after a result, but a task that   *)
(* may end in an error of the processor has only a dead letter to lose.    *)
MayErr(task) == task.type \notin (Executors \ {"call"}) \cup {"try"}

Untold(r) ==
  r \in DOMAIN requests /\ faults > (IF MayErr(TaskOf(r)) THEN 0 ELSE 1)

(* What the processor acknowledges it has answered, or made a dead letter  *)
(* of: an acknowledged request is lost without a trace only when the calls *)
(* that tell of it fail (processTaskEvent, the goroutine of                *)
(* eventProcessingLoop).                                                   *)
NoSilentDrop == \A r \in acked : Accounted(r) \/ Untold(r)

(* No task is answered twice, whatever crashes, and none is both answered  *)
(* and a dead letter unless a publication failed after it took effect: an  *)
(* entry is delivered once to the consumer group and never claimed again.  *)
AnsweredOnce ==
  \A r \in Requests :
    /\ Cardinality(Completions(r)) <= 1
    /\ Cardinality(DeadLetters(r)) <= 1
    /\ faults = 0 => Completions(r) = {} \/ DeadLetters(r) = {}

(* Attempts are bounded by the policy, and by MaxTries where no policy is  *)
(* consulted because no filter matches (executeTryBlock, ShouldRetry).     *)
LimitRespected ==
  \A r \in 1 .. Len(requests) :
    /\ calls[r] <= MaxTries
    /\ TaskOf(r).type = "try" /\ uncaught[r] = 0 =>
         \A policy \in TaskOf(r).catch.retry :
           policy.count > 0 => calls[r] <= policy.count

(* What a filter means to its author, for whom 503 is 503.                *)
Means(expected, actual) ==
  IF expected.kind = "pattern" THEN actual.value \in expected.value
  ELSE IF expected.kind = "list" THEN \E x \in expected.value : x.value = actual.value
  ELSE expected.value = actual.value

(* A task whose last attempt ended in an error is answered with success    *)
(* only if its catch block means to catch that error (HandleError,         *)
(* matchesValue).                                                          *)
CaughtOnly ==
  \A p \in Processes, g \in Permits :
    LET j      == job[p][g]
        filter == Task(p, g).catch.filter
    IN  In(p, g, "publishing") /\ j.success /\ j.error # NoError =>
          \A key \in DOMAIN filter : Means(filter[key], WorkflowError(j.error)[key])

(* A document that has not expired stays until its process ends: the       *)
(* removal of an expired entry never hits the one that replaced it         *)
(* (getCachedDocument, CacheDocument and their lock).                      *)
FreshIsKept ==
  [][\A p \in Processes :
       cache[p] = "fresh" /\ cache'[p] = "absent" =>
         \A g \in Permits : access'[p][g] = "none"]_vars

(* Every request is answered in the end or becomes a dead letter, unless a *)
(* process dies or is stopped, an answer of Redis is lost, or the calls    *)
(* that tell of it fail: new streams are found, also by a process that     *)
(* reads others, and no goroutine waits for ever.                          *)
EveryRequestAnswered ==
  \A r \in Requests :
    r <= Len(requests) ~>
      \/ Accounted(r)
      \/ Untold(r) \/ losses > 0 \/ died

(* A retry that was scheduled takes place (scheduleRetry; its caller calls *)
(* the task "pending retry").                                              *)
RetryHappens ==
  \A r \in Requests :
    Published("timer.scheduled", r) # {} /\ calls[r] = 1 ~> calls[r] > 1
=============================================================================

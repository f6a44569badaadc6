-------------------------- MODULE ExecutionControl --------------------------
(***************************************************************************)
(* The stored record of an execution and those who write it: the API,      *)
(* which creates it and cancels it (api/internal/services), and the        *)
(* worker, which overwrites it after every event it has processed          *)
(* (worker/internal/processor and adapters).  Every update reads the       *)
(* record first and writes it back in another call, so the writers         *)
(* interleave.                                                             *)
(*                                                                         *)
(* There is one worker process with a goroutine for each permit of its     *)
(* semaphore and one mutex for the workflow, which an attempt at an event  *)
(* holds and the backoff between two attempts does not.  What an attempt   *)
(* decides is WorkflowEngine's; the tasks are calls (WorkflowProcessor has *)
(* the others, more processes, crashes and the consumer group).            *)
(***************************************************************************)
EXTENDS WorkflowEngine

CONSTANTS
  Requests,     \* requests to cancel an execution
  Permits,      \* permits of the worker's semaphore
  NoPermit,     \* the mutex is free
  MaxAttempts,  \* attempts at an event before it is a dead letter (3 in the code)
  MaxFaults     \* bound: failing calls to Redis

ASSUME ControlAssumption ==
  /\ NoPermit \notin Permits
  /\ MaxAttempts \in Nat \ {0} /\ MaxFaults \in Nat
  /\ \A n \in TaskNames : TaskKind[n] = "call"

VARIABLES
  record,     \* record[e]: the stored execution
  replay,     \* replay[e]: RebuildState of the events of e in the stream
  triggers,   \* triggers[e]: those the worker processes, start and answers
  asked,      \* asked[e][n]: unanswered requests of task n
  handled,    \* handled[e]: triggers of e processed and acknowledged
  dead,       \* dead[e]: triggers of e given up
  lock,       \* the permit whose goroutine holds the mutex
  job,        \* job[g]: what the goroutine of permit g is doing
  request,    \* request[c]: what a request to cancel has come to
  faults,     \* failing calls so far
  unread,     \* history variable: executions once read as without events
  restarted   \* history variable: executions whose start was decided again

streamVars == <<replay, triggers, asked>>
workerVars == <<handled, dead, lock, job>>
pastVars == <<unread, restarted>>
vars == <<record, replay, triggers, asked, handled, dead, lock, job, request,
          faults, unread, restarted>>

RecordStatuses == {"pending", "running", "completed", "failed"}
Terminal == {"completed", "failed"}
Running == {"pending", "running"}

Record == [status: RecordStatuses, started: {"api", "event"}, done: BOOLEAN,
           tenant: {"own", "default", ""}]
NoRecord == [status |-> "none"]

Exists(e) == record[e] # NoRecord

Nothing == [action |-> "nothing", task |-> NoTask]

(* The execution and event it works on, the attempt, what it has rebuilt   *)
(* and decided, and the record it has read.                                *)
IdleJob == [phase |-> "idle", execution |-> NoExecution, event |-> 0,
            attempt |-> 0, status |-> "created", context |-> NoExecution,
            step |-> Nothing, seen |-> NoRecord]

IdleRequest == [phase |-> "idle", execution |-> NoExecution, seen |-> NoRecord]

Init ==
  /\ record = [e \in Executions |-> NoRecord]
  /\ replay = [e \in Executions |-> EmptyState]
  /\ triggers = [e \in Executions |-> <<>>]
  /\ asked = [e \in Executions |-> [n \in TaskNames |-> 0]]
  /\ handled = [e \in Executions |-> {}]
  /\ dead = [e \in Executions |-> {}]
  /\ lock = NoPermit
  /\ job = [g \in Permits |-> IdleJob]
  /\ request = [c \in Requests |-> IdleRequest]
  /\ faults = 0
  /\ unread = {} /\ restarted = {}

Succeed == UNCHANGED faults
Fault == faults < MaxFaults /\ faults' = faults + 1

-----------------------------------------------------------------------------
(* Redis.  An update finds the record's key by a scan and normalises what  *)
(* it stores: an execution that is not over has no completion time.        *)

(* Faulty variant: the completion time is stored as it comes.              *)
UpdateExecutionAsIs(e, new) ==
  record' = IF e = NoExecution THEN record ELSE [record EXCEPT ![e] = new]

(* Without an execution the record of an invented one is written.          *)
UpdateExecution(e, new) ==
  record' = IF e = NoExecution THEN record
            ELSE [record EXCEPT ![e] = [new EXCEPT !.done = @ /\ new.status \in Terminal]]

GetExecution(e) == IF e = NoExecution THEN NoRecord ELSE record[e]

(* A failing update may have stored the record.                            *)
UpdateFails(e, new) == Fault /\ (UpdateExecution(e, new) \/ UNCHANGED record)

CreateExecution(e, new) ==
  /\ ~Exists(e)
  /\ record' = [record EXCEPT ![e] = new]

(* What the list of a tenant's executions shows.  The pattern of the scan  *)
(* and the filter both name the tenant: the key never changes, the record  *)
(* may.                                                                    *)
KeyTenant(e) == "own"
MatchesExecutionFilters(e, tenant) == record[e].tenant = tenant
ListExecutions(tenant) ==
  {e \in Executions :
     Exists(e) /\ KeyTenant(e) = tenant /\ MatchesExecutionFilters(e, tenant)}

-----------------------------------------------------------------------------
(* XADD: the state every later replay builds, the worker's next event, a   *)
(* request for the executors or its answer.  An event without an execution *)
(* is in no history.                                                       *)
Publish(ev) ==
  LET e == ev.execution
  IN  IF e = NoExecution THEN UNCHANGED streamVars
      ELSE /\ replay' = [replay EXCEPT ![e] = ProcessEvent(@, ev)]
           /\ triggers' = IF ev.type \in {"execution.started", "task.completed"}
                          THEN [triggers EXCEPT ![e] = Append(@, ev)] ELSE triggers
           /\ asked' = CASE ev.type = "task.requested" -> [asked EXCEPT ![e][ev.task] = @ + 1]
                         [] ev.type = "task.completed" -> [asked EXCEPT ![e][ev.task] = @ - 1]
                         [] OTHER -> asked

(* A publication that fails may have reached the stream.                   *)
PublishFails(ev) == Fault /\ (Publish(ev) \/ UNCHANGED streamVars)

(* WorkflowService.ExecuteWorkflow: the record first, then the event.  A   *)
(* publication that fails, or an API that ends in between, leaves a record *)
(* that nothing carries on.                                                *)

ExecuteWorkflow(e) ==
  /\ CreateExecution(e, [status |-> "pending", started |-> "api",
                         done |-> FALSE, tenant |-> "own"])
  /\ LET ev == NewEvent("execution.started", "api", e, NoTask, TRUE)
     IN  \/ Succeed /\ Publish(ev)
         \/ PublishFails(ev)
  /\ UNCHANGED <<workerVars, request, pastVars>>

-----------------------------------------------------------------------------
(* ExecutionService.CancelExecution: what it reads it checks, changes and  *)
(* writes back.  It publishes execution.cancelled, which nothing           *)
(* subscribes to.                                                          *)

SetRequest(c, r) == request' = [request EXCEPT ![c] = r]

IsRunning(r) == r.status \in Running

(* The repository does not copy the tenant of what it reads, and writes a  *)
(* default for a missing one.                                              *)
GetByID(e) == [record[e] EXCEPT !.tenant = ""]
Update(r) == [r EXCEPT !.tenant = IF @ = "" THEN "default" ELSE @]

(* Faulty variant: the check is missing.                                   *)
ReadToCancelUnchecked(c, e) ==
  /\ request[c].phase = "idle"
  /\ Exists(e)
  /\ Succeed
  /\ SetRequest(c, [phase |-> "writing", execution |-> e, seen |-> GetByID(e)])
  /\ UNCHANGED <<record, streamVars, workerVars, pastVars>>

ReadToCancel(c, e) ==
  /\ request[c].phase = "idle"
  /\ Exists(e)
  /\ Succeed
  /\ SetRequest(c, [phase |-> IF IsRunning(record[e]) THEN "writing" ELSE "refused",
                    execution |-> e, seen |-> GetByID(e)])
  /\ UNCHANGED <<record, streamVars, workerVars, pastVars>>

(* Recording the reason as an error turns the cancellation into a failure. *)
Cancelled(seen) == [seen EXCEPT !.status = "failed", !.done = TRUE]

WriteCancelled(c) ==
  LET r == request[c]
  IN  /\ r.phase = "writing"
      /\ Succeed
      /\ UpdateExecution(r.execution, Update(Cancelled(r.seen)))
      /\ SetRequest(c, [r EXCEPT !.phase = "cancelled"])
      /\ UNCHANGED <<streamVars, workerVars, pastVars>>

WriteCancelledFails(c) ==
  LET r == request[c]
  IN  /\ r.phase = "writing"
      /\ UpdateFails(r.execution, Update(Cancelled(r.seen)))
      /\ SetRequest(c, [r EXCEPT !.phase = "error"])
      /\ UNCHANGED <<streamVars, workerVars, pastVars>>

-----------------------------------------------------------------------------
(* The worker: the goroutine of permit g.                                  *)

SetJob(g, j) == job' = [job EXCEPT ![g] = j]
Goto(g, phase) == SetJob(g, [job[g] EXCEPT !.phase = phase])
Seen(g, r, phase) == SetJob(g, [job[g] EXCEPT !.phase = phase, !.seen = r])
Unlock == lock' = NoPermit

(* An executor answers a request.                                          *)
ExecutorAnswers(e, n, success) ==
  /\ asked[e][n] > 0
  /\ Publish(NewEvent("task.completed", "executor-service", e, n, success))
  /\ UNCHANGED <<record, workerVars, request, faults, pastVars>>

(* The events of e that have been given to a goroutine.                    *)
Taken(e) ==
  handled[e] \cup dead[e]
    \cup {job[g].event : g \in {h \in Permits : job[h].execution = e}}

(* The processing loop takes the events of the stream in their order.      *)
TakeEvent(g, e, i) ==
  /\ job[g] = IdleJob
  /\ i \notin Taken(e) /\ 1 .. i - 1 \subseteq Taken(e)
  /\ SetJob(g, [IdleJob EXCEPT !.phase = "waiting", !.execution = e,
                               !.event = i, !.attempt = 1])
  /\ UNCHANGED <<record, streamVars, handled, dead, lock, request, faults, pastVars>>

(* Faulty variant: an event that cannot be processed is forgotten.         *)
AfterErrorForgets(g) == SetJob(g, IdleJob) /\ UNCHANGED dead

(* What follows an error of ProcessWorkflowEvent: the event is tried again *)
(* from the start, after a backoff without the mutex, or given up.         *)
AfterError(g) ==
  LET j == job[g]
  IN  IF j.attempt < MaxAttempts
      THEN /\ SetJob(g, [IdleJob EXCEPT !.phase = "waiting", !.execution = j.execution,
                           !.event = j.event, !.attempt = j.attempt + 1])
           /\ UNCHANGED dead
      ELSE /\ SetJob(g, IdleJob)
           /\ dead' = [dead EXCEPT ![j.execution] = @ \cup {j.event}]

Trigger(g) == triggers[job[g].execution][job[g].event]

(* Goroutine g takes the mutex and chooses the step for state st.          *)
Decide(g, st) ==
  LET step == NextStep(st)
      j    == job[g]
  IN  /\ j.phase = "waiting"
      /\ lock = NoPermit
      /\ lock' = g
      /\ SetJob(g, [j EXCEPT !.phase = IF step.action = "nothing" THEN "reading"
                                                                  ELSE "publishing",
                             !.status = st.status, !.context = st.context, !.step = step])
      /\ restarted' = IF j.event = 1 /\ j.attempt > 1
                      THEN restarted \cup {j.execution} ELSE restarted

(* The state is rebuilt from the history, and the event, which the history *)
(* holds already, is applied once more.                                    *)
Rebuild(g) ==
  /\ Succeed
  /\ Decide(g, ProcessEvent(replay[job[g].execution], Trigger(g)))
  /\ UNCHANGED <<record, streamVars, handled, dead, request, unread>>

(* GetEventHistory only logs that a stream could not be read and returns   *)
(* no events and no error: the state is built from the event alone.        *)
RebuildBlind(g) ==
  /\ Fault
  /\ Decide(g, ProcessEvent(EmptyState, Trigger(g)))
  /\ unread' = unread \cup {job[g].execution}
  /\ UNCHANGED <<record, streamVars, handled, dead, request>>

(* The streams cannot be listed or the definition cannot be read.          *)
RebuildFails(g) ==
  /\ job[g].phase = "waiting"
  /\ lock = NoPermit
  /\ Fault
  /\ AfterError(g)
  /\ UNCHANGED <<record, streamVars, handled, lock, request, pastVars>>

(* The event that carries out the step of job j.                           *)
StepEvent(j) ==
  IF j.step.action = "request"
  THEN NewEvent("task.requested", "worker-service", j.context, j.step.task, TRUE)
  ELSE NewEvent("workflow.completed", "worker-service", j.context, NoTask, TRUE)

(* After workflow.completed the record is written twice, by two calls, the *)
(* first of which needs an execution id.                                   *)
AfterPublication(g) ==
  LET j == job[g]
  IN  IF j.step.action = "request" THEN Goto(g, "reading")
      ELSE SetJob(g, [j EXCEPT !.status = "completed",
             !.phase = IF j.context = NoExecution THEN "reading" ELSE "completing"])

(* Faulty variant: the mutex is released after the publication.            *)
PublishStepUnlocks(g) ==
  /\ job[g].phase = "publishing"
  /\ Succeed
  /\ Publish(StepEvent(job[g]))
  /\ AfterPublication(g)
  /\ Unlock
  /\ UNCHANGED <<record, handled, dead, request, pastVars>>

PublishStep(g) ==
  /\ job[g].phase = "publishing"
  /\ Succeed
  /\ Publish(StepEvent(job[g]))
  /\ AfterPublication(g)
  /\ UNCHANGED <<record, handled, dead, lock, request, pastVars>>

PublishStepFails(g) ==
  /\ job[g].phase = "publishing"
  /\ PublishFails(StepEvent(job[g]))
  /\ Unlock
  /\ AfterError(g)
  /\ UNCHANGED <<record, handled, request, pastVars>>

(* updateExecutionStatus, after workflow.completed: the record that is     *)
(* read is written back as completed.  Its errors are only logged.         *)
ReadToComplete(g) ==
  /\ job[g].phase = "completing"
  /\ \/ Succeed /\ Seen(g, GetExecution(job[g].context), "storing")
     \/ Fault /\ Goto(g, "reading")
  /\ UNCHANGED <<record, streamVars, handled, dead, lock, request, pastVars>>

UpdateExecutionStatus(g) ==
  LET new == [job[g].seen EXCEPT !.status = "completed", !.done = TRUE]
  IN  /\ job[g].phase = "storing"
      /\ \/ Succeed /\ UpdateExecution(job[g].context, new)
         \/ UpdateFails(job[g].context, new)
      /\ Goto(g, "reading")
      /\ UNCHANGED <<streamVars, handled, dead, lock, request, pastVars>>

(* UpdateWorkflowState reads the record for its times alone; one that      *)
(* cannot be read has the time of the first event.                         *)
ReadTimes(g) ==
  /\ job[g].phase = "reading"
  /\ \/ Succeed /\ Seen(g, GetExecution(job[g].context), "writing")
     \/ Fault /\ Seen(g, NoRecord, "writing")
  /\ UNCHANGED <<record, streamVars, handled, dead, lock, request, pastVars>>

RecordStatus(status) == IF status = "created" THEN "pending" ELSE status

(* Faulty variant: the times are those of the events.                      *)
StateAsExecutionAnew(j) ==
  [status |-> RecordStatus(j.status), started |-> "event",
   done |-> j.status \in Terminal, tenant |-> "own"]

(* Faulty variant: the state has lost its tenant.                          *)
StateAsExecutionNoTenant(j) ==
  [status |-> RecordStatus(j.status),
   started |-> IF j.seen = NoRecord THEN "event" ELSE j.seen.started,
   done |-> j.status \in Terminal,
   tenant |-> "default"]

StateAsExecution(j) ==
  [status |-> RecordStatus(j.status),
   started |-> IF j.seen = NoRecord THEN "event" ELSE j.seen.started,
   done |-> (j.seen # NoRecord /\ j.seen.done) \/ j.status \in Terminal,
   tenant |-> "own"]

(* The record is written, the mutex released and the event acknowledged;   *)
(* an acknowledgement that fails is only logged, and nobody reads the      *)
(* event again.                                                            *)
UpdateWorkflowState(g) ==
  LET j == job[g]
  IN  /\ j.phase = "writing"
      /\ Succeed
      /\ UpdateExecution(j.context, StateAsExecution(j))
      /\ handled' = [handled EXCEPT ![j.execution] = @ \cup {j.event}]
      /\ Unlock
      /\ SetJob(g, IdleJob)
      /\ UNCHANGED <<streamVars, dead, request, pastVars>>

(* Faulty variant: an update that fails is only logged.                    *)
UpdateWorkflowStateIsLogged(g) ==
  LET j == job[g]
  IN  /\ j.phase = "writing"
      /\ UpdateFails(j.context, StateAsExecution(j))
      /\ handled' = [handled EXCEPT ![j.execution] = @ \cup {j.event}]
      /\ Unlock
      /\ SetJob(g, IdleJob)
      /\ UNCHANGED <<streamVars, dead, request, pastVars>>

(* The record is then created, which fails because it exists, and the      *)
(* attempt has failed.                                                     *)
UpdateWorkflowStateFails(g) ==
  /\ job[g].phase = "writing"
  /\ UpdateFails(job[g].context, StateAsExecution(job[g]))
  /\ Unlock
  /\ AfterError(g)
  /\ UNCHANGED <<streamVars, handled, request, pastVars>>

-----------------------------------------------------------------------------
Worker(g) ==
  \/ \E e \in Executions : \E i \in DOMAIN triggers[e] : TakeEvent(g, e, i)
  \/ Rebuild(g)
  \/ RebuildBlind(g)
  \/ RebuildFails(g)
  \/ PublishStep(g)
  \/ PublishStepFails(g)
  \/ ReadToComplete(g)
  \/ UpdateExecutionStatus(g)
  \/ ReadTimes(g)
  \/ UpdateWorkflowState(g)
  \/ UpdateWorkflowStateFails(g)

Cancel(c) ==
  \/ \E e \in Executions : ReadToCancel(c, e)
  \/ WriteCancelled(c)
  \/ WriteCancelledFails(c)

Executor(e) ==
  \E n \in TaskNames, success \in BOOLEAN : ExecutorAnswers(e, n, success)

Next ==
  \/ \E e \in Executions : ExecuteWorkflow(e)
  \/ \E e \in Executions : Executor(e)
  \/ \E c \in Requests : Cancel(c)
  \/ \E g \in Permits : Worker(g)

Spec == Init /\ [][Next]_vars

(* Executors answer, goroutines go on, and a request that has read the     *)
(* record is carried out.  Calls to Redis succeed in the end.              *)
FairSpec ==
  /\ Spec
  /\ WF_vars(\E g \in Permits : Worker(g))
  /\ \A e \in Executions : WF_vars(Executor(e))
  /\ \A c \in Requests : WF_vars(WriteCancelled(c) \/ WriteCancelledFails(c))
-----------------------------------------------------------------------------
Jobs == [phase: {"idle", "waiting", "publishing", "completing", "storing",
                 "reading", "writing"},
         execution: Executions \cup {NoExecution}, event: Nat, attempt: 0 .. MaxAttempts,
         status: Statuses, context: Executions \cup {NoExecution},
         step: Step, seen: Record \cup {NoRecord}]

(* The goroutine that has taken the mutex is the one that holds it, and no *)
(* event is in the hands of two.                                           *)
TypeOK ==
  /\ record \in [Executions -> Record \cup {NoRecord}]
  /\ replay \in [Executions -> EngineState]
  /\ \A e \in Executions : triggers[e] \in Seq(Event) /\ asked[e] \in [TaskNames -> Nat]
  /\ job \in [Permits -> Jobs] /\ lock \in Permits \cup {NoPermit}
  /\ \A g \in Permits : lock = g <=> job[g].phase \notin {"idle", "waiting"}
  /\ \A e \in Executions : Taken(e) \subseteq DOMAIN triggers[e]
  /\ \A g, h \in Permits :
       /\ job[g] # IdleJob /\ job[g].execution = job[h].execution
       /\ job[g].event = job[h].event
       => g = h
  /\ \A c \in Requests : request[c].phase = "writing" => request[c].seen.status \in Running
  /\ faults \in 0 .. MaxFaults

Wrote(c, e) ==
  request[c].execution = e /\ request[c].phase \in {"cancelled", "error"}

(* A stored execution has a completion time if and only if it is over,     *)
(* though the worker keeps the time of the record it read (UpdateExecution,*)
(* UpdateWorkflowState).                                                   *)
DoneIsOver ==
  \A e \in Executions :
    Exists(e) => (record[e].done <=> record[e].status \in Terminal)

(* No writer loses the time the API stored for the start, unless a call to *)
(* Redis failed (UpdateWorkflowState, updateExecutionStatus, Update).      *)
StartKept ==
  \A e \in Executions : Exists(e) /\ record[e].started # "api" => faults > 0

(* Only a cancelled execution is missing from its tenant's list            *)
(* (ListExecutions, and Update, which loses the tenant).                   *)
HiddenMeansCancelled ==
  \A e \in Executions :
    Exists(e) /\ e \notin ListExecutions("own") =>
      \E c \in Requests : Wrote(c, e)

(* The record of a completed execution turns into another only by the hand *)
(* of a request to cancel that read it before it was completed             *)
(* (CancelExecution checks what it read), or after a goroutine has taken   *)
(* the history for empty (GetEventHistory).  Attempts that are repeated,   *)
(* of which the one at the start rebuilds "running", never do it.          *)
OutcomeKept ==
  [][\A e \in Executions :
       Exists(e) /\ record[e].status = "completed" /\ record'[e].status # "completed" =>
         \/ e \in unread
         \/ \E c \in Requests : /\ request[c].execution = e
                                /\ request[c].phase = "writing"
                                /\ request[c].seen.status \in Running]_vars

Succeeded(e) == Len(replay[e].completed) = Len(TaskList)
TaskFailed(e) == \E i \in DOMAIN triggers[e] : ~triggers[e][i].success

(* When every event of an execution that is over has been processed, the   *)
(* record says how it ended, or that somebody cancelled it                 *)
(* (updateWorkflowRecord after every event), provided no history was taken *)
(* for empty.  One outcome can be lost: the failure of a task, to a second *)
(* attempt at execution.started, which rebuilds "running".                 *)
RestMeansRecorded ==
  \A e \in Executions \ unread : handled[e] = DOMAIN triggers[e] =>
    /\ Succeeded(e) => \/ record[e].status = "completed"
                       \/ record[e].status = "failed" /\ \E c \in Requests : Wrote(c, e)
    /\ TaskFailed(e) => \/ record[e].status = "failed"
                        \/ record[e].status = "running" /\ e \in restarted

(* Every execution that was created is over in the end and for good, on    *)
(* record too, cancelled in between or not, unless its start was never     *)
(* published, an event of it was given up, its history was taken for       *)
(* empty, or a task failed and its start was attempted again.              *)
EventuallyOver ==
  \A e \in Executions :
    <>[](Exists(e) => \/ record[e].status \in Terminal
                      \/ triggers[e] = <<>> \/ dead[e] # {} \/ e \in unread
                      \/ TaskFailed(e) /\ e \in restarted)

(* An execution whose cancellation succeeded is terminated (the API's      *)
(* models/execution.go: "terminated before completion").                   *)
CancelIsFinal ==
  \A c \in Requests :
    request[c].phase = "cancelled" => record[request[c].execution].status = "failed"
=============================================================================

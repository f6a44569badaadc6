-------------------------- MODULE WorkflowProcessor --------------------------
(***************************************************************************)
(* The worker service (worker/internal/processor) against the stream of    *)
(* one workflow: a Redis stream read through the consumer group            *)
(* "worker-service" by one or more worker processes, each with a semaphore *)
(* of goroutines and one mutex per workflow id.  A goroutine handles one   *)
(* event: lock, read the history, decide, publish, write the execution     *)
(* record, unlock, acknowledge; an error repeats the whole sequence, and   *)
(* after MaxAttempts the event goes to the dead letter queue.              *)
(*                                                                         *)
(* The executor and timer services are reduced to what they append to the  *)
(* stream, the API to the start of an execution.                           *)
(***************************************************************************)
EXTENDS WorkflowEngine

CONSTANTS
  Workers,      \* worker processes
  Permits,      \* permits of a process's semaphore (WORKER_CONCURRENCY)
  NoPermit,     \* the lock is free
  InboxSize,    \* events a subscription buffers ahead of its processor
  MaxAttempts,  \* attempts before the dead letter queue (3 in the code)
  SilentReads,  \* a stream that cannot be read is an empty history (TRUE in
                \* the code; FALSE assumes that such reads do not fail)
  MaxFaults,    \* bound: calls of the workers to Redis that fail
  MaxLosses     \* bound: crashes and stops, answers and starts that get lost

ASSUME ProcessorAssumption ==
  /\ NoPermit \notin Permits
  /\ InboxSize \in Nat \ {0}
  /\ MaxAttempts \in Nat \ {0}
  /\ SilentReads \in BOOLEAN
  /\ MaxFaults \in Nat
  /\ MaxLosses \in Nat

VARIABLES
  log,       \* the stream, in publication order
  replay,    \* replay[e]: RebuildState of the events of e in log
  record,    \* record[e]: status of the stored execution
  cursor,    \* last entry delivered to the group
  acked,     \* entries acknowledged to the group
  inbox,     \* inbox[w]: entries delivered to w, not yet in a goroutine
  lock,      \* lock[w]: the permit whose goroutine holds w's mutex
  job,       \* job[w][g]: what the goroutine of permit g is doing
  closed,    \* closed[w]: Stop has closed w's connection to Redis
  dead,      \* entries given up after MaxAttempts
  answered,  \* task.requested and timer.scheduled entries consumed
  faults,    \* failing calls so far
  losses     \* losses so far

streamVars == <<log, replay>>
groupVars  == <<cursor, acked, inbox>>
workerVars == <<lock, job, dead, closed>>
budgets    == <<faults, losses>>
vars == <<log, replay, record, cursor, acked, inbox, lock, job, dead,
          closed, answered, faults, losses>>

(* Faulty variant: waits are never resumed.                                *)
SubscribedWithoutTimers(ev) ==
  ev.type \in {"workflow.created", "execution.started", "task.completed"}

(* The event types a worker subscribes to; others are acknowledged unread. *)
Subscribed(ev) == ev.type \in {"workflow.created", "execution.started",
                               "task.completed", "timer.fired"}

(* Events a worker acknowledges without handling them.                     *)
Skipped(ev) ==
  \/ ev.type = "workflow.created"
  \/ ev.type = "task.completed" /\ ev.source = "worker-service"
  \/ /\ ev.type = "task.completed"
     /\ ev.source \notin {"executor-service", "workflow-engine"}

Phases == {"idle", "locking", "publishing", "completing", "recording",
           "dlq", "acking"}

Job == [phase: Phases, entry: Nat, attempt: Nat, state: EngineState,
        step: Step]

Nothing == [action |-> "nothing", task |-> NoTask]

IdleJob == [phase |-> "idle", entry |-> 0, attempt |-> 0,
            state |-> EmptyState, step |-> Nothing]

RecordStatuses == {"none", "pending", "running", "completed", "failed"}

RecordStatus(status) == IF status = "created" THEN "pending" ELSE status

CreatedEvent == NewEvent("workflow.created", "api", NoExecution, NoTask, TRUE)

Init ==
  /\ log = <<CreatedEvent>>
  /\ replay = [e \in Executions |-> EmptyState]
  /\ record = [e \in Executions |-> "none"]
  /\ cursor = 0
  /\ acked = {}
  /\ inbox = [w \in Workers |-> <<>>]
  /\ lock = [w \in Workers |-> NoPermit]
  /\ job = [w \in Workers |-> [g \in Permits |-> IdleJob]]
  /\ dead = {}
  /\ closed = [w \in Workers |-> FALSE]
  /\ answered = {}
  /\ faults = 0
  /\ losses = 0

-----------------------------------------------------------------------------
(* Faulty variant: histories are not filtered by execution.                *)
PublishUnfiltered(ev) ==
  /\ log' = Append(log, ev)
  /\ replay' = [e \in Executions |-> ProcessEvent(replay[e], ev)]

(* XADD, and with it the state every later replay of ev.execution builds.  *)
(* An event without an execution is in no replay.                          *)
Publish(ev) ==
  /\ log' = Append(log, ev)
  /\ replay' = [e \in Executions |-> IF e = ev.execution
                                     THEN ProcessEvent(replay[e], ev)
                                     ELSE replay[e]]

(* A publication that returns an error may still have reached the stream.  *)
PublishError(ev) == Publish(ev) \/ UNCHANGED streamVars

(* A call of process w succeeds or fails; on a closed connection (history, *)
(* publications, records and acknowledgements share it) all of them fail,  *)
(* without effect: a call that Close cuts off fails just before it.        *)
Succeed(w) == ~closed[w] /\ UNCHANGED budgets
Fault(w) ==
  IF closed[w]
  THEN UNCHANGED budgets
  ELSE faults < MaxFaults /\ faults' = faults + 1 /\ UNCHANGED losses
PublishFails(w, ev) ==
  /\ Fault(w)
  /\ IF closed[w] THEN UNCHANGED streamVars ELSE PublishError(ev)
Loss == losses < MaxLosses /\ losses' = losses + 1 /\ UNCHANGED faults

(* WorkflowService.ExecuteWorkflow: the record first, then the event; a    *)
(* failed publication is only logged.                                      *)
ExecuteWorkflow(e) ==
  /\ record[e] = "none"
  /\ record' = [record EXCEPT ![e] = "pending"]
  /\ LET ev == NewEvent("execution.started", "api", e, NoTask, TRUE)
     IN  \/ Publish(ev) /\ UNCHANGED budgets
         \/ Loss /\ PublishError(ev)
  /\ UNCHANGED <<groupVars, workerVars, answered>>

(* XREADGROUP ">" of process w and the subscription's filter.              *)
Deliver(w) ==
  /\ ~closed[w]
  /\ cursor < Len(log)
  /\ cursor' = cursor + 1
  /\ IF Subscribed(log[cursor + 1])
     THEN /\ Len(inbox[w]) < InboxSize
          /\ inbox' = [inbox EXCEPT ![w] = Append(@, cursor + 1)]
          /\ UNCHANGED acked
     ELSE /\ acked' = acked \cup {cursor + 1}
          /\ UNCHANGED inbox
  /\ UNCHANGED <<streamVars, record, workerVars, answered, budgets>>

-----------------------------------------------------------------------------
(* The goroutine of permit g of process w.                                 *)

SetJob(w, g, j) == job' = [job EXCEPT ![w][g] = j]

Unlock(w) == lock' = [lock EXCEPT ![w] = NoPermit]

(* The processing loop takes the next event once a permit is free.         *)
Spawn(w, g) ==
  /\ job[w][g].phase = "idle"
  /\ inbox[w] # <<>>
  /\ SetJob(w, g, [IdleJob EXCEPT !.phase = "locking", !.attempt = 1,
                                  !.entry = Head(inbox[w])])
  /\ inbox' = [inbox EXCEPT ![w] = Tail(@)]
  /\ UNCHANGED <<streamVars, record, cursor, acked, lock, dead, closed,
                 answered, budgets>>

(* Faulty variant: an event that cannot be handled is forgotten.           *)
AfterErrorForgets(w, g) == SetJob(w, g, IdleJob) /\ UNCHANGED dead

(* What follows an error of ProcessWorkflowEvent: the attempt's state is   *)
(* dropped, and the event is tried again from the start or given up.       *)
AfterError(w, g) ==
  LET j == job[w][g]
      again == [IdleJob EXCEPT !.entry = j.entry, !.attempt = j.attempt + 1]
  IN  IF j.attempt < MaxAttempts
      THEN SetJob(w, g, [again EXCEPT !.phase = "locking"]) /\ UNCHANGED dead
      ELSE /\ SetJob(w, g, [again EXCEPT !.phase = "dlq",
                                         !.attempt = j.attempt])
           /\ dead' = dead \cup {j.entry}

Skip(w, g) ==
  /\ job[w][g].phase = "locking"
  /\ lock[w] = NoPermit
  /\ Skipped(log[job[w][g].entry])
  /\ SetJob(w, g, [job[w][g] EXCEPT !.phase = "acking"])
  /\ UNCHANGED <<streamVars, record, groupVars, lock, dead, closed, answered,
                 budgets>>

(* Goroutine g takes the mutex for an event it does not skip.              *)
Handles(w, g) ==
  /\ job[w][g].phase = "locking"
  /\ lock[w] = NoPermit
  /\ ~Skipped(log[job[w][g].entry])

(* The step executeNextSDLStep takes in state st, which names no execution *)
(* if no execution.started was applied.  A step that cannot be dispatched  *)
(* is an error of the attempt.                                             *)
Decide(w, g, st) ==
  LET step == NextStep(st)
  IN  IF step.action = "error"
      THEN AfterError(w, g) /\ UNCHANGED lock
      ELSE /\ lock' = [lock EXCEPT ![w] = g]
           /\ SetJob(w, g, [job[w][g] EXCEPT
                !.phase = IF step.action = "nothing" THEN "recording"
                                                     ELSE "publishing",
                !.state = st, !.step = step])
           /\ UNCHANGED dead

(* Read history and definition, rebuild the state, apply the event once    *)
(* more (it is in the history already), choose the step.                   *)
Rebuild(w, g) ==
  LET ev == log[job[w][g].entry]
  IN  /\ Handles(w, g)
      /\ ev.execution # NoExecution
      /\ Succeed(w)
      /\ Decide(w, g, ProcessEvent(replay[ev.execution], ev))
      /\ UNCHANGED <<streamVars, record, groupVars, closed, answered>>

(* GetEventHistory only logs that a stream could not be read and returns   *)
(* no events and no error: the state is built from the event alone.        *)
RebuildBlind(w, g) ==
  LET ev == log[job[w][g].entry]
  IN  /\ SilentReads
      /\ Handles(w, g)
      /\ ev.execution # NoExecution
      /\ ~closed[w]
      /\ Fault(w)
      /\ Decide(w, g, ProcessEvent(EmptyState, ev))
      /\ UNCHANGED <<streamVars, record, groupVars, closed, answered>>

(* The streams cannot be listed or the definition not be read.  An event   *)
(* without an execution has no tenant either, and the definition is never  *)
(* found without one.                                                      *)
RebuildFails(w, g) ==
  /\ Handles(w, g)
  /\ \/ Fault(w)
     \/ log[job[w][g].entry].execution = NoExecution /\ UNCHANGED budgets
  /\ AfterError(w, g)
  /\ UNCHANGED <<streamVars, record, groupVars, lock, closed, answered>>

(* The event that carries out step for execution e.                        *)
StepEvent(step, e) ==
  CASE step.action = "run"      -> NewEvent("task.completed",
                                     "workflow-engine", e, step.task, TRUE)
    [] step.action = "schedule" -> NewEvent("timer.scheduled",
                                     "worker-service", e, step.task, TRUE)
    [] step.action = "request"  -> NewEvent("task.requested",
                                     "worker-service", e, step.task, TRUE)
    [] OTHER                    -> NewEvent("workflow.completed",
                                     "worker-service", e, NoTask, TRUE)

JobEvent(w, g) == StepEvent(job[w][g].step, job[w][g].state.context)

(* After workflow.completed the record is written twice, by two calls.     *)
AfterPublication(w, g) ==
  SetJob(w, g,
    IF job[w][g].step.action = "complete"
    THEN [job[w][g] EXCEPT !.phase = "completing",
                           !.state.status = "completed"]
    ELSE [job[w][g] EXCEPT !.phase = "recording"])

(* Faulty variant: the mutex is released after the publication.            *)
PublishStepUnlocks(w, g) ==
  /\ job[w][g].phase = "publishing"
  /\ Succeed(w)
  /\ Publish(JobEvent(w, g))
  /\ Unlock(w)
  /\ AfterPublication(w, g)
  /\ UNCHANGED <<record, groupVars, dead, closed, answered>>

(* The event that carries the step out is published under the mutex.       *)
PublishStep(w, g) ==
  /\ job[w][g].phase = "publishing"
  /\ Succeed(w)
  /\ Publish(JobEvent(w, g))
  /\ AfterPublication(w, g)
  /\ UNCHANGED <<record, groupVars, lock, dead, closed, answered>>

(* Faulty variant: a failed publication is only logged.                    *)
PublishStepIgnoresError(w, g) ==
  /\ job[w][g].phase = "publishing"
  /\ PublishFails(w, JobEvent(w, g))
  /\ AfterPublication(w, g)
  /\ UNCHANGED <<record, groupVars, lock, dead, closed, answered>>

(* The publication returns an error: ProcessWorkflowEvent gives the        *)
(* attempt up and the deferred Unlock runs.                                *)
PublishStepFails(w, g) ==
  /\ job[w][g].phase = "publishing"
  /\ PublishFails(w, JobEvent(w, g))
  /\ Unlock(w)
  /\ AfterError(w, g)
  /\ UNCHANGED <<record, groupVars, closed, answered>>

(* A status stored for execution e; without e the record of an invented    *)
(* execution is written.                                                   *)
StoreStatus(e, status) ==
  record' = IF e = NoExecution THEN record ELSE [record EXCEPT ![e] = status]

(* updateExecutionStatus after workflow.completed; its error is only       *)
(* logged.                                                                 *)
CompleteRecord(w, g) ==
  /\ job[w][g].phase = "completing"
  /\ \/ StoreStatus(job[w][g].state.context, "completed") /\ Succeed(w)
     \/ Fault(w) /\ UNCHANGED record
  /\ SetJob(w, g, [job[w][g] EXCEPT !.phase = "recording"])
  /\ UNCHANGED <<streamVars, groupVars, lock, dead, closed, answered>>

(* updateWorkflowRecord overwrites the stored status with the rebuilt one. *)
WriteRecord(w, g) ==
  StoreStatus(job[w][g].state.context, RecordStatus(job[w][g].state.status))

UpdateRecord(w, g) ==
  /\ job[w][g].phase = "recording"
  /\ Succeed(w)
  /\ WriteRecord(w, g)
  /\ Unlock(w)
  /\ SetJob(w, g, [IdleJob EXCEPT !.phase = "acking",
                     !.entry = job[w][g].entry, !.attempt = job[w][g].attempt])
  /\ UNCHANGED <<streamVars, groupVars, dead, closed, answered>>

(* Faulty variant: a failed update of the record is only logged.           *)
UpdateRecordIgnoresError(w, g) ==
  /\ job[w][g].phase = "recording"
  /\ Fault(w)
  /\ Unlock(w)
  /\ SetJob(w, g, [job[w][g] EXCEPT !.phase = "acking"])
  /\ UNCHANGED <<streamVars, record, groupVars, dead, closed, answered>>

(* An error of the last step repeats the attempt, publication included.    *)
UpdateRecordFails(w, g) ==
  /\ job[w][g].phase = "recording"
  /\ Fault(w)
  /\ (~closed[w] /\ WriteRecord(w, g)) \/ UNCHANGED record
  /\ Unlock(w)
  /\ AfterError(w, g)
  /\ UNCHANGED <<streamVars, groupVars, closed, answered>>

(* The copy of the event in the dead letter queue is an event of the same  *)
(* stream; an error of this publication is ignored.                        *)
DeadLetter(w, g) ==
  LET j  == job[w][g]
      ev == [log[j.entry] EXCEPT !.type = "event.dlq"]
  IN  /\ j.phase = "dlq"
      /\ \/ Publish(ev) /\ Succeed(w)
         \/ PublishFails(w, ev)
      /\ SetJob(w, g, [j EXCEPT !.phase = "acking"])
      /\ UNCHANGED <<record, groupVars, lock, dead, closed, answered>>

(* XACK; if it fails the entry stays pending, and nobody reads it again.   *)
Acknowledge(w, g) ==
  /\ job[w][g].phase = "acking"
  /\ \/ acked' = acked \cup {job[w][g].entry} /\ Succeed(w)
     \/ Fault(w) /\ UNCHANGED acked
  /\ SetJob(w, g, IdleJob)
  /\ UNCHANGED <<streamVars, record, cursor, inbox, lock, dead, closed, answered>>

(* A crash loses the process's goroutines and buffer.  The entries they    *)
(* held stay pending in the group: the restarted process reads only ">".   *)
Crash(w) ==
  /\ Loss
  /\ inbox' = [inbox EXCEPT ![w] = <<>>]
  /\ job' = [job EXCEPT ![w] = [g \in Permits |-> IdleJob]]
  /\ Unlock(w)
  /\ closed' = [closed EXCEPT ![w] = FALSE]
  /\ UNCHANGED <<streamVars, record, cursor, acked, dead, answered>>

(* Stop closes the connection first and then waits for the goroutines,     *)
(* which fail on it attempt after attempt; what the subscription had       *)
(* buffered is dropped when the next process takes over.                   *)
Stop(w) ==
  /\ ~closed[w]
  /\ Loss
  /\ closed' = [closed EXCEPT ![w] = TRUE]
  /\ UNCHANGED <<streamVars, record, groupVars, lock, job, dead, answered>>

Restart(w) ==
  /\ closed[w]
  /\ \A g \in Permits : job[w][g].phase = "idle"
  /\ closed' = [closed EXCEPT ![w] = FALSE]
  /\ inbox' = [inbox EXCEPT ![w] = <<>>]
  /\ UNCHANGED <<streamVars, record, cursor, acked, lock, job, dead, answered,
                 budgets>>

-----------------------------------------------------------------------------
(* The other services, as far as the stream shows them.                    *)

Unanswered(type) ==
  {i \in DOMAIN log : log[i].type = type} \ answered

(* The executor runs a requested task and reports success or failure.      *)
ExecutorAnswers(i, success) ==
  /\ i \in Unanswered("task.requested")
  /\ answered' = answered \cup {i}
  /\ Publish(NewEvent("task.completed", "executor-service",
                      log[i].execution, log[i].task, success))
  /\ UNCHANGED <<record, groupVars, workerVars, budgets>>

(* The request is consumed without an answer: the executor crashed, or     *)
(* returned an error and sent the request to its dead letter queue.        *)
ExecutorDrops(i) ==
  /\ i \in Unanswered("task.requested")
  /\ Loss
  /\ answered' = answered \cup {i}
  /\ PublishError([log[i] EXCEPT !.type = "task.dlq"])
  /\ UNCHANGED <<record, groupVars, workerVars>>

TimerFires(i) ==
  /\ i \in Unanswered("timer.scheduled")
  /\ answered' = answered \cup {i}
  /\ Publish(NewEvent("timer.fired", "timer-service",
                      log[i].execution, log[i].task, TRUE))
  /\ UNCHANGED <<record, groupVars, workerVars, budgets>>

(* A timer popped from the sorted set and never published.                 *)
TimerDrops(i) ==
  /\ i \in Unanswered("timer.scheduled")
  /\ Loss
  /\ answered' = answered \cup {i}
  /\ UNCHANGED <<streamVars, record, groupVars, workerVars>>

-----------------------------------------------------------------------------
Goroutine(w, g) ==
  \/ Spawn(w, g)            \/ Skip(w, g)
  \/ Rebuild(w, g)          \/ PublishStep(w, g)
  \/ CompleteRecord(w, g)   \/ UpdateRecord(w, g)
  \/ DeadLetter(w, g)       \/ Acknowledge(w, g)

GoroutineFails(w, g) ==
  \/ RebuildFails(w, g)     \/ RebuildBlind(w, g)
  \/ PublishStepFails(w, g) \/ UpdateRecordFails(w, g)

Answer(i) ==
  \/ \E success \in BOOLEAN : ExecutorAnswers(i, success)
  \/ TimerFires(i)

Drop(i) == ExecutorDrops(i) \/ TimerDrops(i)

Next ==
  \/ \E e \in Executions : ExecuteWorkflow(e)
  \/ \E w \in Workers : Deliver(w) \/ Crash(w) \/ Stop(w) \/ Restart(w)
  \/ \E w \in Workers, g \in Permits : Goroutine(w, g) \/ GoroutineFails(w, g)
  \/ \E i \in DOMAIN log : Answer(i) \/ Drop(i)

Spec == Init /\ [][Next]_vars

(* Goroutines, subscriptions and the two services keep running; nothing    *)
(* forces a client to start an execution, or a call to fail.               *)
Fairness ==
  /\ \A w \in Workers : WF_vars(Deliver(w)) /\ WF_vars(Restart(w))
  /\ \A w \in Workers, g \in Permits :
       WF_vars(Goroutine(w, g) \/ GoroutineFails(w, g))
  /\ WF_vars(\E i \in DOMAIN log : Answer(i))

FairSpec == Spec /\ Fairness

-----------------------------------------------------------------------------
(* Properties.                                                             *)

Positions == Nat \ {0}

(* The shape of the state: every goroutine of worker/internal/processor    *)
(* refers to an entry that was delivered, and the record of an execution   *)
(* has a status the store knows.                                           *)
TypeOK ==
  /\ log \in Seq(Event)
  /\ replay \in [Executions -> EngineState]
  /\ record \in [Executions -> RecordStatuses]
  /\ cursor \in Nat
  /\ acked \subseteq Positions
  /\ inbox \in [Workers -> Seq(Positions)]
  /\ lock \in [Workers -> Permits \cup {NoPermit}]
  /\ job \in [Workers -> [Permits -> Job]]
  /\ dead \subseteq Positions
  /\ closed \in [Workers -> BOOLEAN]
  /\ answered \subseteq Positions
  /\ faults \in 0 .. MaxFaults
  /\ losses \in 0 .. MaxLosses

Is(i, e, type) == log[i].execution = e /\ log[i].type = type

(* Entry i reports the success of task n of e; the failure of some task.   *)
Succeeds(i, e, n) ==
  /\ log[i].type \in {"task.completed", "timer.fired"}
  /\ log[i].execution = e
  /\ log[i].task = n
  /\ log[i].success

Fails(i, e) == Is(i, e, "task.completed") /\ ~log[i].success

(* Entry i hands a task out: to the executor, to the timer service, or (a  *)
(* set task) to the worker itself, whose answer it already is.             *)
HandsOut(i) ==
  \/ log[i].type \in {"task.requested", "timer.scheduled"}
  \/ log[i].type = "task.completed" /\ log[i].source = "workflow-engine"

(* "Simple sequential execution" (GetNextTask): a task is handed out only  *)
(* after every task before it in the "do" list has succeeded, whatever the *)
(* goroutines, processes, retries and crashes do in between.               *)
SequentialOrder ==
  \A i \in DOMAIN log, k \in DOMAIN TaskList :
    HandsOut(i) /\ log[i].task = TaskList[k] /\ log[i].execution # NoExecution =>
      \A m \in 1 .. k - 1 :
        \E h \in 1 .. i - 1 : Succeeds(h, log[i].execution, TaskList[m])

(* executeNextSDLStep's guard against premature completion: when           *)
(* workflow.completed is in the stream, every task succeeded before it.    *)
CompletionSound ==
  \A i \in DOMAIN log :
    log[i].type = "workflow.completed" /\ log[i].execution # NoExecution =>
      \A k \in DOMAIN TaskList :
        \E h \in 1 .. i - 1 : Succeeds(h, log[i].execution, TaskList[k])

(* The stored record never runs ahead of the stream: a completed record    *)
(* has its workflow.completed event, a failed one its failed task.         *)
RecordJustified ==
  \A e \in Executions :
    /\ record[e] = "completed" =>
         \E i \in DOMAIN log : Is(i, e, "workflow.completed")
    /\ record[e] = "failed" => \E i \in DOMAIN log : Fails(i, e)

(* The mutex of the workflow serialises read, decide and publish, so that  *)
(* one process never asks the executor twice for the same task, however    *)
(* often an attempt is repeated.                                           *)
SingleRequest ==
  \A i, h \in DOMAIN log :
    /\ log[i].type = "task.requested" /\ log[h].type = "task.requested"
    /\ log[i].execution = log[h].execution
    /\ log[i].task = log[h].task
    => i = h

(* processTaskCompletedEvent leaves a failed task on the pending list,     *)
(* which stops the execution: nothing is handed out and no completion is   *)
(* published after the failure.                                            *)
FailureStops ==
  \A i, h \in DOMAIN log :
    /\ i < h
    /\ Fails(i, log[i].execution)
    /\ log[h].execution = log[i].execution
    => ~HandsOut(h) /\ log[h].type # "workflow.completed"

(* fetchEventHistoryForExecution keeps the entries of a stream that belong *)
(* to execution e, in their order; one without an execution is in none.    *)
Collect(found, ev, e) ==
  IF ev.execution # NoExecution /\ ev.execution = e
  THEN Append(found, ev)
  ELSE found

EventsOf(stream, e) ==
  LET found[n \in 0 .. Len(stream)] ==
        IF n = 0 THEN <<>> ELSE Collect(found[n - 1], stream[n], e)
  IN  found[Len(stream)]

History(e) == EventsOf(log, e)

(* ProcessWorkflowEvent applies the triggering event a second time, on a   *)
(* history that contains it and perhaps later ones.  That does not change  *)
(* the step it chooses: any event of the execution leads to the same one.  *)
TriggerIrrelevant ==
  \A i \in DOMAIN log :
    LET st == RebuildState(History(log[i].execution))
    IN  Subscribed(log[i]) /\ ~Skipped(log[i]) =>
          NextStep(ProcessEvent(st, log[i])) = NextStep(st)

Quiet ==
  /\ cursor = Len(log)
  /\ \A w \in Workers :
       inbox[w] = <<>> /\ \A g \in Permits : job[w][g].phase = "idle"
  /\ Unanswered("task.requested") \cup Unanswered("timer.scheduled") = {}

Completed(e) == \E i \in DOMAIN log : Is(i, e, "workflow.completed")
Failed(e)    == \E i \in DOMAIN log : Fails(i, e)

(* No event is acknowledged before its consequence is published: if no     *)
(* event was given up and nothing was lost, a worker service at rest has   *)
(* brought every execution it was asked for to an end.                     *)
RestMeansDone ==
  Quiet /\ dead = {} /\ losses = 0 =>
    \A e \in Executions : record[e] # "none" => Completed(e) \/ Failed(e)

(* ... and then the stored status of a completed execution says so.        *)
RestMeansRecorded ==
  Quiet /\ dead = {} /\ losses = 0 =>
    \A e \in Executions : Completed(e) => record[e] = "completed"

(* A stored outcome is final: no later write of a worker changes it.       *)
OutcomeIsFinal ==
  [][\A e \in Executions :
       record[e] \in {"completed", "failed"} => record'[e] = record[e]]_vars

(* As long as nothing is lost and no event given up, every execution that  *)
(* was started ends, although calls to Redis report failures.  (One that   *)
(* is not reported, a history read as empty, may stop it: ~SilentReads.)   *)
EveryExecutionEnds ==
  \A e \in Executions :
    record[e] # "none" ~>
      Completed(e) \/ Failed(e) \/ dead # {} \/ losses > 0

=============================================================================

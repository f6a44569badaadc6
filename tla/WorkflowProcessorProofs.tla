----------------------- MODULE WorkflowProcessorProofs -----------------------
(***************************************************************************)
(* Proofs about WorkflowProcessor, for any number of executions, worker    *)
(* processes and permits, any task list and any bound on faults and losses:*)
(* type correctness, and that the variable replay is what a reader of the  *)
(* stream rebuilds from it.                                                *)
(***************************************************************************)
EXTENDS WorkflowProcessor, WellFoundedInduction, TLAPS

(* Events about a task name one of the definition's tasks.                 *)
WellFormed(ev) ==
  /\ ev \in Event
  /\ ev.type \in {"task.requested", "task.completed", "timer.scheduled",
                  "timer.fired"} => ev.task \in TaskNames

(* A goroutine refers to an entry of stream s; past the skip rules it is   *)
(* not workflow.created, and a step to publish is a real one.              *)
JobOK(j, s) ==
  /\ j.phase # "idle" => j.entry \in DOMAIN s
  /\ j.phase \in {"publishing", "completing", "recording", "dlq"} =>
       s[j.entry].type # "workflow.created"
  /\ j.phase = "publishing" =>
       \/ j.step.action = "complete"
       \/ /\ j.step.action \in {"run", "schedule", "request"}
          /\ j.step.task \in TaskNames

StreamOK == \A i \in DOMAIN log : WellFormed(log[i])

InboxesOK == \A w \in Workers : \A k \in DOMAIN inbox[w] :
               inbox[w][k] \in DOMAIN log

JobsOK == \A w \in Workers, g \in Permits : JobOK(job[w][g], log)

TypeInv == TypeOK /\ StreamOK /\ InboxesOK /\ JobsOK

(* Stream t continues stream s.                                            *)
Continues(s, t) == \A i \in DOMAIN s : i \in DOMAIN t /\ t[i] = s[i]

-----------------------------------------------------------------------------
(* The engine: replaying a well formed event yields an engine state.       *)
LEMMA ProcessEventTyped ==
  ASSUME NEW st \in EngineState, NEW ev, WellFormed(ev)
  PROVE  ProcessEvent(st, ev) \in EngineState
<1>1. CASE ev.type \in {"task.completed", "timer.fired"}
  <2>1. ev.task \in TaskNames
    BY <1>1 DEF WellFormed
  <2>2. /\ st.status \in Statuses
        /\ st.context \in Executions \cup {NoExecution}
        /\ st.pending \in [TaskNames -> Nat]
        /\ st.completed \in Seq(TaskNames)
    BY DEF EngineState
  <2>3. Append(st.completed, ev.task) \in Seq(TaskNames)
    BY <2>1, <2>2
  <2>4. [st.pending EXCEPT ![ev.task] = IF @ > 0 THEN @ - 1 ELSE 0]
          \in [TaskNames -> Nat]
    BY <2>1, <2>2
  <2>5. TaskCompleted(st, ev) \in EngineState
    BY <2>2, <2>3, <2>4 DEF TaskCompleted, EngineState, Statuses
  <2> QED
    BY <1>1, <2>5 DEF ProcessEvent
<1>2. CASE ev.type = "task.requested"
  <2>1. ev.task \in TaskNames
    BY <1>2 DEF WellFormed
  <2>2. /\ ProcessEvent(st, ev) = [st EXCEPT !.pending[ev.task] = @ + 1]
    BY <1>2 DEF ProcessEvent
  <2>3. /\ st.pending \in [TaskNames -> Nat]
        /\ [st.pending EXCEPT ![ev.task] = @ + 1] \in [TaskNames -> Nat]
    BY <2>1 DEF EngineState
  <2> QED
    BY <2>2, <2>3 DEF EngineState
<1>3. CASE ev.type \notin {"task.completed", "timer.fired", "task.requested"}
  <2>1. ev.execution \in Executions \cup {NoExecution}
    BY DEF WellFormed, Event
  <2> QED
    BY <1>3, <2>1 DEF ProcessEvent, EngineState, Statuses
<1> QED
  BY <1>1, <1>2, <1>3

LEMMA EmptyStateTyped == EmptyState \in EngineState
  BY DEF EmptyState, EngineState, Statuses

(* What executeNextSDLStep decides is a step, and one with a task unless   *)
(* it completes the workflow or does nothing.                              *)
LEMMA NextStepTyped ==
  ASSUME NEW st \in EngineState
  PROVE  /\ NextStep(st) \in Step
         /\ NextStep(st).action \notin {"complete", "nothing"} =>
              NextStep(st).task \in TaskNames
<1>1. GetNextTask(st) # NoTask => GetNextTask(st) \in TaskNames
  BY TaskListAssumption DEF GetNextTask, EngineState
<1>2. \A n \in TaskNames : DispatchAction(n) \in Actions
  BY DEF DispatchAction, Actions
<1>3. CASE GetNextTask(st) # NoTask
  BY <1>1, <1>2, <1>3 DEF NextStep, Step
<1>4. CASE GetNextTask(st) = NoTask
  BY <1>4 DEF NextStep, Step, Actions
<1> QED
  BY <1>3, <1>4

-----------------------------------------------------------------------------
(* The stream: what a publication leaves behind.                           *)

LEMMA PublishTyped ==
  ASSUME TypeInv, NEW ev, WellFormed(ev), ev.type # "workflow.created",
         Publish(ev)
  PROVE  /\ log' \in Seq(Event)
         /\ replay' \in [Executions -> EngineState]
         /\ StreamOK'
         /\ Continues(log, log')
<1>1. /\ log \in Seq(Event) /\ ev \in Event /\ log' = Append(log, ev)
      /\ replay \in [Executions -> EngineState]
  BY DEF TypeInv, TypeOK, WellFormed, Publish
<1>2. log' \in Seq(Event) /\ Continues(log, log')
  BY <1>1 DEF Continues
<1>3. /\ DOMAIN log = 1 .. Len(log)
      /\ DOMAIN log' = 1 .. Len(log) + 1
      /\ log'[Len(log) + 1] = ev
      /\ \A i \in 1 .. Len(log) : log'[i] = log[i]
  BY <1>1
<1>4. StreamOK'
  BY <1>3 DEF TypeInv, StreamOK
<1>5. \A e \in Executions : ProcessEvent(replay[e], ev) \in EngineState
  BY <1>1, ProcessEventTyped
<1>6. replay' \in [Executions -> EngineState]
  BY <1>1, <1>5 DEF Publish
<1> QED
  BY <1>2, <1>4, <1>6

LEMMA PublishErrorTyped ==
  ASSUME TypeInv, NEW ev, WellFormed(ev), ev.type # "workflow.created",
         PublishError(ev)
  PROVE  /\ log' \in Seq(Event)
         /\ replay' \in [Executions -> EngineState]
         /\ StreamOK'
         /\ Continues(log, log')
<1>1. CASE Publish(ev)
  BY <1>1, PublishTyped
<1>2. CASE UNCHANGED streamVars
  BY <1>2 DEF TypeInv, TypeOK, StreamOK, Continues, streamVars
<1> QED
  BY <1>1, <1>2 DEF PublishError

LEMMA BudgetsTyped ==
  ASSUME TypeInv, NEW w,
         Succeed(w) \/ Fault(w) \/ Loss \/ UNCHANGED budgets
  PROVE  faults' \in 0 .. MaxFaults /\ losses' \in 0 .. MaxLosses
BY ProcessorAssumption DEF TypeInv, TypeOK, Succeed, Fault, Loss, budgets

-----------------------------------------------------------------------------
(* The goroutines: a step of one leaves the others alone.                  *)

LEMMA SetJobTyped ==
  ASSUME TypeInv, NEW w \in Workers, NEW g \in Permits, NEW j \in Job,
         SetJob(w, g, j)
  PROVE  /\ job' \in [Workers -> [Permits -> Job]]
         /\ job'[w][g] = j
         /\ \A v \in Workers, h \in Permits :
              v # w \/ h # g => job'[v][h] = job[v][h]
<1>1. job \in [Workers -> [Permits -> Job]]
  BY DEF TypeInv, TypeOK
<1>2. job' = [job EXCEPT ![w] = [job[w] EXCEPT ![g] = j]]
  BY <1>1 DEF SetJob
<1>3. [job[w] EXCEPT ![g] = j] \in [Permits -> Job]
  BY <1>1
<1> QED
  BY <1>1, <1>2, <1>3

LEMMA JobsKept ==
  ASSUME TypeInv, NEW w \in Workers, NEW g \in Permits, NEW j \in Job,
         SetJob(w, g, j), JobOK(j, log), Continues(log, log'), log' \in Seq(Event)
  PROVE  job' \in [Workers -> [Permits -> Job]] /\ JobsOK'
<1>1. \A k \in Job : JobOK(k, log) => JobOK(k, log')
  BY DEF JobOK, Continues, Job
<1>2. job \in [Workers -> [Permits -> Job]]
  BY DEF TypeInv, TypeOK
<1> QED
  BY <1>1, <1>2, SetJobTyped DEF TypeInv, JobsOK

(* A step of the goroutine that takes nothing from the inbox.              *)
LEMMA GoroutineTyped ==
  ASSUME TypeInv, NEW w \in Workers, NEW g \in Permits, NEW j \in Job,
         SetJob(w, g, j), JobOK(j, log),
         log' \in Seq(Event), replay' \in [Executions -> EngineState],
         StreamOK', Continues(log, log'),
         record' \in [Executions -> RecordStatuses],
         acked' \subseteq Positions, dead' \subseteq Positions,
         lock' \in [Workers -> Permits \cup {NoPermit}],
         faults' \in 0 .. MaxFaults, losses' \in 0 .. MaxLosses,
         UNCHANGED <<cursor, inbox, closed, answered>>
  PROVE  TypeInv'
<1>1. job' \in [Workers -> [Permits -> Job]] /\ JobsOK'
  BY JobsKept
<1>2. InboxesOK'
  BY DEF TypeInv, InboxesOK, Continues
<1>3. TypeOK'
  BY <1>1 DEF TypeInv, TypeOK
<1> QED
  BY <1>1, <1>2, <1>3 DEF TypeInv

(* A step of the API, the executor or the timer service.                   *)
LEMMA ServiceTyped ==
  ASSUME TypeInv,
         log' \in Seq(Event), replay' \in [Executions -> EngineState],
         StreamOK', Continues(log, log'),
         record' \in [Executions -> RecordStatuses],
         answered' \subseteq Positions,
         faults' \in 0 .. MaxFaults, losses' \in 0 .. MaxLosses,
         UNCHANGED <<groupVars, workerVars>>
  PROVE  TypeInv'
<1>1. UNCHANGED <<cursor, acked, inbox, lock, job, dead, closed>>
  BY DEF groupVars, workerVars
<1>2. \A k \in Job : JobOK(k, log) => JobOK(k, log')
  BY DEF JobOK, Continues, Job
<1>3. JobsOK' /\ InboxesOK'
  BY <1>1, <1>2 DEF TypeInv, TypeOK, JobsOK, InboxesOK, Continues
<1>4. TypeOK'
  BY <1>1 DEF TypeInv, TypeOK
<1> QED
  BY <1>3, <1>4 DEF TypeInv

LEMMA StreamKept ==
  ASSUME TypeInv, UNCHANGED streamVars
  PROVE  /\ log' \in Seq(Event) /\ replay' \in [Executions -> EngineState]
         /\ StreamOK' /\ Continues(log, log')
BY DEF TypeInv, TypeOK, StreamOK, Continues, streamVars

LEMMA JobFacts ==
  ASSUME TypeInv, NEW w \in Workers, NEW g \in Permits,
         job[w][g].phase # "idle"
  PROVE  /\ job[w][g] \in Job
         /\ job[w][g].entry \in DOMAIN log
         /\ job[w][g].entry \in Positions
         /\ WellFormed(log[job[w][g].entry])
         /\ JobOK(job[w][g], log)
         /\ job[w][g].phase \in {"publishing", "completing", "recording",
                                 "dlq"} =>
              log[job[w][g].entry].type # "workflow.created"
<1>1. job[w][g] \in Job /\ JobOK(job[w][g], log) /\ log \in Seq(Event)
  BY DEF TypeInv, TypeOK, JobsOK
<1>2. job[w][g].entry \in DOMAIN log /\ job[w][g].entry \in Positions
  BY <1>1 DEF JobOK, Positions
<1>3. WellFormed(log[job[w][g].entry])
  BY <1>2 DEF TypeInv, StreamOK
<1> QED
  BY <1>1, <1>2, <1>3 DEF JobOK, WellFormed

LEMMA IdleJobTyped == IdleJob \in Job /\ \A s : JobOK(IdleJob, s)
BY EmptyStateTyped DEF IdleJob, Job, Phases, Nothing, Step, Actions, JobOK

(* An error leaves a goroutine that will try again or give up.             *)
LEMMA AfterErrorTyped ==
  ASSUME TypeInv, NEW w \in Workers, NEW g \in Permits,
         job[w][g].phase # "idle",
         log[job[w][g].entry].type # "workflow.created",
         AfterError(w, g)
  PROVE  /\ dead' \subseteq Positions
         /\ \E j \in Job : SetJob(w, g, j) /\ JobOK(j, log)
<1> DEFINE j == job[w][g]
           again == [IdleJob EXCEPT !.entry = j.entry, !.attempt = j.attempt + 1]
           retry == [again EXCEPT !.phase = "locking"]
           quit  == [again EXCEPT !.phase = "dlq", !.attempt = j.attempt]
<1>1. j \in Job /\ j.entry \in DOMAIN log /\ j.entry \in Positions
  BY JobFacts
<1>2. retry \in Job /\ quit \in Job
  <2>1. IdleJob \in Job
    BY IdleJobTyped
  <2>2. /\ j.entry \in Nat /\ j.attempt \in Nat
        /\ j.attempt + 1 \in Nat
    BY <1>1 DEF Job
  <2>3. again \in Job
    <3> HIDE DEF j
    <3> QED
      BY <2>1, <2>2 DEF Job
  <2> HIDE DEF again
  <2> QED
    BY <2>2, <2>3 DEF Job, Phases
<1>3. retry.phase = "locking" /\ retry.entry = j.entry
  BY IdleJobTyped DEF Job
<1>4. quit.phase = "dlq" /\ quit.entry = j.entry
  BY IdleJobTyped DEF Job
<1>5. JobOK(retry, log) /\ JobOK(quit, log)
  BY <1>1, <1>3, <1>4 DEF JobOK
<1>6. dead \subseteq Positions
  BY DEF TypeInv, TypeOK
<1>7. CASE j.attempt < MaxAttempts
  BY <1>2, <1>5, <1>6, <1>7 DEF AfterError
<1>8. CASE ~(j.attempt < MaxAttempts)
  BY <1>1, <1>2, <1>5, <1>6, <1>8 DEF AfterError
<1> QED
  BY <1>7, <1>8

LEMMA JobEventTyped ==
  ASSUME TypeInv, NEW w \in Workers, NEW g \in Permits,
         job[w][g].phase = "publishing"
  PROVE  /\ WellFormed(JobEvent(w, g))
         /\ JobEvent(w, g).type # "workflow.created"
<1> DEFINE j == job[w][g]
           e == j.state.context
<1>1. e \in Executions \cup {NoExecution} /\ JobOK(j, log)
  BY JobFacts DEF Job, EngineState
<1>2. CASE j.step.action = "complete"
  BY <1>1, <1>2 DEF JobEvent, StepEvent, NewEvent, WellFormed, Event,
                    EventTypes, Sources
<1>3. CASE j.step.action = "run" /\ j.step.task \in TaskNames
  BY <1>1, <1>3 DEF JobEvent, StepEvent, NewEvent, WellFormed, Event,
                    EventTypes, Sources
<1>4. CASE j.step.action = "schedule" /\ j.step.task \in TaskNames
  BY <1>1, <1>4 DEF JobEvent, StepEvent, NewEvent, WellFormed, Event,
                    EventTypes, Sources
<1>5. CASE j.step.action = "request" /\ j.step.task \in TaskNames
  BY <1>1, <1>5 DEF JobEvent, StepEvent, NewEvent, WellFormed, Event,
                    EventTypes, Sources
<1> QED
  BY <1>1, <1>2, <1>3, <1>4, <1>5 DEF JobOK

LEMMA UnlockTyped ==
  ASSUME TypeInv, NEW w \in Workers, Unlock(w)
  PROVE  lock' \in [Workers -> Permits \cup {NoPermit}]
BY DEF TypeInv, TypeOK, Unlock

LEMMA StoreStatusTyped ==
  ASSUME TypeInv, NEW e, NEW status \in RecordStatuses, StoreStatus(e, status)
  PROVE  record' \in [Executions -> RecordStatuses]
BY DEF TypeInv, TypeOK, StoreStatus

LEMMA WriteRecordTyped ==
  ASSUME TypeInv, NEW w \in Workers, NEW g \in Permits,
         WriteRecord(w, g) \/ UNCHANGED record
  PROVE  record' \in [Executions -> RecordStatuses]
<1>1. job[w][g].state.status \in Statuses
  BY DEF TypeInv, TypeOK, Job, EngineState
<1>2. RecordStatus(job[w][g].state.status) \in RecordStatuses
  BY <1>1 DEF RecordStatus, RecordStatuses, Statuses
<1>3. CASE WriteRecord(w, g)
  BY <1>2, <1>3, StoreStatusTyped DEF WriteRecord
<1>4. CASE UNCHANGED record
  BY <1>4 DEF TypeInv, TypeOK
<1> QED
  BY <1>3, <1>4

-----------------------------------------------------------------------------
(* One lemma per action.                                                   *)

LEMMA ExecuteWorkflowTyped ==
  ASSUME TypeInv, NEW e \in Executions, ExecuteWorkflow(e)
  PROVE  TypeInv'
<1> DEFINE ev == NewEvent("execution.started", "api", e, NoTask, TRUE)
<1>1. WellFormed(ev) /\ ev.type # "workflow.created"
  BY DEF NewEvent, WellFormed, Event, EventTypes, Sources
<1>2. PublishError(ev)
  BY DEF ExecuteWorkflow, PublishError
<1>3. Loss \/ UNCHANGED budgets
  BY DEF ExecuteWorkflow
<1>4. record' \in [Executions -> RecordStatuses]
  BY DEF ExecuteWorkflow, TypeInv, TypeOK, RecordStatuses
<1>5. answered' \subseteq Positions /\ UNCHANGED <<groupVars, workerVars>>
  BY DEF ExecuteWorkflow, TypeInv, TypeOK
<1> HIDE DEF ev
<1>6. faults' \in 0 .. MaxFaults /\ losses' \in 0 .. MaxLosses
  BY <1>3, BudgetsTyped
<1> QED
  BY <1>1, <1>2, <1>4, <1>5, <1>6, PublishErrorTyped, ServiceTyped

LEMMA AnswerTyped ==
  ASSUME TypeInv, NEW i \in DOMAIN log, Answer(i) \/ Drop(i)
  PROVE  TypeInv'
<1>1. WellFormed(log[i])
  BY DEF TypeInv, StreamOK
<1>2. i \in Positions
  BY DEF TypeInv, TypeOK, Positions
<1>3. ASSUME i \in Unanswered("task.requested") \cup Unanswered("timer.scheduled")
      PROVE  /\ log[i].task \in TaskNames
             /\ log[i].execution \in Executions \cup {NoExecution}
  BY <1>1, <1>3 DEF Unanswered, WellFormed, Event
<1>4. ASSUME NEW success \in BOOLEAN, ExecutorAnswers(i, success)
      PROVE  TypeInv'
  <2> DEFINE ev == NewEvent("task.completed", "executor-service",
                            log[i].execution, log[i].task, success)
  <2>1. WellFormed(ev) /\ ev.type # "workflow.created"
    BY <1>3, <1>4 DEF ExecutorAnswers, NewEvent, WellFormed, Event, EventTypes,
                      Sources
  <2>2. Publish(ev) /\ record' \in [Executions -> RecordStatuses]
    BY <1>4 DEF ExecutorAnswers, TypeInv, TypeOK
  <2>3. answered' \subseteq Positions /\ UNCHANGED <<groupVars, workerVars>>
    BY <1>2, <1>4 DEF ExecutorAnswers, TypeInv, TypeOK
  <2>4. UNCHANGED budgets
    BY <1>4 DEF ExecutorAnswers
  <2> HIDE DEF ev
  <2>5. faults' \in 0 .. MaxFaults /\ losses' \in 0 .. MaxLosses
    BY <2>4, BudgetsTyped
  <2> QED
    BY <2>1, <2>2, <2>3, <2>5, PublishTyped, ServiceTyped
<1>5. ASSUME TimerFires(i) PROVE TypeInv'
  <2> DEFINE ev == NewEvent("timer.fired", "timer-service",
                            log[i].execution, log[i].task, TRUE)
  <2>1. WellFormed(ev) /\ ev.type # "workflow.created"
    BY <1>3, <1>5 DEF TimerFires, NewEvent, WellFormed, Event, EventTypes,
                      Sources
  <2>2. Publish(ev) /\ record' \in [Executions -> RecordStatuses]
    BY <1>5 DEF TimerFires, TypeInv, TypeOK
  <2>3. answered' \subseteq Positions /\ UNCHANGED <<groupVars, workerVars>>
    BY <1>2, <1>5 DEF TimerFires, TypeInv, TypeOK
  <2>4. UNCHANGED budgets
    BY <1>5 DEF TimerFires
  <2> HIDE DEF ev
  <2>5. faults' \in 0 .. MaxFaults /\ losses' \in 0 .. MaxLosses
    BY <2>4, BudgetsTyped
  <2> QED
    BY <2>1, <2>2, <2>3, <2>5, PublishTyped, ServiceTyped
<1>6. ASSUME ExecutorDrops(i) PROVE TypeInv'
  <2> DEFINE ev == [log[i] EXCEPT !.type = "task.dlq"]
  <2>1. WellFormed(ev) /\ ev.type # "workflow.created"
    BY <1>1, <1>3, <1>6 DEF ExecutorDrops, WellFormed, Event, EventTypes
  <2>2. PublishError(ev) /\ record' \in [Executions -> RecordStatuses]
    BY <1>6 DEF ExecutorDrops, TypeInv, TypeOK
  <2>3. answered' \subseteq Positions /\ UNCHANGED <<groupVars, workerVars>>
    BY <1>2, <1>6 DEF ExecutorDrops, TypeInv, TypeOK
  <2>4. Loss
    BY <1>6 DEF ExecutorDrops
  <2> HIDE DEF ev
  <2>5. faults' \in 0 .. MaxFaults /\ losses' \in 0 .. MaxLosses
    BY <2>4, BudgetsTyped
  <2> QED
    BY <2>1, <2>2, <2>3, <2>5, PublishErrorTyped, ServiceTyped
<1>7. ASSUME TimerDrops(i) PROVE TypeInv'
  <2>1. record' \in [Executions -> RecordStatuses] /\ UNCHANGED streamVars
    BY <1>7 DEF TimerDrops, TypeInv, TypeOK
  <2>2. answered' \subseteq Positions /\ UNCHANGED <<groupVars, workerVars>>
    BY <1>2, <1>7 DEF TimerDrops, TypeInv, TypeOK
  <2>3. Loss
    BY <1>7 DEF TimerDrops
  <2>4. faults' \in 0 .. MaxFaults /\ losses' \in 0 .. MaxLosses
    BY <2>3, BudgetsTyped
  <2> QED
    BY <2>1, <2>2, <2>4, StreamKept, ServiceTyped
<1> QED
  BY <1>4, <1>5, <1>6, <1>7 DEF Answer, Drop

(* The subscription, and what happens to a process as a whole.             *)
LEMMA ProcessTyped ==
  ASSUME TypeInv, NEW w \in Workers,
         Deliver(w) \/ Crash(w) \/ Stop(w) \/ Restart(w)
  PROVE  TypeInv'
<1>1. UNCHANGED streamVars /\ UNCHANGED <<record, answered, dead>>
  BY DEF Deliver, Crash, Stop, Restart, workerVars, groupVars
<1>2. /\ log' \in Seq(Event) /\ replay' \in [Executions -> EngineState]
      /\ StreamOK' /\ log' = log
  BY <1>1, StreamKept DEF streamVars
<1>3. /\ inbox \in [Workers -> Seq(Positions)] /\ log \in Seq(Event)
      /\ cursor \in Nat /\ acked \subseteq Positions
      /\ job \in [Workers -> [Permits -> Job]]
      /\ lock \in [Workers -> Permits \cup {NoPermit}]
      /\ closed \in [Workers -> BOOLEAN]
  BY DEF TypeInv, TypeOK
<1>4. faults' \in 0 .. MaxFaults /\ losses' \in 0 .. MaxLosses
  <2>1. Loss \/ UNCHANGED budgets
    BY DEF Deliver, Crash, Stop, Restart
  <2> QED
    BY <2>1, BudgetsTyped
<1>5. inbox' \in [Workers -> Seq(Positions)] /\ InboxesOK'
  <2>1. CASE inbox' = inbox
    BY <1>2, <1>3, <2>1 DEF TypeInv, InboxesOK
  <2>2. CASE inbox' = [inbox EXCEPT ![w] = <<>>]
    BY <1>2, <1>3, <2>2 DEF TypeInv, InboxesOK
  <2>3. CASE Deliver(w) /\ inbox' = [inbox EXCEPT ![w] = Append(@, cursor + 1)]
    <3>1. cursor + 1 \in DOMAIN log /\ cursor + 1 \in Positions
      BY <1>3, <2>3 DEF Deliver, Positions
    <3>2. inbox[w] \in Seq(Positions)
      BY <1>3
    <3> DEFINE longer == Append(inbox[w], cursor + 1)
    <3>3. /\ longer \in Seq(Positions)
          /\ DOMAIN longer = 1 .. Len(inbox[w]) + 1
          /\ \A k \in 1 .. Len(inbox[w]) : longer[k] = inbox[w][k]
          /\ longer[Len(inbox[w]) + 1] = cursor + 1
      BY <3>1, <3>2
    <3>4. \A k \in DOMAIN longer : longer[k] \in DOMAIN log
      BY <3>1, <3>2, <3>3 DEF TypeInv, InboxesOK
    <3> HIDE DEF longer
    <3>5. inbox' = [inbox EXCEPT ![w] = longer]
      BY <2>3 DEF longer
    <3> QED
      BY <1>2, <1>3, <3>3, <3>4, <3>5 DEF TypeInv, InboxesOK
  <2> QED
    BY <2>1, <2>2, <2>3 DEF Deliver, Crash, Stop, Restart, groupVars
<1>6. job' \in [Workers -> [Permits -> Job]] /\ JobsOK'
  <2>1. CASE job' = job
    BY <1>2, <1>3, <2>1 DEF TypeInv, JobsOK
  <2>2. CASE job' = [job EXCEPT ![w] = [g \in Permits |-> IdleJob]]
    BY <1>2, <1>3, <2>2, IdleJobTyped DEF TypeInv, JobsOK
  <2> QED
    BY <2>1, <2>2 DEF Deliver, Crash, Stop, Restart, workerVars
<1>7. cursor' \in Nat /\ acked' \subseteq Positions
  <2>1. cursor + 1 \in Positions /\ cursor + 1 \in Nat
    BY <1>3 DEF Positions
  <2>2. CASE Deliver(w)
    <3>1. cursor' = cursor + 1
      BY <2>2 DEF Deliver
    <3>2. acked' = acked \/ acked' = acked \cup {cursor + 1}
      BY <2>2 DEF Deliver
    <3> QED
      BY <1>3, <2>1, <3>1, <3>2
  <2>3. CASE Crash(w) \/ Stop(w) \/ Restart(w)
    BY <1>3, <2>3 DEF Crash, Stop, Restart, groupVars
  <2> QED
    BY <2>2, <2>3
<1>8. /\ lock' \in [Workers -> Permits \cup {NoPermit}]
      /\ closed' \in [Workers -> BOOLEAN]
  BY <1>3 DEF Deliver, Crash, Stop, Restart, workerVars, Unlock
<1>9. TypeOK'
  BY <1>1, <1>2, <1>4, <1>5, <1>6, <1>7, <1>8 DEF TypeInv, TypeOK
<1> QED
  BY <1>2, <1>5, <1>6, <1>9 DEF TypeInv

LEMMA SpawnTyped ==
  ASSUME TypeInv, NEW w \in Workers, NEW g \in Permits, Spawn(w, g)
  PROVE  TypeInv'
<1> DEFINE first == Head(inbox[w])
           j == [IdleJob EXCEPT !.phase = "locking", !.attempt = 1,
                                !.entry = first]
<1>1. /\ inbox \in [Workers -> Seq(Positions)] /\ inbox[w] # <<>>
      /\ SetJob(w, g, j) /\ inbox' = [inbox EXCEPT ![w] = Tail(@)]
  BY DEF Spawn, TypeInv, TypeOK
<1>2. inbox[w] \in Seq(Positions)
  BY <1>1
<1>3. first \in Positions /\ first = inbox[w][1] /\ 1 \in DOMAIN inbox[w]
  BY <1>1, <1>2
<1>4. first \in DOMAIN log
  BY <1>3 DEF TypeInv, InboxesOK
<1>5. j \in Job /\ JobOK(j, log)
  <2>1. IdleJob \in Job /\ first \in Nat
    BY <1>3, IdleJobTyped DEF Positions
  <2>2. j \in Job /\ j.phase = "locking" /\ j.entry = first
    <3> HIDE DEF first
    <3> QED
      BY <2>1 DEF Job, Phases
  <2> QED
    BY <1>4, <2>2 DEF JobOK
<1>6. Tail(inbox[w]) \in Seq(Positions)
  BY <1>1, <1>2
<1>7. \A k \in DOMAIN Tail(inbox[w]) :
        k + 1 \in DOMAIN inbox[w] /\ Tail(inbox[w])[k] = inbox[w][k + 1]
  BY <1>1, <1>2
<1>8. InboxesOK' /\ inbox' \in [Workers -> Seq(Positions)]
  <2>1. log' = log
    BY DEF Spawn, streamVars
  <2>2. \A k \in DOMAIN Tail(inbox[w]) : Tail(inbox[w])[k] \in DOMAIN log
    BY <1>7 DEF TypeInv, InboxesOK
  <2> QED
    BY <1>1, <1>6, <2>1, <2>2 DEF TypeInv, InboxesOK
<1>9. /\ log' \in Seq(Event) /\ replay' \in [Executions -> EngineState]
      /\ StreamOK' /\ Continues(log, log')
  BY StreamKept DEF Spawn
<1>10. job' \in [Workers -> [Permits -> Job]] /\ JobsOK'
  BY <1>1, <1>5, <1>9, JobsKept
<1>11. TypeOK'
  BY <1>8, <1>9, <1>10 DEF Spawn, budgets, TypeInv, TypeOK
<1> QED
  BY <1>8, <1>9, <1>10, <1>11 DEF TypeInv

LEMMA SkipTyped ==
  ASSUME TypeInv, NEW w \in Workers, NEW g \in Permits, Skip(w, g)
  PROVE  TypeInv'
<1> DEFINE j == [job[w][g] EXCEPT !.phase = "acking"]
<1>1. job[w][g] \in Job /\ job[w][g].entry \in DOMAIN log
  BY JobFacts DEF Skip
<1>2. j \in Job /\ JobOK(j, log)
  BY <1>1 DEF Job, Phases, JobOK
<1>3. /\ SetJob(w, g, j) /\ UNCHANGED streamVars /\ UNCHANGED budgets
      /\ UNCHANGED <<record, acked, dead, lock, cursor, inbox, closed, answered>>
  BY DEF Skip, groupVars
<1>4. faults' \in 0 .. MaxFaults /\ losses' \in 0 .. MaxLosses
  BY <1>3, BudgetsTyped
<1> HIDE DEF j
<1> QED
  BY <1>2, <1>3, <1>4, StreamKept, GoroutineTyped DEF TypeInv, TypeOK

(* The attempt that has decided, or the error of one that could not.       *)
LEMMA DecideTyped ==
  ASSUME TypeInv, NEW w \in Workers, NEW g \in Permits, Handles(w, g),
         NEW st \in EngineState, Decide(w, g, st)
  PROVE  /\ dead' \subseteq Positions
         /\ lock' \in [Workers -> Permits \cup {NoPermit}]
         /\ \E j \in Job : SetJob(w, g, j) /\ JobOK(j, log)
<1> DEFINE ev   == log[job[w][g].entry]
           step == NextStep(st)
           j    == [job[w][g] EXCEPT
                      !.phase = IF step.action = "nothing" THEN "recording"
                                                           ELSE "publishing",
                      !.state = st, !.step = step]
<1>1. /\ job[w][g].phase = "locking" /\ ev.type # "workflow.created"
      /\ job[w][g] \in Job /\ job[w][g].entry \in DOMAIN log
  BY JobFacts DEF Handles, Skipped
<1>2. CASE UNCHANGED lock /\ AfterError(w, g)
  BY <1>1, <1>2, AfterErrorTyped DEF TypeInv, TypeOK
<1>3. CASE /\ lock' = [lock EXCEPT ![w] = g] /\ UNCHANGED dead
           /\ step.action # "error" /\ SetJob(w, g, j)
  <2>1. /\ step \in Step /\ step.action \in Actions
        /\ step.action \notin {"complete", "nothing"} => step.task \in TaskNames
    BY NextStepTyped DEF Step
  <2>2. j \in Job /\ JobOK(j, log)
    <3> HIDE DEF step
    <3>1. j \in Job
      BY <1>1, <2>1 DEF Job, Phases
    <3>2. /\ j.entry = job[w][g].entry /\ j.step = step
          /\ j.phase = "publishing" => step.action # "nothing"
      BY <1>1 DEF Job
    <3> HIDE DEF j
    <3> QED
      BY <1>1, <1>3, <2>1, <3>1, <3>2 DEF JobOK, Actions
  <2> HIDE DEF j
  <2> QED
    BY <1>3, <2>2 DEF TypeInv, TypeOK
<1> QED
  BY <1>2, <1>3 DEF Decide

LEMMA RebuildTyped ==
  ASSUME TypeInv, NEW w \in Workers, NEW g \in Permits,
         Rebuild(w, g) \/ RebuildBlind(w, g) \/ RebuildFails(w, g)
  PROVE  TypeInv'
<1> DEFINE ev == log[job[w][g].entry]
<1>1. /\ Handles(w, g)
      /\ Succeed(w) \/ Fault(w) \/ UNCHANGED budgets
      /\ UNCHANGED streamVars
      /\ UNCHANGED <<record, acked, cursor, inbox, closed, answered>>
  BY DEF Rebuild, RebuildBlind, RebuildFails, groupVars
<1>2. /\ job[w][g].phase # "idle" /\ WellFormed(ev)
      /\ ev.type # "workflow.created"
      /\ ev.execution \in Executions \cup {NoExecution}
  BY <1>1, JobFacts DEF Handles, Skipped, WellFormed, Event
<1>3. faults' \in 0 .. MaxFaults /\ losses' \in 0 .. MaxLosses
  BY <1>1, BudgetsTyped
<1>4. /\ dead' \subseteq Positions
      /\ lock' \in [Workers -> Permits \cup {NoPermit}]
      /\ \E j \in Job : SetJob(w, g, j) /\ JobOK(j, log)
  <2>1. CASE RebuildFails(w, g)
    BY <1>2, <2>1, AfterErrorTyped DEF RebuildFails, TypeInv, TypeOK
  <2>2. CASE Rebuild(w, g)
    <3>1. ev.execution \in Executions
      BY <1>2, <2>2 DEF Rebuild
    <3>2. ProcessEvent(replay[ev.execution], ev) \in EngineState
      BY <1>2, <3>1, ProcessEventTyped DEF TypeInv, TypeOK
    <3> QED
      BY <1>1, <2>2, <3>2, DecideTyped DEF Rebuild
  <2>3. CASE RebuildBlind(w, g)
    <3>1. ProcessEvent(EmptyState, ev) \in EngineState
      BY <1>2, EmptyStateTyped, ProcessEventTyped
    <3> QED
      BY <1>1, <2>3, <3>1, DecideTyped DEF RebuildBlind
  <2> QED
    BY <2>1, <2>2, <2>3
<1> QED
  BY <1>1, <1>3, <1>4, StreamKept, GoroutineTyped DEF TypeInv, TypeOK

LEMMA PublishStepTyped ==
  ASSUME TypeInv, NEW w \in Workers, NEW g \in Permits,
         PublishStep(w, g) \/ PublishStepFails(w, g)
  PROVE  TypeInv'
<1> DEFINE ev == JobEvent(w, g)
<1>1. /\ job[w][g].phase = "publishing" /\ PublishError(ev)
      /\ Succeed(w) \/ Fault(w)
      /\ UNCHANGED <<record, acked, cursor, inbox, closed, answered>>
  BY DEF PublishStep, PublishStepFails, PublishFails, PublishError, groupVars
<1>2. /\ job[w][g] \in Job /\ job[w][g].entry \in DOMAIN log
      /\ log[job[w][g].entry].type # "workflow.created"
  BY <1>1, JobFacts
<1>3. /\ log' \in Seq(Event) /\ replay' \in [Executions -> EngineState]
      /\ StreamOK' /\ Continues(log, log')
  BY <1>1, JobEventTyped, PublishErrorTyped
<1>4. faults' \in 0 .. MaxFaults /\ losses' \in 0 .. MaxLosses
  BY <1>1, BudgetsTyped
<1>5. CASE PublishStep(w, g)
  <2> DEFINE done == [job[w][g] EXCEPT !.phase = "completing",
                                       !.state.status = "completed"]
             next == [job[w][g] EXCEPT !.phase = "recording"]
  <2>1. PICK j \in {done, next} : SetJob(w, g, j)
    BY <1>5 DEF PublishStep, AfterPublication
  <2>2. [job[w][g].state EXCEPT !.status = "completed"] \in EngineState
    BY <1>2 DEF Job, EngineState, Statuses
  <2>3. done \in Job /\ next \in Job
    BY <1>2, <2>2 DEF Job, Phases
  <2>4. JobOK(done, log) /\ JobOK(next, log)
    BY <1>2 DEF Job, JobOK
  <2> QED
    BY <1>1, <1>3, <1>4, <1>5, <2>1, <2>3, <2>4, GoroutineTyped
       DEF TypeInv, TypeOK, PublishStep
<1>6. CASE PublishStepFails(w, g)
  <2>1. PICK j \in Job : SetJob(w, g, j) /\ JobOK(j, log)
    BY <1>1, <1>2, <1>6, AfterErrorTyped DEF PublishStepFails
  <2>2. dead' \subseteq Positions
    BY <1>1, <1>2, <1>6, AfterErrorTyped DEF PublishStepFails
  <2>3. lock' \in [Workers -> Permits \cup {NoPermit}]
    BY <1>6, UnlockTyped DEF PublishStepFails
  <2> QED
    BY <1>1, <1>3, <1>4, <2>1, <2>2, <2>3, GoroutineTyped DEF TypeInv, TypeOK
<1> QED
  BY <1>5, <1>6

LEMMA RecordTyped ==
  ASSUME TypeInv, NEW w \in Workers, NEW g \in Permits,
         CompleteRecord(w, g) \/ UpdateRecord(w, g) \/ UpdateRecordFails(w, g)
  PROVE  TypeInv'
<1>1. /\ job[w][g].phase \in {"completing", "recording"}
      /\ Succeed(w) \/ Fault(w)
      /\ UNCHANGED streamVars
      /\ UNCHANGED <<acked, cursor, inbox, closed, answered>>
  BY DEF CompleteRecord, UpdateRecord, UpdateRecordFails, groupVars
<1>2. /\ job[w][g] \in Job /\ job[w][g].entry \in DOMAIN log
      /\ log[job[w][g].entry].type # "workflow.created"
  BY <1>1, JobFacts
<1>3. faults' \in 0 .. MaxFaults /\ losses' \in 0 .. MaxLosses
  BY <1>1, BudgetsTyped
<1>4. CASE CompleteRecord(w, g)
  <2> DEFINE j == [job[w][g] EXCEPT !.phase = "recording"]
  <2>1. j \in Job /\ JobOK(j, log)
    BY <1>2 DEF Job, Phases, JobOK
  <2>2. SetJob(w, g, j) /\ UNCHANGED <<lock, dead>>
    BY <1>4 DEF CompleteRecord
  <2>3. record' \in [Executions -> RecordStatuses]
    BY <1>4, StoreStatusTyped DEF CompleteRecord, TypeInv, TypeOK, RecordStatuses
  <2> HIDE DEF j
  <2> QED
    BY <1>1, <1>3, <2>1, <2>2, <2>3, StreamKept, GoroutineTyped
       DEF TypeInv, TypeOK
<1>5. CASE UpdateRecord(w, g)
  <2> DEFINE j == [IdleJob EXCEPT !.phase = "acking",
                     !.entry = job[w][g].entry, !.attempt = job[w][g].attempt]
  <2>1. IdleJob \in Job
    BY IdleJobTyped
  <2>2. j \in Job /\ j.phase = "acking" /\ j.entry = job[w][g].entry
    BY <1>2, <2>1 DEF Job, Phases
  <2>3. JobOK(j, log)
    BY <1>2, <2>2 DEF JobOK
  <2>4. SetJob(w, g, j) /\ UNCHANGED dead /\ Unlock(w) /\ WriteRecord(w, g)
    BY <1>5 DEF UpdateRecord
  <2> HIDE DEF j
  <2> QED
    BY <1>1, <1>3, <2>2, <2>3, <2>4, StreamKept, UnlockTyped, WriteRecordTyped,
       GoroutineTyped DEF TypeInv, TypeOK
<1>6. CASE UpdateRecordFails(w, g)
  <2>1. AfterError(w, g) /\ Unlock(w) /\ (WriteRecord(w, g) \/ UNCHANGED record)
    BY <1>6 DEF UpdateRecordFails
  <2>2. PICK j \in Job : SetJob(w, g, j) /\ JobOK(j, log)
    BY <1>1, <1>2, <2>1, AfterErrorTyped
  <2>3. dead' \subseteq Positions
    BY <1>1, <1>2, <2>1, AfterErrorTyped
  <2> QED
    BY <1>1, <1>3, <2>1, <2>2, <2>3, StreamKept, UnlockTyped, WriteRecordTyped,
       GoroutineTyped DEF TypeInv, TypeOK
<1> QED
  BY <1>4, <1>5, <1>6

LEMMA DeadLetterTyped ==
  ASSUME TypeInv, NEW w \in Workers, NEW g \in Permits, DeadLetter(w, g)
  PROVE  TypeInv'
<1> DEFINE ev == [log[job[w][g].entry] EXCEPT !.type = "event.dlq"]
           j  == [job[w][g] EXCEPT !.phase = "acking"]
<1>1. /\ job[w][g].phase = "dlq" /\ PublishError(ev)
      /\ Succeed(w) \/ Fault(w)
      /\ SetJob(w, g, j)
      /\ UNCHANGED <<record, acked, cursor, inbox, lock, dead, closed, answered>>
  BY DEF DeadLetter, PublishFails, PublishError, groupVars
<1>2. /\ job[w][g] \in Job /\ job[w][g].entry \in DOMAIN log
      /\ WellFormed(log[job[w][g].entry])
  BY <1>1, JobFacts
<1>3. WellFormed(ev) /\ ev.type # "workflow.created"
  BY <1>2 DEF WellFormed, Event, EventTypes
<1>4. /\ log' \in Seq(Event) /\ replay' \in [Executions -> EngineState]
      /\ StreamOK' /\ Continues(log, log')
  <2> HIDE DEF ev
  <2> QED
    BY <1>1, <1>3, PublishErrorTyped
<1>5. faults' \in 0 .. MaxFaults /\ losses' \in 0 .. MaxLosses
  BY <1>1, BudgetsTyped
<1>6. j \in Job /\ JobOK(j, log)
  BY <1>2 DEF Job, Phases, JobOK
<1> HIDE DEF ev, j
<1> QED
  BY <1>1, <1>4, <1>5, <1>6, GoroutineTyped DEF TypeInv, TypeOK

LEMMA AcknowledgeTyped ==
  ASSUME TypeInv, NEW w \in Workers, NEW g \in Permits, Acknowledge(w, g)
  PROVE  TypeInv'
<1>1. /\ job[w][g].phase = "acking"
      /\ Succeed(w) \/ Fault(w)
      /\ SetJob(w, g, IdleJob)
      /\ UNCHANGED streamVars
      /\ UNCHANGED <<record, cursor, inbox, lock, dead, closed, answered>>
  BY DEF Acknowledge
<1>2. job[w][g].entry \in Positions
  BY <1>1, JobFacts
<1>3. acked' \subseteq Positions
  BY <1>2 DEF Acknowledge, TypeInv, TypeOK
<1>4. faults' \in 0 .. MaxFaults /\ losses' \in 0 .. MaxLosses
  BY <1>1, BudgetsTyped
<1> QED
  BY <1>1, <1>3, <1>4, IdleJobTyped, StreamKept, GoroutineTyped
     DEF TypeInv, TypeOK

-----------------------------------------------------------------------------
LEMMA InitTyped == Init => TypeInv
<1> SUFFICES ASSUME Init PROVE TypeInv
  OBVIOUS
<1>1. WellFormed(CreatedEvent)
  BY DEF CreatedEvent, NewEvent, WellFormed, Event, EventTypes, Sources
<1>2. log = <<CreatedEvent>> /\ log \in Seq(Event) /\ StreamOK
  BY <1>1 DEF Init, WellFormed, StreamOK
<1>3. replay \in [Executions -> EngineState]
  BY EmptyStateTyped DEF Init
<1>4. inbox \in [Workers -> Seq(Positions)] /\ InboxesOK
  BY DEF Init, InboxesOK
<1>5. job \in [Workers -> [Permits -> Job]] /\ JobsOK
  BY IdleJobTyped DEF Init, JobsOK
<1>6. TypeOK
  BY <1>2, <1>3, <1>4, <1>5, ProcessorAssumption
     DEF Init, TypeOK, RecordStatuses, Positions
<1> QED
  BY <1>2, <1>4, <1>5, <1>6 DEF TypeInv

LEMMA StepTyped == TypeInv /\ [Next]_vars => TypeInv'
<1> SUFFICES ASSUME TypeInv, [Next]_vars PROVE TypeInv'
  OBVIOUS
<1>1. CASE \E e \in Executions : ExecuteWorkflow(e)
  BY <1>1, ExecuteWorkflowTyped
<1>2. CASE \E w \in Workers : Deliver(w) \/ Crash(w) \/ Stop(w) \/ Restart(w)
  BY <1>2, ProcessTyped
<1>3. CASE \E w \in Workers, g \in Permits :
             Goroutine(w, g) \/ GoroutineFails(w, g)
  BY <1>3, SpawnTyped, SkipTyped, RebuildTyped, PublishStepTyped, RecordTyped,
     DeadLetterTyped, AcknowledgeTyped DEF Goroutine, GoroutineFails
<1>4. CASE \E i \in DOMAIN log : Answer(i) \/ Drop(i)
  BY <1>4, AnswerTyped
<1>5. CASE UNCHANGED vars
  BY <1>5 DEF vars, TypeInv, TypeOK, StreamOK, InboxesOK, JobsOK
<1> QED
  BY <1>1, <1>2, <1>3, <1>4, <1>5 DEF Next

(* Every goroutine works on an entry that is in the stream, every event    *)
(* of a task names one of the definition's tasks, and the states, jobs and *)
(* records keep their types.                                               *)
THEOREM TypeInvariance == Spec => []TypeInv
  BY InitTyped, StepTyped, PTL DEF Spec

THEOREM TypeCorrect == Spec => []TypeOK
<1>1. TypeInv => TypeOK
  BY DEF TypeInv
<1> QED
  BY <1>1, TypeInvariance, PTL

-----------------------------------------------------------------------------
(* A set of natural numbers that is not empty has a least element: what    *)
(* the proofs below use in place of an induction.                          *)
LEMMA LeastOf ==
  ASSUME NEW S, S \subseteq Nat, S # {}
  PROVE  \E i \in S : \A j \in S : ~ (j < i)
<1>1. PICK i \in S : \A j \in S : ~ (<<j, i>> \in OpToRel(<, Nat))
  BY NatLessThanWellFounded, WFMin
<1> QED
  BY <1>1 DEF OpToRel

(* f is the course of a loop of n passes that starts with a and takes F[k] *)
(* in pass k.                                                              *)
Course(f, n, a, F) ==
  f[0] = a /\ \A k \in 1 .. n : f[k] = F[k][f[k - 1]]

(* A loop over typed passes has a course: the first pass without one would *)
(* extend the course before it.                                            *)
LEMMA CourseExists ==
  ASSUME NEW A, NEW a \in A, NEW L \in Nat, NEW F \in [1 .. L -> [A -> A]]
  PROVE  \E f \in [0 .. L -> A] : Course(f, L, a, F)
<1> DEFINE T == {n \in 0 .. L : ~ \E f \in [0 .. n -> A] : Course(f, n, a, F)}
<1>1. SUFFICES ASSUME T # {} PROVE FALSE
  OBVIOUS
<1>2. PICK n \in T : \A j \in T : ~ (j < n)
  <2>1. T \subseteq Nat
    OBVIOUS
  <2> HIDE DEF T
  <2> QED
    BY <1>1, <2>1, LeastOf
<1>3. n # 0
  <2>1. [k \in 0 .. 0 |-> a] \in [0 .. 0 -> A] /\ Course([k \in 0 .. 0 |-> a], 0, a, F)
    BY DEF Course
  <2> QED
    BY <2>1
<1>4. n - 1 \in 0 .. L /\ n - 1 \notin T /\ n \in 1 .. L
  BY <1>2, <1>3
<1>5. PICK f \in [0 .. n - 1 -> A] : Course(f, n - 1, a, F)
  BY <1>4
<1> DEFINE g == [k \in 0 .. n |-> IF k = n THEN F[n][f[n - 1]] ELSE f[k]]
<1>6. f[n - 1] \in A /\ F[n] \in [A -> A]
  BY <1>4
<1>7. g \in [0 .. n -> A]
  BY <1>4, <1>6
<1>8. /\ g[n] = F[n][f[n - 1]]
      /\ \A k \in 0 .. n - 1 : g[k] = f[k]
  BY <1>4
<1> HIDE DEF g
<1>9. Course(g, n, a, F)
  <2>1. g[0] = a
    BY <1>4, <1>5, <1>8 DEF Course
  <2>2. ASSUME NEW k \in 1 .. n PROVE g[k] = F[k][g[k - 1]]
    <3>1. CASE k = n
      BY <1>4, <1>8, <3>1
    <3>2. CASE k # n
      <4>1. k \in 1 .. n - 1 /\ k \in 0 .. n - 1 /\ k - 1 \in 0 .. n - 1
        BY <1>4, <3>2
      <4> QED
        BY <1>5, <1>8, <4>1 DEF Course
    <3> QED
      BY <3>1, <3>2
  <2> QED
    BY <2>1, <2>2 DEF Course
<1> QED
  BY <1>2, <1>7, <1>9

(* f and g start alike, and a pass that finds them equal leaves them equal.*)
Keeps(f, g, n) ==
  f[0] = g[0] /\ \A k \in 1 .. n : f[k - 1] = g[k - 1] => f[k] = g[k]

Agree(f, g, n) == \A k \in 0 .. n : f[k] = g[k]

(* Such functions never part.                                              *)
LEMMA CourseUnique ==
  ASSUME NEW L \in Nat, NEW f, NEW g, Keeps(f, g, L)
  PROVE  Agree(f, g, L)
<1> DEFINE T == {n \in 0 .. L : f[n] # g[n]}
<1>1. SUFFICES ASSUME T # {} PROVE FALSE
  BY DEF Agree
<1>2. PICK n \in T : \A j \in T : ~ (j < n)
  <2>1. T \subseteq Nat
    OBVIOUS
  <2> HIDE DEF T
  <2> QED
    BY <1>1, <2>1, LeastOf
<1>3. n \in 1 .. L /\ n - 1 \in 0 .. L /\ n - 1 \notin T
  BY <1>2 DEF Keeps
<1> QED
  BY <1>2, <1>3 DEF Keeps

(* Histories the engine can be given.                                      *)
Histories == {h \in Seq(Event) : \A n \in DOMAIN h : WellFormed(h[n])}

(* What appending a well formed event does to a history.                   *)
LEMMA HistoryGrows ==
  ASSUME NEW h \in Histories, NEW ev, WellFormed(ev)
  PROVE  LET t == Append(h, ev)
         IN  /\ t \in Histories /\ Len(h) \in Nat /\ Len(t) = Len(h) + 1
             /\ t[Len(h) + 1] = ev /\ \A n \in 1 .. Len(h) : t[n] = h[n]
<1> DEFINE t == Append(h, ev)
<1>1. /\ h \in Seq(Event) /\ ev \in Event
      /\ \A n \in 1 .. Len(h) : WellFormed(h[n])
  BY DEF Histories, WellFormed
<1>2. /\ t \in Seq(Event) /\ Len(h) \in Nat /\ Len(t) = Len(h) + 1
      /\ t[Len(h) + 1] = ev /\ \A n \in 1 .. Len(h) : t[n] = h[n]
      /\ \A n \in DOMAIN t : n = Len(h) + 1 \/ n \in 1 .. Len(h)
  BY <1>1
<1> HIDE DEF t
<1>3. \A n \in DOMAIN t : WellFormed(t[n])
  BY <1>1, <1>2
<1> QED
  BY <1>2, <1>3 DEF t, Histories

(* RebuildState and EventsOf are loops: what they return is the last value *)
(* of any function that takes their steps.                                 *)
LEMMA RebuildFollows ==
  ASSUME NEW h \in Histories
  PROVE  \E f \in [0 .. Len(h) -> EngineState] :
           /\ f[0] = EmptyState
           /\ \A n \in 1 .. Len(h) : f[n] = ProcessEvent(f[n - 1], h[n])
           /\ \A g : /\ g[0] = EmptyState
                     /\ \A n \in 1 .. Len(h) : g[n - 1] = f[n - 1] =>
                          g[n] = ProcessEvent(g[n - 1], h[n])
                     => RebuildState(h) = g[Len(h)]
<1> DEFINE L == Len(h)
           F == [n \in 1 .. L |-> [st \in EngineState |-> ProcessEvent(st, h[n])]]
           Body(r) == [n \in 0 .. L |-> IF n = 0 THEN EmptyState
                                        ELSE ProcessEvent(r[n - 1], h[n])]
           c == CHOOSE r : r = Body(r)
<1>1. L \in Nat /\ DOMAIN h = 1 .. L /\ \A n \in 1 .. L : WellFormed(h[n])
  BY DEF Histories
<1>2. F \in [1 .. L -> [EngineState -> EngineState]]
  BY <1>1, ProcessEventTyped
<1>3. \A n \in 1 .. L, st \in EngineState : F[n][st] = ProcessEvent(st, h[n])
  OBVIOUS
<1>4. RebuildState(h) = c[L]
  BY DEF RebuildState
<1> HIDE DEF F, L
<1>5. PICK f \in [0 .. L -> EngineState] : Course(f, L, EmptyState, F)
  BY <1>1, <1>2, CourseExists, EmptyStateTyped
<1>6. \A n \in 0 .. L : n = 0 \/ (n \in 1 .. L /\ n - 1 \in 0 .. L)
  BY <1>1
<1>7. \A n \in 1 .. L : n - 1 \in 0 .. L /\ n \in 0 .. L /\ n # 0
  BY <1>1
<1>8. f = Body(f)
  BY <1>3, <1>5, <1>6 DEF Course
<1>9. c = Body(c)
  BY <1>8
<1> HIDE DEF c
<1>10. c[0] = EmptyState /\ \A n \in 1 .. L : c[n] = ProcessEvent(c[n - 1], h[n])
  BY <1>1, <1>7, <1>9
<1>11. f[0] = EmptyState /\ \A n \in 1 .. L : f[n] = ProcessEvent(f[n - 1], h[n])
  BY <1>3, <1>5, <1>7 DEF Course
<1>12. ASSUME NEW g, g[0] = EmptyState,
              \A n \in 1 .. L : g[n - 1] = f[n - 1] =>
                g[n] = ProcessEvent(g[n - 1], h[n])
       PROVE  f[L] = g[L]
  <2>1. Keeps(f, g, L)
    BY <1>11, <1>12 DEF Keeps
  <2> QED
    BY <1>1, <2>1, CourseUnique DEF Agree
<1>13. f[L] = c[L]
  BY <1>10, <1>12
<1> QED
  BY <1>4, <1>5, <1>11, <1>12, <1>13 DEF L

(* Replaying one event more is one more ProcessEvent.                      *)
LEMMA RebuildAppend ==
  ASSUME NEW h \in Histories, NEW ev, WellFormed(ev)
  PROVE  RebuildState(Append(h, ev)) = ProcessEvent(RebuildState(h), ev)
<1> DEFINE t == Append(h, ev)
           L == Len(h)
<1>1. /\ t \in Histories /\ L \in Nat /\ Len(t) = L + 1
      /\ t[L + 1] = ev /\ \A n \in 1 .. L : t[n] = h[n]
  BY HistoryGrows
<1>2. /\ \A n \in 1 .. L : n \in 1 .. L + 1
      /\ L + 1 \in 1 .. L + 1 /\ (L + 1) - 1 = L
  BY <1>1
<1> HIDE DEF t
<1>3. PICK f \in [0 .. Len(t) -> EngineState] :
        /\ f[0] = EmptyState
        /\ \A n \in 1 .. Len(t) : f[n] = ProcessEvent(f[n - 1], t[n])
        /\ RebuildState(t) = f[Len(t)]
  BY <1>1, RebuildFollows
<1>4. \A n \in 1 .. L : f[n] = ProcessEvent(f[n - 1], h[n])
  BY <1>1, <1>2, <1>3
<1>5. RebuildState(h) = f[L]
  BY <1>3, <1>4, RebuildFollows
<1>6. RebuildState(t) = ProcessEvent(f[L], ev)
  <2>1. f[L + 1] = ProcessEvent(f[(L + 1) - 1], t[L + 1])
    BY <1>1, <1>2, <1>3
  <2> QED
    BY <1>1, <1>2, <1>3, <2>1
<1> QED
  BY <1>5, <1>6 DEF t

LEMMA RebuildEmpty == RebuildState(<<>>) = EmptyState
<1>1. <<>> \in Histories /\ Len(<<>>) = 0
  BY DEF Histories
<1>2. PICK f : f[0] = EmptyState /\ RebuildState(<<>>) = f[Len(<<>>)]
  BY <1>1, RebuildFollows
<1> QED
  BY <1>1, <1>2

(* The same for the filter on executions.                                  *)
LEMMA EventsFollow ==
  ASSUME NEW s \in Histories, NEW e
  PROVE  \E f \in [0 .. Len(s) -> Histories] :
           /\ f[0] = <<>>
           /\ \A n \in 1 .. Len(s) :
                f[n] = Collect(f[n - 1], s[n], e)
           /\ \A g : /\ g[0] = <<>>
                     /\ \A n \in 1 .. Len(s) : g[n - 1] = f[n - 1] =>
                          g[n] = Collect(g[n - 1], s[n], e)
                     => EventsOf(s, e) = g[Len(s)]
<1> DEFINE L == Len(s)
           F == [n \in 1 .. L |-> [h \in Histories |->
                  Collect(h, s[n], e)]]
           Body(r) == [n \in 0 .. L |-> IF n = 0 THEN <<>>
                        ELSE Collect(r[n - 1], s[n], e)]
           c == CHOOSE r : r = Body(r)
<1>1. L \in Nat /\ DOMAIN s = 1 .. L /\ \A n \in 1 .. L : WellFormed(s[n])
  BY DEF Histories
<1>2. F \in [1 .. L -> [Histories -> Histories]]
  BY <1>1, HistoryGrows DEF Collect
<1>3. \A n \in 1 .. L, h \in Histories :
        F[n][h] = Collect(h, s[n], e)
  OBVIOUS
<1>4. EventsOf(s, e) = c[L]
  BY DEF EventsOf
<1> HIDE DEF F, L
<1>5. PICK f \in [0 .. L -> Histories] : Course(f, L, <<>>, F)
  <2>1. <<>> \in Histories
    BY DEF Histories
  <2> QED
    BY <1>1, <1>2, <2>1, CourseExists
<1>6. \A n \in 0 .. L : n = 0 \/ (n \in 1 .. L /\ n - 1 \in 0 .. L)
  BY <1>1
<1>7. \A n \in 1 .. L : n - 1 \in 0 .. L /\ n \in 0 .. L /\ n # 0
  BY <1>1
<1>8. f = Body(f)
  BY <1>3, <1>5, <1>6 DEF Course
<1>9. c = Body(c)
  BY <1>8
<1> HIDE DEF c
<1>10. c[0] = <<>> /\ \A n \in 1 .. L :
         c[n] = Collect(c[n - 1], s[n], e)
  BY <1>1, <1>7, <1>9
<1>11. f[0] = <<>> /\ \A n \in 1 .. L :
         f[n] = Collect(f[n - 1], s[n], e)
  BY <1>3, <1>5, <1>7 DEF Course
<1>12. ASSUME NEW g, g[0] = <<>>,
              \A n \in 1 .. L : g[n - 1] = f[n - 1] =>
                g[n] = Collect(g[n - 1], s[n], e)
       PROVE  f[L] = g[L]
  <2>1. Keeps(f, g, L)
    BY <1>11, <1>12 DEF Keeps
  <2> QED
    BY <1>1, <2>1, CourseUnique DEF Agree
<1>13. f[L] = c[L]
  BY <1>10, <1>12
<1> QED
  BY <1>4, <1>5, <1>11, <1>12, <1>13 DEF L

(* The history of an execution after a publication.                        *)
LEMMA EventsAppend ==
  ASSUME NEW s \in Histories, NEW ev, WellFormed(ev), NEW e
  PROVE  /\ EventsOf(s, e) \in Histories
         /\ EventsOf(Append(s, ev), e) =
              Collect(EventsOf(s, e), ev, e)
<1> DEFINE t == Append(s, ev)
           L == Len(s)
<1>1. /\ t \in Histories /\ L \in Nat /\ Len(t) = L + 1
      /\ t[L + 1] = ev /\ \A n \in 1 .. L : t[n] = s[n]
  BY HistoryGrows
<1>2. /\ \A n \in 1 .. L : n \in 1 .. L + 1
      /\ L + 1 \in 1 .. L + 1 /\ (L + 1) - 1 = L /\ L \in 0 .. L + 1
  BY <1>1
<1> HIDE DEF t
<1>3. PICK f \in [0 .. Len(t) -> Histories] :
        /\ f[0] = <<>>
        /\ \A n \in 1 .. Len(t) :
             f[n] = Collect(f[n - 1], t[n], e)
        /\ EventsOf(t, e) = f[Len(t)]
  <2>1. PICK f \in [0 .. Len(t) -> Histories] :
          /\ f[0] = <<>>
          /\ \A n \in 1 .. Len(t) :
               f[n] = Collect(f[n - 1], t[n], e)
          /\ \A g : /\ g[0] = <<>>
                    /\ \A n \in 1 .. Len(t) : g[n - 1] = f[n - 1] =>
                         g[n] = Collect(g[n - 1], t[n], e)
                    => EventsOf(t, e) = g[Len(t)]
    BY <1>1, EventsFollow
  <2>2. EventsOf(t, e) = f[Len(t)]
    BY <2>1
  <2> QED
    BY <2>1, <2>2
<1>4. \A n \in 1 .. L :
        f[n] = Collect(f[n - 1], s[n], e)
  BY <1>1, <1>2, <1>3
<1>5. EventsOf(s, e) = f[L]
  BY <1>3, <1>4, EventsFollow
<1>6. EventsOf(t, e) = Collect(f[L], ev, e)
  <2>1. f[L + 1] = Collect(f[(L + 1) - 1], t[L + 1], e)
    BY <1>1, <1>2, <1>3
  <2> QED
    BY <1>1, <1>2, <1>3, <2>1
<1> QED
  BY <1>1, <1>2, <1>3, <1>5, <1>6 DEF t

LEMMA EventsEmpty == \A e : EventsOf(<<>>, e) = <<>>
<1> TAKE e
<1>1. <<>> \in Histories /\ Len(<<>>) = 0
  BY DEF Histories
<1>2. PICK f : f[0] = <<>> /\ EventsOf(<<>>, e) = f[Len(<<>>)]
  BY <1>1, EventsFollow
<1> QED
  BY <1>1, <1>2

(* What a step does to the stream: at most one event is published.         *)
Published == \/ UNCHANGED streamVars
             \/ \E ev : WellFormed(ev) /\ Publish(ev)

LEMMA AnswersPublish ==
  ASSUME TypeInv, NEW i \in DOMAIN log, Answer(i) \/ Drop(i)
  PROVE  Published
<1> DEFINE e == log[i].execution
           n == log[i].task
<1>1. WellFormed(log[i])
  BY DEF TypeInv, StreamOK
<1>2. /\ e \in Executions \cup {NoExecution}
      /\ i \in Unanswered("task.requested") \cup Unanswered("timer.scheduled")
           => n \in TaskNames
  BY <1>1 DEF WellFormed, Event, Unanswered
<1>3. ASSUME NEW success \in BOOLEAN, ExecutorAnswers(i, success)
      PROVE  Published
  <2> DEFINE ev == NewEvent("task.completed", "executor-service", e, n, success)
  <2>1. Publish(ev)
    BY <1>3 DEF ExecutorAnswers
  <2>2. WellFormed(ev)
    BY <1>2, <1>3 DEF ExecutorAnswers, NewEvent, WellFormed, Event, EventTypes,
                      Sources
  <2> QED
    BY <2>1, <2>2 DEF Published
<1>4. ASSUME TimerFires(i) PROVE Published
  <2> DEFINE ev == NewEvent("timer.fired", "timer-service", e, n, TRUE)
  <2>1. Publish(ev)
    BY <1>4 DEF TimerFires
  <2>2. WellFormed(ev)
    BY <1>2, <1>4 DEF TimerFires, NewEvent, WellFormed, Event, EventTypes,
                      Sources
  <2> QED
    BY <2>1, <2>2 DEF Published
<1>5. ASSUME ExecutorDrops(i) PROVE Published
  <2> DEFINE ev == [log[i] EXCEPT !.type = "task.dlq"]
  <2>1. Publish(ev) \/ UNCHANGED streamVars
    BY <1>5 DEF ExecutorDrops, PublishError
  <2>2. WellFormed(ev)
    BY <1>1 DEF WellFormed, Event, EventTypes
  <2> QED
    BY <2>1, <2>2 DEF Published
<1>6. CASE TimerDrops(i)
  BY <1>6 DEF TimerDrops, Published
<1> QED
  BY <1>3, <1>4, <1>5, <1>6 DEF Answer, Drop

LEMMA GoroutinePublishes ==
  ASSUME TypeInv, NEW w \in Workers, NEW g \in Permits,
         Goroutine(w, g) \/ GoroutineFails(w, g)
  PROVE  Published
<1>1. CASE PublishStep(w, g) \/ PublishStepFails(w, g)
  <2>1. /\ job[w][g].phase = "publishing"
        /\ Publish(JobEvent(w, g)) \/ UNCHANGED streamVars
    BY <1>1 DEF PublishStep, PublishStepFails, PublishFails, PublishError
  <2> QED
    BY <2>1, JobEventTyped DEF Published
<1>2. CASE DeadLetter(w, g)
  <2> DEFINE ev == [log[job[w][g].entry] EXCEPT !.type = "event.dlq"]
  <2>1. /\ job[w][g].phase = "dlq"
        /\ Publish(ev) \/ UNCHANGED streamVars
    BY <1>2 DEF DeadLetter, PublishFails, PublishError
  <2>2. WellFormed(log[job[w][g].entry])
    BY <2>1, JobFacts
  <2>3. WellFormed(ev)
    BY <2>2 DEF WellFormed, Event, EventTypes
  <2> QED
    BY <2>1, <2>3 DEF Published
<1>3. CASE ~(PublishStep(w, g) \/ PublishStepFails(w, g) \/ DeadLetter(w, g))
  <2>1. UNCHANGED streamVars
    BY <1>3 DEF Goroutine, GoroutineFails, Spawn, Skip, Rebuild,
       RebuildBlind, RebuildFails, CompleteRecord, UpdateRecord,
       UpdateRecordFails, Acknowledge
  <2> QED
    BY <2>1 DEF Published
<1> QED
  BY <1>1, <1>2, <1>3

LEMMA StepPublishes ==
  ASSUME TypeInv, [Next]_vars
  PROVE  Published
<1>1. ASSUME NEW e \in Executions, ExecuteWorkflow(e) PROVE Published
  <2> DEFINE ev == NewEvent("execution.started", "api", e, NoTask, TRUE)
  <2>1. WellFormed(ev)
    BY DEF NewEvent, WellFormed, Event, EventTypes, Sources
  <2>2. Publish(ev) \/ UNCHANGED streamVars
    BY <1>1 DEF ExecuteWorkflow, PublishError
  <2> QED
    BY <2>1, <2>2 DEF Published
<1>2. CASE \E w \in Workers : Deliver(w) \/ Crash(w) \/ Stop(w) \/ Restart(w)
  BY <1>2 DEF Deliver, Crash, Stop, Restart, Published
<1>3. CASE \E w \in Workers, g \in Permits :
             Goroutine(w, g) \/ GoroutineFails(w, g)
  BY <1>3, GoroutinePublishes
<1>4. CASE \E i \in DOMAIN log : Answer(i) \/ Drop(i)
  BY <1>4, AnswersPublish
<1>5. CASE UNCHANGED vars
  BY <1>5 DEF vars, streamVars, Published
<1> QED
  BY <1>1, <1>2, <1>3, <1>4, <1>5 DEF Next

(* The state kept with the stream is the one a reader of the stream would  *)
(* rebuild: the filter on executions, then RebuildState, loops included.   *)
ReplayIsRebuilt == \A e \in Executions : replay[e] = RebuildState(History(e))

LEMMA InitRebuilt == Init => ReplayIsRebuilt
<1> SUFFICES ASSUME Init, NEW e \in Executions
             PROVE  replay[e] = RebuildState(History(e))
  BY DEF ReplayIsRebuilt
<1>1. /\ WellFormed(CreatedEvent) /\ CreatedEvent.execution # e
      /\ <<>> \in Histories
  BY ExecutionsAssumption
     DEF CreatedEvent, NewEvent, WellFormed, Event, EventTypes, Sources,
         Histories
<1>2. log = Append(<<>>, CreatedEvent) /\ replay[e] = EmptyState
  BY DEF Init
<1>3. EventsOf(log, e) = Collect(EventsOf(<<>>, e), CreatedEvent, e)
  BY <1>1, <1>2, EventsAppend
<1>4. EventsOf(log, e) = <<>>
  BY <1>1, <1>3, EventsEmpty DEF Collect
<1> QED
  BY <1>2, <1>4, RebuildEmpty DEF History

LEMMA StepRebuilt == TypeInv /\ ReplayIsRebuilt /\ [Next]_vars => ReplayIsRebuilt'
<1> SUFFICES ASSUME TypeInv, ReplayIsRebuilt, Published, NEW e \in Executions
             PROVE  replay'[e] = RebuildState(History(e)')
  BY StepPublishes DEF ReplayIsRebuilt
<1>1. CASE UNCHANGED streamVars
  BY <1>1 DEF streamVars, ReplayIsRebuilt, History
<1>2. ASSUME NEW ev, WellFormed(ev), Publish(ev)
      PROVE  replay'[e] = RebuildState(History(e)')
  <2>1. /\ log \in Histories /\ log' = Append(log, ev)
        /\ replay'[e] = IF e = ev.execution THEN ProcessEvent(replay[e], ev)
                                            ELSE replay[e]
    BY <1>2 DEF TypeInv, TypeOK, StreamOK, Histories, Publish
  <2>2. /\ EventsOf(log, e) \in Histories
        /\ EventsOf(log', e) = Collect(EventsOf(log, e), ev, e)
    BY <1>2, <2>1, EventsAppend
  <2>3. replay[e] = RebuildState(EventsOf(log, e))
    BY DEF ReplayIsRebuilt, History
  <2>4. RebuildState(Append(EventsOf(log, e), ev)) =
          ProcessEvent(RebuildState(EventsOf(log, e)), ev)
    BY <1>2, <2>2, RebuildAppend
  <2>5. replay'[e] = RebuildState(EventsOf(log', e))
    BY <2>1, <2>2, <2>3, <2>4, ExecutionsAssumption DEF Collect
  <2> QED
    BY <2>5 DEF History
<1> QED
  BY <1>1, <1>2 DEF Published

(* The ghost variable replay is no assumption: every goroutine that reads  *)
(* the history of an execution and replays it gets the state kept there.   *)
THEOREM ReplayIsRebuiltHolds == Spec => []ReplayIsRebuilt
  BY TypeInvariance, InitRebuilt, StepRebuilt, PTL DEF Spec
=============================================================================

----------------------- MODULE ExecutionControlProofs -----------------------
(***************************************************************************)
(* Proofs about ExecutionControl, for any executions, requests, permits,   *)
(* lists of tasks, attempts and failing calls.                             *)
(*                                                                         *)
(* The invariant ControlInv says of every execution what its stream may    *)
(* hold (StreamOK), what a history holds that was never taken for empty    *)
(* (HistoryOK) and what the record tells (RecordOK), and of every          *)
(* goroutine that only the one with the mutex has decided anything, and    *)
(* that what it decided is still right (HolderOK).  The others wait with   *)
(* nothing but their event, which is why the mutex may be free between two *)
(* attempts.                                                               *)
(***************************************************************************)
EXTENDS ExecutionControl, TLAPS

CancelRequests == [phase : {"idle", "writing", "refused", "cancelled", "error"},
                   execution : Executions \cup {NoExecution},
                   seen : Record \cup {NoRecord}]

(* The types of the variables.                                             *)
Typed ==
  /\ record \in [Executions -> Record \cup {NoRecord}]
  /\ replay \in [Executions -> EngineState]
  /\ triggers \in [Executions -> Seq(Event)]
  /\ asked \in [Executions -> [TaskNames -> Nat]]
  /\ handled \in [Executions -> SUBSET Nat] /\ dead \in [Executions -> SUBSET Nat]
  /\ lock \in Permits \cup {NoPermit} /\ job \in [Permits -> Jobs]
  /\ request \in [Requests -> CancelRequests]
  /\ faults \in 0 .. MaxFaults
  /\ unread \subseteq Executions /\ restarted \subseteq Executions

Busy(g) == job[g].phase # "idle"
Holds(g) == job[g].phase \notin {"idle", "waiting"}

(* An event that wakes the worker: the start is the first of them.         *)
TriggerOK(e, i) ==
  LET ev == triggers[e][i]
  IN  /\ ev.execution = e
      /\ i = 1 => ev = NewEvent("execution.started", "api", e, NoTask, TRUE)
      /\ i > 1 => (ev.type = "task.completed" /\ ev.task \in TaskNames)

(* An attempt at the start of e has begun to publish, at least.            *)
Begun(e) ==
  \/ 1 \in handled[e] \cup dead[e]
  \/ \E g \in Permits : /\ job[g].execution = e /\ job[g].event = 1
                        /\ (Holds(g) \/ job[g].attempt > 1)

(* What the stream holds of an execution, and when it may hold it.         *)
StreamOK(e) ==
  /\ handled[e] \cup dead[e] \subseteq DOMAIN triggers[e]
  /\ \A i \in DOMAIN triggers[e] : TriggerOK(e, i)
  /\ triggers[e] = <<>> => (replay[e] = EmptyState /\ \A n \in TaskNames : asked[e][n] = 0)
  /\ triggers[e] # <<>> => (Exists(e) /\ replay[e].context = e)
  /\ Len(triggers[e]) > 1 => Begun(e)
  /\ (\E n \in TaskNames : asked[e][n] > 0) => Begun(e)

(* A replay in which the tasks succeed in their order, and only the next   *)
(* one can be pending, once.                                               *)
Fits(st) ==
  LET k == Len(st.completed)
  IN  /\ k <= Len(TaskList) /\ \A i \in 1 .. k : st.completed[i] = TaskList[i]
      /\ \A n \in TaskNames : st.pending[n] > 0 =>
           (k < Len(TaskList) /\ n = TaskList[k + 1] /\ st.pending[n] = 1)
      /\ st.status = "completed" => k = Len(TaskList)

(* The history of an execution that was never taken for empty: the pending *)
(* task is either unanswered or has failed.                                *)
HistoryOK(e) ==
  LET st == replay[e]
  IN  /\ Fits(st)
      /\ \/ /\ TaskFailed(e) /\ AnyPending(st) /\ st.status = "failed"
            /\ \A n \in TaskNames : asked[e][n] = 0
         \/ /\ ~TaskFailed(e) /\ asked[e] = st.pending /\ st.status # "failed"
      /\ \A i \in DOMAIN triggers[e] :
           (i > 1 /\ triggers[e][i].success) => Done(st, triggers[e][i].task)

(* A record as a writer has seen it: what it lost, it lost to a failing    *)
(* call or to a request to cancel.                                         *)
CopyOK(r, e) ==
  /\ r.started # "api" => faults > 0
  /\ r.tenant # "own" => \E c \in Requests : Wrote(c, e)

(* Status s tells how e has ended, if it has.                              *)
Tells(e, s) ==
  /\ Succeeded(e) => s = "completed"
  /\ TaskFailed(e) => (s = "failed" \/ (s = "running" /\ e \in restarted))

(* Has the last event of e been handled, or is it event i?                 *)
LastIn(e, i) == Len(triggers[e]) \in handled[e] \cup {i}

RecordOK(e) ==
  Exists(e) =>
    /\ record[e].done <=> record[e].status \in Terminal
    /\ CopyOK(record[e], e)
    /\ e \notin unread =>
         /\ record[e].status = "completed" => Succeeded(e)
         /\ Len(triggers[e]) \in handled[e] =>
              \/ Tells(e, record[e].status)
              \/ /\ record[e].status = "failed" /\ \E c \in Requests : Wrote(c, e)

(* The step that job j is about to publish is still the next one.         *)
StepOK(j, e) ==
  LET k == Len(replay[e].completed)
  IN  /\ ~AnyPending(replay[e])
      /\ \/ /\ j.step.action = "request" /\ k < Len(TaskList)
            /\ j.step.task = TaskList[k + 1] /\ j.status # "completed"
         \/ /\ j.step.action = "complete" /\ Succeeded(e)

(* The status that job j is about to write: it may be older than the       *)
(* stream, but not if the last event is the one that is processed.         *)
StatusOK(j, e) ==
  /\ j.status = "completed" => Succeeded(e)
  /\ record[e].status = "completed" => j.status = "completed"
  /\ LastIn(e, j.event) => Tells(e, j.status)

(* The job of the goroutine that holds the mutex.                          *)
HolderOK(j) ==
  LET e == j.execution
  IN  /\ j.context \in {e, NoExecution}
      /\ j.phase = "publishing" => j.step.action \in {"request", "complete"}
      /\ (j.phase = "publishing" /\ j.step.action = "request") => j.step.task \in TaskNames
      /\ j.phase \in {"completing", "storing"} => (j.context = e /\ j.status = "completed")
      /\ j.phase = "storing" => j.seen \in Record
      /\ j.phase \in {"storing", "writing"} =>
           IF j.seen = NoRecord THEN (j.context = e => faults > 0) ELSE CopyOK(j.seen, e)
      /\ e \notin unread =>
           /\ j.context = e
           /\ IF j.phase = "publishing" THEN StepOK(j, e) ELSE StatusOK(j, e)

JobOK(g) ==
  LET j == job[g]
      e == j.execution
  IN  /\ ~Busy(g) => j = IdleJob
      /\ Busy(g) => /\ e \in Executions /\ j.event \in DOMAIN triggers[e]
                    /\ j.event \notin handled[e] \cup dead[e]
                    /\ j.attempt \in 1 .. MaxAttempts
      /\ lock = g <=> Holds(g)
      /\ Holds(g) => HolderOK(job[g])

(* No event is in the hands of two goroutines.                             *)
Apart(g, h) ==
  (/\ Busy(g) /\ Busy(h)
   /\ job[g].execution = job[h].execution /\ job[g].event = job[h].event) => g = h

RequestOK(c) ==
  LET r == request[c]
  IN  r.phase = "writing" =>
        /\ r.execution \in Executions /\ Exists(r.execution)
        /\ r.seen \in Record /\ r.seen.status \in Running
        /\ r.seen.started # "api" => faults > 0

ControlInv ==
  /\ Typed
  /\ \A e \in Executions : StreamOK(e) /\ RecordOK(e)
  /\ \A e \in Executions \ unread : HistoryOK(e)
  /\ \A g \in Permits : JobOK(g)
  /\ \A g, h \in Permits : Apart(g, h)
  /\ \A c \in Requests : RequestOK(c)

-----------------------------------------------------------------------------
(* The engine: what an event does to a replay.                             *)

LEMMA ProcessEventTyped ==
  ASSUME NEW st \in EngineState, NEW ev \in Event,
         ev.type \in {"task.requested", "task.completed", "timer.fired"} =>
           ev.task \in TaskNames
  PROVE  ProcessEvent(st, ev) \in EngineState
<1>1. /\ st.status \in Statuses /\ st.context \in Executions \cup {NoExecution}
      /\ st.pending \in [TaskNames -> Nat] /\ st.completed \in Seq(TaskNames)
  BY DEF EngineState
<1>2. CASE ev.type \in {"task.completed", "timer.fired"}
  <2>1. /\ Append(st.completed, ev.task) \in Seq(TaskNames)
        /\ [st.pending EXCEPT ![ev.task] = IF @ > 0 THEN @ - 1 ELSE 0]
             \in [TaskNames -> Nat]
    BY <1>1, <1>2
  <2>2. TaskCompleted(st, ev) \in EngineState
    BY <1>1, <2>1 DEF TaskCompleted, EngineState, Statuses
  <2> QED
    BY <1>2, <2>2 DEF ProcessEvent
<1>3. CASE ev.type = "task.requested"
  <2>1. [st.pending EXCEPT ![ev.task] = @ + 1] \in [TaskNames -> Nat]
    BY <1>1, <1>3
  <2> QED
    BY <1>3, <2>1 DEF ProcessEvent, EngineState
<1>4. CASE ev.type \notin {"task.completed", "timer.fired", "task.requested"}
  BY <1>1, <1>4 DEF ProcessEvent, EngineState, Statuses, Event
<1> QED
  BY <1>2, <1>3, <1>4

LEMMA EmptyStateTyped == EmptyState \in EngineState /\ Fits(EmptyState)
<1>1. EmptyState \in EngineState
  BY DEF EmptyState, EngineState, Statuses
<1>2. Len(TaskList) \in Nat
  BY TaskListAssumption
<1> QED
  BY <1>1, <1>2 DEF EmptyState, Fits

(* An event that is published is an event.                                 *)
LEMMA NewEventTyped ==
  ASSUME NEW type \in EventTypes, NEW source \in Sources,
         NEW e \in Executions \cup {NoExecution}, NEW n \in TaskNames \cup {NoTask},
         NEW success \in BOOLEAN
  PROVE  LET ev == NewEvent(type, source, e, n, success)
         IN  /\ ev \in Event /\ ev.type = type /\ ev.execution = e
             /\ ev.task = n /\ ev.success = success
BY DEF NewEvent, Event

(* All tasks are calls: executeNextSDLStep requests one, completes the     *)
(* workflow or does nothing.                                               *)
LEMMA NextStepTyped ==
  ASSUME NEW st \in EngineState
  PROVE  /\ NextStep(st) \in Step
         /\ NextStep(st).action \in {"nothing", "request", "complete"}
         /\ NextStep(st).action = "request" => NextStep(st).task \in TaskNames
<1>1. GetNextTask(st) # NoTask => GetNextTask(st) \in TaskNames
  BY TaskListAssumption DEF GetNextTask, EngineState
<1>2. \A n \in TaskNames : DispatchAction(n) = "request"
  BY ControlAssumption DEF DispatchAction
<1>3. CASE GetNextTask(st) # NoTask
  BY <1>1, <1>2, <1>3 DEF NextStep, Step, Actions
<1>4. CASE GetNextTask(st) = NoTask
  BY <1>4 DEF NextStep, Step, Actions
<1> QED
  BY <1>3, <1>4

(* The step follows the list: the next task, if none is pending, or the    *)
(* completion after the last; nothing while a task is pending.             *)
LEMMA NextStepFollows ==
  ASSUME NEW st \in EngineState, Fits(st)
  PROVE  LET k == Len(st.completed)
         IN  /\ NextStep(st).action = "request" =>
                  (k < Len(TaskList) /\ NextStep(st).task = TaskList[k + 1])
             /\ NextStep(st).action = "complete" => k = Len(TaskList)
             /\ NextStep(st).action # "nothing" => ~AnyPending(st)
             /\ NextStep(st).action = "nothing" => k < Len(TaskList)
<1> DEFINE k == Len(st.completed)
<1>1. /\ k \in Nat /\ k <= Len(TaskList) /\ Len(TaskList) \in Nat
      /\ \A i \in 1 .. k : st.completed[i] = TaskList[i]
      /\ \A n \in TaskNames : st.pending[n] > 0 => (k < Len(TaskList) /\ n = TaskList[k + 1])
      /\ DOMAIN st.completed = 1 .. k /\ DOMAIN TaskList = 1 .. Len(TaskList)
      /\ \A i \in 1 .. Len(TaskList) : TaskList[i] \in TaskNames /\ TaskList[i] # NoTask
  BY TaskListAssumption DEF Fits, EngineState
<1> HIDE DEF k
<1>2. CASE k = Len(TaskList)
  <2>1. GetNextTask(st) = NoTask /\ ~AnyPending(st)
    BY <1>1, <1>2 DEF GetNextTask, AnyPending, k
  <2> QED
    BY <1>1, <1>2, <2>1 DEF NextStep, k
<1>3. CASE k < Len(TaskList)
  <2> DEFINE n == TaskList[k + 1]
  <2>1. n \in TaskNames /\ n # NoTask /\ k + 1 \in DOMAIN TaskList
    BY <1>1, <1>3
  <2>2. ~Done(st, n)
    <3>1. \A i \in 1 .. k : i \in DOMAIN TaskList /\ TaskList[i] # n
      BY <1>1, <1>3, <2>1, TaskListAssumption
    <3> QED
      BY <1>1, <3>1 DEF Done
  <2>3. GetNextTask(st) = IF st.pending[n] > 0 THEN NoTask ELSE n
    BY <1>1, <1>3, <2>2 DEF GetNextTask, k
  <2>4. AnyPending(st) => st.pending[n] > 0
    BY <1>1 DEF AnyPending
  <2>5. DispatchAction(n) = "request"
    BY <2>1, ControlAssumption DEF DispatchAction
  <2> HIDE DEF n
  <2>6. CASE st.pending[n] > 0
    BY <1>1, <1>3, <2>3, <2>6 DEF NextStep, k
  <2>7. CASE ~(st.pending[n] > 0)
    BY <1>1, <1>3, <2>1, <2>3, <2>4, <2>5, <2>7 DEF NextStep, k, n
  <2> QED
    BY <2>6, <2>7
<1> QED
  BY <1>1, <1>2, <1>3 DEF k

(* Applying once more an event that the replay holds changes the status at *)
(* most: the start makes it "running", a failure "failed".                 *)
LEMMA AppliedAgain ==
  ASSUME NEW st \in EngineState, Fits(st), NEW ev \in Event,
         \/ ev.type = "execution.started" /\ ev.execution = st.context
         \/ /\ ev.type = "task.completed" /\ ev.task \in TaskNames
            /\ ev.success => Done(st, ev.task)
  PROVE  LET r == ProcessEvent(st, ev)
         IN  /\ r \in EngineState /\ Fits(r)
             /\ r.pending = st.pending /\ r.completed = st.completed
             /\ r.context = st.context
             /\ r.status = IF ev.type = "execution.started" THEN "running"
                           ELSE IF ev.success THEN st.status ELSE "failed"
<1> DEFINE r == ProcessEvent(st, ev)
           n == ev.task
<1>0. r \in EngineState
  BY ProcessEventTyped
<1>1. CASE ev.type = "execution.started" /\ ev.execution = st.context
  <2>1. r = [st EXCEPT !.status = "running", !.context = ev.execution]
    BY <1>1 DEF ProcessEvent
  <2>2. /\ r.pending = st.pending /\ r.completed = st.completed
        /\ r.context = st.context /\ r.status = "running"
    BY <1>1, <2>1 DEF EngineState
  <2> QED
    BY <1>0, <1>1, <2>2 DEF Fits
<1>2. CASE ev.type = "task.completed" /\ ~ev.success
  <2>1. r = [st EXCEPT !.status = "failed"]
    BY <1>2 DEF ProcessEvent, TaskCompleted
  <2>2. /\ r.pending = st.pending /\ r.completed = st.completed
        /\ r.context = st.context /\ r.status = "failed"
    BY <2>1 DEF EngineState
  <2> QED
    BY <1>0, <1>2, <2>2 DEF Fits
<1>3. CASE ev.type = "task.completed" /\ n \in TaskNames /\ ev.success /\ Done(st, n)
  <2>1. PICK i \in DOMAIN st.completed : st.completed[i] = n
    BY <1>3 DEF Done
  <2>2. st.pending[n] = 0
    <3>1. /\ st.pending[n] \in Nat /\ Len(st.completed) \in Nat
          /\ DOMAIN st.completed = 1 .. Len(st.completed)
          /\ DOMAIN TaskList = 1 .. Len(TaskList) /\ Len(TaskList) \in Nat
      BY <1>3, TaskListAssumption DEF EngineState
    <3>2. i \in 1 .. Len(st.completed) /\ i \in DOMAIN TaskList /\ TaskList[i] = n
      BY <2>1, <3>1 DEF Fits
    <3>3. ASSUME st.pending[n] > 0 PROVE FALSE
      <4>1. Len(st.completed) < Len(TaskList) /\ n = TaskList[Len(st.completed) + 1]
        BY <1>3, <3>3 DEF Fits
      <4> QED
        BY <3>1, <3>2, <4>1, TaskListAssumption
    <3> QED
      BY <3>1, <3>3
  <2>3. r = [st EXCEPT !.pending[n] = IF @ > 0 THEN @ - 1 ELSE 0,
                       !.completed = IF Done(st, n) THEN @ ELSE Append(@, n)]
    BY <1>3 DEF ProcessEvent, TaskCompleted
  <2>4. /\ r.pending = [st.pending EXCEPT ![n] = 0] /\ r.completed = st.completed
        /\ r.context = st.context /\ r.status = st.status
    BY <1>3, <2>2, <2>3 DEF EngineState
  <2>5. [st.pending EXCEPT ![n] = 0] = st.pending
    BY <2>2 DEF EngineState
  <2> QED
    BY <1>0, <1>3, <2>4, <2>5 DEF Fits
<1> QED
  BY <1>1, <1>2, <1>3

(* The request for the next task, when none is pending.                    *)
LEMMA RequestFits ==
  ASSUME NEW st \in EngineState, Fits(st), ~AnyPending(st),
         Len(st.completed) < Len(TaskList), NEW ev \in Event,
         ev.type = "task.requested", ev.task = TaskList[Len(st.completed) + 1]
  PROVE  LET r == ProcessEvent(st, ev)
         IN  /\ r \in EngineState /\ Fits(r) /\ ev.task \in TaskNames
             /\ r.pending = [st.pending EXCEPT ![ev.task] = @ + 1]
             /\ r.completed = st.completed
             /\ r.context = st.context /\ r.status = st.status
<1> DEFINE r == ProcessEvent(st, ev)
           n == ev.task
           k == Len(st.completed)
<1>1. /\ n \in TaskNames /\ k \in Nat /\ Len(TaskList) \in Nat
      /\ st.pending \in [TaskNames -> Nat]
  BY TaskListAssumption DEF EngineState
<1>2. r \in EngineState
  BY <1>1, ProcessEventTyped
<1>3. /\ r.pending = [st.pending EXCEPT ![n] = @ + 1] /\ r.completed = st.completed
      /\ r.context = st.context /\ r.status = st.status
  BY DEF ProcessEvent, EngineState
<1>4. \A m \in TaskNames : st.pending[m] = 0
  BY <1>1 DEF AnyPending
<1>5. \A m \in TaskNames : r.pending[m] > 0 => (m = n /\ r.pending[m] = 1)
  BY <1>1, <1>3, <1>4
<1> QED
  BY <1>1, <1>2, <1>3, <1>5 DEF Fits

(* The completion, after the last task.                                    *)
LEMMA CompletionFits ==
  ASSUME NEW st \in EngineState, Fits(st), Len(st.completed) = Len(TaskList),
         NEW ev \in Event, ev.type = "workflow.completed"
  PROVE  LET r == ProcessEvent(st, ev)
         IN  /\ r \in EngineState /\ Fits(r) /\ r.pending = st.pending
             /\ r.completed = st.completed /\ r.context = st.context
             /\ r.status = "completed"
<1> DEFINE r == ProcessEvent(st, ev)
<1>1. r \in EngineState
  BY ProcessEventTyped
<1>2. /\ r.pending = st.pending /\ r.completed = st.completed
      /\ r.context = st.context /\ r.status = "completed"
  BY DEF ProcessEvent, EngineState
<1> QED
  BY <1>1, <1>2 DEF Fits

(* The answer of a pending task, which is the next one.                    *)
LEMMA AnswerFits ==
  ASSUME NEW st \in EngineState, Fits(st), NEW ev \in Event,
         ev.type = "task.completed", ev.task \in TaskNames, st.pending[ev.task] > 0
  PROVE  LET r == ProcessEvent(st, ev)
         IN  /\ r \in EngineState /\ Fits(r) /\ r.context = st.context
             /\ Len(st.completed) < Len(TaskList)
             /\ ~ev.success => (r.pending = st.pending /\ r.status = "failed")
             /\ ev.success => /\ r.pending = [st.pending EXCEPT ![ev.task] = @ - 1]
                              /\ r.status = st.status /\ Done(r, ev.task)
             /\ \A n \in TaskNames : Done(st, n) => Done(r, n)
<1> DEFINE r == ProcessEvent(st, ev)
           n == ev.task
           k == Len(st.completed)
<1>1. /\ k \in Nat /\ Len(TaskList) \in Nat /\ DOMAIN TaskList = 1 .. Len(TaskList)
      /\ st.completed \in Seq(TaskNames) /\ DOMAIN st.completed = 1 .. k
      /\ st.pending \in [TaskNames -> Nat]
  BY TaskListAssumption DEF EngineState
<1>2. /\ k < Len(TaskList) /\ n = TaskList[k + 1] /\ st.pending[n] = 1
      /\ \A i \in 1 .. k : st.completed[i] = TaskList[i]
      /\ \A m \in TaskNames : st.pending[m] > 0 => m = n
      /\ st.status # "completed"
  BY <1>1 DEF Fits
<1>3. r \in EngineState
  BY ProcessEventTyped
<1>4. CASE ~ev.success
  <2>1. r = [st EXCEPT !.status = "failed"]
    BY <1>4 DEF ProcessEvent, TaskCompleted
  <2>2. /\ r.pending = st.pending /\ r.completed = st.completed
        /\ r.context = st.context /\ r.status = "failed"
    BY <2>1 DEF EngineState
  <2> QED
    BY <1>2, <1>3, <1>4, <2>2 DEF Fits, Done
<1>5. CASE ev.success
  <2>1. ~Done(st, n)
    <3>1. ASSUME NEW i \in 1 .. k PROVE TaskList[i] # TaskList[k + 1]
      <4>1. i \in DOMAIN TaskList /\ k + 1 \in DOMAIN TaskList /\ i # k + 1
        BY <1>1, <1>2
      <4> QED
        BY <4>1, TaskListAssumption
    <3> QED
      BY <1>1, <1>2, <3>1 DEF Done
  <2>2. r = [st EXCEPT !.pending[n] = IF @ > 0 THEN @ - 1 ELSE 0,
                       !.completed = IF Done(st, n) THEN @ ELSE Append(@, n)]
    BY <1>5 DEF ProcessEvent, TaskCompleted
  <2>3. /\ r.pending = [st.pending EXCEPT ![n] = @ - 1]
        /\ r.completed = Append(st.completed, n)
        /\ r.context = st.context /\ r.status = st.status
    BY <1>1, <1>2, <2>1, <2>2 DEF EngineState
  <2>4. /\ Len(r.completed) = k + 1 /\ DOMAIN r.completed = 1 .. k + 1
        /\ r.completed[k + 1] = n
        /\ \A i \in 1 .. k : r.completed[i] = st.completed[i]
    BY <1>1, <2>3
  <2>5. \A m \in TaskNames : r.pending[m] = 0
    BY <1>1, <1>2, <2>3
  <2>6. \A i \in 1 .. k + 1 : r.completed[i] = TaskList[i]
    BY <1>1, <1>2, <2>4
  <2>7. Fits(r)
    <3> HIDE DEF r, k
    <3>1. /\ Len(r.completed) = k + 1 /\ k + 1 <= Len(TaskList)
          /\ r.status # "completed"
      BY <1>1, <1>2, <2>3, <2>4
    <3>2. \A m \in TaskNames : ~(r.pending[m] > 0)
      BY <2>5
    <3> QED
      BY <2>6, <3>1, <3>2 DEF Fits
  <2>8. Done(r, n) /\ \A m \in TaskNames : Done(st, m) => Done(r, m)
    <3> HIDE DEF r, k
    <3> QED
      BY <1>1, <2>4 DEF Done
  <2> QED
    BY <1>2, <1>3, <1>5, <2>3, <2>7, <2>8
<1> QED
  BY <1>4, <1>5

-----------------------------------------------------------------------------
LEMMA RecordIsThere == NoRecord \notin Record
BY DEF NoRecord, Record, RecordStatuses

LEMMA IdleJobTyped == IdleJob \in Jobs /\ IdleJob.phase = "idle"
<1>1. Nothing \in Step
  BY DEF Nothing, Step, Actions
<1>2. 0 \in 0 .. MaxAttempts
  BY ControlAssumption
<1>3. "created" \in Statuses
  BY DEF Statuses
<1> QED
  BY <1>1, <1>2, <1>3 DEF IdleJob, Jobs

(* The first state satisfies the invariant.                                *)
LEMMA InitControlInv == Init => ControlInv
<1> SUFFICES ASSUME Init PROVE ControlInv
  OBVIOUS
<1>1. Typed
  <2>1. IdleRequest \in CancelRequests
    BY DEF IdleRequest, CancelRequests
  <2>2. 0 \in 0 .. MaxFaults
    BY ControlAssumption
  <2> QED
    BY <2>1, <2>2, IdleJobTyped, EmptyStateTyped DEF Init, Typed
<1>2. ASSUME NEW e \in Executions PROVE StreamOK(e) /\ RecordOK(e)
  BY DEF Init, StreamOK, RecordOK, Exists
<1>3. ASSUME NEW e \in Executions PROVE HistoryOK(e)
  <2>1. replay[e] = EmptyState /\ triggers[e] = <<>> /\ asked[e] = EmptyState.pending
    BY DEF Init, EmptyState
  <2>2. EmptyState.status = "created"
    BY DEF EmptyState
  <2> QED
    BY <2>1, <2>2, EmptyStateTyped DEF HistoryOK, TaskFailed
<1>4. \A g \in Permits : JobOK(g)
  BY IdleJobTyped, ControlAssumption DEF Init, JobOK, Busy, Holds
<1>5. \A g, h \in Permits : Apart(g, h)
  BY IdleJobTyped DEF Init, Apart, Busy
<1>6. \A c \in Requests : RequestOK(c)
  BY DEF Init, RequestOK, IdleRequest
<1> QED
  BY <1>1, <1>2, <1>3, <1>4, <1>5, <1>6 DEF ControlInv

-----------------------------------------------------------------------------
(* What every step leaves.                                                 *)

(* Records stay, requests that wrote have written, failures are counted,   *)
(* and what was read as empty or attempted again is remembered.            *)
Grows ==
  /\ \A e \in Executions : Exists(e) => Exists(e)'
  /\ \A c \in Requests : \A e \in Executions : Wrote(c, e) => Wrote(c, e)'
  /\ faults <= faults' /\ faults' \in 0 .. MaxFaults
  /\ unread \subseteq unread' /\ restarted \subseteq restarted'

LEMMA FaultsGrow ==
  ASSUME Typed, Grows
  PROVE  faults \in Nat /\ faults' \in Nat /\ (faults > 0 => faults' > 0)
BY ControlAssumption DEF Typed, Grows

(* A call to Redis succeeds, or fails and is counted.                      *)
LEMMA CallCounted ==
  ASSUME Typed, Succeed \/ Fault
  PROVE  faults <= faults' /\ faults' \in 0 .. MaxFaults /\ (Fault => faults' > 0)
BY ControlAssumption DEF Typed, Succeed, Fault

(* What is known of a copy stays known.                                    *)
LEMMA CopyStays ==
  ASSUME Typed, Grows, NEW r, NEW e \in Executions, CopyOK(r, e)
  PROVE  CopyOK(r, e)'
<1>1. r.started # "api" => faults' > 0
  BY FaultsGrow DEF CopyOK
<1>2. r.tenant # "own" => (\E c \in Requests : Wrote(c, e))'
  BY DEF CopyOK, Grows
<1> QED
  BY <1>1, <1>2 DEF CopyOK

(* The stream of an execution that a step leaves.                          *)
LEMMA StreamStays ==
  ASSUME Grows, NEW e \in Executions, StreamOK(e),
         replay'[e] = replay[e], triggers'[e] = triggers[e], asked'[e] = asked[e],
         handled'[e] \cup dead'[e] \subseteq DOMAIN triggers[e],
         Begun(e) => Begun(e)'
  PROVE  StreamOK(e)' /\ (HistoryOK(e) => HistoryOK(e)')
<1>1. \A i \in DOMAIN triggers[e] : TriggerOK(e, i) => TriggerOK(e, i)'
  BY DEF TriggerOK
<1>2. StreamOK(e)'
  BY <1>1 DEF StreamOK, Grows
<1>3. HistoryOK(e) => HistoryOK(e)'
  BY DEF HistoryOK, TaskFailed
<1> QED
  BY <1>2, <1>3

(* The end of an execution that a step leaves.                             *)
LEMMA TellsStays ==
  ASSUME Grows, NEW e \in Executions, NEW s, Tells(e, s), triggers'[e] = triggers[e],
         replay'[e].completed = replay[e].completed
  PROVE  Tells(e, s)'
BY DEF Tells, Succeeded, TaskFailed, Grows

(* A record that a step leaves.                                            *)
LEMMA RecordStays ==
  ASSUME Typed, Grows, NEW e \in Executions, RecordOK(e),
         record'[e] = record[e], triggers'[e] = triggers[e],
         replay'[e].completed = replay[e].completed, handled'[e] = handled[e]
  PROVE  RecordOK(e)'
<1>1. PICK r : r = record[e]
  OBVIOUS
<1>2. Exists(e)' => Exists(e)
  BY DEF Exists
<1>3. Exists(e) => CopyOK(r, e)'
  BY <1>1, CopyStays DEF RecordOK
<1>4. Tells(e, r.status) => Tells(e, r.status)'
  BY TellsStays
<1>5. (\E c \in Requests : Wrote(c, e)) => (\E c \in Requests : Wrote(c, e))'
  BY DEF Grows
<1>6. /\ Succeeded(e)' <=> Succeeded(e)
      /\ e \notin unread' => e \notin unread
  BY DEF Succeeded, Grows
<1> QED
  BY <1>1, <1>2, <1>3, <1>4, <1>5, <1>6 DEF RecordOK, CopyOK, Tells

(* A request to cancel that a step leaves.                                 *)
LEMMA RequestStays ==
  ASSUME Typed, Grows, NEW c \in Requests, RequestOK(c), request'[c] = request[c]
  PROVE  RequestOK(c)'
<1>1. request[c].execution \in Executions /\ Exists(request[c].execution) =>
        Exists(request[c].execution)'
  BY DEF Grows, Exists
<1> QED
  BY <1>1, FaultsGrow DEF RequestOK, Exists

(* The job of the goroutine that holds the mutex, when the step of another *)
(* actor leaves the execution it is about, but for its record.             *)
LEMMA HolderStays ==
  ASSUME Typed, Grows, NEW e \in Executions, NEW j, j.execution = e, HolderOK(j),
         replay'[e] = replay[e], triggers'[e] = triggers[e], handled'[e] = handled[e],
         record'[e].status = "completed" => record[e].status = "completed"
  PROVE  HolderOK(j)'
<1>1. PICK r : r = j.seen
  OBVIOUS
<1>2. j.phase \in {"storing", "writing"} =>
        IF r = NoRecord THEN (j.context = e => faults' > 0) ELSE CopyOK(r, e)'
  BY <1>1, CopyStays, FaultsGrow DEF HolderOK
<1>3. StepOK(j, e) => StepOK(j, e)'
  BY DEF StepOK, Succeeded
<1>4. StatusOK(j, e) => StatusOK(j, e)'
  <2>1. PICK s : s = j.status
    OBVIOUS
  <2>2. Tells(e, s) => Tells(e, s)'
    BY TellsStays
  <2>3. (LastIn(e, j.event)' <=> LastIn(e, j.event)) /\ (Succeeded(e)' <=> Succeeded(e))
    BY DEF LastIn, Succeeded
  <2> QED
    BY <2>1, <2>2, <2>3 DEF StatusOK, Tells, LastIn, Succeeded
<1>5. e \notin unread' => e \notin unread
  BY DEF Grows
<1> QED
  BY <1>1, <1>2, <1>3, <1>4, <1>5 DEF HolderOK, StepOK, StatusOK, CopyOK

(* What a step that is not the worker's leaves of its jobs.                *)
LEMMA JobsStay ==
  ASSUME ControlInv, UNCHANGED <<handled, dead, lock, job>>,
         \A e \in Executions : DOMAIN triggers[e] \subseteq DOMAIN triggers'[e],
         \A g \in Permits : Holds(g) => HolderOK(job[g])'
  PROVE  /\ \A g \in Permits : JobOK(g)'
         /\ \A g, h \in Permits : Apart(g, h)'
         /\ \A e \in Executions : Begun(e) => Begun(e)'
<1>1. ASSUME NEW g \in Permits PROVE JobOK(g)'
  <2>1. JobOK(g) /\ job'[g] = job[g]
    BY DEF ControlInv
  <2>2. (Busy(g)' <=> Busy(g)) /\ (Holds(g)' <=> Holds(g))
    BY DEF Busy, Holds
  <2>3. Holds(g) => HolderOK(job[g])'
    OBVIOUS
  <2> QED
    BY <2>1, <2>2, <2>3 DEF JobOK
<1>2. \A g, h \in Permits : Apart(g, h)'
  BY DEF ControlInv, Apart, Busy
<1>3. \A e \in Executions : Begun(e) => Begun(e)'
  BY DEF Begun, Holds
<1> QED
  BY <1>1, <1>2, <1>3

LEMMA HolderIs ==
  ASSUME NEW g \in Permits, NEW j, job'[g] = j, HolderOK(j)'
  PROVE  HolderOK(job[g])'
BY DEF HolderOK, StepOK, StatusOK, CopyOK, LastIn, Tells

(* What a write leaves in the store (UpdateExecution).                     *)
LEMMA RecordWritten ==
  ASSUME Typed, NEW e \in Executions, NEW new \in Record, UpdateExecution(e, new),
         new.status \in Terminal => new.done, CopyOK(new, e)',
         e \notin unread' =>
           /\ new.status = "completed" => Succeeded(e)'
           /\ Len(triggers'[e]) \in handled'[e] =>
                \/ Tells(e, new.status)'
                \/ /\ new.status = "failed" /\ (\E c \in Requests : Wrote(c, e))'
  PROVE  /\ record' \in [Executions -> Record \cup {NoRecord}]
         /\ record'[e].status = new.status
         /\ Exists(e)' /\ RecordOK(e)'
         /\ \A x \in Executions \ {e} : record'[x] = record[x]
<1>1. record' = [record EXCEPT ![e] = [new EXCEPT !.done = @ /\ new.status \in Terminal]]
  BY ExecutionsAssumption DEF UpdateExecution
<1>2. record'[e] = [new EXCEPT !.done = @ /\ new.status \in Terminal]
  BY <1>1 DEF Typed
<1>3. /\ record'[e] \in Record /\ record'[e].status = new.status
      /\ record'[e].started = new.started /\ record'[e].tenant = new.tenant
      /\ record'[e].done = (new.done /\ new.status \in Terminal)
  <2> DEFINE d == new.done /\ new.status \in Terminal
  <2>1. d \in BOOLEAN /\ record'[e] = [new EXCEPT !.done = d]
    BY <1>2
  <2> HIDE DEF d
  <2>2. /\ record'[e] \in Record /\ record'[e].status = new.status
        /\ record'[e].started = new.started /\ record'[e].tenant = new.tenant
        /\ record'[e].done = d
    BY <2>1 DEF Record
  <2> QED
    BY <2>2 DEF d
<1>4. record' \in [Executions -> Record \cup {NoRecord}]
  BY <1>1, <1>2, <1>3 DEF Typed
<1>5. Exists(e)'
  BY <1>3, RecordIsThere DEF Exists
<1>6. record'[e].done <=> record'[e].status \in Terminal
  <2>1. CASE new.status \in Terminal
    BY <1>3, <2>1
  <2>2. CASE new.status \notin Terminal
    BY <1>3, <2>2
  <2> QED
    BY <2>1, <2>2
<1>7. CopyOK(record[e], e)'
  BY <1>3 DEF CopyOK
<1>8. Tells(e, new.status)' => Tells(e, record[e].status)'
  BY <1>3 DEF Tells
<1>9. RecordOK(e)'
  BY <1>3, <1>6, <1>7, <1>8 DEF RecordOK
<1> QED
  BY <1>1, <1>3, <1>4, <1>5, <1>9 DEF Typed

-----------------------------------------------------------------------------
(* The steps of the API and of the executors.                              *)

(* A new record, with or without its start in the stream.                  *)
LEMMA ExecuteWorkflowKeeps ==
  ASSUME ControlInv, NEW x \in Executions, ExecuteWorkflow(x)
  PROVE  ControlInv'
<1> DEFINE ev == NewEvent("execution.started", "api", x, NoTask, TRUE)
           new == [status |-> "pending", started |-> "api", done |-> FALSE,
                   tenant |-> "own"]
<1>1. /\ Typed /\ ~Exists(x) /\ StreamOK(x) /\ record' = [record EXCEPT ![x] = new]
      /\ UNCHANGED <<handled, dead, lock, job, request, unread, restarted>>
      /\ Publish(ev) \/ UNCHANGED streamVars
      /\ Succeed \/ Fault
  BY DEF ControlInv, ExecuteWorkflow, CreateExecution, PublishFails, workerVars, pastVars
<1>2. /\ ev \in Event /\ ev.type = "execution.started" /\ ev.execution = x
      /\ ev.task = NoTask /\ ev.success = TRUE
  <2>1. "execution.started" \in EventTypes /\ "api" \in Sources
    BY DEF EventTypes, Sources
  <2> QED
    BY <2>1, NewEventTyped
<1>3. /\ triggers[x] = <<>> /\ replay[x] = EmptyState /\ handled[x] = {} /\ dead[x] = {}
      /\ \A n \in TaskNames : asked[x][n] = 0
  BY <1>1 DEF StreamOK, Exists
<1>4. asked[x] = EmptyState.pending
  BY <1>1, <1>3 DEF EmptyState, Typed
<1>5. /\ record'[x] = new /\ record'[x] \in Record
      /\ \A e \in Executions \ {x} : record'[e] = record[e]
      /\ record' \in [Executions -> Record \cup {NoRecord}]
  BY <1>1 DEF Typed, Record, RecordStatuses
<1>6. Exists(x)'
  BY <1>5, RecordIsThere DEF Exists
<1>7. Grows
  <2>1. \A e \in Executions : Exists(e) => Exists(e)'
    BY <1>5, <1>6 DEF Exists
  <2> QED
    BY <1>1, <2>1, CallCounted DEF Grows, Wrote
<1> HIDE DEF ev, new
<1>8. \/ UNCHANGED streamVars
      \/ /\ replay' = [replay EXCEPT ![x] = ProcessEvent(EmptyState, ev)]
         /\ triggers' = [triggers EXCEPT ![x] = <<ev>>]
         /\ asked' = asked
  <2>1. CASE Publish(ev)
    <3>1. x # NoExecution
      BY ExecutionsAssumption
    <3>2. /\ replay' = [replay EXCEPT ![x] = ProcessEvent(@, ev)]
          /\ triggers' = [triggers EXCEPT ![x] = Append(@, ev)] /\ asked' = asked
      BY <1>2, <2>1, <3>1 DEF Publish
    <3>3. Append(triggers[x], ev) = <<ev>>
      BY <1>2, <1>3
    <3> QED
      BY <1>1, <1>3, <3>2, <3>3 DEF Typed
  <2> QED
    BY <1>1, <2>1
<1>9. \A e \in Executions \ {x} : /\ replay'[e] = replay[e] /\ triggers'[e] = triggers[e]
                                  /\ asked'[e] = asked[e]
  BY <1>1, <1>8 DEF Typed, streamVars
<1>10. Typed'
  <2>1. ProcessEvent(EmptyState, ev) \in EngineState /\ <<ev>> \in Seq(Event)
    BY <1>2, EmptyStateTyped, ProcessEventTyped
  <2>2. /\ replay' \in [Executions -> EngineState] /\ triggers' \in [Executions -> Seq(Event)]
        /\ asked' \in [Executions -> [TaskNames -> Nat]]
    BY <1>1, <1>8, <2>1 DEF Typed, streamVars
  <2> QED
    BY <1>1, <1>5, <1>7, <2>2 DEF Typed, Grows
<1>11. StreamOK(x)' /\ HistoryOK(x)'
  <2>1. CASE UNCHANGED streamVars
    <3>1. /\ replay'[x] = EmptyState /\ triggers'[x] = <<>> /\ handled'[x] \cup dead'[x] = {}
          /\ asked'[x] = EmptyState.pending /\ \A n \in TaskNames : asked'[x][n] = 0
      BY <1>1, <1>3, <1>4, <2>1 DEF streamVars
    <3>2. EmptyState.status = "created"
      BY DEF EmptyState
    <3> QED
      BY <3>1, <3>2, EmptyStateTyped DEF StreamOK, HistoryOK, TaskFailed
  <2>2. CASE ~UNCHANGED streamVars
    <3>1. /\ replay'[x] = ProcessEvent(EmptyState, ev) /\ triggers'[x] = <<ev>>
          /\ asked'[x] = EmptyState.pending /\ handled'[x] \cup dead'[x] = {}
          /\ \A n \in TaskNames : asked'[x][n] = 0
      BY <1>1, <1>3, <1>4, <1>8, <2>2 DEF Typed
    <3>2. replay'[x] = [EmptyState EXCEPT !.status = "running", !.context = x]
      BY <1>2, <3>1 DEF ProcessEvent
    <3>3. /\ replay'[x].status = "running" /\ replay'[x].context = x
          /\ replay'[x].pending = EmptyState.pending
          /\ replay'[x].completed = EmptyState.completed
      BY <3>2 DEF EmptyState
    <3>4. /\ Len(triggers'[x]) = 1 /\ DOMAIN triggers'[x] = {1} /\ triggers'[x][1] = ev
          /\ triggers'[x] # <<>>
      BY <3>1
    <3>5. TriggerOK(x, 1)'
      <4>1. ev = NewEvent("execution.started", "api", x, NoTask, TRUE)
        BY DEF ev
      <4>2. triggers'[x][1] = ev /\ ev.execution = x /\ ~(1 > 1)
        BY <1>2, <3>4
      <4> QED
        BY <4>1, <4>2 DEF TriggerOK
    <3>6. StreamOK(x)'
      BY <1>6, <3>1, <3>3, <3>4, <3>5 DEF StreamOK
    <3>7. Fits(replay[x])'
      BY <3>3, EmptyStateTyped DEF Fits, EmptyState
    <3>8. ~TaskFailed(x)'
      BY <1>2, <3>4 DEF TaskFailed
    <3> QED
      BY <3>1, <3>3, <3>4, <3>6, <3>7, <3>8 DEF HistoryOK
  <2> QED
    BY <2>1, <2>2
<1>12. RecordOK(x)'
  <2>1. ~(Len(triggers'[x]) \in handled'[x])
    BY <1>1, <1>3
  <2> QED
    BY <1>5, <2>1 DEF RecordOK, CopyOK, Terminal, new
<1>13. ASSUME NEW g \in Permits, Holds(g) PROVE HolderOK(job[g])'
  <2>1. PICK j : j = job[g]
    OBVIOUS
  <2>2. /\ HolderOK(j) /\ j.execution \in Executions /\ j.execution # x
    BY <1>3, <1>13, <2>1 DEF ControlInv, JobOK, Busy, Holds
  <2>3. HolderOK(j)'
    BY <1>1, <1>5, <1>7, <1>9, <2>2, HolderStays
  <2> QED
    BY <1>1, <2>1, <2>3, HolderIs
<1>14. \A e \in Executions : DOMAIN triggers[e] \subseteq DOMAIN triggers'[e]
  BY <1>3, <1>9
<1>15. /\ \A g \in Permits : JobOK(g)'
       /\ \A g, h \in Permits : Apart(g, h)'
       /\ \A e \in Executions : Begun(e) => Begun(e)'
  BY <1>1, <1>13, <1>14, JobsStay
<1>16. ASSUME NEW e \in Executions, e # x
       PROVE  StreamOK(e)' /\ RecordOK(e)' /\ (e \notin unread' => HistoryOK(e)')
  <2>1. /\ StreamOK(e) /\ RecordOK(e) /\ handled'[e] = handled[e] /\ dead'[e] = dead[e]
        /\ e \notin unread' => HistoryOK(e)
    BY <1>1 DEF ControlInv
  <2>2. RecordOK(e)'
    BY <1>1, <1>5, <1>7, <1>9, <1>16, <2>1, RecordStays
  <2>3. handled'[e] \cup dead'[e] \subseteq DOMAIN triggers[e]
    BY <2>1 DEF StreamOK
  <2> QED
    BY <1>7, <1>9, <1>15, <1>16, <2>1, <2>2, <2>3, StreamStays
<1>17. \A c \in Requests : RequestOK(c)'
  BY <1>1, <1>7, RequestStays DEF ControlInv
<1> QED
  BY <1>10, <1>11, <1>12, <1>15, <1>16, <1>17 DEF ControlInv

(* An answer takes the request of the next task and wakes the worker.      *)
LEMMA ExecutorAnswersKeeps ==
  ASSUME ControlInv, NEW x \in Executions, NEW n \in TaskNames, NEW success \in BOOLEAN,
         ExecutorAnswers(x, n, success)
  PROVE  ControlInv'
<1> DEFINE ev == NewEvent("task.completed", "executor-service", x, n, success)
           st == replay[x]
<1>1. /\ Typed /\ StreamOK(x) /\ RecordOK(x) /\ asked[x][n] > 0 /\ Publish(ev)
      /\ UNCHANGED <<record, handled, dead, lock, job, request, faults, unread, restarted>>
  BY DEF ControlInv, ExecutorAnswers, workerVars, pastVars
<1>2. /\ ev \in Event /\ ev.type = "task.completed" /\ ev.execution = x
      /\ ev.task = n /\ ev.success = success
  <2>1. "task.completed" \in EventTypes /\ "executor-service" \in Sources
    BY DEF EventTypes, Sources
  <2> QED
    BY <2>1, NewEventTyped
<1> HIDE DEF ev
<1>3. /\ replay' = [replay EXCEPT ![x] = ProcessEvent(@, ev)]
      /\ triggers' = [triggers EXCEPT ![x] = Append(@, ev)]
      /\ asked' = [asked EXCEPT ![x][n] = @ - 1]
  <2>1. x # NoExecution
    BY ExecutionsAssumption
  <2> QED
    BY <1>1, <1>2, <2>1 DEF Publish
<1>4. /\ st \in EngineState /\ asked[x] \in [TaskNames -> Nat] /\ triggers[x] \in Seq(Event)
      /\ replay'[x] = ProcessEvent(st, ev) /\ triggers'[x] = Append(triggers[x], ev)
      /\ asked'[x] = [asked[x] EXCEPT ![n] = @ - 1]
      /\ \A e \in Executions \ {x} : /\ replay'[e] = replay[e] /\ triggers'[e] = triggers[e]
                                     /\ asked'[e] = asked[e]
  BY <1>1, <1>3 DEF Typed
<1>5. /\ Len(triggers[x]) \in Nat /\ DOMAIN triggers[x] = 1 .. Len(triggers[x])
      /\ Len(triggers'[x]) = Len(triggers[x]) + 1
      /\ DOMAIN triggers'[x] = 1 .. Len(triggers[x]) + 1
      /\ triggers'[x][Len(triggers[x]) + 1] = ev
      /\ \A i \in DOMAIN triggers[x] : triggers'[x][i] = triggers[x][i]
      /\ triggers'[x] # <<>>
  <2>1. PICK s \in Seq(Event) : s = triggers[x]
    BY <1>4
  <2>2. triggers'[x] = Append(s, ev)
    BY <1>4, <2>1
  <2>3. /\ Len(s) \in Nat /\ DOMAIN s = 1 .. Len(s)
        /\ Len(Append(s, ev)) = Len(s) + 1 /\ DOMAIN Append(s, ev) = 1 .. Len(s) + 1
        /\ Append(s, ev)[Len(s) + 1] = ev
        /\ \A i \in 1 .. Len(s) : Append(s, ev)[i] = s[i]
    BY <1>2
  <2>4. Append(s, ev) # <<>>
    BY <2>3
  <2> QED
    BY <2>1, <2>2, <2>3, <2>4
<1>6. triggers[x] # <<>> /\ Len(triggers[x]) > 0 /\ Exists(x) /\ Begun(x) /\ st.context = x
  <2>1. triggers[x] # <<>> /\ Begun(x)
    BY <1>1 DEF StreamOK
  <2> QED
    BY <1>1, <1>4, <2>1 DEF StreamOK
<1>7. Grows
  <2>1. faults \in 0 .. MaxFaults /\ faults <= faults
    BY <1>1, ControlAssumption DEF Typed
  <2> QED
    BY <1>1, <2>1 DEF Grows, Exists, Wrote
<1>8. Typed'
  <2>1. ProcessEvent(st, ev) \in EngineState /\ Append(triggers[x], ev) \in Seq(Event)
    BY <1>2, <1>4, ProcessEventTyped
  <2>2. [asked[x] EXCEPT ![n] = @ - 1] \in [TaskNames -> Nat]
    BY <1>1, <1>4
  <2>3. /\ replay' \in [Executions -> EngineState] /\ triggers' \in [Executions -> Seq(Event)]
        /\ asked' \in [Executions -> [TaskNames -> Nat]]
    BY <1>1, <1>3, <1>4, <2>1, <2>2 DEF Typed
  <2> QED
    BY <1>1, <2>3 DEF Typed
(* What the answer does to a history that was never taken for empty.       *)
<1>9. ASSUME x \notin unread
      PROVE  /\ Fits(st) /\ ~TaskFailed(x) /\ asked[x] = st.pending /\ st.pending[n] > 0
             /\ AnyPending(st) /\ ~Succeeded(x) /\ st.status # "failed"
             /\ HistoryOK(x)'
  <2>1. HistoryOK(x) /\ Fits(st)
    BY <1>9 DEF ControlInv, HistoryOK
  <2>2. /\ ~TaskFailed(x) /\ asked[x] = st.pending /\ st.pending[n] > 0
        /\ st.status # "failed"
    BY <1>1, <2>1 DEF HistoryOK
  <2>3. AnyPending(st)
    BY <2>2 DEF AnyPending
  <2>4. /\ Fits(replay[x])' /\ Len(st.completed) < Len(TaskList)
        /\ ~success => (replay'[x].pending = st.pending /\ replay'[x].status = "failed")
        /\ success => /\ replay'[x].pending = [st.pending EXCEPT ![n] = @ - 1]
                      /\ replay'[x].status = st.status /\ Done(replay'[x], n)
        /\ \A m \in TaskNames : Done(st, m) => Done(replay'[x], m)
    <3>1. PICK r : r = ProcessEvent(st, ev)
      OBVIOUS
    <3>2. /\ Fits(r) /\ Len(st.completed) < Len(TaskList)
          /\ ~success => (r.pending = st.pending /\ r.status = "failed")
          /\ success => /\ r.pending = [st.pending EXCEPT ![n] = @ - 1]
                        /\ r.status = st.status /\ Done(r, n)
          /\ \A m \in TaskNames : Done(st, m) => Done(r, m)
      BY <1>2, <1>4, <2>1, <2>2, <3>1, AnswerFits
    <3> QED
      BY <1>4, <3>1, <3>2 DEF Fits
  <2>5. ~Succeeded(x)
    BY <2>4, TaskListAssumption DEF Succeeded
  <2>6. ASSUME NEW i \in DOMAIN triggers'[x], i > 1, triggers'[x][i].success
        PROVE  Done(replay'[x], triggers'[x][i].task)
    <3>1. CASE i = Len(triggers[x]) + 1
      BY <1>2, <1>5, <2>4, <2>6, <3>1
    <3>2. CASE i \in DOMAIN triggers[x]
      <4>1. TriggerOK(x, i) /\ triggers'[x][i] = triggers[x][i]
        BY <1>1, <1>5, <3>2 DEF StreamOK
      <4> QED
        BY <2>1, <2>4, <2>6, <3>2, <4>1 DEF HistoryOK, TriggerOK
    <3> QED
      BY <1>5, <2>6, <3>1, <3>2
  <2>7. TaskFailed(x)' <=> ~success
    BY <1>2, <1>5, <2>2 DEF TaskFailed
  <2>8. HistoryOK(x)'
    <3>1. CASE success
      <4>1. asked'[x] = replay'[x].pending
        BY <1>4, <2>2, <2>4, <3>1
      <4> QED
        BY <2>2, <2>4, <2>6, <2>7, <3>1, <4>1 DEF HistoryOK
    <3>2. CASE ~success
      <4>1. \A m \in TaskNames : asked'[x][m] = 0
        <5>1. \A m \in TaskNames : /\ st.pending[m] > 0 => m = TaskList[Len(st.completed) + 1]
                                   /\ st.pending[m] > 0 => st.pending[m] = 1
                                   /\ st.pending[m] \in Nat
          BY <1>4, <2>1 DEF Fits, EngineState
        <5> QED
          BY <1>4, <2>2, <5>1
      <4>2. AnyPending(replay[x])'
        BY <2>2, <2>4, <3>2 DEF AnyPending
      <4> QED
        BY <2>4, <2>6, <2>7, <3>2, <4>1, <4>2 DEF HistoryOK
    <3> QED
      BY <3>1, <3>2
  <2> QED
    BY <2>1, <2>2, <2>3, <2>5, <2>8
<1>10. ASSUME NEW g \in Permits, Holds(g) PROVE HolderOK(job[g])'
  <2>1. PICK j : j = job[g]
    OBVIOUS
  <2>2. /\ HolderOK(j) /\ j.execution \in Executions
        /\ j.event \in DOMAIN triggers[j.execution]
    BY <1>10, <2>1 DEF ControlInv, JobOK, Busy, Holds
  <2>3. CASE j.execution # x
    <3>1. HolderOK(j)'
      BY <1>1, <1>4, <1>7, <2>2, <2>3, HolderStays
    <3> QED
      BY <1>1, <2>1, <3>1, HolderIs
  <2>4. CASE j.execution = x
    <3>1. PICK r : r = j.seen
      OBVIOUS
    <3>2. j.phase \in {"storing", "writing"} =>
            IF r = NoRecord THEN (j.context = x => faults' > 0) ELSE CopyOK(r, x)'
      BY <1>1, <1>7, <2>2, <2>4, <3>1, CopyStays, FaultsGrow DEF HolderOK
    <3>3. ASSUME x \notin unread PROVE j.phase # "publishing" /\ StatusOK(j, x)'
      <4>1. j.phase # "publishing" /\ StatusOK(j, x)
        BY <1>9, <2>2, <2>4, <3>3 DEF HolderOK, StepOK
      <4>2. ~Succeeded(x) /\ j.status # "completed"
        BY <1>9, <3>3, <4>1 DEF StatusOK
      <4>3. record'[x].status # "completed"
        BY <1>1, <4>1, <4>2 DEF StatusOK
      <4>4. ~LastIn(x, j.event)'
        BY <1>1, <1>5, <2>2, <2>4 DEF LastIn, StreamOK
      <4> QED
        BY <4>1, <4>2, <4>3, <4>4 DEF StatusOK
    <3>4. HolderOK(j)'
      BY <1>1, <2>2, <2>4, <3>1, <3>2, <3>3 DEF HolderOK, CopyOK, StatusOK
    <3> QED
      BY <1>1, <2>1, <3>4, HolderIs
  <2> QED
    BY <2>3, <2>4
<1>11. \A e \in Executions : DOMAIN triggers[e] \subseteq DOMAIN triggers'[e]
  BY <1>4, <1>5
<1>12. /\ \A g \in Permits : JobOK(g)'
       /\ \A g, h \in Permits : Apart(g, h)'
       /\ \A e \in Executions : Begun(e) => Begun(e)'
  BY <1>1, <1>10, <1>11, JobsStay
<1>13. StreamOK(x)'
  <2>1. \A i \in DOMAIN triggers'[x] : TriggerOK(x, i)'
    <3>1. ASSUME NEW i \in DOMAIN triggers[x] PROVE TriggerOK(x, i)'
      BY <1>1, <1>5, <3>1 DEF StreamOK, TriggerOK
    <3>2. PICK l \in Nat : l = Len(triggers[x])
      BY <1>5
    <3>3. l > 0 /\ l + 1 # 1 /\ triggers'[x][l + 1] = ev
      BY <1>5, <1>6, <3>2
    <3>4. TriggerOK(x, l + 1)'
      BY <1>2, <3>3 DEF TriggerOK
    <3>5. \A i \in DOMAIN triggers'[x] : i \in DOMAIN triggers[x] \/ i = l + 1
      BY <1>5, <3>2
    <3> QED
      BY <3>1, <3>4, <3>5 DEF TriggerOK
  <2>2. replay'[x].context = x
    BY <1>2, <1>4, <1>6 DEF ProcessEvent, TaskCompleted, EngineState
  <2>3. handled'[x] \cup dead'[x] \subseteq DOMAIN triggers'[x]
    BY <1>1, <1>11 DEF StreamOK
  <2> QED
    BY <1>1, <1>5, <1>6, <1>7, <1>12, <2>1, <2>2, <2>3 DEF StreamOK, Grows
<1>14. RecordOK(x)'
  <2>1. PICK r : r = record[x]
    OBVIOUS
  <2>2. CopyOK(r, x)'
    BY <1>1, <1>6, <1>7, <2>1, CopyStays DEF RecordOK
  <2>3. Len(triggers'[x]) \notin handled'[x]
    BY <1>1, <1>5 DEF StreamOK
  <2>4. x \notin unread => record[x].status # "completed"
    BY <1>1, <1>6, <1>9 DEF RecordOK
  <2> QED
    BY <1>1, <1>6, <2>1, <2>2, <2>3, <2>4 DEF RecordOK, CopyOK
<1>15. ASSUME NEW e \in Executions, e # x
       PROVE  StreamOK(e)' /\ RecordOK(e)' /\ (e \notin unread' => HistoryOK(e)')
  <2>1. /\ StreamOK(e) /\ RecordOK(e) /\ handled'[e] = handled[e] /\ dead'[e] = dead[e]
        /\ e \notin unread' => HistoryOK(e)
    BY <1>1 DEF ControlInv
  <2>2. RecordOK(e)'
    BY <1>1, <1>4, <1>7, <1>15, <2>1, RecordStays
  <2>3. handled'[e] \cup dead'[e] \subseteq DOMAIN triggers[e]
    BY <2>1 DEF StreamOK
  <2> QED
    BY <1>4, <1>7, <1>12, <1>15, <2>1, <2>2, <2>3, StreamStays
<1>16. \A c \in Requests : RequestOK(c)'
  BY <1>1, <1>7, RequestStays DEF ControlInv
<1> QED
  BY <1>1, <1>8, <1>9, <1>12, <1>13, <1>14, <1>15, <1>16 DEF ControlInv

(* A request to cancel disturbs its own state and a record.                *)
LEMMA CancelStep ==
  ASSUME ControlInv, Typed', Grows, UNCHANGED <<streamVars, workerVars, pastVars>>,
         \A e \in Executions :
           /\ RecordOK(e)'
           /\ record'[e].status = "completed" => record[e].status = "completed",
         \A c \in Requests : RequestOK(c)'
  PROVE  ControlInv'
<1>1. /\ Typed
      /\ UNCHANGED <<replay, triggers, asked, handled, dead, lock, job, unread, restarted>>
  BY DEF ControlInv, streamVars, workerVars, pastVars
<1>2. ASSUME NEW g \in Permits, Holds(g) PROVE HolderOK(job[g])'
  <2>1. PICK j : j = job[g]
    OBVIOUS
  <2>2. HolderOK(j) /\ j.execution \in Executions
    BY <1>2, <2>1 DEF ControlInv, JobOK, Busy, Holds
  <2>3. HolderOK(j)'
    BY <1>1, <2>2, HolderStays
  <2> QED
    BY <1>1, <2>1, <2>3, HolderIs
<1>3. \A e \in Executions : DOMAIN triggers[e] \subseteq DOMAIN triggers'[e]
  BY <1>1
<1>4. /\ \A g \in Permits : JobOK(g)'
      /\ \A g, h \in Permits : Apart(g, h)'
      /\ \A e \in Executions : Begun(e) => Begun(e)'
  BY <1>1, <1>2, <1>3, JobsStay
<1>5. ASSUME NEW e \in Executions
      PROVE  StreamOK(e)' /\ (e \notin unread' => HistoryOK(e)')
  <2>1. StreamOK(e) /\ (e \notin unread' => HistoryOK(e))
    BY <1>1 DEF ControlInv
  <2>2. handled'[e] \cup dead'[e] \subseteq DOMAIN triggers[e]
    BY <1>1, <2>1 DEF StreamOK
  <2> QED
    BY <1>1, <1>4, <2>1, <2>2, StreamStays
<1> QED
  BY <1>4, <1>5 DEF ControlInv

LEMMA ReadToCancelKeeps ==
  ASSUME ControlInv, NEW c \in Requests, NEW x \in Executions, ReadToCancel(c, x)
  PROVE  ControlInv'
<1> DEFINE r == [phase |-> IF IsRunning(record[x]) THEN "writing" ELSE "refused",
                 execution |-> x, seen |-> GetByID(x)]
<1>1. /\ Typed /\ request[c].phase = "idle" /\ Exists(x)
      /\ request' = [request EXCEPT ![c] = r]
      /\ UNCHANGED <<record, faults, unread, restarted>>
      /\ UNCHANGED <<streamVars, workerVars, pastVars>>
  BY DEF ControlInv, ReadToCancel, SetRequest, Succeed, pastVars
<1>2. record[x] \in Record
  BY <1>1 DEF Typed, Exists
<1>3. /\ GetByID(x) \in Record /\ GetByID(x).status = record[x].status
      /\ GetByID(x).started = record[x].started
  BY <1>2 DEF GetByID, Record
<1>4. /\ r \in CancelRequests /\ r.execution = x /\ r.seen = GetByID(x)
      /\ r.phase = "writing" => IsRunning(record[x])
      /\ r.phase \in {"writing", "refused"}
  BY <1>3 DEF CancelRequests
<1> HIDE DEF r
<1>5. /\ request'[c] = r /\ \A d \in Requests \ {c} : request'[d] = request[d]
  BY <1>1 DEF Typed
<1>6. Grows
  <2>1. faults \in 0 .. MaxFaults /\ faults <= faults
    BY <1>1, ControlAssumption DEF Typed
  <2>2. ASSUME NEW d \in Requests, NEW e \in Executions, Wrote(d, e) PROVE Wrote(d, e)'
    BY <1>1, <1>5, <2>2 DEF Wrote
  <2> QED
    BY <1>1, <2>1, <2>2 DEF Grows, Exists
<1>7. Typed'
  BY <1>1, <1>4, <1>6 DEF Typed, Grows, streamVars, workerVars
<1>8. ASSUME NEW e \in Executions PROVE RecordOK(e)' /\ record'[e] = record[e]
  BY <1>1, <1>6, RecordStays DEF ControlInv, streamVars, workerVars
<1>9. RequestOK(c)'
  <2>1. record[x].started # "api" => faults > 0
    BY <1>1 DEF ControlInv, RecordOK, CopyOK
  <2> QED
    BY <1>1, <1>3, <1>4, <1>5, <2>1 DEF RequestOK, IsRunning, Exists
<1>10. \A d \in Requests : RequestOK(d)'
  BY <1>1, <1>5, <1>6, <1>9, RequestStays DEF ControlInv
<1> QED
  BY <1>1, <1>6, <1>7, <1>8, <1>10, CancelStep

(* What the API has read is written back as failed.                        *)
LEMMA CancelWriteKeeps ==
  ASSUME ControlInv, NEW c \in Requests, WriteCancelled(c) \/ WriteCancelledFails(c)
  PROVE  ControlInv'
<1>1. PICK r : r = request[c]
  OBVIOUS
<1> DEFINE new == Update(Cancelled(r.seen))
<1>2. /\ Typed /\ r.phase = "writing" /\ RequestOK(c)
      /\ Succeed \/ Fault
      /\ UpdateExecution(r.execution, new) \/ record' = record
      /\ UNCHANGED <<streamVars, workerVars, pastVars>>
  BY <1>1 DEF ControlInv, WriteCancelled, WriteCancelledFails, UpdateFails
<1>3. PICK x \in Executions : x = r.execution
  BY <1>1, <1>2 DEF RequestOK
<1>4. PICK p \in {"cancelled", "error"} : request' = [request EXCEPT ![c] = [r EXCEPT !.phase = p]]
  BY <1>1 DEF WriteCancelled, WriteCancelledFails, SetRequest
<1>5. r \in CancelRequests /\ r.seen \in Record /\ (r.seen.started # "api" => faults > 0)
  BY <1>1, <1>2 DEF RequestOK, Typed
<1>6. /\ request'[c] = [r EXCEPT !.phase = p] /\ request'[c] \in CancelRequests
      /\ request'[c].phase = p /\ request'[c].execution = x
      /\ \A d \in Requests \ {c} : request'[d] = request[d]
      /\ request' \in [Requests -> CancelRequests]
  BY <1>2, <1>3, <1>4, <1>5 DEF Typed, CancelRequests
<1>7. Wrote(c, x)'
  BY <1>6 DEF Wrote
<1>8. new \in Record /\ new.status = "failed" /\ new.done /\ new.started = r.seen.started
  <2>1. Cancelled(r.seen) \in Record /\ Cancelled(r.seen).status = "failed"
        /\ Cancelled(r.seen).done /\ Cancelled(r.seen).started = r.seen.started
    BY <1>5 DEF Cancelled, Record, RecordStatuses
  <2> QED
    BY <2>1 DEF Update, Record
<1> HIDE DEF new
<1>9. CopyOK(new, x)'
  <2>1. r.seen.started # "api" => faults' > 0
    <3>1. faults \in Nat /\ faults' \in Nat /\ faults <= faults'
      BY <1>2, CallCounted, ControlAssumption DEF Typed
    <3> QED
      BY <1>5, <3>1
  <2> QED
    BY <1>7, <1>8, <2>1 DEF CopyOK
<1>10. \/ record' = record
       \/ /\ record' \in [Executions -> Record \cup {NoRecord}]
          /\ record'[x].status = "failed" /\ Exists(x)' /\ RecordOK(x)'
          /\ \A e \in Executions \ {x} : record'[e] = record[e]
  <2>1. CASE UpdateExecution(r.execution, new)
    <3>1. UpdateExecution(x, new)
      BY <1>3, <2>1
    <3>2. /\ new.status \in Terminal => new.done
          /\ new.status # "completed"
      BY <1>8
    <3>3. new.status = "failed" /\ \E d \in Requests : Wrote(d, x)'
      BY <1>7, <1>8
    <3> QED
      BY <1>2, <1>8, <1>9, <3>1, <3>2, <3>3, RecordWritten
  <2> QED
    BY <1>2, <2>1
<1>11. Grows
  <2>1. \A e \in Executions : Exists(e) => Exists(e)'
    BY <1>10 DEF Exists
  <2>2. ASSUME NEW d \in Requests, NEW e \in Executions, Wrote(d, e) PROVE Wrote(d, e)'
    BY <1>1, <1>2, <1>6, <2>2 DEF Wrote
  <2> QED
    BY <1>2, <2>1, <2>2, CallCounted DEF Grows, pastVars
<1>12. Typed'
  BY <1>2, <1>6, <1>10, <1>11 DEF Typed, Grows, streamVars, workerVars, pastVars
<1>13. ASSUME NEW e \in Executions
       PROVE  /\ RecordOK(e)'
              /\ record'[e].status = "completed" => record[e].status = "completed"
  <2>1. CASE record'[e] = record[e]
    BY <1>2, <1>11, <2>1, RecordStays DEF ControlInv, streamVars, workerVars
  <2>2. CASE record'[e] # record[e]
    BY <1>10, <2>2
  <2> QED
    BY <2>1, <2>2
<1>14. ASSUME NEW d \in Requests PROVE RequestOK(d)'
  <2>1. CASE d = c
    BY <1>6, <2>1 DEF RequestOK
  <2>2. CASE d # c
    BY <1>2, <1>6, <1>11, <2>2, RequestStays DEF ControlInv
  <2> QED
    BY <2>1, <2>2
<1> QED
  BY <1>2, <1>11, <1>12, <1>13, <1>14, CancelStep

-----------------------------------------------------------------------------
(* The goroutines of the worker.                                           *)

(* An event goes to one goroutine.                                         *)
LEMMA TakeEventKeeps ==
  ASSUME ControlInv, NEW g \in Permits, NEW x \in Executions,
         NEW i \in DOMAIN triggers[x], TakeEvent(g, x, i)
  PROVE  ControlInv'
<1> DEFINE j == [IdleJob EXCEPT !.phase = "waiting", !.execution = x, !.event = i,
                                !.attempt = 1]
<1>1. /\ Typed /\ job[g] = IdleJob /\ i \notin Taken(x) /\ job' = [job EXCEPT ![g] = j]
      /\ UNCHANGED <<record, replay, triggers, asked, handled, dead, lock, request,
                     faults, unread, restarted>>
  BY DEF ControlInv, TakeEvent, SetJob, Succeed, streamVars, pastVars
<1>2. /\ i \in Nat /\ 1 \in 1 .. MaxAttempts /\ 1 \in 0 .. MaxAttempts
      /\ i \notin handled[x] \cup dead[x]
  <2>1. triggers[x] \in Seq(Event)
    BY <1>1 DEF Typed
  <2> QED
    BY <1>1, <2>1, ControlAssumption DEF Taken
<1>3. /\ j \in Jobs /\ j.phase = "waiting" /\ j.execution = x /\ j.event = i
      /\ j.attempt = 1
  BY <1>2, IdleJobTyped DEF IdleJob, Jobs
<1> HIDE DEF j
<1>4. job'[g] = j /\ \A h \in Permits \ {g} : job'[h] = job[h]
  BY <1>1 DEF Typed
<1>5. Grows
  <2>1. faults \in 0 .. MaxFaults /\ faults <= faults
    BY <1>1, ControlAssumption DEF Typed
  <2> QED
    BY <1>1, <2>1 DEF Grows, Exists, Wrote
<1>6. Typed'
  BY <1>1, <1>3 DEF Typed
<1>7. JobOK(g)'
  <2>1. lock # g
    BY <1>1, IdleJobTyped DEF ControlInv, JobOK, Holds
  <2> QED
    BY <1>1, <1>2, <1>3, <1>4, <2>1 DEF JobOK, Busy, Holds
<1>8. ASSUME NEW h \in Permits, h # g PROVE JobOK(h)'
  <2>1. JobOK(h) /\ (Busy(h)' <=> Busy(h)) /\ (Holds(h)' <=> Holds(h)) /\ job'[h] = job[h]
    BY <1>4, <1>8 DEF ControlInv, Busy, Holds
  <2>2. Holds(h) => HolderOK(job[h])'
    <3>1. PICK q : q = job[h]
      OBVIOUS
    <3>2. Holds(h) => HolderOK(q) /\ q.execution \in Executions
      BY <2>1, <3>1 DEF JobOK, Busy, Holds
    <3>3. Holds(h) => HolderOK(q)'
      BY <1>1, <1>5, <3>2, HolderStays
    <3> QED
      BY <1>8, <2>1, <3>1, <3>3, HolderIs
  <2> QED
    BY <1>1, <2>1, <2>2 DEF JobOK
<1>9. ASSUME NEW h \in Permits, h # g, Busy(h), job[h].execution = x PROVE job[h].event # i
  BY <1>1, <1>9 DEF Taken
<1>10. \A h, k \in Permits : Apart(h, k)'
  BY <1>3, <1>4, <1>9 DEF ControlInv, Apart, Busy
<1>11. ASSUME NEW e \in Executions, Begun(e) PROVE Begun(e)'
  <2>1. CASE 1 \in handled[e] \cup dead[e]
    BY <1>1, <2>1 DEF Begun
  <2>2. CASE 1 \notin handled[e] \cup dead[e]
    <3>1. PICK h \in Permits : /\ job[h].execution = e /\ job[h].event = 1
                               /\ (Holds(h) \/ job[h].attempt > 1)
      BY <1>11, <2>2 DEF Begun
    <3>2. h # g
      BY <1>1, <3>1, ExecutionsAssumption DEF IdleJob
    <3> QED
      BY <1>4, <3>1, <3>2 DEF Begun, Holds
  <2> QED
    BY <2>1, <2>2
<1>12. ASSUME NEW e \in Executions
       PROVE  StreamOK(e)' /\ RecordOK(e)' /\ (e \notin unread' => HistoryOK(e)')
  <2>1. StreamOK(e) /\ RecordOK(e) /\ (e \notin unread' => HistoryOK(e))
    BY <1>1 DEF ControlInv
  <2>2. handled'[e] \cup dead'[e] \subseteq DOMAIN triggers[e]
    BY <1>1, <2>1 DEF StreamOK
  <2> QED
    BY <1>1, <1>5, <1>11, <2>1, <2>2, StreamStays, RecordStays
<1>13. \A c \in Requests : RequestOK(c)'
  BY <1>1, <1>5, RequestStays DEF ControlInv
<1> QED
  BY <1>6, <1>7, <1>8, <1>10, <1>12, <1>13 DEF ControlInv

(* What a goroutine that takes, holds or releases the mutex leaves of the  *)
(* others, which at most wait for it.                                      *)
LEMMA OthersWait ==
  ASSUME ControlInv, NEW g \in Permits, Busy(g), NEW h \in Permits \ {g},
         job'[h] = job[h], lock \in {g, NoPermit}, lock' \in {g, NoPermit},
         triggers' = triggers,
         \A e \in Executions : \A i \in handled'[e] \cup dead'[e] :
           \/ i \in handled[e] \cup dead[e]
           \/ e = job[g].execution /\ i = job[g].event
  PROVE  JobOK(h)'
<1>1. JobOK(h) /\ (Busy(h)' <=> Busy(h)) /\ ~Holds(h) /\ ~Holds(h)' /\ lock' # h
  BY ControlAssumption DEF ControlInv, JobOK, Busy, Holds
<1>2. ASSUME Busy(h)
      PROVE  job[h].event \notin handled'[job[h].execution] \cup dead'[job[h].execution]
  <2>1. /\ job[h].execution \in Executions
        /\ job[h].event \notin handled[job[h].execution] \cup dead[job[h].execution]
    BY <1>1, <1>2 DEF JobOK
  <2>2. ~(job[g].execution = job[h].execution /\ job[g].event = job[h].event)
    BY <1>2 DEF ControlInv, Apart
  <2> QED
    BY <2>1, <2>2
<1> QED
  BY <1>1, <1>2 DEF JobOK

(* A goroutine goes on with its event and holds the mutex.                 *)
LEMMA HolderGoesOn ==
  ASSUME ControlInv, NEW g \in Permits, Busy(g), lock \in {g, NoPermit}, lock' = g,
         NEW j, job' = [job EXCEPT ![g] = j], HolderOK(j)',
         j.phase \notin {"idle", "waiting"}, j.execution = job[g].execution,
         j.event = job[g].event, j.attempt = job[g].attempt,
         UNCHANGED <<triggers, handled, dead>>
  PROVE  /\ \A h \in Permits : JobOK(h)'
         /\ \A h, k \in Permits : Apart(h, k)'
         /\ \A e \in Executions : Begun(e) => Begun(e)'
<1>1. job'[g] = j /\ \A h \in Permits \ {g} : job'[h] = job[h]
  BY DEF ControlInv, Typed
<1>2. Busy(g)' /\ Holds(g)' /\ HolderOK(job[g])'
  <2>1. HolderOK(job[g])'
    BY <1>1, HolderIs
  <2> QED
    BY <1>1, <2>1 DEF Busy, Holds
<1>3. JobOK(g)'
  <2>1. JobOK(g) /\ Busy(g)
    BY DEF ControlInv
  <2>2. /\ j.execution \in Executions /\ j.event \in DOMAIN triggers[j.execution]
        /\ j.event \notin handled[j.execution] \cup dead[j.execution]
        /\ j.attempt \in 1 .. MaxAttempts
    BY <2>1 DEF JobOK
  <2> QED
    BY <1>1, <1>2, <2>2 DEF JobOK
<1>4. \A h \in Permits \ {g} : JobOK(h)'
  BY <1>1, OthersWait
<1>5. \A h, k \in Permits : Apart(h, k)'
  BY <1>1 DEF ControlInv, Apart, Busy
<1>6. ASSUME NEW e \in Executions, Begun(e) PROVE Begun(e)'
  <2>1. CASE 1 \in handled[e] \cup dead[e]
    BY <2>1 DEF Begun
  <2>2. CASE 1 \notin handled[e] \cup dead[e]
    <3>1. PICK h \in Permits : /\ job[h].execution = e /\ job[h].event = 1
                               /\ (Holds(h) \/ job[h].attempt > 1)
      BY <1>6, <2>2 DEF Begun
    <3>2. CASE h = g
      BY <1>1, <1>2, <3>1, <3>2 DEF Begun
    <3>3. CASE h # g
      BY <1>1, <3>1, <3>3 DEF Begun, Holds
    <3> QED
      BY <3>2, <3>3
  <2> QED
    BY <2>1, <2>2
<1> QED
  BY <1>3, <1>4, <1>5, <1>6

(* A goroutine is done with the attempt: it waits for the next one, or is  *)
(* free and the event is handled or dead.                                  *)
LEMMA HolderLeaves ==
  ASSUME ControlInv, NEW g \in Permits, Busy(g), lock \in {g, NoPermit}, lock' = NoPermit,
         NEW j, job' = [job EXCEPT ![g] = j], triggers' = triggers,
         \/ /\ j.phase = "waiting" /\ j.execution = job[g].execution
            /\ j.event = job[g].event /\ j.attempt \in 2 .. MaxAttempts
            /\ UNCHANGED <<handled, dead>>
         \/ /\ j = IdleJob
            /\ \A e \in Executions :
                 handled'[e] \cup dead'[e] =
                   IF e = job[g].execution THEN handled[e] \cup dead[e] \cup {job[g].event}
                                           ELSE handled[e] \cup dead[e]
  PROVE  /\ \A h \in Permits : JobOK(h)'
         /\ \A h, k \in Permits : Apart(h, k)'
         /\ \A e \in Executions : Begun(e) => Begun(e)'
         /\ \A e \in Executions : handled'[e] \cup dead'[e] \subseteq DOMAIN triggers[e]
<1>1. job'[g] = j /\ \A h \in Permits \ {g} : job'[h] = job[h]
  BY DEF ControlInv, Typed
<1>2. /\ JobOK(g) /\ job[g].execution \in Executions
      /\ job[g].event \in DOMAIN triggers[job[g].execution]
  BY DEF ControlInv, JobOK
<1>3. /\ j.phase \in {"idle", "waiting"} /\ lock' # g /\ ~Holds(g)'
      /\ j.attempt \in 2 .. MaxAttempts => j.attempt \in 1 .. MaxAttempts /\ j.attempt > 1
  BY <1>1, IdleJobTyped, ControlAssumption DEF Holds
<1>4. JobOK(g)'
  BY <1>1, <1>2, <1>3, IdleJobTyped DEF JobOK, Busy
<1>5. \A h \in Permits \ {g} : JobOK(h)'
  BY <1>1, OthersWait
<1>6. \A h, k \in Permits : Apart(h, k)'
  BY <1>1, IdleJobTyped DEF ControlInv, Apart, Busy
<1>7. ASSUME NEW e \in Executions, Begun(e) PROVE Begun(e)'
  <2>1. CASE 1 \in handled[e] \cup dead[e]
    BY <2>1 DEF Begun
  <2>2. CASE 1 \notin handled[e] \cup dead[e]
    <3>1. PICK h \in Permits : /\ job[h].execution = e /\ job[h].event = 1
                               /\ (Holds(h) \/ job[h].attempt > 1)
      BY <1>7, <2>2 DEF Begun
    <3>2. CASE h = g
      BY <1>1, <1>3, <3>1, <3>2 DEF Begun
    <3>3. CASE h # g
      BY <1>1, <3>1, <3>3 DEF Begun, Holds
    <3> QED
      BY <3>2, <3>3
  <2> QED
    BY <2>1, <2>2
<1>8. \A e \in Executions : handled'[e] \cup dead'[e] \subseteq DOMAIN triggers[e]
  BY <1>2 DEF ControlInv, StreamOK
<1> QED
  BY <1>4, <1>5, <1>6, <1>7, <1>8

(* An attempt that has failed.                                             *)
LEMMA AfterErrorLeaves ==
  ASSUME ControlInv, NEW g \in Permits, Busy(g), lock \in {g, NoPermit}, lock' = NoPermit,
         AfterError(g), UNCHANGED <<triggers, handled>>
  PROVE  /\ job' \in [Permits -> Jobs] /\ dead' \in [Executions -> SUBSET Nat]
         /\ \A h \in Permits : JobOK(h)'
         /\ \A h, k \in Permits : Apart(h, k)'
         /\ \A e \in Executions : Begun(e) => Begun(e)'
         /\ \A e \in Executions : handled'[e] \cup dead'[e] \subseteq DOMAIN triggers[e]
<1>1. /\ Typed /\ job[g] \in Jobs /\ job[g].execution \in Executions
      /\ job[g].attempt \in 1 .. MaxAttempts /\ job[g].event \in Nat /\ MaxAttempts \in Nat
  BY ControlAssumption DEF ControlInv, Typed, JobOK, Jobs
<1>2. CASE job[g].attempt < MaxAttempts
  <2> DEFINE j == [IdleJob EXCEPT !.phase = "waiting", !.execution = job[g].execution,
                     !.event = job[g].event, !.attempt = job[g].attempt + 1]
  <2>1. job' = [job EXCEPT ![g] = j] /\ dead' = dead
    BY <1>2 DEF AfterError, SetJob
  <2>2. job[g].attempt + 1 \in 2 .. MaxAttempts /\ job[g].attempt + 1 \in 0 .. MaxAttempts
    BY <1>1, <1>2
  <2>3. /\ j.phase = "waiting" /\ j.execution = job[g].execution /\ j \in Jobs
        /\ j.event = job[g].event /\ j.attempt \in 2 .. MaxAttempts
    BY <1>1, <2>2, IdleJobTyped DEF IdleJob, Jobs
  <2> HIDE DEF j
  <2>4. job' \in [Permits -> Jobs] /\ dead' \in [Executions -> SUBSET Nat]
    BY <1>1, <2>1, <2>3 DEF Typed
  <2> QED
    BY <2>1, <2>3, <2>4, HolderLeaves
<1>3. CASE ~(job[g].attempt < MaxAttempts)
  <2>1. /\ job' = [job EXCEPT ![g] = IdleJob]
        /\ dead' = [dead EXCEPT ![job[g].execution] = @ \cup {job[g].event}]
    BY <1>3 DEF AfterError, SetJob
  <2>2. job' \in [Permits -> Jobs] /\ dead' \in [Executions -> SUBSET Nat]
    BY <1>1, <2>1, IdleJobTyped DEF Typed
  <2>3. \A e \in Executions :
          handled'[e] \cup dead'[e] =
            IF e = job[g].execution THEN handled[e] \cup dead[e] \cup {job[g].event}
                                    ELSE handled[e] \cup dead[e]
    BY <1>1, <2>1 DEF Typed
  <2> QED
    BY <2>1, <2>2, <2>3, HolderLeaves
<1> QED
  BY <1>2, <1>3

(* A step that moves one job and touches neither stream nor record.        *)
LEMMA JobStep ==
  ASSUME ControlInv, Typed', Grows, NEW g \in Permits, Busy(g),
         lock \in {g, NoPermit}, lock' = g,
         NEW j, job' = [job EXCEPT ![g] = j], HolderOK(j)',
         j.phase \notin {"idle", "waiting"}, j.execution = job[g].execution,
         j.event = job[g].event, j.attempt = job[g].attempt,
         UNCHANGED <<record, streamVars, handled, dead, request>>
  PROVE  ControlInv'
<1>1. Typed /\ UNCHANGED <<replay, triggers, asked>>
  BY DEF ControlInv, streamVars
<1>2. /\ \A h \in Permits : JobOK(h)'
      /\ \A h, k \in Permits : Apart(h, k)'
      /\ \A e \in Executions : Begun(e) => Begun(e)'
  BY <1>1, HolderGoesOn
<1>3. ASSUME NEW e \in Executions
      PROVE  StreamOK(e)' /\ RecordOK(e)' /\ (e \notin unread' => HistoryOK(e)')
  <2>1. StreamOK(e) /\ RecordOK(e) /\ (e \notin unread' => HistoryOK(e))
    BY DEF ControlInv, Grows
  <2>2. handled'[e] \cup dead'[e] \subseteq DOMAIN triggers[e]
    BY <2>1 DEF StreamOK
  <2> QED
    BY <1>1, <1>2, <2>1, <2>2, StreamStays, RecordStays
<1>4. \A c \in Requests : RequestOK(c)'
  BY <1>1, RequestStays DEF ControlInv
<1> QED
  BY <1>2, <1>3, <1>4 DEF ControlInv

(* While the first attempt at the start waits, nothing has followed it.    *)
LEMMA FirstAttempt ==
  ASSUME ControlInv, NEW g \in Permits, job[g].phase = "waiting",
         job[g].event = 1, ~(job[g].attempt > 1), NEW e \in Executions,
         e = job[g].execution
  PROVE  ~TaskFailed(e)
<1>1. /\ Busy(g) /\ ~Holds(g) /\ JobOK(g) /\ StreamOK(e) /\ triggers[e] \in Seq(Event)
      /\ 1 \in DOMAIN triggers[e] /\ 1 \notin handled[e] \cup dead[e]
  BY DEF Busy, Holds, ControlInv, Typed, JobOK
<1>2. ~Begun(e)
  <2>1. ASSUME NEW h \in Permits, job[h].execution = e, job[h].event = 1,
               Holds(h) \/ job[h].attempt > 1
        PROVE  FALSE
    <3>1. Busy(h)
      <4>1. JobOK(h)
        BY DEF ControlInv
      <4> QED
        BY <2>1, <4>1, ExecutionsAssumption DEF JobOK, IdleJob
    <3>2. h = g
      BY <1>1, <2>1, <3>1 DEF ControlInv, Apart
    <3> QED
      BY <1>1, <2>1, <3>2
  <2> QED
    BY <1>1, <2>1 DEF Begun
<1>3. Len(triggers[e]) = 1
  <2>1. /\ ~(Len(triggers[e]) > 1) /\ Len(triggers[e]) \in Nat
        /\ DOMAIN triggers[e] = 1 .. Len(triggers[e])
    BY <1>1, <1>2 DEF StreamOK
  <2>2. PICK l \in Nat : l = Len(triggers[e])
    BY <2>1
  <2>3. 1 \in 1 .. l /\ ~(l > 1)
    BY <1>1, <2>1, <2>2
  <2>4. l = 1
    BY <2>3
  <2> QED
    BY <2>2, <2>4
<1>4. DOMAIN triggers[e] = {1}
  BY <1>1, <1>3
<1>5. triggers[e][1].success
  <2>1. triggers[e][1] = NewEvent("execution.started", "api", e, NoTask, TRUE)
    BY <1>1 DEF StreamOK, TriggerOK
  <2> QED
    BY <2>1 DEF NewEvent
<1> QED
  BY <1>4, <1>5 DEF TaskFailed

(* The step is chosen in state st, which tells the truth about the         *)
(* execution unless its history was taken for empty.                       *)
LEMMA DecideKeeps ==
  ASSUME ControlInv, NEW g \in Permits, NEW st \in EngineState, Decide(g, st),
         Succeed \/ Fault, unread \subseteq unread', unread' \subseteq Executions,
         UNCHANGED <<record, streamVars, handled, dead, request>>,
         NEW e \in Executions, e = job[g].execution, st.context \in {e, NoExecution},
         e \notin unread' =>
           /\ st.context = e /\ Fits(st)
           /\ st.pending = replay[e].pending /\ st.completed = replay[e].completed
           /\ TaskFailed(e) => (st.status = "failed" \/ (st.status = "running" /\ e \in restarted'))
  PROVE  ControlInv'
<1> DEFINE step == NextStep(st)
           p == IF step.action = "nothing" THEN "reading" ELSE "publishing"
<1>0. PICK j : j = [job[g] EXCEPT !.phase = p, !.status = st.status,
                                  !.context = st.context, !.step = step]
  OBVIOUS
<1>1. /\ Typed /\ job[g].phase = "waiting" /\ lock = NoPermit /\ lock' = g /\ job[g] \in Jobs
      /\ job' = [job EXCEPT ![g] = j] /\ Busy(g) /\ JobOK(g)
  BY <1>0 DEF ControlInv, Decide, SetJob, Typed, Busy
<1>2. /\ step \in Step /\ step.action \in {"nothing", "request", "complete"}
      /\ step.action = "request" => step.task \in TaskNames
      /\ st.status \in Statuses /\ st.context \in Executions \cup {NoExecution}
      /\ p \in {"reading", "publishing"} /\ (p = "reading" <=> step.action = "nothing")
  BY NextStepTyped DEF EngineState
<1>3. e \notin unread' =>
        LET k == Len(st.completed)
        IN  /\ step.action = "request" => (k < Len(TaskList) /\ step.task = TaskList[k + 1])
            /\ step.action = "complete" => k = Len(TaskList)
            /\ step.action # "nothing" => ~AnyPending(st)
            /\ step.action = "nothing" => k < Len(TaskList)
  BY NextStepFollows
<1> HIDE DEF step, p
<1>4. /\ j \in Jobs /\ j.phase = p /\ j.status = st.status /\ j.context = st.context
      /\ j.step = step /\ j.execution = e /\ j.event = job[g].event
      /\ j.attempt = job[g].attempt
  BY <1>0, <1>1, <1>2 DEF Jobs
<1>5. restarted' \in {restarted, restarted \cup {e}}
  BY DEF Decide
<1>6. Grows
  BY <1>1, <1>5, CallCounted DEF Grows, Exists, Wrote
<1>7. Typed'
  BY <1>1, <1>4, <1>5, <1>6 DEF Typed, Grows, streamVars
<1>8. HolderOK(j)'
  <2>1. ASSUME e \notin unread'
        PROVE  /\ p = "publishing" => StepOK(j, e)'
               /\ p = "reading" => StatusOK(j, e)'
    <3>1. /\ AnyPending(replay[e])' <=> AnyPending(st)
          /\ Len(replay'[e].completed) = Len(st.completed)
          /\ Succeeded(e)' <=> Len(st.completed) = Len(TaskList)
          /\ Len(st.completed) \in Nat /\ Len(TaskList) \in Nat
      BY <2>1, TaskListAssumption DEF AnyPending, Succeeded, streamVars, EngineState
    <3>2. st.status = "completed" => Len(st.completed) = Len(TaskList)
      BY <2>1 DEF Fits
    <3>3. p = "publishing" => StepOK(j, e)'
      BY <1>2, <1>3, <1>4, <2>1, <3>1, <3>2 DEF StepOK
    <3>4. ASSUME p = "reading" PROVE StatusOK(j, e)'
      <4>1. ~Succeeded(e)' /\ ~Succeeded(e) /\ st.status # "completed"
        BY <1>2, <1>3, <2>1, <3>1, <3>2, <3>4 DEF Succeeded, streamVars
      <4>2. record'[e].status # "completed"
        <5>1. Exists(e) /\ e \notin unread /\ RecordOK(e)
          BY <1>1, <2>1 DEF ControlInv, JobOK, StreamOK
        <5> QED
          BY <4>1, <5>1 DEF RecordOK
      <4>3. TaskFailed(e)' <=> TaskFailed(e)
        BY DEF TaskFailed, streamVars
      <4> QED
        BY <1>4, <2>1, <4>1, <4>2, <4>3 DEF StatusOK, Tells
    <3> QED
      BY <3>3, <3>4
  <2>2. j.phase \notin {"completing", "storing", "writing"}
    BY <1>2, <1>4
  <2> QED
    BY <1>2, <1>4, <2>1, <2>2 DEF HolderOK
<1> QED
  BY <1>1, <1>2, <1>4, <1>6, <1>7, <1>8, JobStep

(* The event a goroutine works on.                                         *)
LEMMA TriggerFacts ==
  ASSUME ControlInv, NEW g \in Permits, Busy(g)
  PROVE  /\ job[g].execution \in Executions /\ Trigger(g) \in Event
         /\ Trigger(g).execution = job[g].execution
         /\ job[g].event \in DOMAIN triggers[job[g].execution] /\ job[g].event \in Nat
         /\ job[g].event = 1 => Trigger(g).type = "execution.started" /\ Trigger(g).success
         /\ job[g].event > 1 => Trigger(g).type = "task.completed" /\ Trigger(g).task \in TaskNames
         /\ job[g].event = 1 \/ job[g].event > 1
<1>1. PICK e \in Executions : e = job[g].execution
  BY DEF ControlInv, JobOK
<1>2. PICK i \in DOMAIN triggers[e] : i = job[g].event
  BY <1>1 DEF ControlInv, JobOK
<1>3. triggers[e] \in Seq(Event) /\ TriggerOK(e, i)
  BY DEF ControlInv, Typed, StreamOK
<1>4. triggers[e][i] \in Event /\ i \in Nat /\ (i = 1 \/ i > 1)
  BY <1>3
<1>5. Trigger(g) = triggers[e][i]
  BY <1>1, <1>2 DEF Trigger
<1> QED
  BY <1>1, <1>2, <1>3, <1>4, <1>5 DEF TriggerOK, NewEvent

LEMMA RebuildKeeps ==
  ASSUME ControlInv, NEW g \in Permits, Rebuild(g)
  PROVE  ControlInv'
<1> DEFINE ev == Trigger(g)
<1>1. /\ Typed /\ Succeed /\ job[g].phase = "waiting" /\ Busy(g)
      /\ Decide(g, ProcessEvent(replay[job[g].execution], ev))
      /\ UNCHANGED <<record, streamVars, handled, dead, request>> /\ unread' = unread
  BY DEF ControlInv, Rebuild, Decide, Busy
<1>2. /\ ev \in Event
      /\ job[g].event = 1 => ev.type = "execution.started" /\ ev.success
      /\ job[g].event > 1 => ev.type = "task.completed" /\ ev.task \in TaskNames
      /\ job[g].event \in Nat /\ (job[g].event = 1 \/ job[g].event > 1)
  BY <1>1, TriggerFacts
<1>3. PICK e \in Executions : e = job[g].execution
  BY <1>1, TriggerFacts
<1>4. PICK st \in EngineState : st = replay[e]
  BY <1>1 DEF Typed
<1>5. PICK r : r = ProcessEvent(st, ev)
  OBVIOUS
<1>6. /\ StreamOK(e) /\ st.context = e /\ ev.execution = e
      /\ ev = triggers[e][job[g].event] /\ job[g].event \in DOMAIN triggers[e]
  <2>1. /\ StreamOK(e) /\ ev.execution = e /\ job[g].event \in DOMAIN triggers[e]
        /\ triggers[e] \in Seq(Event)
    BY <1>1, <1>3, TriggerFacts DEF ControlInv, Typed
  <2>2. triggers[e] # <<>>
    BY <2>1
  <2> QED
    BY <1>3, <1>4, <2>1, <2>2 DEF StreamOK, Trigger
<1> HIDE DEF ev
<1>7. r \in EngineState /\ r.context = e
  <2>1. ev.type \in {"task.requested", "task.completed", "timer.fired"} => ev.task \in TaskNames
    BY <1>2
  <2>2. r \in EngineState
    BY <1>2, <1>5, <2>1, ProcessEventTyped
  <2>3. r.context = e
    BY <1>2, <1>5, <1>6 DEF ProcessEvent, TaskCompleted, EngineState
  <2> QED
    BY <2>2, <2>3
<1>8. ASSUME e \notin unread'
      PROVE  /\ r.context = e /\ Fits(r)
             /\ r.pending = replay[e].pending /\ r.completed = replay[e].completed
             /\ TaskFailed(e) => (r.status = "failed" \/ (r.status = "running" /\ e \in restarted'))
  <2>1. HistoryOK(e) /\ Fits(st)
    BY <1>1, <1>4, <1>8 DEF ControlInv, HistoryOK
  <2>2. (job[g].event > 1 /\ ev.success) => Done(st, ev.task)
    BY <1>4, <1>6, <2>1 DEF HistoryOK
  <2>3. /\ Fits(r) /\ r.pending = st.pending /\ r.completed = st.completed
        /\ r.status = IF ev.type = "execution.started" THEN "running"
                      ELSE IF ev.success THEN st.status ELSE "failed"
    BY <1>2, <1>5, <1>6, <2>1, <2>2, AppliedAgain
  <2>4. ASSUME TaskFailed(e)
        PROVE  r.status = "failed" \/ (r.status = "running" /\ e \in restarted')
    <3>1. CASE job[g].event = 1
      <4>1. job[g].attempt > 1
        BY <1>1, <1>3, <2>4, <3>1, FirstAttempt
      <4>2. e \in restarted'
        BY <1>1, <1>3, <3>1, <4>1 DEF Decide
      <4> QED
        BY <1>2, <2>3, <3>1, <4>2
    <3>2. CASE job[g].event > 1
      <4>1. st.status = "failed"
        BY <1>4, <2>1, <2>4 DEF HistoryOK
      <4> QED
        BY <1>2, <2>3, <3>2, <4>1
    <3> QED
      BY <1>2, <3>1, <3>2
  <2> QED
    BY <1>4, <1>7, <2>3, <2>4
<1>9. Decide(g, r)
  BY <1>1, <1>3, <1>4, <1>5
<1> QED
  BY <1>1, <1>3, <1>7, <1>8, <1>9, DecideKeeps DEF Typed

LEMMA RebuildBlindKeeps ==
  ASSUME ControlInv, NEW g \in Permits, RebuildBlind(g)
  PROVE  ControlInv'
<1> DEFINE ev == Trigger(g)
<1>1. /\ Typed /\ Fault /\ Busy(g)
      /\ Decide(g, ProcessEvent(EmptyState, ev))
      /\ UNCHANGED <<record, streamVars, handled, dead, request>>
      /\ unread' = unread \cup {job[g].execution}
  BY DEF ControlInv, RebuildBlind, Decide, Busy
<1>2. /\ ev \in Event /\ ev.execution = job[g].execution
      /\ job[g].event = 1 => ev.type = "execution.started"
      /\ job[g].event > 1 => ev.type = "task.completed" /\ ev.task \in TaskNames
      /\ (job[g].event = 1 \/ job[g].event > 1)
  BY <1>1, TriggerFacts
<1>3. PICK e \in Executions : e = job[g].execution
  BY <1>1, TriggerFacts
<1>4. PICK r : r = ProcessEvent(EmptyState, ev)
  OBVIOUS
<1> HIDE DEF ev
<1>5. r \in EngineState /\ r.context \in {e, NoExecution}
  <2>1. ev.type \in {"task.requested", "task.completed", "timer.fired"} => ev.task \in TaskNames
    BY <1>2
  <2>2. r \in EngineState
    BY <1>2, <1>4, <2>1, EmptyStateTyped, ProcessEventTyped
  <2>3. r.context \in {e, NoExecution}
    BY <1>2, <1>3, <1>4 DEF ProcessEvent, TaskCompleted, EmptyState
  <2> QED
    BY <2>2, <2>3
<1>6. Decide(g, r) /\ e \in unread' /\ unread' \subseteq Executions
  BY <1>1, <1>3, <1>4 DEF Typed
<1> QED
  BY <1>1, <1>3, <1>5, <1>6, DecideKeeps

(* A goroutine that gives up its attempt and touches neither stream nor    *)
(* record.                                                                 *)
LEMMA RebuildFailsKeeps ==
  ASSUME ControlInv, NEW g \in Permits, RebuildFails(g)
  PROVE  ControlInv'
<1>1. /\ Typed /\ Fault /\ Busy(g) /\ lock = NoPermit /\ lock' = NoPermit /\ AfterError(g)
      /\ UNCHANGED <<record, replay, triggers, asked, handled, request, unread, restarted>>
  BY DEF ControlInv, RebuildFails, Busy, streamVars, pastVars
<1>2. Grows
  BY <1>1, CallCounted DEF Grows, Exists, Wrote
<1>3. /\ job' \in [Permits -> Jobs] /\ dead' \in [Executions -> SUBSET Nat]
      /\ \A h \in Permits : JobOK(h)'
      /\ \A h, k \in Permits : Apart(h, k)'
      /\ \A e \in Executions : Begun(e) => Begun(e)'
      /\ \A e \in Executions : handled'[e] \cup dead'[e] \subseteq DOMAIN triggers[e]
  BY <1>1, AfterErrorLeaves
<1>4. Typed'
  BY <1>1, <1>2, <1>3 DEF Typed, Grows
<1>5. ASSUME NEW e \in Executions
      PROVE  StreamOK(e)' /\ RecordOK(e)' /\ (e \notin unread' => HistoryOK(e)')
  <2>1. StreamOK(e) /\ RecordOK(e) /\ (e \notin unread' => HistoryOK(e))
    BY <1>1 DEF ControlInv
  <2> QED
    BY <1>1, <1>2, <1>3, <2>1, StreamStays, RecordStays
<1>6. \A c \in Requests : RequestOK(c)'
  BY <1>1, <1>2, RequestStays DEF ControlInv
<1> QED
  BY <1>3, <1>4, <1>5, <1>6 DEF ControlInv

(* What the publication of the next step leaves in the stream, and of the  *)
(* rest: the invariant of the stream needs only that what has begun has.   *)
LEMMA StepPublished ==
  ASSUME ControlInv, Grows, NEW g \in Permits, job[g].phase = "publishing",
         NEW e \in Executions, e = job[g].execution, Publish(StepEvent(job[g]))
  PROVE  /\ triggers' = triggers /\ replay' \in [Executions -> EngineState]
         /\ asked' \in [Executions -> [TaskNames -> Nat]]
         /\ \A x \in Executions : replay'[x].completed = replay[x].completed
         /\ \A x \in Executions :
              /\ handled'[x] \cup dead'[x] \subseteq DOMAIN triggers[x]
              /\ Begun(x) => Begun(x)'
              => StreamOK(x)' /\ (x \notin unread' => HistoryOK(x)')
<1>1. PICK j \in Jobs : j = job[g]
  BY DEF ControlInv, Typed
<1>2. /\ Typed /\ HolderOK(j) /\ j.phase = "publishing" /\ j.execution = e /\ Holds(g)
      /\ StreamOK(e) /\ j.event \in DOMAIN triggers[e] /\ JobOK(g)
  BY <1>1 DEF ControlInv, JobOK, Busy, Holds
<1>3. PICK ev : ev = StepEvent(j)
  OBVIOUS
<1>4. /\ ev \in Event /\ ev.execution = j.context
      /\ j.step.action = "request" => ev.type = "task.requested" /\ ev.task = j.step.task
                                      /\ ev.task \in TaskNames
      /\ j.step.action # "request" => ev.type = "workflow.completed"
                                      /\ j.step.action = "complete"
  <2>1. /\ "task.requested" \in EventTypes /\ "workflow.completed" \in EventTypes
        /\ "worker-service" \in Sources
    BY DEF EventTypes, Sources
  <2>2. /\ j.context \in Executions \cup {NoExecution}
        /\ j.step.action = "request" => j.step.task \in TaskNames
        /\ j.step.action \in {"request", "complete"}
    BY <1>2 DEF Jobs, HolderOK
  <2>3. CASE j.step.action = "request"
    <3>1. ev = NewEvent("task.requested", "worker-service", j.context, j.step.task, TRUE)
      BY <1>3, <2>3 DEF StepEvent
    <3>2. j.step.task \in TaskNames \cup {NoTask}
      BY <2>2, <2>3
    <3>3. /\ ev \in Event /\ ev.execution = j.context /\ ev.type = "task.requested"
          /\ ev.task = j.step.task
      BY <2>1, <2>2, <3>1, <3>2 DEF NewEvent, Event
    <3> QED
      BY <2>2, <2>3, <3>3
  <2>4. CASE j.step.action # "request"
    <3>1. ev = NewEvent("workflow.completed", "worker-service", j.context, NoTask, TRUE)
      BY <1>3, <2>4 DEF StepEvent
    <3>2. ev \in Event /\ ev.execution = j.context /\ ev.type = "workflow.completed"
      BY <2>1, <2>2, <3>1 DEF NewEvent, Event
    <3> QED
      BY <2>2, <2>4, <3>2
  <2> QED
    BY <2>3, <2>4
<1>5. Publish(ev)
  BY <1>1, <1>3
<1>6. CASE j.context = NoExecution
  <2>1. UNCHANGED streamVars
    BY <1>4, <1>5, <1>6 DEF Publish
  <2>2. UNCHANGED <<replay, triggers, asked>>
    BY <2>1 DEF streamVars
  <2>3. ASSUME NEW x \in Executions, handled'[x] \cup dead'[x] \subseteq DOMAIN triggers[x],
               Begun(x) => Begun(x)'
        PROVE  StreamOK(x)' /\ (x \notin unread' => HistoryOK(x)')
    <3>1. StreamOK(x) /\ (x \notin unread' => HistoryOK(x))
      BY DEF ControlInv, Grows
    <3> QED
      BY <2>2, <2>3, <3>1, StreamStays
  <2> QED
    BY <1>2, <2>2, <2>3 DEF Typed
<1>7. CASE j.context = e
  <2>1. PICK st \in EngineState : st = replay[e]
    BY <1>2 DEF Typed
  <2>2. PICK r : r = ProcessEvent(st, ev)
    OBVIOUS
  <2>3. /\ triggers' = triggers /\ replay' = [replay EXCEPT ![e] = r]
        /\ asked' = IF j.step.action = "request"
                    THEN [asked EXCEPT ![e][j.step.task] = @ + 1] ELSE asked
    <3>1. e # NoExecution
      BY ExecutionsAssumption
    <3>2. replay' = [replay EXCEPT ![e] = ProcessEvent(@, ev)]
      BY <1>4, <1>5, <1>7, <3>1 DEF Publish
    <3>3. replay' = [replay EXCEPT ![e] = r]
      BY <1>2, <2>1, <2>2, <3>2 DEF Typed
    <3> QED
      BY <1>4, <1>5, <1>7, <3>1, <3>3 DEF Publish
  <2>4. /\ r \in EngineState /\ r.completed = st.completed /\ r.context = st.context
        /\ j.step.action = "request" =>
             r.pending = [st.pending EXCEPT ![j.step.task] = @ + 1] /\ r.status = st.status
        /\ j.step.action # "request" =>
             r.pending = st.pending /\ r.status = "completed"
    <3>1. r \in EngineState
      BY <1>4, <2>2, ProcessEventTyped
    <3> QED
      BY <1>4, <2>2, <3>1 DEF ProcessEvent, EngineState
  <2>5. /\ replay'[e] = r /\ triggers'[e] = triggers[e]
        /\ asked'[e] = IF j.step.action = "request"
                       THEN [asked[e] EXCEPT ![j.step.task] = @ + 1] ELSE asked[e]
        /\ asked[e] \in [TaskNames -> Nat] /\ asked'[e] \in [TaskNames -> Nat]
        /\ \A x \in Executions \ {e} : /\ replay'[x] = replay[x] /\ asked'[x] = asked[x]
                                       /\ triggers'[x] = triggers[x]
        /\ replay' \in [Executions -> EngineState]
        /\ asked' \in [Executions -> [TaskNames -> Nat]]
    <3>1. /\ asked \in [Executions -> [TaskNames -> Nat]] /\ asked[e] \in [TaskNames -> Nat]
          /\ replay \in [Executions -> EngineState]
          /\ j.step.action = "request" => j.step.task \in TaskNames
      BY <1>2, <1>4 DEF Typed
    <3>2. PICK a : a = IF j.step.action = "request"
                       THEN [asked[e] EXCEPT ![j.step.task] = @ + 1] ELSE asked[e]
      OBVIOUS
    <3>3. a \in [TaskNames -> Nat] /\ asked' = [asked EXCEPT ![e] = a]
      <4>1. CASE j.step.action = "request"
        BY <2>3, <3>1, <3>2, <4>1
      <4>2. CASE j.step.action # "request"
        BY <2>3, <3>1, <3>2, <4>2
      <4> QED
        BY <4>1, <4>2
    <3>4. /\ asked'[e] = a /\ asked' \in [Executions -> [TaskNames -> Nat]]
          /\ \A x \in Executions \ {e} : asked'[x] = asked[x]
      BY <3>1, <3>3
    <3> QED
      BY <2>3, <2>4, <3>1, <3>2, <3>3, <3>4
  <2>6. \A x \in Executions : replay'[x].completed = replay[x].completed
    BY <2>1, <2>4, <2>5
  <2>7. ASSUME handled'[e] \cup dead'[e] \subseteq DOMAIN triggers[e], Begun(e) => Begun(e)'
        PROVE  StreamOK(e)'
    <3>1. triggers[e] # <<>> /\ Exists(e) /\ st.context = e
      BY <1>2, <2>1 DEF StreamOK
    <3>2. Begun(e)
      <4>1. CASE j.event = 1
        BY <1>1, <1>2, <4>1 DEF Begun
      <4>2. CASE j.event # 1
        <5>1. Len(triggers[e]) > 1
          <6>1. triggers[e] \in Seq(Event) /\ j.event \in 1 .. Len(triggers[e])
            BY <1>2 DEF Typed
          <6> QED
            BY <4>2, <6>1
        <5> QED
          BY <1>2, <5>1 DEF StreamOK
      <4> QED
        BY <4>1, <4>2
    <3>3. \A i \in DOMAIN triggers[e] : TriggerOK(e, i)'
      BY <1>2, <2>5 DEF StreamOK, TriggerOK
    <3> QED
      BY <2>4, <2>5, <2>7, <3>1, <3>2, <3>3 DEF StreamOK, Grows
  <2>8. ASSUME e \notin unread' PROVE HistoryOK(e)'
    <3>1. e \notin unread /\ HistoryOK(e) /\ Fits(st) /\ StepOK(j, e)
      BY <1>2, <2>1, <2>8 DEF ControlInv, Grows, HistoryOK, HolderOK
    <3>2. /\ ~AnyPending(st) /\ ~TaskFailed(e) /\ asked[e] = st.pending
          /\ st.status # "failed"
      BY <2>1, <3>1 DEF HistoryOK, StepOK
    <3>3. Fits(r)
      <4>1. CASE j.step.action = "request"
        <5>1. /\ Len(st.completed) < Len(TaskList)
              /\ ev.task = TaskList[Len(st.completed) + 1] /\ ev.type = "task.requested"
          BY <1>4, <2>1, <3>1, <4>1 DEF StepOK
        <5> QED
          BY <1>4, <2>2, <3>1, <3>2, <5>1, RequestFits
      <4>2. CASE j.step.action # "request"
        <5>1. Len(st.completed) = Len(TaskList)
          BY <2>1, <3>1, <4>2 DEF StepOK, Succeeded
        <5> QED
          BY <1>4, <2>2, <3>1, <4>2, <5>1, CompletionFits
      <4> QED
        BY <4>1, <4>2
    <3>4. asked'[e] = r.pending /\ r.status # "failed"
      BY <2>4, <2>5, <3>2
    <3>5. ~TaskFailed(e)'
      BY <2>5, <3>2 DEF TaskFailed
    <3>6. Fits(replay[e])'
      BY <2>5, <3>3 DEF Fits
    <3>7. \A i \in DOMAIN triggers'[e] :
            (i > 1 /\ triggers'[e][i].success) => Done(replay'[e], triggers'[e][i].task)
      <4>1. \A i \in DOMAIN triggers[e] :
              (i > 1 /\ triggers[e][i].success) => Done(st, triggers[e][i].task)
        BY <2>1, <3>1 DEF HistoryOK
      <4>2. replay'[e].completed = st.completed
        BY <2>4, <2>5
      <4>3. \A n : Done(st, n) => Done(replay'[e], n)
        BY <4>2 DEF Done
      <4> QED
        BY <2>5, <4>1, <4>3
    <3> QED
      BY <2>5, <3>4, <3>5, <3>6, <3>7 DEF HistoryOK
  <2>9. ASSUME NEW x \in Executions, handled'[x] \cup dead'[x] \subseteq DOMAIN triggers[x],
               Begun(x) => Begun(x)', x # e
        PROVE  StreamOK(x)' /\ (x \notin unread' => HistoryOK(x)')
    <3>1. StreamOK(x) /\ (x \notin unread' => HistoryOK(x))
      BY DEF ControlInv, Grows
    <3> QED
      BY <2>5, <2>9, <3>1, StreamStays
  <2> QED
    BY <2>3, <2>5, <2>6, <2>7, <2>8, <2>9
<1> QED
  BY <1>2, <1>6, <1>7 DEF HolderOK

(* After the publication the job goes on, with the status of the event.    *)
LEMMA PublishStepKeeps ==
  ASSUME ControlInv, NEW g \in Permits, PublishStep(g)
  PROVE  ControlInv'
<1>1. PICK q \in Jobs : q = job[g]
  BY DEF ControlInv, Typed
<1>2. /\ Typed /\ q.phase = "publishing" /\ Busy(g) /\ JobOK(g) /\ HolderOK(q) /\ lock = g
      /\ Publish(StepEvent(job[g])) /\ AfterPublication(g)
      /\ UNCHANGED <<record, handled, dead, lock, request, faults, unread, restarted>>
  BY <1>1 DEF ControlInv, PublishStep, Succeed, pastVars, JobOK, Busy, Holds
<1>3. PICK e \in Executions : e = q.execution
  BY <1>1, <1>2 DEF JobOK
<1>4. PICK j : j = IF q.step.action = "request" THEN [q EXCEPT !.phase = "reading"]
                   ELSE [q EXCEPT !.status = "completed",
                           !.phase = IF q.context = NoExecution THEN "reading" ELSE "completing"]
  OBVIOUS
<1>5. job' = [job EXCEPT ![g] = j]
  BY <1>1, <1>2, <1>4 DEF AfterPublication, Goto, SetJob
<1>6. /\ j \in Jobs /\ j.execution = e /\ j.event = q.event /\ j.attempt = q.attempt
      /\ j.context = q.context /\ j.context \in {e, NoExecution}
      /\ \/ /\ q.step.action = "request" /\ j.phase = "reading" /\ j.status = q.status
         \/ /\ q.step.action = "complete" /\ j.status = "completed"
            /\ j.phase \in {"reading", "completing"}
            /\ j.phase = "completing" => j.context = e
  BY <1>2, <1>3, <1>4 DEF Jobs, Statuses, HolderOK
<1>7. Grows
  <2>1. faults \in 0 .. MaxFaults /\ faults <= faults
    BY <1>2, ControlAssumption DEF Typed
  <2> QED
    BY <1>2, <2>1 DEF Grows, Exists, Wrote
<1>8. /\ triggers' = triggers /\ replay' \in [Executions -> EngineState]
      /\ asked' \in [Executions -> [TaskNames -> Nat]]
      /\ \A x \in Executions : replay'[x].completed = replay[x].completed
      /\ \A x \in Executions :
           /\ handled'[x] \cup dead'[x] \subseteq DOMAIN triggers[x]
           /\ Begun(x) => Begun(x)'
           => StreamOK(x)' /\ (x \notin unread' => HistoryOK(x)')
  BY <1>1, <1>2, <1>3, <1>7, StepPublished
<1>9. Typed'
  BY <1>2, <1>5, <1>6, <1>8 DEF Typed
<1>10. HolderOK(j)'
  <2>1. ASSUME e \notin unread' PROVE StatusOK(j, e)' /\ j.context = e
    <3>1. StepOK(q, e) /\ q.context = e /\ RecordOK(e) /\ Exists(e) /\ HistoryOK(e)
      <4>1. StreamOK(e) /\ q.event \in DOMAIN triggers[e]
        BY <1>1, <1>2, <1>3 DEF ControlInv, JobOK
      <4> QED
        BY <1>2, <1>3, <2>1, <4>1 DEF HolderOK, ControlInv, StreamOK
    <3>2. /\ ~TaskFailed(e)' /\ (Succeeded(e)' <=> Succeeded(e))
          /\ record'[e].status = "completed" => Succeeded(e)
      <4>1. ~TaskFailed(e)
        BY <3>1 DEF StepOK, HistoryOK
      <4> QED
        BY <1>2, <1>8, <2>1, <3>1, <4>1 DEF TaskFailed, Succeeded, RecordOK
    <3>3. CASE q.step.action = "request"
      <4>1. ~Succeeded(e) /\ j.status # "completed"
        BY <1>6, <3>1, <3>3 DEF StepOK, Succeeded
      <4> QED
        BY <1>6, <3>1, <3>2, <4>1 DEF StatusOK, Tells
    <3>4. CASE q.step.action = "complete"
      BY <1>6, <3>1, <3>2, <3>4 DEF StatusOK, Tells, StepOK
    <3> QED
      BY <1>6, <3>3, <3>4
  <2> QED
    BY <1>6, <2>1 DEF HolderOK
<1>11. /\ \A h \in Permits : JobOK(h)'
       /\ \A h, k \in Permits : Apart(h, k)'
       /\ \A x \in Executions : Begun(x) => Begun(x)'
  <2>1. j.phase \notin {"idle", "waiting"} /\ lock \in {g, NoPermit} /\ lock' = g
    BY <1>2, <1>6
  <2> QED
    BY <1>1, <1>2, <1>3, <1>5, <1>6, <1>8, <1>10, <2>1, HolderGoesOn
<1>12. ASSUME NEW x \in Executions
       PROVE  StreamOK(x)' /\ RecordOK(x)' /\ (x \notin unread' => HistoryOK(x)')
  <2>1. RecordOK(x) /\ StreamOK(x)
    BY DEF ControlInv
  <2>2. RecordOK(x)'
    BY <1>2, <1>7, <1>8, <2>1, RecordStays
  <2>3. handled'[x] \cup dead'[x] \subseteq DOMAIN triggers[x]
    BY <1>2, <2>1 DEF StreamOK
  <2> QED
    BY <1>8, <1>11, <2>2, <2>3
<1>13. \A c \in Requests : RequestOK(c)'
  BY <1>2, <1>7, RequestStays DEF ControlInv
<1> QED
  BY <1>9, <1>11, <1>12, <1>13 DEF ControlInv

LEMMA PublishStepFailsKeeps ==
  ASSUME ControlInv, NEW g \in Permits, PublishStepFails(g)
  PROVE  ControlInv'
<1>1. /\ Typed /\ Fault /\ job[g].phase = "publishing" /\ Busy(g) /\ lock = g /\ lock' = NoPermit
      /\ AfterError(g) /\ (Publish(StepEvent(job[g])) \/ UNCHANGED streamVars)
      /\ UNCHANGED <<record, handled, request, unread, restarted>>
  BY DEF ControlInv, PublishStepFails, PublishFails, Unlock, pastVars, JobOK, Busy, Holds
<1>2. PICK e \in Executions : e = job[g].execution
  BY <1>1 DEF ControlInv, JobOK
<1>3. Grows
  BY <1>1, CallCounted DEF Grows, Exists, Wrote
<1>4. /\ triggers' = triggers /\ replay' \in [Executions -> EngineState]
      /\ asked' \in [Executions -> [TaskNames -> Nat]]
      /\ \A x \in Executions : replay'[x].completed = replay[x].completed
      /\ \A x \in Executions :
           /\ handled'[x] \cup dead'[x] \subseteq DOMAIN triggers[x]
           /\ Begun(x) => Begun(x)'
           => StreamOK(x)' /\ (x \notin unread' => HistoryOK(x)')
  <2>1. CASE Publish(StepEvent(job[g]))
    BY <1>1, <1>2, <1>3, <2>1, StepPublished
  <2>2. CASE UNCHANGED streamVars
    <3>1. UNCHANGED <<replay, triggers, asked>>
      BY <2>2 DEF streamVars
    <3>2. ASSUME NEW x \in Executions, handled'[x] \cup dead'[x] \subseteq DOMAIN triggers[x],
                 Begun(x) => Begun(x)'
          PROVE  StreamOK(x)' /\ (x \notin unread' => HistoryOK(x)')
      <4>1. StreamOK(x) /\ (x \notin unread' => HistoryOK(x))
        BY <1>1 DEF ControlInv
      <4> QED
        BY <1>3, <3>1, <3>2, <4>1, StreamStays
    <3> QED
      BY <1>1, <3>1, <3>2 DEF Typed
  <2> QED
    BY <1>1, <2>1, <2>2
<1>5. /\ job' \in [Permits -> Jobs] /\ dead' \in [Executions -> SUBSET Nat]
      /\ \A h \in Permits : JobOK(h)'
      /\ \A h, k \in Permits : Apart(h, k)'
      /\ \A x \in Executions : Begun(x) => Begun(x)'
      /\ \A x \in Executions : handled'[x] \cup dead'[x] \subseteq DOMAIN triggers[x]
  BY <1>1, <1>4, AfterErrorLeaves
<1>6. Typed'
  BY <1>1, <1>3, <1>4, <1>5 DEF Typed, Grows
<1>7. \A x \in Executions : RecordOK(x)'
  BY <1>1, <1>3, <1>4, RecordStays DEF ControlInv
<1>8. \A c \in Requests : RequestOK(c)'
  BY <1>1, <1>3, RequestStays DEF ControlInv
<1> QED
  BY <1>4, <1>5, <1>6, <1>7, <1>8 DEF ControlInv

(* A read: what is seen is the record as it is, or nothing if the call     *)
(* failed.                                                                 *)
LEMMA ReadStep ==
  ASSUME ControlInv, Typed, Succeed \/ Fault, NEW g \in Permits, Holds(g),
         NEW q \in Jobs, q = job[g], q.phase # "publishing",
         NEW e \in Executions, e = q.execution,
         NEW j \in Jobs, job' = [job EXCEPT ![g] = j],
         j.phase \in {"storing", "reading", "writing"},
         j.phase = "storing" => (j.seen \in Record /\ q.phase = "completing"),
         j.phase \in {"storing", "writing"} =>
           IF j.seen = NoRecord THEN (q.context = e => Fault) ELSE j.seen = record[e],
         j.execution = e, j.event = q.event, j.attempt = q.attempt, j.context = q.context,
         j.status = q.status,
         UNCHANGED <<record, streamVars, handled, dead, lock, request, pastVars>>
  PROVE  ControlInv'
<1>1. /\ HolderOK(q) /\ lock = g /\ Busy(g) /\ RecordOK(e) /\ Exists(e)
      /\ UNCHANGED <<replay, triggers, asked, unread, restarted>>
  <2>1. /\ JobOK(g) /\ StreamOK(e) /\ RecordOK(e) /\ Busy(g)
        /\ triggers \in [Executions -> Seq(Event)]
    BY DEF ControlInv, Holds, Busy, Typed
  <2>2. e = job[g].execution /\ job[g].event \in DOMAIN triggers[e]
    BY <2>1 DEF JobOK
  <2> QED
    BY <2>1, <2>2 DEF JobOK, StreamOK, streamVars, pastVars
<1>2. Grows
  BY <1>1, CallCounted DEF Grows, Exists, Wrote
<1>3. Typed'
  BY <1>1, <1>2 DEF Typed, Grows
<1>4. PICK r : r = j.seen
  OBVIOUS
<1>5. j.phase \in {"storing", "writing"} =>
        IF r = NoRecord THEN (j.context = e => faults' > 0) ELSE CopyOK(r, e)'
  <2>1. Fault => faults' > 0
    BY CallCounted
  <2>2. r = record[e] => CopyOK(r, e)'
    <3>1. ASSUME r = record[e] PROVE CopyOK(r, e)
      BY <1>1, <3>1 DEF RecordOK
    <3> QED
      BY <1>2, <3>1, CopyStays
  <2> QED
    BY <1>4, <2>1, <2>2
<1>6. e \notin unread' => j.context = e /\ StatusOK(j, e)'
  <2>1. e \notin unread' => q.context = e /\ StatusOK(q, e)
    BY <1>1 DEF HolderOK
  <2>2. PICK s, i : s = j.status /\ i = j.event
    OBVIOUS
  <2>3. Tells(e, s) => Tells(e, s)'
    BY <1>1, <1>2, TellsStays
  <2>4. LastIn(e, i)' <=> LastIn(e, i)
    BY <1>1 DEF LastIn
  <2>5. Succeeded(e)' <=> Succeeded(e)
    BY <1>1 DEF Succeeded
  <2> QED
    BY <2>1, <2>2, <2>3, <2>4, <2>5 DEF StatusOK, LastIn, Tells
<1>7. HolderOK(j)'
  <2>1. /\ j.context \in {e, NoExecution}
        /\ j.phase = "storing" => (j.context = e /\ j.status = "completed")
    BY <1>1 DEF HolderOK
  <2> QED
    BY <1>4, <1>5, <1>6, <2>1 DEF HolderOK, CopyOK
<1>8. j.phase \notin {"idle", "waiting"} /\ lock' = g
  BY <1>1
<1> QED
  BY <1>1, <1>2, <1>3, <1>7, <1>8, JobStep

LEMMA ReadToCompleteKeeps ==
  ASSUME ControlInv, NEW g \in Permits, ReadToComplete(g)
  PROVE  ControlInv'
<1>1. PICK q \in Jobs : q = job[g]
  BY DEF ControlInv, Typed
<1>2. /\ Typed /\ q.phase = "completing" /\ Holds(g) /\ Busy(g) /\ HolderOK(q) /\ JobOK(g)
      /\ UNCHANGED <<record, streamVars, handled, dead, lock, request, pastVars>>
  BY <1>1 DEF ControlInv, ReadToComplete, JobOK, Holds, Busy
<1>3. PICK e \in Executions : e = q.execution
  BY <1>1, <1>2 DEF JobOK
<1>4. q.context = e /\ record[e] \in Record
  <2>1. StreamOK(e) /\ q.event \in DOMAIN triggers[e]
    BY <1>1, <1>2, <1>3 DEF ControlInv, JobOK
  <2>2. Exists(e)
    BY <2>1 DEF StreamOK
  <2> QED
    BY <1>2, <1>3, <2>2 DEF HolderOK, Typed, Exists
<1>5. CASE Succeed /\ Seen(g, GetExecution(job[g].context), "storing")
  <2>1. PICK j : j = [q EXCEPT !.phase = "storing", !.seen = record[e]]
    OBVIOUS
  <2>2. job' = [job EXCEPT ![g] = j]
    BY <1>1, <1>4, <1>5, <2>1, ExecutionsAssumption DEF Seen, SetJob, GetExecution
  <2>3. /\ j \in Jobs /\ j.phase = "storing" /\ j.seen = record[e]
        /\ j.execution = e /\ j.event = q.event /\ j.attempt = q.attempt
        /\ j.context = q.context /\ j.status = q.status
    BY <1>3, <1>4, <2>1 DEF Jobs
  <2>4. j.seen # NoRecord
    BY <1>4, <2>3, RecordIsThere
  <2> QED
    BY <1>1, <1>2, <1>3, <1>4, <1>5, <2>2, <2>3, <2>4, ReadStep
<1>6. CASE Fault /\ Goto(g, "reading")
  <2>1. PICK j : j = [q EXCEPT !.phase = "reading"]
    OBVIOUS
  <2>2. job' = [job EXCEPT ![g] = j]
    BY <1>1, <1>6, <2>1 DEF Goto, SetJob
  <2>3. /\ j \in Jobs /\ j.phase = "reading"
        /\ j.execution = e /\ j.event = q.event /\ j.attempt = q.attempt
        /\ j.context = q.context /\ j.status = q.status
    BY <1>3, <2>1 DEF Jobs
  <2> QED
    BY <1>1, <1>2, <1>3, <1>6, <2>2, <2>3, ReadStep
<1> QED
  BY <1>5, <1>6 DEF ReadToComplete

LEMMA ReadTimesKeeps ==
  ASSUME ControlInv, NEW g \in Permits, ReadTimes(g)
  PROVE  ControlInv'
<1>1. PICK q \in Jobs : q = job[g]
  BY DEF ControlInv, Typed
<1>2. /\ Typed /\ q.phase = "reading" /\ Holds(g) /\ Busy(g) /\ HolderOK(q) /\ JobOK(g)
      /\ UNCHANGED <<record, streamVars, handled, dead, lock, request, pastVars>>
  BY <1>1 DEF ControlInv, ReadTimes, JobOK, Holds, Busy
<1>3. PICK e \in Executions : e = q.execution
  BY <1>1, <1>2 DEF JobOK
<1>4. q.context \in {e, NoExecution} /\ record[e] \in Record /\ record[e] # NoRecord
  <2>1. StreamOK(e) /\ q.event \in DOMAIN triggers[e]
    BY <1>1, <1>2, <1>3 DEF ControlInv, JobOK
  <2>2. Exists(e)
    BY <2>1 DEF StreamOK
  <2> QED
    BY <1>2, <1>3, <2>2 DEF HolderOK, Typed, Exists
<1>5. PICK r \in Record \cup {NoRecord} :
        /\ Succeed \/ Fault
        /\ Seen(g, r, "writing")
        /\ IF r = NoRecord THEN (q.context = e => Fault) ELSE r = record[e]
  <2>1. CASE Succeed /\ Seen(g, GetExecution(job[g].context), "writing")
    <3>1. GetExecution(q.context) = IF q.context = e THEN record[e] ELSE NoRecord
      BY <1>4, ExecutionsAssumption DEF GetExecution
    <3> QED
      BY <1>1, <1>4, <2>1, <3>1
  <2>2. CASE Fault /\ Seen(g, NoRecord, "writing")
    BY <2>2
  <2> QED
    BY <2>1, <2>2 DEF ReadTimes
<1>6. PICK j : j = [q EXCEPT !.phase = "writing", !.seen = r]
  OBVIOUS
<1>7. job' = [job EXCEPT ![g] = j]
  BY <1>1, <1>5, <1>6 DEF Seen, SetJob
<1>8. /\ j \in Jobs /\ j.phase = "writing" /\ j.seen = r
      /\ j.execution = e /\ j.event = q.event /\ j.attempt = q.attempt
      /\ j.context = q.context /\ j.status = q.status
  BY <1>3, <1>6 DEF Jobs
<1> QED
  BY <1>1, <1>2, <1>3, <1>5, <1>7, <1>8, ReadStep

(* The first of the two calls that complete a record.                      *)
LEMMA UpdateExecutionStatusKeeps ==
  ASSUME ControlInv, NEW g \in Permits, UpdateExecutionStatus(g)
  PROVE  /\ ControlInv'
         /\ \A x \in Executions : \/ record'[x] = record[x]
                                  \/ record'[x].status = "completed"
<1>1. PICK q \in Jobs : q = job[g]
  BY DEF ControlInv, Typed
<1>2. PICK new : new = [q.seen EXCEPT !.status = "completed", !.done = TRUE]
  OBVIOUS
<1>3. /\ Typed /\ q.phase = "storing" /\ Holds(g) /\ Busy(g) /\ HolderOK(q) /\ JobOK(g)
      /\ lock = g /\ (Succeed \/ Fault)
      /\ UpdateExecution(q.context, new) \/ record' = record
      /\ job' = [job EXCEPT ![g] = [q EXCEPT !.phase = "reading"]]
      /\ UNCHANGED <<replay, triggers, asked, handled, dead, lock, request, unread, restarted>>
  BY <1>1, <1>2 DEF ControlInv, UpdateExecutionStatus, UpdateFails, JobOK, Holds, Busy,
     Goto, SetJob, streamVars, pastVars
<1>4. PICK e \in Executions : e = q.execution
  BY <1>1, <1>3 DEF JobOK
<1>5. PICK j : j = [q EXCEPT !.phase = "reading"]
  OBVIOUS
<1>6. /\ j \in Jobs /\ j.phase = "reading" /\ j.execution = e /\ j.event = q.event
      /\ j.attempt = q.attempt /\ j.context = q.context /\ j.status = q.status
      /\ job' = [job EXCEPT ![g] = j]
  BY <1>3, <1>4, <1>5 DEF Jobs
<1>7. /\ q.context = e /\ q.status = "completed" /\ q.seen \in Record /\ q.seen # NoRecord
      /\ CopyOK(q.seen, e)
  BY <1>3, <1>4, RecordIsThere DEF HolderOK
<1>8. /\ new \in Record /\ new.status = "completed" /\ new.done
      /\ new.started = q.seen.started /\ new.tenant = q.seen.tenant
  BY <1>2, <1>7 DEF Record, RecordStatuses
<1>9. /\ faults <= faults' /\ faults' \in 0 .. MaxFaults
      /\ \A c \in Requests : \A x \in Executions : Wrote(c, x)' <=> Wrote(c, x)
  BY <1>3, CallCounted DEF Wrote
<1>10. CopyOK(new, e)'
  <2>1. new.started # "api" => faults' > 0
    <3>1. faults \in Nat /\ faults' \in Nat
      BY <1>3, <1>9, ControlAssumption DEF Typed
    <3> QED
      BY <1>7, <1>8, <1>9, <3>1 DEF CopyOK
  <2>2. new.tenant # "own" => (\E c \in Requests : Wrote(c, e))'
    BY <1>7, <1>8, <1>9 DEF CopyOK
  <2> QED
    BY <2>1, <2>2 DEF CopyOK
<1>11. /\ Succeeded(e)' <=> Succeeded(e)
       /\ TaskFailed(e)' <=> TaskFailed(e)
       /\ LastIn(e, q.event)' <=> LastIn(e, q.event)
  BY <1>3, <1>6 DEF Succeeded, TaskFailed, LastIn
<1>12. e \notin unread' =>
         /\ Succeeded(e)
         /\ LastIn(e, q.event) => ~TaskFailed(e)
  BY <1>3, <1>4, <1>7 DEF HolderOK, StatusOK, Tells
<1>13. e \notin unread' =>
         /\ new.status = "completed" => Succeeded(e)'
         /\ Len(triggers'[e]) \in handled'[e] => Tells(e, new.status)'
  BY <1>3, <1>8, <1>11, <1>12 DEF Tells, LastIn
<1>14. \/ record' = record
       \/ /\ record' \in [Executions -> Record \cup {NoRecord}]
          /\ record'[e].status = "completed" /\ Exists(e)' /\ RecordOK(e)'
          /\ \A x \in Executions \ {e} : record'[x] = record[x]
  <2>1. CASE UpdateExecution(q.context, new)
    <3>1. UpdateExecution(e, new)
      BY <1>7, <2>1
    <3> QED
      BY <1>3, <1>8, <1>10, <1>13, <3>1, RecordWritten
  <2> QED
    BY <1>3, <2>1
<1>15. Grows
  BY <1>3, <1>9, <1>14 DEF Grows, Exists
<1>16. Typed'
  BY <1>3, <1>6, <1>14, <1>15 DEF Typed, Grows
<1>17. HolderOK(j)'
  <2>1. e \notin unread' => StatusOK(j, e)'
    BY <1>6, <1>7, <1>11, <1>12 DEF StatusOK, Tells, LastIn
  <2> QED
    BY <1>6, <1>7, <2>1 DEF HolderOK
<1>18. /\ \A h \in Permits : JobOK(h)'
       /\ \A h, k \in Permits : Apart(h, k)'
       /\ \A x \in Executions : Begun(x) => Begun(x)'
  <2>1. j.phase \notin {"idle", "waiting"} /\ lock \in {g, NoPermit} /\ lock' = g
    BY <1>3, <1>6
  <2> QED
    BY <1>1, <1>3, <1>4, <1>6, <1>17, <2>1, HolderGoesOn
<1>19. ASSUME NEW x \in Executions
       PROVE  StreamOK(x)' /\ RecordOK(x)' /\ (x \notin unread' => HistoryOK(x)')
  <2>1. RecordOK(x) /\ StreamOK(x) /\ (x \notin unread' => HistoryOK(x))
    BY <1>3 DEF ControlInv
  <2>2. RecordOK(x)'
    <3>1. CASE record'[x] = record[x]
      BY <1>3, <1>15, <2>1, <3>1, RecordStays
    <3>2. CASE record'[x] # record[x]
      BY <1>14, <3>2
    <3> QED
      BY <3>1, <3>2
  <2>3. handled'[x] \cup dead'[x] \subseteq DOMAIN triggers[x]
    BY <1>3, <2>1 DEF StreamOK
  <2> QED
    BY <1>3, <1>15, <1>18, <2>1, <2>2, <2>3, StreamStays
<1>20. \A c \in Requests : RequestOK(c)'
  BY <1>3, <1>15, RequestStays DEF ControlInv
<1>21. ControlInv'
  BY <1>16, <1>18, <1>19, <1>20 DEF ControlInv
<1> QED
  BY <1>14, <1>21

(* The rebuilt state is written, or the call fails and may have written    *)
(* it: the record tells what the last event that is handled told.          *)
LEMMA StateWritten ==
  ASSUME ControlInv, Succeed \/ Fault, NEW g \in Permits, job[g].phase = "writing",
         NEW e \in Executions, e = job[g].execution,
         \/ UpdateExecution(job[g].context, StateAsExecution(job[g]))
         \/ record' = record /\ handled' = handled,
         handled'[e] \subseteq handled[e] \cup {job[g].event},
         \A x \in Executions \ {e} : handled'[x] = handled[x],
         UNCHANGED <<replay, triggers, asked, request, unread, restarted>>
  PROVE  /\ record' \in [Executions -> Record \cup {NoRecord}] /\ Grows
         /\ \A x \in Executions : RecordOK(x)'
         /\ \A x \in Executions :
              \/ record'[x] = record[x]
              \/ x = e /\ (e \notin unread => (record[e].status = "completed" =>
                                                 record'[e].status = "completed"))
<1>1. PICK q \in Jobs : q = job[g]
  BY DEF ControlInv, Typed
<1>2. /\ Typed /\ q.phase = "writing" /\ HolderOK(q) /\ q.execution = e
      /\ RecordOK(e) /\ q.context \in {e, NoExecution} /\ q.seen \in Record \cup {NoRecord}
      /\ q.status \in Statuses
  BY <1>1 DEF ControlInv, JobOK, Holds, HolderOK, Jobs
<1>3. PICK new : new = StateAsExecution(q)
  OBVIOUS
<1>4. /\ faults <= faults' /\ faults' \in 0 .. MaxFaults
      /\ \A c \in Requests : \A x \in Executions : Wrote(c, x)' <=> Wrote(c, x)
  BY <1>2, CallCounted DEF Wrote
<1>5. /\ new \in Record /\ new.status = RecordStatus(q.status) /\ new.tenant = "own"
      /\ new.started = IF q.seen = NoRecord THEN "event" ELSE q.seen.started
      /\ new.status \in Terminal => new.done
  <2> DEFINE d == (q.seen # NoRecord /\ q.seen.done) \/ q.status \in Terminal
             s == IF q.seen = NoRecord THEN "event" ELSE q.seen.started
  <2>1. s \in {"api", "event"}
    BY <1>2 DEF Record
  <2>2. RecordStatus(q.status) \in RecordStatuses
    BY <1>2 DEF RecordStatus, RecordStatuses, Statuses
  <2>3. d \in BOOLEAN
    OBVIOUS
  <2>4. RecordStatus(q.status) \in Terminal => d
    BY DEF RecordStatus, Terminal
  <2>5. new = [status |-> RecordStatus(q.status), started |-> s, done |-> d, tenant |-> "own"]
    BY <1>3 DEF StateAsExecution
  <2> HIDE DEF d
  <2>6. new \in Record /\ new.done = d /\ new.status = RecordStatus(q.status)
        /\ new.tenant = "own" /\ new.started = s
    BY <2>1, <2>2, <2>3, <2>5 DEF Record
  <2> QED
    BY <2>4, <2>6
<1>6. ASSUME q.context = e PROVE CopyOK(new, e)'
  <2>1. new.started # "api" => faults > 0
    BY <1>2, <1>5, <1>6 DEF HolderOK, CopyOK
  <2>2. faults > 0 => faults' > 0
    <3>1. faults \in Nat /\ faults' \in Nat
      BY <1>2, <1>4, ControlAssumption DEF Typed
    <3> QED
      BY <1>4, <3>1
  <2> QED
    BY <1>5, <2>1, <2>2 DEF CopyOK
<1>7. /\ Succeeded(e)' <=> Succeeded(e)
      /\ TaskFailed(e)' <=> TaskFailed(e)
  BY DEF Succeeded, TaskFailed
<1>8. e \notin unread => q.context = e /\ StatusOK(q, e)
  BY <1>2 DEF HolderOK
<1>9. /\ new.status = "completed" <=> q.status = "completed"
      /\ q.status = "failed" => new.status = "failed"
      /\ q.status = "running" => new.status = "running"
  BY <1>5 DEF RecordStatus
<1>10. e \notin unread' =>
         /\ new.status = "completed" => Succeeded(e)'
         /\ Len(triggers'[e]) \in handled'[e] => Tells(e, new.status)'
  <2>1. Len(triggers'[e]) \in handled'[e] => LastIn(e, q.event)
    BY <1>1 DEF LastIn
  <2> QED
    BY <1>7, <1>8, <1>9, <2>1 DEF StatusOK, Tells
<1>11. \/ /\ record' = record
          /\ handled' = handled \/ e \in unread
       \/ /\ record' \in [Executions -> Record \cup {NoRecord}]
          /\ record'[e].status = new.status /\ Exists(e)' /\ RecordOK(e)'
          /\ \A x \in Executions \ {e} : record'[x] = record[x]
  <2>1. CASE UpdateExecution(q.context, new) /\ q.context = e
    <3>1. UpdateExecution(e, new)
      BY <2>1
    <3> QED
      BY <1>2, <1>5, <1>6, <1>10, <2>1, <3>1, RecordWritten
  <2>2. CASE UpdateExecution(q.context, new) /\ q.context = NoExecution
    BY <1>8, <2>2, ExecutionsAssumption DEF UpdateExecution
  <2> QED
    BY <1>1, <1>2, <1>3, <2>1, <2>2
<1>12. Grows
  BY <1>4, <1>11 DEF Grows, Exists
<1>13. ASSUME NEW x \in Executions
       PROVE  /\ RecordOK(x)'
              /\ \/ record'[x] = record[x]
                 \/ x = e /\ (e \notin unread => (record[e].status = "completed" =>
                                                    record'[e].status = "completed"))
  <2>1. RecordOK(x)
    BY DEF ControlInv
  <2>2. CASE record' = record /\ handled' = handled
    BY <1>2, <1>12, <2>1, <2>2, RecordStays
  <2>3. CASE record' = record /\ e \in unread /\ x = e
    <3>1. PICK r : r = record[e]
      OBVIOUS
    <3>2. CopyOK(r, e) => CopyOK(r, e)'
      BY <1>2, <1>12, CopyStays
    <3> QED
      BY <2>1, <2>3, <3>1, <3>2 DEF RecordOK, Exists, CopyOK
  <2>4. CASE x # e
    <3>1. record'[x] = record[x] /\ handled'[x] = handled[x]
      BY <1>11, <2>4
    <3> QED
      BY <1>2, <1>12, <2>1, <2>4, <3>1, RecordStays
  <2>5. CASE x = e /\ record'[e].status = new.status /\ RecordOK(e)'
    BY <1>8, <1>9, <2>5 DEF StatusOK
  <2> QED
    BY <1>11, <2>2, <2>3, <2>4, <2>5
<1> QED
  BY <1>2, <1>11, <1>12, <1>13 DEF Typed

LEMMA UpdateWorkflowStateKeeps ==
  ASSUME ControlInv, NEW g \in Permits,
         UpdateWorkflowState(g) \/ UpdateWorkflowStateFails(g)
  PROVE  /\ ControlInv'
         /\ \A x \in Executions :
              \/ record'[x] = record[x]
              \/ x \notin unread => (record[x].status = "completed" =>
                                       record'[x].status = "completed")
<1>1. /\ Typed /\ job[g].phase = "writing" /\ Busy(g) /\ lock = g /\ lock' = NoPermit
      /\ JobOK(g) /\ (Succeed \/ Fault)
      /\ UNCHANGED <<replay, triggers, asked, request, unread, restarted>>
  BY DEF ControlInv, UpdateWorkflowState, UpdateWorkflowStateFails, UpdateFails, Unlock, JobOK,
     Holds, Busy, streamVars, pastVars
<1>2. PICK e \in Executions : e = job[g].execution
  BY <1>1 DEF JobOK
<1>3. PICK i \in Nat : i = job[g].event
  BY <1>1 DEF Typed, Jobs
<1>4. /\ handled' \in [Executions -> SUBSET Nat]
      /\ handled'[e] \subseteq handled[e] \cup {job[g].event}
      /\ \A x \in Executions \ {e} : handled'[x] = handled[x]
      /\ \/ UpdateExecution(job[g].context, StateAsExecution(job[g]))
         \/ record' = record /\ handled' = handled
  <2>1. CASE UpdateWorkflowState(g)
    <3>1. handled' = [handled EXCEPT ![e] = @ \cup {i}]
      BY <1>2, <1>3, <2>1 DEF UpdateWorkflowState
    <3>2. handled \in [Executions -> SUBSET Nat]
      BY <1>1 DEF Typed
    <3>3. /\ handled' \in [Executions -> SUBSET Nat]
          /\ handled'[e] = handled[e] \cup {i}
          /\ \A x \in Executions \ {e} : handled'[x] = handled[x]
      BY <1>3, <3>1, <3>2
    <3>4. UpdateExecution(job[g].context, StateAsExecution(job[g]))
      BY <2>1 DEF UpdateWorkflowState
    <3> QED
      BY <1>3, <3>3, <3>4
  <2>2. CASE UpdateWorkflowStateFails(g)
    BY <1>1, <2>2 DEF Typed, UpdateWorkflowStateFails, UpdateFails
  <2> QED
    BY <2>1, <2>2
<1>5. /\ record' \in [Executions -> Record \cup {NoRecord}] /\ Grows
      /\ \A x \in Executions : RecordOK(x)'
      /\ \A x \in Executions :
           \/ record'[x] = record[x]
           \/ x = e /\ (e \notin unread => (record[e].status = "completed" =>
                                              record'[e].status = "completed"))
  BY <1>1, <1>2, <1>4, StateWritten
<1>6. /\ job' \in [Permits -> Jobs] /\ dead' \in [Executions -> SUBSET Nat]
      /\ \A h \in Permits : JobOK(h)'
      /\ \A h, k \in Permits : Apart(h, k)'
      /\ \A x \in Executions : Begun(x) => Begun(x)'
      /\ \A x \in Executions : handled'[x] \cup dead'[x] \subseteq DOMAIN triggers[x]
  <2>1. CASE UpdateWorkflowState(g)
    <3>1. /\ job' = [job EXCEPT ![g] = IdleJob] /\ dead' = dead
          /\ handled' = [handled EXCEPT ![e] = @ \cup {i}]
      BY <1>2, <1>3, <2>1 DEF UpdateWorkflowState, SetJob
    <3>2. \A x \in Executions :
            handled'[x] \cup dead'[x] =
              IF x = job[g].execution THEN handled[x] \cup dead[x] \cup {job[g].event}
                                      ELSE handled[x] \cup dead[x]
      BY <1>1, <1>2, <1>3, <3>1 DEF Typed
    <3>3. job' \in [Permits -> Jobs] /\ dead' \in [Executions -> SUBSET Nat]
      BY <1>1, <3>1, IdleJobTyped DEF Typed
    <3> QED
      BY <1>1, <3>1, <3>2, <3>3, HolderLeaves
  <2>2. CASE UpdateWorkflowStateFails(g)
    <3>1. AfterError(g) /\ handled' = handled
      BY <2>2 DEF UpdateWorkflowStateFails
    <3> QED
      BY <1>1, <3>1, AfterErrorLeaves
  <2> QED
    BY <2>1, <2>2
<1>7. Typed'
  BY <1>1, <1>4, <1>5, <1>6 DEF Typed, Grows
<1>8. ASSUME NEW x \in Executions
      PROVE  StreamOK(x)' /\ (x \notin unread' => HistoryOK(x)')
  <2>1. StreamOK(x) /\ (x \notin unread' => HistoryOK(x))
    BY <1>1 DEF ControlInv
  <2> QED
    BY <1>1, <1>5, <1>6, <2>1, StreamStays
<1>9. \A c \in Requests : RequestOK(c)'
  BY <1>1, <1>5, RequestStays DEF ControlInv
<1>10. ControlInv'
  BY <1>5, <1>6, <1>7, <1>8, <1>9 DEF ControlInv
<1> QED
  BY <1>5, <1>10

-----------------------------------------------------------------------------
LEMMA WorkerKeeps ==
  ASSUME ControlInv, NEW g \in Permits, Worker(g)
  PROVE  ControlInv'
<1>1. ASSUME NEW e \in Executions, NEW i \in DOMAIN triggers[e], TakeEvent(g, e, i)
      PROVE  ControlInv'
  BY <1>1, TakeEventKeeps
<1>2. CASE Rebuild(g)
  BY <1>2, RebuildKeeps
<1>3. CASE RebuildBlind(g)
  BY <1>3, RebuildBlindKeeps
<1>4. CASE RebuildFails(g)
  BY <1>4, RebuildFailsKeeps
<1>5. CASE PublishStep(g)
  BY <1>5, PublishStepKeeps
<1>6. CASE PublishStepFails(g)
  BY <1>6, PublishStepFailsKeeps
<1>7. CASE ReadToComplete(g)
  BY <1>7, ReadToCompleteKeeps
<1>8. CASE UpdateExecutionStatus(g)
  BY <1>8, UpdateExecutionStatusKeeps
<1>9. CASE ReadTimes(g)
  BY <1>9, ReadTimesKeeps
<1>10. CASE UpdateWorkflowState(g) \/ UpdateWorkflowStateFails(g)
  BY <1>10, UpdateWorkflowStateKeeps
<1> QED
  BY <1>1, <1>2, <1>3, <1>4, <1>5, <1>6, <1>7, <1>8, <1>9, <1>10 DEF Worker

(* The invariant is inductive.                                             *)
LEMMA NextControlInv ==
  ASSUME ControlInv, [Next]_vars
  PROVE  ControlInv'
<1>1. ASSUME NEW e \in Executions, ExecuteWorkflow(e) PROVE ControlInv'
  BY <1>1, ExecuteWorkflowKeeps
<1>2. ASSUME NEW e \in Executions, Executor(e) PROVE ControlInv'
  BY <1>2, ExecutorAnswersKeeps DEF Executor
<1>3. ASSUME NEW c \in Requests, Cancel(c) PROVE ControlInv'
  BY <1>3, ReadToCancelKeeps, CancelWriteKeeps DEF Cancel
<1>4. ASSUME NEW g \in Permits, Worker(g) PROVE ControlInv'
  BY <1>4, WorkerKeeps
<1>5. CASE UNCHANGED vars
  <2>1. /\ UNCHANGED <<streamVars, workerVars, pastVars>> /\ Typed
        /\ UNCHANGED <<record, replay, triggers, asked, handled, dead, lock, job, request,
                       faults, unread, restarted>>
    BY <1>5 DEF vars, streamVars, workerVars, pastVars, ControlInv
  <2>2. Grows
    <3>1. faults \in 0 .. MaxFaults /\ faults <= faults
      BY <2>1, ControlAssumption DEF Typed
    <3> QED
      BY <2>1, <3>1 DEF Grows, Exists, Wrote
  <2>3. Typed'
    BY <2>1 DEF Typed
  <2>4. \A e \in Executions : RecordOK(e)' /\ record'[e] = record[e]
    BY <2>1, <2>2, RecordStays DEF ControlInv
  <2>5. \A c \in Requests : RequestOK(c)'
    BY <2>1, <2>2, RequestStays DEF ControlInv
  <2> QED
    BY <2>1, <2>2, <2>3, <2>4, <2>5, CancelStep
<1> QED
  BY <1>1, <1>2, <1>3, <1>4, <1>5 DEF Next

(* The invariant holds of every behaviour of the API and the worker.       *)
THEOREM ControlInvariant == Spec => []ControlInv
<1>1. Init => ControlInv
  BY InitControlInv
<1>2. ControlInv /\ [Next]_vars => ControlInv'
  BY NextControlInv
<1> QED
  BY <1>1, <1>2, PTL DEF Spec

(* The goroutine that has taken the mutex is the one that holds it, no     *)
(* event is in the hands of two goroutines, and nothing is cancelled that  *)
(* was read as over (acquireWorkflowLock, CancelExecution).                *)
THEOREM TypeCorrect == Spec => []TypeOK
<1>1. ASSUME ControlInv PROVE TypeOK
  <2>1. Typed
    BY <1>1 DEF ControlInv
  <2>2. \A g \in Permits : lock = g <=> job[g].phase \notin {"idle", "waiting"}
    BY <1>1 DEF ControlInv, JobOK, Holds
  <2>3. ASSUME NEW g \in Permits, job[g].execution \in Executions
        PROVE  Busy(g) /\ job[g].event \in DOMAIN triggers[job[g].execution]
    BY <1>1, <2>3, ExecutionsAssumption DEF ControlInv, JobOK, IdleJob
  <2>4. ASSUME NEW e \in Executions PROVE Taken(e) \subseteq DOMAIN triggers[e]
    <3>1. handled[e] \cup dead[e] \subseteq DOMAIN triggers[e]
      BY <1>1 DEF ControlInv, StreamOK
    <3>2. \A g \in Permits : job[g].execution = e => job[g].event \in DOMAIN triggers[e]
      BY <2>3
    <3> QED
      BY <3>1, <3>2 DEF Taken
  <2>5. ASSUME NEW g \in Permits, NEW h \in Permits, job[g] # IdleJob,
               job[g].execution = job[h].execution, job[g].event = job[h].event
        PROVE  g = h
    <3>1. Busy(g) /\ job[g].execution \in Executions
      BY <1>1, <2>5 DEF ControlInv, JobOK
    <3>2. Busy(h)
      BY <2>3, <2>5, <3>1
    <3> QED
      BY <1>1, <2>5, <3>1, <3>2 DEF ControlInv, Apart
  <2>6. \A c \in Requests : request[c].phase = "writing" => request[c].seen.status \in Running
    BY <1>1 DEF ControlInv, RequestOK
  <2> QED
    BY <2>1, <2>2, <2>4, <2>5, <2>6 DEF TypeOK, Typed
<1> QED
  BY <1>1, ControlInvariant, PTL

(* Whatever copies the writers merge, a record has a completion time if    *)
(* and only if it is over (UpdateWorkflowState, updateExecutionStatus).    *)
THEOREM DoneIsOverHolds == Spec => []DoneIsOver
<1>1. ControlInv => DoneIsOver
  BY DEF ControlInv, RecordOK, DoneIsOver
<1> QED
  BY <1>1, ControlInvariant, PTL

(* The API's start time survives every read-then-write, unless a call to   *)
(* Redis failed (UpdateWorkflowState, CancelExecution).                    *)
THEOREM StartKeptHolds == Spec => []StartKept
<1>1. ControlInv => StartKept
  BY DEF ControlInv, RecordOK, CopyOK, StartKept
<1> QED
  BY <1>1, ControlInvariant, PTL

(* A record leaves its tenant's list only by the hand of a request to      *)
(* cancel (GetByID and Update of the API's repository).                    *)
THEOREM HiddenMeansCancelledHolds == Spec => []HiddenMeansCancelled
<1>1. ControlInv => HiddenMeansCancelled
  BY DEF ControlInv, RecordOK, CopyOK, HiddenMeansCancelled, ListExecutions,
     MatchesExecutionFilters, KeyTenant
<1> QED
  BY <1>1, ControlInvariant, PTL

(* An execution whose events have all been handled is recorded as it       *)
(* ended, or as cancelled, but for a failure that a second attempt at the  *)
(* start has turned into "running" (updateWorkflowRecord after every       *)
(* attempt, with the mutex free between two).                              *)
THEOREM RestMeansRecordedHolds == Spec => []RestMeansRecorded
<1>1. ASSUME ControlInv, NEW e \in Executions \ unread, handled[e] = DOMAIN triggers[e],
             Succeeded(e) \/ TaskFailed(e)
      PROVE  \/ Tells(e, record[e].status)
             \/ /\ record[e].status = "failed" /\ \E c \in Requests : Wrote(c, e)
  <2>1. StreamOK(e) /\ RecordOK(e) /\ triggers[e] \in Seq(Event)
    BY <1>1 DEF ControlInv, Typed
  <2>2. triggers[e] # <<>>
    <3>1. TaskFailed(e) => triggers[e] # <<>>
      BY DEF TaskFailed
    <3>2. Succeeded(e) => replay[e] # EmptyState
      BY TaskListAssumption DEF Succeeded, EmptyState
    <3> QED
      BY <1>1, <2>1, <3>1, <3>2 DEF StreamOK
  <2>3. Len(triggers[e]) \in handled[e]
    <3>1. Len(triggers[e]) \in 1 .. Len(triggers[e])
      BY <2>1, <2>2
    <3> QED
      BY <1>1, <2>1, <3>1
  <2> QED
    BY <1>1, <2>1, <2>2, <2>3 DEF StreamOK, RecordOK
<1>2. ControlInv => RestMeansRecorded
  BY <1>1 DEF RestMeansRecorded, Tells
<1> QED
  BY <1>2, ControlInvariant, PTL

(* Nothing but a request to cancel that read it before, or a history taken *)
(* for empty, turns a completed record into another: no attempt of the     *)
(* worker that is repeated, and none of an event before the last           *)
(* (ProcessWorkflowEvent, CancelExecution).                                *)
THEOREM OutcomeKeptHolds == Spec => OutcomeKept
<1> DEFINE Kept(e) ==
      Exists(e) /\ record[e].status = "completed" /\ record'[e].status # "completed" =>
         \/ e \in unread
         \/ \E c \in Requests : /\ request[c].execution = e
                                /\ request[c].phase = "writing"
                                /\ request[c].seen.status \in Running
<1>1. ASSUME ControlInv, [Next]_vars, NEW e \in Executions PROVE Kept(e)
  <2>1. CASE record' = record
    BY <2>1
  <2>2. ASSUME NEW x \in Executions, ExecuteWorkflow(x) PROVE Kept(e)
    BY <1>1, <2>2 DEF ExecuteWorkflow, CreateExecution, ControlInv, Typed
  <2>3. ASSUME NEW x \in Executions, Executor(x) PROVE record' = record
    BY <2>3 DEF Executor, ExecutorAnswers
  <2>4. ASSUME NEW c \in Requests, Cancel(c) PROVE Kept(e)
    <3>1. ASSUME NEW x \in Executions, ReadToCancel(c, x) PROVE record' = record
      BY <3>1 DEF ReadToCancel
    <3>2. CASE WriteCancelled(c) \/ WriteCancelledFails(c)
      <4>1. PICK x \in Executions : x = request[c].execution
        BY <1>1, <3>2 DEF ControlInv, RequestOK, WriteCancelled, WriteCancelledFails
      <4>2. /\ request[c].phase = "writing" /\ request[c].seen.status \in Running
            /\ record' = record \/ (\E r : UpdateExecution(x, r))
        BY <1>1, <3>2, <4>1
           DEF ControlInv, RequestOK, WriteCancelled, WriteCancelledFails, UpdateFails
      <4>3. e # x => record'[e] = record[e]
        BY <1>1, <4>2, ExecutionsAssumption DEF UpdateExecution, ControlInv, Typed
      <4> QED
        BY <4>1, <4>2, <4>3
    <3> QED
      BY <2>1, <2>4, <3>1, <3>2 DEF Cancel
  <2>5. ASSUME NEW g \in Permits, Worker(g) PROVE Kept(e)
    <3>1. CASE UpdateExecutionStatus(g)
      BY <1>1, <3>1, UpdateExecutionStatusKeeps
    <3>2. CASE UpdateWorkflowState(g) \/ UpdateWorkflowStateFails(g)
      BY <1>1, <3>2, UpdateWorkflowStateKeeps
    <3>3. CASE record' = record
      BY <3>3
    <3> QED
      BY <2>5, <3>1, <3>2, <3>3 DEF Worker, TakeEvent, Rebuild, RebuildBlind, RebuildFails,
         PublishStep, PublishStepFails, ReadToComplete, ReadTimes
  <2>6. CASE UNCHANGED vars
    BY <2>6 DEF vars
  <2> QED
    BY <1>1, <2>1, <2>2, <2>3, <2>4, <2>5, <2>6 DEF Next
<1>2. ControlInv /\ [Next]_vars =>
        [\A e \in Executions :
           Exists(e) /\ record[e].status = "completed" /\ record'[e].status # "completed" =>
             \/ e \in unread
             \/ \E c \in Requests : /\ request[c].execution = e
                                    /\ request[c].phase = "writing"
                                    /\ request[c].seen.status \in Running]_vars
  BY <1>1
<1> QED
  BY <1>2, ControlInvariant, PTL DEF Spec, OutcomeKept
=============================================================================

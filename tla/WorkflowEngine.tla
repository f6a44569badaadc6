--------------------------- MODULE WorkflowEngine ---------------------------
(***************************************************************************)
(* The pure part of the worker: worker/internal/engine and the decision    *)
(* half of worker/internal/processor.  A worker keeps no workflow state    *)
(* of its own.  For every event it handles it replays the execution's      *)
(* events through ProcessEvent, starting from EmptyState, and then derives *)
(* from the rebuilt state the one step to take next (NextStep).            *)
(*                                                                         *)
(* Payloads, variables and outputs are left out: the control flow of the   *)
(* engine depends on event types, on task names and on the success flag.   *)
(***************************************************************************)
EXTENDS Naturals, Sequences

CONSTANTS
  Executions,   \* the executions of one workflow definition
  NoExecution,  \* the empty execution id of workflow.created
  TaskNames,    \* the names a "do" item may have
  NoTask,       \* no task name
  TaskList,     \* the names of the definition's "do" list, in order
  TaskKind      \* what getTaskTypeFromDSL and the task's input amount to

(***************************************************************************)
(* "call" stands for every type sent to the executor (call, try), and      *)
(* "invalid" for a task whose dispatch fails each time it is tried: a set  *)
(* without set_data, a wait without a duration that parses, a type         *)
(* getTaskTypeFromDSL does not know (it answers "set").                    *)
(***************************************************************************)
Kinds == {"call", "wait", "set", "invalid"}

ASSUME ExecutionsAssumption == NoExecution \notin Executions

ASSUME TaskListAssumption ==
  /\ NoTask \notin TaskNames
  /\ TaskList \in Seq(TaskNames)
  /\ TaskList # <<>>
  /\ \A i, j \in DOMAIN TaskList : TaskList[i] = TaskList[j] => i = j
  /\ TaskKind \in [TaskNames -> Kinds]

EventTypes == {"workflow.created", "execution.started", "task.requested",
               "task.completed", "timer.scheduled", "timer.fired",
               "workflow.completed", "event.dlq", "task.dlq"}

Sources == {"api", "worker-service", "workflow-engine", "executor-service",
            "timer-service"}

Event == [type: EventTypes, source: Sources,
          execution: Executions \cup {NoExecution},
          task: TaskNames \cup {NoTask}, success: BOOLEAN]

NewEvent(type, source, e, task, success) ==
  [type |-> type, source |-> source, execution |-> e, task |-> task,
   success |-> success]

-----------------------------------------------------------------------------
(* The state a replay builds.  The context is the execution the published  *)
(* events and the record will name; only execution.started sets it.        *)
(* PendingTasks is a multiset of names (its    *)
(* order is never read); CompletedTasks is a list, because its length is   *)
(* the position in the task list.                                          *)

Statuses == {"created", "running", "completed", "failed"}

EngineState == [status: Statuses, context: Executions \cup {NoExecution},
                pending: [TaskNames -> Nat], completed: Seq(TaskNames)]

EmptyState == [status |-> "created", context |-> NoExecution,
               pending |-> [n \in TaskNames |-> 0], completed |-> <<>>]

(* Is task n among the completed tasks?                                    *)
Done(st, n) == \E i \in DOMAIN st.completed : st.completed[i] = n

(* Faulty variants, each the slip a later change could make: a task        *)
(* entered once per success, a failure taken for a success, a failed task  *)
(* taken off the pending list, a request removed without looking for one.  *)
TaskCompletedTwice(st, ev) ==
  IF ~ev.success
  THEN [st EXCEPT !.status = "failed"]
  ELSE [st EXCEPT !.pending[ev.task] = IF @ > 0 THEN @ - 1 ELSE 0,
                  !.completed = Append(@, ev.task)]

TaskCompletedAnyway(st, ev) ==
  [st EXCEPT
     !.pending[ev.task] = IF @ > 0 THEN @ - 1 ELSE 0,
     !.completed = IF Done(st, ev.task) THEN @ ELSE Append(@, ev.task)]

TaskFailedForgotten(st, ev) ==
  IF ~ev.success
  THEN [st EXCEPT !.status = "failed",
                  !.pending[ev.task] = IF @ > 0 THEN @ - 1 ELSE 0]
  ELSE TaskCompletedAnyway(st, ev)

TaskCompletedUnrequested(st, ev) ==
  IF ~ev.success
  THEN [st EXCEPT !.status = "failed"]
  ELSE [TaskCompletedAnyway(st, ev) EXCEPT
          !.pending[ev.task] = st.pending[ev.task] - 1]

(* A success takes one request of the task off the pending list and        *)
(* enters the name once.  A failure only fails the workflow: the early     *)
(* return leaves the failed task on the pending list.                      *)
TaskCompleted(st, ev) ==
  IF ~ev.success
  THEN [st EXCEPT !.status = "failed"]
  ELSE [st EXCEPT
          !.pending[ev.task] = IF @ > 0 THEN @ - 1 ELSE 0,
          !.completed = IF Done(st, ev.task) THEN @ ELSE Append(@, ev.task)]

(* The timer.fired of a delayed retry is left out: it names a task of no   *)
(* definition ("<name>_retry") and lies in the stream of the default       *)
(* tenant, yet a later replay would enter it among the completed tasks.    *)
ProcessEvent(st, ev) ==
  CASE ev.type = "workflow.created"   -> [st EXCEPT !.status = "created"]
    [] ev.type = "execution.started"  -> [st EXCEPT !.status = "running",
                                                    !.context = ev.execution]
    [] ev.type = "task.requested"     -> [st EXCEPT !.pending[ev.task] = @ + 1]
    [] ev.type \in {"task.completed", "timer.fired"} -> TaskCompleted(st, ev)
    [] ev.type = "workflow.completed" -> [st EXCEPT !.status = "completed"]
    [] OTHER -> st

(* The replay of a history, in stream order.                               *)
RebuildState(history) ==
  LET replayed[n \in 0 .. Len(history)] ==
        IF n = 0 THEN EmptyState
        ELSE ProcessEvent(replayed[n - 1], history[n])
  IN  replayed[Len(history)]

-----------------------------------------------------------------------------
(* Faulty variant: a pending task is handed out again.                     *)
GetNextTaskAgain(st) ==
  IF Len(st.completed) >= Len(TaskList) THEN NoTask
  ELSE TaskList[Len(st.completed) + 1]

(* The number of completed tasks is the index of the next one; a task that *)
(* is pending or completed is not handed out again.                        *)
GetNextTask(st) ==
  LET n == Len(st.completed) + 1
  IN  IF \/ n > Len(TaskList)
         \/ st.pending[TaskList[n]] > 0
         \/ Done(st, TaskList[n])
      THEN NoTask
      ELSE TaskList[n]

AnyPending(st) == \E n \in TaskNames : st.pending[n] > 0

Actions == {"nothing", "complete", "run", "schedule", "request", "error"}
Step == [action: Actions, task: TaskNames \cup {NoTask}]

DispatchAction(n) ==
  CASE TaskKind[n] = "set"  -> "run"
    [] TaskKind[n] = "wait" -> "schedule"
    [] TaskKind[n] = "call" -> "request"
    [] OTHER                -> "error"

(* What executeNextSDLStep does in state st.  The status is not consulted: *)
(* a failed or completed workflow takes its next step like a running one.  *)
NextStep(st) ==
  LET next == GetNextTask(st)
  IN  IF next # NoTask
      THEN [action |-> DispatchAction(next), task |-> next]
      ELSE IF AnyPending(st) \/ Len(st.completed) < Len(TaskList)
           THEN [action |-> "nothing", task |-> NoTask]
           ELSE [action |-> "complete", task |-> NoTask]
=============================================================================

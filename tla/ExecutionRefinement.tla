------------------------- MODULE ExecutionRefinement -------------------------
(***************************************************************************)
(* WorkflowProcessor implements SequentialExecution: the position of an    *)
(* execution is the number of completed tasks a replay of the stream       *)
(* finds, its outcome is read off the events in the stream.                *)
(***************************************************************************)
EXTENDS WorkflowProcessor

StreamOutcome(e) ==
  IF Completed(e) THEN "completed"
  ELSE IF Failed(e) THEN "failed"
  ELSE IF \E i \in DOMAIN log : Is(i, e, "execution.started") THEN "running"
  ELSE "none"

Abstract == INSTANCE SequentialExecution WITH
  NumTasks <- Len(TaskList),
  position <- [e \in Executions |-> Len(replay[e].completed)],
  outcome  <- [e \in Executions |-> StreamOutcome(e)]

(* One worker process, whatever calls fail and whatever gets lost, only    *)
(* ever makes the executions of the stream take the abstract steps.        *)
ImplementsSequence == Abstract!Safety

(* ... and if no event is lost or given up it makes all of them.           *)
ImplementsExecution == Abstract!Spec
=============================================================================

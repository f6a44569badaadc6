------------------------- MODULE SequentialExecution -------------------------
(***************************************************************************)
(* What the worker service promises a client about its executions: the     *)
(* tasks of the definition succeed one by one, in order, until all of them *)
(* have or one fails, and the outcome never changes.  No stream, no        *)
(* events, no processes.                                                   *)
(***************************************************************************)
EXTENDS Naturals

CONSTANTS Executions, NumTasks

VARIABLES
  position,  \* position[e]: how many tasks of e have succeeded
  outcome    \* outcome[e]: what became of e

vars == <<position, outcome>>

Outcomes == {"none", "running", "completed", "failed"}

Init ==
  /\ position = [e \in Executions |-> 0]
  /\ outcome = [e \in Executions |-> "none"]

Start(e) ==
  /\ outcome[e] = "none"
  /\ outcome' = [outcome EXCEPT ![e] = "running"]
  /\ UNCHANGED position

Advance(e) ==
  /\ outcome[e] = "running"
  /\ position[e] < NumTasks
  /\ position' = [position EXCEPT ![e] = @ + 1]
  /\ UNCHANGED outcome

Fail(e) ==
  /\ outcome[e] = "running"
  /\ position[e] < NumTasks
  /\ outcome' = [outcome EXCEPT ![e] = "failed"]
  /\ UNCHANGED position

Complete(e) ==
  /\ outcome[e] = "running"
  /\ position[e] = NumTasks
  /\ outcome' = [outcome EXCEPT ![e] = "completed"]
  /\ UNCHANGED position

Next == \E e \in Executions : Start(e) \/ Advance(e) \/ Fail(e) \/ Complete(e)

Safety == Init /\ [][Next]_vars

(* An execution that was started is carried on to its end.                 *)
Spec ==
  /\ Safety
  /\ \A e \in Executions : WF_vars(Advance(e) \/ Fail(e) \/ Complete(e))
=============================================================================

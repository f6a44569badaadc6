------------------------- MODULE MCExecutionControl -------------------------
(* Small instances of ExecutionControl for TLC. *)
EXTENDS ExecutionControl

TwoCalls == <<"fetch", "store">>
Names == {"fetch", "store"}
Calls == [n \in Names |-> "call"]
=============================================================================

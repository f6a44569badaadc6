------------------------ MODULE MCWorkflowProcessor ------------------------
(* Small instances of WorkflowProcessor for TLC. *)
EXTENDS ExecutionRefinement, TLC

TwoCalls     == <<"fetch", "store">>
CallThenWait == <<"fetch", "pause">>
WithBroken   == <<"init", "fetch", "broken">>
WaitBetween  == <<"fetch", "pause", "store">>

Names == {"fetch", "store", "pause", "init", "broken"}

KindOfName == [n \in Names |-> CASE n \in {"fetch", "store"} -> "call"
                                 [] n = "pause" -> "wait"
                                 [] n = "init"  -> "set"
                                 [] OTHER       -> "invalid"]

PermitSymmetry == Permutations(Permits)
=============================================================================

--------------------------- MODULE MCTimerService ---------------------------
(* Small instances of TimerService for TLC. *)
EXTENDS TimerService, TLC

ProcessSymmetry == Permutations(Services)
=============================================================================

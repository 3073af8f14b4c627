---------------------------- MODULE RunLifecycle ----------------------------
(***************************************************************************)
(* What a run promises to those who look at its row: it moves along the     *)
(* table of jobs/state_machine.py, and the start of the application may      *)
(* mark it interrupted, or as needing recovery, as long as it has not ended. *)
(***************************************************************************)
EXTENDS RunStates

VARIABLE state

Init == state = "CREATED"

Advance == state' \in AllowedTransitions[state]

MarkedAfterRestart ==
  /\ state \notin RunTerminalStates
  /\ state' \in {"INTERRUPTED", "RECOVERY_REQUIRED"}

Next == Advance \/ MarkedAfterRestart

Spec == Init /\ [][Next]_state
=============================================================================

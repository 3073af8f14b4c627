------------------------------ MODULE RunStates ------------------------------
(***************************************************************************)
(* The tables of jobs/state_machine.py: the states of a run, those that end *)
(* it, and the transitions require_transition lets through.                 *)
(***************************************************************************)

RunTerminalStates ==
  {"COMPLETED", "FAILED", "CANCELLED", "INTERRUPTED", "RECOVERY_REQUIRED"}

(* A state that asks for the worker's attention can always be left by it.   *)
Unwind == {"CANCEL_REQUESTED", "RESTORING", "FAILED"}

AllowedTransitions == [
  CREATED               |-> {"QUEUED", "PREFLIGHT", "CANCELLED"},
  QUEUED                |-> {"PREFLIGHT", "CANCEL_REQUESTED"},
  PREFLIGHT             |-> {"AWAITING_CONFIRMATION", "VERIFYING_PATHS",
                             "CANCEL_REQUESTED", "FAILED"},
  AWAITING_CONFIRMATION |-> {"PREPARING_ROUTER", "VERIFYING_PATHS",
                             "CANCEL_REQUESTED", "CANCELLED"},
  PREPARING_ROUTER      |-> {"VERIFYING_PATHS"} \union Unwind,
  VERIFYING_PATHS       |-> {"WARMING_UP"} \union Unwind,
  WARMING_UP            |-> {"RUNNING"} \union Unwind,
  RUNNING               |-> {"COOLING_DOWN"} \union Unwind,
  COOLING_DOWN          |-> {"ANALYZING"} \union Unwind,
  ANALYZING             |-> {"GENERATING_REPORT"} \union Unwind,
  GENERATING_REPORT     |-> {"COMPLETED"} \union Unwind,
  RESTORING             |-> {"COMPLETED", "CANCELLED", "FAILED",
                             "RECOVERY_REQUIRED"},
  CANCEL_REQUESTED      |-> {"RESTORING", "CANCELLED", "RECOVERY_REQUIRED"},
  CANCELLED             |-> {},
  COMPLETED             |-> {},
  FAILED                |-> {},
  INTERRUPTED           |-> {"RESTORING", "RECOVERY_REQUIRED"},
  RECOVERY_REQUIRED     |-> {}]

RunStateNames == DOMAIN AllowedTransitions
=============================================================================

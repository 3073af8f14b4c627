---------------------------- MODULE AttemptLedger ----------------------------
(***************************************************************************)
(* What a batch promises its operator, without threads, handlers, crashes   *)
(* and states of batches: a ledger of numbered attempts.  An attempt is     *)
(* opened after the last one, never once the target is reached, and gets at *)
(* most one verdict; the scores the stop rules use change in that step.     *)
(***************************************************************************)
EXTENDS Naturals

CONSTANTS Batches, MaxAttempts, Target

VARIABLES ledger, score

Slots == 1 .. MaxAttempts
Verdicts == {"VALID", "INVALID", "FAILED", "SKIPPED", "CANCELLED"}

Init ==
  /\ ledger = [b \in Batches |-> [i \in Slots |-> "NONE"]]
  /\ score = [b \in Batches |-> [valid |-> 0, failed |-> 0]]

Begin(b, i) ==
  /\ score[b].valid < Target
  /\ \A j \in Slots : ledger[b][j] # "NONE" <=> j < i
  /\ ledger' = [ledger EXCEPT ![b][i] = "OPEN"]
  /\ UNCHANGED score

Judge(b, i, verdict) ==
  /\ ledger[b][i] = "OPEN"
  /\ ledger' = [ledger EXCEPT ![b][i] = verdict]
  /\ score' = [score EXCEPT
       ![b].valid = IF verdict = "VALID" THEN @ + 1 ELSE @,
       ![b].failed = IF verdict \in {"FAILED", "SKIPPED"} THEN @ + 1 ELSE @]

Next ==
  \E b \in Batches, i \in Slots :
    Begin(b, i) \/ \E verdict \in Verdicts : Judge(b, i, verdict)

Spec == Init /\ [][Next]_<<ledger, score>>
=============================================================================

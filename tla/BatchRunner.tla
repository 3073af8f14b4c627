----------------------------- MODULE BatchRunner -----------------------------
(***************************************************************************)
(* Overnight batches of the controller: the rows of test_batches and       *)
(* batch_attempts, the worker threads of jobs/batch_runner.py, the HTTP     *)
(* handlers and the scheduler thread of api/app.py that steer them, and     *)
(* the recovery the application runs when it starts.                        *)
(*                                                                          *)
(* A database session caches a row until the next session.refresh, and a    *)
(* commit writes back only the columns that were changed, without looking   *)
(* at what the row holds by then.  Every handler and every decision of the  *)
(* worker is therefore two steps or more: read, and write later.  `seen' is *)
(* the state a session has cached.                                          *)
(*                                                                          *)
(* A definition marked "mutant" is not part of the model: it is the         *)
(* definition below it with a plausible mistake, and a property of this     *)
(* module fails when it takes that definition's place (see PROJECT.json).   *)
(***************************************************************************)
EXTENDS Naturals, FiniteSets

CONSTANTS
  Batches,         \* the batches, numbered in the order (start_after, id)
  Clients,         \* threads serving HTTP requests
  Scheduler,       \* the scheduler thread; one more source of starts
  Workers,         \* identities of worker threads (reused after they end)
  NoOne,           \* no worker, no batch
  MaxAttempts,     \* max_attempts
  Target,          \* target_valid_runs
  MaxConsecutive,  \* max_consecutive_failures
  Scheduled,       \* batches created with a start time
  Deadlined,       \* batches created with a deadline
  Cooldown,        \* inter_run_cooldown_seconds > 0
  RetryDelay,      \* retry_delay_seconds > 0
  Crashes,         \* whether the controller process may be killed
  CodeMayChange    \* whether the checked-out measurement code may change

(* create_test_batch refuses other values. *)
ASSUME BatchLimits ==
  /\ Target \in Nat \ {0}
  /\ MaxAttempts \in Nat /\ MaxAttempts >= Target
  /\ MaxConsecutive \in Nat \ {0}

ASSUME BatchesAssumption ==
  /\ Batches \subseteq Nat
  /\ Scheduled \subseteq Batches
  /\ Deadlined \subseteq Batches
  /\ Cooldown \in BOOLEAN
  /\ RetryDelay \in BOOLEAN
  /\ Crashes \in BOOLEAN
  /\ CodeMayChange \in BOOLEAN

ASSUME NoOneAssumption == NoOne \notin Workers /\ NoOne \notin Batches

VARIABLES
  batch,       \* rows of test_batches
  attempt,     \* rows of batch_attempts, with the run each is linked to
  worker,      \* the worker threads
  cancelled,   \* workers whose cancel Event is set
  registry,    \* BATCH_CANCEL_EVENTS: whose Event is kept for a batch
  request,     \* what each client, or the scheduler, is in the middle of
  due,         \* scheduled batches whose start time has come
  overdue,     \* batches whose deadline has passed
  codeChanged, \* the measurement code differs from what batches expect
  unrecovered  \* batches the starting controller has yet to look at

vars == <<batch, attempt, worker, cancelled, registry, request, due, overdue,
          codeChanged, unrecovered>>

-----------------------------------------------------------------------------
(* States. *)

Deleted == "DELETED"     \* no row

ActiveBatchStates == {"RUNNING", "PAUSE_REQUESTED", "CANCEL_REQUESTED"}
TerminalBatchStates == {"CANCELLED", "COMPLETED", "FAILED"}
StartableWithFailed == {"DRAFT", "SCHEDULED", "PAUSED", "FAILED"}   \* mutant
StartableStates == {"DRAFT", "SCHEDULED", "PAUSED"}
BatchStates ==
  ActiveBatchStates \union TerminalBatchStates \union StartableStates
    \union {Deleted}

NoAttempt == "NONE"      \* no row
ActiveAttemptStates == {"CHECKING_PRECONDITIONS", "RUNNING"}
Verdicts == {"VALID", "INVALID", "FAILED", "SKIPPED", "CANCELLED"}
AttemptStates == ActiveAttemptStates \union Verdicts \union {NoAttempt}

(* The run of an attempt: NO_RUN, a run row the attempt does not point to   *)
(* yet (UNLINKED), a linked run in a non-terminal state (LIVE), or its       *)
(* terminal state, a COMPLETED run told apart by comparison_eligible (or by  *)
(* nothing, for a diagnostic batch).                                         *)
OnlyLiveRuns == {"LIVE"}                                          \* mutant
LinkedRuns == {"LIVE", "ELIGIBLE", "INELIGIBLE", "FAILED", "CANCELLED",
               "INTERRUPTED"}
RunStates == {"NO_RUN", "UNLINKED"} \union LinkedRuns
CompletedRuns == {"ELIGIBLE", "INELIGIBLE"}

Threads == Clients \union {Scheduler}
Slots == 1 .. MaxAttempts

NoAttemptRow == [state |-> NoAttempt, run |-> "NO_RUN"]
NoWorker == [pc |-> "none", batch |-> NoOne, seen |-> Deleted, at |-> 0]
NoRequest == [pc |-> "idle", batch |-> NoOne, seen |-> Deleted,
              event |-> NoOne]

Up == unrecovered = {}

NoneRunningOrPaused ==                                            \* mutant
  \A b \in Batches : batch[b].state \notin ActiveBatchStates \union {"PAUSED"}
NoneActive == \A b \in Batches : batch[b].state \notin ActiveBatchStates
NoRegistryCheck == TRUE                                           \* mutant
NoneRegistered == \A b \in Batches : registry[b] = NoOne

-----------------------------------------------------------------------------
(* Rows. *)

SetState(b, s) == batch' = [batch EXCEPT ![b].state = s]

WriteIfUnchanged(b, cached, s) ==                                 \* mutant
  batch' = [batch EXCEPT ![b].state = IF cached = @ THEN s ELSE @]

(* _finish_batch and every other commit of a state: the column is written   *)
(* only when it differs from what the session cached.                        *)
WriteOver(b, cached, s) ==
  batch' = [batch EXCEPT ![b].state = IF cached = s THEN @ ELSE s]

(* _finish_attempt: the attempt's verdict and what it adds to the counters. *)
VerdictOn(run) ==
  CASE run = "ELIGIBLE"   -> "VALID"
    [] run = "INELIGIBLE" -> "INVALID"
    [] run = "CANCELLED"  -> "CANCELLED"
    [] OTHER              -> "FAILED"

TallyRunsOnly(row, verdict) ==                                    \* mutant
  CASE verdict = "VALID" ->
         [row EXCEPT !.valid = @ + 1, !.consecutive = 0]
    [] verdict = "FAILED" ->
         [row EXCEPT !.failed = @ + 1, !.consecutive = @ + 1]
    [] OTHER -> row

Tally(row, verdict) ==
  CASE verdict = "VALID" ->
         [row EXCEPT !.valid = @ + 1, !.consecutive = 0]
    [] verdict = "INVALID" ->
         [row EXCEPT !.invalid = @ + 1, !.consecutive = 0]
    [] verdict = "CANCELLED" ->
         [row EXCEPT !.consecutive = @ + 1]
    [] OTHER ->
         [row EXCEPT !.failed = @ + 1, !.consecutive = @ + 1]

-----------------------------------------------------------------------------
(* The handlers of api/app.py.                                              *)

Idle(t) == Up /\ request[t].pc = "idle"
Pending(t, step) == request[t].pc = step
Await(t, r) == request' = [request EXCEPT ![t] = r]
Answer(t) == Await(t, NoRequest)

(* _start_batch_worker: the row it reads, ...                                *)
StartRead(t, b) ==
  /\ Idle(t)
  /\ batch[b].state \in StartableStates
  /\ batch[b].state = "SCHEDULED" => b \in due
  /\ Await(t, [NoRequest EXCEPT !.pc = "check", !.batch = b,
                                !.seen = batch[b].state])
  /\ UNCHANGED <<batch, attempt, worker, cancelled, registry, due, overdue,
                 codeChanged, unrecovered>>

(* ... the checks that are answered with 409, and ...                        *)
StartCheck(t) ==
  /\ Pending(t, "check")
  /\ IF NoneRegistered /\ NoneActive
       THEN request' = [request EXCEPT ![t].pc = "claim"]
       ELSE Answer(t)
  /\ UNCHANGED <<batch, attempt, worker, cancelled, registry, due, overdue,
                 codeChanged, unrecovered>>

ClaimAnyway(t) == TRUE                                            \* mutant
ClaimMatches(t) ==
  batch[request[t].batch].state = request[t].seen /\ NoneActive

(* ... the one conditional UPDATE; a batch that lost its row or its state, or    *)
(* any batch being active, makes it match no row.                            *)
Claim(t) ==
  LET b == request[t].batch IN
  /\ Pending(t, "claim")
  /\ IF ClaimMatches(t)
       THEN /\ SetState(b, "RUNNING")
            /\ Await(t, [NoRequest EXCEPT !.pc = "register", !.batch = b])
       ELSE Answer(t) /\ UNCHANGED batch
  /\ UNCHANGED <<attempt, worker, cancelled, registry, due, overdue,
                 codeChanged, unrecovered>>

RegisterNothing(t) ==                                             \* mutant
  LET b == request[t].batch IN
  /\ Pending(t, "register")
  /\ Answer(t)
  /\ \E w \in Workers :
       /\ worker[w] = NoWorker
       /\ worker' = [worker EXCEPT ![w].pc = "load", ![w].batch = b]
  /\ UNCHANGED <<batch, attempt, cancelled, registry, due, overdue,
                 codeChanged, unrecovered>>

(* BATCH_CANCEL_EVENTS[batch_id] = Event(), and the thread is started.       *)
Register(t) ==
  LET b == request[t].batch IN
  /\ Pending(t, "register")
  /\ Answer(t)
  /\ IF batch[b].state = Deleted
       THEN UNCHANGED <<worker, registry>>
       ELSE \E w \in Workers :
              /\ worker[w] = NoWorker
              /\ worker' = [worker EXCEPT ![w].pc = "load", ![w].batch = b]
              /\ registry' = [registry EXCEPT ![b] = w]
  /\ UNCHANGED <<batch, attempt, cancelled, due, overdue, codeChanged,
                 unrecovered>>

(* pause_test_batch: other states are answered without a write.              *)
PauseRead(t, b) ==
  /\ Idle(t)
  /\ batch[b].state = "RUNNING"
  /\ Await(t, [NoRequest EXCEPT !.pc = "pause", !.batch = b,
                                !.seen = "RUNNING"])
  /\ UNCHANGED <<batch, attempt, worker, cancelled, registry, due, overdue,
                 codeChanged, unrecovered>>

PauseWrite(t) ==
  LET b == request[t].batch IN
  /\ Pending(t, "pause")
  /\ Answer(t)
  /\ IF batch[b].state = Deleted
       THEN UNCHANGED batch
       ELSE SetState(b, "PAUSE_REQUESTED")
  /\ UNCHANGED <<attempt, worker, cancelled, registry, due, overdue,
                 codeChanged, unrecovered>>

(* cancel_test_batch: read the row, then look the Event up and set it, then  *)
(* write what the first two found.                                           *)
CancelRead(t, b) ==
  /\ Idle(t)
  /\ batch[b].state # Deleted
  /\ Await(t, [NoRequest EXCEPT !.pc = "event", !.batch = b,
                                !.seen = batch[b].state])
  /\ UNCHANGED <<batch, attempt, worker, cancelled, registry, due, overdue,
                 codeChanged, unrecovered>>

CancelEvent(t) ==
  LET r == request[t]
      w == registry[r.batch] IN
  /\ Pending(t, "event")
  /\ cancelled' = cancelled \union ({w} \ {NoOne})
  /\ IF r.seen \in TerminalBatchStates
       THEN Answer(t)
       ELSE Await(t, [r EXCEPT !.pc = "cancel", !.event = w])
  /\ UNCHANGED <<batch, attempt, worker, registry, due, overdue, codeChanged,
                 unrecovered>>

CancelWrite(t) ==
  LET r == request[t]
      s == IF r.event = NoOne THEN "CANCELLED" ELSE "CANCEL_REQUESTED" IN
  /\ Pending(t, "cancel")
  /\ Answer(t)
  /\ IF batch[r.batch].state = Deleted
       THEN UNCHANGED batch
       ELSE WriteOver(r.batch, r.seen, s)
  /\ UNCHANGED <<attempt, worker, cancelled, registry, due, overdue,
                 codeChanged, unrecovered>>

(* delete_test_batch. *)
DeleteRead(t, b) ==
  /\ Idle(t)
  /\ batch[b].state \in {"DRAFT", "SCHEDULED"}
  /\ batch[b].attempts = 0
  /\ Await(t, [NoRequest EXCEPT !.pc = "delete", !.batch = b])
  /\ UNCHANGED <<batch, attempt, worker, cancelled, registry, due, overdue,
                 codeChanged, unrecovered>>

DeleteWrite(t) ==
  /\ Pending(t, "delete")
  /\ Answer(t)
  /\ SetState(request[t].batch, Deleted)
  /\ UNCHANGED <<attempt, worker, cancelled, registry, due, overdue,
                 codeChanged, unrecovered>>

(* _start_due_scheduled_batches_once: only the first due batch is tried.     *)
SchedulerTick ==
  \E b \in due :
    /\ batch[b].state = "SCHEDULED"
    /\ \A other \in due : batch[other].state = "SCHEDULED" => b <= other
    /\ StartRead(Scheduler, b)

HandlerStep(t) ==
  \/ StartCheck(t) \/ Claim(t) \/ Register(t) \/ PauseWrite(t)
  \/ CancelEvent(t) \/ CancelWrite(t) \/ DeleteWrite(t)
-----------------------------------------------------------------------------
(* The worker thread: _run_batch_background around run_batch.               *)

At(w, step) == worker[w].pc = step
Mine(w) == worker[w].batch
Go(w, step) == worker' = [worker EXCEPT ![w].pc = step]
RowGone(w) == batch[Mine(w)].state = Deleted

CancelSeen(w) == worker[w].seen = "CANCEL_REQUESTED" \/ w \in cancelled

(* _finish_batch followed by the return from run_batch; on a deleted row     *)
(* the commit raises.                                                        *)
Stop(w, s) ==
  /\ IF RowGone(w)
       THEN Go(w, "raised") /\ UNCHANGED batch
       ELSE Go(w, "teardown") /\ WriteOver(Mine(w), worker[w].seen, s)
  /\ UNCHANGED attempt

WorkerFrame == UNCHANGED <<cancelled, registry, request, due, overdue,
                           codeChanged, unrecovered>>

(* The thread loads its row; run_batch returns at once unless it may run.    *)
Load(w) ==
  LET s == batch[Mine(w)].state IN
  /\ At(w, "load")
  /\ IF s \in {"DRAFT", "SCHEDULED", "RUNNING"}
       THEN /\ worker' = [worker EXCEPT ![w].pc = "top", ![w].seen = "RUNNING"]
            /\ WriteOver(Mine(w), s, "RUNNING")
       ELSE Go(w, "teardown") /\ UNCHANGED batch
  /\ UNCHANGED attempt
  /\ WorkerFrame

(* session.refresh(batch), at the loop's top, after an attempt and at every  *)
(* poll of a delay.                                                          *)
AfterRefresh ==
  [top |-> "decide", finished |-> "review", delay |-> "poll", sleep |-> "poll"]

Refresh(w) ==
  /\ worker[w].pc \in DOMAIN AfterRefresh
  /\ IF RowGone(w)
       THEN Go(w, "raised")
       ELSE worker' = [worker EXCEPT ![w].pc = AfterRefresh[@],
                                     ![w].seen = batch[Mine(w)].state]
  /\ UNCHANGED <<batch, attempt>>
  /\ WorkerFrame

TargetReached(w) == batch[Mine(w)].valid >= Target
BeyondAttempts(w) == batch[Mine(w)].attempts > MaxAttempts        \* mutant
OutOfAttempts(w) == batch[Mine(w)].attempts >= MaxAttempts

(* Why the loop ends here, in the order it asks; "RUNNING": it goes on.      *)
LoopVerdict(w) ==
  IF CancelSeen(w) THEN "CANCELLED"
  ELSE IF Mine(w) \in overdue THEN "COMPLETED"
  ELSE IF worker[w].seen = "PAUSE_REQUESTED" THEN "PAUSED"
  ELSE IF codeChanged THEN "PAUSED"
  ELSE IF TargetReached(w) THEN "COMPLETED"
  ELSE IF OutOfAttempts(w) THEN "FAILED"
  ELSE IF batch[Mine(w)].consecutive >= MaxConsecutive THEN "PAUSED"
  ELSE "RUNNING"

Decide(w) ==
  /\ At(w, "decide")
  /\ LoopVerdict(w) # "RUNNING"
  /\ Stop(w, LoopVerdict(w))
  /\ WorkerFrame

(* attempt_count += 1 and the attempt's row, in one commit.                  *)
BeginAttempt(w) ==
  LET b == Mine(w)
      n == batch[b].attempts + 1 IN
  /\ At(w, "decide")
  /\ LoopVerdict(w) = "RUNNING"
  /\ IF RowGone(w)
       THEN Go(w, "raised") /\ UNCHANGED <<batch, attempt>>
       ELSE /\ batch' = [batch EXCEPT ![b].attempts = n]
            /\ attempt' = [attempt EXCEPT
                             ![b][n].state = "CHECKING_PRECONDITIONS"]
            /\ worker' = [worker EXCEPT ![w].pc = "check", ![w].at = n]
  /\ WorkerFrame

SetAttempt(w, field, value) ==
  attempt' = [attempt EXCEPT ![Mine(w)][worker[w].at][field] = value]

PreconditionsMet(w) ==
  /\ At(w, "check")
  /\ SetAttempt(w, "state", "RUNNING")
  /\ Go(w, "create")
  /\ UNCHANGED batch
  /\ WorkerFrame

(* _finish_precondition_failure. *)
PreconditionsNotMet(w) ==
  /\ At(w, "check")
  /\ IF RowGone(w)
       THEN Go(w, "raised") /\ UNCHANGED <<batch, attempt>>
       ELSE /\ batch' = [batch EXCEPT ![Mine(w)] = Tally(@, "SKIPPED")]
            /\ SetAttempt(w, "state", "SKIPPED")
            /\ Go(w, "skipped")
  /\ WorkerFrame

PreconditionsCancelled(w) ==
  /\ At(w, "check")
  /\ w \in cancelled
  /\ SetAttempt(w, "state", "CANCELLED")
  /\ Go(w, "abandon")
  /\ UNCHANGED batch
  /\ WorkerFrame

Abandon(w) ==
  /\ At(w, "abandon")
  /\ Stop(w, "CANCELLED")
  /\ WorkerFrame

AfterSkip(w) ==
  /\ At(w, "skipped")
  /\ IF OutOfAttempts(w)
       THEN Stop(w, "FAILED")
       ELSE /\ Go(w, IF RetryDelay THEN "delay" ELSE "top")
            /\ UNCHANGED <<batch, attempt>>
  /\ WorkerFrame

(* create_run commits a run the attempt does not point to yet.               *)
CreateRun(w) ==
  /\ At(w, "create")
  /\ SetAttempt(w, "run", "UNLINKED")
  /\ Go(w, "link")
  /\ UNCHANGED batch
  /\ WorkerFrame

LinkRun(w) ==
  /\ At(w, "link")
  /\ SetAttempt(w, "run", "LIVE")
  /\ Go(w, "execute")
  /\ UNCHANGED batch
  /\ WorkerFrame

(* execute_run, as far as a batch can tell: the run's terminal state, which  *)
(* execute_run has committed before it returns.                              *)
ExecuteRun(w) ==
  /\ At(w, "execute")
  /\ \E outcome \in {"ELIGIBLE", "INELIGIBLE", "FAILED", "CANCELLED"} :
       SetAttempt(w, "run", outcome)
  /\ Go(w, "record")
  /\ UNCHANGED batch
  /\ WorkerFrame

(* _record_run_environment_snapshot without drift, and _finish_attempt.      *)
RecordAttempt(w) ==
  LET b == Mine(w)
      verdict == VerdictOn(attempt[b][worker[w].at].run) IN
  /\ At(w, "record")
  /\ IF RowGone(w)
       THEN Go(w, "raised") /\ UNCHANGED <<batch, attempt>>
       ELSE /\ \E known \in BOOLEAN :
                 /\ batch[b].nodeKnown => known
                 /\ batch' = [batch EXCEPT ![b] =
                              [Tally(@, verdict) EXCEPT !.nodeKnown = known]]
            /\ SetAttempt(w, "state", verdict)
            /\ Go(w, "finished")
  /\ WorkerFrame

(* TEST_NODE_VERSION_CHANGED: possible once a version has been recorded.     *)
RecordDrift(w) ==
  /\ At(w, "record")
  /\ batch[Mine(w)].nodeKnown
  /\ SetAttempt(w, "state", "INVALID")
  /\ Go(w, "drifted")
  /\ UNCHANGED batch
  /\ WorkerFrame

PauseForDrift(w) ==
  /\ At(w, "drifted")
  /\ Stop(w, "PAUSED")
  /\ WorkerFrame

(* After the attempt: the checks that follow the second refresh.             *)
Review(w) ==
  /\ At(w, "review")
  /\ IF worker[w].seen = "PAUSE_REQUESTED" THEN Stop(w, "PAUSED")
     ELSE IF TargetReached(w) THEN Stop(w, "COMPLETED")
     ELSE IF OutOfAttempts(w) THEN Stop(w, "FAILED")
     ELSE /\ Go(w, IF Cooldown THEN "delay" ELSE "top")
          /\ UNCHANGED <<batch, attempt>>
  /\ WorkerFrame

(* _sleep_with_batch_controls: a poll after its refresh, and the end of the  *)
(* delay, which no delay reaches before its first poll.                      *)
Poll(w) ==
  /\ At(w, "poll")
  /\ IF CancelSeen(w) THEN Stop(w, "CANCELLED")
     ELSE IF Mine(w) \in overdue THEN Stop(w, "COMPLETED")
     ELSE IF worker[w].seen = "PAUSE_REQUESTED" THEN Stop(w, "PAUSED")
     ELSE Go(w, "sleep") /\ UNCHANGED <<batch, attempt>>
  /\ WorkerFrame

WakeUp(w) ==
  /\ At(w, "sleep")
  /\ Go(w, "top")
  /\ UNCHANGED <<batch, attempt>>
  /\ WorkerFrame

(* The router's API, create_run or execute_run may raise.                    *)
Raise(w) ==
  /\ worker[w].pc \in {"check", "create", "execute"}
  /\ Go(w, "raised")
  /\ UNCHANGED <<batch, attempt>>
  /\ WorkerFrame

(* The except clause, in a session of its own: read, then write.             *)
HandleException(w) ==
  LET s == batch[Mine(w)].state IN
  /\ At(w, "raised")
  /\ IF s \in TerminalBatchStates \union {Deleted}
       THEN Go(w, "teardown")
       ELSE worker' = [worker EXCEPT ![w].pc = "fail", ![w].seen = s]
  /\ UNCHANGED <<batch, attempt>>
  /\ WorkerFrame

FailNothing(w) ==                                                 \* mutant
  /\ At(w, "fail")
  /\ Go(w, "teardown")
  /\ UNCHANGED <<batch, attempt>>
  /\ WorkerFrame

FailBatch(w) ==
  /\ At(w, "fail")
  /\ IF RowGone(w) THEN UNCHANGED batch ELSE SetState(Mine(w), "FAILED")
  /\ Go(w, "teardown")
  /\ UNCHANGED attempt
  /\ WorkerFrame

(* finally: BATCH_CANCEL_EVENTS.pop(batch_id), whoever's Event it is.        *)
Teardown(w) ==
  /\ At(w, "teardown")
  /\ registry' = [registry EXCEPT ![Mine(w)] = NoOne]
  /\ worker' = [worker EXCEPT ![w] = NoWorker]
  /\ cancelled' = cancelled \ {w}
  /\ UNCHANGED <<batch, attempt, request, due, overdue, codeChanged,
                 unrecovered>>

WorkerStep(w) ==
  \/ Load(w) \/ Refresh(w) \/ Decide(w) \/ BeginAttempt(w)
  \/ PreconditionsMet(w) \/ PreconditionsNotMet(w)
  \/ PreconditionsCancelled(w) \/ Abandon(w) \/ AfterSkip(w)
  \/ CreateRun(w) \/ LinkRun(w) \/ ExecuteRun(w) \/ RecordAttempt(w)
  \/ RecordDrift(w) \/ PauseForDrift(w) \/ Review(w) \/ Poll(w)
  \/ HandleException(w) \/ FailBatch(w) \/ Teardown(w)
-----------------------------------------------------------------------------
(* The controller is killed; the next one recovers before it serves.        *)

Crash ==
  /\ Crashes
  /\ worker' = [w \in Workers |-> NoWorker]
  /\ cancelled' = {}
  /\ registry' = [b \in Batches |-> NoOne]
  /\ request' = [t \in Threads |-> NoRequest]
  /\ unrecovered' = Batches
  /\ UNCHANGED <<batch, attempt, due, overdue, codeChanged>>

AnyAttempts(b) == {i \in Slots : attempt[b][i].state # NoAttempt}  \* mutant
ActiveAttempts(b) == {i \in Slots : attempt[b][i].state \in ActiveAttemptStates}
Oldest(S) == CHOOSE i \in S : \A j \in S : i <= j  \* mutant
Newest(S) == CHOOSE i \in S : \A j \in S : j <= i

(* recover_interrupted_batches, for one batch: nothing to do.                *)
RecoverNothing(b) ==
  /\ b \in unrecovered
  /\ batch[b].state \in TerminalBatchStates \union
                        {"DRAFT", "SCHEDULED", Deleted}
  /\ UNCHANGED <<batch, attempt>>

RecoverCancelled(b) ==
  /\ b \in unrecovered
  /\ batch[b].state = "CANCEL_REQUESTED"
  /\ SetState(b, "CANCELLED")
  /\ attempt' = IF ActiveAttempts(b) = {} THEN attempt
                ELSE [attempt EXCEPT
                       ![b][Newest(ActiveAttempts(b))].state = "CANCELLED"]

(* The newest active attempt is settled when it points to a run.             *)
RecoverPaused(b) ==
  LET row == batch[b]
      n == Newest(ActiveAttempts(b))
      settled == ActiveAttempts(b) # {} /\ attempt[b][n].run \in LinkedRuns
      run == attempt[b][n].run
      verdict == IF run \in CompletedRuns THEN VerdictOn(run) ELSE "FAILED" IN
  /\ b \in unrecovered
  /\ row.state \in {"RUNNING", "PAUSE_REQUESTED", "PAUSED"}
  /\ batch' = [batch EXCEPT
       ![b] = [(IF settled THEN Tally(row, verdict) ELSE row) EXCEPT
                 !.state = "PAUSED"]]
  /\ attempt' = IF ~settled THEN attempt
                ELSE [attempt EXCEPT
                       ![b][n].state = verdict,
                       ![b][n].run = IF @ = "LIVE" THEN "INTERRUPTED" ELSE @]

Recover(b) ==
  /\ RecoverNothing(b) \/ RecoverCancelled(b) \/ RecoverPaused(b)
  /\ unrecovered' = unrecovered \ {b}
  /\ UNCHANGED <<worker, cancelled, registry, request, due, overdue,
                 codeChanged>>

-----------------------------------------------------------------------------
(* Time, and a checkout of other measurement code.                           *)

StartTimeComes(b) ==
  /\ b \in Scheduled \ due
  /\ \A other \in Scheduled \ due : b <= other
  /\ due' = due \union {b}
  /\ UNCHANGED <<batch, attempt, worker, cancelled, registry, request, overdue,
                 codeChanged, unrecovered>>

DeadlinePasses(b) ==
  /\ b \in Deadlined \ overdue
  /\ overdue' = overdue \union {b}
  /\ UNCHANGED <<batch, attempt, worker, cancelled, registry, request, due,
                 codeChanged, unrecovered>>

CodeChanges ==
  /\ CodeMayChange
  /\ codeChanged' = ~codeChanged
  /\ UNCHANGED <<batch, attempt, worker, cancelled, registry, request, due,
                 overdue, unrecovered>>

-----------------------------------------------------------------------------

Init ==
  /\ batch = [b \in Batches |->
       [state |-> IF b \in Scheduled THEN "SCHEDULED" ELSE "DRAFT",
        attempts |-> 0, valid |-> 0, invalid |-> 0, failed |-> 0,
        consecutive |-> 0, nodeKnown |-> FALSE]]
  /\ attempt = [b \in Batches |-> [i \in Slots |-> NoAttemptRow]]
  /\ worker = [w \in Workers |-> NoWorker]
  /\ cancelled = {}
  /\ registry = [b \in Batches |-> NoOne]
  /\ request = [t \in Threads |-> NoRequest]
  /\ due = {}
  /\ overdue = {}
  /\ codeChanged = FALSE
  /\ unrecovered = {}

Operator(c) ==
  \E b \in Batches : \/ StartRead(c, b) \/ PauseRead(c, b)
                     \/ CancelRead(c, b) \/ DeleteRead(c, b)

Environment ==
  \/ \E b \in Batches : StartTimeComes(b) \/ DeadlinePasses(b)
  \/ CodeChanges
  \/ Crash

Next ==
  \/ \E c \in Clients : Operator(c)
  \/ SchedulerTick
  \/ \E t \in Threads : HandlerStep(t)
  \/ \E w \in Workers : WorkerStep(w) \/ WakeUp(w) \/ Raise(w)
  \/ \E b \in Batches : Recover(b)
  \/ Environment

Spec == Init /\ [][Next]_vars

(* A handler that has begun finishes, a worker thread keeps running, every   *)
(* run and every precondition check has a timeout, a delay ends although the *)
(* worker polls again and again, the scheduler ticks every five seconds.     *)
(* No operator has to do anything.                                           *)
Fairness ==
  /\ \A t \in Threads : WF_vars(HandlerStep(t))
  /\ \A w \in Workers : WF_vars(WorkerStep(w)) /\ SF_vars(WakeUp(w))
  /\ \A b \in Batches : WF_vars(Recover(b))
  /\ WF_vars(SchedulerTick)

FairSpec == Spec /\ Fairness

-----------------------------------------------------------------------------
(* Properties. *)

CounterRow ==
  [state : BatchStates, attempts : 0 .. MaxAttempts, valid : Nat,
   invalid : Nat, failed : Nat, consecutive : Nat, nodeKnown : BOOLEAN]

WorkerSteps ==
  {"none", "load", "top", "decide", "check", "skipped", "abandon", "create",
   "link", "execute", "record", "drifted", "finished", "review", "delay",
   "sleep", "poll", "raised", "fail", "teardown"}

RequestSteps ==
  {"idle", "check", "claim", "register", "pause", "event", "cancel", "delete"}

(* Every variable has the shape the code gives it. *)
TypeOK ==
  /\ batch \in [Batches -> CounterRow]
  /\ attempt \in [Batches -> [Slots -> [state : AttemptStates, run : RunStates]]]
  /\ worker \in [Workers -> [pc : WorkerSteps, batch : Batches \union {NoOne},
                            seen : BatchStates, at : 0 .. MaxAttempts]]
  /\ cancelled \subseteq Workers
  /\ registry \in [Batches -> Workers \union {NoOne}]
  /\ request \in [Threads -> [pc : RequestSteps,
                             batch : Batches \union {NoOne},
                             seen : BatchStates,
                             event : Workers \union {NoOne}]]
  /\ due \subseteq Batches
  /\ overdue \subseteq Batches
  /\ codeChanged \in BOOLEAN
  /\ unrecovered \subseteq Batches

(* Workers that hold a batch, that are inside its loop. *)
Bound(b) == {w \in Workers : worker[w].batch = b}
InLoop == {w \in Workers : worker[w].pc \notin {"none", "load", "teardown"}}

Count(b, states) == Cardinality({i \in Slots : attempt[b][i].state \in states})

(* No batch measures beyond its target, however often it is interrupted: a   *)
(* crash after the last valid run and before COMPLETED, then a resume, adds  *)
(* none.                                                                     *)
TargetIsALimit == \A b \in Batches : batch[b].valid <= Target

(* The counters the stop rules use are the attempts' verdicts, whatever was  *)
(* killed, recovered, skipped or cancelled, and stop the batch at its        *)
(* target; attempts are numbered without a gap.  invalid_run_count misses    *)
(* the attempts that a drift made INVALID.                                   *)
AccountsBalance ==
  /\ TargetIsALimit
  /\ \A b \in Batches :
       /\ batch[b].valid = Count(b, {"VALID"})
       /\ batch[b].failed = Count(b, {"FAILED", "SKIPPED"})
       /\ batch[b].invalid <= Count(b, {"INVALID"})
       /\ \A i \in Slots : attempt[b][i].state # NoAttempt <=> i <= batch[b].attempts

(* Two threads never both run one batch's loop, where each would overwrite   *)
(* the counters the other has cached, however requests overlap: only the     *)
(* claim's conditional UPDATE stands in the way.                             *)
OneLoopPerBatch ==
  \A v, w \in InLoop : v # w => worker[v].batch # worker[w].batch

(* Once no worker holds it, a batch that was not cancelled has a verdict on  *)
(* every attempt whose run completed: no finished measurement is dropped,    *)
(* not even by a crash between the run's end and the attempt's.              *)
CompletedRunsJudged ==
  \A b \in Batches :
    Up /\ Bound(b) = {}
       /\ batch[b].state \notin {"CANCELLED", "CANCEL_REQUESTED", Deleted}
      => \A i \in Slots : attempt[b][i].run \in CompletedRuns
           => attempt[b][i].state \in {"VALID", "INVALID"}

(* The next three are about one operator who sends one request at a time     *)
(* while nothing is scheduled: at most one thread uses the laboratory, ...   *)
LabIsExclusive == Cardinality(InLoop) <= 1

(* ... and the cancel handler finds the Event of every running loop.         *)
LoopIsReachable == \A w \in InLoop : registry[worker[w].batch] = w

(* ... and a batch that ended comes back to life only by the late write of a *)
(* pause or cancel handler that read it before the end: never by the worker, *)
(* a start, a delete or the recovery.                                        *)
OnlyStaleRequestsRevive ==
  [][\A b \in Batches :
       batch[b].state \in TerminalBatchStates /\ batch'[b].state # batch[b].state
         => \E t \in Threads :
              /\ request[t].batch = b
              /\ request[t].pc \in {"pause", "cancel"}
              /\ request[t].seen \notin TerminalBatchStates]_batch

StopRequests == {"PAUSE_REQUESTED", "CANCEL_REQUESTED"}

(* tests/test_batch_runner.py: a batch asked to pause ends up PAUSED, one    *)
(* asked to cancel CANCELLED; at least, the request does not stay pending.   *)
StopRequestHonoured ==
  \A b \in Batches :
    batch[b].state \in StopRequests ~> batch[b].state \notin StopRequests

(* The same, for a request that arrives while a worker is in the loop: no    *)
(* interleaving of its reads and writes with the handler's loses it.         *)
LoopStopRequestHonoured ==
  \A b \in Batches :
    (batch[b].state \in StopRequests /\ \E w \in InLoop : worker[w].batch = b)
      ~> batch[b].state \notin StopRequests

(* A batch that a restart has paused has no run that is still live: what the *)
(* worker was executing is marked interrupted, whichever attempts earlier    *)
(* crashes have left active in the same batch.                               *)
PausedRunsInterrupted ==
  [][\A b \in unrecovered \ unrecovered' :
       batch'[b].state = "PAUSED"
         => \A i \in Slots : attempt'[b][i].run # "LIVE"]_unrecovered

(* With nobody at the controls, a batch whose start time has come is         *)
(* started, although another was running at that time, ...                   *)
DueBatchesStart ==
  \A b \in Batches :
    (b \in due /\ batch[b].state = "SCHEDULED") ~> batch[b].state # "SCHEDULED"

(* ... and every batch started comes to rest: no state that needs a worker   *)
(* stays without one, not even after an exception.                           *)
NightEnds ==
  \A b \in Batches :
    batch[b].state \in ActiveBatchStates ~> batch[b].state \notin ActiveBatchStates
-----------------------------------------------------------------------------
(* The attempts and the counters implement the ledger of module              *)
(* AttemptLedger.                                                            *)

LedgerEntry(state) == IF state \in ActiveAttemptStates THEN "OPEN" ELSE state

Ledger == INSTANCE AttemptLedger WITH
  ledger <- [b \in Batches |->
              [i \in Slots |-> LedgerEntry(attempt[b][i].state)]],
  score <- [b \in Batches |->
             [valid |-> batch[b].valid, failed |-> batch[b].failed]]

(* Every step of the workers, the handlers, the crashes and the recovery     *)
(* opens one attempt, judges one, or leaves the ledger alone.                *)
KeepsLedger == Ledger!Spec
=============================================================================

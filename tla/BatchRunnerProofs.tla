-------------------------- MODULE BatchRunnerProofs --------------------------
(***************************************************************************)
(* Proofs about module BatchRunner, for every number of batches, clients,   *)
(* workers and attempts: every safety property its runs check.              *)
(*                                                                          *)
(*   TypeCorrect       the variables have their types                       *)
(*   OneLoop           no batch has two loops          (HolderInv)          *)
(*   TargetHolds       a batch never scores more than its target            *)
(*   BooksBalance      the counters count the attempts (BooksInv, Scored)   *)
(*   LedgerIsKept      the rows of the attempts implement AttemptLedger     *)
(*   NothingIsDropped  a completed run is judged       (AccountedInv)       *)
(*   InterruptedRunsEnd                                                     *)
(*                     a restart ends the live run     (AbandonedInv)       *)
(*   OneLab, Reachable, OnlyStaleRevive                                     *)
(*                     with a single operator          (LoneInv)            *)
(***************************************************************************)
EXTENDS BatchRunner, FiniteSetTheorems, WellFoundedInduction, TLAPS

(* The conjuncts of TypeOK, one for each variable or group of variables.  A  *)
(* thread that is in the middle of something knows its batch.                *)
AttemptRow == [state : AttemptStates, run : RunStates]

BatchType == batch \in [Batches -> CounterRow]
AttemptType == attempt \in [Batches -> [Slots -> AttemptRow]]
WorkerType ==
  /\ worker \in [Workers -> [pc : WorkerSteps, batch : Batches \union {NoOne},
                             seen : BatchStates, at : 0 .. MaxAttempts]]
  /\ \A w \in Workers : worker[w].pc # "none" => worker[w].batch \in Batches
RequestType ==
  /\ request \in [Threads -> [pc : RequestSteps, batch : Batches \union {NoOne},
                              seen : BatchStates,
                              event : Workers \union {NoOne}]]
  /\ \A t \in Threads : request[t].pc # "idle" => request[t].batch \in Batches
OtherTypes ==
  /\ cancelled \subseteq Workers
  /\ registry \in [Batches -> Workers \union {NoOne}]
  /\ due \subseteq Batches
  /\ overdue \subseteq Batches
  /\ codeChanged \in BOOLEAN
  /\ unrecovered \subseteq Batches

TypeInv == BatchType /\ AttemptType /\ WorkerType /\ RequestType /\ OtherTypes

-----------------------------------------------------------------------------
(* What the commits, the steps of a worker and the answers preserve.        *)

(* A commit of a state keeps the rows of test_batches well formed. *)
LEMMA StateWritten ==
  ASSUME BatchType, NEW b, NEW s \in BatchStates, SetState(b, s)
  PROVE  BatchType'
  BY DEF BatchType, SetState, CounterRow

(* So does one that is skipped when the cached state is the same. *)
LEMMA StateWrittenOver ==
  ASSUME BatchType, NEW b, NEW cached, NEW s \in BatchStates,
         WriteOver(b, cached, s)
  PROVE  BatchType'
<1>1. CASE cached = s
  <2>1. batch' = [batch EXCEPT ![b].state = batch[b].state]
    BY <1>1 DEF WriteOver
  <2> QED
    BY <2>1 DEF BatchType, CounterRow
<1>2. CASE cached # s
  <2>1. SetState(b, s)
    BY <1>2 DEF WriteOver, SetState
  <2> QED
    BY <2>1, StateWritten
<1> QED
  BY <1>1, <1>2

(* One column of a row changes.                                              *)
LEMMA RowFields ==
  ASSUME NEW row \in CounterRow
  PROVE  /\ \A n \in Nat : [row EXCEPT !.valid = n] \in CounterRow
         /\ \A n \in Nat : [row EXCEPT !.invalid = n] \in CounterRow
         /\ \A n \in Nat : [row EXCEPT !.failed = n] \in CounterRow
         /\ \A n \in Nat : [row EXCEPT !.consecutive = n] \in CounterRow
         /\ \A s \in BatchStates : [row EXCEPT !.state = s] \in CounterRow
  BY DEF CounterRow

LEMMA NodeField ==
  ASSUME NEW row \in CounterRow, NEW k \in BOOLEAN
  PROVE  [row EXCEPT !.nodeKnown = k] \in CounterRow
  BY DEF CounterRow

(* A verdict's entry in the counters gives a row again. *)
LEMMA TallyType ==
  ASSUME NEW row \in CounterRow, NEW verdict
  PROVE  Tally(row, verdict) \in CounterRow
<1>1. /\ row.valid + 1 \in Nat /\ row.invalid + 1 \in Nat /\ 0 \in Nat
      /\ row.failed + 1 \in Nat /\ row.consecutive + 1 \in Nat
  BY DEF CounterRow
<1>2. CASE verdict = "VALID"
  <2> DEFINE r == [row EXCEPT !.valid = row.valid + 1]
  <2>1. r \in CounterRow
    BY <1>1, RowFields
  <2>2. [r EXCEPT !.consecutive = 0] \in CounterRow
    BY <1>1, <2>1, RowFields
  <2>3. Tally(row, verdict) = [r EXCEPT !.consecutive = 0]
    BY <1>2 DEF Tally
  <2> QED
    BY <2>2, <2>3
<1>3. CASE verdict = "INVALID"
  <2> DEFINE r == [row EXCEPT !.invalid = row.invalid + 1]
  <2>1. r \in CounterRow
    BY <1>1, RowFields
  <2>2. [r EXCEPT !.consecutive = 0] \in CounterRow
    BY <1>1, <2>1, RowFields
  <2>3. Tally(row, verdict) = [r EXCEPT !.consecutive = 0]
    BY <1>3 DEF Tally
  <2> QED
    BY <2>2, <2>3
<1>4. CASE verdict = "CANCELLED"
  BY <1>1, <1>4, RowFields DEF Tally
<1>5. CASE verdict \notin {"VALID", "INVALID", "CANCELLED"}
  <2> DEFINE r == [row EXCEPT !.failed = row.failed + 1]
             c == row.consecutive + 1
  <2>1. r \in CounterRow
    BY <1>1, RowFields
  <2>2. [r EXCEPT !.consecutive = c] \in CounterRow
    BY <1>1, <2>1, RowFields
  <2>3. Tally(row, verdict) = [r EXCEPT !.consecutive = c]
    BY <1>5 DEF Tally
  <2> QED
    BY <2>2, <2>3
<1> QED
  BY <1>2, <1>3, <1>4, <1>5

(* The judgement of a run is a verdict. *)
LEMMA VerdictType ==
  ASSUME NEW run
  PROVE  VerdictOn(run) \in Verdicts
<1>1. CASE run \in {"ELIGIBLE", "INELIGIBLE", "CANCELLED"}
  BY <1>1 DEF VerdictOn, Verdicts
<1>2. CASE run \notin {"ELIGIBLE", "INELIGIBLE", "CANCELLED"}
  <2>1. VerdictOn(run) = "FAILED"
    BY <1>2 DEF VerdictOn
  <2> QED
    BY <2>1 DEF Verdicts
<1> QED
  BY <1>1, <1>2

(* A commit of an attempt's state, or of its run, keeps the rows well formed. *)
LEMMA AttemptWritten ==
  ASSUME NEW rows \in [Batches -> [Slots -> AttemptRow]], NEW b, NEW i,
         NEW s \in AttemptStates, NEW r \in RunStates
  PROVE  /\ [rows EXCEPT ![b][i].state = s] \in [Batches -> [Slots -> AttemptRow]]
         /\ [rows EXCEPT ![b][i].run = r] \in [Batches -> [Slots -> AttemptRow]]
<1>1. CASE b \in Batches /\ i \in Slots
  <2> DEFINE old == rows[b]
  <2>1. old \in [Slots -> AttemptRow]
    BY <1>1
  <2>2. /\ [old[i] EXCEPT !.state = s] \in AttemptRow
        /\ [old[i] EXCEPT !.run = r] \in AttemptRow
    BY <1>1, <2>1 DEF AttemptRow
  <2>3. /\ [old EXCEPT ![i].state = s] \in [Slots -> AttemptRow]
        /\ [old EXCEPT ![i].run = r] \in [Slots -> AttemptRow]
    BY <2>1, <2>2
  <2>4. /\ [rows EXCEPT ![b] = [old EXCEPT ![i].state = s]]
             \in [Batches -> [Slots -> AttemptRow]]
        /\ [rows EXCEPT ![b] = [old EXCEPT ![i].run = r]]
             \in [Batches -> [Slots -> AttemptRow]]
    BY <2>3
  <2> QED
    BY <2>4
<1>2. CASE b \in Batches /\ i \notin Slots
  <2> DEFINE old == rows[b]
  <2>1. /\ [old EXCEPT ![i].state = s] \in [Slots -> AttemptRow]
        /\ [old EXCEPT ![i].run = r] \in [Slots -> AttemptRow]
    BY <1>2
  <2>2. /\ [rows EXCEPT ![b] = [old EXCEPT ![i].state = s]]
             \in [Batches -> [Slots -> AttemptRow]]
        /\ [rows EXCEPT ![b] = [old EXCEPT ![i].run = r]]
             \in [Batches -> [Slots -> AttemptRow]]
    BY <2>1
  <2> QED
    BY <2>2
<1>3. CASE b \notin Batches
  BY <1>3
<1> QED
  BY <1>1, <1>2, <1>3

(* A worker that moves on stays well formed and keeps its batch. *)
LEMMA WorkerMoved ==
  ASSUME WorkerType, NEW w \in Workers, NEW step \in WorkerSteps, Go(w, step),
         worker[w].batch \in Batches
  PROVE  WorkerType'
  BY DEF WorkerType, Go

(* The same when its session's cache, or its attempt, changes with it. *)
LEMMA WorkerReplaced ==
  ASSUME WorkerType, NEW w \in Workers,
         NEW row \in [pc : WorkerSteps, batch : Batches \union {NoOne},
                      seen : BatchStates, at : 0 .. MaxAttempts],
         row.pc # "none" => row.batch \in Batches,
         worker' = [worker EXCEPT ![w] = row]
  PROVE  WorkerType'
  BY DEF WorkerType

LEMMA WorkerMovedSeeing ==
  ASSUME WorkerType, NEW w \in Workers, NEW step \in WorkerSteps,
         worker[w].batch \in Batches, NEW s \in BatchStates,
         worker' = [worker EXCEPT ![w].pc = step, ![w].seen = s]
  PROVE  WorkerType'
<1> DEFINE moved == [worker[w] EXCEPT !.pc = step]
           row == [moved EXCEPT !.seen = s]
           Row == [pc : WorkerSteps, batch : Batches \union {NoOne},
                   seen : BatchStates, at : 0 .. MaxAttempts]
<1>1. worker[w] \in Row /\ worker \in [Workers -> Row]
  BY DEF WorkerType
<1>2. moved \in Row /\ moved.batch \in Batches
  BY <1>1
<1>3. row \in Row /\ row.batch \in Batches
  BY <1>2
<1>4. worker' = [worker EXCEPT ![w] = row]
  BY <1>1
<1> HIDE DEF row
<1> QED
  BY <1>3, <1>4, WorkerReplaced

LEMMA WorkerMovedTo ==
  ASSUME WorkerType, NEW w \in Workers, NEW step \in WorkerSteps,
         worker[w].batch \in Batches, NEW n \in 0 .. MaxAttempts,
         worker' = [worker EXCEPT ![w].pc = step, ![w].at = n]
  PROVE  WorkerType'
<1> DEFINE moved == [worker[w] EXCEPT !.pc = step]
           row == [moved EXCEPT !.at = n]
           Row == [pc : WorkerSteps, batch : Batches \union {NoOne},
                   seen : BatchStates, at : 0 .. MaxAttempts]
<1>1. worker[w] \in Row /\ worker \in [Workers -> Row]
  BY DEF WorkerType
<1>2. moved \in Row /\ moved.batch \in Batches
  BY <1>1
<1>3. row \in Row /\ row.batch \in Batches
  BY <1>2
<1>4. worker' = [worker EXCEPT ![w] = row]
  BY <1>1
<1> HIDE DEF row
<1> QED
  BY <1>3, <1>4, WorkerReplaced

(* The worker's steps leave the handlers' variables alone. *)
LEMMA WorkerFrameType ==
  ASSUME RequestType, OtherTypes, WorkerFrame
  PROVE  RequestType' /\ OtherTypes'
  BY DEF RequestType, OtherTypes, WorkerFrame

(* The end of a loop. *)
LEMMA StopType ==
  ASSUME BatchType, AttemptType, WorkerType, NEW w \in Workers,
         NEW s \in BatchStates, Stop(w, s), worker[w].batch \in Batches
  PROVE  BatchType' /\ AttemptType' /\ WorkerType'
<1>1. AttemptType'
  BY DEF Stop, AttemptType
<1>2. CASE RowGone(w)
  <2>1. Go(w, "raised") /\ UNCHANGED batch
    BY <1>2 DEF Stop
  <2> QED
    BY <1>1, <2>1, WorkerMoved DEF WorkerSteps, BatchType
<1>3. CASE ~RowGone(w)
  <2>1. Go(w, "teardown") /\ WriteOver(Mine(w), worker[w].seen, s)
    BY <1>3 DEF Stop
  <2> QED
    BY <1>1, <2>1, WorkerMoved, StateWrittenOver DEF WorkerSteps
<1> QED
  BY <1>2, <1>3

-----------------------------------------------------------------------------
(* The reasons for which a loop ends are states of a batch. *)
LEMMA LoopVerdictType ==
  ASSUME NEW w
  PROVE  LoopVerdict(w) \in {"CANCELLED", "COMPLETED", "PAUSED", "FAILED", "RUNNING"}
  BY DEF LoopVerdict

(* An attempt begun is one of the slots. *)
LEMMA BeginAttemptType ==
  ASSUME BatchType, AttemptType, WorkerType, NEW w \in Workers, BeginAttempt(w)
  PROVE  BatchType' /\ AttemptType' /\ WorkerType'
<1> DEFINE b == Mine(w)
           n == batch[b].attempts + 1
<1>1. worker[w].batch \in Batches
  BY DEF BeginAttempt, At, WorkerType
<1>2. LoopVerdict(w) = "RUNNING"
  BY DEF BeginAttempt
<1>3. ~OutOfAttempts(w)
  BY <1>2 DEF LoopVerdict
<1>4. batch[b] \in CounterRow
  BY <1>1 DEF BatchType, Mine
<1>5. n \in 0 .. MaxAttempts
  BY <1>3, <1>4, BatchLimits DEF OutOfAttempts, CounterRow
<1>6. CASE RowGone(w)
  <2>1. Go(w, "raised") /\ UNCHANGED <<batch, attempt>>
    BY <1>6 DEF BeginAttempt
  <2> QED
    BY <1>1, <2>1, WorkerMoved DEF WorkerSteps, BatchType, AttemptType
<1>7. CASE ~RowGone(w)
  <2>1. /\ batch' = [batch EXCEPT ![b].attempts = n]
        /\ attempt' = [attempt EXCEPT ![b][n].state = "CHECKING_PRECONDITIONS"]
        /\ worker' = [worker EXCEPT ![w].pc = "check", ![w].at = n]
    BY <1>7 DEF BeginAttempt
  <2> HIDE DEF n
  <2>2. [batch[b] EXCEPT !.attempts = n] \in CounterRow
    BY <1>4, <1>5 DEF CounterRow
  <2>3. BatchType'
    BY <2>1, <2>2 DEF BatchType
  <2>4. "CHECKING_PRECONDITIONS" \in AttemptStates /\ "NO_RUN" \in RunStates
    BY DEF AttemptStates, ActiveAttemptStates, RunStates
  <2>5. AttemptType'
    BY <2>1, <2>4, AttemptWritten DEF AttemptType
  <2>6. WorkerType'
    BY <2>1, <1>1, <1>5, WorkerMovedTo DEF WorkerSteps
  <2> QED
    BY <2>3, <2>5, <2>6
<1> QED
  BY <1>6, <1>7

(* Setting a state or a run on the attempt at hand. *)
LEMMA SetAttemptStateType ==
  ASSUME AttemptType, NEW w, NEW s \in AttemptStates, SetAttempt(w, "state", s)
  PROVE  AttemptType'
<1>1. attempt' = [attempt EXCEPT ![Mine(w)][worker[w].at].state = s]
  BY DEF SetAttempt
<1>2. "NO_RUN" \in RunStates
  BY DEF RunStates
<1> QED
  BY <1>1, <1>2, AttemptWritten DEF AttemptType

LEMMA SetAttemptRunType ==
  ASSUME AttemptType, NEW w, NEW r \in RunStates, SetAttempt(w, "run", r)
  PROVE  AttemptType'
<1>1. attempt' = [attempt EXCEPT ![Mine(w)][worker[w].at].run = r]
  BY DEF SetAttempt
<1>2. NoAttempt \in AttemptStates
  BY DEF AttemptStates
<1> QED
  BY <1>1, <1>2, AttemptWritten DEF AttemptType

(* One lemma for the steps of a worker ... *)
LEMMA WorkerStepType ==
  ASSUME TypeInv, NEW w \in Workers, WorkerStep(w)
  PROVE  TypeInv'
<1> USE DEF TypeInv
<1>0. \A b \in Batches : batch[b] \in CounterRow /\ batch[b].state \in BatchStates
  BY DEF BatchType, CounterRow
<1>a. {"CANCELLED", "COMPLETED", "PAUSED", "FAILED", "RUNNING"} \subseteq BatchStates
  BY DEF BatchStates, ActiveBatchStates, TerminalBatchStates, StartableStates
<1>b. Verdicts \union {"RUNNING", "CANCELLED", "SKIPPED"} \subseteq AttemptStates
  BY DEF AttemptStates, ActiveAttemptStates, Verdicts
<1>1. CASE Load(w)
  <2>1. worker[w].batch \in Batches
    BY <1>1 DEF Load, At, WorkerType
  <2>2. AttemptType' /\ RequestType' /\ OtherTypes'
    BY <1>1, WorkerFrameType DEF Load, AttemptType
  <2>3. CASE batch[Mine(w)].state \in {"DRAFT", "SCHEDULED", "RUNNING"}
    <3>1. /\ worker' = [worker EXCEPT ![w].pc = "top", ![w].seen = "RUNNING"]
          /\ WriteOver(Mine(w), batch[Mine(w)].state, "RUNNING")
      BY <1>1, <2>3 DEF Load
    <3>2. BatchType'
      BY <3>1, StateWrittenOver DEF BatchStates, ActiveBatchStates
    <3>3. WorkerType'
      <4>1. "top" \in WorkerSteps /\ "RUNNING" \in BatchStates
        BY DEF WorkerSteps, BatchStates, ActiveBatchStates
      <4> QED
        BY <3>1, <2>1, <4>1, WorkerMovedSeeing
    <3> QED
      BY <2>2, <3>2, <3>3
  <2>4. CASE batch[Mine(w)].state \notin {"DRAFT", "SCHEDULED", "RUNNING"}
    <3>1. Go(w, "teardown") /\ UNCHANGED batch
      BY <1>1, <2>4 DEF Load
    <3> QED
      BY <2>1, <2>2, <3>1, WorkerMoved DEF WorkerSteps, BatchType
  <2> QED
    BY <2>3, <2>4
<1>2. CASE Refresh(w)
  <2>1. worker[w].batch \in Batches
    BY <1>2 DEF Refresh, AfterRefresh, WorkerType
  <2>2. BatchType' /\ AttemptType' /\ RequestType' /\ OtherTypes'
    BY <1>2, WorkerFrameType DEF Refresh, AttemptType, BatchType
  <2>3. CASE RowGone(w)
    BY <1>2, <2>1, <2>2, <2>3, WorkerMoved DEF Refresh, WorkerSteps
  <2>4. CASE ~RowGone(w)
    <3>1. worker' = [worker EXCEPT ![w].pc = AfterRefresh[worker[w].pc],
                                   ![w].seen = batch[worker[w].batch].state]
      BY <1>2, <2>4 DEF Refresh, Mine
    <3>2. AfterRefresh[worker[w].pc] \in {"decide", "review", "poll"}
      BY <1>2 DEF Refresh, AfterRefresh
    <3>3. batch[worker[w].batch].state \in BatchStates
      BY <1>0, <2>1
    <3>4. WorkerType'
      BY <3>1, <3>2, <3>3, <2>1, WorkerMovedSeeing DEF WorkerSteps
    <3> QED
      BY <2>2, <3>4
  <2> QED
    BY <2>3, <2>4
<1>3. CASE Decide(w)
  <2>1. worker[w].batch \in Batches
    BY <1>3 DEF Decide, At, WorkerType
  <2>2. Stop(w, LoopVerdict(w)) /\ LoopVerdict(w) \in BatchStates
    BY <1>3, <1>a, LoopVerdictType DEF Decide
  <2> QED
    BY <1>3, <2>1, <2>2, StopType, WorkerFrameType DEF Decide
<1>4. CASE BeginAttempt(w)
  BY <1>4, BeginAttemptType, WorkerFrameType DEF BeginAttempt
<1>5. CASE PreconditionsMet(w) \/ PreconditionsCancelled(w)
  <2>1. worker[w].batch \in Batches
    BY <1>5 DEF PreconditionsMet, PreconditionsCancelled, At, WorkerType
  <2>2. PICK s \in {"RUNNING", "CANCELLED"}, step \in {"create", "abandon"} :
          SetAttempt(w, "state", s) /\ Go(w, step) /\ UNCHANGED batch /\ WorkerFrame
    BY <1>5 DEF PreconditionsMet, PreconditionsCancelled
  <2>3. AttemptType'
    BY <2>2, <1>b, SetAttemptStateType
  <2>4. WorkerType'
    BY <2>1, <2>2, WorkerMoved DEF WorkerSteps
  <2> QED
    BY <2>2, <2>3, <2>4, WorkerFrameType DEF BatchType
<1>6. CASE PreconditionsNotMet(w)
  <2>1. worker[w].batch \in Batches
    BY <1>6 DEF PreconditionsNotMet, At, WorkerType
  <2>2. CASE RowGone(w)
    <3>1. Go(w, "raised") /\ UNCHANGED <<batch, attempt>> /\ WorkerFrame
      BY <1>6, <2>2 DEF PreconditionsNotMet
    <3> QED
      BY <2>1, <3>1, WorkerMoved, WorkerFrameType
      DEF WorkerSteps, BatchType, AttemptType
  <2>3. CASE ~RowGone(w)
    <3>1. /\ batch' = [batch EXCEPT ![Mine(w)] = Tally(batch[Mine(w)], "SKIPPED")]
          /\ SetAttempt(w, "state", "SKIPPED") /\ Go(w, "skipped") /\ WorkerFrame
      BY <1>6, <2>3 DEF PreconditionsNotMet
    <3>2. Tally(batch[Mine(w)], "SKIPPED") \in CounterRow
      BY <1>0, <2>1, TallyType DEF Mine
    <3>3. BatchType'
      BY <3>1, <3>2 DEF BatchType
    <3>4. AttemptType'
      BY <3>1, <1>b, SetAttemptStateType
    <3> QED
      BY <2>1, <3>1, <3>3, <3>4, WorkerMoved, WorkerFrameType DEF WorkerSteps
  <2> QED
    BY <2>2, <2>3
<1>7. CASE Abandon(w) \/ PauseForDrift(w)
  <2>1. worker[w].batch \in Batches
    BY <1>7 DEF Abandon, PauseForDrift, At, WorkerType
  <2>2. PICK s \in {"CANCELLED", "PAUSED"} : Stop(w, s) /\ WorkerFrame
    BY <1>7 DEF Abandon, PauseForDrift
  <2> QED
    BY <2>1, <2>2, <1>a, StopType, WorkerFrameType
<1>8. CASE AfterSkip(w) \/ Review(w) \/ Poll(w)
  <2>1. worker[w].batch \in Batches
    BY <1>8 DEF AfterSkip, Review, Poll, At, WorkerType
  <2>2. WorkerFrame
    BY <1>8 DEF AfterSkip, Review, Poll
  <2>3. \/ \E s \in {"CANCELLED", "COMPLETED", "PAUSED", "FAILED"} : Stop(w, s)
        \/ \E step \in {"delay", "top", "sleep"} :
             Go(w, step) /\ UNCHANGED <<batch, attempt>>
    BY <1>8 DEF AfterSkip, Review, Poll
  <2>4. CASE \E s \in {"CANCELLED", "COMPLETED", "PAUSED", "FAILED"} : Stop(w, s)
    BY <2>1, <2>2, <2>4, <1>a, StopType, WorkerFrameType
  <2>5. CASE \E step \in {"delay", "top", "sleep"} :
               Go(w, step) /\ UNCHANGED <<batch, attempt>>
    BY <2>1, <2>2, <2>5, WorkerMoved, WorkerFrameType
    DEF WorkerSteps, BatchType, AttemptType
  <2> QED
    BY <2>3, <2>4, <2>5
<1>9. CASE CreateRun(w) \/ LinkRun(w) \/ ExecuteRun(w)
  <2>1. worker[w].batch \in Batches
    BY <1>9 DEF CreateRun, LinkRun, ExecuteRun, At, WorkerType
  <2>2. PICK r \in RunStates, step \in {"link", "execute", "record"} :
          SetAttempt(w, "run", r) /\ Go(w, step) /\ UNCHANGED batch /\ WorkerFrame
    BY <1>9 DEF CreateRun, LinkRun, ExecuteRun, RunStates, LinkedRuns
  <2>3. AttemptType'
    BY <2>2, SetAttemptRunType
  <2> QED
    BY <2>1, <2>2, <2>3, WorkerMoved, WorkerFrameType DEF WorkerSteps, BatchType
<1>10. CASE RecordAttempt(w)
  <2> DEFINE b == Mine(w)
             verdict == VerdictOn(attempt[b][worker[w].at].run)
  <2>1. worker[w].batch \in Batches
    BY <1>10 DEF RecordAttempt, At, WorkerType
  <2>2. WorkerFrame
    BY <1>10 DEF RecordAttempt
  <2>3. CASE RowGone(w)
    <3>1. Go(w, "raised") /\ UNCHANGED <<batch, attempt>>
      BY <1>10, <2>3 DEF RecordAttempt
    <3> QED
      BY <2>1, <2>2, <3>1, WorkerMoved, WorkerFrameType
      DEF WorkerSteps, BatchType, AttemptType
  <2>4. CASE ~RowGone(w)
    <3>1. SetAttempt(w, "state", verdict) /\ Go(w, "finished")
      BY <1>10, <2>4 DEF RecordAttempt
    <3>2. PICK known \in BOOLEAN :
            batch' = [batch EXCEPT
              ![b] = [Tally(@, verdict) EXCEPT !.nodeKnown = known]]
      BY <1>10, <2>4 DEF RecordAttempt
    <3> DEFINE row == [Tally(batch[b], verdict) EXCEPT !.nodeKnown = known]
    <3>3. Tally(batch[b], verdict) \in CounterRow
      BY <1>0, <2>1, TallyType DEF Mine
    <3>4. row \in CounterRow
      BY <3>3, NodeField, Zenon
    <3>5. batch' = [batch EXCEPT ![b] = row]
      BY <3>2
    <3>6. BatchType'
      <4> HIDE DEF row
      <4> QED
        BY <3>4, <3>5 DEF BatchType
    <3>7. AttemptType'
      BY <3>1, <1>b, VerdictType, SetAttemptStateType
    <3> QED
      BY <2>1, <2>2, <3>1, <3>6, <3>7, WorkerMoved, WorkerFrameType DEF WorkerSteps
  <2> QED
    BY <2>3, <2>4
<1>11. CASE RecordDrift(w)
  <2>1. worker[w].batch \in Batches
    BY <1>11 DEF RecordDrift, At, WorkerType
  <2>2. /\ SetAttempt(w, "state", "INVALID") /\ Go(w, "drifted")
        /\ UNCHANGED batch /\ WorkerFrame
    BY <1>11 DEF RecordDrift
  <2>3. AttemptType'
    BY <2>2, <1>b, SetAttemptStateType DEF Verdicts
  <2> QED
    BY <2>1, <2>2, <2>3, WorkerMoved, WorkerFrameType DEF WorkerSteps, BatchType
<1>12. CASE HandleException(w)
  <2> DEFINE s == batch[Mine(w)].state
  <2>1. worker[w].batch \in Batches
    BY <1>12 DEF HandleException, At, WorkerType
  <2>2. s \in BatchStates
    BY <1>0, <2>1 DEF Mine
  <2>3. UNCHANGED <<batch, attempt>> /\ WorkerFrame
    BY <1>12 DEF HandleException
  <2>4. \/ Go(w, "teardown")
        \/ worker' = [worker EXCEPT ![w].pc = "fail", ![w].seen = s]
    BY <1>12 DEF HandleException
  <2>5. WorkerType'
    BY <2>1, <2>2, <2>4, WorkerMoved, WorkerMovedSeeing DEF WorkerSteps
  <2> QED
    BY <2>3, <2>5, WorkerFrameType DEF BatchType, AttemptType
<1>13. CASE FailBatch(w)
  <2>1. worker[w].batch \in Batches
    BY <1>13 DEF FailBatch, At, WorkerType
  <2>2. Go(w, "teardown") /\ UNCHANGED attempt /\ WorkerFrame
    BY <1>13 DEF FailBatch
  <2>3. UNCHANGED batch \/ SetState(Mine(w), "FAILED")
    BY <1>13 DEF FailBatch
  <2>4. BatchType'
    BY <2>3, <1>a, StateWritten DEF BatchType
  <2> QED
    BY <2>1, <2>2, <2>4, WorkerMoved, WorkerFrameType DEF WorkerSteps, AttemptType
<1>14. CASE Teardown(w)
  <2>1. WorkerType'
    BY <1>14, BatchLimits
    DEF Teardown, WorkerType, NoWorker, WorkerSteps, BatchStates, Deleted
  <2> QED
    BY <1>14, <2>1 DEF Teardown, BatchType, AttemptType, RequestType, OtherTypes
<1> QED
  BY <1>1, <1>2, <1>3, <1>4, <1>5, <1>6, <1>7, <1>8, <1>9, <1>10, <1>11, <1>12,
     <1>13, <1>14 DEF WorkerStep

(* ... one for the handlers: starts, pauses, cancels, deletes ... *)
LEMMA Answered ==
  ASSUME RequestType, NEW t \in Threads, Answer(t)
  PROVE  RequestType'
  BY DEF RequestType, Answer, Await, NoRequest, RequestSteps, BatchStates, Deleted

LEMMA HandlerStepType ==
  ASSUME TypeInv, NEW t \in Threads, HandlerStep(t)
  PROVE  TypeInv'
<1> USE DEF TypeInv
<1> DEFINE r == request[t]
           b == r.batch
<1>a. r.pc # "idle" => b \in Batches
  BY DEF RequestType
<1>b. {"RUNNING", "PAUSE_REQUESTED", "CANCEL_REQUESTED", "CANCELLED", Deleted}
        \subseteq BatchStates
  BY DEF BatchStates, ActiveBatchStates, TerminalBatchStates
<1>1. CASE StartCheck(t)
  <2>1. CASE NoneRegistered /\ NoneActive
    <3>1. request' = [request EXCEPT ![t].pc = "claim"]
      BY <1>1, <2>1 DEF StartCheck
    <3>2. RequestType'
      BY <1>1, <1>a, <3>1 DEF StartCheck, Pending, RequestType, RequestSteps
    <3> QED
      BY <1>1, <3>2 DEF StartCheck, BatchType, AttemptType, WorkerType, OtherTypes
  <2>2. CASE ~(NoneRegistered /\ NoneActive)
    <3>1. RequestType'
      BY <1>1, <2>2, Answered DEF StartCheck
    <3> QED
      BY <1>1, <3>1 DEF StartCheck, BatchType, AttemptType, WorkerType, OtherTypes
  <2> QED
    BY <2>1, <2>2
<1>2. CASE Claim(t)
  <2>1. b \in Batches
    BY <1>2, <1>a DEF Claim, Pending
  <2>2. AttemptType' /\ WorkerType' /\ OtherTypes'
    BY <1>2 DEF Claim, AttemptType, WorkerType, OtherTypes
  <2>3. CASE ClaimMatches(t)
    <3>1. SetState(b, "RUNNING")
      BY <1>2, <2>3 DEF Claim
    <3>2. Await(t, [NoRequest EXCEPT !.pc = "register", !.batch = b])
      BY <1>2, <2>3 DEF Claim
    <3> DEFINE Row == [pc : RequestSteps, batch : Batches \union {NoOne},
                       seen : BatchStates, event : Workers \union {NoOne}]
               named == [NoRequest EXCEPT !.pc = "register"]
               row == [named EXCEPT !.batch = b]
    <3>3. request' = [request EXCEPT ![t] = row]
      BY <3>2 DEF Await
    <3>4. row \in Row /\ row.batch \in Batches
      <4>1. NoRequest \in Row
        BY <1>b DEF NoRequest, RequestSteps
      <4>2. named \in Row
        BY <4>1 DEF RequestSteps
      <4> QED
        BY <2>1, <4>2
    <3>5. RequestType'
      <4> HIDE DEF row
      <4> QED
        BY <3>3, <3>4 DEF RequestType
    <3> QED
      BY <2>2, <3>1, <3>5, <1>b, StateWritten
  <2>4. CASE ~ClaimMatches(t)
    BY <1>2, <2>2, <2>4, Answered DEF Claim, BatchType
  <2> QED
    BY <2>3, <2>4
<1>3. CASE Register(t)
  <2>1. b \in Batches
    BY <1>3, <1>a DEF Register, Pending
  <2>2. BatchType' /\ AttemptType' /\ RequestType'
    BY <1>3, Answered DEF Register, BatchType, AttemptType
  <2>3. CASE batch[b].state = Deleted
    BY <1>3, <2>2, <2>3 DEF Register, WorkerType, OtherTypes
  <2>4. CASE batch[b].state # Deleted
    <3>1. PICK w \in Workers :
            /\ worker[w] = NoWorker
            /\ worker' = [worker EXCEPT ![w].pc = "load", ![w].batch = b]
            /\ registry' = [registry EXCEPT ![b] = w]
      BY <1>3, <2>4 DEF Register
    <3> DEFINE Row == [pc : WorkerSteps, batch : Batches \union {NoOne},
                       seen : BatchStates, at : 0 .. MaxAttempts]
               started == [NoWorker EXCEPT !.pc = "load"]
               row == [started EXCEPT !.batch = b]
    <3>2. worker' = [worker EXCEPT ![w] = row]
      BY <3>1 DEF WorkerType
    <3>3. row \in Row /\ row.batch \in Batches
      <4>1. NoWorker \in Row
        BY <1>b, BatchLimits DEF NoWorker, WorkerSteps
      <4>2. started \in Row
        BY <4>1 DEF WorkerSteps
      <4> QED
        BY <2>1, <4>2
    <3>4. WorkerType'
      <4> HIDE DEF row
      <4> QED
        BY <3>2, <3>3, WorkerReplaced
    <3> QED
      BY <1>3, <2>2, <3>1, <3>4 DEF Register, OtherTypes
  <2> QED
    BY <2>3, <2>4
<1>4. CASE PauseWrite(t) \/ CancelWrite(t) \/ DeleteWrite(t)
  <2>1. Answer(t) /\ UNCHANGED <<attempt, worker, cancelled, registry, due,
                                  overdue, codeChanged, unrecovered>>
    BY <1>4 DEF PauseWrite, CancelWrite, DeleteWrite
  <2>2. \/ UNCHANGED batch
        \/ \E s \in {"PAUSE_REQUESTED", "CANCEL_REQUESTED", "CANCELLED", Deleted} :
             SetState(b, s) \/ WriteOver(b, r.seen, s)
    BY <1>4 DEF PauseWrite, CancelWrite, DeleteWrite
  <2>3. BatchType'
    BY <2>2, <1>b, StateWritten, StateWrittenOver DEF BatchType
  <2> QED
    BY <2>1, <2>3, Answered DEF AttemptType, WorkerType, OtherTypes
<1>5. CASE CancelEvent(t)
  <2>1. registry[b] \in Workers \union {NoOne}
    BY <1>5, <1>a DEF CancelEvent, Pending, OtherTypes
  <2>2. cancelled' = cancelled \union ({registry[b]} \ {NoOne})
        /\ UNCHANGED <<batch, attempt, worker, registry, due, overdue,
                       codeChanged, unrecovered>>
    BY <1>5 DEF CancelEvent
  <2>3. OtherTypes'
    BY <2>1, <2>2 DEF OtherTypes
  <2>4. RequestType'
    <3>1. Answer(t) \/ Await(t, [r EXCEPT !.pc = "cancel", !.event = registry[b]])
      BY <1>5 DEF CancelEvent
    <3>2. CASE Await(t, [r EXCEPT !.pc = "cancel", !.event = registry[b]])
      <4>1. r \in [pc : RequestSteps, batch : Batches \union {NoOne},
                   seen : BatchStates, event : Workers \union {NoOne}]
        BY DEF RequestType
      <4> DEFINE s == [r EXCEPT !.pc = "cancel"]
                 q == [s EXCEPT !.event = registry[b]]
      <4>2. /\ s \in [pc : RequestSteps, batch : Batches \union {NoOne},
                      seen : BatchStates, event : Workers \union {NoOne}]
            /\ s.batch \in Batches
        BY <4>1, <1>5, <1>a DEF RequestSteps, CancelEvent, Pending
      <4>3. /\ q \in [pc : RequestSteps, batch : Batches \union {NoOne},
                      seen : BatchStates, event : Workers \union {NoOne}]
            /\ q.batch \in Batches
        BY <4>2, <2>1
      <4>4. request' = [request EXCEPT ![t] = q]
        BY <3>2 DEF Await
      <4> HIDE DEF q
      <4> QED
        BY <4>3, <4>4 DEF RequestType
    <3> QED
      BY <3>1, <3>2, Answered
  <2> QED
    BY <2>2, <2>3, <2>4 DEF BatchType, AttemptType, WorkerType
<1> QED
  BY <1>1, <1>2, <1>3, <1>4, <1>5 DEF HandlerStep

(* ... for the requests that begin ... *)
LEMMA RequestBegins ==
  ASSUME RequestType, NEW t \in Threads, NEW step \in RequestSteps,
         NEW b \in Batches, NEW s \in BatchStates,
         Await(t, [NoRequest EXCEPT !.pc = step, !.batch = b, !.seen = s])
  PROVE  RequestType'
<1> DEFINE Row == [pc : RequestSteps, batch : Batches \union {NoOne},
                   seen : BatchStates, event : Workers \union {NoOne}]
           named == [NoRequest EXCEPT !.pc = step]
           about == [named EXCEPT !.batch = b]
           row == [about EXCEPT !.seen = s]
<1>1. NoRequest \in Row
  BY DEF NoRequest, RequestSteps, BatchStates
<1>2. named \in Row
  BY <1>1
<1>3. about \in Row /\ about.batch \in Batches
  BY <1>2
<1>4. row \in Row /\ row.batch \in Batches
  BY <1>3
<1>5. request' = [request EXCEPT ![t] = row]
  BY DEF Await
<1> HIDE DEF row
<1> QED
  BY <1>4, <1>5 DEF RequestType

LEMMA DeleteBegins ==
  ASSUME RequestType, NEW t \in Threads, NEW b \in Batches,
         Await(t, [NoRequest EXCEPT !.pc = "delete", !.batch = b])
  PROVE  RequestType'
<1> DEFINE Row == [pc : RequestSteps, batch : Batches \union {NoOne},
                   seen : BatchStates, event : Workers \union {NoOne}]
           named == [NoRequest EXCEPT !.pc = "delete"]
           row == [named EXCEPT !.batch = b]
<1>1. NoRequest \in Row
  BY DEF NoRequest, RequestSteps, BatchStates
<1>2. named \in Row
  BY <1>1 DEF RequestSteps
<1>3. row \in Row /\ row.batch \in Batches
  BY <1>2
<1>4. request' = [request EXCEPT ![t] = row]
  BY DEF Await
<1> HIDE DEF row
<1> QED
  BY <1>3, <1>4 DEF RequestType

LEMMA OperatorType ==
  ASSUME TypeInv, NEW t \in Threads, NEW b \in Batches,
         StartRead(t, b) \/ PauseRead(t, b) \/ CancelRead(t, b) \/ DeleteRead(t, b)
  PROVE  TypeInv'
<1> USE DEF TypeInv
<1>1. UNCHANGED <<batch, attempt, worker, cancelled, registry, due, overdue,
                  codeChanged, unrecovered>>
  BY DEF StartRead, PauseRead, CancelRead, DeleteRead
<1>2. BatchType' /\ AttemptType' /\ WorkerType' /\ OtherTypes'
  BY <1>1 DEF BatchType, AttemptType, WorkerType, OtherTypes
<1>3. batch[b].state \in BatchStates /\ "RUNNING" \in BatchStates
  BY DEF BatchType, CounterRow, BatchStates, ActiveBatchStates
<1>4. CASE DeleteRead(t, b)
  BY <1>2, <1>4, DeleteBegins DEF DeleteRead
<1>5. CASE StartRead(t, b) \/ PauseRead(t, b) \/ CancelRead(t, b)
  <2>1. PICK step \in {"check", "pause", "event"}, s \in BatchStates :
          Await(t, [NoRequest EXCEPT !.pc = step, !.batch = b, !.seen = s])
    BY <1>3, <1>5 DEF StartRead, PauseRead, CancelRead
  <2> QED
    BY <1>2, <2>1, RequestBegins DEF RequestSteps
<1> QED
  BY <1>4, <1>5

(* ... for the recovery, which settles an attempt that is active ... *)
LEMMA NewestIsActive ==
  ASSUME NEW b, ActiveAttempts(b) # {}
  PROVE  Newest(ActiveAttempts(b)) \in ActiveAttempts(b)
<1> DEFINE S == ActiveAttempts(b)
           R == {ss \in Nat \X Nat : ss[1] < ss[2]}
           T == {MaxAttempts - i : i \in S}
<1>1. S \subseteq 1 .. MaxAttempts
  BY DEF ActiveAttempts, Slots
<1>2. \E i \in S : \A j \in S : j <= i
  <2>1. T \subseteq Nat /\ T # {}
    BY <1>1, BatchLimits
  <2>2. \E x \in T : \A y \in T : <<y, x>> \notin R
    <3>1. IsWellFoundedOn(R, Nat)
      BY NatLessThanWellFounded DEF OpToRel
    <3> HIDE DEF R, T
    <3> QED
      BY <2>1, <3>1, WFMin
  <2>3. PICK x \in T : \A y \in T : ~(y < x)
    BY <2>1, <2>2
  <2>4. PICK i \in S : x = MaxAttempts - i
    OBVIOUS
  <2>5. ASSUME NEW j \in S PROVE j <= i
    <3>1. ~(MaxAttempts - j < MaxAttempts - i)
      BY <2>3, <2>4
    <3> QED
      BY <1>1, <3>1, BatchLimits
  <2> QED
    BY <2>5
<1> QED
  BY <1>2 DEF Newest

LEMMA RecoverType ==
  ASSUME TypeInv, NEW b \in Batches, Recover(b)
  PROVE  TypeInv'
<1> USE DEF TypeInv
<1>1. WorkerType' /\ RequestType' /\ OtherTypes'
  BY DEF Recover, WorkerType, RequestType, OtherTypes
<1>2. {"CANCELLED", "PAUSED"} \subseteq BatchStates
  BY DEF BatchStates, TerminalBatchStates, StartableStates
<1>3. Verdicts \subseteq AttemptStates /\ {"FAILED", "CANCELLED"} \subseteq Verdicts
      /\ NoAttempt \in AttemptStates /\ {"NO_RUN", "INTERRUPTED"} \subseteq RunStates
  BY DEF AttemptStates, Verdicts, RunStates, LinkedRuns
<1>4. CASE RecoverNothing(b)
  BY <1>1, <1>4 DEF RecoverNothing, BatchType, AttemptType
<1>5. CASE RecoverCancelled(b)
  <2>1. BatchType'
    BY <1>2, <1>5, StateWritten DEF RecoverCancelled
  <2>2. AttemptType'
    <3> DEFINE n == Newest(ActiveAttempts(b))
    <3>1. CASE ActiveAttempts(b) = {}
      BY <1>5, <3>1 DEF RecoverCancelled, AttemptType
    <3>2. CASE ActiveAttempts(b) # {}
      <4>1. attempt' = [attempt EXCEPT ![b][n].state = "CANCELLED"]
        BY <1>5, <3>2 DEF RecoverCancelled
      <4> QED
        BY <4>1, <1>3, AttemptWritten DEF AttemptType
    <3> QED
      BY <3>1, <3>2
  <2> QED
    BY <1>1, <2>1, <2>2
<1>6. CASE RecoverPaused(b)
  <2> DEFINE n == Newest(ActiveAttempts(b))
             settled == ActiveAttempts(b) # {} /\ attempt[b][n].run \in LinkedRuns
             run == attempt[b][n].run
             verdict == IF run \in CompletedRuns THEN VerdictOn(run) ELSE "FAILED"
             tallied == IF settled THEN Tally(batch[b], verdict) ELSE batch[b]
  <2>1. tallied \in CounterRow
    BY TallyType DEF BatchType
  <2>2. [tallied EXCEPT !.state = "PAUSED"] \in CounterRow
    <3> HIDE DEF tallied
    <3> QED
      BY <2>1, <1>2, RowFields
  <2>3. batch' = [batch EXCEPT ![b] = [tallied EXCEPT !.state = "PAUSED"]]
    BY <1>6 DEF RecoverPaused
  <2>4. BatchType'
    <3> HIDE DEF tallied
    <3> QED
      BY <2>2, <2>3 DEF BatchType
  <2>5. CASE settled
    <3>1. verdict \in AttemptStates
      BY <1>3, VerdictType
    <3>2. run \in LinkedRuns
      BY <2>5
    <3> DEFINE end == IF run = "LIVE" THEN "INTERRUPTED" ELSE run
               judged == [attempt EXCEPT ![b][n].state = verdict]
    <3>3. end \in RunStates
      BY <3>2 DEF RunStates, LinkedRuns
    <3>4. attempt' = [attempt EXCEPT
                       ![b][n].state = verdict,
                       ![b][n].run = IF @ = "LIVE" THEN "INTERRUPTED" ELSE @]
      BY <1>6, <2>5 DEF RecoverPaused
    <3>5. CASE n \in Slots
      <4>1. judged[b][n].run = run
        BY <3>5 DEF AttemptType, AttemptRow
      <4>2. attempt' = [judged EXCEPT ![b][n].run = end]
        BY <3>4, <4>1
      <4>3. judged \in [Batches -> [Slots -> AttemptRow]]
        BY <3>1, <1>3, AttemptWritten DEF AttemptType
      <4>4. AttemptType'
        <5> HIDE DEF judged, end
        <5> QED
          BY <3>3, <4>2, <4>3, <1>3, AttemptWritten DEF AttemptType
      <4> QED
        BY <1>1, <2>4, <4>4
    <3>6. n \in Slots
      <4>1. ActiveAttempts(b) \subseteq Slots
        BY DEF ActiveAttempts
      <4> QED
        BY <2>5, <4>1, NewestIsActive
    <3> QED
      BY <3>5, <3>6
  <2>6. CASE ~settled
    BY <1>1, <1>6, <2>4, <2>6 DEF RecoverPaused, AttemptType
  <2> QED
    BY <2>5, <2>6
<1> QED
  BY <1>4, <1>5, <1>6 DEF Recover

(* ... and for crashes, time and checkouts. *)
LEMMA EnvironmentType ==
  ASSUME TypeInv, Environment
  PROVE  TypeInv'
<1> USE DEF TypeInv
<1>1. CASE Crash
  <2>1. "none" \in WorkerSteps /\ "idle" \in RequestSteps /\ Deleted \in BatchStates
        /\ 0 \in 0 .. MaxAttempts
    BY BatchLimits DEF WorkerSteps, RequestSteps, BatchStates
  <2>2. WorkerType' /\ RequestType'
    BY <1>1, <2>1 DEF Crash, WorkerType, RequestType, NoWorker, NoRequest
  <2> QED
    BY <1>1, <2>2 DEF Crash, BatchType, AttemptType, OtherTypes
<1>2. CASE CodeChanges
  BY <1>2 DEF CodeChanges, BatchType, AttemptType, WorkerType, RequestType, OtherTypes
<1>3. CASE \E b \in Batches : StartTimeComes(b) \/ DeadlinePasses(b)
  BY <1>3 DEF StartTimeComes, DeadlinePasses, BatchType, AttemptType, WorkerType,
              RequestType, OtherTypes
<1> QED
  BY <1>1, <1>2, <1>3 DEF Environment

-----------------------------------------------------------------------------

LEMMA InitType == Init => TypeInv
<1> SUFFICES ASSUME Init PROVE TypeInv
  OBVIOUS
<1>1. "none" \in WorkerSteps /\ "idle" \in RequestSteps
      /\ {"SCHEDULED", "DRAFT", Deleted} \subseteq BatchStates
      /\ 0 \in 0 .. MaxAttempts
      /\ NoAttempt \in AttemptStates /\ "NO_RUN" \in RunStates
  BY BatchLimits DEF WorkerSteps, RequestSteps, BatchStates, StartableStates,
                     AttemptStates, RunStates
<1>2. BatchType
  BY <1>1 DEF Init, BatchType, CounterRow
<1>3. AttemptType
  BY <1>1 DEF Init, AttemptType, AttemptRow, NoAttemptRow
<1>4. WorkerType /\ RequestType /\ OtherTypes
  BY <1>1 DEF Init, WorkerType, RequestType, NoWorker, NoRequest, OtherTypes
<1> QED
  BY <1>2, <1>3, <1>4 DEF TypeInv

LEMMA NextType == TypeInv /\ [Next]_vars => TypeInv'
<1> SUFFICES ASSUME TypeInv, [Next]_vars PROVE TypeInv'
  OBVIOUS
<1>1. CASE \E c \in Clients : Operator(c)
  BY <1>1, OperatorType DEF Operator, Threads
<1>2. CASE SchedulerTick
  BY <1>2, OperatorType DEF SchedulerTick, Threads, TypeInv, OtherTypes
<1>3. CASE \E t \in Threads : HandlerStep(t)
  BY <1>3, HandlerStepType
<1>4. CASE \E w \in Workers : WorkerStep(w)
  BY <1>4, WorkerStepType
<1>5. CASE \E w \in Workers : WakeUp(w) \/ Raise(w)
  <2>1. PICK w \in Workers, step \in {"top", "raised"} :
          /\ worker[w].pc # "none" /\ Go(w, step)
          /\ UNCHANGED <<batch, attempt>> /\ WorkerFrame
    BY <1>5 DEF WakeUp, Raise, At
  <2>2. worker[w].batch \in Batches
    BY <2>1 DEF TypeInv, WorkerType
  <2> QED
    BY <2>1, <2>2, WorkerMoved, WorkerFrameType
    DEF TypeInv, WorkerSteps, BatchType, AttemptType
<1>6. CASE \E b \in Batches : Recover(b)
  BY <1>6, RecoverType
<1>7. CASE Environment
  BY <1>7, EnvironmentType
<1>8. CASE UNCHANGED vars
  BY <1>8 DEF vars, TypeInv, BatchType, AttemptType, WorkerType, RequestType,
              OtherTypes
<1> QED
  BY <1>1, <1>2, <1>3, <1>4, <1>5, <1>6, <1>7, <1>8 DEF Next

LEMMA TypeInvImpliesTypeOK == TypeInv => TypeOK
  BY DEF TypeInv, TypeOK, BatchType, AttemptType, AttemptRow, WorkerType,
         RequestType, OtherTypes

LEMMA TypeInvariant == Spec => []TypeInv
<1>1. Init => TypeInv
  BY InitType
<1>2. TypeInv /\ [Next]_vars => TypeInv'
  BY NextType
<1> QED
  BY <1>1, <1>2, PTL DEF Spec

(* Every row, cache and registry of the controller keeps the shape the code  *)
(* gives it: attempt numbers stay within max_attempts whatever is killed,    *)
(* resumed, cancelled or raises (run_batch, recover_interrupted_batches).    *)
THEOREM TypeCorrect == Spec => []TypeOK
  BY TypeInvariant, TypeInvImpliesTypeOK, PTL

-----------------------------------------------------------------------------
(* One loop per batch.  The claim admits a start only for a batch that is    *)
(* startable; so it is enough that a batch somebody holds (the handler that  *)
(* claimed it, or the worker it started) is not, and that it has one holder. *)
(* The worker's own way out, a commit of PAUSED, gives up the hold in the    *)
(* same step; the recovery writes PAUSED when nobody holds anything.         *)

Running(w) == worker[w].pc \notin {"none", "teardown"}
Holds(w, b) == Running(w) /\ worker[w].batch = b
Claimed(t, b) == request[t].pc = "register" /\ request[t].batch = b

OneHolder(b) ==
  /\ \A v, w \in Workers : Holds(v, b) /\ Holds(w, b) => v = w
  /\ \A t, u \in Threads : Claimed(t, b) /\ Claimed(u, b) => t = u
  /\ \A t \in Threads, w \in Workers : ~(Claimed(t, b) /\ Holds(w, b))

HeldStates == ActiveBatchStates \union {"CANCELLED", Deleted}

HeldIsActive(b) ==
  (\E w \in Workers : Holds(w, b)) \/ (\E t \in Threads : Claimed(t, b))
    => batch[b].state \in HeldStates

StartsSawStartable ==
  \A t \in Threads : request[t].pc \in {"check", "claim"}
                      => request[t].seen \in StartableStates

DownIsQuiet ==
  ~Up => /\ \A w \in Workers : worker[w].pc = "none"
         /\ \A t \in Threads : request[t].pc = "idle"

HolderInv ==
  /\ \A b \in Batches : OneHolder(b) /\ HeldIsActive(b)
  /\ StartsSawStartable
  /\ DownIsQuiet

LEMMA HeldAreNotStartable == HeldStates \intersect StartableStates = {}
  BY DEF HeldStates, StartableStates, ActiveBatchStates, Deleted

(* What a worker's step can do to the hold on its batch. *)
KeepsHold(w) ==
  /\ worker[w].pc # "none"
  /\ \A v \in Workers : v # w => worker'[v] = worker[v]
  /\ worker'[w].pc \notin {"none", "teardown"} => Running(w)
  /\ worker'[w].pc # "none" => worker'[w].batch = worker[w].batch
  /\ \A b \in Batches :
       \/ batch'[b].state = batch[b].state
       \/ Holds(w, b) /\ batch'[b].state = "RUNNING"
       \/ Holds(w, b) /\ worker'[w].pc = "teardown"
  /\ UNCHANGED <<request, unrecovered>>

LEMMA HoldMoved ==
  ASSUME WorkerType, NEW w \in Workers, NEW step, Go(w, step)
  PROVE  /\ \A v \in Workers : v # w => worker'[v] = worker[v]
         /\ worker'[w].pc = step /\ worker'[w].batch = worker[w].batch
  BY DEF WorkerType, Go

LEMMA TallyKeepsState ==
  ASSUME NEW row \in CounterRow, NEW verdict
  PROVE  Tally(row, verdict).state = row.state
<1>1. CASE verdict \in {"VALID", "INVALID", "CANCELLED"}
  BY <1>1 DEF Tally, CounterRow
<1>2. CASE verdict \notin {"VALID", "INVALID", "CANCELLED"}
  <2>1. Tally(row, verdict) = [row EXCEPT !.failed = @ + 1, !.consecutive = @ + 1]
    BY <1>2 DEF Tally
  <2> QED
    BY <2>1 DEF CounterRow
<1> QED
  BY <1>1, <1>2

LEMMA StopKeepsHold ==
  ASSUME BatchType, WorkerType, NEW w \in Workers, NEW s, Stop(w, s),
         Running(w), UNCHANGED <<request, unrecovered>>
  PROVE  KeepsHold(w)
<1>1. CASE RowGone(w)
  <2>1. Go(w, "raised") /\ UNCHANGED batch
    BY <1>1 DEF Stop
  <2> QED
    BY <2>1, HoldMoved DEF KeepsHold, Running
<1>2. CASE ~RowGone(w)
  <2>1. Go(w, "teardown") /\ WriteOver(Mine(w), worker[w].seen, s)
    BY <1>2 DEF Stop
  <2>2. \A b \in Batches : b # Mine(w) => batch'[b] = batch[b]
    BY <2>1 DEF WriteOver, BatchType
  <2> QED
    BY <2>1, <2>2, HoldMoved DEF KeepsHold, Running, Holds, Mine
<1> QED
  BY <1>1, <1>2

LEMMA WorkerStepKeepsHold ==
  ASSUME TypeInv, NEW w \in Workers, WorkerStep(w) \/ WakeUp(w) \/ Raise(w)
  PROVE  KeepsHold(w)
<1> USE DEF TypeInv
<1>0. UNCHANGED <<request, unrecovered>>
  BY DEF WorkerStep, WakeUp, Raise, WorkerFrame, Load, Refresh, Decide, BeginAttempt,
     PreconditionsMet, PreconditionsNotMet, PreconditionsCancelled, Abandon, AfterSkip,
     CreateRun, LinkRun, ExecuteRun, RecordAttempt, RecordDrift, PauseForDrift, Review,
     Poll, HandleException, FailBatch, Teardown
<1>a. \A b \in Batches : batch[b] \in CounterRow
  BY DEF BatchType
<1>1. CASE \E s : Stop(w, s) /\ Running(w)
  BY <1>0, <1>1, StopKeepsHold
<1>2. CASE Running(w) /\ UNCHANGED batch /\ \E step : Go(w, step)
  BY <1>0, <1>2, HoldMoved DEF KeepsHold, Running
<1>3. CASE Load(w)
  <2>1. CASE batch[Mine(w)].state \in {"DRAFT", "SCHEDULED", "RUNNING"}
    <3>1. /\ worker' = [worker EXCEPT ![w].pc = "top", ![w].seen = "RUNNING"]
          /\ WriteOver(Mine(w), batch[Mine(w)].state, "RUNNING")
      BY <1>3, <2>1 DEF Load
    <3>2. /\ \A v \in Workers : v # w => worker'[v] = worker[v]
          /\ worker'[w].pc = "top" /\ worker'[w].batch = worker[w].batch
      BY <3>1 DEF WorkerType
    <3>3. \A b \in Batches :
            \/ batch'[b].state = batch[b].state
            \/ b = Mine(w) /\ batch'[b].state = "RUNNING"
      BY <3>1 DEF WriteOver, BatchType, CounterRow
    <3> QED
      BY <1>0, <1>3, <3>2, <3>3
      DEF KeepsHold, Running, Holds, Mine, Load, At
  <2>2. CASE batch[Mine(w)].state \notin {"DRAFT", "SCHEDULED", "RUNNING"}
    BY <1>2, <1>3, <2>2 DEF Load, Running, At
  <2> QED
    BY <2>1, <2>2
<1>4. CASE Refresh(w)
  <2>1. CASE RowGone(w)
    BY <1>2, <1>4, <2>1 DEF Refresh, Running, AfterRefresh
  <2>2. CASE ~RowGone(w)
    <3>1. worker' = [worker EXCEPT ![w].pc = AfterRefresh[@],
                                   ![w].seen = batch[Mine(w)].state]
      BY <1>4, <2>2 DEF Refresh
    <3>2. /\ \A v \in Workers : v # w => worker'[v] = worker[v]
          /\ worker'[w].batch = worker[w].batch
      BY <3>1 DEF WorkerType
    <3> QED
      BY <1>0, <1>4, <3>2 DEF KeepsHold, Refresh, Running, AfterRefresh
  <2> QED
    BY <2>1, <2>2
<1>5. CASE BeginAttempt(w)
  <2>1. CASE RowGone(w)
    BY <1>2, <1>5, <2>1 DEF BeginAttempt, Running, At
  <2>2. CASE ~RowGone(w)
    <3> DEFINE n == batch[Mine(w)].attempts + 1
    <3>1. /\ batch' = [batch EXCEPT ![Mine(w)].attempts = n]
          /\ worker' = [worker EXCEPT ![w].pc = "check", ![w].at = n]
      BY <1>5, <2>2 DEF BeginAttempt
    <3> HIDE DEF n
    <3>2. /\ \A v \in Workers : v # w => worker'[v] = worker[v]
          /\ worker'[w].batch = worker[w].batch
      BY <3>1 DEF WorkerType
    <3>3. \A b \in Batches : batch'[b].state = batch[b].state
      BY <3>1 DEF BatchType, CounterRow
    <3> QED
      BY <1>0, <1>5, <3>2, <3>3 DEF KeepsHold, BeginAttempt, Running, At
  <2> QED
    BY <2>1, <2>2
<1>6. CASE PreconditionsNotMet(w)
  <2>1. CASE RowGone(w)
    BY <1>2, <1>6, <2>1 DEF PreconditionsNotMet, Running, At
  <2>2. CASE ~RowGone(w)
    <3>1. /\ batch' = [batch EXCEPT ![Mine(w)] = Tally(batch[Mine(w)], "SKIPPED")]
          /\ Go(w, "skipped") /\ Running(w)
      BY <1>6, <2>2 DEF PreconditionsNotMet, Running, At
    <3>2. \A b \in Batches : batch'[b].state = batch[b].state
      BY <1>a, <3>1, TallyKeepsState DEF BatchType
    <3> QED
      BY <1>0, <3>1, <3>2, HoldMoved DEF KeepsHold, Running
  <2> QED
    BY <2>1, <2>2
<1>7. CASE RecordAttempt(w)
  <2> DEFINE verdict == VerdictOn(attempt[Mine(w)][worker[w].at].run)
  <2>1. CASE RowGone(w)
    BY <1>2, <1>7, <2>1 DEF RecordAttempt, Running, At
  <2>2. CASE ~RowGone(w)
    <3>1. Go(w, "finished") /\ Running(w)
      BY <1>7, <2>2 DEF RecordAttempt, Running, At
    <3>2. PICK known \in BOOLEAN :
            batch' = [batch EXCEPT ![Mine(w)] =
                       [Tally(@, verdict) EXCEPT !.nodeKnown = known]]
      BY <1>7, <2>2 DEF RecordAttempt
    <3>3. ASSUME NEW b \in Batches, b = Mine(w)
          PROVE  batch'[b].state = batch[b].state
      <4> DEFINE row == Tally(batch[b], verdict)
      <4>1. row \in CounterRow /\ row.state = batch[b].state
        BY <1>a, TallyType, TallyKeepsState
      <4>2. batch'[b] = [row EXCEPT !.nodeKnown = known]
        BY <3>2, <3>3 DEF BatchType
      <4> HIDE DEF row
      <4> QED
        BY <4>1, <4>2 DEF CounterRow
    <3>4. \A b \in Batches : b # Mine(w) => batch'[b] = batch[b]
      BY <3>2 DEF BatchType
    <3> QED
      BY <1>0, <3>1, <3>3, <3>4, HoldMoved DEF KeepsHold, Running
  <2> QED
    BY <2>1, <2>2
<1>8. CASE HandleException(w)
  <2>1. CASE batch[Mine(w)].state \in TerminalBatchStates \union {Deleted}
    BY <1>2, <1>8, <2>1 DEF HandleException, Running, At
  <2>2. CASE batch[Mine(w)].state \notin TerminalBatchStates \union {Deleted}
    <3>1. worker' = [worker EXCEPT ![w].pc = "fail",
                                   ![w].seen = batch[Mine(w)].state]
      BY <1>8, <2>2 DEF HandleException
    <3>2. /\ \A v \in Workers : v # w => worker'[v] = worker[v]
          /\ worker'[w].batch = worker[w].batch
      BY <3>1 DEF WorkerType
    <3> QED
      BY <1>0, <1>8, <3>2 DEF KeepsHold, HandleException, Running, At
  <2> QED
    BY <2>1, <2>2
<1>9. CASE FailBatch(w)
  <2>1. Go(w, "teardown") /\ Running(w)
    BY <1>9 DEF FailBatch, Running, At
  <2>2. UNCHANGED batch \/ SetState(Mine(w), "FAILED")
    BY <1>9 DEF FailBatch
  <2>3. \A b \in Batches : b # Mine(w) => batch'[b].state = batch[b].state
    BY <2>2 DEF SetState, BatchType
  <2> QED
    BY <1>0, <2>1, <2>3, HoldMoved DEF KeepsHold, Holds, Mine, Running
<1>10. CASE Teardown(w)
  <2>1. worker' = [worker EXCEPT ![w] = NoWorker] /\ UNCHANGED batch
    BY <1>10 DEF Teardown
  <2>2. /\ \A v \in Workers : v # w => worker'[v] = worker[v]
        /\ worker'[w].pc = "none"
    BY <2>1 DEF WorkerType, NoWorker
  <2> QED
    BY <1>0, <1>10, <2>1, <2>2 DEF KeepsHold, Teardown, At
<1>11. CASE Decide(w) \/ Abandon(w) \/ PauseForDrift(w)
  BY <1>1, <1>11 DEF Decide, Abandon, PauseForDrift, Running, At
<1>12. CASE AfterSkip(w) \/ Review(w) \/ Poll(w)
  BY <1>1, <1>2, <1>12 DEF AfterSkip, Review, Poll, Running, At
<1>13. CASE \/ PreconditionsMet(w) \/ PreconditionsCancelled(w) \/ CreateRun(w)
            \/ LinkRun(w) \/ ExecuteRun(w) \/ RecordDrift(w) \/ WakeUp(w) \/ Raise(w)
  BY <1>2, <1>13 DEF PreconditionsMet, PreconditionsCancelled, CreateRun, LinkRun,
     ExecuteRun, RecordDrift, WakeUp, Raise, Running, At
<1> QED
  BY <1>3, <1>4, <1>5, <1>6, <1>7, <1>8, <1>9, <1>10, <1>11, <1>12, <1>13
  DEF WorkerStep

(* A worker's step preserves the invariant, whichever step it is. *)
LEMMA WorkerStepHolder ==
  ASSUME TypeInv, HolderInv, NEW w \in Workers, KeepsHold(w)
  PROVE  HolderInv'
<1>1. Up
  BY DEF HolderInv, DownIsQuiet, KeepsHold
<1>2. Up'
  BY <1>1 DEF Up, KeepsHold
<1>3. \A v \in Workers, b \in Batches : Holds(v, b)' => Holds(v, b)
  BY DEF Holds, Running, KeepsHold
<1>4. \A t \in Threads, b \in Batches : Claimed(t, b)' <=> Claimed(t, b)
  BY DEF Claimed, KeepsHold
<1>5. ASSUME NEW b \in Batches PROVE OneHolder(b)'
  BY <1>3, <1>4 DEF HolderInv, OneHolder
<1>6. ASSUME NEW b \in Batches PROVE HeldIsActive(b)'
  <2>1. CASE batch'[b].state = batch[b].state
    BY <1>3, <1>4, <2>1 DEF HolderInv, HeldIsActive
  <2>2. CASE batch'[b].state = "RUNNING"
    BY <2>2 DEF HeldIsActive, HeldStates, ActiveBatchStates
  <2>3. CASE Holds(w, b) /\ worker'[w].pc = "teardown"
    <3>1. ~Holds(w, b)'
      BY <2>3 DEF Holds, Running
    <3>2. \A v \in Workers : ~Holds(v, b)'
      BY <1>3, <2>3, <3>1 DEF HolderInv, OneHolder
    <3>3. \A t \in Threads : ~Claimed(t, b)'
      BY <1>4, <2>3 DEF HolderInv, OneHolder
    <3> QED
      BY <3>2, <3>3 DEF HeldIsActive
  <2> QED
    BY <2>1, <2>2, <2>3 DEF KeepsHold
<1>7. StartsSawStartable'
  BY DEF HolderInv, StartsSawStartable, KeepsHold
<1> QED
  BY <1>2, <1>5, <1>6, <1>7 DEF HolderInv, DownIsQuiet

(* So does a step of a handler: the claim needs a startable row, so nobody   *)
(* holds it, and writes one that is not; the thread it starts takes over.    *)
LEMMA HandlerStepHolder ==
  ASSUME TypeInv, HolderInv, NEW t \in Threads, HandlerStep(t)
  PROVE  HolderInv'
<1> DEFINE r == request[t]
           c == r.batch
<1>0. r.pc # "idle" /\ c \in Batches /\ UNCHANGED unrecovered
  BY DEF HandlerStep, StartCheck, Claim, Register, PauseWrite, CancelEvent, CancelWrite,
         DeleteWrite, Pending, TypeInv, RequestType
<1>1. Up /\ Up'
  BY <1>0 DEF HolderInv, DownIsQuiet, Up
<1>2. \A u \in Threads : u # t => request'[u] = request[u]
  BY DEF HandlerStep, StartCheck, Claim, Register, PauseWrite, CancelEvent, CancelWrite,
         DeleteWrite, Answer, Await, TypeInv, RequestType
<1>3. CASE /\ UNCHANGED worker
           /\ request'[t].pc \notin {"check", "claim", "register"}
           /\ \A b \in Batches : \/ batch'[b].state = batch[b].state
                                 \/ batch'[b].state \in HeldStates
  <2>1. \A v \in Workers, b \in Batches : Holds(v, b)' <=> Holds(v, b)
    BY <1>3 DEF Holds, Running
  <2>2. \A u \in Threads, b \in Batches : Claimed(u, b)' => Claimed(u, b)
    BY <1>2, <1>3 DEF Claimed
  <2>3. \A b \in Batches : OneHolder(b)'
    BY <2>1, <2>2 DEF HolderInv, OneHolder
  <2>4. ASSUME NEW b \in Batches PROVE HeldIsActive(b)'
    BY <2>1, <2>2, <1>3 DEF HolderInv, HeldIsActive
  <2>5. StartsSawStartable'
    BY <1>2, <1>3 DEF HolderInv, StartsSawStartable
  <2> QED
    BY <1>1, <2>3, <2>4, <2>5 DEF HolderInv, DownIsQuiet
<1>4. CASE StartCheck(t)
  <2>1. CASE NoneRegistered /\ NoneActive
    <3>1. request' = [request EXCEPT ![t].pc = "claim"] /\ UNCHANGED <<batch, worker>>
      BY <1>4, <2>1 DEF StartCheck
    <3>2. request'[t].pc = "claim" /\ request'[t].seen = r.seen /\ r.pc = "check"
      BY <1>4, <3>1 DEF TypeInv, RequestType, StartCheck, Pending
    <3>3. \A u \in Threads, b \in Batches : Claimed(u, b)' => Claimed(u, b)
      BY <1>2, <3>2 DEF Claimed
    <3>4. \A v \in Workers, b \in Batches : Holds(v, b)' <=> Holds(v, b)
      BY <3>1 DEF Holds, Running
    <3>5. \A b \in Batches : OneHolder(b)' /\ HeldIsActive(b)'
      BY <3>1, <3>3, <3>4 DEF HolderInv, OneHolder, HeldIsActive
    <3>6. StartsSawStartable'
      BY <1>2, <3>2 DEF HolderInv, StartsSawStartable
    <3> QED
      BY <1>1, <3>5, <3>6 DEF HolderInv, DownIsQuiet
  <2>2. CASE ~(NoneRegistered /\ NoneActive)
    BY <1>3, <1>4, <2>2 DEF StartCheck, Answer, Await, NoRequest, TypeInv, RequestType
  <2> QED
    BY <2>1, <2>2
<1>5. CASE Claim(t)
  <2>1. CASE ClaimMatches(t)
    <3>1. SetState(c, "RUNNING") /\ UNCHANGED worker
      BY <1>5, <2>1 DEF Claim
    <3>2. batch[c].state \in StartableStates
      BY <1>5, <2>1 DEF Claim, Pending, ClaimMatches, HolderInv, StartsSawStartable
    <3>3. (\A v \in Workers : ~Holds(v, c)) /\ (\A u \in Threads : ~Claimed(u, c))
      BY <1>0, <3>2, HeldAreNotStartable DEF HolderInv, HeldIsActive
    <3>4. request' = [request EXCEPT
                       ![t] = [NoRequest EXCEPT !.pc = "register", !.batch = c]]
      BY <1>5, <2>1 DEF Claim, Await
    <3>5. request'[t].pc = "register" /\ request'[t].batch = c
      BY <3>4 DEF NoRequest, TypeInv, RequestType
    <3>6. \A v \in Workers, b \in Batches : Holds(v, b)' <=> Holds(v, b)
      BY <3>1 DEF Holds, Running
    <3>7. \A u \in Threads, b \in Batches :
            Claimed(u, b)' => Claimed(u, b) \/ (u = t /\ b = c)
      BY <1>2, <3>5 DEF Claimed
    <3>8. ASSUME NEW b \in Batches PROVE OneHolder(b)'
      <4>1. CASE b = c
        BY <3>3, <3>6, <3>7, <4>1 DEF OneHolder
      <4>2. CASE b # c
        BY <3>6, <3>7, <4>2 DEF HolderInv, OneHolder
      <4> QED
        BY <4>1, <4>2
    <3>9. ASSUME NEW b \in Batches PROVE HeldIsActive(b)'
      <4>1. CASE b = c
        <5>1. batch'[c].state = "RUNNING"
          BY <1>0, <3>1 DEF SetState, TypeInv, BatchType, CounterRow
        <5> QED
          BY <4>1, <5>1 DEF HeldIsActive, HeldStates, ActiveBatchStates
      <4>2. CASE b # c
        <5>1. batch'[b] = batch[b]
          BY <3>1, <4>2 DEF SetState, TypeInv, BatchType
        <5> QED
          BY <3>6, <3>7, <4>2, <5>1 DEF HolderInv, HeldIsActive
      <4> QED
        BY <4>1, <4>2
    <3>10. StartsSawStartable'
      BY <1>2, <3>5 DEF HolderInv, StartsSawStartable
    <3> QED
      BY <1>1, <3>8, <3>9, <3>10 DEF HolderInv, DownIsQuiet
  <2>2. CASE ~ClaimMatches(t)
    BY <1>3, <1>5, <2>2 DEF Claim, Answer, Await, NoRequest, TypeInv, RequestType
  <2> QED
    BY <2>1, <2>2
<1>6. CASE Register(t)
  <2>1. CASE batch[c].state = Deleted
    BY <1>3, <1>6, <2>1 DEF Register, Answer, Await, NoRequest, TypeInv, RequestType
  <2>2. CASE batch[c].state # Deleted
    <3>1. PICK w \in Workers :
            /\ worker[w] = NoWorker
            /\ worker' = [worker EXCEPT ![w].pc = "load", ![w].batch = c]
      BY <1>6, <2>2 DEF Register
    <3>2. UNCHANGED batch /\ request'[t].pc = "idle" /\ Claimed(t, c)
      BY <1>6 DEF Register, Pending, Claimed, Answer, Await, NoRequest, TypeInv, RequestType
    <3>3. /\ \A v \in Workers : v # w => worker'[v] = worker[v]
          /\ worker'[w].batch = c
      BY <3>1 DEF TypeInv, WorkerType
    <3>4. \A v \in Workers, b \in Batches :
            Holds(v, b)' => Holds(v, b) \/ (v = w /\ b = c)
      BY <3>3 DEF Holds, Running
    <3>5. \A u \in Threads, b \in Batches : Claimed(u, b)' => Claimed(u, b) /\ u # t
      BY <1>2, <3>2 DEF Claimed
    <3>6. /\ \A v \in Workers : ~Holds(v, c)
          /\ \A u \in Threads : Claimed(u, c) => u = t
          /\ batch[c].state \in HeldStates
      BY <1>0, <3>2 DEF HolderInv, OneHolder, HeldIsActive
    <3>7. ASSUME NEW b \in Batches PROVE OneHolder(b)'
      <4>1. CASE b = c
        BY <3>4, <3>5, <3>6, <4>1 DEF OneHolder
      <4>2. CASE b # c
        BY <3>4, <3>5, <4>2 DEF HolderInv, OneHolder
      <4> QED
        BY <4>1, <4>2
    <3>8. ASSUME NEW b \in Batches PROVE HeldIsActive(b)'
      <4>1. CASE b = c
        BY <3>2, <3>6, <4>1 DEF HeldIsActive
      <4>2. CASE b # c
        BY <3>2, <3>4, <3>5, <4>2 DEF HolderInv, HeldIsActive
      <4> QED
        BY <4>1, <4>2
    <3>9. StartsSawStartable'
      BY <1>2, <3>2 DEF HolderInv, StartsSawStartable
    <3> QED
      BY <1>1, <3>7, <3>8, <3>9 DEF HolderInv, DownIsQuiet
  <2> QED
    BY <2>1, <2>2
<1>7. CASE PauseWrite(t) \/ CancelWrite(t) \/ DeleteWrite(t)
  <2>1. Answer(t) /\ UNCHANGED worker
    BY <1>7 DEF PauseWrite, CancelWrite, DeleteWrite
  <2>2. request'[t].pc = "idle"
    BY <2>1 DEF Answer, Await, NoRequest, TypeInv, RequestType
  <2>3. \/ UNCHANGED batch
        \/ \E s \in {"PAUSE_REQUESTED", "CANCEL_REQUESTED", "CANCELLED", Deleted} :
             SetState(c, s) \/ WriteOver(c, r.seen, s)
    BY <1>7 DEF PauseWrite, CancelWrite, DeleteWrite
  <2>4. \A b \in Batches : \/ batch'[b].state = batch[b].state
                           \/ batch'[b].state \in HeldStates
    BY <2>3, <1>0 DEF SetState, WriteOver, TypeInv, BatchType, CounterRow, HeldStates,
                      ActiveBatchStates
  <2> QED
    BY <1>3, <2>1, <2>2, <2>4
<1>8. CASE CancelEvent(t)
  <2>1. UNCHANGED <<batch, worker>>
    BY <1>8 DEF CancelEvent
  <2>2. request'[t].pc \in {"idle", "cancel"}
    <3>1. CASE r.seen \in TerminalBatchStates
      BY <1>8, <3>1 DEF CancelEvent, Answer, Await, NoRequest, TypeInv, RequestType
    <3>2. CASE r.seen \notin TerminalBatchStates
      <4>1. Await(t, [r EXCEPT !.pc = "cancel", !.event = registry[c]])
        BY <1>8, <3>2 DEF CancelEvent
      <4>2. [r EXCEPT !.pc = "cancel", !.event = registry[c]].pc = "cancel"
        BY DEF TypeInv, RequestType
      <4> QED
        BY <4>1, <4>2 DEF Await, TypeInv, RequestType
    <3> QED
      BY <3>1, <3>2
  <2> QED
    BY <1>3, <2>1, <2>2
<1> QED
  BY <1>4, <1>5, <1>6, <1>7, <1>8 DEF HandlerStep

(* A request that begins holds nothing yet. *)
LEMMA OperatorHolder ==
  ASSUME TypeInv, HolderInv, NEW t \in Threads, NEW b \in Batches,
         StartRead(t, b) \/ PauseRead(t, b) \/ CancelRead(t, b) \/ DeleteRead(t, b)
  PROVE  HolderInv'
<1>1. UNCHANGED <<batch, worker, unrecovered>> /\ Up
  BY DEF StartRead, PauseRead, CancelRead, DeleteRead, Idle
<1>2. \A u \in Threads : u # t => request'[u] = request[u]
  BY DEF StartRead, PauseRead, CancelRead, DeleteRead, Await, TypeInv, RequestType
<1>3. \/ request'[t].pc \in {"pause", "event", "delete"}
      \/ request'[t].pc = "check" /\ request'[t].seen \in StartableStates
  <2>1. CASE StartRead(t, b)
    <3> DEFINE row == [NoRequest EXCEPT !.pc = "check", !.batch = b,
                                        !.seen = batch[b].state]
    <3>1. Await(t, row) /\ batch[b].state \in StartableStates
      BY <2>1 DEF StartRead
    <3>2. row.pc = "check" /\ row.seen = batch[b].state
      BY DEF NoRequest
    <3>3. request'[t] = row
      <4> HIDE DEF row
      <4> QED
        BY <3>1 DEF Await, TypeInv, RequestType
    <3> QED
      BY <3>1, <3>2, <3>3
  <2>2. CASE PauseRead(t, b) \/ CancelRead(t, b)
    <3> DEFINE row(step, s) == [NoRequest EXCEPT !.pc = step, !.batch = b, !.seen = s]
    <3>1. PICK step \in {"pause", "event"}, s \in {"RUNNING", batch[b].state} :
            Await(t, row(step, s))
      BY <2>2 DEF PauseRead, CancelRead
    <3>2. row(step, s).pc = step
      BY DEF NoRequest
    <3> HIDE DEF row
    <3> QED
      BY <3>1, <3>2 DEF Await, TypeInv, RequestType
  <2>3. CASE DeleteRead(t, b)
    <3> DEFINE row == [NoRequest EXCEPT !.pc = "delete", !.batch = b]
    <3>1. Await(t, row)
      BY <2>3 DEF DeleteRead
    <3>2. row.pc = "delete"
      BY DEF NoRequest
    <3> HIDE DEF row
    <3> QED
      BY <3>1, <3>2 DEF Await, TypeInv, RequestType
  <2> QED
    BY <2>1, <2>2, <2>3
<1>4. \A v \in Workers, d \in Batches : Holds(v, d)' <=> Holds(v, d)
  BY <1>1 DEF Holds, Running
<1>5. \A u \in Threads, d \in Batches : Claimed(u, d)' => Claimed(u, d)
  BY <1>2, <1>3 DEF Claimed
<1>6. \A d \in Batches : OneHolder(d)' /\ HeldIsActive(d)'
  BY <1>1, <1>4, <1>5 DEF HolderInv, OneHolder, HeldIsActive
<1>7. StartsSawStartable'
  BY <1>2, <1>3 DEF HolderInv, StartsSawStartable
<1> QED
  BY <1>1, <1>6, <1>7 DEF HolderInv, DownIsQuiet, Up

(* Nobody holds anything while the controller recovers, or after a crash. *)
LEMMA DownHolder ==
  ASSUME HolderInv,
         \/ \E b \in Batches : Recover(b)
         \/ Crash
  PROVE  HolderInv'
<1>1. /\ \A w \in Workers : worker'[w].pc = "none"
      /\ \A t \in Threads : request'[t].pc = "idle"
  <2>1. CASE \E b \in Batches : Recover(b)
    <3>1. ~Up /\ UNCHANGED <<worker, request>>
      BY <2>1 DEF Recover, RecoverNothing, RecoverCancelled, RecoverPaused, Up
    <3> QED
      BY <3>1 DEF HolderInv, DownIsQuiet
  <2>2. CASE Crash
    BY <2>2 DEF Crash, NoWorker, NoRequest
  <2> QED
    BY <2>1, <2>2
<1> QED
  BY <1>1 DEF HolderInv, OneHolder, HeldIsActive, StartsSawStartable, DownIsQuiet,
              Holds, Running, Claimed

LEMMA InitHolder == Init => HolderInv
  BY DEF Init, HolderInv, OneHolder, HeldIsActive, StartsSawStartable, DownIsQuiet,
         Holds, Running, Claimed, NoWorker, NoRequest, Up

LEMMA NextHolder == TypeInv /\ HolderInv /\ [Next]_vars => HolderInv'
<1> SUFFICES ASSUME TypeInv, HolderInv, [Next]_vars PROVE HolderInv'
  OBVIOUS
<1>1. CASE \E c \in Clients : Operator(c)
  BY <1>1, OperatorHolder DEF Operator, Threads
<1>2. CASE SchedulerTick
  BY <1>2, OperatorHolder DEF SchedulerTick, Threads, TypeInv, OtherTypes
<1>3. CASE \E t \in Threads : HandlerStep(t)
  BY <1>3, HandlerStepHolder
<1>4. CASE \E w \in Workers : WorkerStep(w) \/ WakeUp(w) \/ Raise(w)
  BY <1>4, WorkerStepKeepsHold, WorkerStepHolder
<1>5. CASE (\E b \in Batches : Recover(b)) \/ Crash
  BY <1>5, DownHolder
<1>6. CASE \/ \E b \in Batches : StartTimeComes(b) \/ DeadlinePasses(b)
           \/ CodeChanges
           \/ UNCHANGED vars
  <2>1. UNCHANGED <<batch, worker, request, unrecovered>>
    BY <1>6 DEF StartTimeComes, DeadlinePasses, CodeChanges, vars
  <2> QED
    BY <2>1 DEF HolderInv, OneHolder, HeldIsActive, StartsSawStartable,
                DownIsQuiet, Holds, Running, Claimed, Up
<1> QED
  BY <1>1, <1>2, <1>3, <1>4, <1>5, <1>6 DEF Next, Environment

LEMMA HolderInvImpliesOneLoop == TypeInv /\ HolderInv => OneLoopPerBatch
<1> SUFFICES ASSUME TypeInv, HolderInv, NEW v \in InLoop, NEW w \in InLoop,
                    worker[v].batch = worker[w].batch
             PROVE  v = w
  BY DEF OneLoopPerBatch
<1>1. worker[v].batch \in Batches
  BY DEF InLoop, TypeInv, WorkerType
<1> QED
  BY <1>1 DEF InLoop, HolderInv, OneHolder, Holds, Running

(* Whatever requests overlap, whatever is killed and resumed: two threads    *)
(* never both run the loop of one batch (the conditional UPDATE of           *)
(* _start_batch_worker).                                                     *)
THEOREM OneLoop == Spec => []OneLoopPerBatch
<1>1. Init => HolderInv
  BY InitHolder
<1>2. TypeInv /\ HolderInv /\ [Next]_vars => HolderInv'
  BY NextHolder
<1>3. TypeInv /\ HolderInv => OneLoopPerBatch
  BY HolderInvImpliesOneLoop
<1> QED
  BY <1>1, <1>2, <1>3, TypeInvariant, PTL DEF Spec

-----------------------------------------------------------------------------
(* The books.  A step does one thing at most to the attempts and the         *)
(* counters: it opens an attempt, rewrites or judges one that is open.       *)

SameCounts(b) ==
  /\ batch'[b].valid = batch[b].valid
  /\ batch'[b].invalid = batch[b].invalid
  /\ batch'[b].failed = batch[b].failed

SameAccounts(b) == batch'[b].attempts = batch[b].attempts /\ SameCounts(b)

SameBooks(b) == attempt'[b] = attempt[b] /\ SameAccounts(b)

OnlyAt(b, i) ==
  /\ \A c \in Batches : c # b => SameBooks(c)
  /\ \A j \in Slots : j # i => attempt'[b][j] = attempt[b][j]

Opened(b, i) ==
  /\ i \in Slots /\ i = batch[b].attempts + 1
  /\ batch[b].valid < Target
  /\ OnlyAt(b, i)
  /\ attempt'[b][i] = [attempt[b][i] EXCEPT !.state = "CHECKING_PRECONDITIONS"]
  /\ batch'[b].attempts = i
  /\ SameCounts(b)

Rewritten(b, i) ==
  /\ i \in Slots
  /\ attempt[b][i].state \in ActiveAttemptStates
  /\ attempt'[b][i].state \in ActiveAttemptStates
  /\ OnlyAt(b, i) /\ SameAccounts(b)

Judged(b, i, verdict) ==
  /\ i \in Slots /\ verdict \in Verdicts
  /\ attempt[b][i].state \in ActiveAttemptStates
  /\ attempt'[b][i].state = verdict
  /\ verdict = "VALID" => batch[b].valid < Target
  /\ OnlyAt(b, i)
  /\ batch'[b].attempts = batch[b].attempts
  /\ batch'[b].valid = batch[b].valid + (IF verdict = "VALID" THEN 1 ELSE 0)
  /\ batch'[b].failed =
       batch[b].failed + (IF verdict \in {"FAILED", "SKIPPED"} THEN 1 ELSE 0)
  /\ batch'[b].invalid <=
       batch[b].invalid + (IF verdict = "INVALID" THEN 1 ELSE 0)

BooksStep ==
  \/ \A b \in Batches : SameBooks(b)
  \/ \E b \in Batches, i \in Slots :
       \/ Opened(b, i) \/ Rewritten(b, i)
       \/ \E verdict \in Verdicts : Judged(b, i, verdict)

(* The attempt a worker has in hand, by where the worker is. *)
FinishedRuns == {"ELIGIBLE", "INELIGIBLE", "FAILED", "CANCELLED"}

RowAt ==
  [check   |-> [state : {"CHECKING_PRECONDITIONS"}, run : {"NO_RUN"}],
   create  |-> [state : {"RUNNING"}, run : {"NO_RUN"}],
   link    |-> [state : {"RUNNING"}, run : {"UNLINKED"}],
   execute |-> [state : {"RUNNING"}, run : {"LIVE"}],
   record  |-> [state : {"RUNNING"}, run : FinishedRuns]]

Working == {"check", "create", "link", "execute", "record"}

AtHand(w) ==
  worker[w].pc \in Working =>
    LET b == worker[w].batch
        i == worker[w].at IN
    /\ i \in Slots /\ i = batch[b].attempts
    /\ batch[b].valid < Target
    /\ attempt[b][i] \in RowAt[worker[w].pc]

(* Attempts are numbered without a gap, and a slot that is not used yet has  *)
(* no run.                                                                   *)
Numbered(b) ==
  \A i \in Slots : IF i <= batch[b].attempts THEN attempt[b][i].state # NoAttempt
                                             ELSE attempt[b][i] = NoAttemptRow

Scored(b) ==
  /\ batch[b].valid = Count(b, {"VALID"})
  /\ batch[b].failed = Count(b, {"FAILED", "SKIPPED"})
  /\ batch[b].invalid <= Count(b, {"INVALID"})

(* The attempts a restart may settle: open, and pointing to a run.  There is *)
(* at most one, the last of its batch, below the target, and while there is, *)
(* no other can be opened.                                                   *)
Live(b) == {i \in Slots : /\ attempt[b][i].state \in ActiveAttemptStates
                          /\ attempt[b][i].run \in LinkedRuns}

Settling == {"execute", "record", "raised", "fail"}

LiveIsLast(b) ==
  \A i \in Live(b) :
    /\ i = batch[b].attempts
    /\ batch[b].valid < Target
    /\ batch[b].state \notin StartableStates
    /\ \A t \in Threads : ~Claimed(t, b)
    /\ \A w \in Workers : Holds(w, b) => worker[w].pc \in Settling

BooksInv ==
  /\ \A w \in Workers : AtHand(w)
  /\ \A b \in Batches : /\ Numbered(b)
                        /\ batch[b].valid <= Target
                        /\ LiveIsLast(b)

-----------------------------------------------------------------------------
(* What a worker's step does to the books of its batch. *)
Idles(w) ==
  /\ \A b \in Batches : SameBooks(b)
  /\ worker'[w].pc \notin Working
  /\ worker[w].pc \in Settling =>
       /\ worker'[w].pc \in {"raised", "fail", "teardown"}
       /\ \A b \in Batches : batch'[b].state \in {batch[b].state, "FAILED"}
  /\ worker[w].pc = "record" => RowGone(w)

Opens(w) ==
  /\ worker[w].pc = "decide" /\ worker'[w].pc = "check"
  /\ worker'[w].at = batch[Mine(w)].attempts + 1
  /\ Opened(Mine(w), worker'[w].at)

GoesOn(w) ==
  /\ worker[w].pc \in Working \ {"record"} /\ worker'[w].pc \in Working
  /\ worker'[w].at = worker[w].at
  /\ Rewritten(Mine(w), worker[w].at)
  /\ attempt'[Mine(w)][worker[w].at] \in RowAt[worker'[w].pc]

Judges(w) ==
  LET run == attempt[Mine(w)][worker[w].at].run IN
  /\ worker[w].pc \in Working \ {"execute"} /\ worker'[w].pc \notin Working
  /\ \E verdict \in Verdicts :
       /\ Judged(Mine(w), worker[w].at, verdict)
       /\ run \in CompletedRuns => verdict \in {"VALID", "INVALID"}
  /\ attempt'[Mine(w)][worker[w].at].run = run

KeepsBooks(w) == Idles(w) \/ Opens(w) \/ GoesOn(w) \/ Judges(w)

(* What the row of the attempt looks like at each step of the iteration. *)
LEMMA RowAtDomain ==
  ASSUME NEW row
  PROVE  /\ row \in RowAt["check"]
              <=> row \in [state : {"CHECKING_PRECONDITIONS"}, run : {"NO_RUN"}]
         /\ row \in RowAt["create"]
              <=> row \in [state : {"RUNNING"}, run : {"NO_RUN"}]
         /\ row \in RowAt["link"]
              <=> row \in [state : {"RUNNING"}, run : {"UNLINKED"}]
         /\ row \in RowAt["execute"]
              <=> row \in [state : {"RUNNING"}, run : {"LIVE"}]
         /\ row \in RowAt["record"]
              <=> row \in [state : {"RUNNING"}, run : FinishedRuns]
  BY DEF RowAt

(* A commit of a batch's state leaves all the books alone. *)
LEMMA SameBooksUnchanged ==
  ASSUME BatchType, UNCHANGED attempt,
         UNCHANGED batch \/ \E b, s : SetState(b, s)
  PROVE  \A b \in Batches : SameBooks(b)
<1>1. CASE UNCHANGED batch
  BY <1>1 DEF SameBooks, SameAccounts, SameCounts
<1>2. CASE \E b, s : SetState(b, s)
  BY <1>2 DEF SameBooks, SameAccounts, SameCounts, SetState, BatchType, CounterRow
<1> QED
  BY <1>1, <1>2

(* A commit over a cached state is a commit or nothing. *)
LEMMA WriteOverIsSetState ==
  ASSUME BatchType, NEW b, NEW cached, NEW s, WriteOver(b, cached, s)
  PROVE  UNCHANGED batch \/ SetState(b, s)
<1>1. CASE cached = s
  <2>1. batch' = [batch EXCEPT ![b].state = @]
    BY <1>1 DEF WriteOver
  <2>2. batch' = batch
    BY <2>1 DEF BatchType, CounterRow
  <2> QED
    BY <2>2
<1>2. CASE cached # s
  BY <1>2 DEF WriteOver, SetState
<1> QED
  BY <1>1, <1>2

(* _stop touches no attempt ... *)
LEMMA StopIdles ==
  ASSUME BatchType, WorkerType, NEW w \in Workers, NEW s, Stop(w, s),
         worker[w].pc \notin Settling
  PROVE  Idles(w)
<1>1. UNCHANGED attempt
  BY DEF Stop
<1>2. /\ UNCHANGED batch \/ \E b, t : SetState(b, t)
      /\ Go(w, "raised") \/ Go(w, "teardown")
  BY WriteOverIsSetState DEF Stop
<1>3. worker'[w].pc \in {"raised", "teardown"}
  BY <1>2, HoldMoved
<1> QED
  BY <1>1, <1>2, <1>3, SameBooksUnchanged DEF Idles, Working, Settling

(* ... nor does a step that only moves the thread on. *)
LEMMA GoIdles ==
  ASSUME BatchType, WorkerType, NEW w \in Workers, NEW step, Go(w, step),
         UNCHANGED <<batch, attempt>>, step \notin Working,
         worker[w].pc \in Settling => step \in {"raised", "fail", "teardown"},
         worker[w].pc = "record" => RowGone(w)
  PROVE  Idles(w)
  BY HoldMoved, SameBooksUnchanged DEF Idles

(* A commit of the attempt's state, or of its run, touches nothing else. *)
LEMMA SetAttemptState ==
  ASSUME AttemptType, NEW w \in Workers, NEW s, SetAttempt(w, "state", s),
         Mine(w) \in Batches, worker[w].at \in Slots
  PROVE  LET b == Mine(w)
             i == worker[w].at
         IN  /\ attempt'[b][i] = [attempt[b][i] EXCEPT !.state = s]
             /\ attempt'[b][i].state = s /\ attempt'[b][i].run = attempt[b][i].run
             /\ \A c \in Batches : c # b => attempt'[c] = attempt[c]
             /\ \A j \in Slots : j # i => attempt'[b][j] = attempt[b][j]
<1> DEFINE b == Mine(w)
           i == worker[w].at
<1>1. attempt' = [attempt EXCEPT ![b][i].state = s]
  BY DEF SetAttempt
<1>2. attempt[b] \in [Slots -> AttemptRow] /\ attempt[b][i] \in AttemptRow
  BY DEF AttemptType
<1>3. attempt'[b] = [attempt[b] EXCEPT ![i] = [attempt[b][i] EXCEPT !.state = s]]
  BY <1>1 DEF AttemptType
<1>4. attempt'[b][i] = [attempt[b][i] EXCEPT !.state = s]
  BY <1>2, <1>3
<1>5. \A c \in Batches : c # b => attempt'[c] = attempt[c]
  BY <1>1 DEF AttemptType
<1>6. \A j \in Slots : j # i => attempt'[b][j] = attempt[b][j]
  BY <1>2, <1>3
<1>7. attempt'[b][i].state = s /\ attempt'[b][i].run = attempt[b][i].run
  BY <1>2, <1>4 DEF AttemptRow
<1> QED
  BY <1>4, <1>5, <1>6, <1>7

(* The same of a commit of the attempt's run. *)
LEMMA SetAttemptRun ==
  ASSUME AttemptType, NEW w \in Workers, NEW r, SetAttempt(w, "run", r),
         Mine(w) \in Batches, worker[w].at \in Slots
  PROVE  LET b == Mine(w)
             i == worker[w].at
         IN  /\ attempt'[b][i].state = attempt[b][i].state /\ attempt'[b][i].run = r
             /\ attempt'[b][i] = [attempt[b][i] EXCEPT !.run = r]
             /\ \A c \in Batches : c # b => attempt'[c] = attempt[c]
             /\ \A j \in Slots : j # i => attempt'[b][j] = attempt[b][j]
<1> DEFINE b == Mine(w)
           i == worker[w].at
<1>1. attempt' = [attempt EXCEPT ![b][i].run = r]
  BY DEF SetAttempt
<1>2. attempt[b] \in [Slots -> AttemptRow] /\ attempt[b][i] \in AttemptRow
  BY DEF AttemptType
<1>3. attempt'[b] = [attempt[b] EXCEPT ![i] = [attempt[b][i] EXCEPT !.run = r]]
  BY <1>1 DEF AttemptType
<1>4. attempt'[b][i] = [attempt[b][i] EXCEPT !.run = r]
  BY <1>2, <1>3
<1>5. \A c \in Batches : c # b => attempt'[c] = attempt[c]
  BY <1>1 DEF AttemptType
<1>6. \A j \in Slots : j # i => attempt'[b][j] = attempt[b][j]
  BY <1>2, <1>3
<1>7. attempt'[b][i].state = attempt[b][i].state /\ attempt'[b][i].run = r
  BY <1>2, <1>4 DEF AttemptRow
<1> QED
  BY <1>4, <1>5, <1>6, <1>7

(* The counters of a verdict. *)
LEMMA TallyCounts ==
  ASSUME NEW row \in CounterRow, NEW verdict \in Verdicts
  PROVE  LET new == Tally(row, verdict)
         IN  /\ new.attempts = row.attempts
             /\ new.valid = row.valid + (IF verdict = "VALID" THEN 1 ELSE 0)
             /\ new.failed =
                  row.failed + (IF verdict \in {"FAILED", "SKIPPED"} THEN 1 ELSE 0)
             /\ new.invalid = row.invalid + (IF verdict = "INVALID" THEN 1 ELSE 0)
<1>0. row.valid \in Nat /\ row.invalid \in Nat /\ row.failed \in Nat
  BY DEF CounterRow
<1>1. CASE verdict \in {"VALID", "INVALID", "CANCELLED"}
  BY <1>0, <1>1 DEF Tally, CounterRow
<1>2. CASE verdict \in {"FAILED", "SKIPPED"}
  <2>1. Tally(row, verdict) = [row EXCEPT !.failed = @ + 1, !.consecutive = @ + 1]
    BY <1>2 DEF Tally
  <2> QED
    BY <1>0, <1>2, <2>1 DEF CounterRow
<1> QED
  BY <1>1, <1>2 DEF Verdicts

(* A verdict and its entry in the counters, in one commit. *)
LEMMA TalliedIsJudged ==
  ASSUME TypeInv, NEW w \in Workers, AtHand(w), worker[w].pc \in Working,
         NEW verdict \in Verdicts, SetAttempt(w, "state", verdict),
         NEW row, row.attempts = Tally(batch[Mine(w)], verdict).attempts,
         row.valid = Tally(batch[Mine(w)], verdict).valid,
         row.invalid = Tally(batch[Mine(w)], verdict).invalid,
         row.failed = Tally(batch[Mine(w)], verdict).failed,
         batch' = [batch EXCEPT ![Mine(w)] = row]
  PROVE  /\ Judged(Mine(w), worker[w].at, verdict)
         /\ attempt'[Mine(w)][worker[w].at].run = attempt[Mine(w)][worker[w].at].run
<1> DEFINE b == Mine(w)
           i == worker[w].at
<1>1. b \in Batches /\ i \in Slots /\ batch[b].valid < Target
  BY DEF AtHand, Working, TypeInv, WorkerType, Mine
<1>2. /\ attempt'[b][i].state = verdict /\ attempt'[b][i].run = attempt[b][i].run
      /\ \A c \in Batches : c # b => attempt'[c] = attempt[c]
      /\ \A j \in Slots : j # i => attempt'[b][j] = attempt[b][j]
  BY <1>1, SetAttemptState DEF TypeInv
<1>3. batch'[b] = row /\ \A c \in Batches : c # b => batch'[c] = batch[c]
  BY <1>1 DEF TypeInv, BatchType
<1>4. attempt[b][i].state \in ActiveAttemptStates
  BY RowAtDomain DEF AtHand, Working, Mine, ActiveAttemptStates
<1>5. batch[b] \in CounterRow
  BY <1>1 DEF TypeInv, BatchType
<1>6. batch[b].invalid \in Nat
  BY <1>5 DEF CounterRow
<1>7. OnlyAt(b, i)
  BY <1>2, <1>3 DEF OnlyAt, SameBooks, SameAccounts, SameCounts
<1>8. /\ row.attempts = batch[b].attempts
      /\ row.valid = batch[b].valid + (IF verdict = "VALID" THEN 1 ELSE 0)
      /\ row.failed = batch[b].failed + (IF verdict \in {"FAILED", "SKIPPED"} THEN 1 ELSE 0)
      /\ row.invalid = batch[b].invalid + (IF verdict = "INVALID" THEN 1 ELSE 0)
  BY <1>5, TallyCounts
<1> QED
  BY <1>1, <1>2, <1>3, <1>4, <1>6, <1>7, <1>8 DEF Judged

(* A verdict that leaves the counters alone. *)
LEMMA UntalliedIsJudged ==
  ASSUME TypeInv, NEW w \in Workers, AtHand(w), worker[w].pc \in Working,
         NEW verdict \in {"CANCELLED", "INVALID"}, SetAttempt(w, "state", verdict),
         UNCHANGED batch
  PROVE  /\ Judged(Mine(w), worker[w].at, verdict)
         /\ attempt'[Mine(w)][worker[w].at].run = attempt[Mine(w)][worker[w].at].run
<1> DEFINE b == Mine(w)
           i == worker[w].at
<1>1. b \in Batches /\ i \in Slots /\ batch[b].valid < Target
  BY DEF AtHand, Working, TypeInv, WorkerType, Mine
<1>2. /\ attempt'[b][i].state = verdict /\ attempt'[b][i].run = attempt[b][i].run
      /\ \A c \in Batches : c # b => attempt'[c] = attempt[c]
      /\ \A j \in Slots : j # i => attempt'[b][j] = attempt[b][j]
  BY <1>1, SetAttemptState DEF TypeInv
<1>3. attempt[b][i].state \in ActiveAttemptStates
  BY RowAtDomain DEF AtHand, Working, Mine, ActiveAttemptStates
<1>4. batch[b].invalid \in Nat /\ batch[b].valid \in Nat /\ batch[b].failed \in Nat
  BY <1>1 DEF TypeInv, BatchType, CounterRow
<1> QED
  BY <1>1, <1>2, <1>3, <1>4
     DEF Judged, OnlyAt, SameBooks, SameAccounts, SameCounts, Verdicts

(* An attempt in hand that goes on. *)
LEMMA AdvanceGoesOn ==
  ASSUME TypeInv, NEW w \in Workers, AtHand(w), worker[w].pc \in Working \ {"record"},
         NEW step \in Working, Go(w, step), UNCHANGED batch,
         \/ /\ SetAttempt(w, "state", "RUNNING")
            /\ [attempt[Mine(w)][worker[w].at] EXCEPT !.state = "RUNNING"] \in RowAt[step]
         \/ \E r : /\ SetAttempt(w, "run", r)
                   /\ [attempt[Mine(w)][worker[w].at] EXCEPT !.run = r] \in RowAt[step]
  PROVE  GoesOn(w)
<1> DEFINE b == Mine(w)
           i == worker[w].at
<1>1. b \in Batches /\ i \in Slots
  BY DEF AtHand, Working, TypeInv, WorkerType, Mine
<1>2. /\ attempt'[b][i] \in RowAt[step]
      /\ \A c \in Batches : c # b => attempt'[c] = attempt[c]
      /\ \A j \in Slots : j # i => attempt'[b][j] = attempt[b][j]
  <2>1. CASE SetAttempt(w, "state", "RUNNING")
             /\ [attempt[b][i] EXCEPT !.state = "RUNNING"] \in RowAt[step]
    BY <1>1, <2>1, SetAttemptState DEF TypeInv
  <2>2. CASE \E r : SetAttempt(w, "run", r)
                   /\ [attempt[b][i] EXCEPT !.run = r] \in RowAt[step]
    BY <1>1, <2>2, SetAttemptRun DEF TypeInv
  <2> QED
    BY <2>1, <2>2
<1>3. /\ attempt[b][i].state \in ActiveAttemptStates
      /\ attempt'[b][i].state \in ActiveAttemptStates
  BY <1>2, RowAtDomain DEF AtHand, Working, Mine, ActiveAttemptStates
<1>4. worker'[w].pc = step /\ worker'[w].at = i
  BY DEF Go, TypeInv, WorkerType
<1> QED
  BY <1>1, <1>2, <1>3, <1>4
     DEF GoesOn, Rewritten, OnlyAt, SameBooks, SameAccounts, SameCounts

(* Every step of a worker opens, rewrites or judges one attempt, or idles. *)
LEMMA WorkerBooks ==
  ASSUME TypeInv, NEW w \in Workers, AtHand(w), WorkerStep(w) \/ WakeUp(w) \/ Raise(w)
  PROVE  KeepsBooks(w)
<1> USE DEF TypeInv
<1> DEFINE b == Mine(w)
           i == worker[w].at
<1>a. worker[w].pc \in Working =>
        /\ b \in Batches /\ i \in Slots
        /\ attempt[b][i] \in AttemptRow /\ batch[b] \in CounterRow
        /\ attempt[b][i] \in RowAt[worker[w].pc]
  BY DEF AtHand, Working, WorkerType, AttemptType, BatchType, Mine
<1>1. CASE \E s : Stop(w, s) /\ worker[w].pc \notin Settling
  BY <1>1, StopIdles DEF KeepsBooks
<1>2. CASE /\ worker[w].pc \notin Settling /\ UNCHANGED <<batch, attempt>>
           /\ \E step : Go(w, step) /\ step \notin Working
  BY <1>2, GoIdles DEF KeepsBooks, Settling
<1>3. CASE RowGone(w) /\ UNCHANGED <<batch, attempt>> /\ Go(w, "raised")
  BY <1>3, GoIdles DEF KeepsBooks, Working
<1>4. CASE Load(w)
  <2>1. CASE batch[b].state \in {"DRAFT", "SCHEDULED", "RUNNING"}
    <3>1. /\ worker' = [worker EXCEPT ![w].pc = "top", ![w].seen = "RUNNING"]
          /\ WriteOver(b, batch[b].state, "RUNNING") /\ UNCHANGED attempt
      BY <1>4, <2>1 DEF Load
    <3>2. worker'[w].pc = "top"
      BY <3>1 DEF WorkerType
    <3>3. \A c \in Batches : SameBooks(c)
      BY <3>1, WriteOverIsSetState, SameBooksUnchanged
    <3> QED
      BY <1>4, <3>2, <3>3 DEF KeepsBooks, Idles, Load, At, Working, Settling
  <2>2. CASE batch[b].state \notin {"DRAFT", "SCHEDULED", "RUNNING"}
    BY <1>2, <1>4, <2>2 DEF Load, At, Settling, Working
  <2> QED
    BY <2>1, <2>2
<1>5. CASE Refresh(w)
  <2>1. CASE RowGone(w)
    BY <1>3, <1>5, <2>1 DEF Refresh
  <2>2. CASE ~RowGone(w)
    <3>1. worker' = [worker EXCEPT ![w].pc = AfterRefresh[@],
                                   ![w].seen = batch[b].state]
      BY <1>5, <2>2 DEF Refresh
    <3>2. worker'[w].pc = AfterRefresh[worker[w].pc]
      BY <3>1 DEF WorkerType
    <3>3. worker'[w].pc \in {"decide", "review", "poll"} /\ worker[w].pc \notin Settling
      BY <1>5, <3>2 DEF Refresh, AfterRefresh, Settling
    <3>4. \A c \in Batches : SameBooks(c)
      BY <1>5, SameBooksUnchanged DEF Refresh
    <3> QED
      BY <3>3, <3>4 DEF KeepsBooks, Idles, Working, Settling
  <2> QED
    BY <2>1, <2>2
<1>6. CASE BeginAttempt(w)
  <2>1. CASE RowGone(w)
    BY <1>3, <1>6, <2>1 DEF BeginAttempt
  <2>2. CASE ~RowGone(w)
    <3> DEFINE n == batch[b].attempts + 1
    <3>1. /\ batch' = [batch EXCEPT ![b].attempts = n]
          /\ attempt' = [attempt EXCEPT ![b][n].state = "CHECKING_PRECONDITIONS"]
          /\ worker' = [worker EXCEPT ![w].pc = "check", ![w].at = n]
          /\ worker[w].pc = "decide"
      BY <1>6, <2>2 DEF BeginAttempt, At
    <3>2. b \in Batches
      BY <3>1 DEF WorkerType, Mine
    <3>3. batch[b] \in CounterRow
      BY <3>2 DEF BatchType
    <3>4. ~OutOfAttempts(w) /\ ~TargetReached(w)
      BY <1>6 DEF BeginAttempt, LoopVerdict
    <3>5. n \in Slots /\ batch[b].valid < Target
      BY <3>3, <3>4, BatchLimits DEF OutOfAttempts, TargetReached, CounterRow, Slots
    <3> HIDE DEF n
    <3>6. worker'[w].pc = "check" /\ worker'[w].at = n
      BY <3>1 DEF WorkerType
    <3>7. /\ batch'[b] = [batch[b] EXCEPT !.attempts = n]
          /\ \A c \in Batches : c # b => batch'[c] = batch[c]
      BY <3>1, <3>2 DEF BatchType
    <3>8. /\ batch'[b].attempts = n
          /\ batch'[b].valid = batch[b].valid
          /\ batch'[b].invalid = batch[b].invalid
          /\ batch'[b].failed = batch[b].failed
      BY <3>3, <3>7 DEF CounterRow
    <3>9. attempt[b] \in [Slots -> AttemptRow]
      BY <3>2 DEF AttemptType
    <3>10. /\ attempt'[b] = [attempt[b] EXCEPT
                              ![n] = [attempt[b][n] EXCEPT !.state = "CHECKING_PRECONDITIONS"]]
           /\ \A c \in Batches : c # b => attempt'[c] = attempt[c]
      BY <3>1, <3>2 DEF AttemptType
    <3>11. /\ attempt'[b][n] = [attempt[b][n] EXCEPT !.state = "CHECKING_PRECONDITIONS"]
           /\ \A j \in Slots : j # n => attempt'[b][j] = attempt[b][j]
      BY <3>5, <3>9, <3>10
    <3>12. Opened(b, n)
      BY <3>5, <3>7, <3>8, <3>10, <3>11
         DEF Opened, OnlyAt, SameBooks, SameAccounts, SameCounts, n
    <3> QED
      BY <3>1, <3>6, <3>12 DEF KeepsBooks, Opens, n
  <2> QED
    BY <2>1, <2>2
<1>7. CASE PreconditionsMet(w) \/ CreateRun(w) \/ LinkRun(w) \/ ExecuteRun(w)
  <2>1. worker[w].pc \in Working \ {"record"}
    BY <1>7 DEF PreconditionsMet, CreateRun, LinkRun, ExecuteRun, At, Working
  <2>2. attempt[b][i] \in RowAt[worker[w].pc] /\ attempt[b][i] \in AttemptRow
    BY <1>a, <2>1
  <2>3. CASE PreconditionsMet(w)
    <3>1. [attempt[b][i] EXCEPT !.state = "RUNNING"] \in RowAt["create"]
      BY <2>2, <2>3, RowAtDomain DEF PreconditionsMet, At
    <3> QED
      BY <2>1, <2>3, <3>1, AdvanceGoesOn DEF PreconditionsMet, Working, KeepsBooks
  <2>4. CASE CreateRun(w)
    <3>1. [attempt[b][i] EXCEPT !.run = "UNLINKED"] \in RowAt["link"]
      BY <2>2, <2>4, RowAtDomain DEF CreateRun, At
    <3> QED
      BY <2>1, <2>4, <3>1, AdvanceGoesOn DEF CreateRun, Working, KeepsBooks
  <2>5. CASE LinkRun(w)
    <3>1. [attempt[b][i] EXCEPT !.run = "LIVE"] \in RowAt["execute"]
      BY <2>2, <2>5, RowAtDomain DEF LinkRun, At
    <3> QED
      BY <2>1, <2>5, <3>1, AdvanceGoesOn DEF LinkRun, Working, KeepsBooks
  <2>6. CASE ExecuteRun(w)
    <3>1. PICK outcome \in FinishedRuns : SetAttempt(w, "run", outcome)
      BY <2>6 DEF ExecuteRun, FinishedRuns
    <3>2. [attempt[b][i] EXCEPT !.run = outcome] \in RowAt["record"]
      BY <2>2, <2>6, RowAtDomain DEF ExecuteRun, At
    <3> QED
      BY <2>1, <2>6, <3>1, <3>2, AdvanceGoesOn DEF ExecuteRun, Working, KeepsBooks
  <2> QED
    BY <1>7, <2>3, <2>4, <2>5, <2>6
<1>8. CASE PreconditionsNotMet(w)
  <2>1. CASE RowGone(w)
    BY <1>3, <1>8, <2>1 DEF PreconditionsNotMet
  <2>2. CASE ~RowGone(w)
    <3>1. /\ batch' = [batch EXCEPT ![b] = Tally(batch[b], "SKIPPED")]
          /\ SetAttempt(w, "state", "SKIPPED")
          /\ Go(w, "skipped") /\ worker[w].pc = "check"
      BY <1>8, <2>2 DEF PreconditionsNotMet, At
    <3>2. /\ Judged(b, i, "SKIPPED")
          /\ attempt'[b][i].run = attempt[b][i].run
      BY <3>1, TalliedIsJudged DEF Working, Verdicts
    <3>3. attempt[b][i].run \notin CompletedRuns
      BY <1>a, <3>1, RowAtDomain DEF Working, CompletedRuns
    <3> QED
      BY <3>1, <3>2, <3>3, HoldMoved DEF KeepsBooks, Judges, Working, Verdicts
  <2> QED
    BY <2>1, <2>2
<1>9. CASE PreconditionsCancelled(w)
  <2>1. SetAttempt(w, "state", "CANCELLED") /\ UNCHANGED batch
        /\ Go(w, "abandon") /\ worker[w].pc = "check"
    BY <1>9 DEF PreconditionsCancelled, At
  <2>2. /\ Judged(b, i, "CANCELLED")
        /\ attempt'[b][i].run = attempt[b][i].run
    BY <2>1, UntalliedIsJudged DEF Working
  <2>3. attempt[b][i].run \notin CompletedRuns
    BY <1>a, <2>1, RowAtDomain DEF Working, CompletedRuns
  <2> QED
    BY <2>1, <2>2, <2>3, HoldMoved DEF KeepsBooks, Judges, Working, Verdicts
<1>10. CASE RecordAttempt(w)
  <2> DEFINE verdict == VerdictOn(attempt[b][i].run)
  <2>1. CASE RowGone(w)
    BY <1>3, <1>10, <2>1 DEF RecordAttempt
  <2>2. CASE ~RowGone(w)
    <3>1. PICK known \in BOOLEAN :
            batch' = [batch EXCEPT ![b] = [Tally(@, verdict) EXCEPT !.nodeKnown = known]]
      BY <1>10, <2>2 DEF RecordAttempt
    <3>2. SetAttempt(w, "state", verdict) /\ Go(w, "finished") /\ worker[w].pc = "record"
      BY <1>10, <2>2 DEF RecordAttempt, At
    <3>3. verdict \in Verdicts
      BY VerdictType
    <3>4. b \in Batches /\ batch[b] \in CounterRow
      BY <1>a, <3>2 DEF Working
    <3> DEFINE tallied == Tally(batch[b], verdict)
               row == [tallied EXCEPT !.nodeKnown = known]
    <3>5. tallied \in CounterRow
      BY <3>4, TallyType
    <3>6. batch' = [batch EXCEPT ![b] = row]
      BY <3>1, <3>4
    <3>7. /\ row.attempts = tallied.attempts /\ row.valid = tallied.valid
          /\ row.invalid = tallied.invalid /\ row.failed = tallied.failed
      <4> HIDE DEF tallied
      <4> QED
        BY <3>5 DEF CounterRow
    <3>8. Judged(b, i, verdict) /\ attempt'[b][i].run = attempt[b][i].run
      <4>1. worker[w].pc \in Working
        BY <3>2 DEF Working
      <4> HIDE DEF row, verdict
      <4> QED
        BY <3>2, <3>3, <3>6, <3>7, <4>1, TalliedIsJudged DEF tallied
    <3>9. attempt[b][i].run \in CompletedRuns => verdict \in {"VALID", "INVALID"}
      BY DEF CompletedRuns, VerdictOn
    <3> HIDE DEF verdict
    <3> QED
      BY <3>2, <3>3, <3>8, <3>9, HoldMoved DEF KeepsBooks, Judges, Working
  <2> QED
    BY <2>1, <2>2
<1>11. CASE RecordDrift(w)
  <2>1. SetAttempt(w, "state", "INVALID") /\ UNCHANGED batch
        /\ Go(w, "drifted") /\ worker[w].pc = "record"
    BY <1>11 DEF RecordDrift, At
  <2>2. /\ Judged(b, i, "INVALID")
        /\ attempt'[b][i].run = attempt[b][i].run
    BY <2>1, UntalliedIsJudged DEF Working
  <2> QED
    BY <2>1, <2>2, HoldMoved DEF KeepsBooks, Judges, Working, Verdicts
<1>12. CASE HandleException(w)
  <2>1. CASE batch[b].state \in TerminalBatchStates \union {Deleted}
    <3>1. Go(w, "teardown") /\ UNCHANGED <<batch, attempt>> /\ worker[w].pc = "raised"
      BY <1>12, <2>1 DEF HandleException, At
    <3> QED
      BY <3>1, GoIdles DEF KeepsBooks, Working
  <2>2. CASE batch[b].state \notin TerminalBatchStates \union {Deleted}
    <3>1. /\ worker' = [worker EXCEPT ![w].pc = "fail", ![w].seen = batch[b].state]
          /\ UNCHANGED <<batch, attempt>> /\ worker[w].pc = "raised"
      BY <1>12, <2>2 DEF HandleException, At
    <3>2. worker'[w].pc = "fail"
      BY <3>1 DEF WorkerType
    <3>3. \A c \in Batches : SameBooks(c)
      BY <3>1, SameBooksUnchanged
    <3> QED
      BY <3>1, <3>2, <3>3 DEF KeepsBooks, Idles, Working
  <2> QED
    BY <2>1, <2>2
<1>13. CASE FailBatch(w)
  <2>1. Go(w, "teardown") /\ UNCHANGED attempt /\ worker[w].pc = "fail"
        /\ (UNCHANGED batch \/ SetState(b, "FAILED"))
    BY <1>13 DEF FailBatch, At
  <2>2. \A c \in Batches : batch'[c].state \in {batch[c].state, "FAILED"}
    BY <2>1 DEF SetState, BatchType, CounterRow
  <2> QED
    BY <2>1, <2>2, HoldMoved, SameBooksUnchanged DEF KeepsBooks, Idles, Working
<1>14. CASE Teardown(w)
  <2>1. worker' = [worker EXCEPT ![w] = NoWorker] /\ UNCHANGED <<batch, attempt>>
        /\ worker[w].pc = "teardown"
    BY <1>14 DEF Teardown, At
  <2>2. worker'[w].pc = "none"
    BY <2>1 DEF WorkerType, NoWorker
  <2>3. \A c \in Batches : SameBooks(c)
    BY <2>1, SameBooksUnchanged
  <2> QED
    BY <2>1, <2>2, <2>3 DEF KeepsBooks, Idles, Working, Settling
<1>15. CASE Raise(w)
  <2>1. Go(w, "raised") /\ UNCHANGED <<batch, attempt>>
        /\ worker[w].pc \in {"check", "create", "execute"}
    BY <1>15 DEF Raise
  <2> QED
    BY <2>1, GoIdles DEF KeepsBooks, Working
<1>16. CASE Decide(w) \/ Abandon(w) \/ PauseForDrift(w)
  BY <1>1, <1>16 DEF Decide, Abandon, PauseForDrift, Settling, At
<1>17. CASE AfterSkip(w) \/ Review(w) \/ Poll(w) \/ WakeUp(w)
  BY <1>1, <1>2, <1>17 DEF AfterSkip, Review, Poll, WakeUp, Settling, At, Working
<1> QED
  BY <1>4, <1>5, <1>6, <1>7, <1>8, <1>9, <1>10, <1>11, <1>12, <1>13, <1>14, <1>15,
     <1>16, <1>17 DEF WorkerStep

(* A handler, a request that begins, the environment and a crash leave the   *)
(* books alone; a claim takes a batch nobody works on.                       *)
QuietBooks ==
  /\ \A b \in Batches :
       /\ SameBooks(b)
       /\ batch'[b].state = batch[b].state \/ batch'[b].state \in HeldStates
  /\ \/ Crash
     \/ \A w \in Workers :
          \/ worker'[w] = worker[w]
          \/ /\ worker[w].pc = "none" /\ worker'[w].pc = "load"
             /\ \E t \in Threads : Claimed(t, worker'[w].batch)
  /\ \A t \in Threads, b \in Batches :
       Claimed(t, b)' => Claimed(t, b) \/ batch[b].state \in StartableStates
  /\ ~Up => UNCHANGED batch
  /\ unrecovered \subseteq unrecovered'

(* The request handlers never touch the books, and no attempt in hand. *)
LEMMA HandlerQuiet ==
  ASSUME TypeInv, HolderInv, NEW t \in Threads, HandlerStep(t)
  PROVE  QuietBooks
<1> DEFINE c == request[t].batch
<1>0. c \in Batches
  BY DEF HandlerStep, StartCheck, Claim, Register, PauseWrite, CancelEvent,
     CancelWrite, DeleteWrite, Pending, TypeInv, RequestType
<1>1. \A u \in Threads : u # t => request'[u] = request[u]
  BY DEF HandlerStep, StartCheck, Claim, Register, PauseWrite, CancelEvent,
     CancelWrite, DeleteWrite, Answer, Await, TypeInv, RequestType
<1>a. Up /\ UNCHANGED unrecovered
  BY DEF HandlerStep, StartCheck, Claim, Register, PauseWrite, CancelEvent,
     CancelWrite, DeleteWrite, Pending, HolderInv, DownIsQuiet
<1>2. CASE /\ UNCHANGED <<worker, attempt>>
           /\ request'[t].pc # "register"
           /\ \/ UNCHANGED batch
              \/ \E s \in HeldStates : SetState(c, s)
  <2>1. \A b \in Batches : SameBooks(b)
    BY <1>2, SameBooksUnchanged DEF TypeInv
  <2>2. \A b \in Batches : batch'[b].state = batch[b].state \/ batch'[b].state \in HeldStates
    BY <1>0, <1>2 DEF SetState, TypeInv, BatchType, CounterRow
  <2>3. \A u \in Threads, b \in Batches : Claimed(u, b)' => Claimed(u, b)
    BY <1>1, <1>2 DEF Claimed
  <2> QED
    BY <1>a, <1>2, <2>1, <2>2, <2>3 DEF QuietBooks
<1>3. CASE Claim(t) /\ ClaimMatches(t)
  <2>1. SetState(c, "RUNNING") /\ UNCHANGED <<worker, attempt>>
    BY <1>3 DEF Claim
  <2>2. batch[c].state \in StartableStates
    BY <1>3 DEF Claim, Pending, ClaimMatches, HolderInv, StartsSawStartable
  <2>3. request'[t].batch = c
    BY <1>3 DEF Claim, Await, NoRequest, TypeInv, RequestType
  <2>4. \A u \in Threads, b \in Batches : Claimed(u, b)' => Claimed(u, b) \/ b = c
    BY <1>1, <2>3 DEF Claimed
  <2>5. \A b \in Batches : SameBooks(b)
    BY <2>1, SameBooksUnchanged DEF TypeInv
  <2>6. \A b \in Batches : batch'[b].state = batch[b].state \/ batch'[b].state \in HeldStates
    BY <1>0, <2>1
       DEF SetState, TypeInv, BatchType, CounterRow, HeldStates,
           ActiveBatchStates
  <2> QED
    BY <1>a, <2>1, <2>2, <2>4, <2>5, <2>6 DEF QuietBooks
<1>4. CASE Register(t) /\ batch[c].state # Deleted
  <2>1. PICK w \in Workers :
          /\ worker[w].pc = "none"
          /\ worker' = [worker EXCEPT ![w].pc = "load", ![w].batch = c]
    BY <1>4 DEF Register, NoWorker
  <2>2. Claimed(t, c) /\ UNCHANGED <<batch, attempt>>
    BY <1>4 DEF Register, Pending, Claimed
  <2>3. /\ \A v \in Workers : v # w => worker'[v] = worker[v]
        /\ worker'[w].pc = "load" /\ worker'[w].batch = c
    BY <2>1 DEF TypeInv, WorkerType
  <2>4. request'[t].pc = "idle"
    BY <1>4 DEF Register, Answer, Await, NoRequest, TypeInv, RequestType
  <2>5. \A u \in Threads, b \in Batches : Claimed(u, b)' => Claimed(u, b)
    BY <1>1, <2>4 DEF Claimed
  <2>6. \A b \in Batches : SameBooks(b) /\ batch'[b].state = batch[b].state
    BY <2>2, SameBooksUnchanged DEF TypeInv
  <2>7. \A v \in Workers :
          \/ worker'[v] = worker[v]
          \/ /\ worker[v].pc = "none" /\ worker'[v].pc = "load"
             /\ \E u \in Threads : Claimed(u, worker'[v].batch)
    BY <2>1, <2>2, <2>3
  <2> QED
    BY <1>a, <2>5, <2>6, <2>7 DEF QuietBooks
<1>5. CASE \/ StartCheck(t) \/ CancelEvent(t)
           \/ Claim(t) /\ ~ClaimMatches(t)
           \/ Register(t) /\ batch[c].state = Deleted
  <2>1. UNCHANGED <<batch, attempt, worker>>
    BY <1>5 DEF StartCheck, Claim, Register, CancelEvent
  <2>2. request'[t].pc # "register"
    <3> DEFINE found == [request[t] EXCEPT !.pc = "cancel", !.event = registry[c]]
    <3>1. \/ Answer(t)
          \/ request' = [request EXCEPT ![t].pc = "claim"]
          \/ Await(t, found)
      BY <1>5 DEF StartCheck, Claim, Register, CancelEvent
    <3>2. found.pc = "cancel"
      BY DEF TypeInv, RequestType
    <3> HIDE DEF found
    <3> QED
      BY <3>1, <3>2 DEF Answer, Await, NoRequest, TypeInv, RequestType
  <2> QED
    BY <1>2, <2>1, <2>2
<1>6. CASE PauseWrite(t) \/ CancelWrite(t) \/ DeleteWrite(t)
  <2>1. Answer(t) /\ UNCHANGED <<attempt, worker>>
    BY <1>6 DEF PauseWrite, CancelWrite, DeleteWrite
  <2>2. request'[t].pc = "idle"
    BY <2>1 DEF Answer, Await, NoRequest, TypeInv, RequestType
  <2>3. \/ UNCHANGED batch
        \/ \E s \in {"PAUSE_REQUESTED", "CANCEL_REQUESTED", "CANCELLED", Deleted} :
             SetState(c, s) \/ WriteOver(c, request[t].seen, s)
    BY <1>6 DEF PauseWrite, CancelWrite, DeleteWrite
  <2>4. UNCHANGED batch \/ \E s \in HeldStates : SetState(c, s)
    BY <2>3, WriteOverIsSetState DEF TypeInv, HeldStates, ActiveBatchStates
  <2> QED
    BY <1>2, <2>1, <2>2, <2>4
<1> QED
  BY <1>3, <1>4, <1>5, <1>6 DEF HandlerStep

(* Neither does sending a request ... *)
LEMMA OperatorQuiet ==
  ASSUME TypeInv, NEW t \in Threads, NEW b \in Batches,
         StartRead(t, b) \/ PauseRead(t, b) \/ CancelRead(t, b) \/ DeleteRead(t, b)
  PROVE  QuietBooks
<1>1. UNCHANGED <<batch, attempt, worker, unrecovered>>
  BY DEF StartRead, PauseRead, CancelRead, DeleteRead
<1>2. \A u \in Threads : u # t => request'[u] = request[u]
  BY DEF StartRead, PauseRead, CancelRead, DeleteRead, Await, TypeInv, RequestType
<1> DEFINE row(step, s) == [NoRequest EXCEPT !.pc = step, !.batch = b, !.seen = s]
           kept(step) == [NoRequest EXCEPT !.pc = step, !.batch = b]
<1>3. PICK step \in {"check", "pause", "event", "delete"} :
        \E s : request' = [request EXCEPT ![t] = row(step, s)]
               \/ request' = [request EXCEPT ![t] = kept(step)]
  BY DEF StartRead, PauseRead, CancelRead, DeleteRead, Await
<1>4. \A s : row(step, s).pc = step /\ kept(step).pc = step
  BY DEF NoRequest
<1>5. request'[t].pc = step
  <2> HIDE DEF row, kept
  <2> QED
    BY <1>3, <1>4 DEF TypeInv, RequestType
<1>6. \A u \in Threads, c \in Batches : Claimed(u, c)' => Claimed(u, c)
  BY <1>2, <1>5 DEF Claimed
<1> QED
  BY <1>1, <1>6, SameBooksUnchanged DEF QuietBooks, TypeInv

(* ... nor the clock, a code update or a crash. *)
LEMMA EnvironmentQuiet ==
  ASSUME TypeInv, Environment \/ UNCHANGED vars
  PROVE  QuietBooks
<1>1. UNCHANGED <<batch, attempt>>
  BY DEF Environment, StartTimeComes, DeadlinePasses, CodeChanges, Crash, vars
<1>2. UNCHANGED <<worker, request, unrecovered>> \/ Crash
  BY DEF Environment, StartTimeComes, DeadlinePasses, CodeChanges, vars
<1> QED
  BY <1>1, <1>2, SameBooksUnchanged
  DEF QuietBooks, Crash, NoWorker, NoRequest, Claimed, TypeInv, OtherTypes

(* A commit of the state of any attempt touches nothing else. *)
LEMMA OneStateWritten ==
  ASSUME AttemptType, NEW b \in Batches, NEW i \in Slots, NEW s,
         attempt' = [attempt EXCEPT ![b][i].state = s]
  PROVE  /\ attempt'[b][i].state = s
         /\ attempt'[b][i].run = attempt[b][i].run
         /\ \A c \in Batches : c # b => attempt'[c] = attempt[c]
         /\ \A j \in Slots : j # i => attempt'[b][j] = attempt[b][j]
<1>1. attempt[b] \in [Slots -> AttemptRow] /\ attempt[b][i] \in AttemptRow
  BY DEF AttemptType
<1>2. attempt'[b] = [attempt[b] EXCEPT ![i] = [attempt[b][i] EXCEPT !.state = s]]
      /\ \A c \in Batches : c # b => attempt'[c] = attempt[c]
  BY DEF AttemptType
<1>3. attempt'[b][i] = [attempt[b][i] EXCEPT !.state = s]
      /\ \A j \in Slots : j # i => attempt'[b][j] = attempt[b][j]
  BY <1>1, <1>2
<1> QED
  BY <1>1, <1>2, <1>3 DEF AttemptRow

(* Recovery writes the state and the run of the newest attempt together. *)
LEMMA BothWritten ==
  ASSUME AttemptType, NEW b \in Batches, NEW i \in Slots, NEW s,
         attempt' = [attempt EXCEPT
                      ![b][i].state = s,
                      ![b][i].run = IF @ = "LIVE" THEN "INTERRUPTED" ELSE @]
  PROVE  /\ attempt'[b][i].state = s
         /\ attempt'[b][i].run =
              IF attempt[b][i].run = "LIVE" THEN "INTERRUPTED" ELSE attempt[b][i].run
         /\ \A c \in Batches : c # b => attempt'[c] = attempt[c]
         /\ \A j \in Slots : j # i => attempt'[b][j] = attempt[b][j]
<1> DEFINE judged == [attempt[b][i] EXCEPT !.state = s]
           end == IF attempt[b][i].run = "LIVE" THEN "INTERRUPTED" ELSE attempt[b][i].run
<1>1. attempt[b] \in [Slots -> AttemptRow] /\ attempt[b][i] \in AttemptRow
  BY DEF AttemptType
<1>2. judged.run = attempt[b][i].run /\ judged.state = s
  BY <1>1 DEF AttemptRow
<1>3. attempt' = [attempt EXCEPT
                   ![b] = [attempt[b] EXCEPT ![i] = [judged EXCEPT !.run = end]]]
  BY <1>1, <1>2 DEF AttemptType
<1>4. attempt'[b] = [attempt[b] EXCEPT ![i] = [judged EXCEPT !.run = end]]
      /\ \A c \in Batches : c # b => attempt'[c] = attempt[c]
  BY <1>3 DEF AttemptType
<1>5. attempt'[b][i] = [judged EXCEPT !.run = end]
      /\ \A j \in Slots : j # i => attempt'[b][j] = attempt[b][j]
  <2> DEFINE row == [judged EXCEPT !.run = end]
  <2>1. attempt'[b] = [attempt[b] EXCEPT ![i] = row]
    BY <1>4
  <2> HIDE DEF row
  <2>2. attempt'[b][i] = row /\ \A j \in Slots : j # i => attempt'[b][j] = attempt[b][j]
    BY <1>1, <2>1
  <2> QED
    BY <2>2 DEF row
<1>6. [judged EXCEPT !.run = end].state = s /\ [judged EXCEPT !.run = end].run = end
  BY <1>1 DEF AttemptRow
<1> QED
  BY <1>4, <1>5, <1>6

(* The recovery: it leaves the books of a batch alone, or it judges the      *)
(* attempt in progress, which is the only one it could find.                 *)
Keeps(b) ==
  /\ \A c \in Batches : SameBooks(c)
  /\ \/ batch'[b].state = batch[b].state /\ batch[b].state \notin ActiveBatchStates
     \/ Live(b) = {}

Settles(b, i) ==
  LET run == attempt[b][i].run IN
  /\ Live(b) \subseteq {i}
  /\ attempt'[b][i].run \in CompletedRuns => attempt'[b][i].run = run
  /\ \E verdict \in Verdicts :
       /\ Judged(b, i, verdict)
       /\ run \in CompletedRuns =>
            verdict \in {"VALID", "INVALID"} \/ batch'[b].state = "CANCELLED"

(* The attempt recovery looks at is the only one that can still be open. *)
LEMMA NewestIsLast ==
  ASSUME TypeInv, NEW b \in Batches, Numbered(b), LiveIsLast(b),
         NEW i \in Live(b)
  PROVE  i \in ActiveAttempts(b) /\ Newest(ActiveAttempts(b)) = i
<1>1. i \in ActiveAttempts(b)
  BY DEF Live, ActiveAttempts
<1>2. i = batch[b].attempts
  BY DEF LiveIsLast
<1>3. \A j \in ActiveAttempts(b) : j <= i
  BY <1>2 DEF Numbered, ActiveAttempts, ActiveAttemptStates, NoAttempt, NoAttemptRow
<1>4. Newest(ActiveAttempts(b)) \in ActiveAttempts(b)
      /\ \A j \in ActiveAttempts(b) : j <= Newest(ActiveAttempts(b))
  BY <1>1, <1>3 DEF Newest
<1>5. ActiveAttempts(b) \subseteq Int
  BY DEF ActiveAttempts, Slots
<1> QED
  BY <1>1, <1>3, <1>4, <1>5

(* Recovery judges the open attempt of a batch, if there is one. *)
LEMMA RecoverBooks ==
  ASSUME TypeInv, BooksInv, NEW b \in Batches, Recover(b)
  PROVE  /\ Keeps(b) \/ \E i \in Slots : Settles(b, i)
         /\ \A c \in Batches : c # b => batch'[c].state = batch[c].state
<1> USE DEF TypeInv
<1> DEFINE n == Newest(ActiveAttempts(b))
<1>0. /\ Numbered(b) /\ LiveIsLast(b)
      /\ batch[b] \in CounterRow
      /\ attempt[b] \in [Slots -> AttemptRow]
  BY DEF BooksInv, BatchType, AttemptType
<1>1. Live(b) \subseteq {n}
  BY <1>0, NewestIsLast
<1>2. ActiveAttempts(b) # {} =>
        n \in Slots /\ attempt[b][n].state \in ActiveAttemptStates
  BY NewestIsActive DEF ActiveAttempts
<1>3. \A c \in Batches : c # b => batch'[c] = batch[c]
  BY DEF Recover, RecoverNothing, RecoverCancelled, RecoverPaused, SetState,
     BatchType
<1>4. CASE RecoverNothing(b)
  <2>1. batch'[b].state = batch[b].state /\ batch[b].state \notin ActiveBatchStates
    BY <1>4 DEF RecoverNothing, TerminalBatchStates, ActiveBatchStates, Deleted
  <2> QED
    BY <1>3, <1>4, <2>1, SameBooksUnchanged DEF RecoverNothing, Keeps
<1>5. CASE RecoverCancelled(b)
  <2>1. SetState(b, "CANCELLED")
    BY <1>5 DEF RecoverCancelled
  <2>2. batch'[b].state = "CANCELLED" /\ \A c \in Batches : SameAccounts(c)
    BY <2>1 DEF SetState, BatchType, CounterRow, SameAccounts, SameCounts
  <2>3. CASE ActiveAttempts(b) = {}
    <3>1. UNCHANGED attempt
      BY <1>5, <2>3 DEF RecoverCancelled
    <3>2. Live(b) = {}
      BY <2>3 DEF Live, ActiveAttempts
    <3> QED
      BY <1>3, <2>2, <3>1, <3>2 DEF Keeps, SameBooks
  <2>4. CASE ActiveAttempts(b) # {}
    <3>1. attempt' = [attempt EXCEPT ![b][n].state = "CANCELLED"]
      BY <1>5, <2>4 DEF RecoverCancelled
    <3>2. /\ attempt'[b][n].state = "CANCELLED"
          /\ attempt'[b][n].run = attempt[b][n].run
          /\ \A c \in Batches : c # b => attempt'[c] = attempt[c]
          /\ \A j \in Slots : j # n => attempt'[b][j] = attempt[b][j]
      BY <1>0, <1>2, <2>4, <3>1, OneStateWritten
    <3>3. Judged(b, n, "CANCELLED")
      <4>1. batch[b].invalid \in Nat /\ batch[b].valid \in Nat /\ batch[b].failed \in Nat
        BY <1>0 DEF CounterRow
      <4> QED
        BY <1>2, <2>2, <2>4, <3>2, <4>1
           DEF Judged, OnlyAt, SameBooks, SameAccounts, SameCounts, Verdicts
    <3> QED
      BY <1>1, <1>2, <1>3, <2>2, <2>4, <3>2, <3>3 DEF Settles, Judged
  <2> QED
    BY <2>3, <2>4
<1>6. CASE RecoverPaused(b)
  <2> DEFINE run == attempt[b][n].run
             settled == ActiveAttempts(b) # {} /\ run \in LinkedRuns
             verdict == IF run \in CompletedRuns THEN VerdictOn(run) ELSE "FAILED"
             tallied == IF settled THEN Tally(batch[b], verdict) ELSE batch[b]
  <2>1. batch' = [batch EXCEPT ![b] = [tallied EXCEPT !.state = "PAUSED"]]
    BY <1>6 DEF RecoverPaused
  <2>2. tallied \in CounterRow
    BY <1>0, TallyType
  <2>3. /\ batch'[b].attempts = tallied.attempts /\ batch'[b].valid = tallied.valid
        /\ batch'[b].invalid = tallied.invalid /\ batch'[b].failed = tallied.failed
    <3> HIDE DEF tallied
    <3> QED
      BY <2>1, <2>2 DEF BatchType, CounterRow
  <2>4. CASE ~settled
    <3>1. UNCHANGED attempt
      BY <1>6, <2>4 DEF RecoverPaused
    <3>2. Live(b) = {}
      BY <1>0, <2>4, NewestIsLast DEF Live
    <3> QED
      BY <1>3, <2>3, <2>4, <3>1, <3>2 DEF Keeps, SameBooks, SameAccounts, SameCounts
  <2>5. CASE settled
    <3>1. attempt' = [attempt EXCEPT
                       ![b][n].state = verdict,
                       ![b][n].run = IF @ = "LIVE" THEN "INTERRUPTED" ELSE @]
      BY <1>6, <2>5 DEF RecoverPaused
    <3>2. verdict \in Verdicts
      BY VerdictType DEF Verdicts
    <3>3. /\ attempt'[b][n].state = verdict
          /\ attempt'[b][n].run = IF run = "LIVE" THEN "INTERRUPTED" ELSE run
          /\ \A c \in Batches : c # b => attempt'[c] = attempt[c]
          /\ \A j \in Slots : j # n => attempt'[b][j] = attempt[b][j]
      <4> HIDE DEF verdict
      <4> QED
        BY <1>2, <2>5, <3>1, BothWritten
    <3>4. n \in Live(b)
      BY <1>2, <2>5 DEF Live
    <3>5. batch[b].valid < Target
      BY <1>0, <3>4 DEF LiveIsLast
    <3>6. Judged(b, n, verdict)
      <4>1. /\ tallied.attempts = batch[b].attempts
            /\ tallied.valid = batch[b].valid + (IF verdict = "VALID" THEN 1 ELSE 0)
            /\ tallied.failed =
                 batch[b].failed + (IF verdict \in {"FAILED", "SKIPPED"} THEN 1 ELSE 0)
            /\ tallied.invalid = batch[b].invalid + (IF verdict = "INVALID" THEN 1 ELSE 0)
        <5> HIDE DEF verdict
        <5> QED
          BY <1>0, <2>5, <3>2, TallyCounts
      <4>2. OnlyAt(b, n)
        BY <1>3, <3>3 DEF OnlyAt, SameBooks, SameAccounts, SameCounts
      <4>3. tallied.invalid <= batch[b].invalid + (IF verdict = "INVALID" THEN 1 ELSE 0)
        <5>1. batch[b].invalid \in Nat
          BY <1>0 DEF CounterRow
        <5> HIDE DEF verdict, tallied
        <5> QED
          BY <4>1, <5>1
      <4> HIDE DEF tallied, verdict
      <4> QED
        BY <1>2, <2>3, <2>5, <3>2, <3>3, <3>5, <4>1, <4>2, <4>3 DEF Judged
    <3>7. run \in CompletedRuns => verdict \in {"VALID", "INVALID"}
      BY DEF CompletedRuns, VerdictOn
    <3>8. attempt'[b][n].run \in CompletedRuns => attempt'[b][n].run = run
      BY <3>3 DEF CompletedRuns
    <3>9. Settles(b, n)
      <4> HIDE DEF verdict
      <4> QED
        BY <1>1, <3>2, <3>6, <3>7, <3>8 DEF Settles
    <3> QED
      BY <1>2, <1>3, <2>5, <3>9
  <2> QED
    BY <2>4, <2>5
<1> QED
  BY <1>4, <1>5, <1>6 DEF Recover

(* Every step is one of these. *)
LEMMA StepKinds ==
  ASSUME TypeInv, HolderInv, BooksInv, [Next]_vars
  PROVE  \/ QuietBooks
         \/ \E w \in Workers : KeepsBooks(w) /\ KeepsHold(w)
         \/ \E b \in Batches : Recover(b)
<1>1. CASE \E c \in Clients : Operator(c)
  BY <1>1, OperatorQuiet DEF Operator, Threads
<1>2. CASE SchedulerTick
  BY <1>2, OperatorQuiet DEF SchedulerTick, Threads, TypeInv, OtherTypes
<1>3. CASE \E t \in Threads : HandlerStep(t)
  BY <1>3, HandlerQuiet
<1>4. CASE \E w \in Workers : WorkerStep(w) \/ WakeUp(w) \/ Raise(w)
  BY <1>4, WorkerBooks, WorkerStepKeepsHold DEF BooksInv
<1>5. CASE Environment \/ UNCHANGED vars
  BY <1>5, EnvironmentQuiet
<1> QED
  BY <1>1, <1>2, <1>3, <1>4, <1>5 DEF Next

(* One attempt's row, and its batch's counters, is all a step writes. *)
LEMMA StepsKeepBooks ==
  ASSUME TypeInv, BooksInv
  PROVE  /\ QuietBooks => BooksStep
         /\ \A w \in Workers : KeepsBooks(w) => BooksStep
         /\ \A b \in Batches : Recover(b) => BooksStep
<1>1. QuietBooks => BooksStep
  BY DEF QuietBooks, BooksStep
<1>2. ASSUME NEW w \in Workers, KeepsBooks(w) PROVE BooksStep
  <2>1. CASE Idles(w)
    BY <2>1 DEF Idles, BooksStep
  <2>2. CASE ~Idles(w)
    <3>1. worker[w].pc # "none"
      BY <1>2, <2>2 DEF KeepsBooks, Opens, GoesOn, Judges, Working
    <3>2. Mine(w) \in Batches
      BY <3>1 DEF TypeInv, WorkerType, Mine
    <3> QED
      BY <1>2, <2>2, <3>2 DEF KeepsBooks, Opens, GoesOn, Judges, BooksStep, Opened,
                              Rewritten, Judged
  <2> QED
    BY <2>1, <2>2
<1>3. ASSUME NEW b \in Batches, Recover(b) PROVE BooksStep
  BY <1>3, RecoverBooks DEF Keeps, Settles, BooksStep
<1> QED
  BY <1>1, <1>2, <1>3

(* What a step does to one batch. *)
LEMMA BooksOfOne ==
  ASSUME BooksStep, NEW b \in Batches
  PROVE  \/ SameBooks(b)
         \/ \E i \in Slots : \/ Opened(b, i) \/ Rewritten(b, i)
                            \/ \E verdict \in Verdicts : Judged(b, i, verdict)
<1>1. CASE \A c \in Batches : SameBooks(c)
  BY <1>1
<1>2. CASE ~\A c \in Batches : SameBooks(c)
  <2>1. PICK c \in Batches, i \in Slots :
          \/ Opened(c, i) \/ Rewritten(c, i)
          \/ \E verdict \in Verdicts : Judged(c, i, verdict)
    BY <1>2 DEF BooksStep
  <2>2. OnlyAt(c, i)
    BY <2>1 DEF Opened, Rewritten, Judged
  <2>3. c # b => SameBooks(b)
    BY <2>2 DEF OnlyAt
  <2> QED
    BY <2>1, <2>3
<1> QED
  BY <1>1, <1>2

(* Attempts stay numbered without a gap. *)
LEMMA NumberedKept ==
  ASSUME TypeInv, BooksInv, BooksStep, NEW b \in Batches
  PROVE  Numbered(b)'
<1>1. Numbered(b)
  BY DEF BooksInv
<1>2. CASE SameBooks(b)
  BY <1>1, <1>2 DEF Numbered, SameBooks, SameAccounts, SameCounts
<1>3. CASE \E i \in Slots : Opened(b, i)
  <2>1. PICK i \in Slots : Opened(b, i)
    BY <1>3
  <2>2. attempt'[b][i].state # NoAttempt
    <3>1. attempt[b][i] \in AttemptRow
      BY DEF TypeInv, AttemptType
    <3> QED
      BY <2>1, <3>1 DEF Opened, AttemptRow, NoAttempt
  <2>3. batch'[b].attempts = i /\ batch[b].attempts = i - 1 /\ i \in Int
    BY <2>1 DEF Opened, TypeInv, BatchType, CounterRow, Slots
  <2>4. ASSUME NEW j \in Slots, j # i
        PROVE  attempt'[b][j] = attempt[b][j] /\ (j <= i <=> j <= i - 1)
    BY <2>1, <2>3, <2>4 DEF Opened, OnlyAt, Slots
  <2> QED
    BY <1>1, <2>2, <2>3, <2>4 DEF Numbered
<1>4. CASE \E i \in Slots : Rewritten(b, i) \/ \E verdict \in Verdicts : Judged(b, i, verdict)
  <2>1. PICK i \in Slots :
          /\ attempt[b][i].state \in ActiveAttemptStates
          /\ attempt'[b][i].state \in ActiveAttemptStates \union Verdicts
          /\ OnlyAt(b, i)
          /\ batch'[b].attempts = batch[b].attempts
    BY <1>4 DEF Rewritten, Judged, SameAccounts, SameCounts
  <2>2. attempt[b][i] # NoAttemptRow
    BY <2>1 DEF NoAttemptRow, ActiveAttemptStates, NoAttempt
  <2>3. attempt'[b][i].state # NoAttempt
    BY <2>1 DEF ActiveAttemptStates, Verdicts, NoAttempt
  <2>4. i <= batch[b].attempts
    BY <1>1, <2>2 DEF Numbered
  <2> QED
    BY <1>1, <2>1, <2>3, <2>4 DEF Numbered, OnlyAt
<1>5. SameBooks(b) \/ \E i \in Slots : \/ Opened(b, i) \/ Rewritten(b, i)
                                       \/ \E verdict \in Verdicts : Judged(b, i, verdict)
  BY BooksOfOne
<1> QED
  BY <1>2, <1>3, <1>4, <1>5

(* A batch whose books stay keeps what concerns its live attempt. *)
LEMMA LiveKept ==
  ASSUME TypeInv, BooksInv, NEW b \in Batches, SameBooks(b),
         Live(b) # {} => /\ batch'[b].state \notin StartableStates
                         /\ \A t \in Threads : ~Claimed(t, b)'
                         /\ \A w \in Workers :
                              Holds(w, b)' => worker'[w].pc \in Settling
  PROVE  LiveIsLast(b)'
<1>1. Live(b)' = Live(b)
  BY DEF Live, SameBooks
<1>2. LiveIsLast(b)
  BY DEF BooksInv
<1> QED
  BY <1>1, <1>2 DEF LiveIsLast, SameBooks, SameAccounts, SameCounts

(* The books stay in order over a step that writes none of them ... *)
LEMMA QuietKeepsBooksInv ==
  ASSUME TypeInv, HolderInv, BooksInv, QuietBooks
  PROVE  BooksInv'
<1>1. ASSUME NEW w \in Workers PROVE AtHand(w)'
  <2>1. CASE worker'[w].pc \in Working
    <3>1. worker'[w] = worker[w]
      BY <2>1 DEF QuietBooks, Working, Crash, NoWorker
    <3>2. worker[w].batch \in Batches
      BY <2>1, <3>1 DEF TypeInv, WorkerType, Working
    <3>3. AtHand(w) /\ SameBooks(worker[w].batch)
      BY <3>2 DEF BooksInv, QuietBooks
    <3> QED
      BY <3>1, <3>3 DEF AtHand, SameBooks, SameAccounts, SameCounts
  <2> QED
    BY <2>1 DEF AtHand
<1>2. \A b \in Batches : Numbered(b)'
  BY NumberedKept, StepsKeepBooks
<1>3. ASSUME NEW b \in Batches PROVE batch'[b].valid <= Target /\ LiveIsLast(b)'
  <2>1. SameBooks(b) /\ batch[b].valid <= Target /\ LiveIsLast(b)
    BY DEF BooksInv, QuietBooks
  <2>2. CASE Live(b) # {}
    <3>1. /\ batch[b].state \notin StartableStates
          /\ \A t \in Threads : ~Claimed(t, b)
          /\ \A w \in Workers : Holds(w, b) => worker[w].pc \in Settling
      BY <2>1, <2>2 DEF LiveIsLast
    <3>2. batch'[b].state \notin StartableStates
      BY <3>1, HeldAreNotStartable DEF QuietBooks
    <3>3. \A t \in Threads : ~Claimed(t, b)'
      BY <3>1 DEF QuietBooks
    <3>4. \A w \in Workers : Holds(w, b)' => worker'[w].pc \in Settling
      BY <3>1 DEF QuietBooks, Holds, Running, Crash, NoWorker
    <3> QED
      BY <2>1, <3>2, <3>3, <3>4, LiveKept DEF SameBooks, SameAccounts, SameCounts
  <2>3. CASE Live(b) = {}
    BY <2>1, <2>3, LiveKept DEF SameBooks, SameAccounts, SameCounts
  <2> QED
    BY <2>2, <2>3
<1> QED
  BY <1>1, <1>2, <1>3 DEF BooksInv

(* ... over the recovery of a batch ... *)
LEMMA RecoverKeepsBooksInv ==
  ASSUME TypeInv, HolderInv, BooksInv, NEW b \in Batches, Recover(b)
  PROVE  BooksInv'
<1>1. /\ \A w \in Workers : worker'[w].pc = "none"
      /\ \A t \in Threads : request'[t].pc = "idle"
  BY DEF Recover, RecoverNothing, RecoverCancelled, RecoverPaused, Up,
     HolderInv, DownIsQuiet
<1>2. \A w \in Workers : AtHand(w)'
  BY <1>1 DEF AtHand, Working
<1>3. \A c \in Batches : Numbered(c)'
  BY NumberedKept, StepsKeepBooks
<1>4. /\ Keeps(b) \/ \E i \in Slots : Settles(b, i)
      /\ \A c \in Batches : c # b => batch'[c].state = batch[c].state
  BY RecoverBooks
<1>5. ASSUME NEW c \in Batches, SameBooks(c),
             batch'[c].state = batch[c].state \/ Live(c) = {}
      PROVE  batch'[c].valid <= Target /\ LiveIsLast(c)'
  <2>1. LiveIsLast(c) /\ batch[c].valid <= Target
    BY DEF BooksInv
  <2>2. \A t \in Threads : ~Claimed(t, c)'
    BY <1>1 DEF Claimed
  <2>3. \A w \in Workers : ~Holds(w, c)'
    BY <1>1 DEF Holds, Running
  <2>4. Live(c) # {} => batch'[c].state \notin StartableStates
    BY <1>5, <2>1 DEF LiveIsLast
  <2> QED
    BY <1>5, <2>1, <2>2, <2>3, <2>4, LiveKept
       DEF SameBooks, SameAccounts, SameCounts
<1>6. CASE Keeps(b)
  BY <1>2, <1>3, <1>4, <1>5, <1>6 DEF Keeps, BooksInv
<1>7. CASE \E i \in Slots : Settles(b, i)
  <2>1. PICK i \in Slots, verdict \in Verdicts :
          Live(b) \subseteq {i} /\ Judged(b, i, verdict)
    BY <1>7 DEF Settles
  <2>2. Live(b)' = {}
    BY <2>1 DEF Live, Judged, OnlyAt, Verdicts, ActiveAttemptStates
  <2>3. batch'[b].valid <= Target
    <3>1. batch[b].valid <= Target /\ batch[b].valid \in Nat
      BY DEF BooksInv, TypeInv, BatchType, CounterRow
    <3> QED
      BY <2>1, <3>1, BatchLimits DEF Judged
  <2>4. \A c \in Batches : c # b => SameBooks(c)
    BY <2>1 DEF Judged, OnlyAt
  <2> QED
    BY <1>2, <1>3, <1>4, <1>5, <2>2, <2>3, <2>4 DEF BooksInv, LiveIsLast
<1> QED
  BY <1>4, <1>6, <1>7

(* A worker writes to the books of the batch it holds, if at all. *)
LEMMA WorkerWritesItsBatch ==
  ASSUME TypeInv, NEW w \in Workers, KeepsBooks(w), ~Idles(w)
  PROVE  /\ Mine(w) \in Batches /\ Holds(w, Mine(w))
         /\ \E i \in Slots : OnlyAt(Mine(w), i)
         /\ \A b \in Batches : b # Mine(w) => SameBooks(b)
<1>1. /\ Running(w) /\ worker[w].pc # "none"
      /\ \E i \in Slots : OnlyAt(Mine(w), i)
  BY DEF KeepsBooks, Opens, GoesOn, Judges, Opened, Rewritten, Judged, Working,
     Running
<1> QED
  BY <1>1 DEF OnlyAt, TypeInv, WorkerType, Mine, Holds

(* ... and over a worker's step, for what every worker has at hand ... *)
LEMMA WorkerKeepsHands ==
  ASSUME TypeInv, HolderInv, BooksInv, NEW w \in Workers, KeepsBooks(w), KeepsHold(w),
         NEW v \in Workers
  PROVE  AtHand(v)'
<1>0. AtHand(v) /\ AtHand(w)
  BY DEF BooksInv
<1>1. CASE v # w /\ worker'[v].pc \in Working
  <2>1. worker'[v] = worker[v]
    BY <1>1 DEF KeepsHold
  <2>2. Holds(v, Mine(v)) /\ Mine(v) \in Batches
    BY <1>1, <2>1 DEF Holds, Running, Mine, Working, TypeInv, WorkerType
  <2>3. SameBooks(Mine(v))
    <3>1. CASE Idles(w)
      BY <2>2, <3>1 DEF Idles
    <3>2. CASE ~Idles(w)
      <4>1. Mine(v) # Mine(w)
        BY <1>1, <2>2, <3>2, WorkerWritesItsBatch DEF HolderInv, OneHolder
      <4> QED
        BY <2>2, <3>2, <4>1, WorkerWritesItsBatch
    <3> QED
      BY <3>1, <3>2
  <2> QED
    BY <1>0, <1>1, <2>1, <2>3 DEF AtHand, SameBooks, SameAccounts, SameCounts, Mine
<1>2. CASE v = w /\ worker'[w].pc \in Working
  <2>1. Mine(w) \in Batches /\ worker'[w].batch = Mine(w)
    <3>1. Running(w) /\ worker'[w].batch = worker[w].batch
      BY <1>2 DEF KeepsHold, Working
    <3> QED
      BY <3>1 DEF Running, TypeInv, WorkerType, Mine
  <2>2. CASE Opens(w)
    <3> DEFINE b == Mine(w)
               i == worker'[w].at
    <3>1. Opened(b, i) /\ worker'[w].pc = "check"
      BY <2>2 DEF Opens
    <3>2. attempt[b][i] = NoAttemptRow
      <4>1. ~(i <= batch[b].attempts)
        BY <2>1, <3>1 DEF Opened, TypeInv, BatchType, CounterRow
      <4> QED
        BY <2>1, <3>1, <4>1 DEF Opened, BooksInv, Numbered
    <3>3. attempt'[b][i] \in RowAt["check"]
      BY <3>1, <3>2, RowAtDomain DEF Opened, NoAttemptRow
    <3> QED
      BY <1>2, <2>1, <3>1, <3>3 DEF AtHand, Opened, SameCounts
  <2>3. CASE GoesOn(w)
    <3> DEFINE b == Mine(w)
               i == worker[w].at
    <3>1. /\ Rewritten(b, i) /\ worker'[w].at = i
          /\ worker[w].pc \in Working
          /\ attempt'[b][i] \in RowAt[worker'[w].pc]
      BY <2>3 DEF GoesOn
    <3>2. i = batch[b].attempts /\ batch[b].valid < Target
      BY <1>0, <3>1 DEF AtHand, Mine
    <3> QED
      BY <1>2, <2>1, <3>1, <3>2 DEF AtHand, Rewritten, SameAccounts, SameCounts
  <2> QED
    BY <1>2, <2>2, <2>3 DEF KeepsBooks, Idles, Judges
<1> QED
  BY <1>1, <1>2 DEF AtHand

(* The attempt a worker goes on with may become the live one; when it is     *)
(* judged, or another is opened, there is none.                              *)
LEMMA WorkerKeepsLive ==
  ASSUME TypeInv, HolderInv, HolderInv', BooksInv, NEW w \in Workers, AtHand(w)',
         KeepsBooks(w), KeepsHold(w), NEW b \in Batches
  PROVE  LiveIsLast(b)'
<1>0. LiveIsLast(b) /\ AtHand(w)
  BY DEF BooksInv
<1>1. UNCHANGED request /\ \A t \in Threads : Claimed(t, b)' <=> Claimed(t, b)
  BY DEF KeepsHold, Claimed
<1>2. \A v \in Workers : Holds(v, b)' => Holds(v, b)
  BY DEF KeepsHold, Holds, Running
<1>3. CASE Idles(w)
  <2>1. CASE Live(b) # {}
    <3>1. /\ batch[b].state \notin StartableStates
          /\ \A t \in Threads : ~Claimed(t, b)
          /\ \A v \in Workers : Holds(v, b) => worker[v].pc \in Settling
      BY <1>0, <2>1 DEF LiveIsLast
    <3>2. CASE Holds(w, b)
      <4>1. /\ worker'[w].pc \in {"raised", "fail", "teardown"}
            /\ batch'[b].state \in {batch[b].state, "FAILED"}
        BY <1>3, <3>1, <3>2 DEF Idles
      <4>2. \A v \in Workers : Holds(v, b)' => worker'[v].pc \in Settling
        BY <1>2, <3>1, <4>1 DEF KeepsHold, Holds, Running, Settling
      <4>3. batch'[b].state \notin StartableStates
        BY <3>1, <4>1 DEF StartableStates
      <4> QED
        BY <1>1, <1>3, <3>1, <4>2, <4>3, LiveKept DEF Idles
    <3>3. CASE ~Holds(w, b)
      <4>1. batch'[b].state = batch[b].state
        BY <3>3 DEF KeepsHold
      <4>2. \A v \in Workers : Holds(v, b)' => worker'[v].pc \in Settling
        BY <1>2, <3>1, <3>3 DEF KeepsHold
      <4> QED
        BY <1>1, <1>3, <3>1, <4>1, <4>2, LiveKept DEF Idles
    <3> QED
      BY <3>2, <3>3
  <2>2. CASE Live(b) = {}
    BY <1>3, <2>2, LiveKept DEF Idles
  <2> QED
    BY <2>1, <2>2
<1>4. CASE ~Idles(w) /\ b # Mine(w)
  <2>1. SameBooks(b) /\ batch'[b].state = batch[b].state
    BY <1>4, WorkerWritesItsBatch DEF KeepsHold, Holds, Mine
  <2>2. \A v \in Workers : Holds(v, b)' => worker'[v] = worker[v]
    BY <1>2, <1>4 DEF KeepsHold, Holds, Mine
  <2>3. Live(b) # {} => /\ batch'[b].state \notin StartableStates
                        /\ \A t \in Threads : ~Claimed(t, b)'
                        /\ \A v \in Workers : Holds(v, b)' => worker'[v].pc \in Settling
    BY <1>0, <1>1, <1>2, <2>1, <2>2 DEF LiveIsLast
  <2> QED
    BY <2>1, <2>3, LiveKept
<1>5. CASE Opens(w) /\ b = Mine(w)
  <2>1. Holds(w, b) /\ worker[w].pc \notin Settling /\ Opened(b, worker'[w].at)
    BY <1>5 DEF Opens, Holds, Running, Settling, Mine
  <2>2. Live(b) = {}
    BY <1>0, <2>1 DEF LiveIsLast
  <2>3. attempt'[b][worker'[w].at].run \notin LinkedRuns
    <3> DEFINE i == worker'[w].at
    <3>1. i \in Slots /\ ~(i <= batch[b].attempts)
      BY <2>1 DEF Opened, TypeInv, BatchType, CounterRow
    <3>2. attempt[b][i] = NoAttemptRow
      BY <3>1 DEF BooksInv, Numbered
    <3> QED
      BY <2>1, <3>2 DEF Opened, NoAttemptRow, LinkedRuns
  <2>4. Live(b)' = {}
    BY <2>1, <2>2, <2>3 DEF Live, Opened, OnlyAt
  <2> QED
    BY <2>4 DEF LiveIsLast
<1>6. CASE Judges(w) /\ b = Mine(w)
  <2> DEFINE i == worker[w].at
  <2>1. PICK verdict \in Verdicts : Judged(b, i, verdict)
    BY <1>6 DEF Judges
  <2>2. i = batch[b].attempts
    BY <1>0, <1>6 DEF Judges, AtHand, Mine
  <2>3. Live(b) \subseteq {i}
    BY <1>0, <2>2 DEF LiveIsLast
  <2>4. Live(b)' = {}
    BY <2>1, <2>3 DEF Live, Judged, OnlyAt, Verdicts, ActiveAttemptStates
  <2> QED
    BY <2>4 DEF LiveIsLast
<1>7. CASE GoesOn(w) /\ b = Mine(w)
  <2> DEFINE i == worker[w].at
  <2>1. /\ Rewritten(b, i) /\ worker'[w].at = i
        /\ worker[w].pc \in Working /\ worker'[w].pc \in Working
    BY <1>7 DEF GoesOn
  <2>2. worker'[w].batch = b /\ Holds(w, b)'
    BY <1>7, <2>1 DEF KeepsHold, Working, Mine, Holds, Running
  <2>3. /\ i = batch'[b].attempts /\ batch'[b].valid < Target
        /\ attempt'[b][i] \in RowAt[worker'[w].pc]
    BY <2>1, <2>2 DEF AtHand
  <2>4. i = batch[b].attempts
    BY <2>1, <2>3 DEF Rewritten, SameAccounts, SameCounts
  <2>5. Live(b)' \subseteq {i}
    BY <1>0, <2>1, <2>4 DEF LiveIsLast, Live, Rewritten, OnlyAt
  <2>6. batch'[b].state \notin StartableStates
    BY <2>2, HeldAreNotStartable DEF HolderInv, HeldIsActive
  <2>7. \A t \in Threads : ~Claimed(t, b)'
    BY <2>2 DEF HolderInv, OneHolder
  <2>8. \A v \in Workers : Holds(v, b)' => v = w
    BY <2>2 DEF HolderInv, OneHolder
  <2>9. attempt'[b][i].run \in LinkedRuns => worker'[w].pc \in Settling
    BY <2>1, <2>3, RowAtDomain DEF Working, LinkedRuns, Settling
  <2> QED
    BY <2>3, <2>5, <2>6, <2>7, <2>8, <2>9 DEF LiveIsLast, Live
<1> QED
  BY <1>3, <1>4, <1>5, <1>6, <1>7 DEF KeepsBooks

(* ... and for the rest. *)
LEMMA WorkerKeepsBooksInv ==
  ASSUME TypeInv, HolderInv, HolderInv', BooksInv, NEW w \in Workers,
         KeepsBooks(w), KeepsHold(w)
  PROVE  BooksInv'
<1>1. \A v \in Workers : AtHand(v)'
  BY WorkerKeepsHands
<1>2. \A b \in Batches : LiveIsLast(b)'
  BY <1>1, WorkerKeepsLive
<1>3. \A b \in Batches : Numbered(b)'
  BY NumberedKept, StepsKeepBooks
<1>4. ASSUME NEW b \in Batches PROVE batch'[b].valid <= Target
  <2>1. batch[b].valid <= Target /\ batch[b].valid \in Nat
    BY DEF BooksInv, TypeInv, BatchType, CounterRow
  <2>2. CASE SameBooks(b)
    BY <2>1, <2>2 DEF SameBooks, SameAccounts, SameCounts
  <2>3. CASE ~SameBooks(b)
    <3>1. b = Mine(w) /\ ~Idles(w)
      BY <2>3, WorkerWritesItsBatch DEF Idles
    <3>2. \E i, verdict : Opened(b, i) \/ Rewritten(b, i) \/ Judged(b, i, verdict)
      BY <3>1 DEF KeepsBooks, Opens, GoesOn, Judges
    <3> QED
      BY <2>1, <3>2, BatchLimits
         DEF Opened, Rewritten, Judged, SameAccounts, SameCounts
  <2> QED
    BY <2>2, <2>3
<1> QED
  BY <1>1, <1>2, <1>3, <1>4 DEF BooksInv

(* A controller starts with its books in order. *)
LEMMA InitBooks == Init => BooksInv
<1> SUFFICES ASSUME Init PROVE BooksInv
  OBVIOUS
<1>1. \A w \in Workers : AtHand(w)
  BY DEF Init, AtHand, Working, NoWorker
<1>2. ASSUME NEW b \in Batches
      PROVE  Numbered(b) /\ batch[b].valid <= Target /\ LiveIsLast(b)
  <2>1. batch[b].attempts = 0 /\ batch[b].valid = 0
    BY DEF Init
  <2>2. \A i \in Slots : attempt[b][i] = NoAttemptRow
    BY DEF Init
  <2>3. Numbered(b)
    BY <2>1, <2>2 DEF Numbered, Slots
  <2>4. Live(b) = {}
    BY <2>2 DEF Live, NoAttemptRow, LinkedRuns
  <2> QED
    BY <2>1, <2>3, <2>4, BatchLimits DEF LiveIsLast
<1> QED
  BY <1>1, <1>2 DEF BooksInv

(* Every step keeps them in order. *)
LEMMA NextBooks ==
  TypeInv /\ HolderInv /\ BooksInv /\ [Next]_vars => BooksInv' /\ BooksStep
<1> SUFFICES ASSUME TypeInv, HolderInv, BooksInv, [Next]_vars
             PROVE  BooksInv' /\ BooksStep
  OBVIOUS
<1>1. HolderInv'
  BY NextHolder
<1> QED
  BY <1>1, StepKinds, StepsKeepBooks, QuietKeepsBooksInv, WorkerKeepsBooksInv,
     RecoverKeepsBooksInv

(* The books are always in order. *)
LEMMA BooksInvariant == Spec => [](TypeInv /\ HolderInv /\ BooksInv)
<1>1. Init => TypeInv /\ HolderInv /\ BooksInv
  BY InitType, InitHolder, InitBooks
<1>2. TypeInv /\ HolderInv /\ BooksInv /\ [Next]_vars
        => (TypeInv /\ HolderInv /\ BooksInv)'
  BY NextType, NextHolder, NextBooks
<1> QED
  BY <1>1, <1>2, PTL DEF Spec

(* However often a batch is interrupted and resumed, it never counts more    *)
(* valid runs than its target (run_batch, recover_interrupted_batches).      *)
THEOREM TargetHolds == Spec => []TargetIsALimit
<1>1. BooksInv => TargetIsALimit
  BY DEF BooksInv, TargetIsALimit
<1> QED
  BY <1>1, BooksInvariant, PTL

-----------------------------------------------------------------------------
(* The counters are the attempts' verdicts. *)

(* A count over the attempts of a batch is a number ... *)
LEMMA CountType ==
  ASSUME NEW b, NEW S
  PROVE  /\ IsFiniteSet({i \in Slots : attempt[b][i].state \in S})
         /\ Count(b, S) \in Nat
<1>1. IsFiniteSet(Slots)
  BY FS_Interval, BatchLimits DEF Slots
<1>2. IsFiniteSet({i \in Slots : attempt[b][i].state \in S})
  BY <1>1, FS_Subset
<1> QED
  BY <1>2, FS_CardinalityType DEF Count

(* ... that stays when no attempt enters or leaves the counted states ... *)
LEMMA CountUnchanged ==
  ASSUME NEW b, NEW S,
         \A i \in Slots : attempt'[b][i].state \in S <=> attempt[b][i].state \in S
  PROVE  Count(b, S)' = Count(b, S)
<1>1. {i \in Slots : attempt'[b][i].state \in S} = {i \in Slots : attempt[b][i].state \in S}
  OBVIOUS
<1> QED
  BY <1>1 DEF Count

(* ... and grows by one when exactly one attempt enters them. *)
LEMMA CountGrows ==
  ASSUME NEW b, NEW S, NEW i \in Slots,
         attempt[b][i].state \notin S, attempt'[b][i].state \in S,
         \A j \in Slots : j # i => attempt'[b][j] = attempt[b][j]
  PROVE  Count(b, S)' = Count(b, S) + 1
<1> DEFINE old == {j \in Slots : attempt[b][j].state \in S}
           new == {j \in Slots : attempt'[b][j].state \in S}
<1>1. new = old \union {i} /\ i \notin old
  OBVIOUS
<1>2. IsFiniteSet(old)
  BY CountType
<1>3. Cardinality(new) = Cardinality(old) + 1
  <2> HIDE DEF old, new
  <2> QED
    BY <1>1, <1>2, FS_AddElement
<1> QED
  BY <1>3 DEF Count

(* One verdict more counts once, and only among its own. *)
LEMMA JudgedCounts ==
  ASSUME NEW b \in Batches, NEW i \in Slots, NEW verdict \in Verdicts,
         Judged(b, i, verdict), NEW S \in SUBSET Verdicts
  PROVE  Count(b, S)' = Count(b, S) + (IF verdict \in S THEN 1 ELSE 0)
<1>1. attempt[b][i].state \notin S /\ attempt'[b][i].state = verdict
      /\ \A j \in Slots : j # i => attempt'[b][j] = attempt[b][j]
  BY DEF Judged, OnlyAt, ActiveAttemptStates, Verdicts
<1>2. CASE verdict \in S
  BY <1>1, <1>2, CountGrows
<1>3. CASE verdict \notin S
  <2>1. \A j \in Slots : attempt'[b][j].state \in S <=> attempt[b][j].state \in S
    BY <1>1, <1>3
  <2>2. Count(b, S)' = Count(b, S)
    BY <2>1, CountUnchanged
  <2>3. Count(b, S) \in Nat
    BY CountType
  <2> QED
    BY <1>3, <2>2, <2>3
<1> QED
  BY <1>2, <1>3

(* An attempt that is opened, or goes on, has no verdict. *)
LEMMA OpenCounts ==
  ASSUME TypeInv, BooksInv, NEW b \in Batches, NEW i \in Slots,
         Opened(b, i) \/ Rewritten(b, i), NEW S \in SUBSET Verdicts
  PROVE  Count(b, S)' = Count(b, S)
<1>1. attempt'[b][i].state \notin S
  <2>1. attempt[b][i] \in AttemptRow
    BY DEF TypeInv, AttemptType
  <2>2. attempt'[b][i].state \in ActiveAttemptStates
    BY <2>1 DEF Opened, Rewritten, AttemptRow, ActiveAttemptStates
  <2> QED
    BY <2>2 DEF ActiveAttemptStates, Verdicts
<1>2. attempt[b][i].state \notin S
  <2>1. CASE Rewritten(b, i)
    BY <2>1 DEF Rewritten, ActiveAttemptStates, Verdicts
  <2>2. CASE Opened(b, i)
    <3>1. ~(i <= batch[b].attempts)
      BY <2>2 DEF Opened, TypeInv, BatchType, CounterRow
    <3>2. attempt[b][i] = NoAttemptRow
      BY <3>1 DEF BooksInv, Numbered
    <3> QED
      BY <3>2 DEF NoAttemptRow, NoAttempt, Verdicts
  <2> QED
    BY <2>1, <2>2
<1>3. \A j \in Slots : attempt'[b][j].state \in S <=> attempt[b][j].state \in S
  BY <1>1, <1>2 DEF Opened, Rewritten, OnlyAt
<1> QED
  BY <1>3, CountUnchanged

(* Every step keeps the counters equal to what they count. *)
LEMMA ScoredKept ==
  ASSUME TypeInv, TypeInv', BooksInv, BooksStep, NEW b \in Batches, Scored(b)
  PROVE  Scored(b)'
<1> DEFINE V == {"VALID"}
           F == {"FAILED", "SKIPPED"}
           I == {"INVALID"}
<1>0. /\ V \subseteq Verdicts /\ F \subseteq Verdicts /\ I \subseteq Verdicts
      /\ batch[b].invalid \in Nat /\ batch'[b].invalid \in Nat
      /\ Count(b, V) \in Nat /\ Count(b, F) \in Nat /\ Count(b, I) \in Nat
  BY CountType DEF Verdicts, TypeInv, BatchType, CounterRow
<1>1. /\ batch[b].valid = Count(b, V)
      /\ batch[b].failed = Count(b, F)
      /\ batch[b].invalid <= Count(b, I)
  BY DEF Scored
<1>2. CASE SameBooks(b)
  <2>1. \A S : Count(b, S)' = Count(b, S)
    BY <1>2 DEF Count, SameBooks
  <2> QED
    BY <1>1, <1>2, <2>1 DEF Scored, SameBooks, SameAccounts, SameCounts
<1>3. CASE \E i \in Slots : Opened(b, i) \/ Rewritten(b, i)
  <2>1. /\ Count(b, V)' = Count(b, V) /\ Count(b, F)' = Count(b, F)
        /\ Count(b, I)' = Count(b, I)
    <3> HIDE DEF V, F, I
    <3> QED
      BY <1>0, <1>3, OpenCounts
  <2>2. SameCounts(b)
    BY <1>3 DEF Opened, Rewritten, SameAccounts, SameCounts
  <2> QED
    BY <1>1, <2>1, <2>2 DEF Scored, SameCounts
<1>4. CASE \E i \in Slots, verdict \in Verdicts : Judged(b, i, verdict)
  <2>1. PICK i \in Slots, verdict \in Verdicts : Judged(b, i, verdict)
    BY <1>4
  <2>2. /\ Count(b, V)' = Count(b, V) + (IF verdict \in V THEN 1 ELSE 0)
        /\ Count(b, F)' = Count(b, F) + (IF verdict \in F THEN 1 ELSE 0)
        /\ Count(b, I)' = Count(b, I) + (IF verdict \in I THEN 1 ELSE 0)
    <3> HIDE DEF V, F, I
    <3> QED
      BY <1>0, <2>1, JudgedCounts
  <2>3. batch'[b].valid = Count(b, V)' /\ batch'[b].failed = Count(b, F)'
    BY <1>1, <2>1, <2>2 DEF Judged
  <2>4. batch'[b].invalid <= Count(b, I)'
    BY <1>0, <1>1, <2>1, <2>2 DEF Judged
  <2> QED
    BY <2>3, <2>4 DEF Scored
<1> QED
  BY <1>2, <1>3, <1>4, BooksOfOne

(* A batch is created with no attempts and counters of zero. *)
LEMMA InitScored == Init => \A b \in Batches : Scored(b)
<1> SUFFICES ASSUME Init, NEW b \in Batches PROVE Scored(b)
  OBVIOUS
<1>1. \A S \in SUBSET Verdicts : {i \in Slots : attempt[b][i].state \in S} = {}
  BY DEF Init, NoAttemptRow, NoAttempt, Verdicts
<1>2. \A S \in SUBSET Verdicts : Count(b, S) = 0
  BY <1>1, FS_EmptySet DEF Count
<1>3. {"VALID"} \subseteq Verdicts /\ {"FAILED", "SKIPPED"} \subseteq Verdicts
      /\ {"INVALID"} \subseteq Verdicts
  BY DEF Verdicts
<1> QED
  BY <1>2, <1>3 DEF Scored, Init

(* The counters the stop rules use are the attempts' verdicts, stop the      *)
(* batch at its target, and attempts are numbered without a gap, whatever is *)
(* killed, recovered or skipped (_finish_attempt,                            *)
(* _finish_precondition_failure, recover_interrupted_batches).               *)
THEOREM BooksBalance == Spec => []AccountsBalance
<1> DEFINE Inv == TypeInv /\ HolderInv /\ BooksInv
           AllScored == \A b \in Batches : Scored(b)
<1>1. Init => AllScored
  BY InitScored
<1>2. Inv /\ AllScored /\ [Next]_vars => AllScored'
  BY NextType, NextBooks, ScoredKept
<1>3. Inv /\ AllScored => AccountsBalance
  BY DEF BooksInv, Numbered, Scored, AccountsBalance, TargetIsALimit, NoAttemptRow
<1> HIDE DEF Inv, AllScored
<1>4. Spec => []Inv
  BY BooksInvariant DEF Inv
<1> QED
  BY <1>1, <1>2, <1>3, <1>4, PTL DEF Spec

-----------------------------------------------------------------------------
(* The ledger.  Every step opens the attempt after the last one, judges an   *)
(* open one, or changes nothing the ledger shows.                            *)

Entries == [b \in Batches |-> [i \in Slots |-> LedgerEntry(attempt[b][i].state)]]
Scores == [b \in Batches |-> [valid |-> batch[b].valid, failed |-> batch[b].failed]]

(* The ledger's entry of an attempt, from the state of the attempt. *)
LEMMA EntryOf ==
  /\ \A s \in ActiveAttemptStates : LedgerEntry(s) = "OPEN"
  /\ \A s \in Verdicts : LedgerEntry(s) = s
  /\ LedgerEntry(NoAttempt) = "NONE"
  /\ \A s \in AttemptStates : LedgerEntry(s) = "NONE" <=> s = NoAttempt
  BY DEF LedgerEntry, ActiveAttemptStates, Verdicts, AttemptStates, NoAttempt

(* A step that touches one row shows in that row's entry only. *)
LEMMA OneEntry ==
  ASSUME NEW b \in Batches, NEW i \in Slots, OnlyAt(b, i)
  PROVE  Entries' = [Entries EXCEPT ![b][i] = LedgerEntry(attempt'[b][i].state)]
<1> DEFINE new == [Entries EXCEPT ![b][i] = LedgerEntry(attempt'[b][i].state)]
<1>1. ASSUME NEW c \in Batches PROVE Entries'[c] = new[c]
  <2>1. CASE c # b
    BY <2>1 DEF OnlyAt, SameBooks, Entries
  <2>2. CASE c = b
    <3>1. new[b] = [Entries[b] EXCEPT ![i] = LedgerEntry(attempt'[b][i].state)]
      BY DEF Entries
    <3>2. Entries'[b] = [j \in Slots |-> LedgerEntry(attempt'[b][j].state)]
      BY DEF Entries
    <3>3. Entries[b] = [j \in Slots |-> LedgerEntry(attempt[b][j].state)]
      BY DEF Entries
    <3>4. \A j \in Slots : j # i => attempt'[b][j] = attempt[b][j]
      BY DEF OnlyAt
    <3> QED
      BY <2>2, <3>1, <3>2, <3>3, <3>4
  <2> QED
    BY <2>1, <2>2
<1>2. Entries' = [c \in Batches |-> Entries'[c]] /\ new = [c \in Batches |-> new[c]]
  BY DEF Entries
<1> QED
  BY <1>1, <1>2

(* An attempt that keeps its state keeps its entry ... *)
LEMMA SameEntry ==
  ASSUME NEW b \in Batches, NEW i \in Slots, OnlyAt(b, i),
         LedgerEntry(attempt'[b][i].state) = LedgerEntry(attempt[b][i].state)
  PROVE  Entries' = Entries
<1>1. Entries[b][i] = LedgerEntry(attempt'[b][i].state)
  BY DEF Entries
<1>2. Entries' = [Entries EXCEPT ![b][i] = Entries[b][i]]
  BY <1>1, OneEntry
<1> QED
  BY <1>2 DEF Entries

(* ... and a batch that keeps its counters keeps its score. *)
LEMMA SameScores ==
  ASSUME \A b \in Batches : SameCounts(b)
  PROVE  Scores' = Scores
  BY DEF SameCounts, Scores

(* Opening an attempt is a Begin of the ledger ... *)
LEMMA OpenedBegins ==
  ASSUME TypeInv, BooksInv, NEW b \in Batches, NEW i \in Slots, Opened(b, i)
  PROVE  Ledger!Begin(b, i)
<1>1. Entries' = [Entries EXCEPT ![b][i] = "OPEN"]
  <2>1. attempt[b][i] \in AttemptRow /\ OnlyAt(b, i)
    BY DEF TypeInv, AttemptType, Opened
  <2>2. attempt'[b][i].state = "CHECKING_PRECONDITIONS"
    BY <2>1 DEF Opened, AttemptRow
  <2>3. LedgerEntry(attempt'[b][i].state) = "OPEN"
    BY <2>2, EntryOf DEF ActiveAttemptStates
  <2> QED
    BY <2>1, <2>3, OneEntry
<1>2. Scores' = Scores
  BY SameScores DEF Opened, OnlyAt, SameBooks, SameAccounts
<1>3. Scores[b].valid < Target
  BY DEF Opened, Scores
<1>4. ASSUME NEW j \in Slots PROVE Entries[b][j] # "NONE" <=> j < i
  <2>1. Entries[b][j] # "NONE" <=> attempt[b][j].state # NoAttempt
    BY EntryOf DEF Entries, TypeInv, AttemptType, AttemptRow
  <2>2. i = batch[b].attempts + 1 /\ batch[b].attempts \in Nat
    BY DEF Opened, TypeInv, BatchType, CounterRow
  <2>3. attempt[b][j].state # NoAttempt <=> j <= batch[b].attempts
    BY DEF BooksInv, Numbered, NoAttemptRow
  <2> QED
    BY <2>1, <2>2, <2>3 DEF Slots
<1> QED
  BY <1>1, <1>2, <1>3, <1>4 DEF Ledger!Begin, Ledger!Slots, Slots, Entries, Scores

(* ... and judging one is a Judge. *)
LEMMA JudgedJudges ==
  ASSUME TypeInv, BooksInv, NEW b \in Batches, NEW i \in Slots,
         NEW verdict \in Verdicts, Judged(b, i, verdict)
  PROVE  Ledger!Judge(b, i, verdict)
<1>1. Entries[b][i] = "OPEN"
  BY EntryOf DEF Judged, Entries
<1>2. Entries' = [Entries EXCEPT ![b][i] = verdict]
  BY OneEntry, EntryOf DEF Judged
<1> DEFINE valid == IF verdict = "VALID" THEN Scores[b].valid + 1 ELSE Scores[b].valid
           failed == IF verdict \in {"FAILED", "SKIPPED"} THEN Scores[b].failed + 1
                                                         ELSE Scores[b].failed
<1>3. Scores'[b] = [valid |-> valid, failed |-> failed]
  <2>1. batch[b].valid \in Nat /\ batch[b].failed \in Nat
    BY DEF TypeInv, BatchType, CounterRow
  <2>2. batch'[b].valid = valid /\ batch'[b].failed = failed
    BY <2>1 DEF Judged, Scores
  <2> QED
    BY <2>2 DEF Scores
<1>4. \A c \in Batches : c # b => Scores'[c] = Scores[c]
  BY DEF Judged, OnlyAt, SameBooks, SameAccounts, SameCounts, Scores
<1>5. Scores' = [Scores EXCEPT ![b] = [valid |-> valid, failed |-> failed]]
  <2> HIDE DEF valid, failed
  <2> QED
    BY <1>3, <1>4 DEF Scores
<1>6. Scores' = [Scores EXCEPT
                  ![b].valid = IF verdict = "VALID" THEN @ + 1 ELSE @,
                  ![b].failed = IF verdict \in {"FAILED", "SKIPPED"} THEN @ + 1 ELSE @]
  BY <1>5 DEF Scores
<1> QED
  BY <1>1, <1>2, <1>6 DEF Ledger!Judge, Entries, Scores

(* Every step is a step of the ledger, or changes nothing there. *)
LEMMA NextKeepsLedger ==
  ASSUME TypeInv, BooksInv, BooksStep
  PROVE  Ledger!Next \/ UNCHANGED <<Entries, Scores>>
<1>1. CASE \A b \in Batches : SameBooks(b)
  BY <1>1 DEF SameBooks, SameAccounts, SameCounts, Entries, Scores
<1>2. ASSUME NEW b \in Batches, NEW i \in Slots, Opened(b, i)
      PROVE  Ledger!Next
  BY <1>2, OpenedBegins DEF Ledger!Next, Ledger!Slots, Slots
<1>3. ASSUME NEW b \in Batches, NEW i \in Slots, NEW verdict \in Verdicts,
             Judged(b, i, verdict)
      PROVE  Ledger!Next
  BY <1>3, JudgedJudges
     DEF Ledger!Next, Ledger!Slots, Slots, Ledger!Verdicts, Verdicts
<1>4. ASSUME NEW b \in Batches, NEW i \in Slots, Rewritten(b, i)
      PROVE  UNCHANGED <<Entries, Scores>>
  <2>1. LedgerEntry(attempt'[b][i].state) = LedgerEntry(attempt[b][i].state)
    BY <1>4, EntryOf DEF Rewritten
  <2>2. OnlyAt(b, i) /\ \A c \in Batches : SameCounts(c)
    BY <1>4 DEF Rewritten, OnlyAt, SameBooks, SameAccounts
  <2> QED
    BY <2>1, <2>2, SameEntry, SameScores
<1> QED
  BY <1>1, <1>2, <1>3, <1>4 DEF BooksStep

(* The batches implement the ledger of AttemptLedger: an attempt is opened   *)
(* after the last one and below the target, gets one verdict, and the        *)
(* scores change with it, in that step (run_batch, _finish_attempt,          *)
(* recover_interrupted_batches).                                             *)
THEOREM LedgerIsKept == Spec => KeepsLedger
<1>1. Init => Ledger!Init
  BY EntryOf DEF Init, Ledger!Init, Ledger!Slots, Slots, NoAttemptRow
<1>2. TypeInv /\ HolderInv /\ BooksInv /\ [Next]_vars
        => [Ledger!Next]_<<Entries, Scores>>
  BY NextBooks, NextKeepsLedger
<1> QED
  BY <1>1, <1>2, BooksInvariant, PTL
  DEF Spec, KeepsLedger, Ledger!Spec, Entries, Scores

-----------------------------------------------------------------------------
(* Completed measurements.  An attempt whose run completed and that has      *)
(* neither verdict a completed run can get is about to be recorded, or was   *)
(* caught in between by a crash and is waiting for the recovery, or its      *)
(* batch was deleted or cancelled, and nobody who holds it, or who read it   *)
(* before, can change that any more.                                         *)

Unjudged(b, i) ==
  /\ attempt[b][i].run \in CompletedRuns
  /\ attempt[b][i].state \notin {"VALID", "INVALID"}

Recording(b, i) ==
  /\ attempt[b][i].state \in ActiveAttemptStates
  /\ \E w \in Workers : Holds(w, b) /\ At(w, "record") /\ worker[w].at = i

Caught(b, i) ==
  /\ attempt[b][i].state \in ActiveAttemptStates
  /\ b \in unrecovered /\ batch[b].state \in ActiveBatchStates

GivenUp(b) ==
  /\ batch[b].state = "CANCELLED"
  /\ \A w \in Workers : ~Holds(w, b)
  /\ \A t \in Threads : request[t].pc # "idle" /\ request[t].batch = b
       => request[t].pc = "event" /\ request[t].seen = "CANCELLED"

Accounted(b) ==
  \A i \in Slots : Unjudged(b, i) =>
    Recording(b, i) \/ Caught(b, i) \/ GivenUp(b) \/ batch[b].state = Deleted

(* A deleted batch never has a row again. *)
LEMMA StopKeepsDeleted ==
  ASSUME BatchType, NEW w, NEW s, Stop(w, s), NEW b \in Batches,
         batch[b].state = Deleted
  PROVE  batch'[b].state = Deleted
  BY DEF Stop, RowGone, WriteOver, BatchType, CounterRow

(* A worker never brings back a batch that was deleted ... *)
LEMMA WorkerKeepsDeleted ==
  ASSUME TypeInv, NEW w \in Workers, WorkerStep(w) \/ WakeUp(w) \/ Raise(w),
         NEW b \in Batches, batch[b].state = Deleted
  PROVE  batch'[b].state = Deleted
<1>1. CASE \E s : Stop(w, s)
  BY <1>1, StopKeepsDeleted DEF TypeInv
<1>2. CASE UNCHANGED batch
  BY <1>2
<1>3. CASE Load(w)
  BY <1>3 DEF Load, WriteOver, TypeInv, BatchType, CounterRow, Deleted
<1>4. CASE BeginAttempt(w) \/ PreconditionsNotMet(w)
           \/ RecordAttempt(w) \/ FailBatch(w)
  <2>1. UNCHANGED batch \/ (batch[Mine(w)].state # Deleted
                            /\ \A c \in Batches : c # Mine(w) => batch'[c] = batch[c])
    BY <1>4
       DEF BeginAttempt, PreconditionsNotMet, RecordAttempt, FailBatch,
           SetState, RowGone, TypeInv, BatchType
  <2> QED
    BY <2>1
<1>5. CASE Decide(w) \/ Abandon(w) \/ PauseForDrift(w)
  BY <1>1, <1>5 DEF Decide, Abandon, PauseForDrift
<1>6. CASE AfterSkip(w) \/ Review(w) \/ Poll(w)
  BY <1>1, <1>2, <1>6 DEF AfterSkip, Review, Poll
<1>7. CASE \/ Refresh(w) \/ PreconditionsMet(w) \/ PreconditionsCancelled(w) \/ CreateRun(w)
           \/ LinkRun(w) \/ ExecuteRun(w) \/ RecordDrift(w) \/ WakeUp(w) \/ Raise(w)
           \/ HandleException(w) \/ Teardown(w)
  BY <1>2, <1>7
     DEF Refresh, PreconditionsMet, PreconditionsCancelled, CreateRun, LinkRun,
         ExecuteRun, RecordDrift, WakeUp, Raise, HandleException, Teardown
<1> QED
  BY <1>3, <1>4, <1>5, <1>6, <1>7 DEF WorkerStep

(* ... nor does a request handler ... *)
LEMMA HandlerKeepsDeleted ==
  ASSUME TypeInv, HolderInv, NEW t \in Threads, HandlerStep(t),
         NEW b \in Batches, batch[b].state = Deleted
  PROVE  batch'[b].state = Deleted
<1>1. CASE Claim(t)
  <2>1. ClaimMatches(t) => batch[request[t].batch].state \in StartableStates
    BY <1>1 DEF Claim, Pending, ClaimMatches, HolderInv, StartsSawStartable
  <2> QED
    BY <1>1, <2>1
       DEF Claim, SetState, TypeInv, BatchType, CounterRow, StartableStates,
           Deleted
<1>2. CASE PauseWrite(t) \/ CancelWrite(t) \/ DeleteWrite(t)
  BY <1>2
     DEF PauseWrite, CancelWrite, DeleteWrite, SetState, WriteOver, TypeInv,
         BatchType, CounterRow
<1>3. CASE StartCheck(t) \/ Register(t) \/ CancelEvent(t)
  BY <1>3 DEF StartCheck, Register, CancelEvent
<1> QED
  BY <1>1, <1>2, <1>3 DEF HandlerStep

(* ... nor anything else. *)
LEMMA DeletedStays ==
  ASSUME TypeInv, HolderInv, [Next]_vars, NEW b \in Batches, batch[b].state = Deleted
  PROVE  batch'[b].state = Deleted
<1>1. CASE \E t \in Threads : HandlerStep(t)
  BY <1>1, HandlerKeepsDeleted
<1>2. CASE \E w \in Workers : WorkerStep(w) \/ WakeUp(w) \/ Raise(w)
  BY <1>2, WorkerKeepsDeleted
<1>3. CASE \E c \in Batches : Recover(c)
  BY <1>3
     DEF Recover, RecoverNothing, RecoverCancelled, RecoverPaused, SetState,
         TypeInv, BatchType, CounterRow, Deleted
<1>4. CASE (\E c \in Clients : Operator(c)) \/ SchedulerTick \/ Environment \/ UNCHANGED vars
  BY <1>4 DEF Operator, SchedulerTick, StartRead, PauseRead, CancelRead, DeleteRead,
              Environment, StartTimeComes, DeadlinePasses, CodeChanges, Crash, vars
<1> QED
  BY <1>1, <1>2, <1>3, <1>4 DEF Next

(* A cancelled batch that was given up stays so. *)
LEMMA OperatorKeepsGivenUp ==
  ASSUME TypeInv, NEW t \in Threads, NEW c \in Batches,
         StartRead(t, c) \/ PauseRead(t, c) \/ CancelRead(t, c) \/ DeleteRead(t, c),
         NEW b \in Batches, GivenUp(b)
  PROVE  GivenUp(b)'
<1>1. UNCHANGED <<batch, worker>> /\ \A u \in Threads : u # t => request'[u] = request[u]
  BY DEF StartRead, PauseRead, CancelRead, DeleteRead, Await, TypeInv, RequestType
<1>2. request'[t].batch = c
  BY DEF StartRead, PauseRead, CancelRead, DeleteRead, Await, NoRequest,
     TypeInv, RequestType
<1>3. CASE c = b
  <2>1. CancelRead(t, c)
    BY <1>3 DEF GivenUp, StartRead, PauseRead, DeleteRead, StartableStates
  <2>2. request'[t].pc = "event" /\ request'[t].seen = "CANCELLED"
    BY <1>3, <2>1 DEF CancelRead, Await, NoRequest, TypeInv, RequestType, GivenUp
  <2> QED
    BY <1>1, <2>2 DEF GivenUp, Holds, Running
<1>4. CASE c # b
  BY <1>1, <1>2, <1>4 DEF GivenUp, Holds, Running
<1> QED
  BY <1>3, <1>4

(* No request handler takes up an iteration that was given up ... *)
LEMMA HandlerKeepsGivenUp ==
  ASSUME TypeInv, NEW t \in Threads, HandlerStep(t), NEW b \in Batches, GivenUp(b)
  PROVE  GivenUp(b)'
<1> DEFINE c == request[t].batch
<1>0. request[t].pc # "idle" /\ c \in Batches
  BY DEF HandlerStep, StartCheck, Claim, Register, PauseWrite, CancelEvent,
     CancelWrite, DeleteWrite, Pending, TypeInv, RequestType
<1>1. \A u \in Threads : u # t => request'[u] = request[u]
  BY DEF HandlerStep, StartCheck, Claim, Register, PauseWrite, CancelEvent,
     CancelWrite, DeleteWrite, Answer, Await, TypeInv, RequestType
<1>2. CASE c = b
  <2>1. request[t].pc = "event" /\ request[t].seen = "CANCELLED"
    BY <1>0, <1>2 DEF GivenUp
  <2>2. CancelEvent(t)
    BY <2>1 DEF HandlerStep, StartCheck, Claim, Register, PauseWrite, CancelWrite,
                DeleteWrite, Pending
  <2>3. Answer(t) /\ UNCHANGED <<batch, worker>>
    BY <2>1, <2>2 DEF CancelEvent, TerminalBatchStates
  <2>4. request'[t].pc = "idle"
    BY <2>3 DEF Answer, Await, NoRequest, TypeInv, RequestType
  <2> QED
    BY <1>1, <2>3, <2>4 DEF GivenUp, Holds, Running
<1>3. CASE c # b
  <2>1. batch'[b] = batch[b]
    BY <1>3 DEF HandlerStep, StartCheck, Claim, Register, PauseWrite, CancelEvent,
                CancelWrite, DeleteWrite, SetState, WriteOver, TypeInv, BatchType
  <2>2. \A w \in Workers : Holds(w, b)' => Holds(w, b)
    <3>1. CASE Register(t)
      <4>1. UNCHANGED worker \/ \E w \in Workers :
              worker' = [worker EXCEPT ![w].pc = "load", ![w].batch = c]
        BY <3>1 DEF Register
      <4> QED
        BY <1>3, <4>1 DEF TypeInv, WorkerType, Holds, Running
    <3>2. CASE ~Register(t)
      BY <3>2
         DEF HandlerStep, StartCheck, Claim, PauseWrite, CancelEvent,
             CancelWrite, DeleteWrite, Holds, Running
    <3> QED
      BY <3>1, <3>2
  <2>3. request'[t].pc = "idle" \/ request'[t].batch = c
    <3>1. CASE StartCheck(t)
      BY <3>1 DEF StartCheck, Answer, Await, NoRequest, TypeInv, RequestType
    <3>2. CASE Claim(t)
      <4> DEFINE claimed == [NoRequest EXCEPT !.pc = "register", !.batch = c]
      <4>1. Answer(t) \/ Await(t, claimed)
        BY <3>2 DEF Claim
      <4>2. claimed.batch = c
        BY DEF NoRequest
      <4> HIDE DEF claimed
      <4> QED
        BY <4>1, <4>2 DEF Answer, Await, NoRequest, TypeInv, RequestType
    <3>3. CASE CancelEvent(t)
      <4> DEFINE found == [request[t] EXCEPT !.pc = "cancel", !.event = registry[c]]
      <4>1. Answer(t) \/ Await(t, found)
        BY <3>3 DEF CancelEvent
      <4>2. found.batch = c
        BY DEF TypeInv, RequestType
      <4> HIDE DEF found
      <4> QED
        BY <4>1, <4>2 DEF Answer, Await, NoRequest, TypeInv, RequestType
    <3>4. CASE Register(t) \/ PauseWrite(t) \/ CancelWrite(t) \/ DeleteWrite(t)
      BY <3>4
         DEF Register, PauseWrite, CancelWrite, DeleteWrite, Answer, Await,
             NoRequest, TypeInv, RequestType
    <3> QED
      BY <3>1, <3>2, <3>3, <3>4 DEF HandlerStep
  <2> QED
    BY <1>1, <1>3, <2>1, <2>2, <2>3 DEF GivenUp
<1> QED
  BY <1>2, <1>3

(* ... and no other step does. *)
LEMMA GivenUpStays ==
  ASSUME TypeInv, HolderInv, [Next]_vars, NEW b \in Batches, GivenUp(b)
  PROVE  GivenUp(b)'
<1>1. CASE \E c \in Clients : Operator(c)
  BY <1>1, OperatorKeepsGivenUp DEF Operator, Threads
<1>2. CASE SchedulerTick
  BY <1>2, OperatorKeepsGivenUp DEF SchedulerTick, Threads, TypeInv, OtherTypes
<1>3. CASE \E t \in Threads : HandlerStep(t)
  BY <1>3, HandlerKeepsGivenUp
<1>4. CASE \E w \in Workers : WorkerStep(w) \/ WakeUp(w) \/ Raise(w)
  <2>1. PICK w \in Workers : KeepsHold(w)
    BY <1>4, WorkerStepKeepsHold
  <2>2. \A v \in Workers : Holds(v, b)' => Holds(v, b)
    BY <2>1 DEF KeepsHold, Holds, Running
  <2> QED
    BY <2>1, <2>2 DEF GivenUp, KeepsHold
<1>5. CASE \E c \in Batches : Recover(c)
  <2>1. batch'[b].state = batch[b].state
    BY <1>5
       DEF Recover, RecoverNothing, RecoverCancelled, RecoverPaused, SetState,
           TypeInv, BatchType, GivenUp
  <2>2. UNCHANGED <<worker, request>>
    BY <1>5 DEF Recover
  <2> QED
    BY <2>1, <2>2 DEF GivenUp, Holds, Running
<1>6. CASE Crash
  BY <1>6 DEF Crash, GivenUp, Holds, Running, NoWorker, NoRequest
<1>7. CASE (\E c \in Batches : StartTimeComes(c) \/ DeadlinePasses(c)) \/ CodeChanges
           \/ UNCHANGED vars
  BY <1>7
     DEF StartTimeComes, DeadlinePasses, CodeChanges, vars, GivenUp, Holds,
         Running
<1> QED
  BY <1>1, <1>2, <1>3, <1>4, <1>5, <1>6, <1>7 DEF Next, Environment

(* Quiet steps; a crash in the middle of a recording is the interesting one. *)
LEMMA QuietKeepsAccounted ==
  ASSUME TypeInv, HolderInv, QuietBooks, NEW b \in Batches, NEW i \in Slots,
         Unjudged(b, i)', Recording(b, i) \/ Caught(b, i)
  PROVE  Recording(b, i)' \/ Caught(b, i)' \/ GivenUp(b)' \/ batch'[b].state = Deleted
<1>1. attempt'[b][i] = attempt[b][i]
  BY DEF QuietBooks, SameBooks
<1>2. CASE Caught(b, i)
  <2>1. ~Up
    BY <1>2 DEF Caught, Up
  <2> QED
    BY <1>1, <1>2, <2>1 DEF Caught, QuietBooks
<1>3. CASE Recording(b, i) /\ ~Crash
  <2>1. PICK w \in Workers : Holds(w, b) /\ At(w, "record") /\ worker[w].at = i
    BY <1>3 DEF Recording
  <2>2. worker'[w] = worker[w]
    BY <1>3, <2>1 DEF QuietBooks, At
  <2> QED
    BY <1>1, <1>3, <2>1, <2>2 DEF Recording, Holds, Running, At
<1>4. CASE Recording(b, i) /\ Crash
  <2>1. batch'[b].state = batch[b].state /\ batch[b].state \in HeldStates
    BY <1>4 DEF Crash, Recording, HolderInv, HeldIsActive
  <2>2. /\ \A w \in Workers : worker'[w].pc = "none"
        /\ \A t \in Threads : request'[t].pc = "idle"
        /\ b \in unrecovered'
    BY <1>4 DEF Crash, NoWorker, NoRequest
  <2>3. CASE batch[b].state \in ActiveBatchStates
    BY <1>1, <1>4, <2>1, <2>2, <2>3 DEF Caught, Recording
  <2>4. CASE batch[b].state = "CANCELLED"
    BY <2>1, <2>2, <2>4 DEF GivenUp, Holds, Running
  <2> QED
    BY <2>1, <2>3, <2>4 DEF HeldStates
<1> QED
  BY <1>2, <1>3, <1>4

(* The recovery judges what a crash caught. *)
LEMMA RecoverKeepsAccounted ==
  ASSUME TypeInv, HolderInv, BooksInv, NEW c \in Batches, Recover(c),
         NEW b \in Batches, NEW i \in Slots,
         Unjudged(b, i)', Recording(b, i) \/ Caught(b, i)
  PROVE  Recording(b, i)' \/ Caught(b, i)' \/ GivenUp(b)' \/ batch'[b].state = Deleted
<1>1. /\ \A w \in Workers : worker[w].pc = "none" /\ worker'[w].pc = "none"
      /\ \A t \in Threads : request'[t].pc = "idle"
      /\ unrecovered' = unrecovered \ {c}
  BY DEF Recover, RecoverNothing, RecoverCancelled, RecoverPaused, Up,
     HolderInv, DownIsQuiet
<1>2. Caught(b, i)
  BY <1>1 DEF Recording, At
<1>3. /\ Keeps(c) \/ \E j \in Slots : Settles(c, j)
      /\ \A d \in Batches : d # c => batch'[d].state = batch[d].state
  BY RecoverBooks
<1>4. CASE b # c
  <2>1. SameBooks(b)
    BY <1>3, <1>4 DEF Keeps, Settles, Judged, OnlyAt
  <2> QED
    BY <1>1, <1>2, <1>3, <1>4, <2>1 DEF Caught, SameBooks
<1>5. CASE b = c /\ Keeps(c)
  <2>1. Live(b) = {} /\ SameBooks(b)
    BY <1>2, <1>5 DEF Keeps, Caught
  <2>2. i \in Live(b)
    BY <1>2, <2>1 DEF Live, Caught, Unjudged, SameBooks, CompletedRuns, LinkedRuns
  <2> QED
    BY <2>1, <2>2
<1>6. CASE b = c /\ \E j \in Slots : Settles(c, j)
  <2>1. PICK j \in Slots : Settles(b, j)
    BY <1>6
  <2>2. PICK verdict \in Verdicts :
          /\ Judged(b, j, verdict)
          /\ attempt[b][j].run \in CompletedRuns =>
               verdict \in {"VALID", "INVALID"} \/ batch'[b].state = "CANCELLED"
    BY <2>1 DEF Settles
  <2>3. CASE i = j
    <3>1. attempt[b][i].run \in CompletedRuns /\ verdict \notin {"VALID", "INVALID"}
      BY <2>1, <2>2, <2>3 DEF Settles, Judged, Unjudged
    <3>2. batch'[b].state = "CANCELLED"
      BY <2>2, <2>3, <3>1
    <3> QED
      BY <1>1, <3>2 DEF GivenUp, Holds, Running
  <2>4. CASE i # j
    <3>1. attempt'[b][i] = attempt[b][i]
      BY <2>2, <2>4 DEF Judged, OnlyAt
    <3>2. i \in Live(b)
      BY <1>2, <3>1 DEF Live, Caught, Unjudged, CompletedRuns, LinkedRuns
    <3> QED
      BY <2>1, <2>4, <3>2 DEF Settles
  <2> QED
    BY <2>3, <2>4
<1> QED
  BY <1>3, <1>4, <1>5, <1>6

(* A worker that has a completed run in hand records it, or finds the row    *)
(* of its batch gone.                                                        *)
LEMMA WorkerKeepsAccounted ==
  ASSUME TypeInv, HolderInv, BooksInv, NEW w \in Workers, KeepsBooks(w), KeepsHold(w),
         NEW b \in Batches, batch[b].state = Deleted => batch'[b].state = Deleted,
         NEW i \in Slots, Unjudged(b, i)',
         Unjudged(b, i) => Recording(b, i) \/ batch[b].state = Deleted
  PROVE  Recording(b, i)' \/ batch'[b].state = Deleted
<1>1. CASE Judges(w) /\ b = Mine(w) /\ i = worker[w].at
  <2>1. PICK verdict \in Verdicts :
          /\ Judged(b, i, verdict)
          /\ attempt[b][i].run \in CompletedRuns => verdict \in {"VALID", "INVALID"}
    BY <1>1 DEF Judges
  <2>2. attempt'[b][i].run = attempt[b][i].run /\ attempt'[b][i].state = verdict
    BY <1>1, <2>1 DEF Judges, Judged
  <2> QED
    BY <2>1, <2>2 DEF Unjudged
<1>2. CASE GoesOn(w) /\ b = Mine(w) /\ i = worker[w].at
  <2>1. /\ worker'[w].pc \in Working /\ worker'[w].at = i
        /\ attempt'[b][i] \in RowAt[worker'[w].pc]
        /\ attempt'[b][i].state \in ActiveAttemptStates
    BY <1>2 DEF GoesOn, Rewritten
  <2>2. worker'[w].pc = "record"
    BY <2>1, RowAtDomain DEF Working, Unjudged, CompletedRuns
  <2>3. Holds(w, b)'
    BY <1>2, <2>1 DEF KeepsHold, Working, Mine, Holds, Running
  <2> QED
    BY <2>1, <2>2, <2>3 DEF Recording, At
<1>3. CASE Opens(w) /\ b = Mine(w) /\ i = worker'[w].at
  <2>1. Opened(b, i)
    BY <1>3 DEF Opens
  <2>2. attempt[b][i] = NoAttemptRow
    BY <2>1 DEF Opened, BooksInv, Numbered, TypeInv, BatchType, CounterRow
  <2>3. attempt'[b][i].run = "NO_RUN"
    BY <2>1, <2>2 DEF Opened, NoAttemptRow
  <2> QED
    BY <2>3 DEF Unjudged, CompletedRuns
<1>4. CASE attempt'[b][i] = attempt[b][i] /\ ~(Judges(w) /\ b = Mine(w) /\ i = worker[w].at)
  <2>1. Unjudged(b, i)
    BY <1>4 DEF Unjudged
  <2>2. CASE batch[b].state = Deleted
    BY <2>2
  <2>3. CASE Recording(b, i)
    <3>1. PICK v \in Workers : Holds(v, b) /\ At(v, "record") /\ worker[v].at = i
      BY <2>3 DEF Recording
    <3>2. CASE v # w
      <4>1. worker'[v] = worker[v]
        BY <3>2 DEF KeepsHold
      <4> QED
        BY <1>4, <2>3, <3>1, <4>1 DEF Recording, Holds, Running, At
    <3>3. CASE v = w
      <4>1. Idles(w)
        BY <1>4, <3>1, <3>3 DEF KeepsBooks, Opens, GoesOn, At, Holds, Mine
      <4>2. batch[b].state = Deleted
        BY <3>1, <3>3, <4>1 DEF Idles, RowGone, At, Holds, Mine
      <4> QED
        BY <4>2
    <3> QED
      BY <3>2, <3>3
  <2> QED
    BY <2>1, <2>2, <2>3
<1>5. \/ attempt'[b][i] = attempt[b][i]
      \/ b = Mine(w) /\ \/ i = worker[w].at /\ (GoesOn(w) \/ Judges(w))
                        \/ i = worker'[w].at /\ Opens(w)
  BY DEF KeepsBooks, Idles, SameBooks, Opens, GoesOn, Judges, Opened, Rewritten,
     Judged, OnlyAt
<1> QED
  BY <1>1, <1>2, <1>3, <1>4, <1>5

AccountedInv == \A b \in Batches : Accounted(b)

(* Nothing has completed when the controller first starts. *)
LEMMA InitAccounted == Init => AccountedInv
  BY DEF Init, AccountedInv, Accounted, Unjudged, NoAttemptRow, CompletedRuns

(* Every step keeps completed runs accounted for. *)
LEMMA NextAccounted ==
  ASSUME TypeInv, HolderInv, BooksInv, AccountedInv, [Next]_vars
  PROVE  AccountedInv'
<1> SUFFICES ASSUME NEW b \in Batches, NEW i \in Slots, Unjudged(b, i)'
             PROVE  \/ Recording(b, i)' \/ Caught(b, i)' \/ GivenUp(b)'
                    \/ batch'[b].state = Deleted
  BY DEF AccountedInv, Accounted
<1>1. Unjudged(b, i) =>
        Recording(b, i) \/ Caught(b, i) \/ GivenUp(b) \/ batch[b].state = Deleted
  BY DEF AccountedInv, Accounted
<1>2. CASE GivenUp(b)
  BY <1>2, GivenUpStays
<1>3. CASE batch[b].state = Deleted
  BY <1>3, DeletedStays
<1>4. CASE ~GivenUp(b) /\ batch[b].state # Deleted
  <2>1. CASE QuietBooks
    <3>1. Unjudged(b, i)
      BY <2>1 DEF QuietBooks, SameBooks, Unjudged
    <3> QED
      BY <1>1, <1>4, <2>1, <3>1, QuietKeepsAccounted
  <2>2. CASE \E w \in Workers : KeepsBooks(w) /\ KeepsHold(w)
    <3>1. PICK w \in Workers : KeepsBooks(w) /\ KeepsHold(w)
      BY <2>2
    <3>2. ~Caught(b, i)
      BY <3>1 DEF KeepsHold, HolderInv, DownIsQuiet, Up, Caught
    <3> QED
      BY <1>1, <1>4, <3>1, <3>2, WorkerKeepsAccounted
  <2>3. CASE \E c \in Batches : Recover(c)
    <3>1. PICK c \in Batches : Recover(c)
      BY <2>3
    <3>2. Unjudged(b, i)
      <4>1. CASE Keeps(c)
        BY <4>1 DEF Keeps, SameBooks, Unjudged
      <4>2. CASE \E j \in Slots : Settles(c, j)
        <5>1. PICK j \in Slots, verdict \in Verdicts :
                /\ Judged(c, j, verdict)
                /\ attempt'[c][j].run \in CompletedRuns =>
                     attempt'[c][j].run = attempt[c][j].run
          BY <4>2 DEF Settles
        <5>2. CASE b = c /\ i = j
          BY <5>1, <5>2 DEF Judged, Unjudged, ActiveAttemptStates
        <5>3. CASE ~(b = c /\ i = j)
          BY <5>1, <5>3 DEF Judged, OnlyAt, SameBooks, Unjudged
        <5> QED
          BY <5>2, <5>3
      <4> QED
        BY <3>1, <4>1, <4>2, RecoverBooks
    <3> QED
      BY <1>1, <1>4, <3>1, <3>2, RecoverKeepsAccounted
  <2> QED
    BY <2>1, <2>2, <2>3, StepKinds
<1> QED
  BY <1>2, <1>3, <1>4

(* No finished measurement is dropped: once no worker holds a batch that was *)
(* not cancelled, every attempt whose run completed is VALID or INVALID, not *)
(* even a crash between the run's end and the attempt's verdict excepted     *)
(* (_finish_attempt, recover_interrupted_batches).                           *)
THEOREM NothingIsDropped == Spec => []CompletedRunsJudged
<1> DEFINE Inv == TypeInv /\ HolderInv /\ BooksInv
<1>1. Inv /\ AccountedInv /\ [Next]_vars => AccountedInv'
  BY NextAccounted
<1>2. Inv /\ AccountedInv => CompletedRunsJudged
  BY DEF AccountedInv, Accounted, Unjudged, Recording, Caught, GivenUp, Holds,
     Bound, Up, CompletedRunsJudged
<1> HIDE DEF Inv
<1>3. Spec => []Inv
  BY BooksInvariant DEF Inv
<1> QED
  BY <1>1, <1>2, <1>3, InitAccounted, PTL DEF Spec

-----------------------------------------------------------------------------
(* Interrupted measurements.  An attempt that has a verdict while its run is *)
(* live belongs to a batch that was cancelled by the recovery, or deleted.   *)
Abandoned(b, i) ==
  /\ attempt[b][i].run = "LIVE"
  /\ attempt[b][i].state \notin ActiveAttemptStates

AbandonedInv ==
  \A b \in Batches, i \in Slots :
    Abandoned(b, i) => GivenUp(b) \/ batch[b].state = Deleted

(* A worker never gives a verdict on a live run, nor begins with one. *)
LEMMA WorkerAbandonsNothing ==
  ASSUME TypeInv, BooksInv, NEW w \in Workers, KeepsBooks(w),
         NEW b \in Batches, NEW i \in Slots, Abandoned(b, i)'
  PROVE  Abandoned(b, i)
<1>1. CASE attempt'[b][i] = attempt[b][i]
  BY <1>1 DEF Abandoned
<1>2. CASE Opens(w) /\ b = Mine(w) /\ i = worker'[w].at
  <2>1. attempt[b] \in [Slots -> AttemptRow]
    BY DEF TypeInv, AttemptType
  <2>2. attempt'[b][i].state = "CHECKING_PRECONDITIONS"
    BY <1>2, <2>1 DEF Opens, Opened, AttemptRow
  <2> QED
    BY <2>2 DEF Abandoned, ActiveAttemptStates
<1>3. CASE GoesOn(w) /\ b = Mine(w) /\ i = worker[w].at
  BY <1>3 DEF GoesOn, Rewritten, Abandoned
<1>4. CASE Judges(w) /\ b = Mine(w) /\ i = worker[w].at
  <2>1. worker[w].pc \in Working \ {"execute"} /\ attempt'[b][i].run = attempt[b][i].run
    BY <1>4 DEF Judges
  <2>2. attempt[b][i] \in RowAt[worker[w].pc]
    BY <1>4, <2>1 DEF BooksInv, AtHand, Mine
  <2>3. attempt[b][i].run # "LIVE"
    BY <2>1, <2>2, RowAtDomain DEF Working, FinishedRuns
  <2> QED
    BY <2>1, <2>3 DEF Abandoned
<1>5. CASE Idles(w)
  BY <1>1, <1>5 DEF Idles, SameBooks
<1>6. ASSUME NEW at \in Slots, OnlyAt(Mine(w), at), b # Mine(w) \/ i # at
      PROVE  attempt'[b][i] = attempt[b][i]
  BY <1>6 DEF OnlyAt, SameBooks
<1>7. CASE Opens(w)
  BY <1>1, <1>2, <1>6, <1>7 DEF Opens, Opened
<1>8. CASE GoesOn(w)
  BY <1>1, <1>3, <1>6, <1>8 DEF GoesOn, Rewritten
<1>9. CASE Judges(w)
  BY <1>1, <1>4, <1>6, <1>9 DEF Judges, Judged
<1> QED
  BY <1>5, <1>7, <1>8, <1>9 DEF KeepsBooks

(* A recovery that pauses a batch writes the row of the newest active        *)
(* attempt, if that points to a run, and ends its run.                       *)
LEMMA PausedRow ==
  ASSUME TypeInv, NEW c \in Batches, RecoverPaused(c)
  PROVE  LET n == Newest(ActiveAttempts(c)) IN
         \/ UNCHANGED attempt /\ (ActiveAttempts(c) = {} \/ attempt[c][n].run \notin LinkedRuns)
         \/ /\ n \in Slots /\ attempt'[c][n].run # "LIVE"
            /\ \A d \in Batches : d # c => attempt'[d] = attempt[d]
            /\ \A j \in Slots : j # n => attempt'[c][j] = attempt[c][j]
<1> DEFINE n == Newest(ActiveAttempts(c))
           run == attempt[c][n].run
           settled == ActiveAttempts(c) # {} /\ run \in LinkedRuns
           verdict == IF run \in CompletedRuns THEN VerdictOn(run) ELSE "FAILED"
<1>1. CASE ~settled
  BY <1>1 DEF RecoverPaused
<1>2. CASE settled
  <2>1. attempt' = [attempt EXCEPT
                     ![c][n].state = verdict,
                     ![c][n].run = IF @ = "LIVE" THEN "INTERRUPTED" ELSE @]
    BY <1>2 DEF RecoverPaused
  <2>2. n \in Slots
    BY <1>2, NewestIsActive DEF TypeInv, ActiveAttempts
  <2>3. AttemptType
    BY DEF TypeInv
  <2>4. /\ attempt'[c][n].state = verdict
        /\ attempt'[c][n].run = IF run = "LIVE" THEN "INTERRUPTED" ELSE run
        /\ \A d \in Batches : d # c => attempt'[d] = attempt[d]
        /\ \A j \in Slots : j # n => attempt'[c][j] = attempt[c][j]
    <3> HIDE DEF verdict
    <3> QED
      BY <2>1, <2>2, <2>3, BothWritten, ZenonT(40)
  <2> QED
    BY <2>2, <2>4
<1> QED
  BY <1>1, <1>2

(* The recovery writes the row of the newest active attempt, and where it    *)
(* does not end its run, the batch is cancelled.                             *)
LEMMA RecoverAbandonsToo ==
  ASSUME TypeInv, HolderInv, NEW c \in Batches, Recover(c),
         NEW b \in Batches, NEW i \in Slots, Abandoned(b, i)'
  PROVE  Abandoned(b, i) \/ GivenUp(b)'
<1> DEFINE n == Newest(ActiveAttempts(c))
<1>0. attempt \in [Batches -> [Slots -> AttemptRow]] /\ AttemptType /\ BatchType
  BY DEF TypeInv, AttemptType
<1>1. CASE attempt'[b][i] = attempt[b][i]
  BY <1>1 DEF Abandoned
<1>2. CASE RecoverCancelled(c) /\ attempt'[b][i] # attempt[b][i]
  <2>1. b = c
    BY <1>0, <1>2 DEF RecoverCancelled
  <2>2. batch'[b].state = "CANCELLED"
    BY <1>0, <1>2, <2>1 DEF RecoverCancelled, SetState, BatchType, CounterRow
  <2>3. /\ \A w \in Workers : worker'[w].pc = "none"
        /\ \A t \in Threads : request'[t].pc = "idle"
    BY <1>2 DEF Recover, RecoverCancelled, Up, HolderInv, DownIsQuiet
  <2> QED
    BY <2>2, <2>3 DEF GivenUp, Holds, Running
<1>3. CASE RecoverPaused(c) /\ attempt'[b][i] # attempt[b][i]
  <2>1. attempt'[c][n].run # "LIVE"
        /\ (\A d \in Batches : d # c => attempt'[d] = attempt[d])
        /\ \A j \in Slots : j # n => attempt'[c][j] = attempt[c][j]
    BY <1>3, PausedRow
  <2>2. b = c /\ i = n
    BY <1>3, <2>1
  <2> QED
    BY <2>1, <2>2 DEF Abandoned
<1>4. CASE RecoverNothing(c)
  BY <1>4 DEF RecoverNothing, Abandoned
<1> QED
  BY <1>1, <1>2, <1>3, <1>4 DEF Recover

(* Every step keeps it so: a batch that was given up stays so. *)
LEMMA NextAbandoned ==
  ASSUME TypeInv, HolderInv, BooksInv, AbandonedInv, [Next]_vars
  PROVE  AbandonedInv'
<1> SUFFICES ASSUME NEW b \in Batches, NEW i \in Slots, Abandoned(b, i)'
             PROVE  GivenUp(b)' \/ batch'[b].state = Deleted
  BY DEF AbandonedInv
<1>1. CASE Abandoned(b, i)
  BY <1>1, GivenUpStays, DeletedStays DEF AbandonedInv
<1>2. CASE QuietBooks
  BY <1>1, <1>2 DEF QuietBooks, SameBooks, Abandoned
<1>3. CASE \E w \in Workers : KeepsBooks(w)
  BY <1>1, <1>3, WorkerAbandonsNothing
<1>4. CASE \E c \in Batches : Recover(c)
  BY <1>1, <1>4, RecoverAbandonsToo
<1> QED
  BY <1>2, <1>3, <1>4, StepKinds

(* A batch that the recovery pauses: its live run is that of the newest      *)
(* attempt that is active, which it ends.                                    *)
LEMMA RecoveredRunEnds ==
  ASSUME TypeInv, BooksInv, AbandonedInv, NEW b \in Batches, Recover(b),
         batch'[b].state = "PAUSED", NEW i \in Slots
  PROVE  attempt'[b][i].run # "LIVE"
<1> DEFINE n == Newest(ActiveAttempts(b))
<1>1. RecoverPaused(b)
  <2>1. ~RecoverNothing(b)
    BY DEF RecoverNothing, TerminalBatchStates, Deleted
  <2>2. ~RecoverCancelled(b)
    BY DEF RecoverCancelled, SetState, TypeInv, BatchType, CounterRow
  <2> QED
    BY <2>1, <2>2 DEF Recover
<1>2. SUFFICES ASSUME attempt'[b][i].run = "LIVE" PROVE FALSE
  OBVIOUS
<1>3. \/ UNCHANGED attempt /\ (ActiveAttempts(b) = {} \/ attempt[b][n].run \notin LinkedRuns)
      \/ i # n /\ attempt'[b][i] = attempt[b][i]
  BY <1>1, <1>2, PausedRow
<1>4. attempt[b][i].run = "LIVE"
  BY <1>2, <1>3
<1>5. ~Abandoned(b, i)
  BY <1>1 DEF AbandonedInv, GivenUp, RecoverPaused, Deleted
<1>6. i \in Live(b)
  BY <1>4, <1>5 DEF Live, Abandoned, LinkedRuns
<1>7. i \in ActiveAttempts(b) /\ n = i
  BY <1>6, NewestIsLast DEF BooksInv
<1> QED
  BY <1>3, <1>4, <1>7 DEF LinkedRuns

(* A restart leaves no run of a batch it pauses in a live state, whatever    *)
(* attempts earlier crashes have left active (recover_interrupted_batches).  *)
THEOREM InterruptedRunsEnd == Spec => PausedRunsInterrupted
<1> DEFINE Inv == TypeInv /\ HolderInv /\ BooksInv /\ AbandonedInv
           Ended == \A b \in unrecovered \ unrecovered' :
                      batch'[b].state = "PAUSED"
                        => \A i \in Slots : attempt'[b][i].run # "LIVE"
<1>1. Init => AbandonedInv
  BY DEF Init, AbandonedInv, Abandoned, NoAttemptRow
<1>2. TypeInv /\ HolderInv /\ BooksInv /\ AbandonedInv /\ [Next]_vars => AbandonedInv'
  BY NextAbandoned
<1>3. Inv /\ [Next]_vars => [Ended]_unrecovered
  <2> SUFFICES ASSUME Inv, [Next]_vars, NEW b \in unrecovered \ unrecovered',
                      batch'[b].state = "PAUSED", NEW i \in Slots
               PROVE  attempt'[b][i].run # "LIVE"
    OBVIOUS
  <2>1. b \in Batches
    BY DEF TypeInv, OtherTypes
  <2>2. CASE QuietBooks
    BY <2>2 DEF QuietBooks
  <2>3. CASE \E w \in Workers : KeepsHold(w)
    BY <2>3 DEF KeepsHold, HolderInv, DownIsQuiet, Up
  <2>4. CASE \E c \in Batches : Recover(c)
    <3>1. Recover(b)
      BY <2>4 DEF Recover
    <3> QED
      BY <2>1, <3>1, RecoveredRunEnds
  <2> QED
    BY <2>2, <2>3, <2>4, StepKinds
<1>4. Spec => [](TypeInv /\ HolderInv /\ BooksInv)
  BY BooksInvariant
<1>5. Spec => []Inv
  BY <1>1, <1>2, <1>4, PTL DEF Spec
<1> HIDE DEF Inv, Ended
<1>6. Spec => [][Ended]_unrecovered
  BY <1>3, <1>5, PTL DEF Spec
<1> QED
  BY <1>6 DEF PausedRunsInterrupted, Ended

-----------------------------------------------------------------------------
(* One operator, who sends one request at a time, and nothing scheduled.     *)
(* The claim is then made when no worker is left, and the request that a     *)
(* handler has in hand cannot be overtaken by another.                       *)

Busy(w) == worker[w].pc # "none"

OneWorker ==
  /\ \A v, w \in Workers : Busy(v) /\ Busy(w) => v = w
  /\ \A w \in Workers : Busy(w) => registry[worker[w].batch] = w

Alone(c) ==
  /\ due = {}
  /\ \A t \in Threads : t # c => request[t].pc = "idle"
  /\ request[c].pc \in {"claim", "register"} => \A w \in Workers : ~Busy(w)

(* What the handler in progress still knows. *)
Fresh(c) ==
  LET r == request[c] IN
  /\ r.pc = "pause" => r.seen = "RUNNING"
  /\ r.pc = "cancel" =>
       /\ r.seen \notin TerminalBatchStates
       /\ r.event = NoOne => \A w \in Workers : Busy(w) => worker[w].batch # r.batch
  /\ r.pc = "delete" => batch[r.batch].state \in {"DRAFT", "SCHEDULED"}

HeldGoesOn(b) ==
  (\E w \in Workers : Holds(w, b)) \/ (\E t \in Threads : Claimed(t, b))
    => batch[b].state \in ActiveBatchStates \union {Deleted}

LoneInv(c) ==
  OneWorker /\ Alone(c) /\ Fresh(c) /\ \A b \in Batches : HeldGoesOn(b)

(* An operator starts with nothing pending and nothing running. *)
LEMMA InitLone ==
  ASSUME NEW c \in Clients, Clients = {c}, Scheduled = {}, Init
  PROVE  LoneInv(c)
  BY DEF Init, LoneInv, OneWorker, Alone, Fresh, HeldGoesOn, Busy, Holds,
     Running, Claimed, NoWorker, NoRequest, Threads

(* A request that begins: its handler has read the row just now. *)
LEMMA OperatorKeepsLone ==
  ASSUME TypeInv, NEW c \in Threads, LoneInv(c), NEW b \in Batches,
         StartRead(c, b) \/ PauseRead(c, b) \/ CancelRead(c, b) \/ DeleteRead(c, b)
  PROVE  LoneInv(c)'
<1>1. UNCHANGED <<batch, worker, registry, due>>
      /\ \A t \in Threads : t # c => request'[t] = request[t]
  BY DEF StartRead, PauseRead, CancelRead, DeleteRead, Await, TypeInv, RequestType
<1>2. CASE StartRead(c, b) \/ CancelRead(c, b)
  <2>1. request'[c].pc \in {"check", "event"}
    BY <1>2 DEF StartRead, CancelRead, Await, NoRequest, TypeInv, RequestType
  <2> QED
    BY <1>1, <2>1
       DEF LoneInv, OneWorker, Alone, Fresh, HeldGoesOn, Busy, Holds, Running,
           Claimed
<1>3. CASE PauseRead(c, b)
  <2>1. request'[c].pc = "pause" /\ request'[c].seen = "RUNNING"
    BY <1>3 DEF PauseRead, Await, NoRequest, TypeInv, RequestType
  <2> QED
    BY <1>1, <2>1
       DEF LoneInv, OneWorker, Alone, Fresh, HeldGoesOn, Busy, Holds, Running,
           Claimed
<1>4. CASE DeleteRead(c, b)
  <2>1. request'[c].pc = "delete" /\ request'[c].batch = b
        /\ batch[b].state \in {"DRAFT", "SCHEDULED"}
    BY <1>4 DEF DeleteRead, Await, NoRequest, TypeInv, RequestType
  <2> QED
    BY <1>1, <2>1
       DEF LoneInv, OneWorker, Alone, Fresh, HeldGoesOn, Busy, Holds, Running,
           Claimed
<1> QED
  BY <1>2, <1>3, <1>4

(* A write by a handler that is then done. *)
LEMMA AnswerKeepsLone ==
  ASSUME TypeInv, NEW c \in Threads, LoneInv(c), Answer(c),
         UNCHANGED <<worker, registry, due>>,
         \A b \in Batches :
           \/ batch'[b].state = batch[b].state
           \/ batch'[b].state \in ActiveBatchStates \union {Deleted}
           \/ \A w \in Workers : Busy(w) => worker[w].batch # b
  PROVE  LoneInv(c)'
<1>1. request'[c].pc = "idle" /\ \A t \in Threads : t # c => request'[t] = request[t]
  BY DEF Answer, Await, NoRequest, TypeInv, RequestType
<1>2. OneWorker' /\ Alone(c)' /\ Fresh(c)'
  BY <1>1 DEF LoneInv, OneWorker, Alone, Fresh, Busy
<1>3. ASSUME NEW b \in Batches PROVE HeldGoesOn(b)'
  <2>1. \A t \in Threads : ~Claimed(t, b)'
    BY <1>1 DEF Claimed, LoneInv, Alone
  <2>2. \A w \in Workers : Holds(w, b)' => Holds(w, b) /\ Busy(w)
    BY DEF Holds, Running, Busy
  <2> QED
    BY <2>1, <2>2 DEF LoneInv, HeldGoesOn, Holds
<1> QED
  BY <1>2, <1>3 DEF LoneInv

(* The operator's own requests keep it so ... *)
LEMMA HandlerKeepsLone ==
  ASSUME TypeInv, HolderInv, NEW c \in Threads, LoneInv(c), HandlerStep(c)
  PROVE  LoneInv(c)'
<1> DEFINE r == request[c]
           b == r.batch
<1>0. b \in Batches
  BY DEF HandlerStep, StartCheck, Claim, Register, PauseWrite, CancelEvent,
     CancelWrite, DeleteWrite, Pending, TypeInv, RequestType
<1>1. UNCHANGED due /\ \A t \in Threads : t # c => request'[t] = request[t]
  BY DEF HandlerStep, StartCheck, Claim, Register, PauseWrite, CancelEvent,
     CancelWrite, DeleteWrite, Answer, Await, TypeInv, RequestType
<1>2. CASE StartCheck(c) /\ NoneRegistered /\ NoneActive
  <2>1. UNCHANGED <<batch, worker, registry>>
        /\ request' = [request EXCEPT ![c].pc = "claim"]
    BY <1>2 DEF StartCheck
  <2>2. request'[c].pc = "claim"
    BY <2>1 DEF TypeInv, RequestType
  <2>3. \A w \in Workers : ~Busy(w)
    <3>1. \A w \in Workers : Busy(w) => worker[w].batch \in Batches
      BY DEF Busy, TypeInv, WorkerType
    <3>2. NoOne \notin Workers
      BY NoOneAssumption
    <3> QED
      BY <1>2, <3>1, <3>2 DEF LoneInv, OneWorker, NoneRegistered
  <2> QED
    BY <1>1, <2>1, <2>2, <2>3
       DEF LoneInv, OneWorker, Alone, Fresh, HeldGoesOn, Busy, Holds, Running,
           Claimed
<1>3. CASE Claim(c) /\ ClaimMatches(c)
  <2> DEFINE claimed == [NoRequest EXCEPT !.pc = "register", !.batch = b]
  <2>1. SetState(b, "RUNNING") /\ UNCHANGED <<worker, registry>> /\ Await(c, claimed)
    BY <1>3 DEF Claim
  <2>2. claimed.pc = "register" /\ claimed.batch = b
    BY DEF NoRequest
  <2>3. request'[c].pc = "register" /\ request'[c].batch = b
    <3> HIDE DEF claimed
    <3> QED
      BY <2>1, <2>2 DEF Await, TypeInv, RequestType
  <2>4. \A w \in Workers : ~Busy(w)
    BY <1>3 DEF LoneInv, Alone, Claim, Pending
  <2>5. batch'[b].state = "RUNNING"
    BY <1>0, <2>1 DEF SetState, TypeInv, BatchType, CounterRow
  <2>6. ASSUME NEW d \in Batches PROVE HeldGoesOn(d)'
    <3>1. \A w \in Workers : ~Holds(w, d)'
      BY <2>1, <2>4 DEF Busy, Holds, Running
    <3>2. \A t \in Threads : Claimed(t, d)' => d = b
      BY <1>1, <2>3 DEF Claimed, LoneInv, Alone
    <3> QED
      BY <2>5, <3>1, <3>2 DEF HeldGoesOn, ActiveBatchStates
  <2> QED
    BY <1>1, <2>1, <2>3, <2>4, <2>6 DEF LoneInv, OneWorker, Alone, Fresh, Busy
<1>4. CASE Register(c) /\ batch[b].state # Deleted
  <2>1. PICK w \in Workers :
          /\ worker' = [worker EXCEPT ![w].pc = "load", ![w].batch = b]
          /\ registry' = [registry EXCEPT ![b] = w]
    BY <1>4 DEF Register
  <2>2. UNCHANGED batch /\ Claimed(c, b) /\ \A v \in Workers : ~Busy(v)
    BY <1>4 DEF Register, Pending, Claimed, LoneInv, Alone
  <2>3. request'[c].pc = "idle"
    BY <1>4 DEF Register, Answer, Await, NoRequest, TypeInv, RequestType
  <2>4. /\ \A v \in Workers : v # w => ~Busy(v)'
        /\ worker'[w].pc = "load" /\ worker'[w].batch = b /\ registry'[b] = w
    BY <1>0, <2>1, <2>2 DEF Busy, TypeInv, WorkerType, OtherTypes
  <2>5. OneWorker'
    BY <2>4 DEF OneWorker
  <2>6. ASSUME NEW d \in Batches PROVE HeldGoesOn(d)'
    <3>1. \A t \in Threads : ~Claimed(t, d)'
      BY <1>1, <2>3 DEF Claimed, LoneInv, Alone
    <3>2. \A v \in Workers : Holds(v, d)' => d = b
      BY <2>4 DEF Holds, Running, Busy
    <3> QED
      BY <1>0, <2>2, <3>1, <3>2 DEF HeldGoesOn, LoneInv
  <2> QED
    BY <1>1, <2>3, <2>5, <2>6 DEF LoneInv, Alone, Fresh
<1>5. CASE \/ StartCheck(c) /\ ~(NoneRegistered /\ NoneActive)
           \/ Claim(c) /\ ~ClaimMatches(c)
           \/ Register(c) /\ batch[b].state = Deleted
           \/ CancelEvent(c) /\ r.seen \in TerminalBatchStates
  <2>1. Answer(c) /\ UNCHANGED <<batch, worker, registry>>
    BY <1>5 DEF StartCheck, Claim, Register, CancelEvent
  <2> QED
    BY <1>1, <2>1, AnswerKeepsLone
<1>6. CASE CancelEvent(c) /\ r.seen \notin TerminalBatchStates
  <2> DEFINE found == [r EXCEPT !.pc = "cancel", !.event = registry[b]]
  <2>1. Await(c, found) /\ UNCHANGED <<batch, worker, registry>>
    BY <1>6 DEF CancelEvent
  <2>2. /\ found.pc = "cancel" /\ found.event = registry[b] /\ found.seen = r.seen
        /\ found.batch = b
    BY DEF TypeInv, RequestType
  <2>3. request'[c] = found
    <3> HIDE DEF found
    <3> QED
      BY <2>1 DEF Await, TypeInv, RequestType
  <2>4. registry[b] = NoOne => \A w \in Workers : Busy(w) => worker[w].batch # b
    BY NoOneAssumption DEF LoneInv, OneWorker
  <2> HIDE DEF found
  <2>5. OneWorker' /\ Alone(c)'
    BY <1>1, <2>1, <2>2, <2>3 DEF LoneInv, OneWorker, Alone, Busy
  <2>6. Fresh(c)'
    BY <1>6, <2>1, <2>2, <2>3, <2>4 DEF Fresh, Busy
  <2>7. \A d \in Batches : HeldGoesOn(d)'
    BY <1>1, <2>1, <2>2, <2>3 DEF LoneInv, HeldGoesOn, Holds, Running, Claimed
  <2> QED
    BY <2>5, <2>6, <2>7 DEF LoneInv
<1>7. CASE PauseWrite(c) \/ DeleteWrite(c)
  <2>1. Answer(c) /\ UNCHANGED <<worker, registry>>
    BY <1>7 DEF PauseWrite, DeleteWrite
  <2>2. UNCHANGED batch \/ SetState(b, "PAUSE_REQUESTED") \/ SetState(b, Deleted)
    BY <1>7 DEF PauseWrite, DeleteWrite
  <2>3. \A d \in Batches : \/ batch'[d].state = batch[d].state
                           \/ batch'[d].state \in ActiveBatchStates \union {Deleted}
    BY <2>2 DEF SetState, TypeInv, BatchType, CounterRow, ActiveBatchStates
  <2> QED
    BY <1>1, <2>1, <2>3, AnswerKeepsLone
<1>8. CASE CancelWrite(c)
  <2>1. Answer(c) /\ UNCHANGED <<worker, registry>>
    BY <1>8 DEF CancelWrite
  <2>2. \/ UNCHANGED batch \/ SetState(b, "CANCEL_REQUESTED")
        \/ SetState(b, "CANCELLED") /\ r.event = NoOne
    BY <1>8, WriteOverIsSetState DEF CancelWrite, TypeInv
  <2>3. r.event = NoOne => \A w \in Workers : Busy(w) => worker[w].batch # b
    BY <1>8 DEF CancelWrite, Pending, LoneInv, Fresh
  <2>4. \A d \in Batches : \/ batch'[d].state = batch[d].state
                           \/ batch'[d].state \in ActiveBatchStates \union {Deleted}
                           \/ \A w \in Workers : Busy(w) => worker[w].batch # d
    BY <2>2, <2>3 DEF SetState, TypeInv, BatchType, CounterRow, ActiveBatchStates
  <2> QED
    BY <1>1, <2>1, <2>4, AnswerKeepsLone
<1> QED
  BY <1>2, <1>3, <1>4, <1>5, <1>6, <1>7, <1>8 DEF HandlerStep

(* A worker's step; the entry it pops is its own. *)
LEMMA WorkerKeepsRegistry ==
  ASSUME TypeInv, NEW w \in Workers, WorkerStep(w) \/ WakeUp(w) \/ Raise(w)
  PROVE  /\ UNCHANGED due
         /\ \/ UNCHANGED registry
            \/ registry' = [registry EXCEPT ![Mine(w)] = NoOne] /\ worker'[w].pc = "none"
<1>1. CASE Teardown(w)
  BY <1>1 DEF Teardown, NoWorker, TypeInv, WorkerType
<1>2. CASE ~Teardown(w)
  BY <1>2
     DEF WorkerStep, WakeUp, Raise, WorkerFrame, Load, Refresh, Decide,
         BeginAttempt, PreconditionsMet, PreconditionsNotMet,
         PreconditionsCancelled, Abandon, AfterSkip, CreateRun, LinkRun,
         ExecuteRun, RecordAttempt, RecordDrift, PauseForDrift, Review, Poll,
         HandleException, FailBatch
<1> QED
  BY <1>1, <1>2

(* ... so do the steps of the workers ... *)
LEMMA WorkerKeepsLone ==
  ASSUME TypeInv, NEW c \in Threads, LoneInv(c), NEW w \in Workers,
         WorkerStep(w) \/ WakeUp(w) \/ Raise(w)
  PROVE  LoneInv(c)'
<1>1. /\ Busy(w) /\ UNCHANGED request
      /\ \A v \in Workers : v # w => worker'[v] = worker[v]
      /\ Busy(w)' => worker'[w].batch = worker[w].batch
  BY WorkerStepKeepsHold DEF KeepsHold, Busy
<1>2. \A v \in Workers : v # w => ~Busy(v) /\ ~Busy(v)'
  BY <1>1 DEF LoneInv, OneWorker, Busy
<1>3. OneWorker'
  <2>1. Busy(w)' => registry' = registry
    BY WorkerKeepsRegistry DEF Busy
  <2> QED
    BY <1>1, <1>2, <2>1 DEF LoneInv, OneWorker
<1>4. Alone(c)'
  BY <1>1, WorkerKeepsRegistry DEF LoneInv, Alone
<1>5. Fresh(c)'
  <2>1. CASE request[c].pc = "delete"
    <3>1. request[c].batch \in Batches
      BY <2>1 DEF TypeInv, RequestType
    <3>2. ~Holds(w, request[c].batch)
      BY <2>1, <3>1 DEF LoneInv, Fresh, HeldGoesOn, ActiveBatchStates, Deleted
    <3>3. batch'[request[c].batch].state = batch[request[c].batch].state
      BY <3>1, <3>2, WorkerStepKeepsHold DEF KeepsHold
    <3> QED
      BY <1>1, <2>1, <3>3 DEF LoneInv, Fresh
  <2>2. CASE request[c].pc # "delete"
    BY <1>1, <1>2, <2>2 DEF LoneInv, Fresh
  <2> QED
    BY <2>1, <2>2
<1>6. ASSUME NEW b \in Batches PROVE HeldGoesOn(b)'
  <2>1. \A t \in Threads : Claimed(t, b)' <=> Claimed(t, b)
    BY <1>1 DEF Claimed
  <2>2. \A t \in Threads : ~Claimed(t, b)
    BY <1>1 DEF Claimed, LoneInv, Alone
  <2>3. \A v \in Workers : Holds(v, b)' => v = w /\ Holds(w, b)
    BY <1>1, <1>2, WorkerStepKeepsHold DEF KeepsHold, Holds, Running, Busy
  <2>4. CASE Holds(w, b)'
    <3>1. batch'[b].state \in {batch[b].state, "RUNNING"}
      BY <2>4, WorkerStepKeepsHold DEF KeepsHold, Holds, Running
    <3>2. batch[b].state \in ActiveBatchStates \union {Deleted}
      BY <2>3, <2>4 DEF LoneInv, HeldGoesOn
    <3> QED
      BY <3>1, <3>2 DEF HeldGoesOn, ActiveBatchStates
  <2>5. CASE ~Holds(w, b)'
    BY <2>1, <2>2, <2>3, <2>5 DEF HeldGoesOn
  <2> QED
    BY <2>4, <2>5
<1> QED
  BY <1>3, <1>4, <1>5, <1>6 DEF LoneInv

(* ... and every other step. *)
LEMMA NextLone ==
  ASSUME NEW c \in Clients, Clients = {c}, Scheduled = {},
         TypeInv, HolderInv, LoneInv(c), [Next]_vars
  PROVE  LoneInv(c)'
<1>0. c \in Threads
  BY DEF Threads
<1>1. CASE \E d \in Clients : Operator(d)
  BY <1>0, <1>1, OperatorKeepsLone DEF Operator
<1>2. CASE SchedulerTick
  BY <1>2 DEF SchedulerTick, LoneInv, Alone
<1>3. CASE \E t \in Threads : HandlerStep(t)
  <2>1. PICK t \in Threads : HandlerStep(t)
    BY <1>3
  <2>2. request[t].pc # "idle"
    BY <2>1 DEF HandlerStep, StartCheck, Claim, Register, PauseWrite, CancelEvent,
                CancelWrite, DeleteWrite, Pending
  <2>3. t = c
    BY <2>2 DEF LoneInv, Alone
  <2> QED
    BY <2>1, <2>3, HandlerKeepsLone
<1>4. CASE \E w \in Workers : WorkerStep(w) \/ WakeUp(w) \/ Raise(w)
  BY <1>0, <1>4, WorkerKeepsLone
<1>5. CASE (\E b \in Batches : Recover(b)) \/ Crash
  <2>1. /\ \A w \in Workers : worker'[w].pc = "none"
        /\ \A t \in Threads : request'[t].pc = "idle"
        /\ UNCHANGED due
    <3>1. CASE Crash
      BY <3>1 DEF Crash, NoWorker, NoRequest
    <3>2. CASE \E b \in Batches : Recover(b)
      BY <3>2
         DEF Recover, RecoverNothing, RecoverCancelled, RecoverPaused, Up,
             HolderInv, DownIsQuiet
    <3> QED
      BY <1>5, <3>1, <3>2
  <2> QED
    BY <1>0, <2>1
       DEF LoneInv, OneWorker, Alone, Fresh, HeldGoesOn, Busy, Holds, Running,
           Claimed
<1>6. CASE \/ \E b \in Batches : StartTimeComes(b) \/ DeadlinePasses(b)
           \/ CodeChanges
           \/ UNCHANGED vars
  <2>1. UNCHANGED <<batch, worker, registry, request, due>>
    BY <1>6 DEF StartTimeComes, DeadlinePasses, CodeChanges, vars
  <2> QED
    BY <2>1
       DEF LoneInv, OneWorker, Alone, Fresh, HeldGoesOn, Busy, Holds, Running,
           Claimed
<1> QED
  BY <1>1, <1>2, <1>3, <1>4, <1>5, <1>6 DEF Next, Environment

(* With one operator and nothing scheduled the invariant always holds. *)
LEMMA LoneInvariant ==
  ASSUME NEW c \in Clients, Clients = {c}, Scheduled = {}
  PROVE  Spec => [](TypeInv /\ HolderInv /\ LoneInv(c))
<1> DEFINE Inv == TypeInv /\ HolderInv
<1>1. Init => LoneInv(c)
  BY InitLone
<1>2. Inv /\ LoneInv(c) /\ [Next]_vars => LoneInv(c)'
  BY NextLone
<1> HIDE DEF Inv
<1>3. Spec => []Inv
  BY BooksInvariant, PTL DEF Inv
<1>4. Spec => [](Inv /\ LoneInv(c))
  BY <1>1, <1>2, <1>3, PTL DEF Spec
<1> QED
  BY <1>4 DEF Inv

(* The invariant says what the two invariants of the runs say. *)
LEMMA LoneIsExclusive ==
  ASSUME TypeInv, NEW c, LoneInv(c)
  PROVE  LabIsExclusive /\ LoopIsReachable
<1>1. \A v, w \in InLoop : v = w /\ registry[worker[w].batch] = w
  BY DEF InLoop, LoneInv, OneWorker, Busy
<1>2. Cardinality(InLoop) <= 1
  <2>1. CASE InLoop = {}
    BY <2>1, FS_EmptySet
  <2>2. CASE InLoop # {}
    <3>1. PICK w \in InLoop : TRUE
      BY <2>2
    <3>2. InLoop = {w}
      BY <1>1, <3>1
    <3>3. Cardinality({w}) = 1
      BY FS_Singleton
    <3> QED
      BY <3>2, <3>3
  <2> QED
    BY <2>1, <2>2
<1> QED
  BY <1>1, <1>2 DEF LabIsExclusive, LoopIsReachable

(* What can write over the end of a batch. *)
LEMMA OnlyStaleWrites ==
  ASSUME NEW c \in Clients, Clients = {c}, Scheduled = {},
         TypeInv, HolderInv, LoneInv(c), [Next]_vars, NEW b \in Batches,
         batch[b].state \in TerminalBatchStates, batch'[b].state # batch[b].state
  PROVE  /\ request[c].batch = b
         /\ request[c].pc \in {"pause", "cancel"}
         /\ request[c].seen \notin TerminalBatchStates
<1>0. /\ c \in Threads
      /\ batch[b].state \notin ActiveBatchStates \union StartableStates \union {Deleted}
  BY DEF Threads, TerminalBatchStates, ActiveBatchStates, StartableStates, Deleted
<1>1. CASE \E t \in Threads : HandlerStep(t)
  <2>1. PICK t \in Threads : HandlerStep(t)
    BY <1>1
  <2>2. t = c
    BY <2>1
       DEF LoneInv, Alone, HandlerStep, StartCheck, Claim, Register, PauseWrite,
           CancelEvent, CancelWrite, DeleteWrite, Pending
  <2>3. CASE Claim(c)
    <3>1. ClaimMatches(c) => batch[request[c].batch].state \in StartableStates
      BY <1>0, <2>3 DEF Claim, Pending, ClaimMatches, HolderInv, StartsSawStartable
    <3> QED
      BY <1>0, <2>3, <3>1 DEF Claim, SetState, TypeInv, BatchType
  <2>4. CASE DeleteWrite(c)
    <3>1. batch[request[c].batch].state \in {"DRAFT", "SCHEDULED"}
      BY <2>4 DEF DeleteWrite, Pending, LoneInv, Fresh
    <3> QED
      BY <1>0, <2>4, <3>1
         DEF DeleteWrite, SetState, TypeInv, BatchType, StartableStates
  <2>5. CASE PauseWrite(c) \/ CancelWrite(c)
    <3>1. b = request[c].batch
      BY <2>5 DEF PauseWrite, CancelWrite, SetState, WriteOver, TypeInv, BatchType
    <3> QED
      BY <2>5, <3>1
         DEF PauseWrite, CancelWrite, Pending, LoneInv, Fresh,
             TerminalBatchStates
  <2>6. CASE StartCheck(c) \/ Register(c) \/ CancelEvent(c)
    BY <2>6 DEF StartCheck, Register, CancelEvent
  <2> QED
    BY <2>1, <2>2, <2>3, <2>4, <2>5, <2>6 DEF HandlerStep
<1>2. CASE \E w \in Workers : WorkerStep(w) \/ WakeUp(w) \/ Raise(w)
  <2>1. PICK w \in Workers : Holds(w, b)
    BY <1>2, WorkerStepKeepsHold DEF KeepsHold
  <2> QED
    BY <1>0, <2>1 DEF LoneInv, HeldGoesOn
<1>3. CASE \E d \in Batches : Recover(d)
  BY <1>0, <1>3
     DEF Recover, RecoverNothing, RecoverCancelled, RecoverPaused, SetState,
         TypeInv, BatchType, ActiveBatchStates, StartableStates
<1>4. CASE (\E d \in Clients : Operator(d)) \/ SchedulerTick \/ Environment \/ UNCHANGED vars
  BY <1>4 DEF Operator, SchedulerTick, StartRead, PauseRead, CancelRead, DeleteRead,
              Environment, StartTimeComes, DeadlinePasses, CodeChanges, Crash, vars
<1> QED
  BY <1>1, <1>2, <1>3, <1>4 DEF Next

(* With one operator, who sends one request at a time, and nothing           *)
(* scheduled, at most one thread uses the laboratory (_start_batch_worker),  *)
(* however many batches and workers there are and however often the          *)
(* controller is killed ...                                                  *)
THEOREM OneLab ==
  ASSUME NEW c \in Clients, Clients = {c}, Scheduled = {}
  PROVE  Spec => []LabIsExclusive
<1>1. TypeInv /\ HolderInv /\ LoneInv(c) => LabIsExclusive
  BY LoneIsExclusive
<1> QED
  BY <1>1, LoneInvariant, PTL

(* ... and cancel_test_batch finds the Event of every loop that is running.  *)
THEOREM Reachable ==
  ASSUME NEW c \in Clients, Clients = {c}, Scheduled = {}
  PROVE  Spec => []LoopIsReachable
<1>1. TypeInv /\ HolderInv /\ LoneInv(c) => LoopIsReachable
  BY LoneIsExclusive
<1> QED
  BY <1>1, LoneInvariant, PTL

(* With the same operator, a batch that ended comes back to life only by a   *)
(* late write of a pause or cancel handler that read it before the end:      *)
(* never by a worker, a start, a delete or the recovery.                     *)
THEOREM OnlyStaleRevive ==
  ASSUME NEW c \in Clients, Clients = {c}, Scheduled = {}
  PROVE  Spec => OnlyStaleRequestsRevive
<1> DEFINE Inv == TypeInv /\ HolderInv /\ LoneInv(c)
           Revived == \A b \in Batches :
             batch[b].state \in TerminalBatchStates /\ batch'[b].state # batch[b].state
               => \E t \in Threads :
                    /\ request[t].batch = b
                    /\ request[t].pc \in {"pause", "cancel"}
                    /\ request[t].seen \notin TerminalBatchStates
<1>1. Inv /\ [Next]_vars => [Revived]_batch
  BY OnlyStaleWrites DEF Threads
<1>2. Spec => []Inv
  BY LoneInvariant
<1> HIDE DEF Inv
<1>3. Spec => [][Revived]_batch
  BY <1>1, <1>2, PTL DEF Spec
<1> QED
  BY <1>3 DEF OnlyStaleRequestsRevive

=============================================================================

------------------------------- MODULE LabControl -------------------------------
(***************************************************************************)
(* Lab runs of one controller process: the requests that start and cancel    *)
(* them, LAB_ACTIVE_RUN_ID and LAB_CANCEL_EVENTS with their lock, and the     *)
(* threads that execute them.  What execute_run does is cut down to what the  *)
(* others see of it, the run's row, and the node may list a reservation of    *)
(* any run; module RunEngine has all of it, for one run.  Runs are numbered   *)
(* as they are made.                                                         *)
(*                                                                          *)
(* A definition marked "mutant" is not part of the model: it is the         *)
(* definition below it with a plausible mistake.                            *)
(***************************************************************************)
EXTENDS StageParameters

VARIABLES
  labRun,   \* of each run: its row, its Event, its thread with the state that
            \* is cached there, and whether somebody cancelled it
  active,   \* LAB_ACTIVE_RUN_ID
  request,  \* what each request is in the middle of
  cleared   \* whether a refused request has cleared another's active run

vars == <<labRun, active, request, cleared>>

LabRuns == 1 .. MaxLabRuns
None == 0

-----------------------------------------------------------------------------
(* Rows.  LIVE stands for the states between CREATED and the end, ENDED for  *)
(* COMPLETED and FAILED.                                                     *)

Terminal == {"ENDED", "CANCELLED", "INTERRUPTED", "RECOVERY_REQUIRED"}
NonTerminal == {"CREATED", "LIVE", "CANCEL_REQUESTED"}

Fresh(row, registered, at) ==
  [row |-> row, registered |-> registered, event |-> FALSE, asked |-> FALSE,
   at |-> at, cached |-> "none"]
NotMade == Fresh("none", FALSE, "none")

At(pc, run) == [pc |-> pc, run |-> run, seen |-> "none"]
Idle == At("idle", None)

Await(q, r) == request' = [request EXCEPT ![q] = r]
Answer(q) == Await(q, Idle)

(* A start keeps LAB_LOCK from the check until the run is registered.        *)
Locked == \E q \in Requests : request[q].pc \in {"recover", "create"}

-----------------------------------------------------------------------------
(* lab_start.                                                               *)

LabIsFree == active # None => labRun[active].row \in Terminal

StartCheck(q) ==
  /\ request[q] = Idle /\ ~Locked
  /\ \E r \in LabRuns : labRun[r].row = "none"
  /\ LabIsFree
  /\ active' = None
  /\ Await(q, At("recover", active))
  /\ UNCHANGED <<labRun, cleared>>

Made == {r \in LabRuns : labRun[r].row # "none"}
Unfinished == {r \in LabRuns : labRun[r].row \in NonTerminal}

Marked(runs) ==
  [r \in LabRuns |->
     IF r \in runs THEN [labRun[r] EXCEPT !.row = "INTERRUPTED"] ELSE labRun[r]]

(* _recover_orphaned_lab_reservations: a reservation that the node lists is  *)
(* released, and the rows without an end are marked, but for that of the run *)
(* that was active, which had an end when it was read, if it is listed ...   *)
Recover(q) ==
  /\ request[q].pc = "recover"
  /\ \E listed \in Made \union {None} :
       labRun' = Marked({r \in Unfinished : ~(r = listed /\ r = request[q].run)})
  /\ Await(q, At("create", request[q].run))
  /\ UNCHANGED <<active, cleared>>

(* ... or the node refuses to, and the request ends with that, ...           *)
RecoveryFails(q) ==
  /\ request[q].pc = "recover"
  /\ \E listed \in Made :
       labRun' = [Marked(Unfinished) EXCEPT ![listed].row = "RECOVERY_REQUIRED"]
  /\ Answer(q)
  /\ UNCHANGED <<active, cleared>>

(* ... or does not answer: then nothing is done.                             *)
NodeIsAway(q) ==
  /\ request[q].pc = "recover"
  /\ Await(q, At("create", request[q].run))
  /\ UNCHANGED <<labRun, active, cleared>>

Create(q) ==
  /\ request[q].pc = "create"
  /\ \E r \in LabRuns :
       /\ labRun[r].row = "none" /\ \A other \in 1 .. r - 1 : labRun[other].row # "none"
       /\ labRun' = [labRun EXCEPT ![r] = Fresh("CREATED", TRUE, "none")]
       /\ active' = r
       /\ Await(q, At("launch", r))
  /\ UNCHANGED cleared

(* A profile that is missing, or a plan that is not valid, raises ValueError *)
(* and gives up the lock; then the lock is taken again.                      *)
Refuse(q) ==
  /\ request[q].pc \in {"recover", "create"}
  /\ Await(q, At("refused", request[q].run))
  /\ UNCHANGED <<labRun, active, cleared>>

ClearRefused(q) ==
  /\ request[q].pc = "refused" /\ ~Locked
  /\ IF active \in {None, request[q].run}
       THEN UNCHANGED <<active, cleared>>
       ELSE active' = None /\ cleared' = TRUE
  /\ Answer(q)
  /\ UNCHANGED labRun

Forget(r) ==
  /\ ~Locked
  /\ active' = IF active = r THEN None ELSE active

(* The thread is started, or cannot be.                                      *)
Launch(q) ==
  LET r == request[q].run IN
  /\ request[q].pc = "launch"
  /\ \/ /\ labRun' = [labRun EXCEPT ![r].at = "load"]
        /\ UNCHANGED active
     \/ /\ labRun' = [labRun EXCEPT ![r].registered = FALSE]
        /\ Forget(r)
  /\ Answer(q)
  /\ UNCHANGED cleared

-----------------------------------------------------------------------------
(* cancel_run, and the command line, which knows of no Event.               *)

CancelRead(q, r) ==
  /\ request[q] = Idle
  /\ r \in Made
  /\ \E step \in {"event", "cancel"} :
       Await(q, [pc |-> step, run |-> r, seen |-> labRun[r].row])
  /\ UNCHANGED <<labRun, active, cleared>>

(* Past its last check a thread does not look at its Event any more.         *)
CancelEvent(q) ==
  LET r == request[q].run IN
  /\ request[q].pc = "event" /\ ~Locked
  /\ labRun' = [labRun EXCEPT ![r].event =
                 @ \/ (labRun[r].registered /\ labRun[r].at \in {"none", "load", "goes"})]
  /\ Await(q, [request[q] EXCEPT !.pc = "cancel"])
  /\ UNCHANGED <<active, cleared>>

Asked(r, row) ==
  [row |-> row, registered |-> labRun[r].registered, event |-> labRun[r].event,
   asked |-> TRUE, at |-> labRun[r].at, cached |-> labRun[r].cached]

CancelWrite(q) ==
  LET r == request[q].run
      seen == request[q].seen
  IN
  /\ request[q].pc = "cancel"
  /\ labRun' = CASE seen = "CREATED" -> [labRun EXCEPT ![r] = Asked(r, "CANCELLED")]
                 [] seen = "LIVE" -> [labRun EXCEPT ![r] = Asked(r, "CANCEL_REQUESTED")]
                 [] OTHER -> labRun
  /\ Answer(q)
  /\ UNCHANGED <<active, cleared>>

-----------------------------------------------------------------------------
(* The thread of a run: _run_lab_background around execute_run.              *)

ThreadStep(r, from, change) ==
  /\ labRun[r].at = from
  /\ labRun' = [labRun EXCEPT ![r] = change]

Going(r, row, cached) ==
  [row |-> row, registered |-> labRun[r].registered, event |-> labRun[r].event,
   asked |-> labRun[r].asked, at |-> "goes", cached |-> cached]

Load(r) ==
  /\ ThreadStep(r, "load", Going(r, labRun[r].row, labRun[r].row))
  /\ UNCHANGED <<active, request, cleared>>

(* The end of execute_run, with the row as it leaves it.                     *)
Ends(r, row) == Fresh(row, labRun[r].registered, "ends")

(* A transition goes by the cached state; a terminal one lets none through,  *)
(* not even to FAILED.                                                       *)
Transition(r) ==
  /\ ThreadStep(r, "goes",
       IF labRun[r].cached \in {"CREATED", "LIVE"} THEN Going(r, "LIVE", "LIVE")
                                                   ELSE Ends(r, labRun[r].row))
  /\ UNCHANGED <<active, request, cleared>>

CancelSeen(r) == labRun[r].event \/ labRun[r].row = "CANCEL_REQUESTED"

Check(r) ==
  /\ labRun[r].cached # "CREATED" /\ ~CancelSeen(r)
  /\ ThreadStep(r, "goes", Going(r, labRun[r].row, labRun[r].row))
  /\ UNCHANGED <<active, request, cleared>>

CleanUp(r) ==
  /\ labRun[r].cached # "CREATED" /\ CancelSeen(r)
  /\ ThreadStep(r, "goes",
       Ends(r, IF labRun[r].row \in Terminal THEN labRun[r].row ELSE "CANCELLED"))
  /\ UNCHANGED <<active, request, cleared>>

(* Any step may fail, and the last one completes the run.                    *)
Conclude(r) ==
  /\ ThreadStep(r, "goes",
       Ends(r, IF labRun[r].cached = "LIVE" THEN "ENDED" ELSE labRun[r].row))
  /\ UNCHANGED <<active, request, cleared>>

ForgetAny(r) ==                                                   \* mutant
  /\ ThreadStep(r, "ends", Fresh(labRun[r].row, FALSE, "over"))
  /\ ~Locked
  /\ active' = None
  /\ UNCHANGED <<request, cleared>>
Teardown(r) ==
  /\ ThreadStep(r, "ends", Fresh(labRun[r].row, FALSE, "over"))
  /\ Forget(r)
  /\ UNCHANGED <<request, cleared>>

-----------------------------------------------------------------------------
Init ==
  /\ labRun = [r \in LabRuns |-> NotMade]
  /\ active = None
  /\ request = [q \in Requests |-> Idle]
  /\ cleared = FALSE

RequestStep(q) ==
  \/ StartCheck(q) \/ Recover(q) \/ RecoveryFails(q) \/ NodeIsAway(q)
  \/ Create(q) \/ Refuse(q) \/ ClearRefused(q) \/ Launch(q)
  \/ \E r \in LabRuns : CancelRead(q, r)
  \/ CancelEvent(q) \/ CancelWrite(q)

RunStep(r) ==
  \/ Load(r) \/ Transition(r) \/ Check(r) \/ CleanUp(r)
  \/ Conclude(r) \/ Teardown(r)

(* What comes after a refused request has cleared the id is not followed.    *)
Next ==
  /\ ~cleared
  /\ \/ \E q \in Requests : RequestStep(q)
     \/ \E r \in LabRuns : RunStep(r)

Spec == Init /\ [][Next]_vars

-----------------------------------------------------------------------------
(* Properties.                                                              *)

Rows == Terminal \union NonTerminal \union {"none"}

RunType ==
  [row : Rows, registered : BOOLEAN, event : BOOLEAN, asked : BOOLEAN,
   at : {"none", "load", "goes", "ends", "over"}, cached : Rows]

RequestType ==
  [pc : {"idle", "recover", "create", "refused", "launch", "event", "cancel"},
   run : LabRuns \union {None}, seen : Rows]

TypeOK ==
  /\ labRun \in [LabRuns -> RunType]
  /\ active \in LabRuns \union {None}
  /\ request \in [Requests -> RequestType]
  /\ cleared \in BOOLEAN

Goes(r) == labRun[r].at \in {"load", "goes"}

(* A lab run that nobody cancelled has the lab for itself while its thread   *)
(* goes: no later start marks its row or measures beside it, but for the     *)
(* thread of a run that was cancelled and has yet to see it; and whoever     *)
(* wants to start or to cancel finds it.  Only a request that is refused for *)
(* its data may take its place away.                                         *)
LabIsUndisturbed ==
  cleared \/
    \A r \in LabRuns : Goes(r) /\ ~labRun[r].asked =>
      /\ labRun[r].row \in {"CREATED", "LIVE"}
      /\ active = r /\ labRun[r].registered
      /\ \A other \in LabRuns \ {r} : Goes(other) => labRun[other].asked
=============================================================================

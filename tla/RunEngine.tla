------------------------------ MODULE RunEngine ------------------------------
(***************************************************************************)
(* One run of jobs/engine.py: the thread inside execute_run, the thread     *)
(* that renews the test node's reservation, the handlers that cancel, the   *)
(* restart of the controller and the recovery of orphaned lab runs.         *)
(*                                                                          *)
(* execute_run is a fixed sequence of steps for a given plan, Script below.  *)
(* `cached' is the run's state in the worker's session: transition checks    *)
(* and overwrites by it, and only a cancel check reads the row again.        *)
(*                                                                          *)
(* A definition marked "mutant" is not part of the model: it is the         *)
(* definition below it with a plausible mistake.                            *)
(***************************************************************************)
EXTENDS Naturals, Sequences, RunStates

CONSTANTS
  Clients,     \* threads, or command lines, that cancel the run
  Recovery,    \* the thread that recovers orphans: startup or lab_start
  UdpPattern,  \* "beginning", "after_each_tcp" or "end"
  Rounds,      \* number of TCP rounds
  Waits,       \* whether the protocol's waiting times are above zero
  LiveRouter,  \* whether the router must give live evidence
  Kinds,       \* the kinds of runs considered, see RunKinds
  NodeFaults,  \* whether calls to the test node may fail or lose the answer
  Crashes      \* whether the controller process may be killed

(* A run started by lab_start, by run_batch, or by POST /api/v1/runs and the *)
(* command line, which pass no cancel Event on.                              *)
RunKinds == {"lab", "batch", "direct"}

ASSUME PlanAssumption ==
  /\ UdpPattern \in {"beginning", "after_each_tcp", "end"}
  /\ Rounds \in Nat \ {0}
  /\ Kinds \subseteq RunKinds
  /\ {Waits, LiveRouter, NodeFaults, Crashes} \subseteq BOOLEAN

ASSUME RecoveryAssumption == Recovery \notin Clients

VARIABLES
  row,      \* the run's row: its kind, state and comparison eligibility
  engine,   \* the thread inside execute_run
  renewal,  \* the thread of ReservationRenewalMonitor
  event,    \* whether the run's cancel Event is set
  node,     \* whether the test node holds a reservation of this run
  request,  \* what each client, or the recovery, is in the middle of
  up        \* whether the controller process runs

vars == <<row, engine, renewal, event, node, request, up>>

-----------------------------------------------------------------------------
(* The steps of execute_run.                                                *)

To(state) == [does |-> "transition", what |-> state]
Work(name) == [does |-> "work", what |-> name]
Stage(name) == [does |-> "stage", what |-> name]
Reserving == [does |-> "reserve", what |-> "node"]
Judging == [does |-> "judge", what |-> "evidence"]
CancelCheck == [does |-> "check", what |-> "cancelled"]
LostCheck == [does |-> "check", what |-> "lost"]

Checks == <<LostCheck, CancelCheck>>

(* _execute_protocol_wait checks again and again; what its last checks see   *)
(* is what counts.                                                           *)
Wait == IF Waits THEN Checks ELSE << >>

UdpWhen(pattern) ==
  IF UdpPattern = pattern THEN <<Stage("udp")>> \o Checks ELSE << >>

Round(n) ==
  Checks \o (IF n = 1 THEN Wait ELSE << >>)
         \o <<Stage("tcp")>> \o Checks
         \o (IF n < Rounds THEN Wait ELSE << >>)
         \o UdpWhen("after_each_tcp")

TcpRounds[n \in 0 .. Rounds] ==
  IF n = 0 THEN << >> ELSE TcpRounds[n - 1] \o Round(n)

Preparation ==
  <<To("PREFLIGHT"), Work("server"), CancelCheck, CancelCheck,
    Work("preflight"), CancelCheck,
    To("VERIFYING_PATHS"), Work("paths"), CancelCheck,
    To("WARMING_UP"), Reserving>>

Traffic ==
  Checks \o <<Stage("latency"), CancelCheck>>
         \o UdpWhen("beginning") \o TcpRounds[Rounds] \o UdpWhen("end") \o Wait
         \o <<Stage("video")>> \o Checks \o Wait

Conclusion ==
  <<To("COOLING_DOWN"), To("ANALYZING"), Judging, To("GENERATING_REPORT")>>

Script == Preparation \o <<To("RUNNING")>> \o Traffic \o Conclusion

-----------------------------------------------------------------------------
Threads == Clients \union {Recovery}

NoRequest == [pc |-> "idle", seen |-> "CREATED", listed |-> FALSE]
Await(t, r) == request' = [request EXCEPT ![t] = r]
Answer(t) == Await(t, NoRequest)

At(place) == engine.at = place
Go(place) == engine' = [engine EXCEPT !.at = place]
Doing(kind) == At("script") /\ Script[engine.step].does = kind

AfterLast(e) == [e EXCEPT !.step = @ + 1]                         \* mutant
(* The next step, or the finally clause after the last one.                  *)
After(e) ==
  IF e.step < Len(Script) THEN [e EXCEPT !.step = @ + 1]
                          ELSE [e EXCEPT !.at = "finally"]

Proceed == engine' = After(engine)
TransitionAllowed(target) == target \in AllowedTransitions[engine.cached]

(* transition: ValueError leads to `otherwise'.                              *)
Transition(target, next, otherwise) ==
  IF TransitionAllowed(target)
    THEN /\ row' = [row EXCEPT !.state = target]
         /\ engine' = [next EXCEPT !.cached = target]
    ELSE /\ Go(otherwise)
         /\ UNCHANGED row

EngineFrame == UNCHANGED <<event, request, up>>
EngineOnly == UNCHANGED <<renewal, node>> /\ EngineFrame

TransitionStep ==
  /\ Doing("transition")
  /\ Transition(Script[engine.step].what, After(engine), "failed")
  /\ EngineOnly

(* Router checks and look-ups succeed or raise; preflight and path           *)
(* verification can also report a failed check, which is FAILED too.         *)
WorkStep ==
  /\ Doing("work")
  /\ Proceed \/ Go("failed")
  /\ UNCHANGED row
  /\ EngineOnly

(* A traffic stage looks at the cancel tokens itself and returns early; it   *)
(* does not say so.                                                          *)
StageStep ==
  /\ Doing("stage")
  /\ Proceed \/ Go("failed")
  /\ UNCHANGED row
  /\ EngineOnly

(* _raise_if_cancelled reads the row only when the Event is not set.         *)
RowOnly == FALSE                                                  \* mutant
EventSet == event

CancelCheckStep ==
  /\ Doing("check")
  /\ Script[engine.step] = CancelCheck
  /\ IF EventSet \/ row.state = "CANCEL_REQUESTED"
       THEN Go("cancelled")
       ELSE engine' = [After(engine) EXCEPT !.cached = row.state]
  /\ UNCHANGED row
  /\ EngineOnly

NeverLost == FALSE                                                \* mutant
ReservationLost == renewal = "failed"

LostCheckStep ==
  /\ Doing("check")
  /\ Script[engine.step] = LostCheck
  /\ IF ReservationLost THEN Go("lost") ELSE Proceed
  /\ UNCHANGED row
  /\ EngineOnly

(* _reserve_server, and the renewal thread that is started for it.  A plan   *)
(* may name no test node; the node may refuse; and with an answer that is    *)
(* lost the node holds a reservation nobody knows of.                        *)
ReserveStep ==
  /\ Doing("reserve")
  /\ \/ /\ Proceed
        /\ UNCHANGED <<renewal, node>>
     \/ /\ node = "free"
        /\ engine' = [After(engine) EXCEPT !.holds = "reservation"]
        /\ node' = "ours"
        /\ renewal' = "waiting"
     \/ /\ Go("failed")
        /\ node' \in {node} \union (IF NodeFaults THEN {"ours"} ELSE {})
        /\ UNCHANGED renewal
  /\ UNCHANGED row
  /\ EngineFrame

(* The verdict: evaluate_run_integrity never calls a run without live         *)
(* evidence eligible, and does not look at the renewals.                     *)
JudgeStep ==
  /\ Doing("judge")
  /\ \E live \in BOOLEAN, eligible \in {"YES", "NO"} :
       /\ eligible = "YES" => live
       /\ row' = [row EXCEPT !.eligible = eligible]
       /\ IF ~live /\ LiveRouter THEN Go("failed") ELSE Proceed
  /\ EngineOnly

(* except RunCancelledError: the row is read again, ...                      *)
CleanUp ==
  /\ At("cancelled")
  /\ engine' = [engine EXCEPT !.at = "cleanup", !.cached = row.state]
  /\ UNCHANGED row
  /\ EngineOnly

(* ... and led through what is left of CANCEL_REQUESTED, RESTORING and       *)
(* CANCELLED; a ValueError here leaves execute_run.                          *)
CleanUpAtOnce == "CANCELLED"                                      \* mutant
CleanUpTarget ==
  CASE engine.cached = "CANCEL_REQUESTED" -> "RESTORING"
    [] engine.cached = "RESTORING"        -> "CANCELLED"
    [] OTHER                              -> "CANCEL_REQUESTED"

CleanUpStep ==
  /\ At("cleanup")
  /\ Transition(CleanUpTarget,
                IF CleanUpTarget = "CANCELLED"
                  THEN [engine EXCEPT !.at = "finally"] ELSE engine,
                "finally")
  /\ EngineOnly

(* except ReservationLostError: the exclusion is committed first.            *)
MarkLost ==
  /\ At("lost")
  /\ row' = [row EXCEPT !.eligible = "LOST"]
  /\ Go("failed")
  /\ EngineOnly

FailInSilence ==                                                  \* mutant
  At("failed") /\ Go("finally") /\ UNCHANGED row /\ EngineOnly

(* except Exception, and the failures execute_run finds itself.              *)
Fail ==
  /\ At("failed")
  /\ Transition("FAILED", [engine EXCEPT !.at = "finally"], "finally")
  /\ EngineOnly

RenewForEver ==                                                   \* mutant
  /\ At("finally")
  /\ Go("release")
  /\ UNCHANGED <<row, renewal, node>>
  /\ EngineFrame

(* finally: the renewal thread is stopped, then the reservation given back.  *)
StopRenewal ==
  /\ At("finally")
  /\ Go("release")
  /\ renewal' = IF renewal = "waiting" THEN "stopped" ELSE renewal
  /\ UNCHANGED <<row, node>>
  /\ EngineFrame

KeepOnCancel ==                                                   \* mutant
  /\ At("release")
  /\ IF engine.holds = "reservation" /\ engine.cached # "CANCELLED"
       THEN /\ engine' = [engine EXCEPT !.at = "finish", !.holds = "nothing"]
            /\ node' = "free"
       ELSE Go("finish") /\ UNCHANGED node
  /\ UNCHANGED <<row, renewal>>
  /\ EngineFrame

(* A release that fails is reported as an event of the run, nothing more.    *)
Release ==
  /\ At("release")
  /\ IF engine.holds # "reservation"
       THEN Go("finish") /\ UNCHANGED node
       ELSE \/ /\ engine' = [engine EXCEPT !.at = "finish", !.holds = "nothing"]
               /\ node' = "free"
            \/ /\ NodeFaults
               /\ engine' = [engine EXCEPT !.at = "finish", !.holds = "reported"]
               /\ UNCHANGED node
  /\ UNCHANGED <<row, renewal>>
  /\ EngineFrame

(* Behind the finally clause a report in the making becomes COMPLETED.       *)
Finish ==
  /\ At("finish")
  /\ IF engine.cached = "GENERATING_REPORT"
       THEN Transition("COMPLETED", [engine EXCEPT !.at = "teardown"], "teardown")
       ELSE Go("teardown") /\ UNCHANGED row
  /\ EngineOnly

(* _run_lab_background: nobody finds the Event any more.                     *)
Teardown ==
  /\ At("teardown")
  /\ Go("over")
  /\ event' = FALSE
  /\ UNCHANGED <<row, renewal, node, request, up>>

EngineStep ==
  /\ up
  /\ \/ TransitionStep \/ WorkStep \/ StageStep \/ CancelCheckStep
     \/ LostCheckStep \/ ReserveStep \/ JudgeStep
     \/ CleanUp \/ CleanUpStep \/ MarkLost \/ Fail
     \/ StopRenewal \/ Release \/ Finish \/ Teardown

-----------------------------------------------------------------------------
(* The reservation.                                                         *)

(* A renewal that fails, for whatever reason, ends the thread.               *)
RenewalFails ==
  /\ up
  /\ renewal = "waiting"
  /\ node = "free" \/ NodeFaults
  /\ renewal' = "failed"
  /\ UNCHANGED <<row, engine, event, node, request, up>>

(* The time to live is at least three renewal intervals: a reservation       *)
(* expires only when nobody renews it.                                       *)
Expires ==
  /\ node = "ours"
  /\ renewal # "waiting" \/ ~up
  /\ node' = "free"
  /\ UNCHANGED <<row, engine, renewal, event, request, up>>

(* The test node keeps its reservations in memory.                           *)
NodeRestarts ==
  /\ NodeFaults
  /\ node = "ours"
  /\ node' = "free"
  /\ UNCHANGED <<row, engine, renewal, event, request, up>>

-----------------------------------------------------------------------------
(* Cancelling: the API reads the row, sets the Event of a lab run, and then  *)
(* calls request_cancel; the command line is a process of its own and knows  *)
(* of no Event.                                                              *)

CancelRead(t) ==
  /\ request[t].pc = "idle"
  /\ \E step \in {"event", "command"} :
       /\ step = "event" => up
       /\ Await(t, [NoRequest EXCEPT !.pc = step, !.seen = row.state])
  /\ UNCHANGED <<row, engine, renewal, event, node, up>>

CancelEvent(t) ==
  /\ request[t].pc = "event"
  /\ event' = (event \/ (row.kind = "lab" /\ ~At("over") /\ ~At("dead")))
  /\ Await(t, [request[t] EXCEPT !.pc = "write"])
  /\ UNCHANGED <<row, engine, renewal, node, up>>

SetState(s) == row' = [row EXCEPT !.state = s]

(* A terminal state is left alone; others become CANCEL_REQUESTED, where the *)
(* table allows it from the state that was read.                             *)
CancelTarget(seen) == IF seen = "CREATED" THEN "CANCELLED" ELSE "CANCEL_REQUESTED"

RequestCancel(t) ==
  LET seen == request[t].seen IN
  /\ request[t].pc \in {"write", "command"}
  /\ Answer(t)
  /\ IF /\ seen \notin RunTerminalStates
        /\ CancelTarget(seen) \in AllowedTransitions[seen]
       THEN SetState(CancelTarget(seen))
       ELSE UNCHANGED row
  /\ UNCHANGED <<engine, renewal, event, node, up>>

(* cancel_test_batch sets the Event that run_batch passes on, nothing else.  *)
BatchCancels ==
  /\ up /\ row.kind = "batch"
  /\ ~At("over") /\ ~At("dead")
  /\ event' = TRUE
  /\ UNCHANGED <<row, engine, renewal, node, request, up>>

-----------------------------------------------------------------------------
(* _recover_orphaned_lab_reservations, called by startup and lab_start: the  *)
(* node is asked for its reservations, the run is read, the reservation is   *)
(* released unless the run is another plan's and still alive, and the row of *)
(* a lab run is written by what was read.                                    *)

RunIsOver == At("over") \/ At("dead") \/ row.state \in RunTerminalStates

Recover(seen) ==
  Await(Recovery,
        [pc |-> "recover", seen |-> seen,
         listed |-> node = "ours" /\ (row.kind = "lab" \/ seen \in RunTerminalStates)])

LabStart ==
  /\ up /\ request[Recovery].pc = "idle"
  /\ row.kind = "lab" => RunIsOver
  /\ Recover(row.state)
  /\ UNCHANGED <<row, engine, renewal, event, node, up>>

SetStateIf(condition, s) == IF condition THEN SetState(s) ELSE UNCHANGED row

AnyLabRun(seen) == row.kind = "lab"                                   \* mutant
LiveLabRun(seen) == row.kind = "lab" /\ seen \notin RunTerminalStates

RecoverWrite ==
  LET r == request[Recovery] IN
  /\ r.pc = "recover"
  /\ Answer(Recovery)
  /\ \/ /\ SetStateIf(LiveLabRun(r.seen), "INTERRUPTED")
        /\ node' = IF r.listed THEN "free" ELSE node
     \/ /\ r.listed /\ NodeFaults
        /\ SetStateIf(row.kind = "lab", "RECOVERY_REQUIRED")
        /\ UNCHANGED node
  /\ UNCHANGED <<engine, renewal, event, up>>

(* Killed: the threads and the requests being served are gone.               *)
Crash ==
  /\ Crashes /\ up
  /\ up' = FALSE
  /\ engine' = [engine EXCEPT !.at = "dead"]
  /\ renewal' = IF renewal = "waiting" THEN "stopped" ELSE renewal
  /\ event' = FALSE
  /\ request' = [t \in Threads |->
                   IF request[t].pc = "command" THEN request[t] ELSE NoRequest]
  /\ UNCHANGED <<row, node>>

(* startup: recover_interrupted_batches interrupts the run of a batch, but   *)
(* not of one that was being cancelled; then, if the node answers, the       *)
(* orphans are looked for.                                                   *)
LiveBatchRun == row.kind = "batch" /\ row.state \notin RunTerminalStates

Startup ==
  /\ ~up
  /\ up' = TRUE
  /\ \E pausing \in BOOLEAN : SetStateIf(LiveBatchRun /\ pausing, "INTERRUPTED")
  /\ \/ Recover(row'.state)
     \/ NodeFaults /\ UNCHANGED request
  /\ UNCHANGED <<engine, renewal, event, node>>
-----------------------------------------------------------------------------
Init ==
  /\ row \in [kind : Kinds, state : {"CREATED"}, eligible : {"NO"}]
  /\ engine = [at |-> "script", step |-> 1, cached |-> "CREATED",
               holds |-> "nothing"]
  /\ renewal = "off"
  /\ event = FALSE
  /\ node = "free"
  /\ request = [t \in Threads |-> NoRequest]
  /\ up = TRUE

Operator == BatchCancels \/ LabStart \/ \E t \in Clients : CancelRead(t)

HandlerStep ==
  RecoverWrite \/ \E t \in Clients : CancelEvent(t) \/ RequestCancel(t)

Next ==
  \/ EngineStep \/ RenewalFails \/ Expires \/ NodeRestarts
  \/ Operator \/ HandlerStep \/ Crash \/ Startup

Spec == Init /\ [][Next]_vars

(* Threads and requests that were begun go on, systemd restarts the service  *)
(* (Restart=on-failure), of the recoveries it begins not every one is killed *)
(* in turn, a reservation expires in time.  Nobody has to cancel anything.   *)
Fairness ==
  /\ WF_vars(EngineStep) /\ WF_vars(HandlerStep)
  /\ WF_vars(Expires) /\ WF_vars(Startup) /\ SF_vars(RecoverWrite)

FairSpec == Spec /\ Fairness

-----------------------------------------------------------------------------
(* Properties.                                                              *)

Places == {"script", "cancelled", "cleanup", "lost", "failed", "finally",
           "release", "finish", "teardown", "over", "dead"}

TypeOK ==
  /\ row \in [kind : RunKinds, state : RunStateNames,
              eligible : {"NO", "YES", "LOST"}]
  /\ engine \in [at : Places, step : 1 .. Len(Script), cached : RunStateNames,
                 holds : {"nothing", "reservation", "reported"}]
  /\ renewal \in {"off", "waiting", "failed", "stopped"}
  /\ event \in BOOLEAN
  /\ node \in {"free", "ours"}
  /\ request \in [Threads -> [pc : {"idle", "event", "write", "command", "recover"},
                              seen : RunStateNames, listed : BOOLEAN]]
  /\ up \in BOOLEAN

Ahead(check) ==
  At("script") /\ \E i \in engine.step .. Len(Script) : Script[i] = check

(* A cancel Event set while a check is still ahead is never missed: the run  *)
(* does not complete, whatever the handler's own write of the row does and   *)
(* whichever transition overwrites it.                                       *)
CancelStops ==
  [](event /\ Ahead(CancelCheck) => [](row.state # "COMPLETED"))

(* A renewal that fails while a check is still ahead keeps the run out of    *)
(* the comparisons for good.                                                 *)
LostStops ==
  [](renewal = "failed" /\ Ahead(LostCheck) => [](row.eligible # "YES"))

(* A run that ended, in whatever way, exceptions in its own cleanup          *)
(* included, has given back what it reserved, or reported that it could not. *)
HandedBack == At("over") => engine.holds # "reservation"

(* The test node is free again some time after the run ended or its          *)
(* controller died: nothing goes on renewing the reservation.                *)
NodeComesFree == At("over") \/ At("dead") ~> node = "free"

(* Without cancel requests that write the row, every run ends: by itself or  *)
(* by its Event, and a lab run also when crashes interrupt it.               *)
RunEnds ==
  row.kind = "lab" \/ []up => <>(row.state \in RunTerminalStates)

Lifecycle == INSTANCE RunLifecycle WITH state <- row.state

(* The row moves along the table of states only, and once over it is over.   *)
KeepsLifecycle == Lifecycle!Spec

(* The table: nothing leaves COMPLETED, FAILED, CANCELLED or                 *)
(* RECOVERY_REQUIRED.                                                        *)
EndIsFinal ==
  [][AllowedTransitions[row.state] = {} => row'.state = row.state]_row
=============================================================================

---------------------------- MODULE LabControlProofs ----------------------------
(***************************************************************************)
(* Proof that a lab run nobody cancelled has the lab for itself, for every   *)
(* number of requests and of lab runs.                                      *)
(*                                                                          *)
(* The property speaks of threads that go.  A thread begins when a request   *)
(* launches it, some time after that request has given up the lock, and it   *)
(* must be known that the run is still the active one by then.  So the       *)
(* invariant speaks of runs that are launched or go (HeldIsActive); it adds  *)
(* that one request at a time is behind the lock, with no active run         *)
(* (LockIsOne, LockedIsIdle), and that a run is launched once, before its    *)
(* thread (LaunchIsOne).                                                    *)
(***************************************************************************)
EXTENDS LabControl, TLAPS

Behind(q) == request[q].pc \in {"recover", "create"}

LockIsOne == \A q, p \in Requests : Behind(q) /\ Behind(p) => q = p

LockedIsIdle == \A q \in Requests : Behind(q) => active = None

LaunchIsOne ==
  /\ \A q \in Requests : request[q].pc = "launch" =>
       /\ request[q].run \in LabRuns
       /\ labRun[request[q].run].at = "none"
       /\ labRun[request[q].run].row # "none"
  /\ \A q, p \in Requests :
       request[q].pc = "launch" /\ request[p].pc = "launch"
         /\ request[q].run = request[p].run => q = p

NotMadeIsStill == \A r \in LabRuns : labRun[r].row = "none" => labRun[r].at = "none"

Launching(r) == \E q \in Requests : request[q].pc = "launch" /\ request[q].run = r

Held(r) == (Goes(r) \/ Launching(r)) /\ ~labRun[r].asked

HeldIsActive ==
  \A r \in LabRuns : Held(r) =>
    labRun[r].row \in {"CREATED", "LIVE"} /\ active = r /\ labRun[r].registered

Orderly == LockIsOne /\ LockedIsIdle /\ LaunchIsOne /\ NotMadeIsStill /\ HeldIsActive

LabInv == TypeOK /\ (cleared \/ Orderly)

-----------------------------------------------------------------------------
(* Requests.                                                                *)

LEMMA NoneIsNoRun == None \notin LabRuns
BY DEF None, LabRuns

(* A request that changes no active run, moves no thread, and changes the    *)
(* rows of runs that nobody cancelled only where there is no active one.     *)
LEMMA RequestKeeps ==
  ASSUME LabInv, ~cleared, NEW q \in Requests, NEW x \in RequestType,
         request' = [request EXCEPT ![q] = x],
         x.pc # "launch", x.pc \in {"recover", "create"} => Behind(q),
         labRun' \in [LabRuns -> RunType], active' = active, cleared' \in BOOLEAN,
         \A r \in LabRuns :
           /\ labRun'[r].at = labRun[r].at
           /\ labRun'[r].row = "none" => labRun[r].row = "none"
           /\ ~labRun'[r].asked =>
                /\ ~labRun[r].asked /\ labRun'[r].registered = labRun[r].registered
                /\ labRun'[r].row = labRun[r].row \/ active = None
  PROVE  LabInv'
<1>1. TypeOK'
  BY DEF LabInv, TypeOK
<1>2. Orderly /\ TypeOK
  BY DEF LabInv
<1>3. \A p \in Requests : /\ Behind(p)' => Behind(p)
                          /\ p # q => request'[p] = request[p]
                          /\ request'[p].pc = "launch" => p # q
  BY <1>2 DEF TypeOK, Behind
<1>4. LockIsOne' /\ LockedIsIdle'
  BY <1>2, <1>3 DEF Orderly, LockIsOne, LockedIsIdle
<1>5. LaunchIsOne' /\ NotMadeIsStill'
  BY <1>2, <1>3 DEF Orderly, LaunchIsOne, NotMadeIsStill
<1>6. HeldIsActive'
  <2> SUFFICES ASSUME NEW r \in LabRuns, Held(r)'
               PROVE  /\ labRun'[r].row \in {"CREATED", "LIVE"} /\ active' = r
                      /\ labRun'[r].registered
    BY DEF HeldIsActive
  <2>1. Held(r)
    BY <1>3 DEF Held, Goes, Launching
  <2>2. labRun[r].row \in {"CREATED", "LIVE"} /\ active = r /\ labRun[r].registered
    BY <1>2, <2>1 DEF Orderly, HeldIsActive
  <2> QED BY <2>1, <2>2, NoneIsNoRun DEF Held
<1> QED BY <1>1, <1>4, <1>5, <1>6 DEF LabInv, Orderly

(* Behind the lock: the check, the recovery, the registration.               *)
LEMMA StartCheckKeeps ==
  ASSUME LabInv, ~cleared, NEW q \in Requests, StartCheck(q) PROVE LabInv'
<1> USE DEF At
<1>1. Orderly /\ TypeOK
  BY DEF LabInv
<1>2. \A r \in LabRuns : ~Held(r)
  BY <1>1, NoneIsNoRun DEF Orderly, HeldIsActive, StartCheck, LabIsFree, Terminal
<1>3. request' = [request EXCEPT ![q] = At("recover", active)]
      /\ labRun' = labRun /\ active' = None /\ cleared' = cleared
  BY DEF StartCheck, Await
<1>4. At("recover", active) \in RequestType
  BY <1>1 DEF TypeOK, RequestType, Rows
<1>5. TypeOK'
  BY <1>1, <1>3, <1>4 DEF TypeOK
<1>6. \A p \in Requests : ~Behind(p)
  BY DEF StartCheck, Locked, Behind
<1>7. \A p \in Requests : /\ Behind(p)' => p = q
                          /\ request'[p].pc = "launch" => request'[p] = request[p]
  BY <1>1, <1>3, <1>6 DEF TypeOK, Behind
<1>8. LockIsOne' /\ LockedIsIdle'
  BY <1>3, <1>7 DEF LockIsOne, LockedIsIdle
<1>9. LaunchIsOne' /\ NotMadeIsStill'
  BY <1>1, <1>3, <1>7 DEF Orderly, LaunchIsOne, NotMadeIsStill
<1>10. HeldIsActive'
  BY <1>2, <1>3, <1>7 DEF HeldIsActive, Held, Goes, Launching
<1> QED BY <1>5, <1>8, <1>9, <1>10 DEF LabInv, Orderly

LEMMA RecoveryKeeps ==
  ASSUME LabInv, ~cleared, NEW q \in Requests, Recover(q) \/ RecoveryFails(q)
  PROVE  LabInv'
<1>1. Orderly /\ TypeOK
  BY DEF LabInv
<1>2. Behind(q) /\ active = None
  BY <1>1 DEF Orderly, LockedIsIdle, Behind, Recover, RecoveryFails
<1>3. \A runs : /\ Marked(runs) \in [LabRuns -> RunType]
               /\ \A r \in LabRuns :
                    /\ Marked(runs)[r].at = labRun[r].at
                    /\ Marked(runs)[r].asked = labRun[r].asked
                    /\ Marked(runs)[r].registered = labRun[r].registered
                    /\ r \in runs => Marked(runs)[r].row = "INTERRUPTED"
                    /\ r \notin runs => Marked(runs)[r] = labRun[r]
  BY <1>1 DEF TypeOK, RunType, Marked, Rows, Terminal
<1>4. CASE Recover(q)
  <2>1. PICK runs : labRun' = Marked(runs)
    BY <1>4 DEF Recover
  <2>2. At("create", request[q].run) \in RequestType
    BY <1>1 DEF TypeOK, RequestType, At, Rows
  <2>3. \A r \in LabRuns : labRun'[r].row = "none" => labRun[r].row = "none"
    BY <1>3, <2>1
  <2>4. At("create", request[q].run).pc = "create"
    BY DEF At
  <2>5. \A r \in LabRuns : labRun'[r].at = labRun[r].at
                          /\ labRun'[r].asked = labRun[r].asked
                          /\ labRun'[r].registered = labRun[r].registered
    BY <1>3, <2>1
  <2>6. labRun' \in [LabRuns -> RunType]
    BY <1>3, <2>1
  <2>7. /\ request' = [request EXCEPT ![q] = At("create", request[q].run)]
        /\ active' = active /\ cleared' = cleared
    BY <1>4 DEF Recover, Await
  <2>8. cleared' \in BOOLEAN
    BY <1>1, <2>7 DEF TypeOK
  <2> QED BY <1>2, <2>2, <2>3, <2>4, <2>5, <2>6, <2>7, <2>8, RequestKeeps
<1>5. CASE RecoveryFails(q)
  <2>1. PICK listed \in Made :
          labRun' = [Marked(Unfinished) EXCEPT ![listed].row = "RECOVERY_REQUIRED"]
    BY <1>5 DEF RecoveryFails
  <2> DEFINE marked == Marked(Unfinished)
  <2>2. marked \in [LabRuns -> RunType]
    BY <1>3
  <2>3. "RECOVERY_REQUIRED" \in Rows
    BY DEF Rows, Terminal
  <2>4. /\ labRun' \in [LabRuns -> RunType]
        /\ \A r \in LabRuns : /\ labRun'[r].at = marked[r].at
                              /\ labRun'[r].asked = marked[r].asked
                              /\ labRun'[r].registered = marked[r].registered
                              /\ labRun'[r].row \in {marked[r].row, "RECOVERY_REQUIRED"}
    <3> HIDE DEF marked
    <3>1. labRun' = [marked EXCEPT ![listed].row = "RECOVERY_REQUIRED"]
      BY <2>1 DEF marked
    <3> QED BY <3>1, <2>2, <2>3 DEF RunType
  <2>5. \A r \in LabRuns : /\ labRun'[r].at = labRun[r].at
                           /\ labRun'[r].asked = labRun[r].asked
                           /\ labRun'[r].registered = labRun[r].registered
                           /\ labRun'[r].row = "none" => labRun[r].row = "none"
    BY <1>3, <2>4
  <2>6. Idle \in RequestType
    BY DEF Idle, At, RequestType, Rows
  <2>7. Idle.pc = "idle"
    BY DEF Idle, At
  <2>8. /\ request' = [request EXCEPT ![q] = Idle]
        /\ active' = active /\ cleared' = cleared
    BY <1>5 DEF RecoveryFails, Answer, Await
  <2>9. cleared' \in BOOLEAN
    BY <1>1, <2>8 DEF TypeOK
  <2>10. labRun' \in [LabRuns -> RunType]
    BY <2>4
  <2>11. \A r \in LabRuns :
           /\ labRun'[r].at = labRun[r].at
           /\ labRun'[r].row = "none" => labRun[r].row = "none"
           /\ ~labRun'[r].asked =>
                /\ ~labRun[r].asked /\ labRun'[r].registered = labRun[r].registered
                /\ labRun'[r].row = labRun[r].row \/ active = None
    BY <1>2, <2>5, Zenon
  <2>12. Idle.pc # "launch" /\ (Idle.pc \in {"recover", "create"} => Behind(q))
    BY <2>7
  <2> HIDE DEF marked
  <2> QED BY <2>6, <2>8, <2>9, <2>10, <2>11, <2>12, RequestKeeps
<1> QED BY <1>4, <1>5

LEMMA CreateKeeps ==
  ASSUME LabInv, ~cleared, NEW q \in Requests, Create(q) PROVE LabInv'
<1>1. Orderly /\ TypeOK
  BY DEF LabInv
<1>2. PICK r \in LabRuns :
        /\ labRun[r].row = "none"
        /\ labRun' = [labRun EXCEPT ![r] = Fresh("CREATED", TRUE, "none")]
        /\ active' = r
        /\ request' = [request EXCEPT ![q] = At("launch", r)]
        /\ cleared' = cleared
  BY DEF Create, Await
<1>3. Behind(q) /\ active = None
  BY <1>1 DEF Orderly, LockedIsIdle, Behind, Create
<1>4. At("launch", r) \in RequestType /\ Fresh("CREATED", TRUE, "none") \in RunType
  BY DEF RequestType, RunType, At, Fresh, Rows, NonTerminal
<1>5. TypeOK'
  BY <1>1, <1>2, <1>4 DEF TypeOK
<1>6. request'[q] = At("launch", r) /\ labRun'[r] = Fresh("CREATED", TRUE, "none")
  BY <1>1, <1>2 DEF TypeOK
<1>7. \A p \in Requests : p # q => request'[p] = request[p] /\ ~Behind(p)
  BY <1>1, <1>2, <1>3 DEF TypeOK, Orderly, LockIsOne
<1>8. \A s \in LabRuns : s # r => labRun'[s] = labRun[s]
  BY <1>1, <1>2 DEF TypeOK
<1>9. \A p \in Requests : ~Behind(p)'
  BY <1>6, <1>7 DEF Behind, At
<1>10. LockIsOne' /\ LockedIsIdle'
  BY <1>9 DEF LockIsOne, LockedIsIdle
<1>11. \A p \in Requests : request[p].pc = "launch" => request[p].run # r
  BY <1>1, <1>2 DEF Orderly, LaunchIsOne
<1>12. LaunchIsOne' /\ NotMadeIsStill'
  BY <1>1, <1>6, <1>7, <1>8, <1>11 DEF Orderly, LaunchIsOne, NotMadeIsStill, At, Fresh
<1>13. HeldIsActive'
  <2> SUFFICES ASSUME NEW s \in LabRuns, Held(s)', s # r PROVE FALSE
    BY <1>2, <1>6 DEF HeldIsActive, Fresh
  <2>1. Held(s)
    BY <1>6, <1>7, <1>8 DEF Held, Goes, Launching, At
  <2> QED BY <1>1, <1>3, <2>1, NoneIsNoRun DEF Orderly, HeldIsActive
<1> QED BY <1>5, <1>10, <1>12, <1>13 DEF LabInv, Orderly

(* The rest of a start, and cancels.                                        *)
LEMMA WaitingKeeps ==
  ASSUME LabInv, ~cleared, NEW q \in Requests,
         NodeIsAway(q) \/ Refuse(q) \/ \E r \in LabRuns : CancelRead(q, r)
  PROVE  LabInv'
<1>1. Orderly /\ TypeOK
  BY DEF LabInv
<1>2. UNCHANGED <<labRun, active, cleared>>
  BY DEF NodeIsAway, Refuse, CancelRead
<1>3. \E x \in RequestType :
        /\ request' = [request EXCEPT ![q] = x]
        /\ x.pc # "launch" /\ (x.pc \in {"recover", "create"} => Behind(q))
  <2>1. CASE NodeIsAway(q)
    <3>1. At("create", request[q].run) \in RequestType
      BY <1>1 DEF TypeOK, RequestType, At, Rows
    <3>2. At("create", request[q].run).pc = "create"
      BY DEF At
    <3> QED BY <2>1, <3>1, <3>2 DEF NodeIsAway, Await, Behind
  <2>2. CASE Refuse(q)
    <3>1. At("refused", request[q].run) \in RequestType
      BY <1>1 DEF TypeOK, RequestType, At, Rows
    <3>2. At("refused", request[q].run).pc = "refused"
      BY DEF At
    <3> QED BY <2>2, <3>1, <3>2 DEF Refuse, Await
  <2>3. ASSUME NEW r \in LabRuns, CancelRead(q, r)
        PROVE  \E x \in RequestType :
                 /\ request' = [request EXCEPT ![q] = x]
                 /\ x.pc # "launch" /\ (x.pc \in {"recover", "create"} => Behind(q))
    <3>1. PICK step \in {"event", "cancel"} :
            request' = [request EXCEPT ![q] = [pc |-> step, run |-> r, seen |-> labRun[r].row]]
      BY <2>3 DEF CancelRead, Await
    <3>2. [pc |-> step, run |-> r, seen |-> labRun[r].row] \in RequestType
      BY <1>1, <3>1 DEF TypeOK, RequestType, RunType
    <3> QED BY <3>1, <3>2
  <2> QED BY <2>1, <2>2, <2>3
<1> QED BY <1>1, <1>2, <1>3, RequestKeeps DEF TypeOK

LEMMA ClearRefusedKeeps ==
  ASSUME LabInv, ~cleared, NEW q \in Requests, ClearRefused(q) PROVE LabInv'
<1>1. TypeOK
  BY DEF LabInv
<1>2. Idle \in RequestType /\ Idle.pc = "idle"
  BY DEF RequestType, Idle, At, Rows
<1>3. request' = [request EXCEPT ![q] = Idle] /\ labRun' = labRun
  BY DEF ClearRefused, Answer, Await
<1>4. CASE UNCHANGED <<active, cleared>>
  BY <1>1, <1>2, <1>3, <1>4, RequestKeeps DEF TypeOK
<1>5. CASE active' = None /\ cleared' = TRUE
  BY <1>1, <1>2, <1>3, <1>5 DEF TypeOK, LabInv
<1> QED BY <1>4, <1>5 DEF ClearRefused

LEMMA CancelKeeps ==
  ASSUME LabInv, ~cleared, NEW q \in Requests, CancelEvent(q) \/ CancelWrite(q)
  PROVE  LabInv'
<1>1. TypeOK
  BY DEF LabInv
<1> DEFINE r == request[q].run
<1>2. UNCHANGED <<active, cleared>> /\ r \in LabRuns \union {None}
  BY <1>1 DEF CancelEvent, CancelWrite, TypeOK, RequestType
<1>3. CASE CancelEvent(q)
  <2>1. PICK told \in BOOLEAN : labRun' = [labRun EXCEPT ![r].event = told]
    BY <1>1, <1>3 DEF CancelEvent, TypeOK, RunType
  <2>2. /\ labRun' \in [LabRuns -> RunType]
        /\ \A s \in LabRuns : /\ labRun'[s].at = labRun[s].at
                              /\ labRun'[s].row = labRun[s].row
                              /\ labRun'[s].asked = labRun[s].asked
                              /\ labRun'[s].registered = labRun[s].registered
    BY <1>1, <1>2, <2>1 DEF TypeOK, RunType
  <2>3. \E x \in RequestType : request' = [request EXCEPT ![q] = x] /\ x.pc = "cancel"
    <3> DEFINE x == [request[q] EXCEPT !.pc = "cancel"]
    <3>1. x \in RequestType /\ x.pc = "cancel"
      BY <1>1 DEF TypeOK, RequestType
    <3> QED BY <1>3, <3>1 DEF CancelEvent, Await
  <2> QED BY <1>1, <1>2, <2>2, <2>3, RequestKeeps DEF TypeOK
<1>4. CASE CancelWrite(q)
  <2>1. \/ labRun' = labRun
        \/ \E row \in {"CANCELLED", "CANCEL_REQUESTED"} :
             labRun' = [labRun EXCEPT ![r] = Asked(r, row)]
    BY <1>4 DEF CancelWrite
  <2>2. \A row \in {"CANCELLED", "CANCEL_REQUESTED"} : r \in LabRuns =>
          /\ Asked(r, row) \in RunType /\ Asked(r, row).asked
          /\ Asked(r, row).row # "none" /\ Asked(r, row).at = labRun[r].at
    BY <1>1 DEF TypeOK, RunType, Asked, Rows, Terminal, NonTerminal
  <2>3. /\ labRun' \in [LabRuns -> RunType]
        /\ \A s \in LabRuns :
             /\ labRun'[s].at = labRun[s].at
             /\ labRun'[s].row = "none" => labRun[s].row = "none"
             /\ ~labRun'[s].asked => labRun'[s] = labRun[s]
    BY <1>1, <1>2, <2>1, <2>2 DEF TypeOK
  <2>4. Idle \in RequestType /\ Idle.pc = "idle"
    BY DEF RequestType, Idle, At, Rows
  <2>5. request' = [request EXCEPT ![q] = Idle]
    BY <1>4 DEF CancelWrite, Answer, Await
  <2> QED BY <1>1, <1>2, <2>3, <2>4, <2>5, RequestKeeps DEF TypeOK
<1> QED BY <1>3, <1>4

LEMMA LaunchKeeps ==
  ASSUME LabInv, ~cleared, NEW q \in Requests, Launch(q) PROVE LabInv'
<1>1. Orderly /\ TypeOK
  BY DEF LabInv
<1> DEFINE r == request[q].run
<1>2. r \in LabRuns /\ labRun[r].at = "none" /\ labRun[r].row # "none"
  BY <1>1 DEF Orderly, LaunchIsOne, Launch
<1>3. /\ \/ labRun' = [labRun EXCEPT ![r].at = "load"] /\ active' = active
         \/ /\ labRun' = [labRun EXCEPT ![r].registered = FALSE]
            /\ active' = IF active = r THEN None ELSE active
      /\ request' = [request EXCEPT ![q] = Idle]
      /\ cleared' = cleared
  BY DEF Launch, Forget, Answer, Await
<1>4. Idle \in RequestType /\ Idle.pc = "idle"
  BY DEF Idle, At, RequestType, Rows
<1>5. TypeOK'
  <2>1. labRun' \in [LabRuns -> RunType]
    <3>1. labRun \in [LabRuns -> RunType]
      BY <1>1 DEF TypeOK
    <3>2. CASE labRun' = [labRun EXCEPT ![r].at = "load"]
      <4> HIDE DEF r
      <4> QED BY <1>2, <3>1, <3>2 DEF RunType
    <3>3. CASE labRun' = [labRun EXCEPT ![r].registered = FALSE]
      <4> HIDE DEF r
      <4> QED BY <1>2, <3>1, <3>3 DEF RunType
    <3> QED BY <1>3, <3>2, <3>3
  <2>2. active' \in LabRuns \union {None}
    BY <1>1, <1>3 DEF TypeOK
  <2>3. request' \in [Requests -> RequestType] /\ cleared' \in BOOLEAN
    BY <1>1, <1>3, <1>4 DEF TypeOK
  <2> QED BY <2>1, <2>2, <2>3 DEF TypeOK
<1>6. request'[q].pc = "idle" /\ \A p \in Requests : p # q => request'[p] = request[p]
  BY <1>1, <1>3, <1>4 DEF TypeOK
<1>7. \A p \in Requests : p # q => ~(request[p].pc = "launch" /\ request[p].run = r)
  BY <1>1 DEF Orderly, LaunchIsOne, Launch
<1>8. \A s \in LabRuns : /\ s # r => labRun'[s] = labRun[s]
                         /\ labRun'[s].row = labRun[s].row
                         /\ labRun'[s].asked = labRun[s].asked
  BY <1>1, <1>2, <1>3 DEF TypeOK, RunType
<1>9. \/ labRun'[r].at = "load" /\ labRun'[r].registered = labRun[r].registered
         /\ active' = active
      \/ labRun'[r].at = "none" /\ (active = r \/ active' = active)
  BY <1>1, <1>2, <1>3 DEF TypeOK, RunType
<1>10. LockIsOne'
  BY <1>1, <1>6 DEF Orderly, LockIsOne, Behind
<1>11. LockedIsIdle'
  BY <1>1, <1>3, <1>6 DEF Orderly, LockedIsIdle, Behind
<1>12. LaunchIsOne'
  BY <1>1, <1>6, <1>7, <1>8 DEF Orderly, LaunchIsOne
<1>13. NotMadeIsStill'
  BY <1>1, <1>2, <1>8 DEF Orderly, NotMadeIsStill
<1>14. HeldIsActive'
  <2> SUFFICES ASSUME NEW s \in LabRuns, Held(s)'
               PROVE  /\ labRun'[s].row \in {"CREATED", "LIVE"} /\ active' = s
                      /\ labRun'[s].registered
    BY DEF HeldIsActive
  <2>1. CASE s = r
    <3>1. Held(r) /\ labRun'[r].at = "load"
      BY <1>6, <1>7, <1>8, <1>9, <2>1 DEF Held, Goes, Launching, Launch
    <3> QED BY <1>1, <1>2, <1>8, <1>9, <2>1, <3>1 DEF Orderly, HeldIsActive
  <2>2. CASE s # r
    <3>1. Held(s)
      BY <1>6, <1>8, <2>2 DEF Held, Goes, Launching
    <3> QED BY <1>1, <1>3, <1>8, <2>2, <3>1 DEF Orderly, HeldIsActive
  <2> QED BY <2>1, <2>2
<1> QED BY <1>5, <1>10, <1>11, <1>12, <1>13, <1>14 DEF LabInv, Orderly

-----------------------------------------------------------------------------
(* Threads.                                                                 *)

(* What a thread that goes may make of its run.                              *)
LEMMA ThreadKeeps ==
  ASSUME LabInv, ~cleared, NEW r \in LabRuns, Goes(r), NEW x \in RunType,
         labRun' = [labRun EXCEPT ![r] = x], UNCHANGED <<active, request, cleared>>,
         x.row # "none",
         x.at \in {"load", "goes"} /\ ~x.asked =>
           /\ ~labRun[r].asked /\ x.row \in {labRun[r].row, "LIVE"}
           /\ x.registered = labRun[r].registered
  PROVE  LabInv'
<1>1. Orderly /\ TypeOK
  BY DEF LabInv
<1>2. TypeOK'
  BY <1>1 DEF TypeOK
<1>3. labRun'[r] = x /\ \A s \in LabRuns : s # r => labRun'[s] = labRun[s]
  BY <1>1 DEF TypeOK
<1>4. \A q \in Requests : request[q].pc = "launch" => request[q].run # r
  BY <1>1 DEF Orderly, LaunchIsOne, Goes
<1>5. LockIsOne' /\ LockedIsIdle'
  BY <1>1 DEF Orderly, LockIsOne, LockedIsIdle, Behind
<1>6. LaunchIsOne' /\ NotMadeIsStill'
  BY <1>1, <1>3, <1>4 DEF Orderly, LaunchIsOne, NotMadeIsStill
<1>7. HeldIsActive'
  <2> SUFFICES ASSUME NEW s \in LabRuns, Held(s)'
               PROVE  /\ labRun'[s].row \in {"CREATED", "LIVE"} /\ active' = s
                      /\ labRun'[s].registered
    BY DEF HeldIsActive
  <2>1. CASE s = r
    <3>1. x.at \in {"load", "goes"} /\ ~x.asked
      BY <1>3, <1>4, <2>1 DEF Held, Goes, Launching
    <3>2. Held(r)
      BY <3>1 DEF Held
    <3> QED BY <1>1, <1>3, <2>1, <3>1, <3>2 DEF Orderly, HeldIsActive
  <2>2. CASE s # r
    <3>1. Held(s)
      BY <1>3, <2>2 DEF Held, Goes, Launching
    <3> QED BY <1>1, <1>3, <2>2, <3>1 DEF Orderly, HeldIsActive
  <2> QED BY <2>1, <2>2
<1> QED BY <1>2, <1>5, <1>6, <1>7 DEF LabInv, Orderly

LEMMA GoingKeeps ==
  ASSUME LabInv, ~cleared, NEW r \in LabRuns,
         Load(r) \/ Transition(r) \/ Check(r) \/ CleanUp(r) \/ Conclude(r)
  PROVE  LabInv'
<1>1. Orderly /\ TypeOK
  BY DEF LabInv
<1>2. Goes(r) /\ UNCHANGED <<active, request, cleared>>
  BY DEF Load, Transition, Check, CleanUp, Conclude, ThreadStep, Goes
<1>3. labRun[r] \in RunType /\ labRun[r].row # "none"
  BY <1>1, <1>2 DEF TypeOK, Orderly, NotMadeIsStill, Goes
<1>4. \A row \in {labRun[r].row, "LIVE"}, cached \in Rows :
        /\ Going(r, row, cached) \in RunType
        /\ Going(r, row, cached).row = row
        /\ Going(r, row, cached).asked = labRun[r].asked
        /\ Going(r, row, cached).registered = labRun[r].registered
  BY <1>3 DEF Going, RunType, Rows, NonTerminal
<1>5. \A row \in Rows : /\ Ends(r, row) \in RunType /\ Ends(r, row).row = row
                        /\ Ends(r, row).at = "ends"
  BY <1>3 DEF Ends, Fresh, RunType, Rows
<1>6. {labRun[r].row, "LIVE", "CANCELLED", "ENDED"} \subseteq Rows
  BY <1>3 DEF RunType, Rows, Terminal, NonTerminal
<1>7. \/ \E row \in {labRun[r].row, "LIVE"}, cached \in Rows :
            labRun' = [labRun EXCEPT ![r] = Going(r, row, cached)]
      \/ \E row \in {labRun[r].row, "CANCELLED", "ENDED"} :
            labRun' = [labRun EXCEPT ![r] = Ends(r, row)]
  BY <1>6 DEF Load, Transition, Check, CleanUp, Conclude, ThreadStep
<1>8. CASE \E row \in {labRun[r].row, "LIVE"}, cached \in Rows :
             labRun' = [labRun EXCEPT ![r] = Going(r, row, cached)]
  <2>1. PICK row \in {labRun[r].row, "LIVE"}, cached \in Rows :
          labRun' = [labRun EXCEPT ![r] = Going(r, row, cached)]
    BY <1>8
  <2> DEFINE x == Going(r, row, cached)
  <2>2. row # "none"
    BY <1>3
  <2>3. /\ x \in RunType /\ x.row # "none" /\ x.row \in {labRun[r].row, "LIVE"}
        /\ x.asked = labRun[r].asked /\ x.registered = labRun[r].registered
    BY <1>4, <2>2
  <2>4. ~x.asked => /\ ~labRun[r].asked /\ x.row \in {labRun[r].row, "LIVE"}
                    /\ x.registered = labRun[r].registered
    BY <2>3, Zenon
  <2>5. labRun' = [labRun EXCEPT ![r] = x]
    BY <2>1
  <2> HIDE DEF x
  <2> QED BY <1>2, <2>3, <2>4, <2>5, ThreadKeeps
<1>9. CASE \E row \in {labRun[r].row, "CANCELLED", "ENDED"} :
             labRun' = [labRun EXCEPT ![r] = Ends(r, row)]
  <2>1. PICK row \in {labRun[r].row, "CANCELLED", "ENDED"} :
          labRun' = [labRun EXCEPT ![r] = Ends(r, row)]
    BY <1>9
  <2>2. row # "none" /\ row \in Rows
    BY <1>3, <1>6
  <2> QED BY <1>2, <1>5, <2>1, <2>2, ThreadKeeps
<1> QED BY <1>7, <1>8, <1>9

LEMMA TeardownKeeps ==
  ASSUME LabInv, ~cleared, NEW r \in LabRuns, Teardown(r) PROVE LabInv'
<1>1. Orderly /\ TypeOK
  BY DEF LabInv
<1>2. /\ labRun[r].at = "ends"
      /\ labRun' = [labRun EXCEPT ![r] = Fresh(labRun[r].row, FALSE, "over")]
      /\ active' = IF active = r THEN None ELSE active
      /\ UNCHANGED <<request, cleared>>
  BY DEF Teardown, ThreadStep, Forget
<1>3. /\ Fresh(labRun[r].row, FALSE, "over") \in RunType
      /\ Fresh(labRun[r].row, FALSE, "over").at = "over"
      /\ Fresh(labRun[r].row, FALSE, "over").row = labRun[r].row
      /\ labRun[r].row # "none"
  BY <1>1, <1>2 DEF TypeOK, RunType, Fresh, Rows, Orderly, NotMadeIsStill
<1>4. TypeOK'
  BY <1>1, <1>2, <1>3 DEF TypeOK
<1>5. /\ labRun'[r].at = "over" /\ labRun'[r].row # "none"
      /\ \A s \in LabRuns : s # r => labRun'[s] = labRun[s]
  BY <1>1, <1>2, <1>3 DEF TypeOK
<1>6. \A q \in Requests : request[q].pc = "launch" => request[q].run # r
  BY <1>1, <1>2 DEF Orderly, LaunchIsOne
<1>7. LockIsOne' /\ LockedIsIdle'
  BY <1>1, <1>2 DEF Orderly, LockIsOne, LockedIsIdle, Behind
<1>8. LaunchIsOne' /\ NotMadeIsStill'
  <2>1. request' = request
    BY <1>2
  <2>2. LaunchIsOne'
    BY <1>1, <1>5, <1>6, <2>1 DEF Orderly, LaunchIsOne
  <2>3. NotMadeIsStill'
    BY <1>1, <1>5 DEF Orderly, NotMadeIsStill
  <2> QED BY <2>2, <2>3
<1>9. HeldIsActive'
  <2> SUFFICES ASSUME NEW s \in LabRuns, Held(s)'
               PROVE  /\ labRun'[s].row \in {"CREATED", "LIVE"} /\ active' = s
                      /\ labRun'[s].registered
    BY DEF HeldIsActive
  <2>1. s # r /\ Held(s)
    BY <1>2, <1>5, <1>6 DEF Held, Goes, Launching
  <2> QED BY <1>1, <1>2, <1>5, <2>1 DEF Orderly, HeldIsActive
<1> QED BY <1>4, <1>7, <1>8, <1>9 DEF LabInv, Orderly

-----------------------------------------------------------------------------
(* The invariant.                                                           *)

LEMMA LabInit == Init => LabInv
<1> SUFFICES ASSUME Init PROVE LabInv
  OBVIOUS
<1>1. NotMade \in RunType /\ NotMade.row = "none" /\ NotMade.at = "none"
  BY DEF NotMade, Fresh, RunType, Rows
<1>2. Idle \in RequestType /\ Idle.pc = "idle"
  BY DEF Idle, At, RequestType, Rows
<1>3. TypeOK
  BY <1>1, <1>2 DEF Init, TypeOK
<1>4. Orderly
  BY <1>1, <1>2 DEF Init, Orderly, LockIsOne, LockedIsIdle, LaunchIsOne, NotMadeIsStill,
    HeldIsActive, Held, Goes, Launching, Behind
<1> QED BY <1>3, <1>4 DEF LabInv

LEMMA LabNext == LabInv /\ [Next]_vars => LabInv'
<1> SUFFICES ASSUME LabInv, [Next]_vars PROVE LabInv'
  OBVIOUS
<1>1. CASE UNCHANGED vars
  BY <1>1 DEF vars, LabInv, TypeOK, Orderly, LockIsOne, LockedIsIdle, LaunchIsOne,
    NotMadeIsStill, HeldIsActive, Held, Goes, Launching, Behind
<1>2. ASSUME NEW q \in Requests, ~cleared, RequestStep(q) PROVE LabInv'
  BY <1>2, StartCheckKeeps, RecoveryKeeps, CreateKeeps, WaitingKeeps, ClearRefusedKeeps,
    CancelKeeps, LaunchKeeps DEF RequestStep
<1>3. ASSUME NEW r \in LabRuns, ~cleared, RunStep(r) PROVE LabInv'
  BY <1>3, GoingKeeps, TeardownKeeps DEF RunStep
<1> QED BY <1>1, <1>2, <1>3 DEF Next

LEMMA LabInvSuffices == LabInv => LabIsUndisturbed
BY DEF LabInv, Orderly, HeldIsActive, Held, LabIsUndisturbed

(* All variables have their types, for all numbers of requests and runs.     *)
THEOREM LabTypeCorrect == Spec => []TypeOK
<1>1. LabInv => TypeOK
  BY DEF LabInv
<1> QED BY <1>1, LabInit, LabNext, PTL DEF Spec

(* A lab run that nobody cancelled has the lab for itself, unless a refused  *)
(* request has cleared the id of another's run, for all numbers of requests  *)
(* and runs.                                                                 *)
THEOREM Undisturbed == Spec => []LabIsUndisturbed
BY LabInit, LabNext, LabInvSuffices, PTL DEF Spec
=============================================================================

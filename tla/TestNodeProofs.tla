--------------------------- MODULE TestNodeProofs ---------------------------
(***************************************************************************)
(* Proofs about module TestNode, for every number of runs and ids and all    *)
(* times that TimingAssumption allows: the type invariant, and that traffic *)
(* only flows under a reservation in force, or for a while after a recovery  *)
(* has deleted it.                                                          *)
(***************************************************************************)
EXTENDS TestNode, TLAPS

(* An entry found under a run's id is the run's own: ids are fresh.          *)
OwnEntry(r) == run[r].id \in Held(table) => table[run[r].id].owner = r

HasId(r) == run[r].at \in {"idle", "asking"} => run[r].id = None

(* A run that holds a reservation has a thread that renews this one; what    *)
(* the node answered with 404 does not come back.                            *)
Watched(r) ==
  run[r].at = "holds" =>
    /\ monitor[r].at # "off" /\ monitor[r].id = run[r].id
    /\ monitor[r].at = "unknown" => run[r].id \notin Held(table)

(* No stage goes on for a run whose renewal was answered with 404, unless it  *)
(* was a recovery that deleted its entry.                                    *)
Flowing(r) ==
  traffic[r] => /\ run[r].at = "holds"
                /\ \/ r \in Unprotected
                   \/ monitor[r].at # "unknown" /\ run[r].id \in Held(table)

InTime(r) ==
  /\ monitor[r].at = "waiting" => monitor[r].timer <= Interval
  /\ monitor[r].at \in {"calling", "renewed", "unknown"} => monitor[r].timer <= Latency
  /\ monitor[r].at = "failed" /\ traffic[r] => monitor[r].timer <= StopDelay

(* How old a reservation can be, counted from when the node last set its age *)
(* to zero: the answer took at most Latency, then came the interval, then    *)
(* the next call, then the stage's reaction to its failure.                  *)
Young(r) ==
  run[r].id \in Held(table) =>
    /\ run[r].at = "answered" => table[run[r].id].age <= run[r].timer
    /\ run[r].at = "holds" =>
         /\ monitor[r].at = "waiting" =>
              table[run[r].id].age <= Latency + monitor[r].timer
         /\ monitor[r].at = "calling" =>
              table[run[r].id].age <= Latency + Interval + monitor[r].timer
         /\ monitor[r].at = "renewed" => table[run[r].id].age <= monitor[r].timer
         /\ monitor[r].at = "failed" /\ traffic[r] =>
              table[run[r].id].age <= 2 * Latency + Interval + monitor[r].timer

(* How long traffic goes on without an entry, counted from when the entry    *)
(* was deleted: no longer than since the node last heard of the thread.      *)
Exposed(r) ==
  traffic[r] =>
    /\ run[r].id \in Held(table) => uncovered[r] = 0
    /\ monitor[r].at = "waiting" => uncovered[r] <= Latency + monitor[r].timer
    /\ monitor[r].at \in {"calling", "unknown"} =>
         uncovered[r] <= Latency + Interval + monitor[r].timer
    /\ monitor[r].at = "renewed" => uncovered[r] <= monitor[r].timer
    /\ monitor[r].at = "failed" =>
         uncovered[r] <= 2 * Latency + Interval + monitor[r].timer

Covered(r) ==
  /\ OwnEntry(r) /\ HasId(r) /\ Watched(r) /\ Flowing(r)
  /\ InTime(r) /\ Young(r) /\ Exposed(r)

CoverInv == \A r \in Runs : Covered(r)

-----------------------------------------------------------------------------
(* The times, as numbers.                                                   *)
LEMMA Times ==
  /\ Interval \in Nat /\ TTL \in Nat /\ Latency \in Nat /\ StopDelay \in Nat
  /\ Interval + 2 * Latency + StopDelay <= TTL
  /\ Overrun \in Nat /\ Overrun = Interval + 2 * Latency + StopDelay
<1>1. TTL \div 3 \in Nat
  BY TimingAssumption
<1>2. Interval \in Nat
  BY <1>1, TimingAssumption DEF Interval, Least
<1> QED
  BY <1>2, TimingAssumption DEF Overrun

EntryType == [owner : Runs \union {None}, age : 0 .. TTL + 1]
TableType == table \in [Ids -> EntryType]
RunType ==
  run \in [Runs -> [at : {"idle", "asking", "answered", "holds", "releasing"},
                    id : Ids \union {None}, timer : 0 .. Latency]]
MonitorType ==
  monitor \in
    [Runs -> [at : {"off", "waiting", "calling", "renewed", "unknown", "failed"},
              id : Ids \union {None}, timer : Nat]]

LEMMA EntryTypes ==
  /\ Free \in EntryType
  /\ \A r \in Runs : Entry(r) \in EntryType
BY Times DEF Free, Entry, EntryType

LEMMA PrunedType == TableType => Pruned \in [Ids -> EntryType]
BY EntryTypes DEF TableType, Pruned

(* Every step of a run, of its renewal thread and of the node for them keeps *)
(* the types.                                                               *)
LEMMA NodeType ==
  ASSUME TypeOK, NEW r \in Runs, NodeStep(r)
  PROVE  TypeOK'
<1> USE DEF TypeOK
<1>0. Pruned \in [Ids -> EntryType]
  BY PrunedType DEF TableType, EntryType
<1>1. CASE CreateCheck(r)
  <2>1. handler' \in [Runs -> {"none", "called", "admitted"}]
    BY <1>1 DEF CreateCheck
  <2>2. RunType'
    BY <1>1, Times DEF CreateCheck, Idle, RunType
  <2> QED
    BY <1>0, <1>1, <2>1, <2>2 DEF CreateCheck, EntryType, RunType
<1>2. CASE CreateInsert(r)
  <2>1. PICK i \in Fresh : table' = [table EXCEPT ![i] = Entry(r)]
    BY <1>2 DEF CreateInsert
  <2>2. table' \in [Ids -> EntryType]
    BY <2>1, EntryTypes DEF Fresh, EntryType
  <2>3. RunType'
    BY <1>2 DEF CreateInsert, RunType, Fresh
  <2> QED
    BY <1>2, <2>2, <2>3 DEF CreateInsert, EntryType, RunType
<1>3. CASE RenewArrives(r)
  <2>1. table' \in [Ids -> EntryType]
    <3>1. CASE Known(monitor[r].id)
      <4>1. ASSUME NEW i \in Ids
            PROVE  [Pruned[i] EXCEPT !.age = 0] \in EntryType
        BY <1>0, Times DEF EntryType
      <4> QED
        BY <1>0, <1>3, <3>1, <4>1 DEF RenewArrives
    <3>2. CASE ~Known(monitor[r].id)
      BY <1>0, <1>3, <3>2 DEF RenewArrives
    <3> QED
      BY <3>1, <3>2
  <2>2. MonitorType'
    <3>1. PICK state \in {"renewed", "unknown"} :
            monitor' = [monitor EXCEPT ![r].at = state]
      BY <1>3 DEF RenewArrives
    <3>2. [monitor[r] EXCEPT !.at = state] \in
            [at : {"off", "waiting", "calling", "renewed", "unknown", "failed"},
             id : Ids \union {None}, timer : Nat]
      OBVIOUS
    <3> QED
      BY <3>1, <3>2 DEF MonitorType
  <2> QED
    BY <1>3, <2>1, <2>2 DEF RenewArrives, EntryType, MonitorType
<1> QED
  BY <1>1, <1>2, <1>3 DEF NodeStep

LEMMA MonitorStepType ==
  ASSUME TypeOK, NEW r \in Runs, MonitorStep(r)
  PROVE  TypeOK'
BY Times
DEF TypeOK, MonitorStep, Renew, RenewAnswered, RenewFails, Becomes, Monitoring, Off

LEMMA RunStepType ==
  ASSUME TypeOK, NEW r \in Runs, RunStep(r)
  PROVE  TypeOK'
<1> USE DEF TypeOK
<1>1. CASE Ask(r)
  BY <1>1 DEF Ask
<1>2. CASE Answered(r)
  BY <1>2, Times DEF Answered, Monitoring
<1>3. CASE AskFails(r)
  BY <1>3, Times DEF AskFails, Idle
<1>4. CASE StartTraffic(r)
  <2>1. table' \in [Ids -> EntryType]
    BY <1>4, PrunedType DEF StartTraffic, TableType, EntryType
  <2>2. Authorised(r) \in BOOLEAN
    BY DEF Authorised
  <2>3. traffic' \in [Runs -> BOOLEAN] /\ uncovered' \in [Runs -> 0 .. Overrun + 1]
    BY <1>4, <2>2, Times DEF StartTraffic
  <2> QED
    BY <1>4, <2>1, <2>3 DEF StartTraffic, EntryType
<1>5. CASE EndTraffic(r)
  BY <1>5 DEF EndTraffic
<1>6. CASE Finish(r)
  BY <1>6 DEF Finish, Stopped, Off
<1>7. CASE Release(r)
  <2>1. table' \in [Ids -> EntryType]
    BY <1>7, EntryTypes DEF Release, EntryType
  <2> QED
    BY <1>7, <2>1, Times DEF Release, Idle, EntryType
<1>8. CASE Dies(r)
  BY <1>8, Times DEF Dies, Idle, Off
<1> QED
  BY <1>1, <1>2, <1>3, <1>4, <1>5, <1>6, <1>7, <1>8 DEF RunStep

LEMMA TickType == TypeOK /\ Tick => TypeOK'
<1> SUFFICES ASSUME TypeOK, Tick
             PROVE  TypeOK'
  OBVIOUS
<1> USE DEF TypeOK
<1>1. ASSUME NEW i \in Held(table)
      PROVE  [table[i] EXCEPT !.age = Later(@, TTL + 1)] \in EntryType
  BY Times DEF EntryType, Later, Least, Held
<1>2. table' \in [Ids -> EntryType]
  BY <1>1, EntryTypes DEF Tick
<1>3. ASSUME NEW r \in Runs
      PROVE  run'[r] \in [at : {"idle", "asking", "answered", "holds", "releasing"},
                          id : Ids \union {None}, timer : 0 .. Latency]
  <2>1. CASE run[r].at \in {"asking", "answered"}
    <3>1. run[r].timer < Latency
      BY <2>1 DEF Tick, NobodyIsDue
    <3>2. run'[r] = [run[r] EXCEPT !.timer = run[r].timer + 1]
      BY <2>1 DEF Tick
    <3>3. run[r].timer + 1 \in 0 .. Latency
      BY <3>1, Times
    <3> QED
      BY <3>2, <3>3
  <2>2. CASE run[r].at \notin {"asking", "answered"}
    <3>1. run'[r] = run[r]
      BY <2>2 DEF Tick
    <3> QED
      BY <3>1
  <2> QED
    BY <2>1, <2>2
<1>4. ASSUME NEW r \in Runs
      PROVE  monitor'[r] \in
        [at : {"off", "waiting", "calling", "renewed", "unknown", "failed"},
         id : Ids \union {None}, timer : Nat]
  <2>1. CASE monitor[r].at = "off"
    BY <1>4, <2>1 DEF Tick, Off
  <2>2. CASE monitor[r].at = "failed"
    <3>1. Later(monitor[r].timer, StopDelay) \in Nat
      BY <1>4, Times DEF Later, Least
    <3>2. monitor'[r] =
            [monitor[r] EXCEPT !.timer = Later(monitor[r].timer, StopDelay)]
      BY <1>4, <2>2 DEF Tick
    <3> QED
      BY <1>4, <3>1, <3>2
  <2>3. CASE monitor[r].at \notin {"off", "failed"}
    <3>1. monitor'[r] = [monitor[r] EXCEPT !.timer = monitor[r].timer + 1]
      BY <1>4, <2>3 DEF Tick
    <3>2. monitor[r].timer + 1 \in Nat
      BY <1>4
    <3> QED
      BY <1>4, <3>1, <3>2
  <2> QED
    BY <2>1, <2>2, <2>3
<1>5. uncovered' \in [Runs -> 0 .. Overrun + 1]
  <2>1. ASSUME NEW r \in Runs
        PROVE  Later(uncovered[r], Overrun + 1) \in 0 .. Overrun + 1
    BY Times DEF Later, Least
  <2> QED
    BY <2>1, Times DEF Tick
<1> QED
  BY <1>2, <1>3, <1>4, <1>5 DEF Tick, EntryType

LEMMA RecoveryType ==
  ASSUME TypeOK, NEW i \in Ids, RecoverOrphan(i)
  PROVE  TypeOK'
<1>1. table' \in [Ids -> EntryType]
  BY EntryTypes DEF RecoverOrphan, TypeOK, EntryType
<1> QED
  BY <1>1 DEF RecoverOrphan, TypeOK, EntryType

LEMMA NextType == TypeOK /\ [Next]_vars => TypeOK'
<1> SUFFICES ASSUME TypeOK, [Next]_vars
             PROVE  TypeOK'
  OBVIOUS
<1>0. CASE Status
  BY <1>0, PrunedType DEF Status, TypeOK, TableType, EntryType
<1>1. CASE NodeRestarts
  BY <1>1, EntryTypes, Times DEF NodeRestarts, TypeOK, EntryType, Idle
<1>2. CASE UNCHANGED vars
  BY <1>2 DEF vars, TypeOK
<1> QED
  BY <1>0, <1>1, <1>2, NodeType, MonitorStepType, RunStepType, RecoveryType, TickType
  DEF Next

(* Types are right, for every number of runs and ids and all times.          *)
THEOREM Types == Spec => []TypeOK
<1>1. Init => TypeOK
  BY Times DEF Init, TypeOK, Free, Idle, Off
<1> QED
  BY <1>1, NextType, PTL DEF Spec

-----------------------------------------------------------------------------
(* Pruning removes expired entries and changes no other.                     *)
LEMMA Pruning ==
  ASSUME TypeOK
  PROVE  /\ Held(Pruned) = Held(table) \ Expired
         /\ \A i \in Held(Pruned) : Pruned[i] = table[i]
BY DEF Held, Expired, Pruned, Free

(* The bounds of CoverInv, and TimingAssumption, keep a reservation whose run *)
(* has traffic from expiring, and its traffic from going on without for long. *)
LEMMA CoverInvImpliesCovered == TypeOK /\ CoverInv => TrafficCovered
<1> SUFFICES ASSUME TypeOK, CoverInv, NEW r \in Runs, traffic[r]
             PROVE  \/ InForce(r)
                    \/ /\ r \in Unprotected /\ run[r].id \notin Held(table)
                       /\ uncovered[r] <= Overrun
  BY DEF TrafficCovered
<1> DEFINE i == run[r].id
           m == monitor[r]
           a == table[i].age
           u == uncovered[r]
<1>1. Covered(r)
  BY DEF CoverInv
<1>2. u \in Nat /\ run[r].at = "holds"
  BY <1>1, Times DEF Covered, Flowing, TypeOK
<1>3. m.at \in {"waiting", "calling", "renewed", "unknown", "failed"} /\ m.timer \in Nat
  BY <1>1, <1>2 DEF Covered, Watched, TypeOK
<1>4. /\ m.at = "waiting" => m.timer <= Interval
      /\ m.at \in {"calling", "renewed", "unknown"} => m.timer <= Latency
      /\ m.at = "failed" => m.timer <= StopDelay
  BY <1>1 DEF Covered, InTime
<1>5. CASE i \in Held(table)
  <2>1. table[i].owner = r /\ i \in Ids /\ a \in Nat /\ m.at # "unknown"
    BY <1>1, <1>2, <1>5, Times DEF Covered, Watched, OwnEntry, Held, TypeOK
  <2>2. /\ m.at = "waiting" => a <= Latency + m.timer
        /\ m.at = "calling" => a <= Latency + Interval + m.timer
        /\ m.at = "renewed" => a <= m.timer
        /\ m.at = "failed" => a <= 2 * Latency + Interval + m.timer
    BY <1>1, <1>2, <1>5 DEF Covered, Young
  <2>3. a <= TTL
    BY <1>3, <1>4, <2>1, <2>2, Times
  <2> QED
    BY <1>5, <2>1, <2>3, Times DEF Expired, InForce
<1>6. CASE i \notin Held(table)
  <2>1. r \in Unprotected
    BY <1>1, <1>6 DEF Covered, Flowing
  <2>2. /\ m.at = "waiting" => u <= Latency + m.timer
        /\ m.at \in {"calling", "unknown"} => u <= Latency + Interval + m.timer
        /\ m.at = "renewed" => u <= m.timer
        /\ m.at = "failed" => u <= 2 * Latency + Interval + m.timer
    BY <1>1 DEF Covered, Exposed
  <2>3. u <= Overrun
    BY <1>2, <1>3, <1>4, <2>2, Times
  <2> QED
    BY <1>6, <2>1, <2>3
<1> QED
  BY <1>5, <1>6

LEMMA HeldIsInForce ==
  ASSUME TypeOK, CoverInv, NEW r \in Runs, traffic[r],
         run[r].id \in Held(table) \/ r \notin Unprotected
  PROVE  InForce(r) /\ run[r].id \in Held(Pruned)
BY CoverInvImpliesCovered, Pruning DEF TrafficCovered, InForce

(* What a run needs of a step of others: its own state stays, its entry gets *)
(* no older and, while it has traffic and is protected, is not removed.      *)
LEMMA Undisturbed ==
  ASSUME NEW r \in Runs, Covered(r), TypeOK, TypeOK',
         run'[r] = run[r], monitor'[r] = monitor[r], traffic'[r] = traffic[r],
         uncovered'[r] = uncovered[r],
         run[r].id \in Held(table)' =>
           /\ run[r].id \in Held(table)
           /\ table'[run[r].id].owner = table[run[r].id].owner
           /\ table'[run[r].id].age <= table[run[r].id].age,
         traffic[r] => r \in Unprotected \/ run[r].id \in Held(table)'
  PROVE  Covered(r)'
<1>1. /\ OwnEntry(r)' /\ HasId(r)' /\ Watched(r)' /\ Flowing(r)' /\ InTime(r)'
      /\ Exposed(r)'
  BY DEF Covered, OwnEntry, HasId, Watched, Flowing, InTime, Exposed
<1>2. Young(r)'
  <2> SUFFICES ASSUME run[r].id \in Held(table)'
               PROVE  Young(r)'
    BY DEF Young
  <2> DEFINE a == table[run[r].id].age
             b == table'[run[r].id].age
  <2>1. a \in Nat /\ b \in Nat /\ b <= a
    BY Times DEF TypeOK, Held
  <2>2. run[r].timer \in Nat /\ monitor[r].timer \in Nat
    BY Times DEF TypeOK
  <2>3. Young(r)
    BY DEF Covered
  <2> QED
    BY <2>1, <2>2, <2>3, Times DEF Young
<1> QED
  BY <1>1, <1>2 DEF Covered

(* Requests that prune disturb nobody.                                       *)
LEMMA PruningDisturbsNobody ==
  ASSUME TypeOK, TypeOK', CoverInv, NEW r \in Runs,
         table' = Pruned, run'[r] = run[r], monitor'[r] = monitor[r],
         traffic'[r] = traffic[r], uncovered'[r] = uncovered[r]
  PROVE  Covered(r)'
<1>1. Held(table)' = Held(Pruned)
  BY DEF Held
<1>2. traffic[r] => r \in Unprotected \/ run[r].id \in Held(table)'
  BY <1>1, HeldIsInForce
<1>3. run[r].id \in Held(table)' =>
        /\ run[r].id \in Held(table)
        /\ table'[run[r].id] = table[run[r].id]
  BY <1>1, Pruning
<1>4. run[r].id \in Held(table)' =>
        table'[run[r].id].age <= table[run[r].id].age
  BY <1>3, Times DEF TypeOK, Held
<1> QED
  BY <1>2, <1>3, <1>4, Undisturbed DEF CoverInv

-----------------------------------------------------------------------------
(* A step of one run, its thread or its handler, action by action; the other *)
(* runs are undisturbed.                                                     *)

LEMMA NodeCovers ==
  ASSUME TypeOK, TypeOK', CoverInv, NEW r \in Runs, NodeStep(r)
  PROVE  CoverInv'
<1> SUFFICES ASSUME NEW s \in Runs
             PROVE  Covered(s)'
  BY DEF CoverInv
<1>0. Covered(s)
  BY DEF CoverInv
<1>1. CASE CreateCheck(r)
  <2>1. CASE run'[s] = run[s]
    BY <1>1, <2>1, PruningDisturbsNobody DEF CreateCheck
  <2>2. CASE run'[s] # run[s]
    <3>1. s = r /\ run'[s] = Idle /\ run[s].at = "asking"
      BY <1>1, <2>2 DEF CreateCheck, TypeOK
    <3>2. None \notin Held(table)'
      BY NoneAssumption DEF Held
    <3>3. ~traffic[s] /\ UNCHANGED <<monitor, traffic, uncovered>>
      BY <1>0, <1>1, <3>1 DEF Covered, Flowing, CreateCheck
    <3> QED
      BY <1>0, <3>1, <3>2, <3>3
      DEF Idle, Covered, OwnEntry, HasId, Watched, Flowing, InTime, Young, Exposed
  <2> QED
    BY <2>1, <2>2
<1>2. CASE CreateInsert(r)
  <2>1. PICK i \in Fresh :
          /\ table' = [table EXCEPT ![i] = Entry(r)]
          /\ \/ /\ run[r].at = "asking"
                /\ run' = [run EXCEPT ![r] =
                             [at |-> "answered", id |-> i, timer |-> @.timer]]
             \/ UNCHANGED run
    BY <1>2 DEF CreateInsert
  <2>2. /\ i \in Ids /\ i \notin Held(table) /\ run[s].id # i
        /\ UNCHANGED <<monitor, traffic, uncovered>>
    BY <1>2, <2>1 DEF Fresh, CreateInsert
  <2>3. \A j \in Ids : j # i => table'[j] = table[j]
    BY <2>1 DEF TypeOK
  <2>4. table'[i] = Entry(r)
    BY <2>1, <2>2 DEF TypeOK
  <2>5. CASE run'[s] = run[s]
    <3>1. /\ run[s].id \in Held(table)' <=> run[s].id \in Held(table)
          /\ run[s].id \in Held(table) => table'[run[s].id] = table[run[s].id]
      BY <2>2, <2>3 DEF Held
    <3>2. run[s].id \in Held(table) => table'[run[s].id].age <= table[run[s].id].age
      BY <3>1, Times DEF TypeOK, Held
    <3>3. traffic[s] => s \in Unprotected \/ run[s].id \in Held(table)'
      BY <1>0, <3>1 DEF Covered, Flowing
    <3> QED
      BY <1>0, <2>2, <2>5, <3>1, <3>2, <3>3, Undisturbed
  <2>6. CASE run'[s] # run[s]
    <3>1. /\ s = r /\ run[s].at = "asking"
          /\ run'[s] = [at |-> "answered", id |-> i, timer |-> run[s].timer]
      BY <2>1, <2>6 DEF TypeOK
    <3>2. run'[s].at = "answered" /\ run'[s].id = i /\ run'[s].timer = run[s].timer
      BY <3>1
    <3>3. table'[i].owner = s /\ table'[i].age <= run[s].timer
      BY <2>4, <3>1, Times DEF Entry, TypeOK
    <3>4. ~traffic[s]
      BY <1>0, <3>1 DEF Covered, Flowing
    <3> QED
      BY <1>0, <2>2, <3>2, <3>3, <3>4
      DEF Covered, OwnEntry, HasId, Watched, Flowing, InTime, Young, Exposed
  <2> QED
    BY <2>5, <2>6
<1>3. CASE RenewArrives(r)
  <2>1. CASE ~Known(monitor[r].id)
    <3>1. /\ table' = Pruned /\ UNCHANGED <<run, traffic, uncovered>>
          /\ monitor[r].at = "calling"
          /\ monitor' = [monitor EXCEPT ![r].at = "unknown"]
      BY <1>3, <2>1 DEF RenewArrives
    <3>2. CASE s # r
      BY <3>1, <3>2, PruningDisturbsNobody DEF TypeOK
    <3>3. CASE s = r
      <4>1. monitor'[s].at = "unknown" /\ monitor'[s].id = monitor[s].id
        BY <3>1, <3>3 DEF TypeOK
      <4>2. traffic[s] => s \in Unprotected /\ run[s].at = "holds"
        <5>1. traffic[s] => run[s].at = "holds" /\ monitor[s].id = run[s].id
          BY <1>0 DEF Covered, Flowing, Watched
        <5> QED
          BY <2>1, <3>3, <5>1, HeldIsInForce DEF Known
      <4>3. run[s].id \in Held(table)' =>
              /\ run[s].id \in Held(table)
              /\ table'[run[s].id] = table[run[s].id]
        BY <3>1, Pruning DEF Held
      <4>a. run[s].at = "holds" => run[s].id \notin Held(table)'
        BY <1>0, <2>1, <3>1, <3>3 DEF Covered, Watched, Known, Held
      <4>4. OwnEntry(s)' /\ HasId(s)' /\ Watched(s)' /\ Flowing(s)' /\ InTime(s)'
        BY <1>0, <3>1, <4>1, <4>2, <4>3, <4>a
        DEF Covered, OwnEntry, HasId, Watched, Flowing, InTime
      <4>5. Young(s)'
        BY <1>0, <3>1, <4>1, <4>3 DEF Covered, Young
      <4>6. Exposed(s)'
        <5>1. monitor'[s].timer = monitor[s].timer /\ monitor[s].at = "calling"
          BY <3>1, <3>3 DEF TypeOK
        <5> QED
          BY <1>0, <3>1, <4>1, <4>3, <5>1 DEF Covered, Exposed
      <4> QED
        BY <4>4, <4>5, <4>6 DEF Covered
    <3> QED
      BY <3>2, <3>3
  <2>2. CASE Known(monitor[r].id)
    <3> DEFINE i == monitor[r].id
    <3>1. /\ table' = [Pruned EXCEPT ![i].age = 0]
          /\ UNCHANGED <<run, traffic, uncovered>>
          /\ monitor[r].at = "calling"
          /\ monitor' = [monitor EXCEPT ![r].at = "renewed"]
      BY <1>3, <2>2 DEF RenewArrives
    <3>2. i \in Ids /\ Pruned \in [Ids -> EntryType]
      BY <2>2, PrunedType DEF Known, Held, TypeOK, TableType, EntryType
    <3>3. \A j \in Ids : /\ table'[j].owner = Pruned[j].owner
                         /\ j # i => table'[j] = Pruned[j]
      BY <3>1, <3>2 DEF EntryType
    <3>4. table'[i].age = 0
      BY <3>1, <3>2 DEF EntryType
    <3>5. Held(table)' = Held(Pruned)
      BY <3>3 DEF Held
    <3>6. run[s].id \in Held(table)' =>
            /\ run[s].id \in Held(table) /\ run[s].id \in Ids
            /\ table'[run[s].id].owner = table[run[s].id].owner
      BY <3>3, <3>5, Pruning DEF Held
    <3>7. traffic[s] => s \in Unprotected \/ run[s].id \in Held(table)'
      BY <3>5, HeldIsInForce
    <3>8. CASE s # r
      <4>1. run[s].id \in Held(table)' =>
              table'[run[s].id].age <= table[run[s].id].age
        <5> SUFFICES ASSUME run[s].id \in Held(table)'
                     PROVE  table'[run[s].id].age <= table[run[s].id].age
          OBVIOUS
        <5>1. table[run[s].id].age \in Nat
          BY <3>6, Times DEF TypeOK
        <5>2. table'[run[s].id].age \in {0, table[run[s].id].age}
          BY <3>3, <3>4, <3>5, <3>6, Pruning
        <5> QED
          BY <5>1, <5>2
      <4>2. /\ run'[s] = run[s] /\ monitor'[s] = monitor[s] /\ traffic'[s] = traffic[s]
            /\ uncovered'[s] = uncovered[s]
        BY <3>1, <3>8 DEF TypeOK
      <4> QED
        BY <1>0, <3>6, <3>7, <4>1, <4>2, Undisturbed
    <3>9. CASE s = r
      <4>1. /\ monitor'[s].at = "renewed" /\ monitor'[s].id = monitor[s].id
            /\ monitor'[s].timer = monitor[s].timer
        BY <3>1, <3>9 DEF TypeOK
      <4>2. OwnEntry(s)'
        BY <1>0, <3>1, <3>6 DEF Covered, OwnEntry
      <4>3. Young(s)'
        <5>1. run[s].at = "holds" => run[s].id = i
          BY <1>0, <3>9 DEF Covered, Watched
        <5>2. run[s].at = "answered" /\ run[s].id \in Held(table)' =>
                table'[run[s].id].age <= run[s].timer
          <6> SUFFICES ASSUME run[s].at = "answered", run[s].id \in Held(table)'
                       PROVE  table'[run[s].id].age <= run[s].timer
            OBVIOUS
          <6>1. table[run[s].id].age <= run[s].timer
            BY <1>0, <3>6 DEF Covered, Young
          <6>2. table'[run[s].id].age \in {0, table[run[s].id].age}
            BY <3>3, <3>4, <3>5, <3>6, Pruning
          <6> QED
            BY <6>1, <6>2, Times DEF TypeOK
        <5>3. monitor[s].timer \in Nat
          BY DEF TypeOK
        <5> QED
          BY <3>1, <3>4, <4>1, <5>1, <5>2, <5>3 DEF Young
      <4>4. HasId(s)' /\ Watched(s)' /\ Flowing(s)'
        BY <1>0, <3>1, <3>7, <3>9, <4>1 DEF Covered, HasId, Watched, Flowing
      <4>5. InTime(s)'
        BY <1>0, <3>1, <3>9, <4>1 DEF Covered, InTime
      <4>6. Exposed(s)'
        <5> SUFFICES ASSUME traffic[s]
                     PROVE  Exposed(s)'
          BY <3>1 DEF Exposed
        <5>1. run[s].id \in Held(table)
          BY <1>0, <2>2, <3>9, Pruning DEF Covered, Flowing, Watched, Known
        <5>2. uncovered[s] = 0 /\ monitor[s].timer \in Nat
          BY <1>0, <5>1 DEF Covered, Exposed, TypeOK
        <5> QED
          BY <3>1, <4>1, <5>2 DEF Exposed
      <4> QED
        BY <4>2, <4>3, <4>4, <4>5, <4>6 DEF Covered
    <3> QED
      BY <3>8, <3>9
  <2> QED
    BY <2>1, <2>2
<1> QED
  BY <1>1, <1>2, <1>3 DEF NodeStep

LEMMA MonitorCovers ==
  ASSUME TypeOK, TypeOK', CoverInv, NEW r \in Runs, MonitorStep(r)
  PROVE  CoverInv'
<1> SUFFICES ASSUME NEW s \in Runs
             PROVE  Covered(s)'
  BY DEF CoverInv
<1>0. Covered(s) /\ UNCHANGED <<table, handler, run, traffic, uncovered>>
  BY DEF CoverInv, MonitorStep, Renew, RenewAnswered, RenewFails
<1>1. CASE s # r
  <2>1. monitor'[s] = monitor[s]
    BY <1>1 DEF MonitorStep, Renew, RenewAnswered, RenewFails, Becomes, TypeOK
  <2> QED
    BY <1>0, <2>1
    DEF Covered, OwnEntry, HasId, Watched, Flowing, InTime, Young, Exposed, Held
<1>2. CASE s = r
  <2>1. OwnEntry(s)' /\ HasId(s)'
    BY <1>0 DEF Covered, OwnEntry, HasId, Held
  <2>2. CASE run[s].at # "holds"
    <3>1. Watched(s)' /\ Flowing(s)' /\ Exposed(s)' /\ ~traffic[s]
      BY <1>0, <2>2 DEF Covered, Watched, Flowing, Exposed
    <3>2. Young(s)'
      BY <1>0, <2>2 DEF Covered, Young, Held
    <3>3. InTime(s)'
      <4>1. \/ monitor'[s].at = "calling" /\ monitor'[s].timer = 0
            \/ monitor'[s].at = "off"
        BY <1>2, <2>2
        DEF MonitorStep, Renew, RenewAnswered, RenewFails, Interrupted, Becomes,
            Monitoring, Off, TypeOK
      <4> QED
        BY <1>0, <3>1, <4>1, Times DEF InTime
    <3> QED
      BY <2>1, <3>1, <3>2, <3>3 DEF Covered
  <2>3. CASE run[s].at = "holds"
    <3>1. /\ monitor'[s].id = monitor[s].id /\ monitor'[s].timer = 0
          /\ \/ /\ monitor[s].at = "waiting" /\ monitor[s].timer = Interval
                /\ monitor'[s].at = "calling"
             \/ monitor[s].at = "renewed" /\ monitor'[s].at = "waiting"
             \/ /\ monitor[s].at \in {"unknown", "calling", "renewed"}
                /\ monitor'[s].at = "failed"
      BY <1>2, <2>3
      DEF MonitorStep, Renew, RenewAnswered, RenewFails, Interrupted, Becomes,
          Monitoring, TypeOK
    <3>2. Watched(s)' /\ Flowing(s)'
      BY <1>0, <2>3, <3>1 DEF Covered, Watched, Flowing, Held
    <3>3. InTime(s)'
      BY <1>0, <3>1, Times DEF InTime
    <3>4. Young(s)'
      <4> SUFFICES ASSUME run[s].id \in Held(table)
                   PROVE  Young(s)'
        BY <1>0 DEF Young, Held
      <4> DEFINE a == table[run[s].id].age
      <4>1. a \in Nat /\ monitor[s].timer \in Nat
        BY Times DEF TypeOK, Held
      <4>2. monitor'[s].at = "calling" => a <= Latency + Interval
        BY <1>0, <2>3, <3>1, <4>1, Times DEF Covered, Young
      <4>3. monitor'[s].at = "waiting" => a <= Latency
        <5> SUFFICES ASSUME monitor'[s].at = "waiting"
                     PROVE  a <= Latency
          OBVIOUS
        <5>1. a <= monitor[s].timer /\ monitor[s].timer <= Latency
          BY <1>0, <2>3, <3>1 DEF Covered, Young, InTime
        <5> QED
          BY <4>1, <5>1, Times
      <4>4. monitor'[s].at = "failed" /\ traffic[s] => a <= 2 * Latency + Interval
        <5> SUFFICES ASSUME monitor'[s].at = "failed", traffic[s]
                     PROVE  a <= 2 * Latency + Interval
          OBVIOUS
        <5>1. /\ monitor[s].at \in {"calling", "renewed"}
              /\ monitor[s].timer <= Latency
          BY <1>0, <2>3, <3>1 DEF Covered, Watched, InTime
        <5>2. a <= Latency + Interval + monitor[s].timer \/ a <= monitor[s].timer
          BY <1>0, <2>3, <5>1 DEF Covered, Young
        <5> QED
          BY <4>1, <5>1, <5>2, Times
      <4> QED
        BY <1>0, <2>3, <3>1, <4>1, <4>2, <4>3, <4>4, Times DEF Young, Held
    <3>5. Exposed(s)'
      <4> SUFFICES ASSUME traffic[s]
                   PROVE  Exposed(s)'
        BY <1>0 DEF Exposed
      <4> DEFINE u == uncovered[s]
                 t == monitor[s].timer
      <4>1. u \in Nat /\ t \in Nat
        BY Times DEF TypeOK
      <4>2. run[s].id \in Held(table)' => u = 0
        BY <1>0 DEF Covered, Exposed, Held
      <4>3. monitor[s].at = "waiting" => u <= Latency + t
        BY <1>0 DEF Covered, Exposed
      <4>4. /\ monitor[s].at = "renewed" => u <= t
            /\ monitor[s].at \in {"calling", "unknown"} => u <= Latency + Interval + t
            /\ monitor[s].at \in {"calling", "unknown", "renewed"} => t <= Latency
        BY <1>0 DEF Covered, Exposed, InTime
      <4> QED
        BY <1>0, <3>1, <4>1, <4>2, <4>3, <4>4, Times DEF Exposed
    <3> QED
      BY <2>1, <3>2, <3>3, <3>4, <3>5 DEF Covered
  <2> QED
    BY <2>2, <2>3
<1> QED
  BY <1>1, <1>2

(* A step of a run other than s, in which at most the run's own entry goes.   *)
LEMMA OthersUndisturbed ==
  ASSUME TypeOK, TypeOK', CoverInv, NEW r \in Runs, RunStep(r),
         NEW s \in Runs, s # r
  PROVE  Covered(s)'
<1>0. Covered(s) /\ Covered(r)
  BY DEF CoverInv
<1>1. /\ run'[s] = run[s] /\ monitor'[s] = monitor[s] /\ traffic'[s] = traffic[s]
      /\ uncovered'[s] = uncovered[s]
  BY DEF RunStep, Ask, Answered, AskFails, StartTraffic, EndTraffic, Finish,
         Release, Dies, TypeOK
<1>2. CASE table' = Pruned
  BY <1>1, <1>2, PruningDisturbsNobody
<1>3. CASE table' = table
  <2>1. run[s].id \in Held(table) => table[run[s].id].age <= table[run[s].id].age
    BY Times DEF TypeOK, Held
  <2> QED
    BY <1>0, <1>1, <1>3, <2>1, Undisturbed DEF Covered, Flowing, Held
<1>4. CASE table' = [table EXCEPT ![run[r].id] = Free]
  <2>1. CASE run[r].id \in Held(table)
    <3>1. table[run[r].id].owner = r /\ run[r].id \in Ids
      BY <1>0, <2>1 DEF Covered, OwnEntry, Held
    <3>2. run[s].id \in Held(table) => run[s].id # run[r].id
      BY <1>0, <3>1 DEF Covered, OwnEntry
    <3>3. \A j \in Ids : j # run[r].id => table'[j] = table[j]
      BY <1>4 DEF TypeOK
    <3>4. table'[run[r].id].owner = None
      BY <1>4, <3>1 DEF TypeOK, Free
    <3>5. /\ run[s].id \in Held(table)' <=> run[s].id \in Held(table)
          /\ run[s].id \in Held(table) => table'[run[s].id] = table[run[s].id]
      BY <3>2, <3>3, <3>4 DEF Held
    <3>6. run[s].id \in Held(table) =>
            table'[run[s].id].age <= table[run[s].id].age
      BY <3>5, Times DEF TypeOK, Held
    <3> QED
      BY <1>0, <1>1, <3>5, <3>6, Undisturbed DEF Covered, Flowing
  <2>2. CASE run[r].id \notin Held(table)
    <3>1. \A j \in Ids : j \in Held(table) => j # run[r].id /\ table'[j] = table[j]
      BY <1>4, <2>2 DEF TypeOK
    <3>2. run[r].id \notin Held(table)'
      BY <1>4, <2>2 DEF TypeOK, Held, Free
    <3>3. /\ run[s].id \in Held(table)' <=> run[s].id \in Held(table)
          /\ run[s].id \in Held(table) => table'[run[s].id] = table[run[s].id]
      BY <1>4, <3>1, <3>2 DEF Held, TypeOK
    <3>4. run[s].id \in Held(table) =>
            table'[run[s].id].age <= table[run[s].id].age
      BY <3>3, Times DEF TypeOK, Held
    <3> QED
      BY <1>0, <1>1, <3>3, <3>4, Undisturbed DEF Covered, Flowing
  <2> QED
    BY <2>1, <2>2
<1> QED
  BY <1>2, <1>3, <1>4
  DEF RunStep, Ask, Answered, AskFails, StartTraffic, EndTraffic, Finish, Release, Dies

LEMMA RunCovers ==
  ASSUME TypeOK, TypeOK', CoverInv, NEW r \in Runs, RunStep(r)
  PROVE  CoverInv'
<1> SUFFICES Covered(r)'
  BY OthersUndisturbed DEF CoverInv
<1>0. Covered(r)
  BY DEF CoverInv
<1>a. None \notin Held(table) /\ None \notin Held(table)'
  BY NoneAssumption DEF Held
<1>1. CASE Ask(r)
  <2>1. /\ run[r] = Idle /\ run'[r].at = "asking" /\ run'[r].id = None
        /\ UNCHANGED <<table, monitor, traffic, uncovered>>
    BY <1>0, <1>1 DEF Ask, TypeOK, Idle
  <2>2. ~traffic[r]
    BY <1>0, <2>1 DEF Covered, Flowing, Idle
  <2> QED
    BY <1>0, <1>a, <2>1, <2>2
    DEF Covered, OwnEntry, HasId, Watched, Flowing, InTime, Young, Exposed
<1>2. CASE Answered(r)
  <2>1. /\ run[r].at = "answered" /\ UNCHANGED <<table, traffic, uncovered>>
        /\ run'[r].at = "holds" /\ run'[r].id = run[r].id
        /\ monitor'[r].at = "waiting" /\ monitor'[r].id = run[r].id
        /\ monitor'[r].timer = 0
    BY <1>2 DEF Answered, Monitoring, TypeOK
  <2>2. ~traffic[r]
    BY <1>0, <2>1 DEF Covered, Flowing
  <2>3. run[r].id \in Held(table) => table[run[r].id].age <= Latency
    <3> SUFFICES ASSUME run[r].id \in Held(table)
                 PROVE  table[run[r].id].age <= Latency
      OBVIOUS
    <3>1. table[run[r].id].age <= run[r].timer
      BY <1>0, <2>1 DEF Covered, Young
    <3>2. table[run[r].id].age \in Nat /\ run[r].timer \in 0 .. Latency
      BY Times DEF TypeOK, Held
    <3> QED
      BY <3>1, <3>2, Times
  <2>4. OwnEntry(r)' /\ HasId(r)' /\ Watched(r)' /\ Flowing(r)' /\ InTime(r)'
    BY <1>0, <2>1, <2>2, Times
    DEF Covered, OwnEntry, HasId, Watched, Flowing, InTime, Held
  <2>5. Young(r)' /\ Exposed(r)'
    BY <2>1, <2>2, <2>3, Times DEF Young, Exposed, Held
  <2> QED
    BY <2>4, <2>5 DEF Covered
<1>3. CASE AskFails(r) \/ Release(r)
  <2>1. /\ run'[r] = Idle /\ run[r].at \in {"asking", "answered", "releasing"}
        /\ UNCHANGED <<monitor, traffic, uncovered>>
    BY <1>3 DEF AskFails, Release, TypeOK
  <2>2. ~traffic[r]
    BY <1>0, <2>1 DEF Covered, Flowing
  <2> QED
    BY <1>0, <1>a, <2>1, <2>2
    DEF Idle, Covered, OwnEntry, HasId, Watched, Flowing, InTime, Young, Exposed
<1>4. CASE StartTraffic(r)
  <2>1. /\ table' = Pruned /\ UNCHANGED <<handler, run, monitor>>
        /\ run[r].at = "holds" /\ monitor[r].at # "failed"
        /\ traffic'[r] = Authorised(r) /\ uncovered'[r] = 0
    BY <1>4 DEF StartTraffic, TypeOK
  <2>2. /\ Held(table)' = Held(Pruned)
        /\ run[r].id \in Held(table)' =>
             /\ run[r].id \in Held(table)
             /\ table'[run[r].id] = table[run[r].id]
    BY <2>1, Pruning DEF Held
  <2>3. CASE monitor[r].at = "unknown"
    <3>1. ~traffic'[r] /\ run[r].id \notin Held(table)'
      BY <1>0, <2>1, <2>2, <2>3, Pruning DEF Covered, Watched, Authorised
    <3> QED
      BY <1>0, <2>1, <2>2, <2>3, <3>1
      DEF Covered, OwnEntry, HasId, Watched, Flowing, InTime, Young, Exposed
  <2>4. CASE monitor[r].at # "unknown"
    <3>1. OwnEntry(r)' /\ HasId(r)' /\ Watched(r)' /\ Flowing(r)'
      BY <1>0, <2>1, <2>2, <2>4
      DEF Covered, OwnEntry, HasId, Watched, Flowing, Authorised
    <3>2. InTime(r)' /\ Young(r)'
      BY <1>0, <2>1, <2>2 DEF Covered, InTime, Young
    <3>3. Exposed(r)'
      <4>1. monitor[r].timer \in Nat
        BY DEF TypeOK
      <4> QED
        BY <2>1, <4>1, Times DEF Exposed
    <3> QED
      BY <3>1, <3>2, <3>3 DEF Covered
  <2> QED
    BY <2>3, <2>4
<1>5. CASE EndTraffic(r)
  <2>1. UNCHANGED <<table, handler, run, monitor>> /\ ~traffic'[r]
    BY <1>5 DEF EndTraffic, TypeOK
  <2> QED
    BY <1>0, <2>1
    DEF Covered, OwnEntry, HasId, Watched, Flowing, InTime, Young, Exposed, Held
<1>6. CASE Finish(r)
  <2>1. /\ UNCHANGED <<table, traffic, uncovered>> /\ ~traffic[r]
        /\ run[r].at = "holds" /\ run'[r].at = "releasing" /\ run'[r].id = run[r].id
        /\ monitor'[r] = Stopped(monitor[r])
    BY <1>6 DEF Finish, TypeOK
  <2>2. monitor'[r].at = "off" \/ monitor'[r] = monitor[r]
    BY <2>1 DEF Stopped, Off
  <2> QED
    BY <1>0, <2>1, <2>2
    DEF Covered, OwnEntry, HasId, Watched, Flowing, InTime, Young, Exposed, Held
<1>7. CASE Dies(r)
  <2>1. /\ run'[r] = Idle /\ ~traffic'[r] /\ monitor'[r] = Off
    BY <1>7 DEF Dies, TypeOK
  <2> QED
    BY <1>a, <2>1
    DEF Idle, Off, Covered, OwnEntry, HasId, Watched, Flowing, InTime, Young, Exposed
<1> QED
  BY <1>1, <1>2, <1>3, <1>4, <1>5, <1>6, <1>7 DEF RunStep

(* The entry of a run that has traffic is spared by a recovery that knows it. *)
LEMMA RecoveryCovers ==
  ASSUME TypeOK, TypeOK', CoverInv, NEW i \in Ids, RecoverOrphan(i)
  PROVE  CoverInv'
<1> SUFFICES ASSUME NEW s \in Runs
             PROVE  Covered(s)'
  BY DEF CoverInv
<1>0. Covered(s) /\ UNCHANGED <<run, monitor, traffic, uncovered>>
  BY DEF CoverInv, RecoverOrphan
<1>1. Held(table)' = Held(table) \ {i} /\ \A j \in Held(table)' : table'[j] = table[j]
  BY DEF RecoverOrphan, Held, Free, TypeOK
<1>2. traffic[s] => s \in Unprotected \/ run[s].id # i
  BY <1>0 DEF RecoverOrphan, Orphaned, InUse, Covered, Flowing, OwnEntry
<1>3. traffic[s] => s \in Unprotected \/ run[s].id \in Held(table)'
  BY <1>0, <1>1, <1>2 DEF Covered, Flowing
<1>4. \A j \in Held(table) : table[j].age <= table[j].age
  BY Times DEF TypeOK, Held
<1> QED
  BY <1>0, <1>1, <1>3, <1>4, Undisturbed

LEMMA RestartCovers ==
  ASSUME TypeOK, TypeOK', CoverInv, NodeRestarts
  PROVE  CoverInv'
<1> SUFFICES ASSUME NEW s \in Runs
             PROVE  Covered(s)'
  BY DEF CoverInv
<1>1. Covered(s)
  BY DEF CoverInv
<1>2. ~traffic'[s] /\ UNCHANGED monitor /\ run'[s] \in {run[s], Idle}
  BY DEF NodeRestarts
<1>3. run'[s] = Idle => run[s].at \in {"asking", "idle"}
  BY DEF NodeRestarts, Idle
<1>4. Held(table)' = {}
  BY DEF NodeRestarts, Held, Free
<1> QED
  BY <1>1, <1>2, <1>3, <1>4
  DEF Idle, Covered, OwnEntry, HasId, Watched, Flowing, InTime, Young, Exposed

(* Time passes only when nobody is due; ages and timers grow together.       *)
LEMMA TickCovers ==
  ASSUME TypeOK, TypeOK', CoverInv, Tick
  PROVE  CoverInv'
<1> SUFFICES ASSUME NEW s \in Runs
             PROVE  Covered(s)'
  BY DEF CoverInv
<1> DEFINE i == run[s].id
           m == monitor[s]
           n == monitor'[s]
<1>0. Covered(s)
  BY DEF CoverInv
<1>1. traffic' = traffic /\ run'[s].at = run[s].at /\ run'[s].id = run[s].id
  BY DEF Tick, TypeOK
<1>2. run[s].at = "answered" => run'[s].timer = run[s].timer + 1
  BY DEF Tick, TypeOK
<1>3. /\ n.at = m.at
      /\ m.at # "off" => n.id = m.id
      /\ m.at \in {"waiting", "calling", "renewed", "unknown"} => n.timer = m.timer + 1
      /\ m.at = "failed" => n.timer = Later(m.timer, StopDelay)
  <2>1. CASE m.at = "off"
    <3>1. n = Off
      BY <2>1 DEF Tick
    <3> QED
      BY <2>1, <3>1 DEF Off
  <2>2. CASE m.at = "failed"
    BY <2>2 DEF Tick, TypeOK
  <2>3. CASE m.at \notin {"off", "failed"}
    BY <2>3 DEF Tick, TypeOK
  <2> QED
    BY <2>1, <2>2, <2>3
<1>4. m.at = "failed" /\ traffic[s] => m.timer < StopDelay /\ n.timer = m.timer + 1
  <2> SUFFICES ASSUME m.at = "failed", traffic[s]
               PROVE  m.timer < StopDelay /\ n.timer = m.timer + 1
    OBVIOUS
  <2>1. ~(m.timer >= StopDelay)
    BY DEF Tick, NobodyIsDue, StopsInTime
  <2> QED
    BY <1>3, <2>1, Times DEF Later, Least, TypeOK
<1>5. Held(table)' = Held(table)
  <2>1. ASSUME NEW j \in Ids
        PROVE  table'[j].owner # None <=> table[j].owner # None
    BY DEF Tick, Held, Free, TypeOK
  <2> QED
    BY <2>1 DEF Held
<1>6. i \in Held(table) =>
        /\ table'[i].owner = table[i].owner
        /\ table[i].age \in Nat /\ table'[i].age \in Nat
        /\ table'[i].age <= table[i].age + 1
  <2> SUFFICES ASSUME i \in Held(table)
               PROVE  /\ table'[i].owner = table[i].owner
                      /\ table[i].age \in Nat /\ table'[i].age \in Nat
                      /\ table'[i].age <= table[i].age + 1
    OBVIOUS
  <2>1. i \in Ids /\ table[i].age \in Nat
    BY Times DEF TypeOK, Held
  <2>2. table'[i] = [table[i] EXCEPT !.age = Later(table[i].age, TTL + 1)]
    BY <2>1 DEF Tick
  <2>3. /\ table'[i].owner = table[i].owner
        /\ table'[i].age = Later(table[i].age, TTL + 1)
    BY <2>1, <2>2 DEF TypeOK
  <2> QED
    BY <2>1, <2>3, Times DEF Later, Least
<1>7. OwnEntry(s)' /\ HasId(s)' /\ Watched(s)' /\ Flowing(s)'
  BY <1>0, <1>1, <1>3, <1>5, <1>6 DEF Covered, OwnEntry, HasId, Watched, Flowing
<1>8. m.timer \in Nat /\ run[s].timer \in Nat /\ n.timer \in Nat
  BY Times DEF TypeOK
<1>9. InTime(s)'
  <2>1. m.at = "waiting" => m.timer < Interval
    BY DEF Tick, NobodyIsDue
  <2>2. m.at \in {"calling", "renewed", "unknown"} => m.timer < Latency
    BY DEF Tick, NobodyIsDue
  <2> QED
    BY <1>1, <1>3, <1>4, <1>8, <2>1, <2>2, Times DEF InTime
<1>10. Young(s)'
  <2> SUFFICES ASSUME i \in Held(table)
               PROVE  Young(s)'
    BY <1>1, <1>5 DEF Young
  <2>1. Young(s)
    BY <1>0 DEF Covered
  <2> QED
    BY <1>1, <1>2, <1>3, <1>4, <1>6, <1>8, <2>1, Times DEF Young
<1>11. Exposed(s)'
  <2> SUFFICES ASSUME traffic[s]
               PROVE  Exposed(s)'
    BY <1>1 DEF Exposed
  <2> DEFINE u == uncovered[s]
             v == uncovered'[s]
  <2>1. u \in Nat /\ v \in Nat /\ v <= u + 1
    BY Times DEF Tick, Later, Least, TypeOK
  <2>2. i \in Held(table)' => v = 0
    BY <1>1, <1>5, HeldIsInForce DEF Tick
  <2>3. Exposed(s)
    BY <1>0 DEF Covered
  <2> QED
    BY <1>1, <1>3, <1>4, <1>8, <2>1, <2>2, <2>3, Times DEF Exposed
<1> QED
  BY <1>7, <1>9, <1>10, <1>11 DEF Covered

LEMMA NextCovers == TypeOK /\ TypeOK' /\ CoverInv /\ [Next]_vars => CoverInv'
<1> SUFFICES ASSUME TypeOK, TypeOK', CoverInv, [Next]_vars
             PROVE  CoverInv'
  OBVIOUS
<1>1. CASE UNCHANGED vars
  BY <1>1
  DEF vars, CoverInv, Covered, OwnEntry, HasId, Watched, Flowing, InTime, Young, Exposed,
      Held
<1>2. CASE Status
  BY <1>2, PruningDisturbsNobody DEF Status, CoverInv
<1> QED
  BY <1>1, <1>2, NodeCovers, MonitorCovers, RunCovers, RecoveryCovers, RestartCovers,
     TickCovers
  DEF Next

LEMMA InitCovers == Init => CoverInv
BY NoneAssumption
DEF Init, Idle, Off, Free, Held, CoverInv, Covered, OwnEntry, HasId, Watched, Flowing,
    InTime, Young, Exposed

(* Traffic flows under a reservation in force, or for at most Overrun after a *)
(* recovery has deleted it, for every number of runs and ids, whichever runs  *)
(* are protected, and all times with Overrun <= TTL: but for such a recovery  *)
(* the node never gives away a place that is still in use.                   *)
THEOREM Cover == Spec => []TrafficCovered
<1>1. TypeOK /\ CoverInv /\ [Next]_vars => CoverInv'
  BY NextType, NextCovers
<1> QED
  BY <1>1, InitCovers, Types, NextType, CoverInvImpliesCovered, PTL DEF Spec

=============================================================================

------------------------------ MODULE TestNode ------------------------------
(***************************************************************************)
(* The reservations of a test node and the runs that live by them: the      *)
(* table of deploy/stockbot-fileserver.py and testnode's app.py, whose       *)
(* requests run in threads of their own; and of each run the calls of       *)
(* testnode/client.py, the renewal thread and the traffic it authorises.    *)
(*                                                                          *)
(* Time is counted in ticks.  Every timer and every age is a number of      *)
(* ticks, and Tick waits for whoever must act before the time goes on.      *)
(*                                                                          *)
(* A definition marked "mutant" is not part of the model: it is the         *)
(* definition below it with a plausible mistake.                            *)
(***************************************************************************)
EXTENDS Naturals, FiniteSets

CONSTANTS
  Runs,         \* runs that may use the node, from one controller or several
  Ids,          \* reservation ids; an id stands for its token too
  None,         \* no id
  TTL,          \* seconds a reservation lives without renewal
  MaxInterval,  \* 300 seconds
  Latency,      \* the longest a call to the node takes, 15 seconds
  StopDelay,    \* the longest a traffic stage overlooks its cancel token
  Unprotected,  \* runs whose reservations a controller's recovery takes for
                \* orphaned though they are in use: those it has not in its own
                \* database, and lab runs that are not its active one
  Faults        \* whether calls may fail and answers get lost, the node and
                \* the controllers restart

Least(a, b) == IF a < b THEN a ELSE b

(* _reservation_renew_interval_seconds; max(1, ...) never applies, since     *)
(* _reservation_ttl_seconds is at least 600.                                 *)
Interval == Least(MaxInterval, TTL \div 3)

ASSUME TimingAssumption ==
  /\ {TTL, MaxInterval, Latency, StopDelay} \subseteq Nat
  /\ Interval > 0
  /\ Interval + 2 * Latency + StopDelay <= TTL

ASSUME NoneAssumption == None \notin Ids \union Runs

ASSUME UnprotectedAssumption == Unprotected \subseteq Runs

VARIABLES
  table,    \* RESERVATIONS: the entry of each id, or Free
  handler,  \* the node's thread for a run's create request
  run,      \* each run: where it is, the reservation it holds, its timer
  monitor,  \* each run's renewal thread
  traffic,  \* whether a stage of the run has traffic the node accepted
  uncovered \* history: for how many ticks the run's traffic has gone on
            \* without a reservation

vars == <<table, handler, run, monitor, traffic, uncovered>>

-----------------------------------------------------------------------------
Free == [owner |-> None, age |-> 0]
Undated(r) == [owner |-> r, age |-> 2 * (TTL + 1)]                 \* mutant
Entry(r) == [owner |-> r, age |-> 0]
Held(t) == {i \in Ids : t[i].owner # None}

(* An entry lives for its TTL, the last second included; then the next      *)
(* request but a DELETE removes it.                                          *)
Expired == {i \in Held(table) : table[i].age > TTL}
Pruned == [i \in Ids |-> IF i \in Expired THEN Free ELSE table[i]]

Idle == [at |-> "idle", id |-> None, timer |-> 0]
Off == [at |-> "off", id |-> None, timer |-> 0]
Monitoring(state, i) == [at |-> state, id |-> i, timer |-> 0]

(* A uuid4: an id that nobody has.                                           *)
Fresh ==
  {i \in Ids \ Held(table) : \A r \in Runs : i \notin {run[r].id, monitor[r].id}}

-----------------------------------------------------------------------------
(* create_reservation: the check and the insertion are separate steps;      *)
(* stockbot reads the request's body in between.                             *)

Ask(r) ==
  /\ run[r] = Idle
  /\ handler[r] = "none"
  /\ monitor[r] = Off
  /\ run' = [run EXCEPT ![r].at = "asking"]
  /\ handler' = [handler EXCEPT ![r] = "called"]
  /\ UNCHANGED <<table, monitor, traffic, uncovered>>

NodeIsFree == Held(Pruned) = {}

(* A 409 ends the call and the run.                                          *)
CreateCheck(r) ==
  /\ handler[r] = "called"
  /\ table' = Pruned
  /\ IF NodeIsFree
       THEN handler' = [handler EXCEPT ![r] = "admitted"] /\ UNCHANGED run
       ELSE /\ handler' = [handler EXCEPT ![r] = "none"]
            /\ run' = IF run[r].at = "asking" THEN [run EXCEPT ![r] = Idle]
                                              ELSE run
  /\ UNCHANGED <<monitor, traffic, uncovered>>

(* The answer brings the id, the token and the renewal thread's start; or it *)
(* comes too late, or not at all, and nobody knows of the reservation.       *)
CreateInsert(r) ==
  /\ handler[r] = "admitted"
  /\ handler' = [handler EXCEPT ![r] = "none"]
  /\ \E i \in Fresh :
       /\ table' = [table EXCEPT ![i] = Entry(r)]
       /\ \/ /\ run[r].at = "asking"
             /\ run' = [run EXCEPT ![r] = [at |-> "answered", id |-> i, timer |-> @.timer]]
          \/ /\ run[r].at # "asking" \/ Faults
             /\ UNCHANGED run
  /\ UNCHANGED <<monitor, traffic, uncovered>>

Answered(r) ==
  /\ run[r].at = "answered"
  /\ run' = [run EXCEPT ![r] = [at |-> "holds", id |-> run[r].id, timer |-> 0]]
  /\ monitor' = [monitor EXCEPT ![r] = Monitoring("waiting", run[r].id)]
  /\ UNCHANGED <<table, handler, traffic, uncovered>>

(* A timeout or a broken connection: the run fails, the node may go on.      *)
AskFails(r) ==
  /\ Faults
  /\ run[r].at \in {"asking", "answered"}
  /\ run' = [run EXCEPT ![r] = Idle]
  /\ UNCHANGED <<table, handler, monitor, traffic, uncovered>>

-----------------------------------------------------------------------------
(* ReservationRenewalMonitor._run                                           *)

GoesOn(r) == FALSE                                                \* mutant
(* while not self.stop_event.wait(...)                                       *)
Interrupted(r) == run[r].at # "holds"
Becomes(r, state) == monitor' = [monitor EXCEPT ![r] = Monitoring(state, @.id)]

Renew(r) ==
  /\ monitor[r].at = "waiting"
  /\ monitor[r].timer = Interval
  /\ Becomes(r, "calling")
  /\ UNCHANGED <<table, handler, run, traffic, uncovered>>

AlwaysKnown(i) == TRUE                                            \* mutant
Known(i) == i \in Held(Pruned)

(* renew_reservation at the node.                                            *)
RenewArrives(r) ==
  /\ monitor[r].at = "calling"
  /\ IF Known(monitor[r].id)
       THEN /\ table' = [Pruned EXCEPT ![monitor[r].id].age = 0]
            /\ monitor' = [monitor EXCEPT ![r].at = "renewed"]
       ELSE /\ table' = Pruned
            /\ monitor' = [monitor EXCEPT ![r].at = "unknown"]
  /\ UNCHANGED <<handler, run, traffic, uncovered>>

(* The answer; a thread that was stopped meanwhile ends.                     *)
RenewAnswered(r) ==
  /\ monitor[r].at = "renewed"
  /\ IF Interrupted(r) THEN monitor' = [monitor EXCEPT ![r] = Off]
                       ELSE Becomes(r, "waiting")
  /\ UNCHANGED <<table, handler, run, traffic, uncovered>>

(* A 404, or a call that fails on its way there or back; the failure Event   *)
(* starts the clock of the stage that is to stop.                            *)
RenewFails(r) ==
  /\ \/ monitor[r].at = "unknown"
     \/ Faults /\ monitor[r].at \in {"calling", "renewed"}
  /\ IF Interrupted(r) THEN monitor' = [monitor EXCEPT ![r] = Off]
                       ELSE Becomes(r, "failed")
  /\ UNCHANGED <<table, handler, run, traffic, uncovered>>

-----------------------------------------------------------------------------
(* Traffic: the node looks at the token when an upload begins, and at every  *)
(* datagram; the stage looks at its cancel token, which the failure Event    *)
(* sets, again and again.                                                    *)

(* A run sends its own token and its own id.                                 *)
Authorised(r) ==
  /\ run[r].id \in Held(Pruned)
  /\ Pruned[run[r].id].owner = r

StartTraffic(r) ==
  /\ run[r].at = "holds"
  /\ ~traffic[r]
  /\ monitor[r].at # "failed"
  /\ table' = Pruned
  /\ traffic' = [traffic EXCEPT ![r] = Authorised(r)]
  /\ uncovered' = [uncovered EXCEPT ![r] = 0]
  /\ UNCHANGED <<handler, run, monitor>>

(* A stage ends because it is done, or because it is to stop.                *)
EndTraffic(r) ==
  /\ traffic[r]
  /\ traffic' = [traffic EXCEPT ![r] = FALSE]
  /\ UNCHANGED <<table, handler, run, monitor, uncovered>>

-----------------------------------------------------------------------------
(* The finally clause: the renewal thread is stopped; stop() waits for it     *)
(* two seconds, and a call under way goes on.  DELETE asks for nothing but    *)
(* the id, and it may get lost.                                              *)

Stopped(m) == IF m.at \in {"waiting", "failed"} THEN Off ELSE m

Finish(r) ==
  /\ run[r].at = "holds"
  /\ ~traffic[r]
  /\ run' = [run EXCEPT ![r].at = "releasing"]
  /\ monitor' = [monitor EXCEPT ![r] = Stopped(@)]
  /\ UNCHANGED <<table, handler, traffic, uncovered>>

Release(r) ==
  /\ run[r].at = "releasing"
  /\ \/ table' = [table EXCEPT ![run[r].id] = Free]
     \/ Faults /\ UNCHANGED table
  /\ run' = [run EXCEPT ![r] = Idle]
  /\ UNCHANGED <<handler, monitor, traffic, uncovered>>

(* GET of the status or of a reservation prunes as well.                     *)
Status ==
  /\ table' = Pruned
  /\ UNCHANGED <<handler, run, monitor, traffic, uncovered>>

-----------------------------------------------------------------------------
(* _recover_orphaned_lab_reservations, when a controller starts or is asked  *)
(* for a lab run: after the status, it sends a DELETE for every entry whose  *)
(* owner is the name all controllers use, unless its own database knows the  *)
(* run, the run has not ended, and it is no lab run.  An id found in the      *)
(* status and gone meanwhile is no other's, so that the two requests are as  *)
(* good as one.                                                              *)

InUse(i) ==
  LET r == table[i].owner IN run[r].id = i /\ run[r].at # "releasing"

KnowsNobody(i) == TRUE                                            \* mutant
Orphaned(i) == table[i].owner \in Unprotected \/ ~InUse(i)

RecoverOrphan(i) ==
  /\ i \in Held(table)
  /\ Orphaned(i)
  /\ table' = [table EXCEPT ![i] = Free]
  /\ UNCHANGED <<handler, run, monitor, traffic, uncovered>>

-----------------------------------------------------------------------------
(* Restarts.  A node that restarts has lost its table and its connections.   *)
(* A controller that dies takes its runs' threads with it.                   *)

NodeRestarts ==
  /\ Faults
  /\ Held(table) # {}
  /\ table' = [i \in Ids |-> Free]
  /\ handler' = [r \in Runs |-> "none"]
  /\ run' = [r \in Runs |-> IF run[r].at = "asking" THEN Idle ELSE run[r]]
  /\ traffic' = [r \in Runs |-> FALSE]
  /\ UNCHANGED <<monitor, uncovered>>

Dies(r) ==
  /\ Faults
  /\ run[r].at = "holds"
  /\ run' = [run EXCEPT ![r] = Idle]
  /\ monitor' = [monitor EXCEPT ![r] = Off]
  /\ traffic' = [traffic EXCEPT ![r] = FALSE]
  /\ UNCHANGED <<table, handler, uncovered>>

-----------------------------------------------------------------------------
(* Time.                                                                    *)

Later(count, limit) == Least(count + 1, limit)

IgnoresLoss(m, t) == TRUE                                         \* mutant
StopsInTime(m, t) == ~(m.at = "failed" /\ t /\ m.timer >= StopDelay)

(* Nobody is late: an interval is over when it is over, a call is answered   *)
(* or fails within Latency, a stage stops within StopDelay.                  *)
NobodyIsDue ==
  \A r \in Runs :
    /\ run[r].at \in {"asking", "answered"} => run[r].timer < Latency
    /\ monitor[r].at = "waiting" => monitor[r].timer < Interval
    /\ monitor[r].at \in {"calling", "renewed", "unknown"} => monitor[r].timer < Latency
    /\ StopsInTime(monitor[r], traffic[r])

InForce(r) ==
  /\ run[r].id \in Held(table) \ Expired
  /\ table[run[r].id].owner = r

(* How long a loss can go unnoticed: the answer of a renewal made before it,  *)
(* the interval, the renewal that fails, the stage's reaction.               *)
Overrun == Interval + 2 * Latency + StopDelay

Tick ==
  /\ NobodyIsDue
  /\ table' = [i \in Ids |-> IF i \in Held(table)
                             THEN [table[i] EXCEPT !.age = Later(@, TTL + 1)] ELSE Free]
  /\ run' = [r \in Runs |->
       IF run[r].at \in {"asking", "answered"}
         THEN [run[r] EXCEPT !.timer = @ + 1] ELSE run[r]]
  /\ monitor' = [r \in Runs |->
       CASE monitor[r].at = "off" -> Off
         [] monitor[r].at = "failed" ->
              [monitor[r] EXCEPT !.timer = Later(@, StopDelay)]
         [] OTHER -> [monitor[r] EXCEPT !.timer = @ + 1]]
  /\ uncovered' = [r \in Runs |->
       IF traffic[r] /\ ~InForce(r) THEN Later(uncovered[r], Overrun + 1) ELSE 0]
  /\ UNCHANGED <<handler, traffic>>

-----------------------------------------------------------------------------
Init ==
  /\ table = [i \in Ids |-> Free]
  /\ handler = [r \in Runs |-> "none"]
  /\ run = [r \in Runs |-> Idle]
  /\ monitor = [r \in Runs |-> Off]
  /\ traffic = [r \in Runs |-> FALSE]
  /\ uncovered = [r \in Runs |-> 0]

NodeStep(r) == CreateCheck(r) \/ CreateInsert(r) \/ RenewArrives(r)
MonitorStep(r) == Renew(r) \/ RenewAnswered(r) \/ RenewFails(r)
RunStep(r) ==
  Ask(r) \/ Answered(r) \/ AskFails(r) \/ StartTraffic(r) \/ EndTraffic(r)
    \/ Finish(r) \/ Release(r) \/ Dies(r)

Next ==
  \/ \E r \in Runs : NodeStep(r) \/ MonitorStep(r) \/ RunStep(r)
  \/ Status
  \/ \E i \in Ids : RecoverOrphan(i)
  \/ NodeRestarts
  \/ Tick

Spec == Init /\ [][Next]_vars

(* Threads are scheduled, calls end and stages stop within their times, and  *)
(* time goes on.  No run must begin, begin a stage, finish or die.           *)
FairSpec ==
  /\ Spec
  /\ WF_vars(Tick)
  /\ \A r \in Runs :
       /\ WF_vars(NodeStep(r))
       /\ WF_vars(MonitorStep(r))
       /\ WF_vars(Answered(r))
       /\ WF_vars(AskFails(r))
       /\ WF_vars(EndTraffic(r))

-----------------------------------------------------------------------------
TypeOK ==
  /\ table \in [Ids -> [owner : Runs \union {None}, age : 0 .. TTL + 1]]
  /\ handler \in [Runs -> {"none", "called", "admitted"}]
  /\ run \in [Runs -> [at : {"idle", "asking", "answered", "holds", "releasing"},
                       id : Ids \union {None}, timer : 0 .. Latency]]
  /\ monitor \in
       [Runs -> [at : {"off", "waiting", "calling", "renewed", "unknown", "failed"},
                 id : Ids \union {None}, timer : Nat]]
  /\ traffic \in [Runs -> BOOLEAN]
  /\ uncovered \in [Runs -> 0 .. Overrun + 1]

(* docs/continuation.md:70: traffic flows under a reservation in force, the  *)
(* run's own, whatever calls fail or get lost and however the node and its    *)
(* threads behave: a run learns of a failed renewal, and stops its traffic,   *)
(* before the node would give its place away.  Only a run whose reservation  *)
(* is deleted by a recovery goes on without, until its next renewal fails;    *)
(* that takes no longer than the longest a renewed one is out of touch.       *)
TrafficCovered ==
  \A r \in Runs : traffic[r] =>
    \/ InForce(r)
    \/ /\ r \in Unprotected
       /\ run[r].id \notin Held(table)
       /\ uncovered[r] <= Overrun

(* test_testnode.py:33 and app.py:107: the node is reserved once.            *)
ReservedOnce == Cardinality(Held(table) \ Expired) <= 1

(* A run whose reservation the node has lost finds out, and its renewals     *)
(* fail, unless the run ends first.                                          *)
LossIsLearnt ==
  \A r \in Runs :
    (run[r].at = "holds" /\ run[r].id \notin Held(table))
      ~> (run[r].at # "holds" \/ monitor[r].at = "failed")

(* A reservation that no run holds any more, because an answer, a DELETE or a *)
(* controller was lost, lapses: the node comes free without anybody's help.  *)
OrphansLapse ==
  \A i \in Ids :
    (i \in Held(table) /\ \A r \in Runs : run[r].id # i)
      ~> (i \notin Held(table) \ Expired)

=============================================================================

----------------------------- MODULE Preconditions -----------------------------
(***************************************************************************)
(* wait_for_stable_paths: before each run of a batch the worker samples the  *)
(* router's paths until they have been registered for long enough, its       *)
(* patience is over, or it is cancelled.  Times are ticks since the call.    *)
(*                                                                          *)
(* A definition marked "mutant" is not part of the model: it is the         *)
(* definition below it with a plausible mistake.                            *)
(***************************************************************************)
EXTENDS StageParameters, Sequences

VARIABLES
  time,       \* monotonic()
  wait,       \* where the call is, and its local variables
  cancelled,  \* whether the batch's Event is set
  samples     \* the samples: when begun, whether all paths were registered

vars == <<time, wait, cancelled, samples>>

NotStable == -1    \* stable_since is None

LeastOf(m, n) == IF m <= n THEN m ELSE n
NotBelow(bound, n) == IF n < bound THEN bound ELSE n

-----------------------------------------------------------------------------
Place(at, now, stableSince, outcome) ==
  [at |-> at, now |-> now, stableSince |-> stableSince, outcome |-> outcome]

Over(now, outcome) == Place("over", now, wait.stableSince, outcome)

(* The top of the loop: cancel_check, then the deadline.                     *)
Check ==
  /\ wait.at = "check"
  /\ wait' = IF cancelled THEN Over(wait.now, "USER_CANCELLED")
             ELSE IF time >= Timeout THEN Over(time, "MODEM_NOT_REGISTERED")
             ELSE Place("sample", time, wait.stableSince, "open")
  /\ UNCHANGED <<time, cancelled, samples>>

LongerThan(observed) == observed > RequiredSeconds                       \* mutant
LongEnough(observed) == observed >= RequiredSeconds

GoesOn(w) == w.stableSince                                        \* mutant
(* A sample with a path that is not registered starts the window anew.       *)
Unregistered(w) == NotStable

(* collect_path_telemetry takes its time; `now' is from before it.           *)
Sample ==
  /\ wait.at = "sample"
  /\ time' \in time .. time + SampleLatency
  /\ \E registered \in BOOLEAN :
       /\ samples' = Append(samples, [begun |-> wait.now, registered |-> registered])
       /\ LET since    == IF ~registered THEN Unregistered(wait)
                          ELSE IF wait.stableSince = NotStable THEN wait.now
                          ELSE wait.stableSince
              enough   == registered /\ LongEnough(wait.now - since)
          IN wait' = IF enough THEN Place("over", wait.now, since, "OK")
                     ELSE Place("sleep", wait.now, since, "open")
  /\ UNCHANGED cancelled

SampleFails ==
  /\ wait.at = "sample"
  /\ time' \in time .. time + SampleLatency
  /\ wait' = Over(wait.now, "raised")
  /\ UNCHANGED <<cancelled, samples>>

SleepTime == LeastOf(PollInterval, NotBelow(0, Timeout - wait.now))

Sleep ==
  /\ wait.at = "sleep"
  /\ time' = time + SleepTime
  /\ wait' = Place("check", wait.now, wait.stableSince, "open")
  /\ UNCHANGED <<cancelled, samples>>

Cancel ==
  /\ ~cancelled /\ wait.at # "over"
  /\ cancelled' = TRUE
  /\ UNCHANGED <<time, wait, samples>>

-----------------------------------------------------------------------------
Init ==
  /\ time = 0
  /\ wait = Place("check", 0, NotStable, "open")
  /\ cancelled = FALSE
  /\ samples = << >>

Next == Check \/ Sample \/ SampleFails \/ Sleep \/ Cancel

Spec == Init /\ [][Next]_vars

-----------------------------------------------------------------------------
(* Properties.                                                              *)

Outcomes == {"open", "OK", "MODEM_NOT_REGISTERED", "USER_CANCELLED", "raised"}

(* In particular the call ends at most one sample after its deadline.        *)
TypeOK ==
  /\ time \in 0 .. Timeout + SampleLatency
  /\ wait \in [at : {"check", "sample", "sleep", "over"}, now : 0 .. Timeout + SampleLatency,
               stableSince : {NotStable} \union (0 .. Timeout), outcome : Outcomes]
  /\ cancelled \in BOOLEAN
  /\ \A k \in DOMAIN samples : samples[k].begun \in 0 .. Timeout - 1

(* All samples from the k-th on were registered.                             *)
RegisteredFrom(k) ==
  k \in DOMAIN samples /\ \A l \in k .. Len(samples) : samples[l].registered

Gap == PollInterval + SampleLatency

(* A run starts only after an unbroken window: the last samples are all      *)
(* registered, span the required time, and no two of them are further apart  *)
(* than a poll interval and a sample.                                        *)
OkIsEarned ==
  wait.outcome = "OK" =>
    \E k \in DOMAIN samples :
      /\ RegisteredFrom(k)
      /\ samples[Len(samples)].begun - samples[k].begun >= RequiredSeconds
      /\ \A l \in k + 1 .. Len(samples) : samples[l].begun - samples[l - 1].begun <= Gap

(* An attempt is skipped only if no window could be completed: paths that    *)
(* stay registered from a moment that leaves room for the window and one gap *)
(* are never found wanting.                                                  *)
NotSkippedInVain ==
  wait.outcome = "MODEM_NOT_REGISTERED" =>
    \A k \in DOMAIN samples :
      RegisteredFrom(k) => samples[k].begun + RequiredSeconds + Gap > Timeout
=============================================================================

-------------------------- MODULE PreconditionsProofs --------------------------
(***************************************************************************)
(* Preconditions for every required window, patience, poll interval and      *)
(* duration of a sample: OK is earned by an unbroken window, and nobody is   *)
(* skipped whose paths left room for one.                                    *)
(***************************************************************************)
EXTENDS Preconditions, TLAPS

(* What the call has in hand.                                                *)
Shape ==
  /\ time \in Nat
  /\ wait = Place(wait.at, wait.now, wait.stableSince, wait.outcome)
  /\ wait.at \in {"check", "sample", "sleep", "over"}
  /\ wait.now \in Nat
  /\ wait.stableSince \in Nat \union {NotStable}
  /\ wait.stableSince =< wait.now /\ wait.now =< time
  /\ wait.at = "sample" => wait.now = time
  /\ wait.at # "over" => wait.outcome = "open"
  /\ samples \in Seq([begun : Nat, registered : BOOLEAN])

(* stable_since is the beginning of the earliest window that still goes on.  *)
WindowIsKnown ==
  /\ wait.stableSince # NotStable =>
       \E k \in DOMAIN samples :
         RegisteredFrom(k) /\ samples[k].begun = wait.stableSince
  /\ \A k \in DOMAIN samples :
       RegisteredFrom(k) =>
         wait.stableSince # NotStable /\ wait.stableSince =< samples[k].begun

Latest == samples[Len(samples)].begun

(* No two samples are further apart than a gap, and the next will not be.    *)
NoHoles ==
  /\ \A l \in DOMAIN samples :
       l > 1 => samples[l].begun - samples[l - 1].begun =< Gap
  /\ Len(samples) > 0 =>
       CASE wait.at = "sleep"  -> /\ wait.now = Latest
                                  /\ time =< Latest + SampleLatency
         [] wait.at = "check"  -> time =< Latest + Gap
         [] wait.at = "sample" -> wait.now =< Latest + Gap
         [] OTHER              -> TRUE

(* How it ends: the window is complete, or not, and the patience is over.    *)
Verdict ==
  /\ wait.outcome = "OK" =>
       /\ Len(samples) > 0 /\ wait.stableSince # NotStable
       /\ Latest - wait.stableSince >= RequiredSeconds
  /\ wait.outcome # "OK" /\ Len(samples) > 0 /\ wait.stableSince # NotStable =>
       Latest - wait.stableSince < RequiredSeconds
  /\ wait.outcome = "MODEM_NOT_REGISTERED" =>
       /\ wait.now >= Timeout
       /\ Len(samples) > 0 => wait.now =< Latest + Gap

WaitInv == Shape /\ WindowIsKnown /\ NoHoles /\ Verdict

LEMMA Constants ==
  /\ RequiredSeconds \in Nat /\ SampleLatency \in Nat
  /\ Timeout \in Nat /\ PollInterval \in Nat
  /\ Gap = PollInterval + SampleLatency /\ Gap \in Nat
BY WaitAssumption DEF Gap

(* When a sample was begun is a time.                                        *)
LEMMA SampleTimes ==
  ASSUME NEW taken \in Seq([begun : Nat, registered : BOOLEAN]), NEW k \in DOMAIN taken
  PROVE  taken[k].begun \in Nat
<1> DEFINE R == [begun : Nat, registered : BOOLEAN]
<1>1. taken \in Seq(R)
  OBVIOUS
<1> HIDE DEF R
<1>2. taken[k] \in R
  BY <1>1
<1> QED BY <1>2 DEF R

LEMMA WaitInit == Init => WaitInv
<1> SUFFICES ASSUME Init PROVE WaitInv
  OBVIOUS
<1>1. samples = << >> /\ Len(samples) = 0 /\ DOMAIN samples = {}
  BY DEF Init
<1>2. Shape
  BY <1>1 DEF Init, Shape, Place, NotStable
<1>3. WindowIsKnown /\ NoHoles /\ Verdict
  BY <1>1 DEF Init, Place, WindowIsKnown, NoHoles, Verdict
<1> QED BY <1>2, <1>3 DEF WaitInv

(* The top of the loop.                                                      *)
LEMMA CheckKeeps == WaitInv /\ Check => WaitInv'
<1> SUFFICES ASSUME WaitInv, Check PROVE WaitInv'
  OBVIOUS
<1>1. samples' = samples /\ time' = time
  BY DEF Check
<1>2. /\ wait'.stableSince = wait.stableSince
      /\ \/ /\ wait'.at = "over" /\ wait'.outcome = "USER_CANCELLED" /\ wait'.now = wait.now
         \/ /\ wait'.at = "over" /\ wait'.outcome = "MODEM_NOT_REGISTERED"
            /\ wait'.now = time /\ time >= Timeout
         \/ wait'.at = "sample" /\ wait'.outcome = "open" /\ wait'.now = time
      /\ wait' = Place(wait'.at, wait'.now, wait'.stableSince, wait'.outcome)
  BY DEF Check, Over, Place
<1>3. wait.at = "check" /\ wait.outcome = "open"
  BY DEF Check, WaitInv, Shape
<1>4. Shape'
  <2>1. wait'.now \in Nat /\ wait.stableSince =< wait'.now /\ wait'.now =< time
    BY <1>2 DEF WaitInv, Shape, NotStable
  <2> QED BY <1>1, <1>2, <2>1 DEF WaitInv, Shape
<1>5. WindowIsKnown'
  BY <1>1, <1>2 DEF WaitInv, WindowIsKnown, RegisteredFrom
<1>6. NoHoles'
  BY <1>1, <1>2, <1>3 DEF WaitInv, NoHoles, Latest, Gap
<1>7. Verdict'
  BY <1>1, <1>2, <1>3 DEF WaitInv, NoHoles, Verdict, Latest, Gap
<1> QED BY <1>4, <1>5, <1>6, <1>7 DEF WaitInv

(* A sample: it continues the window, begins one, or breaks it.              *)
LEMMA SampleKeeps == WaitInv /\ Sample => WaitInv'
<1> SUFFICES ASSUME WaitInv, Sample PROVE WaitInv'
  OBVIOUS
<1>0. PICK n \in Nat : n = Len(samples)
  BY DEF WaitInv, Shape
<1>1. PICK registered \in BOOLEAN :
        /\ samples' = Append(samples, [begun |-> wait.now, registered |-> registered])
        /\ LET since  == IF ~registered THEN Unregistered(wait)
                         ELSE IF wait.stableSince = NotStable THEN wait.now
                         ELSE wait.stableSince
               enough == registered /\ LongEnough(wait.now - since)
           IN wait' = IF enough THEN Place("over", wait.now, since, "OK")
                      ELSE Place("sleep", wait.now, since, "open")
  BY DEF Sample
<1>2. /\ n \in Nat /\ DOMAIN samples = 1 .. n /\ Len(samples) = n
      /\ samples \in Seq([begun : Nat, registered : BOOLEAN])
      /\ wait.now \in Nat /\ time \in Nat /\ wait.now =< time
      /\ wait.stableSince =< wait.now
      /\ wait.at = "sample" /\ wait.outcome = "open" /\ wait.now = time
      /\ wait.stableSince \in Nat \union {NotStable}
  BY <1>0 DEF WaitInv, Shape, Sample
<1>3. /\ samples' \in Seq([begun : Nat, registered : BOOLEAN])
      /\ Len(samples') = n + 1 /\ DOMAIN samples' = 1 .. n + 1
      /\ \A l \in 1 .. n : samples'[l] = samples[l]
      /\ n + 1 \in 1 .. n + 1
      /\ samples'[n + 1].begun = wait.now /\ samples'[n + 1].registered = registered
  BY <1>1, <1>2
<1>4. /\ wait'.now = wait.now
      /\ wait'.stableSince = IF ~registered THEN NotStable
                             ELSE IF wait.stableSince = NotStable THEN wait.now
                             ELSE wait.stableSince
      /\ \/ /\ wait'.at = "over" /\ wait'.outcome = "OK" /\ registered
            /\ wait.now - wait'.stableSince >= RequiredSeconds
         \/ /\ wait'.at = "sleep" /\ wait'.outcome = "open"
            /\ registered => wait.now - wait'.stableSince < RequiredSeconds
      /\ wait' = Place(wait'.at, wait'.now, wait'.stableSince, wait'.outcome)
  BY <1>1, <1>2, Constants DEF Place, Unregistered, LongEnough, NotStable
<1>5. time' \in Nat /\ time =< time' /\ time' =< time + SampleLatency
  BY <1>2, Constants DEF Sample
<1>6. Shape'
  <2>1. wait'.stableSince \in Nat \union {NotStable} /\ wait'.stableSince =< wait'.now
    BY <1>2, <1>4 DEF NotStable
  <2> QED BY <1>2, <1>3, <1>4, <1>5, <2>1 DEF Shape
<1>7. \A k \in 1 .. n : RegisteredFrom(k) <=> \A l \in k .. n : samples[l].registered
  BY <1>2 DEF RegisteredFrom
<1>8. \A k \in 1 .. n + 1 :
        RegisteredFrom(k)' <=> \A l \in k .. n + 1 : samples'[l].registered
  BY <1>3 DEF RegisteredFrom
<1>12. ASSUME NEW k \in 1 .. n
       PROVE  RegisteredFrom(k)' <=> registered /\ RegisteredFrom(k)
  <2>1. k \in 1 .. n + 1 /\ n + 1 \in k .. n + 1
    BY <1>2
  <2>2. \A l \in k .. n + 1 : l = n + 1 \/ l \in k .. n
    BY <1>2
  <2>3. \A l \in k .. n : l \in k .. n + 1 /\ samples'[l] = samples[l]
    BY <1>2, <1>3
  <2> QED BY <1>3, <1>7, <1>8, <2>1, <2>2, <2>3
<1>13. RegisteredFrom(n + 1)' <=> registered
  BY <1>2, <1>3, <1>8
<1>9. WindowIsKnown'
  <2>1. CASE ~registered
    BY <1>2, <1>3, <1>4, <1>12, <1>13, <2>1 DEF WindowIsKnown
  <2>2. CASE registered /\ wait.stableSince = NotStable
    <3>1. \A k \in 1 .. n : ~ RegisteredFrom(k)
      BY <1>2, <2>2 DEF WaitInv, WindowIsKnown
    <3> QED BY <1>2, <1>3, <1>4, <1>12, <1>13, <2>2, <3>1 DEF WindowIsKnown, NotStable
  <2>3. CASE registered /\ wait.stableSince # NotStable
    <3>1. PICK k \in 1 .. n : RegisteredFrom(k) /\ samples[k].begun = wait.stableSince
      BY <1>2, <2>3 DEF WaitInv, WindowIsKnown
    <3>2. wait'.stableSince = wait.stableSince /\ wait'.stableSince # NotStable
      BY <1>4, <2>3
    <3>3. k \in DOMAIN samples' /\ RegisteredFrom(k)' /\ samples'[k].begun = wait'.stableSince
      BY <1>2, <1>3, <1>12, <2>3, <3>1, <3>2
    <3>4. ASSUME NEW l \in DOMAIN samples', RegisteredFrom(l)'
          PROVE  wait'.stableSince =< samples'[l].begun
      <4>1. CASE l = n + 1
        BY <1>2, <1>3, <3>2, <4>1
      <4>2. CASE l \in 1 .. n
        BY <1>2, <1>3, <1>12, <3>2, <3>4, <4>2 DEF WaitInv, WindowIsKnown
      <4> QED BY <1>3, <4>1, <4>2
    <3> QED BY <3>2, <3>3, <3>4 DEF WindowIsKnown
  <2> QED BY <2>1, <2>2, <2>3
<1>10. NoHoles'
  <2>1. n > 0 => wait.now =< samples[n].begun + Gap
    BY <1>2 DEF WaitInv, NoHoles, Latest
  <2>2. ASSUME NEW l \in DOMAIN samples', l > 1
        PROVE  samples'[l].begun - samples'[l - 1].begun =< Gap
    <3>3. \A k \in 1 .. n : k > 1 => samples[k].begun - samples[k - 1].begun =< Gap
      BY <1>2 DEF WaitInv, NoHoles
    <3>1. CASE l = n + 1
      <4>1. n \in 1 .. n /\ l - 1 = n /\ samples'[n] = samples[n]
        BY <1>3, <2>2, <3>1
      <4>2. samples[n].begun \in Nat
        BY <1>2, <4>1, SampleTimes
      <4>3. samples[n].begun \in Nat /\ wait.now \in Nat
            /\ wait.now =< samples[n].begun + Gap
        BY <1>2, <2>1, <4>1, <4>2
      <4>4. samples'[l].begun = wait.now /\ samples'[l - 1].begun = samples[n].begun
        BY <1>3, <3>1, <4>1
      <4> QED BY <4>3, <4>4, Constants
    <3>2. CASE l \in 2 .. n
      <4>1. l \in 1 .. n /\ l - 1 \in 1 .. n
        BY <3>2
      <4> QED BY <1>3, <2>2, <3>3, <4>1
    <3> QED BY <1>2, <1>3, <2>2, <3>1, <3>2
  <2>3. Latest' = wait.now
    BY <1>3 DEF Latest
  <2>4. time' =< wait.now + SampleLatency
    BY <1>2, <1>5
  <2> QED BY <1>4, <2>2, <2>3, <2>4 DEF NoHoles
<1>11. Verdict'
  BY <1>2, <1>3, <1>4 DEF Verdict, Latest, NotStable
<1> QED BY <1>6, <1>9, <1>10, <1>11 DEF WaitInv

LEMMA FailureKeeps == WaitInv /\ SampleFails => WaitInv'
<1> SUFFICES ASSUME WaitInv, SampleFails PROVE WaitInv'
  OBVIOUS
<1>1. /\ samples' = samples /\ wait.outcome = "open"
      /\ wait' = Place("over", wait.now, wait.stableSince, "raised")
      /\ time' \in Nat /\ time =< time'
  BY Constants DEF SampleFails, Over, WaitInv, Shape
<1>2. /\ wait'.at = "over" /\ wait'.now = wait.now
      /\ wait'.stableSince = wait.stableSince /\ wait'.outcome = "raised"
      /\ wait' = Place(wait'.at, wait'.now, wait'.stableSince, wait'.outcome)
  BY <1>1 DEF Place
<1>3. Shape'
  BY <1>1, <1>2 DEF WaitInv, Shape
<1>4. WindowIsKnown'
  BY <1>1, <1>2 DEF WaitInv, WindowIsKnown, RegisteredFrom
<1>5. NoHoles' /\ Verdict'
  BY <1>1, <1>2 DEF WaitInv, NoHoles, Verdict, Latest, Gap
<1> QED BY <1>3, <1>4, <1>5 DEF WaitInv

LEMMA SleepKeeps == WaitInv /\ Sleep => WaitInv'
<1> SUFFICES ASSUME WaitInv, Sleep PROVE WaitInv'
  OBVIOUS
<1>1. /\ SleepTime \in Nat /\ SleepTime =< PollInterval
      /\ wait.at = "sleep" /\ wait.outcome = "open"
  BY Constants DEF Sleep, SleepTime, LeastOf, NotBelow, WaitInv, Shape
<1>2. /\ samples' = samples /\ time' = time + SleepTime
      /\ wait'.at = "check" /\ wait'.now = wait.now
      /\ wait'.stableSince = wait.stableSince /\ wait'.outcome = "open"
      /\ wait' = Place(wait'.at, wait'.now, wait'.stableSince, wait'.outcome)
  BY DEF Sleep, Place
<1>3. Shape'
  BY <1>1, <1>2 DEF WaitInv, Shape
<1>4. WindowIsKnown'
  BY <1>1, <1>2 DEF WaitInv, WindowIsKnown, RegisteredFrom
<1>5. Len(samples) > 0 => Latest \in Nat
  <2>1. Len(samples) > 0 => Len(samples) \in DOMAIN samples
    BY DEF WaitInv, Shape
  <2> QED BY <2>1, SampleTimes DEF WaitInv, Shape, Latest
<1>6. Len(samples) > 0 => time =< Latest + SampleLatency
  BY <1>1 DEF WaitInv, NoHoles
<1>7. Len(samples) > 0 => time' =< Latest + Gap
  BY <1>1, <1>2, <1>5, <1>6, Constants DEF WaitInv, Shape
<1>8. NoHoles' /\ Verdict'
  BY <1>1, <1>2, <1>7 DEF WaitInv, NoHoles, Verdict, Latest, Gap
<1> QED BY <1>3, <1>4, <1>8 DEF WaitInv

LEMMA InvNext == WaitInv /\ [Next]_vars => WaitInv'
<1> SUFFICES ASSUME WaitInv, [Next]_vars PROVE WaitInv'
  OBVIOUS
<1>1. CASE UNCHANGED <<time, wait, samples>>
  BY <1>1 DEF WaitInv, Shape, WindowIsKnown, RegisteredFrom, NoHoles, Verdict, Latest, Gap
<1>2. (Cancel \/ UNCHANGED vars) => UNCHANGED <<time, wait, samples>>
  BY DEF Cancel, vars
<1> QED BY <1>1, <1>2, CheckKeeps, SampleKeeps, FailureKeeps, SleepKeeps DEF Next

LEMMA Invariance == Spec => []WaitInv
BY WaitInit, InvNext, PTL DEF Spec

-----------------------------------------------------------------------------
(* wait_for_stable_paths says OK only after an unbroken window: the window   *)
(* begins at stable_since, and there is a sample in it every gap.            *)
THEOREM Earned == Spec => []OkIsEarned
<1>1. WaitInv => OkIsEarned
  <2> SUFFICES ASSUME WaitInv, wait.outcome = "OK"
               PROVE  \E k \in DOMAIN samples :
                 /\ RegisteredFrom(k)
                 /\ Latest - samples[k].begun >= RequiredSeconds
                 /\ \A l \in k + 1 .. Len(samples) :
                      samples[l].begun - samples[l - 1].begun =< Gap
    BY DEF OkIsEarned, Latest
  <2>1. PICK k \in DOMAIN samples :
          RegisteredFrom(k) /\ samples[k].begun = wait.stableSince
    BY DEF WaitInv, Verdict, WindowIsKnown
  <2>2. Latest - samples[k].begun >= RequiredSeconds
    BY <2>1 DEF WaitInv, Verdict
  <2>3. \A l \in k + 1 .. Len(samples) : l \in DOMAIN samples /\ l > 1
    BY <2>1 DEF WaitInv, Shape
  <2> QED BY <2>1, <2>2, <2>3 DEF WaitInv, NoHoles
<1> QED BY <1>1, Invariance, PTL

(* An attempt is skipped for unregistered modems only if no window could be  *)
(* completed: when the deadline has passed, the last sample is at most a gap *)
(* old, and a window that still goes on was too short at it.                 *)
THEOREM SkippedForAReason == Spec => []NotSkippedInVain
<1>1. WaitInv => NotSkippedInVain
  <2> SUFFICES ASSUME WaitInv, wait.outcome = "MODEM_NOT_REGISTERED",
                      NEW k \in DOMAIN samples, RegisteredFrom(k)
               PROVE  samples[k].begun + RequiredSeconds + Gap > Timeout
    BY DEF NotSkippedInVain
  <2>1. Len(samples) > 0 /\ Len(samples) \in DOMAIN samples
    BY DEF WaitInv, Shape
  <2>2. Latest \in Nat /\ samples[k].begun \in Nat /\ wait.now \in Nat
    BY <2>1, SampleTimes DEF WaitInv, Shape, Latest
  <2>3. /\ wait.stableSince # NotStable /\ wait.stableSince \in Nat
        /\ wait.stableSince =< samples[k].begun
    BY DEF WaitInv, WindowIsKnown, Shape
  <2>4. Latest - wait.stableSince < RequiredSeconds
    BY <2>1, <2>3 DEF WaitInv, Verdict
  <2>5. wait.now >= Timeout /\ wait.now =< Latest + Gap
    BY <2>1 DEF WaitInv, Verdict
  <2> QED BY <2>2, <2>3, <2>4, <2>5, Constants
<1> QED BY <1>1, Invariance, PTL
-----------------------------------------------------------------------------
(* Times are bounded: the deadline is looked at before each sample, a sample *)
(* takes its time, and the sleep after it ends at the deadline at the latest.*)
Bounded ==
  /\ time =< Timeout + SampleLatency
  /\ wait.at = "sample" => wait.now < Timeout
  /\ wait.at = "sleep" => wait.now < Timeout /\ time =< wait.now + SampleLatency
  /\ wait.stableSince =< Timeout
  /\ wait.outcome \in Outcomes
  /\ cancelled \in BOOLEAN
  /\ \A k \in DOMAIN samples : samples[k].begun < Timeout

LEMMA BoundedNext == WaitInv /\ Bounded /\ [Next]_vars => Bounded'
<1> SUFFICES ASSUME WaitInv, Bounded, [Next]_vars PROVE Bounded'
  OBVIOUS
<1> USE Constants
<1>0. /\ time \in Nat /\ wait.now \in Nat /\ wait.stableSince \in Nat \union {NotStable}
      /\ wait.now =< time /\ wait.stableSince =< wait.now
      /\ samples \in Seq([begun : Nat, registered : BOOLEAN])
  BY DEF WaitInv, Shape
<1>1. CASE Check
  <2>1. samples' = samples /\ time' = time /\ cancelled' = cancelled /\ wait.outcome \in Outcomes
    BY <1>1 DEF Check, Bounded
  <2>2. /\ wait'.stableSince = wait.stableSince /\ wait'.outcome \in Outcomes
        /\ \/ wait'.at = "over"
           \/ wait'.at = "sample" /\ wait'.now = time /\ time < Timeout
    BY <1>0, <1>1 DEF Check, Over, Place, Outcomes
  <2> QED BY <2>1, <2>2 DEF Bounded
<1>2. CASE Sample
  <2>1. /\ wait.at = "sample" /\ wait.now < Timeout /\ wait.now = time
        /\ time' \in Nat /\ time' =< time + SampleLatency /\ cancelled' = cancelled
    BY <1>0, <1>2 DEF Sample, Bounded, WaitInv, Shape
  <2>2. PICK registered \in BOOLEAN :
          samples' = Append(samples, [begun |-> wait.now, registered |-> registered])
    BY <1>2 DEF Sample
  <2>3. /\ wait'.now = wait.now /\ wait'.at \in {"over", "sleep"} /\ wait'.outcome \in Outcomes
        /\ wait'.stableSince \in {NotStable, wait.now, wait.stableSince}
    BY <1>0, <1>2 DEF Sample, Place, Unregistered, Outcomes
  <2>4. \A k \in DOMAIN samples' : samples'[k].begun < Timeout
    <3> DEFINE one == [begun |-> wait.now, registered |-> registered]
    <3>1. one.begun < Timeout /\ one \in [begun : Nat, registered : BOOLEAN]
      BY <1>0, <2>1
    <3> HIDE DEF one
    <3> QED BY <1>0, <2>2, <3>1 DEF Bounded, one
  <2>5. time' =< Timeout + SampleLatency /\ time' =< wait.now + SampleLatency
    BY <1>0, <2>1
  <2>6. wait'.stableSince =< Timeout
    BY <1>0, <2>1, <2>3 DEF Bounded, NotStable
  <2> QED BY <2>1, <2>3, <2>4, <2>5, <2>6 DEF Bounded
<1>3. CASE SampleFails
  <2>1. /\ wait.at = "sample" /\ wait.now < Timeout /\ wait.now = time
        /\ time' \in Nat /\ time' =< time + SampleLatency
        /\ cancelled' = cancelled /\ samples' = samples
    BY <1>0, <1>3 DEF SampleFails, Bounded, WaitInv, Shape
  <2>2. /\ wait'.at = "over" /\ wait'.outcome \in Outcomes
        /\ wait'.stableSince = wait.stableSince
    BY <1>3 DEF SampleFails, Over, Place, Outcomes
  <2>3. time' =< Timeout + SampleLatency
    BY <1>0, <2>1
  <2> QED BY <2>1, <2>2, <2>3 DEF Bounded
<1>4. CASE Sleep
  <2>1. /\ wait.now < Timeout /\ time =< wait.now + SampleLatency
        /\ SleepTime \in Nat /\ SleepTime =< Timeout - wait.now
    BY <1>0, <1>4 DEF Sleep, Bounded, SleepTime, LeastOf, NotBelow
  <2>2. /\ time' = time + SleepTime /\ cancelled' = cancelled /\ samples' = samples
        /\ wait'.at = "check" /\ wait'.stableSince = wait.stableSince
        /\ wait'.outcome \in Outcomes
    BY <1>4 DEF Sleep, Place, Outcomes
  <2>3. time' =< Timeout + SampleLatency
    BY <1>0, <2>1, <2>2
  <2> QED BY <2>2, <2>3 DEF Bounded
<1>5. CASE Cancel \/ UNCHANGED vars
  BY <1>5 DEF Bounded, Cancel, vars
<1> QED BY <1>1, <1>2, <1>3, <1>4, <1>5 DEF Next

(* The variables keep their types; in particular the call ends at most one   *)
(* sample after its deadline, and no sample is begun when that has passed.   *)
THEOREM WaitTypeCorrect == Spec => []TypeOK
<1>1. Init => Bounded
  <2> SUFFICES ASSUME Init PROVE Bounded
    OBVIOUS
  <2>1. /\ time = 0 /\ cancelled = FALSE /\ samples = << >> /\ wait.at = "check"
        /\ wait.stableSince = -1 /\ wait.outcome = "open"
    BY DEF Init, Place, NotStable
  <2>2. 0 =< Timeout + SampleLatency /\ -1 =< Timeout
    BY Constants
  <2>3. DOMAIN samples = {}
    BY <2>1
  <2> QED BY <2>1, <2>2, <2>3 DEF Bounded, Outcomes
<1>2. WaitInv /\ Bounded => TypeOK
  <2> SUFFICES ASSUME WaitInv, Bounded PROVE TypeOK
    OBVIOUS
  <2>0. /\ time \in Nat /\ wait.now \in Nat /\ wait.stableSince \in Nat \union {NotStable}
        /\ wait.now =< time /\ samples \in Seq([begun : Nat, registered : BOOLEAN])
        /\ wait = Place(wait.at, wait.now, wait.stableSince, wait.outcome)
        /\ wait.at \in {"check", "sample", "sleep", "over"}
    BY DEF WaitInv, Shape
  <2>1. /\ time \in 0 .. Timeout + SampleLatency /\ wait.now \in 0 .. Timeout + SampleLatency
        /\ wait.stableSince \in {NotStable} \union (0 .. Timeout)
    BY <2>0, Constants DEF Bounded
  <2>2. wait \in [at : {"check", "sample", "sleep", "over"}, now : 0 .. Timeout + SampleLatency,
                  stableSince : {NotStable} \union (0 .. Timeout), outcome : Outcomes]
    BY <2>0, <2>1 DEF Bounded, Place
  <2>3. ASSUME NEW k \in DOMAIN samples PROVE samples[k].begun \in 0 .. Timeout - 1
    <3>1. samples[k].begun \in Nat
      BY <2>0, SampleTimes
    <3> QED BY <3>1, Constants DEF Bounded
  <2> QED BY <2>1, <2>2, <2>3 DEF TypeOK, Bounded
<1> QED BY <1>1, <1>2, BoundedNext, Invariance, PTL DEF Spec
=============================================================================

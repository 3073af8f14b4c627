--------------------------- MODULE RunEngineProofs ---------------------------
(***************************************************************************)
(* Proofs about module RunEngine, for every plan: any number of rounds, any  *)
(* pattern of UDP stages, with and without waits, node faults and crashes.  *)
(*                                                                          *)
(*   TypeCorrect      the variables have their types                        *)
(*   NothingIsKept    what a run reserved it gives back   (CourseInv)       *)
(*   CancelIsSeen     a cancel Event stops the run        (Cancelling)      *)
(*   LossIsSeen       a lost reservation keeps the run out of comparisons   *)
(*                                                        (Losing)          *)
(*   LifecycleIsKept  the row implements RunLifecycle, when nobody else     *)
(*                    writes it                           (FollowedInv)     *)
(*                                                                          *)
(* The script is a concatenation over a recursive function, TcpRounds: what  *)
(* the proofs need of it, ScriptShape, rests on an induction over the rounds *)
(* by a smallest counterexample (Least).                                    *)
(***************************************************************************)
EXTENDS RunEngine, SequenceTheorems, WellFoundedInduction, TLAPS

(* The script.  However many rounds there are, a round is made of checks and  *)
(* traffic stages.                                                           *)
RoundSteps == {LostCheck, CancelCheck, Stage("tcp"), Stage("udp")}

(* A round is a sequence of them. *)
LEMMA RoundIsSequence == \A n \in Nat : Round(n) \in Seq(RoundSteps)
<1> DEFINE S == Seq(RoundSteps)
<1>1. /\ Checks \in S
      /\ << >> \in S
      /\ <<Stage("tcp")>> \in S
      /\ <<Stage("udp")>> \in S
  BY DEF Checks, RoundSteps
<1>2. \A s, t \in S : s \o t \in S
  OBVIOUS
<1> HIDE DEF S
<1>3. Wait \in S /\ UdpWhen("after_each_tcp") \in S
  BY <1>1, <1>2 DEF Wait, UdpWhen
<1> QED
  BY <1>1, <1>2, <1>3 DEF Round, S

(* Smallest element of a set of numbers. *)
LEMMA Least ==
  ASSUME NEW S, S \subseteq Nat, S # {}
  PROVE  \E m \in S : \A k \in Nat : k < m => k \notin S
<1> DEFINE R == OpToRel(<, Nat)
<1>1. IsWellFoundedOn(R, Nat)
  BY NatLessThanWellFounded DEF OpToRel
<1> HIDE DEF R
<1>2. PICK m \in S : ~(\E y \in S : <<y, m>> \in R)
  BY <1>1, WFMin
<1> QED
  BY <1>2 DEF R, OpToRel

(* f solves the recursion of TcpRounds up to m.                              *)
IsRounds(f, m) ==
  f = [n \in 0 .. m |-> IF n = 0 THEN << >> ELSE f[n - 1] \o Round(n)]

(* The recursion of TcpRounds has a solution for every number of rounds ... *)
LEMMA RoundsExist == \A m \in Nat : \E f : IsRounds(f, m)
<1> DEFINE Bad == {m \in Nat : ~ \E f : IsRounds(f, m)}
<1>1. SUFFICES ASSUME Bad # {} PROVE FALSE
  OBVIOUS
<1>2. PICK m \in Bad : \A k \in Nat : k < m => k \notin Bad
  BY <1>1, Least
<1>3. CASE m = 0
  <2> DEFINE f == [n \in 0 .. 0 |-> << >>]
  <2>1. IsRounds(f, 0)
    BY DEF IsRounds
  <2> QED
    BY <1>2, <1>3, <2>1
<1>4. CASE m # 0
  <2>1. PICK f : IsRounds(f, m - 1)
    BY <1>2, <1>4
  <2> DEFINE g == [n \in 0 .. m |-> IF n = m THEN f[m - 1] \o Round(m) ELSE f[n]]
  <2>2. m \in Nat \ {0}
    BY <1>2, <1>4
  <2>3. ASSUME NEW n \in 0 .. m
        PROVE g[n] = IF n = 0 THEN << >> ELSE g[n - 1] \o Round(n)
    <3>0. g[n] = IF n = m THEN f[m - 1] \o Round(m) ELSE f[n]
      OBVIOUS
    <3>1. CASE n = m
      <4>1. m - 1 \in 0 .. m /\ m - 1 # m
        BY <2>2
      <4>2. g[m - 1] = f[m - 1]
        BY <4>1
      <4> QED
        BY <2>2, <3>0, <3>1, <4>2
    <3>2. CASE n # m
      <4>1. n \in 0 .. m - 1
        BY <2>2, <3>2
      <4>2. f[n] = IF n = 0 THEN << >> ELSE f[n - 1] \o Round(n)
        BY <2>1, <4>1 DEF IsRounds
      <4>3. n # 0 => n - 1 \in 0 .. m /\ n - 1 # m
        BY <2>2
      <4>4. n # 0 => g[n - 1] = f[n - 1]
        BY <4>3
      <4> QED
        BY <3>0, <3>2, <4>2, <4>4
    <3> QED
      BY <3>1, <3>2
  <2>4. IsRounds(g, m)
    <3>1. g = [n \in 0 .. m |-> g[n]]
      OBVIOUS
    <3> QED
      BY <2>3, <3>1 DEF IsRounds
  <2> QED
    BY <1>2, <2>4
<1> QED
  BY <1>3, <1>4

(* ... which TcpRounds is ... *)
LEMMA RoundsEquation == IsRounds(TcpRounds, Rounds)
<1>1. \E f : IsRounds(f, Rounds)
  BY RoundsExist, PlanAssumption
<1> QED
  BY <1>1 DEF IsRounds, TcpRounds

(* ... and its value a sequence of checks and stages. *)
LEMMA RoundsAreSequences == \A n \in 0 .. Rounds : TcpRounds[n] \in Seq(RoundSteps)
<1> DEFINE Bad == {n \in 0 .. Rounds : TcpRounds[n] \notin Seq(RoundSteps)}
<1>1. SUFFICES ASSUME Bad # {} PROVE FALSE
  OBVIOUS
<1>2. PICK m \in Bad : \A k \in Nat : k < m => k \notin Bad
  <2>1. Bad \subseteq Nat
    BY PlanAssumption
  <2> QED
    BY <1>1, <2>1, Least
<1>3. TcpRounds[m] = IF m = 0 THEN << >> ELSE TcpRounds[m - 1] \o Round(m)
  BY RoundsEquation DEF IsRounds
<1>4. m # 0 => TcpRounds[m - 1] \in Seq(RoundSteps)
  BY <1>2, PlanAssumption
<1>5. TcpRounds[m] \in Seq(RoundSteps)
  BY <1>3, <1>4, RoundIsSequence, PlanAssumption
<1> QED
  BY <1>5

(* Sequences put behind one another keep their elements in order. *)
LEMMA Joined ==
  ASSUME NEW S, NEW s \in Seq(S), NEW t \in Seq(S)
  PROVE  /\ s \o t \in Seq(S)
         /\ Len(s \o t) = Len(s) + Len(t)
         /\ \A i \in 1 .. Len(s) : (s \o t)[i] = s[i]
         /\ \A i \in 1 .. Len(t) : (s \o t)[Len(s) + i] = t[i]
<1>1. Len(s) \in Nat /\ Len(t) \in Nat
  OBVIOUS
<1>2. /\ s \o t \in Seq(S) /\ Len(s \o t) = Len(s) + Len(t)
      /\ \A i \in 1 .. Len(s) + Len(t) :
           (s \o t)[i] = IF i <= Len(s) THEN s[i] ELSE t[i - Len(s)]
  BY ConcatProperties
<1> QED
  BY <1>1, <1>2

(* The same of four sequences: Script is made of four. *)
LEMMA FourJoined ==
  ASSUME NEW S, NEW p \in Seq(S), NEW r \in Seq(S), NEW t \in Seq(S),
         NEW c \in Seq(S), NEW s, s = ((p \o r) \o t) \o c
  PROVE  /\ s \in Seq(S)
         /\ Len(s) = Len(p) + Len(r) + Len(t) + Len(c)
         /\ \A i \in 1 .. Len(p) : s[i] = p[i]
         /\ \A i \in 1 .. Len(r) : s[Len(p) + i] = r[i]
         /\ \A i \in 1 .. Len(t) : s[Len(p) + Len(r) + i] = t[i]
         /\ \A i \in 1 .. Len(c) : s[Len(p) + Len(r) + Len(t) + i] = c[i]
<1> DEFINE u == p \o r
           v == u \o t
<1>0. /\ Len(p) \in Nat /\ Len(r) \in Nat /\ Len(t) \in Nat
      /\ Len(c) \in Nat
  OBVIOUS
<1>1. /\ u \in Seq(S) /\ Len(u) = Len(p) + Len(r)
      /\ \A i \in 1 .. Len(p) : u[i] = p[i]
      /\ \A i \in 1 .. Len(r) : u[Len(p) + i] = r[i]
  BY Joined
<1> HIDE DEF u
<1>2. /\ v \in Seq(S) /\ Len(v) = Len(u) + Len(t)
      /\ \A i \in 1 .. Len(u) : v[i] = u[i]
      /\ \A i \in 1 .. Len(t) : v[Len(u) + i] = t[i]
  <2>1. u \in Seq(S)
    BY <1>1
  <2> QED
    BY <2>1, Joined
<1>3. s = v \o c
  BY DEF u
<1> HIDE DEF v
<1>4. /\ s \in Seq(S) /\ Len(s) = Len(v) + Len(c)
      /\ \A i \in 1 .. Len(v) : s[i] = v[i]
      /\ \A i \in 1 .. Len(c) : s[Len(v) + i] = c[i]
  <2>1. v \in Seq(S)
    BY <1>2
  <2> QED
    BY <1>3, <2>1, Joined
<1> QED
  BY <1>0, <1>1, <1>2, <1>4

TrafficSteps == RoundSteps \union {Stage("latency"), Stage("video")}

(* The traffic, too, is made of checks and stages only. *)
LEMMA TrafficIsSequence == Traffic \in Seq(TrafficSteps)
<1> DEFINE S == Seq(TrafficSteps)
<1>1. /\ Checks \in S /\ << >> \in S
      /\ <<Stage("latency"), CancelCheck>> \in S
      /\ <<Stage("udp")>> \in S /\ <<Stage("video")>> \in S
  BY DEF Checks, RoundSteps, TrafficSteps
<1>2. \A s, t \in S : s \o t \in S
  OBVIOUS
<1>3. TcpRounds[Rounds] \in S
  <2>1. TcpRounds[Rounds] \in Seq(RoundSteps)
    BY RoundsAreSequences, PlanAssumption
  <2> QED
    BY <2>1 DEF TrafficSteps
<1> HIDE DEF S
<1>4. Wait \in S /\ UdpWhen("beginning") \in S /\ UdpWhen("end") \in S
  BY <1>1, <1>2 DEF Wait, UdpWhen
<1>5. Traffic \in S
  BY <1>1, <1>2, <1>3, <1>4 DEF Traffic
<1> QED
  BY <1>5 DEF S

ScriptSteps ==
  TrafficSteps \union
  {To("PREFLIGHT"), Work("server"), CancelCheck, Work("preflight"),
   To("VERIFYING_PATHS"), Work("paths"), To("WARMING_UP"), Reserving,
   To("RUNNING"), To("COOLING_DOWN"), To("ANALYZING"), Judging,
   To("GENERATING_REPORT")}

(* The reservation is the eleventh step, the judgement the last but one, and  *)
(* no check comes after it.                                                  *)
Reserved == 11
Last == Len(Script)

LEMMA ScriptShape ==
  /\ Script \in Seq(ScriptSteps)
  /\ Last \in Nat /\ Last > Reserved + 4
  /\ Script[1] = To("PREFLIGHT")
  /\ Script[Last] = To("GENERATING_REPORT")
  /\ \A i \in 1 .. Last :
       /\ Script[i].does = "transition" => Script[i].what # "COMPLETED"
       /\ Script[i].does = "reserve" => i = Reserved
       /\ Script[i].does = "judge" => i = Last - 1
       /\ Script[i].does = "check" => i < Last - 1
<1> DEFINE P == Preparation
           R == <<To("RUNNING")>>
           T == Traffic
           C == Conclusion
           Steps == ScriptSteps
<1>1. /\ P \in Seq(Steps) /\ Len(P) = 11
      /\ R \in Seq(Steps) /\ Len(R) = 1 /\ R[1] = To("RUNNING")
      /\ C \in Seq(Steps) /\ Len(C) = 4
  BY DEF Preparation, Conclusion, ScriptSteps
<1>2. T \in Seq(Steps) /\ \A i \in 1 .. Len(T) : T[i] \in TrafficSteps
  BY TrafficIsSequence DEF ScriptSteps
<1>3. Script = ((P \o R) \o T) \o C
  BY DEF Script
<1>4. /\ Script \in Seq(Steps)
      /\ Len(Script) = Len(T) + 16
      /\ \A i \in 1 .. 11 : Script[i] = P[i]
      /\ Script[12] = To("RUNNING")
      /\ \A i \in 1 .. Len(T) : Script[12 + i] = T[i]
      /\ \A i \in 1 .. 4 : Script[Len(T) + 12 + i] = C[i]
  <2>1. /\ Len(P) = 11 /\ Len(R) = 1 /\ Len(C) = 4 /\ R[1] = To("RUNNING")
        /\ P \in Seq(Steps) /\ R \in Seq(Steps) /\ T \in Seq(Steps)
        /\ C \in Seq(Steps)
    BY <1>1, <1>2
  <2> HIDE DEF P, R, T, C, Steps
  <2>2. /\ Script \in Seq(Steps)
        /\ Len(Script) = Len(P) + Len(R) + Len(T) + Len(C)
        /\ \A i \in 1 .. Len(P) : Script[i] = P[i]
        /\ \A i \in 1 .. Len(R) : Script[Len(P) + i] = R[i]
        /\ \A i \in 1 .. Len(T) : Script[Len(P) + Len(R) + i] = T[i]
        /\ \A i \in 1 .. Len(C) :
             Script[Len(P) + Len(R) + Len(T) + i] = C[i]
    <3>1. /\ P \in Seq(Steps) /\ R \in Seq(Steps) /\ T \in Seq(Steps)
          /\ C \in Seq(Steps)
      BY <2>1
    <3> QED
      BY <1>3, <3>1, FourJoined
  <2>3. Len(T) \in Nat
    BY <2>1
  <2> QED
    BY <2>1, <2>2, <2>3
<1>5. Len(T) \in Nat
  BY <1>2
<1>6. ASSUME NEW i \in 1 .. Last
      PROVE /\ Script[i].does = "transition" => Script[i].what # "COMPLETED"
            /\ Script[i].does = "reserve" => i = Reserved
            /\ Script[i].does = "judge" => i = Last - 1
            /\ Script[i].does = "check" => i < Last - 1
  <2>1. CASE i \in 1 .. 11
    <3>1. Script[i] = P[i]
      BY <1>4, <2>1
    <3>2. i \in {1, 2, 3, 4, 5, 6, 7, 8, 9, 10, 11}
      BY <2>1
    <3> QED
      BY <1>4, <1>5, <3>1, <3>2
         DEF Preparation, To, Work, Reserving, CancelCheck, Reserved, Last
  <2>2. CASE i = 12
    BY <1>4, <2>2 DEF To
  <2>3. CASE i \in 13 .. 12 + Len(T)
    <3>1. Script[12 + (i - 12)] = T[i - 12] /\ T[i - 12] \in TrafficSteps
      BY <1>2, <1>4, <1>5, <2>3
    <3>2. Script[i] \in TrafficSteps
      BY <1>5, <2>3, <3>1
    <3>3. Script[i].does \in {"check", "stage"}
      BY <3>2 DEF TrafficSteps, RoundSteps, LostCheck, CancelCheck, Stage
    <3> QED
      BY <1>4, <1>5, <2>3, <3>3 DEF Last
  <2>4. CASE i \in Len(T) + 13 .. Len(T) + 16
    <3>1. PICK j \in {1, 2, 3, 4} : i = Len(T) + 12 + j
      BY <1>5, <2>4
    <3>2. Script[i] = C[j]
      BY <1>4, <3>1
    <3> QED
      BY <1>4, <1>5, <3>1, <3>2 DEF Conclusion, To, Judging, Last
  <2> QED
    BY <1>4, <1>5, <2>1, <2>2, <2>3, <2>4 DEF Last
<1>7. Script[1] = To("PREFLIGHT")
  BY <1>4 DEF Preparation
<1>8. Script[Last] = To("GENERATING_REPORT")
  <2>1. Script[Len(T) + 12 + 4] = C[4] /\ C[4] = To("GENERATING_REPORT")
    BY <1>4 DEF Conclusion
  <2> QED
    BY <1>4, <1>5, <2>1 DEF Last
<1> QED
  BY <1>4, <1>5, <1>6, <1>7, <1>8 DEF Last, Reserved

-----------------------------------------------------------------------------
(* The type invariant.                                                      *)

Rows == [kind : RunKinds, state : RunStateNames, eligible : {"NO", "YES", "LOST"}]
Engines == [at : Places, step : 1 .. Last, cached : RunStateNames,
            holds : {"nothing", "reservation", "reported"}]
Requests == [pc : {"idle", "event", "write", "command", "recover"},
             seen : RunStateNames, listed : BOOLEAN]

(* TypeOK once more, its records named.                                     *)
TypeInv ==
  /\ row \in Rows
  /\ engine \in Engines
  /\ renewal \in {"off", "waiting", "failed", "stopped"}
  /\ event \in BOOLEAN
  /\ node \in {"free", "ours"}
  /\ request \in [Threads -> Requests]
  /\ up \in BOOLEAN

(* They are the same. *)
LEMMA TypeInvIsTypeOK == TypeInv <=> TypeOK
  BY DEF TypeInv, TypeOK, Rows, Engines, Requests, Last

(* The table leads from states to states.                                    *)
LEMMA TableIsClosed ==
  /\ \A s \in RunStateNames : AllowedTransitions[s] \subseteq RunStateNames
  /\ RunTerminalStates \subseteq RunStateNames
  /\ {"CREATED", "CANCEL_REQUESTED", "CANCELLED"} \subseteq RunStateNames
  BY DEF RunStateNames, AllowedTransitions, RunTerminalStates, Unwind

(* The step after a step of the script: the next one, or the finally clause. *)
LEMMA AfterMoves ==
  ASSUME engine \in Engines
  PROVE  /\ After(engine) \in Engines
         /\ After(engine).cached = engine.cached
         /\ After(engine).holds = engine.holds
         /\ \/ /\ engine.step < Last
               /\ After(engine).at = engine.at
               /\ After(engine).step = engine.step + 1
            \/ /\ engine.step = Last
               /\ After(engine).at = "finally"
<1>1. Last \in Nat
  BY ScriptShape
<1> QED
  BY <1>1 DEF After, Engines, Places, Last

(* A step elsewhere changes nothing but the place. *)
LEMMA GoMoves ==
  ASSUME engine \in Engines, NEW place \in Places, Go(place)
  PROVE  /\ engine' \in Engines
         /\ engine' = [engine EXCEPT !.at = place]
         /\ engine'.at = place
         /\ engine'.step = engine.step
         /\ engine'.cached = engine.cached
         /\ engine'.holds = engine.holds
  BY DEF Go, Engines

(* A transition commits the state and moves on, or goes to the exception.    *)
LEMMA TransitionMoves ==
  ASSUME row \in Rows, engine \in Engines, NEW target, NEW next \in Engines,
         NEW otherwise \in Places, Transition(target, next, otherwise)
  PROVE  /\ row' \in Rows /\ engine' \in Engines
         /\ row'.kind = row.kind /\ row'.eligible = row.eligible
         /\ \/ /\ TransitionAllowed(target)
               /\ row'.state = target
               /\ engine'.cached = target
               /\ engine'.at = next.at
               /\ engine'.step = next.step
               /\ engine'.holds = next.holds
            \/ /\ ~TransitionAllowed(target)
               /\ row' = row
               /\ engine'.at = otherwise
               /\ engine'.step = engine.step
               /\ engine'.cached = engine.cached
               /\ engine'.holds = engine.holds
<1>1. CASE TransitionAllowed(target)
  <2>1. target \in RunStateNames
    BY <1>1, TableIsClosed DEF TransitionAllowed, Engines
  <2>2. /\ row' = [row EXCEPT !.state = target]
        /\ engine' = [next EXCEPT !.cached = target]
    BY <1>1 DEF Transition
  <2> QED
    BY <1>1, <2>1, <2>2 DEF Rows, Engines
<1>2. CASE ~TransitionAllowed(target)
  <2>1. Go(otherwise) /\ row' = row
    BY <1>2 DEF Transition
  <2> QED
    BY <1>2, <2>1, GoMoves
<1> QED
  BY <1>1, <1>2

(* Every step of execute_run keeps the types.                                *)
LEMMA EngineTyped ==
  ASSUME TypeInv, EngineStep
  PROVE  TypeInv'
<1> USE DEF TypeInv
<1>0. /\ After(engine) \in Engines
      /\ {"failed", "cancelled", "lost", "finally", "finish", "teardown"}
           \subseteq Places
  BY AfterMoves DEF Places
<1>1. CASE TransitionStep
  <2>1. Transition(Script[engine.step].what, After(engine), "failed")
    BY <1>1 DEF TransitionStep
  <2>2. row' \in Rows /\ engine' \in Engines
    BY <1>0, <2>1, TransitionMoves
  <2> QED
    BY <1>1, <2>2 DEF TransitionStep, EngineOnly, EngineFrame
<1>2. CASE WorkStep \/ StageStep
  <2>1. row' \in Rows /\ engine' \in Engines
    BY <1>0, <1>2, GoMoves DEF WorkStep, StageStep, Proceed
  <2> QED
    BY <1>2, <2>1 DEF WorkStep, StageStep, EngineOnly, EngineFrame
<1>3. CASE CancelCheckStep
  <2>1. engine' \in Engines
    <3>1. [After(engine) EXCEPT !.cached = row.state] \in Engines
      BY <1>0 DEF Engines, Rows
    <3> QED
      BY <1>0, <1>3, <3>1, GoMoves DEF CancelCheckStep
  <2> QED
    BY <1>3, <2>1 DEF CancelCheckStep, EngineOnly, EngineFrame
<1>4. CASE LostCheckStep
  <2>1. engine' \in Engines
    BY <1>0, <1>4, GoMoves DEF LostCheckStep, Proceed
  <2> QED
    BY <1>4, <2>1 DEF LostCheckStep, EngineOnly, EngineFrame
<1>5. CASE ReserveStep
  <2>1. [After(engine) EXCEPT !.holds = "reservation"] \in Engines
    BY <1>0 DEF Engines
  <2>2. engine' \in Engines
    BY <1>0, <1>5, <2>1, GoMoves DEF ReserveStep, Proceed
  <2>3. /\ node' \in {"free", "ours"}
        /\ renewal' \in {"off", "waiting", "failed", "stopped"}
    BY <1>5 DEF ReserveStep
  <2> QED
    BY <1>5, <2>2, <2>3 DEF ReserveStep, EngineFrame
<1>6. CASE JudgeStep
  <2>1. engine' \in Engines
    BY <1>0, <1>6, GoMoves DEF JudgeStep, Proceed
  <2>2. row' \in Rows
    BY <1>6 DEF JudgeStep, Rows
  <2> QED
    BY <1>6, <2>1, <2>2 DEF JudgeStep, EngineOnly, EngineFrame
<1>7. CASE CleanUp
  BY <1>7 DEF CleanUp, Engines, Rows, Places, EngineOnly, EngineFrame
<1>8. CASE CleanUpStep
  <2>1. [engine EXCEPT !.at = "finally"] \in Engines
    BY <1>0 DEF Engines
  <2>2. \E next \in Engines : Transition(CleanUpTarget, next, "finally")
    BY <1>8, <2>1 DEF CleanUpStep
  <2>3. row' \in Rows /\ engine' \in Engines
    BY <1>0, <2>2, TransitionMoves
  <2> QED
    BY <1>8, <2>3 DEF CleanUpStep, EngineOnly, EngineFrame
<1>9. CASE MarkLost
  <2>1. row' \in Rows
    BY <1>9 DEF MarkLost, Rows
  <2> QED
    BY <1>0, <1>9, <2>1, GoMoves DEF MarkLost, EngineOnly, EngineFrame
<1>10. CASE Fail
  <2>1. [engine EXCEPT !.at = "finally"] \in Engines
    BY <1>0 DEF Engines
  <2>2. row' \in Rows /\ engine' \in Engines
    BY <1>0, <1>10, <2>1, TransitionMoves DEF Fail
  <2> QED
    BY <1>10, <2>2 DEF Fail, EngineOnly, EngineFrame
<1>11. CASE StopRenewal
  <2>1. "release" \in Places
    BY DEF Places
  <2> QED
    BY <1>11, <2>1, GoMoves DEF StopRenewal, EngineFrame
<1>12. CASE Release
  <2>1. /\ engine' \in Engines
        /\ node' \in {"free", "ours"}
    <3>1. /\ [engine EXCEPT !.at = "finish", !.holds = "nothing"] \in Engines
          /\ [engine EXCEPT !.at = "finish", !.holds = "reported"] \in Engines
      BY DEF Engines, Places
    <3> QED
      BY <1>0, <1>12, <3>1, GoMoves DEF Release
  <2> QED
    BY <1>12, <2>1 DEF Release, EngineFrame
<1>13. CASE Finish
  <2>1. [engine EXCEPT !.at = "teardown"] \in Engines
    BY <1>0 DEF Engines
  <2>2. row' \in Rows /\ engine' \in Engines
    BY <1>0, <1>13, <2>1, TransitionMoves, GoMoves DEF Finish
  <2> QED
    BY <1>13, <2>2 DEF Finish, EngineOnly, EngineFrame
<1>14. CASE Teardown
  BY <1>14, GoMoves DEF Teardown, Places
<1> QED
  BY <1>1, <1>2, <1>3, <1>4, <1>5, <1>6, <1>7, <1>8, <1>9, <1>10, <1>11, <1>12,
     <1>13, <1>14 DEF EngineStep

(* The commits of the handlers.                                              *)
LEMMA StateSet ==
  ASSUME row \in Rows, NEW s \in RunStateNames, SetState(s) \/ UNCHANGED row
  PROVE  row' \in Rows
  BY DEF SetState, Rows

(* An answer or a step of a request keeps the requests well formed. *)
LEMMA AwaitTyped ==
  ASSUME request \in [Threads -> Requests], NEW t \in Threads,
         NEW r \in Requests, Await(t, r)
  PROVE  request' \in [Threads -> Requests]
  BY DEF Await

(* Everybody else keeps the types as well. *)
LEMMA OtherTyped ==
  ASSUME TypeInv, \/ RenewalFails \/ Expires \/ NodeRestarts \/ Operator
                  \/ HandlerStep \/ Crash \/ Startup \/ UNCHANGED vars
  PROVE  TypeInv'
<1> USE DEF TypeInv
<1>0. NoRequest \in Requests
  BY TableIsClosed DEF NoRequest, Requests
<1>1. CASE RenewalFails \/ Expires \/ NodeRestarts \/ BatchCancels \/ UNCHANGED vars
  BY <1>1 DEF RenewalFails, Expires, NodeRestarts, BatchCancels, vars
<1>2. CASE LabStart
  <2>1. \E l \in BOOLEAN :
           Await(Recovery,
                 [pc |-> "recover", seen |-> row.state, listed |-> l])
    BY <1>2 DEF LabStart, Recover
  <2>2. \A l \in BOOLEAN :
           [pc |-> "recover", seen |-> row.state, listed |-> l] \in Requests
    BY DEF Requests, Rows
  <2>3. Recovery \in Threads
    BY DEF Threads
  <2> QED
    BY <1>2, <2>1, <2>2, <2>3, AwaitTyped DEF LabStart
<1>3. ASSUME NEW t \in Clients, CancelRead(t) PROVE TypeInv'
  <2>1. PICK step \in {"event", "command"} :
          Await(t, [NoRequest EXCEPT !.pc = step, !.seen = row.state])
    BY <1>3 DEF CancelRead
  <2>2. [NoRequest EXCEPT !.pc = step, !.seen = row.state] \in Requests
    BY DEF NoRequest, Requests, Rows
  <2> QED
    BY <1>3, <2>1, <2>2, AwaitTyped DEF CancelRead, Threads
<1>4. ASSUME NEW t \in Clients, CancelEvent(t) PROVE TypeInv'
  <2>1. [request[t] EXCEPT !.pc = "write"] \in Requests
    BY DEF Requests, Threads
  <2> QED
    BY <1>4, <2>1, AwaitTyped DEF CancelEvent, Threads
<1>5. ASSUME NEW t \in Clients, RequestCancel(t) PROVE TypeInv'
  <2>1. CancelTarget(request[t].seen) \in RunStateNames
    BY TableIsClosed DEF CancelTarget
  <2>2. row' \in Rows
    BY <1>5, <2>1, StateSet DEF RequestCancel
  <2> QED
    BY <1>0, <1>5, <2>2, AwaitTyped DEF RequestCancel, Answer, Threads
<1>6. CASE RecoverWrite
  <2>1. row' \in Rows
    BY <1>6, StateSet, TableIsClosed
       DEF RecoverWrite, SetStateIf, RunTerminalStates
  <2> QED
    BY <1>0, <1>6, <2>1, AwaitTyped DEF RecoverWrite, Answer, Threads
<1>7. CASE Crash
  <2>1. engine' \in Engines
    BY <1>7 DEF Crash, Engines, Places
  <2>2. request' \in [Threads -> Requests]
    BY <1>0, <1>7 DEF Crash
  <2> QED
    BY <1>7, <2>1, <2>2 DEF Crash
<1>8. CASE Startup
  <2>1. row' \in Rows
    BY <1>8, StateSet, TableIsClosed DEF Startup, SetStateIf, RunTerminalStates
  <2>2. CASE UNCHANGED request
    BY <1>8, <2>1, <2>2 DEF Startup
  <2>3. CASE Recover(row'.state)
    <3>1. \E l \in BOOLEAN :
             Await(Recovery,
                   [pc |-> "recover", seen |-> row'.state, listed |-> l])
      BY <2>3 DEF Recover
    <3>2. \A l \in BOOLEAN :
             [pc |-> "recover", seen |-> row'.state, listed |-> l] \in Requests
      BY <2>1 DEF Requests, Rows
    <3>3. Recovery \in Threads
      BY DEF Threads
    <3>4. request' \in [Threads -> Requests]
      BY <3>1, <3>2, <3>3, AwaitTyped
    <3> QED
      BY <1>8, <2>1, <3>4 DEF Startup
  <2> QED
    BY <1>8, <2>2, <2>3 DEF Startup
<1> QED
  BY <1>1, <1>2, <1>3, <1>4, <1>5, <1>6, <1>7, <1>8 DEF Operator, HandlerStep

(* So the types always hold. *)
LEMMA TypeInvariant == Spec => []TypeInv
<1>1. Init => TypeInv
  <2>1. 1 \in 1 .. Last
    BY ScriptShape DEF Reserved
  <2>2. NoRequest \in Requests
    BY TableIsClosed DEF NoRequest, Requests
  <2>3. Init => row \in Rows
    BY TableIsClosed, PlanAssumption DEF Init, Rows
  <2>4. Init => engine \in Engines
    BY <2>1, TableIsClosed DEF Init, Engines, Places
  <2> QED
    BY <2>2, <2>3, <2>4 DEF Init, TypeInv
<1>2. TypeInv /\ [Next]_vars => TypeInv'
  BY EngineTyped, OtherTyped DEF Next
<1> QED
  BY <1>1, <1>2, PTL DEF Spec

(* The variables of a run always have their types.                           *)
THEOREM TypeCorrect == Spec => []TypeOK
  BY TypeInvariant, TypeInvIsTypeOK, PTL

-----------------------------------------------------------------------------
(* What a step of execute_run does, in the terms of the properties: it goes   *)
(* on in the script, leaves it for an exception, unwinds, or winds up.       *)

SameState == row'.state = row.state \/ row'.state # "COMPLETED"

Advances ==
  /\ At("script")
  /\ \/ /\ engine.step < Last
        /\ engine'.at = "script"
        /\ engine'.step = engine.step + 1
     \/ /\ engine.step = Last
        /\ engine'.at = "finally"
  /\ Script[engine.step] = CancelCheck => ~event
  /\ Script[engine.step] = LostCheck => renewal # "failed"
  /\ row'.eligible = row.eligible \/ engine.step = Last - 1
  /\ renewal' = renewal \/ engine.step = Reserved
  /\ SameState
  /\ event' = event

Leaves ==
  /\ At("script")
  /\ engine'.at \in {"cancelled", "lost", "failed"}
  /\ row'.eligible = row.eligible \/ engine.step = Last - 1
  /\ row'.state = row.state
  /\ UNCHANGED <<renewal, event>>

Unwinds ==
  /\ engine.at \in {"cancelled", "cleanup", "lost", "failed"}
  /\ engine'.at \in {"cleanup", "failed", "finally"}
  /\ engine'.at = "finally" => engine'.cached # "GENERATING_REPORT"
  /\ row'.eligible \in {row.eligible, "LOST"}
  /\ SameState
  /\ UNCHANGED <<renewal, event>>

WindsUp ==
  /\ \/ /\ At("finally") /\ engine'.at = "release"
        /\ row' = row
     \/ /\ At("release") /\ engine'.at = "finish"
        /\ row' = row
        /\ engine'.holds # "reservation"
     \/ /\ At("finish") /\ engine'.at = "teardown"
        /\ engine'.holds = engine.holds
        /\ row'.eligible = row.eligible
        /\ SameState \/ engine.cached = "GENERATING_REPORT"
     \/ /\ At("teardown") /\ engine'.at = "over"
        /\ row' = row
        /\ engine'.holds = engine.holds
  /\ engine'.cached = engine.cached \/ engine'.at = "teardown"
  /\ renewal' \in {renewal, "stopped"}
  /\ renewal = "failed" => renewal' = "failed"
  /\ event' = event \/ engine'.at = "over"

(* Every step of execute_run is of one of these four kinds. *)
LEMMA EngineCourse ==
  ASSUME TypeInv, EngineStep
  PROVE  Advances \/ Leaves \/ Unwinds \/ WindsUp
<1>0. /\ engine \in Engines /\ row \in Rows
      /\ {"cancelled", "cleanup", "lost", "failed", "finally", "release",
          "finish", "teardown", "over"} \subseteq Places
      /\ engine.step \in 1 .. Last
  BY DEF TypeInv, Places, Engines
<1>a. /\ After(engine).cached = engine.cached
      /\ After(engine) \in Engines
      /\ \/ /\ engine.step < Last
            /\ After(engine).at = engine.at
            /\ After(engine).step = engine.step + 1
         \/ /\ engine.step = Last
            /\ After(engine).at = "finally"
  BY <1>0, AfterMoves
<1>b. /\ Script[engine.step].does = "transition" => Script[engine.step].what # "COMPLETED"
      /\ Script[engine.step].does = "reserve" => engine.step = Reserved
      /\ Script[engine.step].does = "judge" => engine.step = Last - 1
  BY <1>0, ScriptShape
<1>c. CancelCheck.does = "check" /\ LostCheck.does = "check"
  BY DEF CancelCheck, LostCheck
<1>1. CASE TransitionStep
  <2>1. Transition(Script[engine.step].what, After(engine), "failed")
    BY <1>1 DEF TransitionStep
  <2>2. \/ /\ row'.state = Script[engine.step].what
           /\ engine'.at = After(engine).at /\ engine'.step = After(engine).step
        \/ row' = row /\ engine'.at = "failed"
    BY <1>0, <1>a, <2>1, TransitionMoves
  <2>3. row'.eligible = row.eligible
    BY <1>0, <1>a, <2>1, TransitionMoves
  <2>4. /\ At("script")
        /\ Script[engine.step].does = "transition"
        /\ UNCHANGED <<renewal, event>>
    BY <1>1 DEF TransitionStep, Doing, EngineOnly, EngineFrame
  <2> QED
    BY <1>a, <1>b, <1>c, <2>2, <2>3, <2>4 DEF Advances, Leaves, SameState, At
<1>2. CASE WorkStep \/ StageStep
  <2>1. At("script") /\ UNCHANGED <<row, renewal, event>> /\ (Proceed \/ Go("failed"))
        /\ Script[engine.step].does \in {"work", "stage"}
    BY <1>2 DEF WorkStep, StageStep, Doing, EngineOnly, EngineFrame
  <2>2. engine' = After(engine) \/ engine'.at = "failed"
    BY <1>0, <2>1, GoMoves DEF Proceed
  <2> QED
    BY <1>a, <1>c, <2>1, <2>2 DEF Advances, Leaves, SameState, At
<1>3. CASE CancelCheckStep
  <2>1. /\ At("script")
        /\ UNCHANGED <<row, renewal, event>>
        /\ Script[engine.step] = CancelCheck
    BY <1>3 DEF CancelCheckStep, Doing, EngineOnly, EngineFrame
  <2>2. CASE EventSet \/ row.state = "CANCEL_REQUESTED"
    BY <1>0, <1>3, <2>1, <2>2, GoMoves DEF CancelCheckStep, Leaves
  <2>3. CASE ~(EventSet \/ row.state = "CANCEL_REQUESTED")
    <3>1. engine' = [After(engine) EXCEPT !.cached = row.state]
      BY <1>3, <2>3 DEF CancelCheckStep
    <3>2. engine'.at = After(engine).at /\ engine'.step = After(engine).step
      BY <1>a, <3>1 DEF Engines
    <3>3. LostCheck # CancelCheck
      BY DEF LostCheck, CancelCheck
    <3> QED
      BY <1>a, <2>1, <2>3, <3>2, <3>3 DEF Advances, SameState, At, EventSet
  <2> QED
    BY <2>2, <2>3
<1>4. CASE LostCheckStep
  <2>1. /\ At("script")
        /\ UNCHANGED <<row, renewal, event>>
        /\ Script[engine.step] = LostCheck
    BY <1>4 DEF LostCheckStep, Doing, EngineOnly, EngineFrame
  <2>2. CASE ReservationLost
    BY <1>0, <1>4, <2>1, <2>2, GoMoves DEF LostCheckStep, Leaves
  <2>3. CASE ~ReservationLost
    <3>1. LostCheck # CancelCheck /\ engine' = After(engine)
      BY <1>4, <2>3 DEF LostCheck, CancelCheck, LostCheckStep, Proceed
    <3> QED
      BY <1>a, <2>1, <2>3, <3>1 DEF Advances, SameState, At, ReservationLost
  <2> QED
    BY <2>2, <2>3
<1>5. CASE ReserveStep
  <2>1. /\ At("script")
        /\ UNCHANGED <<row, event>>
        /\ Script[engine.step].does = "reserve"
    BY <1>5 DEF ReserveStep, Doing, EngineFrame
  <2>2. CASE Go("failed") /\ UNCHANGED renewal
    BY <1>0, <2>1, <2>2, GoMoves DEF Leaves
  <2>3. CASE engine' = After(engine) \/ engine' = [After(engine) EXCEPT !.holds = "reservation"]
    <3>1. engine'.at = After(engine).at /\ engine'.step = After(engine).step
      BY <1>a, <2>3 DEF Engines
    <3> QED
      BY <1>a, <1>b, <1>c, <2>1, <3>1 DEF Advances, SameState, At
  <2> QED
    BY <1>5, <2>2, <2>3 DEF ReserveStep, Proceed
<1>6. CASE JudgeStep
  <2>1. /\ At("script")
        /\ UNCHANGED <<renewal, event>>
        /\ Script[engine.step].does = "judge"
    BY <1>6 DEF JudgeStep, Doing, EngineOnly, EngineFrame
  <2>2. row'.state = row.state /\ (engine' = After(engine) \/ Go("failed"))
    BY <1>0, <1>6 DEF JudgeStep, Rows, Proceed
  <2>3. engine' = After(engine) \/ engine'.at = "failed"
    BY <1>0, <2>2, GoMoves
  <2> QED
    BY <1>a, <1>b, <1>c, <2>1, <2>2, <2>3 DEF Advances, Leaves, SameState, At
<1>7. CASE CleanUp
  BY <1>0, <1>7
     DEF CleanUp, Engines, Unwinds, At, SameState, EngineOnly, EngineFrame
<1>8. CASE CleanUpStep
  <2> DEFINE next == IF CleanUpTarget = "CANCELLED"
                       THEN [engine EXCEPT !.at = "finally"] ELSE engine
  <2>1. /\ At("cleanup")
        /\ Transition(CleanUpTarget, next, "finally")
        /\ UNCHANGED <<renewal, event>>
    BY <1>8 DEF CleanUpStep, EngineOnly, EngineFrame
  <2>2. next \in Engines /\ next.at \in {"cleanup", "finally"}
    BY <1>0, <2>1 DEF Engines, At
  <2> HIDE DEF next
  <2>3. /\ row'.eligible = row.eligible
        /\ \/ /\ row'.state = CleanUpTarget
              /\ engine'.cached = CleanUpTarget
              /\ engine'.at = next.at
           \/ /\ ~TransitionAllowed(CleanUpTarget)
              /\ row' = row
              /\ engine'.at = "finally"
              /\ engine'.cached = engine.cached
    BY <1>0, <2>1, <2>2, TransitionMoves
  <2>4. CleanUpTarget \in {"RESTORING", "CANCELLED", "CANCEL_REQUESTED"}
    BY DEF CleanUpTarget
  <2>5. engine.cached = "GENERATING_REPORT" => TransitionAllowed(CleanUpTarget)
    BY DEF TransitionAllowed, CleanUpTarget, AllowedTransitions, Unwind
  <2> QED
    BY <2>1, <2>2, <2>3, <2>4, <2>5 DEF Unwinds, At, SameState
<1>9. CASE MarkLost
  <2>1. row'.state = row.state /\ row'.eligible = "LOST"
    BY <1>0, <1>9 DEF MarkLost, Rows
  <2> QED
    BY <1>0, <1>9, <2>1, GoMoves
       DEF MarkLost, Unwinds, At, SameState, EngineOnly, EngineFrame
<1>10. CASE Fail
  <2>1. [engine EXCEPT !.at = "finally"] \in Engines
    BY <1>0 DEF Engines
  <2>2. /\ row'.eligible = row.eligible
        /\ engine'.at = "finally"
        /\ \/ row'.state = "FAILED" /\ engine'.cached = "FAILED"
           \/ /\ ~TransitionAllowed("FAILED")
              /\ row' = row
              /\ engine'.cached = engine.cached
    BY <1>0, <1>10, <2>1, TransitionMoves DEF Fail, Engines
  <2>3. engine.cached = "GENERATING_REPORT" => TransitionAllowed("FAILED")
    BY DEF TransitionAllowed, AllowedTransitions, Unwind
  <2> QED
    BY <1>10, <2>2, <2>3 DEF Fail, Unwinds, At, SameState, EngineOnly, EngineFrame
<1>11. CASE StopRenewal
  BY <1>0, <1>11, GoMoves DEF StopRenewal, WindsUp, At, EngineFrame
<1>12. CASE Release
  <2>1. /\ engine'.at = "finish" /\ engine'.holds # "reservation"
        /\ engine'.cached = engine.cached
    BY <1>0, <1>12 DEF Release, Go, Engines
  <2> QED
    BY <1>12, <2>1 DEF Release, WindsUp, At, EngineFrame
<1>13. CASE Finish
  <2>1. [engine EXCEPT !.at = "teardown"] \in Engines
    BY <1>0 DEF Engines
  <2>2. /\ engine'.holds = engine.holds /\ row'.eligible = row.eligible
        /\ engine'.at = "teardown"
        /\ row' = row \/ engine.cached = "GENERATING_REPORT"
    BY <1>0, <1>13, <2>1, TransitionMoves, GoMoves DEF Finish, Engines
  <2> QED
    BY <1>13, <2>2 DEF Finish, WindsUp, At, SameState, EngineOnly, EngineFrame
<1>14. CASE Teardown
  BY <1>0, <1>14, GoMoves DEF Teardown, WindsUp, At
<1> QED
  BY <1>1, <1>2, <1>3, <1>4, <1>5, <1>6, <1>7, <1>8, <1>9, <1>10, <1>11, <1>12,
     <1>13, <1>14 DEF EngineStep

(* Everybody else leaves the thread where it is, or kills it; and none of     *)
(* them completes a run or judges one.                                       *)
Elsewhere ==
  /\ \/ engine' = engine /\ (event => event')
     \/ engine'.at = "dead" /\ engine'.holds = engine.holds
  /\ row'.eligible = row.eligible
  /\ SameState
  /\ renewal' = renewal \/ renewal = "waiting"

(* The monitor, the node, the clients, a crash and a restart are like that. *)
LEMMA OtherCourse ==
  ASSUME TypeInv, \/ RenewalFails \/ Expires \/ NodeRestarts \/ Operator
                  \/ HandlerStep \/ Crash \/ Startup \/ UNCHANGED vars
  PROVE  Elsewhere
<1>0. engine \in Engines /\ row \in Rows
  BY DEF TypeInv
<1>1. CASE RenewalFails \/ Expires \/ NodeRestarts \/ BatchCancels \/ LabStart \/ UNCHANGED vars
  BY <1>1 DEF RenewalFails, Expires, NodeRestarts, BatchCancels, LabStart, vars,
              Elsewhere, SameState
<1>2. ASSUME NEW t \in Clients, CancelRead(t) \/ CancelEvent(t) PROVE Elsewhere
  <2>1. event => event'
    BY <1>2, Zenon DEF CancelRead, CancelEvent
  <2> QED
    BY <1>2, <2>1 DEF CancelRead, CancelEvent, Elsewhere, SameState
<1>3. ASSUME NEW t \in Clients, RequestCancel(t) PROVE Elsewhere
  BY <1>0, <1>3
     DEF RequestCancel, CancelTarget, SetState, Elsewhere, SameState, Rows
<1>4. CASE RecoverWrite
  BY <1>0, <1>4 DEF RecoverWrite, SetStateIf, SetState, Elsewhere, SameState, Rows
<1>5. CASE Crash
  BY <1>0, <1>5 DEF Crash, Elsewhere, SameState, Engines
<1>6. CASE Startup
  BY <1>0, <1>6 DEF Startup, SetStateIf, SetState, Elsewhere, SameState, Rows
<1> QED
  BY <1>1, <1>2, <1>3, <1>4, <1>5, <1>6 DEF Operator, HandlerStep

(* Nothing else ever happens. *)
LEMMA Course ==
  ASSUME TypeInv, [Next]_vars
  PROVE  Advances \/ Leaves \/ Unwinds \/ WindsUp \/ Elsewhere
  BY EngineCourse, OtherCourse DEF Next

-----------------------------------------------------------------------------
(* Behind the release clause nothing is held; only a thread behind its last   *)
(* step completed the run; the reservation is not made before its step, and   *)
(* the verdict not given before its own.                                     *)
CourseInv ==
  /\ engine.at \in {"finish", "teardown", "over"} => engine.holds # "reservation"
  /\ row.state = "COMPLETED" => engine.at \in {"teardown", "over", "dead"}
  /\ At("script") /\ engine.step <= Reserved => renewal = "off"
  /\ At("script") /\ engine.step < Last => row.eligible # "YES"

(* This always holds. *)
LEMMA CourseInvariant == Spec => [](TypeInv /\ CourseInv)
<1>1. Init => CourseInv
  BY DEF Init, CourseInv, At
<1>2. TypeInv /\ CourseInv /\ [Next]_vars => CourseInv'
  <2> SUFFICES ASSUME TypeInv, CourseInv, [Next]_vars PROVE CourseInv'
    OBVIOUS
  <2>0. /\ engine.step \in 1 .. Last
        /\ Last \in Nat
        /\ Last > Reserved + 4
        /\ Reserved \in Nat
    BY ScriptShape DEF TypeInv, Engines, Reserved
  <2>1. CASE Advances
    BY <2>0, <2>1 DEF Advances, CourseInv, SameState, At
  <2>2. CASE Leaves
    BY <2>2 DEF Leaves, CourseInv, At
  <2>3. CASE Unwinds
    BY <2>3 DEF Unwinds, CourseInv, SameState, At
  <2>4. CASE WindsUp
    BY <2>4 DEF WindsUp, CourseInv, SameState, At
  <2>5. CASE Elsewhere
    BY <2>0, <2>5 DEF Elsewhere, CourseInv, SameState, At
  <2> QED
    BY <2>1, <2>2, <2>3, <2>4, <2>5, Course
<1> QED
  BY <1>1, <1>2, TypeInvariant, PTL DEF Spec

(* A run that ended, however it ended, has given back what it reserved or     *)
(* reported that it could not (the finally clause of execute_run).           *)
THEOREM NothingIsKept == Spec => []HandedBack
<1>1. CourseInv => HandedBack
  BY DEF CourseInv, HandedBack, At
<1> QED
  BY <1>1, CourseInvariant, PTL

(* What a cancel Event leads to: it is seen by a check that is still ahead,   *)
(* and a thread that left the script over it does not complete the run.      *)
Cancelling ==
  /\ row.state # "COMPLETED"
  /\ \/ event /\ Ahead(CancelCheck)
     \/ engine.at \in {"cancelled", "cleanup", "lost", "failed", "teardown", "over", "dead"}
     \/ /\ engine.at \in {"finally", "release", "finish"}
        /\ engine.cached # "GENERATING_REPORT"

(* A check that is ahead stays ahead until it is reached. *)
LEMMA AheadMoves ==
  ASSUME TypeInv, Advances, NEW check, Ahead(check), Script[engine.step] # check
  PROVE  Ahead(check)'
<1>1. PICK i \in engine.step .. Last : Script[i] = check
  BY DEF Ahead, Last
<1>2. engine.step \in 1 .. Last /\ Last \in Nat
  BY ScriptShape DEF TypeInv, Engines
<1>3. i \in engine.step + 1 .. Last /\ engine.step < Last
  BY <1>1, <1>2
<1>4. engine'.at = "script" /\ engine'.step = engine.step + 1
  BY <1>2, <1>3 DEF Advances
<1> QED
  BY <1>1, <1>3, <1>4 DEF Ahead, At, Last

(* No step leads out of it. *)
LEMMA CancellingGoesOn ==
  ASSUME TypeInv, [Next]_vars, Cancelling
  PROVE  Cancelling'
<1>1. CASE Advances
  <2>1. event /\ Ahead(CancelCheck) /\ Script[engine.step] # CancelCheck
    BY <1>1 DEF Advances, Cancelling, At
  <2>2. Ahead(CancelCheck)'
    BY <1>1, <2>1, AheadMoves
  <2> QED
    BY <1>1, <2>1, <2>2 DEF Advances, Cancelling, SameState
<1>2. CASE Leaves
  BY <1>2 DEF Leaves, Cancelling
<1>3. CASE Unwinds
  BY <1>3 DEF Unwinds, Cancelling, SameState
<1>4. CASE WindsUp
  BY <1>4 DEF WindsUp, Cancelling, SameState, Ahead, At
<1>5. CASE Elsewhere
  BY <1>5 DEF Elsewhere, Cancelling, SameState, Ahead, At
<1> QED
  BY <1>1, <1>2, <1>3, <1>4, <1>5, Course

(* A cancel Event set while a check is ahead is never missed: the run does    *)
(* not complete, whatever is written over its row (execute_run,               *)
(* _raise_if_cancelled).                                                     *)
THEOREM CancelIsSeen == Spec => CancelStops
<1>1. CourseInv /\ event /\ Ahead(CancelCheck) => Cancelling
  BY DEF CourseInv, Cancelling, Ahead, At
<1>2. TypeInv /\ Cancelling /\ [Next]_vars => Cancelling'
  BY CancellingGoesOn
<1>3. Cancelling => row.state # "COMPLETED"
  BY DEF Cancelling
<1> QED
  BY <1>1, <1>2, <1>3, CourseInvariant, PTL DEF Spec, CancelStops

(* A lost reservation is seen by the next check of it, and what follows gives *)
(* no verdict.                                                               *)
Losing ==
  /\ row.eligible # "YES"
  /\ (renewal = "failed" /\ Ahead(LostCheck)) \/ ~At("script")

(* No step leads out of that either. *)
LEMMA LosingGoesOn ==
  ASSUME TypeInv, CourseInv, [Next]_vars, Losing
  PROVE  Losing'
<1>0. engine.step \in 1 .. Last /\ Last \in Nat
  BY ScriptShape DEF TypeInv, Engines
<1>a. Ahead(LostCheck) => engine.step < Last - 1
  <2>1. ASSUME NEW i \in engine.step .. Last, Script[i] = LostCheck PROVE engine.step < Last - 1
    <3>1. i \in 1 .. Last /\ Script[i].does = "check"
      BY <1>0, <2>1 DEF LostCheck
    <3>2. i < Last - 1
      BY <3>1, ScriptShape
    <3> QED
      BY <1>0, <3>2
  <2> QED
    BY <2>1 DEF Ahead, Last
<1>1. CASE Advances
  <2>1. /\ renewal = "failed"
        /\ Ahead(LostCheck)
        /\ Script[engine.step] # LostCheck
    BY <1>1 DEF Advances, Losing, At
  <2>2. Ahead(LostCheck)'
    BY <1>1, <2>1, AheadMoves
  <2>3. engine.step # Reserved
    BY <1>1, <2>1 DEF Advances, CourseInv, At, Reserved
  <2>4. engine.step # Last - 1
    BY <1>0, <1>a, <2>1
  <2> QED
    BY <1>1, <2>1, <2>2, <2>3, <2>4 DEF Advances, Losing
<1>2. CASE Leaves
  BY <1>0, <1>2, <1>a DEF Leaves, Losing, At
<1>3. CASE Unwinds
  BY <1>3 DEF Unwinds, Losing, At
<1>4. CASE WindsUp
  BY <1>4 DEF WindsUp, Losing, At
<1>5. CASE Elsewhere
  BY <1>5 DEF Elsewhere, Losing, Ahead, At
<1> QED
  BY <1>1, <1>2, <1>3, <1>4, <1>5, Course

(* A renewal that failed while a check of it is ahead keeps the run out of    *)
(* the comparisons for good (ReservationRenewalMonitor, execute_run).        *)
THEOREM LossIsSeen == Spec => LostStops
<1>1. TypeInv /\ CourseInv /\ renewal = "failed" /\ Ahead(LostCheck) => Losing
  <2> SUFFICES ASSUME TypeInv, CourseInv, renewal = "failed", Ahead(LostCheck)
               PROVE  row.eligible # "YES"
    BY DEF Losing
  <2>1. PICK i \in engine.step .. Last : Script[i] = LostCheck
    BY DEF Ahead, Last
  <2>2. engine.step \in 1 .. Last /\ Last \in Nat
    BY ScriptShape DEF TypeInv, Engines
  <2>3. i \in 1 .. Last /\ Script[i].does = "check"
    BY <2>1, <2>2 DEF LostCheck
  <2>4. i < Last - 1
    BY <2>3, ScriptShape
  <2> QED
    BY <2>2, <2>4 DEF CourseInv, Ahead
<1>2. TypeInv /\ CourseInv /\ Losing /\ [Next]_vars => Losing'
  BY LosingGoesOn
<1>3. Losing => row.eligible # "YES"
  BY DEF Losing
<1> QED
  BY <1>1, <1>2, <1>3, CourseInvariant, PTL DEF Spec, LostStops

-----------------------------------------------------------------------------
(* The row follows the table of states as long as nobody writes it but the    *)
(* thread, and those that find the thread gone: without requests of others,   *)
(* and with a test node that answers or no lab runs, of which alone a         *)
(* recovery that fails marks the row.  The thread's session is then never     *)
(* stale, and recovery writes the row of a lab run that is not running.       *)
Unharmed == Clients = {} /\ (NodeFaults = FALSE \/ "lab" \notin Kinds)

FollowedInv ==
  /\ row.kind \in Kinds
  /\ engine.at \notin {"over", "dead"} => engine.cached = row.state
  /\ ~up => engine.at = "dead"
  /\ request[Recovery].pc = "recover" /\ LiveLabRun(request[Recovery].seen)
       => /\ row.state = request[Recovery].seen
          /\ engine.at \in {"over", "dead"}

(* A thread whose session is not stale moves its row along the table. *)
LEMMA EngineFollows ==
  ASSUME TypeInv, engine.at \notin {"over", "dead"} => engine.cached = row.state,
         EngineStep
  PROVE  /\ row'.state = row.state \/ row'.state \in AllowedTransitions[row.state]
         /\ row'.kind = row.kind
         /\ engine'.at # "dead"
         /\ engine'.at # "over" => engine'.cached = row'.state
         /\ engine.at \notin {"over", "dead"}
         /\ up' = up /\ up /\ request' = request
<1>0. /\ engine \in Engines /\ row \in Rows
      /\ After(engine) \in Engines
      /\ After(engine).cached = engine.cached
      /\ After(engine).at \in {engine.at, "finally"}
      /\ {"cancelled", "cleanup", "lost", "failed", "finally", "release",
          "finish", "teardown", "over"} \subseteq Places
  BY AfterMoves DEF TypeInv, Places
<1>1. engine.at \notin {"over", "dead"} /\ engine.cached = row.state
  BY DEF EngineStep, TransitionStep, WorkStep, StageStep, CancelCheckStep,
         LostCheckStep, ReserveStep, JudgeStep, CleanUp, CleanUpStep, MarkLost,
         Fail, StopRenewal, Release, Finish, Teardown, Doing, At
<1>2. up' = up /\ up /\ request' = request
  BY DEF EngineStep, TransitionStep, WorkStep, StageStep, CancelCheckStep,
         LostCheckStep, ReserveStep, JudgeStep, CleanUp, CleanUpStep, MarkLost,
         Fail, StopRenewal, Release, Finish, Teardown, EngineOnly, EngineFrame
<1>k. ASSUME NEW target, NEW next \in Engines, NEW otherwise \in Places,
             Transition(target, next, otherwise),
             next.at \notin {"dead", "over"}, otherwise \notin {"dead", "over"}
      PROVE  /\ row'.state = row.state \/ row'.state \in AllowedTransitions[row.state]
             /\ row'.kind = row.kind
             /\ engine'.at \notin {"dead", "over"}
             /\ engine'.cached = row'.state
  BY <1>0, <1>1, <1>k, TransitionMoves DEF TransitionAllowed
<1>3. CASE TransitionStep \/ CleanUpStep \/ Fail
  <2>1. [engine EXCEPT !.at = "finally"] \in Engines
        /\ [engine EXCEPT !.at = "finally"].at = "finally"
    BY <1>0 DEF Engines
  <2>2. CASE TransitionStep
    <3>1. After(engine).at \notin {"dead", "over"}
      BY <1>0, <1>1
    <3>2. Transition(Script[engine.step].what, After(engine), "failed")
      BY <2>2 DEF TransitionStep
    <3> QED
      BY <1>0, <1>1, <1>2, <1>k, <3>1, <3>2
  <2>3. CASE CleanUpStep
    <3> DEFINE next == IF CleanUpTarget = "CANCELLED"
                         THEN [engine EXCEPT !.at = "finally"] ELSE engine
    <3>1. next \in Engines /\ next.at \notin {"dead", "over"}
      BY <1>0, <1>1, <2>1
    <3>2. Transition(CleanUpTarget, next, "finally")
      BY <2>3 DEF CleanUpStep
    <3> HIDE DEF next
    <3> QED
      BY <1>0, <1>1, <1>2, <1>k, <3>1, <3>2
  <2>4. CASE Fail
    <3>1. Transition("FAILED", [engine EXCEPT !.at = "finally"], "finally")
      BY <2>4 DEF Fail
    <3> QED
      BY <1>0, <1>1, <1>2, <1>k, <2>1, <3>1
  <2> QED
    BY <1>3, <2>2, <2>3, <2>4
<1>4. CASE Finish
  <2>1. [engine EXCEPT !.at = "teardown"] \in Engines
        /\ [engine EXCEPT !.at = "teardown"].at = "teardown"
    BY <1>0 DEF Engines
  <2>2. CASE engine.cached = "GENERATING_REPORT"
    <3>1. Transition("COMPLETED", [engine EXCEPT !.at = "teardown"], "teardown")
      BY <1>4, <2>2 DEF Finish
    <3> QED
      BY <1>0, <1>1, <1>2, <1>k, <2>1, <3>1
  <2>3. CASE engine.cached # "GENERATING_REPORT"
    BY <1>0, <1>1, <1>2, <1>4, <2>3, GoMoves DEF Finish
  <2> QED
    BY <2>2, <2>3
<1>5. CASE WorkStep \/ StageStep \/ LostCheckStep \/ StopRenewal \/ Teardown
  <2>1. row' = row /\ \/ engine' = After(engine)
                      \/ \E p \in Places \ {"dead"} : Go(p)
    BY <1>0, <1>5
       DEF WorkStep, StageStep, LostCheckStep, StopRenewal, Teardown, Proceed
  <2>2. engine'.cached = engine.cached /\ engine'.at # "dead"
    BY <1>0, <1>1, <2>1, GoMoves
  <2> QED
    BY <1>1, <1>2, <2>1, <2>2
<1>6. CASE CancelCheckStep \/ CleanUp
  <2>1. row' = row /\ \/ engine' = [After(engine) EXCEPT !.cached = row.state]
                      \/ engine' = [engine EXCEPT !.at = "cleanup", !.cached = row.state]
                      \/ Go("cancelled")
    BY <1>6 DEF CancelCheckStep, CleanUp
  <2>2. engine'.cached = row.state /\ engine'.at # "dead"
    <3>1. CASE Go("cancelled")
      BY <1>0, <1>1, <3>1, GoMoves
    <3>2. CASE ~Go("cancelled")
      BY <1>0, <1>1, <2>1, <3>2 DEF Engines
    <3> QED
      BY <3>1, <3>2
  <2> QED
    BY <1>1, <1>2, <2>1, <2>2
<1>7. CASE ReserveStep \/ Release
  <2>1. row' = row /\ \/ engine' = After(engine)
                      \/ engine' = [After(engine) EXCEPT !.holds = "reservation"]
                      \/ engine' = [engine EXCEPT !.at = "finish", !.holds = "nothing"]
                      \/ engine' = [engine EXCEPT !.at = "finish", !.holds = "reported"]
                      \/ Go("failed") \/ Go("finish")
    BY <1>7 DEF ReserveStep, Release, Proceed
  <2>2. engine'.cached = engine.cached /\ engine'.at # "dead"
    <3>1. CASE Go("failed") \/ Go("finish")
      BY <1>0, <3>1, GoMoves
    <3>2. CASE ~(Go("failed") \/ Go("finish"))
      BY <1>0, <1>1, <2>1, <3>2 DEF Engines
    <3> QED
      BY <3>1, <3>2
  <2> QED
    BY <1>1, <1>2, <2>1, <2>2
<1>8. CASE JudgeStep \/ MarkLost
  <2>1. row'.state = row.state /\ row'.kind = row.kind
    BY <1>0, <1>8 DEF JudgeStep, MarkLost, Rows
  <2>2. Go("failed") \/ engine' = After(engine)
    BY <1>8 DEF JudgeStep, MarkLost, Proceed
  <2>3. engine'.cached = engine.cached /\ engine'.at # "dead"
    BY <1>0, <1>1, <2>2, GoMoves
  <2> QED
    BY <1>1, <1>2, <2>1, <2>3
<1> QED
  BY <1>3, <1>4, <1>5, <1>6, <1>7, <1>8 DEF EngineStep

(* RunLifecycle reads the same tables. *)
LEMMA SameTables ==
  /\ Lifecycle!RunTerminalStates = RunTerminalStates
  /\ Lifecycle!AllowedTransitions = AllowedTransitions
  BY DEF Lifecycle!RunTerminalStates, RunTerminalStates,
         Lifecycle!AllowedTransitions, AllowedTransitions, Lifecycle!Unwind, Unwind

(* Every step keeps this and is a step of the lifecycle, or none of it. *)
LEMMA FollowedStep ==
  ASSUME Unharmed, TypeInv, FollowedInv, [Next]_vars
  PROVE  FollowedInv' /\ (row'.state = row.state \/ Lifecycle!Next)
<1>0. /\ engine \in Engines /\ row \in Rows /\ request \in [Threads -> Requests]
      /\ Recovery \in Threads /\ Clients = {} /\ row.kind \in Kinds
  BY DEF TypeInv, Threads, Unharmed, FollowedInv
<1>1. CASE EngineStep
  <2>1. /\ row'.state = row.state \/ row'.state \in AllowedTransitions[row.state]
        /\ row'.kind = row.kind
        /\ engine'.at # "dead"
        /\ engine'.at # "over" => engine'.cached = row'.state
        /\ engine.at \notin {"over", "dead"}
        /\ up' = up /\ up /\ request' = request
    BY <1>1, EngineFollows DEF FollowedInv
  <2> QED
    BY <2>1, SameTables
       DEF FollowedInv, LiveLabRun, Lifecycle!Next, Lifecycle!Advance
<1>2. CASE RenewalFails \/ Expires \/ NodeRestarts \/ BatchCancels \/ UNCHANGED vars
  BY <1>2
     DEF RenewalFails, Expires, NodeRestarts, BatchCancels, vars, FollowedInv,
         LiveLabRun
<1>3. CASE LabStart
  <2>1. PICK l : request' = [request EXCEPT ![Recovery] =
                               [pc |-> "recover", seen |-> row.state, listed |-> l]]
    BY <1>3 DEF LabStart, Recover, Await
  <2>2. request'[Recovery].seen = row.state
    BY <1>0, <2>1
  <2> QED
    BY <1>3, <2>2 DEF LabStart, FollowedInv, LiveLabRun, RunIsOver, At
<1>4. CASE RecoverWrite
  <2>1. request'[Recovery].pc = "idle" /\ UNCHANGED <<engine, up>>
    BY <1>0, <1>4 DEF RecoverWrite, Answer, Await, NoRequest
  <2>2. row' = row \/ SetStateIf(LiveLabRun(request[Recovery].seen), "INTERRUPTED")
    <3>1. CASE NodeFaults = FALSE
      BY <1>4, <3>1 DEF RecoverWrite
    <3>2. CASE "lab" \notin Kinds
      <4>1. row.kind # "lab"
        BY <1>0, <3>2
      <4> QED BY <1>4, <4>1 DEF RecoverWrite, SetStateIf
    <3> QED BY <3>1, <3>2 DEF Unharmed
  <2>3. CASE row' = row
    BY <2>1, <2>3 DEF FollowedInv
  <2>4. CASE /\ SetStateIf(LiveLabRun(request[Recovery].seen), "INTERRUPTED")
             /\ LiveLabRun(request[Recovery].seen)
    <3>1. /\ row.state = request[Recovery].seen
          /\ engine.at \in {"over", "dead"}
          /\ row.state \notin RunTerminalStates
      BY <1>4, <2>4 DEF RecoverWrite, FollowedInv, LiveLabRun
    <3>2. row'.state = "INTERRUPTED" /\ row'.kind = row.kind
      BY <1>0, <2>4 DEF SetStateIf, SetState, Rows
    <3> QED
      BY <2>1, <3>1, <3>2, SameTables
         DEF FollowedInv, Lifecycle!Next, Lifecycle!MarkedAfterRestart
  <2>5. CASE /\ SetStateIf(LiveLabRun(request[Recovery].seen), "INTERRUPTED")
             /\ ~ LiveLabRun(request[Recovery].seen)
    <3>1. row' = row
      BY <2>5 DEF SetStateIf
    <3> QED BY <2>1, <3>1 DEF FollowedInv
  <2> QED
    BY <2>2, <2>3, <2>4, <2>5
<1>5. CASE Crash
  <2>1. engine'.at = "dead" /\ row' = row /\ ~up'
    BY <1>0, <1>5 DEF Crash, Engines
  <2>2. request'[Recovery] = request[Recovery] \/ request'[Recovery].pc = "idle"
    BY <1>0, <1>5 DEF Crash, NoRequest
  <2> QED
    BY <2>1, <2>2 DEF FollowedInv, LiveLabRun
<1>6. CASE Startup
  <2>1. engine' = engine /\ engine.at = "dead" /\ up' = TRUE
    BY <1>6 DEF Startup, FollowedInv
  <2>2. \/ row' = row
        \/ /\ row.state \notin RunTerminalStates /\ row'.state = "INTERRUPTED"
           /\ row'.kind = row.kind
    BY <1>0, <1>6 DEF Startup, SetStateIf, SetState, LiveBatchRun, Rows
  <2>3. \/ request'[Recovery].pc = "recover" /\ request'[Recovery].seen = row'.state
        \/ NodeFaults /\ request' = request
    <3>1. ASSUME NEW l, request' = [request EXCEPT ![Recovery] =
                               [pc |-> "recover", seen |-> row'.state, listed |-> l]]
          PROVE  request'[Recovery].pc = "recover" /\ request'[Recovery].seen = row'.state
      BY <1>0, <3>1
    <3>2. \/ \E l : request' = [request EXCEPT ![Recovery] =
                               [pc |-> "recover", seen |-> row'.state, listed |-> l]]
          \/ NodeFaults /\ request' = request
      BY <1>6 DEF Startup, Recover, Await
    <3> QED BY <3>1, <3>2
  <2>4. NodeFaults => row.kind # "lab" /\ row'.kind # "lab"
    BY <1>0, <2>2 DEF Unharmed
  <2>5. row'.state = row.state \/ Lifecycle!Next
    BY <2>2, SameTables DEF Lifecycle!Next, Lifecycle!MarkedAfterRestart
  <2>6. FollowedInv'
    BY <1>0, <2>1, <2>2, <2>3, <2>4 DEF FollowedInv, LiveLabRun
  <2> QED
    BY <2>5, <2>6
<1> QED
  BY <1>0, <1>1, <1>2, <1>3, <1>4, <1>5, <1>6 DEF Next, Operator, HandlerStep

(* Without cancel requests, and with a test node that answers or no lab runs,  *)
(* the row moves along the table and an end stays an end, across restarts,    *)
(* recoveries, renewals that fail and commands that are lost (transition,     *)
(* recover_interrupted_batches, _recover_orphaned_lab_reservations).          *)
THEOREM LifecycleIsKept ==
  ASSUME Clients = {}, NodeFaults = FALSE \/ "lab" \notin Kinds
  PROVE  Spec => KeepsLifecycle
<1>1. Init => FollowedInv /\ Lifecycle!Init
  BY DEF Init, FollowedInv, Lifecycle!Init, NoRequest, Threads, LiveLabRun
<1>2. TypeInv /\ FollowedInv /\ [Next]_vars => FollowedInv' /\ [Lifecycle!Next]_(row.state)
  BY FollowedStep DEF Unharmed
<1> QED
  BY <1>1, <1>2, TypeInvariant, PTL DEF Spec, KeepsLifecycle, Lifecycle!Spec
=============================================================================

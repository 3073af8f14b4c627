----------------------------- MODULE MetricSampler -----------------------------
(***************************************************************************)
(* The thread that samples a run while its traffic goes: it reads round      *)
(* trips and radio values at their own intervals, over one connection after  *)
(* another, and polls in between.  Time is counted in polls.                 *)
(*                                                                          *)
(* A definition marked "mutant" is not part of the model: it is the         *)
(* definition below it with a plausible mistake.                            *)
(***************************************************************************)
EXTENDS StageParameters

VARIABLES
  tick,    \* time.monotonic(), in polls
  engine,  \* the run's thread: what it does with the sampler, and since when
  thread,  \* the sampler's thread
  failed   \* the kinds of readings of which one failed or was left out since
           \* the last that succeeded

vars == <<tick, engine, thread, failed>>

-----------------------------------------------------------------------------
(* The loop of the thread.                                                  *)

Kinds == {"latency", "radio"}

Interval == [latency |-> LatencyEvery, radio |-> RadioEvery]

(* Latency is read only if the run has a server.                             *)
Due(kind, now, next) ==
  now >= next[kind] /\ (kind = "latency" => engine.target)

LeastOf(a, b) == IF a < b THEN a ELSE b

(* What is waited for is reckoned from the beginning of the round, cut to    *)
(* one poll; 0 stands for the least wait, of a fifth of one.                 *)
WaitUncut(now, next) ==                                           \* mutant
  IF next["radio"] > now THEN next["radio"] - now ELSE 0
WaitFor(now, next) ==
  LET first == IF engine.target THEN LeastOf(next["latency"], next["radio"])
                                ELSE next["radio"]
  IN IF first > now THEN 1 ELSE 0

At(state, since, next) ==
  [thread EXCEPT !.state = state, !.since = since, !.next = next]

(* Past a reading: the other one, if it is the radio's turn, or the wait.    *)
On(now, next, radioToo) ==
  IF radioToo /\ Due("radio", now, next)
    THEN [At("radio", tick, next) EXCEPT !.now = now]
    ELSE [At("waiting", tick, next) EXCEPT !.now = now,
                                           !.wake = tick + WaitFor(now, next)]

Round ==
  /\ thread.state = "loop"
  /\ thread' = IF engine.stop THEN [thread EXCEPT !.state = "ended"]
               ELSE IF Due("latency", tick, thread.next)
                 THEN [At("latency", tick, thread.next) EXCEPT !.now = tick]
               ELSE On(tick, thread.next, TRUE)
  /\ UNCHANGED <<tick, engine, failed>>

Succeeds(kind) ==
  /\ thread.state = kind
  /\ thread' = On(thread.now,
                  [thread.next EXCEPT ![kind] = thread.now + Interval[kind]],
                  kind = "latency")
  /\ failed' = failed \ {kind}
  /\ UNCHANGED <<tick, engine>>

(* The router or the database fails: one handler for both readings, so that  *)
(* the radio is not read after a latency reading that failed.                *)
Fails(kind) ==
  /\ thread.state = kind
  /\ thread' = On(thread.now, thread.next, FALSE)
  /\ failed' = failed \union (IF kind = "latency" THEN Kinds ELSE {kind})
  /\ UNCHANGED <<tick, engine>>

(* The wait ends early when stop() is called.                                *)
Wake ==
  /\ thread.state = "waiting"
  /\ tick >= thread.wake \/ engine.stop
  /\ thread' = [thread EXCEPT !.state = "loop"]
  /\ UNCHANGED <<tick, engine, failed>>

-----------------------------------------------------------------------------
(* The run's thread.                                                        *)

Start ==
  /\ engine.state = "new"
  /\ engine' = [engine EXCEPT !.state = "started"]
  /\ thread' = [thread EXCEPT !.state = "loop"]
  /\ UNCHANGED <<tick, failed>>

Stop ==
  /\ engine.state \in {"new", "started"}
  /\ engine' = [engine EXCEPT !.state = "joining", !.stop = TRUE, !.since = tick]
  /\ UNCHANGED <<tick, thread, failed>>

Joined ==                                                         \* mutant
  /\ engine.state = "joining"
  /\ engine' = [engine EXCEPT !.state = "stopped"]
  /\ UNCHANGED <<tick, thread, failed>>
Join ==
  /\ engine.state = "joining"
  /\ thread.state \in {"none", "ended"} \/ tick - engine.since >= JoinTime
  /\ engine' = [engine EXCEPT !.state = "stopped"]
  /\ UNCHANGED <<tick, thread, failed>>

-----------------------------------------------------------------------------
(* Time is counted from the start.  A reading takes ReadingTime at most, and *)
(* a wait is not overslept.                                                  *)
MayPass ==
  /\ engine.state # "new"
  /\ tick < SamplerTime
  /\ thread.state \in Kinds => tick - thread.since < ReadingTime
  /\ thread.state = "waiting" => tick < thread.wake /\ ~engine.stop
  /\ thread.state # "loop"
  /\ engine.state = "joining" =>
       tick - engine.since < JoinTime /\ thread.state \notin {"none", "ended"}

Tick == MayPass /\ tick' = tick + 1 /\ UNCHANGED <<engine, thread, failed>>

Init ==
  /\ tick = 0
  /\ engine \in [state : {"new"}, stop : {FALSE}, since : {0}, target : BOOLEAN]
  /\ thread = [state |-> "none", now |-> 0, since |-> 0, wake |-> 0,
               next |-> [kind \in Kinds |-> 0]]
  /\ failed = {}

Next ==
  \/ Round \/ Wake \/ Start \/ Stop \/ Join \/ Tick
  \/ \E kind \in Kinds : Succeeds(kind) \/ Fails(kind)

-----------------------------------------------------------------------------
(* Properties.                                                              *)

TypeOK ==
  /\ tick \in 0 .. SamplerTime
  /\ engine.state \in {"new", "started", "joining", "stopped"}
  /\ thread.state \in Kinds \union {"none", "loop", "waiting", "ended"}
  /\ failed \subseteq Kinds

(* While the sampler runs, each of its intervals is kept up to the readings  *)
(* that may be in the way: both of the round that is under way when it falls *)
(* due, and those up to its own in the next one.  Later is only a kind of    *)
(* which a reading failed, or was left out because the other one failed.     *)
InTheWay == [latency |-> 3 * ReadingTime, radio |-> 4 * ReadingTime]

OverdueForAReason ==
  engine.state = "started" =>
    \A kind \in Kinds :
      \/ kind \in failed
      \/ kind = "latency" /\ ~engine.target
      \/ tick - thread.next[kind] <= InTheWay[kind]

(* When stop() has returned nothing is sampled any more, but for the rest of *)
(* a round that was begun before stop() and outlasted its wait.              *)
QuietAfterStop ==
  engine.state = "stopped" /\ thread.state \in Kinds =>
    /\ thread.now <= engine.since
    /\ tick - engine.since >= JoinTime
=============================================================================

------------------------------- MODULE Campaigns -------------------------------
(***************************************************************************)
(* From the plan of a user to a batch: the benchmark protocols, what a run   *)
(* of each takes, the experiments and variants that are made one call after  *)
(* the other, and the two calls that make a batch of them.                   *)
(*                                                                          *)
(* A definition marked "mutant" is not part of the model: it is the         *)
(* definition below it with a plausible mistake.                            *)
(***************************************************************************)
EXTENDS StageParameters, Sequences, SequencesExt

VARIABLES
  sites,        \* the test sites
  experiments,  \* the experiments, in the order of their ids
  variants,     \* the variants, in the order of their ids
  batch         \* the batch made of them, or NoBatch

vars == <<sites, experiments, variants, batch>>

-----------------------------------------------------------------------------
(* The frozen protocols: seconds of their phases and rules of their batches. *)

NoTcp == [warmup |-> 0, rounds |-> 0, measured |-> 0, recovery |-> 0]
DefaultRules == [cooldown |-> 120, failures |-> 3, percent |-> 125, extra |-> 2]

Definition ==
  [comparable_v1 |->
     [comparable |-> FALSE, registered |-> 120, idle |-> 60,
      tcp |-> [warmup |-> 10, rounds |-> 3, measured |-> 60, recovery |-> 30],
      udp |-> 120, postUdp |-> 30, video |-> 300, settle |-> 5, final |-> 60,
      rules |-> DefaultRules],
   video_stability |->
     [comparable |-> FALSE, registered |-> 120, idle |-> 60, tcp |-> NoTcp,
      udp |-> 0, postUdp |-> 0, video |-> 3600, settle |-> 5, final |-> 60,
      rules |-> DefaultRules],
   video_city |->
     [comparable |-> TRUE, registered |-> 120, idle |-> 60, tcp |-> NoTcp,
      udp |-> 0, postUdp |-> 0, video |-> 1800, settle |-> 5, final |-> 60,
      rules |-> DefaultRules],
   quick_check |->
     [comparable |-> FALSE, registered |-> 10, idle |-> 10, tcp |-> NoTcp,
      udp |-> 0, postUdp |-> 0, video |-> 30, settle |-> 3, final |-> 5,
      rules |-> [cooldown |-> 0, failures |-> 1, percent |-> 100, extra |-> 0]]]

Protocols == DOMAIN Definition

(* The profiles a campaign may name, each by its protocol.                   *)
Profiles == {"video_city", "comparable_v1", "quick_check"}
IsComparable(profile) == profile \in {"video_city", "comparable_v1"}

-----------------------------------------------------------------------------
(* What a run takes: as a campaign estimates it, as the engine does it, and  *)
(* for how long it reserves the test node.                                   *)

TcpSeconds(tcp) ==
  tcp.warmup + tcp.rounds * tcp.measured + Max({0, tcp.rounds - 1}) * tcp.recovery

ProtocolDuration(p) ==
  LET d == Definition[p] IN
  d.registered + d.idle + TcpSeconds(d.tcp) + d.udp + d.postUdp
    + d.video + d.settle + d.final

(* The idle baseline, path after path: of each at most 50 pings, one every   *)
(* second.  A way of asking that the router refuses takes no time.           *)
MaxPaths == 2
PingSeconds(p) == Min({50, Definition[p].idle})

(* The other stages send over all paths at a time.                           *)
EngineSeconds(p, paths) ==
  LET d == Definition[p] IN
  paths * PingSeconds(p) + TcpSeconds(d.tcp) + d.udp
    + (IF d.udp > 0 THEN d.postUdp ELSE 0) + d.video + d.settle + d.final

ReservationTtl(p) ==
  LET d == Definition[p] IN
  Max({600, d.tcp.rounds * d.tcp.measured + d.udp + d.video + d.settle + 300})

-----------------------------------------------------------------------------
(* What a request aims at.  Values are in tenths.                            *)

CeilDiv(a, b) == (a + b - 1) \div b

Multiplier == [hours |-> 3600, minutes |-> 60, seconds |-> 1]

SecondsFromTarget(value, unit) == Max({1, CeilDiv(value * Multiplier[unit], 10)})

RunsDown(p, value, unit) ==                                       \* mutant
  Max({1, SecondsFromTarget(value, unit) \div Definition[p].video})
RunsToStream(p, value, unit) ==
  Max({1, CeilDiv(SecondsFromTarget(value, unit), Definition[p].video)})

TargetRuns(request) ==
  IF request.mode = "streamed_time"
    THEN RunsToStream(request.profile, request.value, request.unit)
    ELSE Max({1, request.value \div 10})

Requested(request) ==
  IF request.mode = "streamed_time"
    THEN SecondsFromTarget(request.value, request.unit)
    ELSE TargetRuns(request) * Definition[request.profile].video

MaxAttempts(request) ==
  LET rules == Definition[request.profile].rules
      runs == TargetRuns(request)
  IN Max({runs + rules.extra, CeilDiv(runs * rules.percent, 100)})

WallSeconds(p, runs) ==
  runs * ProtocolDuration(p) + Max({0, runs - 1}) * Definition[p].rules.cooldown

-----------------------------------------------------------------------------
(* What a request names.  Nothing stands for a field left out, and Unknown   *)
(* for the id of nothing in the database.                                    *)

Nothing == -1
Unknown == 99
NoBatch == [by |-> "none"]
Antennas == 1 .. 2

ExperimentOf(request) ==
  IF request.experiment \in DOMAIN experiments
    THEN experiments[request.experiment] ELSE [protocol |-> "none", site |-> Nothing]

SiteOf(request) ==
  IF request.site # Nothing THEN request.site ELSE ExperimentOf(request).site

(* A variant without antennas goes with none, one with several with no batch.*)
VariantMatches(request) ==
  LET antennas == variants[request.variant].antennas IN
  IF antennas = {} THEN request.antenna = Nothing ELSE antennas = {request.antenna}

(* What both ways of making a batch ask of the fields that are given.        *)
KnownOrNothing(id, known) == id = Nothing \/ id \in known

FieldsAgree(request, protocol) ==
  /\ KnownOrNothing(request.experiment, DOMAIN experiments)
  /\ KnownOrNothing(request.variant, DOMAIN variants)
  /\ request.variant # Nothing =>
       variants[request.variant].experiment = request.experiment
  /\ request.experiment # Nothing => ExperimentOf(request).protocol = protocol
  /\ KnownOrNothing(SiteOf(request), sites)

(* What they ask of a batch that is to be compared.                          *)
FieldsComplete(request) ==
  /\ request.experiment # Nothing
  /\ request.variant # Nothing
  /\ SiteOf(request) # Nothing
  /\ VariantMatches(request)

Batch(by, protocol, request, state, sizes) ==
  [by |-> by, protocol |-> protocol, experiment |-> request.experiment,
   variant |-> request.variant, site |-> SiteOf(request),
   antenna |-> request.antenna, state |-> state, sizes |-> sizes]

(* The sizes of a campaign's batch follow from what it aims at.              *)
Sizes(aim) ==
  LET rules == Definition[aim.profile].rules IN
  [target |-> TargetRuns(aim), attempts |-> MaxAttempts(aim),
   failures |-> rules.failures, requested |-> Requested(aim),
   planned |-> TargetRuns(aim) * Definition[aim.profile].video,
   least |-> WallSeconds(aim.profile, TargetRuns(aim)),
   worst |-> WallSeconds(aim.profile, MaxAttempts(aim))]

-----------------------------------------------------------------------------
(* The calls.                                                               *)

CreateSite ==
  /\ batch = NoBatch /\ sites = {}
  /\ sites' = {1}
  /\ UNCHANGED <<experiments, variants, batch>>

CreateExperiment ==
  /\ batch = NoBatch /\ Len(experiments) < MaxExperiments
  /\ \E protocol \in Protocols, site \in sites \union {Nothing} :
       experiments' = Append(experiments, [protocol |-> protocol, site |-> site])
  /\ UNCHANGED <<sites, variants, batch>>

(* Its antennas are taken as they are given.                                 *)
CreateVariant ==
  /\ batch = NoBatch /\ Len(variants) < MaxVariants
  /\ \E experiment \in DOMAIN experiments, antennas \in SUBSET Antennas :
       variants' = Append(variants, [experiment |-> experiment, antennas |-> antennas])
  /\ UNCHANGED <<sites, experiments, batch>>

References ==
  [experiment : {Nothing, Unknown} \union DOMAIN experiments,
   variant : {Nothing, Unknown} \union DOMAIN variants,
   site : {Nothing, Unknown} \union sites,
   antenna : {Nothing, Unknown} \union Antennas]

(* A campaign: the sizes of its batch are computed.                          *)
Aims ==
  [profile : Profiles, mode : {"streamed_time", "valid_runs"},
   value : TargetValues, unit : {"hours", "minutes"}]

CreateTestCampaign ==
  /\ batch = NoBatch
  /\ \E request \in References :
       /\ KnownOrNothing(request.antenna, Antennas)
       /\ \E aim \in Aims :
            /\ FieldsAgree(request, aim.profile)
            /\ IsComparable(aim.profile) =>
                 request.antenna # Nothing /\ FieldsComplete(request)
            /\ \E state \in {"SCHEDULED", "DRAFT"} :
                 batch' = Batch("campaign", aim.profile, request, state, Sizes(aim))
  /\ UNCHANGED <<sites, experiments, variants>>

(* A batch of its own: its sizes are given, and an antenna is always asked   *)
(* for.                                                                      *)
CreateTestBatch ==
  /\ batch = NoBatch
  /\ \E request \in References, protocol \in Protocols :
       /\ request.antenna \in Antennas
       /\ FieldsAgree(request, protocol)
       /\ Definition[protocol].comparable => FieldsComplete(request)
       /\ \E target, attempts \in 0 .. 2, failures \in 0 .. 1 :
            /\ target >= 1 /\ attempts >= target /\ failures >= 1
            /\ batch' = Batch("batch", protocol, request, "DRAFT",
                 [target |-> target, attempts |-> attempts, failures |-> failures])
  /\ UNCHANGED <<sites, experiments, variants>>

Init ==
  /\ sites = {} /\ experiments = << >> /\ variants = << >>
  /\ batch = NoBatch

Next ==
  CreateSite \/ CreateExperiment \/ CreateVariant
    \/ CreateTestCampaign \/ CreateTestBatch

-----------------------------------------------------------------------------
(* Properties.                                                              *)

TypeOK ==
  /\ sites \subseteq {1}
  /\ Len(experiments) <= MaxExperiments /\ Len(variants) <= MaxVariants
  /\ batch.by \in {"none", "campaign", "batch"}

Made == batch # NoBatch

(* It wants a run and allows as many; a campaign streams what was asked for  *)
(* and less than a run more.                                                 *)
NumbersFit ==
  LET sizes == batch.sizes IN
  /\ 1 <= sizes.target /\ sizes.target <= sizes.attempts /\ 1 <= sizes.failures
  /\ batch.by = "campaign" =>
       /\ sizes.planned \in sizes.requested ..
            (sizes.requested + Definition[batch.protocol].video - 1)
       /\ sizes.least <= sizes.worst

(* Its variant is one of its experiment and the experiment one of its        *)
(* protocol; and if it is to be compared it has all of these, and the one    *)
(* antenna of its variant.                                                   *)
BelongsTogether ==
  /\ batch.experiment # Nothing =>
       experiments[batch.experiment].protocol = batch.protocol
  /\ batch.variant # Nothing =>
       variants[batch.variant].experiment = batch.experiment
  /\ \/ batch.by = "campaign" /\ IsComparable(batch.protocol)
     \/ Definition[batch.protocol].comparable
     => /\ batch.variant # Nothing /\ batch.site \in sites
        /\ variants[batch.variant].antennas = {batch.antenna}

(* The reservation that a run asks for covers what the engine does under it, *)
(* renewed or not.  What a campaign tells the user counts the baseline once: *)
(* it covers a run of one path, and lacks of a run of two no more than the   *)
(* baseline of the second.                                                   *)
EstimatesCover ==
  LET p == batch.protocol IN
  \A paths \in 1 .. MaxPaths :
    /\ ReservationTtl(p) >= EngineSeconds(p, paths)
    /\ ProtocolDuration(p) + (paths - 1) * PingSeconds(p)
         >= Definition[p].registered + EngineSeconds(p, paths)

(* A batch that is made is one its loop can end, its runs say what they are  *)
(* runs of, and they have the time they take.                                *)
BatchesAreSound == Made => NumbersFit /\ BelongsTogether /\ EstimatesCover
=============================================================================

------------------------------ MODULE Measurement ------------------------------
(***************************************************************************)
(* What a run does and what it is part of: its path checks, the wait before  *)
(* it, its samplers, its traffic stages and what is concluded from their     *)
(* rows; and around it the lab runs and the batches that are made and the    *)
(* comparison of cohorts.  None of these parts keeps anything of another:    *)
(* each stage sends under a run id of its own to a table of its own at the   *)
(* node, each call of a router has its own connection, and what is judged or *)
(* compared are finished rows.  So a behaviour follows one part, `part', and *)
(* what is shown of it holds in every run.                                   *)
(***************************************************************************)
EXTENDS StageParameters

CONSTANT Parts  \* the parts considered, of AllParts

VARIABLES
  part,      \* the part of the run that is followed
  reserved,  \* whether the run's reservation is in force
  udpSender, datagrams, datagramCopies, clock, handler, records, row, delivered,
  videoSender, fragments, fragmentCopies, table, result, arrived,
  protocol, rows, verdict,
  time, wait, cancelled, samples,
  device, link, call, origin,
  tick, engine, thread, failed,
  upload, connection, receiver, kept, validity,
  runs, conclusion,
  sites, experiments, variants, batch,
  labRun, active, request, cleared

udpVars == <<udpSender, datagrams, datagramCopies, clock, handler, records,
             row, delivered>>
videoVars == <<videoSender, fragments, fragmentCopies, table, result, arrived>>
judgeVars == <<protocol, rows, verdict>>
waitVars == <<time, wait, cancelled, samples>>
routerVars == <<device, link, call, origin>>
samplerVars == <<tick, engine, thread, failed>>
tcpVars == <<upload, connection, receiver, kept, validity>>
cohortVars == <<runs, conclusion>>
campaignVars == <<sites, experiments, variants, batch>>
labVars == <<labRun, active, request, cleared>>
stageVars == <<udpVars, videoVars, tcpVars>>
restVars == <<routerVars, samplerVars, cohortVars, campaignVars, labVars>>
vars == <<part, reserved, stageVars, judgeVars, waitVars, restVars>>

Udp == INSTANCE UdpStage WITH
         sender <- udpSender, wire <- datagrams, copies <- datagramCopies

Video == INSTANCE VideoProbe WITH
           sender <- videoSender, wire <- fragments, copies <- fragmentCopies

Tcp == INSTANCE TcpUpload

Judging == INSTANCE Evidence

Waiting == INSTANCE Preconditions

Router == INSTANCE RouterApi

Sampling == INSTANCE MetricSampler

Comparing == INSTANCE Cohorts

Making == INSTANCE Campaigns

Lab == INSTANCE LabControl

AllParts ==
  {"wait", "router", "sampler", "udp", "video", "tcp", "evidence", "cohorts", "campaigns",
   "lab"}

ASSUME PartsAssumption == Parts \subseteq AllParts

Init ==
  /\ part \in Parts
  /\ Udp!Init
  /\ Video!Init
  /\ Waiting!Init
  /\ IF part = "evidence" THEN Judging!Init
       ELSE protocol = "none" /\ rows = "none" /\ verdict = "open"
  /\ IF part = "router" THEN Router!Init
       ELSE device = "none" /\ link = "none" /\ call = "none" /\ origin = "none"
  /\ IF part = "sampler" THEN Sampling!Init
       ELSE tick = "none" /\ engine = "none" /\ thread = "none" /\ failed = "none"
  /\ IF part = "tcp" THEN Tcp!Init
       ELSE /\ upload = "none" /\ connection = "none" /\ receiver = "none"
            /\ kept = "none" /\ validity = "none"
  /\ IF part = "cohorts" THEN Comparing!Init
       ELSE runs = "none" /\ conclusion = "none"
  /\ IF part = "campaigns" THEN Making!Init
       ELSE /\ sites = "none" /\ experiments = "none"
            /\ variants = "none" /\ batch = "none"
  /\ IF part = "lab" THEN Lab!Init
       ELSE labRun = "none" /\ active = "none" /\ request = "none" /\ cleared = "none"

UdpStep ==
  /\ part = "udp" /\ Udp!Next
  /\ UNCHANGED <<part, videoVars, tcpVars, judgeVars, waitVars, restVars>>
VideoStep ==
  /\ part = "video" /\ Video!Next
  /\ UNCHANGED <<part, udpVars, tcpVars, judgeVars, waitVars, restVars>>
TcpStep ==
  /\ part = "tcp" /\ Tcp!Next
  /\ UNCHANGED <<part, udpVars, videoVars, judgeVars, waitVars, restVars>>
EvidenceStep ==
  /\ part = "evidence" /\ Judging!Next
  /\ UNCHANGED <<part, reserved, stageVars, waitVars, restVars>>
WaitStep ==
  /\ part = "wait" /\ Waiting!Next
  /\ UNCHANGED <<part, reserved, stageVars, judgeVars, restVars>>
RouterStep ==
  /\ part = "router" /\ Router!Next
  /\ UNCHANGED <<part, reserved, stageVars, judgeVars, waitVars>>
  /\ UNCHANGED <<samplerVars, cohortVars, campaignVars, labVars>>
SamplerStep ==
  /\ part = "sampler" /\ Sampling!Next
  /\ UNCHANGED <<part, reserved, stageVars, judgeVars, waitVars>>
  /\ UNCHANGED <<routerVars, cohortVars, campaignVars, labVars>>
CohortStep ==
  /\ part = "cohorts" /\ Comparing!Next
  /\ UNCHANGED <<part, reserved, stageVars, judgeVars, waitVars>>
  /\ UNCHANGED <<routerVars, samplerVars, campaignVars, labVars>>
CampaignStep ==
  /\ part = "campaigns" /\ Making!Next
  /\ UNCHANGED <<part, reserved, stageVars, judgeVars, waitVars>>
  /\ UNCHANGED <<routerVars, samplerVars, cohortVars, labVars>>
LabStep ==
  /\ part = "lab" /\ Lab!Next
  /\ UNCHANGED <<part, reserved, stageVars, judgeVars, waitVars>>
  /\ UNCHANGED <<routerVars, samplerVars, cohortVars, campaignVars>>

Next ==
  \/ WaitStep \/ RouterStep \/ SamplerStep
  \/ UdpStep \/ VideoStep \/ TcpStep
  \/ EvidenceStep \/ CohortStep \/ CampaignStep \/ LabStep

Spec == Init /\ [][Next]_vars

-----------------------------------------------------------------------------
(* The properties of the stages; each is explained in its stage's module.    *)

(* All variables have their types, and no more frames are active than may be.*)
TypeOK ==
  /\ part \in Parts
  /\ part = "udp" => Udp!TypeOK
  /\ part = "video" => Video!TypeOK
  /\ part = "evidence" => Judging!TypeOK
  /\ part = "wait" => Waiting!TypeOK
  /\ part = "router" => Router!TypeOK
  /\ part = "sampler" => Sampling!TypeOK
  /\ part = "tcp" => Tcp!TypeOK
  /\ part = "cohorts" => Comparing!TypeOK
  /\ part = "campaigns" => Making!TypeOK
  /\ part = "lab" => Lab!TypeOK

(* The node's counts per second add up to its record of the datagrams.       *)
SecondsAddUp == part = "udp" => Udp!SecondsAddUp

(* Repeated datagrams never hide a loss from the engine's row.               *)
LossIsNotHidden == part = "udp" => Udp!LossIsNotHidden

(* Every video frame that was seen is counted once.                          *)
FramesAreCountedOnce == Video!FramesAreCountedOnce

(* Every fragment of a frame counted as complete has arrived.                *)
CompleteFramesArrived == Video!CompleteFramesArrived

(* The frames sent on a path are those complete, partial and fully lost.     *)
RowsAddUp == Video!RowsAddUp

(* The loss on both paths, per second and in a row, is exact.                *)
BothPathLossIsExact == part = "video" => Video!BothPathLossIsExact

(* Runs are compared only if what they measured was confirmed.               *)
ComparedRunsAreConfirmed == Judging!ComparedRunsAreConfirmed

(* A run starts only after an unbroken window of registered samples.         *)
OkIsEarned == Waiting!OkIsEarned

(* An attempt is skipped only if no such window could be completed.          *)
NotSkippedInVain == Waiting!NotSkippedInVain

(* The row of a path was read from answers about that path.                  *)
AnswersBelong == part = "router" => Router!AnswersBelong

(* A kind of reading is late only where one of it failed or was left out.    *)
OverdueForAReason == part = "sampler" => Sampling!OverdueForAReason

(* Once stop() has returned, at most a round begun before it goes on.        *)
QuietAfterStop == part = "sampler" => Sampling!QuietAfterStop

(* A TCP upload counts as confirmed exactly if it arrived.                   *)
ConfirmationIsExact == part = "tcp" => Tcp!ConfirmationIsExact

(* What is concluded of two cohorts is concluded of comparable runs.         *)
ConclusionsAreControlled == part = "cohorts" => Comparing!ConclusionsAreControlled

(* A batch that is made belongs together and its numbers fit.                *)
BatchesAreSound == part = "campaigns" => Making!BatchesAreSound

(* A lab run that nobody cancelled has the lab for itself.                   *)
LabIsUndisturbed == part = "lab" => Lab!LabIsUndisturbed

(* All uploads of a run that is compared were confirmed.                     *)
UploadsAreConfirmed == Judging!UploadsAreConfirmed
=============================================================================

------------------------------- MODULE PartProofs -------------------------------
(***************************************************************************)
(* What the parts of a measurement keep, for every value of the bounds: the *)
(* TCP upload, the judgement, the router's connection, the campaigns and    *)
(* the telemetry sampler.  Each section states what a part keeps besides    *)
(* its property, proves that every step of the part keeps it, and takes the *)
(* property to Spec, where the steps of the other parts leave it alone.     *)
(***************************************************************************)
EXTENDS Measurement, FiniteSetTheorems, SequenceTheorems, TLAPS

(* The part that is followed stays the same.                                 *)
LEMMA SamePart == [Next]_vars => part' = part
  BY DEF Next, vars, WaitStep, UdpStep, VideoStep, EvidenceStep, TcpStep,
     RouterStep, SamplerStep, CohortStep, CampaignStep, LabStep

-----------------------------------------------------------------------------
(* The TCP upload.  The chunks are on their way or read, the node records     *)
(* what it has read, and an answer is given when that is done.               *)
LEMMA TcpOnly ==
  [Next]_vars /\ part = "tcp" => Tcp!Next \/ UNCHANGED tcpVars
  BY DEF Next, vars, stageVars, tcpVars, WaitStep, UdpStep, VideoStep, EvidenceStep,
     TcpStep, RouterStep, SamplerStep, CohortStep, CampaignStep, LabStep

Uploads ==
  [mode : {"timed", "payload"}, at : {"start", "sending", "answer", "fetching"},
   sent : 0 .. MaxChunks, answer : {"none", "refused", "ok", "accepted"},
   cancelled : BOOLEAN]
Connections ==
  [state : {"none", "open", "half", "reset"}, carried : 0 .. MaxChunks,
   answer : {"none", "refused", "ok", "accepted"}]
Receivers ==
  [state : {"none", "accepted", "reading", "recorded", "over"},
   got : 0 .. MaxChunks, restarted : BOOLEAN]
Validities == {"open", "server-confirmed", "sender-only", "cancelled", "raised"}

Answered(answer) == answer \in {"ok", "accepted"}

TcpInv ==
  /\ upload \in Uploads /\ connection \in Connections /\ receiver \in Receivers
  /\ kept \in -1 .. MaxChunks /\ validity \in Validities
  /\ connection.carried + receiver.got = upload.sent
  /\ upload.sent <= IF upload.mode = "timed" THEN MaxChunks ELSE PayloadChunks
  /\ kept <= receiver.got
  /\ receiver.state = "recorded" => kept = receiver.got
  /\ upload.at = "start" =>
       /\ connection.answer = "none" /\ upload.answer = "none"
       /\ connection.state = "none" /\ receiver.state \in {"none", "over"}
       /\ validity \in {"open", "raised"}
  /\ Answered(connection.answer) \/ Answered(upload.answer) =>
       /\ receiver.state = "over"
       /\ receiver.restarted \/ kept = receiver.got
  /\ Tcp!ConfirmationIsExact

TcpFields ==
  /\ upload.mode \in {"timed", "payload"}
  /\ upload.at \in {"start", "sending", "answer", "fetching"}
  /\ upload.sent \in 0 .. MaxChunks
  /\ upload.answer \in {"none", "refused", "ok", "accepted"}
  /\ upload.cancelled \in BOOLEAN
  /\ connection.state \in {"none", "open", "half", "reset"}
  /\ connection.carried \in 0 .. MaxChunks
  /\ connection.answer \in {"none", "refused", "ok", "accepted"}
  /\ receiver.state \in {"none", "accepted", "reading", "recorded", "over"}
  /\ receiver.got \in 0 .. MaxChunks /\ receiver.restarted \in BOOLEAN

(* Every step of an upload keeps what holds of it.                          *)
LEMMA TcpStepKeeps == TcpInv /\ Tcp!Next => TcpInv'
<1> SUFFICES ASSUME TcpInv, Tcp!Next PROVE TcpInv'
  OBVIOUS
<1> USE TcpAssumption
<1>0. TcpFields
  BY DEF TcpInv, TcpFields, Uploads, Connections, Receivers
<1>1. CASE Tcp!Connect
  BY <1>1
     DEF TcpInv, Uploads, Connections, Receivers, Validities, Answered,
         Tcp!NoRecord, Tcp!ConfirmationIsExact, Tcp!Expected, Tcp!Timed,
         Tcp!Broken, Tcp!Connect
<1>2. CASE Tcp!SendChunk
  <2>1. upload.sent + 1 \in 0 .. MaxChunks /\ connection.carried + 1 \in 0 .. MaxChunks
    <3>1. upload.sent < MaxChunks
      BY <1>2, <1>0 DEF TcpFields, Tcp!SendChunk
    <3> QED BY <3>1, <1>0 DEF TcpFields, TcpInv
  <2>2. upload' \in Uploads
    BY <2>1, <1>2 DEF TcpInv, Uploads, Tcp!SendChunk
  <2>3. connection' \in Connections
    BY <2>1, <1>2 DEF TcpInv, Connections, Tcp!SendChunk
  <2>4. upload'.mode = upload.mode /\ upload'.at = upload.at
          /\ upload'.sent = upload.sent + 1 /\ upload'.answer = upload.answer
          /\ upload'.cancelled = upload.cancelled
    BY <1>2 DEF TcpInv, Uploads, Tcp!SendChunk
  <2>5. connection'.state = connection.state /\ connection'.answer = connection.answer
          /\ connection'.carried = connection.carried + 1
    BY <1>2 DEF TcpInv, Connections, Tcp!SendChunk
  <2>6. UNCHANGED <<receiver, kept, validity>> /\ upload.at = "sending"
    BY <1>2 DEF Tcp!SendChunk
  <2>7. /\ upload'.sent <= IF upload'.mode = "timed" THEN MaxChunks ELSE PayloadChunks
        /\ connection'.carried + receiver'.got = upload'.sent
    BY <2>4, <2>5, <2>6, <1>2, <1>0 DEF TcpInv, TcpFields, Tcp!SendChunk, Tcp!Timed
  <2>8. Tcp!ConfirmationIsExact'
    BY <2>4, <2>6 DEF TcpInv, Tcp!ConfirmationIsExact, Tcp!Expected, Tcp!Timed
  <2> QED
    BY <2>2, <2>3, <2>4, <2>5, <2>6, <2>7, <2>8 DEF TcpInv, Answered
<1>3. CASE Tcp!StopSending
  BY <1>3
     DEF TcpInv, Uploads, Connections, Receivers, Validities, Answered,
         Tcp!NoRecord, Tcp!ConfirmationIsExact, Tcp!Expected, Tcp!Timed,
         Tcp!Broken, Tcp!StopSending
<1>4. CASE Tcp!TakeAnswer
  <2>1. upload' \in Uploads
    BY <1>4, <1>0
       DEF TcpInv, TcpFields, Uploads, Connections, Receivers, Tcp!Timed,
           Tcp!TakeAnswer
  <2>2. upload'.mode = upload.mode /\ upload'.at = "fetching"
           /\ upload'.sent = upload.sent /\ upload'.answer \in {connection.answer, "none"}
           /\ upload'.cancelled = upload.cancelled
    BY <1>4 DEF TcpInv, Uploads, Connections, Receivers, Tcp!TakeAnswer
  <2> QED BY <2>1, <2>2, <1>4, <1>0 DEF TcpInv, TcpFields, Validities, Answered, Tcp!NoRecord,
        Tcp!ConfirmationIsExact, Tcp!Expected, Tcp!Timed, Tcp!Broken, Tcp!TakeAnswer
<1>5. CASE Tcp!FindBroken
  BY <1>5
     DEF TcpInv, Uploads, Connections, Receivers, Validities, Answered,
         Tcp!NoRecord, Tcp!ConfirmationIsExact, Tcp!Expected, Tcp!Timed,
         Tcp!Broken, Tcp!FindBroken
<1>6. CASE Tcp!Cancel
  <2>1. upload' \in Uploads
    BY <1>6, <1>0
       DEF TcpInv, TcpFields, Uploads, Connections, Receivers, Tcp!Timed,
           Tcp!Cancel
  <2>2. upload'.mode = upload.mode /\ upload'.at = upload.at
           /\ upload'.sent = upload.sent /\ upload'.answer = upload.answer
           /\ upload'.cancelled
    BY <1>6 DEF TcpInv, Uploads, Connections, Receivers, Tcp!Cancel
  <2> QED BY <2>1, <2>2, <1>6, <1>0 DEF TcpInv, TcpFields, Validities, Answered, Tcp!NoRecord,
        Tcp!ConfirmationIsExact, Tcp!Expected, Tcp!Timed, Tcp!Broken, Tcp!Cancel
<1>7. CASE Tcp!KillCurl
  BY <1>7
     DEF TcpInv, Uploads, Connections, Receivers, Validities, Answered,
         Tcp!NoRecord, Tcp!ConfirmationIsExact, Tcp!Expected, Tcp!Timed,
         Tcp!Broken, Tcp!KillCurl
<1>8. CASE Tcp!Fetch
  BY <1>8
     DEF TcpInv, Uploads, Connections, Receivers, Validities, Answered,
         Tcp!NoRecord, Tcp!ConfirmationIsExact, Tcp!Expected, Tcp!Timed,
         Tcp!Broken, Tcp!Fetch, Tcp!Row
<1>9. CASE Tcp!Accept
  BY <1>9
     DEF TcpInv, Uploads, Connections, Receivers, Validities, Answered,
         Tcp!NoRecord, Tcp!ConfirmationIsExact, Tcp!Expected, Tcp!Timed,
         Tcp!Broken, Tcp!Accept
<1>10. CASE Tcp!ReadChunk
  <2>1. receiver.got + 1 \in 0 .. MaxChunks /\ connection.carried - 1 \in 0 .. MaxChunks
    <3>1. connection.carried > 0
      BY <1>10 DEF Tcp!ReadChunk
    <3> QED BY <3>1, <1>0 DEF TcpFields, TcpInv
  <2>2. receiver' \in Receivers
    BY <2>1, <1>10 DEF TcpInv, Receivers, Tcp!ReadChunk
  <2>3. connection' \in Connections
    BY <2>1, <1>10 DEF TcpInv, Connections, Tcp!ReadChunk
  <2>4. receiver'.state = "reading" /\ receiver'.got = receiver.got + 1
          /\ receiver'.restarted = receiver.restarted /\ receiver.state = "reading"
    BY <1>10 DEF TcpInv, Receivers, Tcp!ReadChunk
  <2>5. connection'.state = connection.state /\ connection'.answer = connection.answer
          /\ connection'.carried = connection.carried - 1
    BY <1>10 DEF TcpInv, Connections, Tcp!ReadChunk
  <2>6. UNCHANGED <<upload, kept, validity>>
    BY <1>10 DEF Tcp!ReadChunk
  <2>7. upload.at # "start"
    BY <2>4 DEF TcpInv
  <2>8. /\ connection'.carried + receiver'.got = upload'.sent
        /\ kept' <= receiver'.got
    BY <2>4, <2>5, <2>6, <1>0 DEF TcpInv, TcpFields
  <2>9. Tcp!ConfirmationIsExact'
    <3>1. validity' = "server-confirmed" => receiver'.got >= Tcp!Expected'
      BY <2>4, <2>6, <1>0
        DEF TcpInv, TcpFields, Tcp!ConfirmationIsExact, Tcp!Expected, Tcp!Timed
    <3>2. ~Answered(upload.answer)
      BY <2>4 DEF TcpInv
    <3> QED BY <3>1, <3>2, <2>6 DEF Tcp!ConfirmationIsExact, Answered
  <2> QED
    BY <2>2, <2>3, <2>4, <2>5, <2>6, <2>7, <2>8, <2>9 DEF TcpInv, Answered
<1>11. CASE Tcp!RecordTcpUpload
  BY <1>11
     DEF TcpInv, Uploads, Connections, Receivers, Validities, Answered,
         Tcp!NoRecord, Tcp!ConfirmationIsExact, Tcp!Expected, Tcp!Timed,
         Tcp!Broken, Tcp!RecordTcpUpload, Tcp!AllRead, Tcp!Whole
<1>12. CASE Tcp!Answer
  BY <1>12
     DEF TcpInv, Uploads, Connections, Receivers, Validities, Answered,
         Tcp!NoRecord, Tcp!ConfirmationIsExact, Tcp!Expected, Tcp!Timed,
         Tcp!Broken, Tcp!Answer, Tcp!Whole
<1>13. CASE Tcp!Break
  BY <1>13
     DEF TcpInv, Uploads, Connections, Receivers, Validities, Answered,
         Tcp!NoRecord, Tcp!ConfirmationIsExact, Tcp!Expected, Tcp!Timed,
         Tcp!Broken, Tcp!Break
<1>14. CASE Tcp!NodeRestarts
  <2>1. receiver' \in Receivers /\ connection' \in Connections
    BY <1>14 DEF TcpInv, Receivers, Connections, Tcp!NodeRestarts
  <2>2. receiver'.state = "over" /\ receiver'.got = receiver.got /\ receiver'.restarted
    BY <1>14 DEF TcpInv, Receivers, Tcp!NodeRestarts
  <2>3. connection'.answer = connection.answer /\ connection'.carried = connection.carried
          /\ (connection.state = "none" => connection'.state = "none")
    BY <1>14 DEF TcpInv, Connections, Tcp!NodeRestarts
  <2>4. UNCHANGED <<upload, validity>> /\ kept' = -1
    BY <1>14 DEF Tcp!NodeRestarts, Tcp!NoRecord
  <2>5. kept' <= receiver'.got /\ kept' \in -1 .. MaxChunks
    BY <2>2, <2>4, <1>0 DEF TcpFields
  <2>6. Tcp!ConfirmationIsExact'
    BY <2>2, <2>4, <1>0
      DEF TcpInv, Tcp!ConfirmationIsExact, Tcp!Expected, Tcp!Timed
  <2> QED
    BY <2>1, <2>2, <2>3, <2>4, <2>5, <2>6 DEF TcpInv, Answered
<1>15. CASE Tcp!ReservationEnds
  BY <1>15
     DEF TcpInv, Uploads, Connections, Receivers, Validities, Answered,
         Tcp!NoRecord, Tcp!ConfirmationIsExact, Tcp!Expected, Tcp!Timed,
         Tcp!Broken, Tcp!ReservationEnds
<1> QED
  BY <1>1, <1>2, <1>3, <1>4, <1>5, <1>6, <1>7, <1>8, <1>9, <1>10, <1>11, <1>12,
     <1>13, <1>14, <1>15 DEF Tcp!Next

TcpPart == part = "tcp" => TcpInv

LEMMA TcpPartHolds == Spec => []TcpPart
<1>1. Init => TcpPart
  <2> SUFFICES ASSUME Tcp!Init PROVE TcpInv
    BY DEF Init, TcpPart
  <2> USE TcpAssumption
  <2>1. /\ upload \in Uploads /\ upload.at = "start" /\ upload.answer = "none"
        /\ upload.sent = 0
    <3>0. 0 \in 0 .. MaxChunks
      OBVIOUS
    <3>1. upload \in [mode : {"timed", "payload"}, at : {"start"}, sent : {0},
                       answer : {"none"}, cancelled : {FALSE}]
      BY Zenon DEF Tcp!Init
    <3>2. upload.at = "start" /\ upload.answer = "none" /\ upload.sent = 0
            /\ upload.mode \in {"timed", "payload"} /\ upload.cancelled = FALSE
      BY <3>1
    <3>3. upload = [mode |-> upload.mode, at |-> "start", sent |-> 0, answer |-> "none",
                    cancelled |-> FALSE]
      BY <3>1
    <3> HIDE TcpAssumption
    <3> QED BY <3>0, <3>1, <3>2, <3>3 DEF Uploads
  <2>2. /\ connection \in Connections /\ connection.state = "none"
        /\ connection.answer = "none" /\ connection.carried = 0
    BY DEF Tcp!Init, Connections
  <2>3. receiver \in Receivers /\ receiver.state = "none" /\ receiver.got = 0
    BY DEF Tcp!Init, Receivers
  <2>4. kept = -1 /\ validity = "open"
    BY DEF Tcp!Init, Tcp!NoRecord
  <2> QED
    BY <2>1, <2>2, <2>3, <2>4
       DEF TcpInv, Validities, Answered, Tcp!ConfirmationIsExact
<1>2. TcpPart /\ [Next]_vars => TcpPart'
  <2> SUFFICES ASSUME TcpPart, [Next]_vars, part = "tcp" PROVE TcpInv'
    BY SamePart DEF TcpPart
  <2>1. TcpInv
    BY DEF TcpPart
  <2>2. CASE Tcp!Next
    BY <2>1, <2>2, TcpStepKeeps
  <2>3. CASE UNCHANGED tcpVars
    BY <2>1, <2>3
      DEF tcpVars, TcpInv, Tcp!ConfirmationIsExact, Tcp!Expected, Tcp!Timed
  <2> QED BY <2>2, <2>3, TcpOnly
<1> QED BY <1>1, <1>2, PTL DEF Spec

(* A TCP upload counts as confirmed exactly if it arrived.                   *)
THEOREM Confirmed == Spec => []ConfirmationIsExact
<1>1. TcpPart => ConfirmationIsExact
  BY DEF TcpPart, TcpInv, ConfirmationIsExact
<1> QED BY <1>1, TcpPartHolds, PTL

-----------------------------------------------------------------------------
(* The judgement.  A run is judged when all stages of its plan have left      *)
(* their rows, and no row changes after that.                                *)
LEMMA EvidenceOnly ==
  [Next]_vars /\ part = "evidence" => Judging!Next \/ UNCHANGED judgeVars
  BY DEF Next, vars, judgeVars, WaitStep, UdpStep, VideoStep, EvidenceStep,
     TcpStep, RouterStep, SamplerStep, CohortStep, CampaignStep, LabStep

AllProtocols == Judging!ShippedProtocols \union Judging!DeclaredProtocols

JudgeInv ==
  /\ protocol \in AllProtocols
  /\ DOMAIN rows = Judging!Stages /\ rows = [stage \in DOMAIN rows |-> rows[stage]]
  /\ verdict \in {"open", "eligible", "excluded"}
  /\ rows["video"].ran => rows["video"].seen \subseteq Paths
  /\ \A stage \in Judging!Stages : rows[stage].ran => stage \in protocol.plan
  /\ verdict # "open" => \A stage \in protocol.plan : rows[stage].ran
  /\ verdict = "eligible" => Judging!Live /\ Judging!Comparable

(* The plans of the shipped and of the declared protocols.                  *)
LEMMA Plans ==
  ASSUME NEW p \in AllProtocols
  PROVE  /\ p.plan \subseteq Judging!Stages
         /\ p.declared \in BOOLEAN
         /\ "tcp" \in p.plan <=> "udp" \in p.plan
         /\ p.declared /\ "tcp" \in p.plan => p.id = "a user's"
<1>0. ASSUME NEW id, NEW declared, NEW plan, p = Judging!Protocol(id, declared, plan)
      PROVE  p.id = id /\ p.declared = declared /\ p.plan = plan
  BY <1>0 DEF Judging!Protocol
<1>1. CASE p \in Judging!DeclaredProtocols
  <2>1. p = Judging!Protocol("a user's", TRUE, Judging!Stages)
    BY <1>1, Zenon DEF Judging!DeclaredProtocols
  <2>2. p.id = "a user's" /\ p.declared = TRUE /\ p.plan = Judging!Stages
    BY <1>0, <2>1, Zenon
  <2> QED BY <2>2 DEF Judging!Stages
<1>2. CASE p \in Judging!ShippedProtocols
  <2>1. \/ p = Judging!Protocol("comparable-v1", FALSE, Judging!Stages)
        \/ p = Judging!Protocol("comparable-benchmark", FALSE, Judging!Stages)
        \/ p = Judging!Protocol("exploratory-lab", FALSE, Judging!Stages)
        \/ p = Judging!Protocol("video-stability-v1", FALSE, {"latency", "video"})
        \/ p = Judging!Protocol("video-city-5mbps-25fps-30m-v1", TRUE, {"latency", "video"})
        \/ p = Judging!Protocol("quick-connection-check-v1", FALSE, {"latency", "video"})
    BY <1>2, Zenon DEF Judging!ShippedProtocols
  <2>2. \/ p.declared = FALSE /\ p.plan = Judging!Stages
        \/ p.declared \in BOOLEAN /\ p.plan = {"latency", "video"}
    BY <1>0, <2>1, Zenon
  <2> QED BY <2>2 DEF Judging!Stages
<1> QED BY <1>1, <1>2 DEF AllProtocols

(* Every step of a judgement keeps what holds of it.                        *)
LEMMA JudgeStepKeeps == JudgeInv /\ Judging!Next => JudgeInv'
<1> SUFFICES ASSUME JudgeInv, Judging!Next PROVE JudgeInv'
  OBVIOUS
<1>1. ASSUME NEW stage \in Judging!Stages, Judging!Measure(stage) PROVE JudgeInv'
  <2>1. /\ stage \in protocol.plan /\ stage # "video" /\ ~rows[stage].ran
        /\ UNCHANGED <<protocol, verdict>>
    BY <1>1 DEF Judging!Measure
  <2>2. DOMAIN rows' = DOMAIN rows /\ rows' = [s \in DOMAIN rows |-> rows'[s]]
          /\ rows'["video"] = rows["video"]
    BY <1>1, <2>1 DEF JudgeInv, Judging!Measure, Judging!Stages
  <2>3. verdict = "open"
    BY <2>1 DEF JudgeInv
  <2>4. \A s \in Judging!Stages \ {stage} : rows'[s] = rows[s]
    BY <1>1 DEF JudgeInv, Judging!Measure
  <2> QED BY <2>1, <2>2, <2>3, <2>4 DEF JudgeInv
<1>2. CASE Judging!MeasureVideo
  <2>1. /\ "video" \in protocol.plan /\ ~rows["video"].ran
        /\ UNCHANGED <<protocol, verdict>>
    BY <1>2 DEF Judging!MeasureVideo
  <2>2. PICK sent \in SUBSET Paths, error \in BOOLEAN : \E seen \in SUBSET sent :
          rows' = [rows EXCEPT !["video"] =
            [ran |-> TRUE, sent |-> sent, error |-> error,
             seen |-> IF error THEN {} ELSE seen]]
    BY <1>2 DEF Judging!MeasureVideo
  <2>3. PICK seen \in SUBSET sent :
          rows' = [rows EXCEPT !["video"] =
            [ran |-> TRUE, sent |-> sent, error |-> error,
             seen |-> IF error THEN {} ELSE seen]]
    BY <2>2
  <2>4. DOMAIN rows' = DOMAIN rows /\ rows' = [s \in DOMAIN rows |-> rows'[s]]
          /\ rows'["video"].seen = IF error THEN {} ELSE seen
    BY <2>3 DEF JudgeInv, Judging!Stages
  <2>5. rows'["video"].seen \subseteq Paths
    BY <2>4
  <2>6. verdict = "open"
    BY <2>1 DEF JudgeInv
  <2>7. \A s \in Judging!Stages \ {"video"} : rows'[s] = rows[s]
    BY <2>3 DEF JudgeInv
  <2> QED BY <2>1, <2>4, <2>5, <2>6, <2>7 DEF JudgeInv
<1>3. CASE Judging!Judge
  <2>1. UNCHANGED <<protocol, rows>> /\ \A stage \in protocol.plan : rows[stage].ran
    BY <1>3 DEF Judging!Judge
  <2>2. verdict' \in {"eligible", "excluded"}
          /\ (verdict' = "eligible" => Judging!Live /\ Judging!Comparable)
    BY <1>3 DEF Judging!Judge
  <2>3. (Judging!Live <=> Judging!Live') /\ (Judging!Comparable <=> Judging!Comparable')
    BY <2>1 DEF Judging!Live, Judging!Comparable, Judging!Required,
      Judging!StageConfirmed, Judging!VideoConfirmed, Judging!RowsConfirmed
  <2> QED BY <2>1, <2>2, <2>3 DEF JudgeInv
<1> QED BY <1>1, <1>2, <1>3 DEF Judging!Next

(* A run that was found eligible has the rows the comparison relies on.     *)
LEMMA JudgedIsConfirmed == JudgeInv => Judging!ComparedRunsAreConfirmed
<1> SUFFICES ASSUME JudgeInv, verdict = "eligible"
             PROVE  /\ "video" \in protocol.plan => rows["video"].seen = Paths
                    /\ protocol.declared =>
                         \A stage \in {"tcp", "udp"} \intersect protocol.plan :
                           Judging!Everywhere(stage)
  BY DEF Judging!ComparedRunsAreConfirmed, Judging!Eligible
<1>1. Judging!Live /\ \A stage \in protocol.plan : rows[stage].ran
  BY DEF JudgeInv
<1>2. ASSUME "video" \in protocol.plan PROVE rows["video"].seen = Paths
  <2>1. "video" \in Judging!Required
    BY <1>2 DEF Judging!Required, Judging!Stages
  <2>2. Judging!VideoConfirmed
    BY <1>1, <1>2, <2>1 DEF Judging!Live, Judging!StageConfirmed
  <2>3. Paths \subseteq rows["video"].seen
    BY <2>2 DEF Judging!VideoConfirmed, Judging!AllPaths
  <2> QED BY <1>1, <1>2, <2>3 DEF JudgeInv
<1>3. ASSUME protocol.declared, NEW stage \in {"tcp", "udp"} \intersect protocol.plan
      PROVE  Judging!Everywhere(stage)
  <2>1. "tcp" \in protocol.plan /\ protocol.id = "a user's"
    BY <1>3, Plans DEF JudgeInv
  <2>2. stage \in Judging!Required
    BY <1>3, <2>1 DEF Judging!Required, Judging!Stages
  <2>3. Judging!RowsConfirmed(stage)
    BY <1>1, <1>3, <2>2 DEF Judging!Live, Judging!StageConfirmed
  <2> QED BY <2>3 DEF Judging!RowsConfirmed, Judging!AllPaths, Judging!Everywhere
<1> QED BY <1>2, <1>3

JudgePart == part = "evidence" => JudgeInv

LEMMA JudgePartHolds == Spec => []JudgePart
<1>1. Init => JudgePart
  <2> SUFFICES ASSUME Judging!Init PROVE JudgeInv
    BY DEF Init, JudgePart
  <2>1. rows["video"].ran = FALSE /\ \A stage \in Judging!Stages : rows[stage].ran = FALSE
    BY DEF Judging!Init, Judging!Stages, Judging!NotRun
  <2> QED BY <2>1 DEF Judging!Init, JudgeInv, AllProtocols
<1>2. JudgePart /\ [Next]_vars => JudgePart'
  <2> SUFFICES ASSUME JudgePart, [Next]_vars, part = "evidence" PROVE JudgeInv'
    BY SamePart DEF JudgePart
  <2>1. JudgeInv
    BY DEF JudgePart
  <2>2. CASE Judging!Next
    BY <2>1, <2>2, JudgeStepKeeps
  <2>3. CASE UNCHANGED judgeVars
    BY <2>1, <2>3
      DEF judgeVars, JudgeInv, Judging!Live, Judging!Comparable, Judging!Required,
        Judging!StageConfirmed, Judging!VideoConfirmed, Judging!RowsConfirmed
  <2> QED BY <2>2, <2>3, EvidenceOnly
<1> QED BY <1>1, <1>2, PTL DEF Spec

(* Runs are compared only if what they measured was confirmed.               *)
THEOREM Compared == Spec => []ComparedRunsAreConfirmed
<1>1. (part # "evidence" => verdict = "open") /\ [Next]_vars
        => (part # "evidence" => verdict = "open")'
  BY SamePart DEF Next, vars, judgeVars, WaitStep, UdpStep, VideoStep, EvidenceStep,
    TcpStep, RouterStep, SamplerStep, CohortStep, CampaignStep, LabStep
<1>2. Init => (part # "evidence" => verdict = "open")
  BY DEF Init
<1>3. JudgePart /\ (part # "evidence" => verdict = "open") => ComparedRunsAreConfirmed
  BY JudgedIsConfirmed
    DEF JudgePart, ComparedRunsAreConfirmed, Judging!ComparedRunsAreConfirmed,
      Judging!Eligible
<1> QED BY <1>1, <1>2, <1>3, JudgePartHolds, PTL DEF Spec

-----------------------------------------------------------------------------
(* The length of a word of the protocol, and sequences of words and sentences. *)
(* A number and its bytes.                                                   *)
LEMMA Lowest == \A n \in Nat : n % 256 = n - (n \div 256) * 256
OBVIOUS

(* The bytes of a number are whole.                                         *)
LEMMA Whole == \A n \in Nat : n \div 256 \in Nat /\ n % 256 \in 0 .. 255 /\ n \div 1 = n
OBVIOUS

(* The second byte follows the first and the fourth the third.              *)
LEMMA Higher ==
  \A n \in Nat : n \div 65536 = (n \div 256) \div 256
                /\ n \div 16777216 = (n \div 65536) \div 256
OBVIOUS

(* What is read of a length of one to five bytes.                            *)
LEMMA Decode1 ==
  ASSUME NEW a \in Nat, a < 128
  PROVE  Router!DecodeLen(<<a>>) = a
  BY SMT DEF Router!DecodeLen

(* A length of two bytes is read back.                                      *)
LEMMA Decode2 ==
  ASSUME NEW a \in Nat, NEW b \in Nat, a < 64
  PROVE  Router!DecodeLen(<<128 + a, b>>) = a * 256 + b
  BY SMT DEF Router!DecodeLen

(* A length of three bytes is read back.                                    *)
LEMMA Decode3 ==
  ASSUME NEW a \in Nat, NEW b \in Nat, NEW c \in Nat, a < 32
  PROVE  Router!DecodeLen(<<192 + a, b, c>>) = a * 65536 + b * 256 + c
<1> DEFINE data == <<192 + a, b, c>>
<1>1. data[1] = 192 + a /\ data[2] = b /\ data[3] = c
  BY SMT
<1>2. /\ ~(data[1] < 128) /\ data[1] \notin 128 .. 191 /\ data[1] \in 192 .. 223
      /\ data[1] \notin 224 .. 239 /\ data[1] - 192 = a
  BY <1>1, SMT
<1> HIDE DEF data
<1>3. Router!DecodeLen(data) = (data[1] - 192) * 65536 + data[2] * 256 + data[3]
  BY <1>2, SMT DEF Router!DecodeLen
<1>4. Router!DecodeLen(data) = a * 65536 + b * 256 + c
  BY <1>1, <1>2, <1>3, SMT
<1> QED BY <1>4, SMT DEF data

(* A length of four bytes is read back.                                     *)
LEMMA Decode4 ==
  ASSUME NEW a \in Nat, NEW b \in Nat, NEW c \in Nat, NEW d \in Nat, a < 16
  PROVE  Router!DecodeLen(<<224 + a, b, c, d>>)
           = a * 16777216 + b * 65536 + c * 256 + d
<1> DEFINE data == <<224 + a, b, c, d>>
<1>1. data[1] = 224 + a /\ data[2] = b /\ data[3] = c /\ data[4] = d
  BY SMT
<1>2. /\ ~(data[1] < 128) /\ data[1] \notin 128 .. 191 /\ data[1] \notin 192 .. 223
      /\ data[1] \in 224 .. 239 /\ data[1] - 224 = a
  BY <1>1, SMT
<1> HIDE DEF data
<1>3. Router!DecodeLen(data)
        = (data[1] - 224) * 16777216 + data[2] * 65536 + data[3] * 256 + data[4]
  BY <1>2, SMT DEF Router!DecodeLen
<1>4. Router!DecodeLen(data) = a * 16777216 + b * 65536 + c * 256 + d
  BY <1>1, <1>2, <1>3, SMT
<1> QED BY <1>4, SMT DEF data

(* A length of up to four bytes is read as it was written.                   *)
LEMMA LengthIsRead ==
  ASSUME NEW n \in Nat, n \div 65536 < 65536
  PROVE  Router!DecodeLen(Router!EncodeLen(n)) = n
<1> DEFINE n1 == n \div 256
           n2 == n \div 65536
           n3 == n \div 16777216
           b0 == n % 256
           b1 == n1 % 256
           b2 == n2 % 256
<1>1. b0 \in 0 .. 255 /\ n = n1 * 256 + b0 /\ n1 \in Nat
  <2>1. b0 \in 0 .. 255 /\ b0 = n - n1 * 256 /\ n1 \in Nat
    BY Lowest, Whole, Higher, SMT
  <2> HIDE DEF b0, n1
  <2> QED BY <2>1, SMT
<1>2. b1 \in 0 .. 255 /\ n1 = n2 * 256 + b1 /\ n2 \in Nat
  <2>1. n2 = n1 \div 256
    BY Lowest, Whole, Higher, SMT
  <2> HIDE DEF n1, n2
  <2>2. b1 \in 0 .. 255 /\ b1 = n1 - n2 * 256 /\ n2 \in Nat
    BY <1>1, <2>1, Lowest, Whole, Higher, SMT
  <2> HIDE DEF b1
  <2> QED BY <1>1, <2>2, SMT
<1>3. b2 \in 0 .. 255 /\ n2 = n3 * 256 + b2 /\ n3 \in Nat
  <2>1. n3 = n2 \div 256
    BY Lowest, Whole, Higher, SMT
  <2> HIDE DEF n2, n3
  <2>2. b2 \in 0 .. 255 /\ b2 = n2 - n3 * 256 /\ n3 \in Nat
    BY <1>2, <2>1, Lowest, Whole, Higher, SMT
  <2> HIDE DEF b2
  <2> QED BY <1>2, <2>2, SMT
<1>4. /\ Router!Byte(n, 1) = b0 /\ Router!Byte(n, 256) = b1
      /\ Router!Byte(n, 65536) = b2
  BY Lowest, Whole, Higher, SMT DEF Router!Byte
<1>5. n2 < 65536
  BY SMT
<1> HIDE DEF n1, n2, b0, b1, b2
<1>6. n3 < 256
  BY <1>3, <1>5, SMT
<1>7. Router!Byte(n, 16777216) = n3
  BY <1>3, <1>6, SMT DEF Router!Byte, n3
<1>8. /\ n1 = n \div 256 /\ n2 = n \div 65536 /\ n3 = n \div 16777216
  BY SMT DEF n1, n2, n3
<1> HIDE DEF n3
<1>0. {n1, n2, n3, b0, b1, b2} \subseteq Nat
  BY <1>1, <1>2, <1>3, SMT
<1>9. CASE n < 128
  <2>1. Router!EncodeLen(n) = <<n>>
    BY <1>9, SMT DEF Router!EncodeLen
  <2>2. Router!DecodeLen(<<n>>) = n
    BY <1>9, Decode1, SMT
  <2> QED BY <2>1, <2>2, SMT
<1>10. CASE ~(n < 128) /\ n < 16384
  <2>1. Router!EncodeLen(n) = <<128 + n1, b0>>
    BY <1>4, <1>8, <1>10, SMT DEF Router!EncodeLen
  <2>2. n1 < 64
    BY <1>1, <1>10, SMT
  <2>3. Router!DecodeLen(<<128 + n1, b0>>) = n1 * 256 + b0
    BY <1>0, <2>2, Decode2, SMT
  <2> QED BY <1>1, <2>1, <2>3, SMT
<1>11. CASE ~(n < 16384) /\ n < 2097152
  <2>1. Router!EncodeLen(n) = <<192 + n2, b1, b0>>
    BY <1>4, <1>8, <1>11, SMT DEF Router!EncodeLen
  <2>2. n2 < 32
    BY <1>1, <1>2, <1>11, SMT
  <2>3. Router!DecodeLen(<<192 + n2, b1, b0>>) = n2 * 65536 + b1 * 256 + b0
    BY <1>0, <2>2, Decode3, SMT
  <2>4. n = n2 * 65536 + b1 * 256 + b0
    BY <1>1, <1>2, SMT
  <2> QED BY <2>1, <2>3, <2>4, SMT
<1>12. CASE ~(n < 2097152) /\ n < 268435456
  <2>1. Router!EncodeLen(n) = <<224 + n3, b2, b1, b0>>
    BY <1>4, <1>8, <1>12, SMT DEF Router!EncodeLen
  <2>2. n3 < 16
    BY <1>1, <1>2, <1>3, <1>12, SMT
  <2>3. Router!DecodeLen(<<224 + n3, b2, b1, b0>>)
          = n3 * 16777216 + b2 * 65536 + b1 * 256 + b0
    BY <1>0, <2>2, Decode4, SMT
  <2>4. n = n3 * 16777216 + b2 * 65536 + b1 * 256 + b0
    BY <1>1, <1>2, <1>3, SMT
  <2> QED BY <2>1, <2>3, <2>4, SMT
<1>13. CASE ~(n < 268435456)
  <2>1. Router!EncodeLen(n) = <<240, n3, b2, b1, b0>>
    BY <1>4, <1>7, <1>13, SMT DEF Router!EncodeLen
  <2>2. Router!DecodeLen(<<240, n3, b2, b1, b0>>)
          = n3 * 16777216 + b2 * 65536 + b1 * 256 + b0
    BY <1>0, SMT DEF Router!DecodeLen
  <2>3. n = n3 * 16777216 + b2 * 65536 + b1 * 256 + b0
    BY <1>1, <1>2, <1>3, SMT
  <2> QED BY <2>1, <2>2, <2>3, SMT
<1> QED BY <1>9, <1>10, <1>11, <1>12, <1>13, SMT

(* Sequences put behind one another keep their elements in order. *)
LEMMA Joined ==
  ASSUME NEW S, NEW s \in Seq(S), NEW t \in Seq(S)
  PROVE  /\ s \o t \in Seq(S)
         /\ Len(s \o t) = Len(s) + Len(t)
         /\ \A i \in 1 .. Len(s) : (s \o t)[i] = s[i]
         /\ \A i \in 1 .. Len(t) : (s \o t)[Len(s) + i] = t[i]
<1>1. Len(s) \in Nat /\ Len(t) \in Nat
  OBVIOUS
<1>2. /\ s \o t \in Seq(S) /\ Len(s \o t) = Len(s) + Len(t)
      /\ \A i \in 1 .. Len(s) + Len(t) :
           (s \o t)[i] = IF i <= Len(s) THEN s[i] ELSE t[i - Len(s)]
  BY ConcatProperties
<1> QED
  BY <1>1, <1>2

(* The same of four sequences: Script is made of four. *)
LEMMA FourJoined ==
  ASSUME NEW S, NEW p \in Seq(S), NEW r \in Seq(S), NEW t \in Seq(S),
         NEW c \in Seq(S), NEW s, s = ((p \o r) \o t) \o c
  PROVE  /\ s \in Seq(S)
         /\ Len(s) = Len(p) + Len(r) + Len(t) + Len(c)
         /\ \A i \in 1 .. Len(p) : s[i] = p[i]
         /\ \A i \in 1 .. Len(r) : s[Len(p) + i] = r[i]
         /\ \A i \in 1 .. Len(t) : s[Len(p) + Len(r) + i] = t[i]
         /\ \A i \in 1 .. Len(c) : s[Len(p) + Len(r) + Len(t) + i] = c[i]
<1> DEFINE u == p \o r
           v == u \o t
<1>0. /\ Len(p) \in Nat /\ Len(r) \in Nat /\ Len(t) \in Nat
      /\ Len(c) \in Nat
  OBVIOUS
<1>1. /\ u \in Seq(S) /\ Len(u) = Len(p) + Len(r)
      /\ \A i \in 1 .. Len(p) : u[i] = p[i]
      /\ \A i \in 1 .. Len(r) : u[Len(p) + i] = r[i]
  BY Joined
<1> HIDE DEF u
<1>2. /\ v \in Seq(S) /\ Len(v) = Len(u) + Len(t)
      /\ \A i \in 1 .. Len(u) : v[i] = u[i]
      /\ \A i \in 1 .. Len(t) : v[Len(u) + i] = t[i]
  <2>1. u \in Seq(S)
    BY <1>1
  <2> QED
    BY <2>1, Joined
<1>3. s = v \o c
  BY DEF u
<1> HIDE DEF v
<1>4. /\ s \in Seq(S) /\ Len(s) = Len(v) + Len(c)
      /\ \A i \in 1 .. Len(v) : s[i] = v[i]
      /\ \A i \in 1 .. Len(c) : s[Len(v) + i] = c[i]
  <2>1. v \in Seq(S)
    BY <1>2
  <2> QED
    BY <1>3, <2>1, Joined
<1> QED
  BY <1>0, <1>1, <1>2, <1>4

-----------------------------------------------------------------------------
(* The router's connection.  While a command waits, it is the only one: it    *)
(* has not been answered, or what is left of its answer is all there is to    *)
(* read.  A router that ends a refusal like every other answer breaks this.   *)
LEMMA RouterOnly ==
  [Next]_vars /\ part = "router" => Router!Next \/ UNCHANGED routerVars
  BY DEF Next, vars, restVars, routerVars, WaitStep, UdpStep, VideoStep,
     EvidenceStep, TcpStep, RouterStep, SamplerStep, CohortStep, CampaignStep,
     LabStep

Topics == Paths \union {Router!General}
Ends == {"done", "trap", "unknown"}
Sentences == [kind : {"re"} \union Ends, about : SUBSET Topics]
Calls ==
  [kind : Router!Kinds, state : {"ready", "asking", "failed", "finished"}, left : Nat,
   path : Topics, way : {"source", "table", "mark", "monitor", "traffic", "none"},
   todo : SUBSET Paths, got : SUBSET Topics, addressed : SUBSET Paths, refused : BOOLEAN]

RouterTypes ==
  /\ device \in [trails : BOOLEAN, tabled : SUBSET Paths]
  /\ call \in Calls
  /\ link \in [asked : Seq(Topics), said : Seq(Sentences)]
  /\ origin \in [Paths -> SUBSET Topics]

EndsAt(i) ==
  /\ Len(link.said) >= i /\ link.said[i].kind \in Ends
  /\ Len(link.said) = i \/ (device.trails /\ link.said[i].kind # "done")

Answering ==
  \/ EndsAt(1)
  \/ /\ EndsAt(2) /\ link.said[1].kind = "re"
     /\ call.path \in Paths => link.said[1].about \subseteq {call.path}

Orderly ==
  /\ call.state = "ready" => link.asked = <<>> /\ link.said = <<>> /\ call.got = {}
  /\ call.state = "asking" =>
       /\ call.path \in Paths => call.got \subseteq {call.path}
       /\ \/ link.asked = <<call.path>> /\ link.said = <<>>
          \/ link.asked = <<>> /\ Answering
  /\ \A p \in Paths : origin[p] \subseteq {p}

RouterInv == RouterTypes /\ ((device.trails /\ call.refused) \/ Orderly)

(* The connection begins with a client that asks for nothing.               *)
LEMMA RouterStarts == Router!Init => RouterInv
<1> SUFFICES ASSUME Router!Init PROVE RouterInv
  OBVIOUS
<1>1. PICK kind \in Router!Kinds : call = Router!NewCall(kind)
  BY DEF Router!Init
<1>2. Router!Opening[kind] \in Nat
  BY DEF Router!Kinds, Router!Opening
<1>3. call \in Calls /\ call.state = "ready" /\ call.got = {}
  BY <1>1, <1>2 DEF Router!NewCall, Calls, Topics
<1>4. link \in [asked : Seq(Topics), said : Seq(Sentences)] /\ link.asked = <<>>
        /\ link.said = <<>>
  BY DEF Router!Init
<1>5. origin \in [Paths -> SUBSET Topics] /\ \A p \in Paths : origin[p] = {}
  BY DEF Router!Init
<1>6. device \in [trails : BOOLEAN, tabled : SUBSET Paths]
  BY DEF Router!Init
<1> QED BY <1>3, <1>4, <1>5, <1>6 DEF RouterInv, RouterTypes, Orderly

(* What is asked next is asked when nothing else is on its way.              *)
LEMMA AskKeeps ==
  ASSUME RouterInv, call.state = "ready", NEW about \in Topics, NEW to \in Calls,
         to.got = call.got, to.refused = call.refused, Router!Ask(about, to)
  PROVE  RouterInv'
<1>1. /\ call' = [to EXCEPT !.state = "asking", !.path = about]
      /\ link' = [link EXCEPT !.asked = Append(@, about)]
      /\ UNCHANGED <<device, origin>>
  BY DEF Router!Ask
<1>2. /\ call' \in Calls /\ call'.state = "asking" /\ call'.path = about
      /\ call'.got = call.got /\ call'.refused = call.refused
  BY <1>1 DEF Calls
<1>3. /\ link'.asked = Append(link.asked, about) /\ link'.said = link.said
      /\ link' \in [asked : Seq(Topics), said : Seq(Sentences)]
  <2>1. /\ link \in [asked : Seq(Topics), said : Seq(Sentences)]
        /\ link.asked \in Seq(Topics)
    BY DEF RouterInv, RouterTypes
  <2>2. Append(link.asked, about) \in Seq(Topics)
    BY <2>1
  <2> DEFINE asked == Append(link.asked, about)
  <2>3. link' = [link EXCEPT !.asked = asked]
    BY <1>1
  <2> HIDE DEF asked
  <2>4. link'.asked = asked /\ link'.said = link.said
          /\ link' \in [asked : Seq(Topics), said : Seq(Sentences)]
    BY <2>1, <2>2, <2>3 DEF asked
  <2> QED BY <2>4 DEF asked
<1>4. RouterTypes'
  BY <1>1, <1>2, <1>3 DEF RouterInv, RouterTypes
<1>5. CASE device.trails /\ call.refused
  BY <1>1, <1>2, <1>4, <1>5 DEF RouterInv
<1>6. CASE Orderly
  <2>1. link'.asked = <<about>> /\ link'.said = <<>> /\ call'.got = {}
    <3>1. link.asked = <<>> /\ link.said = <<>> /\ call.got = {}
      BY <1>6 DEF Orderly
    <3>2. Append(<<>>, about) = <<about>>
      OBVIOUS
    <3> QED BY <1>2, <1>3, <3>1, <3>2, Zenon
  <2>2. Orderly'
    BY <1>1, <1>2, <1>6, <2>1 DEF Orderly
  <2> QED BY <1>4, <2>2 DEF RouterInv
<1> QED BY <1>5, <1>6 DEF RouterInv

(* The ways a row can be asked for.                                         *)
LEMMA WaysAreWays ==
  ASSUME call \in Calls, NEW path \in Paths, NEW end \in Ends
  PROVE  /\ Router!FirstWay(path) \in {"source", "table", "monitor", "none"}
         /\ Router!NextWay(end) \in {"table", "mark", "traffic", "none"}
<1>1. Router!ByTable(path) \in {"table", "none"} /\ Router!ByTable(call.path) \in {"table", "none"}
  BY DEF Router!ByTable
<1>2. Router!FirstWay(path) \in {"source", "table", "monitor", "none"}
  BY <1>1 DEF Router!FirstWay
<1>3. Router!NextWay(end) \in {"table", "mark", "traffic", "none"}
  BY <1>1 DEF Router!NextWay
<1> QED BY <1>2, <1>3

(* A command is sent when nothing is left of the one before it.             *)
LEMMA AskingKeeps ==
  ASSUME RouterInv,
         Router!AskOpening \/ Router!AskAgain \/ \E path \in Paths : Router!TakePath(path)
  PROVE  RouterInv'
<1>0. call \in Calls /\ RouterTypes
  BY DEF RouterInv, RouterTypes
<1>1. CASE Router!AskOpening
  <2> DEFINE to == [call EXCEPT !.left = @ - 1]
  <2>1. call.left - 1 \in Nat
    BY <1>0, <1>1 DEF Router!AskOpening, Calls
  <2>2. to \in Calls /\ to.got = call.got /\ to.refused = call.refused
    BY <1>0, <2>1 DEF Calls
  <2>3. call.state = "ready" /\ Router!Ask(Router!General, to)
    BY <1>1 DEF Router!AskOpening
  <2> HIDE DEF to
  <2>4. Router!General \in Topics
    BY DEF Topics
  <2> QED BY <2>2, <2>3, <2>4, AskKeeps
<1>2. CASE Router!AskAgain
  <2>1. call.state = "ready" /\ Router!Ask(call.path, call)
    BY <1>2 DEF Router!AskAgain
  <2>2. call.path \in Topics
    BY <1>0 DEF Calls
  <2> QED BY <1>0, <2>1, <2>2, AskKeeps
<1>3. ASSUME NEW path \in Paths, Router!TakePath(path) PROVE RouterInv'
  <2> DEFINE way == Router!FirstWay(path)
             to == [call EXCEPT !.todo = @ \ {path}, !.way = way]
  <2>1. way \in {"source", "table", "monitor", "none"}
    BY <1>0, WaysAreWays, "done" \in Ends DEF Ends
  <2>2. /\ call.state = "ready" /\ call.path = Router!General
        /\ \/ Router!Ask(path, to)
           \/ call' = to /\ UNCHANGED <<device, link, origin>>
    BY <1>3 DEF Router!TakePath
  <2> HIDE DEF way
  <2>3. /\ to \in Calls /\ to.got = call.got /\ to.refused = call.refused
        /\ to.path = call.path /\ to.state = call.state
    BY <1>0, <2>1 DEF Calls
  <2> HIDE DEF to
  <2>4. path \in Topics
    BY DEF Topics
  <2>5. CASE Router!Ask(path, to)
    BY <2>2, <2>3, <2>4, <2>5, AskKeeps
  <2>6. CASE call' = to /\ UNCHANGED <<device, link, origin>>
    <3>1. RouterTypes'
      BY <1>0, <2>3, <2>6 DEF RouterTypes
    <3>2. Orderly => Orderly'
      BY <2>2, <2>3, <2>6 DEF Orderly
    <3> QED BY <2>3, <2>6, <3>1, <3>2 DEF RouterInv
  <2> QED BY <2>2, <2>5, <2>6
<1> QED BY <1>1, <1>2, <1>3

(* A call that is given up asks for nothing.                                *)
LEMMA StoppingKeeps ==
  ASSUME RouterInv, Router!TimesOut \/ Router!Finish
  PROVE  RouterInv'
<1>1. /\ call' \in {[call EXCEPT !.state = "failed"], [call EXCEPT !.state = "finished"]}
      /\ UNCHANGED <<device, link, origin>>
  BY DEF Router!TimesOut, Router!Finish
<1>2. /\ call' \in Calls /\ call'.state \in {"failed", "finished"}
      /\ call'.refused = call.refused
  BY <1>1 DEF RouterInv, RouterTypes, Calls
<1>3. RouterTypes'
  BY <1>1, <1>2 DEF RouterInv, RouterTypes
<1>4. Orderly => Orderly'
  BY <1>1, <1>2 DEF Orderly
<1> QED BY <1>1, <1>2, <1>3, <1>4 DEF RouterInv

(* The router's answer to the one command that waits is all there is to read.*)
LEMMA AnswerKeeps == ASSUME RouterInv, Router!Answer PROVE RouterInv'
<1>0. /\ RouterTypes /\ link.asked \in Seq(Topics) /\ link.said \in Seq(Sentences)
      /\ link.asked # <<>>
  BY DEF RouterInv, RouterTypes, Router!Answer
<1>1. UNCHANGED <<device, call, origin>>
  BY DEF Router!Answer
<1> DEFINE about == Head(link.asked)
<1>2. PICK lines \in Router!Rows(about), end \in Ends :
        link' = [asked |-> Tail(link.asked),
                 said |-> link.said \o lines \o Router!Sentence(end, {})
                            \o IF end # "done" /\ device.trails
                                 THEN Router!Sentence("done", {}) ELSE <<>>]
  BY DEF Router!Answer, Ends
<1> DEFINE last == Router!Sentence(end, {})
           tail == IF end # "done" /\ device.trails
                     THEN Router!Sentence("done", {}) ELSE <<>>
           said == ((link.said \o lines) \o last) \o tail
<1>3. about \in Topics /\ Tail(link.asked) \in Seq(Topics)
  BY <1>0
<1>4. \/ lines = <<>>
      \/ /\ lines \in Seq(Sentences) /\ Len(lines) = 1 /\ lines[1].kind = "re"
         /\ about \in Paths => lines[1].about = {about}
  <2>1. ASSUME lines # <<>>
        PROVE  /\ lines \in Seq(Sentences) /\ Len(lines) = 1 /\ lines[1].kind = "re"
               /\ about \in Paths => lines[1].about = {about}
    <3>1. PICK addressed \in SUBSET IF about = Router!General /\ call.kind = "latency"
                                      THEN Paths ELSE {} :
            lines = Router!Sentence("re", {about} \union addressed)
      BY <1>2, <2>1 DEF Router!Rows
    <3>2. {about} \union addressed \in SUBSET Topics
      BY <1>3, <3>1 DEF Topics
    <3>3. about \in Paths => {about} \union addressed = {about}
      BY RouterAssumption, <3>1 DEF Router!General
    <3> DEFINE set == {about} \union addressed
    <3>4. lines = <<[kind |-> "re", about |-> set]>>
      BY <3>1 DEF Router!Sentence
    <3> HIDE DEF set, about
    <3>5. [kind |-> "re", about |-> set] \in Sentences
      BY <3>2 DEF Sentences, set
    <3>6. lines \in Seq(Sentences) /\ Len(lines) = 1 /\ lines[1] = [kind |-> "re", about |-> set]
      BY <3>4, <3>5
    <3> QED BY <3>3, <3>6 DEF set
  <2> QED BY <2>1
<1>5. lines \in Seq(Sentences) /\ Len(lines) \in {0, 1}
  <2>1. <<>> \in Seq(Sentences) /\ Len(<<>>) = 0
    BY EmptySeq
  <2>2. lines = <<>> => Len(lines) = 0
    BY <2>1
  <2> QED BY <1>4, <2>1, <2>2, Zenon
<1>6. /\ last \in Seq(Sentences) /\ Len(last) = 1 /\ last[1].kind = end
  <2> DEFINE sentence == [kind |-> end, about |-> {}]
  <2>1. sentence \in Sentences
    BY DEF Sentences
  <2>2. last = <<sentence>> /\ sentence.kind = end
    BY DEF Router!Sentence
  <2> HIDE DEF sentence, last
  <2> QED BY <2>1, <2>2
<1>7. /\ tail \in Seq(Sentences)
      /\ Len(tail) \in Nat /\ (tail = <<>> \/ (end # "done" /\ device.trails))
  <2>1. [kind |-> "done", about |-> {}] \in Sentences
    BY DEF Sentences, Ends
  <2> QED BY <2>1 DEF Router!Sentence
<1>8. link' = [asked |-> Tail(link.asked), said |-> said]
  BY <1>2
<1> HIDE DEF last, tail, about
<1>9. /\ said \in Seq(Sentences)
      /\ Len(said) = Len(link.said) + Len(lines) + Len(last) + Len(tail)
      /\ \A i \in 1 .. Len(lines) : said[Len(link.said) + i] = lines[i]
      /\ \A i \in 1 .. Len(last) : said[Len(link.said) + Len(lines) + i] = last[i]
  <2>1. said = ((link.said \o lines) \o last) \o tail
    OBVIOUS
  <2> DEFINE before == link.said
  <2>2. before \in Seq(Sentences) /\ said = ((before \o lines) \o last) \o tail
    BY <1>0, <2>1
  <2> HIDE DEF said, before
  <2>3. /\ said \in Seq(Sentences)
        /\ Len(said) = Len(before) + Len(lines) + Len(last) + Len(tail)
        /\ \A i \in 1 .. Len(lines) : said[Len(before) + i] = lines[i]
        /\ \A i \in 1 .. Len(last) : said[Len(before) + Len(lines) + i] = last[i]
    <3>1. lines \in Seq(Sentences) /\ last \in Seq(Sentences) /\ tail \in Seq(Sentences)
      BY <1>5, <1>6, <1>7
    <3> QED BY <2>2, <3>1, FourJoined
  <2> QED BY <2>3 DEF before
<1> HIDE DEF said
<1>10. RouterTypes'
  BY <1>0, <1>1, <1>3, <1>8, <1>9 DEF RouterTypes
<1>11. ASSUME Orderly PROVE Orderly'
  <2>1. CASE call.state = "asking"
    <3>1. link.asked = <<call.path>> /\ link.said = <<>>
      BY <1>0, <1>11, <2>1 DEF Orderly
    <3>2. about = call.path /\ Tail(link.asked) = <<>> /\ Len(link.said) = 0
      BY <3>1 DEF about
    <3>3. /\ link'.asked = <<>> /\ link'.said = said
          /\ Len(said) = Len(lines) + 1 + Len(tail)
          /\ Len(lines) = 1 => said[1] = lines[1]
          /\ said[Len(lines) + 1] = last[1]
      BY <1>5, <1>6, <1>7, <1>8, <1>9, <3>2
    <3>4. EndsAt(Len(lines) + 1)'
      BY <1>1, <1>5, <1>6, <1>7, <3>3 DEF EndsAt
    <3>5. Answering'
      <4>1. CASE Len(lines) = 0
        BY <3>4, <4>1 DEF Answering
      <4>2. CASE Len(lines) = 1
        <5>1. lines # <<>>
          BY <4>2, EmptySeq
        <5>2. link'.said[1] = lines[1] /\ call'.path = about
          BY <1>1, <3>2, <3>3, <4>2
        <5>3. EndsAt(2)'
          BY <3>4, <4>2
        <5> QED BY <1>4, <5>1, <5>2, <5>3 DEF Answering
      <4> QED BY <1>5, <4>1, <4>2
    <3> QED BY <1>1, <1>11, <2>1, <3>3, <3>5 DEF Orderly
  <2>2. CASE call.state # "asking"
    BY <1>0, <1>1, <1>11, <2>2 DEF Orderly
  <2> QED BY <2>1, <2>2
<1> QED BY <1>1, <1>10, <1>11 DEF RouterInv

(* A command is over: the client is ready for the next.                      *)
LEMMA ReturnedIs ==
  ASSUME call \in Calls, NEW end \in Ends
  PROVE  LET r == Router!Returned(end) IN
         /\ r \in Calls /\ r.state = "ready" /\ r.got = {}
         /\ end # "done" => r.refused
         /\ call.refused => r.refused
         /\ r.kind = call.kind /\ r.left = call.left
<1> DEFINE way == Router!NextWay(end)
<1>1. way \in {"table", "mark", "traffic", "none"}
  <2>1. CASE Paths = {}
    BY <2>1 DEF Router!NextWay, Router!ByTable
  <2>2. ASSUME NEW path \in Paths PROVE way \in {"table", "mark", "traffic", "none"}
    BY WaysAreWays
  <2> QED BY <2>1, <2>2
<1>2. Router!Returned(end) =
        [call EXCEPT !.state = "ready", !.got = {}, !.way = way,
                     !.path = IF way = "none" THEN Router!General ELSE @,
                     !.refused = @ \/ end # "done"]
  BY DEF Router!Returned
<1> HIDE DEF way
<1>3. Router!General \in Topics
  BY DEF Topics
<1> QED BY <1>1, <1>2, <1>3 DEF Calls

(* A sentence is read as it was said.                                        *)
LEMMA SentenceIsRead ==
  ASSUME NEW sentence, Router!Heard(sentence)
  PROVE  sentence = Head(link.said)
<1>1. PICK n \in WordLengths :
        sentence = IF Router!DecodeLen(Router!EncodeLen(n)) = n THEN Head(link.said)
                                                                ELSE Router!Noise
  BY Zenon DEF Router!Heard
<1>2. Router!DecodeLen(Router!EncodeLen(n)) = n
  BY LengthIsRead, RouterAssumption
<1> QED BY <1>1, <1>2, Zenon

(* A sentence that is read belongs to the command that waits for it.        *)
LEMMA ReadKeeps == ASSUME RouterInv, Router!Read PROVE RouterInv'
<1>0. /\ RouterTypes /\ call \in Calls /\ link.said \in Seq(Sentences) /\ link.said # <<>>
      /\ call.state = "asking" /\ UNCHANGED device
  BY DEF RouterInv, RouterTypes, Router!Read
<1> DEFINE sentence == link.said[1]
           rest == Tail(link.said)
<1>1. /\ \/ /\ sentence.kind = "re"
            /\ call' = [call EXCEPT !.got = @ \union sentence.about]
            /\ UNCHANGED origin
         \/ sentence.kind = "done" /\ Router!Done
         \/ sentence.kind \in {"trap", "unknown"} /\ Router!Trapped(sentence.kind)
      /\ link' = [link EXCEPT !.said = rest]
  <2>1. PICK heard \in {Head(link.said), Router!Noise} :
          /\ Router!Heard(heard)
          /\ \/ /\ heard.kind = "re"
                /\ call' = [call EXCEPT !.got = @ \union heard.about]
                /\ UNCHANGED origin
             \/ heard.kind = "done" /\ Router!Done
             \/ heard.kind \in {"trap", "unknown"} /\ Router!Trapped(heard.kind)
    BY Zenon DEF Router!Read
  <2>2. heard = sentence
    BY <2>1, SentenceIsRead
  <2>3. link' = [link EXCEPT !.said = rest]
    BY DEF Router!Read
  <2> QED BY <2>1, <2>2, <2>3, Zenon
<1>2. /\ Len(link.said) \in Nat \ {0} /\ sentence \in Sentences
      /\ rest \in Seq(Sentences) /\ Len(rest) = Len(link.said) - 1
      /\ \A i \in 1 .. Len(rest) : rest[i] = link.said[i + 1]
  BY <1>0, HeadTailProperties, EmptySeq
<1> HIDE DEF sentence, rest
<1>3. /\ link' \in [asked : Seq(Topics), said : Seq(Sentences)]
      /\ link'.said = rest /\ link'.asked = link.asked
  BY <1>0, <1>1, <1>2 DEF RouterTypes
<1>4. CASE /\ sentence.kind = "re"
           /\ call' = [call EXCEPT !.got = @ \union sentence.about]
           /\ UNCHANGED origin
  <2>1. /\ call' \in Calls /\ call'.got = call.got \union sentence.about
        /\ call'.path = call.path /\ call'.state = "asking" /\ call'.refused = call.refused
    BY <1>0, <1>2, <1>4 DEF Calls, Sentences
  <2>2. RouterTypes'
    BY <1>0, <1>3, <1>4, <2>1 DEF RouterTypes
  <2>3. ASSUME Orderly PROVE Orderly'
    <3>1. Answering /\ link.asked = <<>> /\ \A p \in Paths : origin[p] \subseteq {p}
            /\ (call.path \in Paths => call.got \subseteq {call.path})
      BY <1>0, <2>3 DEF Orderly
    <3>2. EndsAt(2) /\ (call.path \in Paths => sentence.about \subseteq {call.path})
      BY <1>4, <3>1 DEF Answering, EndsAt, sentence, Ends
    <3>3. EndsAt(1)'
      <4>1. Len(rest) >= 1 /\ 1 \in 1 .. Len(rest)
        BY <1>2, <3>2 DEF EndsAt
      <4>2. rest[1] = link.said[2]
        BY <1>2, <4>1
      <4>3. Len(link.said) = 2 => Len(rest) = 1
        BY <1>2
      <4> QED BY <1>0, <1>3, <3>2, <4>1, <4>2, <4>3 DEF EndsAt
    <3> QED BY <1>3, <1>4, <2>1, <3>1, <3>2, <3>3 DEF Orderly, Answering
  <2> QED BY <1>0, <2>1, <2>2, <2>3 DEF RouterInv
<1>5. CASE sentence.kind = "done" /\ Router!Done
  <2> DEFINE r == Router!Returned("done")
             addressed == IF call.kind = "latency" /\ call.path = Router!General /\ call.left = 0
                            THEN call.got \intersect Paths ELSE r.addressed
  <2>1. r \in Calls /\ r.state = "ready" /\ r.got = {} /\ (call.refused => r.refused)
    BY <1>0, ReturnedIs DEF Ends
  <2>2. call' = [r EXCEPT !.addressed = addressed]
    BY <1>5 DEF Router!Done
  <2>3. origin' = IF call.path \in Paths
                    THEN [origin EXCEPT ![call.path] = @ \union call.got] ELSE origin
    BY <1>5 DEF Router!Done
  <2> HIDE DEF r
  <2>4. addressed \in SUBSET Paths
    BY <2>1 DEF Calls
  <2> HIDE DEF addressed
  <2>5. /\ call' \in Calls /\ call'.state = "ready" /\ call'.got = {}
        /\ (call.refused => call'.refused)
    BY <2>1, <2>2, <2>4 DEF Calls
  <2>6. call.got \subseteq Topics
    BY <1>0 DEF Calls
  <2>7. origin' \in [Paths -> SUBSET Topics]
    BY <1>0, <2>3, <2>6 DEF RouterTypes
  <2>8. RouterTypes'
    BY <1>0, <1>3, <2>5, <2>7 DEF RouterTypes
  <2>9. ASSUME Orderly PROVE Orderly'
    <3>1. Answering /\ link.asked = <<>> /\ \A p \in Paths : origin[p] \subseteq {p}
            /\ (call.path \in Paths => call.got \subseteq {call.path})
      BY <1>0, <2>9 DEF Orderly
    <3>2. Len(link.said) = 1
      BY <1>5, <3>1 DEF Answering, EndsAt, sentence
    <3>3. rest = <<>>
      BY <1>2, <3>2, EmptySeq
    <3>4. \A p \in Paths : origin'[p] \subseteq {p}
      BY <1>0, <2>3, <3>1 DEF RouterTypes
    <3> QED BY <1>3, <2>5, <3>1, <3>3, <3>4 DEF Orderly
  <2> QED BY <1>0, <2>5, <2>8, <2>9 DEF RouterInv
<1>6. CASE sentence.kind \in {"trap", "unknown"} /\ Router!Trapped(sentence.kind)
  <2> DEFINE end == sentence.kind
             r == Router!Returned(end)
  <2>1. r \in Calls /\ r.state = "ready" /\ r.got = {} /\ r.refused
    BY <1>0, <1>6, ReturnedIs DEF Ends
  <2>2. UNCHANGED origin
          /\ (call' = r \/ call' = [call EXCEPT !.state = "failed", !.refused = TRUE])
    BY <1>6 DEF Router!Trapped
  <2> HIDE DEF r
  <2>3. /\ call' \in Calls /\ call'.refused
        /\ \/ call'.state = "ready" /\ call'.got = {}
           \/ call'.state = "failed"
    BY <1>0, <2>1, <2>2 DEF Calls
  <2>4. RouterTypes'
    BY <1>0, <1>3, <2>2, <2>3 DEF RouterTypes
  <2>5. CASE device.trails
    BY <1>0, <2>3, <2>4, <2>5 DEF RouterInv
  <2>6. CASE ~device.trails
    <3>1. Orderly
      BY <2>6 DEF RouterInv
    <3>2. Answering /\ link.asked = <<>>
      BY <1>0, <3>1 DEF Orderly
    <3>3. Len(link.said) = 1
      BY <1>6, <2>6, <3>2 DEF Answering, EndsAt, sentence
    <3>4. rest = <<>>
      BY <1>2, <3>3, EmptySeq
    <3>5. Orderly'
      BY <1>3, <2>2, <2>3, <3>1, <3>2, <3>4 DEF Orderly
    <3> QED BY <2>4, <3>5 DEF RouterInv
  <2> QED BY <2>5, <2>6
<1> QED BY <1>1, <1>4, <1>5, <1>6

RouterPart == part = "router" => RouterInv

LEMMA RouterPartHolds == Spec => []RouterPart
<1>1. Init => RouterPart
  BY RouterStarts DEF Init, RouterPart
<1>2. RouterPart /\ [Next]_vars => RouterPart'
  <2> SUFFICES ASSUME RouterPart, [Next]_vars, part = "router" PROVE RouterInv'
    BY SamePart DEF RouterPart
  <2>1. RouterInv
    BY DEF RouterPart
  <2>2. CASE Router!Next
    BY <2>1, <2>2, AskingKeeps, StoppingKeeps, AnswerKeeps, ReadKeeps, Zenon
       DEF Router!Next
  <2>3. CASE UNCHANGED routerVars
    BY <2>1, <2>3
      DEF routerVars, RouterInv, RouterTypes, Orderly, Answering, EndsAt
  <2> QED BY <2>2, <2>3, RouterOnly
<1> QED BY <1>1, <1>2, PTL DEF Spec

(* What stands in the row of a path was answered about that path.            *)
THEOREM RowsAreOfTheirPath == Spec => []AnswersBelong
<1>1. RouterPart => AnswersBelong
  BY DEF RouterPart, RouterInv, Orderly, AnswersBelong, Router!AnswersBelong
<1> QED BY <1>1, RouterPartHolds, PTL

-----------------------------------------------------------------------------
(* The campaigns.  What a batch is made with follows from what it aims at. *)
LEMMA MaxOfTwo ==
  ASSUME NEW a \in Int, NEW b \in Int
  PROVE  Making!Max({a, b}) = IF a >= b THEN a ELSE b
<1> DEFINE m == IF a >= b THEN a ELSE b
<1>1. m \in {a, b} /\ \A y \in {a, b} : m >= y
  OBVIOUS
<1>2. \A x \in {a, b} : (\A y \in {a, b} : x >= y) => x = m
  OBVIOUS
<1> HIDE DEF m
<1>3. Making!Max({a, b}) = m
  BY <1>1, <1>2 DEF Making!Max
<1> QED BY <1>3 DEF m

(* The smaller of two numbers.                                              *)
LEMMA MinOfTwo ==
  ASSUME NEW a \in Int, NEW b \in Int
  PROVE  Making!Min({a, b}) = IF a <= b THEN a ELSE b
<1> DEFINE m == IF a <= b THEN a ELSE b
<1>1. m \in {a, b} /\ \A y \in {a, b} : m <= y
  OBVIOUS
<1>2. \A x \in {a, b} : (\A y \in {a, b} : x <= y) => x = m
  OBVIOUS
<1> HIDE DEF m
<1>3. Making!Min({a, b}) = m
  BY <1>1, <1>2 DEF Making!Min
<1> QED BY <1>3 DEF m

(* What the definitions of the protocols come to.                            *)
Comes(p, duration, pings, busy, ttl) ==
  /\ Making!ProtocolDuration(p) = duration
  /\ Making!PingSeconds(p) = pings
  /\ \A paths \in Nat : Making!EngineSeconds(p, paths) = paths * pings + busy
  /\ Making!ReservationTtl(p) = ttl

(* A protocol without TCP takes no time for it.                             *)
LEMMA NoTcpTakesNothing == Making!TcpSeconds(Making!NoTcp) = 0
<1> DEFINE tcp == Making!NoTcp
<1>1. tcp.warmup = 0 /\ tcp.rounds = 0 /\ tcp.measured = 0 /\ tcp.recovery = 0
  BY DEF Making!NoTcp
<1> HIDE DEF tcp
<1>2. Making!TcpSeconds(tcp) = 0
  BY <1>1, MaxOfTwo DEF Making!TcpSeconds
<1> QED BY <1>2 DEF tcp

(* The city video.                                                          *)
LEMMA CityComes == Comes("video_city", 2045, 50, 1865, 2105)
<1> DEFINE d == Making!Definition["video_city"]
<1>1. /\ d.registered = 120 /\ d.idle = 60 /\ d.tcp = Making!NoTcp /\ d.udp = 0
      /\ d.postUdp = 0 /\ d.video = 1800 /\ d.settle = 5 /\ d.final = 60
  BY DEF Making!Definition
<1>2. Making!NoTcp.rounds = 0 /\ Making!NoTcp.measured = 0
  BY DEF Making!NoTcp
<1> HIDE DEF d
<1>3. Making!Min({50, 60}) = 50 /\ Making!Max({600, 2105}) = 2105
  BY MinOfTwo, MaxOfTwo
<1>4. Making!ProtocolDuration("video_city") = 2045
  BY <1>1, NoTcpTakesNothing DEF Making!ProtocolDuration, d
<1>5. Making!PingSeconds("video_city") = 50
  BY <1>1, <1>3 DEF Making!PingSeconds, d
<1>6. \A paths \in Nat : Making!EngineSeconds("video_city", paths) = paths * 50 + 1865
  BY <1>1, NoTcpTakesNothing, <1>5 DEF Making!EngineSeconds, d
<1>7. Making!ReservationTtl("video_city") = 2105
  BY <1>1, <1>2, <1>3 DEF Making!ReservationTtl, d
<1> QED BY <1>4, <1>5, <1>6, <1>7 DEF Comes

(* The video for stability.                                                 *)
LEMMA StabilityComes == Comes("video_stability", 3845, 50, 3665, 3905)
<1> DEFINE d == Making!Definition["video_stability"]
<1>1. /\ d.registered = 120 /\ d.idle = 60 /\ d.tcp = Making!NoTcp /\ d.udp = 0
      /\ d.postUdp = 0 /\ d.video = 3600 /\ d.settle = 5 /\ d.final = 60
  BY DEF Making!Definition
<1>2. Making!NoTcp.rounds = 0 /\ Making!NoTcp.measured = 0
  BY DEF Making!NoTcp
<1> HIDE DEF d
<1>3. Making!Min({50, 60}) = 50 /\ Making!Max({600, 3905}) = 3905
  BY MinOfTwo, MaxOfTwo
<1>4. Making!ProtocolDuration("video_stability") = 3845
  BY <1>1, NoTcpTakesNothing DEF Making!ProtocolDuration, d
<1>5. Making!PingSeconds("video_stability") = 50
  BY <1>1, <1>3 DEF Making!PingSeconds, d
<1>6. \A paths \in Nat : Making!EngineSeconds("video_stability", paths) = paths * 50 + 3665
  BY <1>1, NoTcpTakesNothing, <1>5 DEF Making!EngineSeconds, d
<1>7. Making!ReservationTtl("video_stability") = 3905
  BY <1>1, <1>2, <1>3 DEF Making!ReservationTtl, d
<1> QED BY <1>4, <1>5, <1>6, <1>7 DEF Comes

(* The quick check.                                                         *)
LEMMA QuickComes == Comes("quick_check", 58, 10, 38, 600)
<1> DEFINE d == Making!Definition["quick_check"]
<1>1. /\ d.registered = 10 /\ d.idle = 10 /\ d.tcp = Making!NoTcp /\ d.udp = 0
      /\ d.postUdp = 0 /\ d.video = 30 /\ d.settle = 3 /\ d.final = 5
  BY DEF Making!Definition
<1>2. Making!NoTcp.rounds = 0 /\ Making!NoTcp.measured = 0
  BY DEF Making!NoTcp
<1> HIDE DEF d
<1>3. Making!Min({50, 10}) = 10 /\ Making!Max({600, 333}) = 600
  BY MinOfTwo, MaxOfTwo
<1>4. Making!ProtocolDuration("quick_check") = 58
  BY <1>1, NoTcpTakesNothing DEF Making!ProtocolDuration, d
<1>5. Making!PingSeconds("quick_check") = 10
  BY <1>1, <1>3 DEF Making!PingSeconds, d
<1>6. \A paths \in Nat : Making!EngineSeconds("quick_check", paths) = paths * 10 + 38
  BY <1>1, NoTcpTakesNothing, <1>5 DEF Making!EngineSeconds, d
<1>7. Making!ReservationTtl("quick_check") = 600
  BY <1>1, <1>2, <1>3 DEF Making!ReservationTtl, d
<1> QED BY <1>4, <1>5, <1>6, <1>7 DEF Comes

(* The comparable protocol, with its three rounds of TCP.                   *)
LEMMA ComparableComes == Comes("comparable_v1", 945, 50, 765, 905)
<1> DEFINE d == Making!Definition["comparable_v1"]
           tcp == d.tcp
<1>1. /\ d.registered = 120 /\ d.idle = 60 /\ d.udp = 120 /\ d.postUdp = 30
      /\ d.video = 300 /\ d.settle = 5 /\ d.final = 60
      /\ tcp.warmup = 10 /\ tcp.rounds = 3 /\ tcp.measured = 60 /\ tcp.recovery = 30
  BY DEF Making!Definition
<1> HIDE DEF tcp
<1>2. Making!TcpSeconds(tcp) = 250
  BY <1>1, MaxOfTwo DEF Making!TcpSeconds
<1>3. d.tcp = tcp
  BY DEF tcp
<1> HIDE DEF d
<1>4. Making!Min({50, 60}) = 50 /\ Making!Max({600, 905}) = 905
  BY MinOfTwo, MaxOfTwo
<1>5. Making!ProtocolDuration("comparable_v1") = 945
  BY <1>1, <1>2, <1>3 DEF Making!ProtocolDuration, d
<1>6. Making!PingSeconds("comparable_v1") = 50
  BY <1>1, <1>4 DEF Making!PingSeconds, d
<1>7. \A paths \in Nat : Making!EngineSeconds("comparable_v1", paths) = paths * 50 + 765
  BY <1>1, <1>2, <1>3, <1>6 DEF Making!EngineSeconds, d
<1>8. Making!ReservationTtl("comparable_v1") = 905
  BY <1>1, <1>3, <1>4 DEF Making!ReservationTtl, d
<1> QED BY <1>5, <1>6, <1>7, <1>8 DEF Comes

(* A reservation lasts as long as a run of one path or two, and the estimate *)
(* lacks nothing but the pings of the second.                                *)
LEMMA EstimatesSuffice ==
  ASSUME NEW p \in Making!Protocols, NEW paths \in 1 .. Making!MaxPaths
  PROVE  /\ Making!ReservationTtl(p) >= Making!EngineSeconds(p, paths)
         /\ Making!ProtocolDuration(p) + (paths - 1) * Making!PingSeconds(p)
              >= Making!Definition[p].registered + Making!EngineSeconds(p, paths)
<1>1. p \in {"video_city", "video_stability", "quick_check", "comparable_v1"}
  BY DEF Making!Protocols, Making!Definition
<1>2. /\ Making!Definition["video_city"].registered = 120
      /\ Making!Definition["video_stability"].registered = 120
      /\ Making!Definition["quick_check"].registered = 10
      /\ Making!Definition["comparable_v1"].registered = 120
  BY DEF Making!Definition
<1>3. paths \in Nat /\ paths \in {1, 2}
  BY DEF Making!MaxPaths
<1>4. CASE p = "video_city"
  BY <1>2, <1>3, <1>4, CityComes DEF Comes
<1>5. CASE p = "video_stability"
  BY <1>2, <1>3, <1>5, StabilityComes DEF Comes
<1>6. CASE p = "quick_check"
  BY <1>2, <1>3, <1>6, QuickComes DEF Comes
<1>7. CASE p = "comparable_v1"
  BY <1>2, <1>3, <1>7, ComparableComes DEF Comes
<1> QED BY <1>1, <1>4, <1>5, <1>6, <1>7

(* The numbers of a campaign's profile.                                      *)
LEMMA ProfileNumbers ==
  ASSUME NEW p \in Making!Profiles
  PROVE  LET d == Making!Definition[p] IN
         /\ p \in Making!Protocols
         /\ d.video \in {30, 300, 1800}
         /\ d.rules.cooldown \in {0, 120} /\ d.rules.failures \in {1, 3}
         /\ d.rules.percent \in Nat /\ d.rules.extra \in Nat
         /\ Making!ProtocolDuration(p) \in {58, 945, 2045}
         /\ d.comparable => Making!IsComparable(p)
<1> DEFINE d == Making!Definition[p]
<1>1. p \in {"video_city", "comparable_v1", "quick_check"}
  BY DEF Making!Profiles
<1>2. CASE p = "video_city"
  <2>1. d.video = 1800 /\ d.rules = Making!DefaultRules
    BY <1>2 DEF Making!Definition
  <2>2. /\ d.rules.cooldown = 120 /\ d.rules.failures = 3 /\ d.rules.percent = 125
        /\ d.rules.extra = 2
    BY <2>1 DEF Making!DefaultRules
  <2> QED BY <1>2, <2>1, <2>2, CityComes
        DEF Comes, Making!Protocols, Making!Definition, Making!IsComparable
<1>3. CASE p = "comparable_v1"
  <2>1. d.video = 300 /\ d.rules = Making!DefaultRules
    BY <1>3 DEF Making!Definition
  <2>2. /\ d.rules.cooldown = 120 /\ d.rules.failures = 3 /\ d.rules.percent = 125
        /\ d.rules.extra = 2
    BY <2>1 DEF Making!DefaultRules
  <2> QED BY <1>3, <2>1, <2>2, ComparableComes
        DEF Comes, Making!Protocols, Making!Definition, Making!IsComparable
<1>4. CASE p = "quick_check"
  <2>1. /\ d.video = 30 /\ d.rules.cooldown = 0 /\ d.rules.failures = 1
        /\ d.rules.percent = 100 /\ d.rules.extra = 0 /\ d.comparable = FALSE
    BY <1>4 DEF Making!Definition
  <2> QED BY <1>4, <2>1, QuickComes DEF Comes, Making!Protocols, Making!Definition
<1> QED BY <1>1, <1>2, <1>3, <1>4

(* Rounding up to whole runs covers what is asked for, and by less than one. *)
CoversJust(n, seconds, video) ==
  /\ n \in Nat /\ n >= 1
  /\ n * video >= seconds /\ n * video <= seconds + video - 1

(* Rounding up to whole runs of one of the three lengths.                   *)
LEMMA RoundsUp ==
  ASSUME NEW s \in Nat, s >= 1, NEW v \in {30, 300, 1800}
  PROVE  CoversJust(Making!CeilDiv(s, v), s, v)
<1>1. CASE v = 30
  BY <1>1 DEF Making!CeilDiv, CoversJust
<1>2. CASE v = 300
  BY <1>2 DEF Making!CeilDiv, CoversJust
<1>3. CASE v = 1800
  BY <1>3 DEF Making!CeilDiv, CoversJust
<1> QED BY <1>1, <1>2, <1>3

(* The wall time of more runs is not shorter.                               *)
LEMMA MoreRunsTakeLonger ==
  ASSUME NEW p \in Making!Profiles, NEW few \in Nat, NEW many \in Nat,
         few >= 1, few <= many
  PROVE  Making!WallSeconds(p, few) <= Making!WallSeconds(p, many)
<1> DEFINE duration == Making!ProtocolDuration(p)
           cooldown == Making!Definition[p].rules.cooldown
<1>1. duration \in {58, 945, 2045} /\ cooldown \in {0, 120}
  BY ProfileNumbers
<1>2. Making!Max({0, few - 1}) = few - 1 /\ Making!Max({0, many - 1}) = many - 1
  BY MaxOfTwo
<1>3. /\ Making!WallSeconds(p, few) = few * duration + (few - 1) * cooldown
      /\ Making!WallSeconds(p, many) = many * duration + (many - 1) * cooldown
  BY <1>2 DEF Making!WallSeconds
<1> HIDE DEF duration, cooldown
<1>4. few * duration <= many * duration
  BY <1>1
<1>5. (few - 1) * cooldown <= (many - 1) * cooldown
  BY <1>1
<1>6. few * duration \in Int /\ many * duration \in Int
        /\ (few - 1) * cooldown \in Int /\ (many - 1) * cooldown \in Int
  BY <1>1
<1> QED BY <1>3, <1>4, <1>5, <1>6

(* The sizes of a campaign's batch.                                          *)
LEMMA SecondsAreSeconds ==
  ASSUME NEW value \in Nat, NEW unit \in {"hours", "minutes"}
  PROVE  /\ Making!SecondsFromTarget(value, unit) \in Nat
         /\ Making!SecondsFromTarget(value, unit) >= 1
<1>1. Making!Multiplier[unit] \in {3600, 60}
  BY DEF Making!Multiplier
<1> DEFINE x == value * Making!Multiplier[unit]
<1>2. x \in Nat
  BY <1>1
<1> HIDE DEF x
<1>3. Making!CeilDiv(x, 10) \in Int
  BY <1>2 DEF Making!CeilDiv
<1>4. Making!SecondsFromTarget(value, unit) = Making!Max({1, Making!CeilDiv(x, 10)})
  BY DEF Making!SecondsFromTarget, x
<1> QED BY <1>3, <1>4, MaxOfTwo

(* The runs of a campaign cover the seconds it asks for, and by less than one. *)
LEMMA RunsCover ==
  ASSUME NEW aim \in Making!Aims
  PROVE  LET wanted == Making!TargetRuns(aim)
             video == Making!Definition[aim.profile].video
         IN /\ wanted \in Nat /\ wanted >= 1
            /\ wanted * video \in Making!Requested(aim) ..
                 (Making!Requested(aim) + video - 1)
<1> DEFINE video == Making!Definition[aim.profile].video
           seconds == Making!SecondsFromTarget(aim.value, aim.unit)
<1>1. /\ aim.profile \in Making!Profiles /\ aim.value \in Nat
      /\ aim.unit \in {"hours", "minutes"} /\ aim.mode \in {"streamed_time", "valid_runs"}
  BY CampaignAssumption DEF Making!Aims
<1>2. video \in {30, 300, 1800} /\ seconds \in Nat /\ seconds >= 1
  BY <1>1, ProfileNumbers, SecondsAreSeconds
<1>3. CASE aim.mode = "streamed_time"
  <2> DEFINE n == Making!CeilDiv(seconds, video)
  <2>1. Making!TargetRuns(aim) = Making!Max({1, n}) /\ Making!Requested(aim) = seconds
    BY <1>3 DEF Making!TargetRuns, Making!Requested, Making!RunsToStream
  <2> HIDE DEF video, seconds
  <2>2. n \in Nat /\ n >= 1 /\ n * video >= seconds /\ n * video <= seconds + video - 1
    <3>1. CoversJust(n, seconds, video)
      BY <1>2, RoundsUp
    <3> HIDE DEF n
    <3> QED BY <3>1 DEF CoversJust
  <2> HIDE DEF n
  <2>3. Making!TargetRuns(aim) = n
    BY <2>1, <2>2, MaxOfTwo
  <2>4. n * video \in Int /\ video \in Int
    BY <1>2, <2>2
  <2>5. n * video \in seconds .. (seconds + video - 1)
    BY <1>2, <2>2, <2>4
  <2> QED BY <2>1, <2>2, <2>3, <2>5 DEF video
<1>4. CASE aim.mode # "streamed_time"
  <2> DEFINE n == aim.value \div 10
             wanted == Making!TargetRuns(aim)
  <2>1. wanted = Making!Max({1, n}) /\ Making!Requested(aim) = wanted * video
    BY <1>4 DEF Making!TargetRuns, Making!Requested
  <2>2. n \in Int
    BY <1>1
  <2> HIDE DEF n, wanted, video
  <2>3. wanted \in Nat /\ wanted >= 1
    BY <2>1, <2>2, MaxOfTwo
  <2>4. wanted * video \in Int
    BY <1>2, <2>3
  <2> DEFINE product == wanted * video
  <2>5. product \in product .. (product + video - 1)
    <3> HIDE DEF product
    <3>1. product \in Int
      BY <2>4 DEF product
    <3> QED BY <1>2, <3>1
  <2> QED BY <2>1, <2>3, <2>5 DEF wanted, video
<1> QED BY <1>3, <1>4

(* As many attempts are allowed as runs are needed.                         *)
LEMMA AttemptsSuffice ==
  ASSUME NEW aim \in Making!Aims
  PROVE  /\ Making!MaxAttempts(aim) \in Nat
         /\ Making!TargetRuns(aim) <= Making!MaxAttempts(aim)
<1> DEFINE rules == Making!Definition[aim.profile].rules
           wanted == Making!TargetRuns(aim)
           extra == rules.extra
           percent == rules.percent
           x == wanted * percent
           y == Making!CeilDiv(x, 100)
<1>1. wanted \in Nat /\ wanted >= 1
  BY RunsCover
<1>2. extra \in Nat /\ percent \in Nat
  BY ProfileNumbers DEF Making!Aims
<1>3. Making!MaxAttempts(aim) = Making!Max({wanted + extra, y})
  BY DEF Making!MaxAttempts
<1> HIDE DEF wanted, extra, percent
<1>4. x \in Nat
  BY <1>1, <1>2
<1> HIDE DEF x
<1>5. y \in Int
  BY <1>4 DEF Making!CeilDiv
<1> HIDE DEF y
<1>6. /\ Making!MaxAttempts(aim) \in Nat /\ wanted <= Making!MaxAttempts(aim)
  BY <1>1, <1>2, <1>3, <1>5, MaxOfTwo
<1> QED BY <1>6 DEF wanted

(* What is computed for an aim fits together.                               *)
LEMMA SizesFit ==
  ASSUME NEW aim \in Making!Aims
  PROVE  LET sizes == Making!Sizes(aim) IN
         /\ 1 <= sizes.target /\ sizes.target <= sizes.attempts /\ 1 <= sizes.failures
         /\ sizes.planned \in sizes.requested ..
              (sizes.requested + Making!Definition[aim.profile].video - 1)
         /\ sizes.least <= sizes.worst
<1> DEFINE sizes == Making!Sizes(aim)
           wanted == Making!TargetRuns(aim)
           attempts == Making!MaxAttempts(aim)
           failures == Making!Definition[aim.profile].rules.failures
           requested == Making!Requested(aim)
           video == Making!Definition[aim.profile].video
           least == Making!WallSeconds(aim.profile, wanted)
           worst == Making!WallSeconds(aim.profile, attempts)
<1>1. /\ sizes.target = wanted /\ sizes.attempts = attempts /\ sizes.failures = failures
      /\ sizes.requested = requested /\ sizes.planned = wanted * video
      /\ sizes.least = least /\ sizes.worst = worst
  BY DEF Making!Sizes
<1>2. aim.profile \in Making!Profiles
  BY DEF Making!Aims
<1>3. /\ wanted \in Nat /\ wanted >= 1
      /\ wanted * video \in requested .. (requested + video - 1)
  BY RunsCover
<1>4. attempts \in Nat /\ wanted <= attempts
  BY AttemptsSuffice
<1>5. failures >= 1
  BY <1>2, ProfileNumbers
<1>6. least <= worst
  BY <1>2, <1>3, <1>4, MoreRunsTakeLonger
<1> HIDE DEF sizes, wanted, attempts, failures, requested, video, least, worst
<1>7. /\ 1 <= sizes.target /\ sizes.target <= sizes.attempts /\ 1 <= sizes.failures
      /\ sizes.planned \in sizes.requested .. (sizes.requested + video - 1)
      /\ sizes.least <= sizes.worst
  BY <1>1, <1>3, <1>4, <1>5, <1>6
<1> QED BY <1>7 DEF sizes, video

(* A step of the campaigns, or nothing of theirs changes.                   *)
LEMMA CampaignOnly ==
  [Next]_vars /\ part = "campaigns" => Making!Next \/ UNCHANGED campaignVars
  BY DEF Next, vars, restVars, campaignVars, WaitStep, UdpStep, VideoStep,
     EvidenceStep, TcpStep, RouterStep, SamplerStep, CohortStep, CampaignStep, LabStep

CampaignInv == batch = Making!NoBatch \/ Making!BatchesAreSound

(* A campaign makes a sound batch.                                          *)
LEMMA CampaignIsSound == ASSUME Making!CreateTestCampaign PROVE Making!BatchesAreSound'
<1>1. PICK asked \in Making!References, aim \in Making!Aims, state \in {"SCHEDULED", "DRAFT"} :
        /\ Making!FieldsAgree(asked, aim.profile)
        /\ Making!IsComparable(aim.profile) =>
             asked.antenna # Making!Nothing /\ Making!FieldsComplete(asked)
        /\ batch' = Making!Batch("campaign", aim.profile, asked, state, Making!Sizes(aim))
  BY Zenon DEF Making!CreateTestCampaign
<1>2. UNCHANGED <<sites, experiments, variants>>
  BY DEF Making!CreateTestCampaign
<1> DEFINE sizes == Making!Sizes(aim)
<1>3. /\ batch'.by = "campaign" /\ batch'.protocol = aim.profile
      /\ batch'.experiment = asked.experiment /\ batch'.variant = asked.variant
      /\ batch'.site = Making!SiteOf(asked) /\ batch'.antenna = asked.antenna
      /\ batch'.sizes = sizes
  <2> HIDE DEF sizes
  <2> QED BY <1>1 DEF Making!Batch, sizes
<1>4. /\ 1 <= sizes.target /\ sizes.target <= sizes.attempts /\ 1 <= sizes.failures
      /\ sizes.planned \in sizes.requested ..
           (sizes.requested + Making!Definition[aim.profile].video - 1)
      /\ sizes.least <= sizes.worst
  BY SizesFit
<1> HIDE DEF sizes
<1>5. aim.profile \in Making!Profiles
  BY DEF Making!Aims
<1>6. /\ aim.profile \in Making!Protocols
      /\ Making!Definition[aim.profile].comparable => Making!IsComparable(aim.profile)
  BY <1>5, ProfileNumbers
<1>7. Making!NumbersFit'
  BY <1>3, <1>4 DEF Making!NumbersFit
<1>8. Making!BelongsTogether'
  <2>1. /\ asked.experiment # Making!Nothing =>
             experiments[asked.experiment].protocol = aim.profile
        /\ asked.variant # Making!Nothing =>
             variants[asked.variant].experiment = asked.experiment
    BY <1>1 DEF Making!FieldsAgree, Making!KnownOrNothing, Making!ExperimentOf
  <2>2. ASSUME Making!IsComparable(aim.profile)
        PROVE  /\ asked.variant # Making!Nothing /\ Making!SiteOf(asked) \in sites
               /\ variants[asked.variant].antennas = {asked.antenna}
    <3>1. asked.antenna # Making!Nothing /\ Making!FieldsComplete(asked)
      BY <1>1, <2>2
    <3> QED BY <1>1, <3>1 DEF Making!FieldsAgree, Making!FieldsComplete,
          Making!KnownOrNothing, Making!VariantMatches
  <2> QED BY <1>2, <1>3, <1>6, <2>1, <2>2 DEF Making!BelongsTogether
<1>9. Making!EstimatesCover'
  BY <1>3, <1>6, EstimatesSuffice DEF Making!EstimatesCover
<1> QED BY <1>7, <1>8, <1>9 DEF Making!BatchesAreSound

(* A batch that is asked for directly is a sound one.                       *)
LEMMA BatchIsSound == ASSUME Making!CreateTestBatch PROVE Making!BatchesAreSound'
<1>1. PICK asked \in Making!References, p \in Making!Protocols,
           target \in 0 .. 2, attempts \in 0 .. 2, failures \in 0 .. 1 :
        /\ asked.antenna \in Making!Antennas
        /\ Making!FieldsAgree(asked, p)
        /\ Making!Definition[p].comparable => Making!FieldsComplete(asked)
        /\ target >= 1 /\ attempts >= target /\ failures >= 1
        /\ batch' = Making!Batch("batch", p, asked, "DRAFT",
             [target |-> target, attempts |-> attempts, failures |-> failures])
  BY Zenon DEF Making!CreateTestBatch
<1>2. UNCHANGED <<sites, experiments, variants>>
  BY DEF Making!CreateTestBatch
<1> DEFINE sizes == [target |-> target, attempts |-> attempts, failures |-> failures]
<1>3. sizes.target = target /\ sizes.attempts = attempts /\ sizes.failures = failures
  OBVIOUS
<1>4. /\ batch'.by = "batch" /\ batch'.protocol = p
      /\ batch'.experiment = asked.experiment /\ batch'.variant = asked.variant
      /\ batch'.site = Making!SiteOf(asked) /\ batch'.antenna = asked.antenna
      /\ batch'.sizes = sizes
  <2> HIDE DEF sizes
  <2> QED BY <1>1 DEF Making!Batch, sizes
<1> HIDE DEF sizes
<1>5. Making!NumbersFit'
  BY <1>1, <1>3, <1>4 DEF Making!NumbersFit
<1>6. Making!BelongsTogether'
  <2>1. /\ asked.experiment # Making!Nothing =>
             experiments[asked.experiment].protocol = p
        /\ asked.variant # Making!Nothing =>
             variants[asked.variant].experiment = asked.experiment
    BY <1>1 DEF Making!FieldsAgree, Making!KnownOrNothing, Making!ExperimentOf
  <2>2. ASSUME Making!Definition[p].comparable
        PROVE  /\ asked.variant # Making!Nothing /\ Making!SiteOf(asked) \in sites
               /\ variants[asked.variant].antennas = {asked.antenna}
    <3>1. asked.antenna # Making!Nothing /\ Making!FieldsComplete(asked)
      BY <1>1, <2>2 DEF Making!Antennas, Making!Nothing
    <3> QED BY <1>1, <3>1 DEF Making!FieldsAgree, Making!FieldsComplete,
          Making!KnownOrNothing, Making!VariantMatches
  <2> QED BY <1>2, <1>4, <2>1, <2>2 DEF Making!BelongsTogether
<1>7. Making!EstimatesCover'
  BY <1>4, EstimatesSuffice DEF Making!EstimatesCover
<1> QED BY <1>5, <1>6, <1>7 DEF Making!BatchesAreSound

CampaignPart == part = "campaigns" => CampaignInv

(* A batch that is made belongs together, its numbers fit, and its runs have *)
(* a reservation for the time they take.                                     *)
THEOREM Sound == Spec => []BatchesAreSound
<1>1. Init => CampaignPart
  BY DEF Init, CampaignPart, CampaignInv, Making!Init
<1>2. CampaignPart /\ [Next]_vars => CampaignPart'
  <2> SUFFICES ASSUME CampaignPart, [Next]_vars, part = "campaigns" PROVE CampaignInv'
    BY SamePart DEF CampaignPart
  <2>1. CASE Making!CreateSite \/ Making!CreateExperiment \/ Making!CreateVariant
    BY <2>1
       DEF CampaignInv, Making!CreateSite, Making!CreateExperiment,
           Making!CreateVariant
  <2>2. CASE Making!CreateTestCampaign \/ Making!CreateTestBatch
    BY <2>2, CampaignIsSound, BatchIsSound DEF CampaignInv
  <2>3. CASE UNCHANGED campaignVars
    BY <2>3
      DEF CampaignPart, campaignVars, CampaignInv, Making!BatchesAreSound, Making!Made,
        Making!NumbersFit, Making!BelongsTogether, Making!EstimatesCover
  <2> QED BY <2>1, <2>2, <2>3, CampaignOnly DEF Making!Next
<1>3. CampaignPart => BatchesAreSound
  BY DEF CampaignPart, CampaignInv, BatchesAreSound, Making!BatchesAreSound,
     Making!Made
<1> QED BY <1>1, <1>2, <1>3, PTL DEF Spec

-----------------------------------------------------------------------------
(* The sampler.  R is the longest a reading takes.  A round takes two of      *)
(* them and the wait at most one poll, so that a kind that falls due is       *)
(* overdue by two readings at most when the next round begins.                *)
LEMMA SamplerOnly ==
  [Next]_vars /\ part = "sampler" => Sampling!Next \/ UNCHANGED samplerVars
  BY DEF Next, vars, restVars, samplerVars, WaitStep, UdpStep, VideoStep,
     EvidenceStep, TcpStep, RouterStep, SamplerStep, CohortStep, CampaignStep,
     LabStep

Times == [{"latency", "radio"} -> Nat]
Engines ==
  [state : {"new", "started", "joining", "stopped"}, stop : BOOLEAN, since : Nat,
   target : BOOLEAN]
Threads ==
  [state : {"none", "loop", "latency", "radio", "waiting", "ended"}, now : Nat,
   since : Nat, wake : Nat, next : Times]

R == ReadingTime

(* What holds of the times while the sampler runs.                           *)
LatencyKept ==
  /\ thread.state = "loop" => tick - thread.next["latency"] <= 2 * R
  /\ thread.state = "latency" => thread.now - thread.next["latency"] <= 2 * R
  /\ thread.state \in {"radio", "waiting"} => thread.next["latency"] > thread.now

RadioKept ==
  /\ thread.state = "loop" => tick - thread.next["radio"] <= 2 * R
  /\ thread.state \in {"latency", "radio"} => thread.now - thread.next["radio"] <= 2 * R
  /\ thread.state = "waiting" => thread.next["radio"] > thread.now

Running ==
  /\ ~engine.stop /\ thread.state \notin {"none", "ended"}
  /\ thread.state = "latency" => thread.since = thread.now
  /\ thread.state = "radio" => thread.since <= thread.now + R
  /\ thread.state \in {"latency", "radio"} => tick <= thread.since + R
  /\ thread.state = "waiting" => tick <= thread.wake /\ thread.wake <= thread.now + 2 * R + 1
  /\ "latency" \notin failed /\ engine.target => LatencyKept
  /\ "radio" \notin failed => RadioKept

SamplerTypes ==
  /\ tick \in Nat /\ tick <= SamplerTime
  /\ engine \in Engines /\ thread \in Threads /\ failed \subseteq {"latency", "radio"}

Stopping ==
  /\ engine.since <= tick /\ thread.now <= tick
  /\ engine.state = "new" =>
       /\ thread.state = "none" /\ tick = 0 /\ ~engine.stop
       /\ thread.next["latency"] = 0 /\ thread.next["radio"] = 0
  /\ engine.state \in {"joining", "stopped"} =>
       engine.stop /\ (thread.state \in {"latency", "radio"} => thread.now <= engine.since)
  /\ engine.state = "stopped" /\ thread.state \notin {"none", "ended"} =>
       tick - engine.since >= JoinTime

SamplerInv == SamplerTypes /\ Stopping /\ (engine.state = "started" => Running)

(* Past a reading: the radio's, or the wait for the next round.              *)
PastIs(t, now, next) ==
  t \in Threads /\ t.now = now /\ t.next = next /\ t.since = tick
ReadsRadio(t, now, next) == t.state = "radio" /\ now >= next["radio"]
Waits(t) == t.state = "waiting" /\ t.wake \in {tick, tick + 1}

(* Where a round goes on after a reading.                                   *)
LEMMA OnIs ==
  ASSUME SamplerTypes, NEW now \in Nat, NEW next \in Times
  PROVE  /\ PastIs(Sampling!On(now, next, TRUE), now, next)
         /\ \/ ReadsRadio(Sampling!On(now, next, TRUE), now, next)
            \/ Waits(Sampling!On(now, next, TRUE)) /\ now < next["radio"]
         /\ PastIs(Sampling!On(now, next, FALSE), now, next)
         /\ Waits(Sampling!On(now, next, FALSE))
<1> DEFINE wake == tick + Sampling!WaitFor(now, next)
           goesOn == [[thread EXCEPT !.state = "radio", !.since = tick, !.next = next]
                        EXCEPT !.now = now]
           waits == [[thread EXCEPT !.state = "waiting", !.since = tick, !.next = next]
                       EXCEPT !.now = now, !.wake = wake]
<1>1. wake \in {tick, tick + 1} /\ wake \in Nat
  BY DEF Sampling!WaitFor, SamplerTypes
<1>2. Sampling!On(now, next, FALSE) = waits
  BY DEF Sampling!On, Sampling!At
<1>3. Sampling!On(now, next, TRUE) = IF now >= next["radio"] THEN goesOn ELSE waits
  BY DEF Sampling!On, Sampling!At, Sampling!Due
<1> HIDE DEF wake
<1>4. PastIs(goesOn, now, next) /\ goesOn.state = "radio"
  BY DEF SamplerTypes, Threads, PastIs
<1>5. PastIs(waits, now, next) /\ Waits(waits)
  BY <1>1 DEF SamplerTypes, Threads, PastIs, Waits
<1> HIDE DEF goesOn, waits
<1>6. next["radio"] \in Nat
  BY DEF Times
<1>7. CASE now >= next["radio"]
  BY <1>2, <1>3, <1>4, <1>5, <1>7 DEF ReadsRadio
<1>8. CASE now < next["radio"]
  <2>1. ~(now >= next["radio"])
    BY <1>6, <1>8
  <2> QED BY <1>2, <1>3, <1>5, <1>8, <2>1
<1>9. now >= next["radio"] \/ now < next["radio"]
  BY <1>6
<1> QED BY <1>7, <1>8, <1>9, Zenon

(* The times are numbers.                                                   *)
LEMMA TimesAre ==
  SamplerTypes => /\ {thread.next["latency"], thread.next["radio"], thread.now, thread.since,
                      thread.wake, tick, engine.since} \subseteq Nat
                  /\ thread.next \in Times
  BY DEF SamplerTypes, Engines, Threads, Times

(* A round begins, or ends the thread when stop() was called.               *)
LEMMA RoundKeeps == ASSUME SamplerInv, Sampling!Round PROVE SamplerInv'
<1> USE SamplerAssumption DEF R
<1>0. SamplerTypes /\ Stopping /\ thread.state = "loop" /\ UNCHANGED <<tick, engine, failed>>
  BY DEF SamplerInv, Sampling!Round
<1>1. CASE engine.stop
  <2>1. thread' = [thread EXCEPT !.state = "ended"]
    BY <1>1 DEF Sampling!Round
  <2>2. thread' \in Threads /\ thread'.state = "ended" /\ thread'.now = thread.now
          /\ thread'.next = thread.next
    BY <1>0, <2>1 DEF SamplerTypes, Threads
  <2>3. engine.state # "started" /\ engine.state # "new"
    BY <1>0, <1>1 DEF SamplerInv, Running, Stopping
  <2> QED BY <1>0, <2>2, <2>3 DEF SamplerInv, SamplerTypes, Stopping
<1>2. CASE ~engine.stop
  <2>1. engine.state = "started" /\ Running
    BY <1>0, <1>2 DEF SamplerInv, Stopping, SamplerTypes, Engines
  <2>2. CASE tick >= thread.next["latency"] /\ engine.target
    <3>1. thread' = [[thread EXCEPT !.state = "latency", !.since = tick, !.next = thread.next]
                       EXCEPT !.now = tick]
      BY <1>2, <2>2 DEF Sampling!Round, Sampling!Due, Sampling!At
    <3>2. /\ thread' \in Threads /\ thread'.state = "latency" /\ thread'.now = tick
          /\ thread'.since = tick /\ thread'.next = thread.next
      BY <1>0, <3>1 DEF SamplerTypes, Threads
    <3>3. SamplerTypes' /\ Stopping'
      BY <1>0, <2>1, <3>2 DEF SamplerTypes, Stopping
    <3>4. Running'
      BY <1>0, <2>1, <3>2, TimesAre DEF Running, LatencyKept, RadioKept
    <3> QED BY <3>3, <3>4 DEF SamplerInv
  <2>3. CASE ~(tick >= thread.next["latency"] /\ engine.target)
    <3>1. thread' = Sampling!On(tick, thread.next, TRUE)
      BY <1>2, <2>3 DEF Sampling!Round, Sampling!Due
    <3>2. /\ thread' \in Threads /\ thread'.now = tick /\ thread'.next = thread.next
          /\ thread'.since = tick
          /\ \/ thread'.state = "radio" /\ tick >= thread.next["radio"]
             \/ /\ thread'.state = "waiting" /\ thread'.wake \in {tick, tick + 1}
                /\ tick < thread.next["radio"]
      <4>1. tick \in Nat /\ thread.next \in Times
        BY <1>0, TimesAre
      <4> QED BY <1>0, <3>1, <4>1, OnIs DEF PastIs, ReadsRadio, Waits
    <3>3. SamplerTypes' /\ Stopping'
      BY <1>0, <2>1, <3>2 DEF SamplerTypes, Stopping
    <3>4. Running'
      BY <1>0, <2>1, <2>3, <3>2, TimesAre DEF Running, LatencyKept, RadioKept
    <3> QED BY <3>3, <3>4 DEF SamplerInv
  <2> QED BY <2>2, <2>3
<1> QED BY <1>1, <1>2

(* A reading succeeds: the next one is due an interval later.               *)
LEMMA SucceedsKeeps ==
  ASSUME SamplerInv, NEW kind \in {"latency", "radio"}, Sampling!Succeeds(kind)
  PROVE  SamplerInv'
<1> USE SamplerAssumption DEF R
<1> DEFINE next == [thread.next EXCEPT ![kind] = thread.now + Sampling!Interval[kind]]
<1>0. /\ SamplerTypes /\ Stopping /\ thread.state = kind /\ UNCHANGED <<tick, engine>>
      /\ failed' = failed \ {kind}
  BY DEF SamplerInv, Sampling!Succeeds
<1>1. Sampling!Interval[kind] \in Nat \ {0}
  BY DEF Sampling!Interval
<1>2. /\ next \in Times /\ thread.now \in Nat
      /\ next[kind] > thread.now
      /\ \A k \in {"latency", "radio"} \ {kind} : next[k] = thread.next[k]
  BY <1>0, <1>1, TimesAre DEF Times
<1>3. thread' = Sampling!On(thread.now, next, kind = "latency")
  BY DEF Sampling!Succeeds
<1> HIDE DEF next
<1>4. PastIs(thread', thread.now, next)
  <2>1. CASE kind = "latency"
    <3>1. thread' = Sampling!On(thread.now, next, TRUE)
      BY <1>3, <2>1
    <3> QED BY <1>0, <1>2, <3>1, OnIs
  <2>2. CASE kind = "radio"
    <3>1. thread' = Sampling!On(thread.now, next, FALSE)
      BY <1>3, <2>2
    <3> QED BY <1>0, <1>2, <3>1, OnIs
  <2> QED BY <2>1, <2>2
<1>5. CASE kind = "latency"
  <2>1. thread' = Sampling!On(thread.now, next, TRUE)
    BY <1>3, <1>5
  <2>2. \/ thread'.state = "radio" /\ thread.now >= next["radio"]
        \/ Waits(thread') /\ thread.now < next["radio"]
    BY <1>0, <1>2, <2>1, OnIs DEF ReadsRadio
  <2>3. SamplerTypes' /\ Stopping'
    BY <1>0, <1>4, <1>5, <2>2 DEF SamplerTypes, Stopping, PastIs, Waits
  <2>4. ASSUME engine.state = "started" PROVE Running'
    <3>1. Running
      BY <2>4 DEF SamplerInv
    <3>2. next["latency"] > thread.now /\ next["radio"] = thread.next["radio"]
      BY <1>2, <1>5
    <3>3. LatencyKept'
      BY <1>4, <2>2, <3>2 DEF LatencyKept, PastIs, Waits
    <3>4. "radio" \notin failed' => RadioKept'
      BY <1>0, <1>4, <1>5, <2>2, <3>1, <3>2 DEF Running, RadioKept, PastIs, Waits
    <3>5. tick <= thread.now + R
      BY <1>0, <1>5, <3>1, TimesAre DEF Running
    <3> QED BY <1>0, <1>4, <2>2, <3>1, <3>3, <3>4, <3>5, TimesAre
          DEF Running, PastIs, Waits
  <2> QED BY <1>0, <2>3, <2>4 DEF SamplerInv
<1>6. CASE kind = "radio"
  <2>1. thread' = Sampling!On(thread.now, next, FALSE)
    BY <1>3, <1>6
  <2>2. Waits(thread')
    BY <1>0, <1>2, <2>1, OnIs
  <2>3. SamplerTypes' /\ Stopping'
    BY <1>0, <1>4, <1>6, <2>2 DEF SamplerTypes, Stopping, PastIs, Waits
  <2>4. ASSUME engine.state = "started" PROVE Running'
    <3>1. Running
      BY <2>4 DEF SamplerInv
    <3>2. next["radio"] > thread.now /\ next["latency"] = thread.next["latency"]
      BY <1>2, <1>6
    <3>3. RadioKept'
      BY <1>4, <2>2, <3>2 DEF RadioKept, PastIs, Waits
    <3>4. "latency" \notin failed' /\ engine.target => LatencyKept'
      BY <1>0, <1>4, <1>6, <2>2, <3>1, <3>2 DEF Running, LatencyKept, PastIs, Waits
    <3>5. tick <= thread.now + 2 * R
      BY <1>0, <1>6, <3>1, TimesAre DEF Running
    <3> QED BY <1>0, <1>4, <2>2, <3>1, <3>3, <3>4, <3>5, TimesAre
          DEF Running, PastIs, Waits
  <2> QED BY <1>0, <2>3, <2>4 DEF SamplerInv
<1> QED BY <1>5, <1>6

(* A reading fails: it stays due, and its kind has failed.                  *)
LEMMA FailsKeeps ==
  ASSUME SamplerInv, NEW kind \in {"latency", "radio"}, Sampling!Fails(kind)
  PROVE  SamplerInv'
<1> USE SamplerAssumption DEF R
<1>0. /\ SamplerTypes /\ Stopping /\ thread.state = kind /\ UNCHANGED <<tick, engine>>
      /\ failed' = failed \union (IF kind = "latency" THEN {"latency", "radio"} ELSE {kind})
      /\ thread' = Sampling!On(thread.now, thread.next, FALSE)
  BY DEF SamplerInv, Sampling!Fails, Sampling!Kinds
<1>1. PastIs(thread', thread.now, thread.next) /\ Waits(thread')
  BY <1>0, OnIs, TimesAre
<1>2. SamplerTypes' /\ Stopping'
  BY <1>0, <1>1 DEF SamplerTypes, Stopping, PastIs, Waits
<1>3. ASSUME engine.state = "started" PROVE Running'
  <2>1. Running
    BY <1>3 DEF SamplerInv
  <2>2. "radio" \in failed' /\ ("latency" \notin failed' => kind = "radio" /\ "latency" \notin failed)
    BY <1>0
  <2>3. "latency" \notin failed' /\ engine.target => LatencyKept'
    BY <1>0, <1>1, <2>1, <2>2 DEF Running, LatencyKept, PastIs, Waits
  <2>4. tick <= thread.now + 2 * R
    BY <1>0, <2>1, TimesAre DEF Running
  <2>5. /\ thread'.state = "waiting" /\ thread'.now = thread.now
        /\ tick' <= thread'.wake /\ thread'.wake <= thread'.now + 2 * R + 1
    <3>1. /\ thread'.state = "waiting" /\ thread'.now = thread.now
          /\ thread'.wake \in {tick, tick + 1}
      BY <1>1 DEF PastIs, Waits
    <3>2. tick \in Nat /\ thread.now \in Nat /\ ReadingTime \in Nat /\ tick' = tick
      BY <1>0, TimesAre
    <3> QED BY <2>4, <3>1, <3>2
  <2>6. ~engine'.stop /\ engine'.target = engine.target
    BY <1>0, <2>1 DEF Running
  <2> HIDE DEF R
  <2> QED BY <2>2, <2>3, <2>5, <2>6 DEF Running
<1> QED BY <1>0, <1>2, <1>3 DEF SamplerInv

(* The wait ends.                                                           *)
LEMMA WakeKeeps == ASSUME SamplerInv, Sampling!Wake PROVE SamplerInv'
<1> USE SamplerAssumption DEF R
<1>0. /\ SamplerTypes /\ Stopping /\ thread.state = "waiting"
      /\ UNCHANGED <<tick, engine, failed>> /\ thread' = [thread EXCEPT !.state = "loop"]
  BY DEF SamplerInv, Sampling!Wake
<1>1. /\ thread' \in Threads /\ thread'.state = "loop" /\ thread'.now = thread.now
      /\ thread'.next = thread.next
  BY <1>0 DEF SamplerTypes, Threads
<1>2. SamplerTypes' /\ Stopping'
  BY <1>0, <1>1 DEF SamplerTypes, Stopping
<1>3. ASSUME engine.state = "started" PROVE Running'
  <2>1. Running
    BY <1>3 DEF SamplerInv
  <2> QED BY <1>0, <1>1, <2>1, TimesAre DEF Running, LatencyKept, RadioKept
<1> QED BY <1>0, <1>2, <1>3 DEF SamplerInv

(* A second passes.                                                         *)
LEMMA TickKeeps == ASSUME SamplerInv, Sampling!Tick PROVE SamplerInv'
<1> USE SamplerAssumption DEF R
<1>0. /\ SamplerTypes /\ Stopping /\ Sampling!MayPass /\ tick' = tick + 1
      /\ UNCHANGED <<engine, thread, failed>>
  BY DEF SamplerInv, Sampling!Tick
<1>1. SamplerTypes' /\ Stopping'
  BY <1>0, TimesAre DEF SamplerTypes, Stopping, Sampling!MayPass
<1>2. ASSUME engine.state = "started" PROVE Running'
  <2>1. Running
    BY <1>2 DEF SamplerInv
  <2> QED BY <1>0, <2>1, TimesAre
        DEF Running, LatencyKept, RadioKept, Sampling!MayPass, Sampling!Kinds
<1> QED BY <1>0, <1>1, <1>2 DEF SamplerInv

(* The engine starts the thread, stops it and joins it.                     *)
LEMMA EngineKeeps ==
  ASSUME SamplerInv, Sampling!Start \/ Sampling!Stop \/ Sampling!Join
  PROVE  SamplerInv'
<1> USE SamplerAssumption DEF R
<1>0. SamplerTypes /\ Stopping
  BY DEF SamplerInv
<1>1. CASE Sampling!Start
  <2>1. /\ engine.state = "new" /\ UNCHANGED <<tick, failed>>
        /\ engine' = [engine EXCEPT !.state = "started"]
        /\ thread' = [thread EXCEPT !.state = "loop"]
    BY <1>1 DEF Sampling!Start
  <2>2. /\ engine' \in Engines /\ engine'.state = "started" /\ engine'.stop = engine.stop
        /\ engine'.since = engine.since /\ engine'.target = engine.target
    BY <1>0, <2>1 DEF SamplerTypes, Engines
  <2>3. /\ thread' \in Threads /\ thread'.state = "loop" /\ thread'.now = thread.now
        /\ thread'.next = thread.next
    BY <1>0, <2>1 DEF SamplerTypes, Threads
  <2>4. SamplerTypes' /\ Stopping'
    BY <1>0, <2>1, <2>2, <2>3 DEF SamplerTypes, Stopping
  <2>5. Running'
    BY <1>0, <2>1, <2>2, <2>3 DEF Stopping, Running, LatencyKept, RadioKept
  <2> QED BY <2>4, <2>5 DEF SamplerInv
<1>2. CASE Sampling!Stop
  <2>1. /\ UNCHANGED <<tick, thread, failed>>
        /\ engine' = [engine EXCEPT !.state = "joining", !.stop = TRUE, !.since = tick]
    BY <1>2 DEF Sampling!Stop
  <2>2. /\ engine' \in Engines /\ engine'.state = "joining" /\ engine'.stop
        /\ engine'.since = tick
    BY <1>0, <2>1 DEF SamplerTypes, Engines
  <2>3. SamplerTypes' /\ Stopping'
    BY <1>0, <2>1, <2>2 DEF SamplerTypes, Stopping
  <2> QED BY <2>2, <2>3 DEF SamplerInv
<1>3. CASE Sampling!Join
  <2>1. /\ UNCHANGED <<tick, thread, failed>> /\ engine.state = "joining"
        /\ engine' = [engine EXCEPT !.state = "stopped"]
        /\ thread.state \in {"none", "ended"} \/ tick - engine.since >= JoinTime
    BY <1>3 DEF Sampling!Join
  <2>2. /\ engine' \in Engines /\ engine'.state = "stopped" /\ engine'.stop = engine.stop
        /\ engine'.since = engine.since
    BY <1>0, <2>1 DEF SamplerTypes, Engines
  <2>3. SamplerTypes' /\ Stopping'
    BY <1>0, <2>1, <2>2 DEF SamplerTypes, Stopping
  <2> QED BY <2>2, <2>3 DEF SamplerInv
<1> QED BY <1>1, <1>2, <1>3

SamplerPart == part = "sampler" => SamplerInv

(* The sampler keeps what holds of it.                                      *)
LEMMA SamplerPartHolds == Spec => []SamplerPart
<1>1. Init => SamplerPart
  <2> SUFFICES ASSUME Sampling!Init PROVE SamplerInv
    BY DEF Init, SamplerPart
  <2>1. /\ engine \in [state : {"new"}, stop : {FALSE}, since : {0}, target : BOOLEAN]
        /\ tick = 0 /\ failed = {}
    BY DEF Sampling!Init
  <2>2. engine \in Engines /\ engine.state = "new" /\ ~engine.stop /\ engine.since = 0
    <3>1. /\ engine.state = "new" /\ engine.stop = FALSE /\ engine.since = 0
          /\ engine.target \in BOOLEAN
      BY <2>1
    <3>2. CASE engine.target = TRUE
      <4>1. engine = [state |-> "new", stop |-> FALSE, since |-> 0, target |-> TRUE]
        BY <2>1, <3>2
      <4> QED BY <3>1, <4>1 DEF Engines
    <3>3. CASE engine.target = FALSE
      <4>1. engine = [state |-> "new", stop |-> FALSE, since |-> 0, target |-> FALSE]
        BY <2>1, <3>3
      <4> QED BY <3>1, <4>1 DEF Engines
    <3> QED BY <3>1, <3>2, <3>3
  <2>3. /\ thread \in Threads /\ thread.state = "none" /\ thread.now = 0
        /\ thread.next["latency"] = 0 /\ thread.next["radio"] = 0
    <3>1. thread = [state |-> "none", now |-> 0, since |-> 0, wake |-> 0,
                    next |-> [kind \in {"latency", "radio"} |-> 0]]
      BY DEF Sampling!Init, Sampling!Kinds
    <3>2. [kind \in {"latency", "radio"} |-> 0] \in Times
      BY DEF Times
    <3> QED BY <3>1, <3>2 DEF Threads
  <2> QED BY <2>1, <2>2, <2>3, SamplerAssumption DEF SamplerInv, SamplerTypes, Stopping
<1>2. SamplerPart /\ [Next]_vars => SamplerPart'
  <2> SUFFICES ASSUME SamplerPart, [Next]_vars, part = "sampler" PROVE SamplerInv'
    BY SamePart DEF SamplerPart
  <2>1. SamplerInv
    BY DEF SamplerPart
  <2>2. CASE Sampling!Next
    <3>1. \/ Sampling!Round \/ Sampling!Wake \/ Sampling!Tick
          \/ Sampling!Start \/ Sampling!Stop \/ Sampling!Join
          \/ \E kind \in {"latency", "radio"} : Sampling!Succeeds(kind) \/ Sampling!Fails(kind)
      BY <2>2, Zenon DEF Sampling!Next, Sampling!Kinds
    <3> QED BY <2>1, <3>1, RoundKeeps, WakeKeeps, TickKeeps, EngineKeeps, SucceedsKeeps,
          FailsKeeps, Zenon
  <2>3. CASE UNCHANGED samplerVars
    BY <2>1, <2>3
      DEF samplerVars, SamplerInv, SamplerTypes, Stopping, Running, LatencyKept, RadioKept
  <2> QED BY <2>2, <2>3, SamplerOnly
<1> QED BY <1>1, <1>2, PTL DEF Spec

(* Once stop() has returned, at most a round begun before it goes on.        *)
THEOREM Quiet == Spec => []QuietAfterStop
<1>1. SamplerPart => QuietAfterStop
  BY DEF SamplerPart, SamplerInv, Stopping, QuietAfterStop, Sampling!QuietAfterStop,
    Sampling!Kinds
<1> QED BY <1>1, SamplerPartHolds, PTL

(* A kind of reading is late only where one of it failed or was left out.    *)
THEOREM LateForAReason == Spec => []OverdueForAReason
<1>1. ASSUME SamplerInv, engine.state = "started", NEW kind \in {"latency", "radio"}
      PROVE  \/ kind \in failed
             \/ kind = "latency" /\ ~engine.target
             \/ tick - thread.next[kind] <= Sampling!InTheWay[kind]
  <2>1. /\ Sampling!InTheWay["latency"] = 3 * R /\ Sampling!InTheWay["radio"] = 4 * R
        /\ R \in Nat
    BY SamplerAssumption DEF Sampling!InTheWay, R
  <2>2. SamplerTypes /\ Running
    BY <1>1 DEF SamplerInv
  <2> HIDE DEF R
  <2>3. thread.state \in {"loop", "latency", "radio", "waiting"}
    BY <2>2 DEF SamplerTypes, Threads, Running
  <2>4. ASSUME "latency" \notin failed, engine.target
        PROVE  tick - thread.next["latency"] <= 3 * R
    BY <2>1, <2>2, <2>3, <2>4, TimesAre DEF Running, LatencyKept
  <2>5. ASSUME "radio" \notin failed
        PROVE  tick - thread.next["radio"] <= 4 * R
    BY <2>1, <2>2, <2>3, <2>5, TimesAre DEF Running, RadioKept
  <2> QED BY <1>1, <2>1, <2>4, <2>5
<1>2. SamplerPart => OverdueForAReason
  BY <1>1
     DEF SamplerPart, OverdueForAReason, Sampling!OverdueForAReason,
         Sampling!Kinds
<1> QED BY <1>2, SamplerPartHolds, PTL
=================================================================================

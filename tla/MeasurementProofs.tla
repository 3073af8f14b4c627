--------------------------- MODULE MeasurementProofs ---------------------------
(***************************************************************************)
(* What is proved of a part of a run holds of the run: every step of         *)
(* Measurement is a step of the part or leaves the part alone.  The wait,    *)
(* the video and the lab are parts with proofs of their own, in              *)
(* PreconditionsProofs, VideoProbeProofs and LabControlProofs; of the UDP    *)
(* upload and of the comparison the arguments follow here, and at the end    *)
(* the types of all parts together.                                          *)
(***************************************************************************)
EXTENDS PartProofs

WaitingProofs == INSTANCE PreconditionsProofs

LabProofs == INSTANCE LabControlProofs

VideoProofs == INSTANCE VideoProbeProofs WITH
                 sender <- videoSender, wire <- fragments, copies <- fragmentCopies

-----------------------------------------------------------------------------
(* A set of numbers has a least one, and a finite one a greatest.            *)
LEMMA LeastNumber ==
  ASSUME NEW S, S \subseteq Nat, S # {}
  PROVE  Comparing!Min(S) \in S
<1> DEFINE Below == OpToRel(<, Nat)
<1>1. IsWellFoundedOn(Below, Nat)
  BY NatLessThanWellFounded DEF OpToRel
<1> HIDE DEF Below
<1>2. PICK m \in S : ~(\E y \in S : <<y, m>> \in Below)
  BY <1>1, WFMin
<1>3. \A y \in S : m =< y
  BY <1>2 DEF Below, OpToRel
<1> QED BY <1>3 DEF Comparing!Min

LEMMA GreatestNumber ==
  ASSUME NEW S, S \subseteq Nat, S # {}, IsFiniteSet(S)
  PROVE  \E x \in S : \A y \in S : y <= x
<1> DEFINE Bounded(T) == \E x \in T : \A y \in T : y <= x
           Bad == {n \in Nat : \E T \in SUBSET S : Cardinality(T) = n /\ T # {} /\ ~Bounded(T)}
<1>1. \A T \in SUBSET S : IsFiniteSet(T) /\ Cardinality(T) \in Nat
  BY FS_Subset, FS_CardinalityType
<1>2. SUFFICES ASSUME Bad # {} PROVE FALSE
  BY <1>1
<1>3. PICK n \in Bad : \A k \in Nat : k < n => k \notin Bad
  <2> DEFINE Below == OpToRel(<, Nat)
  <2>1. IsWellFoundedOn(Below, Nat)
    BY NatLessThanWellFounded DEF OpToRel
  <2> HIDE DEF Below
  <2>2. PICK m \in Bad : ~(\E y \in Bad : <<y, m>> \in Below)
    BY <1>2, <2>1, WFMin
  <2> QED BY <2>2 DEF Below, OpToRel
<1>4. PICK T \in SUBSET S : Cardinality(T) = n /\ T # {} /\ ~Bounded(T)
  BY <1>3
<1>5. PICK x \in T : x \in Nat
  BY <1>4
<1> DEFINE rest == T \ {x}
<1>6. /\ rest \in SUBSET S /\ Cardinality(rest) = n - 1 /\ n \in Nat
      /\ Cardinality(rest) \in Nat
  BY <1>1, <1>4, <1>5, FS_RemoveElement
<1>7. rest # {}
  <2> SUFFICES ASSUME rest = {} PROVE FALSE
    OBVIOUS
  <2>1. T = {x}
    BY <1>5
  <2> QED BY <1>4, <1>5, <2>1
<1>8. n - 1 \notin Bad
  BY <1>3, <1>6
<1>9. Bounded(rest)
  BY <1>6, <1>7, <1>8
<1>10. PICK z \in rest : \A y \in rest : y <= z
  BY <1>9
<1>11. z \in Nat /\ z \in T /\ \A y \in T : y \in Nat /\ (y = x \/ y \in rest)
  BY <1>4, <1>6
<1> QED BY <1>4, <1>5, <1>10, <1>11

-----------------------------------------------------------------------------
(* The wait before the run.                                                 *)

LEMMA WaitIsAPart == Spec => WaitingProofs!Spec
<1>1. Init => WaitingProofs!Init
  BY DEF Init, Waiting!Init, Waiting!Place, Waiting!NotStable, WaitingProofs!Init,
    WaitingProofs!Place, WaitingProofs!NotStable
<1>2. Waiting!Next => WaitingProofs!Next
  BY DEF Waiting!Next, WaitingProofs!Next, Waiting!Check, WaitingProofs!Check,
    Waiting!Sample, WaitingProofs!Sample, Waiting!SampleFails, WaitingProofs!SampleFails,
    Waiting!Sleep, WaitingProofs!Sleep, Waiting!Cancel, WaitingProofs!Cancel,
    Waiting!Place, WaitingProofs!Place, Waiting!Over, WaitingProofs!Over,
    Waiting!SleepTime, WaitingProofs!SleepTime, Waiting!LeastOf, WaitingProofs!LeastOf,
    Waiting!NotBelow, WaitingProofs!NotBelow, Waiting!NotStable, WaitingProofs!NotStable,
    Waiting!Unregistered, WaitingProofs!Unregistered, Waiting!LongEnough,
    WaitingProofs!LongEnough
<1>3. [Next]_vars => Waiting!Next \/ UNCHANGED WaitingProofs!vars
  BY DEF Next, vars, waitVars, WaitStep, UdpStep, VideoStep, EvidenceStep, TcpStep,
    RouterStep, SamplerStep, CohortStep, CampaignStep, LabStep, WaitingProofs!vars
<1>4. [Next]_vars => [WaitingProofs!Next]_WaitingProofs!vars
  BY <1>2, <1>3
<1> QED BY <1>1, <1>4, PTL DEF Spec, WaitingProofs!Spec

(* A run starts only after an unbroken window of registered samples, for all *)
(* lengths of the window, the deadline, the polls and the samples.           *)
THEOREM Earned == Spec => []OkIsEarned
<1>1. WaitingProofs!OkIsEarned => OkIsEarned
  BY DEF OkIsEarned, Waiting!OkIsEarned, WaitingProofs!OkIsEarned,
    WaitingProofs!RegisteredFrom, Waiting!RegisteredFrom, Waiting!Gap, WaitingProofs!Gap
<1>2. WaitingProofs!Spec => []WaitingProofs!OkIsEarned
  BY WaitingProofs!Earned, UdpAssumption, VideoAssumption, NetworkAssumption,
    PlanAssumption, WaitAssumption, TcpAssumption, SamplerAssumption,
    ComparisonAssumption, CampaignAssumption, LabAssumption, RouterAssumption,
    PTL
<1> QED BY <1>1, <1>2, WaitIsAPart, PTL

(* An attempt is skipped for unregistered modems only if no such window      *)
(* could be completed.                                                       *)
THEOREM SkippedForAReason == Spec => []NotSkippedInVain
<1>1. WaitingProofs!NotSkippedInVain => NotSkippedInVain
  BY DEF NotSkippedInVain, Waiting!NotSkippedInVain, WaitingProofs!NotSkippedInVain,
    WaitingProofs!RegisteredFrom, Waiting!RegisteredFrom, Waiting!Gap, WaitingProofs!Gap
<1>2. WaitingProofs!Spec => []WaitingProofs!NotSkippedInVain
  BY WaitingProofs!SkippedForAReason, UdpAssumption, VideoAssumption,
     NetworkAssumption, PlanAssumption, WaitAssumption, TcpAssumption,
     SamplerAssumption, ComparisonAssumption, CampaignAssumption, LabAssumption,
     RouterAssumption, PTL
<1> QED BY <1>1, <1>2, WaitIsAPart, PTL

-----------------------------------------------------------------------------
(* The video probe.                                                         *)

LEMMA OneCardinality == \A S : Video!Cardinality(S) = VideoProofs!Cardinality(S)
BY Zenon DEF Video!Cardinality, VideoProofs!Cardinality

Reservation == reserved \in BOOLEAN

(* Of an upload, the end of the reservation and a restart of the node end    *)
(* the reservation; nothing else touches it.                                 *)
LEMMA UdpEndsItAtMost ==
  Udp!Next => reserved' = reserved \/ (Faults /\ reserved' = FALSE)
<1>1. Udp!EngineStep => reserved' = reserved
  BY Zenon DEF Udp!EngineStep, Udp!Send, Udp!StopSending, Udp!Fetch
<1>2. Udp!NetworkStep => reserved' = reserved
  BY Zenon DEF Udp!NetworkStep, Udp!Lose, Udp!Refuse, Udp!Accept
<1>3. ASSUME NEW h, Udp!Record(h) PROVE reserved' = reserved
  BY <1>3, Zenon DEF Udp!Record
<1>4. Udp!Second => reserved' = reserved
  BY Zenon DEF Udp!Second
<1>5. Udp!ReservationEnds \/ Udp!NodeRestarts => Faults /\ reserved' = FALSE
  BY Zenon DEF Udp!ReservationEnds, Udp!NodeRestarts
<1> QED BY <1>1, <1>2, <1>3, <1>4, <1>5, Zenon DEF Udp!Next, Udp!NodeStep

LEMMA TcpEndsItAtMost ==
  Tcp!Next => reserved' = reserved \/ (Faults /\ reserved' = FALSE)
<1>1. Tcp!Connect \/ Tcp!SendChunk \/ Tcp!StopSending \/ Tcp!TakeAnswer
        \/ Tcp!FindBroken \/ Tcp!Cancel \/ Tcp!KillCurl \/ Tcp!Fetch
      => reserved' = reserved
  BY Zenon DEF Tcp!Connect, Tcp!SendChunk, Tcp!StopSending, Tcp!TakeAnswer,
    Tcp!FindBroken, Tcp!Cancel, Tcp!KillCurl, Tcp!Fetch
<1>2. Tcp!Accept \/ Tcp!ReadChunk \/ Tcp!RecordTcpUpload \/ Tcp!Answer \/ Tcp!Break
      => reserved' = reserved
  BY Zenon DEF Tcp!Accept, Tcp!ReadChunk, Tcp!RecordTcpUpload, Tcp!Answer, Tcp!Break
<1>3. Tcp!NodeRestarts \/ Tcp!ReservationEnds => Faults /\ reserved' = FALSE
  BY Zenon DEF Tcp!NodeRestarts, Tcp!ReservationEnds
<1> QED BY <1>1, <1>2, <1>3, Zenon DEF Tcp!Next

LEMMA ReservationIs == Spec => []Reservation
<1>1. Init => Reservation
  BY DEF Init, Udp!Init, Reservation
<1>2. Reservation /\ [Next]_vars => Reservation'
  <2> SUFFICES ASSUME Reservation, [Next]_vars PROVE Reservation'
    OBVIOUS
  <2>1. Video!Next => UNCHANGED reserved \/ reserved' = FALSE
    BY Zenon
       DEF Video!Next, Video!SenderStep, Video!SendFragment,
           Video!StopBetweenFrames, Video!StopWithinFrame, Video!NetworkStep,
           Video!TakeIn, Video!StageStep, Video!Fetch,
           Video!FetchFails, Video!ReservationEnds
  <2>2. UNCHANGED reserved \/ reserved' = FALSE
    BY <2>1, UdpEndsItAtMost, TcpEndsItAtMost DEF Next, vars, UdpStep, VideoStep,
      WaitStep, EvidenceStep, TcpStep, RouterStep, SamplerStep, CohortStep, CampaignStep, LabStep
  <2> QED BY <2>2 DEF Reservation
<1> QED BY <1>1, <1>2, PTL DEF Spec

LEMMA VideoIsAPart == Spec => VideoProofs!Spec
<1>1. Init => VideoProofs!Init
  BY Zenon
     DEF Init, Video!Init, VideoProofs!Init, Video!NoResult,
         VideoProofs!NoResult
<1>2. Video!SenderStep => VideoProofs!SenderStep
  BY Zenon DEF Video!SenderStep, VideoProofs!SenderStep, Video!SendFragment,
    VideoProofs!SendFragment, Video!StopBetweenFrames,
    VideoProofs!StopBetweenFrames, Video!StopWithinFrame,
    VideoProofs!StopWithinFrame, Video!Sending, VideoProofs!Sending,
    Video!SentIfCut, VideoProofs!SentIfCut
<1>3. Video!NetworkStep => VideoProofs!NetworkStep
  <2>1. \A S : Video!Min(S) = VideoProofs!Min(S)
    BY DEF Video!Min, VideoProofs!Min
  <2>2. \A a, s, c, t, w, f : Video!Path(a, s, c, t, w, f) = VideoProofs!Path(a, s, c, t, w, f)
    BY DEF Video!Path, VideoProofs!Path
  <2>3. \A path, f : Video!FinalizeOne(path, f) = VideoProofs!FinalizeOne(path, f)
    BY <2>2, OneCardinality
       DEF Video!FinalizeOne, VideoProofs!FinalizeOne, Video!Without,
           VideoProofs!Without, Video!IsWhole, VideoProofs!IsWhole
  <2>4. \A path : Video!Prune(path) = VideoProofs!Prune(path)
    BY <2>1, <2>3, OneCardinality DEF Video!Prune, VideoProofs!Prune, Video!Active,
      VideoProofs!Active
  <2>5. \A path, f, i : Video!WithFragment(path, f, i) = VideoProofs!WithFragment(path, f, i)
    BY Zenon DEF Video!WithFragment, VideoProofs!WithFragment, Video!Active,
      VideoProofs!Active, Video!Path, VideoProofs!Path
  <2>6. \A path, f, i : Video!Recorded(path, f, i) = VideoProofs!Recorded(path, f, i)
    BY <2>3, <2>4, <2>5, OneCardinality DEF Video!Recorded, VideoProofs!Recorded,
      Video!TooLate, VideoProofs!TooLate, Video!IsWhole, VideoProofs!IsWhole
  <2>7. \A t, p : Video!KnownOf(t, p) = VideoProofs!KnownOf(t, p)
    BY <2>2
       DEF Video!KnownOf, VideoProofs!KnownOf, Video!Unknown,
           VideoProofs!Unknown
  <2>8. ASSUME NEW d, Video!TakeIn(d) PROVE VideoProofs!TakeIn(d)
    BY <2>6, <2>7, <2>8
       DEF Video!TakeIn, VideoProofs!TakeIn, Video!Taken, VideoProofs!Taken
  <2> QED BY <2>8 DEF Video!NetworkStep, VideoProofs!NetworkStep
<1>4. Video!StageStep => VideoProofs!StageStep
  <2>1. \A S : Video!Max(S) = VideoProofs!Max(S)
    BY DEF Video!Max, VideoProofs!Max
  <2>2. \A a, s, c, t, w, f : Video!Path(a, s, c, t, w, f) = VideoProofs!Path(a, s, c, t, w, f)
    BY DEF Video!Path, VideoProofs!Path
  <2>3. \A path : Video!FinalizeAll(path) = VideoProofs!FinalizeAll(path)
    BY <2>2, OneCardinality
       DEF Video!FinalizeAll, VideoProofs!FinalizeAll, Video!Active,
           VideoProofs!Active, Video!IsWhole, VideoProofs!IsWhole
  <2>4. Video!FinalSummary = VideoProofs!FinalSummary
    BY <2>3 DEF Video!FinalSummary, VideoProofs!FinalSummary
  <2>5. \A t, p : Video!KnownOf(t, p) = VideoProofs!KnownOf(t, p)
    BY <2>2
       DEF Video!KnownOf, VideoProofs!KnownOf, Video!Unknown,
           VideoProofs!Unknown
  <2>6. \A t, p : Video!JoinedPath(t, p) = VideoProofs!JoinedPath(t, p)
    BY <2>5
       DEF Video!JoinedPath, VideoProofs!JoinedPath, Video!NotBelow,
           VideoProofs!NotBelow
  <2>7. Video!MaxSent = VideoProofs!MaxSent
    BY <2>1 DEF Video!MaxSent, VideoProofs!MaxSent
  <2>8. \A either : Video!LongestOutage(either) = VideoProofs!LongestOutage(either)
    BY <2>1, <2>7, Zenon
       DEF Video!LongestOutage, VideoProofs!LongestOutage, Video!LostUpTo,
           VideoProofs!LostUpTo
  <2>9. ASSUME NEW t PROVE Video!DualPath(t) = VideoProofs!DualPath(t)
    <3>1. Video!Pairs(t) = VideoProofs!Pairs(t)
      BY OneCardinality DEF Video!Pairs, VideoProofs!Pairs
    <3>2. Video!FirstTwo(t) = VideoProofs!FirstTwo(t)
      BY <3>1, Zenon DEF Video!FirstTwo, VideoProofs!FirstTwo
    <3> QED BY <2>7, <2>8, <3>1, <3>2, OneCardinality
       DEF Video!DualPath, VideoProofs!DualPath, Video!NotBelow,
           VideoProofs!NotBelow, Video!Buckets, VideoProofs!Buckets,
           Video!Bucket, VideoProofs!Bucket
  <2>10. \A status, t : Video!Joined(status, t) = VideoProofs!Joined(status, t)
    BY <2>6, <2>9 DEF Video!Joined, VideoProofs!Joined
  <2>11. Video!ReadyToFetch => VideoProofs!ReadyToFetch
    BY DEF Video!ReadyToFetch, VideoProofs!ReadyToFetch, Video!NoResult,
      VideoProofs!NoResult, Video!Sending, VideoProofs!Sending
  <2> QED BY <2>4, <2>10, <2>11 DEF Video!StageStep, VideoProofs!StageStep, Video!Fetch,
      VideoProofs!Fetch, Video!FetchFails, VideoProofs!FetchFails
<1>5. Video!Next => VideoProofs!Next
  BY <1>2, <1>3, <1>4 DEF Video!Next, VideoProofs!Next, Video!ReservationEnds,
    VideoProofs!ReservationEnds
<1>6. Reservation /\ (UdpStep \/ TcpStep) => [VideoProofs!Next]_VideoProofs!vars
  <2> SUFFICES ASSUME Reservation, UdpStep \/ TcpStep, reserved' # reserved
               PROVE  VideoProofs!ReservationEnds
    BY DEF UdpStep, TcpStep, videoVars, VideoProofs!Next, VideoProofs!vars
  <2>1. Faults /\ reserved' = FALSE
    BY UdpEndsItAtMost, TcpEndsItAtMost DEF UdpStep, TcpStep
  <2>2. reserved = TRUE
    BY <2>1 DEF Reservation
  <2> QED BY <2>1, <2>2 DEF UdpStep, TcpStep, videoVars, VideoProofs!ReservationEnds
<1>7. Reservation /\ [Next]_vars => [VideoProofs!Next]_VideoProofs!vars
  BY <1>5, <1>6
     DEF Next, vars, stageVars, videoVars, VideoStep, WaitStep, EvidenceStep,
         RouterStep, SamplerStep, CohortStep, CampaignStep, LabStep,
         VideoProofs!vars
<1> QED BY <1>1, <1>7, ReservationIs, PTL DEF Spec, VideoProofs!Spec

(* Every video frame seen on a path is counted once: active, or complete, or *)
(* partial; for every number of paths, frames and fragments.                 *)
THEOREM CountedOnce == Spec => []FramesAreCountedOnce
<1>1. VideoProofs!FramesAreCountedOnce => FramesAreCountedOnce
  BY OneCardinality DEF FramesAreCountedOnce, Video!FramesAreCountedOnce,
    VideoProofs!FramesAreCountedOnce, Video!Active, VideoProofs!Active
<1>2. VideoProofs!Spec => []VideoProofs!FramesAreCountedOnce
  BY VideoProofs!CountedOnce, UdpAssumption, VideoAssumption, NetworkAssumption,
    PlanAssumption, WaitAssumption, TcpAssumption, SamplerAssumption,
    ComparisonAssumption, CampaignAssumption, LabAssumption, RouterAssumption,
    PTL
<1> QED BY <1>1, <1>2, VideoIsAPart, PTL

(* Every fragment of a video frame counted as complete has arrived.          *)
THEOREM CompleteArrived == Spec => []CompleteFramesArrived
<1>1. VideoProofs!CompleteFramesArrived => CompleteFramesArrived
  BY DEF CompleteFramesArrived, Video!CompleteFramesArrived,
    VideoProofs!CompleteFramesArrived, Video!Indices, VideoProofs!Indices
<1>2. VideoProofs!Spec => []VideoProofs!CompleteFramesArrived
  BY VideoProofs!CompleteArrived, UdpAssumption, VideoAssumption, NetworkAssumption,
    PlanAssumption, WaitAssumption, TcpAssumption, SamplerAssumption,
    ComparisonAssumption, CampaignAssumption, LabAssumption, RouterAssumption,
    PTL
<1> QED BY <1>1, <1>2, VideoIsAPart, PTL

(* In a fetched video summary the frames sent are those complete, partial    *)
(* and fully lost.                                                           *)
THEOREM RowsAreExact == Spec => []RowsAddUp
<1>1. VideoProofs!RowsAddUp => RowsAddUp
  BY DEF RowsAddUp, Video!RowsAddUp, VideoProofs!RowsAddUp, Video!Fetched,
    VideoProofs!Fetched
<1>2. VideoProofs!Spec => []VideoProofs!RowsAddUp
  BY VideoProofs!RowsAreExact, UdpAssumption, VideoAssumption, NetworkAssumption,
    PlanAssumption, WaitAssumption, TcpAssumption, SamplerAssumption,
    ComparisonAssumption, CampaignAssumption, LabAssumption, RouterAssumption,
    PTL
<1> QED BY <1>1, <1>2, VideoIsAPart, PTL

(* Of two paths or more, the loss on both, its seconds and the longest       *)
(* outage are exact.                                                         *)
THEOREM LossOnBothIsExact == Spec => []BothPathLossIsExact
<1>1. VideoProofs!BothPathLossIsExact => BothPathLossIsExact
  <2>1. \A S : Video!Max(S) = VideoProofs!Max(S)
    BY DEF Video!Max, VideoProofs!Max
  <2>2. Video!MaxSent = VideoProofs!MaxSent
    BY <2>1 DEF Video!MaxSent, VideoProofs!MaxSent
  <2>3. Video!Buckets = VideoProofs!Buckets
    BY <2>2 DEF Video!Buckets, VideoProofs!Buckets
  <2>4. Video!Fetched = VideoProofs!Fetched
    BY DEF Video!Fetched, VideoProofs!Fetched
  <2>5. Video!LostFrames = VideoProofs!LostFrames
    BY <2>2 DEF Video!LostFrames, VideoProofs!LostFrames
  <2>6. Video!Outages = VideoProofs!Outages
    BY <2>5 DEF Video!Outages, VideoProofs!Outages
  <2> DEFINE lostIn == result.dual.lostIn
  <2>8. Video!MapThenSumSet(LAMBDA b : result.dual.lostIn[b], Video!Buckets)
          = VideoProofs!MapThenSumSet(LAMBDA b : result.dual.lostIn[b], VideoProofs!Buckets)
    BY <2>3 DEF Video!MapThenSumSet, VideoProofs!MapThenSumSet,
                Video!MapThenFoldSet, VideoProofs!MapThenFoldSet
  <2> SUFFICES ASSUME VideoProofs!BothPathLossIsExact, Video!Fetched, result.dual.reported
               PROVE  /\ result.dual.lostOnBoth = Video!Cardinality(Video!LostFrames)
                      /\ result.dual.lostOnBoth
                           = Video!MapThenSumSet(LAMBDA b : result.dual.lostIn[b], Video!Buckets)
                      /\ result.dual.longest
                           \in {0} \union {Video!Cardinality(o) : o \in Video!Outages}
                      /\ \A o \in Video!Outages : Video!Cardinality(o) <= result.dual.longest
    BY DEF BothPathLossIsExact, Video!BothPathLossIsExact
  <2> QED
    BY <2>4, <2>5, <2>6, <2>8, OneCardinality DEF VideoProofs!BothPathLossIsExact
<1>2. VideoProofs!Spec => []VideoProofs!BothPathLossIsExact
  BY VideoProofs!LossOnBothIsExact, UdpAssumption, VideoAssumption, NetworkAssumption,
    PlanAssumption, WaitAssumption, TcpAssumption, SamplerAssumption,
    ComparisonAssumption, CampaignAssumption, LabAssumption, RouterAssumption,
    PTL
<1> QED BY <1>1, <1>2, VideoIsAPart, PTL

-----------------------------------------------------------------------------
(* The lab runs.                                                            *)

LEMMA LabIsTheSame == Lab!Next => LabProofs!Next
<1>1. \A q : Lab!StartCheck(q) => LabProofs!StartCheck(q)
  BY Zenon DEF
    Lab!StartCheck, LabProofs!StartCheck, Lab!LabIsFree, LabProofs!LabIsFree,
    Lab!Terminal, LabProofs!Terminal, Lab!LabRuns, LabProofs!LabRuns,
    Lab!None, LabProofs!None, Lab!At, LabProofs!At, Lab!Idle, LabProofs!Idle,
    Lab!Await, LabProofs!Await, Lab!Locked, LabProofs!Locked
<1>2. \A q : Lab!Recover(q) => LabProofs!Recover(q)
  BY Zenon DEF
    Lab!Recover, LabProofs!Recover, Lab!Made, LabProofs!Made, Lab!Unfinished,
    LabProofs!Unfinished, Lab!Marked, LabProofs!Marked, Lab!NonTerminal,
    LabProofs!NonTerminal, Lab!LabRuns, LabProofs!LabRuns, Lab!None,
    LabProofs!None, Lab!At, LabProofs!At, Lab!Await, LabProofs!Await
<1>3. \A q : Lab!RecoveryFails(q) => LabProofs!RecoveryFails(q)
  BY Zenon DEF
    Lab!RecoveryFails, LabProofs!RecoveryFails, Lab!Made, LabProofs!Made,
    Lab!Unfinished, LabProofs!Unfinished, Lab!Marked, LabProofs!Marked,
    Lab!NonTerminal, LabProofs!NonTerminal, Lab!LabRuns, LabProofs!LabRuns,
    Lab!None, LabProofs!None, Lab!At, LabProofs!At, Lab!Idle, LabProofs!Idle,
    Lab!Await, LabProofs!Await, Lab!Answer, LabProofs!Answer
<1>4. \A q : Lab!NodeIsAway(q) => LabProofs!NodeIsAway(q)
  BY Zenon DEF
    Lab!NodeIsAway, LabProofs!NodeIsAway, Lab!At, LabProofs!At, Lab!Await,
    LabProofs!Await
<1>5. \A q : Lab!Create(q) => LabProofs!Create(q)
  BY Zenon DEF
    Lab!Create, LabProofs!Create, Lab!LabRuns, LabProofs!LabRuns, Lab!Fresh,
    LabProofs!Fresh, Lab!At, LabProofs!At, Lab!Await, LabProofs!Await
<1>6. \A q : Lab!Refuse(q) => LabProofs!Refuse(q)
  BY Zenon DEF
    Lab!Refuse, LabProofs!Refuse, Lab!At, LabProofs!At, Lab!Await,
    LabProofs!Await
<1>7. \A q : Lab!ClearRefused(q) => LabProofs!ClearRefused(q)
  BY Zenon DEF
    Lab!ClearRefused, LabProofs!ClearRefused, Lab!Locked, LabProofs!Locked,
    Lab!None, LabProofs!None, Lab!At, LabProofs!At, Lab!Idle, LabProofs!Idle,
    Lab!Await, LabProofs!Await, Lab!Answer, LabProofs!Answer
<1>8. \A q : Lab!Launch(q) => LabProofs!Launch(q)
  BY Zenon DEF
    Lab!Launch, LabProofs!Launch, Lab!Forget, LabProofs!Forget, Lab!Locked,
    LabProofs!Locked, Lab!None, LabProofs!None, Lab!At, LabProofs!At,
    Lab!Idle, LabProofs!Idle, Lab!Await, LabProofs!Await, Lab!Answer,
    LabProofs!Answer
<1>9. \A q, r : Lab!CancelRead(q, r) => LabProofs!CancelRead(q, r)
  BY Zenon DEF
    Lab!CancelRead, LabProofs!CancelRead, Lab!Made, LabProofs!Made,
    Lab!LabRuns, LabProofs!LabRuns, Lab!None, LabProofs!None, Lab!At,
    LabProofs!At, Lab!Idle, LabProofs!Idle, Lab!Await, LabProofs!Await
<1>10. \A q : Lab!CancelEvent(q) => LabProofs!CancelEvent(q)
  BY Zenon DEF
    Lab!CancelEvent, LabProofs!CancelEvent, Lab!Locked, LabProofs!Locked,
    Lab!Await, LabProofs!Await
<1>11. \A q : Lab!CancelWrite(q) => LabProofs!CancelWrite(q)
  BY Zenon DEF
    Lab!CancelWrite, LabProofs!CancelWrite, Lab!Asked, LabProofs!Asked,
    Lab!None, LabProofs!None, Lab!At, LabProofs!At, Lab!Idle, LabProofs!Idle,
    Lab!Await, LabProofs!Await, Lab!Answer, LabProofs!Answer
<1>12. \A r : Lab!Load(r) => LabProofs!Load(r)
  BY Zenon DEF
    Lab!Load, LabProofs!Load, Lab!ThreadStep, LabProofs!ThreadStep,
    Lab!Going, LabProofs!Going
<1>13. \A r : Lab!Transition(r) => LabProofs!Transition(r)
  BY Zenon DEF
    Lab!Transition, LabProofs!Transition, Lab!ThreadStep,
    LabProofs!ThreadStep, Lab!Going, LabProofs!Going, Lab!Ends,
    LabProofs!Ends, Lab!Fresh, LabProofs!Fresh
<1>14. \A r : Lab!Check(r) => LabProofs!Check(r)
  BY Zenon DEF
    Lab!Check, LabProofs!Check, Lab!ThreadStep, LabProofs!ThreadStep,
    Lab!Going, LabProofs!Going, Lab!CancelSeen, LabProofs!CancelSeen
<1>15. \A r : Lab!CleanUp(r) => LabProofs!CleanUp(r)
  BY Zenon DEF
    Lab!CleanUp, LabProofs!CleanUp, Lab!ThreadStep, LabProofs!ThreadStep,
    Lab!Ends, LabProofs!Ends, Lab!Fresh, LabProofs!Fresh, Lab!CancelSeen,
    LabProofs!CancelSeen, Lab!Terminal, LabProofs!Terminal
<1>16. \A r : Lab!Conclude(r) => LabProofs!Conclude(r)
  BY Zenon DEF
    Lab!Conclude, LabProofs!Conclude, Lab!ThreadStep, LabProofs!ThreadStep,
    Lab!Ends, LabProofs!Ends, Lab!Fresh, LabProofs!Fresh
<1>17. \A r : Lab!Teardown(r) => LabProofs!Teardown(r)
  BY Zenon DEF
    Lab!Teardown, LabProofs!Teardown, Lab!ThreadStep, LabProofs!ThreadStep,
    Lab!Fresh, LabProofs!Fresh, Lab!Forget, LabProofs!Forget, Lab!Locked,
    LabProofs!Locked, Lab!None, LabProofs!None
<1>18. \A q : Lab!RequestStep(q) => LabProofs!RequestStep(q)
  BY <1>1, <1>2, <1>3, <1>4, <1>5, <1>6, <1>7, <1>8, <1>9, <1>10, <1>11, Zenon DEF
    Lab!RequestStep, LabProofs!RequestStep, Lab!LabRuns, LabProofs!LabRuns
<1>19. \A r : Lab!RunStep(r) => LabProofs!RunStep(r)
  BY <1>12, <1>13, <1>14, <1>15, <1>16, <1>17, Zenon
     DEF Lab!RunStep, LabProofs!RunStep
<1> QED BY <1>18, <1>19, Zenon DEF Lab!Next, LabProofs!Next, Lab!LabRuns, LabProofs!LabRuns

(* Where the lab runs are followed they keep the invariant of their proofs.  *)
LabPart == part = "lab" => LabProofs!LabInv

LEMMA LabPartHolds == Spec => []LabPart
<1>1. Init => LabPart
  <2>1. Init /\ part = "lab" => LabProofs!Init
    BY Zenon DEF Init,
    Lab!Init, LabProofs!Init, Lab!LabRuns, LabProofs!LabRuns, Lab!NotMade,
    LabProofs!NotMade, Lab!Fresh, LabProofs!Fresh, Lab!None, LabProofs!None,
    Lab!Idle, LabProofs!Idle, Lab!At, LabProofs!At
  <2>2. LabProofs!Init => LabProofs!LabInv
    BY LabProofs!LabInit, UdpAssumption, VideoAssumption, NetworkAssumption,
      PlanAssumption, WaitAssumption, TcpAssumption, SamplerAssumption,
      ComparisonAssumption, CampaignAssumption, LabAssumption, RouterAssumption
  <2> QED BY <2>1, <2>2 DEF LabPart
<1>2. LabPart /\ [Next]_vars => LabPart'
  <2>1. LabProofs!LabInv /\ [LabProofs!Next]_LabProofs!vars => LabProofs!LabInv'
    BY LabProofs!LabNext, UdpAssumption, VideoAssumption, NetworkAssumption,
      PlanAssumption, WaitAssumption, TcpAssumption, SamplerAssumption,
      ComparisonAssumption, CampaignAssumption, LabAssumption, RouterAssumption
  <2>2. [Next]_vars => part' = part
    BY DEF Next, vars, WaitStep, UdpStep, VideoStep, EvidenceStep, TcpStep,
      RouterStep, SamplerStep, CohortStep, CampaignStep, LabStep
  <2>3. [Next]_vars /\ part = "lab" => Lab!Next \/ UNCHANGED LabProofs!vars
    BY DEF Next, vars, restVars, labVars, WaitStep, UdpStep, VideoStep,
       EvidenceStep, TcpStep, RouterStep, SamplerStep, CohortStep, CampaignStep,
       LabStep, LabProofs!vars
  <2> QED BY <2>1, <2>2, <2>3, LabIsTheSame DEF LabPart
<1> QED BY <1>1, <1>2, PTL DEF Spec

(* A lab run that nobody cancelled has the lab for itself, for all numbers   *)
(* of requests and lab runs, but where a refused request has cleared its id. *)
THEOREM Undisturbed == Spec => []LabIsUndisturbed
<1>1. LabProofs!LabInv => LabProofs!LabIsUndisturbed
  BY LabProofs!LabInvSuffices, UdpAssumption, VideoAssumption, NetworkAssumption,
    PlanAssumption, WaitAssumption, TcpAssumption, SamplerAssumption,
    ComparisonAssumption, CampaignAssumption, LabAssumption, RouterAssumption
<1>2. LabProofs!LabIsUndisturbed => Lab!LabIsUndisturbed
  BY Zenon DEF
    Lab!LabIsUndisturbed, LabProofs!LabIsUndisturbed, Lab!LabRuns,
    LabProofs!LabRuns, Lab!Goes, LabProofs!Goes
<1>3. LabPart => LabIsUndisturbed
  BY <1>1, <1>2 DEF LabPart, LabIsUndisturbed
<1> QED BY <1>3, LabPartHolds, PTL

-----------------------------------------------------------------------------
(* The UDP upload.  A record counts the numbers it has seen, all of which    *)
(* were delivered, and misses no more than were sent.                        *)
IntervalShape == [received : Nat, unique : Nat, duplicates : Nat, outOfOrder : Nat]

RecordShape ==
  [source : Sources, start : 0 .. MaxSeconds, received : Nat, unique : Nat,
   duplicates : Nat, outOfOrder : Nat, missing : Nat, first : Int, last : Int,
   max : Int, seen : SUBSET Nat, intervals : Seq(IntervalShape)]

Within(interval, n) ==
  /\ interval.received <= n /\ interval.unique <= n
  /\ interval.duplicates <= n /\ interval.outOfOrder <= n

(* What holds of a record when the numbers below n were sent and those of    *)
(* got delivered: of any record, and of one that has counted a datagram.     *)
CountsSeen(r, n, got) ==
  /\ r \in RecordShape
  /\ r.unique <= r.received /\ r.duplicates <= r.received /\ r.outOfOrder <= r.received
  /\ r.seen \subseteq got /\ IsFiniteSet(r.seen) /\ Cardinality(r.seen) = r.unique
  /\ r.missing = 0 \/ r.missing + r.unique <= n
  /\ \A i \in DOMAIN r.intervals : Within(r.intervals[i], r.received)

Begun(r, got) == {r.first, r.last, r.max} \subseteq got
NotBegun(r) == r.first = -1 /\ r.last = -1 /\ r.max = -1 /\ r.seen = {} /\ r.unique = 0

(* One more second, or one more datagram in a second that is known.          *)
LEMMA IntervalsKeep ==
  ASSUME NEW r \in RecordShape, NEW s, NEW stamp \in Nat,
         \A i \in DOMAIN r.intervals : Within(r.intervals[i], r.received)
  PROVE  /\ Udp!Intervals(r, s, stamp) \in Seq(IntervalShape)
         /\ \A i \in DOMAIN Udp!Intervals(r, s, stamp) :
              Within(Udp!Intervals(r, s, stamp)[i], r.received + 1)
<1> DEFINE i == Udp!NotBelow(0, stamp - r.start) + 1
           repeat == IF Udp!Repeats(r, s, i) THEN 1 ELSE 0
           late == IF Udp!Late(r, s) THEN 1 ELSE 0
           padded == Udp!Padded(r.intervals, i)
           more == [received |-> padded[i].received + 1,
                    unique |-> padded[i].unique + (1 - repeat),
                    duplicates |-> padded[i].duplicates + repeat,
                    outOfOrder |-> padded[i].outOfOrder + late]
           n == Udp!NotBelow(Len(r.intervals), i)
<1>1. Udp!Intervals(r, s, stamp) = [padded EXCEPT ![i] = more]
  BY DEF Udp!Intervals
<1>2. r.intervals \in Seq(IntervalShape) /\ r.start \in Nat /\ r.received \in Nat
  BY UdpAssumption DEF RecordShape
<1>3. i \in Nat /\ i >= 1 /\ repeat \in {0, 1} /\ late \in {0, 1}
  BY <1>2 DEF Udp!NotBelow
<1>4. Len(r.intervals) \in Nat /\ DOMAIN r.intervals = 1 .. Len(r.intervals)
  BY <1>2
<1> HIDE DEF i, repeat, late
<1>5. n \in Nat /\ i <= n /\ Len(r.intervals) <= n
  BY <1>3, <1>4 DEF Udp!NotBelow
<1>6. padded = [k \in 1 .. n |-> IF k <= Len(r.intervals) THEN r.intervals[k]
                                                       ELSE Udp!NoInterval]
  BY DEF Udp!Padded
<1> HIDE DEF n
<1>7. Udp!NoInterval \in IntervalShape /\ Within(Udp!NoInterval, r.received)
  BY <1>2 DEF Udp!NoInterval, IntervalShape, Within
<1>8. \A k \in 1 .. n : padded[k] \in IntervalShape /\ Within(padded[k], r.received)
  <2> SUFFICES ASSUME NEW k \in 1 .. n
               PROVE  padded[k] \in IntervalShape /\ Within(padded[k], r.received)
    OBVIOUS
  <2>1. CASE k <= Len(r.intervals)
    <3>1. padded[k] = r.intervals[k] /\ k \in DOMAIN r.intervals
      BY <1>4, <1>5, <1>6, <2>1
    <3> QED BY <1>2, <3>1
  <2>2. CASE ~(k <= Len(r.intervals))
    BY <1>6, <1>7, <2>2
  <2> QED BY <2>1, <2>2
<1>9. padded \in Seq(IntervalShape) /\ DOMAIN padded = 1 .. n
  BY <1>5, <1>6, <1>8
<1> HIDE DEF padded
<1>10. more \in IntervalShape /\ Within(more, r.received + 1)
  <2>1. padded[i] \in IntervalShape /\ Within(padded[i], r.received)
    BY <1>3, <1>5, <1>8
  <2>2. /\ padded[i].received \in Nat /\ padded[i].unique \in Nat
        /\ padded[i].duplicates \in Nat /\ padded[i].outOfOrder \in Nat
    BY <2>1 DEF IntervalShape
  <2>3. /\ more.received = padded[i].received + 1
        /\ more.unique = padded[i].unique + (1 - repeat)
        /\ more.duplicates = padded[i].duplicates + repeat
        /\ more.outOfOrder = padded[i].outOfOrder + late
    OBVIOUS
  <2>4. more \in IntervalShape
    BY <1>3, <2>2 DEF IntervalShape
  <2> HIDE DEF more
  <2>5. Within(more, r.received + 1)
    <3>1. /\ padded[i].received <= r.received /\ padded[i].unique <= r.received
          /\ padded[i].duplicates <= r.received /\ padded[i].outOfOrder <= r.received
      BY <2>1 DEF Within
    <3>2. /\ more.received <= r.received + 1 /\ more.unique <= r.received + 1
          /\ more.duplicates <= r.received + 1 /\ more.outOfOrder <= r.received + 1
      <4> DEFINE n0 == r.received
                 p1 == padded[i].received
                 p2 == padded[i].unique
                 p3 == padded[i].duplicates
                 p4 == padded[i].outOfOrder
      <4>1. {n0, p1, p2, p3, p4} \subseteq Nat /\ p1 <= n0 /\ p2 <= n0 /\ p3 <= n0 /\ p4 <= n0
        BY <1>2, <2>2, <3>1
      <4> HIDE DEF n0, p1, p2, p3, p4
      <4>2. /\ p1 + 1 <= n0 + 1 /\ p2 + (1 - repeat) <= n0 + 1
            /\ p3 + repeat <= n0 + 1 /\ p4 + late <= n0 + 1
        BY <1>3, <4>1
      <4> QED BY <2>3, <4>2 DEF n0, p1, p2, p3, p4
    <3> QED BY <3>2 DEF Within
  <2> QED BY <2>4, <2>5
<1> HIDE DEF more
<1>11. \A k \in 1 .. n : Within(padded[k], r.received + 1)
  BY <1>2, <1>8 DEF Within, IntervalShape
<1>12. [padded EXCEPT ![i] = more] \in Seq(IntervalShape)
  BY <1>3, <1>5, <1>9, <1>10
<1>13. \A k \in DOMAIN [padded EXCEPT ![i] = more] :
         Within([padded EXCEPT ![i] = more][k], r.received + 1)
  BY <1>9, <1>10, <1>11
<1> QED BY <1>1, <1>12, <1>13

(* A datagram counts as new or as repeated.                                  *)
LEMMA RecordedKeeps ==
  ASSUME NEW n \in Nat, NEW got \in SUBSET (0 .. n - 1), NEW r, CountsSeen(r, n, got),
         Begun(r, got) \/ NotBegun(r), NEW s \in got, NEW stamp \in Nat
  PROVE  /\ CountsSeen(Udp!Recorded(r, s, stamp), n, got)
         /\ Begun(Udp!Recorded(r, s, stamp), got)
         /\ Udp!Recorded(r, s, stamp).received = r.received + 1
         /\ Udp!Recorded(r, s, stamp).source = r.source
<1> DEFINE q == Udp!Recorded(r, s, stamp)
           c == Udp!Counted(r, s)
           more == r.received + 1
           one == [r EXCEPT !.received = more]
           intervals == Udp!Intervals(r, s, stamp)
<1>1. q = [c EXCEPT !.intervals = intervals]
  BY DEF Udp!Recorded
<1>2. /\ intervals \in Seq(IntervalShape)
      /\ \A i \in DOMAIN intervals : Within(intervals[i], r.received + 1)
  BY IntervalsKeep DEF CountsSeen
<1>3. r \in RecordShape /\ s \in Nat
  BY DEF CountsSeen
<1> HIDE DEF intervals
<1>0. more \in Nat /\ more = r.received + 1
  BY <1>3 DEF RecordShape
<1>a. c = IF s \in r.seen THEN [one EXCEPT !.duplicates = one.duplicates + 1]
                          ELSE Udp!NewSequence(one, s)
  BY DEF Udp!Counted
<1> HIDE DEF more, c
<1>4. /\ one \in RecordShape /\ one.received = more /\ one.unique = r.unique
      /\ one.duplicates = r.duplicates /\ one.outOfOrder = r.outOfOrder
      /\ one.seen = r.seen /\ one.first = r.first /\ one.last = r.last /\ one.max = r.max
      /\ one.missing = r.missing /\ one.source = r.source
  BY <1>0, <1>3 DEF RecordShape
<1> HIDE DEF one
<1>5. ASSUME c \in RecordShape
      PROVE  /\ q \in RecordShape /\ q.received = c.received /\ q.unique = c.unique
             /\ q.duplicates = c.duplicates /\ q.outOfOrder = c.outOfOrder
             /\ q.seen = c.seen /\ q.first = c.first /\ q.last = c.last /\ q.max = c.max
             /\ q.missing = c.missing /\ q.source = c.source /\ q.intervals = intervals
  BY <1>1, <1>2, <1>5 DEF RecordShape
<1> HIDE DEF q
<1>6. /\ r.received \in Nat /\ r.unique \in Nat /\ r.duplicates \in Nat /\ r.outOfOrder \in Nat
      /\ r.missing \in Nat /\ r.first \in Int /\ r.last \in Int /\ r.max \in Int
      /\ r.seen \subseteq Nat
  BY <1>3 DEF RecordShape
<1>7. CASE s \in r.seen
  <2> DEFINE twice == r.duplicates + 1
  <2>1. c = [one EXCEPT !.duplicates = twice] /\ twice \in Nat
    BY <1>7, <1>4, <1>6, <1>a
  <2> HIDE DEF twice
  <2>2. /\ c \in RecordShape /\ c.received = more /\ c.unique = r.unique
        /\ c.duplicates = twice /\ c.outOfOrder = r.outOfOrder
        /\ c.seen = r.seen /\ c.first = r.first /\ c.last = r.last /\ c.max = r.max
        /\ c.missing = r.missing /\ c.source = r.source
    BY <2>1, <1>4 DEF RecordShape
  <2>3. Begun(r, got)
    BY <1>7 DEF NotBegun
  <2>4. CountsSeen(q, n, got)
    
      <3>1. q \in RecordShape /\ q.seen = r.seen /\ q.unique = r.unique
              /\ q.missing = r.missing
        BY <1>5, <2>2
      <3>2. /\ q.unique <= q.received /\ q.duplicates <= q.received
            /\ q.outOfOrder <= q.received
        <4>1. /\ r.unique <= r.received /\ r.duplicates <= r.received
              /\ r.outOfOrder <= r.received
          BY DEF CountsSeen
        <4>2. q.received = r.received + 1 /\ q.unique = r.unique
                /\ q.duplicates = r.duplicates + 1 /\ q.outOfOrder = r.outOfOrder
          BY <1>0, <1>5, <2>2 DEF twice
        <4> QED BY <1>6, <4>1, <4>2
      <3>3. \A i \in DOMAIN q.intervals : Within(q.intervals[i], q.received)
        BY <1>0, <1>2, <1>5, <2>2
      <3> QED BY <3>1, <3>2, <3>3 DEF CountsSeen
  <2> QED BY <1>0, <1>5, <2>2, <2>3, <2>4 DEF Begun, q
<1>8. CASE s \notin r.seen
  <2> DEFINE first == IF r.first = -1 THEN s ELSE r.first
             max == Udp!NotBelow(Udp!OrElse(r.max, s), s)
             unique == r.unique + 1
             missing == Udp!Missing(one, s, unique, first, max)
             late == IF Udp!Late(one, s) THEN 1 ELSE 0
             later == r.outOfOrder + late
  <2>1. c = [one EXCEPT !.seen = @ \union {s}, !.unique = unique, !.first = first,
               !.outOfOrder = later, !.last = s, !.max = max, !.missing = missing]
    BY <1>8, <1>4, <1>a DEF Udp!NewSequence, Udp!Unset
  <2>2. first \in got /\ max \in got /\ max >= s
    BY <1>6 DEF Begun, NotBegun, Udp!NotBelow, Udp!OrElse, Udp!Unset
  <2>3. late \in {0, 1} /\ unique \in Nat
    BY <1>6
  <2> HIDE DEF first, max, late
  <2>4. Udp!OrElse(max, s) <= n - 1 /\ Udp!OrElse(max, s) \in Nat
    BY <2>2, <1>3 DEF Udp!OrElse, Udp!Unset
  <2>5. Udp!OrElse(first, 0) \in Nat
    BY <2>2 DEF Udp!OrElse, Udp!Unset
  <2>6. missing \in Nat /\ (missing = 0 \/ missing + unique <= n)
    BY <2>3, <2>4, <2>5 DEF Udp!Missing, Udp!NotBelow
  <2>b. later \in Nat
    BY <1>6, <2>3
  <2> HIDE DEF missing, unique, later
  <2>c. first \in Int /\ max \in Int /\ r.seen \union {s} \in SUBSET Nat
    BY <1>3, <1>6, <2>2
  <2>d. /\ c \in RecordShape
        /\ c = [source |-> r.source, start |-> r.start, received |-> more, unique |-> unique,
                duplicates |-> r.duplicates, outOfOrder |-> later, missing |-> missing,
                first |-> first, last |-> s, max |-> max, seen |-> r.seen \union {s},
                intervals |-> r.intervals]
    <3>1. one = [source |-> r.source, start |-> r.start, received |-> more,
                 unique |-> r.unique,
                 duplicates |-> r.duplicates, outOfOrder |-> r.outOfOrder,
                 missing |-> r.missing,
                 first |-> r.first, last |-> r.last, max |-> r.max, seen |-> r.seen,
                 intervals |-> r.intervals]
      <4>1. r = [source |-> r.source, start |-> r.start, received |-> r.received,
                 unique |-> r.unique,
                 duplicates |-> r.duplicates, outOfOrder |-> r.outOfOrder,
                 missing |-> r.missing,
                 first |-> r.first, last |-> r.last, max |-> r.max, seen |-> r.seen,
                 intervals |-> r.intervals]
        BY <1>3 DEF RecordShape
      <4> QED BY <4>1 DEF one
    <3>2. r.source \in Sources /\ r.start \in 0 .. MaxSeconds /\ r.duplicates \in Nat
            /\ r.intervals \in Seq(IntervalShape)
      BY <1>3 DEF RecordShape
    <3>3. c = [source |-> r.source, start |-> r.start, received |-> more, unique |-> unique,
                duplicates |-> r.duplicates, outOfOrder |-> later, missing |-> missing,
                first |-> first, last |-> s, max |-> max, seen |-> r.seen \union {s},
                intervals |-> r.intervals]
      BY <2>1, <3>1
    <3>4. s \in Int
      BY <1>3
    <3>5. [source |-> r.source, start |-> r.start, received |-> more, unique |-> unique,
                duplicates |-> r.duplicates, outOfOrder |-> later, missing |-> missing,
                first |-> first, last |-> s, max |-> max, seen |-> r.seen \union {s},
                intervals |-> r.intervals] \in RecordShape
      BY <1>0, <2>b, <2>c, <2>3, <2>6, <3>2, <3>4 DEF RecordShape
    <3> QED BY <3>3, <3>5
  <2>7. /\ c \in RecordShape /\ c.received = more /\ c.unique = unique
        /\ c.duplicates = r.duplicates /\ c.outOfOrder = later
        /\ c.seen = r.seen \union {s} /\ c.first = first /\ c.last = s /\ c.max = max
        /\ c.missing = missing /\ c.source = r.source
    BY <2>d
  <2>8. IsFiniteSet(c.seen) /\ Cardinality(c.seen) = unique /\ c.seen \subseteq got
    <3>1. IsFiniteSet(r.seen) /\ Cardinality(r.seen) = r.unique /\ r.seen \subseteq got
      BY DEF CountsSeen
    <3>2. /\ IsFiniteSet(r.seen \union {s})
          /\ Cardinality(r.seen \union {s}) = Cardinality(r.seen) + 1
      BY <1>8, <3>1, FS_AddElement
    <3> QED BY <2>7, <3>1, <3>2 DEF unique
  <2>9. /\ c.unique <= c.received /\ c.duplicates <= c.received
        /\ c.outOfOrder <= c.received
    BY <1>0, <1>6, <2>3, <2>7 DEF CountsSeen, unique, later
  <2>10. CountsSeen(q, n, got)
    BY <1>0, <1>2, <1>5, <2>6, <2>7, <2>8, <2>9 DEF CountsSeen
  <2> QED BY <1>0, <1>5, <2>2, <2>7, <2>10 DEF Begun, q
<1> QED BY <1>7, <1>8

(* How the number of elements changes with one of them.                      *)
LEMMA Elements ==
  ASSUME NEW S, IsFiniteSet(S), NEW T
  PROVE  /\ Cardinality(S) \in Nat
         /\ T \subseteq S => IsFiniteSet(T) /\ Cardinality(T) <= Cardinality(S)
         /\ \A x : T \subseteq S \union {x}
              => IsFiniteSet(T) /\ Cardinality(T) <= Cardinality(S) + 1
         /\ \A x \in S : T \subseteq S \ {x}
              => IsFiniteSet(T) /\ Cardinality(T) <= Cardinality(S) - 1
<1>1. Cardinality(S) \in Nat
  BY FS_CardinalityType
<1>2. ASSUME NEW x, T \subseteq S \union {x}
      PROVE  IsFiniteSet(T) /\ Cardinality(T) <= Cardinality(S) + 1
  <2>1. /\ IsFiniteSet(S \union {x})
        /\ Cardinality(S \union {x}) = Cardinality(S) \/ Cardinality(S \union {x}) = Cardinality(S) + 1
    BY FS_AddElement
  <2>2. IsFiniteSet(T) /\ Cardinality(T) <= Cardinality(S \union {x})
    BY <1>2, <2>1, FS_Subset
  <2>3. Cardinality(T) \in Nat /\ Cardinality(S \union {x}) \in Nat
    BY <2>1, <2>2, FS_CardinalityType
  <2> QED BY <1>1, <2>1, <2>2, <2>3
<1>3. ASSUME NEW x \in S, T \subseteq S \ {x}
      PROVE  IsFiniteSet(T) /\ Cardinality(T) <= Cardinality(S) - 1
  <2>1. IsFiniteSet(S \ {x}) /\ Cardinality(S \ {x}) = Cardinality(S) - 1
    BY FS_RemoveElement
  <2>2. IsFiniteSet(T) /\ Cardinality(T) <= Cardinality(S \ {x})
    BY <1>3, <2>1, FS_Subset
  <2> QED BY <2>1, <2>2
<1> QED BY <1>1, <1>2, <1>3, FS_Subset

Busy(source) == {h \in Handlers : handler[h].busy /\ handler[h].source = source}
OnWire(source) == {d \in datagrams : d.source = source}
UnderWay(source) == Cardinality(Busy(source)) + Cardinality(OnWire(source))
Sent == udpSender.sent + datagramCopies

Datagrams == [sequence : Nat, source : Sources]
Hands == [busy : BOOLEAN, sequence : 0 .. MaxDatagrams,
          source : Sources \union {NoSource}, stamp : 0 .. MaxSeconds]

UdpTypes ==
  /\ udpSender \in [at : {"sending", "fetching", "done"}, sent : 0 .. MaxDatagrams]
  /\ datagrams \subseteq Datagrams /\ IsFiniteSet(datagrams)
  /\ \A d \in datagrams : d.sequence < udpSender.sent
  /\ datagramCopies \in 0 .. MaxCopies /\ clock \in 0 .. MaxSeconds
  /\ reserved \in BOOLEAN
  /\ handler \in [Handlers -> Hands]
  /\ \A h \in Handlers : handler[h].busy =>
       handler[h].sequence \in delivered /\ handler[h].source \in Sources
  /\ IsFiniteSet({h \in Handlers : handler[h].busy})
  /\ delivered \subseteq 0 .. udpSender.sent - 1

UdpRecords ==
  /\ records \in Seq(RecordShape)
  /\ \A i \in DOMAIN records :
       CountsSeen(records[i], udpSender.sent, delivered) /\ Begun(records[i], delivered)
  /\ \A i, j \in DOMAIN records : records[i].source = records[j].source => i = j

(* No source is credited with more datagrams than were sent and repeated.    *)
UdpBound ==
  \A source \in Sources :
    /\ UnderWay(source) <= Sent
    /\ \A i \in DOMAIN records :
         records[i].source = source => records[i].received + UnderWay(source) <= Sent

UdpRow ==
  /\ row \in [confirmed : BOOLEAN, sent : Int, unique : Int, missing : Int, lost : Int]
  /\ row # Udp!NoRow =>
       /\ row.sent \in 0 .. udpSender.sent
       /\ row.unique <= row.sent /\ row.lost >= row.sent - Cardinality(delivered)
       /\ row.missing >= 0 /\ row.missing <= row.lost

UdpInv == UdpTypes /\ UdpRecords /\ UdpBound /\ UdpRow

LEMMA UdpFinite ==
  ASSUME UdpTypes, NEW source
  PROVE  /\ IsFiniteSet(Busy(source)) /\ IsFiniteSet(OnWire(source))
         /\ Cardinality(Busy(source)) \in Nat /\ Cardinality(OnWire(source)) \in Nat
         /\ IsFiniteSet(delivered) /\ Cardinality(delivered) \in Nat
         /\ udpSender.sent \in Nat /\ datagramCopies \in Nat /\ Sent \in Nat
<1>1. udpSender.sent \in Nat /\ datagramCopies \in Nat
  BY UdpAssumption, NetworkAssumption DEF UdpTypes
<1>2. IsFiniteSet(Busy(source)) /\ IsFiniteSet(OnWire(source))
  <2>1. /\ Busy(source) \subseteq {h \in Handlers : handler[h].busy}
        /\ OnWire(source) \subseteq datagrams
    BY DEF Busy, OnWire
  <2> QED BY <2>1, FS_Subset DEF UdpTypes
<1>3. IsFiniteSet(delivered)
  <2>1. IsFiniteSet(0 .. udpSender.sent - 1) /\ delivered \subseteq 0 .. udpSender.sent - 1
    <3>1. 0 \in Int /\ udpSender.sent - 1 \in Int
      BY <1>1
    <3>2. IsFiniteSet(0 .. udpSender.sent - 1)
      BY <3>1, FS_Interval
    <3> QED BY <3>2 DEF UdpTypes
  <2> QED BY <2>1, FS_Subset
<1> QED BY <1>1, <1>2, <1>3, FS_CardinalityType DEF Sent

(* What was sent and delivered may grow.                                     *)
LEMMA RecordsStay ==
  ASSUME UdpTypes, UdpRecords, records' = records, udpSender'.sent \in Nat,
         udpSender'.sent >= udpSender.sent, delivered \subseteq delivered'
  PROVE  UdpRecords'
<1>1. udpSender.sent \in Nat
  BY UdpFinite
<1>2. ASSUME NEW i \in DOMAIN records
      PROVE  /\ CountsSeen(records[i], udpSender'.sent, delivered')
             /\ Begun(records[i], delivered')
  <2>1. CountsSeen(records[i], udpSender.sent, delivered) /\ Begun(records[i], delivered)
    BY <1>2 DEF UdpRecords
  <2> DEFINE r == records[i]
             n == udpSender.sent
             m == udpSender'.sent
  <2>2. r.missing = 0 \/ r.missing + r.unique <= n
    BY <2>1 DEF CountsSeen
  <2>3. r.missing \in Nat /\ r.unique \in Nat
    BY <2>1 DEF CountsSeen, RecordShape
  <2> HIDE DEF r, n, m
  <2>4. n \in Nat /\ m \in Nat /\ n <= m
    BY <1>1 DEF n, m
  <2>5. r.missing = 0 \/ r.missing + r.unique <= m
    BY <2>2, <2>3, <2>4
  <2> QED BY <2>1, <2>5 DEF CountsSeen, Begun, r, n, m
<1> QED BY <1>2 DEF UdpRecords

LEMMA BoundStays ==
  ASSUME UdpTypes, UdpRecords, UdpBound, records' = records, Sent' \in Nat,
         \A source \in Sources :
           UnderWay(source)' \in Nat /\ UnderWay(source)' - Sent' <= UnderWay(source) - Sent
  PROVE  UdpBound'
<1> SUFFICES ASSUME NEW source \in Sources
             PROVE  /\ UnderWay(source)' <= Sent'
                    /\ \A i \in DOMAIN records : records[i].source = source
                         => records[i].received + UnderWay(source)' <= Sent'
  BY DEF UdpBound
<1> DEFINE a == UnderWay(source)
           b == UnderWay(source)'
           s == Sent
           t == Sent'
<1>1. a \in Nat /\ b \in Nat /\ s \in Nat /\ t \in Nat /\ b - t <= a - s
  BY UdpFinite DEF UnderWay
<1>2. a <= s /\ \A i \in DOMAIN records : records[i].source = source
                   => records[i].received + a <= s
  BY DEF UdpBound
<1> HIDE DEF a, b, s, t
<1>3. b <= t
  BY <1>1, <1>2
<1>4. ASSUME NEW i \in DOMAIN records, records[i].source = source
      PROVE  records[i].received + b <= t
  <2>1. records[i].received \in Nat
    BY <1>4 DEF UdpRecords, CountsSeen, RecordShape
  <2>2. records[i].received + a <= s
    BY <1>2, <1>4
  <2> QED BY <1>1, <2>1, <2>2
<1> QED BY <1>3, <1>4 DEF b, t

(* The sender's steps, the clock, and the loss of a datagram.                *)
LEMMA SenderKeeps ==
  ASSUME UdpInv, Udp!Send \/ Udp!StopSending
  PROVE  UdpInv'
<1>0. /\ UdpTypes /\ UdpRecords /\ UdpBound /\ UdpRow
      /\ UNCHANGED <<datagramCopies, clock, handler, records, reserved, row, delivered>>
      /\ udpSender.at = "sending"
  BY DEF UdpInv, Udp!Send, Udp!StopSending
<1>1. /\ udpSender'.sent \in udpSender.sent .. udpSender.sent + 1
      /\ udpSender' \in [at : {"sending", "fetching", "done"}, sent : 0 .. MaxDatagrams]
      /\ \E x : datagrams' \subseteq datagrams \union {x}
      /\ datagrams' \subseteq Datagrams /\ IsFiniteSet(datagrams')
      /\ \A d \in datagrams' : d.sequence < udpSender'.sent
      /\ datagrams' = datagrams \/ udpSender'.sent = udpSender.sent + 1
  <2>1. CASE Udp!Send
    <3> DEFINE n == udpSender.sent
               more == n + 1
    <3>1. n \in Nat /\ n < MaxDatagrams /\ udpSender' = [udpSender EXCEPT !.sent = more]
      BY <1>0, <2>1, UdpAssumption DEF UdpTypes, Udp!Send
    <3>2. PICK source \in Sources : datagrams' = datagrams \union {[sequence |-> n, source |-> source]}
      BY <2>1 DEF Udp!Send
    <3> DEFINE x == [sequence |-> n, source |-> source]
    <3>3. x \in Datagrams /\ x.sequence = n
      BY <3>1 DEF Datagrams
    <3>4. IsFiniteSet(datagrams') /\ datagrams' \subseteq Datagrams
      BY <1>0, <3>2, <3>3, FS_AddElement DEF UdpTypes
    <3>5. udpSender'.sent = more /\ more \in 0 .. MaxDatagrams
            /\ udpSender' \in [at : {"sending", "fetching", "done"}, sent : 0 .. MaxDatagrams]
      <4>1. more \in 0 .. MaxDatagrams
        BY <3>1, UdpAssumption
      <4> HIDE DEF more
      <4> QED BY <1>0, <3>1, <4>1 DEF UdpTypes
    <3>6. \A d \in datagrams' : d.sequence < more
      <4>1. ASSUME NEW d \in datagrams PROVE d.sequence < more
        <5>1. d.sequence < n /\ d.sequence \in Nat
          BY <1>0 DEF UdpTypes, Datagrams
        <5> QED BY <3>1, <5>1
      <4> QED BY <3>1, <3>2, <3>3, <4>1
    <3>7. more \in n .. n + 1 /\ more = n + 1
      BY <3>1
    <3> HIDE DEF more
    <3> QED BY <3>2, <3>4, <3>5, <3>6, <3>7
  <2>2. CASE Udp!StopSending
    <3>1. datagrams' = datagrams /\ udpSender' = [udpSender EXCEPT !.at = "fetching"]
      BY <2>2 DEF Udp!StopSending
    <3>2. udpSender'.sent = udpSender.sent /\ udpSender.sent \in Nat
      BY <1>0, <3>1, UdpFinite DEF UdpTypes
    <3> QED BY <1>0, <3>1, <3>2 DEF UdpTypes
  <2> QED BY <2>1, <2>2
<1>2. udpSender.sent \in Nat /\ udpSender'.sent \in Nat /\ udpSender'.sent >= udpSender.sent
  BY <1>0, <1>1, UdpFinite
<1>3. UdpTypes'
  <2>1. delivered \subseteq 0 .. udpSender'.sent - 1
    BY <1>0, <1>2 DEF UdpTypes
  <2> QED BY <1>0, <1>1, <2>1 DEF UdpTypes
<1>4. UdpRecords'
  BY <1>0, <1>2, RecordsStay
<1>5. UdpBound'
  <2>1. Sent' \in Nat /\ Sent' - Sent = udpSender'.sent - udpSender.sent /\ Sent \in Nat
    BY <1>0, <1>2, UdpFinite DEF Sent
  <2>2. ASSUME NEW source \in Sources
        PROVE  UnderWay(source)' \in Nat /\ UnderWay(source)' - Sent' <= UnderWay(source) - Sent
    <3> DEFINE B == Cardinality(Busy(source))
               W == Cardinality(OnWire(source))
               V == Cardinality(OnWire(source)')
    <3>1. /\ IsFiniteSet(OnWire(source)) /\ B \in Nat /\ W \in Nat
      BY <1>0, UdpFinite
    <3>2. Busy(source)' = Busy(source)
      BY <1>0 DEF Busy
    <3>3. CASE datagrams' = datagrams
      <4>1. OnWire(source)' = OnWire(source)
        BY <3>3 DEF OnWire
      <4>2. UnderWay(source)' = UnderWay(source) /\ UnderWay(source) \in Nat
        BY <3>1, <3>2, <4>1 DEF UnderWay
      <4> QED BY <1>2, <2>1, <4>2
    <3>4. CASE udpSender'.sent = udpSender.sent + 1
      <4>1. PICK x : OnWire(source)' \subseteq OnWire(source) \union {x}
        BY <1>1 DEF OnWire
      <4>2. V \in Nat /\ V <= W + 1
        BY <3>1, <4>1, Elements, FS_CardinalityType
      <4>3. UnderWay(source)' = B + V /\ UnderWay(source) = B + W
        BY <3>2 DEF UnderWay
      <4> HIDE DEF B, V, W
      <4>4. Sent' = Sent + 1
        BY <1>2, <2>1, <3>4
      <4>5. B + V - (Sent + 1) <= B + W - Sent /\ B + V \in Nat
        BY <2>1, <3>1, <4>2
      <4> QED BY <2>1, <3>1, <4>2, <4>3, <4>4
    <3> QED BY <1>1, <3>3, <3>4
  <2> QED BY <1>0, <2>1, <2>2, BoundStays
<1>6. UdpRow'
  <2>1. row' = row /\ delivered' = delivered
    BY <1>0
  <2>2. row # Udp!NoRow => row.sent \in 0 .. udpSender'.sent
    BY <1>0, <1>2 DEF UdpRow
  <2> QED BY <1>0, <2>1, <2>2 DEF UdpRow, Udp!NoRow
<1> QED BY <1>3, <1>4, <1>5, <1>6 DEF UdpInv

LEMMA QuietKeeps ==
  ASSUME UdpInv, UNCHANGED <<udpSender, datagramCopies, handler, records, row, delivered>>,
         datagrams' \subseteq datagrams, clock' \in 0 .. MaxSeconds, reserved' \in BOOLEAN
  PROVE  UdpInv'
<1>0. UdpTypes /\ UdpRecords /\ UdpBound /\ UdpRow
  BY DEF UdpInv
<1>1. UdpTypes'
  BY <1>0, FS_Subset DEF UdpTypes
<1>2. UdpRecords'
  BY <1>0 DEF UdpRecords
<1>3. UdpBound'
  <2>1. Sent' = Sent /\ Sent \in Nat
    BY <1>0, UdpFinite DEF Sent
  <2>2. ASSUME NEW source \in Sources
        PROVE  UnderWay(source)' \in Nat /\ UnderWay(source)' - Sent' <= UnderWay(source) - Sent
    <3> DEFINE B == Cardinality(Busy(source))
               W == Cardinality(OnWire(source))
               V == Cardinality(OnWire(source)')
    <3>1. /\ IsFiniteSet(OnWire(source)) /\ B \in Nat /\ W \in Nat
      BY <1>0, UdpFinite
    <3>2. Busy(source)' = Busy(source) /\ OnWire(source)' \subseteq OnWire(source)
      BY DEF Busy, OnWire
    <3>3. V \in Nat /\ V <= W
      BY <3>1, <3>2, Elements, FS_CardinalityType
    <3>4. UnderWay(source)' = B + V /\ UnderWay(source) = B + W
      BY <3>2 DEF UnderWay
    <3> HIDE DEF B, V, W
    <3> QED BY <2>1, <3>1, <3>3, <3>4
  <2> QED BY <1>0, <2>1, <2>2, BoundStays
<1>4. UdpRow'
  BY <1>0 DEF UdpRow, Udp!NoRow
<1> QED BY <1>1, <1>2, <1>3, <1>4 DEF UdpInv

(* The row: what was counted of the source that appeared first.              *)
LEMMA RowIsFair ==
  ASSUME UdpTypes, UdpRecords, NEW got \in {records, << >>}
  PROVE  LET r == Udp!Row(got) IN
         /\ r \in [confirmed : BOOLEAN, sent : Int, unique : Int, missing : Int, lost : Int]
         /\ r.sent = udpSender.sent
         /\ r.unique <= r.sent /\ r.lost >= r.sent - Cardinality(delivered)
         /\ r.missing >= 0 /\ r.missing <= r.lost
<1> DEFINE unique == IF got = << >> THEN 0 ELSE got[1].unique
           counted == IF got = << >> THEN 0 ELSE got[1].missing
           n == udpSender.sent
           lost == Udp!NotBelow(0, n - unique)
           missing == Udp!OrElse(counted, lost)
           confirmed == got # << >>
           r == Udp!Row(got)
<1>1. n \in Nat /\ IsFiniteSet(delivered) /\ Cardinality(delivered) \in Nat
  BY UdpFinite
<1>2. Cardinality(delivered) <= n
  <2>1. IsFiniteSet(0 .. n - 1) /\ Cardinality(0 .. n - 1) = n
    <3>1. 0 \in Int /\ n - 1 \in Int
      BY <1>1
    <3>2. /\ IsFiniteSet(0 .. n - 1)
          /\ Cardinality(0 .. n - 1) = IF 0 > n - 1 THEN 0 ELSE (n - 1) - 0 + 1
      BY <3>1, FS_Interval
    <3> QED BY <1>1, <3>2
  <2>2. delivered \subseteq 0 .. n - 1
    BY DEF UdpTypes
  <2> QED BY <2>1, <2>2, FS_Subset
<1>3. /\ unique \in Nat /\ counted \in Nat /\ unique <= Cardinality(delivered)
      /\ counted = 0 \/ counted + unique <= n
  <2>1. CASE got = << >>
    BY <1>1, <2>1
  <2>2. CASE got # << >>
    <3>1. got = records /\ got \in Seq(RecordShape)
      BY <2>2 DEF UdpRecords
    <3>2. 1 \in DOMAIN records
      BY <2>2, <3>1, EmptySeq
    <3>3. CountsSeen(got[1], n, delivered)
      BY <3>1, <3>2 DEF UdpRecords
    <3>4. /\ unique = got[1].unique /\ counted = got[1].missing
      BY <2>2
    <3>5. unique \in Nat /\ counted \in Nat /\ (counted = 0 \/ counted + unique <= n)
      BY <3>3, <3>4 DEF CountsSeen, RecordShape
    <3>6. unique <= Cardinality(delivered)
      BY <1>1, <3>3, <3>4, FS_Subset DEF CountsSeen
    <3> QED BY <3>5, <3>6
  <2> QED BY <2>1, <2>2
<1>4. /\ r.confirmed = confirmed /\ r.sent = n /\ r.unique = unique
      /\ r.missing = missing /\ r.lost = lost
      /\ r = [confirmed |-> confirmed, sent |-> n, unique |-> unique, missing |-> missing,
              lost |-> lost]
  BY DEF Udp!Row
<1> HIDE DEF n, unique, counted
<1>5. lost = n - unique /\ lost \in Nat
  BY <1>1, <1>2, <1>3 DEF Udp!NotBelow
<1> HIDE DEF lost
<1>6. missing \in Nat /\ missing <= lost
  BY <1>1, <1>3, <1>5 DEF Udp!OrElse, Udp!Unset
<1> HIDE DEF missing
<1>7. r \in [confirmed : BOOLEAN, sent : Int, unique : Int, missing : Int, lost : Int]
  <2>1. n \in Int /\ unique \in Int /\ missing \in Int /\ lost \in Int
    BY <1>1, <1>3, <1>5, <1>6
  <2> HIDE DEF r
  <2>2. CASE confirmed
    <3>1. r = [confirmed |-> TRUE, sent |-> n, unique |-> unique, missing |-> missing,
               lost |-> lost]
      BY <1>4, <2>2, Zenon
    <3> HIDE DEF confirmed
    <3> QED BY <2>1, <3>1
  <2>3. CASE ~confirmed
    <3>1. r = [confirmed |-> FALSE, sent |-> n, unique |-> unique, missing |-> missing,
               lost |-> lost]
      BY <1>4, <2>3, Zenon
    <3> HIDE DEF confirmed
    <3> QED BY <2>1, <3>1
  <2> QED BY <2>2, <2>3
<1> HIDE DEF r, confirmed
<1>8. /\ r.unique <= r.sent /\ r.lost >= r.sent - Cardinality(delivered)
      /\ r.missing >= 0 /\ r.missing <= r.lost
  BY <1>1, <1>2, <1>3, <1>4, <1>5, <1>6
<1> QED BY <1>4, <1>7, <1>8 DEF r, n

(* The counts are fetched.                                                   *)
LEMMA FetchKeeps == ASSUME UdpInv, Udp!Fetch PROVE UdpInv'
<1>0. /\ UdpTypes /\ UdpRecords /\ UdpBound /\ UdpRow
      /\ UNCHANGED <<datagrams, datagramCopies, clock, handler, records, reserved, delivered>>
      /\ udpSender' = [udpSender EXCEPT !.at = "done"]
  BY DEF UdpInv, Udp!Fetch
<1>1. udpSender'.sent = udpSender.sent /\ udpSender.sent \in Nat
      /\ udpSender' \in [at : {"sending", "fetching", "done"}, sent : 0 .. MaxDatagrams]
  BY <1>0, UdpFinite DEF UdpTypes
<1>2. UdpTypes'
  BY <1>0, <1>1 DEF UdpTypes
<1>3. UdpRecords'
  BY <1>0, <1>1 DEF UdpRecords
<1>4. UdpBound'
  BY <1>0, <1>1 DEF UdpBound, UnderWay, Busy, OnWire, Sent
<1>5. UdpRow'
  <2>1. PICK got \in {records, << >>} : row' = Udp!Row(got)
    BY DEF Udp!Fetch
  <2> HIDE DEF Udp!Row
  <2> QED BY <1>0, <1>1, <2>1, RowIsFair DEF UdpRow
<1> QED BY <1>2, <1>3, <1>4, <1>5 DEF UdpInv

(* A datagram is taken from the network, with or without leaving a copy.     *)
LEMMA TakenIs ==
  ASSUME UdpTypes, NEW d \in datagrams, Udp!Taken(d), udpSender' = udpSender
  PROVE  /\ datagrams' \subseteq datagrams /\ IsFiniteSet(datagrams')
         /\ datagramCopies' \in 0 .. MaxCopies /\ Sent' \in Nat
         /\ \A source \in Sources :
              LET left == Cardinality(OnWire(source)') - Sent'
                  before == Cardinality(OnWire(source)) - Sent
              IN /\ Cardinality(OnWire(source)') \in Nat
                 /\ left <= before
                 /\ d.source = source => left <= before - 1
<1>1. /\ datagrams' \subseteq datagrams /\ IsFiniteSet(datagrams')
  BY FS_Subset DEF Udp!Taken, UdpTypes
<1>2. /\ datagramCopies' \in 0 .. MaxCopies /\ udpSender.sent \in Nat
      /\ datagramCopies \in Nat /\ datagramCopies' \in Nat
  BY UdpFinite, NetworkAssumption DEF UdpTypes, Udp!Taken
<1>3. Sent = udpSender.sent + datagramCopies /\ Sent' = udpSender.sent + datagramCopies'
  BY DEF Sent
<1>4. ASSUME NEW source \in Sources
      PROVE  LET left == Cardinality(OnWire(source)') - Sent'
                 before == Cardinality(OnWire(source)) - Sent
             IN /\ Cardinality(OnWire(source)') \in Nat
                /\ left <= before
                /\ d.source = source => left <= before - 1
  <2> DEFINE S == OnWire(source)
             T == OnWire(source)'
  <2>1. IsFiniteSet(S) /\ T \subseteq S /\ Cardinality(S) \in Nat
    BY <1>1, UdpFinite DEF OnWire
  <2>2. IsFiniteSet(T) /\ Cardinality(T) <= Cardinality(S) /\ Cardinality(T) \in Nat
    BY <2>1, Elements, FS_CardinalityType
  <2>3. CASE datagrams' = datagrams \ {d} /\ datagramCopies' = datagramCopies
    <3>1. d.source = source => Cardinality(T) <= Cardinality(S) - 1
      <4> SUFFICES ASSUME d.source = source PROVE Cardinality(T) <= Cardinality(S) - 1
        OBVIOUS
      <4>1. d \in S /\ T \subseteq S \ {d}
        BY <2>3 DEF OnWire
      <4> HIDE DEF S, T
      <4> QED BY <2>1, <4>1, Elements
    <3>2. Sent' = Sent /\ Sent \in Nat
      BY <1>2, <1>3, <2>3
    <3> HIDE DEF S, T
    <3>3. /\ Cardinality(T) - Sent <= Cardinality(S) - Sent
          /\ d.source = source => Cardinality(T) - Sent <= Cardinality(S) - Sent - 1
      BY <2>1, <2>2, <3>1, <3>2
    <3> QED BY <2>2, <3>2, <3>3 DEF S, T
  <2>4. CASE datagrams' = datagrams /\ datagramCopies' = datagramCopies + 1
    <3>2. Sent' = Sent + 1 /\ Sent \in Nat
      BY <1>2, <1>3, <2>4
    <3> HIDE DEF S, T
    <3>3. Cardinality(T) - (Sent + 1) <= Cardinality(S) - Sent - 1
            /\ Cardinality(T) - (Sent + 1) <= Cardinality(S) - Sent
      BY <2>1, <2>2, <3>2
    <3> QED BY <2>2, <3>2, <3>3 DEF S, T
  <2> QED BY <2>3, <2>4 DEF Udp!Taken
<1>5. Sent' \in Nat
  BY <1>2, <1>3
<1> QED BY <1>1, <1>2, <1>4, <1>5

(* A thread accepts a datagram.                                              *)
LEMMA AcceptKeeps ==
  ASSUME UdpInv, NEW h \in Handlers, NEW d \in datagrams, Udp!Accept(h, d)
  PROVE  UdpInv'
<1> DEFINE held == [busy |-> TRUE, sequence |-> d.sequence, source |-> d.source, stamp |-> clock]
<1>0. /\ UdpTypes /\ UdpRecords /\ UdpBound /\ UdpRow
      /\ UNCHANGED <<udpSender, clock, records, reserved, row>>
      /\ Udp!Taken(d) /\ ~handler[h].busy
      /\ handler' = [handler EXCEPT ![h] = held]
      /\ delivered' = delivered \union {d.sequence}
  BY DEF UdpInv, Udp!Accept
<1> DEFINE n == udpSender.sent
<1>1. /\ d.sequence \in Nat /\ d.source \in Sources /\ d.sequence < n /\ n \in 0 .. MaxDatagrams
      /\ MaxDatagrams \in Nat
  BY <1>0, UdpAssumption DEF UdpTypes, Datagrams
<1>2. d.sequence \in 0 .. n - 1 /\ d.sequence \in 0 .. MaxDatagrams /\ n \in Nat
  BY <1>1
<1>3. held \in Hands /\ held.busy /\ held.sequence = d.sequence /\ held.source = d.source
  BY <1>0, <1>1, <1>2 DEF Hands, UdpTypes
<1> HIDE DEF held
<1>4. /\ handler' \in [Handlers -> Hands] /\ handler'[h] = held
      /\ \A g \in Handlers \ {h} : handler'[g] = handler[g]
  BY <1>0, <1>3 DEF UdpTypes
<1>5. UdpTypes'
  <2>1. delivered' \subseteq 0 .. n - 1
    BY <1>0, <1>2 DEF UdpTypes
  <2>2. \A g \in Handlers : handler'[g].busy =>
          handler'[g].sequence \in delivered' /\ handler'[g].source \in Sources
    BY <1>0, <1>1, <1>3, <1>4 DEF UdpTypes
  <2>3. IsFiniteSet({g \in Handlers : handler'[g].busy})
    <3> DEFINE S == {g \in Handlers : handler[g].busy}
               T == {g \in Handlers : handler'[g].busy}
    <3>1. T \subseteq S \union {h} /\ IsFiniteSet(S)
      BY <1>0, <1>4 DEF UdpTypes
    <3> HIDE DEF S, T
    <3>2. IsFiniteSet(T)
      BY <3>1, Elements
    <3> QED BY <3>2 DEF T
  <2>4. datagrams' \subseteq datagrams /\ IsFiniteSet(datagrams') /\ datagramCopies' \in 0 .. MaxCopies
    BY <1>0, TakenIs
  <2> QED BY <1>0, <1>4, <2>1, <2>2, <2>3, <2>4 DEF UdpTypes
<1>6. UdpRecords'
  <2>1. udpSender'.sent = n
    BY <1>0
  <2>2. udpSender'.sent \in Nat /\ udpSender'.sent >= n /\ delivered \subseteq delivered'
    BY <1>0, <1>2, <2>1
  <2> QED BY <1>0, <2>2, RecordsStay
<1>7. UdpBound'
  <2>1. Sent' \in Nat /\ Sent \in Nat
    BY <1>0, TakenIs, UdpFinite
  <2>2. ASSUME NEW source \in Sources
        PROVE  UnderWay(source)' \in Nat /\ UnderWay(source)' - Sent' <= UnderWay(source) - Sent
    <3> DEFINE B == Cardinality(Busy(source))
               C == Cardinality(Busy(source)')
               W == Cardinality(OnWire(source))
               V == Cardinality(OnWire(source)')
               s == Sent
               t == Sent'
    <3>1. B \in Nat /\ W \in Nat /\ IsFiniteSet(Busy(source))
      BY <1>0, UdpFinite
    <3>2. /\ V \in Nat /\ V - t <= W - s
          /\ d.source = source => V - t <= W - s - 1
      BY <1>0, TakenIs
    <3>3. C \in Nat /\ C <= B + 1 /\ (d.source # source => C <= B)
      <4>1. Busy(source)' \subseteq Busy(source) \union {h}
        BY <1>4 DEF Busy
      <4>2. d.source # source => Busy(source)' \subseteq Busy(source)
        BY <1>3, <1>4 DEF Busy
      <4>3. IsFiniteSet(Busy(source)') /\ C <= B + 1
        BY <3>1, <4>1, Elements
      <4>4. d.source # source => C <= B
        BY <3>1, <4>2, Elements
      <4> QED BY <4>3, <4>4, FS_CardinalityType
    <3>4. UnderWay(source)' = C + V /\ UnderWay(source) = B + W
      BY DEF UnderWay
    <3>5. s \in Nat /\ t \in Nat
      BY <2>1
    <3>6. C + V - t <= B + W - s /\ C + V \in Nat
      <4> HIDE DEF B, C, V, W, s, t
      <4>1. CASE d.source = source
        BY <3>1, <3>2, <3>3, <3>5, <4>1
      <4>2. CASE d.source # source
        BY <3>1, <3>2, <3>3, <3>5, <4>2
      <4> QED BY <4>1, <4>2
    <3>7. UnderWay(source)' \in Nat /\ UnderWay(source)' - t <= UnderWay(source) - s
      <4> HIDE DEF B, C, V, W, s, t
      <4> QED BY <3>1, <3>2, <3>3, <3>4, <3>5, <3>6
    <3> QED BY <3>7
  <2> QED BY <1>0, <2>1, <2>2, BoundStays
<1>8. UdpRow'
  <2>1. row' = row /\ udpSender' = udpSender
    BY <1>0
  <2>2. row # Udp!NoRow => row.lost >= row.sent - Cardinality(delivered')
    <3> SUFFICES ASSUME row # Udp!NoRow PROVE row.lost >= row.sent - Cardinality(delivered')
      OBVIOUS
    <3>1. IsFiniteSet(delivered) /\ Cardinality(delivered) \in Nat
      BY <1>0, UdpFinite
    <3>2. IsFiniteSet(delivered') /\ Cardinality(delivered') \in Nat
      BY <1>5, UdpFinite, FS_AddElement, <3>1, <1>0, FS_CardinalityType
    <3>3. Cardinality(delivered) <= Cardinality(delivered')
      BY <1>0, <3>2, FS_Subset
    <3>4. row.sent \in Int /\ row.lost \in Int /\ row.lost >= row.sent - Cardinality(delivered)
      BY <1>0 DEF UdpRow
    <3> QED BY <3>1, <3>2, <3>3, <3>4
  <2> QED BY <1>0, <2>1, <2>2 DEF UdpRow, Udp!NoRow
<1> QED BY <1>5, <1>6, <1>7, <1>8 DEF UdpInv

(* The node refuses a datagram.                                              *)
LEMMA RefuseKeeps ==
  ASSUME UdpInv, NEW d \in datagrams, Udp!Refuse(d)
  PROVE  UdpInv'
<1>0. /\ UdpTypes /\ UdpRecords /\ UdpBound /\ UdpRow
      /\ UNCHANGED <<udpSender, clock, handler, records, reserved, row, delivered>>
      /\ Udp!Taken(d)
  BY DEF UdpInv, Udp!Refuse
<1>1. UdpTypes'
  BY <1>0, TakenIs DEF UdpTypes
<1>2. UdpRecords'
  BY <1>0 DEF UdpRecords
<1>3. UdpBound'
  <2>1. Sent' \in Nat /\ Sent \in Nat
    BY <1>0, TakenIs, UdpFinite
  <2>2. ASSUME NEW source \in Sources
        PROVE  UnderWay(source)' \in Nat /\ UnderWay(source)' - Sent' <= UnderWay(source) - Sent
    <3> DEFINE B == Cardinality(Busy(source))
               W == Cardinality(OnWire(source))
               V == Cardinality(OnWire(source)')
               s == Sent
               t == Sent'
    <3>1. B \in Nat /\ W \in Nat
      BY <1>0, UdpFinite
    <3>2. V \in Nat /\ V - t <= W - s
      BY <1>0, TakenIs
    <3>3. Busy(source)' = Busy(source)
      BY <1>0 DEF Busy
    <3>4. UnderWay(source)' = B + V /\ UnderWay(source) = B + W
      BY <3>3 DEF UnderWay
    <3>5. s \in Nat /\ t \in Nat
      BY <2>1
    <3>6. B + V - t <= B + W - s /\ B + V \in Nat
      <4> HIDE DEF B, V, W, s, t
      <4> QED BY <3>1, <3>2, <3>5
    <3>7. UnderWay(source)' \in Nat /\ UnderWay(source)' - t <= UnderWay(source) - s
      <4> HIDE DEF B, V, W, s, t
      <4> QED BY <3>1, <3>2, <3>4, <3>5, <3>6
    <3> QED BY <3>7
  <2> QED BY <1>0, <2>1, <2>2, BoundStays
<1>4. UdpRow'
  BY <1>0 DEF UdpRow, Udp!NoRow
<1> QED BY <1>1, <1>2, <1>3, <1>4 DEF UdpInv

(* A thread records its datagram: in a new record, or in that of its source. *)
LEMMA RecordedOnce ==
  ASSUME UdpInv, NEW h \in Handlers, Udp!Record(h)
  PROVE  \E k \in Nat, c \in Nat :
           /\ records' \in Seq(RecordShape) /\ k \in DOMAIN records'
           /\ CountsSeen(records'[k], udpSender.sent, delivered) /\ Begun(records'[k], delivered)
           /\ records'[k].source = handler[h].source /\ records'[k].received = c + 1
           /\ c + UnderWay(handler[h].source) <= Sent
           /\ \A j \in DOMAIN records' \ {k} :
                /\ j \in DOMAIN records /\ records'[j] = records[j]
                /\ records[j].source # handler[h].source
<1> DEFINE source == handler[h].source
           s == handler[h].sequence
           stamp == handler[h].stamp
           n == udpSender.sent
           Fine(k, c) ==
             /\ records' \in Seq(RecordShape) /\ k \in DOMAIN records'
             /\ CountsSeen(records'[k], n, delivered) /\ Begun(records'[k], delivered)
             /\ records'[k].source = source /\ records'[k].received = c + 1
             /\ c + UnderWay(source) <= Sent
             /\ \A j \in DOMAIN records' \ {k} :
                  /\ j \in DOMAIN records /\ records'[j] = records[j]
                  /\ records[j].source # source
<1>0. UdpTypes /\ UdpRecords /\ UdpBound /\ handler[h].busy
  BY DEF UdpInv, Udp!Record
<1>1. /\ s \in delivered /\ source \in Sources /\ n \in Nat /\ delivered \subseteq 0 .. n - 1
      /\ handler[h] \in Hands
  BY <1>0, UdpFinite DEF UdpTypes
<1>2. stamp \in Nat /\ stamp \in 0 .. MaxSeconds
  BY <1>1, UdpAssumption DEF Hands
<1>3. records \in Seq(RecordShape)
  BY <1>0 DEF UdpRecords
<1>4. Sent \in Nat /\ UnderWay(source) \in Nat /\ UnderWay(source) <= Sent
  BY <1>0, <1>1, UdpFinite DEF UdpBound, UnderWay
<1> HIDE DEF source, s, stamp, n
<1>5. CASE /\ Udp!RecordsOf(records, source) = {}
           /\ records' = Append(records, Udp!Recorded(Udp!NewRecord(source, stamp), s, stamp))
  <2> DEFINE r == Udp!NewRecord(source, stamp)
             q == Udp!Recorded(r, s, stamp)
             k == Len(records) + 1
  <2>1. CountsSeen(r, n, delivered) /\ NotBegun(r) /\ r.received = 0 /\ r.source = source
    <3>1. /\ r = [source |-> source, start |-> stamp, received |-> 0, unique |-> 0,
                  duplicates |-> 0, outOfOrder |-> 0, missing |-> 0, first |-> -1,
                  last |-> -1, max |-> -1, seen |-> {}, intervals |-> << >>]
      BY DEF Udp!NewRecord, Udp!Unset
    <3>2. << >> \in Seq(IntervalShape) /\ DOMAIN << >> = {}
      BY EmptySeq
    <3>3. r \in RecordShape
      BY <1>1, <1>2, <3>1, <3>2 DEF RecordShape
    <3>4. IsFiniteSet({}) /\ Cardinality({}) = 0
      BY FS_EmptySet
    <3> HIDE DEF r
    <3>5. /\ r.unique = 0 /\ r.received = 0 /\ r.duplicates = 0 /\ r.outOfOrder = 0
          /\ r.missing = 0 /\ r.seen = {} /\ r.intervals = << >> /\ r.source = source
          /\ r.first = -1 /\ r.last = -1 /\ r.max = -1
      BY <3>1
    <3> QED BY <3>2, <3>3, <3>4, <3>5 DEF CountsSeen, NotBegun
  <2> HIDE DEF r
  <2>2. /\ CountsSeen(q, n, delivered) /\ Begun(q, delivered)
        /\ q.received = r.received + 1 /\ q.source = source
    BY <1>1, <1>2, <2>1, RecordedKeeps
  <2>3. q \in RecordShape /\ records' = Append(records, q)
    BY <1>5, <2>2 DEF CountsSeen, r
  <2> HIDE DEF q
  <2>4. /\ records' \in Seq(RecordShape) /\ DOMAIN records' = 1 .. Len(records) + 1
        /\ \A j \in 1 .. Len(records) : records'[j] = records[j]
        /\ records'[Len(records) + 1] = q /\ DOMAIN records = 1 .. Len(records)
        /\ Len(records) \in Nat
    BY <1>3, <2>3, AppendProperties
  <2>5. /\ k \in Nat /\ k \in DOMAIN records' /\ records'[k] = q
        /\ \A j \in DOMAIN records' \ {k} : j \in DOMAIN records /\ records'[j] = records[j]
    BY <2>4
  <2>6. \A j \in DOMAIN records : records[j].source # source
    BY <1>5 DEF Udp!RecordsOf
  <2>7. 0 + UnderWay(source) <= Sent /\ q.received = 0 + 1
    BY <1>4, <2>1, <2>2
  <2> HIDE DEF k
  <2>8. Fine(k, 0)
    BY <2>2, <2>4, <2>5, <2>6, <2>7
  <2> QED BY <2>5, <2>8 DEF source, n
<1>6. ASSUME NEW k \in Udp!RecordsOf(records, source),
             records' = [records EXCEPT ![k] = Udp!Recorded(records[k], s, stamp)]
      PROVE  \E i \in Nat, c \in Nat : Fine(i, c)
  <2> DEFINE r == records[k]
             q == Udp!Recorded(r, s, stamp)
             c == r.received
  <2>1. k \in DOMAIN records /\ r.source = source /\ k \in 1 .. Len(records)
          /\ DOMAIN records = 1 .. Len(records) /\ Len(records) \in Nat
    BY <1>3, <1>6 DEF Udp!RecordsOf
  <2>2. CountsSeen(r, n, delivered) /\ Begun(r, delivered)
    BY <1>0, <2>1 DEF UdpRecords, n
  <2>3. /\ CountsSeen(q, n, delivered) /\ Begun(q, delivered)
        /\ q.received = r.received + 1 /\ q.source = source
    <3>1. s \in delivered /\ n \in Nat /\ delivered \subseteq 0 .. n - 1 /\ stamp \in Nat
      BY <1>1, <1>2
    <3>2. r.source = source
      BY <2>1
    <3> HIDE DEF r
    <3> QED BY <2>2, <3>1, <3>2, RecordedKeeps
  <2>4. q \in RecordShape /\ c \in Nat
    BY <2>2, <2>3 DEF CountsSeen, RecordShape
  <2>5. c + UnderWay(source) <= Sent
    BY <1>0, <1>1, <2>1 DEF UdpBound
  <2>6. \A j \in DOMAIN records \ {k} : records[j].source # source
    BY <1>0, <2>1 DEF UdpRecords
  <2>7. records' = [records EXCEPT ![k] = q]
    BY <1>6
  <2> HIDE DEF q
  <2>8. /\ records' \in Seq(RecordShape) /\ DOMAIN records' = DOMAIN records
        /\ \A j \in DOMAIN records : records'[j] = IF j = k THEN q ELSE records[j]
    BY <1>3, <2>1, <2>4, <2>7, ExceptSeq
  <2>9. Fine(k, c)
    BY <2>1, <2>3, <2>5, <2>6, <2>8
  <2>10. k \in Nat
    BY <2>1
  <2> HIDE DEF Fine, c
  <2> QED BY <2>4, <2>9, <2>10
<1>7. \/ /\ Udp!RecordsOf(records, source) = {}
         /\ records' = Append(records, Udp!Recorded(Udp!NewRecord(source, stamp), s, stamp))
      \/ \E k \in Udp!RecordsOf(records, source) :
           records' = [records EXCEPT ![k] = Udp!Recorded(records[k], s, stamp)]
  BY DEF Udp!Record, source, s, stamp
<1> QED BY <1>5, <1>6, <1>7 DEF source, n

LEMMA RecordKeeps ==
  ASSUME UdpInv, NEW h \in Handlers, Udp!Record(h)
  PROVE  UdpInv'
<1> DEFINE origins == handler[h].source
<1>0. /\ UdpTypes /\ UdpRecords /\ UdpBound /\ UdpRow
      /\ UNCHANGED <<udpSender, datagrams, datagramCopies, clock, reserved, row, delivered>>
      /\ handler[h].busy /\ handler' = [handler EXCEPT ![h] = Udp!Idle]
  BY DEF UdpInv, Udp!Record
<1>1. PICK k \in Nat, c \in Nat :
           /\ records' \in Seq(RecordShape) /\ k \in DOMAIN records'
           /\ CountsSeen(records'[k], udpSender.sent, delivered) /\ Begun(records'[k], delivered)
           /\ records'[k].source = origins /\ records'[k].received = c + 1
           /\ c + UnderWay(origins) <= Sent
           /\ \A j \in DOMAIN records' \ {k} :
                /\ j \in DOMAIN records /\ records'[j] = records[j]
                /\ records[j].source # origins
  BY RecordedOnce
<1>2. Udp!Idle \in Hands /\ ~Udp!Idle.busy
  BY UdpAssumption DEF Udp!Idle, Hands
<1>3. /\ handler' \in [Handlers -> Hands] /\ ~handler'[h].busy
      /\ \A g \in Handlers \ {h} : handler'[g] = handler[g]
  <2> HIDE DEF Udp!Idle
  <2> QED BY <1>0, <1>2 DEF UdpTypes
<1>4. UdpTypes'
  <2>1. {g \in Handlers : handler'[g].busy} \subseteq {g \in Handlers : handler[g].busy}
    BY <1>0, <1>3
  <2>2. IsFiniteSet({g \in Handlers : handler'[g].busy})
    BY <1>0, <2>1, FS_Subset DEF UdpTypes
  <2>3. \A g \in Handlers : handler'[g].busy =>
          handler'[g].sequence \in delivered /\ handler'[g].source \in Sources
    BY <1>0, <1>3 DEF UdpTypes
  <2> QED BY <1>0, <1>3, <2>2, <2>3 DEF UdpTypes
<1>5. UdpRecords'
  <2>1. ASSUME NEW j \in DOMAIN records'
        PROVE  /\ CountsSeen(records'[j], udpSender.sent, delivered)
               /\ Begun(records'[j], delivered)
    BY <1>0, <1>1 DEF UdpRecords
  <2>2. ASSUME NEW i \in DOMAIN records', NEW j \in DOMAIN records',
               records'[i].source = records'[j].source
        PROVE  i = j
    <3>1. CASE i # k /\ j # k
      BY <1>0, <1>1, <2>2, <3>1 DEF UdpRecords
    <3>2. CASE i = k \/ j = k
      BY <1>1, <2>2, <3>2
    <3> QED BY <3>1, <3>2
  <2> QED BY <1>0, <1>1, <2>1, <2>2 DEF UdpRecords
<1>6. UdpBound'
  <2>1. Sent' = Sent /\ Sent \in Nat
    BY <1>0, UdpFinite DEF Sent
  <2>2. ASSUME NEW source \in Sources
        PROVE  /\ UnderWay(source)' \in Nat /\ UnderWay(source) \in Nat
               /\ UnderWay(source)' <= UnderWay(source)
               /\ source = origins => UnderWay(source)' + 1 <= UnderWay(source)
    <3> DEFINE B == Cardinality(Busy(source))
               C == Cardinality(Busy(source)')
               W == Cardinality(OnWire(source))
    <3>1. B \in Nat /\ W \in Nat /\ IsFiniteSet(Busy(source))
      BY <1>0, UdpFinite
    <3>2. Busy(source)' \subseteq Busy(source) \ {h} /\ (source = origins => h \in Busy(source))
      BY <1>0, <1>3 DEF Busy
    <3>3. C <= B /\ IsFiniteSet(Busy(source)') /\ (source = origins => C <= B - 1)
      BY <3>1, <3>2, Elements
    <3>4. C \in Nat
      BY <3>3, FS_CardinalityType
    <3>5. OnWire(source)' = OnWire(source)
      BY <1>0 DEF OnWire
    <3>6. UnderWay(source)' = C + W /\ UnderWay(source) = B + W
      BY <3>5 DEF UnderWay
    <3> HIDE DEF B, C, W, origins
    <3> QED BY <3>1, <3>3, <3>4, <3>6
  <2>3. ASSUME NEW source \in Sources PROVE UnderWay(source)' <= Sent
    <3> DEFINE a == UnderWay(source)
               b == UnderWay(source)'
               s == Sent
    <3>1. a \in Nat /\ b \in Nat /\ b <= a /\ a <= s /\ s \in Nat
      BY <1>0, <2>1, <2>2 DEF UdpBound
    <3> HIDE DEF a, b, s
    <3>2. b <= s
      BY <3>1
    <3> QED BY <3>2 DEF b, s
  <2>4. ASSUME NEW source \in Sources, NEW j \in DOMAIN records', records'[j].source = source
        PROVE  records'[j].received + UnderWay(source)' <= Sent
    <3> DEFINE a == UnderWay(source)
               b == UnderWay(source)'
               s == Sent
    <3>1. a \in Nat /\ b \in Nat /\ b <= a /\ s \in Nat
      BY <2>1, <2>2
    <3>2. CASE j = k
      <4>1. source = origins /\ records'[j].received = c + 1
        BY <1>1, <2>4, <3>2
      <4>2. b + 1 <= a /\ c + a <= s
        BY <1>1, <2>2, <4>1
      <4> HIDE DEF a, b, s
      <4>3. c + 1 + b <= s
        BY <3>1, <4>2
      <4> QED BY <4>1, <4>3 DEF b, s
    <3>3. CASE j # k
      <4>1. j \in DOMAIN records /\ records'[j] = records[j]
        BY <1>1, <3>3
      <4> DEFINE m == records[j].received
      <4>2. m + a <= s
        BY <1>0, <2>4, <4>1 DEF UdpBound
      <4>3. m \in Nat
        BY <1>0, <4>1 DEF UdpRecords, CountsSeen, RecordShape
      <4> HIDE DEF a, b, s, m
      <4>4. m + b <= s
        BY <3>1, <4>2, <4>3
      <4> QED BY <4>1, <4>4 DEF b, s, m
    <3> QED BY <3>2, <3>3
  <2> QED BY <2>1, <2>3, <2>4 DEF UdpBound
<1>7. UdpRow'
  BY <1>0 DEF UdpRow, Udp!NoRow
<1> QED BY <1>4, <1>5, <1>6, <1>7 DEF UdpInv

(* The node restarts and forgets its records and its threads.                *)
LEMMA RestartKeeps == ASSUME UdpInv, Udp!NodeRestarts PROVE UdpInv'
<1>0. /\ UdpTypes /\ UdpRecords /\ UdpBound /\ UdpRow
      /\ UNCHANGED <<udpSender, datagrams, datagramCopies, clock, row, delivered>>
      /\ records' = << >> /\ reserved' = FALSE
      /\ handler' = [h \in Handlers |-> Udp!Idle]
  BY DEF UdpInv, Udp!NodeRestarts
<1>1. Udp!Idle \in Hands /\ ~Udp!Idle.busy
  BY UdpAssumption DEF Udp!Idle, Hands
<1>2. handler' \in [Handlers -> Hands] /\ \A h \in Handlers : ~handler'[h].busy
  <2> HIDE DEF Udp!Idle
  <2> QED BY <1>0, <1>1
<1>3. UdpTypes'
  <2>1. {h \in Handlers : handler'[h].busy} = {}
    BY <1>2
  <2>2. IsFiniteSet({h \in Handlers : handler'[h].busy})
    BY <2>1, FS_EmptySet
  <2> QED BY <1>0, <1>2, <2>2 DEF UdpTypes
<1>4. UdpRecords'
  <2>1. << >> \in Seq(RecordShape) /\ DOMAIN << >> = {}
    BY EmptySeq
  <2> QED BY <1>0, <2>1 DEF UdpRecords
<1>5. UdpBound'
  <2>1. DOMAIN records' = {}
    BY <1>0, EmptySeq
  <2>2. ASSUME NEW source \in Sources PROVE UnderWay(source)' <= Sent'
    <3> DEFINE B == Cardinality(Busy(source))
               W == Cardinality(OnWire(source))
    <3>1. B \in Nat /\ W \in Nat
      BY <1>0, UdpFinite
    <3>2. Cardinality(Busy(source)') = 0
      <4>1. Busy(source)' = {}
        BY <1>2 DEF Busy
      <4> QED BY <4>1, FS_EmptySet
    <3>3. OnWire(source)' = OnWire(source) /\ Sent' = Sent /\ Sent \in Nat
      BY <1>0, UdpFinite DEF OnWire, Sent
    <3>4. UnderWay(source)' = 0 + W /\ UnderWay(source) = B + W
      BY <3>2, <3>3 DEF UnderWay
    <3>5. UnderWay(source) <= Sent
      BY <1>0 DEF UdpBound
    <3> HIDE DEF B, W
    <3> QED BY <3>1, <3>3, <3>4, <3>5
  <2> QED BY <2>1, <2>2 DEF UdpBound
<1>6. UdpRow'
  BY <1>0 DEF UdpRow, Udp!NoRow
<1> QED BY <1>3, <1>4, <1>5, <1>6 DEF UdpInv

(* An upload begins with nothing sent.                                       *)
LEMMA UdpStarts == Udp!Init => UdpInv
<1> SUFFICES ASSUME Udp!Init PROVE UdpInv
  OBVIOUS
<1>0. /\ udpSender = [at |-> "sending", sent |-> 0]
      /\ datagrams = {} /\ datagramCopies = 0 /\ clock = 0
      /\ handler = [h \in Handlers |-> Udp!Idle]
      /\ records = << >> /\ reserved = TRUE /\ row = Udp!NoRow /\ delivered = {}
  BY DEF Udp!Init
<1>1. Udp!Idle \in Hands /\ ~Udp!Idle.busy
  BY UdpAssumption DEF Udp!Idle, Hands
<1>2. handler \in [Handlers -> Hands] /\ \A h \in Handlers : ~handler[h].busy
  <2> HIDE DEF Udp!Idle
  <2> QED BY <1>0, <1>1
<1>3. UdpTypes
  <2>1. {h \in Handlers : handler[h].busy} = {} /\ IsFiniteSet({})
    BY <1>2, FS_EmptySet
  <2>2. IsFiniteSet({h \in Handlers : handler[h].busy})
    BY <2>1
  <2>3. 0 \in 0 .. MaxDatagrams /\ 0 \in 0 .. MaxCopies /\ 0 \in 0 .. MaxSeconds
    BY UdpAssumption, NetworkAssumption
  <2>4. reserved \in BOOLEAN /\ clock \in 0 .. MaxSeconds /\ datagramCopies \in 0 .. MaxCopies
          /\ udpSender \in [at : {"sending", "fetching", "done"}, sent : 0 .. MaxDatagrams]
          /\ delivered \subseteq 0 .. udpSender.sent - 1
    BY <1>0, <2>3
  <2>5. datagrams \subseteq Datagrams /\ IsFiniteSet(datagrams)
          /\ \A d \in datagrams : d.sequence < udpSender.sent
    BY <1>0, <2>1
  <2> QED BY <1>2, <2>2, <2>4, <2>5 DEF UdpTypes
<1>4. UdpRecords
  <2>1. << >> \in Seq(RecordShape) /\ DOMAIN << >> = {}
    BY EmptySeq
  <2> QED BY <1>0, <2>1 DEF UdpRecords
<1>5. UdpBound
  <2>1. DOMAIN records = {}
    BY <1>0, EmptySeq
  <2>2. ASSUME NEW source \in Sources PROVE UnderWay(source) <= Sent
    <3>1. Busy(source) = {} /\ OnWire(source) = {}
      BY <1>0, <1>2 DEF Busy, OnWire
    <3>2. Cardinality(Busy(source)) = 0 /\ Cardinality(OnWire(source)) = 0
      BY <3>1, FS_EmptySet
    <3>3. Sent = 0 + 0 /\ UnderWay(source) = 0 + 0
      BY <1>0, <3>2 DEF Sent, UnderWay
    <3> QED BY <3>3
  <2> QED BY <2>1, <2>2 DEF UdpBound
<1>6. UdpRow
  BY <1>0 DEF UdpRow, Udp!NoRow, Udp!Unset
<1> QED BY <1>3, <1>4, <1>5, <1>6 DEF UdpInv

LEMMA UdpStepKeeps == UdpInv /\ Udp!Next => UdpInv'
<1> SUFFICES ASSUME UdpInv, Udp!Next PROVE UdpInv'
  OBVIOUS
<1>0. clock \in 0 .. MaxSeconds /\ reserved \in BOOLEAN /\ MaxSeconds \in Nat
  BY UdpAssumption DEF UdpInv, UdpTypes
<1>1. CASE Udp!EngineStep
  BY <1>1, SenderKeeps, FetchKeeps DEF Udp!EngineStep
<1>2. ASSUME NEW d \in datagrams, Udp!Lose(d) PROVE UdpInv'
  <2>1. /\ UNCHANGED <<udpSender, datagramCopies, handler, records, row, delivered>>
        /\ datagrams' \subseteq datagrams /\ clock' = clock /\ reserved' = reserved
    BY <1>2 DEF Udp!Lose
  <2> QED BY <1>0, <2>1, QuietKeeps
<1>3. CASE Udp!NetworkStep
  BY <1>2, <1>3, RefuseKeeps, AcceptKeeps DEF Udp!NetworkStep
<1>4. CASE Udp!Second
  <2>1. /\ UNCHANGED <<udpSender, datagramCopies, handler, records, row, delivered>>
        /\ datagrams' \subseteq datagrams /\ clock' = clock + 1 /\ clock < MaxSeconds
        /\ reserved' = reserved
    BY <1>4 DEF Udp!Second
  <2>2. clock' \in 0 .. MaxSeconds
    BY <1>0, <2>1
  <2> QED BY <1>0, <2>1, <2>2, QuietKeeps
<1>5. CASE Udp!ReservationEnds
  <2>1. /\ UNCHANGED <<udpSender, datagramCopies, handler, records, row, delivered>>
        /\ datagrams' \subseteq datagrams /\ clock' = clock /\ reserved' = FALSE
    BY <1>5 DEF Udp!ReservationEnds
  <2> QED BY <1>0, <2>1, QuietKeeps
<1> QED BY <1>1, <1>3, <1>4, <1>5, RestartKeeps, RecordKeeps DEF Udp!Next, Udp!NodeStep

LEMMA UdpOnly ==
  [Next]_vars /\ part = "udp" => Udp!Next \/ UNCHANGED <<udpVars, reserved>>
  BY DEF Next, vars, stageVars, udpVars, WaitStep, UdpStep, VideoStep, EvidenceStep,
     TcpStep, RouterStep, SamplerStep, CohortStep, CampaignStep, LabStep

UdpPart == part = "udp" => UdpInv

LEMMA UdpPartHolds == Spec => []UdpPart
<1>1. Init => UdpPart
  BY UdpStarts DEF Init, UdpPart
<1>2. UdpPart /\ [Next]_vars => UdpPart'
  <2> SUFFICES ASSUME UdpPart, [Next]_vars, part = "udp" PROVE UdpInv'
    BY SamePart DEF UdpPart
  <2>1. UdpInv
    BY DEF UdpPart
  <2>2. CASE UNCHANGED <<udpVars, reserved>>
    <3>1. UNCHANGED <<udpSender, datagrams, datagramCopies, clock, handler, records, row,
                      delivered, reserved>>
      BY <2>2 DEF udpVars
    <3>2. clock \in 0 .. MaxSeconds /\ reserved \in BOOLEAN
      BY <2>1 DEF UdpInv, UdpTypes
    <3> QED BY <2>1, <3>1, <3>2, QuietKeeps
  <2> QED BY <2>1, <2>2, UdpOnly, UdpStepKeeps
<1> QED BY <1>1, <1>2, PTL DEF Spec

(* The engine's row never hides a loss: it reports at least the datagrams    *)
(* that no thread of the node has seen, and credits the receiver with no     *)
(* more than was sent, whatever the network repeats, reorders and loses, and *)
(* however many threads, sources and datagrams there are.                    *)
THEOREM LossStaysVisible == Spec => []LossIsNotHidden
<1>1. ASSUME UdpInv PROVE Udp!LossIsNotHidden
  <2> SUFFICES ASSUME row # Udp!NoRow
               PROVE  /\ row.unique <= row.sent
                      /\ row.lost >= Udp!Cardinality(0 .. row.sent - 1) - Udp!Cardinality(delivered)
                      /\ row.missing >= 0 /\ row.missing <= row.lost
    BY DEF Udp!LossIsNotHidden
  <2>1. /\ row.sent \in 0 .. udpSender.sent /\ udpSender.sent \in Nat
        /\ row.unique <= row.sent /\ row.lost >= row.sent - Cardinality(delivered)
        /\ row.missing >= 0 /\ row.missing <= row.lost
    BY <1>1, UdpFinite DEF UdpInv, UdpRow
  <2> DEFINE n == row.sent
  <2>2. Cardinality(0 .. n - 1) = n
    <3>1. n \in Nat /\ 0 \in Int /\ n - 1 \in Int
      BY <2>1
    <3>2. Cardinality(0 .. n - 1) = IF 0 > n - 1 THEN 0 ELSE (n - 1) - 0 + 1
      BY <3>1, FS_Interval
    <3> HIDE DEF n
    <3> QED BY <3>1, <3>2
  <2>3. \A S : Udp!Cardinality(S) = Cardinality(S)
    BY Zenon DEF Udp!Cardinality, Cardinality
  <2>4. /\ Udp!Cardinality(0 .. n - 1) = n
        /\ Udp!Cardinality(delivered) = Cardinality(delivered)
    BY <2>2, <2>3
  <2> QED BY <2>1, <2>4
<1>2. UdpPart => LossIsNotHidden
  BY <1>1 DEF UdpPart, LossIsNotHidden
<1> QED BY <1>2, UdpPartHolds, PTL

-----------------------------------------------------------------------------
(* The seconds of a record.                                                  *)

Fields == {"received", "unique", "duplicates", "outOfOrder"}

(* One number of every second, and their sum as the fold takes it.           *)
Column(intervals, field) == [i \in DOMAIN intervals |-> intervals[i][field]]

FoldsTo(iter, intervals, field) ==
  iter = [s \in SUBSET DOMAIN intervals |->
            IF s = {} THEN 0
            ELSE iter[s \ {Udp!Max(s)}] + intervals[Udp!Max(s)][field]]

InSeconds(intervals, field) ==
  (CHOOSE iter : FoldsTo(iter, intervals, field))[DOMAIN intervals]

AddUp(r) ==
  /\ InSeconds(r.intervals, "received") = r.received
  /\ InSeconds(r.intervals, "unique") = r.unique
  /\ InSeconds(r.intervals, "duplicates") = r.duplicates
  /\ InSeconds(r.intervals, "outOfOrder") >= r.outOfOrder

LEMMA TotalIs ==
  ASSUME NEW r
  PROVE  /\ Udp!Total(r, LAMBDA i : i.received) = InSeconds(r.intervals, "received")
         /\ Udp!Total(r, LAMBDA i : i.unique) = InSeconds(r.intervals, "unique")
         /\ Udp!Total(r, LAMBDA i : i.duplicates) = InSeconds(r.intervals, "duplicates")
         /\ Udp!Total(r, LAMBDA i : i.outOfOrder) = InSeconds(r.intervals, "outOfOrder")
BY DEF InSeconds, FoldsTo, Udp!Total, Udp!FoldLeft, Udp!MapThenFoldSet

Adds(total, f) ==
  \E sum, pick : VideoProofs!IsSum(sum, DOMAIN f, f, pick) /\ total = sum[DOMAIN f]

LEMMA SumsExist ==
  \A S, f, pick : VideoProofs!Addable(S, f, pick) => \E sum : VideoProofs!Solves(sum, S, f, pick)
BY VideoProofs!SumExists, UdpAssumption, VideoAssumption,
   NetworkAssumption, PlanAssumption, WaitAssumption, TcpAssumption, SamplerAssumption,
   ComparisonAssumption, CampaignAssumption, LabAssumption, RouterAssumption

(* The fold adds up all seconds.                                             *)
LEMMA SecondsAreAdded ==
  ASSUME NEW intervals \in Seq(IntervalShape), NEW field \in Fields
  PROVE  Adds(InSeconds(intervals, field), Column(intervals, field))
<1> DEFINE S == DOMAIN intervals
           f == Column(intervals, field)
           pick == [s \in SUBSET S |-> Udp!Max(s)]
           sum == CHOOSE iter : FoldsTo(iter, intervals, field)
<1>1. Len(intervals) \in Nat /\ S = 1 .. Len(intervals) /\ DOMAIN f = S
  BY DEF Column
<1>2. f \in [S -> Nat] /\ \A i \in S : f[i] = intervals[i][field]
  <2>1. ASSUME NEW i \in S PROVE intervals[i][field] \in Nat
    <3>1. intervals[i] \in IntervalShape
      BY <1>1
    <3> QED BY <3>1 DEF IntervalShape, Fields
  <2> QED BY <2>1 DEF Column
<1>3. IsFiniteSet(S)
  <2>1. 1 \in Int /\ Len(intervals) \in Int
    BY <1>1
  <2> QED BY <1>1, <2>1, FS_Interval
<1>4. ASSUME NEW s \in SUBSET S, s # {} PROVE Udp!Max(s) \in s
  <2>1. s \subseteq Nat /\ IsFiniteSet(s)
    BY <1>1, <1>3, FS_Subset
  <2>2. PICK x \in s : \A y \in s : y <= x
    BY <1>4, <2>1, GreatestNumber
  <2>3. \A y \in s : x >= y
    BY <2>1, <2>2
  <2> QED BY <2>3 DEF Udp!Max
<1>5. \A s \in SUBSET S : pick[s] = Udp!Max(s)
  OBVIOUS
<1> HIDE DEF S, f, pick
<1>6. VideoProofs!Addable(S, f, pick)
  <2>1. VideoProofs!IsFiniteSet(S)
    BY <1>3, Zenon DEF IsFiniteSet, VideoProofs!IsFiniteSet
  <2> QED BY <1>2, <1>4, <1>5, <2>1 DEF VideoProofs!Addable
<1>7. ASSUME NEW s \in SUBSET S, s # {}
      PROVE  /\ f[pick[s]] = intervals[Udp!Max(s)][field] /\ f[pick[s]] \in Nat
             /\ s \ {pick[s]} = s \ {Udp!Max(s)} /\ s \ {pick[s]} \in SUBSET S
  BY <1>2, <1>4, <1>5, <1>7
<1>8. \E iter : FoldsTo(iter, intervals, field)
  <2>1. PICK iter : VideoProofs!Solves(iter, S, f, pick)
    BY <1>6, SumsExist
  <2>2. iter \in [SUBSET S -> Nat]
    BY <2>1 DEF VideoProofs!Solves
  <2>3. ASSUME NEW s \in SUBSET S
        PROVE  iter[s] = IF s = {} THEN 0
                         ELSE iter[s \ {Udp!Max(s)}] + intervals[Udp!Max(s)][field]
    <3>1. CASE s = {}
      BY <2>1, <3>1 DEF VideoProofs!Solves
    <3>2. CASE s # {}
      <4>1. iter[s] = f[pick[s]] + iter[s \ {pick[s]}]
        BY <2>1, <3>2 DEF VideoProofs!Solves
      <4>2. iter[s \ {pick[s]}] \in Nat /\ f[pick[s]] \in Nat
        BY <1>7, <2>2, <3>2
      <4>3. iter[s] = iter[s \ {pick[s]}] + f[pick[s]]
        BY <4>1, <4>2
      <4> QED BY <1>7, <3>2, <4>3
    <3> QED BY <3>1, <3>2
  <2>4. FoldsTo(iter, intervals, field)
    BY <2>2, <2>3 DEF FoldsTo, S
  <2> QED BY <2>4
<1>9. FoldsTo(sum, intervals, field)
  BY <1>8
<1> HIDE DEF sum
<1>10. VideoProofs!IsSum(sum, S, f, pick)
  <2>1. \A s \in SUBSET S : sum[s] = IF s = {} THEN 0
          ELSE sum[s \ {Udp!Max(s)}] + intervals[Udp!Max(s)][field]
    BY <1>9 DEF FoldsTo, S
  <2>2. ASSUME NEW s \in SUBSET S, s # {}
        PROVE  sum[s] = sum[s \ {pick[s]}] + f[pick[s]]
    BY <1>7, <2>1, <2>2
  <2> QED BY <1>6, <2>1, <2>2 DEF VideoProofs!IsSum
<1>11. InSeconds(intervals, field) = sum[S]
  BY DEF InSeconds, sum, S
<1> QED BY <1>1, <1>10, <1>11 DEF Adds, f

(* No seconds, nothing in them; and one more second, or one that changes.    *)
LEMMA NothingAdded == ASSUME NEW total, NEW f, Adds(total, f), DOMAIN f = {} PROVE total = 0
BY DEF Adds, VideoProofs!IsSum

LEMMA OneMoreAdded ==
  ASSUME NEW t, NEW f, Adds(t, f), NEW u, NEW g, Adds(u, g),
         DOMAIN f \subseteq DOMAIN g, NEW i \in DOMAIN g,
         \A x \in DOMAIN f \ {i} : g[x] = f[x],
         \A x \in DOMAIN g \ (DOMAIN f \union {i}) : g[x] = 0
  PROVE  t \in Nat /\ u \in Nat /\ u + (IF i \in DOMAIN f THEN f[i] ELSE 0) = t + g[i]
<1>1. PICK sumS, pickS : VideoProofs!IsSum(sumS, DOMAIN f, f, pickS) /\ t = sumS[DOMAIN f]
  BY DEF Adds
<1>2. PICK sumT, pickT : VideoProofs!IsSum(sumT, DOMAIN g, g, pickT) /\ u = sumT[DOMAIN g]
  BY DEF Adds
<1> DEFINE S == DOMAIN f
           T == DOMAIN g
<1> HIDE DEF S, T
<1>3. /\ VideoProofs!IsSum(sumS, S, f, pickS) /\ VideoProofs!IsSum(sumT, T, g, pickT)
      /\ S \subseteq T /\ i \in T /\ t = sumS[S] /\ u = sumT[T]
      /\ \A x \in S \ {i} : g[x] = f[x]
      /\ \A x \in T \ (S \union {i}) : g[x] = 0
  BY <1>1, <1>2 DEF S, T
<1>4. /\ sumS[S] \in Nat /\ sumT[T] \in Nat
      /\ sumT[T] + (IF i \in S THEN f[i] ELSE 0) = sumS[S] + g[i]
  BY <1>3, VideoProofs!SumMoves, UdpAssumption, VideoAssumption,
     NetworkAssumption, PlanAssumption, WaitAssumption, TcpAssumption, SamplerAssumption,
     ComparisonAssumption, CampaignAssumption, LabAssumption, RouterAssumption
<1> QED BY <1>3, <1>4 DEF S

(* What a datagram adds to the seconds.                                      *)
LEMMA OneMoreSecond ==
  ASSUME NEW r \in RecordShape, NEW s, NEW stamp \in Nat,
         \A i \in DOMAIN r.intervals : Within(r.intervals[i], r.received),
         NEW field \in Fields, NEW gain \in {0, 1},
         field = "received" => gain = 1,
         field = "unique" => gain = (IF s \in r.seen THEN 0 ELSE 1),
         field = "duplicates" => gain = (IF s \in r.seen THEN 1 ELSE 0),
         field = "outOfOrder" => gain = (IF Udp!Late(r, s) THEN 1 ELSE 0)
  PROVE  /\ InSeconds(r.intervals, field) \in Nat
         /\ InSeconds(Udp!Intervals(r, s, stamp), field) = InSeconds(r.intervals, field) + gain
<1> DEFINE i == Udp!NotBelow(0, stamp - r.start) + 1
           repeat == IF Udp!Repeats(r, s, i) THEN 1 ELSE 0
           late == IF Udp!Late(r, s) THEN 1 ELSE 0
           old == r.intervals
           padded == Udp!Padded(old, i)
           more == [received |-> padded[i].received + 1,
                    unique |-> padded[i].unique + (1 - repeat),
                    duplicates |-> padded[i].duplicates + repeat,
                    outOfOrder |-> padded[i].outOfOrder + late]
           n == Udp!NotBelow(Len(old), i)
           new == Udp!Intervals(r, s, stamp)
<1>1. new = [padded EXCEPT ![i] = more]
  BY DEF Udp!Intervals
<1>2. old \in Seq(IntervalShape) /\ r.start \in Nat /\ r.received \in Nat
  BY UdpAssumption DEF RecordShape
<1>3. i \in Nat /\ i >= 1 /\ late \in {0, 1} /\ repeat = IF s \in r.seen THEN 1 ELSE 0
  BY <1>2 DEF Udp!NotBelow, Udp!Repeats
<1>4. Len(old) \in Nat /\ DOMAIN old = 1 .. Len(old)
  BY <1>2
<1>5. new \in Seq(IntervalShape)
  BY IntervalsKeep
<1>6. late = IF Udp!Late(r, s) THEN 1 ELSE 0
  OBVIOUS
<1> HIDE DEF i, repeat, late, new, old
<1>7. n \in Nat /\ i <= n /\ Len(old) <= n
  BY <1>3, <1>4 DEF Udp!NotBelow
<1>8. padded = [k \in 1 .. n |-> IF k <= Len(old) THEN old[k] ELSE Udp!NoInterval]
  BY DEF Udp!Padded
<1> HIDE DEF n
<1> DEFINE f == Column(old, field)
           g == Column(new, field)
           zero == IF i <= Len(old) THEN old[i] ELSE Udp!NoInterval
<1>9. Udp!NoInterval[field] = 0
  BY DEF Udp!NoInterval, Fields
<1>10. padded[i] = zero
  BY <1>3, <1>7, <1>8
<1>11. DOMAIN new = 1 .. n /\ new[i] = more /\ \A k \in (1 .. n) \ {i} : new[k] = padded[k]
  <2>1. DOMAIN padded = 1 .. n /\ i \in 1 .. n
    BY <1>3, <1>7, <1>8
  <2> HIDE DEF padded, more
  <2> QED BY <1>1, <2>1
<1>12. zero[field] \in Nat
  <2>1. CASE i <= Len(old)
    <3>1. old[i] \in IntervalShape
      BY <1>2, <1>3, <1>4, <2>1
    <3> QED BY <2>1, <3>1 DEF IntervalShape, Fields
  <2>2. CASE ~(i <= Len(old))
    BY <1>9, <2>2
  <2> QED BY <2>1, <2>2
<1>13. more[field] = zero[field] + gain
  <2> DEFINE q == padded[i]
  <2> HIDE DEF q
  <2>1. more = [received |-> q.received + 1, unique |-> q.unique + (1 - repeat),
                duplicates |-> q.duplicates + repeat, outOfOrder |-> q.outOfOrder + late]
    BY DEF q
  <2> HIDE DEF more
  <2>2. more[field] = q[field] + gain
    <3>1. CASE field = "received"
      BY <2>1, <3>1
    <3>2. CASE field = "unique"
      <4>1. gain = 1 - repeat
        BY <1>3, <3>2
      <4> QED BY <2>1, <3>2, <4>1
    <3>3. CASE field = "duplicates"
      BY <1>3, <2>1, <3>3
    <3>4. CASE field = "outOfOrder"
      BY <1>6, <2>1, <3>4
    <3> QED BY <3>1, <3>2, <3>3, <3>4 DEF Fields
  <2> QED BY <1>10, <2>2 DEF q
<1>14. /\ DOMAIN f = 1 .. Len(old) /\ DOMAIN g = 1 .. n /\ i \in 1 .. n
       /\ g[i] = zero[field] + gain
       /\ zero[field] = IF i \in 1 .. Len(old) THEN f[i] ELSE 0
  <2>1. i \in 1 .. n /\ DOMAIN f = 1 .. Len(old) /\ DOMAIN g = 1 .. n
    BY <1>3, <1>4, <1>7, <1>11 DEF Column
  <2>2. g[i] = more[field]
    BY <1>11, <2>1 DEF Column
  <2>3. i \in 1 .. Len(old) <=> i <= Len(old)
    BY <1>3, <1>4
  <2>4. i \in 1 .. Len(old) => f[i] = old[i][field]
    BY <1>4 DEF Column
  <2> HIDE DEF f, g, more
  <2> QED BY <1>9, <1>13, <2>1, <2>2, <2>3, <2>4
<1>15. /\ \A k \in (1 .. Len(old)) \ {i} : g[k] = f[k]
       /\ \A k \in (1 .. n) \ ((1 .. Len(old)) \union {i}) : g[k] = 0
  <2>1. ASSUME NEW k \in (1 .. n) \ {i}
        PROVE  g[k] = IF k <= Len(old) THEN old[k][field] ELSE Udp!NoInterval[field]
    <3>1. new[k] = IF k <= Len(old) THEN old[k] ELSE Udp!NoInterval
      <4>1. new[k] = padded[k] /\ k \in 1 .. n
        BY <1>11
      <4> QED BY <1>8, <4>1
    <3>2. g[k] = new[k][field]
      BY <1>11 DEF Column
    <3> QED BY <3>1, <3>2
  <2>2. \A k \in 1 .. Len(old) : k <= Len(old) /\ k \in 1 .. n /\ f[k] = old[k][field]
    BY <1>4, <1>7 DEF Column
  <2>3. \A k \in (1 .. n) \ (1 .. Len(old)) : ~(k <= Len(old))
    BY <1>4, <1>7
  <2> HIDE DEF f, g
  <2> QED BY <1>9, <2>1, <2>2, <2>3
<1>16. Adds(InSeconds(old, field), f) /\ Adds(InSeconds(new, field), g)
  BY <1>2, <1>5, SecondsAreAdded
<1> DEFINE a == InSeconds(old, field)
           b == InSeconds(new, field)
<1>17. 1 .. Len(old) \subseteq 1 .. n
  BY <1>4, <1>7
<1> HIDE DEF f, g, a, b, zero
<1>18. a \in Nat /\ b \in Nat /\ b + (IF i \in DOMAIN f THEN f[i] ELSE 0) = a + g[i]
  <2>1. /\ Adds(a, f) /\ Adds(b, g)
        /\ DOMAIN f \subseteq DOMAIN g /\ i \in DOMAIN g
        /\ \A x \in DOMAIN f \ {i} : g[x] = f[x]
        /\ \A x \in DOMAIN g \ (DOMAIN f \union {i}) : g[x] = 0
    BY <1>14, <1>15, <1>16, <1>17 DEF a, b
  <2> QED BY <2>1, OneMoreAdded
<1>19. b + zero[field] = a + (zero[field] + gain)
  BY <1>14, <1>18
<1>20. b = a + gain
  BY <1>12, <1>18, <1>19
<1> QED BY <1>18, <1>20 DEF a, b, old, new

(* The record counts what its seconds count.                                 *)
LEMMA RecordedAddsUp ==
  ASSUME NEW r \in RecordShape, NEW s \in Nat, NEW stamp \in Nat, AddUp(r),
         \A i \in DOMAIN r.intervals : Within(r.intervals[i], r.received)
  PROVE  AddUp(Udp!Recorded(r, s, stamp))
<1> DEFINE q == Udp!Recorded(r, s, stamp)
           new == Udp!Intervals(r, s, stamp)
           again == IF s \in r.seen THEN 1 ELSE 0
           late == IF Udp!Late(r, s) THEN 1 ELSE 0
<1>1. /\ InSeconds(r.intervals, "received") \in Nat
      /\ InSeconds(r.intervals, "outOfOrder") \in Nat
      /\ InSeconds(new, "received") = InSeconds(r.intervals, "received") + 1
      /\ InSeconds(new, "unique") = InSeconds(r.intervals, "unique") + (1 - again)
      /\ InSeconds(new, "duplicates") = InSeconds(r.intervals, "duplicates") + again
      /\ InSeconds(new, "outOfOrder") = InSeconds(r.intervals, "outOfOrder") + late
  <2>1. again \in {0, 1} /\ 1 - again \in {0, 1} /\ late \in {0, 1}
        /\ 1 - again = IF s \in r.seen THEN 0 ELSE 1
    OBVIOUS
  <2>2. {"received", "unique", "duplicates", "outOfOrder"} \subseteq Fields
    BY DEF Fields
  <2>3. /\ InSeconds(r.intervals, "received") \in Nat
        /\ InSeconds(new, "received") = InSeconds(r.intervals, "received") + 1
    BY <2>2, OneMoreSecond
  <2>4. InSeconds(new, "unique") = InSeconds(r.intervals, "unique") + (1 - again)
    <3> DEFINE gain == 1 - again
    <3>1. gain \in {0, 1} /\ gain = IF s \in r.seen THEN 0 ELSE 1
      BY <2>1
    <3> HIDE DEF gain
    <3>2. InSeconds(new, "unique") = InSeconds(r.intervals, "unique") + gain
      BY <2>2, <3>1, OneMoreSecond
    <3> QED BY <3>2 DEF gain
  <2>5. InSeconds(new, "duplicates") = InSeconds(r.intervals, "duplicates") + again
    <3>1. again = IF s \in r.seen THEN 1 ELSE 0
      OBVIOUS
    <3> HIDE DEF again
    <3> QED BY <2>1, <2>2, <3>1, OneMoreSecond
  <2>6. /\ InSeconds(r.intervals, "outOfOrder") \in Nat
        /\ InSeconds(new, "outOfOrder") = InSeconds(r.intervals, "outOfOrder") + late
    <3>1. late = IF Udp!Late(r, s) THEN 1 ELSE 0
      OBVIOUS
    <3> HIDE DEF late
    <3> QED BY <2>1, <2>2, <3>1, OneMoreSecond
  <2> QED BY <2>3, <2>4, <2>5, <2>6
<1>2. /\ r.received \in Nat /\ r.unique \in Nat /\ r.duplicates \in Nat
      /\ r.outOfOrder \in Nat
  BY DEF RecordShape
<1>3. /\ q.intervals = new /\ q.received = r.received + 1
      /\ q.unique = r.unique + (1 - again) /\ q.duplicates = r.duplicates + again
      /\ q.outOfOrder \in {r.outOfOrder, r.outOfOrder + late}
  <2> DEFINE one == [r EXCEPT !.received = r.received + 1]
             c == IF s \in r.seen THEN [one EXCEPT !.duplicates = one.duplicates + 1]
                                  ELSE Udp!NewSequence(one, s)
  <2>1. q = [c EXCEPT !.intervals = new]
    BY DEF Udp!Recorded, Udp!Counted
  <2>2. /\ one.received = r.received + 1 /\ one.unique = r.unique
        /\ one.duplicates = r.duplicates /\ one.outOfOrder = r.outOfOrder
        /\ one.last = r.last /\ DOMAIN one = DOMAIN r
        /\ {"received", "unique", "duplicates", "outOfOrder", "intervals"} \subseteq DOMAIN r
    BY DEF RecordShape
  <2> HIDE DEF one, new
  <2>3. /\ c.received = r.received + 1 /\ c.unique = r.unique + (1 - again)
        /\ c.duplicates = r.duplicates + again
        /\ c.outOfOrder \in {r.outOfOrder, r.outOfOrder + late}
        /\ DOMAIN c = DOMAIN r
    <3>1. CASE s \in r.seen
      BY <1>2, <2>2, <3>1
    <3>2. CASE s \notin r.seen
      <4>1. Udp!Late(one, s) <=> Udp!Late(r, s)
        BY <2>2 DEF Udp!Late
      <4>2. /\ c.received = one.received /\ c.unique = one.unique + 1
            /\ c.duplicates = one.duplicates /\ DOMAIN c = DOMAIN one
            /\ c.outOfOrder = one.outOfOrder + (IF Udp!Late(one, s) THEN 1 ELSE 0)
        BY <2>2, <3>2 DEF Udp!NewSequence
      <4> QED BY <1>2, <2>2, <3>2, <4>1, <4>2
    <3> QED BY <3>1, <3>2
  <2> HIDE DEF c, q
  <2> QED BY <2>1, <2>2, <2>3
<1>4. late \in {0, 1}
  OBVIOUS
<1> HIDE DEF q, new, again, late
<1> QED BY <1>1, <1>2, <1>3, <1>4 DEF AddUp, q

SecondsInv == \A k \in DOMAIN records : AddUp(records[k])

LEMMA ThenSeconds ==
  ASSUME \A k \in DOMAIN records' : AddUp(records'[k])
  PROVE  SecondsInv'
BY DEF SecondsInv, AddUp, InSeconds, FoldsTo

(* A record that has no datagrams has no seconds.                            *)
LEMMA NewAddsUp ==
  ASSUME NEW source \in Sources, NEW stamp \in 0 .. MaxSeconds
  PROVE  /\ Udp!NewRecord(source, stamp) \in RecordShape
         /\ DOMAIN Udp!NewRecord(source, stamp).intervals = {}
         /\ AddUp(Udp!NewRecord(source, stamp))
<1> DEFINE r == Udp!NewRecord(source, stamp)
<1>1. r = [source |-> source, start |-> stamp, received |-> 0, unique |-> 0,
           duplicates |-> 0, outOfOrder |-> 0, missing |-> 0, first |-> -1,
           last |-> -1, max |-> -1, seen |-> {}, intervals |-> << >>]
  BY DEF Udp!NewRecord, Udp!Unset
<1>2. << >> \in Seq(IntervalShape) /\ DOMAIN << >> = {}
  BY EmptySeq
<1> HIDE DEF r
<1>3. /\ r.received = 0 /\ r.unique = 0 /\ r.duplicates = 0 /\ r.outOfOrder = 0
      /\ r.intervals = << >>
  BY <1>1
<1>4. r \in RecordShape
  BY <1>1, <1>2 DEF RecordShape
<1>5. ASSUME NEW field \in Fields PROVE InSeconds(<< >>, field) = 0
  <2>1. DOMAIN Column(<< >>, field) = {}
    BY <1>2 DEF Column
  <2>2. Adds(InSeconds(<< >>, field), Column(<< >>, field))
    BY <1>2, SecondsAreAdded
  <2> QED BY <2>1, <2>2, NothingAdded
<1>6. AddUp(r)
  <2>1. {"received", "unique", "duplicates", "outOfOrder"} \subseteq Fields
    BY DEF Fields
  <2>2. /\ InSeconds(<< >>, "received") = 0 /\ InSeconds(<< >>, "unique") = 0
        /\ InSeconds(<< >>, "duplicates") = 0 /\ InSeconds(<< >>, "outOfOrder") = 0
    BY <1>5, <2>1
  <2> QED BY <1>3, <2>2 DEF AddUp
<1> QED BY <1>2, <1>3, <1>4, <1>6 DEF r

LEMMA RecordAddsUp ==
  ASSUME UdpInv, SecondsInv, NEW h \in Handlers, Udp!Record(h)
  PROVE  SecondsInv'
<1> DEFINE source == handler[h].source
           s == handler[h].sequence
           stamp == handler[h].stamp
<1>1. /\ source \in Sources /\ s \in Nat /\ stamp \in Nat /\ stamp \in 0 .. MaxSeconds
      /\ records \in Seq(RecordShape)
  <2>1. handler[h].busy /\ UdpTypes /\ UdpRecords
    BY DEF Udp!Record, UdpInv
  <2>2. handler[h] \in Hands /\ handler[h].source \in Sources
    BY <2>1 DEF UdpTypes
  <2>3. handler[h].sequence \in Nat /\ handler[h].stamp \in Nat
        /\ handler[h].stamp \in 0 .. MaxSeconds
    BY <2>2, UdpAssumption DEF Hands
  <2> QED BY <2>1, <2>2, <2>3 DEF UdpRecords
<1>2. ASSUME NEW k \in DOMAIN records
      PROVE  AddUp(records[k]) /\ AddUp(Udp!Recorded(records[k], s, stamp))
  <2> DEFINE r == records[k]
  <2>1. CountsSeen(r, udpSender.sent, delivered) /\ AddUp(r)
    BY DEF UdpInv, UdpRecords, SecondsInv
  <2>2. r \in RecordShape /\ \A i \in DOMAIN r.intervals : Within(r.intervals[i], r.received)
    BY <2>1 DEF CountsSeen
  <2> HIDE DEF r
  <2>3. AddUp(Udp!Recorded(r, s, stamp))
    BY <1>1, <2>1, <2>2, RecordedAddsUp
  <2> QED BY <2>1, <2>3 DEF r
<1>3. \/ /\ records' = Append(records, Udp!Recorded(Udp!NewRecord(source, stamp), s, stamp))
      \/ \E k \in Udp!RecordsOf(records, source) :
           records' = [records EXCEPT ![k] = Udp!Recorded(records[k], s, stamp)]
  BY DEF Udp!Record
<1> HIDE DEF source, s, stamp
<1>4. CASE records' = Append(records, Udp!Recorded(Udp!NewRecord(source, stamp), s, stamp))
  <2> DEFINE r == Udp!NewRecord(source, stamp)
             q == Udp!Recorded(r, s, stamp)
  <2>1. r \in RecordShape /\ AddUp(r) /\ DOMAIN r.intervals = {}
    BY <1>1, NewAddsUp
  <2> HIDE DEF r
  <2>2. AddUp(q)
    BY <1>1, <2>1, RecordedAddsUp
  <2>3. records' = Append(records, q)
    BY <1>4 DEF r
  <2> HIDE DEF q
  <2>4. /\ DOMAIN records' = 1 .. Len(records) + 1 /\ DOMAIN records = 1 .. Len(records)
        /\ Len(records) \in Nat
        /\ \A j \in 1 .. Len(records) : records'[j] = records[j]
        /\ records'[Len(records) + 1] = q
    BY <1>1, <2>3
  <2>5. \A j \in DOMAIN records' : records'[j] = q \/ (j \in DOMAIN records /\ records'[j] = records[j])
    BY <2>4
  <2>6. \A j \in DOMAIN records' : AddUp(records'[j])
    BY <1>2, <2>2, <2>5
  <2> QED BY <2>6, ThenSeconds
<1>5. ASSUME NEW k \in Udp!RecordsOf(records, source),
             records' = [records EXCEPT ![k] = Udp!Recorded(records[k], s, stamp)]
      PROVE  SecondsInv'
  <2> DEFINE q == Udp!Recorded(records[k], s, stamp)
  <2>1. k \in DOMAIN records /\ AddUp(q) /\ records' = [records EXCEPT ![k] = q]
    BY <1>2, <1>5 DEF Udp!RecordsOf
  <2> HIDE DEF q
  <2>2. \A j \in DOMAIN records' : records'[j] = q \/ (j \in DOMAIN records /\ records'[j] = records[j])
    BY <2>1
  <2>3. \A j \in DOMAIN records' : AddUp(records'[j])
    BY <1>2, <2>1, <2>2
  <2> QED BY <2>3, ThenSeconds
<1> QED BY <1>3, <1>4, <1>5

LEMMA UdpAddsUp == UdpInv /\ SecondsInv /\ Udp!Next => SecondsInv'
<1> SUFFICES ASSUME UdpInv, SecondsInv, Udp!Next PROVE SecondsInv'
  OBVIOUS
<1>1. CASE records' = records
  BY <1>1, ThenSeconds DEF SecondsInv
<1>2. CASE records' = << >>
  <2>1. DOMAIN records' = {}
    BY <1>2, EmptySeq
  <2> QED BY <2>1, ThenSeconds
<1>3. records' = records \/ records' = << >> \/ \E h \in Handlers : Udp!Record(h)
  BY DEF Udp!Next, Udp!EngineStep, Udp!Send, Udp!StopSending, Udp!Fetch,
     Udp!NetworkStep, Udp!Lose, Udp!Refuse, Udp!Accept, Udp!NodeStep, Udp!Second,
     Udp!ReservationEnds, Udp!NodeRestarts
<1> QED BY <1>1, <1>2, <1>3, RecordAddsUp

(* The node's seconds add up to its record of what arrived, what was new and *)
(* what was repeated, and hold no less out of order; whatever threads record *)
(* datagrams out of the order of their time stamps, and for every number of  *)
(* threads, datagrams and seconds.                                           *)
THEOREM SecondsAgree == Spec => []SecondsAddUp
<1> DEFINE Inv == part = "udp" => SecondsInv
<1>1. Init => Inv
  BY EmptySeq DEF Init, Udp!Init, SecondsInv
<1>2. UdpPart /\ Inv /\ [Next]_vars => Inv'
  <2> SUFFICES ASSUME UdpPart, Inv, [Next]_vars, part = "udp" PROVE SecondsInv'
    BY SamePart
  <2>1. UdpInv /\ SecondsInv
    BY DEF UdpPart
  <2>2. CASE UNCHANGED <<udpVars, reserved>>
    <3>1. records' = records
      BY <2>2 DEF udpVars
    <3> QED BY <2>1, <3>1, ThenSeconds DEF SecondsInv
  <2> QED BY <2>1, <2>2, UdpOnly, UdpAddsUp
<1>3. Inv => SecondsAddUp
  <2>1. \A k \in DOMAIN records : AddUp(records[k]) =>
          /\ Udp!Total(records[k], LAMBDA i : i.received) = records[k].received
          /\ Udp!Total(records[k], LAMBDA i : i.unique) = records[k].unique
          /\ Udp!Total(records[k], LAMBDA i : i.duplicates) = records[k].duplicates
          /\ Udp!Total(records[k], LAMBDA i : i.outOfOrder) >= records[k].outOfOrder
    BY TotalIs DEF AddUp
  <2> QED BY <2>1 DEF SecondsInv, SecondsAddUp, Udp!SecondsAddUp
<1> QED BY <1>1, <1>2, <1>3, UdpPartHolds, PTL DEF Spec

-----------------------------------------------------------------------------
(* No count of the node exceeds what was sent and repeated.                  *)
LEMMA UdpTyped == UdpInv => Udp!TypeOK
<1> SUFFICES ASSUME UdpInv PROVE Udp!TypeOK
  OBVIOUS
<1> DEFINE n == udpSender.sent
           total == MaxDatagrams + MaxCopies
<1>0. UdpTypes /\ UdpRecords /\ UdpBound /\ UdpRow
  BY DEF UdpInv
<1>1. /\ n \in 0 .. MaxDatagrams /\ n \in Nat /\ MaxDatagrams \in Nat /\ MaxCopies \in Nat
      /\ Sent \in Nat /\ Sent = n + datagramCopies /\ datagramCopies \in 0 .. MaxCopies
  BY <1>0, UdpFinite, UdpAssumption, NetworkAssumption DEF UdpTypes, Sent
<1>2. Udp!Numbers = 0 .. MaxDatagrams - 1 /\ Udp!Counts = 0 .. total
  BY DEF Udp!Numbers, Udp!Counts
<1>3. delivered \subseteq Udp!Numbers /\ Sent <= total
  <2> HIDE DEF n
  <2>1. 0 .. n - 1 \subseteq 0 .. MaxDatagrams - 1
    BY <1>1
  <2> QED BY <1>0, <1>1, <1>2, <2>1 DEF UdpTypes, n
<1>4. datagrams \subseteq [sequence : Udp!Numbers, source : Sources]
  <2> SUFFICES ASSUME NEW d \in datagrams PROVE d \in [sequence : Udp!Numbers, source : Sources]
    OBVIOUS
  <2>1. d \in Datagrams /\ d.sequence < n
    BY <1>0 DEF UdpTypes
  <2>2. d.sequence \in Nat /\ d.source \in Sources
          /\ d = [sequence |-> d.sequence, source |-> d.source]
    BY <2>1 DEF Datagrams
  <2>3. d.sequence \in Udp!Numbers
    BY <1>1, <1>2, <2>1, <2>2
  <2> HIDE DEF Udp!Numbers
  <2> QED BY <2>2, <2>3
<1>5. ASSUME NEW i \in DOMAIN records PROVE Udp!RecordOK(records[i])
  <2> DEFINE r == records[i]
  <2>1. CountsSeen(r, n, delivered) /\ Begun(r, delivered) /\ r.source \in Sources
    BY <1>0, <1>5 DEF UdpRecords, CountsSeen, RecordShape
  <2>2. r.received + UnderWay(r.source) <= Sent
    BY <1>0, <1>5, <2>1 DEF UdpBound
  <2>3. UnderWay(r.source) \in Nat
    BY <1>0, UdpFinite DEF UnderWay
  <2> HIDE DEF r, n
  <2>4. /\ r.start \in 0 .. MaxSeconds
        /\ r.received \in Nat /\ r.unique \in Nat /\ r.duplicates \in Nat
        /\ r.outOfOrder \in Nat /\ r.missing \in Nat /\ r.intervals \in Seq(IntervalShape)
        /\ r.unique <= r.received /\ r.duplicates <= r.received /\ r.outOfOrder <= r.received
        /\ r.missing = 0 \/ r.missing + r.unique <= n
    BY <2>1 DEF CountsSeen, RecordShape
  <2>5. r.received <= total
    BY <1>1, <1>3, <2>2, <2>3, <2>4
  <2>6. /\ r.received \in 0 .. total /\ r.unique \in 0 .. total /\ r.duplicates \in 0 .. total
        /\ r.outOfOrder \in 0 .. total /\ r.missing \in 0 .. total
    BY <1>1, <2>4, <2>5
  <2>7. {r.first, r.last, r.max} \subseteq Udp!Numbers /\ r.seen \subseteq Udp!Numbers
    BY <1>3, <2>1 DEF Begun, CountsSeen
  <2>8. ASSUME NEW k \in DOMAIN r.intervals PROVE r.intervals[k] \in Udp!IntervalType
    <3> DEFINE interval == r.intervals[k]
    <3>1. interval \in IntervalShape /\ Within(interval, r.received)
      BY <2>1, <2>4, <2>8 DEF CountsSeen
    <3> HIDE DEF interval
    <3>2. /\ interval = [received |-> interval.received, unique |-> interval.unique,
                        duplicates |-> interval.duplicates, outOfOrder |-> interval.outOfOrder]
          /\ interval.received \in Nat /\ interval.unique \in Nat
          /\ interval.duplicates \in Nat /\ interval.outOfOrder \in Nat
          /\ interval.received <= r.received /\ interval.unique <= r.received
          /\ interval.duplicates <= r.received /\ interval.outOfOrder <= r.received
      BY <3>1 DEF IntervalShape, Within
    <3>3. /\ interval.received \in 0 .. total /\ interval.unique \in 0 .. total
          /\ interval.duplicates \in 0 .. total /\ interval.outOfOrder \in 0 .. total
      <4>1. total \in Nat /\ r.received \in Nat
        BY <1>1, <2>4
      <4> HIDE DEF total
      <4> QED BY <2>5, <3>2, <4>1
    <3> HIDE DEF total
    <3>4. interval \in [received : 0 .. total, unique : 0 .. total, duplicates : 0 .. total,
                        outOfOrder : 0 .. total]
      BY <3>2, <3>3
    <3> QED BY <1>2, <3>4 DEF Udp!IntervalType, interval
  <2> HIDE DEF total
  <2>9. {r.received, r.unique, r.duplicates, r.outOfOrder, r.missing} \subseteq Udp!Counts
    BY <1>2, <2>6
  <2>10. Udp!RecordOK(r)
    BY <2>1, <2>4, <2>7, <2>8, <2>9 DEF Udp!RecordOK
  <2> QED BY <2>10 DEF r
<1> QED BY <1>0, <1>3, <1>4, <1>5 DEF Udp!TypeOK, UdpTypes, UdpRecords, UdpRow, Hands

-----------------------------------------------------------------------------
(* The types.  What each part keeps contains the types of its variables.     *)

(* The wait's times are bounded by the deadline and a sample.                *)
LEMMA WaitTyped == Spec => [](Waiting!TypeOK)
<1>1. WaitingProofs!TypeOK => Waiting!TypeOK
  BY DEF WaitingProofs!TypeOK, Waiting!TypeOK, WaitingProofs!NotStable,
     Waiting!NotStable, WaitingProofs!Outcomes, Waiting!Outcomes
<1>2. WaitingProofs!Spec => []WaitingProofs!TypeOK
  BY WaitingProofs!WaitTypeCorrect, UdpAssumption, VideoAssumption,
     NetworkAssumption, PlanAssumption, WaitAssumption, TcpAssumption,
     SamplerAssumption, ComparisonAssumption, CampaignAssumption, LabAssumption,
     RouterAssumption, PTL
<1> QED BY <1>1, <1>2, WaitIsAPart, PTL

LEMMA VideoTyped == Spec => [](Video!TypeOK)
<1>1. VideoProofs!TypeOK => Video!TypeOK
  <2>1. \A path : Video!Active(path) = VideoProofs!Active(path)
    BY DEF Video!Active, VideoProofs!Active
  <2>2. Video!Indices = VideoProofs!Indices /\ Video!FrameIds = VideoProofs!FrameIds
    BY DEF Video!Indices, VideoProofs!Indices, Video!FrameIds, VideoProofs!FrameIds
  <2>3. \A path : VideoProofs!PathOK(path) => Video!PathOK(path)
    BY OneCardinality, <2>1, <2>2, Zenon DEF Video!PathOK, VideoProofs!PathOK
  <2> QED BY <2>2, <2>3 DEF Video!TypeOK, VideoProofs!TypeOK
<1>2. VideoProofs!Spec => []VideoProofs!TypeOK
  BY VideoProofs!VideoTypeCorrect, UdpAssumption, VideoAssumption,
     NetworkAssumption, PlanAssumption, WaitAssumption, TcpAssumption,
     SamplerAssumption, ComparisonAssumption, CampaignAssumption, LabAssumption,
     RouterAssumption, PTL
<1> QED BY <1>1, <1>2, VideoIsAPart, PTL

LEMMA LabTyped == LabPart => (part = "lab" => Lab!TypeOK)
<1>1. LabProofs!LabInv => LabProofs!TypeOK
  BY DEF LabProofs!LabInv
<1>2. /\ Lab!LabRuns = LabProofs!LabRuns /\ Lab!None = LabProofs!None
      /\ Lab!Rows = LabProofs!Rows
  BY DEF Lab!LabRuns, LabProofs!LabRuns, Lab!None, LabProofs!None, Lab!Rows,
    LabProofs!Rows, Lab!Terminal, LabProofs!Terminal, Lab!NonTerminal,
    LabProofs!NonTerminal
<1>3. Lab!RunType = LabProofs!RunType /\ Lab!RequestType = LabProofs!RequestType
  BY <1>2 DEF Lab!RunType, LabProofs!RunType, Lab!RequestType, LabProofs!RequestType
<1> QED BY <1>1, <1>2, <1>3 DEF LabPart, Lab!TypeOK, LabProofs!TypeOK

LEMMA PartsTyped ==
  /\ TcpInv => Tcp!TypeOK
  /\ RouterInv => Router!TypeOK
  /\ SamplerInv => Sampling!TypeOK
  /\ JudgeInv => Judging!TypeOK
<1>1. ASSUME TcpInv PROVE Tcp!TypeOK
  BY <1>1
     DEF TcpInv, Uploads, Connections, Receivers, Validities, Tcp!TypeOK,
         Tcp!NoRecord
<1>2. ASSUME RouterInv PROVE Router!TypeOK
  BY <1>2 DEF RouterInv, RouterTypes, Calls, Topics, Router!TypeOK
<1>3. ASSUME SamplerInv PROVE Sampling!TypeOK
  BY <1>3, SamplerAssumption
    DEF SamplerInv, SamplerTypes, Engines, Threads, Sampling!TypeOK, Sampling!Kinds
<1>4. ASSUME JudgeInv PROVE Judging!TypeOK
  BY <1>4 DEF JudgeInv, AllProtocols, Judging!TypeOK
<1> QED BY <1>1, <1>2, <1>3, <1>4

(* Batches are made of the sites, experiments and variants there are.        *)
CampaignTypes ==
  /\ sites \subseteq {1}
  /\ experiments \in Seq([protocol : Making!Protocols, site : Int])
  /\ variants \in Seq([experiment : Nat, antennas : SUBSET Making!Antennas])
  /\ Len(experiments) <= MaxExperiments /\ Len(variants) <= MaxVariants
  /\ batch.by \in {"none", "campaign", "batch"}

LEMMA CampaignTyped == Spec => [](part = "campaigns" => CampaignTypes)
<1>1. Making!Init => CampaignTypes
  <2> SUFFICES ASSUME Making!Init PROVE CampaignTypes
    OBVIOUS
  <2>1. /\ sites = {} /\ experiments = << >> /\ variants = << >> /\ batch.by = "none"
    BY DEF Making!Init, Making!NoBatch
  <2>2. \A S : << >> \in Seq(S) /\ Len(<< >>) = 0
    BY EmptySeq
  <2>3. 0 <= MaxExperiments /\ 0 <= MaxVariants
    BY CampaignAssumption
  <2> QED BY <2>1, <2>2, <2>3 DEF CampaignTypes
<1>2. CampaignTypes /\ Making!Next => CampaignTypes'
  <2> SUFFICES ASSUME CampaignTypes, Making!Next PROVE CampaignTypes'
    OBVIOUS
  <2>0. MaxExperiments \in Nat /\ MaxVariants \in Nat
    BY CampaignAssumption
  <2>1. CASE Making!CreateSite
    BY <2>1 DEF CampaignTypes, Making!CreateSite
  <2>2. CASE Making!CreateExperiment
    <3>1. /\ UNCHANGED <<sites, variants, batch>> /\ Len(experiments) < MaxExperiments
      BY <2>2 DEF Making!CreateExperiment
    <3>2. PICK p \in Making!Protocols, site \in sites \union {Making!Nothing} :
            experiments' = Append(experiments, [protocol |-> p, site |-> site])
      BY <2>2 DEF Making!CreateExperiment
    <3> DEFINE one == [protocol |-> p, site |-> site]
    <3>3. one \in [protocol : Making!Protocols, site : Int]
      <4>1. site \in Int
        BY <3>2 DEF CampaignTypes, Making!Nothing
      <4> HIDE DEF Making!Protocols
      <4> QED BY <3>2, <4>1
    <3> HIDE DEF one
    <3>4. /\ experiments' \in Seq([protocol : Making!Protocols, site : Int])
          /\ Len(experiments') = Len(experiments) + 1 /\ Len(experiments) \in Nat
      BY <3>2, <3>3, AppendProperties, LenProperties DEF CampaignTypes, one
    <3>5. Len(experiments') <= MaxExperiments
      BY <2>0, <3>1, <3>4
    <3> QED BY <3>1, <3>4, <3>5 DEF CampaignTypes
  <2>3. CASE Making!CreateVariant
    <3>1. /\ UNCHANGED <<sites, experiments, batch>> /\ Len(variants) < MaxVariants
      BY <2>3 DEF Making!CreateVariant
    <3>2. PICK e \in DOMAIN experiments, antennas \in SUBSET Making!Antennas :
            variants' = Append(variants, [experiment |-> e, antennas |-> antennas])
      BY <2>3 DEF Making!CreateVariant
    <3> DEFINE one == [experiment |-> e, antennas |-> antennas]
    <3>3. one \in [experiment : Nat, antennas : SUBSET Making!Antennas]
      <4>1. e \in Nat
        BY <3>2, ElementOfSeq DEF CampaignTypes
      <4> QED BY <3>2, <4>1
    <3> HIDE DEF one
    <3>4. /\ variants' \in Seq([experiment : Nat, antennas : SUBSET Making!Antennas])
          /\ Len(variants') = Len(variants) + 1 /\ Len(variants) \in Nat
      BY <3>2, <3>3, AppendProperties, LenProperties DEF CampaignTypes, one
    <3>5. Len(variants') <= MaxVariants
      BY <2>0, <3>1, <3>4
    <3> QED BY <3>1, <3>4, <3>5 DEF CampaignTypes
  <2>4. CASE Making!CreateTestCampaign \/ Making!CreateTestBatch
    <3>1. batch'.by \in {"campaign", "batch"} /\ UNCHANGED <<sites, experiments, variants>>
      <4>2. ASSUME NEW p, NEW asked, NEW state, NEW sizes,
                   batch' = Making!Batch("campaign", p, asked, state, sizes)
            PROVE  batch'.by \in {"campaign", "batch"}
        <5>1. batch'.by = "campaign"
          BY <4>2 DEF Making!Batch
        <5> QED BY <5>1
      <4>3. ASSUME NEW p, NEW asked, NEW state, NEW sizes,
                   batch' = Making!Batch("batch", p, asked, state, sizes)
            PROVE  batch'.by \in {"campaign", "batch"}
        <5>1. batch'.by = "batch"
          BY <4>3 DEF Making!Batch
        <5> QED BY <5>1
      <4>4. \/ \E p, asked, state, sizes : batch' = Making!Batch("campaign", p, asked, state, sizes)
            \/ \E p, asked, state, sizes : batch' = Making!Batch("batch", p, asked, state, sizes)
        BY <2>4, Zenon DEF Making!CreateTestCampaign, Making!CreateTestBatch
      <4>5. UNCHANGED <<sites, experiments, variants>>
        BY <2>4, Zenon DEF Making!CreateTestCampaign, Making!CreateTestBatch
      <4> QED BY <4>2, <4>3, <4>4, <4>5
    <3> QED BY <3>1 DEF CampaignTypes
  <2> QED BY <2>1, <2>2, <2>3, <2>4 DEF Making!Next
<1>3. [Next]_vars /\ part = "campaigns" => Making!Next \/ UNCHANGED campaignVars
  BY CampaignOnly
<1>4. CampaignTypes /\ UNCHANGED campaignVars => CampaignTypes'
  BY DEF CampaignTypes, campaignVars
<1>5. Init => (part = "campaigns" => CampaignTypes)
  BY <1>1 DEF Init
<1>6. (part = "campaigns" => CampaignTypes) /\ [Next]_vars
        => (part = "campaigns" => CampaignTypes)'
  BY <1>2, <1>3, <1>4, SamePart
<1> QED BY <1>5, <1>6, PTL DEF Spec

(* The runs that are compared are of the kinds there are.                    *)
CohortTypes ==
  /\ DOMAIN runs = Comparing!Cohorts
  /\ \A c \in Comparing!Cohorts :
       /\ Comparing!Made(c) \subseteq Comparing!Rows
       /\ runs[c] \in [Comparing!Made(c) -> Nat \ {0}]
  /\ conclusion.status \in Comparing!Statuses
  /\ conclusion.metric \in Comparing!Metrics \union {"none"}

LEMMA CohortTyped == Spec => [](part = "cohorts" => CohortTypes)
<1>1. Comparing!Init => CohortTypes
  <2> SUFFICES ASSUME Comparing!Init PROVE CohortTypes
    OBVIOUS
  <2>1. runs = [c \in Comparing!Cohorts |-> [kind \in {} |-> 0]]
    BY Zenon DEF Comparing!Init
  <2>2. conclusion.status = "open" /\ conclusion.metric = "none"
    BY DEF Comparing!Init
  <2>3. \A c \in Comparing!Cohorts : runs[c] = [kind \in {} |-> 0] /\ Comparing!Made(c) = {}
    BY <2>1 DEF Comparing!Made
  <2> QED BY <2>1, <2>2, <2>3 DEF CohortTypes, Comparing!Statuses
<1>2. ASSUME CohortTypes, Comparing!Collect
      PROVE  CohortTypes'
  <2>1. PICK cohort \in Comparing!Cohorts, added \in Comparing!Rows :
          runs' = [runs EXCEPT ![cohort] =
                     [kind \in Comparing!Made(cohort) \union {added} |->
                        Comparing!Times(cohort, kind) + IF kind = added THEN 1 ELSE 0]]
    BY <1>2 DEF Comparing!Collect
  <2>2. UNCHANGED conclusion
    BY <1>2 DEF Comparing!Collect
  <2> DEFINE more == [kind \in Comparing!Made(cohort) \union {added} |->
                        Comparing!Times(cohort, kind) + IF kind = added THEN 1 ELSE 0]
  <2>3. \A kind \in Comparing!Made(cohort) : runs[cohort][kind] \in Nat \ {0}
    BY <1>2 DEF CohortTypes
  <2>4. ASSUME NEW kind \in Comparing!Made(cohort) \union {added}
        PROVE  Comparing!Times(cohort, kind) + (IF kind = added THEN 1 ELSE 0) \in Nat \ {0}
    <3> DEFINE times == Comparing!Times(cohort, kind)
    <3>1. times \in Nat /\ (kind # added => times # 0)
      BY <2>3 DEF Comparing!Times
    <3> HIDE DEF times
    <3>2. times + (IF kind = added THEN 1 ELSE 0) \in Nat \ {0}
      BY <3>1
    <3> QED BY <3>2 DEF times
  <2>5. /\ more \in [Comparing!Made(cohort) \union {added} -> Nat \ {0}]
        /\ DOMAIN more = Comparing!Made(cohort) \union {added}
    BY <2>4
  <2> HIDE DEF more
  <2>6. DOMAIN runs' = Comparing!Cohorts
        /\ \A c \in Comparing!Cohorts : runs'[c] = IF c = cohort THEN more ELSE runs[c]
    BY <1>2, <2>1 DEF CohortTypes, more
  <2>7. ASSUME NEW c \in Comparing!Cohorts
        PROVE  /\ Comparing!Made(c)' \subseteq Comparing!Rows
               /\ runs'[c] \in [Comparing!Made(c)' -> Nat \ {0}]
    <3>1. CASE c = cohort
      <4>1. runs'[c] = more /\ Comparing!Made(c)' = DOMAIN more
        BY <2>6, <3>1 DEF Comparing!Made
      <4>2. Comparing!Made(cohort) \subseteq Comparing!Rows
        BY <1>2 DEF CohortTypes
      <4> QED BY <2>5, <4>1, <4>2
    <3>2. CASE c # cohort
      <4>1. runs'[c] = runs[c] /\ Comparing!Made(c)' = Comparing!Made(c)
        BY <2>6, <3>2 DEF Comparing!Made
      <4> QED BY <1>2, <4>1 DEF CohortTypes
    <3> QED BY <3>1, <3>2
  <2> QED BY <1>2, <2>2, <2>6, <2>7 DEF CohortTypes
<1>3. ASSUME CohortTypes, NEW metric \in Comparing!Metrics, Comparing!Compare(metric)
      PROVE  CohortTypes'
  <2>1. PICK status \in
               (IF \E c \in Comparing!Cohorts : Comparing!Included(c) = {} THEN {"NO_DATA"}
                ELSE IF \E c \in Comparing!Cohorts : ~Comparing!Enough(c) THEN {"INCONCLUSIVE"}
                ELSE {Comparing!Controlled(Comparing!Status(metric, interval)) :
                        interval \in Comparing!Intervals}) :
          conclusion' = [status |-> status, metric |-> metric]
    BY <1>3, Zenon DEF Comparing!Compare
  <2>2. status \in Comparing!Statuses
    <3>1. \/ status \in {"NO_DATA", "INCONCLUSIVE"}
          \/ \E interval \in Comparing!Intervals :
               status = Comparing!Controlled(Comparing!Status(metric, interval))
      BY <2>1, Zenon
    <3>2. \A interval : Comparing!Status(metric, interval) \in
                          {"LIKELY_IMPROVEMENT", "LIKELY_REGRESSION", "INCONCLUSIVE"}
      BY Zenon DEF Comparing!Status
    <3>3. \A s : Comparing!Controlled(s) \in {s, "INCONCLUSIVE"}
      BY Zenon DEF Comparing!Controlled
    <3> QED BY <3>1, <3>2, <3>3, Zenon DEF Comparing!Statuses
  <2>3. runs' = runs /\ conclusion'.status = status /\ conclusion'.metric = metric
    BY <1>3, <2>1 DEF Comparing!Compare
  <2>4. \A c : Comparing!Made(c)' = Comparing!Made(c)
    BY <2>3 DEF Comparing!Made
  <2> QED BY <1>3, <2>2, <2>3, <2>4 DEF CohortTypes
<1>4. [Next]_vars /\ part = "cohorts" => Comparing!Next \/ UNCHANGED cohortVars
  BY DEF Next, vars, restVars, cohortVars, WaitStep, UdpStep, VideoStep,
     EvidenceStep, TcpStep, RouterStep, SamplerStep, CohortStep, CampaignStep,
     LabStep
<1>5. CohortTypes /\ UNCHANGED cohortVars => CohortTypes'
  BY DEF CohortTypes, cohortVars, Comparing!Made
<1>6. CohortTypes /\ Comparing!Next => CohortTypes'
  BY <1>2, <1>3 DEF Comparing!Next
<1>7. Init => (part = "cohorts" => CohortTypes)
  BY <1>1 DEF Init
<1>8. (part = "cohorts" => CohortTypes) /\ [Next]_vars => (part = "cohorts" => CohortTypes)'
  BY <1>4, <1>5, <1>6, SamePart
<1> QED BY <1>7, <1>8, PTL DEF Spec


-----------------------------------------------------------------------------
(* The comparison of two variants.                                          *)

(* Of finitely many kinds there are finitely many runs.                      *)
LEMMA RunsAreCounted ==
  ASSUME CohortTypes, NEW c \in Comparing!Cohorts, NEW S, IsFiniteSet(S)
  PROVE  Comparing!HowMany(c, S) \in Nat
<1> DEFINE f == [kind \in S |-> Comparing!Numbered(c, kind)]
           T == {Comparing!Numbered(c, kind) : kind \in S}
<1>1. f \in Surjection(S, T)
  BY DEF Surjection
<1>2. IsFiniteSet(T)
  BY <1>1, FS_Surjection
<1>3. ASSUME NEW kind \in S PROVE IsFiniteSet(Comparing!Numbered(c, kind))
  <2>1. Comparing!Times(c, kind) \in Nat
    BY DEF CohortTypes, Comparing!Times
  <2> DEFINE n == Comparing!Times(c, kind)
  <2>2. IsFiniteSet(1 .. n)
    <3>1. n \in Int /\ 1 \in Int
      BY <2>1
    <3> HIDE DEF n
    <3> QED BY <3>1, FS_Interval
  <2>3. IsFiniteSet({kind})
    BY FS_Singleton, Zenon
  <2> QED BY <2>2, <2>3, FS_Product DEF Comparing!Numbered
<1>4. IsFiniteSet(UNION T)
  BY <1>2, <1>3, FS_UNION
<1>5. Cardinality(UNION T) \in Nat
  BY <1>4, FS_CardinalityType
<1> QED BY <1>5 DEF Comparing!HowMany, Comparing!Cardinality, Cardinality

(* No runs of no kinds.                                                      *)
LEMMA NoKindsNoRuns == \A c : Comparing!HowMany(c, {}) = 0
<1> TAKE c
<1>1. {Comparing!Numbered(c, kind) : kind \in {}} = {}
  OBVIOUS
<1>2. UNION {} = {} /\ Cardinality({}) = 0
  BY FS_EmptySet
<1>3. Cardinality(UNION {Comparing!Numbered(c, kind) : kind \in {}}) = 0
  BY <1>1, <1>2, Zenon
<1> QED BY <1>3, Zenon DEF Comparing!HowMany, Comparing!Cardinality, Cardinality

(* The median of a cohort that has measured is a number.                     *)
LEMMA MedianIsANumber ==
  ASSUME CohortTypes, NEW c \in Comparing!Cohorts, IsFiniteSet(Comparing!Made(c)),
         Comparing!Enough(c)
  PROVE  Comparing!Median(c) \in Int
<1> DEFINE M == Comparing!Measured(c)
           n == Comparing!HowMany(c, M)
           values == {kind["metric"] : kind \in M}
           UpTo(v) == Comparing!HowMany(c, {kind \in M : kind["metric"] <= v})
<1>1. M \subseteq Comparing!Rows /\ M \subseteq Comparing!Made(c)
      /\ \A kind \in M : kind["metric"] # Comparing!NoMetric /\ kind.eligible
                          /\ kind.key # Comparing!Incomplete
  BY DEF CohortTypes, Comparing!Measured, Comparing!Included, Comparing!Given,
    Comparing!Complete
<1>2. IsFiniteSet(M)
  BY <1>1, FS_Subset
<1>3. values \subseteq Nat
  <2>1. \A kind \in Comparing!Rows : kind.eligible /\ kind.key # Comparing!Incomplete
          => kind["metric"] \in MetricValues \union {Comparing!NoMetric}
    BY DEF Comparing!Rows, Comparing!Row
  <2> QED BY <1>1, <2>1, ComparisonAssumption
<1>4. n \in Nat /\ n >= 1
  <2>1. n \in Nat
    BY <1>1, <1>2, RunsAreCounted
  <2>2. n >= MinRuns
    BY DEF Comparing!Enough
  <2> HIDE DEF n
  <2> QED BY <2>1, <2>2, ComparisonAssumption
<1>5. M # {}
  <2> SUFFICES ASSUME M = {} PROVE FALSE
    OBVIOUS
  <2>1. n = 0
    BY NoKindsNoRuns
  <2> QED BY <1>4, <2>1
<1>6. IsFiniteSet(values) /\ values # {}
  <2> DEFINE f == [kind \in M |-> kind["metric"]]
  <2>1. f \in Surjection(M, values)
    BY DEF Surjection
  <2> QED BY <1>2, <1>5, <2>1, FS_Surjection
<1>7. PICK top \in values : \A v \in values : v <= top
  BY <1>3, <1>6, GreatestNumber
<1>8. UpTo(top) = n
  <2>1. {kind \in M : kind["metric"] <= top} = M
    BY <1>7
  <2> QED BY <2>1
<1> DEFINE Half == {v \in values : 2 * UpTo(v) >= n}
           More == {v \in values : 2 * UpTo(v) > n}
<1>9. top \in Half /\ top \in More
  <2> HIDE DEF n, UpTo, values
  <2> QED BY <1>4, <1>8
<1>10. Half \subseteq Nat /\ More \subseteq Nat
  BY <1>3
<1>11. Comparing!Median(c) = Comparing!Min(Half) + Comparing!Min(More)
  BY DEF Comparing!Median, Comparing!DoubleMedian
<1>12. Comparing!Min(Half) \in Half /\ Comparing!Min(More) \in More
  <2> HIDE DEF Half, More
  <2> QED BY <1>9, <1>10, LeastNumber
<1>13. Comparing!Min(Half) \in Nat /\ Comparing!Min(More) \in Nat
  BY <1>10, <1>12, Zenon
<1> DEFINE low == Comparing!Min(Half)
           high == Comparing!Min(More)
<1>14. low + high \in Int
  <2> HIDE DEF low, high
  <2>1. low \in Nat /\ high \in Nat
    BY <1>13 DEF low, high
  <2> QED BY <2>1
<1> QED BY <1>11, <1>14

(* What is practical for the better is no step for the worse.                *)
LEMMA PracticalIsNoLoss ==
  ASSUME NEW metric \in Comparing!Metrics, NEW step \in Int,
         Comparing!Median("baseline") \in Int, Comparing!Practical(metric, step)
  PROVE  step >= 0
<1> DEFINE size == Comparing!AbsOf(Comparing!Median("baseline"))
           least == 200 * Comparing!Policy[metric].absolute
           share == size * Comparing!Policy[metric].percent
<1>1. size \in Nat
  BY DEF Comparing!AbsOf
<1> HIDE DEF size
<1>2. Comparing!Policy[metric].absolute \in Nat
  BY DEF Comparing!Metrics, Comparing!Policy
<1>3. \/ Comparing!Policy[metric].percent = 10
      \/ Comparing!Policy[metric].percent = 15
      \/ Comparing!Policy[metric].percent = 0
  BY DEF Comparing!Metrics, Comparing!Policy
<1>4. least \in Nat
  <2> DEFINE absolute == Comparing!Policy[metric].absolute
  <2> HIDE DEF absolute
  <2>1. absolute \in Nat
    BY <1>2 DEF absolute
  <2>2. 200 * absolute \in Nat
    BY <2>1, SMT
  <2> QED BY <2>2 DEF absolute
<1>5. share \in Nat
  <2> DEFINE percent == Comparing!Policy[metric].percent
  <2> HIDE DEF percent
  <2>1. percent = 10 \/ percent = 15 \/ percent = 0
    BY <1>3 DEF percent
  <2>2. size * percent \in Nat
    BY <1>1, <2>1, SMT
  <2> QED BY <2>2 DEF percent
<1>6. 100 * step >= Comparing!Max({least, share})
  BY DEF Comparing!Practical, size
<1> HIDE DEF least, share
<1>7. Comparing!Max({least, share}) \in Nat
  <2>1. \E x \in {least, share} : \A y \in {least, share} : x >= y
    BY <1>4, <1>5
  <2>2. Comparing!Max({least, share}) \in {least, share}
    BY <2>1 DEF Comparing!Max
  <2> QED BY <1>4, <1>5, <2>2
<1> DEFINE greater == Comparing!Max({least, share})
<1> HIDE DEF greater
<1>8. greater \in Nat /\ 100 * step >= greater
  BY <1>6, <1>7 DEF greater
<1> QED BY <1>8, SMT

(* What must hold for a difference to be said to be the variant's.           *)
Founded(status, metric) ==
  /\ \E key \in Comparing!Keys : \A c \in Comparing!Cohorts :
       \A kind \in Comparing!Made(c) :
         kind.eligible /\ kind.key # Comparing!Incomplete => kind.key = key
  /\ \A c \in Comparing!Cohorts :
       Comparing!HowMany(c, {kind \in Comparing!Made(c) :
                               kind.eligible /\ kind.key # Comparing!Incomplete
                                 /\ kind["metric"] # Comparing!NoMetric}) >= MinRuns
  /\ Comparing!HoursOf("baseline") \intersect Comparing!HoursOf("candidate") # {}
  /\ (status = "LIKELY_IMPROVEMENT") = (metric = "rate") => Comparing!Delta >= 0
  /\ (status = "LIKELY_REGRESSION") = (metric = "rate") => Comparing!Delta <= 0

(* The runs that are compared agree on what they were made of.               *)
LEMMA ComparedRunsAgree ==
  ASSUME CohortTypes, \E c \in Comparing!Cohorts : Comparing!Included(c) # {}
  PROVE  /\ \E key \in Comparing!Keys : \A c \in Comparing!Cohorts :
              \A kind \in Comparing!Made(c) :
                kind.eligible /\ kind.key # Comparing!Incomplete => kind.key = key
         /\ \A c \in Comparing!Cohorts :
              Comparing!Measured(c) =
                {kind \in Comparing!Made(c) :
                   kind.eligible /\ kind.key # Comparing!Incomplete
                     /\ kind["metric"] # Comparing!NoMetric}
<1>1. Comparing!Compatible
  BY DEF Comparing!Included
<1>2. \A c \in Comparing!Cohorts : \A kind \in Comparing!Made(c) :
        kind.eligible /\ kind.key # Comparing!Incomplete => kind.key \in Comparing!CompleteKeys
  BY DEF Comparing!CompleteKeys, Comparing!Given, Comparing!Complete
<1>3. Comparing!CompleteKeys \subseteq Comparing!Keys
  <2>1. \A kind \in Comparing!Rows : kind.key # Comparing!Incomplete => kind.key \in Comparing!Keys
    BY DEF Comparing!Rows, Comparing!Row
  <2>2. \A kind : kind \in UNION {Comparing!Given(c) : c \in Comparing!Cohorts}
                    => kind \in Comparing!Rows
    BY DEF CohortTypes, Comparing!Given
  <2> QED BY <2>1, <2>2 DEF Comparing!CompleteKeys, Comparing!Complete
<1>4. PICK key : Comparing!CompleteKeys = {key}
  <2>1. IsFiniteSet(Comparing!Keys)
    <3>1. IsFiniteSet({} \union {"a key"})
      BY FS_EmptySet, FS_AddElement
    <3>2. IsFiniteSet(({} \union {"a key"}) \union {"another key"})
      BY <3>1, FS_AddElement
    <3>3. ({} \union {"a key"}) \union {"another key"} = Comparing!Keys
      BY DEF Comparing!Keys
    <3> QED BY <3>2, <3>3
  <2>2. IsFiniteSet(Comparing!CompleteKeys)
    BY <1>3, <2>1, FS_Subset
  <2>3. Cardinality(Comparing!CompleteKeys) = 1
    BY <1>1 DEF Comparing!Compatible, Comparing!Cardinality, Cardinality
  <2> QED BY <2>2, <2>3, FS_Singleton
<1>5. key \in Comparing!Keys
  BY <1>3, <1>4
<1>6. \A c \in Comparing!Cohorts :
        Comparing!Measured(c) =
          {kind \in Comparing!Made(c) :
             kind.eligible /\ kind.key # Comparing!Incomplete
               /\ kind["metric"] # Comparing!NoMetric}
  BY <1>1, <1>2
     DEF Comparing!Measured, Comparing!Included, Comparing!Given,
         Comparing!Complete
<1> QED BY <1>2, <1>4, <1>5, <1>6

(* A difference is said to be likely only with that foundation.              *)
LEMMA LikelyIsFounded ==
  ASSUME CohortTypes, \A c \in Comparing!Cohorts : IsFiniteSet(Comparing!Made(c)),
         \A c \in Comparing!Cohorts : Comparing!Included(c) # {} /\ Comparing!Enough(c),
         NEW metric \in Comparing!Metrics, NEW interval, NEW status,
         status = Comparing!Controlled(Comparing!Status(metric, interval)),
         status \in {"LIKELY_IMPROVEMENT", "LIKELY_REGRESSION"}
  PROVE  Founded(status, metric)
<1>1. ~Comparing!TimeOfNightWarning /\ status = Comparing!Status(metric, interval)
  BY Zenon DEF Comparing!Controlled
<1>2. "baseline" \in Comparing!Cohorts /\ "candidate" \in Comparing!Cohorts
  BY DEF Comparing!Cohorts
<1>3. Comparing!HoursOf("baseline") \intersect Comparing!HoursOf("candidate") # {}
  BY <1>1, Zenon DEF Comparing!TimeOfNightWarning
<1>4. Comparing!Median("baseline") \in Int /\ Comparing!Median("candidate") \in Int
  BY <1>2, MedianIsANumber
<1>5. Comparing!Delta \in Int
  <2> DEFINE b == Comparing!Median("baseline")
             a == Comparing!Median("candidate")
  <2>1. Comparing!Delta = a - b
    BY DEF Comparing!Delta
  <2> HIDE DEF a, b
  <2>2. a \in Int /\ b \in Int
    BY <1>4 DEF a, b
  <2> QED BY <2>1, <2>2
<1> DEFINE delta == Comparing!Delta
           gain == IF Comparing!Policy[metric].higher THEN delta ELSE -delta
<1>6. Comparing!Policy[metric].higher <=> metric = "rate"
  BY DEF Comparing!Metrics, Comparing!Policy
<1>7. /\ status = "LIKELY_IMPROVEMENT" => Comparing!Practical(metric, gain)
      /\ status = "LIKELY_REGRESSION" => Comparing!Practical(metric, -gain)
  BY <1>1, Zenon DEF Comparing!Status
<1> HIDE DEF delta
<1>8. gain \in Int /\ -gain \in Int
  BY <1>5 DEF delta
<1>9. /\ status = "LIKELY_IMPROVEMENT" => gain >= 0
      /\ status = "LIKELY_REGRESSION" => -gain >= 0
  <2> HIDE DEF gain
  <2>1. status = "LIKELY_IMPROVEMENT" => gain >= 0
    BY <1>4, <1>7, <1>8, PracticalIsNoLoss
  <2>2. status = "LIKELY_REGRESSION" => -gain >= 0
    BY <1>4, <1>7, <1>8, PracticalIsNoLoss
  <2> QED BY <2>1, <2>2
<1>10. /\ (status = "LIKELY_IMPROVEMENT") = (metric = "rate") => delta >= 0
       /\ (status = "LIKELY_REGRESSION") = (metric = "rate") => delta <= 0
  <2>1. delta \in Int
    BY <1>5 DEF delta
  <2>2. CASE status = "LIKELY_IMPROVEMENT" /\ metric = "rate"
    <3>1. gain = delta /\ gain >= 0
      BY <1>6, <1>9, <2>2
    <3> QED BY <2>1, <2>2, <3>1
  <2>3. CASE status = "LIKELY_IMPROVEMENT" /\ metric # "rate"
    <3>1. gain = -delta /\ gain >= 0
      BY <1>6, <1>9, <2>3
    <3> QED BY <2>1, <2>3, <3>1
  <2>4. CASE status = "LIKELY_REGRESSION" /\ metric = "rate"
    <3>1. gain = delta /\ -gain >= 0
      BY <1>6, <1>9, <2>4
    <3> QED BY <2>1, <2>4, <3>1
  <2>5. CASE status = "LIKELY_REGRESSION" /\ metric # "rate"
    <3>1. gain = -delta /\ -gain >= 0
      BY <1>6, <1>9, <2>5
    <3> QED BY <2>1, <2>5, <3>1
  <2> QED BY <2>2, <2>3, <2>4, <2>5
<1>11. \A c \in Comparing!Cohorts : Comparing!HowMany(c, Comparing!Measured(c)) >= MinRuns
  BY DEF Comparing!Enough
<1>12. \E c \in Comparing!Cohorts : Comparing!Included(c) # {}
  BY <1>2
<1> QED BY <1>3, <1>10, <1>11, <1>12, ComparedRunsAgree DEF Founded, delta

(* The foundation depends on the runs only.                                  *)
LEMMA SameRunsSameFoundation ==
  ASSUME UNCHANGED runs
  PROVE  /\ \A c : Comparing!Made(c)' = Comparing!Made(c)
         /\ \A status, metric : Founded(status, metric)' = Founded(status, metric)
<1>1. \A c, kind : Comparing!Numbered(c, kind)' = Comparing!Numbered(c, kind)
  BY DEF Comparing!Numbered, Comparing!Times, Comparing!Made
<1>2. \A c : Comparing!Made(c)' = Comparing!Made(c)
  BY DEF Comparing!Made
<1>3. \A c, S : Comparing!HowMany(c, S)' = Comparing!HowMany(c, S)
  BY <1>1 DEF Comparing!HowMany
<1>4. \A c : Comparing!Given(c)' = Comparing!Given(c)
  BY <1>2 DEF Comparing!Given
<1>5. Comparing!CompleteKeys' = Comparing!CompleteKeys
  BY <1>4 DEF Comparing!CompleteKeys
<1>6. Comparing!Compatible' = Comparing!Compatible
  BY <1>5 DEF Comparing!Compatible
<1>7. \A c : Comparing!Included(c)' = Comparing!Included(c)
  BY <1>4, <1>5, <1>6 DEF Comparing!Included
<1>8. \A c : Comparing!Measured(c)' = Comparing!Measured(c)
  BY <1>7 DEF Comparing!Measured
<1>9. \A c : Comparing!HoursOf(c)' = Comparing!HoursOf(c)
  BY <1>7 DEF Comparing!HoursOf
<1>10. \A c : Comparing!Median(c)' = Comparing!Median(c)
  BY <1>3, <1>8 DEF Comparing!Median, Comparing!DoubleMedian
<1>11. Comparing!Delta' = Comparing!Delta
  BY <1>10 DEF Comparing!Delta
<1> QED BY <1>2, <1>3, <1>9, <1>11, Zenon DEF Founded

CohortInv ==
  /\ CohortTypes
  /\ \A c \in Comparing!Cohorts : IsFiniteSet(Comparing!Made(c))
  /\ \A status \in {"LIKELY_IMPROVEMENT", "LIKELY_REGRESSION"}, metric \in Comparing!Metrics :
       conclusion.status = status /\ conclusion.metric = metric => Founded(status, metric)
  /\ conclusion.status = "open" \/ conclusion.metric \in Comparing!Metrics

LEMMA CohortPartHolds == Spec => [](part = "cohorts" => CohortInv)
<1>1. ASSUME CohortTypes, Comparing!Init PROVE CohortInv
  <2>1. /\ runs = [c \in Comparing!Cohorts |-> [kind \in {} |-> 0]]
        /\ conclusion.status = "open"
    BY <1>1 DEF Comparing!Init
  <2>2. ASSUME NEW c \in Comparing!Cohorts PROVE IsFiniteSet(Comparing!Made(c))
    <3>1. Comparing!Made(c) = {}
      BY <2>1 DEF Comparing!Made
    <3> QED BY <3>1, FS_EmptySet
  <2> QED BY <1>1, <2>1, <2>2 DEF CohortInv
<1>2. ASSUME CohortInv, CohortTypes', Comparing!Collect PROVE CohortInv'
  <2>1. PICK cohort \in Comparing!Cohorts, added \in Comparing!Rows :
          runs' = [runs EXCEPT ![cohort] =
                     [kind \in Comparing!Made(cohort) \union {added} |->
                        Comparing!Times(cohort, kind) + IF kind = added THEN 1 ELSE 0]]
    BY <1>2 DEF Comparing!Collect
  <2>2. conclusion' = conclusion /\ conclusion.status = "open"
    BY <1>2 DEF Comparing!Collect
  <2>3. ASSUME NEW c \in Comparing!Cohorts PROVE IsFiniteSet(Comparing!Made(c)')
    <3>1. Comparing!Made(c)' \subseteq Comparing!Made(c) \union {added}
      BY <1>2, <2>1 DEF CohortInv, CohortTypes, Comparing!Made
    <3>2. IsFiniteSet(Comparing!Made(c) \union {added})
      BY <1>2, FS_AddElement DEF CohortInv
    <3> QED BY <3>1, <3>2, FS_Subset
  <2> QED BY <1>2, <2>2, <2>3 DEF CohortInv
<1>3. ASSUME CohortInv, CohortTypes', NEW metric \in Comparing!Metrics,
             Comparing!Compare(metric)
      PROVE  CohortInv'
  <2>1. PICK status \in
               (IF \E c \in Comparing!Cohorts : Comparing!Included(c) = {} THEN {"NO_DATA"}
                ELSE IF \E c \in Comparing!Cohorts : ~Comparing!Enough(c) THEN {"INCONCLUSIVE"}
                ELSE {Comparing!Controlled(Comparing!Status(metric, interval)) :
                        interval \in Comparing!Intervals}) :
          conclusion' = [status |-> status, metric |-> metric]
    BY <1>3, Zenon DEF Comparing!Compare
  <2>2. UNCHANGED runs
    BY <1>3 DEF Comparing!Compare
  <2>3. ASSUME status \in {"LIKELY_IMPROVEMENT", "LIKELY_REGRESSION"}
        PROVE  Founded(status, metric)
    <3>1. status # "NO_DATA" /\ status # "INCONCLUSIVE"
      BY <2>3
    <3>2. \A c \in Comparing!Cohorts : Comparing!Included(c) # {} /\ Comparing!Enough(c)
      BY <2>1, <3>1, Zenon
    <3>3. PICK interval \in Comparing!Intervals :
            status = Comparing!Controlled(Comparing!Status(metric, interval))
      BY <2>1, <3>1, Zenon
    <3> QED BY <1>3, <2>3, <3>2, <3>3, LikelyIsFounded DEF CohortInv
  <2>4. conclusion'.status = status /\ conclusion'.metric = metric
    BY <2>1
  <2>5. \A c \in Comparing!Cohorts : IsFiniteSet(Comparing!Made(c)')
    BY <1>3, <2>2, SameRunsSameFoundation DEF CohortInv
  <2>6. status \in {"LIKELY_IMPROVEMENT", "LIKELY_REGRESSION"} => Founded(status, metric)'
    BY <2>2, <2>3, SameRunsSameFoundation
  <2>7. \A s \in {"LIKELY_IMPROVEMENT", "LIKELY_REGRESSION"}, m \in Comparing!Metrics :
          conclusion'.status = s /\ conclusion'.metric = m => Founded(s, m)'
    BY <2>4, <2>6
  <2> QED BY <1>3, <2>4, <2>5, <2>7 DEF CohortInv
<1>4. [Next]_vars /\ part = "cohorts" => Comparing!Next \/ UNCHANGED cohortVars
  BY DEF Next, vars, restVars, cohortVars, WaitStep, UdpStep, VideoStep,
     EvidenceStep, TcpStep, RouterStep, SamplerStep, CohortStep, CampaignStep,
     LabStep
<1>5. ASSUME CohortInv, CohortTypes', UNCHANGED cohortVars PROVE CohortInv'
  <2>1. UNCHANGED runs /\ conclusion' = conclusion
    BY <1>5 DEF cohortVars
  <2> QED BY <1>5, <2>1, SameRunsSameFoundation, Zenon DEF CohortInv
<1>6. ASSUME CohortInv, CohortTypes', Comparing!Next PROVE CohortInv'
  BY <1>2, <1>3, <1>6 DEF Comparing!Next
<1>7. Init /\ (part = "cohorts" => CohortTypes) => (part = "cohorts" => CohortInv)
  BY <1>1 DEF Init
<1>8. /\ part = "cohorts" => CohortInv
      /\ (part = "cohorts" => CohortTypes)'
      /\ [Next]_vars
      => (part = "cohorts" => CohortInv)'
  BY <1>4, <1>5, <1>6, SamePart
<1> QED BY <1>7, <1>8, CohortTyped, PTL DEF Spec

(* Of a difference between two variants it is said that it is likely theirs  *)
(* only if all runs that count and are described were made under the same    *)
(* conditions, each variant has runs enough that measured, some of both were *)
(* made at the same hour, and the better one's median is not worse: for all  *)
(* values a metric may have, all hours and all numbers of runs.              *)
THEOREM Controlled == Spec => []ConclusionsAreControlled
<1>1. CohortInv => Comparing!ConclusionsAreControlled
  <2> SUFFICES ASSUME CohortInv, Comparing!Certain
               PROVE  Comparing!ConclusionsAreControlled
    BY DEF Comparing!ConclusionsAreControlled
  <2> DEFINE status == conclusion.status
             metric == conclusion.metric
  <2>1. /\ status \in {"LIKELY_IMPROVEMENT", "LIKELY_REGRESSION"}
        /\ metric \in Comparing!Metrics
    BY DEF CohortInv, Comparing!Certain
  <2>2. Founded(status, metric)
    BY <2>1 DEF CohortInv
  <2> QED BY <2>2, Zenon DEF Founded, Comparing!ConclusionsAreControlled,
            Comparing!HigherIsBetter
<1>2. (part = "cohorts" => CohortInv) => ConclusionsAreControlled
  BY <1>1 DEF ConclusionsAreControlled
<1> QED BY <1>2, CohortPartHolds, PTL

-----------------------------------------------------------------------------
(* All parts.                                                               *)

(* The variables of the part that is followed keep their types; in           *)
(* particular no counter of the node, of a sender or of the sampler leaves   *)
(* its bounds, and no more video frames are in the making than may be.       *)
THEOREM TypeCorrect == Spec => []TypeOK
<1>1. Init => part \in Parts
  BY DEF Init
<1>2. part \in Parts /\ [Next]_vars => (part \in Parts)'
  BY SamePart
<1>3. Spec => [](part \in Parts)
  BY <1>1, <1>2, PTL DEF Spec
<1>4. /\ part = "router" /\ RouterPart => Router!TypeOK
      /\ part = "sampler" /\ SamplerPart => Sampling!TypeOK
      /\ part = "tcp" /\ TcpPart => Tcp!TypeOK
      /\ part = "evidence" /\ JudgePart => Judging!TypeOK
      /\ part = "udp" /\ UdpPart => Udp!TypeOK
  BY PartsTyped, UdpTyped DEF RouterPart, SamplerPart, TcpPart, JudgePart, UdpPart
<1>5. CohortTypes => Comparing!TypeOK
  BY DEF CohortTypes, Comparing!TypeOK
<1>6. CampaignTypes => Making!TypeOK
  BY DEF CampaignTypes, Making!TypeOK
<1>7. /\ part \in Parts
      /\ RouterPart /\ SamplerPart /\ TcpPart /\ JudgePart /\ UdpPart /\ LabPart
      /\ part = "cohorts" => CohortTypes
      /\ part = "campaigns" => CampaignTypes
      /\ Waiting!TypeOK /\ Video!TypeOK
      => TypeOK
  BY <1>4, <1>5, <1>6, LabTyped, PartsAssumption DEF TypeOK
<1> QED
  BY <1>3, <1>7, RouterPartHolds, SamplerPartHolds, TcpPartHolds, JudgePartHolds,
     UdpPartHolds, LabPartHolds, CohortTyped, CampaignTyped, WaitTyped, VideoTyped, PTL
=============================================================================

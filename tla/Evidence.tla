-------------------------------- MODULE Evidence --------------------------------
(***************************************************************************)
(* What makes a run count: the stages of its plan leave rows of results,     *)
(* _required_live_results_confirmed asks which of them the receiver has      *)
(* confirmed, and evaluate_run_integrity decides whether the run may be      *)
(* compared with others.                                                     *)
(*                                                                          *)
(* A definition marked "mutant" is not part of the model: it is the         *)
(* definition below it with a plausible mistake.                            *)
(***************************************************************************)
EXTENDS StageParameters, FiniteSets

VARIABLES
  protocol,  \* what the resolved plan says of its protocol
  rows,      \* the rows of results, by stage
  verdict    \* what execute_run concludes

vars == <<protocol, rows, verdict>>

-----------------------------------------------------------------------------
(* The protocols: the frozen ones as run_batch plans them, and the lab's.    *)

Stages == {"latency", "tcp", "udp", "video"}

Protocol(id, declared, plan) == [id |-> id, declared |-> declared, plan |-> plan]

ShippedProtocols ==
  { Protocol("comparable-v1", FALSE, Stages),
    Protocol("comparable-benchmark", FALSE, Stages),
    Protocol("exploratory-lab", FALSE, Stages),
    Protocol("video-stability-v1", FALSE, {"latency", "video"}),
    Protocol("video-city-5mbps-25fps-30m-v1", TRUE, {"latency", "video"}),
    Protocol("quick-connection-check-v1", FALSE, {"latency", "video"}) }

(* A plan of the user's that declares itself comparable in its metadata.     *)
DeclaredProtocols == { Protocol("a user's", TRUE, Stages) }

-----------------------------------------------------------------------------
(* The rows.  One of latency, TCP or UDP is confirmed or not; of the video   *)
(* probe it matters who sent, whose frames were seen, and whether the        *)
(* receiver's summary could be fetched.                                      *)

Rounds(stage) ==
  CASE stage = "tcp" -> 1 .. TcpRounds
    [] stage = "udp" -> 1 .. UdpStages
    [] OTHER         -> {1}

NotRun == [ran |-> FALSE]

(* For each round, the paths whose row is confirmed by the receiver.         *)
Measure(stage) ==
  /\ stage \in protocol.plan \ {"video"} /\ ~rows[stage].ran
  /\ \E confirmed \in [Rounds(stage) -> SUBSET Paths] :
       rows' = [rows EXCEPT ![stage] = [ran |-> TRUE, confirmed |-> confirmed]]
  /\ UNCHANGED <<protocol, verdict>>

MeasureVideo ==
  /\ "video" \in protocol.plan /\ ~rows["video"].ran
  /\ \E sent \in SUBSET Paths, error \in BOOLEAN :
       \E seen \in SUBSET sent :
         rows' = [rows EXCEPT !["video"] =
           [ran |-> TRUE, sent |-> sent, error |-> error,
            seen |-> IF error THEN {} ELSE seen]]
  /\ UNCHANGED <<protocol, verdict>>

-----------------------------------------------------------------------------
(* The judgement.                                                           *)

AnyPath(paths) == paths # {}                                      \* mutant
AllPaths(paths) == Paths # {} /\ Paths \subseteq paths

RowsConfirmed(stage) ==
  \A n \in Rounds(stage) : AllPaths(rows[stage].confirmed[n])

(* The union of the paths is there only if two of them were seen.            *)
VideoConfirmed ==
  LET video == rows["video"] IN
  /\ AllPaths(video.sent)
  /\ ~video.error
  /\ AllPaths(video.seen)
  /\ Cardinality(video.seen) >= 2

StageConfirmed(stage) ==
  \/ stage \notin protocol.plan
  \/ stage = "video" /\ VideoConfirmed
  \/ stage # "video" /\ RowsConfirmed(stage)

Required ==
  IF protocol.id = "quick-connection-check-v1" THEN {"latency", "video"}
  ELSE IF protocol.declared /\ "tcp" \in protocol.plan THEN Stages
  ELSE IF "video" \in protocol.plan THEN {"video"}
  ELSE {"latency", "tcp", "udp"}

Live == \A stage \in Required : StageConfirmed(stage)

LegacyIds == {"comparable-benchmark", "comparable-v1"}
Comparable == protocol.declared \/ protocol.id \in LegacyIds

(* The samples and the environment snapshot may be incomplete: such a run is *)
(* excluded whatever its rows say.                                           *)
Judge ==
  /\ verdict = "open"
  /\ \A stage \in protocol.plan : rows[stage].ran
  /\ \/ Live /\ Comparable /\ verdict' = "eligible"
     \/ verdict' = "excluded"
  /\ UNCHANGED <<protocol, rows>>

-----------------------------------------------------------------------------
Init ==
  /\ protocol \in ShippedProtocols \union DeclaredProtocols
  /\ rows = [stage \in Stages |-> NotRun]
  /\ verdict = "open"

Next == MeasureVideo \/ Judge \/ \E stage \in Stages : Measure(stage)

Spec == Init /\ [][Next]_vars

-----------------------------------------------------------------------------
(* Properties.                                                              *)

Eligible == verdict = "eligible"

TypeOK ==
  /\ protocol \in ShippedProtocols \union DeclaredProtocols
  /\ \A stage \in Stages : rows[stage].ran => stage \in protocol.plan
  /\ verdict \in {"open", "eligible", "excluded"}

Everywhere(stage) ==
  \A n \in Rounds(stage), p \in Paths : p \in rows[stage].confirmed[n]

(* No run is compared unless the frames of every path were seen, if its plan *)
(* has video; and unless the receiver has confirmed each TCP round and UDP   *)
(* stage of the plan on every path, if its protocol declares itself          *)
(* comparable.                                                               *)
ComparedRunsAreConfirmed ==
  Eligible =>
    /\ "video" \in protocol.plan => rows["video"].seen = Paths
    /\ protocol.declared =>
         \A stage \in {"tcp", "udp"} \intersect protocol.plan : Everywhere(stage)

(* docs/analytics-validity.md: runs are grouped only with valid receiver     *)
(* confirmation: of all that the plan uploads, whatever the protocol.        *)
UploadsAreConfirmed ==
  Eligible => \A stage \in {"tcp", "udp"} \intersect protocol.plan : Everywhere(stage)
=============================================================================

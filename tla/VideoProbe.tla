------------------------------ MODULE VideoProbe ------------------------------
(***************************************************************************)
(* The video probe: a sender per path sends the same numbered frames in      *)
(* fragments (run_video_udp_probe); stockbot puts them together again        *)
(* (record_video_frame_datagram) and forgets frames that stay incomplete;    *)
(* _execute_video_probe_stage waits for the senders, fetches the receiver's  *)
(* final summary, which deletes it there, and joins the two.                 *)
(*                                                                          *)
(* Times of arrival, and which path was first, are left out: no count        *)
(* depends on them.                                                          *)
(*                                                                          *)
(* A definition marked "mutant" is not part of the model: it is the         *)
(* definition below it with a plausible mistake.                            *)
(***************************************************************************)
EXTENDS StageParameters, FiniteSets, FiniteSetsExt

VARIABLES
  sender,    \* the engine's thread of each path
  wire,      \* fragments under way
  copies,    \* fragments delivered twice so far
  table,     \* VIDEO_FRAMES[run_id]: what the node has of each path it knows
  reserved,  \* whether the run's reservation is in force
  result,    \* what the stage returns
  arrived    \* history: the fragments that the node has taken in

vars == <<sender, wire, copies, table, reserved, result, arrived>>

NoResult == [status |-> "none"]

NotBelow(bound, n) == IF n < bound THEN bound ELSE n

-----------------------------------------------------------------------------
(* The senders.                                                             *)

Sending(p) == sender[p].at = "sending"

CutIsNotSent(p) == 0                                               \* mutant
(* A cancel between two fragments: the frame counts as sent all the same.    *)
SentIfCut(p) == 1

SendFragment(p) ==
  LET s == sender[p] IN
  /\ Sending(p) /\ s.frames < Frames
  /\ wire' = wire \union {[path |-> p, frame |-> s.frames, index |-> s.next]}
  /\ sender' = [sender EXCEPT ![p] =
       IF s.next + 1 < Fragments
         THEN [at |-> s.at, frames |-> s.frames, next |-> s.next + 1]
         ELSE [at |-> s.at, frames |-> s.frames + 1, next |-> 0]]
  /\ UNCHANGED <<copies, table, reserved, result, arrived>>

(* All frames are sent, the deadline has come, or a cancel token is set.     *)
StopBetweenFrames(p) ==
  /\ Sending(p) /\ sender[p].next = 0
  /\ sender' = [sender EXCEPT ![p].at = "done"]
  /\ UNCHANGED <<wire, copies, table, reserved, result, arrived>>

StopWithinFrame(p) ==
  /\ Faults
  /\ Sending(p) /\ sender[p].frames < Frames
  /\ sender' = [sender EXCEPT ![p] =
       [at |-> "done", next |-> 0, frames |-> @.frames + SentIfCut(p)]]
  /\ UNCHANGED <<wire, copies, table, reserved, result, arrived>>

-----------------------------------------------------------------------------
(* The node.                                                                *)

(* What the node keeps of a path: the fragments of the frames in the making, *)
(* three counters, the frames found complete, and all that are settled.      *)
Path(active, seen, completes, partials, whole, finalized) ==
  [active |-> active, seen |-> seen, completes |-> completes,
   partials |-> partials, whole |-> whole, finalized |-> finalized]

Unknown == Path(<< >>, 0, 0, 0, {}, {})
KnownOf(t, p) == IF p \in DOMAIN t THEN t[p] ELSE Unknown

Active(path) == DOMAIN path.active
Without(active, f) == [g \in DOMAIN active \ {f} |-> active[g]]
AlmostWhole(fragments) == Cardinality(fragments) >= Fragments - 1 \* mutant
IsWhole(fragments) == Cardinality(fragments) >= Fragments

(* frames.pop, then _finalize_video_frame.                                   *)
FinalizeOne(path, f) ==
  LET rest    == Without(path.active, f)
      settled == path.finalized \union {f}
  IN IF f \in path.finalized
       THEN Path(rest, path.seen, path.completes, path.partials, path.whole, settled)
     ELSE IF IsWhole(path.active[f])
       THEN Path(rest, path.seen, path.completes + 1, path.partials,
                 path.whole \union {f}, settled)
     ELSE Path(rest, path.seen, path.completes, path.partials + 1, path.whole, settled)

FinalizeAll(path) ==
  LET pending == Active(path) \ path.finalized
      whole   == {f \in pending : IsWhole(path.active[f])}
  IN Path(<< >>, path.seen, path.completes + Cardinality(whole),
          path.partials + Cardinality(pending \ whole),
          path.whole \union whole, path.finalized \union pending)

PruneNothing(path) == path                                        \* mutant
(* One datagram adds one frame at most, so that the loop runs at most once.  *)
Prune(path) ==
  IF Cardinality(Active(path)) > MaxActive
    THEN FinalizeOne(path, Min(Active(path)))
    ELSE path

TakeAgain(path, f) == FALSE                                       \* mutant
TooLate(path, f) == f \in path.finalized

WithFragment(path, f, i) ==
  LET known == Active(path)
      has(g) == IF g \in known THEN path.active[g] ELSE {}
  IN Path([g \in known \union {f} |-> has(g) \union (IF g = f THEN {i} ELSE {})],
          IF f \in known THEN path.seen ELSE path.seen + 1,
          path.completes, path.partials, path.whole, path.finalized)

Recorded(path, f, i) ==
  IF TooLate(path, f) THEN path
  ELSE LET grown == WithFragment(path, f, i)
       IN Prune(IF IsWhole(grown.active[f]) THEN FinalizeOne(grown, f) ELSE grown)

(* The node takes d from the network; a copy may stay behind.  A fragment    *)
(* that is lost on the way, or refused for want of a valid token, is one     *)
(* that is never taken in: it stays under way for good, and nothing else     *)
(* depends on it.                                                            *)
Taken(d) ==
  \/ wire' = wire \ {d} /\ UNCHANGED copies
  \/ copies < MaxCopies /\ copies' = copies + 1 /\ UNCHANGED wire

TakeIn(d) ==
  /\ reserved
  /\ Taken(d)
  /\ table' = [p \in DOMAIN table \union {d.path} |->
                 IF p = d.path THEN Recorded(KnownOf(table, p), d.frame, d.index)
                               ELSE table[p]]
  /\ arrived' = arrived \union {d}
  /\ UNCHANGED <<sender, reserved, result>>

ReservationEnds ==
  /\ Faults /\ reserved
  /\ reserved' = FALSE
  /\ UNCHANGED <<sender, wire, copies, table, result, arrived>>

-----------------------------------------------------------------------------
(* The stage.                                                               *)

JoinedPath(t, p) ==
  LET r == KnownOf(t, p)
      s == sender[p].frames
  IN [sent |-> s, seen |-> r.seen, complete |-> r.completes, partial |-> r.partials,
      fullyLost |-> NotBelow(0, s - r.seen),
      notDecodable |-> NotBelow(0, s - r.completes)]

MaxSent == Max({sender[p].frames : p \in Paths})
Buckets == {b \in 0 .. Frames : b * Fps < MaxSent}
Bucket(b) == {f \in 0 .. MaxSent - 1 : b * Fps <= f /\ f < (b + 1) * Fps}

(* The loop over the frames: how many have been lost in a row up to f.       *)
LostUpTo(either) ==
  LET run[f \in -1 .. MaxSent - 1] ==
        IF f = -1 \/ f \in either THEN 0 ELSE run[f - 1] + 1
  IN run

ResetPerBucket(either) ==                                         \* mutant
  LET run[f \in -1 .. MaxSent - 1] ==
        IF f = -1 \/ f \in either THEN 0
        ELSE IF f % Fps = 0 THEN 1 ELSE run[f - 1] + 1
  IN Max({0} \union {run[f] : f \in 0 .. MaxSent - 1})
LongestOutage(either) ==
  Max({0} \union {LostUpTo(either)[f] : f \in 0 .. MaxSent - 1})

(* sorted(first_by_path)[:2]: which two are the first is up to their names.  *)
Pairs(t) == {pair \in SUBSET DOMAIN t : Cardinality(pair) = 2}
FirstTwo(t) == CHOOSE pair \in Pairs(t) : TRUE

(* dual_path, which the node reports of two paths or more only, and of no    *)
(* more than two.                                                            *)
DualPath(t) ==
  LET either == UNION {t[p].whole : p \in FirstTwo(t)} IN
  IF Pairs(t) = {} THEN [reported |-> FALSE]
  ELSE [reported   |-> TRUE,
        either     |-> either,
        lostOnBoth |-> NotBelow(0, MaxSent - Cardinality(either)),
        lostIn     |-> [b \in Buckets |-> Cardinality(Bucket(b) \ either)],
        longest    |-> LongestOutage(either)]

Joined(status, t) ==
  [status |-> status, paths |-> [p \in Paths |-> JoinedPath(t, p)],
   dual |-> DualPath(t)]

ReadyToFetch == result = NoResult /\ \A p \in Paths : ~Sending(p)

FinalSummary == [p \in DOMAIN table |-> FinalizeAll(table[p])]

Fetch ==
  /\ ReadyToFetch
  /\ result' = Joined("fetched", FinalSummary)
  /\ table' = << >>
  /\ UNCHANGED <<sender, wire, copies, reserved, arrived>>

(* The request or its answer is lost, and is not repeated.                   *)
FetchFails ==
  /\ Faults /\ ReadyToFetch
  /\ result' = Joined("error", << >>)
  /\ table' \in {table, << >>}
  /\ UNCHANGED <<sender, wire, copies, reserved, arrived>>

-----------------------------------------------------------------------------
Init ==
  /\ sender = [p \in Paths |-> [at |-> "sending", frames |-> 0, next |-> 0]]
  /\ wire = {}
  /\ copies = 0
  /\ table = << >>
  /\ reserved = TRUE
  /\ result = NoResult
  /\ arrived = {}

SenderStep ==
  \E p \in Paths : SendFragment(p) \/ StopBetweenFrames(p) \/ StopWithinFrame(p)
NetworkStep == \E d \in wire : TakeIn(d)
StageStep == Fetch \/ FetchFails

Next == SenderStep \/ NetworkStep \/ StageStep \/ ReservationEnds

Spec == Init /\ [][Next]_vars

-----------------------------------------------------------------------------
(* Properties.                                                              *)

FrameIds == 0 .. Frames - 1
Indices == 0 .. Fragments - 1

PathOK(path) ==
  /\ Active(path) \subseteq FrameIds
  /\ \A f \in Active(path) : path.active[f] \in (SUBSET Indices) \ {{}}
  /\ {path.seen, path.completes, path.partials} \subseteq 0 .. Frames
  /\ path.whole \subseteq FrameIds /\ path.finalized \subseteq FrameIds
  /\ Cardinality(Active(path)) <= MaxActive

(* In particular never more frames are in the making than the limit.         *)
TypeOK ==
  /\ sender \in [Paths -> [at : {"sending", "done"}, frames : 0 .. Frames,
                           next : Indices]]
  /\ {wire, arrived} \subseteq SUBSET [path : Paths, frame : FrameIds, index : Indices]
  /\ copies \in 0 .. MaxCopies
  /\ DOMAIN table \subseteq Paths
  /\ \A p \in DOMAIN table : PathOK(table[p])
  /\ reserved \in BOOLEAN
  /\ result.status \in {"none", "fetched", "error"}

(* Every frame seen is counted once, in whatever order its fragments come,   *)
(* repeated, late, or after it was given up: it is in the making, or         *)
(* complete, or partial.                                                     *)
FramesAreCountedOnce ==
  \A p \in DOMAIN table :
    LET path == table[p] IN
    /\ Active(path) \intersect path.finalized = {}
    /\ path.whole \subseteq path.finalized
    /\ path.completes = Cardinality(path.whole)
    /\ path.completes + path.partials = Cardinality(path.finalized)
    /\ path.seen = Cardinality(path.finalized) + Cardinality(Active(path))

(* A frame is complete only if every fragment of it arrived on this path.    *)
CompleteFramesArrived ==
  \A p \in DOMAIN table : \A f \in table[p].whole, i \in Indices :
    [path |-> p, frame |-> f, index |-> i] \in arrived

Fetched == result.status = "fetched"

(* The joined rows are exact: no difference is cut off at zero, so that the  *)
(* frames sent are those complete, partial and fully lost; also when the     *)
(* senders were stopped within a frame.                                      *)
RowsAddUp ==
  Fetched => \A p \in Paths :
    LET r == result.paths[p] IN
    /\ r.sent = r.complete + r.partial + r.fullyLost
    /\ r.notDecodable = r.partial + r.fullyLost

LostFrames == (0 .. MaxSent - 1) \ result.dual.either

Outages == {i .. j : i, j \in LostFrames} \intersect ((SUBSET LostFrames) \ {{}})

(* The union of the two paths that the node compares: the frames reported    *)
(* lost on both, and the seconds they are spread over, are the frames        *)
(* complete on neither; the longest outage is the longest interval of them,  *)
(* across the seconds.                                                       *)
BothPathLossIsExact ==
  Fetched /\ result.dual.reported =>
    LET dual == result.dual IN
    /\ dual.lostOnBoth = Cardinality(LostFrames)
    /\ dual.lostOnBoth = MapThenSumSet(LAMBDA b : dual.lostIn[b], Buckets)
    /\ dual.longest \in {0} \union {Cardinality(o) : o \in Outages}
    /\ \A o \in Outages : Cardinality(o) <= dual.longest
=============================================================================

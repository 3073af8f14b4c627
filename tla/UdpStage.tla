------------------------------- MODULE UdpStage -------------------------------
(***************************************************************************)
(* The UDP upload of one path: run_udp_upload sends numbered datagrams, the  *)
(* network loses, repeats and reorders them, stockbot counts what arrives,   *)
(* one thread per datagram, and _execute_udp_upload_stage fetches the counts *)
(* as soon as the sender has stopped.  Each path and each UDP stage uses a   *)
(* run id of its own, so that one path stands for all of them.               *)
(*                                                                          *)
(* Sizes, rates and send times are left out: every datagram of a stage has   *)
(* the same size, and bytes are counted where datagrams are.                 *)
(*                                                                          *)
(* A definition marked "mutant" is not part of the model: it is the         *)
(* definition below it with a plausible mistake.                            *)
(***************************************************************************)
EXTENDS StageParameters, Sequences, SequencesExt, FiniteSets

VARIABLES
  sender,     \* the engine's thread for the path, and how much it has sent
  wire,       \* datagrams under way
  copies,     \* datagrams delivered twice so far
  clock,      \* the node's clock, in seconds
  handler,    \* what each thread of the node has in hand
  records,    \* RUNS[run_id]: a record per source, in order of appearance
  reserved,   \* whether the run's reservation is in force
  row,        \* the engine's row of results
  delivered   \* history: the sequence numbers that reached a thread

vars == <<sender, wire, copies, clock, handler, records, reserved, row, delivered>>

Unset == -1    \* Python's None in a number

NoRow == [confirmed |-> FALSE, sent |-> Unset, unique |-> Unset,
          missing |-> Unset, lost |-> Unset]

NotBelow(bound, n) == IF n < bound THEN bound ELSE n
OrElse(n, other) == IF n \in {Unset, 0} THEN other ELSE n

-----------------------------------------------------------------------------
(* The sender.                                                              *)

Send ==
  /\ sender.at = "sending" /\ sender.sent < MaxDatagrams
  /\ \E source \in Sources :
       wire' = wire \union {[sequence |-> sender.sent, source |-> source]}
  /\ sender' = [sender EXCEPT !.sent = @ + 1]
  /\ UNCHANGED <<copies, clock, handler, records, reserved, row, delivered>>

(* The deadline has come, or a cancel token is set.                          *)
StopSending ==
  /\ sender.at = "sending"
  /\ sender' = [sender EXCEPT !.at = "fetching"]
  /\ UNCHANGED <<wire, copies, clock, handler, records, reserved, row, delivered>>

RowReceived(got) ==                                               \* mutant
  LET unique == IF got = << >> THEN 0 ELSE got[1].received IN
  [confirmed |-> got # << >>, sent |-> sender.sent, unique |-> unique,
   missing |-> NotBelow(0, sender.sent - unique),
   lost |-> NotBelow(0, sender.sent - unique)]

(* Of the connections the node reports the first one counts.                 *)
Row(got) ==
  LET unique  == IF got = << >> THEN 0 ELSE got[1].unique
      missing == IF got = << >> THEN 0 ELSE got[1].missing
      lost    == NotBelow(0, sender.sent - unique)
  IN [confirmed |-> got # << >>, sent |-> sender.sent, unique |-> unique,
      missing |-> OrElse(missing, lost), lost |-> lost]

Fetch ==
  /\ sender.at = "fetching"
  /\ row' \in {Row(records)} \union (IF Faults THEN {Row(<< >>)} ELSE {})
  /\ sender' = [sender EXCEPT !.at = "done"]
  /\ UNCHANGED <<wire, copies, clock, handler, records, reserved, delivered>>

-----------------------------------------------------------------------------
(* The network.                                                             *)

Lose(d) ==
  /\ wire' = wire \ {d}
  /\ UNCHANGED <<sender, copies, clock, handler, records, reserved, row, delivered>>

(* The node takes d from the network; a copy may stay behind.                *)
Taken(d) ==
  \/ wire' = wire \ {d} /\ UNCHANGED copies
  \/ copies < MaxCopies /\ copies' = copies + 1 /\ UNCHANGED wire

-----------------------------------------------------------------------------
(* The node: UdpUploadHandler checks the token, reads the clock, and then    *)
(* waits for RUNS_LOCK.                                                      *)

Idle == [busy |-> FALSE, sequence |-> 0, source |-> NoSource, stamp |-> 0]

Accept(h, d) ==
  /\ ~handler[h].busy
  /\ reserved
  /\ Taken(d)
  /\ handler' = [handler EXCEPT ![h] =
       [busy |-> TRUE, sequence |-> d.sequence, source |-> d.source, stamp |-> clock]]
  /\ delivered' = delivered \union {d.sequence}
  /\ UNCHANGED <<sender, clock, records, reserved, row>>

Refuse(d) ==
  /\ ~reserved
  /\ Taken(d)
  /\ UNCHANGED <<sender, clock, handler, records, reserved, row, delivered>>

NewRecord(source, stamp) ==
  [source |-> source, start |-> stamp, received |-> 0, unique |-> 0,
   duplicates |-> 0, outOfOrder |-> 0, missing |-> 0, first |-> Unset,
   last |-> Unset, max |-> Unset, seen |-> {}, intervals |-> << >>]

Late(r, s) == r.last # Unset /\ s < r.last

Missing(r, s, unique, first, max) ==
  NotBelow(0, (OrElse(max, s) - OrElse(first, 0) + 1) - unique)

NewSequence(r, s) ==
  LET first  == IF r.first = Unset THEN s ELSE r.first
      max    == NotBelow(OrElse(r.max, s), s)
      unique == r.unique + 1
  IN [r EXCEPT !.seen = @ \union {s}, !.unique = unique, !.first = first,
               !.outOfOrder = @ + (IF Late(r, s) THEN 1 ELSE 0),
               !.last = s, !.max = max,
               !.missing = Missing(r, s, unique, first, max)]

Counted(r, s) ==
  LET one == [r EXCEPT !.received = @ + 1] IN
  IF s \in r.seen THEN [one EXCEPT !.duplicates = @ + 1] ELSE NewSequence(one, s)

NoInterval == [received |-> 0, unique |-> 0, duplicates |-> 0, outOfOrder |-> 0]

Padded(intervals, n) ==
  [i \in 1 .. NotBelow(Len(intervals), n) |->
     IF i <= Len(intervals) THEN intervals[i] ELSE NoInterval]

RepeatsInSecond(r, s, i) ==                                       \* mutant
  s \in r.seen /\ i <= Len(r.intervals)
(* A sequence number that is new to the record is new to its second as well. *)
Repeats(r, s, i) == s \in r.seen

(* r is the record as it was before the datagram.                            *)
Intervals(r, s, stamp) ==
  LET i      == NotBelow(0, stamp - r.start) + 1
      repeat == IF Repeats(r, s, i) THEN 1 ELSE 0
  IN [Padded(r.intervals, i) EXCEPT
        ![i] = [received |-> @.received + 1,
                unique |-> @.unique + (1 - repeat),
                duplicates |-> @.duplicates + repeat,
                outOfOrder |-> @.outOfOrder + (IF Late(r, s) THEN 1 ELSE 0)]]

Recorded(r, s, stamp) ==
  [Counted(r, s) EXCEPT !.intervals = Intervals(r, s, stamp)]

RecordsOf(rs, source) == {i \in DOMAIN rs : rs[i].source = source}

Record(h) ==
  LET d == handler[h] IN
  /\ d.busy
  /\ \/ /\ RecordsOf(records, d.source) = {}
        /\ records' = Append(records, Recorded(NewRecord(d.source, d.stamp),
                                               d.sequence, d.stamp))
     \/ \E i \in RecordsOf(records, d.source) :
          records' = [records EXCEPT ![i] = Recorded(@, d.sequence, d.stamp)]
  /\ handler' = [handler EXCEPT ![h] = Idle]
  /\ UNCHANGED <<sender, wire, copies, clock, reserved, row, delivered>>

Second ==
  /\ clock < MaxSeconds
  /\ clock' = clock + 1
  /\ UNCHANGED <<sender, wire, copies, handler, records, reserved, row, delivered>>

(* The renewal has failed, or the run is being torn down.                    *)
ReservationEnds ==
  /\ Faults /\ reserved
  /\ reserved' = FALSE
  /\ UNCHANGED <<sender, wire, copies, clock, handler, records, row, delivered>>

(* RUNS and RESERVATIONS are in memory only.                                 *)
NodeRestarts ==
  /\ Faults /\ records # << >>
  /\ records' = << >>
  /\ reserved' = FALSE
  /\ handler' = [h \in Handlers |-> Idle]
  /\ UNCHANGED <<sender, wire, copies, clock, row, delivered>>

-----------------------------------------------------------------------------
Init ==
  /\ sender = [at |-> "sending", sent |-> 0]
  /\ wire = {}
  /\ copies = 0
  /\ clock = 0
  /\ handler = [h \in Handlers |-> Idle]
  /\ records = << >>
  /\ reserved = TRUE
  /\ row = NoRow
  /\ delivered = {}

EngineStep == Send \/ StopSending \/ Fetch
NetworkStep == \E d \in wire : Lose(d) \/ Refuse(d) \/ \E h \in Handlers : Accept(h, d)
NodeStep == Second \/ ReservationEnds \/ NodeRestarts \/ \E h \in Handlers : Record(h)

Next == EngineStep \/ NetworkStep \/ NodeStep

Spec == Init /\ [][Next]_vars

-----------------------------------------------------------------------------
(* Properties.                                                              *)

Numbers == 0 .. MaxDatagrams - 1
Counts == 0 .. MaxDatagrams + MaxCopies

IntervalType == [received : Counts, unique : Counts, duplicates : Counts,
                 outOfOrder : Counts]

RecordOK(r) ==
  /\ r.source \in Sources /\ r.start \in 0 .. MaxSeconds
  /\ {r.received, r.unique, r.duplicates, r.outOfOrder, r.missing} \subseteq Counts
  /\ {r.first, r.last, r.max} \subseteq Numbers
  /\ r.seen \subseteq Numbers
  /\ \A i \in DOMAIN r.intervals : r.intervals[i] \in IntervalType

TypeOK ==
  /\ sender \in [at : {"sending", "fetching", "done"}, sent : 0 .. MaxDatagrams]
  /\ wire \subseteq [sequence : Numbers, source : Sources]
  /\ copies \in 0 .. MaxCopies
  /\ clock \in 0 .. MaxSeconds
  /\ handler \in [Handlers -> [busy : BOOLEAN, sequence : 0 .. MaxDatagrams,
                               source : Sources \union {NoSource},
                               stamp : 0 .. MaxSeconds]]
  /\ \A i, j \in DOMAIN records : records[i].source = records[j].source => i = j
  /\ \A i \in DOMAIN records : RecordOK(records[i])
  /\ reserved \in BOOLEAN
  /\ row \in [confirmed : BOOLEAN, sent : Int, unique : Int, missing : Int, lost : Int]
  /\ delivered \subseteq Numbers

Total(r, Field(_)) == FoldLeft(LAMBDA n, i : n + Field(i), 0, r.intervals)

(* The seconds add up to the record, whatever threads recorded datagrams     *)
(* out of the order of their time stamps: for what arrived, what was new and *)
(* what was repeated.  (Of out_of_order the seconds may hold more: there,    *)
(* and only there, repeated datagrams are counted as well.)                  *)
SecondsAddUp ==
  \A k \in DOMAIN records :
    LET r == records[k] IN
    /\ Total(r, LAMBDA i : i.received) = r.received
    /\ Total(r, LAMBDA i : i.unique) = r.unique
    /\ Total(r, LAMBDA i : i.duplicates) = r.duplicates
    /\ Total(r, LAMBDA i : i.outOfOrder) >= r.outOfOrder

(* Repeated datagrams never hide a loss: the loss in the row is at least the *)
(* number of datagrams that reached no thread of the node, and the receiver  *)
(* is never credited with more than was sent.                                *)
LossIsNotHidden ==
  row # NoRow =>
    /\ row.unique <= row.sent
    /\ row.lost >= Cardinality(0 .. row.sent - 1) - Cardinality(delivered)
    /\ row.missing >= 0 /\ row.missing <= row.lost
=============================================================================

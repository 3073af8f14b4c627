------------------------------- MODULE RouterApi -------------------------------
(***************************************************************************)
(* The MikroTik adapter: a call opens a connection, logs in and sends its    *)
(* commands, each when the one before it has been answered.  Nothing in an   *)
(* answer names its command: it belongs to the command that waits.           *)
(*                                                                          *)
(* A definition marked "mutant" is not part of the model: it is the         *)
(* definition below it with a plausible mistake.                            *)
(***************************************************************************)
EXTENDS StageParameters, Sequences

VARIABLES
  device,  \* what is fixed: the paths with a table, and how the router refuses
  link,    \* commands not answered yet and sentences not read yet
  call,    \* the adapter's call
  origin   \* the paths from whose answers the row of a path was read

vars == <<device, link, call, origin>>

-----------------------------------------------------------------------------
(* The length of a word, as RouterOS writes it.                             *)

Byte(n, shift) == (n \div shift) % 256

EncodeLen(length) ==
  IF length < 128 THEN <<length>>
  ELSE IF length < 16384 THEN <<128 + (length \div 256), Byte(length, 1)>>
  ELSE IF length < 2097152
       THEN <<192 + (length \div 65536), Byte(length, 256), Byte(length, 1)>>
  ELSE IF length < 268435456
       THEN <<224 + (length \div 16777216), Byte(length, 65536),
              Byte(length, 256), Byte(length, 1)>>
  ELSE <<240, Byte(length, 16777216), Byte(length, 65536),
         Byte(length, 256), Byte(length, 1)>>

DecodeLen(data) ==
  CASE data[1] < 128 -> data[1]
    [] data[1] \in 128 .. 191 -> (data[1] - 128) * 256 + data[2]
    [] data[1] \in 192 .. 223 -> (data[1] - 192) * 65536 + data[2] * 256 + data[3]
    [] data[1] \in 224 .. 239 ->
         (data[1] - 224) * 16777216 + data[2] * 65536 + data[3] * 256 + data[4]
    [] OTHER -> data[2] * 16777216 + data[3] * 65536 + data[4] * 256 + data[5]

-----------------------------------------------------------------------------
(* The commands of a call.  Those that are about no path come first, the     *)
(* login before all others.                                                  *)

General == "general"

Opening == [latency |-> 2, telemetry |-> 1, verify |-> 3, preflight |-> 5,
            snapshot |-> 6]

Kinds == DOMAIN Opening

NewCall(kind) ==
  [kind |-> kind, state |-> "ready", left |-> Opening[kind], path |-> General,
   way |-> "none", todo |-> Paths, got |-> {}, addressed |-> {},
   refused |-> FALSE]

(* What is asked about a path first, and after an answer that ended so.      *)
ByTable(path) == IF path \in device.tabled THEN "table" ELSE "none"

FirstWay(path) ==
  CASE call.kind = "latency" ->
         IF path \in call.addressed THEN "source" ELSE ByTable(path)
    [] call.kind = "preflight" -> "none"
    [] OTHER -> "monitor"

NextWay(end) ==
  LET empty == end # "done" \/ call.got = {} IN
  CASE call.way = "source" -> IF empty THEN ByTable(call.path) ELSE "none"
    [] call.way = "table" -> IF empty /\ end # "trap" THEN "mark" ELSE "none"
    [] call.way = "monitor" /\ call.kind = "telemetry" -> "traffic"
    [] OTHER -> "none"

Ping == call.way \in {"source", "table", "mark"}

-----------------------------------------------------------------------------
(* The client.                                                              *)

Ask(about, to) ==
  /\ link' = [link EXCEPT !.asked = Append(@, about)]
  /\ call' = [to EXCEPT !.state = "asking", !.path = about]
  /\ UNCHANGED <<device, origin>>

AskOpening ==
  /\ call.state = "ready" /\ call.left > 0
  /\ Ask(General, [call EXCEPT !.left = @ - 1])

(* A path that can be asked nothing keeps an empty row.                      *)
TakePath(path) ==
  /\ call.state = "ready" /\ call.left = 0 /\ call.path = General
  /\ path \in call.todo
  /\ LET to == [call EXCEPT !.todo = @ \ {path}, !.way = FirstWay(path)] IN
     \/ to.way # "none" /\ Ask(path, to)
     \/ to.way = "none" /\ call' = to /\ UNCHANGED <<device, link, origin>>

AskAgain ==
  call.state = "ready" /\ call.path # General /\ Ask(call.path, call)

(* The command is answered: on with the next way or the next path.           *)
Returned(end) ==
  LET next == NextWay(end) IN
  [call EXCEPT !.state = "ready", !.got = {}, !.way = next,
               !.path = IF next = "none" THEN General ELSE @,
               !.refused = @ \/ end # "done"]

Done ==
  /\ call' = [Returned("done") EXCEPT !.addressed =
       IF call.kind = "latency" /\ call.path = General /\ call.left = 0
         THEN call.got \intersect Paths ELSE @]
  /\ origin' = IF call.path \in Paths
                 THEN [origin EXCEPT ![call.path] = @ \union call.got] ELSE origin

(* Only the pings catch a refusal; it ends every other call.                 *)
Trapped(end) ==
  /\ call' = IF Ping THEN Returned(end)
                     ELSE [call EXCEPT !.state = "failed", !.refused = TRUE]
  /\ UNCHANGED origin

(* A word of any length may be read; what is not understood is noise.        *)
Noise == [kind |-> "re", about |-> {General}]

Heard(sentence) ==
  \E n \in WordLengths :
    sentence = IF DecodeLen(EncodeLen(n)) = n THEN Head(link.said)
                                              ELSE Noise

Read ==
  /\ call.state = "asking" /\ link.said # <<>>
  /\ \E sentence \in {Head(link.said), Noise} :
       /\ Heard(sentence)
       /\ \/ /\ sentence.kind = "re"
             /\ call' = [call EXCEPT !.got = @ \union sentence.about]
             /\ UNCHANGED origin
          \/ sentence.kind = "done" /\ Done
          \/ sentence.kind \in {"trap", "unknown"} /\ Trapped(sentence.kind)
  /\ link' = [link EXCEPT !.said = Tail(@)]
  /\ UNCHANGED device

(* The socket times out, or the router closes the connection.                *)
GoesOnWithout ==                                                  \* mutant
  /\ call.state = "asking" /\ link.said = <<>>
  /\ call' = IF Ping THEN Returned("unknown")
                     ELSE [call EXCEPT !.state = "failed"]
  /\ UNCHANGED <<device, link, origin>>
TimesOut ==
  /\ call.state = "asking" /\ link.said = <<>>
  /\ call' = [call EXCEPT !.state = "failed"]
  /\ UNCHANGED <<device, link, origin>>

Finish ==
  /\ call.state = "ready" /\ call.left = 0 /\ call.path = General /\ call.todo = {}
  /\ call' = [call EXCEPT !.state = "finished"]
  /\ UNCHANGED <<device, link, origin>>

-----------------------------------------------------------------------------
(* The router answers the commands in their order: with rows or none and     *)
(* their end, or with a refusal, which some routers end like every other     *)
(* answer.  The rows of the address list tell which paths have an address.   *)

Sentence(kind, about) == <<[kind |-> kind, about |-> about]>>

Rows(about) ==
  {<<>>} \union
  {Sentence("re", {about} \union addressed) :
     addressed \in SUBSET IF about = General /\ call.kind = "latency" THEN Paths
                                                                    ELSE {}}

Answer ==
  /\ link.asked # <<>>
  /\ \E rows \in Rows(Head(link.asked)), end \in {"done", "trap", "unknown"} :
       link' = [asked |-> Tail(link.asked),
                said |-> link.said \o rows \o Sentence(end, {})
                           \o IF end # "done" /\ device.trails
                                THEN Sentence("done", {}) ELSE <<>>]
  /\ UNCHANGED <<device, call, origin>>

-----------------------------------------------------------------------------
Init ==
  /\ device \in [trails : BOOLEAN, tabled : SUBSET Paths]
  /\ link = [asked |-> <<>>, said |-> <<>>]
  /\ call \in {NewCall(kind) : kind \in Kinds}
  /\ origin = [p \in Paths |-> {}]

Next ==
  \/ AskOpening \/ AskAgain \/ Read \/ TimesOut \/ Finish \/ Answer
  \/ \E path \in Paths : TakePath(path)

-----------------------------------------------------------------------------
(* Properties.                                                              *)

TypeOK ==
  /\ device \in [trails : BOOLEAN, tabled : SUBSET Paths]
  /\ call.kind \in Kinds
  /\ call.state \in {"ready", "asking", "failed", "finished"}
  /\ call.path \in Paths \union {General}
  /\ call.todo \subseteq Paths
  /\ \A p \in Paths : origin[p] \subseteq Paths \union {General}

(* What stands in the row of a path was answered about that path, however    *)
(* many ways were tried and wherever the router stopped answering: a path is *)
(* not judged by another one's signal or round trip.  Not so when the router *)
(* ends a refusal like every other answer: then it is one answer behind from *)
(* the first refused ping on.                                                *)
AnswersBelong ==
  \/ device.trails /\ call.refused
  \/ \A p \in Paths : origin[p] \subseteq {p}
=============================================================================

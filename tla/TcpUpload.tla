------------------------------- MODULE TcpUpload -------------------------------
(***************************************************************************)
(* The TCP upload of a path: a request over a connection of its own, the     *)
(* thread of the node that reads it, records it and answers, and the row the *)
(* engine makes of what the sender saw and the node reports.  The upload is  *)
(* timed, its announced length never reached, or sends a payload by curl.    *)
(*                                                                          *)
(* A definition marked "mutant" is not part of the model: it is the         *)
(* definition below it with a plausible mistake.                            *)
(***************************************************************************)
EXTENDS StageParameters

VARIABLES
  reserved,    \* whether the run's reservation is in force
  upload,      \* the sender
  connection,  \* chunks and the answer on their way, and what became of it
  receiver,    \* the thread of the node
  kept,        \* chunks recorded in RUNS for the upload, or NoRecord
  validity     \* of the row, or "open"

vars == <<reserved, upload, connection, receiver, kept, validity>>

NoRecord == -1

-----------------------------------------------------------------------------
(* The sender.                                                              *)

Timed == upload.mode = "timed"
Broken == connection.state = "reset"

(* Without a connection the timed upload raises, and curl reports an error.  *)
Connect ==
  /\ upload.at = "start"
  /\ \/ /\ upload' = [upload EXCEPT !.at = "sending"]
        /\ connection' = [connection EXCEPT !.state = "open"]
        /\ receiver' = [receiver EXCEPT !.state = "accepted"]
        /\ UNCHANGED validity
     \/ /\ Faults
        /\ IF Timed
             THEN validity' = "raised" /\ UNCHANGED upload
             ELSE upload' = [upload EXCEPT !.at = "fetching"] /\ UNCHANGED validity
        /\ UNCHANGED <<connection, receiver>>
  /\ UNCHANGED <<reserved, kept>>

(* The sender does not know of a broken connection at once.                  *)
SendChunk ==
  /\ upload.at = "sending"
  /\ upload.sent < IF Timed THEN MaxChunks ELSE PayloadChunks
  /\ upload' = [upload EXCEPT !.sent = @ + 1]
  /\ connection' = [connection EXCEPT !.carried = @ + 1]
  /\ UNCHANGED <<reserved, receiver, kept, validity>>

(* The deadline, a cancel or a broken connection end a timed upload, which   *)
(* then closes its half; curl ends its upload when the payload is sent.      *)
StopSending ==
  /\ upload.at = "sending"
  /\ Timed \/ upload.sent = PayloadChunks
  /\ upload' = [upload EXCEPT !.at = "answer"]
  /\ connection' = IF Timed /\ ~Broken THEN [connection EXCEPT !.state = "half"]
                                       ELSE connection
  /\ UNCHANGED <<reserved, receiver, kept, validity>>

(* The answer is read, or there is none; a broken connection may lose it.    *)
TakeAnswer ==
  /\ upload.at = "answer" /\ validity = "open"
  /\ \E answer \in {connection.answer, "none"} :
       /\ answer = "none" => Timed /\ Faults
       /\ upload' = [upload EXCEPT !.at = "fetching", !.answer = answer]
  /\ UNCHANGED <<reserved, connection, receiver, kept, validity>>

(* A broken connection ends curl with an error; a timed upload raises if it  *)
(* finds out while it waits for the answer.                                  *)
FindBroken ==
  /\ Broken /\ validity = "open"
  /\ \/ /\ ~Timed /\ upload.at \in {"sending", "answer"}
        /\ upload' = [upload EXCEPT !.at = "fetching"]
        /\ UNCHANGED validity
     \/ /\ Timed /\ upload.at = "answer"
        /\ validity' = "raised"
        /\ UNCHANGED upload
  /\ UNCHANGED <<reserved, connection, receiver, kept>>

(* A cancel is asked for by the user or by the loss of the reservation; a    *)
(* timed upload ends early, see StopSending.                                 *)
Cancel ==
  /\ Faults /\ ~upload.cancelled
  /\ upload' = [upload EXCEPT !.cancelled = TRUE]
  /\ UNCHANGED <<reserved, connection, receiver, kept, validity>>

(* A cancel or its own timeout kills curl.                                   *)
KillCurl ==
  /\ Faults /\ ~Timed /\ upload.at \in {"sending", "answer"}
  /\ upload' = [upload EXCEPT !.at = "fetching"]
  /\ connection' = [connection EXCEPT !.state = IF Broken THEN @ ELSE "half"]
  /\ UNCHANGED <<reserved, receiver, kept, validity>>

-----------------------------------------------------------------------------
(* The node.                                                                *)

Expected == IF Timed THEN 1 ELSE PayloadChunks

Accept ==
  /\ receiver.state = "accepted" /\ ~Broken
  /\ IF reserved
       THEN receiver' = [receiver EXCEPT !.state = "reading"] /\ UNCHANGED connection
       ELSE /\ receiver' = [receiver EXCEPT !.state = "over"]
            /\ connection' = [connection EXCEPT !.answer = "refused",
                                                !.state = "reset"]
  /\ UNCHANGED <<reserved, upload, kept, validity>>

ReadChunk ==
  /\ receiver.state = "reading" /\ connection.carried > 0 /\ ~Broken
  /\ receiver' = [receiver EXCEPT !.got = @ + 1]
  /\ connection' = [connection EXCEPT !.carried = @ - 1]
  /\ UNCHANGED <<reserved, upload, kept, validity>>

(* All is read: the announced length, or all there is before the end.        *)
Whole == ~Timed /\ receiver.got = PayloadChunks
AllRead ==
  /\ receiver.state = "reading" /\ ~Broken
  /\ \/ Whole
     \/ connection.state = "half" /\ connection.carried = 0

AnswerFirst ==                                                    \* mutant
  /\ AllRead
  /\ receiver' = [receiver EXCEPT !.state = "recorded"]
  /\ connection' = [connection EXCEPT !.answer = IF Whole THEN "ok" ELSE "accepted"]
  /\ UNCHANGED <<reserved, upload, kept, validity>>
RecordTcpUpload ==
  /\ AllRead
  /\ receiver' = [receiver EXCEPT !.state = "recorded"]
  /\ kept' = receiver.got
  /\ UNCHANGED <<reserved, upload, connection, validity>>

Answer ==
  /\ receiver.state = "recorded" /\ ~Broken
  /\ receiver' = [receiver EXCEPT !.state = "over"]
  /\ connection' = [connection EXCEPT !.answer = IF Whole THEN "ok" ELSE "accepted"]
  /\ UNCHANGED <<reserved, upload, kept, validity>>

(* The link breaks: the handler raises, and what it had read is lost.  A     *)
(* node that restarts forgets its records as well.                           *)
Break ==
  /\ Faults /\ connection.state \in {"open", "half"}
  /\ connection' = [connection EXCEPT !.state = "reset"]
  /\ UNCHANGED <<reserved, upload, receiver, kept, validity>>

NodeRestarts ==
  /\ Faults /\ ~receiver.restarted
  /\ receiver' = [receiver EXCEPT !.state = "over", !.restarted = TRUE]
  /\ connection' = [connection EXCEPT !.state = IF @ = "none" THEN @ ELSE "reset"]
  /\ kept' = NoRecord
  /\ reserved' = FALSE
  /\ UNCHANGED <<upload, validity>>

ReservationEnds ==
  /\ Faults /\ reserved
  /\ reserved' = FALSE
  /\ UNCHANGED <<upload, connection, receiver, kept, validity>>

-----------------------------------------------------------------------------
(* The row.  Without the node's records the stage fails.                     *)

Row(bytes) ==
  IF bytes >= Expected THEN "server-confirmed"
  ELSE IF (~Timed /\ upload.answer = "ok") \/ (Timed /\ upload.sent > 0)
    THEN "sender-only"
  ELSE IF upload.cancelled THEN "cancelled"
  ELSE "raised"

Fetch ==
  /\ upload.at = "fetching" /\ validity = "open"
  /\ \/ validity' = Row(kept)
     \/ Faults /\ validity' = "raised"
  /\ UNCHANGED <<reserved, upload, connection, receiver, kept>>

-----------------------------------------------------------------------------
Init ==
  /\ reserved = TRUE
  /\ upload \in [mode : {"timed", "payload"}, at : {"start"}, sent : {0},
                 answer : {"none"}, cancelled : {FALSE}]
  /\ connection = [state |-> "none", carried |-> 0, answer |-> "none"]
  /\ receiver = [state |-> "none", got |-> 0, restarted |-> FALSE]
  /\ kept = NoRecord
  /\ validity = "open"

Next ==
  \/ Connect \/ SendChunk \/ StopSending \/ TakeAnswer \/ FindBroken
  \/ Cancel \/ KillCurl \/ Fetch
  \/ Accept \/ ReadChunk \/ RecordTcpUpload \/ Answer
  \/ Break \/ NodeRestarts \/ ReservationEnds

-----------------------------------------------------------------------------
(* Properties.                                                              *)

TypeOK ==
  /\ upload.at \in {"start", "sending", "answer", "fetching"}
  /\ upload.sent \in 0 .. MaxChunks
  /\ connection.state \in {"none", "open", "half", "reset"}
  /\ connection.carried \in 0 .. MaxChunks
  /\ receiver.got \in 0 .. MaxChunks
  /\ kept \in NoRecord .. MaxChunks
  /\ validity \in {"open", "server-confirmed", "sender-only", "cancelled", "raised"}

(* An upload is confirmed exactly if it should be: never unless the node has *)
(* read all of the payload, or something of a timed upload; and always if it *)
(* has and the sender has seen its answer, unless the node has forgotten it  *)
(* since or could not be asked.  There is no time at which the records are   *)
(* fetched too early.                                                        *)
ConfirmationIsExact ==
  /\ validity = "server-confirmed" => receiver.got >= Expected
  /\ /\ validity \in {"sender-only", "cancelled"}
     /\ upload.answer \in {"ok", "accepted"}
     /\ receiver.got >= Expected
     => receiver.restarted
=============================================================================

------------------------------- MODULE BulkLoad -------------------------------
(***************************************************************************)
(* A bulk load: BulkLoad and RowTransform (src/src/bulk-load.ts), its      *)
(* payload (src/src/bulk-load-payload.ts) and Connection.execBulkLoad      *)
(* (src/src/connection.ts).  It takes two requests: INSERT BULK, then the  *)
(* message with the rows, which the transform writes while the program's   *)
(* row stream gives them.  A row may be invalid, the row stream may fail,  *)
(* and the program, a timer or the network may end it all at any time.     *)
(*                                                                         *)
(* How the connection executes one request is RequestExecution's subject.  *)
(* Here a request is its message, whose payload flows, has ended, or is    *)
(* finished when a cancel comes, then its answer, or the acknowledgement   *)
(* of the attention that a cancel sends once the message is finished.      *)
(***************************************************************************)
EXTENDS Naturals, Sequences, SequencesExt

CONSTANTS
    NumRows,            \* bound: rows the program has
    MaxColumns,         \* bound: columns it adds
    ReadableHighWaterMark   \* of the transform, in chunks

ASSUME SizeAssumption ==
    NumRows \in Nat /\ MaxColumns \in Nat \ {0} /\ ReadableHighWaterMark \in Nat \ {0}

VARIABLES
    \* BulkLoad
    columns, executionStarted, canceled,
    declared,       \* the columns in its INSERT BULK
    \* the program's row stream: none, open, ended or destroyed; rows given
    rowStream, given,
    \* rowToPacketTransform: its chunks not read yet, its state, and
    \* columnMetadataWritten
    chunks, transform, columnMetadataWritten,
    \* the request under way: none, insert or bulk; its request.canceled (for
    \* bulk that of the BulkLoad), and whether an attention was sent
    request, insertCanceled, attention,
    \* the message of INSERT BULK: none, streaming (its payload flows), ending (the
    \* payload has ended), sent, or ignored (it goes out with the ignore bit)
    insert,
    \* the payload stream of the bulk message: none, piping, closing (destroyed,
    \* its iterator is still to be closed) or over; the message
    payload, message,
    \* connected: not in FINAL; the error of the request under way
    connected, error,
    \* the server: the columns of an INSERT BULK in force (0 if none), the table,
    \* and its answer
    inForce, table, answer,
    \* history: calls of the callback, its last outcome, whether the server had
    \* the whole message when the outcome was decided without its answer, and
    \* whether a request timer went off
    calls, outcome, doubt, timedOut

loadVars   == <<columns, executionStarted, canceled, declared>>
streamVars == <<rowStream, given, chunks, transform, columnMetadataWritten>>
requestVars == <<request, insertCanceled, attention, connected, error>>
messageVars == <<insert, payload, message>>
serverVars == <<inForce, table, answer>>
histVars   == <<calls, outcome, doubt, timedOut>>
vars == <<loadVars, streamVars, requestVars, messageVars, serverVars, histVars>>

-----------------------------------------------------------------------------
(* Types *)

Rows     == 1..NumRows
Metadata == [kind : {"metadata"}, columns : 0..MaxColumns]
RowData  == [kind : {"row"}, row : Rows, values : 1..MaxColumns]
Done     == [kind |-> "done"]
Chunks   == Metadata \cup RowData \cup {Done}
Errors   == {"none", "ECANCEL", "ETIMEOUT", "EROW", "EREQUEST", "ESOCKET", "EINVALIDSTATE"}

TypeOK ==
    /\ columns \in 0..MaxColumns /\ declared \in 0..MaxColumns
    /\ executionStarted \in BOOLEAN /\ canceled \in BOOLEAN
    /\ rowStream \in {"none", "open", "ended", "destroyed"} /\ given \in 0..NumRows
    /\ chunks \in Seq(Chunks) /\ transform \in {"open", "ended", "destroyed"}
    /\ columnMetadataWritten \in BOOLEAN
    /\ request \in {"none", "insert", "bulk"}
    /\ insertCanceled \in BOOLEAN /\ attention \in BOOLEAN
    /\ payload \in {"none", "piping", "closing", "over"}
    /\ insert \in {"none", "streaming", "ending", "sent", "ignored"}
    /\ message \in [data : Seq(Chunks), ended : BOOLEAN, finished : BOOLEAN, ignore : BOOLEAN]
    /\ connected \in BOOLEAN /\ error \in Errors
    /\ inForce \in 0..MaxColumns /\ table \in Seq(Rows)
    /\ answer \in {"none", "ok", "failed", "acknowledged"}
    /\ calls \in Nat /\ outcome \in Errors \cup {"pending", "ok"} /\ doubt \in BOOLEAN
    /\ timedOut \in BOOLEAN

Init ==
    /\ columns = 0 /\ declared = 0 /\ executionStarted = FALSE /\ canceled = FALSE
    /\ rowStream = "none" /\ given = 0
    /\ chunks = <<>> /\ transform = "open" /\ columnMetadataWritten = FALSE
    /\ request = "none" /\ insertCanceled = FALSE /\ attention = FALSE
    /\ insert = "none" /\ payload = "none"
    /\ message = [data |-> <<>>, ended |-> FALSE, finished |-> FALSE, ignore |-> FALSE]
    /\ connected = TRUE /\ error = "none"
    /\ inForce = 0 /\ table = <<>> /\ answer = "none"
    /\ calls = 0 /\ outcome = "pending" /\ doubt = FALSE /\ timedOut = FALSE

-----------------------------------------------------------------------------
(* BulkLoad and the program *)

\* addColumn throws once execution has started.
CanAddColumn == ~executionStarted

AddColumn ==
    /\ CanAddColumn /\ columns < MaxColumns
    /\ columns' = columns + 1
    /\ UNCHANGED <<executionStarted, canceled, declared, streamVars, requestVars, messageVars,
                   serverVars, histVars>>

CallBack(result) == calls' = calls + 1 /\ outcome' = result

\* execBulkLoad: the rows are piped into the transform, which runs from now on;
\* without rows it is ended.  INSERT BULK is executed, or refused.
ExecBulkLoad(withRows) ==
    /\ ~executionStarted /\ columns > 0
    /\ executionStarted' = TRUE /\ declared' = columns
    /\ IF withRows
       THEN rowStream' = "open" /\ UNCHANGED <<chunks, transform>>
       ELSE chunks' = <<Done>> /\ transform' = "ended" /\ UNCHANGED rowStream
    /\ IF connected
       THEN request' = "insert" /\ insert' = "streaming" /\ UNCHANGED <<calls, outcome>>
       ELSE CallBack("EINVALIDSTATE") /\ UNCHANGED <<request, insert>>
    /\ UNCHANGED <<columns, canceled, given, columnMetadataWritten, insertCanceled,
                   attention, connected, error, payload, message, serverVars, doubt, timedOut>>

-----------------------------------------------------------------------------
(* The row stream and the transform *)

\* The transform takes a row when the last ones were read from it.
Takes == rowStream = "open" /\ transform = "open" /\ Len(chunks) < ReadableHighWaterMark

Header == IF columnMetadataWritten THEN <<>>
                                   ELSE <<[kind |-> "metadata", columns |-> columns]>>

RowOfOneMore(row) ==                                    \* fault: i <= columns.length
    [kind |-> "row", row |-> row, values |-> columns + 1]
RowOf(row) == [kind |-> "row", row |-> row, values |-> columns]

\* RowTransform._transform: the row token and its values
TransformRow ==
    /\ Takes /\ given + 1 \in Rows
    /\ given' = given + 1
    /\ chunks' = chunks \o Header \o <<RowOf(given + 1)>>
    /\ columnMetadataWritten' = TRUE
    /\ UNCHANGED <<loadVars, rowStream, transform, requestVars, messageVars,
                   serverVars, histVars>>

\* A value of the row is invalid: the transform is destroyed with what is not read
\* from it yet, and the row stream by its 'error'.
RowStreamAfterKept == rowStream                         \* fault: without on('error')
RowStreamAfterError == IF rowStream = "open" THEN "destroyed" ELSE rowStream

InvalidRow ==
    /\ Takes /\ given + 1 \in Rows
    /\ given' = given + 1
    /\ chunks' = <<>> /\ transform' = "destroyed"
    /\ rowStream' = RowStreamAfterError
    /\ columnMetadataWritten' = TRUE
    /\ UNCHANGED <<loadVars, requestVars, messageVars, serverVars, histVars>>

\* The row stream ends, and the transform is flushed.
RowsEnd ==
    /\ Takes /\ given = NumRows
    /\ rowStream' = "ended" /\ transform' = "ended"
    /\ chunks' = Append(chunks, Done)
    /\ UNCHANGED <<loadVars, given, columnMetadataWritten, requestVars, messageVars,
                   serverVars, histVars>>

\* The row stream fails: the transform is destroyed.
TransformAfterFailureEnds == "ended"                    \* fault: it is only ended
TransformAfterFailure == "destroyed"

RowsFail ==
    /\ rowStream = "open" /\ transform = "open" /\ given < NumRows
    /\ rowStream' = "destroyed"
    /\ transform' = TransformAfterFailure
    /\ chunks' = IF transform' = "ended" THEN Append(chunks, Done) ELSE <<>>
    /\ UNCHANGED <<loadVars, given, columnMetadataWritten, requestVars, messageVars,
                   serverVars, histVars>>

-----------------------------------------------------------------------------
(* The payload of the bulk message: makeRequest pipes the chunks into it.   *)

PipeChunk ==
    /\ payload = "piping" /\ chunks # <<>>
    /\ message' = [message EXCEPT !.data = Append(@, Head(chunks))]
    /\ chunks' = Tail(chunks)
    /\ UNCHANGED <<loadVars, rowStream, given, transform, columnMetadataWritten,
                   requestVars, insert, payload, serverVars, histVars>>

PayloadEnds ==
    /\ payload = "piping" /\ transform = "ended" /\ chunks = <<>>
    /\ payload' = "over"
    /\ message' = [message EXCEPT !.ended = TRUE]
    /\ UNCHANGED <<loadVars, streamVars, requestVars, insert, serverVars, histVars>>

\* 'finish' of the message: all of it has been taken by the outgoing stream.
MessageFinishes ==
    /\ message.ended /\ ~message.finished
    /\ message' = [message EXCEPT !.finished = TRUE]
    /\ UNCHANGED <<loadVars, streamVars, requestVars, insert, payload, serverVars, histVars>>

\* The payload of INSERT BULK ends, and then its message is finished.
InsertFlows ==
    /\ request = "insert"
    /\ \/ insert = "streaming" /\ insert' = "ending"
       \/ insert = "ending" /\ insert' = "sent"
    /\ UNCHANGED <<loadVars, streamVars, requestVars, payload, message, serverVars, histVars>>

\* request.error ??= code
SetError(code) == IF error = "none" THEN code ELSE error

\* The message is ended with the ignore bit.
AbortedOpen(msg)     == [msg EXCEPT !.ignore = TRUE]                    \* fault: no end()
Aborted(msg)         == [msg EXCEPT !.ended = TRUE, !.ignore = TRUE]

PayloadFails ==
    /\ payload = "piping" /\ transform = "destroyed"
    /\ payload' = "over"
    /\ message' = Aborted(message)
    /\ error' = SetError("EROW")
    /\ UNCHANGED <<loadVars, streamVars, request, insertCanceled, attention, connected,
                   insert, serverVars, histVars>>

\* The iterator of a payload that was destroyed (external: Node.js streams) is
\* closed once it has something to give; it destroys the transform, and only now
\* the payload emits its 'error', which may be too late for the request.
IteratorCloses ==
    /\ payload = "closing" /\ (chunks # <<>> \/ transform # "open")
    /\ payload' = "over"
    /\ error' = IF request = "bulk" THEN SetError("ECANCEL") ELSE error
    /\ IF transform = "open"
       THEN transform' = "destroyed" /\ chunks' = <<>> /\ rowStream' = RowStreamAfterError
       ELSE UNCHANGED <<transform, chunks, rowStream>>
    /\ UNCHANGED <<loadVars, given, columnMetadataWritten, request, insertCanceled, attention,
                   connected, insert, message, serverVars, histVars>>

-----------------------------------------------------------------------------
(* Cancels, of the BulkLoad or of the request under way, by the program or   *)
(* by the timer of the request                                               *)

\* While the payload flows it is destroyed, and the message goes out to be ignored;
\* the payload of INSERT BULK is one buffer and emits its 'error' at once.  When the
\* payload has ended, the message is still to be ignored, but there is no 'error'.
\* When the message is finished an attention is sent.
CancelInsert ==
    /\ request = "insert" /\ ~insertCanceled
    /\ insertCanceled' = TRUE
    /\ insert' = IF insert = "sent" THEN insert ELSE "ignored"
    /\ attention' = (insert = "sent")
    /\ error' = IF insert = "streaming" THEN SetError("ECANCEL") ELSE error
    /\ UNCHANGED <<streamVars, request, connected, payload, message>>

CancelStreaming ==
    /\ request = "bulk" /\ ~message.ended
    /\ payload' = "closing" /\ message' = Aborted(message)
    /\ UNCHANGED <<streamVars, requestVars, insert>>

CancelEnded ==
    /\ request = "bulk" /\ message.ended /\ ~message.finished
    /\ message' = [message EXCEPT !.ignore = TRUE]
    /\ UNCHANGED <<streamVars, requestVars, insert, payload>>

CancelSent ==
    /\ request = "bulk" /\ message.finished
    /\ attention' = TRUE
    /\ UNCHANGED <<streamVars, request, insertCanceled, connected, error, messageVars>>

\* Nothing is under way, or the INSERT BULK is canceled already.
CancelUnheard ==
    /\ request = "none" \/ (request = "insert" /\ insertCanceled)
    /\ UNCHANGED <<streamVars, requestVars, messageVars>>

\* BulkLoad.cancel
Cancel ==
    /\ ~canceled
    /\ canceled' = TRUE
    /\ CancelInsert \/ CancelStreaming \/ CancelEnded \/ CancelSent \/ CancelUnheard
    /\ UNCHANGED <<columns, executionStarted, declared, serverVars, histVars>>

\* Connection.cancel, while INSERT BULK is under way
CancelRequest ==
    /\ CancelInsert
    /\ UNCHANGED <<loadVars, serverVars, histVars>>

\* The timer of the request under way cancels it, unless it is canceled already, and
\* sets its error in any case.
TimedOut ==
    /\ insert' = IF request = "insert" /\ insert # "sent" THEN "ignored" ELSE insert
    /\ insertCanceled' = (insertCanceled \/ request = "insert")
    /\ attention' = (attention \/ (IF request = "insert" THEN ~insertCanceled /\ insert = "sent"
                                                       ELSE ~canceled /\ message.finished))
    /\ canceled' = (canceled \/ request = "bulk")
    /\ payload' = IF request = "bulk" /\ ~message.ended THEN "closing" ELSE payload
    /\ message' = IF request = "bulk" /\ ~canceled /\ ~message.finished
                  THEN Aborted(message) ELSE message
RequestTimeout ==
    /\ request # "none" /\ error # "ETIMEOUT"
    /\ error' = "ETIMEOUT" /\ timedOut' = TRUE
    /\ TimedOut
    /\ UNCHANGED <<columns, executionStarted, declared, streamVars, request, connected,
                   serverVars, calls, outcome, doubt>>

-----------------------------------------------------------------------------
(* Answers *)

Completes(result) ==
    /\ request' = "none" /\ attention' = FALSE /\ error' = "none" /\ answer' = "none"
    /\ CallBack(result)

MakeBulkRequest ==
    /\ request' = "bulk" /\ error' = "none" /\ answer' = "none"
    /\ payload' = "piping"

\* The callback of the INSERT BULK request; a BulkLoad that was canceled before
\* is not sent.
InsertAnsweredGoOn(failure) ==                          \* fault: no return after an error
    /\ MakeBulkRequest
    /\ IF failure # "none" THEN CallBack(failure) ELSE UNCHANGED <<calls, outcome>>
    /\ UNCHANGED attention
InsertAnswered(failure) ==
    CASE failure # "none" -> Completes(failure) /\ UNCHANGED payload
      [] failure = "none" /\ canceled -> Completes("ECANCEL") /\ UNCHANGED payload
      [] OTHER -> MakeBulkRequest /\ UNCHANGED <<attention, calls, outcome>>

\* What a request that is answered ends with: the ERROR token of the answer counts
\* only if it is not canceled.
Failure(isCanceled) ==
    IF error = "none" /\ answer = "failed" /\ ~isCanceled THEN "EREQUEST" ELSE error

OnInsertAnswered ==
    /\ request = "insert" /\ ~attention /\ answer \in {"ok", "failed"}
    /\ InsertAnswered(Failure(insertCanceled))
    /\ UNCHANGED <<loadVars, streamVars, insertCanceled, connected, insert, message, inForce,
                   table, doubt, timedOut>>

OnBulkAnswered ==
    /\ request = "bulk" /\ ~attention /\ answer \in {"ok", "failed"}
    /\ Completes(IF Failure(canceled) = "none" THEN "ok" ELSE Failure(canceled))
    /\ UNCHANGED <<loadVars, streamVars, insertCanceled, connected, messageVars,
                   inForce, table, doubt, timedOut>>

\* The acknowledgement of the attention; any other answer is discarded.
OnAcknowledged ==
    /\ request # "none" /\ answer = "acknowledged"
    /\ Completes(IF error = "ETIMEOUT" THEN "ETIMEOUT" ELSE "ECANCEL")
    /\ doubt' = (request = "bulk" /\ ~message.ignore)
    /\ UNCHANGED <<loadVars, streamVars, insertCanceled, connected, messageVars,
                   inForce, table, timedOut>>

-----------------------------------------------------------------------------
(* The server and the network (external) *)

RowsIn(data)  == [i \in 1..(Len(data) - 2) |-> data[i + 1].row]
WellFormed(data, cols) ==
    \/ data = <<Done>>
    \/ /\ Len(data) > 2 /\ data[1] = [kind |-> "metadata", columns |-> cols]
       /\ \A i \in 2..(Len(data) - 1) : data[i].kind = "row" /\ data[i].values = cols
       /\ Last(data) = Done

ServerInserts ==
    /\ request = "insert" /\ answer = "none"
    /\ \/ insert = "sent" /\ inForce' = declared /\ answer' = "ok"
       \/ insert = "ignored" /\ answer' = "ok" /\ UNCHANGED inForce
       \/ insert \in {"sent", "ignored"} /\ answer' = "failed" /\ UNCHANGED inForce
    /\ UNCHANGED table

Loadable == inForce > 0 /\ WellFormed(message.data, inForce)

\* All rows of a message or none
Loads ==
    IF ~message.ignore /\ Loadable
    THEN table' = IF message.data = <<Done>> THEN <<>> ELSE RowsIn(message.data)
    ELSE UNCHANGED table

ServerLoads ==
    /\ request = "bulk" /\ message.finished /\ answer = "none"
    /\ inForce' = 0
    /\ \/ /\ Loads
          /\ answer' = IF message.ignore \/ Loadable THEN "ok" ELSE "failed"
       \/ answer' = "failed" /\ UNCHANGED table

ServerAcknowledges ==
    /\ attention /\ answer # "acknowledged"
    /\ answer' = "acknowledged" /\ inForce' = 0
    /\ UNCHANGED table

Server ==
    /\ connected
    /\ ServerInserts \/ ServerLoads \/ ServerAcknowledges
    /\ UNCHANGED <<loadVars, streamVars, requestVars, messageVars, histVars>>

\* The connection ends, and with it the request under way; the server may have
\* executed it.
ConnectionLost ==
    /\ connected /\ connected' = FALSE
    /\ IF request = "none"
       THEN UNCHANGED <<request, calls, outcome, doubt>>
       ELSE request' = "none" /\ CallBack("ESOCKET") /\ doubt' = message.finished
    /\ \/ UNCHANGED table
       \/ request = "bulk" /\ message.finished /\ answer = "none" /\ Loads
    /\ inForce' = 0 /\ answer' = "none"
    /\ UNCHANGED <<loadVars, streamVars, insertCanceled, attention, error, messageVars, timedOut>>

-----------------------------------------------------------------------------
SourceStep  == TransformRow \/ InvalidRow \/ RowsEnd
PayloadStep ==
    \/ InsertFlows \/ PipeChunk \/ PayloadEnds \/ MessageFinishes
    \/ PayloadFails \/ IteratorCloses
AnswerStep  == OnInsertAnswered \/ OnBulkAnswered \/ OnAcknowledged

Next ==
    \/ AddColumn \/ \E withRows \in BOOLEAN : ExecBulkLoad(withRows)
    \/ SourceStep \/ RowsFail \/ PayloadStep \/ AnswerStep
    \/ Cancel \/ CancelRequest \/ RequestTimeout
    \/ Server \/ ConnectionLost

\* The row stream goes on as long as it is read from, streams and callbacks run,
\* and the server answers what it gets.
Fairness == WF_vars(SourceStep) /\ WF_vars(PayloadStep) /\ WF_vars(AnswerStep) /\ WF_vars(Server)

Spec == Init /\ [][Next]_vars /\ Fairness

-----------------------------------------------------------------------------
(* Properties *)

AllRows  == [i \in Rows |-> i]
Expected == IF rowStream = "none" THEN <<>> ELSE AllRows

\* A bulk load that is reported as done has inserted every row that the program
\* gave, in order, and one that is reported as failed has inserted none, unless
\* the server had all of it when it was canceled or the connection was lost; a
\* timeout is never reported as done.  A message that goes out without the ignore
\* bit holds the metadata of exactly the columns of its INSERT BULK, whole rows
\* with a value for each, and the DONE token.  The one exception is in the code:
\* a bulk load that the program canceled before its message was finished sets no
\* error when the payload has ended, or not in time when the transform's iterator
\* is still to be closed; it is told that it is done, and has inserted nothing.
OutcomeIsTheTable ==
    /\ message.finished /\ ~message.ignore => WellFormed(message.data, declared)
    /\ outcome = "ok" =>
          \/ table = Expected
          \/ canceled /\ message.ignore /\ table = <<>>
    /\ timedOut => outcome # "ok"
    /\ outcome \notin {"ok", "pending"} /\ ~doubt => table = <<>>

\* The callback of the bulk load is called, and never again.
CalledBack == executionStarted ~> [](calls = 1)

\* Once rows are sent the program's row stream is ended or destroyed, however the
\* bulk load goes, unless the connection is lost.
RowStreamReleased == request = "bulk" ~> rowStream # "open" \/ ~connected

=============================================================================

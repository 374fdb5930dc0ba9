----------------------------- MODULE BulkLoadProofs -----------------------------
(***************************************************************************)
(* Theorems about BulkLoad: that the outcome of a bulk load tells what the *)
(* table holds, however its two requests and its streams end.              *)
(***************************************************************************)
EXTENDS BulkLoad, SequenceTheorems, TLAPS

-----------------------------------------------------------------------------
(* The inductive invariant *)

\* A bulk load starts once, with columns that do not change any more; its transform
\* ends when the program's rows do, and without rows from the start.
StartInv ==
    /\ executionStarted => columns > 0 /\ declared = columns
    /\ ~executionStarted =>
          /\ rowStream = "none" /\ given = 0 /\ chunks = <<>> /\ transform = "open"
          /\ request = "none" /\ payload = "none" /\ outcome = "pending"
    /\ rowStream = "none" /\ executionStarted => transform # "open" /\ given = 0
    /\ rowStream = "open" => transform # "ended"
    /\ transform = "ended" /\ rowStream # "none" => given = NumRows
    /\ columnMetadataWritten <=> given > 0

\* A request is under way until the callback, and an attention is one request's.
RequestInv ==
    /\ request # "none" => executionStarted /\ outcome = "pending"
    /\ request = "insert" => payload = "none"
    /\ calls = IF outcome = "pending" THEN 0 ELSE 1
    /\ attention /\ connected => request # "none"
    /\ attention /\ request = "bulk" => message.finished

\* A message that is ended without the ignore bit has all that was piped; an error of
\* the request or a cancel is why one has the bit, and after either it has the bit
\* or an attention was sent.
MessageInv ==
    /\ payload = "none" => message.data = <<>>
    /\ message.ended <=> payload \in {"closing", "over"}
    /\ message.ignore \/ message.finished => message.ended
    /\ payload = "closing" => message.ignore
    /\ message.ended /\ ~message.ignore => transform = "ended" /\ chunks = <<>>
    /\ request = "bulk" /\ message.ignore => error # "none" \/ canceled
    /\ request = "bulk" /\ (error # "none" \/ canceled) => message.ignore \/ attention

\* What was piped and what is still to be read is the message of the rows given:
\* the metadata, the rows in order, and DONE if there are no more.
Length(n, done) == (IF n = 0 THEN 0 ELSE n + 1) + (IF done THEN 1 ELSE 0)
Holds(all, n, done) ==
    /\ Len(all) = Length(n, done)
    /\ n > 0 => all[1] = [kind |-> "metadata", columns |-> columns]
    /\ \A i \in 1..n : all[i + 1] = [kind |-> "row", row |-> i, values |-> columns]
    /\ done => all[Len(all)] = Done
ContentInv == transform # "destroyed" => Holds(message.data \o chunks, given, transform = "ended")

\* The table has the rows once the server answers, and none before, if it fails, or if
\* the message is ignored.  An INSERT BULK that was ignored is not in force.
TableInv ==
    /\ ~message.finished \/ message.ignore => table = <<>>
    /\ inForce # 0 => executionStarted /\ inForce = declared
    /\ request = "bulk" /\ answer = "none" => table = <<>>
    /\ request = "bulk" /\ answer \in {"ok", "failed"} => message.finished
    /\ request = "bulk" /\ answer = "failed" => table = <<>>
    /\ request = "bulk" /\ answer = "ok" /\ ~message.ignore => table = Expected
    /\ request = "none" => answer = "none"

IndInv == TypeOK /\ StartInv /\ RequestInv /\ MessageInv /\ ContentInv /\ TableInv

-----------------------------------------------------------------------------
(* Sequences of chunks *)

LEMMA Piped ==
  ASSUME NEW S, NEW s \in Seq(S), NEW t \in Seq(S), t # <<>>
  PROVE  Append(s, Head(t)) \o Tail(t) = s \o t
  <1>1. /\ Head(t) \in S /\ Tail(t) \in Seq(S)
        /\ Len(Tail(t)) = Len(t) - 1 /\ Len(t) \in Nat /\ Len(s) \in Nat
        /\ Head(t) = t[1] /\ \A i \in 1..(Len(t) - 1) : Tail(t)[i] = t[i + 1]
    BY EmptySeq
  <1>2. /\ Append(s, Head(t)) \in Seq(S)
        /\ Len(Append(s, Head(t))) = Len(s) + 1
        /\ \A i \in 1..Len(s) : Append(s, Head(t))[i] = s[i]
        /\ Append(s, Head(t))[Len(s) + 1] = t[1]
    BY <1>1, AppendProperties
  <1>3. DEFINE a == Append(s, Head(t))
  <1>4. DEFINE u == Tail(t)
  <1>5. /\ a \o u \in Seq(S) /\ Len(a \o u) = Len(s) + Len(t)
        /\ \A i \in 1..(Len(s) + Len(t)) :
              (a \o u)[i] = IF i <= Len(s) + 1 THEN a[i] ELSE u[i - (Len(s) + 1)]
    BY <1>1, <1>2, ConcatProperties
  <1>6. /\ s \o t \in Seq(S) /\ Len(s \o t) = Len(s) + Len(t)
        /\ \A i \in 1..(Len(s) + Len(t)) : (s \o t)[i] = IF i <= Len(s) THEN s[i] ELSE t[i - Len(s)]
    BY <1>1, ConcatProperties
  <1>7. ASSUME NEW i \in 1..(Len(s) + Len(t))
        PROVE  (a \o u)[i] = (s \o t)[i]
    <2>1. i \in Nat /\ i > 0 /\ i <= Len(s) + Len(t)
      BY <1>1
    <2>2. CASE i <= Len(s)
      BY <1>1, <1>2, <1>5, <1>6, <2>1, <2>2
    <2>3. CASE i = Len(s) + 1
      BY <1>1, <1>2, <1>5, <1>6, <2>1, <2>3
    <2>4. CASE i > Len(s) + 1
      <3>1. i - (Len(s) + 1) \in 1..(Len(t) - 1) /\ (i - (Len(s) + 1)) + 1 = i - Len(s)
        BY <1>1, <2>1, <2>4
      <3>2. u[i - (Len(s) + 1)] = t[i - Len(s)]
        BY <1>1, <3>1
      <3>3. QED
        BY <1>1, <1>5, <1>6, <2>1, <2>4, <3>2
    <2>5. QED
      BY <1>1, <2>1, <2>2, <2>3, <2>4
  <1>8. QED
    BY <1>5, <1>6, <1>7, SeqEqual

LEMMA HoldsMore ==
  ASSUME NEW all \in Seq(Chunks), NEW n \in Nat, Holds(all, n, FALSE), columns \in Nat,
         NEW head \in Seq(Chunks), NEW row \in Chunks,
         head = IF n > 0 THEN <<>> ELSE <<[kind |-> "metadata", columns |-> columns]>>,
         row = [kind |-> "row", row |-> n + 1, values |-> columns]
  PROVE  Holds(all \o head \o <<row>>, n + 1, FALSE)
  <1>1. /\ all \o head \in Seq(Chunks) /\ Len(all \o head) = Len(all) + Len(head)
        /\ \A i \in 1..Len(all) + Len(head) :
              (all \o head)[i] = IF i <= Len(all) THEN all[i] ELSE head[i - Len(all)]
        /\ Len(all) \in Nat /\ Len(head) \in Nat
    BY ConcatProperties
  <1>2. Len(all) = IF n = 0 THEN 0 ELSE n + 1
    BY DEF Holds, Length
  <1>3. Len(all \o head) = n + 1
    BY <1>1, <1>2
  <1>4. (all \o head) \o <<row>> = Append(all \o head, row)
    BY <1>1, AppendIsConcat
  <1>5. /\ Len(Append(all \o head, row)) = n + 2
        /\ \A i \in 1..(n + 1) : Append(all \o head, row)[i] = (all \o head)[i]
        /\ Append(all \o head, row)[n + 2] = row
    BY <1>1, <1>3, AppendProperties
  <1>6. (all \o head)[1] = [kind |-> "metadata", columns |-> columns]
    <2>1. CASE n = 0
      <3>1. Len(all) = 0 /\ 1 - Len(all) = 1 /\ ~(1 <= Len(all)) /\ 1 \in 1..Len(all) + Len(head)
        BY <1>1, <1>2, <1>3, <2>1
      <3>2. (all \o head)[1] = head[1]
        BY <1>1, <3>1
      <3>3. head = <<[kind |-> "metadata", columns |-> columns]>>
        <4>1. ~(n > 0)
          BY <2>1
        <4>2. QED
          BY <4>1, Zenon
      <3>4. head[1] = [kind |-> "metadata", columns |-> columns]
        BY ONLY <3>3
      <3>5. QED
        BY <3>2, <3>4, Zenon
    <2>2. CASE n # 0
      <3>1. n > 0 /\ 1 <= Len(all) /\ 1 \in 1..Len(all) + Len(head)
        BY <1>1, <1>2, <2>2
      <3>2. (all \o head)[1] = all[1]
        BY <1>1, <3>1
      <3>3. QED
        BY <3>1, <3>2 DEF Holds
    <2>3. QED
      BY <2>1, <2>2
  <1>7. ASSUME NEW i \in 1..(n + 1)
        PROVE  Append(all \o head, row)[i + 1] = [kind |-> "row", row |-> i, values |-> columns]
    <2>1. CASE i = n + 1
      BY <1>5, <2>1
    <2>2. CASE i # n + 1
      <3>1. i \in 1..n /\ i + 1 \in 1..(n + 1) /\ i + 1 <= Len(all)
        BY <1>2, <2>2
      <3>2. (all \o head)[i + 1] = all[i + 1]
        BY <1>1, <3>1
      <3>3. QED
        BY <1>5, <3>1, <3>2 DEF Holds
    <2>3. QED
      BY <2>1, <2>2
  <1>8. Append(all \o head, row)[1] = [kind |-> "metadata", columns |-> columns]
    BY <1>5, <1>6
  <1>9. Length(n + 1, FALSE) = n + 2
    BY DEF Length
  <1>10. Holds(Append(all \o head, row), n + 1, FALSE)
    BY <1>5, <1>7, <1>8, <1>9 DEF Holds
  <1>11. QED
    BY <1>4, <1>10

LEMMA HoldsDone ==
  ASSUME NEW all \in Seq(Chunks), NEW n \in Nat, Holds(all, n, FALSE)
  PROVE  Holds(Append(all, Done), n, TRUE)
  <1>1. Done \in Chunks
    BY DEF Chunks
  <1>2. /\ Len(Append(all, Done)) = Len(all) + 1 /\ Len(all) \in Nat
        /\ \A i \in 1..Len(all) : Append(all, Done)[i] = all[i]
        /\ Append(all, Done)[Len(all) + 1] = Done
    BY <1>1, AppendProperties, LenProperties
  <1>3. Len(all) = IF n = 0 THEN 0 ELSE n + 1
    BY DEF Holds, Length
  <1>4. \A i \in 1..n : i + 1 \in 1..Len(all)
    BY <1>3
  <1>5. \A i \in 1..n : Append(all, Done)[i + 1] = [kind |-> "row", row |-> i, values |-> columns]
    BY <1>2, <1>4 DEF Holds
  <1>6. n > 0 => Append(all, Done)[1] = [kind |-> "metadata", columns |-> columns]
    <2>1. n > 0 => 1 \in 1..Len(all)
      BY <1>2, <1>3
    <2>2. n > 0 => all[1] = [kind |-> "metadata", columns |-> columns]
      BY Zenon DEF Holds
    <2>3. n > 0 => Append(all, Done)[1] = all[1]
      BY <1>2, <2>1
    <2>4. QED
      BY <2>2, <2>3, Zenon
  <1>7. Length(n, TRUE) = Len(all) + 1
    BY <1>3 DEF Length
  <1>8. Len(Append(all, Done)) = Length(n, TRUE)
    BY <1>2, <1>7
  <1>9. Append(all, Done)[Len(Append(all, Done))] = Done
    BY <1>2
  <1>10. QED
    BY <1>5, <1>6, <1>8, <1>9, Zenon DEF Holds
-----------------------------------------------------------------------------
(* The streams and the requests *)

LEMMA NextStart ==
  ASSUME IndInv, [Next]_vars
  PROVE  StartInv'
  <1>1. StartInv /\ RequestInv /\ given \in Nat /\ NumRows \in Nat /\ columns \in Nat
    BY SizeAssumption DEF IndInv, TypeOK
  <1>2. CASE AddColumn
    BY <1>1, <1>2 DEF AddColumn, CanAddColumn, StartInv, RequestInv, vars, loadVars,
       streamVars, requestVars, messageVars, serverVars, histVars
  <1>3. CASE \E withRows \in BOOLEAN : ExecBulkLoad(withRows)
    BY <1>1, <1>3 DEF ExecBulkLoad, CallBack, StartInv, RequestInv, vars, loadVars,
       streamVars, requestVars, messageVars, serverVars, histVars
  <1>4. CASE TransformRow
    BY <1>1, <1>4 DEF TransformRow, Takes, StartInv, RequestInv, vars, loadVars, streamVars,
       requestVars, messageVars, serverVars, histVars
  <1>5. CASE InvalidRow
    BY <1>1, <1>5 DEF InvalidRow, Takes, RowStreamAfterError, StartInv, RequestInv, vars,
       loadVars, streamVars, requestVars, messageVars, serverVars, histVars
  <1>6. CASE RowsEnd
    BY <1>1, <1>6 DEF RowsEnd, Takes, StartInv, RequestInv, vars, loadVars, streamVars,
       requestVars, messageVars, serverVars, histVars
  <1>7. CASE RowsFail
    BY <1>1, <1>7 DEF RowsFail, TransformAfterFailure, StartInv, RequestInv, vars, loadVars,
       streamVars, requestVars, messageVars, serverVars, histVars
  <1>8. CASE PipeChunk
    BY <1>1, <1>8 DEF PipeChunk, StartInv, RequestInv, vars, loadVars, streamVars,
       requestVars, messageVars, serverVars, histVars
  <1>9. CASE PayloadEnds \/ MessageFinishes \/ InsertFlows
    BY <1>1, <1>9 DEF PayloadEnds, MessageFinishes, InsertFlows, StartInv, RequestInv,
       vars, loadVars, streamVars, requestVars, messageVars, serverVars, histVars
  <1>10. CASE PayloadFails
    BY <1>1, <1>10 DEF PayloadFails, Aborted, SetError, StartInv, RequestInv, vars,
       loadVars, streamVars, requestVars, messageVars, serverVars, histVars
  <1>11. CASE IteratorCloses
    BY <1>1, <1>11 DEF IteratorCloses, RowStreamAfterError, StartInv, RequestInv, vars,
       loadVars, streamVars, requestVars, messageVars, serverVars, histVars
  <1>12. CASE OnInsertAnswered
    BY <1>1, <1>12 DEF OnInsertAnswered, InsertAnswered, Failure, Completes, CallBack,
       MakeBulkRequest, StartInv, RequestInv, vars, loadVars, streamVars, requestVars,
       messageVars, serverVars, histVars
  <1>13. CASE OnBulkAnswered
    BY <1>1, <1>13 DEF OnBulkAnswered, Completes, CallBack, StartInv, RequestInv, vars,
       loadVars, streamVars, requestVars, messageVars, serverVars, histVars
  <1>14. CASE OnAcknowledged
    BY <1>1, <1>14 DEF OnAcknowledged, Completes, CallBack, StartInv, RequestInv, vars,
       loadVars, streamVars, requestVars, messageVars, serverVars, histVars
  <1>15. CASE Cancel \/ CancelRequest
    BY <1>1, <1>15 DEF Cancel, CancelRequest, CancelInsert, CancelStreaming,
       CancelEnded, CancelSent, CancelUnheard, Aborted, SetError, StartInv, RequestInv,
       vars, loadVars, streamVars, requestVars, messageVars, serverVars, histVars
  <1>16. CASE RequestTimeout
    BY <1>1, <1>16 DEF RequestTimeout, TimedOut, Aborted, StartInv, RequestInv, vars,
       loadVars, streamVars, requestVars, messageVars, serverVars, histVars
  <1>17. CASE Server
    BY <1>1, <1>17 DEF Server, ServerInserts, ServerLoads, ServerAcknowledges, StartInv,
       RequestInv, vars, loadVars, streamVars, requestVars, messageVars, serverVars,
       histVars
  <1>18. CASE ConnectionLost
    BY <1>1, <1>18 DEF ConnectionLost, CallBack, StartInv, RequestInv, vars, loadVars,
       streamVars, requestVars, messageVars, serverVars, histVars
  <1>19. CASE UNCHANGED vars
    BY <1>1, <1>19 DEF StartInv, RequestInv, vars, loadVars, streamVars, requestVars,
       messageVars, serverVars, histVars
  <1>20. QED
    BY <1>2, <1>3, <1>4, <1>5, <1>6, <1>7, <1>8, <1>9, <1>10, <1>11, <1>12, <1>13, <1>14,
       <1>15, <1>16, <1>17, <1>18, <1>19 DEF Next, SourceStep, PayloadStep, AnswerStep

LEMMA NextRequest ==
  ASSUME IndInv, [Next]_vars
  PROVE  RequestInv'
  <1>1. /\ StartInv /\ RequestInv /\ MessageInv
        /\ message \in [data : Seq(Chunks), ended : BOOLEAN, finished : BOOLEAN,
                        ignore : BOOLEAN]
        /\ Failure(insertCanceled) # "pending" /\ Failure(canceled) # "pending"
    BY DEF IndInv, TypeOK, Failure, Errors
  <1>2. CASE AddColumn
    BY <1>1, <1>2 DEF AddColumn, CanAddColumn, StartInv, RequestInv, vars, loadVars,
       streamVars, requestVars, messageVars, serverVars, histVars
  <1>3. CASE \E withRows \in BOOLEAN : ExecBulkLoad(withRows)
    BY <1>1, <1>3 DEF ExecBulkLoad, CallBack, StartInv, RequestInv, vars, loadVars,
       streamVars, requestVars, messageVars, serverVars, histVars
  <1>4. CASE TransformRow
    BY <1>1, <1>4 DEF TransformRow, Takes, StartInv, RequestInv, vars, loadVars, streamVars,
       requestVars, messageVars, serverVars, histVars
  <1>5. CASE InvalidRow
    BY <1>1, <1>5 DEF InvalidRow, Takes, RowStreamAfterError, StartInv, RequestInv, vars,
       loadVars, streamVars, requestVars, messageVars, serverVars, histVars
  <1>6. CASE RowsEnd
    BY <1>1, <1>6 DEF RowsEnd, Takes, StartInv, RequestInv, vars, loadVars, streamVars,
       requestVars, messageVars, serverVars, histVars
  <1>7. CASE RowsFail
    BY <1>1, <1>7 DEF RowsFail, TransformAfterFailure, StartInv, RequestInv, vars, loadVars,
       streamVars, requestVars, messageVars, serverVars, histVars
  <1>8. CASE PipeChunk
    BY <1>1, <1>8 DEF PipeChunk, StartInv, RequestInv, vars, loadVars, streamVars,
       requestVars, messageVars, serverVars, histVars
  <1>9. CASE PayloadEnds \/ MessageFinishes \/ InsertFlows
    BY <1>1, <1>9 DEF PayloadEnds, MessageFinishes, InsertFlows, StartInv, RequestInv,
       vars, loadVars, streamVars, requestVars, messageVars, serverVars, histVars
  <1>10. CASE PayloadFails
    BY <1>1, <1>10 DEF PayloadFails, Aborted, SetError, StartInv, RequestInv, vars,
       loadVars, streamVars, requestVars, messageVars, serverVars, histVars
  <1>11. CASE IteratorCloses
    BY <1>1, <1>11 DEF IteratorCloses, RowStreamAfterError, StartInv, RequestInv, vars,
       loadVars, streamVars, requestVars, messageVars, serverVars, histVars
  <1>12. CASE OnInsertAnswered
    BY <1>1, <1>12 DEF OnInsertAnswered, InsertAnswered, Completes, CallBack,
       MakeBulkRequest, StartInv, RequestInv, vars, loadVars, streamVars, requestVars,
       messageVars, serverVars, histVars
  <1>13. CASE OnBulkAnswered
    <2>1. outcome' # "pending" /\ calls' = calls + 1 /\ request' = "none"
      BY <1>1, <1>13 DEF OnBulkAnswered, Completes, CallBack
    <2>2. /\ executionStarted' = executionStarted /\ outcome = "pending" /\ calls = 0
          /\ attention' = FALSE
      BY <1>1, <1>13 DEF OnBulkAnswered, Completes, RequestInv, loadVars
    <2>3. QED
      BY <1>1, <2>1, <2>2 DEF RequestInv
  <1>14. CASE OnAcknowledged
    BY <1>1, <1>14 DEF OnAcknowledged, Completes, CallBack, StartInv, RequestInv, vars,
       loadVars, streamVars, requestVars, messageVars, serverVars, histVars
  <1>15. CASE Cancel \/ CancelRequest
    <2>1. UNCHANGED <<executionStarted, request, connected, calls, outcome>>
      BY <1>15 DEF Cancel, CancelRequest, CancelInsert, CancelStreaming, CancelEnded,
                   CancelSent, CancelUnheard, loadVars, requestVars, histVars
    <2>2. CancelInsert \/ CancelStreaming \/ CancelEnded \/ CancelSent \/ CancelUnheard
      BY <1>15 DEF Cancel, CancelRequest
    <2>3. message'.finished = message.finished /\ (request = "insert" => payload' = payload)
      BY <1>1, <2>2 DEF CancelInsert, CancelStreaming, CancelEnded, CancelSent, CancelUnheard,
                        Aborted, messageVars
    <2>4. /\ attention' => attention \/ request = "insert" \/ message.finished
          /\ attention' => attention \/ request # "none"
      BY <2>2 DEF CancelInsert, CancelStreaming, CancelEnded, CancelSent, CancelUnheard,
                  requestVars
    <2>5. QED
      BY <1>1, <2>1, <2>3, <2>4 DEF RequestInv
  <1>16. CASE RequestTimeout
    BY <1>1, <1>16 DEF RequestTimeout, TimedOut, Aborted, StartInv, RequestInv, vars,
       loadVars, streamVars, requestVars, messageVars, serverVars, histVars
  <1>17. CASE Server
    BY <1>1, <1>17 DEF Server, ServerInserts, ServerLoads, ServerAcknowledges, StartInv,
       RequestInv, vars, loadVars, streamVars, requestVars, messageVars, serverVars,
       histVars
  <1>18. CASE ConnectionLost
    BY <1>1, <1>18 DEF ConnectionLost, CallBack, StartInv, RequestInv, vars, loadVars,
       streamVars, requestVars, messageVars, serverVars, histVars
  <1>19. CASE UNCHANGED vars
    BY <1>1, <1>19 DEF StartInv, RequestInv, vars, loadVars, streamVars, requestVars,
       messageVars, serverVars, histVars
  <1>20. QED
    BY <1>2, <1>3, <1>4, <1>5, <1>6, <1>7, <1>8, <1>9, <1>10, <1>11, <1>12, <1>13, <1>14,
       <1>15, <1>16, <1>17, <1>18, <1>19 DEF Next, SourceStep, PayloadStep, AnswerStep

LEMMA NextMessage ==
  ASSUME IndInv, [Next]_vars
  PROVE  MessageInv'
  <1>1. /\ StartInv /\ RequestInv /\ MessageInv
        /\ message \in [data : Seq(Chunks), ended : BOOLEAN, finished : BOOLEAN,
                   ignore : BOOLEAN]
    BY SizeAssumption DEF IndInv, TypeOK
  <1>2. CASE AddColumn
    BY <1>1, <1>2 DEF AddColumn, CanAddColumn, StartInv, RequestInv, MessageInv, vars,
       loadVars, streamVars, requestVars, messageVars, serverVars, histVars
  <1>3. CASE \E withRows \in BOOLEAN : ExecBulkLoad(withRows)
    BY <1>1, <1>3 DEF ExecBulkLoad, CallBack, StartInv, RequestInv, MessageInv, vars,
       loadVars, streamVars, requestVars, messageVars, serverVars, histVars
  <1>4. CASE TransformRow
    BY <1>1, <1>4 DEF TransformRow, Takes, StartInv, RequestInv, MessageInv, vars, loadVars,
       streamVars, requestVars, messageVars, serverVars, histVars
  <1>5. CASE InvalidRow
    BY <1>1, <1>5 DEF InvalidRow, Takes, RowStreamAfterError, StartInv, RequestInv,
       MessageInv, vars, loadVars, streamVars, requestVars, messageVars, serverVars,
       histVars
  <1>6. CASE RowsEnd
    BY <1>1, <1>6 DEF RowsEnd, Takes, StartInv, RequestInv, MessageInv, vars, loadVars,
       streamVars, requestVars, messageVars, serverVars, histVars
  <1>7. CASE RowsFail
    BY <1>1, <1>7 DEF RowsFail, TransformAfterFailure, StartInv, RequestInv, MessageInv,
       vars, loadVars, streamVars, requestVars, messageVars, serverVars, histVars
  <1>8. CASE PipeChunk
    BY <1>1, <1>8 DEF PipeChunk, StartInv, RequestInv, MessageInv, vars, loadVars,
       streamVars, requestVars, messageVars, serverVars, histVars
  <1>9. CASE PayloadEnds \/ MessageFinishes \/ InsertFlows
    BY <1>1, <1>9 DEF PayloadEnds, MessageFinishes, InsertFlows, StartInv, RequestInv,
       MessageInv, vars, loadVars, streamVars, requestVars, messageVars, serverVars,
       histVars
  <1>10. CASE PayloadFails
    BY <1>1, <1>10 DEF PayloadFails, Aborted, SetError, StartInv, RequestInv, MessageInv,
       vars, loadVars, streamVars, requestVars, messageVars, serverVars, histVars
  <1>11. CASE IteratorCloses
    BY <1>1, <1>11 DEF IteratorCloses, RowStreamAfterError, SetError, StartInv,
       RequestInv, MessageInv, vars, loadVars, streamVars, requestVars, messageVars, serverVars,
       histVars
  <1>12. CASE OnInsertAnswered
    <2>1. /\ payload = "none" /\ ~message.ended /\ ~message.ignore /\ ~attention
          /\ UNCHANGED <<message, canceled, transform, chunks>>
      BY <1>1, <1>12 DEF OnInsertAnswered, RequestInv, MessageInv, loadVars, streamVars
    <2>2. \/ request' = "none" /\ payload' = payload
          \/ /\ request' = "bulk" /\ payload' = "piping" /\ error' = "none" /\ ~canceled
      BY <1>12 DEF OnInsertAnswered, InsertAnswered, Completes, MakeBulkRequest
    <2>3. QED
      BY <1>1, <2>1, <2>2 DEF MessageInv
  <1>13. CASE OnBulkAnswered
    BY <1>1, <1>13 DEF OnBulkAnswered, Completes, CallBack, StartInv, RequestInv,
       MessageInv, vars, loadVars, streamVars, requestVars, messageVars, serverVars,
       histVars
  <1>14. CASE OnAcknowledged
    BY <1>1, <1>14 DEF OnAcknowledged, Completes, CallBack, StartInv, RequestInv,
       MessageInv, vars, loadVars, streamVars, requestVars, messageVars, serverVars,
       histVars
  <1>15. CASE Cancel \/ CancelRequest
    BY <1>1, <1>15 DEF Cancel, CancelRequest, CancelInsert, CancelStreaming,
       CancelEnded, CancelSent, CancelUnheard, Aborted, SetError, StartInv, RequestInv,
       MessageInv, vars, loadVars, streamVars, requestVars, messageVars, serverVars,
       histVars
  <1>16. CASE RequestTimeout
    BY <1>1, <1>16 DEF RequestTimeout, TimedOut, Aborted, StartInv, RequestInv,
       MessageInv, vars, loadVars, streamVars, requestVars, messageVars, serverVars,
       histVars
  <1>17. CASE Server
    BY <1>1, <1>17 DEF Server, ServerInserts, ServerLoads, ServerAcknowledges, StartInv,
       RequestInv, MessageInv, vars, loadVars, streamVars, requestVars, messageVars,
       serverVars, histVars
  <1>18. CASE ConnectionLost
    BY <1>1, <1>18 DEF ConnectionLost, CallBack, StartInv, RequestInv, MessageInv, vars,
       loadVars, streamVars, requestVars, messageVars, serverVars, histVars
  <1>19. CASE UNCHANGED vars
    BY <1>1, <1>19 DEF StartInv, RequestInv, MessageInv, vars, loadVars, streamVars,
       requestVars, messageVars, serverVars, histVars
  <1>20. QED
    BY <1>2, <1>3, <1>4, <1>5, <1>6, <1>7, <1>8, <1>9, <1>10, <1>11, <1>12, <1>13, <1>14,
       <1>15, <1>16, <1>17, <1>18, <1>19 DEF Next, SourceStep, PayloadStep, AnswerStep

-----------------------------------------------------------------------------
(* The message *)

LEMMA Associative ==
  ASSUME NEW s \in Seq(Chunks), NEW t \in Seq(Chunks), NEW u \in Seq(Chunks)
  PROVE  (s \o t) \o u = s \o (t \o u)
  BY ConcatAssociative

LEMMA RowTyped ==
  ASSUME IndInv, Takes, given + 1 \in Rows
  PROVE  /\ RowOf(given + 1) \in Chunks /\ Header \in Seq(Chunks)
         /\ RowOf(given + 1) = [kind |-> "row", row |-> given + 1, values |-> columns]
         /\ Header = IF given > 0 THEN <<>> ELSE <<[kind |-> "metadata", columns |-> columns]>>
         /\ executionStarted /\ columns \in Nat /\ given \in Nat
  <1>1. executionStarted /\ columns > 0 /\ columns \in 0..MaxColumns
    BY DEF IndInv, StartInv, TypeOK, Takes
  <1>2. columns \in 1..MaxColumns /\ columns \in Nat /\ given \in Nat
    BY <1>1, SizeAssumption DEF IndInv, TypeOK
  <1>3. RowOf(given + 1) \in RowData
    BY <1>2 DEF RowOf, RowData
  <1>4. [kind |-> "metadata", columns |-> columns] \in Metadata
    BY <1>1 DEF Metadata
  <1>5. Header = IF given > 0 THEN <<>> ELSE <<[kind |-> "metadata", columns |-> columns]>>
    <2>1. columnMetadataWritten <=> given > 0
      BY DEF IndInv, StartInv
    <2>2. QED
      BY <2>1, Zenon DEF Header
  <1>6. Header \in Seq(Chunks)
    <2>1. [kind |-> "metadata", columns |-> columns] \in Chunks
      BY <1>4 DEF Chunks
    <2>2. <<>> \in Seq(Chunks) /\ <<[kind |-> "metadata", columns |-> columns]>> \in Seq(Chunks)
      BY <2>1
    <2>3. QED
      BY <1>5, <2>2, Zenon
  <1>7. QED
    BY <1>1, <1>2, <1>3, <1>5, <1>6 DEF Chunks, RowOf

LEMMA ContentKept ==
  ASSUME IndInv, UNCHANGED <<given, transform, columns>>,
         message'.data \o chunks' = message.data \o chunks
  PROVE  ContentInv'
  BY DEF IndInv, ContentInv, Holds

LEMMA NextContent ==
  ASSUME IndInv, [Next]_vars
  PROVE  ContentInv'
  <1>1. /\ StartInv /\ MessageInv /\ ContentInv
        /\ message.data \in Seq(Chunks) /\ chunks \in Seq(Chunks)
        /\ given \in Nat
    BY SizeAssumption DEF IndInv, TypeOK
  <1>2. ASSUME ~executionStarted
        PROVE  message.data = <<>> /\ chunks = <<>> /\ given = 0 /\ transform = "open"
    BY <1>1, <1>2 DEF StartInv, MessageInv
  <1>3. CASE AddColumn
    <2>1. UNCHANGED <<message, chunks, given, transform>> /\ ~executionStarted
      BY <1>3 DEF AddColumn, CanAddColumn, streamVars, messageVars
    <2>2. message'.data = <<>> /\ chunks' = <<>> /\ given' = 0 /\ (transform' = "ended") = FALSE
      BY <1>2, <2>1
    <2>3. Len(message'.data \o chunks') = 0
      BY <2>2
    <2>4. Holds(message.data \o chunks, 0, FALSE)'
      BY <2>3 DEF Holds, Length
    <2>5. QED
      BY <2>2, <2>4, Zenon DEF ContentInv
  <1>4. ASSUME NEW withRows \in BOOLEAN, ExecBulkLoad(withRows)
        PROVE  ContentInv'
    <2>1. UNCHANGED <<message, given, columns>> /\ ~executionStarted
      BY <1>4 DEF ExecBulkLoad, messageVars
    <2>2. CASE withRows
      <3>1. UNCHANGED <<chunks, transform>>
        BY <1>4, <2>2 DEF ExecBulkLoad
      <3>2. QED
        BY <2>1, <3>1, ContentKept
    <2>3. CASE ~withRows
      <3>1. chunks' = <<Done>> /\ (transform' = "ended") = TRUE
        BY <1>4, <2>3 DEF ExecBulkLoad
      <3>2. message'.data = <<>> /\ given' = 0 /\ <<Done>> \in Seq(Chunks)
        BY <1>2, <2>1 DEF Chunks
      <3>3. message'.data \o chunks' = <<Done>>
        BY <3>1, <3>2, ConcatEmptySeq
      <3>4. Len(<<Done>>) = 1 /\ <<Done>>[1] = Done /\ Length(0, TRUE) = 1
        BY DEF Length
      <3>5. Holds(<<Done>>, 0, TRUE)'
        BY <3>4 DEF Holds, Done, Length
      <3>6. Holds(message.data \o chunks, given, TRUE)'
        BY <3>2, <3>3, <3>5, Zenon
      <3>7. QED
        BY <3>1, <3>6, Zenon DEF ContentInv
    <2>4. QED
      BY <2>2, <2>3
  <1>5. CASE TransformRow
    <2>1. /\ Takes /\ given + 1 \in Rows /\ given' = given + 1 /\ transform = "open"
          /\ chunks' = chunks \o Header \o <<RowOf(given + 1)>>
          /\ UNCHANGED <<message, columns, transform>>
      BY <1>5 DEF TransformRow, Takes, loadVars, messageVars
    <2>2. /\ RowOf(given + 1) \in Chunks /\ Header \in Seq(Chunks)
          /\ RowOf(given + 1) = [kind |-> "row", row |-> given + 1, values |-> columns]
          /\ Header = IF given > 0 THEN <<>> ELSE <<[kind |-> "metadata", columns |-> columns]>>
          /\ columns \in Nat
      BY <2>1, RowTyped
    <2>3. (transform = "ended") = FALSE /\ (transform' = "ended") = FALSE
      BY <2>1
    <2>4. Holds(message.data \o chunks, given, FALSE)
      <3>1. Holds(message.data \o chunks, given, transform = "ended")
        BY <1>1, <2>1 DEF ContentInv
      <3>2. QED
        BY <2>3, <3>1, Zenon
    <2>5. message.data \o chunks \in Seq(Chunks)
      BY <1>1, ConcatProperties
    <2>6. Holds((message.data \o chunks) \o Header \o <<RowOf(given + 1)>>, given + 1, FALSE)
      BY <1>1, <2>2, <2>4, <2>5, HoldsMore
    <2>7. (message.data \o chunks) \o Header \o <<RowOf(given + 1)>> = message.data \o chunks'
      <3>1. <<RowOf(given + 1)>> \in Seq(Chunks)
        BY <2>2
      <3>2. chunks \o Header \in Seq(Chunks)
        BY <1>1, <2>2, ConcatProperties
      <3>3. (message.data \o chunks) \o Header = message.data \o (chunks \o Header)
        BY <1>1, <2>2, Associative, Zenon
      <3>4. (message.data \o (chunks \o Header)) \o <<RowOf(given + 1)>>
               = message.data \o ((chunks \o Header) \o <<RowOf(given + 1)>>)
        BY <1>1, <3>1, <3>2, Associative, Zenon
      <3>5. QED
        BY <2>1, <3>3, <3>4, Zenon
    <2>8. Holds(message.data \o chunks', given', FALSE)
      BY <2>1, <2>6, <2>7, Zenon
    <2>9. Holds(message.data \o chunks, given, FALSE)'
      BY <2>1, <2>8 DEF Holds
    <2>10. QED
      BY <2>3, <2>9, Zenon DEF ContentInv
  <1>6. CASE RowsEnd
    <2>1. /\ transform = "open" /\ transform' = "ended" /\ chunks' = Append(chunks, Done)
          /\ UNCHANGED <<message, columns, given>>
      BY <1>6 DEF RowsEnd, Takes, loadVars, messageVars
    <2>2. (transform = "ended") = FALSE /\ (transform' = "ended") = TRUE
      BY <2>1
    <2>3. Holds(message.data \o chunks, given, FALSE)
      <3>1. Holds(message.data \o chunks, given, transform = "ended")
        BY <1>1, <2>1 DEF ContentInv
      <3>2. QED
        BY <2>2, <3>1, Zenon
    <2>4. message.data \o chunks \in Seq(Chunks) /\ Done \in Chunks
      BY <1>1, ConcatProperties DEF Chunks
    <2>5. Holds(Append(message.data \o chunks, Done), given, TRUE)
      BY <1>1, <2>3, <2>4, HoldsDone
    <2>6. Append(message.data \o chunks, Done) = message.data \o chunks'
      <3>1. Append(message.data \o chunks, Done) = (message.data \o chunks) \o <<Done>>
        BY <2>4, AppendIsConcat
      <3>2. chunks' = chunks \o <<Done>> /\ <<Done>> \in Seq(Chunks)
        BY <1>1, <2>1, <2>4, AppendIsConcat
      <3>3. (message.data \o chunks) \o <<Done>> = message.data \o (chunks \o <<Done>>)
        BY <1>1, <3>2, Associative, Zenon
      <3>4. QED
        BY <3>1, <3>2, <3>3, Zenon
    <2>7. Holds(message.data \o chunks', given, TRUE)
      BY <2>5, <2>6, Zenon
    <2>8. Holds(message.data \o chunks, given, TRUE)'
      BY <2>1, <2>7 DEF Holds
    <2>9. QED
      BY <2>2, <2>8, Zenon DEF ContentInv
  <1>7. CASE PipeChunk
    <2>1. /\ chunks # <<>> /\ chunks' = Tail(chunks)
          /\ message'.data = Append(message.data, Head(chunks))
          /\ UNCHANGED <<given, transform, columns>>
      BY <1>7 DEF PipeChunk, loadVars, IndInv, TypeOK
    <2>2. message'.data \o chunks' = message.data \o chunks
      BY <1>1, <2>1, Piped
    <2>3. QED
      BY <2>1, <2>2, ContentKept
  <1>8. CASE InvalidRow \/ RowsFail
    <2>1. transform' = "destroyed"
      BY <1>8 DEF InvalidRow, RowsFail, TransformAfterFailure
    <2>2. QED
      BY <2>1 DEF ContentInv
  <1>9. CASE IteratorCloses
    <2>1. transform' = "destroyed" \/ UNCHANGED <<given, transform, columns, message, chunks>>
      BY <1>9 DEF IteratorCloses, loadVars
    <2>2. QED
      BY <2>1, ContentKept DEF ContentInv
  <1>10. ASSUME UNCHANGED <<given, transform, columns, chunks>>, message'.data = message.data
         PROVE  ContentInv'
    BY <1>10, ContentKept
  <1>11. CASE PayloadEnds \/ MessageFinishes \/ PayloadFails \/ InsertFlows
    BY <1>10, <1>11 DEF PayloadEnds, MessageFinishes, PayloadFails, InsertFlows, Aborted,
                        loadVars, streamVars, IndInv, TypeOK
  <1>12. CASE OnInsertAnswered \/ OnBulkAnswered \/ OnAcknowledged
    BY <1>10, <1>12 DEF OnInsertAnswered, OnBulkAnswered, OnAcknowledged, loadVars, streamVars,
                        messageVars
  <1>13. CASE Cancel \/ CancelRequest \/ RequestTimeout
    <2>1. columns' = columns
      BY <1>13 DEF Cancel, CancelRequest, RequestTimeout, loadVars
    <2>2. UNCHANGED <<given, transform, chunks>> /\ message'.data = message.data
      BY <1>13 DEF Cancel, CancelRequest, CancelInsert, CancelStreaming, CancelEnded, CancelSent,
                   CancelUnheard, RequestTimeout, TimedOut, Aborted, streamVars, messageVars,
                   IndInv, TypeOK
    <2>3. QED
      BY <1>10, <2>1, <2>2
  <1>14. CASE Server \/ ConnectionLost \/ UNCHANGED vars
    BY <1>10, <1>14 DEF Server, ConnectionLost, vars, loadVars, streamVars, messageVars
  <1>15. QED
    BY <1>3, <1>4, <1>5, <1>6, <1>7, <1>8, <1>9, <1>11, <1>12, <1>13, <1>14
       DEF Next, SourceStep, PayloadStep, AnswerStep

-----------------------------------------------------------------------------
(* The table *)

\* A message that is whole is taken by the server, and holds what the program gave.
LEMMA MessageWhole ==
  ASSUME IndInv, message.finished, ~message.ignore
  PROVE  /\ WellFormed(message.data, declared) /\ declared \in Nat /\ declared > 0
         /\ (IF message.data = <<Done>> THEN <<>> ELSE RowsIn(message.data)) = Expected
  <1> DEFINE data == message.data
  <1>1. data \in Seq(Chunks) /\ chunks \in Seq(Chunks) /\ given \in Nat /\ NumRows \in Nat
           /\ Len(data) \in Nat /\ declared \in Nat
    BY SizeAssumption DEF IndInv, TypeOK
  <1>2. transform = "ended" /\ chunks = <<>>
    BY DEF IndInv, MessageInv
  <1>3. executionStarted /\ columns > 0 /\ declared = columns
    BY DEF IndInv, MessageInv, StartInv
  <1>4. /\ rowStream = "none" => given = 0
        /\ rowStream # "none" => given = NumRows
    BY <1>2, <1>3 DEF IndInv, StartInv
  <1>5. Holds(data, given, TRUE)
    <2>1. Holds(data \o chunks, given, transform = "ended")
      BY <1>2 DEF IndInv, ContentInv
    <2>2. data \o chunks = data
      BY <1>1, <1>2, ConcatEmptySeq
    <2>3. (transform = "ended") = TRUE
      BY <1>2
    <2>4. QED
      BY <2>1, <2>2, <2>3, Zenon
  <1> HIDE DEF data
  <1>6. /\ Len(data) = Length(given, TRUE)
        /\ given > 0 => data[1] = [kind |-> "metadata", columns |-> columns]
        /\ \A i \in 1..given : data[i + 1] = [kind |-> "row", row |-> i, values |-> columns]
        /\ data[Len(data)] = Done
    BY <1>5, Zenon DEF Holds
  <1>7. Len(data) = (IF given = 0 THEN 1 ELSE given + 2)
    BY <1>1, <1>6 DEF Length
  <1>8. CASE given = 0
    <2>1. Len(data) = 1 /\ data[1] = Done
      BY <1>6, <1>7, <1>8
    <2>2. data = <<Done>>
      <3>1. Done \in Chunks /\ <<Done>> \in Seq(Chunks) /\ Len(<<Done>>) = 1 /\ <<Done>>[1] = Done
        BY DEF Chunks
      <3>2. \A i \in 1..Len(data) : data[i] = <<Done>>[i]
        BY <2>1, <3>1
      <3>3. QED
        BY <1>1, <2>1, <3>1, <3>2, SeqEqual
    <2>3. WellFormed(data, declared)
      BY <2>2, Zenon DEF WellFormed
    <2>4. Expected = <<>>
      <3>1. CASE rowStream = "none"
        BY <3>1 DEF Expected
      <3>2. CASE rowStream # "none"
        <4>1. Rows = {}
          BY <1>4, <1>8, <3>2 DEF Rows
        <4>2. QED
          BY <3>2, <4>1 DEF Expected, AllRows
      <3>3. QED
        BY <3>1, <3>2
    <2>5. (IF data = <<Done>> THEN <<>> ELSE RowsIn(data)) = Expected
      BY <2>2, <2>4, Zenon
    <2>6. QED
      BY <1>1, <1>3, <2>3, <2>5 DEF data
  <1>9. CASE given # 0
    <2>1. given > 0 /\ Len(data) = given + 2 /\ Len(data) > 2
      BY <1>1, <1>7, <1>9
    <2>2. data[1] = [kind |-> "metadata", columns |-> declared]
      BY <1>3, <1>6, <2>1
    <2>3. \A i \in 2..(Len(data) - 1) : data[i].kind = "row" /\ data[i].values = declared
      <3>1. SUFFICES ASSUME NEW i \in 2..(Len(data) - 1)
                     PROVE  data[i].kind = "row" /\ data[i].values = declared
        OBVIOUS
      <3>2. i - 1 \in 1..given /\ (i - 1) + 1 = i
        BY <1>1, <2>1
      <3>3. data[i] = [kind |-> "row", row |-> i - 1, values |-> columns]
        BY <1>6, <3>2
      <3>4. QED
        BY <1>3, <3>3
    <2>4. Last(data) = Done
      BY <1>6 DEF Last
    <2>5. WellFormed(data, declared)
      BY <2>1, <2>2, <2>3, <2>4 DEF WellFormed
    <2>6. data # <<Done>>
      BY <2>1
    <2>7. rowStream # "none" /\ given = NumRows
      BY <1>4, <1>9
    <2>8. RowsIn(data) = AllRows
      <3>1. 1..(Len(data) - 2) = Rows
        BY <1>1, <2>1, <2>7 DEF Rows
      <3>2. \A i \in Rows : data[i + 1].row = i
        <4>1. SUFFICES ASSUME NEW i \in Rows
                       PROVE  data[i + 1].row = i
          OBVIOUS
        <4>2. i \in 1..given
          BY <1>1, <2>7, <4>1 DEF Rows
        <4>3. data[i + 1] = [kind |-> "row", row |-> i, values |-> columns]
          BY <1>6, <4>2
        <4>4. QED
          BY <4>3
      <3>3. QED
        BY <3>1, <3>2 DEF RowsIn, AllRows
    <2>9. (IF data = <<Done>> THEN <<>> ELSE RowsIn(data)) = Expected
      BY <2>6, <2>7, <2>8, Zenon DEF Expected
    <2>10. QED
      BY <1>1, <1>3, <2>5, <2>9 DEF data
  <1>10. QED
    BY <1>8, <1>9

LEMMA LoadsEffect ==
  ASSUME IndInv, Loads, message.finished
  PROVE  table' = IF ~message.ignore /\ Loadable THEN Expected ELSE table
  <1>1. CASE message.ignore \/ ~Loadable
    BY <1>1 DEF Loads
  <1>2. CASE ~message.ignore /\ Loadable
    BY <1>2, MessageWhole DEF Loads
  <1>3. QED
    BY <1>1, <1>2

LEMMA NextTable ==
  ASSUME IndInv, [Next]_vars
  PROVE  TableInv'
  <1>1. /\ StartInv /\ RequestInv /\ MessageInv /\ TableInv
        /\ message \in [data : Seq(Chunks), ended : BOOLEAN, finished : BOOLEAN,
                        ignore : BOOLEAN]
        /\ answer \in {"none", "ok", "failed", "acknowledged"}
    BY DEF IndInv, TypeOK
  <1>2. ASSUME UNCHANGED <<message, table, request, answer, inForce, declared, executionStarted>>,
               rowStream' = rowStream \/ (rowStream # "none" /\ rowStream' # "none")
        PROVE  TableInv'
    BY <1>1, <1>2 DEF TableInv, Expected
  <1>3. CASE AddColumn \/ InsertFlows \/ UNCHANGED vars
    BY <1>2, <1>3 DEF AddColumn, InsertFlows, vars, loadVars, streamVars, requestVars, messageVars,
                      serverVars
  <1>4. ASSUME NEW withRows \in BOOLEAN, ExecBulkLoad(withRows)
        PROVE  TableInv'
    <2>1. /\ request = "none" /\ payload = "none" /\ answer = "none" /\ ~message.finished
          /\ inForce = 0 /\ request' \in {"none", "insert"}
          /\ UNCHANGED <<message, table, answer, inForce>>
      BY <1>1, <1>4 DEF ExecBulkLoad, CallBack, StartInv, MessageInv, TableInv, serverVars
    <2>2. table = <<>>
      BY <1>1, <2>1 DEF TableInv
    <2>3. QED
      BY <2>1, <2>2 DEF TableInv
  <1>5. CASE TransformRow \/ InvalidRow \/ RowsEnd \/ RowsFail
    BY <1>2, <1>5 DEF TransformRow, InvalidRow, RowsEnd, RowsFail, Takes, RowStreamAfterError,
                      loadVars, requestVars, messageVars, serverVars
  <1>6. CASE PipeChunk \/ PayloadEnds
    <2>1. /\ UNCHANGED <<table, request, answer, inForce, declared, executionStarted, rowStream>>
          /\ message'.finished = message.finished /\ message'.ignore = message.ignore
      BY <1>1, <1>6 DEF PipeChunk, PayloadEnds, loadVars, streamVars, requestVars, serverVars
    <2>2. QED
      BY <1>1, <2>1 DEF TableInv, Expected
  <1>7. CASE MessageFinishes
    <2>1. /\ UNCHANGED <<table, request, answer, inForce, declared, executionStarted, rowStream>>
          /\ message'.finished /\ message'.ignore = message.ignore /\ ~message.finished
      BY <1>1, <1>7 DEF MessageFinishes, loadVars, streamVars, requestVars, serverVars
    <2>2. table = <<>> /\ (request = "bulk" => answer \notin {"ok", "failed"})
      BY <1>1, <2>1 DEF TableInv
    <2>3. QED
      BY <1>1, <2>1, <2>2 DEF TableInv
  <1>8. ASSUME message'.ignore, message'.finished = message.finished, ~message.finished,
               UNCHANGED <<table, request, answer, inForce, declared, executionStarted>>
        PROVE  TableInv'
    BY <1>1, <1>8 DEF TableInv
  <1>9. CASE PayloadFails
    <2>1. ~message.finished
      BY <1>1, <1>9 DEF PayloadFails, MessageInv
    <2>2. QED
      BY <1>1, <1>8, <1>9, <2>1 DEF PayloadFails, Aborted, loadVars, serverVars
  <1>10. CASE IteratorCloses
    BY <1>2, <1>10 DEF IteratorCloses, RowStreamAfterError, loadVars, requestVars, serverVars
  <1>11. CASE OnInsertAnswered
    <2>1. /\ UNCHANGED <<message, table, inForce, declared, executionStarted>>
          /\ request = "insert" /\ answer' = "none" /\ request' \in {"none", "bulk"}
      BY <1>11 DEF OnInsertAnswered, InsertAnswered, Completes, MakeBulkRequest, loadVars
    <2>2. table = <<>>
      BY <1>1, <2>1 DEF TableInv, RequestInv, MessageInv
    <2>3. QED
      BY <1>1, <2>1, <2>2 DEF TableInv
  <1>12. CASE OnBulkAnswered \/ OnAcknowledged
    <2>1. /\ UNCHANGED <<message, table, inForce, declared, executionStarted>>
          /\ answer' = "none" /\ request' = "none"
      BY <1>12 DEF OnBulkAnswered, OnAcknowledged, Completes, loadVars, messageVars
    <2>2. QED
      BY <1>1, <2>1 DEF TableInv
  <1>13. CASE Cancel \/ CancelRequest \/ RequestTimeout
    <2>1. UNCHANGED <<table, request, answer, inForce, declared, executionStarted, rowStream>>
      BY <1>13 DEF Cancel, CancelRequest, CancelInsert, CancelStreaming, CancelEnded, CancelSent,
                   CancelUnheard, RequestTimeout, loadVars, streamVars, requestVars, serverVars
    <2>2. \/ UNCHANGED message
          \/ message'.ignore /\ message'.finished = message.finished /\ ~message.finished
      BY <1>1, <1>13 DEF Cancel, CancelRequest, CancelInsert, CancelStreaming, CancelEnded,
                         CancelSent, CancelUnheard, RequestTimeout, TimedOut, Aborted,
                         messageVars, MessageInv
    <2>3. QED
      BY <1>2, <1>8, <2>1, <2>2
  <1>14. CASE Server
    <2>1. UNCHANGED <<message, request, declared, executionStarted, rowStream>>
      BY <1>14 DEF Server, loadVars, streamVars, requestVars, messageVars
    <2>2. CASE ServerInserts \/ ServerAcknowledges
      <3>1. UNCHANGED table /\ ~(request' = "bulk" /\ answer' \in {"none", "ok", "failed"})
        BY <2>1, <2>2 DEF ServerInserts, ServerAcknowledges
      <3>2. request # "none" /\ executionStarted
        BY <1>1, <1>14, <2>2 DEF Server, ServerInserts, ServerAcknowledges, RequestInv
      <3>3. inForce' # 0 => inForce' = declared
        BY <1>1, <2>2 DEF ServerInserts, ServerAcknowledges, TableInv
      <3>4. QED
        BY <1>1, <2>1, <3>1, <3>2, <3>3 DEF TableInv
    <2>3. CASE ServerLoads
      <3>1. request = "bulk" /\ message.finished /\ answer = "none" /\ table = <<>>
               /\ inForce' = 0
        BY <1>1, <2>3 DEF ServerLoads, TableInv
      <3>2. CASE Loads /\ answer' = IF message.ignore \/ Loadable THEN "ok" ELSE "failed"
        <4>1. table' = IF ~message.ignore /\ Loadable THEN Expected ELSE table
          BY <3>1, <3>2, LoadsEffect
        <4>2. QED
          BY <2>1, <3>1, <3>2, <4>1 DEF TableInv, Expected
      <3>3. CASE answer' = "failed" /\ UNCHANGED table
        BY <2>1, <3>1, <3>3 DEF TableInv
      <3>4. QED
        BY <2>3, <3>2, <3>3 DEF ServerLoads
    <2>4. QED
      BY <1>14, <2>2, <2>3 DEF Server
  <1>15. CASE ConnectionLost
    <2>1. /\ UNCHANGED message /\ answer' = "none" /\ request' = "none" /\ inForce' = 0
          /\ table' = table \/ (message.finished /\ Loads)
      BY <1>15 DEF ConnectionLost, messageVars
    <2>2. table' = table \/ (message.finished /\ ~message.ignore)
      BY <2>1, LoadsEffect
    <2>3. QED
      BY <1>1, <2>1, <2>2 DEF TableInv
  <1>16. QED
    BY <1>3, <1>4, <1>5, <1>6, <1>7, <1>9, <1>10, <1>11, <1>12, <1>13, <1>14, <1>15
       DEF Next, SourceStep, PayloadStep, AnswerStep

-----------------------------------------------------------------------------
(* Types *)

\* TypeOK in two parts
SequencesTyped ==
    /\ chunks \in Seq(Chunks)
    /\ message \in [data : Seq(Chunks), ended : BOOLEAN, finished : BOOLEAN,
                   ignore : BOOLEAN]
    /\ table \in Seq(Rows)
ScalarsTyped ==
    /\ columns \in 0..MaxColumns /\ declared \in 0..MaxColumns
    /\ executionStarted \in BOOLEAN /\ canceled \in BOOLEAN
    /\ rowStream \in {"none", "open", "ended", "destroyed"} /\ given \in 0..NumRows
    /\ transform \in {"open", "ended", "destroyed"} /\ columnMetadataWritten \in BOOLEAN
    /\ request \in {"none", "insert", "bulk"}
    /\ insertCanceled \in BOOLEAN /\ attention \in BOOLEAN
    /\ payload \in {"none", "piping", "closing", "over"}
    /\ connected \in BOOLEAN /\ error \in Errors
    /\ inForce \in 0..MaxColumns /\ answer \in {"none", "ok", "failed", "acknowledged"}
    /\ calls \in Nat /\ outcome \in Errors \cup {"pending", "ok"} /\ doubt \in BOOLEAN
    /\ insert \in {"none", "streaming", "ending", "sent", "ignored"} /\ timedOut \in BOOLEAN

LEMMA NextScalars ==
  ASSUME IndInv, [Next]_vars
  PROVE  ScalarsTyped'
  <1>1. /\ ScalarsTyped /\ NumRows \in Nat /\ MaxColumns \in Nat
        /\ message.finished \in BOOLEAN /\ message.ignore \in BOOLEAN
        /\ \A isCanceled \in BOOLEAN : Failure(isCanceled) \in Errors
    BY SizeAssumption DEF IndInv, TypeOK, ScalarsTyped, Failure, Errors
  <1>2. CASE AddColumn
    BY <1>1, <1>2 DEF AddColumn, CanAddColumn, ScalarsTyped, Errors, Rows, vars, loadVars,
       streamVars, requestVars, messageVars, serverVars, histVars
  <1>3. CASE \E withRows \in BOOLEAN : ExecBulkLoad(withRows)
    BY <1>1, <1>3 DEF ExecBulkLoad, CallBack, ScalarsTyped, Errors, Rows, vars, loadVars,
       streamVars, requestVars, messageVars, serverVars, histVars
  <1>4. CASE TransformRow
    BY <1>1, <1>4 DEF TransformRow, Takes, ScalarsTyped, Errors, Rows, vars, loadVars,
       streamVars, requestVars, messageVars, serverVars, histVars
  <1>5. CASE InvalidRow
    BY <1>1, <1>5 DEF InvalidRow, Takes, RowStreamAfterError, ScalarsTyped, Errors, Rows,
       vars, loadVars, streamVars, requestVars, messageVars, serverVars, histVars
  <1>6. CASE RowsEnd
    BY <1>1, <1>6 DEF RowsEnd, Takes, ScalarsTyped, Errors, Rows, vars, loadVars,
       streamVars, requestVars, messageVars, serverVars, histVars
  <1>7. CASE RowsFail
    BY <1>1, <1>7 DEF RowsFail, TransformAfterFailure, ScalarsTyped, Errors, Rows, vars,
       loadVars, streamVars, requestVars, messageVars, serverVars, histVars
  <1>8. CASE PipeChunk
    BY <1>1, <1>8 DEF PipeChunk, ScalarsTyped, Errors, Rows, vars, loadVars, streamVars,
       requestVars, messageVars, serverVars, histVars
  <1>9. CASE PayloadEnds \/ MessageFinishes \/ InsertFlows
    BY <1>1, <1>9 DEF PayloadEnds, MessageFinishes, InsertFlows, ScalarsTyped, Errors, Rows, vars, loadVars, streamVars,
       requestVars, messageVars, serverVars, histVars
  <1>10. CASE PayloadFails
    BY <1>1, <1>10 DEF PayloadFails, Aborted, SetError, ScalarsTyped, Errors, Rows, vars,
       loadVars, streamVars, requestVars, messageVars, serverVars, histVars
  <1>11. CASE IteratorCloses
    BY <1>1, <1>11 DEF IteratorCloses, RowStreamAfterError, SetError, ScalarsTyped, Errors,
       Rows, vars, loadVars, streamVars, requestVars, messageVars, serverVars, histVars
  <1>12. CASE OnInsertAnswered
    <2> DEFINE failure == Failure(insertCanceled)
    <2>1. /\ request' \in {"none", "bulk"} /\ attention' \in {FALSE, attention}
          /\ payload' \in {"piping", payload} /\ error' = "none" /\ answer' = "none"
          /\ calls' \in {calls, calls + 1} /\ outcome' \in {outcome, failure, "ECANCEL"}
      BY <1>12 DEF OnInsertAnswered, InsertAnswered, Completes, CallBack, MakeBulkRequest
    <2>2. UNCHANGED <<loadVars, streamVars, insertCanceled, connected, insert, inForce, doubt,
                      timedOut>>
      BY <1>12 DEF OnInsertAnswered
    <2>3. failure \in Errors
      BY <1>1 DEF ScalarsTyped
    <2> HIDE DEF failure
    <2>4. calls' \in Nat /\ error' \in Errors /\ outcome' \in Errors \cup {"pending", "ok"}
      BY <1>1, <2>1, <2>3 DEF ScalarsTyped, Errors
    <2>5. /\ request' \in {"none", "insert", "bulk"} /\ attention' \in BOOLEAN
          /\ payload' \in {"none", "piping", "closing", "over"}
          /\ answer' \in {"none", "ok", "failed", "acknowledged"}
      BY <1>1, <2>1 DEF ScalarsTyped
    <2>6. QED
      BY <1>1, <2>2, <2>4, <2>5 DEF ScalarsTyped, loadVars, streamVars
  <1>13. CASE OnBulkAnswered
    <2> DEFINE failure == Failure(canceled)
    <2>1. /\ request' = "none" /\ attention' = FALSE /\ error' = "none" /\ answer' = "none"
          /\ calls' = calls + 1 /\ outcome' \in {failure, "ok"}
      BY <1>13 DEF OnBulkAnswered, Completes, CallBack
    <2>2. UNCHANGED <<loadVars, streamVars, insertCanceled, connected, insert, payload, inForce,
                      doubt, timedOut>>
      BY <1>13 DEF OnBulkAnswered, messageVars
    <2>3. failure \in Errors
      BY <1>1 DEF ScalarsTyped
    <2> HIDE DEF failure
    <2>4. calls' \in Nat /\ error' \in Errors /\ outcome' \in Errors \cup {"pending", "ok"}
      BY <1>1, <2>1, <2>3 DEF ScalarsTyped, Errors
    <2>5. /\ request' \in {"none", "insert", "bulk"} /\ attention' \in BOOLEAN
          /\ answer' \in {"none", "ok", "failed", "acknowledged"}
      BY <2>1
    <2>6. QED
      BY <1>1, <2>2, <2>4, <2>5 DEF ScalarsTyped, loadVars, streamVars
  <1>14. CASE OnAcknowledged
    <2>1. /\ request' = "none" /\ attention' = FALSE /\ error' = "none" /\ answer' = "none"
          /\ calls' = calls + 1 /\ outcome' \in {"ETIMEOUT", "ECANCEL"} /\ doubt' \in BOOLEAN
      BY <1>14 DEF OnAcknowledged, Completes, CallBack
    <2>2. UNCHANGED <<loadVars, streamVars, insertCanceled, connected, insert, payload, inForce,
                      timedOut>>
      BY <1>14 DEF OnAcknowledged, messageVars
    <2>3. calls' \in Nat /\ error' \in Errors /\ outcome' \in Errors \cup {"pending", "ok"}
      BY <1>1, <2>1 DEF ScalarsTyped, Errors
    <2>4. /\ request' \in {"none", "insert", "bulk"} /\ attention' \in BOOLEAN
          /\ answer' \in {"none", "ok", "failed", "acknowledged"} /\ doubt' \in BOOLEAN
      BY <2>1
    <2>5. QED
      BY <1>1, <2>2, <2>3, <2>4 DEF ScalarsTyped, loadVars, streamVars
  <1>15. CASE Cancel \/ CancelRequest
    <2>1. CancelInsert \/ CancelStreaming \/ CancelEnded \/ CancelSent \/ CancelUnheard
      BY <1>15 DEF Cancel, CancelRequest
    <2>2. /\ insertCanceled' \in {insertCanceled, TRUE} /\ attention' \in {attention, TRUE, FALSE}
          /\ payload' \in {payload, "closing"} /\ insert' \in {insert, "ignored"}
      BY <1>1, <2>1 DEF CancelInsert, CancelStreaming, CancelEnded, CancelSent, CancelUnheard,
                        requestVars, messageVars
    <2>3. error' \in {error, "ECANCEL"}
      BY <2>1 DEF CancelInsert, CancelStreaming, CancelEnded, CancelSent, CancelUnheard, SetError,
                  requestVars
    <2>4. error' \in Errors
      BY <1>1, <2>3 DEF ScalarsTyped, Errors
    <2>5. /\ insertCanceled' \in BOOLEAN /\ attention' \in BOOLEAN
          /\ payload' \in {"none", "piping", "closing", "over"}
          /\ insert' \in {"none", "streaming", "ending", "sent", "ignored"}
      BY <1>1, <2>2 DEF ScalarsTyped
    <2>6. canceled' \in {canceled, TRUE}
      BY <1>15 DEF Cancel, CancelRequest, loadVars
    <2>7. UNCHANGED <<columns, executionStarted, declared, inForce, answer, calls, outcome, doubt,
                      timedOut>>
      BY <1>15 DEF Cancel, CancelRequest, loadVars, serverVars, histVars
    <2>8. UNCHANGED <<streamVars, request, connected>>
      BY <2>1 DEF CancelInsert, CancelStreaming, CancelEnded, CancelSent, CancelUnheard, requestVars
    <2>9. canceled' \in BOOLEAN
      BY <1>1, <2>6 DEF ScalarsTyped
    <2>10. QED
      BY <1>1, <2>4, <2>5, <2>7, <2>8, <2>9 DEF ScalarsTyped, streamVars
  <1>16. CASE RequestTimeout
    <2>1. /\ insertCanceled' = (insertCanceled \/ request = "insert")
          /\ canceled' = (canceled \/ request = "bulk")
          /\ attention' = (attention \/ (IF request = "insert"
                                         THEN ~insertCanceled /\ insert = "sent"
                                         ELSE ~canceled /\ message.finished))
          /\ payload' \in {payload, "closing"} /\ insert' \in {insert, "ignored"}
          /\ error' = "ETIMEOUT" /\ timedOut' = TRUE
      BY <1>16 DEF RequestTimeout, TimedOut
    <2>2. /\ insertCanceled' \in BOOLEAN /\ canceled' \in BOOLEAN /\ attention' \in BOOLEAN
          /\ payload' \in {"none", "piping", "closing", "over"}
          /\ insert' \in {"none", "streaming", "ending", "sent", "ignored"}
          /\ error' \in Errors /\ timedOut' \in BOOLEAN
      BY <1>1, <2>1 DEF ScalarsTyped, Errors
    <2>3. UNCHANGED <<columns, executionStarted, declared, streamVars, request, connected, inForce,
                      answer, calls, outcome, doubt>>
      BY <1>16 DEF RequestTimeout, serverVars
    <2>4. QED
      BY <1>1, <2>2, <2>3 DEF ScalarsTyped, streamVars
  <1>17. CASE Server
    BY <1>1, <1>17 DEF Server, ServerInserts, ServerLoads, ServerAcknowledges, ScalarsTyped,
       Errors, Rows, vars, loadVars, streamVars, requestVars, messageVars, serverVars,
       histVars
  <1>18. CASE ConnectionLost
    <2>1. /\ calls' \in {calls, calls + 1} /\ outcome' \in {outcome, "ESOCKET"}
          /\ doubt' \in {doubt, message.finished}
      BY <1>18 DEF ConnectionLost, CallBack
    <2>2. UNCHANGED <<loadVars, streamVars, insertCanceled, attention, error, insert, payload,
                      timedOut>>
      BY <1>18 DEF ConnectionLost, messageVars
    <2>3. calls' \in Nat /\ outcome' \in Errors \cup {"pending", "ok"} /\ doubt' \in BOOLEAN
      BY <1>1, <2>1 DEF ScalarsTyped, Errors
    <2>4. /\ request' \in {"none", "insert", "bulk"} /\ connected' \in BOOLEAN
          /\ inForce' \in 0..MaxColumns /\ answer' \in {"none", "ok", "failed", "acknowledged"}
      <3>1. /\ request' \in {"none", request} /\ connected' = FALSE
            /\ inForce' = 0 /\ answer' = "none"
        BY <1>18 DEF ConnectionLost
      <3>2. 0 \in 0..MaxColumns
        BY <1>1
      <3>3. QED
        BY <1>1, <3>1, <3>2 DEF ScalarsTyped
    <2>5. QED
      BY <1>1, <2>2, <2>3, <2>4 DEF ScalarsTyped, loadVars, streamVars
  <1>19. CASE UNCHANGED vars
    BY <1>1, <1>19 DEF ScalarsTyped, Errors, Rows, vars, loadVars, streamVars, requestVars,
       messageVars, serverVars, histVars
  <1>20. QED
    BY <1>2, <1>3, <1>4, <1>5, <1>6, <1>7, <1>8, <1>9, <1>10, <1>11, <1>12, <1>13, <1>14,
       <1>15, <1>16, <1>17, <1>18, <1>19 DEF Next, SourceStep, PayloadStep, AnswerStep


LEMMA NextSequences ==
  ASSUME IndInv, [Next]_vars
  PROVE  SequencesTyped'
  <1>1. /\ SequencesTyped /\ given \in Nat /\ columns \in 0..MaxColumns /\ Done \in Chunks
        /\ message.data \in Seq(Chunks) /\ <<>> \in Seq(Chunks) /\ <<Done>> \in Seq(Chunks)
    BY SizeAssumption DEF IndInv, TypeOK, SequencesTyped, Chunks
  <1>2. ASSUME UNCHANGED <<chunks, message, table>>
        PROVE  SequencesTyped'
    BY <1>1, <1>2 DEF SequencesTyped
  <1>3. ASSUME chunks' \in Seq(Chunks), UNCHANGED <<message, table>>
        PROVE  SequencesTyped'
    BY <1>1, <1>3 DEF SequencesTyped
  <1>4. ASSUME message' = Aborted(message), UNCHANGED <<chunks, table>>
        PROVE  SequencesTyped'
    <2>1. message' \in [data : Seq(Chunks), ended : BOOLEAN, finished : BOOLEAN,
                   ignore : BOOLEAN]
      BY <1>1, <1>4 DEF Aborted, SequencesTyped
    <2>2. QED
      BY <1>1, <1>4, <2>1 DEF SequencesTyped
  <1>5. CASE \/ AddColumn \/ InsertFlows \/ OnInsertAnswered \/ OnBulkAnswered \/ OnAcknowledged
             \/ UNCHANGED vars
    BY <1>2, <1>5 DEF AddColumn, InsertFlows, OnInsertAnswered, OnBulkAnswered, OnAcknowledged, Completes,
                      vars, streamVars, messageVars, serverVars
  <1>6. ASSUME NEW withRows \in BOOLEAN, ExecBulkLoad(withRows)
        PROVE  SequencesTyped'
    <2>1. chunks' \in {chunks, <<Done>>} /\ UNCHANGED <<message, table>>
      BY <1>6 DEF ExecBulkLoad, messageVars, serverVars
    <2>2. QED
      BY <1>1, <1>3, <2>1 DEF SequencesTyped
  <1>7. CASE TransformRow
    <2>1. /\ given + 1 \in Rows /\ chunks' = chunks \o Header \o <<RowOf(given + 1)>>
          /\ UNCHANGED <<message, table>>
      BY <1>7 DEF TransformRow, messageVars, serverVars
    <2>2. Takes
      BY <1>7 DEF TransformRow
    <2>3. RowOf(given + 1) \in Chunks /\ Header \in Seq(Chunks)
      BY <2>1, <2>2, RowTyped
    <2>4. <<RowOf(given + 1)>> \in Seq(Chunks)
      BY <2>3
    <2>5. chunks \o Header \in Seq(Chunks)
      BY <1>1, <2>3, ConcatProperties DEF SequencesTyped
    <2>6. (chunks \o Header) \o <<RowOf(given + 1)>> \in Seq(Chunks)
      BY <2>4, <2>5, ConcatProperties
    <2>7. QED
      BY <1>3, <2>1, <2>6
  <1>8. CASE InvalidRow \/ RowsEnd \/ RowsFail
    <2>1. chunks' \in {<<>>, Append(chunks, Done)} /\ UNCHANGED <<message, table>>
      BY <1>8 DEF InvalidRow, RowsEnd, RowsFail, messageVars, serverVars
    <2>2. Append(chunks, Done) \in Seq(Chunks)
      BY <1>1, AppendProperties DEF SequencesTyped
    <2>3. QED
      BY <1>1, <1>3, <2>1, <2>2
  <1>9. CASE PipeChunk
    <2>1. /\ chunks # <<>> /\ chunks' = Tail(chunks) /\ UNCHANGED table
          /\ message' = [message EXCEPT !.data = Append(@, Head(chunks))]
      BY <1>9 DEF PipeChunk, serverVars
    <2>2. Head(chunks) \in Chunks /\ Tail(chunks) \in Seq(Chunks)
      BY <1>1, <2>1, HeadTailProperties DEF SequencesTyped
    <2>3. Append(message.data, Head(chunks)) \in Seq(Chunks)
      BY <1>1, <2>2, AppendProperties
    <2>4. message' \in [data : Seq(Chunks), ended : BOOLEAN, finished : BOOLEAN,
                   ignore : BOOLEAN]
      BY <1>1, <2>1, <2>3 DEF SequencesTyped
    <2>5. QED
      BY <1>1, <2>1, <2>2, <2>4 DEF SequencesTyped
  <1>10. CASE PayloadEnds \/ MessageFinishes
    <2>1. /\ UNCHANGED <<chunks, table>>
          /\ \/ message' = [message EXCEPT !.ended = TRUE]
             \/ message' = [message EXCEPT !.finished = TRUE]
      BY <1>10 DEF PayloadEnds, MessageFinishes, streamVars, serverVars
    <2>2. message' \in [data : Seq(Chunks), ended : BOOLEAN, finished : BOOLEAN,
                   ignore : BOOLEAN]
      BY <1>1, <2>1 DEF SequencesTyped
    <2>3. QED
      BY <1>1, <2>1, <2>2 DEF SequencesTyped
  <1>11. CASE PayloadFails
    BY <1>4, <1>11 DEF PayloadFails, streamVars, serverVars
  <1>12. CASE IteratorCloses
    <2>1. chunks' \in {chunks, <<>>} /\ UNCHANGED <<message, table>>
      BY <1>12 DEF IteratorCloses, serverVars
    <2>2. QED
      BY <1>1, <1>3, <2>1 DEF SequencesTyped
  <1>13. CASE Cancel \/ CancelRequest \/ RequestTimeout
    <2>1. UNCHANGED <<chunks, table>>
      BY <1>13 DEF Cancel, CancelRequest, CancelInsert, CancelStreaming, CancelEnded, CancelSent,
                   CancelUnheard, RequestTimeout, serverVars, streamVars
    <2>2. \/ UNCHANGED message \/ message' = Aborted(message)
          \/ message' = [message EXCEPT !.ignore = TRUE]
      BY <1>13 DEF Cancel, CancelRequest, CancelInsert, CancelStreaming, CancelEnded, CancelSent,
                   CancelUnheard, RequestTimeout, TimedOut, messageVars
    <2>3. [message EXCEPT !.ignore = TRUE]
             \in [data : Seq(Chunks), ended : BOOLEAN, finished : BOOLEAN, ignore : BOOLEAN]
      BY <1>1 DEF SequencesTyped
    <2>4. QED
      BY <1>1, <1>2, <1>4, <2>1, <2>2, <2>3 DEF SequencesTyped
  <1>14. ASSUME UNCHANGED <<chunks, message>>,
                UNCHANGED table \/ (Loads /\ message.finished)
         PROVE  SequencesTyped'
    <2>1. AllRows \in Seq(Rows) /\ <<>> \in Seq(Rows)
      BY SizeAssumption DEF AllRows, Rows
    <2>2. Expected \in Seq(Rows)
      BY <2>1 DEF Expected
    <2>3. UNCHANGED table \/ table' = Expected
      BY <1>14, LoadsEffect
    <2>4. QED
      BY <1>1, <1>14, <2>2, <2>3 DEF SequencesTyped
  <1>15. CASE Server
    BY <1>14, <1>15 DEF Server, ServerInserts, ServerLoads, ServerAcknowledges, streamVars, messageVars
  <1>16. CASE ConnectionLost
    BY <1>14, <1>16 DEF ConnectionLost, streamVars, messageVars
  <1>17. QED
    BY <1>5, <1>6, <1>7, <1>8, <1>9, <1>10, <1>11, <1>12, <1>13, <1>15, <1>16
       DEF Next, SourceStep, PayloadStep, AnswerStep

LEMMA NextTyped ==
  ASSUME IndInv, [Next]_vars
  PROVE  TypeOK'
BY NextScalars, NextSequences DEF TypeOK, ScalarsTyped, SequencesTyped

LEMMA InitIndInv ==
  ASSUME Init
  PROVE  IndInv
  <1>1. TypeOK
    <2>1. ScalarsTyped
      <3>1. 0 \in 0..MaxColumns /\ 0 \in 0..NumRows /\ 0 \in Nat
        BY SizeAssumption
      <3>2. "none" \in Errors /\ "pending" \in Errors \cup {"pending", "ok"}
        BY DEF Errors
      <3>3. QED
        BY <3>1, <3>2 DEF Init, ScalarsTyped
    <2>2. SequencesTyped
      BY DEF Init, SequencesTyped
    <2>3. QED
      BY <2>1, <2>2 DEF TypeOK, ScalarsTyped, SequencesTyped
  <1>2. StartInv /\ RequestInv /\ MessageInv /\ TableInv
    BY DEF Init, StartInv, RequestInv, MessageInv, TableInv
  <1>3. ContentInv
    <2>1. <<>> \o <<>> = <<>> /\ Len(<<>>) = 0
      OBVIOUS
    <2>2. Holds(<<>>, 0, FALSE)
      BY <2>1 DEF Holds, Length
    <2>3. /\ message.data = <<>> /\ chunks = <<>> /\ given = 0 /\ (transform = "ended") = FALSE
      BY DEF Init
    <2>4. QED
      BY <2>1, <2>2, <2>3, Zenon DEF ContentInv
  <1>4. QED
    BY <1>1, <1>2, <1>3 DEF IndInv

LEMMA NextIndInv ==
  ASSUME IndInv, [Next]_vars
  PROVE  IndInv'
BY NextTyped, NextStart, NextRequest, NextMessage, NextContent, NextTable DEF IndInv

-----------------------------------------------------------------------------
(* The outcome *)

\* What the callback was told of the table; no request is under way then that could
\* change it.
OutcomeInv ==
    /\ outcome = "ok" =>
          \/ table = Expected
          \/ canceled /\ message.ignore /\ table = <<>>
    /\ outcome \notin {"ok", "pending"} /\ ~doubt => table = <<>>
    /\ timedOut =>
          \/ outcome = "pending" /\ request # "none" /\ error = "ETIMEOUT"
          \/ outcome \notin {"ok", "pending"}

LEMMA NextOutcome ==
  ASSUME IndInv, OutcomeInv, [Next]_vars
  PROVE  OutcomeInv'
  <1>1. /\ StartInv /\ RequestInv /\ MessageInv /\ TableInv
        /\ message \in [data : Seq(Chunks), ended : BOOLEAN, finished : BOOLEAN,
                        ignore : BOOLEAN]
        /\ request \in {"none", "insert", "bulk"} /\ error \in Errors
    BY DEF IndInv, TypeOK
  <1>2. ASSUME UNCHANGED <<outcome, doubt, table, request>>,
               UNCHANGED <<canceled, timedOut, error>>, message'.ignore = message.ignore,
               rowStream' = rowStream \/ (rowStream # "none" /\ rowStream' # "none")
                                      \/ outcome = "pending"
        PROVE  OutcomeInv'
    BY <1>2 DEF OutcomeInv, Expected
  <1>3. CASE AddColumn \/ UNCHANGED vars
    BY <1>2, <1>3 DEF AddColumn, vars, loadVars, streamVars, requestVars, messageVars, serverVars,
                      histVars
  <1>4. ASSUME NEW withRows \in BOOLEAN, ExecBulkLoad(withRows)
        PROVE  OutcomeInv'
    <2>1. /\ outcome = "pending" /\ request = "none"
          /\ outcome' \in {"pending", "EINVALIDSTATE"}
          /\ payload = "none" /\ UNCHANGED <<table, timedOut>>
      BY <1>1, <1>4 DEF ExecBulkLoad, CallBack, StartInv, serverVars
    <2>2. table = <<>> /\ ~timedOut
      BY <1>1, <2>1 DEF MessageInv, TableInv, OutcomeInv
    <2>3. QED
      BY <2>1, <2>2 DEF OutcomeInv
  <1>5. CASE TransformRow \/ InvalidRow \/ RowsEnd \/ RowsFail
    BY <1>2, <1>5 DEF TransformRow, InvalidRow, RowsEnd, RowsFail, Takes, RowStreamAfterError,
                      loadVars, requestVars, messageVars, serverVars, histVars
  <1>6. CASE PipeChunk \/ PayloadEnds \/ MessageFinishes \/ InsertFlows
    <2>1. message'.ignore = message.ignore
      BY <1>1, <1>6 DEF PipeChunk, PayloadEnds, MessageFinishes, InsertFlows
    <2>2. UNCHANGED <<outcome, doubt, table, request, canceled, rowStream, timedOut, error>>
      BY <1>6 DEF PipeChunk, PayloadEnds, MessageFinishes, InsertFlows, loadVars, streamVars,
                  requestVars, serverVars, histVars
    <2>3. QED
      BY <1>2, <2>1, <2>2
  <1>7. CASE OnInsertAnswered
    <2>1. /\ UNCHANGED <<doubt, table, timedOut>> /\ request = "insert"
          /\ \/ outcome' \in {Failure(insertCanceled), "ECANCEL"}
                /\ (Failure(insertCanceled) = "none" => outcome' = "ECANCEL")
             \/ Failure(insertCanceled) = "none" /\ outcome' = outcome
      BY <1>7 DEF OnInsertAnswered, InsertAnswered, Completes, CallBack, MakeBulkRequest
    <2>2. table = <<>> /\ outcome = "pending"
      BY <1>1, <2>1 DEF RequestInv, MessageInv, TableInv
    <2>3. timedOut => Failure(insertCanceled) = "ETIMEOUT"
      BY <2>2 DEF OutcomeInv, Failure
    <2>4. Failure(insertCanceled) \notin {"ok", "pending"}
      BY <1>1 DEF Failure, Errors
    <2>5. QED
      BY <2>1, <2>2, <2>3, <2>4 DEF OutcomeInv
  <1>8. CASE OnBulkAnswered
    <2>1. /\ UNCHANGED <<doubt, table, rowStream, message, canceled, timedOut>>
          /\ request = "bulk" /\ ~attention /\ answer \in {"ok", "failed"}
          /\ outcome' = IF Failure(canceled) = "none" THEN "ok" ELSE Failure(canceled)
      BY <1>8 DEF OnBulkAnswered, Completes, CallBack, loadVars, streamVars, messageVars
    <2>2. /\ timedOut => error = "ETIMEOUT"
          /\ error # "none" \/ canceled => message.ignore
          /\ message.ignore => table = <<>>
          /\ answer = "failed" => table = <<>>
          /\ answer = "ok" /\ ~message.ignore => table = Expected
          /\ message.ignore => error # "none" \/ canceled
      BY <1>1, <2>1 DEF OutcomeInv, RequestInv, MessageInv, TableInv
    <2>3. CASE Failure(canceled) = "none"
      <3>1. error = "none" /\ (answer = "failed" => canceled) /\ outcome' = "ok"
        BY <2>1, <2>3 DEF Failure
      <3>2. table = Expected \/ (canceled /\ message.ignore /\ table = <<>>)
        BY <2>1, <2>2, <3>1
      <3>3. QED
        BY <2>1, <2>2, <3>1, <3>2 DEF OutcomeInv, Expected
    <2>4. CASE Failure(canceled) # "none"
      <3>1. outcome' \notin {"ok", "pending"}
        BY <1>1, <2>1, <2>4 DEF Failure, Errors
      <3>2. error # "none" \/ answer = "failed"
        BY <2>4 DEF Failure
      <3>3. QED
        BY <2>1, <2>2, <3>1, <3>2 DEF OutcomeInv
    <2>5. QED
      BY <2>3, <2>4
  <1>9. CASE OnAcknowledged
    <2>1. /\ UNCHANGED table /\ request # "none" /\ outcome' \in {"ETIMEOUT", "ECANCEL"}
          /\ doubt' = (request = "bulk" /\ ~message.ignore)
      BY <1>9 DEF OnAcknowledged, Completes, CallBack
    <2>2. ~doubt' => table = <<>>
      <3>1. request = "insert" => ~message.finished
        BY <1>1 DEF RequestInv, MessageInv
      <3>2. QED
        BY <1>1, <2>1, <3>1 DEF TableInv
    <2>3. QED
      BY <2>1, <2>2 DEF OutcomeInv
  <1>10. CASE Cancel \/ CancelRequest
    <2>1. CancelInsert \/ CancelStreaming \/ CancelEnded \/ CancelSent \/ CancelUnheard
      BY <1>10 DEF Cancel, CancelRequest
    <2>2. /\ UNCHANGED <<outcome, doubt, table, timedOut>> /\ canceled' \in {canceled, TRUE}
      BY <1>10 DEF Cancel, CancelRequest, loadVars, serverVars, histVars
    <2>3. UNCHANGED <<request, rowStream>> /\ (error # "none" => error' = error)
      BY <2>1 DEF CancelInsert, CancelStreaming, CancelEnded, CancelSent, CancelUnheard, SetError,
                  streamVars, requestVars
    <2>4. UNCHANGED message \/ outcome = "pending"
      BY <1>1, <2>1 DEF CancelInsert, CancelStreaming, CancelEnded, CancelSent, CancelUnheard,
                        messageVars, RequestInv
    <2>5. QED
      BY <1>1, <2>2, <2>3, <2>4 DEF OutcomeInv, Expected
  <1>11. CASE RequestTimeout
    <2>1. /\ request # "none" /\ error' = "ETIMEOUT" /\ UNCHANGED <<outcome, request>>
      BY <1>11 DEF RequestTimeout
    <2>2. outcome = "pending"
      BY <1>1, <2>1 DEF RequestInv
    <2>3. QED
      BY <2>1, <2>2 DEF OutcomeInv
  <1>12. CASE PayloadFails \/ IteratorCloses
    <2>1. /\ UNCHANGED <<outcome, doubt, table, request, canceled, timedOut>>
          /\ rowStream' = rowStream \/ (rowStream # "none" /\ rowStream' # "none")
          /\ error # "none" => error' = error
      BY <1>12 DEF PayloadFails, IteratorCloses, SetError, RowStreamAfterError, loadVars, streamVars,
                   serverVars, histVars
    <2>2. message'.ignore = message.ignore \/ (table = <<>> /\ message'.ignore)
      <3>1. PayloadFails => ~message.finished
        BY <1>1 DEF PayloadFails, MessageInv
      <3>2. QED
        BY <1>1, <1>12, <3>1 DEF PayloadFails, IteratorCloses, Aborted, TableInv
    <2>3. QED
      BY <2>1, <2>2 DEF OutcomeInv, Expected
  <1>13. CASE Server
    <2>1. UNCHANGED <<outcome, doubt, rowStream, canceled, message, request, error, timedOut>>
      BY <1>13 DEF Server, loadVars, streamVars, requestVars, messageVars, histVars
    <2>2. UNCHANGED table \/ request = "bulk"
      BY <1>13 DEF Server, ServerInserts, ServerLoads, ServerAcknowledges
    <2>3. QED
      BY <1>1, <1>2, <2>1, <2>2 DEF RequestInv, OutcomeInv
  <1>14. CASE ConnectionLost
    <2>1. /\ UNCHANGED <<rowStream, canceled, message, error, timedOut>>
          /\ UNCHANGED table \/ (request = "bulk" /\ message.finished)
      BY <1>14 DEF ConnectionLost, loadVars, streamVars, messageVars
    <2>2. CASE request = "none"
      <3>1. UNCHANGED <<outcome, doubt, table, request>>
        BY <1>14, <2>2 DEF ConnectionLost
      <3>2. QED
        BY <1>2, <2>1, <3>1
    <2>3. CASE request # "none"
      <3>1. outcome' = "ESOCKET" /\ doubt' = message.finished
        BY <1>14, <2>3 DEF ConnectionLost, CallBack
      <3>2. ~message.finished => table' = <<>>
        BY <1>1, <2>1 DEF TableInv
      <3>3. QED
        BY <3>1, <3>2 DEF OutcomeInv
    <2>4. QED
      BY <2>2, <2>3
  <1>15. QED
    BY <1>3, <1>4, <1>5, <1>6, <1>7, <1>8, <1>9, <1>10, <1>11, <1>12, <1>13, <1>14
       DEF Next, SourceStep, PayloadStep, AnswerStep

LEMMA Invariant == Spec => [](IndInv /\ OutcomeInv)
  <1>1. Init => IndInv /\ OutcomeInv
    BY InitIndInv DEF Init, OutcomeInv
  <1>2. IndInv /\ OutcomeInv /\ [Next]_vars => (IndInv /\ OutcomeInv)'
    BY NextIndInv, NextOutcome
  <1>3. QED
    BY <1>1, <1>2, PTL DEF Spec

-----------------------------------------------------------------------------
(* Theorems *)

\* Every variable of a bulk load has its type: what is written to the wire are the
\* metadata, rows of at least one value, and the DONE token, and the table only ever
\* holds rows of the program.
THEOREM TypeCorrect == Spec => []TypeOK
  <1>1. IndInv => TypeOK
    BY DEF IndInv
  <1>2. QED
    BY <1>1, Invariant, PTL

\* A bulk load that is reported as done has inserted the program's rows, unless the
\* program canceled it before its message was finished: then it may be told that it is
\* done, and nothing is inserted.  One that is reported as failed has inserted none
\* unless the server had all of it, and a timeout is never reported as done
\* (Connection.execBulkLoad, makeRequest, requestTimeout and RowTransform).
THEOREM ToldWhatIsInTheTable == Spec => []OutcomeIsTheTable
  <1>1. IndInv /\ OutcomeInv => OutcomeIsTheTable
    BY MessageWhole DEF OutcomeInv, OutcomeIsTheTable, Expected
  <1>2. QED
    BY <1>1, Invariant, PTL

\* The callback of a bulk load is not called twice, and while a request of it is under
\* way it was not called at all, though a cancel, a timer, a failing row stream, the
\* server and the network may each end it (the guards of BulkLoad.cancel and of the
\* INSERT BULK request's callback).
CalledOnce == calls <= 1 /\ (request # "none" => calls = 0)

THEOREM CalledBackOnce == Spec => []CalledOnce
  <1>1. IndInv => CalledOnce
    BY DEF IndInv, RequestInv, CalledOnce
  <1>2. QED
    BY <1>1, Invariant, PTL

=============================================================================

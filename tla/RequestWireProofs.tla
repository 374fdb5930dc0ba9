-------------------------- MODULE RequestWireProofs --------------------------
(***************************************************************************)
(* What is proved of the messages that a connection and its server         *)
(* exchange for a request: that nothing of a request is left when the      *)
(* next one may be made, that a request is answered by its own response,   *)
(* that an attention is honoured, that an ERROR token is not lost and that *)
(* the reset flag travels with the request reset() makes.  All but the     *)
(* last need a cancelTimeout: without one, the response can be read for    *)
(* the acknowledgement of the attention (see UntimedCancelDesync.cfg).     *)
(***************************************************************************)
EXTENDS RequestExecutionProofs

-----------------------------------------------------------------------------
(* The execution in progress, and its Request *)

Attended == exec[request].attention
Ignored  == exec[request].ignored
Failed   == exec[request].failed
Canceled == req[CurrentRequest].canceled
On       == req[CurrentRequest].on
Error    == req[CurrentRequest].error

OthersSilent == \A x \in Requests : x # CurrentRequest => req[x].on = {}

-----------------------------------------------------------------------------
(* What is under way between the connection and the server *)

Attention       == [type |-> "attention", exec |-> request, reset |-> FALSE]
Acknowledgement == [type |-> "ack", exec |-> request, failed |-> FALSE, eom |-> TRUE]
RequestMessages == {m \in ClientMessage : m.type = "request" /\ m.exec = request}
Responses(eom)  == {m \in ServerMessage : m.type = "response" /\ m.exec = request
                                          /\ m.eom = eom}

NothingUnderWay == toServer = <<>> /\ serving = NoExec /\ incoming = <<>>
AttentionLast   == toServer = IF Attended THEN <<Attention>> ELSE <<>>

\* From the request to the end of its response
Underway  == /\ serving = NoExec /\ incoming = <<>>
             /\ \E m \in RequestMessages :
                   toServer = IF Attended THEN <<m, Attention>> ELSE <<m>>
Served    == serving = request /\ AttentionLast /\ incoming = <<>>
Answering == /\ serving = request /\ AttentionLast
             /\ \E m \in Responses(FALSE) : incoming = <<m>>
Answered  == /\ serving = NoExec /\ AttentionLast
             /\ \E m \in Responses(TRUE) : incoming = <<m>>

\* With an attention: the acknowledgement is behind the response.
AnsweredTwice == /\ serving = NoExec /\ toServer = <<>>
                 /\ \E m \in Responses(TRUE) : incoming = <<m, Acknowledgement>>
OnlyAttention == serving = NoExec /\ toServer = <<Attention>> /\ incoming = <<>>
OnlyAck       == serving = NoExec /\ toServer = <<>> /\ incoming = <<Acknowledgement>>

-----------------------------------------------------------------------------
(* The phases of a request on a connection that is up *)

\* No request is in progress.
Quiet ==
    /\ state = "LoggedIn" /\ request = NoExec /\ out = NoMessage
    /\ reader = "none" /\ parser = NoParser /\ NothingUnderWay
    /\ ~requestTimer /\ ~cancelTimer
    /\ \A r \in Requests : req[r].on = {}

\* Its message is being written; a cancel aborts the message.
Sending ==
    /\ state = "SentClientRequest" /\ reader = "SentClientRequest" /\ parser = NoParser
    /\ out.phase # "none" /\ out.exec = request /\ NothingUnderWay
    /\ ~Attended /\ ~Failed /\ ~cancelTimer
    /\ On = IF Canceled THEN {} ELSE {"onCancelUnsent"}
    /\ Canceled => out.ignore

\* The message has been sent: what holds in all of the phases that follow.
AfterSending ==
    /\ out = NoMessage
    /\ cancelTimer <=> Attended
    /\ Canceled => Attended \/ Ignored

\* Nothing of the response has been read; a cancel sends an attention.
Awaiting ==
    /\ state = "SentClientRequest" /\ reader = "SentClientRequest" /\ parser = NoParser
    /\ Underway \/ Served \/ Answering
    /\ On \subseteq {"cancelAfterRequestSent"}
    /\ ~Canceled => "cancelAfterRequestSent" \in On
    /\ Attended => Canceled /\ On = {}

\* The response is parsed; a cancel detaches the parser.
Parsing ==
    /\ state = "SentClientRequest" /\ reader = "none"
    /\ parser.by = "request" /\ parser.onEnd /\ parser.exec = request
    /\ ~Attended /\ (Answering \/ Answered)
    /\ On \subseteq {"cancelAfterRequestSent", "onCancelStreaming", "onPause", "onResume"}
    /\ ~Canceled => "cancelAfterRequestSent" \in On /\ "onCancelStreaming" \in On
    /\ parser.paused => "onResume" \in On

\* An attention is out, and the response is drained.
Draining ==
    /\ state = "SentAttention" /\ reader = "SentAttention"
    /\ parser.by = "request" /\ ~parser.onEnd /\ parser.exec = request /\ ~parser.paused
    /\ Attended /\ Canceled /\ On = {}
    /\ Answering \/ Answered \/ AnsweredTwice

\* The response is over, and the acknowledgement is waited for.
AwaitingAck ==
    /\ state = "SentAttention" /\ reader = "SentAttention" /\ parser = NoParser
    /\ Attended /\ Canceled /\ On = {}
    /\ OnlyAttention \/ OnlyAck

ReadingAck ==
    /\ state = "SentAttention" /\ reader = "none"
    /\ parser.by = "attention" /\ ~parser.paused
    /\ Attended /\ Canceled /\ On = {}
    /\ OnlyAck

InProgress ==
    /\ request # NoExec /\ OthersSilent
    /\ \/ Sending
       \/ /\ AfterSending
          /\ Awaiting \/ Parsing \/ Draining \/ AwaitingAck \/ ReadingAck

\* On a connection that is up, a request is in one of the phases.
Phases == ~closed => Running /\ (Quiet \/ InProgress)

-----------------------------------------------------------------------------
(* Sequences of one and of two messages *)

LEMMA OneMessage ==
  ASSUME NEW a
  PROVE  /\ <<a>> # <<>> /\ Len(<<a>>) = 1 /\ <<a>>[1] = a
         /\ Head(<<a>>) = a /\ Tail(<<a>>) = <<>>
         /\ Append(<<>>, a) = <<a>>
  OBVIOUS

LEMMA TwoMessages ==
  ASSUME NEW a, NEW b
  PROVE  /\ <<a, b>> # <<>> /\ Len(<<a, b>>) = 2 /\ <<a, b>>[1] = a /\ <<a, b>>[2] = b
         /\ Head(<<a, b>>) = a /\ Tail(<<a, b>>) = <<b>>
         /\ Append(<<a>>, b) = <<a, b>>
  <1>1. Append(<<a>>, b) = <<a, b>>
    <2>1. <<a>> \in Seq({a, b})
      OBVIOUS
    <2>2. /\ Append(<<a>>, b) \in Seq({a, b}) /\ Len(Append(<<a>>, b)) = 2
          /\ Append(<<a>>, b)[1] = a /\ Append(<<a>>, b)[2] = b
      BY <2>1
    <2>3. /\ <<a, b>> \in Seq({a, b}) /\ Len(<<a, b>>) = 2
          /\ <<a, b>>[1] = a /\ <<a, b>>[2] = b
      OBVIOUS
    <2>4. \A s, t \in Seq({a, b}) :
             Len(s) = 2 /\ Len(t) = 2 /\ s[1] = t[1] /\ s[2] = t[2] => s = t
      OBVIOUS
    <2>5. QED
      BY <2>2, <2>3, <2>4
  <1>2. /\ <<a, b>> # <<>> /\ Len(<<a, b>>) = 2 /\ <<a, b>>[1] = a /\ <<a, b>>[2] = b
        /\ Head(<<a, b>>) = a /\ Tail(<<a, b>>) = <<b>>
    OBVIOUS
  <1>3. QED
    BY <1>1, <1>2

\* A message is changed in place.
LEMMA ChangedMessage ==
  ASSUME NEW a, NEW b, NEW c
  PROVE  /\ [<<a>> EXCEPT ![1] = c] = <<c>>
         /\ [<<a, b>> EXCEPT ![1] = c] = <<c, b>>
  OBVIOUS

-----------------------------------------------------------------------------
(* The server takes what is under way from one stage to the next. *)

TheServer == ServerReceives \/ ServerResponds \/ ServerEndsResponse \/ ServerAcknowledges

LEMMA NothingForServer ==
  ASSUME NothingUnderWay \/ OnlyAck, TheServer
  PROVE  FALSE
  <1>1. toServer = <<>> /\ serving = NoExec /\ ~Responding
    <2>1. CASE incoming = <<>>
      BY <2>1 DEF Responding, NothingUnderWay, OnlyAck
    <2>2. CASE OnlyAck
      <3>1. Acknowledgement.eom = TRUE
        BY DEF Acknowledgement
      <3>2. QED
        BY <2>2, <3>1, OneMessage DEF OnlyAck, Responding
    <2>3. QED
      BY <2>1, <2>2 DEF NothingUnderWay
  <1>2. QED
    BY <1>1 DEF TheServer, ServerReceives, ServerResponds, ServerEndsResponse,
       ServerAcknowledges

LEMMA ServerOnUnderway ==
  ASSUME Underway, TheServer, UNCHANGED <<request, exec>>
  PROVE  Served'
  <1>1. PICK m \in RequestMessages : toServer = IF Attended THEN <<m, Attention>> ELSE <<m>>
    BY DEF Underway
  <1>2. m.type = "request" /\ m.exec = request
    BY DEF RequestMessages
  <1>3. toServer # <<>> /\ Head(toServer) = m
        /\ Tail(toServer) = IF Attended THEN <<Attention>> ELSE <<>>
    BY <1>1, OneMessage, TwoMessages
  <1>4. incoming = <<>> /\ serving = NoExec
    BY DEF Underway
  <1>5. ServerReceives
    BY <1>2, <1>3, <1>4 DEF TheServer, ServerResponds, ServerEndsResponse, ServerAcknowledges,
       Responding
  <1>6. Attended' = Attended /\ Attention' = Attention
    BY DEF Attended, Attention
  <1>7. QED
    BY <1>2, <1>3, <1>4, <1>5, <1>6 DEF ServerReceives, Served, AttentionLast

LEMMA ServerOnServed ==
  ASSUME request \in Execs, request # NoExec, Served, TheServer, UNCHANGED <<request, exec>>
  PROVE  Answering'
  <1>1. serving = request /\ request # NoExec /\ incoming = <<>>
    BY DEF Served
  <1>2. ServerResponds
    BY <1>1 DEF TheServer, ServerReceives, ServerEndsResponse, ServerAcknowledges, Responding
  <1>3. PICK f \in BOOLEAN :
           incoming' = Append(incoming, [type |-> "response", exec |-> serving,
                                         failed |-> f, eom |-> FALSE])
    BY <1>2 DEF ServerResponds
  <1> DEFINE m == [type |-> "response", exec |-> request, failed |-> f, eom |-> FALSE]
  <1>4. m \in Responses(FALSE)' /\ incoming' = <<m>>
    BY <1>1, <1>3, OneMessage DEF Responses, ServerMessage
  <1>5. Attended' = Attended /\ Attention' = Attention
    BY DEF Attended, Attention
  <1>6. AttentionLast' /\ serving' = request'
    BY <1>1, <1>2, <1>5 DEF ServerResponds, Served, AttentionLast
  <1>7. QED
    BY <1>4, <1>6 DEF Answering

LEMMA ServerOnAnswering ==
  ASSUME request \in Execs, request # NoExec, Answering, TheServer, UNCHANGED <<request, exec>>
  PROVE  Answered'
  <1>1. PICK m \in Responses(FALSE) : incoming = <<m>>
    BY DEF Answering
  <1>2. m \in ServerMessage /\ m.type = "response" /\ m.exec = request /\ m.eom = FALSE
    BY DEF Responses
  <1>3. Responding /\ serving # NoExec
    BY <1>1, <1>2, OneMessage DEF Responding, Answering
  <1>4. ServerEndsResponse
    BY <1>3 DEF TheServer, ServerReceives, ServerResponds, ServerAcknowledges
  <1> DEFINE n == [m EXCEPT !.eom = TRUE]
  <1>5. n \in Responses(TRUE)'
    BY <1>2 DEF Responses, ServerMessage
  <1>6. incoming' = <<n>>
    <2>1. incoming' = [incoming EXCEPT ![1] = [incoming[1] EXCEPT !.eom = TRUE]]
      BY <1>1, <1>4, OneMessage DEF ServerEndsResponse
    <2>2. incoming' = [<<m>> EXCEPT ![1] = n]
      BY <1>1, <2>1, OneMessage
    <2> HIDE DEF n
    <2>3. QED
      BY <2>2, ChangedMessage
  <1>7. Attended' = Attended /\ Attention' = Attention
    BY DEF Attended, Attention
  <1>8. AttentionLast' /\ serving' = NoExec
    BY <1>4, <1>7 DEF ServerEndsResponse, Answering, AttentionLast
  <1> HIDE DEF n
  <1>9. QED
    BY <1>5, <1>6, <1>8 DEF Answered

LEMMA ServerOnAnswered ==
  ASSUME Answered, TheServer, UNCHANGED <<request, exec>>
  PROVE  AnsweredTwice' /\ Attended
  <1>1. PICK m \in Responses(TRUE) : incoming = <<m>>
    BY DEF Answered
  <1>2. m.eom = TRUE
    BY DEF Responses
  <1>3. ~Responding /\ serving = NoExec
    BY <1>1, <1>2, OneMessage DEF Responding, Answered
  <1>4. toServer # <<>>
    BY <1>3 DEF TheServer, ServerReceives, ServerEndsResponse, ServerAcknowledges,
       ServerResponds
  <1>5. Attended /\ toServer = <<Attention>>
    BY <1>4 DEF Answered, AttentionLast
  <1>6. Attention.type = "attention" /\ Attention.exec = request
    BY DEF Attention
  <1>7. Head(toServer) = Attention /\ Tail(toServer) = <<>>
    BY <1>5, OneMessage
  <1>8. ServerAcknowledges
    BY <1>3, <1>6, <1>7 DEF TheServer, ServerReceives, ServerEndsResponse, ServerResponds
  <1>9. incoming' = <<m, Acknowledgement>>
    BY <1>1, <1>6, <1>7, <1>8, TwoMessages DEF ServerAcknowledges, Acknowledgement
  <1>10. m \in Responses(TRUE)' /\ Acknowledgement' = Acknowledgement
    BY DEF Responses, Acknowledgement
  <1>11. QED
    BY <1>3, <1>5, <1>7, <1>8, <1>9, <1>10 DEF AnsweredTwice, ServerAcknowledges

LEMMA ServerOnAttention ==
  ASSUME OnlyAttention, TheServer, UNCHANGED <<request, exec>>
  PROVE  OnlyAck'
  <1>1. Head(toServer) = Attention /\ Tail(toServer) = <<>> /\ incoming = <<>>
        /\ serving = NoExec
    BY OneMessage DEF OnlyAttention
  <1>2. Attention.type = "attention" /\ Attention.exec = request
    BY DEF Attention
  <1>3. ServerAcknowledges
    BY <1>1, <1>2 DEF TheServer, ServerReceives, ServerEndsResponse, ServerResponds, Responding
  <1>4. incoming' = <<Acknowledgement>>
    BY <1>1, <1>2, <1>3, OneMessage DEF ServerAcknowledges, Acknowledgement
  <1>5. Acknowledgement' = Acknowledgement
    BY DEF Acknowledgement
  <1>6. QED
    BY <1>1, <1>3, <1>4, <1>5 DEF OnlyAck, ServerAcknowledges

LEMMA ServerOnAnsweredTwice ==
  ASSUME AnsweredTwice, TheServer
  PROVE  FALSE
  <1>1. PICK m \in Responses(TRUE) : incoming = <<m, Acknowledgement>>
    BY DEF AnsweredTwice
  <1>2. Acknowledgement.eom = TRUE
    BY DEF Acknowledgement
  <1>3. ~Responding /\ serving = NoExec /\ toServer = <<>>
    BY <1>1, <1>2, TwoMessages DEF Responding, AnsweredTwice
  <1>4. QED
    BY <1>3 DEF TheServer, ServerReceives, ServerEndsResponse, ServerAcknowledges,
       ServerResponds

-----------------------------------------------------------------------------
(* Steps that do not touch the request in progress *)

\* The Request in progress stays the same.
SameRequest == request' = request /\ CurrentRequest' = CurrentRequest

\* Nothing of the execution in progress but, maybe, its Request changes.
SameExec ==
    /\ SameRequest
    /\ Attended' = Attended /\ Ignored' = Ignored /\ Failed' = Failed

Unaffected ==
    /\ UNCHANGED <<state, closed, request, cancelTimer, out, reader, parser, toServer,
                   serving, incoming, crashed>>
    /\ requestTimer' => requestTimer
    /\ request # NoExec => /\ SameExec /\ Canceled' = Canceled /\ On' = On
                           /\ OthersSilent => OthersSilent'
                           /\ Error # "none" => Error' # "none"
    /\ request = NoExec => \A r \in Requests : req[r].on = {} => req'[r].on = {}

\* The stages of the wire are a matter of the messages and of the attention.
LEMMA SameWire ==
  ASSUME UNCHANGED <<request, toServer, serving, incoming>>, Attended' = Attended
  PROVE  /\ (Underway => Underway') /\ (Served => Served') /\ (Answering => Answering')
         /\ (Answered => Answered') /\ (AnsweredTwice => AnsweredTwice')
         /\ (OnlyAttention => OnlyAttention') /\ (OnlyAck => OnlyAck')
         /\ NothingUnderWay => NothingUnderWay'
  <1>1. /\ Attention' = Attention /\ Acknowledgement' = Acknowledgement
        /\ RequestMessages' = RequestMessages
        /\ Responses(TRUE)' = Responses(TRUE) /\ Responses(FALSE)' = Responses(FALSE)
    BY DEF Attention, Acknowledgement, RequestMessages, Responses
  <1>2. QED
    BY <1>1 DEF Underway, Served, Answering, Answered, AnsweredTwice, OnlyAttention, OnlyAck,
       NothingUnderWay, AttentionLast

LEMMA UnaffectedPhases ==
  ASSUME Phases, Unaffected
  PROVE  Phases'
  <1>1. CASE closed
    BY <1>1 DEF Phases, Unaffected
  <1>2. CASE ~closed /\ Quiet
    BY <1>2 DEF Phases, Unaffected, Quiet, NothingUnderWay, Running
  <1>3. CASE ~closed /\ InProgress
    <2>1. /\ request # NoExec /\ SameExec /\ Canceled' = Canceled /\ On' = On
          /\ OthersSilent' /\ request' # NoExec
      BY <1>3 DEF InProgress, Unaffected
    <2>2. UNCHANGED <<request, toServer, serving, incoming>> /\ Attended' = Attended
      BY <2>1 DEF Unaffected, SameExec
    <2>3. Sending => Sending'
      BY <2>1, <2>2, SameWire DEF Sending, Unaffected, SameExec
    <2>4. (AfterSending => AfterSending') /\ (Awaiting => Awaiting')
      BY <2>1, <2>2, SameWire DEF AfterSending, Awaiting, Unaffected, SameExec
    <2>5. Parsing => Parsing'
      BY <2>1, <2>2, SameWire DEF Parsing, Unaffected, SameExec
    <2>6. /\ Draining => Draining'
          /\ AwaitingAck => AwaitingAck'
          /\ ReadingAck => ReadingAck'
      BY <2>1, <2>2, SameWire DEF Draining, AwaitingAck, ReadingAck, Unaffected, SameExec
    <2>7. InProgress'
      BY <1>3, <2>1, <2>3, <2>4, <2>5, <2>6 DEF InProgress
    <2>8. QED
      BY <1>3, <2>7 DEF Phases, Unaffected, Running
  <1>4. QED
    BY <1>1, <1>2, <1>3 DEF Phases

\* A step that changes one Request, and what that means for the current one.
LEMMA RequestChange ==
  ASSUME TypeOK, SameRequest, NEW r \in Requests, NEW q, req' = [req EXCEPT ![r] = q]
  PROVE  /\ req'[r] = q /\ \A x \in Requests : x # r => req'[x] = req[x]
         /\ r = CurrentRequest => /\ Canceled' = q.canceled /\ On' = q.on /\ Error' = q.error
                                  /\ OthersSilent => OthersSilent'
         /\ r # CurrentRequest /\ CurrentRequest \in Requests =>
               /\ Canceled' = Canceled /\ On' = On /\ Error' = Error
               /\ OthersSilent /\ q.on \subseteq req[r].on => OthersSilent'
  <1>1. req'[r] = q /\ \A x \in Requests : x # r => req'[x] = req[x]
    BY DEF TypeOK
  <1>2. QED
    BY <1>1 DEF SameRequest, Canceled, On, Error, OthersSilent

LEMMA CurrentIsRequest ==
  ASSUME IndInv, request # NoExec
  PROVE  /\ request \in Execs /\ exec[request] \in ExecRecord
         /\ CurrentRequest \in Requests /\ req[CurrentRequest] \in RequestRecord
         /\ request <= made /\ exec[request].calls = 0 /\ ~closed /\ socket = "open"
  BY DEF IndInv, Bookkeeping, TypeOK, CurrentRequest, NoExec

\* makeRequest refuses a request beside the one in progress.
LEMMA RefuseUnaffected ==
  ASSUME IndInv, NEW r \in Requests, RefuseRequest(r)
  PROVE  Unaffected
  <1>1. UNCHANGED <<state, closed, request, requestTimer, cancelTimer, out, reader, parser,
                    toServer, serving, incoming, crashed, req>>
    BY DEF RefuseRequest, connVars, ioVars, wireVars
  <1>2. ASSUME request # NoExec  PROVE exec'[request] = exec[request]
    <2>1. /\ made' = made + 1 /\ made' \in Execs
          /\ \A e \in Execs : e # made' => exec'[e] = exec[e]
      BY RefuseHistory DEF IndInv
    <2>2. request \in Execs /\ request <= made /\ made \in Nat
      BY <1>2, BoundAssumption DEF IndInv, Bookkeeping, TypeOK
    <2>3. request # made'
      BY <2>1, <2>2 DEF Execs
    <2>4. QED
      BY <2>1, <2>2, <2>3
  <1>3. request # NoExec => SameExec
    BY <1>1, <1>2 DEF SameExec, SameRequest, CurrentRequest, Attended, Ignored, Failed
  <1>4. request # NoExec => /\ Canceled' = Canceled /\ On' = On /\ Error' = Error
                            /\ OthersSilent => OthersSilent'
    BY <1>1, <1>3 DEF SameExec, SameRequest, Canceled, On, Error, OthersSilent
  <1>5. QED
    BY <1>1, <1>3, <1>4 DEF Unaffected

\* What is set of a Request that is canceled, with the error `err`.
CanceledRecord(r, err) ==
    [req[r] EXCEPT
        !.canceled = TRUE,
        !.paused = @ /\ ~CancelResumes(r),
        !.error = IF Listening(r, "onCancelUnsent") /\ out.phase = "streaming"
                  THEN SetError(err, "ECANCEL") ELSE err,
        !.on = @ \cap UncanceledListeners(r)]

LEMMA CanceledRequest ==
  ASSUME TypeOK, NEW r \in Requests, NEW err \in Errors, Cancel(r, err)
  PROVE  LET q == CanceledRecord(r, err)
         IN  /\ req' = [req EXCEPT ![r] = q]
             /\ q.canceled = TRUE
             /\ q.on = req[r].on \cap UncanceledListeners(r)
             /\ err # "none" => q.error # "none"
  <1> DEFINE on     == req[r].on \cap UncanceledListeners(r)
             paused == req[r].paused /\ ~CancelResumes(r)
             error  == IF Listening(r, "onCancelUnsent") /\ out.phase = "streaming"
                       THEN SetError(err, "ECANCEL") ELSE err
             q      == [req[r] EXCEPT !.canceled = TRUE, !.paused = paused,
                                      !.error = error, !.on = on]
  <1>1. req' = [req EXCEPT ![r] = q]
    BY DEF Cancel
  <1>2. CanceledRecord(r, err) = q
    BY DEF CanceledRecord
  <1>3. err # "none" => error # "none"
    BY DEF SetError
  <1>4. req[r] \in RequestRecord
    BY DEF TypeOK
  <1> HIDE DEF on, paused, error
  <1>5. q.canceled = TRUE /\ q.on = on /\ q.error = error
    BY <1>4 DEF RequestRecord
  <1> HIDE DEF q
  <1>6. QED
    BY <1>1, <1>2, <1>3, <1>5 DEF on

\* request.cancel() and the like, for a Request without listeners
LEMMA IdleRequestCanceled ==
  ASSUME IndInv, NEW r \in Requests, NEW err \in Errors, Cancel(r, err), req[r].on = {},
         request = NoExec \/ r # CurrentRequest, requestTimer' => requestTimer,
         UNCHANGED <<closed, request, serving, incoming, crashed>>
  PROVE  Unaffected
  <1> USE DEF IndInv
  <1>1. UNCHANGED <<state, cancelTimer, out, reader, parser, toServer, exec>>
    BY DEF Cancel, Listening, OnCancelUnsent, OnCancelSent, OnCancelStreaming
  <1>2. SameExec
    BY <1>1 DEF SameExec, SameRequest, CurrentRequest, Attended, Ignored, Failed
  <1> DEFINE q == CanceledRecord(r, err)
  <1>3. req' = [req EXCEPT ![r] = q] /\ q.on = {}
    BY CanceledRequest
  <1> HIDE DEF q
  <1>4. request # NoExec => /\ Canceled' = Canceled /\ On' = On /\ Error' = Error
                            /\ OthersSilent => OthersSilent'
    BY <1>2, <1>3, RequestChange, CurrentIsRequest DEF SameExec
  <1>5. \A x \in Requests : req[x].on = {} => req'[x].on = {}
    BY <1>2, <1>3, RequestChange DEF SameExec
  <1>6. QED
    BY <1>1, <1>2, <1>4, <1>5 DEF Unaffected

\* What is set of a Request that is paused or resumed.
PausedRecord(r)  ==
    [req[r] EXCEPT !.paused = TRUE,
                   !.on = IF Listening(r, "onPause") /\ request # NoExec
                          THEN @ \cup {"onResume"} ELSE @]
ResumedRecord(r) == [req[r] EXCEPT !.paused = FALSE, !.on = @ \ {"onResume"}]

LEMMA PausedRequest ==
  ASSUME TypeOK, NEW r \in Requests, Pause(r)
  PROVE  LET q == PausedRecord(r)
         IN  /\ req' = [req EXCEPT ![r] = q] /\ q.canceled = req[r].canceled
             /\ q.error = req[r].error
             /\ q.on = IF Listening(r, "onPause") /\ request # NoExec
                       THEN req[r].on \cup {"onResume"} ELSE req[r].on
  <1> DEFINE on == IF Listening(r, "onPause") /\ request # NoExec
                   THEN req[r].on \cup {"onResume"} ELSE req[r].on
             q  == [req[r] EXCEPT !.paused = TRUE, !.on = on]
  <1>1. req' = [req EXCEPT ![r] = q] /\ PausedRecord(r) = q
    BY DEF Pause, PausedRecord
  <1>2. req[r] \in RequestRecord
    BY DEF TypeOK
  <1> HIDE DEF on
  <1>3. q.canceled = req[r].canceled /\ q.error = req[r].error /\ q.on = on
    BY <1>2 DEF RequestRecord
  <1> HIDE DEF q
  <1>4. QED
    BY <1>1, <1>3 DEF on

LEMMA ResumedRequest ==
  ASSUME TypeOK, NEW r \in Requests, Resume(r)
  PROVE  LET q == ResumedRecord(r)
         IN  /\ req' = [req EXCEPT ![r] = q] /\ q.canceled = req[r].canceled
             /\ q.error = req[r].error
             /\ q.on = req[r].on \ {"onResume"}
  <1> DEFINE on == req[r].on \ {"onResume"}
             q  == [req[r] EXCEPT !.paused = FALSE, !.on = on]
  <1>1. req' = [req EXCEPT ![r] = q] /\ ResumedRecord(r) = q
    BY DEF Resume, ResumedRecord
  <1>2. req[r] \in RequestRecord
    BY DEF TypeOK
  <1> HIDE DEF on
  <1>3. q.canceled = req[r].canceled /\ q.error = req[r].error /\ q.on = on
    BY <1>2 DEF RequestRecord
  <1> HIDE DEF q
  <1>4. QED
    BY <1>1, <1>3 DEF on

\* The parser is stopped by onPause and goes on with onResume.
LEMMA PausedParser ==
  ASSUME TypeOK, NEW r \in Requests, Pause(r) \/ Resume(r)
  PROVE  /\ parser'.by = parser.by /\ parser'.onEnd = parser.onEnd
         /\ parser'.exec = parser.exec
         /\ Pause(r) => parser'.paused = (parser.paused \/ (Listening(r, "onPause")
                                                              /\ parser.by = "request"))
         /\ Resume(r) => parser'.paused = (parser.paused /\ ~Listening(r, "onResume"))
         /\ parser'.paused = parser.paused => parser' = parser
  <1>1. parser \in ParserRecord
    BY DEF TypeOK
  <1> DEFINE stop  == parser.paused \/ (Listening(r, "onPause") /\ parser.by = "request")
             still == parser.paused /\ ~Listening(r, "onResume")
  <1>2. /\ Pause(r) => parser' = [parser EXCEPT !.paused = stop]
        /\ Resume(r) => parser' = [parser EXCEPT !.paused = still]
    BY DEF Pause, Resume
  <1> HIDE DEF stop, still
  <1>3. /\ parser'.by = parser.by /\ parser'.onEnd = parser.onEnd
        /\ parser'.exec = parser.exec
        /\ Pause(r) => parser'.paused = stop
        /\ Resume(r) => parser'.paused = still
        /\ parser'.paused = parser.paused => parser' = parser
    BY <1>1, <1>2 DEF ParserRecord
  <1>4. QED
    BY <1>3 DEF stop, still

\* pause() and resume() of a Request whose response is not being parsed
LEMMA IdleRequestPaused ==
  ASSUME IndInv, NEW r \in Requests, Pause(r) \/ Resume(r),
         "onPause" \notin req[r].on, "onResume" \notin req[r].on
  PROVE  Unaffected
  <1> USE DEF IndInv
  <1>1. UNCHANGED <<state, closed, request, requestTimer, cancelTimer, out, reader, toServer,
                    serving, incoming, crashed, exec>>
    BY DEF Pause, Resume, connVars, wireVars, histVars
  <1>2. parser.paused \in BOOLEAN
    BY DEF TypeOK, ParserRecord
  <1>3. parser' = parser
    BY <1>2, PausedParser DEF Listening
  <1>4. SameExec
    BY <1>1 DEF SameExec, SameRequest, CurrentRequest, Attended, Ignored, Failed
  <1>5. PICK q : /\ req' = [req EXCEPT ![r] = q]
                 /\ q.canceled = req[r].canceled /\ q.on = req[r].on
                 /\ q.error = req[r].error
    <2>1. CASE Pause(r)
      BY <2>1, PausedRequest DEF Listening
    <2>2. CASE Resume(r)
      BY <2>2, ResumedRequest
    <2>3. QED
      BY <2>1, <2>2
  <1>6. request # NoExec => /\ Canceled' = Canceled /\ On' = On /\ Error' = Error
                            /\ OthersSilent => OthersSilent'
    <2>1. CASE r = CurrentRequest
      BY <1>4, <1>5, <2>1, RequestChange DEF SameExec, Canceled, On, Error
    <2>2. CASE r # CurrentRequest
      BY <1>4, <1>5, <2>2, RequestChange, CurrentIsRequest DEF SameExec
    <2>3. QED
      BY <2>1, <2>2
  <1>7. request = NoExec => \A x \in Requests : req[x].on = {} => req'[x].on = {}
    <2>1. req'[r] = req[r] \/ req'[r].on = req[r].on
      BY <1>5, RequestChange DEF TypeOK
    <2>2. QED
      BY <1>5, <2>1 DEF TypeOK
  <1>8. QED
    BY <1>1, <1>3, <1>4, <1>6, <1>7 DEF Unaffected

-----------------------------------------------------------------------------
(* What is left: the steps of the request in progress *)

\* request.cancel(), connection.cancel() or the request timer
CancelStep ==
    /\ Idle /\ request # NoExec /\ ~Canceled
    /\ \E err \in Errors : /\ Cancel(CurrentRequest, err)
                           /\ Error # "none" => err # "none"
    /\ UNCHANGED <<closed, request, serving, incoming, made, crashed>>

PauseStep == request # NoExec /\ (Pause(CurrentRequest) \/ Resume(CurrentRequest))

OwnStep ==
    \/ \E r \in Requests, reset \in BOOLEAN : Idle /\ AcceptRequest(r, reset)
    \/ CancelStep \/ PauseStep
    \/ SendStep \/ UrgentStep \/ ReceiveStep
    \/ TheServer

LEMMA TimerUnaffected ==
  ASSUME IndInv, request # NoExec, RequestTimerFires, Canceled
  PROVE  Unaffected
  <1> USE DEF IndInv
  <1> DEFINE q == [req[CurrentRequest] EXCEPT !.error = "ETIMEOUT"]
  <1>1. /\ req' = [req EXCEPT ![CurrentRequest] = q]
        /\ UNCHANGED <<state, closed, request, cancelTimer, out, reader, parser, toServer,
                       serving, incoming, crashed, exec>>
        /\ requestTimer' = FALSE
    BY DEF RequestTimerFires, Canceled
  <1>2. q.canceled = Canceled /\ q.on = On /\ q.error # "none"
    BY CurrentIsRequest DEF RequestRecord, Canceled, On
  <1>3. SameExec
    BY <1>1 DEF SameExec, SameRequest, CurrentRequest, Attended, Ignored, Failed
  <1> HIDE DEF q
  <1>4. Canceled' = Canceled /\ On' = On /\ Error' # "none"
        /\ (OthersSilent => OthersSilent')
    BY <1>1, <1>2, <1>3, RequestChange, CurrentIsRequest DEF SameExec
  <1>5. QED
    BY <1>1, <1>3, <1>4 DEF Unaffected

\* Every step closes the connection, leaves the request alone, or is its own.
LEMMA StepKinds ==
  ASSUME IndInv, Phases, ~closed, Next
  PROVE  closed' \/ Unaffected \/ OwnStep
  <1> USE DEF IndInv
  <1>1. \A r \in Requests : request = NoExec \/ r # CurrentRequest => req[r].on = {}
    BY DEF Phases, Quiet, InProgress, OthersSilent
  <1>2. ASSUME NEW r \in Requests, RefuseRequest(r)  PROVE Unaffected
    BY <1>2, RefuseUnaffected
  <1>3. ASSUME NEW r \in Requests, UserCancel(r)  PROVE Unaffected \/ OwnStep
    <2>1. req[r].error \in Errors
      BY DEF TypeOK, RequestRecord
    <2>2. Cancel(r, req[r].error) /\ Idle /\ ~req[r].canceled /\ (requestTimer' => requestTimer)
          /\ UNCHANGED <<closed, request, serving, incoming, made, crashed>>
      BY <1>3 DEF UserCancel
    <2>3. CASE request = NoExec \/ r # CurrentRequest
      BY <1>1, <2>1, <2>2, <2>3, IdleRequestCanceled
    <2>4. CASE request # NoExec /\ r = CurrentRequest
      BY <2>1, <2>2, <2>4 DEF OwnStep, CancelStep, Canceled, Error
    <2>5. QED
      BY <2>3, <2>4
  <1>4. ASSUME NEW r \in Requests, Pause(r) \/ Resume(r)  PROVE Unaffected \/ OwnStep
    BY <1>1, <1>4, IdleRequestPaused DEF OwnStep, PauseStep
  <1>5. ASSUME RequestTimerFires  PROVE Unaffected \/ OwnStep
    <2>1. request # NoExec
      BY <1>5 DEF RequestTimerFires, Bookkeeping
    <2>2. CASE Canceled
      BY <1>5, <2>1, <2>2, TimerUnaffected
    <2>3. CASE ~Canceled
      <3>1. Cancel(CurrentRequest, "ETIMEOUT") /\ "ETIMEOUT" \in Errors
        BY <1>5, <2>3 DEF RequestTimerFires, Canceled, Errors
      <3>2. CancelStep
        BY <1>5, <2>1, <2>3, <3>1 DEF RequestTimerFires, CancelStep
      <3>3. QED
        BY <3>2 DEF OwnStep
    <2>4. QED
      BY <2>2, <2>3
  <1>6. ASSUME CancelTimerFires \/ Close \/ SocketFails \/ SocketEnds  PROVE closed'
    BY <1>6 DEF CancelTimerFires, Close, SocketFails, SocketEnds, SocketErrorHandler,
       Shutdown, CleanupConnection
  <1>7. ~SocketCloses
    BY DEF SocketCloses, Bookkeeping
  <1>8. ASSUME NEW r \in Requests, Execute(r) \/ Reset(r)  PROVE Unaffected \/ OwnStep
    BY <1>2, <1>8 DEF Execute, Reset, OwnStep, TypeOK
  <1>9. ASSUME ConnectionCancel  PROVE Unaffected \/ OwnStep
    BY <1>3, <1>9, CurrentIsRequest DEF ConnectionCancel
  <1>10. QED
    BY <1>3, <1>4, <1>5, <1>6, <1>7, <1>8, <1>9
       DEF Next, Requests, OwnStep, SocketStep, ServerStep, TheServer

-----------------------------------------------------------------------------
(* A cancel of the request in progress *)

LEMMA CurrentCanceled ==
  ASSUME IndInv, CancelStep
  PROVE  /\ SameRequest /\ Ignored' = Ignored /\ Failed' = Failed
         /\ Canceled' /\ On' = On \cap UncanceledListeners(CurrentRequest)
         /\ OthersSilent => OthersSilent'
         /\ Error # "none" => Error' # "none"
         /\ "cancelAfterRequestSent" \notin On =>
               Attended' = Attended /\ UNCHANGED <<toServer, cancelTimer>>
         /\ "cancelAfterRequestSent" \in On =>
               /\ Attended' /\ toServer' = Append(toServer, Attention)
               /\ cancelTimer' = (CancelTimeout > 0)
  <1> USE DEF IndInv
  <1>1. PICK err \in Errors : Cancel(CurrentRequest, err) /\ (Error # "none" => err # "none")
    BY DEF CancelStep
  <1>2. /\ request # NoExec /\ request \in Execs /\ exec[request] \in ExecRecord
        /\ exec \in [Execs -> ExecRecord] /\ CurrentRequest \in Requests /\ socket = "open"
    BY CurrentIsRequest DEF CancelStep, TypeOK
  <1>3. UNCHANGED <<request, made>>
    BY DEF CancelStep
  <1>4. \/ /\ "cancelAfterRequestSent" \in On
           /\ exec' = [exec EXCEPT ![request].attention = TRUE]
        \/ "cancelAfterRequestSent" \notin On /\ exec' = exec
    BY <1>1, <1>2 DEF Cancel, OnCancelSent, Listening, On
  <1>5. /\ exec'[request].req = exec[request].req
        /\ Ignored' = Ignored /\ Failed' = Failed
        /\ "cancelAfterRequestSent" \in On => Attended'
        /\ "cancelAfterRequestSent" \notin On => Attended' = Attended
    <2> DEFINE x == [exec[request] EXCEPT !.attention = TRUE]
    <2>1. /\ x.req = exec[request].req /\ x.ignored = exec[request].ignored
          /\ x.failed = exec[request].failed /\ x.attention = TRUE
      BY <1>2 DEF ExecRecord
    <2>2. exec' = [exec EXCEPT ![request] = x] \/ exec' = exec
      BY <1>4
    <2>3. "cancelAfterRequestSent" \in On => exec'[request] = x
      BY <1>2, <1>4
    <2> HIDE DEF x
    <2>4. exec'[request] = x \/ exec'[request] = exec[request]
      BY <1>2, <2>2
    <2>5. QED
      BY <1>3, <1>4, <2>1, <2>3, <2>4 DEF Ignored, Failed, Attended
  <1>6. SameRequest
    BY <1>3, <1>5 DEF SameRequest, CurrentRequest
  <1> DEFINE q == CanceledRecord(CurrentRequest, err)
  <1>7. /\ req' = [req EXCEPT ![CurrentRequest] = q]
        /\ q.canceled = TRUE /\ q.on = On \cap UncanceledListeners(CurrentRequest)
        /\ Error # "none" => q.error # "none"
    BY <1>1, <1>2, CanceledRequest DEF On
  <1> HIDE DEF q
  <1>8. /\ Canceled' /\ On' = On \cap UncanceledListeners(CurrentRequest)
        /\ OthersSilent => OthersSilent'
        /\ Error # "none" => Error' # "none"
    BY <1>2, <1>6, <1>7, RequestChange
  <1>9. /\ "cancelAfterRequestSent" \notin On => UNCHANGED <<toServer, cancelTimer>>
        /\ "cancelAfterRequestSent" \in On =>
               /\ toServer' = Append(toServer, Attention)
               /\ cancelTimer' = (CancelTimeout > 0)
    BY <1>1, <1>2 DEF Cancel, OnCancelSent, Listening, On, Sent, Attention, CreateCancelTimer
  <1>10. QED
    BY <1>5, <1>6, <1>8, <1>9

\* An attention goes out behind the request.
LEMMA AttentionSent ==
  ASSUME ~Attended, Attended', UNCHANGED <<request, serving, incoming>>,
         toServer' = Append(toServer, Attention)
  PROVE  /\ Underway => Underway'
         /\ Served => Served'
         /\ Answering => Answering'
         /\ Answered => Answered'
  <1>1. /\ Attention' = Attention /\ RequestMessages' = RequestMessages
        /\ Responses(TRUE)' = Responses(TRUE) /\ Responses(FALSE)' = Responses(FALSE)
    BY DEF Attention, RequestMessages, Responses
  <1>2. Underway => Underway'
    <2>1. SUFFICES ASSUME Underway PROVE Underway'
      OBVIOUS
    <2>2. PICK m \in RequestMessages : toServer = <<m>>
      BY <2>1 DEF Underway
    <2>3. toServer' = <<m, Attention>>
      BY <2>2, TwoMessages
    <2>4. QED
      BY <1>1, <2>1, <2>3 DEF Underway
  <1>3. AttentionLast => AttentionLast'
    BY <1>1, OneMessage DEF AttentionLast
  <1>4. QED
    BY <1>1, <1>2, <1>3 DEF Served, Answering, Answered

LEMMA CanceledWhileSending ==
  ASSUME IndInv, OthersSilent, Sending, CancelStep
  PROVE  InProgress'
  <1>1. On = {"onCancelUnsent"} /\ "cancelAfterRequestSent" \notin On
        /\ "onCancelStreaming" \notin On
    BY DEF Sending, CancelStep
  <1>2. PICK err \in Errors : Cancel(CurrentRequest, err)
    BY DEF CancelStep
  <1>3. /\ On' = {} /\ Canceled' /\ OthersSilent' /\ SameRequest
        /\ Attended' = Attended /\ Failed' = Failed
        /\ UNCHANGED <<toServer, cancelTimer>>
    <2>1. UncanceledListeners(CurrentRequest) = {}
      BY <1>1 DEF UncanceledListeners, CancelResumes, Listening, On, CancelStep
    <2>2. QED
      BY <1>1, <2>1, CurrentCanceled
  <1>4. UNCHANGED <<state, reader, parser, request, serving, incoming>>
    BY <1>1, <1>2 DEF Cancel, OnCancelStreaming, Listening, On, CancelStep
  <1>5. out'.phase # "none" /\ out'.exec = request /\ out'.ignore
    <2>1. out \in OutRecord
      BY DEF IndInv, TypeOK
    <2>2. out' = Aborted(out)
      BY <1>1, <1>2 DEF Cancel, OnCancelUnsent, Listening, On
    <2>3. Aborted(out).phase = "ending" /\ Aborted(out).exec = out.exec
          /\ Aborted(out).ignore = TRUE
      BY <2>1 DEF Aborted, OutRecord
    <2>4. QED
      BY <2>2, <2>3 DEF Sending
  <1>6. Sending'
    BY <1>3, <1>4, <1>5, SameWire DEF Sending
  <1>7. QED
    BY <1>3, <1>4, <1>6 DEF InProgress, CancelStep

LEMMA CanceledWhileAwaiting ==
  ASSUME CancelTimeout > 0, IndInv, OthersSilent, AfterSending, Awaiting, CancelStep
  PROVE  InProgress'
  <1>1. On = {"cancelAfterRequestSent"} /\ "onCancelStreaming" \notin On
        /\ "onCancelUnsent" \notin On /\ ~Attended
    BY DEF Awaiting, CancelStep
  <1>2. PICK err \in Errors : Cancel(CurrentRequest, err)
    BY DEF CancelStep
  <1>3. On' = {}
    <2>1. UncanceledListeners(CurrentRequest) = {"onPause", "onResume"}
      BY <1>1 DEF UncanceledListeners, CancelResumes, Listening, On
    <2>2. QED
      BY <1>1, <2>1, CurrentCanceled
  <1>4. UNCHANGED <<state, reader, parser, out, request, serving, incoming>>
    BY <1>1, <1>2 DEF Cancel, OnCancelStreaming, OnCancelUnsent, Listening, On, CancelStep
  <1>5. /\ Canceled' /\ OthersSilent' /\ Attended' /\ cancelTimer' = TRUE
        /\ toServer' = Append(toServer, Attention)
    BY <1>1, CurrentCanceled
  <1>6. Awaiting'
    BY <1>1, <1>3, <1>4, <1>5, AttentionSent DEF Awaiting
  <1>7. AfterSending'
    BY <1>4, <1>5 DEF AfterSending
  <1>8. QED
    BY <1>4, <1>5, <1>6, <1>7 DEF InProgress, CancelStep

LEMMA CanceledWhileParsing ==
  ASSUME CancelTimeout > 0, IndInv, OthersSilent, AfterSending, Parsing, CancelStep
  PROVE  InProgress'
  <1>1. "cancelAfterRequestSent" \in On /\ "onCancelStreaming" \in On
        /\ "onCancelUnsent" \notin On /\ ~Attended /\ request # NoExec
    BY DEF Parsing, CancelStep
  <1>2. PICK err \in Errors : Cancel(CurrentRequest, err)
    BY DEF CancelStep
  <1>3. On' = {}
    <2>1. UncanceledListeners(CurrentRequest) = {}
      BY <1>1 DEF UncanceledListeners, CancelResumes, Listening, On
    <2>2. QED
      BY <2>1, CurrentCanceled
  <1>4. UNCHANGED <<out, request, serving, incoming>>
    BY <1>1, <1>2 DEF Cancel, OnCancelUnsent, Listening, On, CancelStep
  <1>5. /\ Canceled' /\ OthersSilent' /\ Attended' /\ cancelTimer' = TRUE
        /\ toServer' = Append(toServer, Attention)
    BY <1>1, CurrentCanceled
  <1>6. /\ state' = "SentAttention" /\ reader' = "SentAttention"
        /\ parser'.by = "request" /\ ~parser'.onEnd /\ parser'.exec = request
        /\ ~parser'.paused
    <2> DEFINE resumed == CancelResumes(CurrentRequest) /\ Listening(CurrentRequest, "onResume")
               still   == parser.paused /\ ~resumed
    <2>1. parser' = [parser EXCEPT !.onEnd = FALSE, !.paused = still]
          /\ state' = "SentAttention" /\ reader' = "SentAttention"
      BY <1>1, <1>2 DEF Cancel, OnCancelStreaming, Detached, Listening, On
    <2>2. still = FALSE
      BY <1>1 DEF Parsing, CancelResumes, Listening, On
    <2> HIDE DEF still
    <2>3. parser \in ParserRecord
      BY DEF IndInv, TypeOK
    <2>4. QED
      BY <2>1, <2>2, <2>3 DEF ParserRecord, Parsing
  <1>7. (Answering \/ Answered)'
    BY <1>1, <1>4, <1>5, AttentionSent DEF Parsing
  <1>8. Draining'
    BY <1>3, <1>4, <1>5, <1>6, <1>7 DEF Draining
  <1>9. AfterSending'
    BY <1>4, <1>5 DEF AfterSending
  <1>10. QED
    BY <1>1, <1>4, <1>5, <1>8, <1>9 DEF InProgress

-----------------------------------------------------------------------------
(* The request in progress is paused or resumed *)

LEMMA PausedInPhase ==
  ASSUME IndInv, Phases, ~closed, PauseStep
  PROVE  Phases'
  <1> USE DEF IndInv
  <1>1. InProgress /\ request # NoExec /\ CurrentRequest \in Requests
    BY CurrentIsRequest DEF PauseStep, Phases, Quiet
  <1>2. CASE "onPause" \notin On /\ "onResume" \notin On
    BY <1>1, <1>2, IdleRequestPaused, UnaffectedPhases DEF PauseStep, On
  <1>3. CASE AfterSending /\ Parsing
    <2>1. UNCHANGED <<state, closed, request, cancelTimer, out, reader, toServer, serving,
                      incoming, crashed, exec>>
      BY DEF PauseStep, Pause, Resume, connVars, wireVars, histVars
    <2>2. SameExec
      BY <2>1 DEF SameExec, SameRequest, CurrentRequest, Attended, Ignored, Failed
    <2>3. /\ Canceled' = Canceled /\ (OthersSilent => OthersSilent')
          /\ Pause(CurrentRequest) =>
                On' = IF "onPause" \in On THEN On \cup {"onResume"} ELSE On
          /\ Resume(CurrentRequest) => On' = On \ {"onResume"}
      <3> DEFINE r == CurrentRequest
      <3>1. ~(Pause(r) /\ Resume(r)) /\ (Pause(r) \/ Resume(r))
        BY DEF PauseStep, Pause, Resume
      <3>2. CASE Pause(r)
        <4> DEFINE q == PausedRecord(r)
        <4>1. /\ req' = [req EXCEPT ![r] = q] /\ q.canceled = req[r].canceled
              /\ q.on = IF "onPause" \in On THEN On \cup {"onResume"} ELSE On
          BY <1>1, <3>2, PausedRequest DEF Listening, On
        <4> HIDE DEF q
        <4>2. QED
          BY <1>1, <2>2, <3>1, <3>2, <4>1, RequestChange DEF SameExec, Canceled
      <3>3. CASE Resume(r)
        <4> DEFINE q == ResumedRecord(r)
        <4>1. /\ req' = [req EXCEPT ![r] = q] /\ q.canceled = req[r].canceled
              /\ q.on = On \ {"onResume"}
          BY <1>1, <3>3, ResumedRequest DEF On
        <4> HIDE DEF q
        <4>2. QED
          BY <1>1, <2>2, <3>1, <3>3, <4>1, RequestChange DEF SameExec, Canceled
      <3>4. QED
        BY <3>1, <3>2, <3>3
    <2>4. /\ parser'.by = parser.by /\ parser'.onEnd = parser.onEnd
          /\ parser'.exec = parser.exec
          /\ Pause(CurrentRequest) => (parser'.paused => parser.paused \/ "onPause" \in On)
          /\ Resume(CurrentRequest) => (parser'.paused => parser.paused /\ "onResume" \notin On)
      BY <1>1, PausedParser DEF PauseStep, Listening, On
    <2>5. Answering' \/ Answered'
      BY <1>3, <2>1, <2>2, SameWire DEF Parsing, SameExec
    <2>6. Parsing'
      BY <1>3, <2>1, <2>2, <2>3, <2>4, <2>5 DEF Parsing, SameExec, PauseStep
    <2>7. AfterSending'
      BY <1>3, <2>1, <2>2, <2>3 DEF AfterSending, SameExec
    <2>8. InProgress'
      BY <1>1, <2>1, <2>3, <2>6, <2>7 DEF InProgress
    <2>9. QED
      BY <2>1, <2>8 DEF Phases, Running
  <1>4. Sending \/ Awaiting \/ Draining \/ AwaitingAck \/ ReadingAck =>
           "onPause" \notin On /\ "onResume" \notin On
    BY DEF Sending, Awaiting, Draining, AwaitingAck, ReadingAck
  <1>5. QED
    BY <1>1, <1>2, <1>3, <1>4 DEF InProgress

-----------------------------------------------------------------------------
(* The request is made, and its message sent *)

\* Executions not asked for yet have no history.
FreshExecs ==
    \A e \in Execs : e > made =>
        ~exec[e].attention /\ ~exec[e].ignored /\ ~exec[e].failed

LEMMA Accepted ==
  ASSUME IndInv, Phases, ~closed, FreshExecs, NEW r \in Requests, NEW reset \in BOOLEAN,
         AcceptRequest(r, reset)
  PROVE  InProgress'
  <1> USE DEF IndInv
  <1>1. Quiet
    BY DEF Phases, InProgress, Sending, Awaiting, Parsing, Draining, AwaitingAck, ReadingAck,
       AcceptRequest, CanExecute
  <1>2. /\ made' = made + 1 /\ made' \in Execs /\ made \in Nat
        /\ exec'[made'].req = r
    BY AcceptHistory, BoundAssumption DEF TypeOK
  <1>3. made' > made /\ made' # NoExec
    BY <1>2 DEF NoExec
  <1>4. ~exec'[made'].attention /\ ~exec'[made'].failed
    <2> DEFINE x == [exec[made'] EXCEPT !.req = r]
    <2>1. exec' = [exec EXCEPT ![made'] = x]
      BY <1>2 DEF AcceptRequest, NewExec
    <2>2. exec[made'] \in ExecRecord
      BY <1>2 DEF TypeOK
    <2>3. x.attention = exec[made'].attention /\ x.failed = exec[made'].failed
      BY <2>2 DEF ExecRecord
    <2> HIDE DEF x
    <2>4. exec'[made'] = x
      BY <1>2, <2>1 DEF TypeOK
    <2>5. QED
      BY <1>2, <1>3, <2>3, <2>4 DEF FreshExecs
  <1>5. request' = made' /\ CurrentRequest' = r
    BY <1>2 DEF AcceptRequest, CurrentRequest
  <1> DEFINE q == [req[r] EXCEPT !.on = @ \cup {"onCancelUnsent"}]
  <1>6. req' = [req EXCEPT ![r] = q]
    BY DEF AcceptRequest
  <1>7. q.on = {"onCancelUnsent"} /\ q.canceled = req[r].canceled
    <2>1. req[r] \in RequestRecord /\ req[r].on = {}
      BY <1>1 DEF Quiet, TypeOK
    <2>2. QED
      BY <2>1 DEF RequestRecord
  <1> HIDE DEF q
  <1>8. req'[r] = q /\ \A x \in Requests : x # r => req'[x] = req[x]
    BY <1>6 DEF TypeOK
  <1>9. On' = {"onCancelUnsent"} /\ ~Canceled' /\ OthersSilent'
    BY <1>1, <1>5, <1>7, <1>8 DEF On, Canceled, OthersSilent, Quiet, AcceptRequest
  <1>10. ~Attended' /\ ~Failed'
    BY <1>4, <1>5 DEF Attended, Failed
  <1>11. out'.phase = "streaming" /\ out'.exec = request'
    BY <1>5 DEF AcceptRequest
  <1>12. Sending'
    BY <1>1, <1>9, <1>10, <1>11
       DEF Sending, AcceptRequest, Quiet, NothingUnderWay, wireVars
  <1>13. QED
    BY <1>3, <1>5, <1>9, <1>12 DEF InProgress

\* An error is set on the Request in progress.
LEMMA ErrorChange ==
  ASSUME IndInv, request # NoExec, SameRequest, NEW code,
         req' = [req EXCEPT ![CurrentRequest].error = code]
  PROVE  /\ Canceled' = Canceled /\ On' = On /\ (OthersSilent => OthersSilent')
         /\ req'[CurrentRequest].error = code
  <1> DEFINE q == [req[CurrentRequest] EXCEPT !.error = code]
  <1>1. q.canceled = Canceled /\ q.on = On /\ q.error = code
    BY CurrentIsRequest DEF RequestRecord, Canceled, On
  <1>2. req' = [req EXCEPT ![CurrentRequest] = q]
    OBVIOUS
  <1> HIDE DEF q
  <1>3. QED
    BY <1>1, <1>2, CurrentIsRequest, RequestChange DEF IndInv

LEMMA PayloadStep ==
  ASSUME IndInv, request # NoExec, OthersSilent, Sending, PayloadEnds \/ PayloadFails
  PROVE  InProgress'
  <1>1. /\ UNCHANGED <<state, request, cancelTimer, reader, parser, toServer, serving,
                       incoming, exec>>
        /\ out.exec = request
    BY DEF PayloadEnds, PayloadFails, connVars, wireVars, histVars, Sending
  <1>2. SameExec
    BY <1>1 DEF SameExec, SameRequest, CurrentRequest, Attended, Ignored, Failed
  <1>3. Canceled' = Canceled /\ On' = On /\ OthersSilent'
    <2>1. CASE PayloadEnds
      BY <1>2, <2>1 DEF PayloadEnds, SameExec, SameRequest, Canceled, On, OthersSilent
    <2>2. CASE PayloadFails
      <3>1. PICK code : req' = [req EXCEPT ![CurrentRequest].error = code]
        BY <1>1, <2>2 DEF PayloadFails, CurrentRequest
      <3>2. QED
        BY <1>2, <3>1, ErrorChange DEF SameExec
    <2>3. QED
      BY <2>1, <2>2
  <1>4. out'.phase # "none" /\ out'.exec = out.exec /\ (out.ignore => out'.ignore)
    <2>1. out \in OutRecord
      BY DEF IndInv, TypeOK
    <2>2. out' = [out EXCEPT !.phase = "ending"] \/ out' = Aborted(out)
      BY DEF PayloadEnds, PayloadFails
    <2>3. QED
      BY <2>1, <2>2 DEF OutRecord, Aborted
  <1>5. Sending'
    BY <1>1, <1>2, <1>3, <1>4, SameWire DEF Sending, SameExec
  <1>6. QED
    BY <1>1, <1>3, <1>5 DEF InProgress

LEMMA MessageSent ==
  ASSUME IndInv, request # NoExec, OthersSilent, Sending, MessageFinishes
  PROVE  InProgress'
  <1> USE DEF IndInv
  <1>1. /\ UNCHANGED <<state, request, cancelTimer, reader, parser, serving, incoming>>
        /\ out.exec = request /\ out' = NoMessage
    BY DEF MessageFinishes, connVars, Sending
  <1>2. /\ request \in Execs /\ exec[request] \in ExecRecord /\ socket = "open"
        /\ CurrentRequest \in Requests /\ req[CurrentRequest] \in RequestRecord
    BY CurrentIsRequest
  <1>3. SameRequest /\ Attended' = Attended /\ Ignored' = out.ignore
    <2> DEFINE x == [exec[request] EXCEPT !.ignored = out.ignore]
    <2>1. exec' = [exec EXCEPT ![request] = x]
      BY <1>1 DEF MessageFinishes
    <2>2. x.req = exec[request].req /\ x.attention = exec[request].attention
          /\ x.ignored = out.ignore
      BY <1>2 DEF ExecRecord
    <2> HIDE DEF x
    <2>3. exec'[request] = x
      BY <1>2, <2>1 DEF TypeOK
    <2>4. QED
      BY <1>1, <2>2, <2>3 DEF SameRequest, CurrentRequest, Attended, Ignored
  <1>4. /\ On' = (On \ {"onCancelUnsent"}) \cup {"cancelAfterRequestSent"}
        /\ Canceled' = Canceled /\ OthersSilent'
    <2> DEFINE on == (On \ {"onCancelUnsent"}) \cup {"cancelAfterRequestSent"}
               q  == [req[CurrentRequest] EXCEPT !.on = on]
    <2>1. req' = [req EXCEPT ![CurrentRequest] = q]
      BY <1>1 DEF MessageFinishes, CurrentRequest, On
    <2> HIDE DEF on
    <2>2. q.on = on /\ q.canceled = Canceled
      BY <1>2 DEF RequestRecord, Canceled
    <2> HIDE DEF q
    <2>3. QED
      BY <1>2, <1>3, <2>1, <2>2, RequestChange DEF on
  <1>5. Underway'
    <2> DEFINE m == [type |-> "request", exec |-> request, reset |-> out.reset]
    <2>1. toServer' = <<m>>
      BY <1>1, <1>2, OneMessage DEF MessageFinishes, Sent, Sending, NothingUnderWay
    <2>2. m \in RequestMessages'
      BY <1>1, <1>2 DEF RequestMessages, ClientMessage, OutRecord, TypeOK
    <2>3. ~Attended'
      BY <1>3 DEF Sending
    <2> HIDE DEF m
    <2>4. QED
      BY <1>1, <2>1, <2>2, <2>3 DEF Underway, Sending, NothingUnderWay
  <1>6. Awaiting'
    BY <1>1, <1>3, <1>4, <1>5 DEF Awaiting, Sending
  <1>7. AfterSending'
    BY <1>1, <1>3, <1>4 DEF AfterSending, Sending
  <1>8. QED
    BY <1>1, <1>4, <1>6, <1>7 DEF InProgress

-----------------------------------------------------------------------------
(* Messages are read *)

LEMMA ResponseRead ==
  ASSUME IndInv, request # NoExec, OthersSilent, AfterSending, Awaiting, ReadResponse
  PROVE  InProgress'
  <1>1. UNCHANGED <<request, cancelTimer, out, toServer, serving, incoming, exec>>
    BY DEF ReadResponse, wireVars, histVars
  <1>2. SameExec
    BY <1>1 DEF SameExec, SameRequest, CurrentRequest, Attended, Ignored, Failed
  <1>3. Answering /\ Answering'
    <2>1. Answering
      BY DEF Awaiting, Underway, Served, ReadResponse, MessageReady
    <2>2. QED
      BY <1>1, <1>2, <2>1, SameWire DEF SameExec
  <1>4. CurrentRequest \in Requests /\ req[CurrentRequest] \in RequestRecord
    BY CurrentIsRequest
  <1>5. CASE Canceled /\ cancelTimer
    <2>1. /\ state' = "SentAttention" /\ reader' = "SentAttention" /\ UNCHANGED req
          /\ parser' = [by |-> "request", exec |-> request, onEnd |-> FALSE, paused |-> FALSE]
      BY <1>5 DEF ReadResponse, Canceled
    <2>2. Canceled' = Canceled /\ On' = On /\ OthersSilent'
      BY <1>2, <2>1 DEF SameExec, SameRequest, Canceled, On, OthersSilent
    <2>3. Draining' /\ AfterSending'
      BY <1>1, <1>2, <1>3, <1>5, <2>1, <2>2 DEF Draining, AfterSending, Awaiting, SameExec
    <2>4. QED
      BY <1>1, <2>2, <2>3 DEF InProgress
  <1>6. CASE ~(Canceled /\ cancelTimer)
    <2> DEFINE paused == req[CurrentRequest].paused
               on == On \cup {"onPause", "onCancelStreaming"}
                        \cup IF paused THEN {"onResume"} ELSE {}
               q  == [req[CurrentRequest] EXCEPT !.on = on]
    <2>1. /\ state' = state /\ reader' = "none" /\ req' = [req EXCEPT ![CurrentRequest] = q]
          /\ parser' = [by |-> "request", exec |-> request, onEnd |-> TRUE, paused |-> paused]
      BY <1>6 DEF ReadResponse, Canceled, On
    <2> HIDE DEF on
    <2>2. q.on = on /\ q.canceled = Canceled
      BY <1>4 DEF RequestRecord, Canceled
    <2> HIDE DEF q
    <2>3. Canceled' = Canceled /\ On' = on /\ OthersSilent'
      BY <1>2, <1>4, <2>1, <2>2, RequestChange DEF SameExec, IndInv
    <2>4. ~Attended'
      BY <1>2, <1>6 DEF AfterSending, Awaiting, SameExec
    <2>5. Parsing'
      BY <1>1, <1>3, <2>1, <2>3, <2>4 DEF Parsing, Awaiting, on
    <2>6. AfterSending'
      BY <1>1, <1>2, <2>3 DEF AfterSending, SameExec
    <2>7. QED
      BY <1>1, <2>3, <2>5, <2>6 DEF InProgress
  <1>7. QED
    BY <1>5, <1>6

LEMMA ErrorTokenRead ==
  ASSUME IndInv, request # NoExec, OthersSilent, AfterSending, Parsing \/ Draining, ErrorToken
  PROVE  InProgress'
  <1> USE DEF IndInv
  <1>1. /\ UNCHANGED <<state, request, cancelTimer, out, reader, parser, toServer, serving>>
        /\ parser.exec = request
    BY DEF ErrorToken, connVars, ioVars, Parsing, Draining
  <1>2. /\ request \in Execs /\ exec[request] \in ExecRecord
        /\ CurrentRequest \in Requests /\ req[CurrentRequest] \in RequestRecord
    BY CurrentIsRequest
  <1>3. SameRequest /\ Attended' = Attended /\ Ignored' = Ignored
    <2> DEFINE x == [exec[request] EXCEPT !.failed = TRUE]
    <2>1. exec' = [exec EXCEPT ![request] = x]
      BY <1>1 DEF ErrorToken
    <2>2. x.req = exec[request].req /\ x.attention = exec[request].attention
          /\ x.ignored = exec[request].ignored
      BY <1>2 DEF ExecRecord
    <2> HIDE DEF x
    <2>3. exec'[request] = x
      BY <1>2, <2>1 DEF TypeOK
    <2>4. QED
      BY <1>1, <2>2, <2>3 DEF SameRequest, CurrentRequest, Attended, Ignored
  <1>4. Canceled' = Canceled /\ On' = On /\ OthersSilent'
    <2>1. CASE req' = req
      BY <1>3, <2>1 DEF SameRequest, Canceled, On, OthersSilent
    <2>2. CASE req' = [req EXCEPT ![CurrentRequest].error = "EREQUEST"]
      BY <1>3, <2>2, ErrorChange
    <2>3. QED
      BY <1>1, <2>1, <2>2 DEF ErrorToken, CurrentRequest
  <1>5. ASSUME NEW eom, NEW m \in Responses(eom)
        PROVE  /\ [m EXCEPT !.failed = FALSE] \in Responses(eom)'
               /\ incoming = <<m>> => incoming' = <<[m EXCEPT !.failed = FALSE]>>
               /\ incoming = <<m, Acknowledgement>> =>
                     incoming' = <<[m EXCEPT !.failed = FALSE], Acknowledgement>>
    <2> DEFINE n == [m EXCEPT !.failed = FALSE]
    <2>1. n \in Responses(eom)'
      BY <1>1 DEF Responses, ServerMessage
    <2>2. incoming[1] = m => incoming' = [incoming EXCEPT ![1] = n]
      BY DEF ErrorToken
    <2> HIDE DEF n
    <2>3. incoming = <<m>> => incoming' = <<n>>
      BY <2>2, OneMessage, ChangedMessage
    <2>4. incoming = <<m, Acknowledgement>> => incoming' = <<n, Acknowledgement>>
      BY <2>2, TwoMessages, ChangedMessage
    <2>5. QED
      BY <2>1, <2>3, <2>4 DEF n
  <1>6. AttentionLast' = AttentionLast /\ Acknowledgement' = Acknowledgement
    BY <1>1, <1>3 DEF AttentionLast, Attention, Acknowledgement
  <1>7. /\ Answering => Answering'
        /\ Answered => Answered'
        /\ AnsweredTwice => AnsweredTwice'
    BY <1>1, <1>5, <1>6 DEF Answering, Answered, AnsweredTwice
  <1>8. AfterSending'
    BY <1>1, <1>3, <1>4 DEF AfterSending
  <1>9. Parsing => Parsing'
    BY <1>1, <1>3, <1>4, <1>7 DEF Parsing
  <1>10. Draining => Draining'
    BY <1>1, <1>3, <1>4, <1>7 DEF Draining
  <1>11. QED
    BY <1>1, <1>4, <1>8, <1>9, <1>10 DEF InProgress

\* What the message at the head of the line is, and what is behind it.
LEMMA ResponseFirst ==
  ASSUME request # NoExec, Answering \/ Answered \/ AnsweredTwice
  PROVE  /\ Head(incoming).exec = request /\ Head(incoming).type = "response"
         /\ Head(incoming).eom => serving = NoExec /\ ~Answering
         /\ Head(incoming).eom =>
               \/ Answered /\ AttentionLast /\ Tail(incoming) = <<>>
               \/ AnsweredTwice /\ toServer = <<>> /\ Tail(incoming) = <<Acknowledgement>>
  <1>1. CASE Answering
    <2>1. PICK m \in Responses(FALSE) : incoming = <<m>>
      BY <1>1 DEF Answering
    <2>2. m.type = "response" /\ m.exec = request /\ m.eom = FALSE
      BY DEF Responses
    <2>3. QED
      BY <2>1, <2>2, OneMessage
  <1>2. CASE Answered
    <2>1. PICK m \in Responses(TRUE) : incoming = <<m>>
      BY <1>2 DEF Answered
    <2>2. m.type = "response" /\ m.exec = request /\ m.eom = TRUE
      BY DEF Responses
    <2>3. QED
      BY <1>2, <2>1, <2>2, OneMessage DEF Answered, Answering
  <1>3. CASE AnsweredTwice
    <2>1. PICK m \in Responses(TRUE) : incoming = <<m, Acknowledgement>>
      BY <1>3 DEF AnsweredTwice
    <2>2. m.type = "response" /\ m.exec = request /\ m.eom = TRUE
      BY DEF Responses
    <2>3. QED
      BY <1>3, <2>1, <2>2, TwoMessages, ZenonT(30) DEF AnsweredTwice, Answering
  <1>4. QED
    BY <1>1, <1>2, <1>3

LEMMA ResponseEnded ==
  ASSUME IndInv, request # NoExec, OthersSilent, AfterSending, Parsing, EndOfMessage
  PROVE  Quiet' /\ UNCHANGED crashed
  <1> USE DEF IndInv
  <1>1. /\ Head(incoming).eom /\ incoming' = Tail(incoming) /\ parser' = NoParser
        /\ state' = "LoggedIn" /\ request' = NoExec /\ requestTimer' = FALSE
        /\ UNCHANGED <<cancelTimer, out, reader, toServer, serving, crashed>>
    BY DEF EndOfMessage, MessageEnds, ClearRequestTimer
  <1>2. ~Attended /\ (Answering \/ Answered) /\ reader = "none" /\ out = NoMessage
        /\ ~cancelTimer
    BY DEF Parsing, AfterSending
  <1>3. toServer = <<>> /\ serving = NoExec /\ Tail(incoming) = <<>>
    <2>1. toServer = <<>>
      BY <1>2 DEF Answering, Answered, AttentionLast
    <2>2. Answered
      BY <1>1, <1>2, ResponseFirst
    <2>3. QED
      BY <2>1, <2>2, OneMessage DEF Answered
  <1>4. \A r \in Requests : req'[r].on = {}
    <2> DEFINE on == On \cap {"onCancelUnsent"}
               q  == [req[CurrentRequest] EXCEPT !.on = on]
    <2>1. req' = [req EXCEPT ![CurrentRequest] = q]
      BY DEF EndOfMessage, RemainingListeners, On
    <2>2. on = {}
      BY DEF Parsing
    <2> HIDE DEF on
    <2>3. CurrentRequest \in Requests /\ q.on = {}
      BY <2>2, CurrentIsRequest DEF RequestRecord
    <2> HIDE DEF q
    <2>4. QED
      BY <2>1, <2>3 DEF TypeOK, OthersSilent
  <1>5. QED
    BY <1>1, <1>2, <1>3, <1>4 DEF Quiet, NothingUnderWay

LEMMA DrainedResponseEnded ==
  ASSUME IndInv, request # NoExec, OthersSilent, AfterSending, Draining, EndOfDrainedMessage
  PROVE  InProgress'
  <1>1. /\ Head(incoming).eom /\ incoming' = Tail(incoming) /\ parser' = NoParser
        /\ UNCHANGED <<state, request, cancelTimer, out, req, reader, toServer, serving, exec>>
    BY DEF EndOfDrainedMessage, MessageEnds, connVars, histVars
  <1>2. SameExec /\ Canceled' = Canceled /\ On' = On /\ OthersSilent'
    BY <1>1 DEF SameExec, SameRequest, CurrentRequest, Attended, Ignored, Failed, Canceled,
       On, OthersSilent
  <1>3. Attention' = Attention /\ Acknowledgement' = Acknowledgement
    BY <1>1 DEF Attention, Acknowledgement
  <1>4. OnlyAttention' \/ OnlyAck'
    BY <1>1, <1>3, ResponseFirst DEF Draining, AttentionLast, OnlyAttention, OnlyAck
  <1>5. AwaitingAck' /\ AfterSending'
    BY <1>1, <1>2, <1>4 DEF AwaitingAck, AfterSending, Draining, SameExec
  <1>6. QED
    BY <1>1, <1>2, <1>5 DEF InProgress

LEMMA AcknowledgementRead ==
  ASSUME IndInv, request # NoExec, OthersSilent, AfterSending, AwaitingAck,
         ReadAcknowledgement
  PROVE  InProgress'
  <1>1. /\ UNCHANGED <<state, request, cancelTimer, out, req, toServer, serving, incoming, exec>>
        /\ reader' = "none" /\ parser'.by = "attention" /\ ~parser'.paused
        /\ incoming # <<>>
    BY DEF ReadAcknowledgement, MessageReady, connVars, wireVars, histVars
  <1>2. SameExec /\ Canceled' = Canceled /\ On' = On /\ OthersSilent'
    BY <1>1 DEF SameExec, SameRequest, CurrentRequest, Attended, Ignored, Failed, Canceled,
       On, OthersSilent
  <1>3. OnlyAck'
    BY <1>1, <1>2, SameWire DEF AwaitingAck, OnlyAttention, SameExec
  <1>4. ReadingAck' /\ AfterSending'
    BY <1>1, <1>2, <1>3 DEF ReadingAck, AwaitingAck, AfterSending, SameExec
  <1>5. QED
    BY <1>1, <1>2, <1>4 DEF InProgress

LEMMA AcknowledgementFirst ==
  ASSUME OnlyAck
  PROVE  Head(incoming).type = "ack" /\ Tail(incoming) = <<>> /\ Head(incoming).eom
  <1>1. Acknowledgement.type = "ack" /\ Acknowledgement.eom
    BY DEF Acknowledgement
  <1>2. QED
    BY <1>1, OneMessage DEF OnlyAck

LEMMA AttentionOver ==
  ASSUME IndInv, request # NoExec, OthersSilent, AfterSending, ReadingAck, Acknowledged
  PROVE  Quiet' /\ UNCHANGED crashed
  <1>1. /\ state' = "LoggedIn" /\ request' = NoExec /\ cancelTimer' = FALSE
        /\ incoming' = Tail(incoming) /\ parser' = NoParser
        /\ UNCHANGED <<requestTimer, req, out, reader, toServer, serving, crashed>>
    BY DEF Acknowledged, MessageEnds
  <1>2. ~requestTimer
    BY DEF IndInv, Bookkeeping, ReadingAck
  <1>3. incoming' = <<>> /\ toServer = <<>> /\ serving = NoExec
    BY <1>1, AcknowledgementFirst DEF ReadingAck, OnlyAck
  <1>4. \A r \in Requests : req[r].on = {}
    BY DEF OthersSilent, ReadingAck, On
  <1>5. QED
    BY <1>1, <1>2, <1>3, <1>4 DEF Quiet, NothingUnderWay, AfterSending, ReadingAck

-----------------------------------------------------------------------------
(* The phases are an invariant. *)

LEMMA ServerInPhase ==
  ASSUME IndInv, request # NoExec, OthersSilent, AfterSending,
         Awaiting \/ Parsing \/ Draining \/ AwaitingAck \/ ReadingAck, TheServer
  PROVE  InProgress'
  <1>1. UNCHANGED <<state, request, cancelTimer, out, req, reader, parser, exec, crashed>>
        /\ Idle
    BY DEF TheServer, ServerReceives, ServerResponds, ServerEndsResponse, ServerAcknowledges,
       ServerVarsOnly, connVars, ioVars, histVars
  <1>2. SameExec /\ Canceled' = Canceled /\ On' = On /\ OthersSilent'
    BY <1>1 DEF SameExec, SameRequest, CurrentRequest, Attended, Ignored, Failed, Canceled,
       On, OthersSilent
  <1>3. request \in Execs
    BY CurrentIsRequest
  <1>4. AfterSending'
    BY <1>1, <1>2 DEF AfterSending, SameExec
  <1>5. Awaiting => Awaiting'
    <2>1. SUFFICES ASSUME Awaiting PROVE Awaiting'
      OBVIOUS
    <2>2. ~Answering
      BY <1>1, <2>1, OneMessage DEF Answering, Awaiting, Idle, Urgent, MessageReady, NoParser
    <2>3. Served' \/ Answering'
      BY <1>1, <1>3, <2>1, <2>2, ServerOnUnderway, ServerOnServed DEF Awaiting
    <2>4. QED
      BY <1>1, <1>2, <2>1, <2>3 DEF Awaiting, SameExec
  <1>6. Parsing => Parsing'
    <2>1. SUFFICES ASSUME Parsing PROVE Parsing'
      OBVIOUS
    <2>2. Answered'
      BY <1>1, <1>3, <2>1, ServerOnAnswering, ServerOnAnswered DEF Parsing
    <2>3. QED
      BY <1>1, <1>2, <2>1, <2>2 DEF Parsing, SameExec
  <1>7. Draining => Draining'
    <2>1. SUFFICES ASSUME Draining PROVE Draining'
      OBVIOUS
    <2>2. Answered' \/ AnsweredTwice'
      BY <1>1, <1>3, <2>1, ServerOnAnswering, ServerOnAnswered, ServerOnAnsweredTwice
         DEF Draining
    <2>3. QED
      BY <1>1, <1>2, <2>1, <2>2 DEF Draining, SameExec
  <1>8. AwaitingAck => AwaitingAck'
    <2>1. SUFFICES ASSUME AwaitingAck PROVE AwaitingAck'
      OBVIOUS
    <2>2. OnlyAck'
      BY <1>1, <2>1, ServerOnAttention, NothingForServer DEF AwaitingAck
    <2>3. QED
      BY <1>1, <1>2, <2>1, <2>2 DEF AwaitingAck, SameExec
  <1>9. ~ReadingAck
    BY NothingForServer DEF ReadingAck
  <1>10. QED
    BY <1>1, <1>2, <1>4, <1>5, <1>6, <1>7, <1>8, <1>9 DEF InProgress

LEMMA NoStepOfItsOwn ==
  ASSUME IndInv, Quiet, OwnStep
  PROVE  \E r \in Requests, reset \in BOOLEAN : AcceptRequest(r, reset)
  <1>1. ~SendStep
    BY DEF Quiet, SendStep, PayloadEnds, PayloadFails, MessageFinishes, NoMessage
  <1>2. ~UrgentStep /\ ~ReceiveStep
    BY DEF Quiet, UrgentStep, ReceiveStep, ReadResponse, ReadAcknowledgement, Acknowledged,
       NotAcknowledged, ErrorToken, EndOfMessage, EndOfDrainedMessage, MessageEnds,
       MessageReady, NoParser
  <1>3. ~TheServer
    BY NothingForServer DEF Quiet
  <1>4. ~CancelStep /\ ~PauseStep
    BY DEF Quiet, CancelStep, PauseStep
  <1>5. QED
    BY <1>1, <1>2, <1>3, <1>4 DEF OwnStep

\* Each phase takes its own steps, and they lead to the next phase.
LEMMA OwnStepInPhase ==
  ASSUME CancelTimeout > 0, IndInv, InProgress, OwnStep, ~PauseStep
  PROVE  (Quiet' \/ InProgress') /\ UNCHANGED crashed
  <1>1. request # NoExec /\ OthersSilent
    BY DEF InProgress
  <1>2. ASSUME NEW r \in Requests, NEW reset \in BOOLEAN, AcceptRequest(r, reset)
        PROVE  FALSE
    BY <1>2 DEF AcceptRequest, CanExecute, InProgress, Sending, Awaiting, Parsing, Draining,
       AwaitingAck, ReadingAck
  <1>3. CASE Sending
    <2>1. ~UrgentStep /\ ~ReceiveStep
      BY <1>3 DEF Sending, NothingUnderWay, UrgentStep, ReceiveStep, ReadResponse,
         ReadAcknowledgement, Acknowledged, NotAcknowledged, ErrorToken, EndOfMessage,
         EndOfDrainedMessage, MessageEnds, MessageReady, NoParser
    <2>2. ~TheServer
      BY <1>3, NothingForServer DEF Sending
    <2>3. CASE CancelStep
      BY <1>1, <1>3, <2>3, CanceledWhileSending DEF CancelStep
    <2>4. CASE SendStep
      BY <1>1, <1>3, <2>4, PayloadStep, MessageSent
         DEF SendStep, PayloadEnds, PayloadFails, MessageFinishes
    <2>5. QED
      BY <1>2, <2>1, <2>2, <2>3, <2>4 DEF OwnStep
  <1>4. CASE AfterSending /\ (Awaiting \/ Parsing \/ Draining \/ AwaitingAck \/ ReadingAck)
    <2>1. ~SendStep
      BY <1>4 DEF AfterSending, SendStep, PayloadEnds, PayloadFails, MessageFinishes, NoMessage
    <2>2. CASE CancelStep
      <3>1. Awaiting \/ Parsing
        BY <1>4, <2>2 DEF CancelStep, Draining, AwaitingAck, ReadingAck
      <3>2. QED
        BY <1>1, <1>4, <2>2, <3>1, CanceledWhileAwaiting, CanceledWhileParsing DEF CancelStep
    <2>3. CASE TheServer
      BY <1>1, <1>4, <2>3, ServerInPhase DEF TheServer, ServerReceives, ServerResponds,
         ServerEndsResponse, ServerAcknowledges, ServerVarsOnly
    <2>4. CASE ReadResponse
      <3>1. Awaiting
        BY <1>4, <2>4 DEF ReadResponse, Parsing, Draining, AwaitingAck, ReadingAck
      <3>2. QED
        BY <1>1, <1>4, <2>4, <3>1, ResponseRead DEF ReadResponse
    <2>5. CASE ReadAcknowledgement
      <3>1. AwaitingAck
        BY <1>4, <2>5 DEF ReadAcknowledgement, MessageReady, Awaiting, Parsing, Draining,
           ReadingAck
      <3>2. QED
        BY <1>1, <1>4, <2>5, <3>1, AcknowledgementRead DEF ReadAcknowledgement
    <2>6. CASE Acknowledged \/ NotAcknowledged
      <3>1. parser.by = "attention"
        BY <2>6 DEF Acknowledged, NotAcknowledged
      <3>2. ReadingAck
        BY <1>4, <3>1 DEF Awaiting, Parsing, Draining, AwaitingAck, NoParser
      <3>3. ~NotAcknowledged
        BY <3>2, AcknowledgementFirst DEF ReadingAck, NotAcknowledged
      <3>4. QED
        BY <1>1, <1>4, <2>6, <3>2, <3>3, AttentionOver
    <2>7. CASE ReceiveStep
      <3>1. parser.by = "request"
        BY <2>7 DEF ReceiveStep, ErrorToken, EndOfMessage, EndOfDrainedMessage
      <3>2. Parsing \/ Draining
        BY <1>4, <3>1 DEF Awaiting, AwaitingAck, ReadingAck, NoParser
      <3>3. CASE ErrorToken
        BY <1>1, <1>4, <3>2, <3>3, ErrorTokenRead DEF ErrorToken
      <3>4. CASE EndOfMessage
        BY <1>1, <1>4, <3>2, <3>4, ResponseEnded DEF EndOfMessage, Draining
      <3>5. CASE EndOfDrainedMessage
        BY <1>1, <1>4, <3>2, <3>5, DrainedResponseEnded DEF EndOfDrainedMessage, Parsing
      <3>6. QED
        BY <2>7, <3>3, <3>4, <3>5 DEF ReceiveStep
    <2>8. QED
      BY <1>2, <2>1, <2>2, <2>3, <2>4, <2>5, <2>6, <2>7 DEF OwnStep, UrgentStep
  <1>5. QED
    BY <1>3, <1>4 DEF InProgress

\* A connection that is closed stays so.
LEMMA ClosedForGood ==
  ASSUME TypeOK, closed, Next
  PROVE  closed'
  <1>1. closed' \in {TRUE, closed}
    <2>1. ASSUME NEW r \in Requests, Execute(r) \/ Reset(r) \/ UserCancel(r)
                                       \/ Pause(r) \/ Resume(r) \/ ConnectionCancel
          PROVE  closed' = closed
      BY <2>1 DEF Execute, Reset, RefuseRequest, AcceptRequest, UserCancel, Pause, Resume,
         ConnectionCancel, connVars
    <2>2. ConnectionCancel \/ SendStep \/ RequestTimerFires \/ UrgentStep \/ ReceiveStep
            \/ SocketCloses \/ ServerStep => closed' = closed
      BY DEF ConnectionCancel, UserCancel, SendStep, PayloadEnds, PayloadFails,
         MessageFinishes, RequestTimerFires,
         UrgentStep, ReadResponse, ReadAcknowledgement, Acknowledged, NotAcknowledged,
         ReceiveStep, ErrorToken, EndOfMessage, EndOfDrainedMessage, SocketCloses,
         ServerStep, ServerReceives, ServerResponds, ServerEndsResponse, ServerAcknowledges,
         ServerVarsOnly, connVars
    <2>3. Close \/ CancelTimerFires \/ SocketFails \/ SocketEnds => closed' = TRUE
      BY DEF Close, CancelTimerFires, SocketFails, SocketEnds, SocketErrorHandler, Shutdown,
         CleanupConnection
    <2>4. QED
      BY <2>1, <2>2, <2>3 DEF Next, Requests, SocketStep
  <1>2. QED
    BY <1>1

LEMMA NextPhases ==
  ASSUME CancelTimeout > 0, IndInv, FreshExecs, Phases, Next
  PROVE  Phases'
  <1>1. CASE closed'
    BY <1>1 DEF Phases
  <1>2. CASE ~closed /\ Unaffected
    BY <1>2, UnaffectedPhases
  <1>3. CASE ~closed /\ PauseStep
    BY <1>3, PausedInPhase
  <1>4. CASE ~closed /\ OwnStep /\ ~PauseStep
    <2>1. CASE Quiet
      <3>1. PICK r \in Requests, reset \in BOOLEAN : AcceptRequest(r, reset)
        BY <1>4, <2>1, NoStepOfItsOwn
      <3>2. InProgress' /\ UNCHANGED crashed
        BY <1>4, <3>1, Accepted DEF AcceptRequest
      <3>3. QED
        BY <1>4, <3>2 DEF Phases, Running
    <2>2. CASE InProgress
      BY <1>4, <2>2, OwnStepInPhase DEF Phases, Running
    <2>3. QED
      BY <1>4, <2>1, <2>2 DEF Phases
  <1>5. QED
    BY <1>1, <1>2, <1>3, <1>4, StepKinds, ClosedForGood DEF IndInv

-----------------------------------------------------------------------------
(* What becomes of an execution *)

Unanswered == {"pending", "ECANCEL", "ETIMEOUT", "ECLOSE", "ESOCKET"}

GoodExec(e, x) ==
    /\ x.calls = 0 => x.outcome = "pending"
    /\ x.attention => x.outcome \in Unanswered
    /\ x.answer \in {NoExec, e}
    /\ x.failed /\ ~x.ignored => x.outcome # "ok"

History == FreshExecs /\ \A e \in Execs : GoodExec(e, exec[e])

\* What is still read or written is for an execution that is not done.
NotDone(e)   == e \in Execs /\ e <= made /\ exec[e].outcome # "ok"
ReadersKnown == /\ parser.by = "request" => NotDone(parser.exec)
                /\ out.phase # "none" => NotDone(out.exec)

\* The ERROR token of a response is kept in the error of the Request.
ErrorKept == ~closed /\ request # NoExec /\ Failed /\ ~Ignored => Error # "none" \/ Attended

\* A step writes one record of the history, of an execution made by then.
Records(e, x) ==
    /\ made' \in {made, made + 1} /\ e <= made'
    /\ exec' = [exec EXCEPT ![e] = x]
    /\ GoodExec(e, x)
    /\ x.outcome = "ok" => exec[e].outcome = "ok" \/ EndOfMessage

KeepsExecs == UNCHANGED <<exec, made>>

WritesHistory == KeepsExecs \/ \E e \in Execs, x \in ExecRecord : Records(e, x)

LEMMA CallbackRecords ==
  ASSUME IndInv, NEW code \in Outcomes, NEW answer \in Execs \cup {NoExec},
         request # NoExec, History, exec' = Callback(request, code, answer), made' = made,
         answer \in {NoExec, request}, code # "pending",
         code \in Unanswered \/ ~Attended,
         code # "ok" \/ (EndOfMessage /\ (Failed => Ignored))
  PROVE  WritesHistory
  <1> DEFINE n == exec[request].calls + 1
             x == [exec[request] EXCEPT !.calls = n, !.outcome = code, !.answer = answer]
  <1>1. request \in Execs /\ exec[request] \in ExecRecord /\ request <= made
        /\ exec[request].calls = 0
    BY CurrentIsRequest
  <1>2. n \in Nat /\ n # 0
    BY <1>1
  <1>3. exec' = [exec EXCEPT ![request] = x]
    BY DEF Callback
  <1> HIDE DEF n
  <1>4. /\ x \in ExecRecord /\ x.calls = n /\ x.outcome = code /\ x.answer = answer
        /\ x.attention = Attended /\ x.failed = Failed /\ x.ignored = Ignored
    BY <1>1, <1>2 DEF ExecRecord, Attended, Failed, Ignored
  <1> HIDE DEF x
  <1>5. GoodExec(request, x)
    BY <1>2, <1>4 DEF GoodExec, Unanswered
  <1>6. Records(request, x)
    BY <1>1, <1>3, <1>4, <1>5 DEF Records
  <1>7. QED
    BY <1>1, <1>4, <1>6 DEF WritesHistory

\* The end of the connection calls the request back as lost.
LEMMA ShutdownRecords ==
  ASSUME IndInv, History, NEW code \in {"ETIMEOUT", "ESOCKET", "ECLOSE"}, Shutdown(code),
         made' = made
  PROVE  WritesHistory
  <1>1. CASE request = NoExec
    BY <1>1 DEF Shutdown, WritesHistory, KeepsExecs
  <1>2. CASE request # NoExec
    <2>1. exec' = Callback(request, code, NoExec) /\ code \in Unanswered /\ code \in Outcomes
      BY <1>2 DEF Shutdown, Unanswered, Outcomes
    <2>2. QED
      BY <1>2, <2>1, CallbackRecords
  <1>3. QED
    BY <1>1, <1>2

\* A refused request is called back with the refusal.
LEMMA RefusedRecords ==
  ASSUME IndInv, History, NEW r \in Requests, RefuseRequest(r)
  PROVE  WritesHistory
  <1> USE DEF IndInv
  <1>1. made' = made + 1 /\ made' \in Execs /\ made \in Nat /\ made' > made
    BY BoundAssumption DEF TypeOK, RefuseRequest, Execs
  <1>2. exec[made'] \in ExecRecord /\ GoodExec(made', exec[made'])
        /\ ~exec[made'].attention /\ ~exec[made'].failed
    BY <1>1 DEF TypeOK, History, FreshExecs
  <1> DEFINE code == IF CanExecute THEN "ECANCEL" ELSE "EINVALIDSTATE"
             y == [exec[made'] EXCEPT !.req = r]
             x == [y EXCEPT !.calls = 1, !.outcome = code]
  <1>3. code \in Outcomes /\ code # "ok"
    BY DEF Outcomes
  <1>4. exec' = [exec EXCEPT ![made'] = x]
    BY <1>1 DEF RefuseRequest, NewExec, TypeOK
  <1> HIDE DEF code
  <1>5. /\ y \in ExecRecord /\ y.attention = exec[made'].attention
        /\ y.failed = exec[made'].failed /\ y.answer = exec[made'].answer
    BY <1>2 DEF ExecRecord
  <1> HIDE DEF y
  <1>6. /\ x \in ExecRecord /\ x.calls = 1 /\ x.outcome = code
        /\ x.attention = y.attention /\ x.failed = y.failed /\ x.answer = y.answer
    BY <1>3, <1>5 DEF ExecRecord
  <1> HIDE DEF x
  <1>7. GoodExec(made', x)
    BY <1>2, <1>5, <1>6 DEF GoodExec
  <1>8. Records(made', x)
    BY <1>1, <1>3, <1>4, <1>6, <1>7 DEF Records
  <1>9. QED
    BY <1>1, <1>6, <1>8 DEF WritesHistory

\* The other fields of a record that is made or changed
LEMMA AcceptedRecords ==
  ASSUME IndInv, History, NEW r \in Requests, NEW reset, AcceptRequest(r, reset)
  PROVE  WritesHistory
  <1> USE DEF IndInv
  <1>1. made' = made + 1 /\ made' \in Execs
    BY BoundAssumption DEF TypeOK, AcceptRequest, Execs
  <1>2. exec[made'] \in ExecRecord /\ GoodExec(made', exec[made'])
    BY <1>1 DEF TypeOK, History
  <1> DEFINE x == [exec[made'] EXCEPT !.req = r]
  <1>3. exec' = [exec EXCEPT ![made'] = x]
    BY <1>1 DEF AcceptRequest, NewExec
  <1>4. /\ x \in ExecRecord /\ x.calls = exec[made'].calls /\ x.outcome = exec[made'].outcome
        /\ x.attention = exec[made'].attention /\ x.failed = exec[made'].failed
        /\ x.ignored = exec[made'].ignored /\ x.answer = exec[made'].answer
    BY <1>2 DEF ExecRecord
  <1> HIDE DEF x
  <1>5. GoodExec(made', x)
    BY <1>2, <1>4 DEF GoodExec
  <1>6. Records(made', x)
    BY <1>1, <1>3, <1>4, <1>5, BoundAssumption DEF Records, TypeOK
  <1>7. QED
    BY <1>1, <1>4, <1>6 DEF WritesHistory

LEMMA FlagRecords ==
  ASSUME IndInv, History, made' = made, NEW e \in Execs, NotDone(e),
         \/ /\ exec' = [exec EXCEPT ![e].attention = TRUE]
            /\ exec[e].calls = 0
         \/ exec' = [exec EXCEPT ![e].failed = TRUE]
         \/ exec' = [exec EXCEPT ![e].ignored = out.ignore]
  PROVE  WritesHistory
  <1> USE DEF IndInv
  <1>1. exec[e] \in ExecRecord /\ GoodExec(e, exec[e]) /\ e <= made'
        /\ exec[e].outcome # "ok"
    BY DEF TypeOK, History, NotDone
  <1>2. out.ignore \in BOOLEAN
    BY DEF TypeOK, OutRecord
  <1>3. PICK x \in ExecRecord :
           /\ exec' = [exec EXCEPT ![e] = x]
           /\ x.calls = exec[e].calls /\ x.outcome = exec[e].outcome
           /\ x.answer = exec[e].answer
           /\ x.attention = exec[e].attention \/ exec[e].calls = 0
    <2> DEFINE x == exec[e]
    <2>1. x \in ExecRecord
      BY <1>1
    <2>2. CASE /\ exec' = [exec EXCEPT ![e].attention = TRUE]
               /\ exec[e].calls = 0
      <3>1. exec' = [exec EXCEPT ![e] = [x EXCEPT !.attention = TRUE]]
        BY <2>2
      <3>2. x.calls = 0
        BY <2>2
      <3> HIDE DEF x
      <3>3. [x EXCEPT !.attention = TRUE] \in ExecRecord
        BY <2>1 DEF ExecRecord
      <3>4. QED
        BY <2>1, <3>1, <3>2, <3>3 DEF ExecRecord, x
    <2>3. CASE exec' = [exec EXCEPT ![e].failed = TRUE]
      <3>1. exec' = [exec EXCEPT ![e] = [x EXCEPT !.failed = TRUE]]
        BY <2>3
      <3> HIDE DEF x
      <3>2. [x EXCEPT !.failed = TRUE] \in ExecRecord
        BY <2>1 DEF ExecRecord
      <3>3. QED
        BY <2>1, <3>1, <3>2 DEF ExecRecord, x
    <2>4. CASE exec' = [exec EXCEPT ![e].ignored = out.ignore]
      <3>1. exec' = [exec EXCEPT ![e] = [x EXCEPT !.ignored = out.ignore]]
        BY <2>4
      <3> HIDE DEF x
      <3>2. [x EXCEPT !.ignored = out.ignore] \in ExecRecord
        BY <1>2, <2>1 DEF ExecRecord
      <3>3. QED
        BY <1>2, <2>1, <3>1, <3>2 DEF ExecRecord, x
    <2>5. QED
      BY <2>2, <2>3, <2>4
  <1>4. GoodExec(e, x)
    BY <1>1, <1>3 DEF GoodExec, Unanswered
  <1>5. Records(e, x)
    BY <1>1, <1>3, <1>4 DEF Records
  <1>6. QED
    BY <1>5 DEF WritesHistory

LEMMA CancelRecords ==
  ASSUME IndInv, History, NEW r \in Requests, NEW err, Cancel(r, err), made' = made
  PROVE  WritesHistory
  <1>1. CASE exec' = exec
    BY <1>1 DEF WritesHistory, KeepsExecs
  <1>2. CASE request # NoExec /\ exec' = [exec EXCEPT ![request].attention = TRUE]
    <2>1. request \in Execs /\ exec[request].calls = 0 /\ request <= made
      BY <1>2, CurrentIsRequest
    <2>2. NotDone(request)
      BY <2>1 DEF NotDone, History, GoodExec
    <2>3. QED
      BY <1>2, <2>1, <2>2, FlagRecords
  <1>3. QED
    BY <1>1, <1>2 DEF Cancel, OnCancelSent

\* The request is called back with the result of its own response.
LEMMA ResultRecords ==
  ASSUME IndInv, Phases, History, ErrorKept, EndOfMessage
  PROVE  WritesHistory
  <1> USE DEF IndInv
  <1>1. CASE request = NoExec
    BY <1>1 DEF EndOfMessage, WritesHistory, KeepsExecs
  <1>2. CASE request # NoExec
    <2>1. ~closed
      BY <1>2, CurrentIsRequest
    <2>2. Parsing
      BY <2>1 DEF EndOfMessage, Phases, Quiet, InProgress, Sending, Awaiting, Draining,
         AwaitingAck, ReadingAck, NoParser
    <2>3. ~Attended /\ Head(incoming).exec = request
      BY <1>2, <2>2, ResponseFirst DEF Parsing
    <2>4. /\ exec' = Callback(request, Result(Error), Head(incoming).exec)
          /\ made' = made
      BY <1>2 DEF EndOfMessage, Error
    <2>5. Error \in Errors
      BY <1>2, CurrentIsRequest DEF RequestRecord, Error
    <2>6. Result(Error) \in Outcomes /\ Result(Error) # "pending"
      BY <2>5 DEF Result, Outcomes, Errors
    <2>7. Result(Error) # "ok" \/ (Failed => Ignored)
      BY <1>2, <2>1, <2>3, <2>5 DEF Result, ErrorKept, Errors
    <2>8. request \in Execs \cup {NoExec}
      BY DEF TypeOK
    <2> HIDE DEF IndInv
    <2>9. QED
      BY <1>2, <2>3, <2>4, <2>6, <2>7, <2>8, CallbackRecords
  <1>3. QED
    BY <1>1, <1>2

LEMMA NextWritesHistory ==
  ASSUME IndInv, Phases, History, ReadersKnown, ErrorKept, Next
  PROVE  WritesHistory
  <1>1. ASSUME NEW r \in Requests, Execute(r) \/ Reset(r)  PROVE WritesHistory
    BY <1>1, RefusedRecords, AcceptedRecords DEF Execute, Reset
  <1>2. ASSUME NEW r \in Requests, UserCancel(r)  PROVE WritesHistory
    BY <1>2, CancelRecords DEF UserCancel
  <1>3. ASSUME NEW r \in Requests, Pause(r) \/ Resume(r)  PROVE WritesHistory
    BY <1>3 DEF Pause, Resume, histVars, WritesHistory, KeepsExecs
  <1>4. ConnectionCancel => WritesHistory
    BY <1>2, CurrentIsRequest DEF ConnectionCancel
  <1>5. RequestTimerFires => WritesHistory
    <2>1. RequestTimerFires => request # NoExec
      BY DEF RequestTimerFires, IndInv, Bookkeeping
    <2>2. QED
      BY <2>1, CancelRecords, CurrentIsRequest
         DEF RequestTimerFires, WritesHistory, KeepsExecs
  <1>6. Close \/ CancelTimerFires \/ SocketFails \/ SocketEnds => WritesHistory
    BY ShutdownRecords DEF Close, CancelTimerFires, SocketFails, SocketEnds, SocketErrorHandler
  <1>7. PayloadEnds \/ PayloadFails \/ ReadResponse \/ ReadAcknowledgement
          \/ EndOfDrainedMessage \/ NotAcknowledged \/ SocketCloses \/ ServerStep
          => WritesHistory
    BY DEF PayloadEnds, PayloadFails, ReadResponse, ReadAcknowledgement, EndOfDrainedMessage,
       NotAcknowledged, SocketCloses, ServerStep, ServerReceives, ServerResponds,
       ServerEndsResponse, ServerAcknowledges, ServerVarsOnly, histVars, WritesHistory,
       KeepsExecs
  <1>8. MessageFinishes => WritesHistory
    <2>1. SUFFICES ASSUME MessageFinishes PROVE WritesHistory
      OBVIOUS
    <2>2. NotDone(out.exec) /\ out.exec \in Execs
      BY <2>1 DEF MessageFinishes, ReadersKnown, NotDone
    <2>3. exec' = [exec EXCEPT ![out.exec].ignored = out.ignore] /\ made' = made
      BY <2>1 DEF MessageFinishes
    <2>4. QED
      BY <2>2, <2>3, FlagRecords
  <1>9. ErrorToken => WritesHistory
    <2>1. SUFFICES ASSUME ErrorToken PROVE WritesHistory
      OBVIOUS
    <2>2. NotDone(parser.exec) /\ parser.exec \in Execs
      BY <2>1 DEF ErrorToken, ReadersKnown, NotDone
    <2>3. exec' = [exec EXCEPT ![parser.exec].failed = TRUE] /\ made' = made
      BY <2>1 DEF ErrorToken
    <2>4. QED
      BY <2>2, <2>3, FlagRecords
  <1>10. EndOfMessage => WritesHistory
    BY ResultRecords
  <1>11. Acknowledged => WritesHistory
    <2>1. SUFFICES ASSUME Acknowledged PROVE WritesHistory
      OBVIOUS
    <2>2. CASE request = NoExec
      BY <2>1, <2>2 DEF Acknowledged, WritesHistory, KeepsExecs
    <2>3. CASE request # NoExec
      <3>1. PICK code \in {"ETIMEOUT", "ECANCEL"} :
               exec' = Callback(request, code, NoExec) /\ made' = made
        BY <2>1, <2>3 DEF Acknowledged
      <3>2. code \in Unanswered /\ code \in Outcomes
        BY DEF Unanswered, Outcomes
      <3>3. QED
        BY <2>3, <3>1, <3>2, CallbackRecords
    <2>4. QED
      BY <2>2, <2>3
  <1>12. QED
    BY <1>1, <1>2, <1>3, <1>4, <1>5, <1>6, <1>7, <1>8, <1>9, <1>10, <1>11
       DEF Next, Requests, SendStep, UrgentStep, ReceiveStep, SocketStep

LEMMA HistoryWritten ==
  ASSUME IndInv, History, WritesHistory
  PROVE  /\ History'
         /\ \A e : NotDone(e) => NotDone(e)' \/ (EndOfMessage /\ exec' # exec)
  <1> USE DEF IndInv
  <1>1. CASE KeepsExecs
    BY <1>1 DEF KeepsExecs, History, FreshExecs, NotDone
  <1>2. ASSUME NEW e \in Execs, NEW x \in ExecRecord, Records(e, x)
        PROVE  /\ History'
               /\ \A d : NotDone(d) => NotDone(d)' \/ (EndOfMessage /\ exec' # exec)
    <2>1. exec'[e] = x /\ \A d \in Execs : d # e => exec'[d] = exec[d]
      BY <1>2 DEF Records, TypeOK
    <2>2. made' \in Nat /\ made \in Nat /\ made' >= made /\ e <= made'
      BY <1>2, BoundAssumption DEF Records, TypeOK
    <2>3. FreshExecs'
      <3>1. SUFFICES ASSUME NEW d \in Execs, d > made'
                     PROVE  ~exec'[d].attention /\ ~exec'[d].ignored /\ ~exec'[d].failed
        BY DEF FreshExecs
      <3>2. d # e /\ d > made
        BY <2>2, <3>1 DEF Execs
      <3>3. QED
        BY <2>1, <3>2 DEF History, FreshExecs
    <2>4. \A d \in Execs : GoodExec(d, exec'[d])
      BY <1>2, <2>1 DEF History, Records
    <2>5. ASSUME NEW d, NotDone(d)  PROVE NotDone(d)' \/ (EndOfMessage /\ exec' # exec)
      <3>1. d \in Execs /\ d <= made' /\ exec[d].outcome # "ok"
        BY <2>2, <2>5 DEF NotDone, Execs
      <3>2. CASE d # e
        BY <2>1, <3>1, <3>2 DEF NotDone
      <3>3. CASE d = e
        BY <1>2, <2>1, <3>1, <3>3 DEF NotDone, Records
      <3>4. QED
        BY <3>2, <3>3
    <2>6. QED
      BY <2>3, <2>4, <2>5 DEF History, GoodExec
  <1>3. QED
    BY <1>1, <1>2 DEF WritesHistory

\* A parser or a message for a request is there since the response was read or
\* the request made.
LEMMA CancelKeepsReaders ==
  ASSUME TypeOK, NEW r, NEW err, Cancel(r, err)
  PROVE  /\ parser'.by = parser.by /\ parser'.exec = parser.exec
         /\ out'.phase # "none" => out' = out \/ out' = Aborted(out)
  <1> DEFINE still == parser.paused /\ ~(CancelResumes(r) /\ Listening(r, "onResume"))
  <1>1. parser' = parser \/ parser' = [parser EXCEPT !.onEnd = FALSE, !.paused = still]
    BY DEF Cancel, OnCancelStreaming, Detached
  <1> HIDE DEF still
  <1>2. parser'.by = parser.by /\ parser'.exec = parser.exec
    BY <1>1 DEF TypeOK, ParserRecord
  <1>3. QED
    BY <1>2 DEF Cancel, OnCancelUnsent

LEMMA ParserOrigin ==
  ASSUME IndInv, Next, parser'.by = "request"
  PROVE  ReadResponse \/ (~EndOfMessage /\ parser.by = "request" /\ parser'.exec = parser.exec)
  <1> USE DEF IndInv
  <1>1. ~EndOfMessage /\ ~EndOfDrainedMessage /\ ~Acknowledged /\ ~NotAcknowledged
        /\ ~ReadAcknowledgement
    BY DEF EndOfMessage, EndOfDrainedMessage, Acknowledged, NotAcknowledged, MessageEnds,
       ReadAcknowledgement, NoParser
  <1>2. ASSUME NEW r \in Requests, UserCancel(r) \/ Pause(r) \/ Resume(r)
        PROVE  parser.by = "request" /\ parser'.exec = parser.exec
    BY <1>2, CancelKeepsReaders, PausedParser DEF UserCancel
  <1>3. ASSUME NEW r \in Requests, Execute(r) \/ Reset(r)  PROVE parser' = parser
    BY <1>3 DEF Execute, Reset, RefuseRequest, AcceptRequest, ioVars
  <1>4. ConnectionCancel => parser.by = "request" /\ parser'.exec = parser.exec
    BY <1>2, CurrentIsRequest DEF ConnectionCancel
  <1>5. RequestTimerFires => parser.by = "request" /\ parser'.exec = parser.exec
    BY CancelKeepsReaders DEF RequestTimerFires
  <1>6. Close \/ CancelTimerFires \/ SendStep \/ ErrorToken \/ SocketStep \/ ServerStep
          => parser' = parser
    BY DEF Close, CancelTimerFires, SendStep, PayloadEnds, PayloadFails, MessageFinishes,
       ErrorToken, SocketStep, SocketFails, SocketEnds, SocketCloses, ServerStep,
       ServerReceives, ServerResponds, ServerEndsResponse, ServerAcknowledges,
       ServerVarsOnly, ioVars
  <1>7. QED
    BY <1>1, <1>2, <1>3, <1>4, <1>5, <1>6 DEF Next, Requests, UrgentStep, ReceiveStep

-----------------------------------------------------------------------------
(* The message being written, with any timeouts *)

\* What was asked for an execution stays.
KeepsRequests ==
    /\ made' \in {made, made + 1}
    /\ \A e \in Execs : e <= made => exec'[e].req = exec[e].req

LEMMA NextKeepsRequests ==
  ASSUME IndInv, Next
  PROVE  KeepsRequests
  <1> USE DEF IndInv
  <1>1. made \in Nat
    BY BoundAssumption DEF TypeOK
  <1>2. ASSUME NEW r \in Requests, Execute(r) \/ Reset(r)  PROVE KeepsRequests
    <2>1. made' = made + 1 /\ \A e \in Execs : e # made' => exec'[e] = exec[e]
      BY <1>2, RefuseHistory, AcceptHistory DEF Execute, Reset
    <2>2. QED
      BY <1>1, <2>1 DEF KeepsRequests, Execs
  <1>3. KeepsHistory => KeepsRequests
    BY DEF KeepsHistory, KeepsRequests
  <1>4. UNCHANGED histVars => KeepsRequests
    BY DEF histVars, KeepsRequests
  <1>5. ASSUME NEW r \in Requests, UserCancel(r) \/ Pause(r) \/ Resume(r)  PROVE KeepsRequests
    BY <1>3, <1>4, <1>5, CancelKeepsHistory DEF UserCancel, Pause, Resume
  <1>6. ConnectionCancel => KeepsRequests
    BY <1>5, CurrentIsRequest DEF ConnectionCancel
  <1>7. RequestTimerFires => KeepsRequests
    BY <1>3, CancelKeepsHistory DEF RequestTimerFires, KeepsRequests
  <1>8. ASSUME NEW e \in Execs, CallsBack(e)  PROVE KeepsRequests
    BY <1>8 DEF CallsBack, KeepsRequests
  <1>9. request # NoExec => request \in Execs
    BY CurrentIsRequest
  <1>10. Close \/ CancelTimerFires \/ SocketFails \/ SocketEnds => KeepsRequests
    BY <1>3, <1>8, <1>9, ShutdownHistory
       DEF Close, CancelTimerFires, SocketFails, SocketEnds, SocketErrorHandler
  <1>11. SendStep \/ ErrorToken => KeepsRequests
    BY <1>3, SendKeepsHistory, ErrorTokenKeepsHistory DEF SendStep
  <1>12. EndOfMessage \/ Acknowledged => KeepsRequests
    BY <1>8, <1>9, CallbackCallsBack DEF EndOfMessage, Acknowledged, KeepsRequests
  <1>13. ReadResponse \/ ReadAcknowledgement \/ NotAcknowledged \/ EndOfDrainedMessage
           \/ SocketCloses \/ ServerStep => KeepsRequests
    BY <1>4 DEF ReadResponse, ReadAcknowledgement, NotAcknowledged, EndOfDrainedMessage,
       SocketCloses, ServerStep, ServerReceives, ServerResponds, ServerEndsResponse,
       ServerAcknowledges, ServerVarsOnly
  <1>14. QED
    BY <1>2, <1>5, <1>6, <1>7, <1>10, <1>11, <1>12, <1>13
       DEF Next, Requests, UrgentStep, ReceiveStep, SocketStep

\* onCancel of makeRequest listens on the Request whose message is written,
\* which carries the reset flag if it is one of reset().
MessageKnown ==
    /\ out.phase # "none" =>
          /\ out.exec \in Execs /\ out.exec <= made
          /\ exec[out.exec].req \in ResetRequests => out.reset
    /\ \A r \in Requests : "onCancelUnsent" \in req[r].on =>
          out.phase # "none" /\ r = exec[out.exec].req

Making == \E r \in Requests, reset \in BOOLEAN :
              AcceptRequest(r, reset) /\ (r \in ResetRequests => reset)

\* No other step starts a message or registers that listener.
LEMMA UnsentListeners ==
  ASSUME IndInv, Next
  PROVE  Making \/ \A r \in Requests :
            "onCancelUnsent" \in req'[r].on => "onCancelUnsent" \in req[r].on
  <1> USE DEF IndInv
  <1> DEFINE Fewer == \A r \in Requests :
                         "onCancelUnsent" \in req'[r].on => "onCancelUnsent" \in req[r].on
  <1>1. ASSUME NEW r, NEW q, req' = [req EXCEPT ![r] = q],
               "onCancelUnsent" \in q.on => "onCancelUnsent" \in req[r].on
        PROVE  Fewer
    BY <1>1 DEF TypeOK
  <1>2. req' = req => Fewer
    OBVIOUS
  <1> HIDE DEF Fewer
  <1>3. ASSUME NEW r \in Requests, NEW e, req' = [req EXCEPT ![r].error = e]  PROVE Fewer
    <2> DEFINE q == [req[r] EXCEPT !.error = e]
    <2>1. q.on = req[r].on
      BY DEF TypeOK, RequestRecord
    <2>2. req' = [req EXCEPT ![r] = q]
      BY <1>3
    <2> HIDE DEF q
    <2>3. QED
      BY <1>1, <2>1, <2>2
  <1>4. ASSUME NEW r \in Requests, NEW err \in Errors, Cancel(r, err)  PROVE Fewer
    <2> DEFINE q == CanceledRecord(r, err)
    <2>1. req' = [req EXCEPT ![r] = q] /\ q.on = req[r].on \cap UncanceledListeners(r)
      BY <1>4, CanceledRequest
    <2> HIDE DEF q
    <2>2. QED
      BY <1>1, <2>1
  <1>5. ASSUME NEW r \in Requests, UserCancel(r)  PROVE Fewer
    BY <1>4, <1>5 DEF UserCancel, TypeOK, RequestRecord
  <1>6. ASSUME NEW r \in Requests, Pause(r)  PROVE Fewer
    <2> DEFINE q == PausedRecord(r)
    <2>1. req' = [req EXCEPT ![r] = q]
          /\ (q.on = req[r].on \/ q.on = req[r].on \cup {"onResume"})
      BY <1>6, PausedRequest
    <2> HIDE DEF q
    <2>2. QED
      BY <1>1, <2>1
  <1>7. ASSUME NEW r \in Requests, Resume(r)  PROVE Fewer
    <2> DEFINE q == ResumedRecord(r)
    <2>1. req' = [req EXCEPT ![r] = q] /\ q.on = req[r].on \ {"onResume"}
      BY <1>7, ResumedRequest
    <2> HIDE DEF q
    <2>2. QED
      BY <1>1, <2>1
  <1>8. ASSUME NEW r \in Requests, RefuseRequest(r)  PROVE Fewer
    BY <1>2, <1>8 DEF RefuseRequest
  <1>9. ASSUME NEW r \in UserRequests, Execute(r)  PROVE Fewer \/ Making
    <2>1. r \in Requests /\ r \notin ResetRequests
      BY RequestAssumption DEF Requests
    <2>2. resetConnectionOnNextRequest \in BOOLEAN
      BY DEF TypeOK
    <2>3. QED
      BY <1>8, <1>9, <2>1, <2>2 DEF Execute, Making
  <1>10. ASSUME NEW r \in ResetRequests, Reset(r)  PROVE Fewer \/ Making
    BY <1>8, <1>10 DEF Reset, Making, Requests
  <1>11. ConnectionCancel => Fewer
    BY <1>5, CurrentIsRequest DEF ConnectionCancel
  <1>12. RequestTimerFires => Fewer
    <2>1. RequestTimerFires => request # NoExec /\ "ETIMEOUT" \in Errors
      BY DEF RequestTimerFires, Bookkeeping, Errors
    <2>2. QED
      BY <1>3, <1>4, <2>1, CurrentIsRequest DEF RequestTimerFires
  <1>13. PayloadFails => Fewer
    <2> DEFINE r == exec[out.exec].req
               e == SetError(req[r].error, "EPAYLOAD")
    <2>1. SUFFICES ASSUME PayloadFails PROVE Fewer
      OBVIOUS
    <2>2. req' = [req EXCEPT ![r].error = e]
      BY <2>1 DEF PayloadFails
    <2> HIDE DEF r, e
    <2>3. CASE r \in Requests
      BY <1>3, <2>2, <2>3
    <2>4. CASE r \notin Requests
      BY <1>2, <2>2, <2>4 DEF TypeOK
    <2>5. QED
      BY <2>3, <2>4
  <1>14. MessageFinishes => Fewer
    <2> DEFINE r == exec[out.exec].req
               on == (req[r].on \ {"onCancelUnsent"}) \cup {"cancelAfterRequestSent"}
               q == [req[r] EXCEPT !.on = on]
    <2>1. SUFFICES ASSUME MessageFinishes PROVE Fewer
      OBVIOUS
    <2>2. req' = [req EXCEPT ![r] = q]
      BY <2>1 DEF MessageFinishes
    <2>3. CASE r \in Requests
      <3>1. q.on = on
        BY <2>3 DEF TypeOK, RequestRecord
      <3> HIDE DEF q
      <3>2. QED
        BY <1>1, <2>2, <3>1
    <2>4. CASE r \notin Requests
      <3> HIDE DEF q
      <3>1. QED
        BY <1>2, <2>2, <2>4 DEF TypeOK
    <2>5. QED
      BY <2>3, <2>4
  <1>15. ReadResponse => Fewer
    <2> DEFINE r == CurrentRequest
               on == req[r].on \cup {"onPause", "onCancelStreaming"}
                        \cup IF req[r].paused THEN {"onResume"} ELSE {}
               q == [req[r] EXCEPT !.on = on]
    <2>1. SUFFICES ASSUME ReadResponse PROVE Fewer
      OBVIOUS
    <2>2. request # NoExec
      BY <2>1 DEF ReadResponse, MessageReady, OneReader
    <2>3. req' = req \/ req' = [req EXCEPT ![r] = q]
      BY <2>1 DEF ReadResponse
    <2> HIDE DEF on
    <2>4. q.on = on
      BY <2>2, CurrentIsRequest DEF RequestRecord
    <2>5. "onCancelUnsent" \in on => "onCancelUnsent" \in req[r].on
      BY DEF on
    <2> HIDE DEF q
    <2>6. QED
      BY <1>1, <1>2, <2>3, <2>4, <2>5
  <1>16. ErrorToken => Fewer
    <2> DEFINE r == exec[parser.exec].req
    <2>1. SUFFICES ASSUME ErrorToken PROVE Fewer
      OBVIOUS
    <2>2. req' = req \/ req' = [req EXCEPT ![r].error = "EREQUEST"]
      BY <2>1 DEF ErrorToken
    <2> HIDE DEF r
    <2>3. CASE r \in Requests
      BY <1>2, <1>3, <2>2, <2>3
    <2>4. CASE r \notin Requests
      BY <1>2, <2>2, <2>4 DEF TypeOK
    <2>5. QED
      BY <2>3, <2>4
  <1>17. EndOfMessage => Fewer
    <2> DEFINE r == CurrentRequest
               q == [req[r] EXCEPT !.on = req[r].on \cap {"onCancelUnsent"}]
    <2>1. SUFFICES ASSUME EndOfMessage PROVE Fewer
      OBVIOUS
    <2>2. CASE request = NoExec
      BY <1>2, <2>1, <2>2 DEF EndOfMessage
    <2>3. CASE request # NoExec
      <3>1. req' = [req EXCEPT ![r] = q]
        BY <2>1, <2>3 DEF EndOfMessage, RemainingListeners
      <3>2. q.on = req[r].on \cap {"onCancelUnsent"}
        BY <2>3, CurrentIsRequest DEF RequestRecord
      <3> HIDE DEF q
      <3>3. QED
        BY <1>1, <3>1, <3>2
    <2>4. QED
      BY <2>2, <2>3
  <1>18. PayloadEnds \/ ReadAcknowledgement \/ EndOfDrainedMessage \/ Acknowledged
           \/ NotAcknowledged \/ Close \/ CancelTimerFires \/ SocketStep \/ ServerStep => Fewer
    BY <1>2 DEF PayloadEnds, ReadAcknowledgement, EndOfDrainedMessage, Acknowledged,
       NotAcknowledged, Close, CancelTimerFires, SocketStep, SocketFails, SocketEnds,
       SocketCloses, ServerStep, ServerReceives, ServerResponds, ServerEndsResponse,
       ServerAcknowledges, ServerVarsOnly
  <1>19. QED
    BY <1>5, <1>6, <1>7, <1>9, <1>10, <1>11, <1>12, <1>13, <1>14, <1>15, <1>16, <1>17, <1>18
       DEF Next, Requests, SendStep, UrgentStep, ReceiveStep, Fewer

LEMMA MessageOrigin ==
  ASSUME IndInv, MessageKnown, Next
  PROVE  \/ Making
         \/ out' = out /\ ~MessageFinishes
         \/ /\ out.phase # "none" /\ out'.phase # "none"
            /\ out'.exec = out.exec /\ out'.reset = out.reset
            /\ ~EndOfMessage /\ ~MessageFinishes
         \/ MessageFinishes /\ out' = NoMessage
  <1> USE DEF IndInv
  <1> DEFINE Goes == \/ out' = out
                     \/ /\ out.phase # "none" /\ out'.phase # "none"
                        /\ out'.exec = out.exec /\ out'.reset = out.reset
  <1>1. /\ Aborted(out).exec = out.exec /\ Aborted(out).reset = out.reset
        /\ Aborted(out).phase = "ending"
    BY DEF TypeOK, OutRecord, Aborted
  <1>2. ASSUME NEW r \in Requests, NEW err, Cancel(r, err)  PROVE Goes
    BY <1>1, <1>2 DEF Cancel, OnCancelUnsent, Listening, MessageKnown
  <1>3. ASSUME NEW r \in Requests, UserCancel(r) \/ Pause(r) \/ Resume(r)  PROVE Goes
    BY <1>2, <1>3 DEF UserCancel, Pause, Resume
  <1>4. ASSUME NEW r \in UserRequests, Execute(r)  PROVE Goes \/ Making
    <2>1. r \in Requests /\ r \notin ResetRequests
      BY RequestAssumption DEF Requests
    <2>2. resetConnectionOnNextRequest \in BOOLEAN
      BY DEF TypeOK
    <2>3. QED
      BY <1>4, <2>1, <2>2 DEF Execute, RefuseRequest, ioVars, Making
  <1>5. ASSUME NEW r \in ResetRequests, Reset(r)  PROVE Goes \/ Making
    BY <1>5 DEF Reset, RefuseRequest, ioVars, Making, Requests
  <1>6. ConnectionCancel => Goes
    BY <1>3, CurrentIsRequest DEF ConnectionCancel
  <1>7. RequestTimerFires => Goes
    BY <1>2, CurrentIsRequest DEF RequestTimerFires, Bookkeeping
  <1>8. PayloadEnds => Goes
    BY DEF PayloadEnds, TypeOK, OutRecord
  <1>9. PayloadFails => Goes
    BY <1>1 DEF PayloadFails
  <1>10. UrgentStep \/ ReceiveStep \/ Close \/ CancelTimerFires \/ SocketStep \/ ServerStep
           => out' = out
    BY DEF UrgentStep, ReadResponse, ReadAcknowledgement, Acknowledged, NotAcknowledged,
       ReceiveStep, ErrorToken, EndOfMessage, EndOfDrainedMessage, Close, CancelTimerFires,
       SocketStep, SocketFails, SocketEnds, SocketCloses, ServerStep, ServerReceives,
       ServerResponds, ServerEndsResponse, ServerAcknowledges, ServerVarsOnly, ioVars
  <1>11. EndOfMessage => out' = out
    BY DEF EndOfMessage
  <1>12. MessageFinishes => out' = NoMessage /\ out.phase = "ending" /\ out' # out
    BY DEF MessageFinishes, NoMessage
  <1>13. MessageFinishes => ~EndOfMessage
    BY <1>11, <1>12
  <1> HIDE DEF IndInv
  <1>14. QED
    BY <1>3, <1>4, <1>5, <1>6, <1>7, <1>8, <1>9, <1>10, <1>11, <1>12, <1>13
       DEF Next, Requests, SendStep, ReceiveStep

LEMMA MadeExec ==
  ASSUME IndInv, NEW r \in Requests, NEW reset, AcceptRequest(r, reset)
  PROVE  /\ out'.exec = made' /\ out'.reset = reset /\ made' \in Execs
         /\ exec'[made'].req = r
         /\ \A x \in Requests : x # r => req'[x] = req[x]
  BY AcceptHistory DEF IndInv, AcceptRequest, TypeOK

\* The listener goes with the message.
LEMMA FinishedListener ==
  ASSUME IndInv, MessageFinishes
  PROVE  /\ \A x \in Requests : x # exec[out.exec].req => req'[x] = req[x]
         /\ exec[out.exec].req \in Requests =>
               "onCancelUnsent" \notin req'[exec[out.exec].req].on
  <1> DEFINE r == exec[out.exec].req
             on == (req[r].on \ {"onCancelUnsent"}) \cup {"cancelAfterRequestSent"}
             q == [req[r] EXCEPT !.on = on]
  <1>1. req' = [req EXCEPT ![r] = q]
    BY DEF MessageFinishes
  <1>2. r \in Requests => q.on = on
    BY DEF IndInv, TypeOK, RequestRecord
  <1>3. "onCancelUnsent" \notin on
    OBVIOUS
  <1> HIDE DEF q, r, on
  <1>4. (r \in Requests => req'[r] = q) /\ \A x \in Requests : x # r => req'[x] = req[x]
    BY <1>1 DEF IndInv, TypeOK
  <1>5. QED
    BY <1>2, <1>3, <1>4 DEF r

LEMMA NextMessageKnown ==
  ASSUME IndInv, MessageKnown, Next
  PROVE  MessageKnown'
  <1>1. KeepsRequests
    BY NextKeepsRequests
  <1>2. made \in Nat /\ made' \in {made, made + 1}
    BY <1>1, BoundAssumption DEF KeepsRequests, IndInv, TypeOK
  <1>3. out.phase # "none" =>
           /\ out.exec \in Execs /\ out.exec <= made'
           /\ exec'[out.exec].req = exec[out.exec].req
    BY <1>1, <1>2 DEF KeepsRequests, MessageKnown, Execs
  <1>4. CASE Making
    <2>1. PICK r \in Requests, reset \in BOOLEAN :
             AcceptRequest(r, reset) /\ (r \in ResetRequests => reset)
      BY <1>4 DEF Making
    <2>2. \A x \in Requests : "onCancelUnsent" \notin req[x].on
      BY <2>1 DEF AcceptRequest, MessageKnown, NoMessage
    <2>3. out'.phase # "none"
      BY <2>1 DEF AcceptRequest
    <2>4. made' <= made'
      BY <1>2
    <2>5. QED
      BY <2>1, <2>2, <2>3, <2>4, MadeExec DEF MessageKnown
  <1>5. CASE MessageFinishes /\ out' = NoMessage
    <2>1. ASSUME NEW x \in Requests, "onCancelUnsent" \in req'[x].on  PROVE FALSE
      BY <1>5, <2>1, FinishedListener DEF MessageKnown
    <2>2. QED
      BY <1>5, <2>1 DEF MessageKnown, NoMessage
  <1>6. CASE ~Making /\ ~MessageFinishes
    <2>1. \A r \in Requests : "onCancelUnsent" \in req'[r].on => "onCancelUnsent" \in req[r].on
      BY <1>6, UnsentListeners
    <2>2. \/ out' = out
          \/ /\ out.phase # "none" /\ out'.phase # "none"
             /\ out'.exec = out.exec /\ out'.reset = out.reset
      BY <1>6, MessageOrigin
    <2>3. QED
      BY <1>3, <2>1, <2>2 DEF MessageKnown
  <1>7. QED
    BY <1>4, <1>5, <1>6, MessageOrigin

\* A request message on its way carries the reset flag if it is one of reset().
GoodMessage(m) ==
    m.type = "request" =>
        /\ m.exec \in Execs /\ m.exec <= made
        /\ exec[m.exec].req \in ResetRequests => m.reset

ResetsFlagged == \A i \in DOMAIN toServer : GoodMessage(toServer[i])

InitialRequest == [type |-> "request", exec |-> out.exec, reset |-> out.reset]

\* The messages on their way to the server are sent, taken in order, or lost.
LEMMA NextToServer ==
  ASSUME IndInv, Next
  PROVE  \/ toServer' = toServer
         \/ toServer' = <<>>
         \/ toServer # <<>> /\ toServer' = Tail(toServer)
         \/ \E m \in ClientMessage : toServer' = Append(toServer, m) /\ m.type # "request"
         \/ MessageFinishes /\ toServer' = Append(toServer, InitialRequest)
  <1> USE DEF IndInv
  <1> DEFINE Goes == \/ toServer' = toServer
                     \/ toServer' = <<>>
                     \/ toServer # <<>> /\ toServer' = Tail(toServer)
                     \/ \E m \in ClientMessage :
                           toServer' = Append(toServer, m) /\ m.type # "request"
  <1>1. ASSUME NEW r, NEW err, Cancel(r, err)  PROVE Goes
    <2>1. Attention \in ClientMessage /\ Attention.type # "request"
      BY DEF Attention, ClientMessage, TypeOK
    <2>2. toServer' = toServer \/ toServer' = Append(toServer, Attention)
      BY <1>1 DEF Cancel, OnCancelSent, Sent, Attention
    <2>3. QED
      BY <2>1, <2>2
  <1>2. ASSUME NEW r \in Requests, UserCancel(r)  PROVE Goes
    BY <1>1, <1>2 DEF UserCancel
  <1>3. ASSUME NEW r \in Requests, Execute(r) \/ Reset(r) \/ Pause(r) \/ Resume(r)  PROVE Goes
    BY <1>3 DEF Execute, Reset, RefuseRequest, AcceptRequest, Pause, Resume, wireVars
  <1>4. ConnectionCancel => Goes
    BY <1>1 DEF ConnectionCancel, UserCancel
  <1>5. RequestTimerFires => Goes
    BY <1>1 DEF RequestTimerFires
  <1>6. Close \/ CancelTimerFires \/ SocketFails \/ SocketEnds => Goes
    BY DEF Close, CancelTimerFires, SocketFails, SocketEnds, SocketErrorHandler, Shutdown,
       CleanupConnection
  <1>7. PayloadEnds \/ PayloadFails \/ UrgentStep \/ ReceiveStep \/ SocketCloses => Goes
    BY DEF PayloadEnds, PayloadFails, UrgentStep, ReadResponse, ReadAcknowledgement,
       Acknowledged, NotAcknowledged, ReceiveStep, ErrorToken, EndOfMessage,
       EndOfDrainedMessage, SocketCloses, wireVars
  <1>8. ServerStep => Goes
    BY DEF ServerStep, ServerReceives, ServerResponds, ServerEndsResponse, ServerAcknowledges
  <1>9. MessageFinishes => Goes \/ toServer' = Append(toServer, InitialRequest)
    BY DEF MessageFinishes, Sent, InitialRequest
  <1> HIDE DEF Goes
  <1>10. Next => Goes \/ (MessageFinishes /\ toServer' = Append(toServer, InitialRequest))
    BY <1>2, <1>3, <1>4, <1>5, <1>6, <1>7, <1>8, <1>9
       DEF Next, Requests, SendStep, SocketStep
  <1>11. QED
    BY <1>10 DEF Goes

LEMMA NextResetsFlagged ==
  ASSUME IndInv, MessageKnown, ResetsFlagged, Next
  PROVE  ResetsFlagged'
  <1>1. KeepsRequests
    BY NextKeepsRequests
  <1>2. made \in Nat /\ made' \in {made, made + 1} /\ toServer \in Seq(ClientMessage)
    BY <1>1, BoundAssumption DEF KeepsRequests, IndInv, TypeOK
  <1>3. ASSUME NEW m, GoodMessage(m)  PROVE GoodMessage(m)'
    <2>1. SUFFICES ASSUME m.type = "request"
                   PROVE  /\ m.exec \in Execs /\ m.exec <= made'
                          /\ exec'[m.exec].req \in ResetRequests => m.reset
      BY DEF GoodMessage
    <2>2. /\ m.exec \in Execs /\ m.exec <= made /\ m.exec \in Nat
          /\ exec[m.exec].req \in ResetRequests => m.reset
      BY <1>3, <2>1 DEF GoodMessage, Execs
    <2>3. QED
      BY <1>1, <1>2, <2>2 DEF KeepsRequests
  <1>4. ASSUME NEW m \in ClientMessage, GoodMessage(m)', toServer' = Append(toServer, m)
        PROVE  ResetsFlagged'
    <2>1. /\ DOMAIN toServer = 1..Len(toServer)
          /\ DOMAIN toServer' = 1..(Len(toServer) + 1)
          /\ \A i \in 1..Len(toServer) : toServer'[i] = toServer[i]
          /\ toServer'[Len(toServer) + 1] = m
      BY <1>2, <1>4
    <2>2. \A i \in 1..Len(toServer) : GoodMessage(toServer[i])'
      BY <1>3, <2>1 DEF ResetsFlagged
    <2>3. SUFFICES ASSUME NEW i \in DOMAIN toServer'  PROVE GoodMessage(toServer[i])'
      BY DEF ResetsFlagged
    <2>4. i \in 1..Len(toServer) \/ i = Len(toServer) + 1
      BY <1>2, <2>1
    <2>5. QED
      BY <1>4, <2>1, <2>2, <2>4 DEF GoodMessage
  <1>5. CASE toServer' = toServer \/ toServer' = <<>>
    BY <1>3, <1>5 DEF ResetsFlagged, GoodMessage
  <1>6. CASE toServer # <<>> /\ toServer' = Tail(toServer)
    <2>1. \A i \in DOMAIN toServer' : i + 1 \in DOMAIN toServer
                                      /\ toServer'[i] = toServer[i + 1]
      BY <1>2, <1>6
    <2>2. QED
      BY <1>3, <2>1 DEF ResetsFlagged, GoodMessage
  <1>7. CASE \E m \in ClientMessage : toServer' = Append(toServer, m) /\ m.type # "request"
    BY <1>4, <1>7 DEF GoodMessage
  <1>8. CASE MessageFinishes /\ toServer' = Append(toServer, InitialRequest)
    <2>1. out.exec \in Execs /\ out.reset \in BOOLEAN
      BY <1>8 DEF MessageFinishes, MessageKnown, IndInv, TypeOK, OutRecord
    <2>2. PICK m : m = InitialRequest
      OBVIOUS
    <2>3. m \in ClientMessage
      BY <2>1, <2>2 DEF InitialRequest, ClientMessage
    <2>4. GoodMessage(m)
      BY <1>8, <2>2 DEF GoodMessage, InitialRequest, MessageFinishes, MessageKnown
    <2>5. GoodMessage(m)'
      BY <1>3, <2>4
    <2>6. QED
      BY <1>4, <1>8, <2>2, <2>3, <2>5
  <1>9. QED
    BY <1>5, <1>6, <1>7, <1>8, NextToServer
\* Initially there are no messages.
LEMMA InitMessages == Init => MessageKnown /\ ResetsFlagged
  <1> SUFFICES ASSUME Init  PROVE MessageKnown /\ ResetsFlagged
    OBVIOUS
  <1>1. DOMAIN toServer = {}
    BY DEF Init
  <1>2. out.phase = "none" /\ \A r \in Requests : req[r].on = {}
    BY DEF Init, NoMessage
  <1>3. QED
    BY <1>1, <1>2 DEF MessageKnown, ResetsFlagged

\* Every message that goes out for a request of reset() carries the reset flag,
\* whenever the message before it finishes and whatever is canceled meanwhile.
THEOREM ResetFlagSent == Spec => []ResetCarriesFlag
  <1> DEFINE Flagged == IndInv /\ MessageKnown /\ ResetsFlagged
  <1>1. Init => Flagged
    BY InitIndInv, InitMessages
  <1>2. Flagged /\ [Next]_vars => Flagged'
    <2>1. Flagged /\ Next => Flagged'
      BY NextIndInv, NextMessageKnown, NextResetsFlagged
    <2>2. Flagged /\ UNCHANGED vars => Flagged'
      <3>1. UNCHANGED vars => UNCHANGED <<req, out, toServer, exec, made>>
        BY DEF vars, ioVars, wireVars, histVars
      <3>2. UNCHANGED <<req, out, toServer, exec, made>> =>
               (MessageKnown => MessageKnown') /\ (ResetsFlagged => ResetsFlagged')
        BY DEF MessageKnown, ResetsFlagged, GoodMessage
      <3>3. QED
        BY <3>1, <3>2, NextIndInv
    <2>3. QED
      BY <2>1, <2>2
  <1>3. Flagged => ResetCarriesFlag
    BY DEF ResetsFlagged, GoodMessage, ResetCarriesFlag
  <1>4. QED
    BY <1>1, <1>2, <1>3, PTL DEF Spec

-----------------------------------------------------------------------------
(* What is read or written goes on for a request that is not done *)

LEMMA NextReadersKnown ==
  ASSUME IndInv, Phases, History, ReadersKnown, MessageKnown, ErrorKept, Next
  PROVE  ReadersKnown'
  <1>1. /\ \A e : NotDone(e) => NotDone(e)' \/ (EndOfMessage /\ exec' # exec)
        /\ History' /\ IndInv'
    BY NextWritesHistory, HistoryWritten, NextIndInv
  <1>2. ASSUME parser'.by = "request"  PROVE NotDone(parser.exec)'
    <2>1. CASE ReadResponse
      <3>1. parser'.exec = request /\ exec' = exec /\ made' = made
        BY <2>1 DEF ReadResponse, histVars
      <3>2. request # NoExec
        BY <2>1 DEF ReadResponse, MessageReady, IndInv, OneReader
      <3>3. NotDone(request)
        BY <3>2, CurrentIsRequest DEF NotDone, History, GoodExec
      <3>4. QED
        BY <3>1, <3>3 DEF NotDone
    <2>2. CASE ~EndOfMessage /\ parser.by = "request" /\ parser'.exec = parser.exec
      <3>1. NotDone(parser.exec)
        BY <2>2 DEF ReadersKnown
      <3>2. PICK e : e = parser.exec
        OBVIOUS
      <3>3. NotDone(e)'
        BY <1>1, <2>2, <3>1, <3>2
      <3>4. QED
        BY <2>2, <3>2, <3>3 DEF NotDone
    <2>3. QED
      BY <1>2, <2>1, <2>2, ParserOrigin
  <1>3. ASSUME out'.phase # "none"  PROVE NotDone(out.exec)'
    <2>1. CASE Making
      <3>1. PICK r \in Requests, reset \in BOOLEAN : AcceptRequest(r, reset)
        BY <2>1 DEF Making
      <3>2. out'.exec = made' /\ made' \in Execs
        BY <3>1, MadeExec
      <3>3. request' = made' /\ made' # NoExec
        BY <3>1, <3>2 DEF AcceptRequest, Execs, NoExec
      <3>4. made' <= made' /\ exec'[made'].calls = 0
        <4>1. (request # NoExec)' => request' <= made' /\ exec'[request'].calls = 0
          BY <1>1 DEF IndInv, Bookkeeping
        <4>2. QED
          BY <3>3, <4>1 DEF NoExec
      <3>5. exec'[made'].outcome = "pending"
        BY <1>1, <3>2, <3>4 DEF History, GoodExec
      <3>6. QED
        BY <3>2, <3>4, <3>5 DEF NotDone
    <2>2. CASE out.phase # "none" /\ out'.exec = out.exec /\ ~(EndOfMessage /\ exec' # exec)
      <3>1. PICK e : e = out.exec
        OBVIOUS
      <3>2. NotDone(e)'
        BY <1>1, <2>2, <3>1 DEF ReadersKnown
      <3>3. QED
        BY <2>2, <3>1, <3>2 DEF NotDone
    <2>3. CASE out' = out /\ EndOfMessage /\ exec' # exec
      <3>1. request # NoExec /\ parser.by = "request" /\ parser.onEnd
        BY <2>3 DEF EndOfMessage
      <3>2. AfterSending
        BY <3>1, CurrentIsRequest DEF Phases, Quiet, InProgress, Sending, NoParser
      <3>3. QED
        BY <1>3, <2>3, <3>2 DEF AfterSending, NoMessage
    <2>4. QED
      BY <1>3, <2>1, <2>2, <2>3, MessageOrigin DEF NoMessage
  <1>4. QED
    BY <1>2, <1>3 DEF ReadersKnown

-----------------------------------------------------------------------------
(* An ERROR token stays with the Request until its callback *)

\* The steps that change nothing of what became of the request in progress
LEMMA ErrorKeptAsItWas ==
  ASSUME ErrorKept, ~closed, UNCHANGED request,
         request # NoExec =>
             /\ Failed' = Failed /\ Ignored' = Ignored /\ (Attended => Attended')
             /\ Error # "none" => Error' # "none"
  PROVE  ErrorKept'
  BY DEF ErrorKept

LEMMA PauseKeepsError ==
  ASSUME IndInv, ErrorKept, ~closed, PauseStep
  PROVE  ErrorKept'
  <1> DEFINE r == CurrentRequest
  <1>1. r \in Requests /\ TypeOK
    BY CurrentIsRequest DEF PauseStep, IndInv
  <1>2. UNCHANGED <<request, exec>>
    BY DEF PauseStep, Pause, Resume, connVars, histVars
  <1>3. SameExec
    BY <1>2 DEF SameExec, SameRequest, CurrentRequest, Attended, Ignored, Failed
  <1>4. PICK q : req' = [req EXCEPT ![r] = q] /\ q.error = req[r].error
    BY <1>1, PausedRequest, ResumedRequest DEF PauseStep
  <1>5. Error' = Error
    BY <1>1, <1>3, <1>4, RequestChange DEF SameExec, Error
  <1>6. QED
    BY <1>2, <1>3, <1>5, ErrorKeptAsItWas DEF SameExec

LEMMA SendKeepsError ==
  ASSUME IndInv, Phases, ~closed, SendStep
  PROVE  ErrorKept'
  <1> USE DEF IndInv
  <1>1. request # NoExec /\ Sending /\ out.exec = request /\ OthersSilent
    BY DEF SendStep, PayloadEnds, PayloadFails, MessageFinishes, Phases, Quiet, InProgress,
       AfterSending, Sending, NoMessage
  <1>2. request \in Execs /\ exec[request] \in ExecRecord /\ ~exec[request].failed
    BY <1>1, CurrentIsRequest DEF Sending, Failed
  <1>3. CASE PayloadEnds \/ PayloadFails
    BY <1>2, <1>3 DEF PayloadEnds, PayloadFails, connVars, histVars, ErrorKept, Failed
  <1>4. CASE MessageFinishes
    <2> DEFINE x == [exec[request] EXCEPT !.ignored = out.ignore]
    <2>1. exec' = [exec EXCEPT ![request] = x] /\ request' = request
      BY <1>1, <1>4 DEF MessageFinishes, connVars
    <2>2. ~x.failed
      BY <1>2 DEF ExecRecord
    <2> HIDE DEF x
    <2>3. exec'[request] = x
      BY <1>2, <2>1 DEF TypeOK
    <2>4. QED
      BY <2>1, <2>2, <2>3 DEF ErrorKept, Failed
  <1>5. QED
    BY <1>3, <1>4 DEF SendStep

LEMMA ReadKeepsError ==
  ASSUME IndInv, ErrorKept, ~closed, UrgentStep
  PROVE  ErrorKept'
  <1>1. CASE Acknowledged
    BY <1>1 DEF Acknowledged, ErrorKept, NoExec
  <1>2. CASE ReadAcknowledgement \/ NotAcknowledged
    BY <1>2, ErrorKeptAsItWas DEF ReadAcknowledgement, NotAcknowledged, connVars, histVars,
       Failed, Ignored, Attended, Error, CurrentRequest
  <1>3. CASE ReadResponse
    <2> DEFINE r == CurrentRequest
    <2>1. UNCHANGED <<request, exec>> /\ request # NoExec
      BY <1>3 DEF ReadResponse, MessageReady, histVars, IndInv, OneReader
    <2>2. r \in Requests /\ req[r] \in RequestRecord /\ TypeOK
      BY <2>1, CurrentIsRequest DEF IndInv
    <2>3. SameExec
      BY <2>1 DEF SameExec, SameRequest, CurrentRequest, Attended, Ignored, Failed
    <2>4. PICK on : req' = req \/ req' = [req EXCEPT ![r].on = on]
      BY <1>3 DEF ReadResponse
    <2> DEFINE q == [req[r] EXCEPT !.on = on]
    <2>5. q.error = req[r].error
      BY <2>2 DEF RequestRecord
    <2>6. req' = req \/ req' = [req EXCEPT ![r] = q]
      BY <2>4
    <2> HIDE DEF q
    <2>7. Error' = Error
      BY <2>2, <2>3, <2>5, <2>6, RequestChange DEF SameExec, SameRequest, Error
    <2>8. QED
      BY <2>1, <2>3, <2>7, ErrorKeptAsItWas DEF SameExec
  <1>4. QED
    BY <1>1, <1>2, <1>3 DEF UrgentStep

\* RequestTokenHandler ignores the error of a canceled request only.
LEMMA ErrorTokenKeepsError ==
  ASSUME IndInv, Phases, ~closed, ErrorToken
  PROVE  ErrorKept'
  <1> USE DEF IndInv
  <1>1. /\ request # NoExec /\ parser.exec = request /\ AfterSending
        /\ UNCHANGED <<request>>
    BY DEF ErrorToken, connVars, Phases, Quiet, InProgress, Sending, Awaiting, Parsing,
       Draining, AwaitingAck, ReadingAck, NoParser
  <1>2. /\ request \in Execs /\ exec[request] \in ExecRecord
        /\ CurrentRequest \in Requests /\ req[CurrentRequest] \in RequestRecord
    BY <1>1, CurrentIsRequest
  <1>3. SameRequest /\ Attended' = Attended /\ Ignored' = Ignored
    <2> DEFINE x == [exec[request] EXCEPT !.failed = TRUE]
    <2>1. exec' = [exec EXCEPT ![request] = x]
      BY <1>1 DEF ErrorToken
    <2>2. x.req = exec[request].req /\ x.attention = exec[request].attention
          /\ x.ignored = exec[request].ignored
      BY <1>2 DEF ExecRecord
    <2> HIDE DEF x
    <2>3. exec'[request] = x
      BY <1>2, <2>1 DEF TypeOK
    <2>4. QED
      BY <1>1, <2>2, <2>3 DEF SameRequest, CurrentRequest, Attended, Ignored
  <1>4. CASE Canceled
    BY <1>1, <1>3, <1>4 DEF AfterSending, ErrorKept
  <1>5. CASE ~Canceled
    <2>1. req' = [req EXCEPT ![CurrentRequest].error = "EREQUEST"]
      BY <1>1, <1>5 DEF ErrorToken, Canceled, CurrentRequest
    <2>2. Error' = "EREQUEST"
      BY <1>1, <1>3, <2>1, ErrorChange DEF Error, SameRequest
    <2>3. QED
      BY <2>2 DEF ErrorKept
  <1>6. QED
    BY <1>4, <1>5

LEMMA NextErrorKept ==
  ASSUME CancelTimeout > 0, IndInv, FreshExecs, Phases, ErrorKept, Next
  PROVE  ErrorKept'
  <1>1. CASE closed'
    BY <1>1 DEF ErrorKept
  <1>2. CASE ~closed /\ Unaffected
    BY <1>2, ErrorKeptAsItWas DEF Unaffected, SameExec
  <1>3. CASE ~closed /\ OwnStep
    <2>1. ASSUME NEW r \in Requests, NEW reset \in BOOLEAN, AcceptRequest(r, reset)
          PROVE  ErrorKept'
      <3>1. InProgress'
        BY <1>3, <2>1, Accepted
      <3>2. out'.phase = "streaming"
        BY <2>1 DEF AcceptRequest
      <3>3. QED
        BY <3>1, <3>2 DEF InProgress, AfterSending, Sending, NoMessage, ErrorKept
    <2>2. CASE CancelStep
      BY <1>3, <2>2, CurrentCanceled, ErrorKeptAsItWas DEF CancelStep
    <2>3. CASE EndOfMessage
      BY <2>3 DEF EndOfMessage, ErrorKept, NoExec
    <2>4. CASE EndOfDrainedMessage \/ TheServer
      BY <1>3, <2>4, ErrorKeptAsItWas DEF EndOfDrainedMessage, TheServer, ServerReceives,
         ServerResponds, ServerEndsResponse, ServerAcknowledges, ServerVarsOnly, connVars,
         histVars, Failed, Ignored, Attended, Error, CurrentRequest
    <2>5. QED
      BY <1>3, <2>1, <2>2, <2>3, <2>4, PauseKeepsError, SendKeepsError, ReadKeepsError,
         ErrorTokenKeepsError DEF OwnStep, ReceiveStep
  <1>4. QED
    BY <1>1, <1>2, <1>3, StepKinds, ClosedForGood DEF IndInv

-----------------------------------------------------------------------------
(* The theorems.  The default cancelTimeout is 5000 (DEFAULT_CANCEL_TIMEOUT); *)
(* with 0 the response to a canceled request is left to the next reader.      *)

WireInv == /\ IndInv /\ Phases /\ History
           /\ MessageKnown /\ ReadersKnown /\ ErrorKept

LEMMA InitWireInv == Init => WireInv
  <1> SUFFICES ASSUME Init  PROVE WireInv
    OBVIOUS
  <1>1. Phases
    BY DEF Init, Phases, Running, Quiet, NothingUnderWay
  <1>2. \A e \in Execs :
           /\ exec[e].outcome = "pending" /\ exec[e].answer = NoExec
           /\ ~exec[e].attention /\ ~exec[e].ignored /\ ~exec[e].failed
    BY DEF Init
  <1>3. History
    BY <1>2 DEF History, FreshExecs, GoodExec, Unanswered
  <1>4. ReadersKnown /\ ErrorKept
    BY DEF Init, ReadersKnown, ErrorKept, NoParser, NoMessage
  <1>5. QED
    BY <1>1, <1>3, <1>4, InitIndInv, InitMessages DEF WireInv

LEMMA WireInvStutters ==
  ASSUME WireInv, UNCHANGED vars
  PROVE  WireInv'
  <1>1. UNCHANGED <<state, closed, request, requestTimer, cancelTimer, req, out, reader,
                    parser, socket, toServer, serving, incoming, made, exec, crashed>>
    BY DEF vars, connVars, ioVars, wireVars, histVars
  <1>2. IndInv'
    BY NextIndInv DEF WireInv
  <1>3. History' /\ MessageKnown' /\ ReadersKnown' /\ ErrorKept'
    BY <1>1 DEF WireInv, History, FreshExecs, GoodExec, MessageKnown, ReadersKnown, NotDone,
       ErrorKept, Failed, Ignored, Attended, Error, CurrentRequest
  <1>4. Unaffected
    BY <1>1 DEF Unaffected, SameExec, SameRequest, CurrentRequest, Attended, Ignored, Failed,
       Canceled, On, Error, OthersSilent
  <1>5. Phases'
    BY <1>4, UnaffectedPhases DEF WireInv
  <1>6. QED
    BY <1>2, <1>3, <1>5 DEF WireInv

LEMMA NextWireInv ==
  ASSUME CancelTimeout > 0
  PROVE  WireInv /\ [Next]_vars => WireInv'
  <1>1. ASSUME WireInv, Next  PROVE WireInv'
    <2>1. WritesHistory
      BY <1>1, NextWritesHistory DEF WireInv
    <2>2. History'
      BY <1>1, <2>1, HistoryWritten DEF WireInv
    <2>3. Phases' /\ ErrorKept'
      BY <1>1, NextPhases, NextErrorKept DEF WireInv, History
    <2>4. MessageKnown' /\ ReadersKnown'
      BY <1>1, NextMessageKnown, NextReadersKnown DEF WireInv
    <2>5. IndInv'
      BY <1>1, NextIndInv DEF WireInv
    <2>6. QED
      BY <2>2, <2>3, <2>4, <2>5 DEF WireInv
  <1>2. QED
    BY <1>1, WireInvStutters

LEMMA WireInvariance ==
  ASSUME CancelTimeout > 0
  PROVE  Spec => []WireInv
  BY InitWireInv, NextWireInv, PTL DEF Spec

\* When the connection takes requests again nothing of the last one is left:
\* not a message, reader, parser, timer or listener, whatever was canceled,
\* paused, timed out or failed before.
THEOREM NothingLeftOfARequest ==
  ASSUME CancelTimeout > 0
  PROVE  Spec => []QuietWhenLoggedIn
  <1>1. WireInv => QuietWhenLoggedIn
    BY DEF WireInv, Phases, Quiet, InProgress, Sending, Awaiting, Parsing, Draining,
       AwaitingAck, ReadingAck, NothingUnderWay, QuietWhenLoggedIn
  <1>2. QED
    BY <1>1, WireInvariance, PTL

\* onEndOfMessage completes a request on the end of the response to it, never
\* on that to an earlier one.
THEOREM OwnResponse ==
  ASSUME CancelTimeout > 0
  PROVE  Spec => []AnsweredByOwnResponse
  <1>1. WireInv => AnsweredByOwnResponse
    BY DEF WireInv, History, GoodExec, AnsweredByOwnResponse
  <1>2. QED
    BY <1>1, WireInvariance, PTL

\* Once an ATTENTION is out for a request, it ends as canceled, timed out or
\* lost with the connection, and until then its parser is not paused.
THEOREM AttentionHonoured ==
  ASSUME CancelTimeout > 0
  PROVE  Spec => []AttentionIsHonoured
  <1>1. ASSUME WireInv, NEW e \in Execs, exec[e].attention
        PROVE  exec[e].outcome \in {"pending", "ECANCEL", "ETIMEOUT", "ECLOSE", "ESOCKET"}
    BY <1>1 DEF WireInv, History, GoodExec, Unanswered
  <1>2. ASSUME WireInv, ~closed, request # NoExec, exec[request].attention
        PROVE  ~parser.paused
    BY <1>2 DEF WireInv, Phases, Quiet, InProgress, Sending, Awaiting, Parsing, Draining,
       AwaitingAck, ReadingAck, Attended, NoParser
  <1>3. WireInv => AttentionIsHonoured
    BY <1>1, <1>2 DEF AttentionIsHonoured
  <1>4. QED
    BY <1>3, WireInvariance, PTL

\* A request that the server failed is not called back as done, unless the
\* server was told to ignore it.
THEOREM ErrorReported ==
  ASSUME CancelTimeout > 0
  PROVE  Spec => []ErrorIsReported
  <1>1. WireInv => ErrorIsReported
    BY DEF WireInv, History, GoodExec, ErrorIsReported
  <1>2. QED
    BY <1>1, WireInvariance, PTL

=============================================================================

----------------------- MODULE RequestExecutionProofs -----------------------
(***************************************************************************)
(* What is proved of RequestExecution for every value of its constants: in *)
(* particular with and without the two timeouts.                           *)
(***************************************************************************)
EXTENDS RequestExecution, TLAPS

-----------------------------------------------------------------------------
(* The inductive invariant *)

\* The execution in progress is the only one made that has not been called
\* back, and there is one only on a connection that is up.
Bookkeeping ==
    /\ request # NoExec => ~closed /\ request <= made /\ exec[request].calls = 0
    /\ \A e \in Execs : e > made => exec[e].calls = 0
    /\ \A e \in Execs : e <= made =>
          exec[e].req \in Requests /\ (e # request => exec[e].calls = 1)
    /\ state = "LoggedIn" => request = NoExec
    /\ state = "LoggedIn" /\ Running => ~closed
    /\ state = "Final" => closed
    /\ closed <=> socket # "open"
    /\ requestTimer => /\ request # NoExec
                       /\ state = "SentClientRequest" /\ reader = "SentClientRequest"

\* There is one reader or parser at a time, except that SENT_ATTENTION waits
\* while the response before the acknowledgement is drained; and what reads a
\* response does so for a request.
OneReader ==
    /\ parser.by # "none" => incoming # <<>>
    /\ reader = "SentClientRequest" => parser.by = "none"
    /\ reader = "SentClientRequest" /\ ~closed => request # NoExec
    /\ reader = "SentClientRequest" /\ closed => incoming = <<>>
    /\ parser.by = "request" /\ parser.onEnd => reader = "none"
    /\ parser.by = "attention" /\ request # NoExec => reader = "none"
    /\ state = "LoggedIn" /\ Running => reader = "none" /\ parser.by = "none"

\* On a connection that is up, onCancel of SENT_CLIENT_REQUEST is registered on
\* a request it can still cancel only while the response to it is parsed.
CancelReachesParser ==
    ~closed => \A r \in Requests :
        "onCancelStreaming" \in req[r].on /\ ~req[r].canceled =>
            /\ parser.by = "request" /\ parser.onEnd
            /\ request # NoExec /\ r = CurrentRequest

IndInv == TypeOK /\ Bookkeeping /\ OneReader /\ CancelReachesParser

-----------------------------------------------------------------------------
(* Types *)

USE DEF Execs, NoExec, NoMessage, NoParser

LEMMA InitTypeOK == Init => TypeOK
  <1> SUFFICES ASSUME Init PROVE TypeOK
    OBVIOUS
  <1>1. req \in [Requests -> RequestRecord]
    <2>1. [canceled |-> FALSE, paused |-> FALSE, error |-> "none", on |-> {}]
             \in RequestRecord
      BY DEF RequestRecord, Errors
    <2>2. QED
      BY <2>1 DEF Init
  <1>2. exec \in [Execs -> ExecRecord]
    <2>1. [req |-> NoRequest, calls |-> 0, outcome |-> "pending", answer |-> NoExec,
           attention |-> FALSE, ignored |-> FALSE, failed |-> FALSE] \in ExecRecord
      BY DEF ExecRecord, Outcomes
    <2>2. QED
      BY <2>1 DEF Init
  <1>3. out \in OutRecord /\ parser \in ParserRecord /\ reader \in Readers
    BY DEF Init, OutRecord, ParserRecord, Readers
  <1>4. toServer \in Seq(ClientMessage) /\ incoming \in Seq(ServerMessage)
    BY DEF Init
  <1>5. made \in 0..MaxExecs
    BY BoundAssumption DEF Init
  <1>6. state \in States /\ crashed \in Crashes
    BY DEF Init, States, Crashes
  <1> HIDE DEF NoMessage, NoParser
  <1>7. QED
    BY <1>1, <1>2, <1>3, <1>4, <1>5, <1>6 DEF Init, TypeOK

LEMMA CallbackType ==
  ASSUME exec \in [Execs -> ExecRecord], NEW e \in Execs,
         NEW code \in Outcomes, NEW answer \in Execs \cup {NoExec}
  PROVE  Callback(e, code, answer) \in [Execs -> ExecRecord]
  <1> DEFINE x == exec[e]
  <1>a. x \in ExecRecord
    OBVIOUS
  <1> HIDE DEF x, Execs
  <1>1. [x EXCEPT !.calls = @ + 1, !.outcome = code, !.answer = answer] \in ExecRecord
    <2> DEFINE n == x.calls + 1
    <2>1. n \in Nat
      BY <1>a DEF ExecRecord
    <2> HIDE DEF n
    <2>2. [x EXCEPT !.calls = n, !.outcome = code, !.answer = answer] \in ExecRecord
      BY <1>a, <2>1 DEF ExecRecord
    <2>3. QED
      BY <2>2 DEF n
  <1>2. Callback(e, code, answer) =
          [exec EXCEPT ![e] = [exec[e] EXCEPT !.calls = @ + 1, !.outcome = code,
                                              !.answer = answer]]
    BY DEF Callback
  <1>3. QED
    BY <1>1, <1>2 DEF x

LEMMA ShutdownType ==
  ASSUME TypeOK, NEW code \in Outcomes, Shutdown(code)
  PROVE  /\ state' \in States /\ closed' \in BOOLEAN
         /\ request' \in Execs \cup {NoExec} /\ requestTimer' \in BOOLEAN
         /\ socket' \in {"open", "destroyed", "closed"}
         /\ toServer' \in Seq(ClientMessage) /\ serving' \in Execs \cup {NoExec}
         /\ exec' \in [Execs -> ExecRecord]
  <1>1. exec' \in [Execs -> ExecRecord]
    BY CallbackType DEF TypeOK, Shutdown
  <1>2. /\ closed' \in BOOLEAN /\ requestTimer' \in BOOLEAN
        /\ socket' \in {"open", "destroyed", "closed"}
        /\ toServer' \in Seq(ClientMessage) /\ serving' \in Execs \cup {NoExec}
    <2>1. <<>> \in Seq(ClientMessage)
      OBVIOUS
    <2> HIDE DEF Execs
    <2>2. QED
      BY <2>1 DEF TypeOK, Shutdown, CleanupConnection, ClearRequestTimer
  <1>3. QED
    BY <1>1, <1>2 DEF Shutdown, States

LEMMA SentType ==
  ASSUME TypeOK, NEW m \in ClientMessage
  PROVE  Sent(m) \in Seq(ClientMessage)
  BY DEF TypeOK, Sent

LEMMA CancelType ==
  ASSUME TypeOK, NEW r \in Requests, NEW err \in Errors, Cancel(r, err)
  PROVE  /\ state' \in States /\ cancelTimer' \in BOOLEAN
         /\ req' \in [Requests -> RequestRecord]
         /\ out' \in OutRecord /\ reader' \in Readers /\ parser' \in ParserRecord
         /\ toServer' \in Seq(ClientMessage) /\ exec' \in [Execs -> ExecRecord]
  <1>1. out' \in OutRecord
    BY DEF TypeOK, Cancel, OnCancelUnsent, Aborted, OutRecord
  <1>2. toServer' \in Seq(ClientMessage) /\ cancelTimer' \in BOOLEAN
    <2>1. [type |-> "attention", exec |-> request, reset |-> FALSE] \in ClientMessage
      BY DEF TypeOK, ClientMessage
    <2>2. Sent([type |-> "attention", exec |-> request, reset |-> FALSE])
            \in Seq(ClientMessage)
      BY <2>1, SentType
    <2>3. CreateCancelTimer \in BOOLEAN
      BY DEF CreateCancelTimer
    <2> HIDE DEF Execs
    <2>4. QED
      BY <2>2, <2>3 DEF TypeOK, Cancel, OnCancelSent
  <1>3. exec' \in [Execs -> ExecRecord]
    <2>1. CASE request # NoExec
      <3>1. request \in Execs /\ exec[request] \in ExecRecord
        BY <2>1 DEF TypeOK
      <3> HIDE DEF Execs
      <3>2. [exec[request] EXCEPT !.attention = TRUE] \in ExecRecord
        BY <3>1 DEF ExecRecord
      <3>3. QED
        BY <3>1, <3>2 DEF TypeOK, Cancel, OnCancelSent
    <2>2. CASE request = NoExec
      BY <2>2 DEF TypeOK, Cancel, OnCancelSent
    <2>3. QED
      BY <2>1, <2>2
  <1>4. parser' \in ParserRecord
    <2> DEFINE resumed == CancelResumes(r) /\ Listening(r, "onResume")
    <2>1. (parser.paused /\ ~resumed) \in BOOLEAN
      OBVIOUS
    <2>2. Detached(parser, resumed) \in ParserRecord
      <3> HIDE DEF resumed
      <3>1. QED
        BY <2>1 DEF TypeOK, Detached, ParserRecord
    <2>3. QED
      BY <2>2 DEF TypeOK, Cancel, OnCancelStreaming
  <1>5. state' \in States /\ reader' \in Readers
    BY DEF TypeOK, Cancel, OnCancelStreaming, States, Readers
  <1>6. req' \in [Requests -> RequestRecord]
    <2> DEFINE paused == req[r].paused /\ ~CancelResumes(r)
               error  == IF Listening(r, "onCancelUnsent") /\ out.phase = "streaming"
                         THEN SetError(err, "ECANCEL") ELSE err
               on     == req[r].on \cap UncanceledListeners(r)
               new    == [req[r] EXCEPT !.canceled = TRUE, !.paused = paused,
                                        !.error = error, !.on = on]
    <2>1. paused \in BOOLEAN
      OBVIOUS
    <2>2. error \in Errors
      BY DEF SetError, Errors
    <2>3. req[r] \in RequestRecord
      BY DEF TypeOK
    <2>4. on \in SUBSET Listeners
      BY <2>3 DEF RequestRecord
    <2>5. req' = [req EXCEPT ![r] = new]
      BY DEF Cancel
    <2> HIDE DEF paused, error, on
    <2>6. new \in RequestRecord
      BY <2>1, <2>2, <2>3, <2>4 DEF RequestRecord
    <2> HIDE DEF new
    <2>7. QED
      BY <2>5, <2>6 DEF TypeOK
  <1>7. QED
    BY <1>1, <1>2, <1>3, <1>4, <1>5, <1>6

LEMMA SetErrorOfRequest ==
  ASSUME TypeOK, NEW r, NEW code \in Errors
  PROVE  [req EXCEPT ![r].error = code] \in [Requests -> RequestRecord]
  BY DEF TypeOK, RequestRecord

\* Every step keeps the types, given what the invariant says of readers.
LEMMA NextTypeOK ==
  ASSUME TypeOK, Bookkeeping, OneReader, Next
  PROVE  TypeOK'
  <1>1. ASSUME NEW r \in Requests, Idle, RefuseRequest(r),
               resetConnectionOnNextRequest' \in BOOLEAN
        PROVE  TypeOK'
    <2>1. made' \in Execs /\ made' \in 0..MaxExecs
      BY <1>1, BoundAssumption DEF RefuseRequest, TypeOK
    <2> DEFINE code == IF CanExecute THEN "ECANCEL" ELSE "EINVALIDSTATE"
               x    == [exec[made'] EXCEPT !.req = r]
               y    == [x EXCEPT !.calls = 1, !.outcome = code]
    <2>2. code \in Outcomes
      BY DEF Outcomes
    <2>3. exec[made'] \in ExecRecord
      BY <2>1 DEF TypeOK
    <2> HIDE DEF code
    <2>4. x \in ExecRecord
      BY <2>3 DEF ExecRecord
    <2>5. exec' = [exec EXCEPT ![made'] = y]
      BY <1>1, <2>1 DEF RefuseRequest, NewExec, TypeOK, code
    <2> HIDE DEF x
    <2>6. y \in ExecRecord
      BY <2>2, <2>4 DEF ExecRecord
    <2> HIDE DEF y
    <2>7. exec' \in [Execs -> ExecRecord]
      BY <2>1, <2>5, <2>6 DEF TypeOK
    <2> HIDE DEF Execs
    <2>8. QED
      BY <1>1, <2>1, <2>7 DEF TypeOK, RefuseRequest, connVars, ioVars, wireVars
  <1>2. ASSUME NEW r \in Requests, NEW reset \in BOOLEAN, AcceptRequest(r, reset),
               resetConnectionOnNextRequest' \in BOOLEAN
        PROVE  TypeOK'
    <2>1. made' \in Execs /\ made' \in 0..MaxExecs
      BY <1>2, BoundAssumption DEF AcceptRequest, TypeOK
    <2>2. exec' \in [Execs -> ExecRecord]
      <3>1. exec' = [exec EXCEPT ![made'].req = r] /\ exec[made'] \in ExecRecord
        BY <1>2, <2>1 DEF AcceptRequest, NewExec, TypeOK
      <3> HIDE DEF Execs
      <3>2. QED
        BY <3>1, <2>1 DEF TypeOK, ExecRecord
    <2>3. req' \in [Requests -> RequestRecord]
      BY <1>2 DEF AcceptRequest, TypeOK, RequestRecord, Listeners, CancelListeners
    <2>4. out' \in OutRecord
      BY <1>2, <2>1 DEF AcceptRequest, OutRecord
    <2>5. state' \in States /\ reader' \in Readers /\ requestTimer' \in BOOLEAN
      BY <1>2 DEF AcceptRequest, States, Readers, CreateRequestTimer
    <2> HIDE DEF Execs
    <2>6. QED
      BY <1>2, <2>1, <2>2, <2>3, <2>4, <2>5 DEF AcceptRequest, TypeOK, wireVars
  <1>3. ASSUME NEW r \in UserRequests, Execute(r)  PROVE TypeOK'
    BY <1>1, <1>2, <1>3 DEF Execute, Requests, TypeOK
  <1>4. ASSUME NEW r \in ResetRequests, Reset(r)  PROVE TypeOK'
    BY <1>1, <1>2, <1>4 DEF Reset, Requests
  <1>5. ASSUME NEW r \in Requests, UserCancel(r)  PROVE TypeOK'
    <2>1. req[r].error \in Errors
      BY DEF TypeOK, RequestRecord
    <2>2. requestTimer' \in BOOLEAN
      BY <1>5 DEF UserCancel
    <2>3. QED
      BY <1>5, <2>1, <2>2, CancelType DEF UserCancel, TypeOK
  <1>6. ConnectionCancel => TypeOK'
    <2>1. ConnectionCancel => CurrentRequest \in Requests
      BY DEF ConnectionCancel, CurrentRequest, Bookkeeping, TypeOK
    <2>2. QED
      BY <1>5, <2>1 DEF ConnectionCancel
  <1>7. ASSUME NEW r \in Requests, Pause(r) \/ Resume(r)  PROVE TypeOK'
    <2>1. req' \in [Requests -> RequestRecord]
      <3> DEFINE q == req[r]
      <3>1. q \in RequestRecord
        BY DEF TypeOK
      <3>2. CASE Pause(r)
        <4> DEFINE on == IF Listening(r, "onPause") /\ request # NoExec
                         THEN q.on \cup {"onResume"} ELSE q.on
        <4>1. req' = [req EXCEPT ![r] = [q EXCEPT !.paused = TRUE, !.on = on]]
          BY <3>2 DEF Pause
        <4>2. on \in SUBSET Listeners
          BY <3>1 DEF RequestRecord, Listeners
        <4> HIDE DEF on, q
        <4>3. QED
          BY <3>1, <4>1, <4>2 DEF TypeOK, RequestRecord
      <3>3. CASE Resume(r)
        <4>1. req' = [req EXCEPT ![r] = [q EXCEPT !.paused = FALSE, !.on = @ \ {"onResume"}]]
          BY <3>3 DEF Resume
        <4> HIDE DEF q
        <4>2. QED
          BY <3>1, <4>1 DEF TypeOK, RequestRecord
      <3>4. QED
        BY <1>7, <3>2, <3>3
    <2>2. parser' \in ParserRecord
      <3> DEFINE stops == parser.paused \/ (Listening(r, "onPause") /\ parser.by = "request")
                 goes  == parser.paused /\ ~Listening(r, "onResume")
      <3>1. stops \in BOOLEAN /\ goes \in BOOLEAN
        OBVIOUS
      <3>2. parser' = [parser EXCEPT !.paused = stops]
              \/ parser' = [parser EXCEPT !.paused = goes]
        BY <1>7 DEF Pause, Resume
      <3> HIDE DEF stops, goes
      <3>3. QED
        BY <3>1, <3>2 DEF TypeOK, ParserRecord
    <2> HIDE DEF Execs
    <2>3. QED
      BY <1>7, <2>1, <2>2 DEF Pause, Resume, TypeOK, connVars, wireVars, histVars
  <1>8. ASSUME NEW code \in Outcomes, Shutdown(code),
               UNCHANGED <<resetConnectionOnNextRequest, req, out, parser, incoming, made>>,
               reader' \in Readers, cancelTimer' \in BOOLEAN, crashed' \in Crashes
        PROVE  TypeOK'
    BY <1>8, ShutdownType DEF TypeOK
  <1>9. CancelTimerFires \/ Close \/ SocketFails \/ SocketEnds => TypeOK'
    <2>1. {"ETIMEOUT", "ESOCKET", "ECLOSE"} \subseteq Outcomes
      BY DEF Outcomes
    <2>2. "none" \in Readers /\ "socketError" \in Crashes
      BY DEF Readers, Crashes
    <2>3. QED
      BY <1>8, <2>1, <2>2 DEF CancelTimerFires, Close, SocketFails, SocketEnds,
         SocketErrorHandler, ioVars, TypeOK
  <1>10. PayloadEnds \/ PayloadFails \/ MessageFinishes => TypeOK'
    <2>1. ASSUME PayloadEnds  PROVE TypeOK'
      <3>1. out' \in OutRecord
        BY <2>1 DEF PayloadEnds, TypeOK, OutRecord
      <3> HIDE DEF Execs
      <3>2. QED
        BY <2>1, <3>1 DEF PayloadEnds, TypeOK, connVars, wireVars, histVars
    <2>2. ASSUME PayloadFails  PROVE TypeOK'
      <3>1. out' \in OutRecord
        BY <2>2 DEF PayloadFails, Aborted, TypeOK, OutRecord
      <3>2. req' \in [Requests -> RequestRecord]
        <4> DEFINE r == exec[out.exec].req
                   error == SetError(req[r].error, "EPAYLOAD")
        <4>1. req' = [req EXCEPT ![r].error = error]
          BY <2>2 DEF PayloadFails
        <4>2. CASE r \in Requests
          <5>1. error \in Errors
            BY <4>2 DEF TypeOK, RequestRecord, SetError, Errors
          <5> HIDE DEF r, error
          <5>2. QED
            BY <4>1, <5>1, SetErrorOfRequest
        <4>3. CASE r \notin Requests
          BY <4>1, <4>3 DEF TypeOK
        <4>4. QED
          BY <4>2, <4>3
      <3> HIDE DEF Execs
      <3>3. QED
        BY <2>2, <3>1, <3>2 DEF PayloadFails, TypeOK, connVars, wireVars, histVars
    <2>3. ASSUME MessageFinishes  PROVE TypeOK'
      <3>1. out' \in OutRecord
        BY <2>3 DEF MessageFinishes, OutRecord
      <3>2. req' \in [Requests -> RequestRecord]
        BY <2>3, ZenonT(30) DEF MessageFinishes, TypeOK, RequestRecord, Listeners, CancelListeners
      <3>3. toServer' \in Seq(ClientMessage)
        <4>1. [type |-> "request", exec |-> out.exec, reset |-> out.reset] \in ClientMessage
          BY DEF TypeOK, OutRecord, ClientMessage
        <4>2. QED
          BY <2>3, <4>1, SentType DEF MessageFinishes
      <3>4. exec' \in [Execs -> ExecRecord]
        BY <2>3, ZenonT(30) DEF MessageFinishes, TypeOK, OutRecord, ExecRecord
      <3> HIDE DEF Execs, NoMessage
      <3>5. QED
        BY <2>3, <3>1, <3>2, <3>3, <3>4 DEF MessageFinishes, TypeOK, connVars
    <2>4. QED
      BY <2>1, <2>2, <2>3
  <1>11. ASSUME RequestTimerFires  PROVE TypeOK'
    <2> DEFINE r == CurrentRequest
    <2>1. CASE req[r].canceled
      <3>1. req' \in [Requests -> RequestRecord]
        <4>1. req' = [req EXCEPT ![r].error = "ETIMEOUT"] /\ "ETIMEOUT" \in Errors
          BY <1>11, <2>1 DEF RequestTimerFires, Errors
        <4> HIDE DEF r
        <4>2. QED
          BY <4>1, SetErrorOfRequest
      <3> HIDE DEF Execs
      <3>2. QED
        BY <1>11, <2>1, <3>1 DEF RequestTimerFires, TypeOK
    <2>2. CASE ~req[r].canceled
      <3>1. r \in Requests
        BY <1>11 DEF RequestTimerFires, CurrentRequest, Bookkeeping, TypeOK
      <3>2. Cancel(r, "ETIMEOUT") /\ "ETIMEOUT" \in Errors
        BY <1>11, <2>2 DEF RequestTimerFires, Errors
      <3> HIDE DEF r, Execs
      <3>3. /\ state' \in States /\ cancelTimer' \in BOOLEAN
            /\ req' \in [Requests -> RequestRecord]
            /\ out' \in OutRecord /\ reader' \in Readers /\ parser' \in ParserRecord
            /\ toServer' \in Seq(ClientMessage) /\ exec' \in [Execs -> ExecRecord]
        BY <3>1, <3>2, CancelType
      <3>4. /\ requestTimer' \in BOOLEAN
            /\ UNCHANGED <<closed, request, resetConnectionOnNextRequest, socket, serving,
                           incoming, made, crashed>>
        BY <1>11 DEF RequestTimerFires
      <3>5. QED
        BY <3>3, <3>4 DEF TypeOK
    <2>3. QED
      BY <2>1, <2>2
  <1>12. ASSUME ReadResponse  PROVE TypeOK'
    <2> DEFINE r == CurrentRequest
    <2>1. r \in Requests /\ request \in Execs
      BY <1>12 DEF ReadResponse, MessageReady, CurrentRequest, Bookkeeping, OneReader, TypeOK
    <2>2. req[r] \in RequestRecord
      BY <2>1 DEF TypeOK
    <2>3. parser' \in ParserRecord
      <3>1. req[r].paused \in BOOLEAN
        BY <2>2 DEF RequestRecord
      <3>2. PICK onEnd \in BOOLEAN, paused \in BOOLEAN :
              parser' = [by |-> "request", exec |-> request,
                         onEnd |-> onEnd, paused |-> paused]
        BY <1>12, <3>1 DEF ReadResponse
      <3>3. QED
        BY <2>1, <3>2 DEF ParserRecord
    <2>4. req' \in [Requests -> RequestRecord]
      <3> DEFINE on == req[r].on \cup {"onPause", "onCancelStreaming"}
                       \cup IF req[r].paused THEN {"onResume"} ELSE {}
      <3>1. req' = [req EXCEPT ![r].on = on] \/ req' = req
        BY <1>12 DEF ReadResponse
      <3>2. on \in SUBSET Listeners
        BY <2>2 DEF RequestRecord, Listeners, CancelListeners
      <3> HIDE DEF on, r
      <3>3. QED
        BY <2>2, <3>1, <3>2 DEF TypeOK, RequestRecord
    <2>5. state' \in States /\ reader' \in Readers /\ requestTimer' \in BOOLEAN
      <3>1. req[r].canceled \in BOOLEAN /\ cancelTimer \in BOOLEAN
        BY <2>2 DEF TypeOK, RequestRecord
      <3> HIDE DEF Execs, NoExec, r
      <3>2. state' \in {state, "SentAttention"} /\ reader' \in {"none", "SentAttention"}
        BY <1>12 DEF ReadResponse
      <3>3. QED
        BY <1>12, <3>2 DEF ReadResponse, ClearRequestTimer, States, Readers, TypeOK
    <2> HIDE DEF Execs, r
    <2>6. QED
      BY <1>12, <2>3, <2>4, <2>5 DEF ReadResponse, TypeOK, wireVars, histVars
  <1>13. ASSUME ReadAcknowledgement  PROVE TypeOK'
    <2>1. parser' \in ParserRecord /\ reader' \in Readers
      BY <1>13 DEF ReadAcknowledgement, TypeOK, ParserRecord, Readers
    <2> HIDE DEF Execs
    <2>2. QED
      BY <1>13, <2>1 DEF ReadAcknowledgement, TypeOK, connVars, wireVars, histVars
  <1>14. ASSUME ErrorToken  PROVE TypeOK'
    <2>1. req' \in [Requests -> RequestRecord]
      BY <1>14, SetErrorOfRequest DEF ErrorToken, Errors, TypeOK
    <2>2. incoming' \in Seq(ServerMessage)
      <3>1. incoming # <<>> /\ incoming[1] \in ServerMessage
        BY <1>14 DEF ErrorToken, OneReader, TypeOK
      <3>2. [incoming[1] EXCEPT !.failed = FALSE] \in ServerMessage
        BY <3>1 DEF ServerMessage
      <3> HIDE DEF Execs
      <3>3. QED
        BY <1>14, <3>1, <3>2 DEF ErrorToken, TypeOK
    <2>3. exec' \in [Execs -> ExecRecord]
      BY <1>14, ZenonT(30) DEF ErrorToken, TypeOK, ExecRecord
    <2> HIDE DEF Execs
    <2>4. QED
      BY <1>14, <2>1, <2>2, <2>3 DEF ErrorToken, TypeOK, connVars, ioVars
  <1>15. ASSUME MessageEnds
         PROVE  /\ incoming' \in Seq(ServerMessage) /\ parser' \in ParserRecord
                /\ Head(incoming) \in ServerMessage
    BY <1>15 DEF MessageEnds, OneReader, TypeOK, ParserRecord
  <1>16. ASSUME EndOfMessage  PROVE TypeOK'
    <2>1. state' \in States /\ requestTimer' \in BOOLEAN /\ crashed' \in Crashes
      BY <1>16 DEF EndOfMessage, ClearRequestTimer, TypeOK, States, Crashes
    <2>2. req' \in [Requests -> RequestRecord] /\ exec' \in [Execs -> ExecRecord]
      <3>1. CASE request = NoExec
        BY <1>16, <3>1 DEF EndOfMessage, TypeOK
      <3>2. CASE request # NoExec
        <4> DEFINE r == CurrentRequest
                   code == Result(req[r].error)
        <4>1. r \in Requests /\ request \in Execs
          BY <3>2 DEF CurrentRequest, Bookkeeping, TypeOK
        <4>2. req[r] \in RequestRecord
          BY <4>1 DEF TypeOK
        <4>3. code \in Outcomes
          BY <4>2 DEF Result, RequestRecord, Errors, Outcomes
        <4>4. Head(incoming).exec \in Execs \cup {NoExec}
          BY <1>15, <1>16 DEF EndOfMessage, ServerMessage
        <4>5. /\ exec' = Callback(request, code, Head(incoming).exec)
              /\ req' = [req EXCEPT ![r].on = RemainingListeners(@)]
          BY <1>16, <3>2 DEF EndOfMessage
        <4> HIDE DEF code, Execs, r
        <4>6. QED
          BY <4>1, <4>2, <4>3, <4>4, <4>5, CallbackType
             DEF TypeOK, RequestRecord, RemainingListeners
      <3>3. QED
        BY <3>1, <3>2
    <2> HIDE DEF Execs
    <2>3. QED
      BY <1>15, <1>16, <2>1, <2>2 DEF EndOfMessage, TypeOK
  <1>17. ASSUME EndOfDrainedMessage  PROVE TypeOK'
    BY <1>15, <1>17 DEF EndOfDrainedMessage, TypeOK, connVars, histVars
  <1>18. ASSUME Acknowledged  PROVE TypeOK'
    <2>1. exec' \in [Execs -> ExecRecord]
      <3>1. {"ETIMEOUT", "ECANCEL"} \subseteq Outcomes
        BY DEF Outcomes
      <3>2. QED
        BY <1>18, <3>1, CallbackType DEF Acknowledged, TypeOK
    <2>2. state' \in States /\ crashed' \in Crashes
      BY <1>18 DEF Acknowledged, TypeOK, States, Crashes
    <2> HIDE DEF Execs
    <2>3. QED
      BY <1>15, <1>18, <2>1, <2>2 DEF Acknowledged, TypeOK
  <1>19. ASSUME NotAcknowledged  PROVE TypeOK'
    BY <1>15, <1>19 DEF NotAcknowledged, TypeOK, connVars, histVars, Crashes
  <1>20. ASSUME SocketCloses  PROVE TypeOK'
    <2>1. state' \in States
      BY <1>20 DEF SocketCloses, States
    <2> HIDE DEF Execs
    <2>2. QED
      BY <1>20, <2>1 DEF SocketCloses, TypeOK, ioVars, histVars
  <1>21. ASSUME ServerStep  PROVE TypeOK'
    <2>1. toServer' \in Seq(ClientMessage) /\ serving' \in Execs \cup {NoExec}
      <3>1. ASSUME toServer # <<>>
            PROVE  /\ Tail(toServer) \in Seq(ClientMessage)
                   /\ Head(toServer).exec \in Execs \cup {NoExec}
        <4>1. Head(toServer) \in ClientMessage /\ Tail(toServer) \in Seq(ClientMessage)
          BY <3>1 DEF TypeOK
        <4>2. QED
          BY <4>1 DEF ClientMessage
      <3> HIDE DEF Execs
      <3>2. QED
        BY <1>21, <3>1 DEF ServerStep, ServerReceives, ServerResponds, ServerEndsResponse,
           ServerAcknowledges, TypeOK
    <2>2. incoming' \in Seq(ServerMessage)
      <3>1. ASSUME ServerReceives  PROVE incoming' \in Seq(ServerMessage)
        BY <3>1 DEF ServerReceives, TypeOK
      <3>2. ASSUME ServerResponds  PROVE incoming' \in Seq(ServerMessage)
        BY <3>2 DEF ServerResponds, TypeOK, ServerMessage
      <3>3. ASSUME ServerEndsResponse  PROVE incoming' \in Seq(ServerMessage)
        <4>1. Len(incoming) \in DOMAIN incoming /\ incoming[Len(incoming)] \in ServerMessage
          BY <3>3 DEF ServerEndsResponse, Responding, TypeOK
        <4>2. [incoming[Len(incoming)] EXCEPT !.eom = TRUE] \in ServerMessage
          BY <4>1 DEF ServerMessage
        <4> HIDE DEF Execs
        <4>3. QED
          BY <3>3, <4>1, <4>2 DEF ServerEndsResponse, TypeOK
      <3>4. ASSUME ServerAcknowledges  PROVE incoming' \in Seq(ServerMessage)
        <4>1. Head(toServer) \in ClientMessage
          BY <3>4 DEF ServerAcknowledges, TypeOK
        <4>2. QED
          BY <3>4, <4>1 DEF ServerAcknowledges, TypeOK, ServerMessage, ClientMessage
      <3>5. QED
        BY <1>21, <3>1, <3>2, <3>3, <3>4 DEF ServerStep
    <2> HIDE DEF Execs
    <2>3. QED
      BY <1>21, <2>1, <2>2 DEF ServerStep, ServerReceives, ServerResponds,
         ServerEndsResponse, ServerAcknowledges, ServerVarsOnly, TypeOK, connVars,
         ioVars, histVars
  <1>22. QED
    BY <1>3, <1>4, <1>5, <1>6, <1>7, <1>9, <1>10, <1>11, <1>12, <1>13, <1>14, <1>16,
       <1>17, <1>18, <1>19, <1>20, <1>21
       DEF Next, Requests, SendStep, ReceiveStep, UrgentStep, SocketStep

-----------------------------------------------------------------------------
(* What the steps do to the history *)

KeepsHistory ==
    /\ made' = made
    /\ \A e \in Execs : exec'[e].req = exec[e].req /\ exec'[e].calls = exec[e].calls

\* Execution e is called back, for the first time since `exec`.
CallsBack(e) ==
    /\ made' = made
    /\ \A x \in Execs :
          /\ exec'[x].req = exec[x].req
          /\ exec'[x].calls = IF x = e THEN exec[x].calls + 1 ELSE exec[x].calls

LEMMA CallbackCallsBack ==
  ASSUME TypeOK, NEW e \in Execs, NEW code, NEW answer,
         exec' = Callback(e, code, answer), made' = made
  PROVE  CallsBack(e)
  BY DEF Callback, CallsBack, TypeOK, ExecRecord

\* Setting one of the other fields of an execution keeps the history.
LEMMA FieldKeepsHistory ==
  ASSUME TypeOK, NEW x \in Execs, made' = made,
         \/ exec' = [exec EXCEPT ![x].attention = TRUE]
         \/ exec' = [exec EXCEPT ![x].ignored = out.ignore]
         \/ exec' = [exec EXCEPT ![x].failed = TRUE]
  PROVE  KeepsHistory
  <1>1. exec[x] \in ExecRecord /\ exec \in [Execs -> ExecRecord]
    BY DEF TypeOK
  <1>2. PICK v \in ExecRecord : /\ exec' = [exec EXCEPT ![x] = v]
                                /\ v.req = exec[x].req /\ v.calls = exec[x].calls
    <2>1. out.ignore \in BOOLEAN
      BY DEF TypeOK, OutRecord
    <2> DEFINE v1 == [exec[x] EXCEPT !.attention = TRUE]
               v2 == [exec[x] EXCEPT !.ignored = out.ignore]
               v3 == [exec[x] EXCEPT !.failed = TRUE]
    <2>2. \A v \in {v1, v2, v3} : v \in ExecRecord /\ v.req = exec[x].req
                                /\ v.calls = exec[x].calls
      BY <1>1, <2>1 DEF ExecRecord
    <2>3. \E v \in {v1, v2, v3} : exec' = [exec EXCEPT ![x] = v]
      OBVIOUS
    <2> HIDE DEF v1, v2, v3
    <2>4. QED
      BY <2>2, <2>3
  <1> HIDE DEF Execs
  <1>3. QED
    BY <1>1, <1>2 DEF KeepsHistory

LEMMA CancelKeepsHistory ==
  ASSUME TypeOK, NEW r, NEW err, Cancel(r, err), made' = made
  PROVE  KeepsHistory
  <1>1. CASE exec' = exec
    BY <1>1 DEF KeepsHistory
  <1>2. CASE request # NoExec /\ exec' = [exec EXCEPT ![request].attention = TRUE]
    BY <1>2, FieldKeepsHistory DEF TypeOK
  <1>3. QED
    BY <1>1, <1>2 DEF Cancel, OnCancelSent

LEMMA SendKeepsHistory ==
  ASSUME TypeOK, PayloadEnds \/ PayloadFails \/ MessageFinishes
  PROVE  KeepsHistory
  <1>1. CASE MessageFinishes
    <2>1. out.exec \in Execs \/ out.exec = NoExec
      BY DEF TypeOK, OutRecord
    <2>2. CASE out.exec \in Execs
      BY <1>1, <2>2, FieldKeepsHistory DEF MessageFinishes
    <2>3. CASE out.exec = NoExec
      BY <1>1, <2>3 DEF MessageFinishes, KeepsHistory, TypeOK
    <2>4. QED
      BY <2>1, <2>2, <2>3
  <1>2. QED
    BY <1>1 DEF PayloadEnds, PayloadFails, KeepsHistory, histVars

LEMMA ErrorTokenKeepsHistory ==
  ASSUME TypeOK, ErrorToken
  PROVE  KeepsHistory
  <1>1. parser.exec \in Execs \/ parser.exec = NoExec
    BY DEF TypeOK, ParserRecord
  <1>2. CASE parser.exec \in Execs
    BY <1>2, FieldKeepsHistory DEF ErrorToken
  <1>3. CASE parser.exec = NoExec
    BY <1>3 DEF ErrorToken, KeepsHistory, TypeOK
  <1>4. QED
    BY <1>1, <1>2, <1>3

\* A step of makeRequest records the execution it is asked for.
LEMMA RefuseHistory ==
  ASSUME TypeOK, NEW r \in Requests, RefuseRequest(r)
  PROVE  /\ made' = made + 1 /\ made' \in Execs
         /\ \A e \in Execs : e # made' => exec'[e] = exec[e]
         /\ exec'[made'].req = r /\ exec'[made'].calls = 1
  <1>1. made' = made + 1 /\ made' \in Execs
    BY BoundAssumption DEF TypeOK, RefuseRequest
  <1>2. exec[made'] \in ExecRecord
    BY <1>1 DEF TypeOK
  <1> HIDE DEF Execs
  <1>3. QED
    BY <1>1, <1>2 DEF RefuseRequest, NewExec, TypeOK, ExecRecord

LEMMA AcceptHistory ==
  ASSUME TypeOK, NEW r \in Requests, NEW reset, AcceptRequest(r, reset)
  PROVE  /\ made' = made + 1 /\ made' \in Execs
         /\ \A e \in Execs : e # made' => exec'[e] = exec[e]
         /\ exec'[made'].req = r /\ exec'[made'].calls = exec[made'].calls
  <1>1. made' = made + 1 /\ made' \in Execs
    BY BoundAssumption DEF TypeOK, AcceptRequest
  <1>2. exec[made'] \in ExecRecord
    BY <1>1 DEF TypeOK
  <1> HIDE DEF Execs
  <1>3. QED
    BY <1>1, <1>2 DEF AcceptRequest, NewExec, TypeOK, ExecRecord

\* The transition to FINAL ends the execution in progress, if there is one.
LEMMA ShutdownHistory ==
  ASSUME TypeOK, NEW code, Shutdown(code), made' = made
  PROVE  /\ state' = "Final" /\ closed' = TRUE
         /\ socket' = IF closed THEN socket ELSE "destroyed"
         /\ request' = NoExec /\ requestTimer' = FALSE
         /\ request # NoExec => CallsBack(request)
         /\ request = NoExec => KeepsHistory
  <1>1. request # NoExec => CallsBack(request)
    BY CallbackCallsBack DEF Shutdown, TypeOK
  <1>2. request = NoExec => KeepsHistory
    BY DEF Shutdown, KeepsHistory
  <1>3. /\ state' = "Final" /\ closed' = TRUE
        /\ socket' = IF closed THEN socket ELSE "destroyed"
        /\ request' = NoExec /\ requestTimer' = FALSE
    BY DEF Shutdown, CleanupConnection, ClearRequestTimer
  <1>4. QED
    BY <1>1, <1>2, <1>3

\* The execution in progress, called back, leaves none that is pending.
LEMMA CompletionHistory ==
  ASSUME TypeOK, Bookkeeping, request # NoExec, CallsBack(request)
  PROVE  \A e \in Execs : /\ e > made' => exec'[e].calls = 0
                          /\ e <= made' => exec'[e].req \in Requests /\ exec'[e].calls = 1
  <1>1. /\ request \in Execs /\ request <= made /\ exec[request].calls = 0
        /\ made \in Nat /\ made' = made
    BY BoundAssumption DEF Bookkeeping, TypeOK, CallsBack
  <1>2. SUFFICES ASSUME NEW e \in Execs
                 PROVE  /\ e > made => exec'[e].calls = 0
                        /\ e <= made => exec'[e].req \in Requests /\ exec'[e].calls = 1
    BY <1>1
  <1>3. /\ exec'[e].req = exec[e].req
        /\ exec'[e].calls = IF e = request THEN exec[e].calls + 1 ELSE exec[e].calls
    BY DEF CallsBack
  <1>4. /\ e > made => exec[e].calls = 0
        /\ e <= made => exec[e].req \in Requests /\ (e # request => exec[e].calls = 1)
    BY DEF Bookkeeping
  <1>5. CASE e = request
    BY <1>1, <1>3, <1>4, <1>5
  <1>6. CASE e # request
    BY <1>3, <1>4, <1>6
  <1>7. QED
    BY <1>5, <1>6

-----------------------------------------------------------------------------
(* Bookkeeping *)

LEMMA NextBookkeeping ==
  ASSUME TypeOK, TypeOK', Bookkeeping, OneReader, CancelReachesParser, Next
  PROVE  Bookkeeping'
  <1> USE BoundAssumption
  <1>1. ASSUME NEW r \in Requests, Running, RefuseRequest(r)  PROVE Bookkeeping'
    <2>1. UNCHANGED <<state, closed, request, socket, requestTimer, reader, crashed>>
      BY <1>1 DEF RefuseRequest, connVars, ioVars, wireVars
    <2>2. QED
      BY <1>1, <2>1, RefuseHistory DEF Bookkeeping, Running, TypeOK
  <1>2. ASSUME NEW r \in Requests, NEW reset, Running, AcceptRequest(r, reset)
        PROVE  Bookkeeping'
    <2>1. /\ state' = "SentClientRequest" /\ reader' = "SentClientRequest"
          /\ request' = made' /\ state = "LoggedIn"
          /\ UNCHANGED <<closed, socket, crashed>>
      BY <1>2 DEF AcceptRequest, CanExecute, wireVars
    <2>2. QED
      BY <1>2, <2>1, AcceptHistory DEF Bookkeeping, Running, TypeOK
  <1>3. ASSUME NEW r \in Requests, Execute(r) \/ Reset(r)  PROVE Bookkeeping'
    BY <1>1, <1>2, <1>3 DEF Execute, Reset, Idle
  <1>4. ASSUME KeepsHistory, requestTimer' => requestTimer /\ UNCHANGED <<state, reader>>,
               state' \notin {"LoggedIn", "Final"} \/ UNCHANGED state,
               UNCHANGED <<closed, request, socket>>, crashed' = crashed
        PROVE  Bookkeeping'
    BY <1>4 DEF Bookkeeping, KeepsHistory, Running, TypeOK
  <1>5. ASSUME NEW r \in Requests, UserCancel(r)  PROVE Bookkeeping'
    <2>1. KeepsHistory /\ UNCHANGED <<closed, request, socket, crashed>>
      BY <1>5, CancelKeepsHistory DEF UserCancel
    <2>2. \/ UNCHANGED <<state, reader, parser>>
          \/ Listening(r, "onCancelStreaming") /\ state' = "SentAttention"
      BY <1>5 DEF UserCancel, Cancel, OnCancelStreaming
    <2>3. requestTimer' => requestTimer /\ state' = state
      BY <1>5 DEF UserCancel
    <2>4. requestTimer' => UNCHANGED reader
      BY <2>2, <2>3 DEF Bookkeeping
    <2>5. QED
      BY <1>4, <2>1, <2>2, <2>3, <2>4
  <1>6. ASSUME ConnectionCancel  PROVE Bookkeeping'
    BY <1>5, <1>6 DEF ConnectionCancel, CurrentRequest, Bookkeeping, TypeOK
  <1>7. ASSUME RequestTimerFires  PROVE Bookkeeping'
    <2>1. KeepsHistory
      BY <1>7, CancelKeepsHistory DEF RequestTimerFires, KeepsHistory
    <2>2. \/ UNCHANGED state
          \/ state' = "SentAttention"
      BY <1>7 DEF RequestTimerFires, Cancel, OnCancelStreaming
    <2>3. QED
      BY <1>4, <1>7, <2>1, <2>2 DEF RequestTimerFires
  <1>8. ASSUME NEW code, Shutdown(code), made' = made  PROVE Bookkeeping'
    <2>1. /\ state' = "Final" /\ closed' = TRUE /\ request' = NoExec
          /\ requestTimer' = FALSE /\ socket' # "open"
      <3>1. closed => socket # "open"
        BY DEF Bookkeeping
      <3>2. QED
        BY <1>8, <3>1, ShutdownHistory
    <2>2. \A e \in Execs : /\ e > made' => exec'[e].calls = 0
                           /\ e <= made' => exec'[e].req \in Requests /\ exec'[e].calls = 1
      <3>1. CASE request # NoExec
        BY <1>8, <3>1, ShutdownHistory, CompletionHistory
      <3>2. CASE request = NoExec
        <4>1. KeepsHistory
          BY <1>8, <3>2, ShutdownHistory
        <4>2. QED
          BY <3>2, <4>1 DEF Bookkeeping, KeepsHistory
      <3>3. QED
        BY <3>1, <3>2
    <2>3. QED
      BY <2>1, <2>2 DEF Bookkeeping
  <1>9. ASSUME CancelTimerFires \/ Close \/ SocketFails \/ SocketEnds  PROVE Bookkeeping'
    BY <1>8, <1>9 DEF CancelTimerFires, Close, SocketFails, SocketEnds, SocketErrorHandler
  <1>10. ASSUME PayloadEnds \/ PayloadFails \/ MessageFinishes  PROVE Bookkeeping'
    <2>1. KeepsHistory
      BY <1>10, SendKeepsHistory
    <2>2. QED
      BY <1>4, <1>10, <2>1 DEF PayloadEnds, PayloadFails, MessageFinishes, connVars, wireVars
  <1>11. ASSUME NEW r \in Requests, Pause(r) \/ Resume(r)  PROVE Bookkeeping'
    BY <1>4, <1>11 DEF Pause, Resume, connVars, wireVars, histVars, KeepsHistory
  <1>12. ASSUME ReadResponse \/ ReadAcknowledgement  PROVE Bookkeeping'
    <2>1. KeepsHistory /\ (requestTimer' => requestTimer /\ UNCHANGED <<state, reader>>)
      BY <1>12 DEF ReadResponse, ReadAcknowledgement, ClearRequestTimer, histVars, connVars,
         KeepsHistory, Bookkeeping
    <2>2. QED
      BY <1>4, <1>12, <2>1 DEF ReadResponse, ReadAcknowledgement, connVars, wireVars, histVars
  <1>13. ASSUME ErrorToken \/ EndOfDrainedMessage \/ NotAcknowledged  PROVE Bookkeeping'
    <2>1. KeepsHistory
      BY <1>13, ErrorTokenKeepsHistory
         DEF EndOfDrainedMessage, NotAcknowledged, KeepsHistory, histVars
    <2>2. UNCHANGED <<state, closed, request, socket, requestTimer, reader>>
      BY <1>13 DEF ErrorToken, EndOfDrainedMessage, NotAcknowledged, connVars, ioVars
    <2>3. Running
      BY <1>13 DEF ErrorToken, EndOfDrainedMessage, NotAcknowledged, Idle
    <2>4. QED
      BY <2>1, <2>2, <2>3 DEF Bookkeeping, KeepsHistory, Running, TypeOK
  <1>14. ASSUME EndOfMessage \/ Acknowledged  PROVE Bookkeeping'
    <2>1. /\ state' = "LoggedIn" /\ request' = NoExec /\ requestTimer' = FALSE
          /\ UNCHANGED <<closed, socket, made>>
      BY <1>14 DEF EndOfMessage, Acknowledged, ClearRequestTimer, MessageEnds, OneReader,
         Bookkeeping, TypeOK
    <2>2. CASE request = NoExec
      <3>1. KeepsHistory /\ crashed' # "no"
        BY <1>14, <2>2 DEF EndOfMessage, Acknowledged, KeepsHistory
      <3>2. QED
        BY <2>1, <2>2, <3>1 DEF Bookkeeping, KeepsHistory, Running, TypeOK
    <2>3. CASE request # NoExec
      <3>1. CallsBack(request)
        BY <1>14, <2>3, CallbackCallsBack DEF EndOfMessage, Acknowledged, TypeOK
      <3>2. ~closed /\ (closed <=> socket # "open")
        BY <2>3 DEF Bookkeeping
      <3>3. \A e \in Execs :
               /\ e > made' => exec'[e].calls = 0
               /\ e <= made' => exec'[e].req \in Requests /\ exec'[e].calls = 1
        BY <2>3, <3>1, CompletionHistory
      <3>4. QED
        BY <2>1, <3>2, <3>3 DEF Bookkeeping
    <2>4. QED
      BY <2>2, <2>3
  <1>15. ASSUME SocketCloses  PROVE Bookkeeping'
    BY <1>15 DEF SocketCloses, Bookkeeping, Running, histVars, ioVars, TypeOK
  <1>16. ASSUME ServerStep  PROVE Bookkeeping'
    <2>1. ServerVarsOnly
      BY <1>16 DEF ServerStep, ServerReceives, ServerResponds, ServerEndsResponse,
         ServerAcknowledges
    <2>2. QED
      BY <1>4, <2>1 DEF ServerVarsOnly, connVars, histVars, ioVars, KeepsHistory
  <1>17. QED
    BY <1>3, <1>5, <1>6, <1>7, <1>9, <1>10, <1>11, <1>12, <1>13, <1>14, <1>15, <1>16
       DEF Next, Requests, SendStep, ReceiveStep, UrgentStep, SocketStep

-----------------------------------------------------------------------------
(* One reader *)

LEMMA CancelEffect ==
  ASSUME TypeOK, NEW r \in Requests, NEW err \in Errors, Cancel(r, err)
  PROVE  /\ parser' \in ParserRecord /\ parser'.by = parser.by
         /\ \/ UNCHANGED <<state, reader, parser>>
            \/ /\ "onCancelStreaming" \in req[r].on
               /\ state' = "SentAttention" /\ reader' = "SentAttention"
               /\ parser'.onEnd = FALSE
         /\ req'[r].canceled = TRUE
         /\ \A x \in Requests : x # r => req'[x] = req[x]
  <1>1. parser' \in ParserRecord /\ parser'.by = parser.by
        /\ (parser' = parser \/ parser'.onEnd = FALSE)
    <2>1. parser \in ParserRecord
      BY DEF TypeOK
    <2> DEFINE resumed == CancelResumes(r) /\ Listening(r, "onResume")
               still == parser.paused /\ ~resumed
    <2>2. still \in BOOLEAN
      OBVIOUS
    <2> HIDE DEF still
    <2>3. LET p == [parser EXCEPT !.onEnd = FALSE, !.paused = still]
          IN  p \in ParserRecord /\ p.by = parser.by /\ p.onEnd = FALSE
      BY <2>1, <2>2 DEF ParserRecord
    <2>4. parser' = parser \/ parser' = [parser EXCEPT !.onEnd = FALSE, !.paused = still]
      BY DEF Cancel, OnCancelStreaming, Detached, still
    <2>5. QED
      BY <2>1, <2>3, <2>4
  <1>2. \/ UNCHANGED <<state, reader, parser>>
        \/ /\ "onCancelStreaming" \in req[r].on
           /\ state' = "SentAttention" /\ reader' = "SentAttention"
           /\ parser'.onEnd = FALSE
    <2>1. CASE ~Listening(r, "onCancelStreaming")
      BY <2>1 DEF Cancel, OnCancelStreaming
    <2>2. CASE Listening(r, "onCancelStreaming")
      <3>1. parser \in ParserRecord
        BY DEF TypeOK
      <3> DEFINE still == parser.paused /\ ~(CancelResumes(r) /\ Listening(r, "onResume"))
      <3>2. parser' = [parser EXCEPT !.onEnd = FALSE, !.paused = still]
        BY <2>2 DEF Cancel, OnCancelStreaming, Detached
      <3> HIDE DEF still
      <3>3. parser'.onEnd = FALSE
        BY <3>1, <3>2 DEF ParserRecord
      <3>4. QED
        BY <2>2, <3>3 DEF Cancel, OnCancelStreaming, Listening
    <2>3. QED
      BY <2>1, <2>2
  <1>3. req'[r].canceled = TRUE /\ \A x \in Requests : x # r => req'[x] = req[x]
    <2>1. req[r] \in RequestRecord /\ req \in [Requests -> RequestRecord]
      BY DEF TypeOK
    <2> DEFINE on == req[r].on \cap UncanceledListeners(r)
               paused == req[r].paused /\ ~CancelResumes(r)
               error == IF Listening(r, "onCancelUnsent") /\ out.phase = "streaming"
                        THEN SetError(err, "ECANCEL") ELSE err
               new == [req[r] EXCEPT !.canceled = TRUE, !.paused = paused,
                                     !.error = error, !.on = on]
    <2>2. req' = [req EXCEPT ![r] = new]
      BY DEF Cancel
    <2> HIDE DEF on, paused, error
    <2>3. new.canceled = TRUE
      BY <2>1 DEF RequestRecord
    <2> HIDE DEF new
    <2>4. QED
      BY <2>1, <2>2, <2>3
  <1>4. QED
    BY <1>1, <1>2, <1>3

\* Pausing and resuming change nothing else of a parser.
LEMMA PauseEffect ==
  ASSUME TypeOK, NEW r \in Requests, Pause(r) \/ Resume(r)
  PROVE  /\ parser'.by = parser.by /\ parser'.onEnd = parser.onEnd
         /\ \A x \in Requests :
               /\ req'[x].canceled = req[x].canceled
               /\ "onCancelStreaming" \in req'[x].on => "onCancelStreaming" \in req[x].on
  <1>1. parser'.by = parser.by /\ parser'.onEnd = parser.onEnd
    <2> DEFINE stop == parser.paused \/ (Listening(r, "onPause") /\ parser.by = "request")
               still == parser.paused /\ ~Listening(r, "onResume")
    <2>1. \/ parser' = [parser EXCEPT !.paused = stop]
          \/ parser' = [parser EXCEPT !.paused = still]
      BY DEF Pause, Resume
    <2> HIDE DEF stop, still
    <2>2. QED
      BY <2>1 DEF TypeOK, ParserRecord
  <1>2. \A x \in Requests :
           /\ req'[x].canceled = req[x].canceled
           /\ "onCancelStreaming" \in req'[x].on => "onCancelStreaming" \in req[x].on
    <2> DEFINE on == IF Listening(r, "onPause") /\ request # NoExec
                     THEN req[r].on \cup {"onResume"} ELSE req[r].on
               new1 == [req[r] EXCEPT !.paused = TRUE, !.on = on]
               new2 == [req[r] EXCEPT !.paused = FALSE, !.on = @ \ {"onResume"}]
    <2>1. req' = [req EXCEPT ![r] = new1] \/ req' = [req EXCEPT ![r] = new2]
      BY DEF Pause, Resume
    <2>2. req[r] \in RequestRecord /\ req \in [Requests -> RequestRecord]
      BY DEF TypeOK
    <2>3. "onCancelStreaming" \in on => "onCancelStreaming" \in req[r].on
      OBVIOUS
    <2>4. /\ new1.canceled = req[r].canceled /\ new1.on = on
          /\ new2.canceled = req[r].canceled /\ new2.on = req[r].on \ {"onResume"}
      <3> HIDE DEF on
      <3>1. QED
        BY <2>2 DEF RequestRecord
    <2>5. ASSUME NEW new \in {new1, new2}, req' = [req EXCEPT ![r] = new], NEW x \in Requests
          PROVE  /\ req'[x].canceled = req[x].canceled
                 /\ "onCancelStreaming" \in req'[x].on => "onCancelStreaming" \in req[x].on
      <3> HIDE DEF new1, new2, on
      <3>1. /\ new.canceled = req[r].canceled
            /\ "onCancelStreaming" \in new.on => "onCancelStreaming" \in req[r].on
        BY <2>3, <2>4, <2>5
      <3>2. QED
        BY <2>2, <2>5, <3>1
    <2> HIDE DEF new1, new2, on
    <2>6. QED
      BY <2>1, <2>5
  <1>3. QED
    BY <1>1, <1>2

LEMMA NextOneReader ==
  ASSUME TypeOK, Bookkeeping, OneReader, CancelReachesParser, Next
  PROVE  OneReader'
  <1>1. NoParser.by = "none" /\ NoParser.onEnd = FALSE
    OBVIOUS
  <1>2. closed => request = NoExec
    BY DEF Bookkeeping
  <1> HIDE DEF NoParser
  <1>3. ASSUME NEW r \in Requests, Running, RefuseRequest(r)  PROVE OneReader'
    BY <1>3 DEF RefuseRequest, OneReader, Running, connVars, ioVars, wireVars
  <1>4. ASSUME NEW r \in Requests, NEW reset, Running, AcceptRequest(r, reset)
        PROVE  OneReader'
    <2>1. made' # NoExec
      BY <1>4, AcceptHistory
    <2>2. ~closed
      BY <1>4 DEF AcceptRequest, CanExecute, Bookkeeping
    <2>3. QED
      BY <1>4, <2>1, <2>2 DEF AcceptRequest, CanExecute, OneReader, wireVars
  <1>5. ASSUME NEW r \in Requests, Execute(r) \/ Reset(r)  PROVE OneReader'
    BY <1>3, <1>4, <1>5 DEF Execute, Reset, Idle
  <1>6. ASSUME UNCHANGED <<state, closed, request, reader, crashed>>,
               parser'.by = parser.by, parser'.onEnd = parser.onEnd,
               incoming' # <<>> => incoming # <<>> \/ ~closed,
               incoming # <<>> => incoming' # <<>>
        PROVE  OneReader'
    BY <1>6 DEF OneReader, Running
  <1>7. ASSUME NEW r \in Requests, NEW err \in Errors, ~req[r].canceled, Cancel(r, err),
               UNCHANGED <<closed, request, incoming, crashed>>
        PROVE  OneReader'
    <2>1. CASE UNCHANGED <<state, reader, parser>>
      BY <1>6, <1>7, <2>1
    <2>2. CASE /\ "onCancelStreaming" \in req[r].on
               /\ state' = "SentAttention" /\ reader' = "SentAttention"
               /\ parser'.onEnd = FALSE
      <3>1. parser'.by = parser.by
        BY <1>7, CancelEffect
      <3>2. parser.by = "attention" => request = NoExec
        BY <1>2, <1>7, <2>2 DEF CancelReachesParser
      <3>3. QED
        BY <1>7, <2>2, <3>1, <3>2 DEF OneReader
    <2>3. QED
      BY <1>7, <2>1, <2>2, CancelEffect
  <1>8. ASSUME NEW r \in Requests, UserCancel(r)  PROVE OneReader'
    <2>1. req[r].error \in Errors
      BY DEF TypeOK, RequestRecord
    <2>2. QED
      BY <1>7, <1>8, <2>1 DEF UserCancel
  <1>9. ASSUME ConnectionCancel  PROVE OneReader'
    BY <1>8, <1>9 DEF ConnectionCancel, CurrentRequest, Bookkeeping, TypeOK
  <1>10. ASSUME RequestTimerFires  PROVE OneReader'
    <2>1. CurrentRequest \in Requests
      BY <1>10 DEF RequestTimerFires, CurrentRequest, Bookkeeping, TypeOK
    <2>2. CASE req[CurrentRequest].canceled
      BY <1>6, <1>10, <2>2 DEF RequestTimerFires
    <2>3. CASE ~req[CurrentRequest].canceled
      BY <1>7, <1>10, <2>1, <2>3 DEF RequestTimerFires, Errors
    <2>4. QED
      BY <2>2, <2>3
  <1>11. ASSUME Idle, closed' = TRUE, state' = "Final",
                UNCHANGED <<parser, incoming>>, reader' \in {reader, "none"}, request' = NoExec
         PROVE  OneReader'
    <2>1. reader = "SentClientRequest" => incoming = <<>>
      BY <1>11 DEF Idle, Urgent, MessageReady, OneReader
    <2>2. QED
      BY <1>11, <2>1 DEF OneReader
  <1>12. ASSUME CancelTimerFires \/ Close \/ SocketFails \/ SocketEnds  PROVE OneReader'
    <2>1. /\ Idle /\ closed' = TRUE /\ state' = "Final" /\ request' = NoExec
          /\ UNCHANGED <<parser, incoming>>
      BY <1>12 DEF CancelTimerFires, Close, SocketFails, SocketEnds, SocketErrorHandler,
         Shutdown, CleanupConnection, ioVars
    <2>2. reader' \in {reader, "none"}
      BY <1>12 DEF CancelTimerFires, Close, SocketFails, SocketEnds, ioVars
    <2>3. QED
      BY <1>11, <2>1, <2>2
  <1>13. ASSUME PayloadEnds \/ PayloadFails \/ MessageFinishes  PROVE OneReader'
    BY <1>6, <1>13 DEF PayloadEnds, PayloadFails, MessageFinishes, connVars, wireVars
  <1>14. ASSUME NEW r \in Requests, Pause(r) \/ Resume(r)  PROVE OneReader'
    BY <1>6, <1>14, PauseEffect DEF Pause, Resume, connVars, wireVars
  <1>15. ASSUME ReadResponse  PROVE OneReader'
    <2>1. /\ reader = "SentClientRequest" /\ incoming # <<>> /\ state # "LoggedIn"
          /\ UNCHANGED <<closed, request, incoming, crashed>>
      BY <1>15 DEF ReadResponse, MessageReady, OneReader, wireVars
    <2>2. \/ reader' = "SentAttention" /\ state' = "SentAttention"
             /\ parser'.by = "request" /\ parser'.onEnd = FALSE
          \/ reader' = "none" /\ state' = state /\ parser'.by = "request"
      BY <1>15 DEF ReadResponse
    <2>3. QED
      BY <2>1, <2>2 DEF OneReader
  <1>16. ASSUME ReadAcknowledgement  PROVE OneReader'
    <2>1. /\ reader = "SentAttention" /\ incoming # <<>> /\ state # "LoggedIn"
          /\ UNCHANGED <<state, closed, request, incoming, crashed>>
          /\ reader' = "none" /\ parser'.by = "attention"
      BY <1>16 DEF ReadAcknowledgement, MessageReady, OneReader, wireVars, connVars
    <2>2. QED
      BY <2>1 DEF OneReader
  <1>17. ASSUME ErrorToken  PROVE OneReader'
    <2>1. incoming # <<>> /\ incoming' # <<>>
      BY <1>17 DEF ErrorToken, OneReader, TypeOK
    <2>2. QED
      BY <1>6, <1>17, <2>1 DEF ErrorToken, connVars, ioVars
  <1>18. ASSUME MessageEnds, UNCHANGED <<closed, reader>>,
                \/ UNCHANGED <<state, crashed>> /\ request' = request
                \/ reader = "none"
                \/ crashed' # "no" /\ request' = NoExec
         PROVE  OneReader'
    <2>1. reader # "SentClientRequest" /\ parser'.by = "none"
      BY <1>1, <1>18 DEF MessageEnds, OneReader
    <2>2. QED
      BY <1>18, <2>1 DEF OneReader, MessageEnds, Running
  <1>19. ASSUME EndOfMessage  PROVE OneReader'
    BY <1>18, <1>19 DEF EndOfMessage, OneReader
  <1>20. ASSUME EndOfDrainedMessage  PROVE OneReader'
    BY <1>18, <1>20 DEF EndOfDrainedMessage, connVars, histVars
  <1>21. ASSUME Acknowledged  PROVE OneReader'
    <2>1. request # NoExec => reader = "none"
      BY <1>21 DEF Acknowledged, OneReader
    <2>2. request = NoExec => crashed' # "no"
      BY <1>21 DEF Acknowledged
    <2>3. QED
      BY <1>18, <1>21, <2>1, <2>2 DEF Acknowledged
  <1>22. ASSUME NotAcknowledged  PROVE OneReader'
    <2>1. UNCHANGED <<state, closed, request, reader>> /\ (UNCHANGED crashed \/ crashed' # "no")
      BY <1>22 DEF NotAcknowledged, connVars
    <2>2. reader # "SentClientRequest" /\ parser'.by = "none"
      BY <1>1, <1>22 DEF NotAcknowledged, MessageEnds, OneReader
    <2>3. QED
      BY <2>1, <2>2 DEF OneReader, Running
  <1>23. ASSUME SocketCloses  PROVE OneReader'
    <2>1. /\ UNCHANGED <<closed, request, reader, parser, incoming, crashed>>
          /\ state' = "Final"
      BY <1>23 DEF SocketCloses, ioVars
    <2>2. QED
      BY <2>1 DEF OneReader
  <1>24. ASSUME ServerStep  PROVE OneReader'
    <2>1. ServerVarsOnly
      BY <1>24 DEF ServerStep, ServerReceives, ServerResponds, ServerEndsResponse,
         ServerAcknowledges
    <2>2. ~closed
      BY <2>1 DEF ServerVarsOnly, Bookkeeping
    <2>3. incoming # <<>> => incoming' # <<>>
      <3>1. ASSUME ServerReceives  PROVE incoming' = incoming
        BY <3>1 DEF ServerReceives
      <3>2. ASSUME ServerResponds \/ ServerAcknowledges  PROVE incoming' # <<>>
        <4>1. PICK m : incoming' = Append(incoming, m)
          BY <3>2 DEF ServerResponds, ServerAcknowledges
        <4>2. Len(incoming') = Len(incoming) + 1 /\ Len(incoming) \in Nat
          BY <4>1 DEF TypeOK
        <4>3. QED
          BY <4>2
      <3>3. ASSUME ServerEndsResponse, incoming # <<>>  PROVE incoming' # <<>>
        <4>1. incoming \in Seq(ServerMessage) /\ Len(incoming) # 0
          BY <3>3 DEF TypeOK
        <4> DEFINE last == [incoming[Len(incoming)] EXCEPT !.eom = TRUE]
        <4>2. incoming' = [incoming EXCEPT ![Len(incoming)] = last]
          BY <3>3 DEF ServerEndsResponse
        <4> HIDE DEF last
        <4>3. Len(incoming') = Len(incoming)
          BY <4>1, <4>2
        <4>4. QED
          BY <4>1, <4>3
      <3>4. QED
        BY <1>24, <3>1, <3>2, <3>3 DEF ServerStep
    <2>4. QED
      BY <1>6, <2>1, <2>2, <2>3 DEF ServerVarsOnly, connVars, ioVars
  <1>25. QED
    BY <1>5, <1>8, <1>9, <1>10, <1>12, <1>13, <1>14, <1>15, <1>16, <1>17, <1>19, <1>20,
       <1>21, <1>22, <1>23, <1>24
       DEF Next, Requests, SendStep, ReceiveStep, UrgentStep, SocketStep

-----------------------------------------------------------------------------
(* Cancels reach the parser *)

LEMMA NextCancelReachesParser ==
  ASSUME TypeOK, Bookkeeping, OneReader, CancelReachesParser, Next
  PROVE  CancelReachesParser'
  <1> DEFINE On(r) == "onCancelStreaming" \in req[r].on /\ ~req[r].canceled
  <1>1. ~closed /\ ~(parser.by = "request" /\ parser.onEnd) => \A r \in Requests : ~On(r)
    BY DEF CancelReachesParser
  <1>2. ~closed => \A r \in Requests : On(r) => request # NoExec /\ r = CurrentRequest
    BY DEF CancelReachesParser
  <1>3. ASSUME UNCHANGED <<closed, request>>, parser'.by = parser.by,
               parser'.onEnd = parser.onEnd, KeepsHistory,
               ~closed => \A r \in Requests : On(r)' => On(r)
        PROVE  CancelReachesParser'
    <2>1. request # NoExec => CurrentRequest' = CurrentRequest
      BY <1>3 DEF CurrentRequest, KeepsHistory, TypeOK
    <2>2. QED
      BY <1>3, <2>1 DEF CancelReachesParser
  <1>4. ASSUME ~closed => \A r \in Requests : ~On(r)', closed' = closed
        PROVE  CancelReachesParser'
    BY <1>4 DEF CancelReachesParser
  <1>5. ASSUME NEW r \in Requests, Running, RefuseRequest(r)  PROVE CancelReachesParser'
    <2>1. UNCHANGED <<closed, request, parser, req>>
      BY <1>5 DEF RefuseRequest, connVars, ioVars
    <2>2. request # NoExec => CurrentRequest' = CurrentRequest
      <3>1. request # NoExec => request \in Execs /\ request # made'
        BY <1>5, RefuseHistory DEF Bookkeeping, TypeOK
      <3>2. QED
        BY <1>5, <2>1, <3>1, RefuseHistory DEF CurrentRequest
    <2>3. QED
      BY <2>1, <2>2 DEF CancelReachesParser
  <1>6. ASSUME NEW r \in Requests, NEW reset, Running, AcceptRequest(r, reset)
        PROVE  CancelReachesParser'
    <2>1. parser.by = "none" /\ closed' = closed
      BY <1>6 DEF AcceptRequest, CanExecute, OneReader
    <2>2. \A x \in Requests : On(x)' => On(x)
      <3>1. req[r] \in RequestRecord /\ req \in [Requests -> RequestRecord]
        BY DEF TypeOK
      <3> DEFINE new == [req[r] EXCEPT !.on = @ \cup {"onCancelUnsent"}]
      <3>2. req' = [req EXCEPT ![r] = new]
        BY <1>6 DEF AcceptRequest
      <3>3. /\ new.canceled = req[r].canceled
            /\ "onCancelStreaming" \in new.on => "onCancelStreaming" \in req[r].on
        BY <3>1 DEF RequestRecord
      <3> HIDE DEF new
      <3>4. QED
        BY <3>1, <3>2, <3>3
    <2> HIDE DEF On
    <2>3. QED
      BY <1>1, <1>4, <2>1, <2>2
  <1>7. ASSUME NEW r \in Requests, Execute(r) \/ Reset(r)  PROVE CancelReachesParser'
    BY <1>5, <1>6, <1>7 DEF Execute, Reset, Idle
  <1>8. ASSUME NEW r \in Requests, NEW err \in Errors, ~req[r].canceled, Cancel(r, err),
               UNCHANGED <<closed, request, made>>
        PROVE  CancelReachesParser'
    <2>1. \A x \in Requests : On(x)' => On(x) /\ x # r
      BY <1>8, CancelEffect
    <2>2. KeepsHistory
      BY <1>8, CancelKeepsHistory
    <2>3. CASE UNCHANGED <<state, reader, parser>>
      <3> HIDE DEF On
      <3>1. QED
        BY <1>3, <1>8, <2>1, <2>2, <2>3
    <2>4. CASE "onCancelStreaming" \in req[r].on
      <3>1. On(r)
        BY <1>8, <2>4
      <3> HIDE DEF On
      <3>2. ~closed => r = CurrentRequest /\ \A x \in Requests : ~On(x)'
        BY <1>2, <2>1, <3>1
      <3>3. QED
        BY <1>4, <1>8, <3>2
    <2>5. QED
      BY <1>8, <2>3, <2>4, CancelEffect
  <1>9. ASSUME NEW r \in Requests, UserCancel(r)  PROVE CancelReachesParser'
    <2>1. req[r].error \in Errors
      BY DEF TypeOK, RequestRecord
    <2>2. QED
      BY <1>8, <1>9, <2>1 DEF UserCancel
  <1>10. ASSUME ConnectionCancel  PROVE CancelReachesParser'
    BY <1>9, <1>10 DEF ConnectionCancel, CurrentRequest, Bookkeeping, TypeOK
  <1>11. ASSUME NEW r, NEW e \in Errors, req' = [req EXCEPT ![r].error = e], NEW x \in Requests
         PROVE  On(x)' => On(x)
    BY <1>11 DEF TypeOK, RequestRecord
  <1>12. ASSUME RequestTimerFires  PROVE CancelReachesParser'
    <2>1. CurrentRequest \in Requests
      BY <1>12 DEF RequestTimerFires, CurrentRequest, Bookkeeping, TypeOK
    <2>2. CASE req[CurrentRequest].canceled
      <3>1. req' = [req EXCEPT ![CurrentRequest].error = "ETIMEOUT"] /\ "ETIMEOUT" \in Errors
        BY <1>12, <2>2 DEF RequestTimerFires, Errors
      <3>2. KeepsHistory
        BY <1>12, <2>2 DEF RequestTimerFires, KeepsHistory
      <3>3. \A x \in Requests : On(x)' => On(x)
        BY <1>11, <3>1
      <3> HIDE DEF On
      <3>4. QED
        BY <1>3, <1>12, <2>2, <3>2, <3>3 DEF RequestTimerFires
    <2>3. CASE ~req[CurrentRequest].canceled
      BY <1>8, <1>12, <2>1, <2>3 DEF RequestTimerFires, Errors
    <2>4. QED
      BY <2>2, <2>3
  <1>13. ASSUME closed' = TRUE  PROVE CancelReachesParser'
    BY <1>13 DEF CancelReachesParser
  <1>14. ASSUME CancelTimerFires \/ Close \/ SocketFails \/ SocketEnds
         PROVE  CancelReachesParser'
    BY <1>13, <1>14 DEF CancelTimerFires, Close, SocketFails, SocketEnds, SocketErrorHandler,
       Shutdown, CleanupConnection
  <1>15. ASSUME NEW r \in Requests, Pause(r) \/ Resume(r)  PROVE CancelReachesParser'
    <2>1. \A x \in Requests : On(x)' => On(x)
      BY <1>15, PauseEffect
    <2>2. KeepsHistory
      BY <1>15 DEF Pause, Resume, histVars, KeepsHistory
    <2> HIDE DEF On
    <2>3. QED
      BY <1>3, <1>15, <2>1, <2>2, PauseEffect DEF Pause, Resume, connVars
  <1>16. ASSUME ReadAcknowledgement \/ EndOfDrainedMessage \/ NotAcknowledged \/ Acknowledged
         PROVE  CancelReachesParser'
    <2>1. ~(parser.by = "request" /\ parser.onEnd) /\ UNCHANGED <<closed, req>>
      BY <1>16 DEF ReadAcknowledgement, EndOfDrainedMessage, NotAcknowledged, Acknowledged,
         MessageReady, connVars
    <2>2. QED
      BY <1>1, <1>4, <2>1
  <1>17. ASSUME SocketCloses \/ ServerStep  PROVE CancelReachesParser'
    <2>1. UNCHANGED <<closed, request, parser, req, exec, made>>
      BY <1>17 DEF SocketCloses, ServerStep, ServerReceives, ServerResponds, ServerEndsResponse,
         ServerAcknowledges, ServerVarsOnly, connVars, ioVars, histVars
    <2>2. QED
      BY <2>1 DEF CancelReachesParser, CurrentRequest
  <1>18. ASSUME PayloadEnds \/ PayloadFails \/ MessageFinishes  PROVE CancelReachesParser'
    <2>1. KeepsHistory
      BY <1>18, SendKeepsHistory
    <2>2. \A x \in Requests : On(x)' => On(x)
      <3>1. CASE PayloadEnds
        BY <3>1 DEF PayloadEnds
      <3>2. CASE PayloadFails
        <4> DEFINE r == exec[out.exec].req
                   e == SetError(req[r].error, "EPAYLOAD")
        <4>1. CASE r \in Requests
          <5>1. e \in Errors
            BY <4>1 DEF SetError, TypeOK, RequestRecord, Errors
          <5>2. req' = [req EXCEPT ![r].error = e]
            BY <3>2 DEF PayloadFails
          <5> HIDE DEF r, e
          <5>3. QED
            BY <1>11, <5>1, <5>2
        <4>2. CASE r \notin Requests
          BY <3>2, <4>2 DEF PayloadFails, TypeOK
        <4>3. QED
          BY <4>1, <4>2
      <3>3. CASE MessageFinishes
        <4> DEFINE r == exec[out.exec].req
                   new == [req[r] EXCEPT !.on = (@ \ {"onCancelUnsent"})
                                                  \cup {"cancelAfterRequestSent"}]
        <4>1. req' = [req EXCEPT ![r] = new]
          BY <3>3 DEF MessageFinishes
        <4>2. CASE r \in Requests
          <5>1. req[r] \in RequestRecord
            BY <4>2 DEF TypeOK
          <5> HIDE DEF r
          <5>2. /\ new.canceled = req[r].canceled
                /\ "onCancelStreaming" \in new.on => "onCancelStreaming" \in req[r].on
            BY <5>1 DEF RequestRecord
          <5> HIDE DEF new
          <5>3. QED
            BY <4>1, <4>2, <5>2 DEF TypeOK
        <4>3. CASE r \notin Requests
          <5> HIDE DEF new, r
          <5>1. QED
            BY <4>1, <4>3 DEF TypeOK
        <4>4. QED
          BY <4>2, <4>3
      <3>4. QED
        BY <1>18, <3>1, <3>2, <3>3
    <2> HIDE DEF On
    <2>3. QED
      BY <1>3, <1>18, <2>1, <2>2 DEF PayloadEnds, PayloadFails, MessageFinishes, connVars
  <1>19. ASSUME ReadResponse  PROVE CancelReachesParser'
    <2>1. parser.by = "none" /\ UNCHANGED <<closed, request, exec>>
          /\ reader = "SentClientRequest"
      BY <1>19 DEF ReadResponse, MessageReady, histVars
    <2>2. CASE UNCHANGED req
      BY <1>1, <1>4, <2>1, <2>2
    <2>3. CASE req' # req
      <3> DEFINE r == CurrentRequest
                 new == [req[r] EXCEPT !.on = @ \cup {"onPause", "onCancelStreaming"}
                                    \cup IF req[r].paused THEN {"onResume"} ELSE {}]
      <3>1. req' = [req EXCEPT ![r] = new]
        BY <1>19, <2>3 DEF ReadResponse
      <3>2. parser'.by = "request" /\ parser'.onEnd = TRUE
        BY <1>19, <2>3 DEF ReadResponse
      <3>3. \A x \in Requests : x # r => req'[x] = req[x]
        <4> HIDE DEF r, new
        <4>1. QED
          BY <3>1 DEF TypeOK
      <3>4. ~closed => request # NoExec
        BY <2>1 DEF OneReader
      <3>5. CurrentRequest' = r
        BY <2>1 DEF CurrentRequest
      <3>6. ~closed => \A x \in Requests : On(x)' => x = r
        BY <1>1, <2>1, <3>3
      <3>7. QED
        BY <2>1, <3>2, <3>4, <3>5, <3>6 DEF CancelReachesParser
    <2>4. QED
      BY <2>2, <2>3
  <1>20. ASSUME ErrorToken  PROVE CancelReachesParser'
    <2>1. KeepsHistory /\ UNCHANGED <<closed, request, parser>>
      BY <1>20, ErrorTokenKeepsHistory DEF ErrorToken, connVars, ioVars
    <2>2. \A x \in Requests : On(x)' => On(x)
      BY <1>11, <1>20 DEF ErrorToken, Errors
    <2> HIDE DEF On
    <2>3. QED
      BY <1>3, <2>1, <2>2
  <1>21. ASSUME EndOfMessage  PROVE CancelReachesParser'
    <2>1. closed' = closed /\ parser.by = "request" /\ parser.onEnd
      BY <1>21 DEF EndOfMessage
    <2>2. CASE request = NoExec
      BY <1>2, <1>4, <1>21, <2>2 DEF EndOfMessage
    <2>3. CASE request # NoExec
      <3> DEFINE r == CurrentRequest
                 new == [req[r] EXCEPT !.on = RemainingListeners(@)]
      <3>1. req' = [req EXCEPT ![r] = new]
        BY <1>21, <2>3 DEF EndOfMessage
      <3>2. r \in Requests
        BY <2>3 DEF CurrentRequest, Bookkeeping, TypeOK
      <3>3. req[r] \in RequestRecord /\ req \in [Requests -> RequestRecord]
        BY <3>2 DEF TypeOK
      <3> HIDE DEF r
      <3>4. "onCancelStreaming" \notin new.on
        BY <3>3 DEF RequestRecord, RemainingListeners
      <3>5. ~closed => \A x \in Requests : On(x) => x = r
        BY <1>2 DEF r
      <3> HIDE DEF new
      <3>6. req'[r] = new /\ \A x \in Requests : x # r => req'[x] = req[x]
        BY <3>1, <3>2, <3>3
      <3>7. ~closed => \A x \in Requests : ~On(x)'
        BY <3>4, <3>5, <3>6
      <3>8. QED
        BY <1>4, <2>1, <3>7
    <2>4. QED
      BY <2>2, <2>3
  <1>22. QED
    BY <1>7, <1>9, <1>10, <1>12, <1>14, <1>15, <1>16, <1>17, <1>18, <1>19, <1>20, <1>21
       DEF Next, Requests, SendStep, ReceiveStep, UrgentStep, SocketStep

-----------------------------------------------------------------------------
(* Theorems *)

LEMMA InitIndInv == Init => IndInv
  <1> SUFFICES ASSUME Init PROVE IndInv
    OBVIOUS
  <1>1. \A e \in Execs : exec[e].calls = 0
    BY DEF Init
  <1>2. made = 0 /\ \A e \in Execs : ~(e <= made)
    BY DEF Init
  <1>3. Bookkeeping
    BY <1>1, <1>2 DEF Init, Bookkeeping
  <1>4. OneReader /\ CancelReachesParser
    BY DEF Init, OneReader, CancelReachesParser
  <1>5. QED
    BY <1>3, <1>4, InitTypeOK DEF IndInv

LEMMA NextIndInv == IndInv /\ [Next]_vars => IndInv'
  <1> SUFFICES ASSUME IndInv, [Next]_vars PROVE IndInv'
    OBVIOUS
  <1>1. CASE Next
    <2>1. TypeOK'
      BY <1>1, NextTypeOK DEF IndInv
    <2>2. Bookkeeping'
      BY <1>1, <2>1, NextBookkeeping DEF IndInv
    <2>3. QED
      BY <1>1, <2>1, <2>2, NextOneReader, NextCancelReachesParser DEF IndInv
  <1>2. CASE UNCHANGED vars
    <2> HIDE DEF Execs, NoExec, NoMessage, NoParser
    <2>1. UNCHANGED <<state, closed, request, requestTimer, cancelTimer,
                      resetConnectionOnNextRequest, req, out, reader, parser>>
          /\ UNCHANGED <<socket, toServer, serving, incoming, made, exec, crashed>>
      BY <1>2 DEF vars, connVars, ioVars, wireVars, histVars
    <2>2. TypeOK'
      BY <2>1 DEF IndInv, TypeOK
    <2>3. Bookkeeping' /\ OneReader'
      BY <2>1 DEF IndInv, Bookkeeping, OneReader, Running
    <2>4. CancelReachesParser'
      BY <2>1 DEF IndInv, CancelReachesParser, CurrentRequest
    <2>5. QED
      BY <2>2, <2>3, <2>4 DEF IndInv
  <1>3. QED
    BY <1>1, <1>2

LEMMA Invariance == Spec => []IndInv
  BY InitIndInv, NextIndInv, PTL DEF Spec

\* Every variable keeps its type.
THEOREM TypeCorrect == Spec => []TypeOK
  <1>1. IndInv => TypeOK
    BY DEF IndInv
  <1>2. QED
    BY <1>1, Invariance, PTL

\* Whatever mixture of responses, cancels, timeouts, closes and socket events
\* completes a request, its callback is not called twice.
THEOREM AtMostOnce == Spec => []CalledBackAtMostOnce
  <1>1. IndInv => CalledBackAtMostOnce
    <2> SUFFICES ASSUME IndInv, NEW e \in Execs PROVE exec[e].calls <= 1
      BY DEF CalledBackAtMostOnce
    <2>1. exec[e].calls \in {0, 1}
      <3>1. CASE e > made
        BY <3>1 DEF IndInv, Bookkeeping
      <3>2. CASE e <= made
        BY <3>2 DEF IndInv, Bookkeeping
      <3>3. QED
        BY <3>1, <3>2, BoundAssumption DEF IndInv, TypeOK
    <2>2. QED
      BY <2>1
  <1>2. QED
    BY <1>1, Invariance, PTL

\* After cleanupConnection no request is left without its callback.
THEOREM NothingLeftPending == Spec => []NothingPendingOnceClosed
  <1>1. IndInv => NothingPendingOnceClosed
    <2> SUFFICES ASSUME IndInv, closed, NEW e \in 1..made PROVE exec[e].calls = 1
      BY DEF NothingPendingOnceClosed
    <2>1. request = NoExec
      BY DEF IndInv, Bookkeeping
    <2>2. e \in Execs /\ e <= made /\ e # NoExec
      BY BoundAssumption DEF IndInv, TypeOK
    <2>3. QED
      BY <2>1, <2>2 DEF IndInv, Bookkeeping
  <1>2. QED
    BY <1>1, Invariance, PTL

-----------------------------------------------------------------------------
(* Refinement *)

Calls == [e \in Execs |-> exec[e].calls]

LEMMA InitService == Init => Service!Init
  BY DEF Init, Service!Init, Service!Execs

\* What is called back now has been called back once.
LEMMA CompletionOfService ==
  ASSUME TypeOK, Bookkeeping, request # NoExec, CallsBack(request)
  PROVE  /\ Calls[request] = 0 /\ made' = made
         /\ Calls' = [Calls EXCEPT ![request] = 1]
         /\ Calls' = [e \in Execs |-> IF e = request THEN 1 ELSE Calls[e]]
  <1>1. request \in Execs /\ exec[request].calls = 0
    BY DEF Bookkeeping, TypeOK
  <1>2. \A e \in Execs : exec'[e].calls = IF e = request THEN 1 ELSE exec[e].calls
    BY <1>1 DEF CallsBack
  <1> HIDE DEF Execs
  <1>3. QED
    BY <1>1, <1>2 DEF Calls, CallsBack

LEMMA StepOfService ==
  ASSUME IndInv, Next
  PROVE  [Service!Next]_(Service!vars)
  <1> USE DEF IndInv
  <1>1. ASSUME KeepsHistory, UNCHANGED <<closed, request>>
        PROVE  UNCHANGED Service!vars
    BY <1>1 DEF KeepsHistory, Service!vars
  <1>2. ASSUME NEW r \in Requests, RefuseRequest(r)  PROVE Service!Reject
    <2>1. made' \in Execs /\ made' = made + 1 /\ UNCHANGED <<closed, request>>
      BY <1>2, RefuseHistory DEF RefuseRequest, connVars
    <2>2. Calls' = [Calls EXCEPT ![made'] = 1]
      <3> HIDE DEF Execs
      <3>1. QED
        BY <1>2, <2>1, RefuseHistory DEF Calls
    <2>3. QED
      BY <2>1, <2>2 DEF Service!Reject, Service!Execs, Calls
  <1>3. ASSUME NEW r \in Requests, NEW reset, Running, AcceptRequest(r, reset)
        PROVE  Service!Submit
    <2>1. made' \in Execs /\ made' = made + 1 /\ request' = made' /\ request = NoExec
          /\ ~closed /\ ~closed'
      BY <1>3, AcceptHistory DEF AcceptRequest, CanExecute, Bookkeeping
    <2>2. Calls' = Calls
      <3>1. \A e \in Execs : exec'[e].calls = exec[e].calls
        BY <1>3, AcceptHistory
      <3>2. QED
        BY <3>1 DEF Calls
    <2>3. QED
      BY <2>1, <2>2 DEF Service!Submit, Service!Execs, Calls
  <1>4. ASSUME NEW code, Shutdown(code), made' = made
        PROVE  Service!Disconnect \/ UNCHANGED Service!vars
    <2>1. closed' = TRUE /\ request' = NoExec
      BY <1>4, ShutdownHistory
    <2>2. CASE closed
      <3>1. request = NoExec /\ closed = TRUE
        BY <2>2 DEF Bookkeeping, TypeOK
      <3>2. KeepsHistory
        BY <1>4, <3>1, ShutdownHistory
      <3>3. QED
        BY <1>1, <2>1, <3>1, <3>2
    <2>3. CASE ~closed
      <3>1. made' = made /\ Calls' = [e \in Execs |-> IF e = request THEN 1 ELSE Calls[e]]
        <4>1. CASE request = NoExec
          <5>1. \A e \in Execs : e # request /\ exec'[e].calls = exec[e].calls
            <6>1. KeepsHistory
              BY <1>4, <4>1, ShutdownHistory
            <6>2. QED
              BY <4>1, <6>1 DEF KeepsHistory
          <5>2. QED
            BY <1>4, <4>1, <5>1 DEF Calls
        <4>2. CASE request # NoExec
          BY <1>4, <4>2, ShutdownHistory, CompletionOfService
        <4>3. QED
          BY <4>1, <4>2
      <3>2. QED
        BY <2>1, <2>3, <3>1 DEF Service!Disconnect, Service!Execs, Calls
    <2>4. QED
      BY <2>2, <2>3
  <1>5. ASSUME EndOfMessage \/ Acknowledged
        PROVE  Service!Complete \/ UNCHANGED Service!vars
    <2>1. request' = NoExec /\ made' = made /\ closed' = closed
      BY <1>5 DEF EndOfMessage, Acknowledged
    <2>2. CASE request = NoExec
      <3>1. KeepsHistory
        BY <1>5, <2>2 DEF EndOfMessage, Acknowledged, KeepsHistory
      <3>2. QED
        BY <1>1, <2>1, <2>2, <3>1
    <2>3. CASE request # NoExec
      <3>1. CallsBack(request)
        BY <1>5, <2>3, CallbackCallsBack DEF EndOfMessage, Acknowledged, TypeOK
      <3>2. Calls[request] = 0 /\ Calls' = [Calls EXCEPT ![request] = 1]
        BY <2>3, <3>1, CompletionOfService
      <3>3. QED
        BY <2>1, <2>3, <3>2 DEF Service!Complete, Service!Execs, Calls
    <2>4. QED
      BY <2>2, <2>3
  <1>6. ASSUME NEW r \in Requests, Execute(r) \/ Reset(r)
        PROVE  Service!Reject \/ Service!Submit
    BY <1>2, <1>3, <1>6 DEF Execute, Reset, Idle
  <1>7. ASSUME CancelTimerFires \/ Close \/ SocketFails \/ SocketEnds
        PROVE  Service!Disconnect \/ UNCHANGED Service!vars
    BY <1>4, <1>7 DEF CancelTimerFires, Close, SocketFails, SocketEnds, SocketErrorHandler
  <1>8. ASSUME NEW r \in Requests, UserCancel(r)  PROVE UNCHANGED Service!vars
    BY <1>1, <1>8, CancelKeepsHistory DEF UserCancel
  <1>9. ASSUME ConnectionCancel  PROVE UNCHANGED Service!vars
    BY <1>8, <1>9 DEF ConnectionCancel, CurrentRequest, Bookkeeping, TypeOK
  <1>10. ASSUME RequestTimerFires  PROVE UNCHANGED Service!vars
    <2>1. KeepsHistory
      BY <1>10, CancelKeepsHistory DEF RequestTimerFires, KeepsHistory
    <2>2. QED
      BY <1>1, <1>10, <2>1 DEF RequestTimerFires
  <1>11. ASSUME SendStep  PROVE UNCHANGED Service!vars
    <2>1. KeepsHistory
      BY <1>11, SendKeepsHistory DEF SendStep
    <2>2. QED
      BY <1>1, <1>11, <2>1 DEF SendStep, PayloadEnds, PayloadFails, MessageFinishes, connVars
  <1>12. ASSUME NEW r \in Requests, Pause(r) \/ Resume(r)  PROVE UNCHANGED Service!vars
    BY <1>1, <1>12 DEF Pause, Resume, connVars, histVars, KeepsHistory
  <1>13. ASSUME ErrorToken  PROVE UNCHANGED Service!vars
    BY <1>1, <1>13, ErrorTokenKeepsHistory DEF ErrorToken, connVars
  <1>14. ASSUME \/ ReadResponse \/ ReadAcknowledgement \/ EndOfDrainedMessage
                \/ NotAcknowledged \/ SocketCloses \/ ServerStep
         PROVE  UNCHANGED Service!vars
    <2>1. UNCHANGED <<closed, request, made, exec>>
      BY <1>14 DEF ReadResponse, ReadAcknowledgement, EndOfDrainedMessage, NotAcknowledged,
         SocketCloses, ServerStep, ServerReceives, ServerResponds, ServerEndsResponse,
         ServerAcknowledges, ServerVarsOnly, connVars, histVars
    <2>2. QED
      BY <1>1, <2>1 DEF KeepsHistory
  <1>15. QED
    BY <1>5, <1>6, <1>7, <1>8, <1>9, <1>10, <1>11, <1>12, <1>13, <1>14
       DEF Next, Requests, ReceiveStep, UrgentStep, SocketStep, Service!Next

\* The connection implements the service it promises: one request at a time,
\* each called back once, the one in progress by the end of the connection if
\* by nothing else.
THEOREM Implementation == Spec => ImplementsService
  <1>1. UNCHANGED vars => UNCHANGED Service!vars
    BY DEF vars, connVars, histVars, Service!vars
  <1>2. IndInv /\ [Next]_vars => [Service!Next]_(Service!vars)
    BY <1>1, StepOfService
  <1>3. QED
    BY <1>2, InitService, Invariance, PTL DEF Spec, Service!Spec, ImplementsService

=============================================================================

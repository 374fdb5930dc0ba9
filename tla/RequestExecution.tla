-------------------------- MODULE RequestExecution --------------------------
(***************************************************************************)
(* The execution of requests on a logged in tedious connection:            *)
(* Connection.makeRequest, cancel, reset and close, the states LOGGED_IN,  *)
(* SENT_CLIENT_REQUEST, SENT_ATTENTION and FINAL (src/src/connection.ts),  *)
(* the cancel, pause and resume of a Request (src/src/request.ts) and the  *)
(* part of the message streams that decides when the next message of the   *)
(* server is read (src/src/incoming-message-stream.ts).                    *)
(*                                                                         *)
(* Granularity.  Node.js runs one callback at a time and empties the tick  *)
(* and microtask queues before the next one, so an action is one callback  *)
(* with all the promise continuations it leads to.  The few continuations  *)
(* that are actions of their own (reading a message that is already there) *)
(* are Urgent: nothing else happens before them.                           *)
(*                                                                         *)
(* The rows of a response are abstracted to the ERROR token it may hold;   *)
(* the server (external) is what the code expects of it: one response per  *)
(* request message, one acknowledgement message per attention, in order.   *)
(***************************************************************************)
EXTENDS Naturals, Sequences

CONSTANTS
    UserRequests,    \* Request objects the program executes, cancels, pauses
    ResetRequests,   \* Request objects that Connection.reset makes itself
    MaxExecs,        \* bound: how many executions the program asks for
    RequestTimeout,  \* options.requestTimeout, 0 for none
    CancelTimeout,   \* options.cancelTimeout, 0 for none
    NoRequest        \* the owner of an execution not asked for yet

Requests == UserRequests \cup ResetRequests
Execs    == 1..MaxExecs
NoExec   == 0

ASSUME RequestAssumption ==
    /\ UserRequests \cap ResetRequests = {}
    /\ NoRequest \notin Requests
ASSUME BoundAssumption ==
    /\ MaxExecs \in Nat /\ RequestTimeout \in Nat /\ CancelTimeout \in Nat

VARIABLES
    \* Connection
    state,          \* this.state
    closed,         \* this.closed
    request,        \* this.request, as the execution it belongs to
    resetConnectionOnNextRequest,
    requestTimer, cancelTimer,      \* the timer is armed
    \* Request objects: canceled, paused, error, and the listeners (on)
    req,
    \* outgoing Message being written: phase, exec, ignore, reset
    out,
    \* readers: the state whose enter handler awaits readMessage(), and the
    \* token parser attached to the first message of incoming
    reader, parser,
    \* the socket, the messages under way to the server, the execution it
    \* works on, and the messages that IncomingMessageStream holds
    socket, toServer, serving, incoming,
    \* history: executions asked for, and what became of each
    made, exec,
    crashed         \* the exception that ended the process, "no" if none

connVars == <<state, closed, request, requestTimer, cancelTimer>>
ioVars   == <<out, reader, parser>>
wireVars == <<socket, toServer, serving, incoming>>
histVars == <<made, exec>>
vars == <<connVars, resetConnectionOnNextRequest, req, ioVars, wireVars,
          histVars, crashed>>

-----------------------------------------------------------------------------
(* Types *)

States    == {"LoggedIn", "SentClientRequest", "SentAttention", "Final"}
Errors    == {"none", "ECANCEL", "ETIMEOUT", "EREQUEST", "EPAYLOAD"}
Outcomes  == {"pending", "ok", "ECANCEL", "ETIMEOUT", "EREQUEST", "EPAYLOAD",
              "EINVALIDSTATE", "ECLOSE", "ESOCKET"}
CancelListeners == {"onCancelUnsent", "cancelAfterRequestSent", "onCancelStreaming"}
Listeners == CancelListeners \cup {"onPause", "onResume"}
Crashes   == {"no", "endOfMessage", "socketError", "attention", "unexpectedToken"}

RequestRecord == [canceled : BOOLEAN, paused : BOOLEAN, error : Errors,
                  on : SUBSET Listeners]
ExecRecord    == [req : Requests \cup {NoRequest}, calls : Nat,
                  outcome : Outcomes, answer : Execs \cup {NoExec},
                  attention : BOOLEAN, ignored : BOOLEAN, failed : BOOLEAN]
OutRecord     == [phase : {"none", "streaming", "ending"},
                  exec : Execs \cup {NoExec}, ignore : BOOLEAN, reset : BOOLEAN]
Readers       == {"none", "SentClientRequest", "SentAttention"}
ParserRecord  == [by : {"none", "request", "attention"},
                  exec : Execs \cup {NoExec}, onEnd : BOOLEAN, paused : BOOLEAN]
ClientMessage == [type : {"request", "attention"}, exec : Execs \cup {NoExec},
                  reset : BOOLEAN]
ServerMessage == [type : {"response", "ack"}, exec : Execs \cup {NoExec},
                  failed : BOOLEAN, eom : BOOLEAN]

NoMessage == [phase |-> "none", exec |-> NoExec, ignore |-> FALSE, reset |-> FALSE]
NoParser  == [by |-> "none", exec |-> NoExec, onEnd |-> FALSE, paused |-> FALSE]

-----------------------------------------------------------------------------
(* Helpers *)

\* The Request object this.request refers to.
CurrentRequest == exec[request].req

\* sqlRequest.callback(code), for an execution that the response to
\* execution `answer` completes (NoExec when no response does).
Callback(e, code, answer) ==
    [exec EXCEPT ![e].calls = @ + 1, ![e].outcome = code, ![e].answer = answer]

\* request.error ??= code
SetError(error, code) == IF error = "none" THEN code ELSE error

\* What is written while the socket is open reaches the server in order.
Sent(message) ==
    IF socket = "open" THEN Append(toServer, message) ELSE toServer

\* What a request is called back with at the end of its response
ResultUnlessTimeout(error) ==           \* fault: as in SENT_ATTENTION
    IF error = "ETIMEOUT" THEN error ELSE "ok"
Result(error) == IF error = "none" THEN "ok" ELSE error

\* Connection.createCancelTimer and createRequestTimer
CreateCancelTimerNever == FALSE         \* fault: the attention is not timed
CreateCancelTimer  == CancelTimeout > 0
CreateRequestTimer == RequestTimeout > 0

\* Connection.clearRequestTimer
ClearRequestTimer    == requestTimer' = FALSE

\* makeRequest is for the LOGGED_IN state.
CanExecuteEarly == state \in {"LoggedIn", "SentClientRequest"}      \* fault
CanExecute      == state = "LoggedIn"

\* onCancel of makeRequest and the error handler of the payload stream: the
\* message is ended, with the ignore bit set.
AbortedOpen(message) == [message EXCEPT !.phase = "none"]     \* fault: no end()
Aborted(message)     == [message EXCEPT !.phase = "ending", !.ignore = TRUE]

\* onCancel of SENT_CLIENT_REQUEST: the 'end' listener is taken off the parser,
\* and the parser goes on if the request is resumed.
DetachedAttached(p, resumed) == [p EXCEPT !.paused = @ /\ ~resumed]  \* fault
Detached(p, resumed)         == [p EXCEPT !.onEnd = FALSE, !.paused = @ /\ ~resumed]

\* onEndOfMessage takes the listeners of SENT_CLIENT_REQUEST off the request.
RemainingListenersLeak(on) == on \ {"onPause", "onResume"}           \* fault
RemainingListeners(on)     == on \cap {"onCancelUnsent"}

\* cleanupConnection, which does its work once: the timers but the cancel
\* timer are cleared, and the socket is destroyed with what is under way.
CleanupConnection ==
    /\ closed' = TRUE
    /\ socket' = IF closed THEN socket ELSE "destroyed"
    /\ toServer' = <<>> /\ serving' = NoExec
    /\ ClearRequestTimer

\* The transition to FINAL: the request in progress, if any, is called back.
Shutdown(code) ==
    /\ state' = "Final"
    /\ CleanupConnection
    /\ request' = NoExec
    /\ exec' = IF request = NoExec THEN exec ELSE Callback(request, code, NoExec)

\* dispatchEvent('socketError', ..).  The handlers of SENT_CLIENT_REQUEST and
\* SENT_ATTENTION take it for granted that there is a request.
SocketErrorHandler(code) ==
    /\ Shutdown(code)
    /\ crashed' = IF /\ state \in {"SentClientRequest", "SentAttention"}
                     /\ request = NoExec
                  THEN "socketError" ELSE crashed

-----------------------------------------------------------------------------
(* The event loop *)

\* IncomingMessageStream hands out one message at a time, to the reader that
\* waits for it or, when there is none, to the next one that will.
MessageReady == reader # "none" /\ parser.by = "none" /\ incoming # <<>>

\* What the event loop does before it takes the next timer, socket event or
\* callback of the program; an attention parser's message is there at once.
Urgent == MessageReady \/ (parser.by = "attention" /\ Head(incoming).eom)

Running == crashed = "no"
Idle    == Running /\ ~Urgent

-----------------------------------------------------------------------------
(* Initially the login is over. *)

Init ==
    /\ state = "LoggedIn" /\ closed = FALSE /\ request = NoExec
    /\ resetConnectionOnNextRequest = FALSE
    /\ requestTimer = FALSE /\ cancelTimer = FALSE
    /\ req = [r \in Requests |-> [canceled |-> FALSE, paused |-> FALSE,
                                  error |-> "none", on |-> {}]]
    /\ out = NoMessage /\ reader = "none" /\ parser = NoParser
    /\ socket = "open" /\ toServer = <<>> /\ serving = NoExec /\ incoming = <<>>
    /\ made = 0
    /\ exec = [e \in Execs |-> [req |-> NoRequest, calls |-> 0, outcome |-> "pending",
                                answer |-> NoExec, attention |-> FALSE,
                                ignored |-> FALSE, failed |-> FALSE]]
    /\ crashed = "no"

-----------------------------------------------------------------------------
(* makeRequest *)

\* The execution that is asked for next, by request r.
NewExec(r) == [exec EXCEPT ![made + 1].req = r]

\* Refused, with EINVALIDSTATE or, for a canceled request, with ECANCEL.
RefuseRequest(r) ==
    /\ ~CanExecute \/ req[r].canceled
    /\ made < MaxExecs
    /\ made' = made + 1
    /\ exec' = [NewExec(r) EXCEPT
                  ![made'].calls = 1,
                  ![made'].outcome = IF CanExecute THEN "ECANCEL" ELSE "EINVALIDSTATE"]
    /\ UNCHANGED <<connVars, req, ioVars, wireVars, crashed>>

\* Accepted: the message is opened with the reset flag as it stands, the
\* payload starts to flow, and SENT_CLIENT_REQUEST awaits the response.  (The
\* last message has been written by then, see QuietWhenLoggedIn, except with no
\* CancelTimeout; a second open message is left out there.)
AcceptRequest(r, reset) ==
    /\ CanExecute /\ ~req[r].canceled /\ out = NoMessage
    /\ made < MaxExecs
    /\ made' = made + 1
    /\ exec' = NewExec(r)
    /\ request' = made'
    /\ req' = [req EXCEPT ![r].on = @ \cup {"onCancelUnsent"}]
    /\ requestTimer' = CreateRequestTimer
    /\ out' = [phase |-> "streaming", exec |-> made', ignore |-> FALSE, reset |-> reset]
    /\ state' = "SentClientRequest" /\ reader' = "SentClientRequest"
    /\ UNCHANGED <<closed, cancelTimer, parser, wireVars, crashed>>

\* execSql and the other operations that end in makeRequest
Execute(r) ==
    /\ Idle
    /\ RefuseRequest(r) \/ AcceptRequest(r, resetConnectionOnNextRequest)
    /\ UNCHANGED resetConnectionOnNextRequest

\* reset: the flag is set before the new Request is executed, or refused
ResetLate(r) ==                         \* fault: the flag is set afterwards
    /\ Idle
    /\ \A e \in Execs : exec[e].req # r
    /\ resetConnectionOnNextRequest' = TRUE
    /\ RefuseRequest(r) \/ AcceptRequest(r, resetConnectionOnNextRequest)
Reset(r) ==
    /\ Idle
    /\ \A e \in Execs : exec[e].req # r
    /\ resetConnectionOnNextRequest' = TRUE
    /\ RefuseRequest(r) \/ AcceptRequest(r, TRUE)

\* The payload has been piped into the message, and ended it.
PayloadEnds ==
    /\ Idle
    /\ out.phase = "streaming"
    /\ out' = [out EXCEPT !.phase = "ending"]
    /\ UNCHANGED <<connVars, resetConnectionOnNextRequest, req, reader, parser,
                   wireVars, histVars, crashed>>

\* Producing the payload throws: payloadStream emits 'error'.
PayloadFails ==
    /\ Idle
    /\ out.phase = "streaming"
    /\ out' = Aborted(out)
    /\ req' = [req EXCEPT ![exec[out.exec].req].error = SetError(@, "EPAYLOAD")]
    /\ UNCHANGED <<connVars, resetConnectionOnNextRequest, reader, parser,
                   wireVars, histVars, crashed>>

\* 'finish' of the message: all of it has been taken by the outgoing stream.
MessageFinishes ==
    /\ Idle
    /\ out.phase = "ending"
    /\ out' = NoMessage
    /\ req' = [req EXCEPT ![exec[out.exec].req].on =
                 (@ \ {"onCancelUnsent"}) \cup {"cancelAfterRequestSent"}]
    /\ toServer' = Sent([type |-> "request", exec |-> out.exec, reset |-> out.reset])
    /\ exec' = [exec EXCEPT ![out.exec].ignored = out.ignore]
    /\ resetConnectionOnNextRequest' = FALSE
    /\ UNCHANGED <<connVars, reader, parser, socket, serving, incoming,
                   made, crashed>>

-----------------------------------------------------------------------------
(* Request.cancel, pause and resume *)

\* Whether request r is told to cancel with a listener registered for it.
Listening(r, listener) == listener \in req[r].on

\* onCancel of makeRequest, until the message is finished
OnCancelUnsent(r) ==
    \/ Listening(r, "onCancelUnsent") /\ out' = Aborted(out)
    \/ ~Listening(r, "onCancelUnsent") /\ UNCHANGED out

\* _cancelAfterRequestSent, from then on: an ATTENTION message, and the timer.
\* It does not ask whether the connection is still there.
OnCancelSent(r) ==
    \/ /\ Listening(r, "cancelAfterRequestSent")
       /\ toServer' = Sent([type |-> "attention", exec |-> request, reset |-> FALSE])
       /\ cancelTimer' = CreateCancelTimer
       /\ exec' = IF request = NoExec THEN exec
                  ELSE [exec EXCEPT ![request].attention = TRUE]
    \/ ~Listening(r, "cancelAfterRequestSent") /\ UNCHANGED <<toServer, cancelTimer, exec>>

\* Both onCancel listeners resume a paused request, the second one if it is
\* this.request; resuming reaches the parser if onResume listens.
CancelResumes(r) ==
    \/ Listening(r, "onCancelUnsent")
    \/ Listening(r, "onCancelStreaming") /\ request # NoExec

\* onCancel of SENT_CLIENT_REQUEST, while the response is parsed: the rest of
\* it is only drained, and the next message is left to SENT_ATTENTION.
OnCancelStreaming(r) ==
    \/ /\ Listening(r, "onCancelStreaming")
       /\ parser' = Detached(parser, CancelResumes(r) /\ Listening(r, "onResume"))
       /\ state' = "SentAttention" /\ reader' = "SentAttention"
    \/ ~Listening(r, "onCancelStreaming") /\ UNCHANGED <<state, reader, parser>>

\* The listeners that stay on the request once it is canceled
UncanceledListeners(r) ==
    CASE ~CancelResumes(r) -> {"onPause", "onResume"}
      [] CancelResumes(r) /\ request = NoExec -> {"onPause"}
      [] OTHER -> {}

\* Request.cancel, given what request.error is set to beside it.  Destroying
\* a payload stream makes it emit the ECANCEL error, unless it has ended, and
\* so is destroyed, already.
Cancel(r, err) ==
    /\ OnCancelUnsent(r) /\ OnCancelSent(r) /\ OnCancelStreaming(r)
    /\ req' = [req EXCEPT
                 ![r].canceled = TRUE,
                 ![r].paused = @ /\ ~CancelResumes(r),
                 ![r].error = IF Listening(r, "onCancelUnsent") /\ out.phase = "streaming"
                              THEN SetError(err, "ECANCEL") ELSE err,
                 ![r].on = @ \cap UncanceledListeners(r)]

\* The program calls request.cancel() or connection.cancel().  Leaving
\* SENT_CLIENT_REQUEST clears the request timer.
UserCancel(r) ==
    /\ Idle
    /\ ~req[r].canceled
    /\ Cancel(r, req[r].error)
    /\ requestTimer' = (requestTimer /\ state' = state)
    /\ UNCHANGED <<closed, request, resetConnectionOnNextRequest, socket, serving,
                   incoming, made, crashed>>

\* connection.cancel(), which reaches the requests reset() makes as well
ConnectionCancel == request # NoExec /\ UserCancel(CurrentRequest)

\* requestTimeout: the request is canceled, and its error is ETIMEOUT whether
\* that had an effect or not.
RequestTimerFires ==
    /\ Idle
    /\ requestTimer
    /\ requestTimer' = FALSE
    /\ LET r == CurrentRequest
       IN  IF req[r].canceled
           THEN /\ req' = [req EXCEPT ![r].error = "ETIMEOUT"]
                /\ UNCHANGED <<state, cancelTimer, out, reader, parser, toServer, exec>>
           ELSE Cancel(r, "ETIMEOUT")
    /\ UNCHANGED <<closed, request, resetConnectionOnNextRequest, socket, serving,
                   incoming, made, crashed>>

\* cancelTimeout: the acknowledgement has not come in time.
CancelTimerFires ==
    /\ Idle
    /\ cancelTimer
    /\ cancelTimer' = FALSE
    /\ SocketErrorHandler("ETIMEOUT")
    /\ UNCHANGED <<resetConnectionOnNextRequest, req, ioVars, incoming, made>>

\* onPause stops the parser and waits for the request to be resumed.
Pause(r) ==
    /\ Idle
    /\ ~req[r].paused
    /\ req' = [req EXCEPT
                 ![r].paused = TRUE,
                 ![r].on = IF Listening(r, "onPause") /\ request # NoExec
                           THEN @ \cup {"onResume"} ELSE @]
    /\ parser' = [parser EXCEPT !.paused = @ \/ (Listening(r, "onPause")
                                                   /\ parser.by = "request")]
    /\ UNCHANGED <<connVars, resetConnectionOnNextRequest, out, reader, wireVars,
                   histVars, crashed>>

Resume(r) ==
    /\ Idle
    /\ req[r].paused
    /\ req' = [req EXCEPT ![r].paused = FALSE, ![r].on = @ \ {"onResume"}]
    /\ parser' = [parser EXCEPT !.paused = @ /\ ~Listening(r, "onResume")]
    /\ UNCHANGED <<connVars, resetConnectionOnNextRequest, out, reader, wireVars,
                   histVars, crashed>>

-----------------------------------------------------------------------------
(* Reading the server's messages *)

\* SENT_CLIENT_REQUEST has its message.  It stops the request timer; if an
\* attention is out and timed, the message is only drained and the next one
\* left to SENT_ATTENTION.
ReadResponse ==
    /\ Running
    /\ MessageReady /\ reader = "SentClientRequest"
    /\ ClearRequestTimer
    /\ LET r == CurrentRequest
       IN  IF req[r].canceled /\ cancelTimer
           THEN /\ state' = "SentAttention" /\ reader' = "SentAttention"
                /\ parser' = [by |-> "request", exec |-> request, onEnd |-> FALSE,
                              paused |-> FALSE]
                /\ UNCHANGED req
           ELSE /\ reader' = "none"
                /\ parser' = [by |-> "request", exec |-> request, onEnd |-> TRUE,
                              paused |-> req[r].paused]
                /\ req' = [req EXCEPT ![r].on =
                             @ \cup {"onPause", "onCancelStreaming"}
                               \cup IF req[r].paused THEN {"onResume"} ELSE {}]
                /\ UNCHANGED state
    /\ UNCHANGED <<closed, request, cancelTimer, resetConnectionOnNextRequest, out,
                   wireVars, histVars, crashed>>

\* SENT_ATTENTION has its message.
ReadAcknowledgement ==
    /\ Running
    /\ MessageReady /\ reader = "SentAttention"
    /\ reader' = "none"
    /\ parser' = [by |-> "attention", exec |-> request, onEnd |-> TRUE, paused |-> FALSE]
    /\ UNCHANGED <<connVars, resetConnectionOnNextRequest, req, out, wireVars,
                   histVars, crashed>>

\* RequestTokenHandler.onErrorMessage: the tokens of a canceled request are
\* ignored.
ErrorToken ==
    /\ Idle
    /\ parser.by = "request" /\ ~parser.paused /\ Head(incoming).failed
    /\ LET r == exec[parser.exec].req
       IN  req' = IF req[r].canceled THEN req
                  ELSE [req EXCEPT ![r].error = "EREQUEST"]
    /\ exec' = [exec EXCEPT ![parser.exec].failed = TRUE]
    /\ incoming' = [incoming EXCEPT ![1].failed = FALSE]
    /\ UNCHANGED <<connVars, resetConnectionOnNextRequest, ioVars, socket, toServer,
                   serving, made, crashed>>

\* The parser has reached the end of its message.
MessageEnds ==
    /\ parser.by # "none" /\ ~parser.paused
    /\ Head(incoming).eom
    /\ incoming' = Tail(incoming)
    /\ parser' = NoParser

\* onEndOfMessage: LOGGED_IN again, and the request is called back.  After
\* close() the parser goes on with what has been received, and at the end of
\* it there is no request left to call back.
EndOfMessage ==
    /\ Idle
    /\ MessageEnds /\ parser.by = "request" /\ parser.onEnd
    /\ ~Head(incoming).failed
    /\ state' = "LoggedIn" /\ request' = NoExec
    /\ ClearRequestTimer
    /\ IF request = NoExec
       THEN crashed' = "endOfMessage" /\ UNCHANGED <<req, exec>>
       ELSE LET r == CurrentRequest
            IN  /\ exec' = Callback(request, Result(req[r].error), Head(incoming).exec)
                /\ req' = [req EXCEPT ![r].on = RemainingListeners(@)]
                /\ UNCHANGED crashed
    /\ UNCHANGED <<closed, cancelTimer, resetConnectionOnNextRequest, out, reader,
                   socket, toServer, serving, made>>

\* The end of a message nobody waits for any more.
EndOfDrainedMessage ==
    /\ Idle
    /\ MessageEnds /\ parser.by = "request" /\ ~parser.onEnd
    /\ UNCHANGED <<connVars, resetConnectionOnNextRequest, req, out, reader, socket,
                   toServer, serving, histVars, crashed>>

\* SENT_ATTENTION has read all of its message, and it is the acknowledgement.
Acknowledged ==
    /\ Running
    /\ MessageEnds /\ parser.by = "attention" /\ Head(incoming).type = "ack"
    /\ cancelTimer' = FALSE
    /\ state' = "LoggedIn" /\ request' = NoExec
    /\ IF request = NoExec
       THEN crashed' = "attention" /\ UNCHANGED exec
       ELSE /\ exec' = Callback(request, IF req[CurrentRequest].error = "ETIMEOUT"
                                        THEN "ETIMEOUT" ELSE "ECANCEL", NoExec)
            /\ UNCHANGED crashed
    /\ UNCHANGED <<closed, requestTimer, resetConnectionOnNextRequest, req, out,
                   reader, socket, toServer, serving, made>>

\* It is something else: AttentionTokenHandler throws on the tokens of a
\* response, and if there is only a DONE nothing more is read.
NotAcknowledged ==
    /\ Running
    /\ MessageEnds /\ parser.by = "attention" /\ Head(incoming).type # "ack"
    /\ \/ crashed' = "unexpectedToken"
       \/ ~Head(incoming).failed /\ UNCHANGED crashed
    /\ UNCHANGED <<connVars, resetConnectionOnNextRequest, req, out, reader, socket,
                   toServer, serving, histVars>>

-----------------------------------------------------------------------------
(* close(), and the events of the socket *)

Close ==
    /\ Idle
    /\ state # "Final"
    /\ Shutdown("ECLOSE")
    /\ UNCHANGED <<cancelTimer, resetConnectionOnNextRequest, req, ioVars, incoming, made, crashed>>

\* 'error' of the socket: it is destroyed.
SocketFails ==
    /\ Idle
    /\ socket = "open"
    /\ SocketErrorHandler("ESOCKET")
    /\ UNCHANGED <<cancelTimer, resetConnectionOnNextRequest, req, ioVars, incoming, made>>

\* 'end' of the socket, which ends IncomingMessageStream: a reader that waits
\* for a message gets an error in FINAL, where it is ignored.
SocketEnds ==
    /\ Idle
    /\ socket = "open"
    /\ state # "Final"
    /\ SocketErrorHandler("ESOCKET")
    /\ reader' = IF parser.by = "none" THEN "none" ELSE reader
    /\ UNCHANGED <<cancelTimer, resetConnectionOnNextRequest, req, out, parser,
                   incoming, made>>

\* 'close' of the socket: FINAL, from whatever state a late cancel left.
SocketCloses ==
    /\ Idle
    /\ socket = "destroyed"
    /\ socket' = "closed"
    /\ state' = "Final"
    /\ UNCHANGED <<closed, request, requestTimer, cancelTimer,
                   resetConnectionOnNextRequest, req, ioVars, toServer, serving,
                   incoming, histVars, crashed>>

-----------------------------------------------------------------------------
(* The server (external) *)

Responding == incoming # <<>> /\ ~incoming[Len(incoming)].eom

ServerVarsOnly ==
    /\ socket = "open"
    /\ UNCHANGED <<connVars, resetConnectionOnNextRequest, req, ioVars, socket,
                   histVars, crashed>>

\* It takes up the next request, once it has answered the one before.
ServerReceives ==
    /\ Idle
    /\ toServer # <<>> /\ serving = NoExec
    /\ Head(toServer).type = "request"
    /\ serving' = Head(toServer).exec
    /\ toServer' = Tail(toServer)
    /\ UNCHANGED incoming
    /\ ServerVarsOnly

\* The first part of its response arrives.
ServerResponds ==
    /\ Idle
    /\ serving # NoExec /\ ~Responding
    /\ \E failed \in BOOLEAN :
          incoming' = Append(incoming, [type |-> "response", exec |-> serving,
                                        failed |-> failed, eom |-> FALSE])
    /\ UNCHANGED <<toServer, serving>>
    /\ ServerVarsOnly

\* The last part of it arrives (early, when an attention is waiting).
ServerEndsResponse ==
    /\ Idle
    /\ Responding
    /\ incoming' = [incoming EXCEPT ![Len(incoming)].eom = TRUE]
    /\ serving' = NoExec
    /\ UNCHANGED toServer
    /\ ServerVarsOnly

\* The acknowledgement of an attention arrives, as a message of its own.
ServerAcknowledges ==
    /\ Idle
    /\ toServer # <<>> /\ serving = NoExec
    /\ Head(toServer).type = "attention"
    /\ incoming' = Append(incoming, [type |-> "ack", exec |-> Head(toServer).exec,
                                     failed |-> FALSE, eom |-> TRUE])
    /\ toServer' = Tail(toServer)
    /\ UNCHANGED serving
    /\ ServerVarsOnly

-----------------------------------------------------------------------------
(* The next-state relation *)

SendStep    == PayloadEnds \/ PayloadFails \/ MessageFinishes
ReceiveStep == ErrorToken \/ EndOfMessage \/ EndOfDrainedMessage
UrgentStep  == ReadResponse \/ ReadAcknowledgement \/ Acknowledged \/ NotAcknowledged
SocketStep  == SocketFails \/ SocketEnds \/ SocketCloses
ServerStep  == ServerReceives \/ ServerResponds \/ ServerEndsResponse
               \/ ServerAcknowledges

Next ==
    \/ \E r \in UserRequests : Execute(r) \/ UserCancel(r) \/ Pause(r) \/ Resume(r)
    \/ \E r \in ResetRequests : Reset(r)
    \/ ConnectionCancel
    \/ Close
    \/ SendStep
    \/ RequestTimerFires \/ CancelTimerFires
    \/ UrgentStep \/ ReceiveStep
    \/ SocketStep
    \/ ServerStep

Spec == Init /\ [][Next]_vars

-----------------------------------------------------------------------------
(* Fairness.  The client's own steps are taken by an event loop that runs    *)
(* whatever is ready, and its timers fire.  Nothing makes the program call   *)
(* anything, nor the peer take or send anything; runs that need a server     *)
(* that answers say so.                                                      *)

TimersFire   == WF_vars(RequestTimerFires) /\ WF_vars(CancelTimerFires)
ClientRuns   == WF_vars(UrgentStep) /\ WF_vars(ReceiveStep)
MessagesFlow == WF_vars(PayloadEnds) /\ WF_vars(MessageFinishes)
ServerRuns   == WF_vars(ServerStep)

\* A paused request is resumed, and stays so for long enough.
ProgramResumes ==
    /\ \A r \in UserRequests : WF_vars(Resume(r))
    /\ SF_vars(ReceiveStep)

SilentServerSpec == Spec /\ TimersFire /\ ClientRuns /\ MessagesFlow

-----------------------------------------------------------------------------
(* Properties *)

\* Every variable has its type.
TypeOK ==
    /\ state \in States /\ closed \in BOOLEAN
    /\ request \in Execs \cup {NoExec}
    /\ resetConnectionOnNextRequest \in BOOLEAN
    /\ requestTimer \in BOOLEAN /\ cancelTimer \in BOOLEAN
    /\ req \in [Requests -> RequestRecord]
    /\ out \in OutRecord /\ reader \in Readers /\ parser \in ParserRecord
    /\ socket \in {"open", "destroyed", "closed"}
    /\ toServer \in Seq(ClientMessage) /\ serving \in Execs \cup {NoExec}
    /\ incoming \in Seq(ServerMessage)
    /\ made \in 0..MaxExecs /\ exec \in [Execs -> ExecRecord]
    /\ crashed \in Crashes

\* No completion callback is called twice, whatever mixture of responses,
\* cancels, timeouts, closes and socket events completes the request.
CalledBackAtMostOnce == \A e \in Execs : exec[e].calls <= 1

\* When the connection takes requests again (LOGGED_IN), nothing of the last
\* one is left: no message or acknowledgement on the wire, no reader, parser
\* or timer, and no listener of its Request.  What was left would be taken for
\* the next request's response, or reach the next request's messages.
QuietWhenLoggedIn ==
    state = "LoggedIn" /\ ~closed =>
        /\ request = NoExec /\ out = NoMessage
        /\ reader = "none" /\ parser = NoParser
        /\ toServer = <<>> /\ serving = NoExec /\ incoming = <<>>
        /\ ~requestTimer /\ ~cancelTimer
        /\ \A r \in Requests : req[r].on = {}

\* onEndOfMessage calls a request back on the end of its own response.
AnsweredByOwnResponse ==
    \A e \in Execs : exec[e].answer \in {NoExec, e}

\* A request for which an ATTENTION was sent (_cancelAfterRequestSent) is
\* called back as canceled, timed out, or lost with the connection: never as
\* done or failed on the server.  Meanwhile the parser is not paused, even if
\* the request was: it drains the response that the acknowledgement is behind.
AttentionIsHonoured ==
    /\ \A e \in Execs : exec[e].attention =>
          exec[e].outcome \in {"pending", "ECANCEL", "ETIMEOUT", "ECLOSE", "ESOCKET"}
    /\ ~closed /\ request # NoExec /\ exec[request].attention => ~parser.paused

\* Once cleanupConnection has run, every request made has had its callback.
NothingPendingOnceClosed ==
    closed => \A e \in 1..made : exec[e].calls = 1

\* An ERROR token is not lost: if the server failed a request it was not told
\* to ignore (RequestTokenHandler.onErrorMessage), the request is not done.
ErrorIsReported ==
    \A e \in Execs : exec[e].failed /\ ~exec[e].ignored => exec[e].outcome # "ok"

\* The request that reset() makes is the one that carries the reset flag.
ResetCarriesFlag ==
    \A i \in DOMAIN toServer : toServer[i].type = "request" =>
        (exec[toServer[i].exec].req \in ResetRequests => toServer[i].reset)

\* Each execution is called back exactly once, one runs at a time, and the
\* end of the connection calls back the one in progress.
Service == INSTANCE RequestService WITH
    alive <- ~closed, current <- request, made <- made,
    calls <- [e \in Execs |-> exec[e].calls]
ImplementsService == Service!Spec

\* With a server that answers, and a program that resumes what it pauses, an
\* execution in progress does not stay so: makeRequest, the response, a cancel
\* or the end of the connection lead to its callback in every order.
CompletesWithServer ==
    ServerRuns /\ ProgramResumes =>
        \A e \in Execs : e <= made ~> exec[e].calls > 0

\* An attention is over in bounded time: acknowledged, or cancelTimeout ends
\* it, even if the server never says anything again.
AttentionIsBounded ==
    \A e \in Execs : exec[e].attention ~> exec[e].calls > 0

=============================================================================

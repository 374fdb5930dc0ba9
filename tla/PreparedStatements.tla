--------------------------- MODULE PreparedStatements ---------------------------
(***************************************************************************)
(* Requests that are used again: prepare, execute, unprepare and execSql   *)
(* of src/src/connection.ts, and the callback of a Request                 *)
(* (src/src/request.ts).                                                   *)
(*                                                                         *)
(* A request keeps, from one call to the next, its handle, its error, that *)
(* it was canceled, and the listeners that prepare() added.  The program   *)
(* makes a call on a request when the one before is answered; with several *)
(* requests it may call while the connection is busy.  Of the messages of  *)
(* one call only what decides what the program is told is kept here: how   *)
(* far the message is when a cancel or a failure comes (RequestExecution   *)
(* has all of it, and the timers).                                         *)
(***************************************************************************)
EXTENDS Integers, Sequences

CONSTANTS
    Requests,
    MaxCalls,           \* bound: the calls of a behavior
    OutputNames,        \* the names of output parameters, of which "handle" is one
    None

Handles  == 1..MaxCalls
NoHandle == 0
Calls    == {"prepare", "execute", "unprepare", "execSql"}
Active   == [request : Requests, call : Calls, handle : Handles \cup {NoHandle}]

ASSUME NoneAssumption == None \notin Active
ASSUME BoundAssumption == MaxCalls \in Nat

VARIABLES
    preparing, handle, error, canceled,     \* of each request
    listeners,          \* how many prepare() added to 'returnValue' of each request
    active,             \* the call the connection is at, or None
    message,            \* how far its message is: its payload flows ("streaming"), has
                        \* ended ("ending"), the message is finished ("sent"), or it
                        \* goes out with the ignore bit ("ignored")
    answered,           \* the response to it has been read, but for its end
    ticks,              \* callbacks for process.nextTick
    prepared,           \* server: the request each handle was made for, and if it is open
    made,               \* how many calls were made
    asked, outcome,     \* the program: the call it made, and what it was told of it
    served,             \* whether the server did what the last call asked
    unheard,            \* the last call was canceled where no error is told of it
    suspect             \* an earlier call failed, or prepare() has heard an output

requestVars == <<preparing, handle, error, canceled, listeners>>
programVars == <<made, asked, outcome, suspect>>
callVars    == <<active, message, answered>>
vars == <<requestVars, callVars, ticks, prepared, programVars, served, unheard>>

NoOutcome == [call |-> "none", via |-> "none", error |-> "none"]

Init ==
    /\ preparing = [r \in Requests |-> FALSE]
    /\ handle = [r \in Requests |-> NoHandle]
    /\ error = [r \in Requests |-> "none"]
    /\ canceled = [r \in Requests |-> FALSE]
    /\ listeners = [r \in Requests |-> 0]
    /\ active = None /\ message = "none" /\ answered = FALSE /\ ticks = <<>>
    /\ prepared = <<>>
    /\ made = 0
    /\ asked = [r \in Requests |-> "none"]
    /\ outcome = [r \in Requests |-> NoOutcome]
    /\ served = [r \in Requests |-> FALSE]
    /\ unheard = [r \in Requests |-> FALSE]
    /\ suspect = [r \in Requests |-> FALSE]

-----------------------------------------------------------------------------
(* The callback of a request, and makeRequest *)

\* `callback` tells of a preparation by an event, and of any other call by the
\* program's own callback.
CallBackKeepsPreparing(r, call, wasPreparing, err) ==   \* fault: not reset on an error
    /\ outcome' = [outcome EXCEPT ![r] = [call |-> call, error |-> err,
                                          via |-> IF wasPreparing THEN "event" ELSE "callback"]]
    /\ asked' = [asked EXCEPT ![r] = "none"]
    /\ preparing' = [preparing EXCEPT ![r] = wasPreparing /\ err # "none"]
CallBack(r, call, wasPreparing, err) ==
    /\ outcome' = [outcome EXCEPT ![r] = [call |-> call, error |-> err,
                                          via |-> IF wasPreparing THEN "event" ELSE "callback"]]
    /\ asked' = [asked EXCEPT ![r] = "none"]
    /\ preparing' = [preparing EXCEPT ![r] = FALSE]

Tick(r, err) == ticks' = Append(ticks, [request |-> r, error |-> err])

Waits(r, call) ==
    /\ asked' = [asked EXCEPT ![r] = call]
    /\ UNCHANGED outcome

\* Refused at once, called back at the next tick, or sent with the handle it has
MakeRequest(r, call, willPrepare) ==
    CASE active # None ->
            CallBack(r, call, willPrepare, "refused") /\ UNCHANGED <<callVars, ticks>>
      [] active = None /\ canceled[r] ->
            /\ Tick(r, "canceled") /\ Waits(r, call)
            /\ preparing' = [preparing EXCEPT ![r] = willPrepare]
            /\ UNCHANGED callVars
      [] active = None /\ ~canceled[r] ->
            /\ active' = [request |-> r, call |-> call, handle |-> handle[r]]
            /\ message' = "streaming" /\ answered' = FALSE
            /\ Waits(r, call)
            /\ preparing' = [preparing EXCEPT ![r] = willPrepare]
            /\ UNCHANGED ticks

Begins(r) ==
    /\ made < MaxCalls /\ asked[r] = "none"
    /\ made' = made + 1
    /\ served' = [served EXCEPT ![r] = FALSE]
    /\ unheard' = [unheard EXCEPT ![r] = FALSE]
    /\ suspect' = [suspect EXCEPT ![r] = @ \/ outcome[r].error # "none"]
    /\ UNCHANGED <<canceled, handle, prepared>>

-----------------------------------------------------------------------------
(* The calls of the program *)

Prepare(r) ==
    /\ Begins(r)
    /\ listeners' = [listeners EXCEPT ![r] = @ + 1]
    /\ MakeRequest(r, "prepare", TRUE)
    /\ UNCHANGED error

\* Values are validated first: an error is kept in the request, and its callback
\* comes at the next tick.
ValidateThenMake(r, call) ==
    /\ Begins(r)
    /\ \/ MakeRequest(r, call, FALSE) /\ UNCHANGED error
       \/ /\ error' = [error EXCEPT ![r] = "invalid"]
          /\ Tick(r, "invalid") /\ Waits(r, call)
          /\ UNCHANGED <<callVars, preparing>>
    /\ UNCHANGED listeners

Execute(r) == ValidateThenMake(r, "execute")
ExecSql(r) == ValidateThenMake(r, "execSql")

Unprepare(r) ==
    /\ Begins(r)
    /\ MakeRequest(r, "unprepare", FALSE)
    /\ UNCHANGED <<listeners, error>>

\* A request keeps the error it has.
SetError(r, err) == [error EXCEPT ![r] = IF @ = "none" THEN err ELSE @]

\* A cancel of the call under way: while its payload flows, the payload is destroyed
\* with an error and the message goes out to be ignored; once the payload has ended
\* there is no error left to be told, but the message still goes out to be ignored;
\* and a message that is finished is followed by an attention.  A call that waits
\* for a tick only keeps that it was canceled.
CancelMessage(r) ==
    LET underWay == active # None /\ active.request = r
        unsent   == underWay /\ message \in {"streaming", "ending"}
    IN  /\ message' = IF unsent THEN "ignored" ELSE message
        /\ error' = IF underWay /\ message = "streaming" THEN SetError(r, "canceled") ELSE error
        /\ unheard' = [unheard EXCEPT ![r] = underWay /\ message = "ending"]

Cancel(r) ==
    /\ asked[r] # "none" /\ ~canceled[r]
    /\ canceled' = [canceled EXCEPT ![r] = TRUE]
    /\ CancelMessage(r)
    /\ UNCHANGED <<preparing, handle, listeners, active, answered, ticks, prepared,
                   programVars, served>>

RunTick ==
    /\ ticks # <<>>
    /\ LET r == Head(ticks).request
       IN  CallBack(r, asked[r], preparing[r], Head(ticks).error)
    /\ ticks' = Tail(ticks)
    /\ UNCHANGED <<handle, error, canceled, listeners, callVars, prepared, made, served, unheard,
                   suspect>>

-----------------------------------------------------------------------------
(* The message of the call under way *)

Current == active.request

MessageStep == UNCHANGED <<preparing, handle, canceled, listeners, active, answered, ticks,
                           prepared, programVars, served, unheard>>

PayloadEnds ==
    /\ active # None /\ message = "streaming"
    /\ message' = "ending"
    /\ UNCHANGED error /\ MessageStep

\* A value that cannot be written makes the payload emit 'error'.
PayloadFails ==
    /\ active # None /\ message = "streaming"
    /\ message' = "ignored" /\ error' = SetError(Current, "unsent")
    /\ MessageStep

MessageFinishes ==
    /\ active # None /\ message = "ending"
    /\ message' = "sent"
    /\ UNCHANGED error /\ MessageStep

-----------------------------------------------------------------------------
(* The server's response and its tokens *)

\* An error token: the request keeps it, unless it is canceled.
ErrorTokenLost == UNCHANGED <<error, handle, suspect>>       \* fault: it is not kept
ErrorToken ==
    /\ error' = IF canceled[Current] THEN error ELSE [error EXCEPT ![Current] = "server"]
    /\ UNCHANGED <<handle, suspect>>

\* A return value goes to all listeners, of this call and of earlier ones.
ReturnValueOwn(name, value) ==                      \* fault: any value is the handle
    /\ handle' = IF canceled[Current] THEN handle ELSE [handle EXCEPT ![Current] = value]
    /\ UNCHANGED <<error, suspect>>
ReturnValue(name, value) ==
    LET heard == ~canceled[Current] /\ listeners[Current] > 0
    IN  /\ handle' = IF heard /\ name = "handle"
                     THEN [handle EXCEPT ![Current] = value] ELSE handle
        /\ error' = IF heard /\ name # "handle"
                    THEN [error EXCEPT ![Current] = "unexpected"] ELSE error
        /\ suspect' = [suspect EXCEPT ![Current] = @ \/ (heard /\ active.call # "prepare")]

NoToken == UNCHANGED <<handle, error, suspect>>

Served(done) == served' = [served EXCEPT ![Current] = done]

\* The server counts its handles and uses none again.
IsOpen(h) == h \in 1..Len(prepared) /\ prepared[h].open

ServerPrepares ==
    /\ prepared' = Append(prepared, [request |-> Current, open |-> TRUE])
    /\ ReturnValue("handle", Len(prepared) + 1) /\ Served(TRUE)

ServerExecutes ==
    /\ active.call = "execute" => IsOpen(active.handle)
    /\ Served(TRUE)
    /\ NoToken \/ \E name \in OutputNames : ReturnValue(name, NoHandle)
    /\ UNCHANGED prepared

ServerUnprepares ==
    /\ IsOpen(active.handle)
    /\ prepared' = [prepared EXCEPT ![active.handle].open = FALSE]
    /\ NoToken /\ Served(TRUE)

\* It may refuse what it was asked, or be interrupted by an attention.
ServerRefuses == ErrorToken /\ Served(FALSE) /\ UNCHANGED prepared

\* A message with the ignore bit is answered, and not done.
ServerIgnores == NoToken /\ Served(FALSE) /\ UNCHANGED prepared

ServerAnswers ==
    /\ active # None /\ ~answered
    /\ answered' = TRUE
    /\ \/ /\ message = "sent"
          /\ \/ active.call = "prepare" /\ ServerPrepares
             \/ active.call \in {"execute", "execSql"} /\ ServerExecutes
             \/ active.call = "unprepare" /\ ServerUnprepares
             \/ ServerRefuses
       \/ message = "ignored" /\ ServerIgnores
    /\ UNCHANGED <<preparing, canceled, listeners, active, message, ticks, made, asked, outcome,
                   unheard>>

\* An attention was sent, and its acknowledgement ends the call.
Attention == canceled[Current] /\ message = "sent"

\* The end of the response tells the error of the request, whether it was canceled
\* or not; only that of an attention tells that it was.
Completes ==
    /\ active # None /\ answered
    /\ CallBack(Current, active.call, preparing[Current],
                IF Attention THEN "canceled" ELSE error[Current])
    /\ active' = None /\ message' = "none" /\ answered' = FALSE
    /\ UNCHANGED <<handle, error, canceled, listeners, ticks, prepared, made, served, unheard,
                   suspect>>

Next ==
    \/ \E r \in Requests : Prepare(r) \/ Execute(r) \/ Unprepare(r) \/ ExecSql(r) \/ Cancel(r)
    \/ RunTick \/ PayloadEnds \/ PayloadFails \/ MessageFinishes
    \/ ServerAnswers \/ Completes

Spec == Init /\ [][Next]_vars

-----------------------------------------------------------------------------
(* Properties *)

Failures == {"canceled", "invalid", "server", "unexpected", "refused", "unsent"}

\* The state of the requests and of the connection is well formed: only a request
\* that waits for an answer is being prepared, a queued callback or the active call
\* belongs to a request that waits (preparing, callback of request.ts), and only a
\* call under way has a message.
TypeOK ==
    /\ preparing \in [Requests -> BOOLEAN] /\ canceled \in [Requests -> BOOLEAN]
    /\ handle \in [Requests -> Handles \cup {NoHandle}]
    /\ error \in [Requests -> Failures \cup {"none"}]
    /\ listeners \in [Requests -> 0..MaxCalls]
    /\ active \in Active \cup {None} /\ answered \in BOOLEAN
    /\ message \in {"none", "streaming", "ending", "sent", "ignored"}
    /\ ticks \in Seq([request : Requests, error : Failures])
    /\ prepared \in Seq([request : Requests, open : BOOLEAN])
    /\ made \in 0..MaxCalls
    /\ asked \in [Requests -> Calls \cup {"none"}]
    /\ outcome \in [Requests -> [call : Calls \cup {"none"}, via : {"none", "event", "callback"},
                                error : Failures \cup {"none"}]]
    /\ served \in [Requests -> BOOLEAN] /\ suspect \in [Requests -> BOOLEAN]
    /\ unheard \in [Requests -> BOOLEAN]
    /\ \A r \in Requests : preparing[r] => asked[r] = "prepare"
    /\ \A i \in 1..Len(ticks) : asked[ticks[i].request] # "none"
    /\ active # None => asked[Current] = active.call
    /\ active = None <=> message = "none"

\* A call that is reported as done was done by the server, whatever calls of the same
\* request came before, unless it was canceled between the end of its payload and the
\* 'finish' of its message: then the server ignores it, and the program is told it
\* was done (makeRequest, onCancel).  A preparation is reported by its event, any
\* other call by the callback.  A call that the server did is reported as done unless
\* it was canceled, if no earlier call of the request failed and no prepare() heard
\* an output (request.error, which no call resets, and preparing).
OutcomeIsItsOwn ==
    \A r \in Requests :
        LET o == outcome[r]
        IN  asked[r] = "none" /\ o # NoOutcome =>
                /\ o.error = "none" => served[r] \/ unheard[r]
                /\ o.via = (IF o.call = "prepare" THEN "event" ELSE "callback")
                /\ served[r] /\ ~suspect[r] => o.error \in {"none", "canceled"}

\* Once a request was reported as prepared, and until it is unprepared, prepared
\* again or its call is canceled, its handle is one the server made for it, even if
\* other executions of it return values (request.handle, set by a listener that
\* prepare() never removes).
HandleIsPrepared ==
    \A r \in Requests :
        asked[r] = "none" /\ outcome[r].call \in {"prepare", "execute"}
            /\ outcome[r].error = "none" /\ ~unheard[r]
            => IsOpen(handle[r]) /\ prepared[handle[r]].request = r

=============================================================================

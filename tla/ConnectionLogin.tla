-------------------------- MODULE ConnectionLogin --------------------------
(***************************************************************************)
(* How a tedious connection is established: Connection.connect, the states *)
(* from INITIALIZED to LOGGED_IN with REROUTING, TRANSIENT_FAILURE_RETRY   *)
(* and FINAL, the connect and retry timers, close() and the events of the  *)
(* socket (src/src/connection.ts), and what Login7TokenHandler makes of    *)
(* the answers of the server (src/src/token/handler.ts).                   *)
(*                                                                         *)
(* An action is one callback of the event loop with the promise            *)
(* continuations it leads to.  The instance lookup, the connector, the TLS *)
(* handshakes and getToken are promises that settle later, or never.  An   *)
(* answer to a login is read in two steps, since it may arrive in parts    *)
(* and since the program may call close() from the events in between; a    *)
(* token is abstracted to what it leads to.                                *)
(***************************************************************************)
EXTENDS Naturals

CONSTANTS
    Configs,            \* configurations: [auth, encrypt, byInstance,
                        \* and connector: options.connector is given]
    MaxRetries,         \* options.maxRetriesOnTransientErrors
    MaxReroutes         \* bound: how often the servers reroute

Auths == {"standard", "ntlm", "fedauth"}

ASSUME ConfigAssumption ==
    Configs \subseteq [auth : Auths, encrypt : {"off", "on", "strict"},
                       byInstance : BOOLEAN, connector : BOOLEAN]
ASSUME LimitAssumption == MaxRetries \in Nat /\ MaxReroutes \in Nat

VARIABLES
    config,                         \* this.config: one of Configs
    \* Connection
    state, closed, connectTimer, retryTimer,    \* (the timers: armed)
    loginError,                     \* "none", "transient" or "fatal"
    routingData,                    \* this.routingData is set
    curTransientRetryCount,
    \* promises under way: initialiseConnection, credentials.getToken
    attempt, token,
    \* this.socket, whether its incoming stream has ended, and the server it
    \* goes to
    sock, ended, target,
    \* the state whose enter handler reads the next message, how much of it
    \* there is, and what its tokens told the handler
    reader, parse, handler,
    \* history: what the program was told, and what the servers asked for
    outcome, connects, ends, closedEarly, reroutes, sentTo

connVars     == <<state, closed, connectTimer, retryTimer, loginError, ends>>
eventVars    == <<outcome, connects>>
sockVars     == <<sock, ended, target>>
readVars     == <<reader, parse, handler>>
routeVars    == <<routingData, sentTo, reroutes>>
vars == <<config, connVars, eventVars, sockVars, readVars, routeVars,
          curTransientRetryCount, attempt, token, closedEarly>>

-----------------------------------------------------------------------------
(* Types *)

Login7States == {"SentLogin7WithStandardLogin", "SentLogin7WithNtlm",
                 "SentLogin7WithFedauth"}
ReadStates   == {"SentPrelogin", "SentTlsNegotiation", "SendingInitialSql"}
                \cup Login7States
States       == ReadStates \cup {"Initialized", "Connecting", "Rerouting",
                "TransientFailureRetry", "LoggedIn", "Final"}
Attempts     == {"none", "lookup", "connecting", "wrapping", "connectingAborted"}
LoginErrors  == {"none", "transient", "fatal"}
Answers      == {"nothing", "ack", "routed", "challenge", "fedAuthInfo", "error"}
Outcomes     == {"pending", "connected", "failed"}
Servers      == {"configured", "routed"}

-----------------------------------------------------------------------------
(* Helpers *)

\* The listener given to connect() hears the first 'connect' or 'error' event.
Settled(result) == IF outcome = "pending" THEN result ELSE outcome

EmitConnect(result) == connects' = connects + 1 /\ outcome' = Settled(result)
EmitError           == UNCHANGED connects /\ outcome' = Settled("failed")

\* clearConnectTimer and clearRetryTimer
ClearNot(timer) == timer                                \* fault: it goes on
Clear(timer)    == FALSE

\* cleanupConnection emits 'end' unless it is to redirect or to retry.
EndsAfter(type)    == IF type = "normal" THEN ends + 1 ELSE ends

\* cleanupConnection, for a connection whose connect timer is as given: it
\* does its work once per socket.  The socket is Destroyed with it.
Cleanup(type, timer) ==
    IF closed
    THEN connectTimer' = timer /\ UNCHANGED <<closed, retryTimer, loginError, ends>>
    ELSE /\ closed' = TRUE
         /\ connectTimer' = Clear(timer) /\ retryTimer' = Clear(retryTimer)
         /\ loginError' = "none"
         /\ ends' = EndsAfter(type)
Destroyed == IF sock = "open" /\ ~closed THEN "destroyed" ELSE sock

\* transitionTo(FINAL)
Final(timer) == state' = "Final" /\ Cleanup("normal", timer)

\* socketError: a 'connect' event in the states that wait for the connection,
\* an 'error' event otherwise.  Every state but FINAL then goes to FINAL.
SocketError(timer) ==
    /\ IF state \in {"Connecting", "SentTlsNegotiation"}
       THEN EmitConnect("failed") ELSE EmitError
    /\ Final(timer)

\* The enter handler of CONNECTING: initialiseConnection
InitialiseConnection ==
    /\ state' = "Connecting"
    /\ connectTimer' = TRUE
    /\ attempt' = IF config.byInstance THEN "lookup" ELSE "connecting"

\* What the connect timer's abort signal leaves of the attempt: the connector
\* of the program is not given the signal.
AbortedIgnored == attempt                               \* fault: no abort
Aborted == IF config.connector /\ attempt = "connecting"
           THEN "connectingAborted" ELSE "none"

\* onErrorMessage: an error may be retried unless retries are used up.
LoginError(number) ==
    IF number = "transient" /\ curTransientRetryCount # MaxRetries
    THEN "transient" ELSE "fatal"

\* A new socket opens the connection again.
ClosedOnceConnectedKept == closed                       \* fault: not reset
ClosedOnceConnected     == FALSE

\* processedInitialSql clears the connect timer.
TimerOnceLoggedIn     == FALSE

\* The state that follows the LOGIN7 message
AfterLogin7 ==
    CASE config.auth = "fedauth" -> "SentLogin7WithFedauth"
      [] config.auth = "ntlm"    -> "SentLogin7WithNtlm"
      [] OTHER                   -> "SentLogin7WithStandardLogin"

\* this.routingData = handler.routingData
RoutedForgotten == UNCHANGED routingData                \* fault: not kept
Routed          == routingData' = TRUE

\* socketClose arms the retry timer in TRANSIENT_FAILURE_RETRY.
RetryTimerNever == retryTimer                           \* fault: it does not
RetryTimer      == TRUE

-----------------------------------------------------------------------------
(* The event loop: an answer that is there is read to its end, except for    *)
(* what the program does in the events it causes.                            *)

Idle == parse # "whole"

Init ==
    /\ config \in Configs
    /\ state = "Initialized" /\ closed = FALSE
    /\ connectTimer = FALSE /\ retryTimer = FALSE /\ loginError = "none"
    /\ routingData = FALSE /\ curTransientRetryCount = 0
    /\ attempt = "none" /\ token = FALSE
    /\ sock = "none" /\ ended = FALSE /\ target = "configured"
    /\ reader = "none" /\ parse = "none" /\ handler = "nothing"
    /\ outcome = "pending" /\ connects = 0 /\ ends = 0
    /\ closedEarly = FALSE /\ reroutes = 0 /\ sentTo = "configured"

-----------------------------------------------------------------------------
(* Connecting *)

Connect ==
    /\ state = "Initialized"
    /\ InitialiseConnection
    /\ UNCHANGED <<config, closed, retryTimer, loginError, ends, eventVars, sockVars,
                   readVars, routeVars, curTransientRetryCount, token, closedEarly>>

LookupSucceeds ==
    /\ Idle
    /\ attempt = "lookup" /\ attempt' = "connecting"
    /\ UNCHANGED <<config, connVars, eventVars, sockVars, readVars, routeVars,
                   curTransientRetryCount, token, closedEarly>>

\* A failed lookup is reported; the state stays what it is.
LookupFails ==
    /\ Idle
    /\ attempt = "lookup" /\ attempt' = "none"
    /\ connectTimer' = FALSE
    /\ EmitConnect("failed")
    /\ UNCHANGED <<config, state, closed, retryTimer, loginError, ends, sockVars,
                   readVars, routeVars, curTransientRetryCount, token, closedEarly>>

\* socketHandlingForSendPreLogin: whatever the state is, it goes on from here.
SocketHandling ==
    /\ sock' = "open" /\ ended' = FALSE
    /\ target' = IF routingData THEN "routed" ELSE "configured"
    /\ closed' = ClosedOnceConnected
    /\ state' = "SentPrelogin" /\ reader' = "SentPrelogin"
    /\ parse' = "none" /\ handler' = "nothing"

\* The connector has a socket, which with encrypt "strict" is wrapped first.
ConnectorConnects ==
    /\ Idle
    /\ \/ /\ attempt = "connecting" /\ config.encrypt = "strict"
          /\ attempt' = "wrapping"
          /\ UNCHANGED <<state, closed, sockVars, readVars>>
       \/ /\ attempt = "connectingAborted" /\ config.encrypt = "strict"
          /\ attempt' = "none"          \* wrapWithTls asks for the signal
          /\ UNCHANGED <<state, closed, sockVars, readVars>>
       \/ /\ attempt \in {"connecting", "connectingAborted"}
          /\ config.encrypt # "strict"
          /\ attempt' = "none"
          /\ SocketHandling
    /\ UNCHANGED <<config, connectTimer, retryTimer, loginError, ends, eventVars,
                   routeVars, curTransientRetryCount, token, closedEarly>>

\* wrapWithTls: 'secureConnect'
WrapSucceeds ==
    /\ Idle
    /\ attempt = "wrapping" /\ attempt' = "none"
    /\ SocketHandling
    /\ UNCHANGED <<config, connectTimer, retryTimer, loginError, ends, eventVars,
                   routeVars, curTransientRetryCount, token, closedEarly>>

\* The connector or the wrapping fails.
AttemptFails ==
    /\ Idle
    /\ attempt \in {"connecting", "wrapping"} /\ attempt' = "none"
    /\ SocketError(FALSE)
    /\ sock' = Destroyed
    /\ UNCHANGED <<config, ended, target, readVars, routeVars,
                   curTransientRetryCount, token, closedEarly>>

\* It fails after its signal was aborted: nobody is told.
AbortedAttemptFails ==
    /\ Idle
    /\ attempt = "connectingAborted" /\ attempt' = "none"
    /\ connectTimer' = FALSE
    /\ UNCHANGED <<config, state, closed, retryTimer, loginError, ends, eventVars,
                   sockVars, readVars, routeVars, curTransientRetryCount, token,
                   closedEarly>>

-----------------------------------------------------------------------------
(* Prelogin and TLS *)

\* sendLogin7Packet, and the transition to the state that reads the answer
SendLogin7 ==
    /\ routingData' = FALSE
    /\ state' = AfterLogin7 /\ reader' = AfterLogin7
    /\ UNCHANGED <<closed, connectTimer, retryTimer, loginError, ends, eventVars, sock>>

\* The PRELOGIN answer, which says whether the login is to be encrypted
PreloginAnswered ==
    /\ reader = "SentPrelogin" /\ sock = "open"
    /\ \/ SendLogin7                    \* not, or it is already ("strict")
       \/ /\ config.encrypt = "on"
          /\ state' = "SentTlsNegotiation" /\ reader' = "SentTlsNegotiation"
          /\ UNCHANGED <<closed, connectTimer, retryTimer, loginError, ends, eventVars,
                         routingData, sock>>
       \/ /\ config.encrypt = "off"     \* EENCRYPT
          /\ EmitConnect("failed")
          /\ Final(connectTimer) /\ sock' = Destroyed
          /\ reader' = "none"
          /\ UNCHANGED routingData
    /\ UNCHANGED <<config, ended, target, parse, handler, sentTo, reroutes,
                   curTransientRetryCount, attempt, token, closedEarly>>

\* startTls settles.
TlsNegotiated ==
    /\ reader = "SentTlsNegotiation" /\ sock = "open"
    /\ \/ SendLogin7
       \/ /\ SocketError(connectTimer)
          /\ sock' = Destroyed
          /\ reader' = "none"
          /\ UNCHANGED routingData
    /\ UNCHANGED <<config, ended, target, parse, handler, sentTo, reroutes,
                   curTransientRetryCount, attempt, token, closedEarly>>

-----------------------------------------------------------------------------
(* The answers to the login, read by the loops of the three SENT_LOGIN7      *)
(* states and of LOGGED_IN_SENDING_INITIAL_SQL                               *)

Reading == parse = "none" /\ sock = "open"

\* The tokens of an answer reach Login7TokenHandler.
Login7Tokens ==
    /\ reader \in Login7States /\ Reading
    /\ parse' \in {"partial", "whole"}
    /\ handler' \in Answers
    /\ handler' = "challenge"   => reader = "SentLogin7WithNtlm"
    /\ handler' = "fedAuthInfo" => reader = "SentLogin7WithFedauth"
    /\ handler' = "routed"      => reroutes < MaxReroutes
    /\ \/ handler' # "error" /\ UNCHANGED loginError
       \/ /\ handler' = "error"
          /\ \E number \in {"transient", "fatal"} : loginError' = LoginError(number)
    /\ UNCHANGED <<config, state, closed, connectTimer, retryTimer, ends, eventVars,
                   sockVars, reader, routeVars, curTransientRetryCount, attempt,
                   token, closedEarly>>

\* Those of the answer to the initial SQL, which has no result, reach
\* InitialSqlTokenHandler.
InitialSqlTokens ==
    /\ reader = "SendingInitialSql" /\ Reading
    /\ parse' \in {"partial", "whole"}
    /\ UNCHANGED <<config, connVars, eventVars, sockVars, reader, handler, routeVars,
                   curTransientRetryCount, attempt, token, closedEarly>>

\* 'end' of the parser.  What was received is parsed even if the connection
\* has been closed since; what was not received does not come any more.
ParserEnds ==
    /\ parse = "whole" \/ (parse = "partial" /\ sock = "open")
    /\ parse' = "none" /\ handler' = "nothing"

LoginAcknowledged ==
    /\ ParserEnds /\ handler = "ack"
    /\ state' = "SendingInitialSql" /\ reader' = "SendingInitialSql"
    /\ UNCHANGED <<config, closed, connectTimer, retryTimer, loginError, ends,
                   eventVars, sockVars, routeVars, curTransientRetryCount, attempt,
                   token, closedEarly>>

\* REROUTING
LoginRouted ==
    /\ ParserEnds /\ handler = "routed"
    /\ Routed
    /\ state' = "Rerouting" /\ Cleanup("redirect", connectTimer) /\ sock' = Destroyed
    /\ reader' = "none"
    /\ sentTo' = "routed" /\ reroutes' = reroutes + 1
    /\ UNCHANGED <<config, eventVars, ended, target, curTransientRetryCount, attempt,
                   token, closedEarly>>

\* The NTLM loop answers the challenge and reads on.
LoginChallenged ==
    /\ ParserEnds /\ handler = "challenge"
    /\ UNCHANGED <<config, connVars, eventVars, sockVars, reader, routeVars,
                   curTransientRetryCount, attempt, token, closedEarly>>

\* A token of the authority the server named is asked for.
TokenRequested ==
    /\ ParserEnds /\ handler = "fedAuthInfo"
    /\ token' = TRUE /\ reader' = "none"
    /\ UNCHANGED <<config, connVars, eventVars, sockVars, routeVars,
                   curTransientRetryCount, attempt, closedEarly>>

\* TRANSIENT_FAILURE_RETRY
LoginRetried ==
    /\ ParserEnds /\ handler \in {"error", "nothing"} /\ reader \in Login7States
    /\ loginError = "transient"
    /\ state' = "TransientFailureRetry"
    /\ curTransientRetryCount' = curTransientRetryCount + 1
    /\ Cleanup("retry", connectTimer) /\ sock' = Destroyed
    /\ reader' = "none" /\ sentTo' = "configured"
    /\ UNCHANGED <<config, eventVars, ended, target, routingData, reroutes, attempt,
                   token, closedEarly>>

LoginFailed ==
    /\ ParserEnds /\ handler \in {"error", "nothing"} /\ reader \in Login7States
    /\ loginError # "transient"
    /\ EmitConnect("failed")
    /\ Final(connectTimer) /\ sock' = Destroyed
    /\ reader' = "none"
    /\ UNCHANGED <<config, ended, target, routeVars, curTransientRetryCount, attempt,
                   token, closedEarly>>

\* LOGGED_IN, and processedInitialSql
InitialSqlProcessed ==
    /\ ParserEnds /\ reader = "SendingInitialSql"
    /\ state' = "LoggedIn" /\ reader' = "none"
    /\ connectTimer' = TimerOnceLoggedIn
    /\ EmitConnect("connected")
    /\ UNCHANGED <<config, closed, retryTimer, loginError, ends, sockVars, routeVars,
                   curTransientRetryCount, attempt, token, closedEarly>>

\* getToken settles.  Its continuation does not look at the state; if the
\* message stream has ended since, the read that follows fails at once.
TokenArrives ==
    /\ Idle
    /\ token /\ token' = FALSE
    /\ \/ /\ ~ended
          /\ state' = "SentLogin7WithStandardLogin"
          /\ reader' = "SentLogin7WithStandardLogin"
          /\ UNCHANGED <<closed, connectTimer, retryTimer, loginError, ends, eventVars>>
       \/ /\ ended
          /\ EmitError /\ Final(connectTimer)
          /\ UNCHANGED reader
    /\ UNCHANGED <<config, sockVars, parse, handler, routeVars,
                   curTransientRetryCount, attempt, closedEarly>>

\* (The loginError it sets is not read again.)
TokenFails ==
    /\ Idle
    /\ token /\ token' = FALSE
    /\ EmitConnect("failed")
    /\ Final(connectTimer) /\ sock' = Destroyed
    /\ UNCHANGED <<config, ended, target, readVars, routeVars,
                   curTransientRetryCount, attempt, closedEarly>>

-----------------------------------------------------------------------------
(* Timers, socket events and close() *)

ConnectTimerFires ==
    /\ Idle
    /\ connectTimer
    /\ attempt' = Aborted
    /\ EmitConnect("failed")
    /\ Final(FALSE) /\ sock' = Destroyed
    /\ UNCHANGED <<config, ended, target, readVars, routeVars,
                   curTransientRetryCount, token, closedEarly>>

RetryTimerFires ==
    /\ Idle
    /\ retryTimer /\ retryTimer' = FALSE
    /\ InitialiseConnection
    /\ UNCHANGED <<config, closed, loginError, ends, eventVars, sockVars, readVars,
                   routeVars, curTransientRetryCount, token, closedEarly>>

\* 'error' of the socket, which is destroyed by it
SocketFails ==
    /\ Idle
    /\ sock = "open" /\ sock' = "destroyed"
    /\ SocketError(connectTimer)
    /\ UNCHANGED <<config, ended, target, readVars, routeVars,
                   curTransientRetryCount, attempt, token, closedEarly>>

\* 'end' of the socket ends the message stream too: a handler that waits for
\* the next message gets an error, in FINAL by then.
SocketEnds ==
    /\ Idle
    /\ sock = "open" /\ sock' = "destroyed" /\ ended' = TRUE
    /\ state # "Final"
    /\ SocketError(connectTimer)
    /\ reader' = IF parse = "none" THEN "none" ELSE reader
    /\ UNCHANGED <<config, target, parse, handler, routeVars,
                   curTransientRetryCount, attempt, token, closedEarly>>

SocketCloses ==
    /\ Idle
    /\ sock = "destroyed" /\ sock' = "closed"
    /\ \/ /\ state = "Rerouting"
          /\ InitialiseConnection
          /\ UNCHANGED <<closed, retryTimer, loginError, ends>>
       \/ /\ state = "TransientFailureRetry"
          /\ retryTimer' = RetryTimer
          /\ UNCHANGED <<state, closed, connectTimer, loginError, ends, attempt>>
       \/ /\ state \notin {"Rerouting", "TransientFailureRetry"}
          /\ Final(connectTimer)
          /\ UNCHANGED attempt
    /\ UNCHANGED <<config, eventVars, ended, target, readVars, routeVars,
                   curTransientRetryCount, token, closedEarly>>

\* The program may call it at any time, from an event of a parser too.
Close ==
    /\ state # "Final"
    /\ Final(connectTimer) /\ sock' = Destroyed
    /\ closedEarly' = (closedEarly \/ (outcome = "pending" /\ state # "Initialized"))
    /\ UNCHANGED <<config, eventVars, ended, target, readVars, routeVars,
                   curTransientRetryCount, attempt, token>>

-----------------------------------------------------------------------------
(* The next-state relation *)

AttemptStep == LookupSucceeds \/ LookupFails \/ ConnectorConnects \/ WrapSucceeds
               \/ AttemptFails \/ AbortedAttemptFails
ServerStep  == PreloginAnswered \/ TlsNegotiated \/ Login7Tokens \/ InitialSqlTokens
ParserStep  == LoginAcknowledged \/ LoginRouted \/ LoginChallenged \/ TokenRequested
               \/ LoginRetried \/ LoginFailed \/ InitialSqlProcessed
TokenStep   == TokenArrives \/ TokenFails
TimerStep   == ConnectTimerFires \/ RetryTimerFires
SocketStep  == SocketFails \/ SocketEnds \/ SocketCloses

Next == Connect \/ AttemptStep \/ ServerStep \/ ParserStep \/ TokenStep
        \/ TimerStep \/ SocketStep \/ Close

Spec == Init /\ [][Next]_vars

\* The event loop runs what is ready, timers come to their turn however busy
\* it is, and a destroyed socket emits 'close'.  Neither network nor program
\* have to do anything.
FairSpec ==
    /\ Spec
    /\ WF_vars(ParserStep /\ parse = "whole")
    /\ SF_vars(ConnectTimerFires) /\ SF_vars(RetryTimerFires)
    /\ SF_vars(SocketCloses)

-----------------------------------------------------------------------------
(* Properties *)

\* Every variable has its type.
TypeOK ==
    /\ config \in Configs
    /\ state \in States /\ closed \in BOOLEAN
    /\ connectTimer \in BOOLEAN /\ retryTimer \in BOOLEAN
    /\ loginError \in LoginErrors
    /\ routingData \in BOOLEAN /\ curTransientRetryCount \in Nat
    /\ attempt \in Attempts /\ token \in BOOLEAN
    /\ sock \in {"none", "open", "destroyed", "closed"}
    /\ ended \in BOOLEAN /\ target \in Servers
    /\ reader \in ReadStates \cup {"none"}
    /\ parse \in {"none", "partial", "whole"} /\ handler \in Answers
    /\ outcome \in Outcomes /\ connects \in Nat /\ ends \in Nat
    /\ closedEarly \in BOOLEAN /\ reroutes \in 0..MaxReroutes /\ sentTo \in Servers

\* A connection that was reported as failed (a timeout, a lost socket, a
\* refused login) never becomes logged in behind the program's back, whatever
\* promise, answer or timer is still to come.  (A connector of the program is
\* not aborted by the timeout: a connection reported as failed may log in.)
FailureIsFinal ==
    outcome = "failed" /\ ~config.connector =>
        state \notin {"SendingInitialSql", "LoggedIn"}

\* 'connect' is emitted at most once, closes and timeouts at any point
\* included; a failure of getToken after a timeout is reported again, which
\* excepts the authentications that use it.
CompletedOnce ==
    config.auth # "fedauth" /\ ~config.connector => connects <= 1

\* A failure leaves nothing behind that keeps the process alive or acts on
\* the connection later: timers, the attempt or an open socket.
FailureReleases ==
    outcome = "failed" /\ ~config.connector =>
        ~connectTimer /\ ~retryTimer /\ attempt = "none" /\ sock # "open"

\* LOGGED_IN is what the execution of requests takes it for: the connection is
\* up, nothing of the login is left to be read or to fire.
ReadyForRequests ==
    state = "LoggedIn" /\ ~closedEarly /\ ~config.connector =>
        /\ ~closed /\ sock = "open"
        /\ reader = "none" /\ parse = "none" /\ ~token /\ attempt = "none"
        /\ ~connectTimer /\ ~retryTimer

\* After a reroute it is the server routed to that is logged in to.
GoesWhereSent ==
    sock = "open" /\ sentTo = "routed" => target = "routed"

\* Transient failures are retried at most maxRetriesOnTransientErrors times,
\* reroutes in between notwithstanding.
RetriesBounded == curTransientRetryCount <= MaxRetries

\* 'end' is emitted at most once, by cleanups that are not a retry or reroute.
EndedOnce == ~closedEarly /\ ~config.connector => ends <= 1

\* The promise of connect().  LOGGED_IN counts as up even if a failure was
\* reported, which is then a violation; connections that are abandoned, or that
\* a connector of the program revives after the timeout, are left aside.
LeftAside == closedEarly \/ (config.connector /\ outcome = "failed")
Lifecycle == INSTANCE ConnectionLifecycle WITH
    phase <- IF state = "LoggedIn" /\ ~LeftAside THEN "up"
             ELSE IF closedEarly \/ outcome = "failed" \/ state = "Final" THEN "down"
             ELSE IF state = "Initialized" THEN "idle" ELSE "connecting",
    outcome <- outcome, abandoned <- closedEarly
ImplementsLifecycle == Lifecycle!Spec

\* Whatever network and servers do or fail to do, an attempt to connect that
\* is let alone ends: the connect timer covers all of it but the waits for a
\* destroyed socket and for the next retry.
ConnectSettles ==
    state = "Connecting" ~> outcome # "pending" \/ closedEarly

=============================================================================

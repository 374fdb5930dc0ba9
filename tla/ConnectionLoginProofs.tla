------------------------ MODULE ConnectionLoginProofs ------------------------
(***************************************************************************)
(* What is proved of ConnectionLogin for every set of configurations and   *)
(* any number of retries and reroutes: type correctness, each invariant    *)
(* that TLC checks, and that it implements ConnectionLifecycle.            *)
(***************************************************************************)
EXTENDS ConnectionLogin, TLAPS

-----------------------------------------------------------------------------
(* The inductive invariant *)

\* TypeOK in two parts, Boolean and not
FlagsOK ==
    /\ closed \in BOOLEAN /\ connectTimer \in BOOLEAN /\ retryTimer \in BOOLEAN
    /\ routingData \in BOOLEAN /\ token \in BOOLEAN /\ ended \in BOOLEAN
    /\ closedEarly \in BOOLEAN
ValuesOK ==
    /\ config \in Configs /\ state \in States /\ loginError \in LoginErrors
    /\ curTransientRetryCount \in Nat /\ attempt \in Attempts
    /\ sock \in {"none", "open", "destroyed", "closed"} /\ target \in Servers
    /\ reader \in ReadStates \cup {"none"}
    /\ parse \in {"none", "partial", "whole"} /\ handler \in Answers
    /\ outcome \in Outcomes /\ connects \in Nat /\ ends \in Nat
    /\ reroutes \in 0..MaxReroutes /\ sentTo \in Servers

\* What closed says of the socket, of the state and of what cleanupConnection
\* clears.  A connect timer on a closed connection belongs to an attempt that
\* follows a reroute or a retry.
ClosedInv ==
    /\ sock = "open" => ~closed /\ ~ended
    /\ state = "Final" => closed
    /\ closed => loginError = "none"
    /\ closed /\ connectTimer => attempt # "none"

\* One thing at a time leads on: an attempt, the retry timer, a token that is
\* asked for, or an answer that is read.
OneThingInv ==
    /\ attempt # "none" => /\ sock # "open" /\ ~retryTimer /\ ~token
                           /\ parse = "none" /\ reader = "none"
                           /\ state \in {"Connecting", "Final"}
    /\ retryTimer => /\ sock = "closed" /\ closed /\ ~connectTimer /\ ~token
                     /\ parse = "none" /\ reader = "none"
                     /\ outcome = "failed" => config.connector
                     /\ state \in {"TransientFailureRetry", "Final"}
    /\ state \in {"Rerouting", "TransientFailureRetry"} =>
                     /\ closed /\ ~connectTimer /\ ~token /\ attempt = "none"
                     /\ parse = "none" /\ reader = "none"
                     /\ outcome = "failed" => config.connector
                     /\ sock \in {"destroyed", "closed"}
    /\ token => /\ parse = "none" /\ reader = "none" /\ sock # "none"
                /\ state \in {"SentLogin7WithFedauth", "Final"}
    /\ attempt = "connectingAborted" => ~connectTimer

\* An answer is read on behalf of the state the connection is in, unless the
\* connection was closed meanwhile.
ReaderInv ==
    /\ reader # "none" => sock # "none" /\ state \in {reader, "Final"}
    /\ parse # "none"  => reader \in Login7States \cup {"SendingInitialSql"}
    /\ parse = "none"  => handler = "nothing"
    /\ handler = "routed" => reroutes < MaxReroutes
    /\ parse # "none" /\ handler = "fedAuthInfo" => reader = "SentLogin7WithFedauth"

\* What is left to happen once the attempt has failed or succeeded
OutcomeInv ==
    /\ outcome = "failed" /\ ~config.connector =>
          /\ ~connectTimer /\ ~retryTimer /\ attempt = "none"
          /\ sock # "open" /\ parse # "whole"
          /\ state \in {"Connecting", "Final", "SentLogin7WithStandardLogin"}
    /\ outcome = "connected" =>
          /\ ~connectTimer /\ ~retryTimer /\ attempt = "none" /\ ~token
          /\ parse = "none" /\ reader = "none"
          /\ state \in {"LoggedIn", "Final"}
    /\ state = "LoggedIn" => outcome # "pending"
    /\ state = "LoggedIn" /\ ~closedEarly /\ ~config.connector => sock = "open"

\* While the outcome is open and the program has not closed the connection
PendingInv ==
    /\ state = "Initialized" => ~closed /\ ~closedEarly /\ outcome = "pending"
    /\ \/ state = "Initialized"
       \/ state = "Final" /\ outcome = "pending" /\ ~closedEarly
       => /\ ~connectTimer /\ ~retryTimer /\ attempt = "none" /\ ~token
          /\ sock = "none" /\ parse = "none" /\ reader = "none"
    /\ sock = "destroyed" /\ outcome = "pending" /\ ~closedEarly =>
          state \in {"Rerouting", "TransientFailureRetry"}
    /\ parse = "whole" /\ sock # "open" /\ ~config.connector => closedEarly

RetryInv ==
    /\ curTransientRetryCount <= MaxRetries
    /\ loginError = "transient" => curTransientRetryCount < MaxRetries

\* Where the next connection goes to once a server has rerouted
RouteInv ==
    /\ sock = "open" /\ sentTo = "routed" => target = "routed"
    /\ attempt # "none" \/ state = "Rerouting" => sentTo = "configured" \/ routingData
    /\ retryTimer \/ state \in {"Initialized", "TransientFailureRetry"} =>
          sentTo = "configured"

\* How often 'connect' and 'end' were emitted; what may emit 'connect' twice is
\* the token of a fedauth login alone.
EventsInv ==
    /\ token \/ reader = "SentLogin7WithFedauth" => config.auth = "fedauth"
    /\ config.auth # "fedauth" /\ ~config.connector =>
          connects = 0 \/ (connects = 1 /\ outcome # "pending")
    /\ ~closedEarly /\ ~config.connector =>
          \/ ends = 0
          \/ ends = 1 /\ closed /\ (outcome # "pending" \/ state = "Final")

LoginInv == /\ FlagsOK /\ ValuesOK /\ ClosedInv /\ OneThingInv
            /\ ReaderInv /\ OutcomeInv /\ PendingInv /\ RetryInv
            /\ RouteInv /\ EventsInv

-----------------------------------------------------------------------------
(* Preservation *)

LEMMA InitLoginInv == Init => LoginInv
  <1> SUFFICES ASSUME Init PROVE LoginInv
    OBVIOUS
  <1>1. FlagsOK
    BY DEF Init, FlagsOK
  <1>2. ValuesOK
    <2>1. reroutes \in 0..MaxReroutes
      BY LimitAssumption DEF Init
    <2>2. QED
      BY <2>1 DEF Init, ValuesOK, States, LoginErrors, Attempts, Servers, Answers,
         Outcomes
  <1>3. /\ ClosedInv /\ OneThingInv /\ ReaderInv /\ OutcomeInv /\ PendingInv
       /\ RouteInv /\ EventsInv
    BY DEF Init, ClosedInv, OneThingInv, ReaderInv, OutcomeInv, PendingInv,
       RouteInv, EventsInv
  <1>4. RetryInv
    BY LimitAssumption DEF Init, RetryInv
  <1>5. QED
    BY <1>1, <1>2, <1>3, <1>4 DEF LoginInv

\* The values of what the events emitted and the cleanup change
LEMMA EmitType ==
  ASSUME ValuesOK, NEW result \in Outcomes, EmitConnect(result) \/ EmitError
  PROVE  outcome' \in Outcomes /\ connects' \in Nat
  BY DEF ValuesOK, EmitConnect, EmitError, Settled, Outcomes

LEMMA CleanupType ==
  ASSUME ValuesOK, NEW type, NEW timer, Cleanup(type, timer)
  PROVE  loginError' \in LoginErrors /\ ends' \in Nat
  BY DEF ValuesOK, Cleanup, EndsAfter, LoginErrors
\* One step per action; its first substep holds the parts of the invariant that
\* the action cannot disturb on its own.
LEMMA NextLoginInv == LoginInv /\ [Next]_vars => LoginInv'
  <1> SUFFICES ASSUME LoginInv, [Next]_vars PROVE LoginInv'
    OBVIOUS
  <1>1. CASE Connect
    <2>1. FlagsOK' /\ ValuesOK' /\ ClosedInv' /\ OutcomeInv' /\ PendingInv' /\
         RouteInv' /\ EventsInv'
      BY <1>1 DEF LoginInv, Connect, FlagsOK, ValuesOK, ClosedInv, OutcomeInv,
         PendingInv, RouteInv, EventsInv, InitialiseConnection, sockVars,
         routeVars, eventVars, readVars, States, Attempts
    <2>2. OneThingInv'
      BY <1>1 DEF LoginInv, Connect, OneThingInv, PendingInv,
         InitialiseConnection, eventVars, sockVars, readVars
    <2>3. ReaderInv'
      BY <1>1 DEF LoginInv, Connect, ReaderInv, PendingInv,
         InitialiseConnection, sockVars, readVars, routeVars
    <2>4. RetryInv'
      BY <1>1, LimitAssumption DEF LoginInv, Connect, RetryInv
    <2>5. QED
      BY <2>1, <2>2, <2>3, <2>4 DEF LoginInv
  <1>2. CASE LookupSucceeds
    <2>1. FlagsOK' /\ ValuesOK' /\ ClosedInv' /\ OneThingInv' /\ ReaderInv' /\
         OutcomeInv' /\ PendingInv' /\ RouteInv' /\ EventsInv'
      BY <1>2 DEF LoginInv, LookupSucceeds, FlagsOK, ValuesOK, ClosedInv,
         OneThingInv, ReaderInv, OutcomeInv, PendingInv, RouteInv, EventsInv,
         connVars, sockVars, routeVars, eventVars, readVars, Attempts
    <2>2. RetryInv'
      BY <1>2, LimitAssumption DEF LoginInv, LookupSucceeds, RetryInv, connVars
    <2>3. QED
      BY <2>1, <2>2 DEF LoginInv
  <1>3. CASE LookupFails
    <2>1. FlagsOK' /\ ClosedInv' /\ OneThingInv' /\ ReaderInv' /\ PendingInv'
         /\ RouteInv'
      BY <1>3 DEF LoginInv, LookupFails, FlagsOK, ClosedInv, OneThingInv,
         ReaderInv, PendingInv, RouteInv, Idle, sockVars, readVars, routeVars,
         EmitConnect, Settled
    <2>2. ValuesOK'
      BY <1>3, EmitType DEF LoginInv, LookupFails, ValuesOK, sockVars,
         readVars, routeVars, Attempts, Outcomes
    <2>3. OutcomeInv'
      BY <1>3 DEF LoginInv, LookupFails, OneThingInv, OutcomeInv, EmitConnect,
         Settled, sockVars, readVars
    <2>4. RetryInv'
      BY <1>3, LimitAssumption DEF LoginInv, LookupFails, RetryInv
    <2>5. EventsInv'
      BY <1>3 DEF LoginInv, LookupFails, ValuesOK, OutcomeInv, EventsInv,
         EmitConnect, Settled, readVars, Outcomes
    <2>6. QED
      BY <2>1, <2>2, <2>3, <2>4, <2>5 DEF LoginInv
  <1>4. CASE ConnectorConnects
    <2>1. ValuesOK' /\ OneThingInv' /\ ReaderInv' /\ OutcomeInv' /\ PendingInv'
         /\ RouteInv'
      BY <1>4 DEF LoginInv, ConnectorConnects, ValuesOK, OneThingInv,
         ReaderInv, OutcomeInv, PendingInv, RouteInv, sockVars, readVars,
         SocketHandling, eventVars, routeVars, ClosedOnceConnected, States,
         ReadStates, Attempts, Answers, Servers
    <2>2. FlagsOK'
      BY <1>4 DEF LoginInv, ConnectorConnects, FlagsOK, Idle, sockVars,
         readVars, SocketHandling, ClosedOnceConnected, eventVars, routeVars
    <2>3. ClosedInv'
      BY <1>4 DEF LoginInv, ConnectorConnects, ClosedInv, OneThingInv,
         sockVars, SocketHandling, ClosedOnceConnected
    <2>4. RetryInv'
      BY <1>4, LimitAssumption DEF LoginInv, ConnectorConnects, RetryInv,
         SocketHandling
    <2>5. EventsInv'
      BY <1>4 DEF LoginInv, ConnectorConnects, ValuesOK, OutcomeInv,
         PendingInv, EventsInv, readVars, SocketHandling, ClosedOnceConnected,
         eventVars, Outcomes
    <2>6. QED
      BY <2>1, <2>2, <2>3, <2>4, <2>5 DEF LoginInv
  <1>5. CASE WrapSucceeds
    <2>1. FlagsOK' /\ ValuesOK' /\ ClosedInv' /\ OneThingInv' /\ ReaderInv' /\
         OutcomeInv' /\ PendingInv' /\ RouteInv'
      BY <1>5 DEF LoginInv, WrapSucceeds, FlagsOK, ValuesOK, ClosedInv,
         OneThingInv, ReaderInv, OutcomeInv, PendingInv, RouteInv, Idle,
         SocketHandling, ClosedOnceConnected, eventVars, routeVars, States,
         ReadStates, Attempts, Answers, Servers
    <2>2. RetryInv'
      BY <1>5, LimitAssumption DEF LoginInv, WrapSucceeds, RetryInv,
         SocketHandling
    <2>3. EventsInv'
      BY <1>5 DEF LoginInv, WrapSucceeds, ValuesOK, OutcomeInv, PendingInv,
         EventsInv, SocketHandling, ClosedOnceConnected, eventVars, Outcomes
    <2>4. QED
      BY <2>1, <2>2, <2>3 DEF LoginInv
  <1>6. CASE AttemptFails
    <2>1. FlagsOK' /\ ClosedInv' /\ OneThingInv' /\ ReaderInv' /\ PendingInv'
         /\ RouteInv'
      BY <1>6 DEF LoginInv, AttemptFails, FlagsOK, ClosedInv, OneThingInv,
         ReaderInv, PendingInv, RouteInv, Idle, SocketError, Final, Cleanup,
         Clear, Destroyed, readVars, routeVars, EmitConnect, Settled, EmitError
    <2>2. ValuesOK'
      BY <1>6, EmitType, CleanupType DEF LoginInv, AttemptFails, ValuesOK,
         Idle, SocketError, Final, Destroyed, readVars, routeVars, States,
         ReadStates, Login7States, Attempts, LoginErrors, Answers, Outcomes,
         Servers
    <2>3. OutcomeInv'
      BY <1>6 DEF LoginInv, AttemptFails, OneThingInv, OutcomeInv, SocketError,
         EmitConnect, Settled, EmitError, Final, Cleanup, Clear, Destroyed,
         readVars
    <2>4. RetryInv'
      BY <1>6, LimitAssumption DEF LoginInv, AttemptFails, RetryInv,
         SocketError, EmitConnect, Settled, EmitError, Final, Cleanup, Clear,
         EndsAfter, Destroyed
    <2>5. EventsInv'
      BY <1>6 DEF LoginInv, AttemptFails, ValuesOK, OutcomeInv, EventsInv,
         SocketError, EmitConnect, Settled, EmitError, Final, Cleanup, Clear,
         EndsAfter, Destroyed, readVars, routeVars, Outcomes
    <2>6. QED
      BY <2>1, <2>2, <2>3, <2>4, <2>5 DEF LoginInv
  <1>7. CASE AbortedAttemptFails
    <2>1. FlagsOK' /\ ValuesOK' /\ ClosedInv' /\ OneThingInv' /\ ReaderInv' /\
         OutcomeInv' /\ PendingInv' /\ RouteInv' /\ EventsInv'
      BY <1>7, ZenonT(30) DEF LoginInv, AbortedAttemptFails, FlagsOK, ValuesOK, ClosedInv,
         OneThingInv, ReaderInv, OutcomeInv, PendingInv, RouteInv, EventsInv,
         Idle, eventVars, sockVars, readVars, routeVars, Attempts
    <2>2. RetryInv'
      BY <1>7, LimitAssumption DEF LoginInv, AbortedAttemptFails, RetryInv
    <2>3. QED
      BY <2>1, <2>2 DEF LoginInv
  <1>8. CASE PreloginAnswered
    <2>1. ClosedInv' /\ OneThingInv' /\ ReaderInv'
      BY <1>8 DEF LoginInv, PreloginAnswered, ClosedInv, OneThingInv,
         ReaderInv, SendLogin7, AfterLogin7, Final, Cleanup, Clear, Destroyed,
         eventVars, EmitConnect, Settled, Login7States
    <2>2. FlagsOK'
      BY <1>8 DEF LoginInv, PreloginAnswered, FlagsOK, SendLogin7, eventVars,
         Final, Cleanup, Clear, Destroyed
    <2>3. ValuesOK'
      BY <1>8, EmitType, CleanupType DEF LoginInv, PreloginAnswered, ValuesOK,
         SendLogin7, AfterLogin7, eventVars, Final, Destroyed, States,
         ReadStates, Login7States, Outcomes
    <2>4. OutcomeInv'
      BY <1>8 DEF LoginInv, PreloginAnswered, ClosedInv, OneThingInv,
         ReaderInv, OutcomeInv, SendLogin7, AfterLogin7, eventVars,
         EmitConnect, Settled, Final, Cleanup, Clear, Destroyed, Login7States
    <2>5. PendingInv'
      BY <1>8 DEF LoginInv, PreloginAnswered, ReaderInv, PendingInv,
         SendLogin7, AfterLogin7, eventVars, EmitConnect, Settled, Final,
         Cleanup, Clear, Destroyed, Login7States
    <2>6. RetryInv'
      BY <1>8, LimitAssumption DEF LoginInv, PreloginAnswered, RetryInv,
         SendLogin7, Final, Cleanup
    <2>7. RouteInv'
      BY <1>8 DEF LoginInv, PreloginAnswered, OneThingInv, RouteInv,
         SendLogin7, AfterLogin7, Final, Cleanup, Clear
    <2>8. EventsInv'
      BY <1>8 DEF LoginInv, PreloginAnswered, ValuesOK, ClosedInv, OutcomeInv,
         EventsInv, SendLogin7, AfterLogin7, eventVars, EmitConnect, Settled,
         Final, Cleanup, EndsAfter, Outcomes
    <2>9. QED
      BY <2>1, <2>2, <2>3, <2>4, <2>5, <2>6, <2>7, <2>8 DEF LoginInv
  <1>9. CASE TlsNegotiated
    <2>1. ClosedInv' /\ OneThingInv' /\ ReaderInv'
      BY <1>9 DEF LoginInv, TlsNegotiated, ClosedInv, OneThingInv, ReaderInv,
         SendLogin7, AfterLogin7, SocketError, Final, Cleanup, Clear,
         Destroyed, eventVars, EmitConnect, Settled, EmitError, Login7States
    <2>2. FlagsOK'
      BY <1>9 DEF LoginInv, TlsNegotiated, FlagsOK, SendLogin7, eventVars,
         SocketError, Final, Cleanup, Clear, Destroyed
    <2>3. ValuesOK'
      BY <1>9, EmitType, CleanupType DEF LoginInv, TlsNegotiated, ValuesOK,
         SendLogin7, AfterLogin7, eventVars, SocketError, Final, Destroyed,
         States, ReadStates, Login7States, Outcomes
    <2>4. OutcomeInv'
      BY <1>9 DEF LoginInv, TlsNegotiated, ClosedInv, OneThingInv, ReaderInv,
         OutcomeInv, SendLogin7, AfterLogin7, eventVars, SocketError,
         EmitConnect, Settled, EmitError, Final, Cleanup, Clear, Destroyed,
         Login7States
    <2>5. PendingInv'
      BY <1>9 DEF LoginInv, TlsNegotiated, ReaderInv, PendingInv, SendLogin7,
         AfterLogin7, eventVars, SocketError, EmitConnect, Settled, EmitError,
         Final, Cleanup, Clear, Destroyed, Login7States
    <2>6. RetryInv'
      BY <1>9, LimitAssumption DEF LoginInv, TlsNegotiated, RetryInv,
         SendLogin7, SocketError, Final, Cleanup
    <2>7. RouteInv'
      BY <1>9 DEF LoginInv, TlsNegotiated, OneThingInv, RouteInv, SendLogin7,
         AfterLogin7, SocketError, Final, Cleanup, Clear
    <2>8. EventsInv'
      BY <1>9 DEF LoginInv, TlsNegotiated, ValuesOK, ClosedInv, OutcomeInv,
         EventsInv, SendLogin7, AfterLogin7, eventVars, SocketError,
         EmitConnect, Settled, EmitError, Final, Cleanup, EndsAfter, Outcomes
    <2>9. QED
      BY <2>1, <2>2, <2>3, <2>4, <2>5, <2>6, <2>7, <2>8 DEF LoginInv
  <1>10. CASE Login7Tokens
    <2>1. FlagsOK' /\ ValuesOK' /\ ClosedInv' /\ OneThingInv' /\ ReaderInv' /\
         OutcomeInv' /\ PendingInv' /\ RouteInv' /\ EventsInv'
      BY <1>10 DEF LoginInv, Login7Tokens, FlagsOK, ValuesOK, ClosedInv,
         OneThingInv, ReaderInv, OutcomeInv, PendingInv, RouteInv, EventsInv,
         sockVars, routeVars, LoginError, eventVars, Reading, Login7States,
         LoginErrors
    <2>2. RetryInv'
      BY <1>10, LimitAssumption DEF LoginInv, Login7Tokens, ValuesOK, RetryInv,
         LoginError
    <2>3. QED
      BY <2>1, <2>2 DEF LoginInv
  <1>11. CASE InitialSqlTokens
    <2>1. FlagsOK' /\ ValuesOK' /\ ClosedInv' /\ OneThingInv' /\ ReaderInv' /\
         OutcomeInv' /\ PendingInv' /\ RouteInv' /\ EventsInv'
      BY <1>11 DEF LoginInv, InitialSqlTokens, FlagsOK, ValuesOK, ClosedInv,
         OneThingInv, ReaderInv, OutcomeInv, PendingInv, RouteInv, EventsInv,
         connVars, sockVars, routeVars, eventVars, Reading
    <2>2. RetryInv'
      BY <1>11, LimitAssumption DEF LoginInv, InitialSqlTokens, RetryInv,
         connVars
    <2>3. QED
      BY <2>1, <2>2 DEF LoginInv
  <1>12. CASE LoginAcknowledged
    <2>1. FlagsOK' /\ ValuesOK' /\ ClosedInv' /\ OneThingInv' /\ ReaderInv' /\
         OutcomeInv' /\ RouteInv'
      BY <1>12 DEF LoginInv, LoginAcknowledged, FlagsOK, ValuesOK, ClosedInv,
         OneThingInv, ReaderInv, OutcomeInv, RouteInv, sockVars, routeVars,
         ParserEnds, eventVars, States, ReadStates, Login7States, Answers
    <2>2. PendingInv'
      BY <1>12 DEF LoginInv, LoginAcknowledged, OneThingInv, PendingInv,
         ParserEnds, eventVars, sockVars
    <2>3. RetryInv'
      BY <1>12, LimitAssumption DEF LoginInv, LoginAcknowledged, RetryInv
    <2>4. EventsInv'
      BY <1>12 DEF LoginInv, LoginAcknowledged, ReaderInv, PendingInv,
         EventsInv, eventVars
    <2>5. QED
      BY <2>1, <2>2, <2>3, <2>4 DEF LoginInv
  <1>13. CASE LoginRouted
    <2>1. FlagsOK' /\ ClosedInv' /\ ReaderInv' /\ OutcomeInv' /\ PendingInv'
      BY <1>13 DEF LoginInv, LoginRouted, FlagsOK, ClosedInv, ReaderInv,
         OutcomeInv, PendingInv, ParserEnds, Routed, Cleanup, Clear, Destroyed,
         eventVars
    <2>2. ValuesOK'
        <3>1. reroutes' \in 0..MaxReroutes
          BY <1>13, LimitAssumption DEF LoginInv, LoginRouted, ValuesOK,
             ReaderInv
        <3>2. QED
          BY <1>13, <3>1, CleanupType DEF LoginInv, LoginRouted, ValuesOK,
             ParserEnds, Routed, Destroyed, eventVars, States, Answers, Servers
    <2>3. OneThingInv'
      BY <1>13 DEF LoginInv, LoginRouted, ValuesOK, ClosedInv, OneThingInv,
         ReaderInv, OutcomeInv, ParserEnds, Cleanup, Clear, Destroyed,
         eventVars, Login7States
    <2>4. RetryInv'
      BY <1>13, LimitAssumption DEF LoginInv, LoginRouted, RetryInv, Cleanup
    <2>5. RouteInv'
      BY <1>13 DEF LoginInv, LoginRouted, ClosedInv, OneThingInv, RouteInv,
         ParserEnds, Routed, Cleanup, Clear, Destroyed
    <2>6. EventsInv'
      BY <1>13 DEF LoginInv, LoginRouted, ReaderInv, PendingInv, EventsInv,
         Cleanup, EndsAfter, eventVars
    <2>7. QED
      BY <2>1, <2>2, <2>3, <2>4, <2>5, <2>6 DEF LoginInv
  <1>14. CASE LoginChallenged
    <2>1. FlagsOK' /\ ValuesOK' /\ ClosedInv' /\ OneThingInv' /\ ReaderInv' /\
         OutcomeInv' /\ PendingInv' /\ RouteInv' /\ EventsInv'
      BY <1>14 DEF LoginInv, LoginChallenged, FlagsOK, ValuesOK, ClosedInv,
         OneThingInv, ReaderInv, OutcomeInv, PendingInv, RouteInv, EventsInv,
         connVars, sockVars, routeVars, ParserEnds, eventVars, Answers
    <2>2. RetryInv'
      BY <1>14, LimitAssumption DEF LoginInv, LoginChallenged, RetryInv,
         connVars
    <2>3. QED
      BY <2>1, <2>2 DEF LoginInv
  <1>15. CASE TokenRequested
    <2>1. FlagsOK' /\ ValuesOK' /\ ClosedInv' /\ ReaderInv' /\ OutcomeInv' /\
         PendingInv' /\ RouteInv'
      BY <1>15 DEF LoginInv, TokenRequested, FlagsOK, ValuesOK, ClosedInv,
         ReaderInv, OutcomeInv, PendingInv, RouteInv, connVars, sockVars,
         routeVars, ParserEnds, eventVars, Answers
    <2>2. OneThingInv'
      BY <1>15 DEF LoginInv, TokenRequested, OneThingInv, ReaderInv,
         ParserEnds, connVars, eventVars, sockVars
    <2>3. RetryInv'
      BY <1>15, LimitAssumption DEF LoginInv, TokenRequested, RetryInv,
         connVars
    <2>4. EventsInv'
      BY <1>15 DEF LoginInv, TokenRequested, ReaderInv, EventsInv, connVars,
         eventVars
    <2>5. QED
      BY <2>1, <2>2, <2>3, <2>4 DEF LoginInv
  <1>16. CASE LoginRetried
    <2>1. FlagsOK' /\ ClosedInv' /\ ReaderInv' /\ OutcomeInv' /\ PendingInv' /\
         RouteInv'
      BY <1>16 DEF LoginInv, LoginRetried, FlagsOK, ClosedInv, ReaderInv,
         OutcomeInv, PendingInv, RouteInv, ParserEnds, Cleanup, Clear,
         Destroyed, eventVars
    <2>2. ValuesOK'
      BY <1>16, CleanupType DEF LoginInv, LoginRetried, ValuesOK, ParserEnds,
         Destroyed, eventVars, States, Answers, Servers
    <2>3. OneThingInv'
      BY <1>16 DEF LoginInv, LoginRetried, ValuesOK, ClosedInv, OneThingInv,
         ReaderInv, OutcomeInv, ParserEnds, Cleanup, Clear, Destroyed,
         eventVars, Login7States
    <2>4. RetryInv'
      BY <1>16, LimitAssumption DEF LoginInv, LoginRetried, ValuesOK,
         ClosedInv, RetryInv, Cleanup
    <2>5. EventsInv'
      BY <1>16 DEF LoginInv, LoginRetried, ClosedInv, EventsInv, Cleanup,
         EndsAfter, eventVars
    <2>6. QED
      BY <2>1, <2>2, <2>3, <2>4, <2>5 DEF LoginInv
  <1>17. CASE LoginFailed
    <2>1. FlagsOK' /\ ClosedInv' /\ OneThingInv' /\ ReaderInv' /\ PendingInv'
         /\ RouteInv'
      BY <1>17 DEF LoginInv, LoginFailed, FlagsOK, ClosedInv, OneThingInv,
         ReaderInv, PendingInv, RouteInv, ParserEnds, Final, Cleanup, Clear,
         Destroyed, routeVars, EmitConnect, Settled
    <2>2. ValuesOK'
      BY <1>17, EmitType, CleanupType DEF LoginInv, LoginFailed, ValuesOK,
         ParserEnds, Final, Destroyed, routeVars, States, Answers, Outcomes
    <2>3. OutcomeInv'
      BY <1>17 DEF LoginInv, LoginFailed, ClosedInv, OneThingInv, OutcomeInv,
         ParserEnds, EmitConnect, Settled, Final, Cleanup, Clear, Destroyed
    <2>4. RetryInv'
      BY <1>17, LimitAssumption DEF LoginInv, LoginFailed, RetryInv, Final,
         Cleanup
    <2>5. EventsInv'
      BY <1>17 DEF LoginInv, LoginFailed, ValuesOK, OutcomeInv, EventsInv,
         ParserEnds, EmitConnect, Settled, Final, Cleanup, EndsAfter, Outcomes
    <2>6. QED
      BY <2>1, <2>2, <2>3, <2>4, <2>5 DEF LoginInv
  <1>18. CASE InitialSqlProcessed
    <2>1. FlagsOK' /\ ClosedInv' /\ OneThingInv' /\ ReaderInv' /\ PendingInv'
         /\ RouteInv'
      BY <1>18 DEF LoginInv, InitialSqlProcessed, FlagsOK, ClosedInv,
         OneThingInv, ReaderInv, PendingInv, RouteInv, ParserEnds,
         TimerOnceLoggedIn, sockVars, routeVars, EmitConnect, Settled
    <2>2. ValuesOK'
      BY <1>18, EmitType DEF LoginInv, InitialSqlProcessed, ValuesOK,
         ParserEnds, sockVars, routeVars, States, Answers, Outcomes
    <2>3. OutcomeInv'
      BY <1>18 DEF LoginInv, InitialSqlProcessed, OneThingInv, OutcomeInv,
         PendingInv, ParserEnds, TimerOnceLoggedIn, EmitConnect, Settled,
         sockVars
    <2>4. RetryInv'
      BY <1>18, LimitAssumption DEF LoginInv, InitialSqlProcessed, RetryInv
    <2>5. EventsInv'
      BY <1>18 DEF LoginInv, InitialSqlProcessed, ValuesOK, OutcomeInv,
         EventsInv, ParserEnds, EmitConnect, Settled, Outcomes
    <2>6. QED
      BY <2>1, <2>2, <2>3, <2>4, <2>5 DEF LoginInv
  <1>19. CASE TokenArrives
    <2>1. ClosedInv' /\ OneThingInv' /\ RouteInv'
      BY <1>19 DEF LoginInv, TokenArrives, ClosedInv, OneThingInv, RouteInv,
         Final, Cleanup, Clear, sockVars, eventVars, EmitError, Settled,
         routeVars
    <2>2. FlagsOK'
      BY <1>19 DEF LoginInv, TokenArrives, FlagsOK, Idle, eventVars, Final,
         Cleanup, Clear, sockVars, routeVars
    <2>3. ValuesOK'
      BY <1>19, EmitType, CleanupType DEF LoginInv, TokenArrives, ValuesOK,
         eventVars, Final, sockVars, routeVars, States, ReadStates,
         Login7States
    <2>4. ReaderInv'
      BY <1>19 DEF LoginInv, TokenArrives, OneThingInv, ReaderInv, Final,
         sockVars
    <2>5. OutcomeInv'
      BY <1>19 DEF LoginInv, TokenArrives, ClosedInv, OneThingInv, OutcomeInv,
         eventVars, EmitError, Settled, Final, Cleanup, Clear, sockVars
    <2>6. PendingInv'
      BY <1>19 DEF LoginInv, TokenArrives, OneThingInv, PendingInv, eventVars,
         EmitError, Settled, Final, Cleanup, Clear, sockVars
    <2>7. RetryInv'
      BY <1>19, LimitAssumption DEF LoginInv, TokenArrives, RetryInv, Final,
         Cleanup
    <2>8. EventsInv'
      BY <1>19 DEF LoginInv, TokenArrives, PendingInv, EventsInv, eventVars,
         EmitError, Settled, Final, Cleanup, EndsAfter
    <2>9. QED
      BY <2>1, <2>2, <2>3, <2>4, <2>5, <2>6, <2>7, <2>8 DEF LoginInv
  <1>20. CASE TokenFails
    <2>1. ClosedInv' /\ OneThingInv' /\ ReaderInv' /\ PendingInv' /\ RouteInv'
         /\ EventsInv'
      BY <1>20 DEF LoginInv, TokenFails, ClosedInv, OneThingInv, ReaderInv,
         PendingInv, RouteInv, EventsInv, Final, Cleanup, Clear, Destroyed,
         EmitConnect, Settled, readVars, routeVars, Idle, EndsAfter
    <2>2. FlagsOK'
      BY <1>20 DEF LoginInv, TokenFails, FlagsOK, Idle, Final, Cleanup, Clear,
         Destroyed, readVars, routeVars
    <2>3. ValuesOK'
      BY <1>20, EmitType, CleanupType DEF LoginInv, TokenFails, ValuesOK,
         Final, Destroyed, readVars, routeVars, States, Outcomes
    <2>4. OutcomeInv'
      BY <1>20 DEF LoginInv, TokenFails, ClosedInv, OneThingInv, OutcomeInv,
         EmitConnect, Settled, Final, Cleanup, Clear, Destroyed, readVars
    <2>5. RetryInv'
      BY <1>20, LimitAssumption DEF LoginInv, TokenFails, RetryInv, Final,
         Cleanup
    <2>6. QED
      BY <2>1, <2>2, <2>3, <2>4, <2>5 DEF LoginInv
  <1>21. CASE ConnectTimerFires
    <2>1. FlagsOK' /\ ClosedInv' /\ OneThingInv' /\ ReaderInv' /\ PendingInv'
         /\ RouteInv'
      BY <1>21 DEF LoginInv, ConnectTimerFires, FlagsOK, ClosedInv,
         OneThingInv, ReaderInv, PendingInv, RouteInv, Idle, Aborted, Final,
         Cleanup, Clear, Destroyed, readVars, routeVars, EmitConnect, Settled
    <2>2. ValuesOK'
      BY <1>21, EmitType, CleanupType, ZenonT(30) DEF LoginInv, ConnectTimerFires,
         ValuesOK, Idle, Aborted, Final, Destroyed, readVars, routeVars,
         States, ReadStates, Login7States, Attempts, LoginErrors, Answers,
         Outcomes, Servers
    <2>3. OutcomeInv'
      BY <1>21 DEF LoginInv, ConnectTimerFires, ClosedInv, OneThingInv,
         OutcomeInv, Idle, Aborted, EmitConnect, Settled, Final, Cleanup,
         Clear, Destroyed, readVars
    <2>4. RetryInv'
      BY <1>21, LimitAssumption DEF LoginInv, ConnectTimerFires, RetryInv,
         Aborted, EmitConnect, Settled, Final, Cleanup, Clear, EndsAfter,
         Destroyed
    <2>5. EventsInv'
      BY <1>21 DEF LoginInv, ConnectTimerFires, ValuesOK, OutcomeInv,
         EventsInv, Aborted, EmitConnect, Settled, Final, Cleanup, Clear,
         EndsAfter, Destroyed, readVars, routeVars, Outcomes
    <2>6. QED
      BY <2>1, <2>2, <2>3, <2>4, <2>5 DEF LoginInv
  <1>22. CASE RetryTimerFires
    <2>1. FlagsOK' /\ ValuesOK' /\ ClosedInv' /\ OneThingInv' /\ OutcomeInv' /\
         RouteInv'
      BY <1>22 DEF LoginInv, RetryTimerFires, FlagsOK, ValuesOK, ClosedInv,
         OneThingInv, OutcomeInv, RouteInv, Idle, InitialiseConnection,
         eventVars, sockVars, readVars, routeVars, States, Attempts
    <2>2. ReaderInv'
      BY <1>22 DEF LoginInv, RetryTimerFires, OneThingInv, ReaderInv,
         InitialiseConnection, sockVars, readVars
    <2>3. PendingInv'
      BY <1>22 DEF LoginInv, RetryTimerFires, OneThingInv, PendingInv,
         InitialiseConnection, eventVars, sockVars, readVars
    <2>4. RetryInv'
      BY <1>22, LimitAssumption DEF LoginInv, RetryTimerFires, RetryInv
    <2>5. EventsInv'
      BY <1>22 DEF LoginInv, RetryTimerFires, PendingInv, EventsInv,
         InitialiseConnection, eventVars, readVars
    <2>6. QED
      BY <2>1, <2>2, <2>3, <2>4, <2>5 DEF LoginInv
  <1>23. CASE SocketFails
    <2>1. FlagsOK' /\ ClosedInv' /\ OneThingInv' /\ ReaderInv' /\ PendingInv'
         /\ RouteInv'
      BY <1>23 DEF LoginInv, SocketFails, FlagsOK, ClosedInv, OneThingInv,
         ReaderInv, PendingInv, RouteInv, Idle, SocketError, Final, Cleanup,
         Clear, readVars, routeVars, EmitConnect, Settled, EmitError
    <2>2. ValuesOK'
      BY <1>23, EmitType, CleanupType DEF LoginInv, SocketFails, ValuesOK,
         SocketError, Final, readVars, routeVars, States, Outcomes
    <2>3. OutcomeInv'
      BY <1>23 DEF LoginInv, SocketFails, ClosedInv, OneThingInv, OutcomeInv,
         Idle, SocketError, EmitConnect, Settled, EmitError, Final, Cleanup,
         Clear, readVars
    <2>4. RetryInv'
      BY <1>23, LimitAssumption DEF LoginInv, SocketFails, RetryInv,
         SocketError, Final, Cleanup
    <2>5. EventsInv'
      BY <1>23 DEF LoginInv, SocketFails, ValuesOK, OutcomeInv, EventsInv,
         SocketError, EmitConnect, Settled, EmitError, Final, Cleanup,
         EndsAfter, readVars, Outcomes
    <2>6. QED
      BY <2>1, <2>2, <2>3, <2>4, <2>5 DEF LoginInv
  <1>24. CASE SocketEnds
    <2>1. FlagsOK' /\ ClosedInv' /\ OneThingInv' /\ ReaderInv' /\ PendingInv'
         /\ RouteInv'
      BY <1>24 DEF LoginInv, SocketEnds, FlagsOK, ClosedInv, OneThingInv,
         ReaderInv, PendingInv, RouteInv, Idle, SocketError, Final, Cleanup,
         Clear, routeVars, EmitConnect, Settled, EmitError
    <2>2. ValuesOK'
      BY <1>24, EmitType, CleanupType DEF LoginInv, SocketEnds, ValuesOK,
         SocketError, Final, routeVars, States, Outcomes
    <2>3. OutcomeInv'
      BY <1>24 DEF LoginInv, SocketEnds, ClosedInv, OneThingInv, OutcomeInv,
         Idle, SocketError, EmitConnect, Settled, EmitError, Final, Cleanup,
         Clear
    <2>4. RetryInv'
      BY <1>24, LimitAssumption DEF LoginInv, SocketEnds, RetryInv,
         SocketError, Final, Cleanup
    <2>5. EventsInv'
      BY <1>24 DEF LoginInv, SocketEnds, ValuesOK, OutcomeInv, EventsInv,
         SocketError, EmitConnect, Settled, EmitError, Final, Cleanup,
         EndsAfter, Outcomes
    <2>6. QED
      BY <2>1, <2>2, <2>3, <2>4, <2>5 DEF LoginInv
  <1>25. CASE SocketCloses
    <2>1. ClosedInv' /\ OneThingInv' /\ OutcomeInv' /\ PendingInv' /\ RouteInv'
         /\ EventsInv'
      BY <1>25 DEF LoginInv, SocketCloses, ClosedInv, OneThingInv, OutcomeInv,
         PendingInv, RouteInv, EventsInv, InitialiseConnection, Final, Cleanup,
         Clear, RetryTimer, eventVars, readVars, routeVars, EndsAfter
    <2>2. FlagsOK'
      BY <1>25 DEF LoginInv, SocketCloses, FlagsOK, Idle, InitialiseConnection,
         RetryTimer, Final, Cleanup, Clear, eventVars, readVars, routeVars
    <2>3. ValuesOK'
      BY <1>25, CleanupType DEF LoginInv, SocketCloses, ValuesOK,
         InitialiseConnection, Final, eventVars, readVars, routeVars, States,
         Attempts
    <2>4. ReaderInv'
      BY <1>25 DEF LoginInv, SocketCloses, OneThingInv, ReaderInv,
         InitialiseConnection, Final, readVars, routeVars
    <2>5. RetryInv'
      BY <1>25, LimitAssumption DEF LoginInv, SocketCloses, RetryInv, Final,
         Cleanup
    <2>6. QED
      BY <2>1, <2>2, <2>3, <2>4, <2>5 DEF LoginInv
  <1>26. CASE Close
    <2>1. FlagsOK' /\ ClosedInv' /\ OneThingInv' /\ ReaderInv' /\ OutcomeInv'
         /\ RouteInv'
      BY <1>26 DEF LoginInv, Close, FlagsOK, ClosedInv, OneThingInv, ReaderInv,
         OutcomeInv, RouteInv, Final, Cleanup, Clear, Destroyed, eventVars,
         readVars, routeVars
    <2>2. ValuesOK'
      BY <1>26, CleanupType DEF LoginInv, Close, ValuesOK, Final, Destroyed,
         eventVars, readVars, routeVars, States
    <2>3. PendingInv'
      BY <1>26 DEF LoginInv, Close, FlagsOK, ValuesOK, ClosedInv, OneThingInv,
         ReaderInv, OutcomeInv, PendingInv, RetryInv, RouteInv, EventsInv,
         Final, Cleanup, Clear, EndsAfter, Destroyed, eventVars, readVars,
         routeVars, States, ReadStates, Login7States, Attempts, LoginErrors,
         Answers, Outcomes, Servers
    <2>4. RetryInv'
      BY <1>26, LimitAssumption DEF LoginInv, Close, RetryInv, Final, Cleanup
    <2>5. EventsInv'
      BY <1>26 DEF LoginInv, Close, FlagsOK, EventsInv, Final, Cleanup,
         EndsAfter, eventVars, readVars
    <2>6. QED
      BY <2>1, <2>2, <2>3, <2>4, <2>5 DEF LoginInv
  <1>27. CASE UNCHANGED vars
    BY <1>27 DEF LoginInv, FlagsOK, ValuesOK, ClosedInv, OneThingInv,
       ReaderInv, OutcomeInv, PendingInv, RetryInv, RouteInv, EventsInv, vars,
       connVars, eventVars, sockVars, readVars, routeVars
  <1>28. QED
    BY <1>1, <1>2, <1>3, <1>4, <1>5, <1>6, <1>7, <1>8, <1>9, <1>10, <1>11,
       <1>12, <1>13, <1>14, <1>15, <1>16, <1>17, <1>18, <1>19, <1>20, <1>21,
       <1>22, <1>23, <1>24, <1>25, <1>26, <1>27 DEF Next, AttemptStep,
       ServerStep, ParserStep, TokenStep, TimerStep, SocketStep

LEMMA Invariance == Spec => []LoginInv
  BY InitLoginInv, NextLoginInv, PTL DEF Spec

-----------------------------------------------------------------------------
(* Theorems *)

\* Type correctness.
THEOREM TypeCorrect == Spec => []TypeOK
  <1>1. LoginInv => TypeOK
    BY DEF LoginInv, FlagsOK, ValuesOK, TypeOK
  <1>2. QED
    BY <1>1, Invariance, PTL

\* A connection reported as failed does not become logged in later.
THEOREM FailedForGood == Spec => []FailureIsFinal
  <1>1. LoginInv => FailureIsFinal
    BY DEF LoginInv, OutcomeInv, FailureIsFinal
  <1>2. QED
    BY <1>1, Invariance, PTL

\* Without an authentication that asks for a token, 'connect' is emitted once.
THEOREM ConnectEventOnce == Spec => []CompletedOnce
  <1>1. LoginInv => CompletedOnce
    BY DEF LoginInv, EventsInv, CompletedOnce
  <1>2. QED
    BY <1>1, Invariance, PTL

\* A failure leaves no timer, attempt or open socket behind.
THEOREM FailureReleasesAll == Spec => []FailureReleases
  <1>1. LoginInv => FailureReleases
    BY DEF LoginInv, OutcomeInv, FailureReleases
  <1>2. QED
    BY <1>1, Invariance, PTL

\* In LOGGED_IN nothing of the login is left to be read or to fire.
THEOREM LoggedInIsReady == Spec => []ReadyForRequests
  <1>1. LoginInv => ReadyForRequests
    BY DEF LoginInv, ClosedInv, OutcomeInv, ValuesOK, Outcomes, ReadyForRequests
  <1>2. QED
    BY <1>1, Invariance, PTL

\* It is the server routed to that a rerouted login goes to.
THEOREM RoutesKept == Spec => []GoesWhereSent
  <1>1. LoginInv => GoesWhereSent
    BY DEF LoginInv, RouteInv, GoesWhereSent
  <1>2. QED
    BY <1>1, Invariance, PTL

\* There are at most maxRetriesOnTransientErrors retries.
THEOREM RetriesEnd == Spec => []RetriesBounded
  <1>1. LoginInv => RetriesBounded
    BY DEF LoginInv, RetryInv, RetriesBounded
  <1>2. QED
    BY <1>1, Invariance, PTL

\* 'end' is emitted at most once.
THEOREM EndEventOnce == Spec => []EndedOnce
  <1>1. LoginInv => EndedOnce
    BY DEF LoginInv, EventsInv, EndedOnce
  <1>2. QED
    BY <1>1, Invariance, PTL

-----------------------------------------------------------------------------
(* ConnectionLogin implements ConnectionLifecycle *)

LEMMA InitLifecycle == Init => Lifecycle!Init
  BY DEF Init, LeftAside, Lifecycle!Init


\* The states of an attempt that is under way
Underway == States \ {"Initialized", "LoggedIn", "Final"}

\* Whatever may lead on belongs to an attempt, as long as its outcome is open.
LEMMA StateUnderway ==
  ASSUME LoginInv, outcome = "pending", ~closedEarly,
         \/ attempt # "none" \/ reader # "none" \/ parse # "none" \/ token
         \/ connectTimer \/ retryTimer \/ sock = "open"
  PROVE  state \in Underway
  BY DEF LoginInv, ValuesOK, OutcomeInv, PendingInv, Underway

\* A step of the attempt that the program sees nothing of
LEMMA Unseen ==
  ASSUME OutcomeInv, OutcomeInv', UNCHANGED <<config, outcome, closedEarly>>,
         \/ outcome = "failed" \/ closedEarly \/ state' = state
         \/ state \in Underway /\ state' \in Underway
  PROVE  UNCHANGED Lifecycle!vars
  BY DEF OutcomeInv, LeftAside, Underway, Lifecycle!vars

\* An attempt that fails, or whose failure is not heard any more
LEMMA Failing ==
  ASSUME ValuesOK, OutcomeInv, OutcomeInv', UNCHANGED config,
         outcome' = Settled("failed"), UNCHANGED closedEarly,
         outcome = "pending" => closedEarly \/ state \in Underway,
         outcome = "connected" /\ ~closedEarly =>
             state' = "Final" /\ state \in {"LoggedIn", "Final"}
  PROVE  [Lifecycle!Next]_(Lifecycle!vars)
  <1>a. outcome \in {"pending", "connected", "failed"}
    BY DEF ValuesOK, Outcomes
  <1>1. CASE closedEarly
    <2>1. CASE outcome = "pending"
      <3>1. Lifecycle!AbandonedEnds
        BY <1>1, <2>1 DEF Settled, OutcomeInv, LeftAside, Lifecycle!AbandonedEnds
      <3>2. QED
        BY <3>1 DEF Lifecycle!Next
    <2>2. CASE outcome # "pending"
      BY <1>1, <2>2 DEF Settled, OutcomeInv, LeftAside, Lifecycle!vars
    <2>3. QED
      BY <2>1, <2>2
  <1>2. CASE ~closedEarly
    <2>1. CASE outcome = "pending"
      <3>1. Lifecycle!Fail
        BY <1>2, <2>1 DEF Settled, Underway, OutcomeInv, LeftAside, Lifecycle!Fail
      <3>2. QED
        BY <3>1 DEF Lifecycle!Next
    <2>2. CASE outcome = "connected"
      <3>1. CASE state = "LoggedIn"
        <4>1. Lifecycle!End
          BY <1>2, <2>2, <3>1 DEF Settled, OutcomeInv, LeftAside, Lifecycle!End
        <4>2. QED
          BY <4>1 DEF Lifecycle!Next
      <3>2. CASE state = "Final"
        BY <1>2, <2>2, <3>2 DEF Settled, OutcomeInv, LeftAside, Lifecycle!vars
      <3>3. QED
        BY <1>2, <2>2, <3>1, <3>2
    <2>3. CASE outcome = "failed"
      BY <1>2, <2>3 DEF Settled, OutcomeInv, LeftAside, Lifecycle!vars
    <2>4. QED
      BY <1>a, <2>1, <2>2, <2>3
  <1>3. QED
    BY <1>1, <1>2

\* A connection that ends after its attempt did, or after close()
LEMMA Ending ==
  ASSUME ValuesOK, OutcomeInv, OutcomeInv',
         UNCHANGED <<config, outcome, closedEarly>>, state' = "Final",
         outcome # "pending" \/ closedEarly,
         outcome = "connected" => state \in {"LoggedIn", "Final"}
  PROVE  [Lifecycle!Next]_(Lifecycle!vars)
  <1>1. CASE outcome = "connected" /\ ~closedEarly /\ state = "LoggedIn"
    <2>1. Lifecycle!End
      BY <1>1 DEF OutcomeInv, LeftAside, Lifecycle!End
    <2>2. QED
      BY <2>1 DEF Lifecycle!Next
  <1>2. CASE closedEarly \/ outcome = "failed" \/ state = "Final"
    BY <1>2 DEF OutcomeInv, LeftAside, Lifecycle!vars
  <1>3. QED
    BY <1>1, <1>2 DEF ValuesOK, Outcomes

LEMMA StepOfLifecycle == LoginInv /\ Next => [Lifecycle!Next]_(Lifecycle!vars)
  <1> SUFFICES ASSUME LoginInv, Next PROVE [Lifecycle!Next]_(Lifecycle!vars)
    OBVIOUS
  <1>a. ValuesOK /\ OutcomeInv /\ OutcomeInv'
    BY NextLoginInv DEF LoginInv
  <1>1. CASE Connect
    <2>1. Lifecycle!Connect
      BY <1>1 DEF LoginInv, PendingInv, Connect, InitialiseConnection,
         eventVars, LeftAside, Lifecycle!Connect
    <2>2. QED
      BY <2>1 DEF Lifecycle!Next
  <1>2. CASE LookupSucceeds
    BY <1>2, <1>a, Unseen DEF LookupSucceeds, eventVars, connVars
  <1>3. CASE LookupFails
    <2>1. outcome' = Settled("failed") /\ UNCHANGED <<config, closedEarly>>
      BY <1>3 DEF LookupFails, EmitConnect, Settled
    <2>2. outcome = "pending" => closedEarly \/ state \in Underway
      BY <1>3, StateUnderway DEF LookupFails
    <2>3. outcome = "connected" /\ ~closedEarly =>
         state' = "Final" /\ state \in {"LoggedIn", "Final"}
      BY <1>3 DEF LoginInv, OutcomeInv, LookupFails
    <2>4. QED
      BY <1>a, <2>1, <2>2, <2>3, Failing
  <1>4. CASE ConnectorConnects
    <2>1. UNCHANGED <<config, outcome, closedEarly>>
      BY <1>4 DEF ConnectorConnects, eventVars
    <2>2. \/ outcome = "failed" \/ closedEarly \/ state' = state
          \/ state \in Underway /\ state' \in Underway
      BY <1>4, StateUnderway DEF LoginInv, ValuesOK, OutcomeInv,
         ConnectorConnects, SocketHandling, Underway, Outcomes, States,
         ReadStates, Login7States
    <2>3. QED
      BY <1>a, <2>1, <2>2, Unseen
  <1>5. CASE WrapSucceeds
    <2>1. UNCHANGED <<config, outcome, closedEarly>>
      BY <1>5 DEF WrapSucceeds, eventVars
    <2>2. \/ outcome = "failed" \/ closedEarly \/ state' = state
          \/ state \in Underway /\ state' \in Underway
      BY <1>5, StateUnderway DEF LoginInv, ValuesOK, OutcomeInv, WrapSucceeds,
         SocketHandling, Underway, Outcomes, States, ReadStates, Login7States
    <2>3. QED
      BY <1>a, <2>1, <2>2, Unseen
  <1>6. CASE AttemptFails
    <2>1. outcome' = Settled("failed") /\ UNCHANGED <<config, closedEarly>>
      BY <1>6 DEF AttemptFails, SocketError, EmitConnect, EmitError, Settled
    <2>2. outcome = "pending" => closedEarly \/ state \in Underway
      BY <1>6, StateUnderway DEF AttemptFails
    <2>3. outcome = "connected" /\ ~closedEarly =>
         state' = "Final" /\ state \in {"LoggedIn", "Final"}
      BY <1>6 DEF LoginInv, OutcomeInv, AttemptFails, SocketError, Final
    <2>4. QED
      BY <1>a, <2>1, <2>2, <2>3, Failing
  <1>7. CASE AbortedAttemptFails
    BY <1>7, <1>a, Unseen DEF AbortedAttemptFails, eventVars
  <1>8. CASE PreloginAnswered
    <2>1. CASE UNCHANGED <<config, outcome, closedEarly>> /\ state' # "Final"
      <3>1. \/ outcome = "failed" \/ closedEarly
            \/ state \in Underway /\ state' \in Underway
        BY <1>8, <2>1, StateUnderway DEF LoginInv, ValuesOK, OutcomeInv,
           PreloginAnswered, SendLogin7, AfterLogin7, Final, Underway,
           Outcomes, States, ReadStates, Login7States
      <3>2. QED
        BY <1>a, <2>1, <3>1, Unseen
    <2>2. CASE outcome' = Settled("failed") /\ UNCHANGED <<config, closedEarly>>
               /\ state' = "Final"
      <3>1. outcome = "pending" => closedEarly \/ state \in Underway
        BY <1>8, <2>2, StateUnderway DEF PreloginAnswered
      <3>2. outcome = "connected" /\ ~closedEarly =>
           state' = "Final" /\ state \in {"LoggedIn", "Final"}
        BY <1>8, <2>2 DEF LoginInv, OutcomeInv, PreloginAnswered, Final
      <3>3. QED
        BY <1>a, <2>2, <3>1, <3>2, Failing
    <2>3. QED
      BY <1>8, <2>1, <2>2 DEF PreloginAnswered, SendLogin7, AfterLogin7,
         eventVars, EmitConnect, Final, LoginInv, ReaderInv, ValuesOK,
         Login7States, States
  <1>9. CASE TlsNegotiated
    <2>1. CASE UNCHANGED <<config, outcome, closedEarly>> /\ state' # "Final"
      <3>1. \/ outcome = "failed" \/ closedEarly
            \/ state \in Underway /\ state' \in Underway
        BY <1>9, <2>1, StateUnderway DEF LoginInv, ValuesOK, OutcomeInv,
           TlsNegotiated, SendLogin7, AfterLogin7, SocketError, Final,
           Underway, Outcomes, States, ReadStates, Login7States
      <3>2. QED
        BY <1>a, <2>1, <3>1, Unseen
    <2>2. CASE outcome' = Settled("failed") /\ UNCHANGED <<config, closedEarly>>
               /\ state' = "Final"
      <3>1. outcome = "pending" => closedEarly \/ state \in Underway
        BY <1>9, <2>2, StateUnderway DEF TlsNegotiated
      <3>2. outcome = "connected" /\ ~closedEarly =>
           state' = "Final" /\ state \in {"LoggedIn", "Final"}
        BY <1>9, <2>2 DEF LoginInv, OutcomeInv, TlsNegotiated, SocketError,
           Final
      <3>3. QED
        BY <1>a, <2>2, <3>1, <3>2, Failing
    <2>3. QED
      BY <1>9, <2>1, <2>2 DEF TlsNegotiated, SendLogin7, AfterLogin7,
         eventVars, SocketError, EmitConnect, EmitError, Final, LoginInv,
         ReaderInv, ValuesOK, Login7States, States
  <1>10. CASE Login7Tokens
    BY <1>10, <1>a, Unseen DEF Login7Tokens, eventVars
  <1>11. CASE InitialSqlTokens
    BY <1>11, <1>a, Unseen DEF InitialSqlTokens, eventVars, connVars
  <1>12. CASE LoginAcknowledged
    <2>1. UNCHANGED <<config, outcome, closedEarly>>
      BY <1>12 DEF LoginAcknowledged, eventVars
    <2>2. \/ outcome = "failed" \/ closedEarly \/ state' = state
          \/ state \in Underway /\ state' \in Underway
      BY <1>12, StateUnderway DEF LoginInv, ValuesOK, OutcomeInv,
         LoginAcknowledged, ParserEnds, Underway, Outcomes, States, ReadStates,
         Login7States
    <2>3. QED
      BY <1>a, <2>1, <2>2, Unseen
  <1>13. CASE LoginRouted
    <2>1. UNCHANGED <<config, outcome, closedEarly>>
      BY <1>13 DEF LoginRouted, eventVars
    <2>2. \/ outcome = "failed" \/ closedEarly \/ state' = state
          \/ state \in Underway /\ state' \in Underway
      BY <1>13, StateUnderway DEF LoginInv, ValuesOK, OutcomeInv, LoginRouted,
         ParserEnds, Underway, Outcomes, States, ReadStates, Login7States
    <2>3. QED
      BY <1>a, <2>1, <2>2, Unseen
  <1>14. CASE LoginChallenged
    BY <1>14, <1>a, Unseen DEF LoginChallenged, eventVars, connVars
  <1>15. CASE TokenRequested
    BY <1>15, <1>a, Unseen DEF TokenRequested, eventVars, connVars
  <1>16. CASE LoginRetried
    <2>1. UNCHANGED <<config, outcome, closedEarly>>
      BY <1>16 DEF LoginRetried, eventVars
    <2>2. \/ outcome = "failed" \/ closedEarly \/ state' = state
          \/ state \in Underway /\ state' \in Underway
      BY <1>16, StateUnderway DEF LoginInv, ValuesOK, OutcomeInv, LoginRetried,
         ParserEnds, Underway, Outcomes, States, ReadStates, Login7States
    <2>3. QED
      BY <1>a, <2>1, <2>2, Unseen
  <1>17. CASE LoginFailed
    <2>1. outcome' = Settled("failed") /\ UNCHANGED <<config, closedEarly>>
      BY <1>17 DEF LoginFailed, EmitConnect, Settled
    <2>2. outcome = "pending" => closedEarly \/ state \in Underway
      BY <1>17, StateUnderway DEF LoginFailed, ParserEnds
    <2>3. outcome = "connected" /\ ~closedEarly =>
         state' = "Final" /\ state \in {"LoggedIn", "Final"}
      BY <1>17 DEF LoginInv, OutcomeInv, LoginFailed, ParserEnds, Final
    <2>4. QED
      BY <1>a, <2>1, <2>2, <2>3, Failing
  <1>18. CASE InitialSqlProcessed
    <2>1. /\ outcome' = Settled("connected") /\ state' = "LoggedIn"
          /\ UNCHANGED <<config, closedEarly>>
      BY <1>18 DEF InitialSqlProcessed, EmitConnect
    <2>2. outcome # "connected" /\ parse # "none"
      BY <1>18 DEF LoginInv, OutcomeInv, InitialSqlProcessed, ParserEnds
    <2>3. CASE outcome = "failed"
      BY <1>a, <2>1, <2>3 DEF Settled, OutcomeInv, LeftAside, Lifecycle!vars
    <2>4. CASE outcome = "pending" /\ closedEarly
      <3>1. Lifecycle!AbandonedEnds
        BY <2>1, <2>4 DEF Settled, LeftAside, Lifecycle!AbandonedEnds
      <3>2. QED
        BY <3>1 DEF Lifecycle!Next
    <2>5. CASE outcome = "pending" /\ ~closedEarly
      <3>1. state \in Underway
        BY <1>18, <2>5, StateUnderway DEF InitialSqlProcessed
      <3>2. Lifecycle!Succeed
        BY <2>1, <2>5, <3>1 DEF Settled, Underway, LeftAside, Lifecycle!Succeed
      <3>3. QED
        BY <3>2 DEF Lifecycle!Next
    <2>6. QED
      BY <1>a, <2>2, <2>3, <2>4, <2>5 DEF ValuesOK, Outcomes
  <1>19. CASE TokenArrives
    <2>1. CASE UNCHANGED <<config, outcome, closedEarly>> /\ state' # "Final"
      <3>1. \/ outcome = "failed" \/ closedEarly
            \/ state \in Underway /\ state' \in Underway
        BY <1>19, <2>1, StateUnderway DEF LoginInv, ValuesOK, OutcomeInv,
           TokenArrives, Final, Underway, Outcomes, States, ReadStates,
           Login7States
      <3>2. QED
        BY <1>a, <2>1, <3>1, Unseen
    <2>2. CASE outcome' = Settled("failed") /\ UNCHANGED <<config, closedEarly>>
               /\ state' = "Final"
      <3>1. outcome = "pending" => closedEarly \/ state \in Underway
        BY <1>19, <2>2, StateUnderway DEF TokenArrives
      <3>2. outcome = "connected" /\ ~closedEarly =>
           state' = "Final" /\ state \in {"LoggedIn", "Final"}
        BY <1>19, <2>2 DEF LoginInv, OutcomeInv, TokenArrives, Final
      <3>3. QED
        BY <1>a, <2>2, <3>1, <3>2, Failing
    <2>3. QED
      BY <1>19, <2>1, <2>2 DEF TokenArrives, eventVars, EmitError, Final,
         LoginInv, ReaderInv, ValuesOK, Login7States, States
  <1>20. CASE TokenFails
    <2>1. outcome' = Settled("failed") /\ UNCHANGED <<config, closedEarly>>
      BY <1>20 DEF TokenFails, EmitConnect, Settled
    <2>2. outcome = "pending" => closedEarly \/ state \in Underway
      BY <1>20, StateUnderway DEF TokenFails
    <2>3. outcome = "connected" /\ ~closedEarly =>
         state' = "Final" /\ state \in {"LoggedIn", "Final"}
      BY <1>20 DEF LoginInv, OutcomeInv, TokenFails, Final
    <2>4. QED
      BY <1>a, <2>1, <2>2, <2>3, Failing
  <1>21. CASE ConnectTimerFires
    <2>1. outcome' = Settled("failed") /\ UNCHANGED <<config, closedEarly>>
      BY <1>21 DEF ConnectTimerFires, EmitConnect, Settled
    <2>2. outcome = "pending" => closedEarly \/ state \in Underway
      BY <1>21, StateUnderway DEF ConnectTimerFires
    <2>3. outcome = "connected" /\ ~closedEarly =>
         state' = "Final" /\ state \in {"LoggedIn", "Final"}
      BY <1>21 DEF LoginInv, OutcomeInv, ConnectTimerFires, Final
    <2>4. QED
      BY <1>a, <2>1, <2>2, <2>3, Failing
  <1>22. CASE RetryTimerFires
    <2>1. UNCHANGED <<config, outcome, closedEarly>>
      BY <1>22 DEF RetryTimerFires, eventVars
    <2>2. \/ outcome = "failed" \/ closedEarly \/ state' = state
          \/ state \in Underway /\ state' \in Underway
      BY <1>22, StateUnderway DEF LoginInv, ValuesOK, OutcomeInv,
         RetryTimerFires, InitialiseConnection, Underway, Outcomes, States,
         ReadStates, Login7States
    <2>3. QED
      BY <1>a, <2>1, <2>2, Unseen
  <1>23. CASE SocketFails
    <2>1. outcome' = Settled("failed") /\ UNCHANGED <<config, closedEarly>>
      BY <1>23 DEF SocketFails, SocketError, EmitConnect, EmitError, Settled
    <2>2. outcome = "pending" => closedEarly \/ state \in Underway
      BY <1>23, StateUnderway DEF SocketFails
    <2>3. outcome = "connected" /\ ~closedEarly =>
         state' = "Final" /\ state \in {"LoggedIn", "Final"}
      BY <1>23 DEF LoginInv, OutcomeInv, SocketFails, SocketError, Final
    <2>4. QED
      BY <1>a, <2>1, <2>2, <2>3, Failing
  <1>24. CASE SocketEnds
    <2>1. outcome' = Settled("failed") /\ UNCHANGED <<config, closedEarly>>
      BY <1>24 DEF SocketEnds, SocketError, EmitConnect, EmitError, Settled
    <2>2. outcome = "pending" => closedEarly \/ state \in Underway
      BY <1>24, StateUnderway DEF SocketEnds
    <2>3. outcome = "connected" /\ ~closedEarly =>
         state' = "Final" /\ state \in {"LoggedIn", "Final"}
      BY <1>24 DEF LoginInv, OutcomeInv, SocketEnds, SocketError, Final
    <2>4. QED
      BY <1>a, <2>1, <2>2, <2>3, Failing
  <1>25. CASE SocketCloses
    <2>1. UNCHANGED <<config, outcome, closedEarly>>
      BY <1>25 DEF SocketCloses, eventVars
    <2>2. CASE state \in {"Rerouting", "TransientFailureRetry"}
      <3>1. state \in Underway /\ state' \in Underway
        BY <1>25, <2>2 DEF SocketCloses, InitialiseConnection, Underway, States
      <3>2. QED
        BY <1>a, <2>1, <3>1, Unseen
    <2>3. CASE state \notin {"Rerouting", "TransientFailureRetry"}
      <3>1. state' = "Final"
        BY <1>25, <2>3 DEF SocketCloses, Final
      <3>2. outcome # "pending" \/ closedEarly
        BY <1>25, <2>3 DEF LoginInv, PendingInv, SocketCloses
      <3>3. outcome = "connected" => state \in {"LoggedIn", "Final"}
        BY DEF LoginInv, OutcomeInv
      <3>4. QED
        BY <1>a, <2>1, <3>1, <3>2, <3>3, Ending
    <2>4. QED
      BY <2>2, <2>3
  <1>26. CASE Close
    <2>1. state # "Final" /\ state' = "Final" /\ UNCHANGED <<config, outcome>>
      BY <1>26 DEF Close, Final, eventVars
    <2>2. CASE outcome # "pending" \/ closedEarly
      <3>1. UNCHANGED closedEarly
        BY <1>26, <2>2 DEF Close, LoginInv, FlagsOK
      <3>2. outcome = "connected" => state \in {"LoggedIn", "Final"}
        BY DEF LoginInv, OutcomeInv
      <3>3. QED
        BY <1>a, <2>1, <2>2, <3>1, <3>2, Ending
    <2>3. CASE outcome = "pending" /\ ~closedEarly /\ state = "Initialized"
      <3>1. closedEarly' = closedEarly
        BY <1>26, <2>3 DEF Close, LoginInv, FlagsOK
      <3>2. Lifecycle!End
        BY <2>1, <2>3, <3>1 DEF LeftAside, Lifecycle!End
      <3>3. QED
        BY <3>2 DEF Lifecycle!Next
    <2>4. CASE outcome = "pending" /\ ~closedEarly /\ state # "Initialized"
      <3>1. closedEarly' = TRUE /\ state # "LoggedIn"
        BY <1>26, <2>4 DEF Close, LoginInv, OutcomeInv
      <3>2. Lifecycle!Abandon
        BY <2>1, <2>4, <3>1 DEF LeftAside, Lifecycle!Abandon
      <3>3. QED
        BY <3>2 DEF Lifecycle!Next
    <2>5. QED
      BY <2>2, <2>3, <2>4
  <1>27. QED
    BY <1>1, <1>2, <1>3, <1>4, <1>5, <1>6, <1>7, <1>8, <1>9, <1>10, <1>11,
       <1>12, <1>13, <1>14, <1>15, <1>16, <1>17, <1>18, <1>19, <1>20, <1>21,
       <1>22, <1>23, <1>24, <1>25, <1>26 DEF Next, AttemptStep, ServerStep,
       ParserStep, TokenStep, TimerStep, SocketStep

\* What the program sees of connect() is what ConnectionLifecycle promises.
THEOREM Implementation == Spec => ImplementsLifecycle
  <1>1. UNCHANGED vars => UNCHANGED Lifecycle!vars
    BY DEF vars, connVars, eventVars, LeftAside, Lifecycle!vars
  <1>2. LoginInv /\ [Next]_vars => [Lifecycle!Next]_(Lifecycle!vars)
    BY <1>1, StepOfLifecycle
  <1>3. QED
    BY <1>2, InitLifecycle, Invariance, PTL DEF Spec, Lifecycle!Spec, ImplementsLifecycle

=============================================================================

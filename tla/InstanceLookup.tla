---------------------------- MODULE InstanceLookup ----------------------------
(***************************************************************************)
(* instanceLookup of src/src/instance-lookup.ts: the SQL Server Browser is *)
(* asked for the port of an instance, by datagrams to all addresses of the *)
(* server (src/src/sender.ts), each attempt with a timeout of its own      *)
(* (src/src/utils/with-timeout.ts).                                        *)
(*                                                                         *)
(* An action is one callback of the lookup, of a socket, of the timer or   *)
(* of the signal, with the promise continuations it leads to: a settled    *)
(* attempt is followed by the next one in the same action.                 *)
(***************************************************************************)
EXTENDS Naturals

CONSTANTS
    MaxAddresses,           \* bound: the addresses of a server
    Retries                 \* options.retries

VARIABLES
    named,          \* the server is a name rather than an IP address
    aborted,        \* signal.aborted
    phase,          \* what the promise waits for, or how it settled
    i,              \* the number of the attempt
    response,       \* the response kept: "none", "port", "noPort"
    timer,          \* the timer of withTimeout is armed
    addresses,      \* addresses.length of the attempt
    sockets,        \* the sockets of the attempt that are open, with listeners
    errorCount


Addresses == 1..MaxAddresses
Phases    == {"idle", "lookup", "sending", "resolved", "rejected"}
Responses == {"none", "port", "noPort"}

TypeOK ==
    /\ named \in BOOLEAN /\ aborted \in BOOLEAN /\ timer \in BOOLEAN
    /\ phase \in Phases /\ response \in Responses
    /\ i \in 0..Retries
    /\ addresses \in 0..MaxAddresses /\ errorCount \in 0..MaxAddresses
    /\ sockets \subseteq Addresses

Init ==
    /\ named \in BOOLEAN /\ aborted = FALSE /\ phase = "idle" /\ i = 0 /\ response = "none"
    /\ timer = FALSE /\ addresses = 0 /\ sockets = {} /\ errorCount = 0

-----------------------------------------------------------------------------
(* The attempts *)

\* clearSockets and the finally of withTimeout: nothing of the attempt is left.
TimerOnceSettled == FALSE

SocketsCleared == {}

\* sendInParallel
Send(n) ==
    /\ phase' = "sending"
    /\ addresses' = n /\ sockets' = 1..n /\ errorCount' = 0

\* One turn of the loop: withTimeout and sendMessage, which looks the server up
\* unless it is an address.
Attempt(n) ==
    /\ i' = n
    /\ timer' = TRUE
    /\ \/ ~named /\ Send(1)
       \/ /\ named
          /\ phase' = "lookup"
          /\ addresses' = 0 /\ sockets' = SocketsCleared /\ errorCount' = 0

\* The loop goes on until it has counted all attempts, with or without a
\* response; what is left is to read the port from the last one.
LastAttempt == i = Retries
GoOn(resp) ==
    /\ response' = resp
    /\ \/ ~LastAttempt /\ Attempt(i + 1)
       \/ /\ LastAttempt
          /\ phase' = IF resp = "port" THEN "resolved" ELSE "rejected"
          /\ sockets' = SocketsCleared /\ timer' = TimerOnceSettled
          /\ UNCHANGED <<i, addresses, errorCount>>

\* An attempt that failed, but not by its timeout, ends the lookup.
Throw ==
    /\ phase' = "rejected"
    /\ sockets' = SocketsCleared /\ timer' = TimerOnceSettled
    /\ UNCHANGED <<i, response, addresses>>

-----------------------------------------------------------------------------
Start ==
    /\ phase = "idle"
    /\ IF aborted
       THEN phase' = "rejected" /\ UNCHANGED <<i, timer, addresses, sockets, errorCount>>
       ELSE Attempt(0)
    /\ UNCHANGED <<named, aborted, response>>

LookupAnswers(n) ==
    /\ phase = "lookup"
    /\ Send(n)
    /\ UNCHANGED <<named, aborted, i, response, timer>>

LookupFails ==
    /\ phase = "lookup"
    /\ Throw
    /\ UNCHANGED <<named, aborted, errorCount>>

\* onMessage
Responds(s, resp) ==
    /\ phase = "sending" /\ s \in sockets
    /\ GoOn(resp)
    /\ UNCHANGED <<named, aborted>>

\* onError: errors are counted, not sockets, and a socket may have several.
ErrorsEndIt == errorCount + 1 = addresses
SocketFails(s) ==
    /\ phase = "sending" /\ s \in sockets
    /\ errorCount' = errorCount + 1
    /\ IF ErrorsEndIt THEN Throw
       ELSE UNCHANGED <<phase, sockets, timer, i, response, addresses>>
    /\ UNCHANGED <<named, aborted>>

\* The timer of withTimeout aborts the attempt, and the loop goes on.
TimerFires ==
    /\ timer /\ phase \in {"lookup", "sending"}
    /\ GoOn(response)
    /\ UNCHANGED <<named, aborted>>

\* The caller's signal aborts the attempt through abortCurrentAttempt.
AbortHeard == phase \in {"lookup", "sending"}

Abort ==
    /\ ~aborted
    /\ aborted' = TRUE
    /\ IF AbortHeard THEN Throw
       ELSE UNCHANGED <<phase, sockets, timer, i, response, addresses>>
    /\ UNCHANGED <<named, errorCount>>

Answers == \E n \in Addresses : LookupAnswers(n)
Response == \E s \in Addresses, resp \in {"port", "noPort"} : Responds(s, resp)

Next ==
    \/ Start \/ Answers \/ LookupFails \/ Response
    \/ \E s \in Addresses : SocketFails(s)
    \/ TimerFires

=============================================================================

------------------------------- MODULE Dialing -------------------------------
(***************************************************************************)
(* From the name of a server to a connected socket: the instance lookup    *)
(* and the connector composed as initialiseConnection and connectOnPort do *)
(* (src/src/connection.ts), under the one signal of the connect timer.     *)
(* What ConnectionLogin takes as a promise is this module.                 *)
(***************************************************************************)
EXTENDS Naturals, FiniteSets

CONSTANTS MaxAddresses, Retries

ASSUME AddressAssumption == MaxAddresses \in Nat \ {0}
ASSUME RetryAssumption   == Retries \in Nat

VARIABLES
    byInstance,                     \* config.options.instanceName is used
    named, aborted,                 \* the server is a name; signal.aborted
    \* InstanceLookup
    lookupPhase, i, response, timer, addresses, udp, errorCount,
    \* Connector
    parallel, dialPhase, count, tcp, heard, abortHeard, errors

lookupVars    == <<lookupPhase, i, response, timer, addresses, udp, errorCount>>
connectorVars == <<parallel, dialPhase, count, tcp, heard, abortHeard, errors>>
vars == <<byInstance, named, aborted, lookupVars, connectorVars>>

L == INSTANCE InstanceLookup WITH phase <- lookupPhase, sockets <- udp
C == INSTANCE Connector WITH phase <- dialPhase, sock <- tcp

TypeOK == byInstance \in BOOLEAN /\ L!TypeOK /\ C!TypeOK

Init == byInstance \in BOOLEAN /\ L!Init /\ C!Init

LookupStep(A) == byInstance /\ A /\ UNCHANGED <<byInstance, connectorVars>>

\* connectOnPort, with the port of the options or that of the lookup
PortKnown == byInstance => lookupPhase = "resolved"
DialStep(A) == PortKnown /\ A /\ UNCHANGED <<byInstance, lookupVars>>

\* createConnectTimer: the signal is the one of both.
Abort == L!Abort /\ C!Abort /\ UNCHANGED byInstance

Next == LookupStep(L!Next) \/ DialStep(C!Next) \/ Abort

Spec == Init /\ [][Next]_vars

\* The timer of an attempt fires, the name of the server is looked up, and
\* each TCP socket connects or fails.  Nothing is said of the connect timer, of
\* the SQL Server Browser or of its datagrams.
Fairness ==
    /\ WF_vars(LookupStep(L!Start)) /\ WF_vars(LookupStep(L!TimerFires))
    /\ WF_vars(DialStep(C!Start)) /\ WF_vars(DialStep(C!Answers \/ C!LookupFails))
    /\ \A a \in C!Addresses : WF_vars(DialStep(C!SocketEvent(a)))

FairSpec == Spec /\ Fairness

-----------------------------------------------------------------------------
(* Properties *)

\* The whole is settled by whichever of the two rejects, or by the connector;
\* one that starts with an aborted signal will be rejected.
Outcome ==
    IF byInstance /\ lookupPhase = "rejected" THEN "rejected"
    ELSE IF dialPhase \in {"resolved", "rejected"} THEN dialPhase
    ELSE IF aborted THEN "rejected" ELSE "pending"

Open == {<<"udp", s>> : s \in udp} \cup {<<"tcp", s>> : s \in C!OpenSockets}

Promise == INSTANCE AbortablePromise WITH
    Sockets <- {"udp", "tcp"} \X C!Addresses, outcome <- Outcome, open <- Open

\* Whatever order the answers, errors, timers and the abort come in, the
\* attempt settles once, with at most one socket; every other socket is closed
\* when it does, and none is opened or taken later (connectOnPort relies on
\* it: a socket that came after the timeout would be logged in on).
ImplementsPromise == Promise!Spec

\* Every address is accounted for.  A socket that may still report an error has a
\* listener for it: an 'error' event nobody hears ends the process, and
\* connectInParallel and connectInSequence take their listeners away in several
\* places.  The connector gives up when every address has failed and not before,
\* in parallel, where a counter tells, and in sequence, where the loop does.
AddressesAccountedFor ==
    /\ \A a \in C!Addresses : tcp[a] = "connecting" => a \in heard
    /\ dialPhase = "rejected" /\ ~aborted /\ count > 0 =>
          /\ errors = count
          /\ \A a \in 1..count : tcp[a] = "destroyed"

\* Dialing ends without help from the connect timer: attempts of the lookup
\* are bounded and timed, and the sockets are all accounted for.
DialingSettles == <>(Outcome # "pending")

=============================================================================

------------------------------ MODULE Connector ------------------------------
(***************************************************************************)
(* connectInParallel and connectInSequence of src/src/connector.ts: the    *)
(* addresses of a host are looked up and tried, all at once or one after   *)
(* the other, until one connects, all have failed or the signal aborts.    *)
(*                                                                         *)
(* An action is one callback of the lookup, of a socket or of the signal,  *)
(* with the promise continuations it leads to.  Addresses are numbered in  *)
(* the order in which the lookup returns them, and so are their sockets.   *)
(***************************************************************************)
EXTENDS Naturals

CONSTANT MaxAddresses               \* bound: the addresses of a host

VARIABLES
    named,          \* the host is a name rather than an IP address
    parallel,       \* connectInParallel, by options.multiSubnetFailover
    aborted,        \* signal.aborted
    phase,          \* what the promise waits for, or how it settled
    count,          \* addresses.length
    sock,           \* the socket of each address
    heard,          \* sockets on which onError and onConnect are registered
    abortHeard,     \* onAbort is registered on the signal
    errors          \* errors.length

Addresses == 1..MaxAddresses
Phases    == {"idle", "lookup", "connecting", "resolved", "rejected"}
Socks     == {"none", "connecting", "open", "destroyed"}

TypeOK ==
    /\ named \in BOOLEAN /\ parallel \in BOOLEAN /\ aborted \in BOOLEAN /\ abortHeard \in BOOLEAN
    /\ phase \in Phases
    /\ count \in 0..MaxAddresses /\ errors \in 0..MaxAddresses
    /\ sock \in [Addresses -> Socks]
    /\ heard \subseteq Addresses

Init ==
    /\ named \in BOOLEAN /\ parallel \in BOOLEAN
    /\ aborted = FALSE
    /\ phase = "idle"
    /\ count = 0 /\ errors = 0
    /\ sock = [i \in Addresses |-> "none"]
    /\ heard = {} /\ abortHeard = FALSE

OpenSockets == {i \in Addresses : sock[i] \in {"connecting", "open"}}

\* sock once those in set are destroyed
Destroyed(set) ==
    [i \in Addresses |-> IF i \in set /\ sock[i] # "none" THEN "destroyed" ELSE sock[i]]

-----------------------------------------------------------------------------
(* Starting *)

\* net.connect to the addresses in set, with all three listeners
Try(set) ==
    /\ sock' = [i \in Addresses |-> IF i \in set THEN "connecting" ELSE sock[i]]
    /\ heard' = set
    /\ abortHeard' = TRUE
    /\ phase' = "connecting"

\* What follows the lookup: connectInSequence begins with the first address.
Dial(n) ==
    /\ count' = n
    /\ Try(IF parallel THEN 1..n ELSE {1})
    /\ UNCHANGED <<named, parallel, aborted, errors>>

\* An aborted signal is refused, a host that is an address needs no lookup.
Start ==
    /\ phase = "idle"
    /\ \/ /\ aborted
          /\ phase' = "rejected"
          /\ UNCHANGED <<named, parallel, aborted, count, sock, heard, abortHeard, errors>>
       \/ ~aborted /\ ~named /\ Dial(1)
       \/ /\ ~aborted /\ named
          /\ phase' = "lookup" /\ abortHeard' = TRUE
          /\ UNCHANGED <<named, parallel, aborted, count, sock, heard, errors>>

LookupAnswers(n) == phase = "lookup" /\ Dial(n)

LookupFails ==
    /\ phase = "lookup"
    /\ phase' = "rejected" /\ abortHeard' = FALSE
    /\ UNCHANGED <<named, parallel, aborted, count, sock, heard, errors>>

-----------------------------------------------------------------------------
(* The sockets *)

\* What onConnect destroys: in parallel every other socket.
Others(i) == Addresses \ {i}

\* The listeners that are left: in parallel those of the winner stay.
HeardOnceConnected(i) == IF parallel THEN {i} ELSE {}

\* onConnect leaves the signal.
AbortHeardOnceSettled == FALSE

Connects(i) ==
    /\ sock[i] = "connecting" /\ i \in heard
    /\ sock' = [Destroyed(Others(i)) EXCEPT ![i] = "open"]
    /\ heard' = HeardOnceConnected(i)
    /\ abortHeard' = AbortHeardOnceSettled
    /\ phase' = "resolved"
    /\ UNCHANGED <<named, parallel, aborted, count, errors>>

\* onError of connectInParallel: rejected once there is an error per address.
GivesUpEarly == errors + 2 >= count                         \* fault: one too few
GivesUpLate  == errors = count                              \* fault: one too many
GivesUp == errors + 1 = count

FailsInParallel(i) ==
    /\ parallel
    /\ sock[i] \in {"connecting", "open"} /\ i \in heard
    /\ errors' = errors + 1
    /\ sock' = Destroyed({i}) /\ heard' = heard \ {i}
    /\ IF GivesUp
       THEN /\ abortHeard' = FALSE
            /\ phase' = IF phase = "connecting" THEN "rejected" ELSE phase
       ELSE UNCHANGED <<abortHeard, phase>>
    /\ UNCHANGED <<named, parallel, aborted, count>>

\* onError of connectInSequence, and the loop: the next address, or rejected.
FailsInSequence(i) ==
    /\ ~parallel
    /\ sock[i] = "connecting" /\ i \in heard
    /\ errors' = errors + 1
    /\ IF i < count
       THEN /\ sock' = [Destroyed({i}) EXCEPT ![i + 1] = "connecting"]
            /\ heard' = {i + 1}
            /\ UNCHANGED <<abortHeard, phase>>
       ELSE /\ sock' = Destroyed({i}) /\ heard' = {}
            /\ abortHeard' = FALSE /\ phase' = "rejected"
    /\ UNCHANGED <<named, parallel, aborted, count>>

\* The winner of connectInSequence fails: it is the caller's by now.
WinnerFails(i) ==
    /\ sock[i] = "open" /\ i \notin heard
    /\ sock' = Destroyed({i})
    /\ UNCHANGED <<named, parallel, aborted, phase, count, heard, abortHeard, errors>>

-----------------------------------------------------------------------------
(* The signal aborts: onAbort of the lookup or of the sockets is called. *)

AbortedSocketsNone == {}                            \* fault: none is destroyed
AbortedSockets == IF parallel THEN Addresses ELSE heard

Abort ==
    /\ ~aborted
    /\ aborted' = TRUE
    /\ IF abortHeard
       THEN /\ phase' = IF phase \in {"lookup", "connecting"} THEN "rejected" ELSE phase
            /\ sock' = Destroyed(AbortedSockets) /\ heard' = {}
            /\ abortHeard' = FALSE
       ELSE UNCHANGED <<phase, sock, heard, abortHeard>>
    /\ UNCHANGED <<named, parallel, count, errors>>

Answers == \E n \in Addresses : LookupAnswers(n)
SocketEvent(i) == Connects(i) \/ FailsInParallel(i) \/ FailsInSequence(i)

Next ==
    \/ Start \/ Answers \/ LookupFails
    \/ \E i \in Addresses : SocketEvent(i) \/ WinnerFails(i)

=============================================================================

--------------------------- MODULE AbortablePromise ---------------------------
(***************************************************************************)
(* What a promise that is given an AbortSignal and opens sockets on the    *)
(* way is for: it settles once; while it is pending it may open and close  *)
(* sockets; when it settles every socket is closed but the one it resolves *)
(* with; and when its signal aborts it is rejected at once.                *)
(***************************************************************************)
EXTENDS Naturals, FiniteSets

CONSTANT Sockets

VARIABLES
    outcome,        \* "pending", "resolved" or "rejected"
    aborted,        \* the signal's
    open            \* the sockets that are open

TypeOK ==
    /\ outcome \in {"pending", "resolved", "rejected"}
    /\ aborted \in BOOLEAN
    /\ open \subseteq Sockets

Init == outcome = "pending" /\ ~aborted /\ open = {}

Work ==
    /\ outcome = "pending" /\ ~aborted
    /\ open' \in SUBSET Sockets
    /\ UNCHANGED <<outcome, aborted>>

Resolve ==
    /\ outcome = "pending" /\ ~aborted
    /\ outcome' = "resolved"
    /\ open' \in {{}} \cup {{s} : s \in Sockets}
    /\ UNCHANGED aborted

Reject ==
    /\ outcome = "pending"
    /\ outcome' = "rejected" /\ open' = {}
    /\ UNCHANGED aborted

Abort ==
    /\ ~aborted
    /\ aborted' = TRUE
    /\ IF outcome = "pending" THEN outcome' = "rejected" /\ open' = {}
       ELSE UNCHANGED <<outcome, open>>

\* The socket the promise resolved with is closed in the end.
Lose ==
    /\ outcome = "resolved"
    /\ open' \in SUBSET open
    /\ UNCHANGED <<outcome, aborted>>

Next == Work \/ Resolve \/ Reject \/ Abort \/ Lose

Spec == Init /\ [][Next]_<<outcome, aborted, open>>

=============================================================================

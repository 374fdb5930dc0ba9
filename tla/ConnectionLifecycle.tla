------------------------ MODULE ConnectionLifecycle ------------------------
(***************************************************************************)
(* What Connection.connect promises, abstractly: the attempt to connect    *)
(* ends at most once, well or badly; a connection is up only after a good  *)
(* end, and down for good after a bad one.  A program that closes the      *)
(* connection while it is being established is promised only that the      *)
(* attempt has no second end.                                              *)
(***************************************************************************)

VARIABLES
    phase,      \* "idle", "connecting", "up" or "down"
    outcome,    \* "pending", "connected" or "failed"
    abandoned   \* close() was called while connecting

vars == <<phase, outcome, abandoned>>

Init == phase = "idle" /\ outcome = "pending" /\ abandoned = FALSE

Connect ==
    /\ phase = "idle" /\ phase' = "connecting"
    /\ UNCHANGED <<outcome, abandoned>>

Succeed ==
    /\ phase = "connecting" /\ outcome = "pending"
    /\ phase' = "up" /\ outcome' = "connected"
    /\ UNCHANGED abandoned

Fail ==
    /\ phase = "connecting" /\ outcome = "pending"
    /\ phase' = "down" /\ outcome' = "failed"
    /\ UNCHANGED abandoned

\* close(), or the loss of a connection that is up
End ==
    /\ phase \in {"idle", "up"} /\ phase' = "down"
    /\ UNCHANGED <<outcome, abandoned>>

Abandon ==
    /\ phase = "connecting"
    /\ phase' = "down" /\ abandoned' = TRUE
    /\ UNCHANGED outcome

\* What becomes of an abandoned attempt is still reported once at most.
AbandonedEnds ==
    /\ abandoned /\ outcome = "pending"
    /\ outcome' \in {"connected", "failed"}
    /\ UNCHANGED <<phase, abandoned>>

Next == Connect \/ Succeed \/ Fail \/ End \/ Abandon \/ AbandonedEnds

Spec == Init /\ [][Next]_vars

=============================================================================

---------------------------- MODULE MessageChannel ----------------------------
(***************************************************************************)
(* What the framing of messages into packets is for: a channel that hands  *)
(* over messages one at a time, in the order of their submission, each     *)
(* with the bytes that were written to it, in order.  A message that is    *)
(* told to be ignored may be cut short, any other arrives in full.  Bytes  *)
(* are numbered.                                                           *)
(***************************************************************************)
EXTENDS Naturals, Sequences

CONSTANTS Messages, MaxBytes        \* Messages = 1..n; bound: bytes of each

VARIABLES
    written,        \* the bytes written to each message so far
    ended,          \* messages that are complete
    ignored,        \* messages that are to be ignored
    got,            \* the bytes handed over of each message
    over            \* messages that are handed over

vars == <<written, ended, ignored, got, over>>

Init ==
    /\ written = [m \in Messages |-> 0]
    /\ ended = {} /\ ignored = {} /\ over = {}
    /\ got = [m \in Messages |-> <<>>]

Write(m) ==
    /\ m \notin ended
    /\ \E n \in written[m]..MaxBytes : written' = [written EXCEPT ![m] = n]
    /\ UNCHANGED <<ended, ignored, got, over>>

End(m) == ended' = ended \cup {m} /\ UNCHANGED <<written, ignored, got, over>>

Ignore(m) ==
    /\ m \notin over
    /\ ignored' = ignored \cup {m} /\ ended' = ended \cup {m}
    /\ UNCHANGED <<written, got, over>>

Before(m) == {k \in Messages : k < m}

\* A few bytes of the message whose turn it is
Deliver(m) ==
    /\ Before(m) \subseteq over /\ m \notin over
    /\ \E n \in Len(got[m])..written[m] :
          got' = [got EXCEPT ![m] = [k \in 1..n |-> k]]
    /\ UNCHANGED <<written, ended, ignored, over>>

Finish(m) ==
    /\ Before(m) \subseteq over /\ m \in ended
    /\ Len(got[m]) = written[m] \/ m \in ignored
    /\ over' = over \cup {m}
    /\ UNCHANGED <<written, ended, ignored, got>>

Next == \E m \in Messages : Write(m) \/ End(m) \/ Ignore(m) \/ Deliver(m) \/ Finish(m)

Spec == Init /\ [][Next]_vars

=============================================================================

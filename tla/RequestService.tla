--------------------------- MODULE RequestService ---------------------------
(***************************************************************************)
(* What a logged in connection promises to the code that executes requests *)
(* on it, without any of the machinery (messages, attentions, timers,      *)
(* listeners) that src/src/connection.ts uses to keep the promise:         *)
(*                                                                         *)
(*   - every execution is called back at most once, and once it is, never  *)
(*     again;                                                              *)
(*   - one execution is in progress at a time;                             *)
(*   - when the connection ends, the execution in progress is called back, *)
(*     and nothing is accepted afterwards.                                 *)
(*                                                                         *)
(* RequestExecution implements this specification (Service there).         *)
(***************************************************************************)
EXTENDS Naturals

CONSTANT MaxExecs   \* how many executions the program asks for

VARIABLES
    alive,      \* the connection has not ended
    current,    \* the execution in progress, 0 if there is none
    made,       \* executions asked for so far; they are numbered from 1
    calls       \* how often the callback of each execution was called

vars == <<alive, current, made, calls>>

Execs == 1..MaxExecs

Init ==
    /\ alive = TRUE
    /\ current = 0
    /\ made = 0
    /\ calls = [e \in Execs |-> 0]

\* A request is accepted: only on a live connection that runs nothing.
Submit ==
    /\ alive /\ current = 0
    /\ made' \in Execs /\ made' = made + 1
    /\ current' = made'
    /\ UNCHANGED <<alive, calls>>

\* A request is refused: its callback gets the error at once.
Reject ==
    /\ made' \in Execs /\ made' = made + 1
    /\ calls' = [calls EXCEPT ![made'] = 1]
    /\ UNCHANGED <<alive, current>>

\* The execution in progress is over, well or badly.
Complete ==
    /\ current # 0 /\ calls[current] = 0
    /\ calls' = [calls EXCEPT ![current] = 1]
    /\ current' = 0
    /\ UNCHANGED <<alive, made>>

\* The connection ends and takes the execution in progress with it.
Disconnect ==
    /\ alive /\ ~alive'
    /\ current' = 0
    /\ calls' = [e \in Execs |-> IF e = current THEN 1 ELSE calls[e]]
    /\ UNCHANGED made

Next == Submit \/ Reject \/ Complete \/ Disconnect

Spec == Init /\ [][Next]_vars

=============================================================================

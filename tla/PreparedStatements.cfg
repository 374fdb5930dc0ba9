\* Two requests, four calls in any order, with output parameters and cancels.
SPECIFICATION Spec
CONSTANTS
    Requests = {q1, q2}
    MaxCalls = 4
    OutputNames = {"other"}
    None = None
CHECK_DEADLOCK FALSE
INVARIANTS
    TypeOK
    OutcomeIsItsOwn
    HandleIsPrepared

CONSTANTS
    UserRequests = {r1, r2}
    ResetRequests = {}
    MaxExecs = 2
    RequestTimeout = 0
    CancelTimeout = 0
    NoRequest = NoRequest
SPECIFICATION Spec
INVARIANTS
    AnsweredByOwnResponse
CHECK_DEADLOCK FALSE

\* Without a cancel timeout an acknowledgement may be read for a response.
CONSTANTS
    UserRequests = {r1}
    ResetRequests = {rs}
    MaxExecs = 3
    RequestTimeout = 1
    CancelTimeout = 0
    NoRequest = NoRequest
SPECIFICATION Spec
INVARIANTS
    ResetCarriesFlag
PROPERTIES
    ImplementsService
CHECK_DEADLOCK FALSE

\* Both timeouts are set, and the server may fall silent.
CONSTANTS
    UserRequests = {r1}
    ResetRequests = {rs}
    MaxExecs = 2
    RequestTimeout = 1
    CancelTimeout = 1
    NoRequest = NoRequest
SPECIFICATION SilentServerSpec
INVARIANTS
    QuietWhenLoggedIn
    AnsweredByOwnResponse
    AttentionIsHonoured
    ErrorIsReported
PROPERTIES
    AttentionIsBounded
    CompletesWithServer
CHECK_DEADLOCK FALSE

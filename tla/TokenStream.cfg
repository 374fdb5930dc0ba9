\* Calls, bulk loads and logins with their responses, cut anywhere, and a cancel at any point.
SPECIFICATION Spec
CONSTANTS
    MaxChunk = 2
    Exchanges <- MCExchanges
CHECK_DEADLOCK FALSE
INVARIANTS
    TypeOK
    EventsAreTheResponse
    OutcomeIsTheResponse
PROPERTY
    ResponseIsRead

CONSTANTS
    Configs <- AllConfigs
    MaxRetries = 2
    MaxReroutes = 1
SPECIFICATION FairSpec
INVARIANTS
    FailureReleases
    ReadyForRequests
    GoesWhereSent
PROPERTIES
    ImplementsLifecycle
    ConnectSettles
CHECK_DEADLOCK FALSE

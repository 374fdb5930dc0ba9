CONSTANTS
    NumRows = 3
    MaxColumns = 2
    ReadableHighWaterMark = 2
SPECIFICATION Spec
CHECK_DEADLOCK FALSE
INVARIANTS TypeOK OutcomeIsTheTable
PROPERTIES CalledBack RowStreamReleased

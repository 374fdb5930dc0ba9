CONSTANTS
    Versions = {"7_1", "7_2"}
    IsolationLevels <- MCLevels
    MaxFrames = 3
    MaxDepth = 2
    MaxWork = 2
    Cancelable = {"begin", "save", "isolation", "work", "rollback", "commit", "reset"}
    Configurations <- MCConfigurations
    Changed = {"enableArithAbort"}
SPECIFICATION SessionSpec
CHECK_DEADLOCK FALSE
INVARIANTS SessionTypeOK DescriptorsAgree DoneIsDurable FailedLeavesNothing NothingLeftOpen
    AcceptedIsUsable SettingsAsAsked IsolatedAsAsked

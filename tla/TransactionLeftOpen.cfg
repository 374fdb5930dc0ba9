CONSTANTS
    Versions = {"7_2"}
    IsolationLevels = {0, 4}
    MaxFrames = 2
    MaxDepth = 1
    MaxWork = 2
    Cancelable = {"begin"}
SPECIFICATION Spec
CHECK_DEADLOCK FALSE
INVARIANT DoneWorkIsDurable

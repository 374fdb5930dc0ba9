\* An environment change of a type the parser does not know, cut anywhere.
SPECIFICATION Spec
CONSTANTS
    MaxChunk = 2
    Exchanges <- WithUnknown
CHECK_DEADLOCK FALSE
PROPERTY
    ResponseIsRead

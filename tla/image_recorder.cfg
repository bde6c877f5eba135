SPECIFICATION MCSpec
CONSTANTS
    Size = {"small", "large"}
    MaxInvalid = 3
    MaxTime = 5
    MaxFrames = 5
INVARIANTS
    AutoStopExact
    AnnouncedPath
    EveryImageThatFits
PROPERTIES
    PendingEnds
\* The node ends with DestroyNode.
CHECK_DEADLOCK FALSE

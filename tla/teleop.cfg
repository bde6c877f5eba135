SPECIFICATION MCSpec
CONSTANTS
    Nothing = Nothing
    Unknown = Unknown
    Pos = {0, 1, 3}
    Scale = 1
    Mirrored = TRUE
    BoxMin = 0
    BoxMax = 2
    MaxJump = 1
    WatchdogTimeout = 1
    PoseStaleness = 2
    MaxKeys = 2
    MaxRequests = 2
    MaxBeats = 1
    DefaultPedalTimeout = 2
    Console = {"none"}
INVARIANTS
    ClientFollows
    Follows
PROPERTIES
    DeadMan
    ReleaseOpens

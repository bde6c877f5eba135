SPECIFICATION MCSpec
CONSTANTS
    Subscriber = {"recorder"}
    Depth = 1
    Label = {}
    Outcome = {""}
    NodeRestarts = TRUE
    MaxEvents = 6
    MaxTime = 4
    PendingLength = 2
    MayFail = TRUE
    MaxLaunches = 0
    FrameTime = {1, 2, 3, 4}
    Stamp = {1, 2, 3}
    Task = {"", "pick"}
    BagOutcome = {"", "success"}
    MaxLength = 4
INVARIANTS
    FramesOfEpisode
    FilesAgree
    VideosAreEpisodes
    DetectsExactly
PROPERTIES
    RecordingsEnd
CHECK_DEADLOCK FALSE

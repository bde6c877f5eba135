SPECIFICATION Spec
CONSTANTS
    NoThread = NoThread
    Producer = {c1}
    Controller = {c1}
    QueueSize = 1
    Policies = {"drop_newest"}
    MaxStarts = 1
    MaxFrames = 2
    FfmpegMayFail = TRUE
    TimeoutsFire = FALSE
INVARIANTS
    StopNotStuck
CHECK_DEADLOCK FALSE

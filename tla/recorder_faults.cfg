SPECIFICATION Spec
CONSTANTS
    NoThread = NoThread
    Producer = {p1}
    Controller = {c1}
    QueueSize = 2
    Policies = {"wait", "drop_oldest", "drop_newest"}
    MaxStarts = 2
    MaxFrames = 3
    FfmpegMayFail = TRUE
    TimeoutsFire = TRUE
INVARIANTS
    FramesAccounted
    NoFfmpegLeft
    CheckAndEnqueueAtomic
PROPERTIES
    SuccessIsComplete
CHECK_DEADLOCK FALSE

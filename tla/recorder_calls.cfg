SPECIFICATION FairSpec
CONSTANTS
    NoThread = NoThread
    Producer = {c1}
    Controller = {c1}
    QueueSize = 2
    Policies = {"wait", "drop_oldest", "drop_newest"}
    MaxStarts = 2
    MaxFrames = 3
    FfmpegMayFail = FALSE
    TimeoutsFire = TRUE
PROPERTIES
    StopReturns
    ShutdownReturns
    KeepsPromise

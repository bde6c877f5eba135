SPECIFICATION MCSpec
CONSTANTS
    Cam = cam
    Eye = eye
    Arm = arm
    Tip = tip
    Images = {cam, eye}
    Messages = {arm, tip}
    Episodes <- MCEpisodes
    QueueSize = 1
    StartDelay = 1
    Horizon = 2
INVARIANTS
    PublishedInOrder
    NoUseAfterClose
    DoneIsHonest
    CommandLossless
PROPERTIES
    ReplayEnds
CHECK_DEADLOCK FALSE

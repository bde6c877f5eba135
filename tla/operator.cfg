SPECIFICATION MCSpec
CONSTANTS
    Hands <- MCHands
    Motion = {"forward", "up"}
    TTL = 2
    MaxTyped = 2
    ServicesWait = 2
    StatusWait = 1
    MaxCommands = 2
    MaxCalls = 3
    Subscriber = {}
    Depth = 1
    Label = {"pick"}
    Outcome = {""}
    NodeRestarts = TRUE
    MaxEvents = 7
    MaxTime = 1
INVARIANTS
    MotionOnDemand
    SessionBalance
PROPERTIES
    EveryRequestAnswered
\* The bounds end the behaviours.
CHECK_DEADLOCK FALSE

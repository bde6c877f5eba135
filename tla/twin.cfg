SPECIFICATION Spec
CONSTANTS
    Id = {1, 2}
    NoId = NoId
    Resource = {"arm", "scene"}
    Operation = {"move_to_joints", "reset_scene"}
    Needs <- MCNeeds
    MaxSessions = 1
    Motion = {"move_to_joints"}
    Caller = {"c1"}
    MaxStops = 1
INVARIANTS
    HoldersExact
    OverWhenEnded
    EstopEndsAll
    OwnAnswer
PROPERTIES
    OutcomeKept

SPECIFICATION MCSpec
CONSTANTS
    First = c1
    Calls = {c1, c2}
    Plans <- MCPlans
INVARIANTS
    TrackedIsRunning
    StopHeeded
    OnPath
PROPERTIES
    CallsEnd

SPECIFICATION Spec
CONSTANTS
    Time = {0, 1, 2}
    MaxEpisodes = 2
    MaxMessages = 3
    ImageMessage = {2, 3}
    Mode = {"sequential", "parallel"}
    Policy = {"skip", "error", "replace"}
    Workers = 2
    MaxImports = 2
INVARIANTS
    AssignsExactly
    EpisodesWhole
    EndsClean
CHECK_DEADLOCK FALSE

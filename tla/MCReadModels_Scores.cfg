CONSTANTS
    Scenarios <- ScoreScenarios
    StartsAt = {0}
    MaxRestarts = 1
    ReplayDepth = 2
    LateEcho = FALSE
    LiveBackfills = {"ui"}
    Since = 20
    PageSize = 2
    RemoteUsers = {91}
    RemoteFields = {"name"}

SPECIFICATION Spec


INVARIANT ScoresFollowWrites

CHECK_DEADLOCK FALSE

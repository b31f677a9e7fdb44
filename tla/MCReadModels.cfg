CONSTANTS
    Scenarios <- MCScenarios
    StartsAt = {0, 2}
    MaxRestarts = 1
    ReplayDepth = 2
    LateEcho = FALSE
    LiveBackfills = {"ui"}
    Since = 20
    PageSize = 2
    RemoteUsers = {91}
    RemoteFields = {"name", "avatar"}

SPECIFICATION Spec

INVARIANTS
    QuestionsServed
    PostsServed
    GroupsServed
    ServicesServed
    UsersServed
    ContentServed
    WebServed
    ReplayConverges

PROPERTY FreshKeysStay

CHECK_DEADLOCK FALSE

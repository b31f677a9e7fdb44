SPECIFICATION Spec
CONSTANTS
    BlocksPerHour = 6
    BlocksPerDay = 144
    PageSize = 2
    MaxPages = 2
    Jumps = {4, 7, 150}
    Stories <- MCStories
INVARIANTS
    MembersAreEarned
    RulingsHaveQuorum
    RevsAreAdmitted
    SyncedViewIsReplay

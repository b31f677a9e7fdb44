CONSTANTS
    pub = pub ann = ann ben = ben cat = cat dan = dan
    r = r x = x y = y
    Bots = {pub, ann, ben, cat, dan}
    Publisher = pub
    Nodes = {r, x, y}
    Quorum = 2
    TtlHours = 4
    WindowHours = 4
    Roster = {{ann, dan}}
    HAct = 1
    HAct2 = 4
    Root = r
    NoParent = none
    InitialTree <- MCTree
    Amendments <- MCAmendments
    SubmitterShare = 8000
    ChallengeTtlHours = 3
    Workers = {ann}
    Reviewers = {ann, ben, cat, dan}
    Scripts <- MCScripts
SPECIFICATION SpecR
INVARIANTS
    VerifiedByQuorum
    ShownVotesAgree
    FrozenNodesKept
    SharesAreEarned
PROPERTIES
    GatedBallotsAreInert
    SettlementStands
CHECK_DEADLOCK FALSE

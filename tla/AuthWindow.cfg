SPECIFICATION FairSpec
CONSTANTS
    Platforms <- MCPlatforms
    Sites <- MCSites
    OutLimit = 2
    WireLimit = 1
    ChallengeLimit = 1
    MaxLoads = 2
    MaxChallenges = 2
INVARIANTS
    ExceptionsApproved
    PagesWhole
PROPERTIES
    KeepsContract
    CapturesGoOn
CHECK_DEADLOCK FALSE

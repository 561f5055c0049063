SPECIFICATION FairSpec
CONSTANTS
    None = None
    t1 = t1
    t2 = t2
    t3 = t3
    c1 = c1
    c2 = c2
    Tasks <- MCTasks
    Scenarios <- MCScenarios
    Cookies <- MCCookies
    Platforms <- MCPlatforms
    WireLimit = 1
    LedgerLimit = 1
    OrderLimit = 2
    NoticeLimit = 2
    MaxDays = 1
    MaxCommands <- MCMaxCommands
INVARIANTS
    ConfirmedOnly
    SubmittedOnce
    NothingLeft
PROPERTY
    TaskEnds
CHECK_DEADLOCK FALSE

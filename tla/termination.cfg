SPECIFICATION FairSpec
CONSTANTS
    WPs <- TwoWPs
    LaneWPs <- TwoWPs
    Deps <- Chain2
    InitialLanes <- Planned2
    Agents <- TwoAgents
    Config <- OverriddenThenFile
    MaxRetries = 1
    LoopDeadlockThreshold = 3
    AgentOutcomes <- AllOutcomes
    Verdicts <- AllVerdicts
    KillReachesAgents = FALSE
    MaxStarts = 3
    MaxKills = 1
    MaxFaults = 1
    MaxMoves = 0
INVARIANTS TypeOK
PROPERTIES RunStateNeverForgets TerminatesUnlessStarved
CHECK_DEADLOCK FALSE

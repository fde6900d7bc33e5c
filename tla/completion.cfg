SPECIFICATION FairSpec
CONSTANTS
    WPs <- TwoWPs
    LaneWPs <- OneWP
    Deps <- Chain2
    InitialLanes <- AnyLeft2
    Agents <- TwoAgents
    Config <- OneAgentOneSlot
    MaxRetries = 0
    LoopDeadlockThreshold = 3
    AgentOutcomes <- Good
    Verdicts <- Approving
    KillReachesAgents = TRUE
    MaxStarts = 1
    MaxKills = 0
    MaxFaults = 0
    MaxMoves = 0
PROPERTIES AllDone
CHECK_DEADLOCK FALSE

SPECIFICATION OrchestrationSpec
CONSTANTS
    WPs <- OneWP
    LaneWPs <- OneWP
    Deps <- Independent1
    InitialLanes <- Planned1
    Agents <- TwoAgents
    Config <- OneAgentOneSlot
    MaxRetries = 1
    LoopDeadlockThreshold = 3
    AgentOutcomes <- Good
    Verdicts <- Approving
    KillReachesAgents = TRUE
    MaxStarts = 1
    MaxKills = 0
    MaxFaults = 1
    MaxMoves = 0
PROPERTIES StallExplained
CHECK_DEADLOCK FALSE

SPECIFICATION FairSpec
CONSTANTS
    WPs <- OneWP
    LaneWPs <- OneWP
    Deps <- Independent1
    InitialLanes <- Planned1
    Agents <- TwoAgents
    Config <- OneAgentOneSlot
    MaxRetries = 1
    LoopDeadlockThreshold = 3
    AgentOutcomes <- Diligent
    Verdicts <- Approving
    KillReachesAgents = TRUE
    MaxStarts = 2
    MaxKills = 0
    MaxFaults = 0
    MaxMoves = 1
PROPERTIES Termination
CHECK_DEADLOCK FALSE

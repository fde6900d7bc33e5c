SPECIFICATION OrchestrationSpec
CONSTANTS
    WPs <- OneWP
    LaneWPs <- OneWP
    Deps <- Independent1
    InitialLanes <- Planned1
    Agents <- TwoAgents
    Config <- OneAgentOneSlot
    MaxRetries = 1
    LoopDeadlockThreshold = 3
    AgentOutcomes <- Good
    Verdicts <- Approving
    KillReachesAgents = TRUE
    MaxStarts = 2
    MaxKills = 1
    MaxFaults = 0
    MaxMoves = 0
INVARIANTS NeverStalls
CHECK_DEADLOCK FALSE

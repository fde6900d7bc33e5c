SPECIFICATION OrchestrationSpec
CONSTANTS
    WPs <- TwoWPs
    LaneWPs <- OneWP
    Deps <- Chain2
    InitialLanes <- AnyLeft2
    Agents <- TwoAgents
    Config <- OneAgentTwoSlots
    MaxRetries = 0
    LoopDeadlockThreshold = 3
    AgentOutcomes <- AllOutcomes
    Verdicts <- Judging
    KillReachesAgents = TRUE
    MaxStarts = 2
    MaxKills = 1
    MaxFaults = 1
    MaxMoves = 1
INVARIANTS SlotsConserved DoneIsReviewed NoReviewForgotten ReviewCyclesBounded
PROPERTIES RefinesLifecycle StallExplainedBarFaults LoopEndsIdle EndsOnlyWithoutWork
CHECK_DEADLOCK FALSE

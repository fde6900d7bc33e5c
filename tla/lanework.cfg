SPECIFICATION FairSpec
CONSTANTS
    WPs <- TwoWPs
    InReview <- OneWP
    Lingering <- OneWP
    MaxAttempts <- FirstTwice
    MaxReworks <- FirstOnce
INVARIANTS TypeOK AttemptsDoNotOverlap
PROPERTIES FeatCommitsAreClean AdvancesOnOwnWork TasksEnd
CHECK_DEADLOCK FALSE

SPECIFICATION Spec
CONSTANTS
    WPs <- TwoWPs
    InReview <- OneWP
    Lingering <- OneWP
    MaxAttempts <- FirstTwice
    MaxReworks <- FirstOnce

PROPERTIES NoAdvanceWithoutOutput
CHECK_DEADLOCK FALSE

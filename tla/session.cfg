SPECIFICATION Spec
CONSTANTS
    Procs = {p1, p2, p3}
    NoProc = NoProc
    MaxRecords = 1
INVARIANTS TypeOK OwnerFileTruthful
PROPERTIES KeepsCustody OnlyLateSavesIntrude SerialRunsForgetNothing
CHECK_DEADLOCK FALSE

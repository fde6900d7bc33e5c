SPECIFICATION Spec
CONSTANTS
    Procs = {p1, p2, p3}
    NoProc = NoProc
    MaxRecords = 1
PROPERTIES RunsForgetNothing
CHECK_DEADLOCK FALSE

SPECIFICATION Spec
CONSTANTS
    Procs = {p1, p2}
    p1 = p1
    p2 = p2
    WPs = {w1, w2}
    w1 = w1
    w2 = w2
    Targets = {"doing"}
    MaxCommands = 3
INVARIANTS TypeOK LaneMatchesLog NoEntryLost
PROPERTIES RollbackToPriorLane AcceptsWhatItChecked
SYMMETRY Symmetry
CHECK_DEADLOCK FALSE

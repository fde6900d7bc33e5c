SPECIFICATION Spec
CONSTANTS
    Features = {f1, f2}
    f1 = f1
    f2 = f2
    Work = {w1, w2}
    w1 = w1
    w2 = w2
    Target = target
    target = target
    Primary = primary
    primary = primary
    None = none
    none = none
    MaxRuns = 2
    Options <- CommandLinesTried
INVARIANT TypeOK
PROPERTIES DropsOnlyLateWork PushedBeforeCleanup MergesItsFeature
SYMMETRY Symmetry
CHECK_DEADLOCK FALSE

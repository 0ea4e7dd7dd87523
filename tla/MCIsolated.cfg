SPECIFICATION Spec
CONSTANTS
    a = a
    b = b
    c = c
    Pids = {a, b, c}
    Isolating = {a}
    Retention = 1
    MaxRoots = 3
    MaxCancels = 2
INVARIANTS
    IsolatedSettles
PROPERTIES
    SweepSparesTheLocked
    NewestKept
    CrashLeavesNothing
SYMMETRY MCSymmetry
CHECK_DEADLOCK FALSE

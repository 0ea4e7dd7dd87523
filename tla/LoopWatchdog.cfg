SPECIFICATION Spec
CONSTANTS
    Threshold = 4
    Interval = 1
INVARIANT
    HangNamed
CHECK_DEADLOCK FALSE

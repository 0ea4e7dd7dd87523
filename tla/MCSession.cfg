SPECIFICATION FairSpec
CONSTANTS
    timed = timed
    known = known
    apart = apart
    token = token
    Tests <- MCTests
    TokensOf <- MCTokensOf
    SoloTests = {}
    Concurrency = 2
    Timed = {timed}
    Isolated = {apart}
    Xfail <- MCXfail
    MaxFail = 2
INVARIANTS
    WorkersDistinct
    StoppedRunNeverGreen
PROPERTIES
    CancelledMeansCut
    StopIsNoFailure
    DeadlineDecides
    NothingStartsOnceStopping
    RunEnds
CHECK_DEADLOCK FALSE

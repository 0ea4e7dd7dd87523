SPECIFICATION FairSpec
CONSTANTS
    both = both
    left = left
    right = right
    plain = plain
    alone = alone
    x = x
    y = y
    Tests <- MCTests
    TokensOf <- MCTokensOf
    SoloTests <- MCSolo
    Concurrency = 2
INVARIANTS
    TypeOK
    Exclusion
    Bookkeeping
    NoLostWakeup
PROPERTIES
    ImplementsAdmission
    EveryTestFinishes
CHECK_DEADLOCK FALSE

SPECIFICATION FairSpec
CONSTANTS
    one = one
    two = two
    other = other
    mod = mod
    elsewhere = elsewhere
    engine = engine
    client = client
    row = row
    tmp = tmp
    Tests <- PairTests
    Modules <- MCModules
    Keys <- MCKeys
    ModuleOf <- PairModuleOf
    ScopeOf <- MCScopeOf
    DependsOn <- MCDependsOn
    Plan <- PairPlan
PROPERTIES
    TimedOutTestReleases
CHECK_DEADLOCK FALSE

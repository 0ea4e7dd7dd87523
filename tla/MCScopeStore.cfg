SPECIFICATION FairSpec
CONSTANTS
    one = one
    two = two
    other = other
    mod = mod
    elsewhere = elsewhere
    engine = engine
    client = client
    row = row
    tmp = tmp
    Tests <- MCTests
    Modules <- MCModules
    Keys <- MCKeys
    ModuleOf <- MCModuleOf
    ScopeOf <- MCScopeOf
    DependsOn <- MCDependsOn
    Plan <- MCPlan
INVARIANTS
    NoUseAfterClose
    SingleFlight
    NoInheritedInterrupt
    RefcountExact
    ModuleClosed
    NothingLeft
    DependentsFirst
PROPERTIES
    NeverRebuilt
    RunEnds
    CutTeardownEnds
CHECK_DEADLOCK FALSE

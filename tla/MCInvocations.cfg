SPECIFICATION Spec
CONSTANTS
    pkgInit = pkgInit
    pkgFile = pkgFile
    nsFile = nsFile
    outside = outside
    roles = roles
    other = other
    deep = deep
    admin = admin
    p1 = p1
    p2 = p2
    Files <- MCFiles
    Inits <- MCInits
    Helper = outside
    InitsOf <- MCInitsOf
    Under <- MCUnder
    Tests <- MCTests
    FileOf <- MCFileOf
    CasesOf <- MCCasesOf
    Procs = {p1, p2}
    Commands <- MCCommands
    FirstTrees <- MCTrees
    MaxEdits = 1
    MaxRuns = 3
INVARIANTS
    NarrowingLosesNothing
PROPERTIES
    NoFailureForgotten
    NoErrorForgotten
    GreenRunClears
CHECK_DEADLOCK FALSE
SYMMETRY MCSymmetry

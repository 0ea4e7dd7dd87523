SPECIFICATION Spec
CONSTANTS
    pkgInit = pkgInit
    pkgFile = pkgFile
    outside = outside
    roles = roles
    other = other
    admin = admin
    p1 = p1
    p2 = p2
    Files = {pkgFile}
    Inits = {pkgInit}
    Helper = outside
    InitsOf <- MCInitsOf
    Under <- MCUnder
    Tests = {roles, other}
    FileOf <- MCFileOf
    CasesOf <- MCCasesOf
    Procs = {p1, p2}
    Requests <- MCRequests
    FirstTrees <- MCTrees
    MaxEdits = 2
    MaxRuns = 2
INVARIANT
    NeverAWrongReport
CHECK_DEADLOCK FALSE

SPECIFICATION Spec
CONSTANTS
    MaxFixtures = 3
    Scopes = {"session", "module", "function", "call"}
    Sites <- MCSites
    IdLists <- MCIdLists
    Tests <- MCTests
    ModuleOf <- MCModuleOf
    UsesOf <- MCUsesOf
INVARIANTS
    FitForTheStore
    EveryCaseOnce
    KeysAreConstructions
CHECK_DEADLOCK FALSE

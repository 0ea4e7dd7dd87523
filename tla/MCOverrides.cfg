SPECIFICATION Spec
CONSTANTS
    t1 = t1
    t2 = t2
    k1 = k1
    k2 = k2
    k3 = k3
    Run = Run
    Tests = {t1, t2}
    Tasks = {k1, k2, k3}
    Mains = {k1, k2}
    TestOf <- MCTestOf
    Keys = {dep}
    Engine = Engine
    Missing = Missing
    MaxLayers = 2
    MaxPuts = 1
PROPERTIES
    NothingLeftBehind
    NoCrossTalk
    OpensInForce
CHECK_DEADLOCK FALSE

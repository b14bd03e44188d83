SPECIFICATION Spec
CONSTANTS
    Clients = {c1, c2}
    Runs = {r1, r2}
    NoResult = NoResult
    MaxFaults = 1
SYMMETRY Symmetry
VIEW Currency
CHECK_DEADLOCK FALSE
INVARIANTS
    WblResultKept
    EndIsReal
    SuccessorWaits
PROPERTIES
    OptimizationIsFinal

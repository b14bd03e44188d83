SPECIFICATION Spec
CONSTANTS
    Clients = {a}
    Submitters = {a}
    Jobs = {1, 2, 3, 4}
    NoJob = 0
    Settings = {x, y}
    MaxAttempt = 3
SYMMETRY Symmetry
VIEW LiveState
INVARIANTS
    AttemptDispatchedOnce
    ResultIsOwn
    AttemptsKept
    OomCancelIsOwn
    OneLiveJob

\* A worker may stop before the task is recorded, and MaxAttempt ends the walk.
SPECIFICATION Spec
CONSTANTS
    i1 = i1
    i2 = i2
    w1 = w1
    w2 = w2
    Installations = {i1, i2}
    Workers = {w1, w2}
    Home <- TwoHomes
    Offered <- TwoRoles
    NumComponents = 1
    Jobs = {j1, j2}
    NoJob = NoJob
    Results = {"ran", "valid"}
    MaxAttempt = 2
SYMMETRY Symmetry
VIEW LiveState
INVARIANTS
    OneJobPerAttempt
    OneJobAtATime
    JobIsOwn
    ReceiptKept
PROPERTIES
    HistoryKept
CHECK_DEADLOCK FALSE

\* A worker may stop before the task is recorded, and MaxAttempt ends the walk.
SPECIFICATION FairSpec
CONSTANTS
    i1 = i1
    i2 = i2
    w1 = w1
    w2 = w2
    Installations = {i1}
    Workers = {w1}
    Home <- OneHome
    Offered <- OneRole
    NumComponents = 2
    Jobs = {j1, j2}
    NoJob = NoJob
    Results = {"ran", "skewed", "valid"}
    MaxAttempt = 2
INVARIANTS
    CompleteIsReal
    ValidatedStays
PROPERTIES
    ResultIsRecovered
CHECK_DEADLOCK FALSE

SPECIFICATION RaceSpec
CONSTANTS
    Clients = {c1, c2}
    Jobs = {1, 2, 3}
    NoJob = 0
    StartStep = 2
    MaxRequeues = 0
SYMMETRY Symmetry
VIEW LiveState
INVARIANTS
    AtMostOneDispatch
    PrerequisiteVerified
    TerminalIsReal
    JobAccounted
PROPERTIES
    RecordIsDurable

SPECIFICATION EndsSpec
CONSTANTS
    Clients = {c1}
    Jobs = {1, 2, 3, 4}
    NoJob = 0
    StartStep = 1
    MaxRequeues = 1
    Projects = {1}
    Sessions = {s1, s2}
    NoSession = none
    LastRev = 1
    LastTry = 0
PROPERTIES
    SuccessIsRecorded
    RefreshEnds

SPECIFICATION SafetySpec
CONSTANTS
    Projects = {1}
    Sessions = {s1, s2}
    NoSession = none
    MaxRev = 3
    MaxTries = 1
PROPERTIES
    RecycleSparesWork

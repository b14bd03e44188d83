\* The walks stop at the bounds, so a last state has no successor.
SPECIFICATION PartsSpec
CONSTANTS
    Clients = {c1, c2}
    Contents = {w1, w2}
    MaxRev = 3
    None = None
    d1 = d1
    d2 = d2
    site = site
    Etc = Etc
INVARIANTS
    SearchIsExact
    ClusterIsReadRight
    JunctionIsRecognised
    FormsAreExact
PROPERTIES
    RegisterSpec
CHECK_DEADLOCK FALSE

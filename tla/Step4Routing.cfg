\* One tab is enough: its own Step 4 is not recorded in it.
SPECIFICATION Spec
CONSTANTS
    None = None
    Tabs = {a, b}
    Projects = {"p"}
    Steps = {4}
    MaxOpens = 1
    MaxStarts = 1
    MaxTouches = 0
    MaxActs = 4
PROPERTIES
    Step4Recorded
CHECK_DEADLOCK FALSE

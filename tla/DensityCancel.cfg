\* The bounds end a walk.
SPECIFICATION Spec
CONSTANTS
    None = None
    Atoms = {1, 2}
    Servers = {"h", "o"}
    Home = "h"
    Preset <- MCPreset
    Values = {1, 2}
    Selections <- MCSelections
    MaxTasks = 1
    MaxJobs = 2
    MaxActs = 3
INVARIANTS
    CancelledAsConfirmed
CHECK_DEADLOCK FALSE

\* Server Profiles closes, and the bounds end a walk.
SPECIFICATION DesktopSpec
CONSTANTS
    Projects = {1}
    Sessions = {s1, s2}
    NoSession = none
    MaxRev = 3
    MaxTries = 1
    Absent = absent
    Ids = {i, j}
    Names = {"n", "m"}
    Runtimes = {"r"}
    Entered <- MCEntered
    Installed <- MCInstalled
    MaxEdits = 3
    MaxChecks = 2
    MaxUses = 4
    Atoms = {1, 2}
    Servers = {"h", "o"}
    Home = "h"
    Preset <- MCPreset
    Values = {2}
    Selections <- MCSelections
    MaxTasks = 2
    MaxJobs = 2
    MaxActs = 4
    Fhi = {"p"}
    Orca = {"o"}
    Rows = {"t"}
    MaxResults = 2
SYMMETRY Symmetry
VIEW View
CONSTRAINT RefreshBound
INVARIANTS
    RecycledHidden
    DialogsAreVerified
    ActsAsShown
PROPERTIES
    ShownNeverOlder
    MarkersKept
    CancelOnce
    DeletedAsReviewed
CHECK_DEADLOCK FALSE

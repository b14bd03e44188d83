\* The window closes, and the bounds end a walk.
SPECIFICATION WorkbenchSpec
CONSTANTS
    None = None
    Tabs = {a, b}
    Projects = {"p"}
    Steps = {3, 4}
    MaxOpens = 2
    MaxStarts = 2
    MaxTouches = 1
    MaxActs = 4
    Loadable <- Geometries
    Near <- MCNear
    Gold <- MCGold
    Pyramid <- MCPyramid
    Extension <- MCExtension
    Elements = {"C"}
    Measuring <- MCMeasuring
    Pickable = {1, 3}
    MaxDepth = 1
    MaxGestures = 4
    Molecule <- MCMolecule
    Bonds <- MCBonds
    LinkAtoms = {1, 3}
    Offered <- MCOffered
    Divergent = {2}
    Singular = {2}
    MaxEdits = 4
    Resolutions = {"full", "low"}
    Source = "full"
    Fractions = {0, 50, 100}
    Isovalues = {1, 2}
    MaxChanges = 4
SYMMETRY Symmetry
VIEW View
INVARIANTS
    ShownIsCurrent
    SubmissionAccounted
PROPERTIES
    EditIsUndoable
    SubmissionStaysHome
CHECK_DEADLOCK FALSE

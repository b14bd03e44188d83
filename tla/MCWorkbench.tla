------------------------------ MODULE MCWorkbench ------------------------------
(***************************************************************************)
(* Small instances for TLC of the parts of the desktop program that share no *)
(* state: the editing session of a Geometry tab, the main window with its    *)
(* tabs and background operations, a tight-binding window and the tab of a   *)
(* density result.  The initial state chooses the part whose behaviours      *)
(* follow; the variables that are only of the others stay None.              *)
(***************************************************************************)
EXTENDS MainWindow, TLC

CONSTANTS Loadable, Near, Gold, Pyramid, Extension, Elements, Measuring, Pickable, MaxDepth, MaxGestures,
    Molecule, Bonds, LinkAtoms, Offered, Divergent, Singular, MaxEdits,
    Resolutions, Source, Fractions, Isovalues, MaxChanges

VARIABLES area, gestures, dialog, posted,
    geo, source, history, tool, builder, lattice, factor,    \* Geometry tab
    form, cursor, work, cache, shown,                        \* tight binding
    control, surface, kept, displayed, exporting             \* density result

geometry == <<geo, source, history, tool, builder, lattice, factor>>
binding == <<form, cursor, work, cache, shown>>
result == <<control, surface, kept, displayed, exporting>>
common == <<gestures, dialog, posted>>
workbench == <<area, common, geometry, binding, result, vars>>

\* Two bonded anchors 1 and 2, contact Au 3 and 4, electrode atoms 5 and 6, lattice
\* site 7; a molecule read with its bonds and a contact structure without.
Listed(elements) == [i \in DOMAIN elements |-> [id |-> i, el |-> elements[i], at |-> {}]]
Geometries ==
    {[atoms |-> Listed(<<"S", "S">>), bonds |-> {{1, 2}}, inferred |-> FALSE, coordOnly |-> FALSE],
     [atoms |-> Listed(<<"S", "S", "Au", "Au">>), bonds |-> {}, inferred |-> TRUE, coordOnly |-> FALSE]}
Close == {{1, 2}, {1, 3}, {2, 4}, {3, 5}, {4, 6}, {5, 7}}

\* The narrow threshold frees anchor 1 of its contact, the wide one joins the contacts.
MCNear == [narrow |-> Close \ {{1, 3}}, wide |-> Close \cup {{3, 4}}]
MCGold == <<3, 4>>
MCPyramid == [i \in {3, 4} |-> i + 2]
MCExtension == [i \in {5} |-> 7]
MCMeasuring == [distance |-> 2]

\* A chain of three atoms of two elements between two contacts; 0 is an empty field and
\* -1 a malformed one.
MCMolecule == <<"C", "N", "C">>
MCBonds == {{1, 2}, {2, 3}}
MCOffered ==
    [onsite |-> {0, 1, 2}, hopping |-> {0, 1}, atom |-> {-1, 0, 1, 3}, bond |-> {0, 1, 2}, grid |-> 0..3]

Editor == INSTANCE GeometryEditor
Binding == INSTANCE TightBinding
Result == INSTANCE DensityView WITH changes <- gestures

ASSUME PartsAssumption ==
    /\ Editor!EditorAssumption /\ Binding!TightBindingAssumption /\ Result!ViewAssumption

NoGeometry ==
    /\ geo = None /\ source = None /\ history = None /\ tool = None /\ builder = None
    /\ lattice = None /\ factor = None

NoBinding == form = None /\ cursor = None /\ work = None /\ cache = None /\ shown = None

NoResult == control = None /\ surface = None /\ kept = None /\ displayed = None /\ exporting = None

NoWindow ==
    /\ win = None /\ sub = None /\ tra = None /\ pool = None /\ events = None
    /\ stack = None /\ home = None /\ count = None

NoCommon == gestures = None /\ dialog = None /\ posted = None

WorkbenchInit ==
    \/ area = "editor" /\ Editor!Init /\ posted = None /\ NoBinding /\ NoResult /\ NoWindow
    \/ area = "binding" /\ Binding!Init /\ dialog = None /\ NoGeometry /\ NoResult /\ NoWindow
    \/ area = "result" /\ Result!Init /\ NoGeometry /\ NoBinding /\ NoWindow
    \/ area = "window" /\ Init /\ NoCommon /\ NoGeometry /\ NoBinding /\ NoResult

WorkbenchNext ==
    \/ area = "editor" /\ Editor!Next /\ UNCHANGED <<area, posted, binding, result, vars>>
    \/ area = "binding" /\ Binding!Next /\ UNCHANGED <<area, dialog, geometry, result, vars>>
    \/ area = "result" /\ Result!Next /\ UNCHANGED <<area, geometry, binding, vars>>
    \/ area = "window" /\ Next /\ UNCHANGED <<area, common, geometry, binding, result>>

Symmetry == Permutations(Tabs)

WorkbenchSpec == WorkbenchInit /\ [][WorkbenchNext]_workbench

\* A closed window does nothing more; who looks at an outcome only asks whether it was
\* shown; an operation's origin is read where it is recorded.
Seen(s) ==
    [IF s.running THEN s ELSE [s EXCEPT !.request = None, !.trusted = FALSE]
        EXCEPT !.shown = IF @ = "none" THEN @ ELSE "shown"]
Routed(q) == [i \in DOMAIN q |-> IF q[i].op = "export" THEN q[i] ELSE [q[i] EXCEPT !.origin = None]]
View ==
    CASE area = "editor" -> <<area, common, geometry>>
      [] area = "binding" -> <<area, common, binding>>
      [] area = "result" -> <<area, common, result>>
      [] area = "window" ->
           <<area, IF win.closed THEN <<>> ELSE <<win>>, Seen(sub), tra, Routed(pool), Routed(events),
             stack, IF sub.running THEN home["submission"] ELSE None, count>>

\* Every edit of the Geometry tab can be undone.
EditIsUndoable == [][area = "editor" => Editor!UndoableStep]_workbench

\* What a window shows beside its input was computed from that input: in a Geometry tab
\* the measurements, rotations, previews and candidates of the atoms shown, in a
\* tight-binding window the plot and the matrix, in a density result the surface.
ShownIsCurrent ==
    /\ area = "editor" => Editor!NothingStale
    /\ area = "binding" => Binding!Shown
    /\ area = "result" => Result!SurfaceIsCurrent


\* Those of the main window.
SubmissionStaysHome == [][area = "window" => StaysHome]_workbench
SubmissionAccounted == area = "window" => SubmissionIsAccounted
=============================================================================

---------------------------- MODULE GeometryEditor ----------------------------
(***************************************************************************)
(* The editing session of one Geometry workspace of the main window         *)
(* (tools/molecule_viewer_demo.py, gui/geometry_history.py,                 *)
(* visualization/bond_torsion.py and measurements.py, structure/ and         *)
(* junction/): picking tools, measurements, atom edits, bond rotation,       *)
(* contact Au and electrodes, lattice extension, Undo and Redo, and the      *)
(* modal preview of the bond threshold.                                      *)
(*                                                                         *)
(* An atom is [id, el, at]: which atom it is, its element, and its position, *)
(* named by the bond axes about which it has been turned by 180 degrees.     *)
(* Indices are 1-based; a bond is a set of two indices.  What refuses an     *)
(* edit because of distances alone is a nondeterministic refusal.            *)
(***************************************************************************)
EXTENDS Integers, FiniteSets, SequencesExt

CONSTANTS
    Loadable,    \* geometries that can be opened: [atoms, bonds, inferred, coordOnly]
    Near,        \* [threshold factor -> pairs of atom ids close enough to be bonded]
    Gold,        \* [anchor id -> id of the contact Au placed at it]
    Pyramid,     \* [contact Au id -> id of the electrode atom added behind it]
    Extension,   \* [electrode atom id -> id of the lattice site beside it]
    Elements,    \* what Replace Atom may choose
    Measuring,   \* [measuring tool -> how many atoms it wants]
    Pickable,    \* ids of the atoms the measuring user picks, in this order (a bound)
    None,        \* no value
    MaxDepth,    \* depth of the history: 5 in the code
    MaxGestures  \* bound on the picks, ticks and edits of a behaviour

IsStructure(s) ==
    /\ s \in Seq({s[i] : i \in DOMAIN s})
    /\ \A i \in DOMAIN s : s[i] = [id |-> s[i].id, el |-> s[i].el, at |-> s[i].at]

EditorAssumption ==
    /\ MaxDepth \in Nat \ {0} /\ MaxGestures \in Nat
    /\ \A g \in Loadable : IsStructure(g.atoms)

VARIABLES
    geo,      \* the working geometry, a GeometryEditState
    source,   \* the geometry that was loaded
    history,  \* [undo, redo]: sequences of GeometryEditState
    tool,     \* [mode, picked, element, torsion, drag]
    builder,  \* [anchors, proposals, sites, preview]: what is ticked and previewed
    lattice,  \* [valid, candidates, hover]
    factor,   \* the bond threshold
    dialog,   \* the Bond Detection dialog: None or what it restores
    gestures  \* picks, ticks and edits so far

vars == <<geo, source, history, tool, builder, lattice, factor, dialog, gestures>>

Modes == DOMAIN Measuring \cup {"normal", "rotate", "delete", "replace", "place", "lattice"}

----------------------------------------------------------------------------
(* Structures and their bonds.                                             *)

Ids(s) == {s[i].id : i \in DOMAIN s}
IndexOf(s, id) == CHOOSE i \in DOMAIN s : s[i].id = id
Identity(s) == [i \in DOMAIN s |-> <<s[i].id, s[i].el>>]
Position(s, i) == <<s[i].id, s[i].at>>

Inferred(s, f) ==
    {b \in {{i, j} : i, j \in DOMAIN s} :
        \E i, j \in b : i # j /\ b = {i, j} /\ {s[i].id, s[j].id} \in Near[f]}

\* The atoms still connected to i when the bond cut is removed.
Component(s, bonds, cut, i) ==
    LET within[n \in 0..Len(s)] ==
          IF n = 0 THEN {i}
          ELSE LET near == within[n - 1] IN near \cup UNION {b \in bonds \ {cut} : b \cap near # {}}
    IN within[Len(s)]

Attached(s, bonds, i) == {j \in DOMAIN s : {i, j} \in bonds /\ s[j].el = "Au"}

\* detect_anchors: the binding atoms, with the Au bonded to each.
Anchors(s, bonds) == [i \in {k \in DOMAIN s : s[k].el = "S"} |-> Attached(s, bonds, i)]

\* imported_contact_au_context: two anchors, one contact Au each, no other Au.
ContactSites(s, bonds) ==
    LET anchors == Anchors(s, bonds)
        contacts == UNION {anchors[i] : i \in DOMAIN anchors} IN
    IF /\ Cardinality(DOMAIN anchors) = 2
       /\ \A i \in DOMAIN anchors : Cardinality(anchors[i]) = 1
       /\ contacts = {i \in DOMAIN s : s[i].el = "Au"}
    THEN DOMAIN anchors ELSE {}

\* The index of an atom once another one has been removed.
Renumber(i, removed) == IF i < removed THEN i ELSE i - 1

DeleteAtom(s, bonds, k) ==
    [atoms |-> RemoveAt(s, k),
     bonds |-> {{Renumber(i, k) : i \in b} : b \in {b \in bonds : k \notin b}}]

\* MeasurementSession.remap_atom_indices: what touches the atom goes.
Remap(measured, k) ==
    {[m EXCEPT !.of = [x \in DOMAIN m.of |-> Renumber(m.of[x], k)]] :
        m \in {m \in measured : k \notin {m.of[x] : x \in DOMAIN m.of}}}

\* A record keeps the value it had when it was made.
Measured(s, of) == [of |-> of, value |-> [x \in DOMAIN of |-> Position(s, of[x])]]

----------------------------------------------------------------------------
(* Bond rotation: one session per picked edge.                             *)

Turn(s, torsion) ==
    [i \in DOMAIN s |->
        IF torsion.angle = 1 /\ i \in torsion.group \ {torsion.pivot}
        THEN [s[i] EXCEPT !.at = (@ \ {torsion.axis}) \cup ({torsion.axis} \ @)]
        ELSE s[i]]

\* BondTorsionSession: only a bridge can be turned; the larger side stays fixed.
Session(s, bonds, i, j) ==
    LET sideI == Component(s, bonds, {i, j}, i)
        sideJ == Component(s, bonds, {i, j}, j)
        fixedI == \/ Cardinality(sideI) > Cardinality(sideJ)
                  \/ Cardinality(sideI) = Cardinality(sideJ) /\ i < j IN
    IF sideI = sideJ THEN None ELSE
    [edge |-> {i, j}, axis |-> {s[i].id, s[j].id}, baseline |-> s, angle |-> 0,
     group |-> IF fixedI THEN sideJ ELSE sideI, pivot |-> IF fixedI THEN j ELSE i,
     other |-> IF fixedI THEN sideI ELSE sideJ]

\* switch_rotating_side: the current coordinates are the new baseline.
Switched(torsion, s) ==
    [torsion EXCEPT !.group = torsion.other, !.other = torsion.group, !.baseline = s,
                    !.angle = 0, !.pivot = CHOOSE i \in torsion.edge : i # torsion.pivot]

----------------------------------------------------------------------------
(* The lattice beside the electrodes.                                      *)

\* A free site per electrode; one beside an atom that was turned is blocked.
Candidates(s, electrodes) ==
    {[site |-> Extension[p], free |-> s[IndexOf(s, p)].at = {}] :
        p \in {p \in DOMAIN Extension : p \in Ids(s) /\ Extension[p] \notin Ids(s)}}

NoLattice == [valid |-> FALSE, candidates |-> {}, hover |-> None]

\* _lattice_extension_editable.
Extensible == geo.electrodes # None /\ ~source.coordOnly

----------------------------------------------------------------------------
(* The edit state and its history.                                         *)

NoTool == [mode |-> "normal", picked |-> <<>>, element |-> None, torsion |-> None, drag |-> None]
NoBuilder == [anchors |-> {}, proposals |-> None, sites |-> {}, preview |-> None]

Fresh(g) ==
    [atoms |-> g.atoms, bonds |-> IF g.inferred THEN Inferred(g.atoms, factor) ELSE g.bonds,
     measured |-> {}, contacts |-> None, electrodes |-> None, confirmed |-> FALSE]

Trim(h) == IF Len(h) > MaxDepth THEN Tail(h) ELSE h

\* Mutant: the state is captured after the edit.
Push_After(g) == history' = [undo |-> Trim(Append(history.undo, geo')), redo |-> <<>>]

Push(g) == history' = [undo |-> Trim(Append(history.undo, g)), redo |-> <<>>]

Gesture == gestures < MaxGestures /\ gestures' = gestures + 1

Idle == dialog = None /\ tool.drag = None

Init ==
    /\ source \in Loadable /\ factor \in DOMAIN Near
    /\ geo = Fresh(source)
    /\ history = [undo |-> <<>>, redo |-> <<>>]
    /\ tool = NoTool /\ builder = NoBuilder /\ lattice = NoLattice
    /\ dialog = None /\ gestures = 0

\* _load, _load_recovered_snapshot, _load_restart_draft: everything starts again.
Load(g) ==
    /\ Idle /\ Gesture
    /\ source' = g /\ geo' = Fresh(g)
    /\ history' = [undo |-> <<>>, redo |-> <<>>]
    /\ tool' = NoTool /\ builder' = NoBuilder /\ lattice' = NoLattice
    /\ UNCHANGED <<factor, dialog>>

----------------------------------------------------------------------------
(* Tools, measurements.                                                    *)

\* _set_pick_mode falls back to NORMAL when the workspace does not allow the tool.
Allowed(mode, element) ==
    /\ mode \in {"delete", "replace", "lattice"} => ~source.coordOnly
    /\ mode = "replace" => element # None
    /\ mode = "lattice" => Extensible

LeftRotation(mode) == tool.mode = "rotate" /\ mode # "rotate"

\* Candidates are computed once and kept until something invalidates them.
Shown(g, l) ==
    IF l.valid THEN l ELSE [valid |-> TRUE, hover |-> None,
                            candidates |-> Candidates(g.atoms, g.electrodes)]

PickMode(wanted, element) ==
    LET mode == IF Allowed(wanted, element) THEN wanted ELSE "normal" IN
    /\ Idle
    /\ tool' = [tool EXCEPT !.mode = mode, !.picked = <<>>, !.element = element,
                            !.torsion = IF LeftRotation(mode) THEN None ELSE @]
    /\ lattice' = IF mode = "lattice" THEN Shown(geo, lattice)
                  ELSE IF tool.mode = "lattice" THEN [lattice EXCEPT !.hover = None] ELSE lattice
    /\ UNCHANGED <<geo, source, history, builder, factor, dialog, gestures>>

\* _measurement_atom_picked: the last pick makes the record (at most one is kept here).
Measure(i) ==
    LET picked == Append(tool.picked, i) IN
    /\ Idle /\ tool.mode \in DOMAIN Measuring /\ geo.measured = {}
    /\ geo.atoms[i].id \in Pickable
    /\ (\A x \in DOMAIN tool.picked : tool.picked[x] < i) /\ Gesture
    /\ IF Len(picked) = Measuring[tool.mode]
       THEN /\ geo' = [geo EXCEPT !.measured = {Measured(geo.atoms, picked)}]
            /\ tool' = [tool EXCEPT !.picked = <<>>]
       ELSE tool' = [tool EXCEPT !.picked = picked] /\ UNCHANGED geo
    /\ UNCHANGED <<source, history, builder, lattice, factor, dialog>>

\* Escape, Clear, and "Delete measurement" in the result table.
ForgetPicks(clear) ==
    /\ Idle /\ (tool.picked # <<>> \/ geo.measured # {})
    /\ tool' = [tool EXCEPT !.picked = <<>>]
    /\ geo' = IF clear THEN [geo EXCEPT !.measured = {}] ELSE geo
    /\ UNCHANGED <<source, history, builder, lattice, factor, dialog, gestures>>

----------------------------------------------------------------------------
(* Edits of atoms.                                                         *)

\* _apply_atom_identity_edit: what was placed no longer counts.
IdentityEdit(atoms, bonds, measured) ==
    /\ geo' = [atoms |-> atoms, bonds |-> bonds, measured |-> measured, contacts |-> None,
               electrodes |-> None, confirmed |-> FALSE]
    /\ Push(geo)
    /\ tool' = [tool EXCEPT !.picked = <<>>, !.torsion = None, !.drag = None]
    /\ builder' = NoBuilder /\ lattice' = NoLattice
    /\ UNCHANGED <<source, factor, dialog>>

DeletePicked(k) ==
    /\ Idle /\ tool.mode = "delete" /\ Len(geo.atoms) > 1 /\ Gesture
    /\ LET after == DeleteAtom(geo.atoms, geo.bonds, k) IN
       IdentityEdit(after.atoms, after.bonds, Remap(geo.measured, k))

ReplacePicked(k) ==
    /\ Idle /\ tool.mode = "replace" /\ geo.atoms[k].el # tool.element /\ Gesture
    /\ IdentityEdit([geo.atoms EXCEPT ![k].el = tool.element], geo.bonds, geo.measured)

----------------------------------------------------------------------------
(* Rotation.                                                               *)

\* A new edge replaces the session, a refused one clears it.
PickEdge(i, j) ==
    /\ Idle /\ tool.mode = "rotate" /\ i < j /\ {i, j} \in geo.bonds /\ Gesture
    /\ tool' = [tool EXCEPT !.torsion = Session(geo.atoms, geo.bonds, i, j)]
    /\ UNCHANGED <<geo, source, history, builder, lattice, factor, dialog>>

\* _invalidate_coordinate_dependent_state.
Unticked == NoBuilder

\* _invalidate_coordinate_dependent_state and _commit_working_structure.
Moved(torsion) ==
    /\ geo' = [geo EXCEPT !.atoms = Turn(torsion.baseline, torsion), !.measured = {}]
    /\ builder' = Unticked /\ lattice' = NoLattice

\* _commit_torsion_numeric_edit: structure_at has set the angle before the comparison.
CommitAngle(angle) ==
    LET torsion == [tool.torsion EXCEPT !.angle = angle] IN
    /\ Idle /\ tool.torsion # None
    /\ IF Turn(torsion.baseline, torsion) = geo.atoms
       THEN UNCHANGED <<geo, history, builder, lattice, gestures>>
       ELSE Gesture /\ Moved(torsion) /\ Push([geo EXCEPT !.measured = {}])
    /\ tool' = [tool EXCEPT !.torsion = torsion, !.picked = <<>>]
    /\ UNCHANGED <<source, factor, dialog>>

StartDrag ==
    /\ Idle /\ tool.torsion # None /\ Gesture
    /\ tool' = [tool EXCEPT !.drag = geo.atoms]
    /\ UNCHANGED <<geo, source, history, builder, lattice, factor, dialog>>

Drag(angle) ==
    LET torsion == [tool.torsion EXCEPT !.angle = angle] IN
    /\ dialog = None /\ tool.drag # None /\ tool.torsion # None
    /\ Turn(torsion.baseline, torsion) # geo.atoms
    /\ Moved(torsion)
    /\ tool' = [tool EXCEPT !.torsion = torsion, !.picked = <<>>]
    /\ UNCHANGED <<source, history, factor, dialog, gestures>>

\* The whole drag is one entry of the history.
FinishDrag ==
    /\ dialog = None /\ tool.drag # None
    /\ IF tool.drag = geo.atoms THEN UNCHANGED history
       ELSE Push([geo EXCEPT !.atoms = tool.drag])
    /\ tool' = [tool EXCEPT !.drag = None]
    /\ UNCHANGED <<geo, source, builder, lattice, factor, dialog, gestures>>

SwitchSide ==
    /\ Idle /\ tool.torsion # None
    /\ tool' = [tool EXCEPT !.torsion = Switched(tool.torsion, geo.atoms)]
    /\ UNCHANGED <<geo, source, history, builder, lattice, factor, dialog, gestures>>

----------------------------------------------------------------------------
(* Contact Au and electrodes.                                              *)

FreeAnchors ==
    {i \in DOMAIN Anchors(geo.atoms, geo.bonds) :
        Attached(geo.atoms, geo.bonds, i) = {} /\ geo.atoms[i].id \in DOMAIN Gold}

\* _anchor_selection_changed, _parameter_edit_finished: the placement mode, and a new
\* preview; when it cannot be made the old proposals stay.
TickAnchors(anchors, made) ==
    /\ Idle /\ ~source.coordOnly
    /\ anchors \subseteq FreeAnchors /\ Cardinality(anchors) <= 2 /\ Gesture
    /\ builder' = [builder EXCEPT
            !.anchors = anchors,
            !.proposals = IF anchors = {} THEN None
                          ELSE IF made THEN [atoms |-> geo.atoms, anchors |-> anchors] ELSE @]
    /\ geo' = [geo EXCEPT !.confirmed = FALSE]
    /\ tool' = [tool EXCEPT !.mode = "place", !.picked = <<>>,
                            !.torsion = IF LeftRotation("place") THEN None ELSE @]
    /\ lattice' = [lattice EXCEPT !.hover = None]
    /\ UNCHANGED <<source, history, factor, dialog>>

\* _prepare_for_structure_replacement: a placement starts a new history.
Replaced(g) ==
    /\ geo' = g /\ history' = [undo |-> <<>>, redo |-> <<>>]
    /\ tool' = NoTool /\ builder' = NoBuilder /\ lattice' = NoLattice
    /\ UNCHANGED <<source, factor, dialog>>

AuAtom(id) == [id |-> id, el |-> "Au", at |-> {}]
AuAtoms(ids) == LET order == SetToSeq(ids) IN [i \in DOMAIN order |-> AuAtom(order[i])]
Joined(s, pairs) == {{IndexOf(s, p[1]), IndexOf(s, p[2])} : p \in pairs}

ConfirmContacts ==
    /\ Idle /\ builder.anchors # {} /\ builder.proposals # None
    /\ builder.proposals.anchors = builder.anchors /\ UNCHANGED gestures
    /\ LET ids == {geo.atoms[i].id : i \in builder.anchors}
           atoms == geo.atoms \o AuAtoms({Gold[a] : a \in ids}) IN
       /\ {Gold[a] : a \in ids} \cap Ids(geo.atoms) = {}
       /\ Replaced([atoms |-> atoms, measured |-> {}, confirmed |-> TRUE,
                    bonds |-> geo.bonds \cup Joined(atoms, {<<a, Gold[a]>> : a \in ids}),
                    contacts |-> Identity(atoms), electrodes |-> None])

\* The electrode boxes are offered for an imported or recovered contact structure only.
OfferedSites ==
    IF geo.electrodes = None /\ ~source.coordOnly /\ ContactSites(source.atoms, Fresh(source).bonds) # {}
    THEN ContactSites(geo.atoms, geo.bonds) ELSE {}

\* _electrode_selection_changed, _electrode_layers_changed; a failed preview is dropped.
TickSites(sites, made) ==
    /\ Idle /\ sites \subseteq OfferedSites /\ OfferedSites # {} /\ Gesture
    /\ builder' = [builder EXCEPT
            !.sites = sites,
            !.preview = IF sites # {} /\ made
                        THEN [atoms |-> geo.atoms, bonds |-> geo.bonds, sites |-> sites] ELSE None]
    /\ tool' = [tool EXCEPT !.mode = "place", !.picked = <<>>,
                            !.torsion = IF LeftRotation("place") THEN None ELSE @]
    /\ UNCHANGED <<geo, source, history, lattice, factor, dialog>>

\* apply_electrode_placement: "working structure changed after the preview".
PreviewHolds == builder.preview.atoms = geo.atoms /\ builder.preview.bonds = geo.bonds

ConfirmElectrodes ==
    /\ Idle /\ builder.preview # None /\ Cardinality(builder.sites) = 2
    /\ builder.preview.sites = builder.sites /\ PreviewHolds /\ UNCHANGED gestures
    /\ LET gold == {id \in Ids(geo.atoms) : id \in DOMAIN Pyramid}
           atoms == geo.atoms \o AuAtoms({Pyramid[g] : g \in gold}) IN
       /\ {Pyramid[g] : g \in gold} \cap Ids(geo.atoms) = {}
       /\ LET bonds == geo.bonds \cup Joined(atoms, {<<g, Pyramid[g]>> : g \in gold}) IN
          Replaced([atoms |-> atoms, bonds |-> bonds, measured |-> {}, confirmed |-> TRUE,
                    contacts |-> geo.contacts,
                    electrodes |-> [identity |-> Identity(atoms), bonds |-> bonds]])

HoverSite(c) ==
    /\ Idle /\ tool.mode = "lattice" /\ c \in lattice.candidates
    /\ lattice' = [lattice EXCEPT !.hover = c.site]
    /\ UNCHANGED <<geo, source, history, tool, builder, factor, dialog, gestures>>

\* add_lattice_extension_to_working_geometry looks the site up again; the bonds become
\* those of the electrode record, which must contain the working ones.
ClickSite(site) ==
    /\ Idle /\ tool.mode = "lattice" /\ Extensible
    /\ [site |-> site, free |-> TRUE] \in Candidates(geo.atoms, geo.electrodes)
    /\ geo.bonds \subseteq geo.electrodes.bonds /\ Gesture
    /\ LET beside == CHOOSE p \in DOMAIN Extension : Extension[p] = site
           atoms == Append(geo.atoms, AuAtom(site))
           bonds == geo.electrodes.bonds \cup Joined(atoms, {<<beside, site>>})
           after == [geo EXCEPT !.atoms = atoms, !.bonds = bonds, !.confirmed = TRUE,
                                !.electrodes = [identity |-> Identity(atoms), bonds |-> bonds]] IN
       /\ geo' = after /\ lattice' = Shown(after, NoLattice)
    /\ Push(geo)
    /\ tool' = [tool EXCEPT !.picked = <<>>]
    /\ UNCHANGED <<source, builder, factor, dialog>>

----------------------------------------------------------------------------
(* Undo and Redo.                                                          *)

\* _restore_geometry_edit_state, _clear_torsion_selection.
Torsion_None == None

Restore(from, to) ==
    /\ dialog = None /\ history[from] # <<>>
    /\ geo' = Last(history[from])
    /\ history' = [history EXCEPT ![from] = Front(@), ![to] = Trim(Append(@, geo))]
    /\ builder' = NoBuilder
    /\ LET stays == tool.mode = "lattice" /\ Last(history[from]).electrodes # None IN
       /\ tool' = [tool EXCEPT !.torsion = Torsion_None, !.drag = None, !.picked = <<>>,
                               !.mode = IF tool.mode = "lattice" /\ ~stays THEN "normal" ELSE @]
       /\ lattice' = IF stays THEN Shown(Last(history[from]), NoLattice) ELSE NoLattice
    /\ UNCHANGED <<source, factor, dialog, gestures>>

Undo == Restore("undo", "redo")
Redo == Restore("redo", "undo")

----------------------------------------------------------------------------
(* Bond Detection: a modal dialog that previews each factor.               *)

OpenBondDetection ==
    /\ Idle /\ Gesture
    /\ dialog' = [factor |-> factor, bonds |-> geo.bonds]
    /\ UNCHANGED <<geo, source, history, tool, builder, lattice, factor>>

\* Only an inferred geometry is affected; the factor in use is not inferred again.
PreviewFactor(f) ==
    /\ dialog # None /\ f # factor
    /\ factor' = f
    /\ geo' = IF source.inferred THEN [geo EXCEPT !.bonds = Inferred(geo.atoms, f)] ELSE geo
    /\ UNCHANGED <<source, history, tool, builder, lattice, dialog, gestures>>

\* Cancel, and OK when the preference cannot be saved.
CancelBondDetection ==
    /\ dialog # None
    /\ factor' = dialog.factor /\ geo' = [geo EXCEPT !.bonds = dialog.bonds]
    /\ dialog' = None
    /\ UNCHANGED <<source, history, tool, builder, lattice, gestures>>

EdgeGone(bonds) == tool.torsion # None /\ tool.torsion.edge \notin bonds

\* _finalize_inferred_connectivity_preview.
AcceptBondDetection ==
    /\ dialog # None
    /\ tool' = IF EdgeGone(geo.bonds) THEN [tool EXCEPT !.torsion = None] ELSE tool
    /\ builder' = IF Anchors(geo.atoms, geo.bonds) # Anchors(geo.atoms, dialog.bonds)
                  THEN NoBuilder ELSE builder
    /\ dialog' = None
    /\ UNCHANGED <<geo, source, history, lattice, factor, gestures>>

----------------------------------------------------------------------------
Next ==
    \/ \E g \in Loadable : Load(g)
    \/ \E mode \in Modes \ {"place"}, element \in Elements \cup {None} :
            element \in {tool.element} \cup (IF mode = "replace" THEN Elements ELSE {})
            /\ PickMode(mode, element)
    \/ \E k \in DOMAIN geo.atoms : Measure(k) \/ DeletePicked(k) \/ ReplacePicked(k)
    \/ \E clear \in BOOLEAN : ForgetPicks(clear)
    \/ \E i, j \in DOMAIN geo.atoms : PickEdge(i, j)
    \/ \E angle \in 0..1 : CommitAngle(angle) \/ Drag(angle)
    \/ StartDrag \/ FinishDrag \/ SwitchSide
    \/ \E anchors \in SUBSET FreeAnchors, made \in BOOLEAN : TickAnchors(anchors, made)
    \/ \E sites \in SUBSET OfferedSites, made \in BOOLEAN : TickSites(sites, made)
    \/ ConfirmContacts \/ ConfirmElectrodes
    \/ \E c \in lattice.candidates : HoverSite(c) \/ ClickSite(c.site)
    \/ Undo \/ Redo
    \/ OpenBondDetection \/ CancelBondDetection \/ AcceptBondDetection
    \/ \E f \in DOMAIN Near : PreviewFactor(f)

Spec == Init /\ [][Next]_vars

----------------------------------------------------------------------------
\* What a structure held is still there, atom by atom.
Kept(part, whole) == \A i \in DOMAIN part : i \in DOMAIN whole /\ whole[i] = part[i]

\* What was derived from the working geometry belongs to the geometry that is shown:
\* a measured value is the value between the atoms the record names now, a torsion
\* session starts from these coordinates and an existing bond, previews and lattice
\* candidates are of these atoms, and (docs/ARCHITECTURE.md:212) "Atom index/element
\* identity and immutable electrode mapping" of what was placed still hold.  The
\* proposals of contact Au are of these atoms too, but a lattice click keeps them: the
\* atom it adds is one they do not know.
NothingStale ==
    dialog = None =>
        /\ \A m \in geo.measured :
              (\A x \in DOMAIN m.of : m.of[x] \in DOMAIN geo.atoms) /\ m = Measured(geo.atoms, m.of)
        /\ tool.torsion # None =>
              tool.torsion.edge \in geo.bonds /\ Turn(tool.torsion.baseline, tool.torsion) = geo.atoms
        /\ builder.proposals # None => Kept(builder.proposals.atoms, geo.atoms)
        /\ builder.preview # None => builder.preview.atoms = geo.atoms
        /\ lattice.valid => lattice.candidates = Candidates(geo.atoms, geo.electrodes)
        /\ geo.electrodes # None => geo.electrodes.identity = Identity(geo.atoms)
        /\ geo.contacts # None => Kept(geo.contacts, Identity(geo.atoms))

\* The geometry before the current gesture.
Committed == IF tool.drag # None THEN tool.drag ELSE geo.atoms

\* g is the state the gesture started from: a rotation drops the measurements first.
Before(g) ==
    /\ g.atoms \in {Committed, geo.atoms}
    /\ [g EXCEPT !.measured = {}] = [geo EXCEPT !.atoms = g.atoms, !.measured = {}]
    /\ tool.torsion = None /\ tool.drag = None => g = geo

\* docs/user_manual/01_getting_started.md:286 "the same five-level Geometry Undo/Redo
\* history": whatever changes the geometry can be undone or redone to exactly what
\* was there, a whole drag at once; only a new structure or a placement starts anew.
UndoableStep ==
    Committed' # Committed =>
        \/ history' = [undo |-> <<>>, redo |-> <<>>]
        \/ history'.undo # <<>> /\ Before(Last(history'.undo))
        \/ history'.redo # <<>> /\ Before(Last(history'.redo))

EditIsUndoable == [][UndoableStep]_vars
=============================================================================

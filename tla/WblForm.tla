-------------------------------- MODULE WblForm --------------------------------
(***************************************************************************)
(* The settings of a wide-band-limit analysis: the form they are entered in   *)
(* (OrcaWblSettingsDialog), the contact orbital each side resolves to         *)
(* (resolve_contact_projection_geometry) and the calculation that uses them.  *)
(*                                                                           *)
(* A side of the form holds a contact atom, its linker, its coupling and the   *)
(* advanced choices.  Changing one field rewrites others: the atom brings its  *)
(* detected linker, the left coupling is mirrored on the right, a projection   *)
(* other than by orbital numbers clears the numbers.  Picking an atom in the   *)
(* viewer ends the dialog and opens it again.                                  *)
(*                                                                           *)
(* A direction is kept as what it was built from: [kind, of, to, away], the    *)
(* direction from atom "of" towards, or away from, the atoms "to".             *)
(***************************************************************************)
EXTENDS Anchors, TLC

CONSTANTS
    Worlds,     \* [el, bonds, balanced, basis, shells]: the optimized molecule and its orbitals
    Windows,    \* [min, max, step]: what may be entered as energy window
    Defaults,   \* the window a new form starts with
    Zeta,       \* valence functions per shell of the reviewed bases
    MaxPoints,  \* the energies a window may have
    MaxEdits,   \* bound on the gestures of the user
    None

VARIABLES
    world,     \* the molecule: its bonds for each bond threshold factor
    factor,    \* the factor in use
    form,      \* the open form, or None
    phase,     \* "closed", "open", or the side being picked in the viewer
    previous,  \* the settings of the result that is stored, or None
    accepted,  \* the settings confirmed last, and not calculated yet, or None
    outcome,   \* what became of the latest calculation, or None
    edits      \* gestures since the start, and since the form was opened

vars == <<world, factor, form, phase, previous, accepted, outcome, edits>>

Sides == {"left", "right"}
Factors == {"usual", "short"}

----------------------------------------------------------------------------
(* Contacts: what the molecule says of an atom. *)

SulfurLinkers == {"SH", "SMe", "NCS"}
Linkers == SulfurLinkers \cup {"NH2", "Pyridine"}
Modes == {"auto", "s_all_p", "s_3p", "n_2s_2p", "n_2p_normal", "manual_ao"}
ContactElement(linker) == IF linker \in SulfurLinkers THEN "S" ELSE "N"

Graph(w, f) == [el |-> w.el, bonds |-> w.bonds[f]]
Selectable(w) == {i \in DOMAIN w.el : w.el[i] \in {"S", "N"}}

\* detect_wbl_contacts: the anchor groups that are linkers of the model.
LinkerOfAnchor == [SH |-> "SH", SMe |-> "SMe", NCS |-> "NCS", NH2 |-> "NH2"] @@ ("Pyridine-N" :> "Pyridine")
DetectedLinkers(g) ==
    LET contacts == {a \in Anchors(g) : a.kind \in DOMAIN LinkerOfAnchor} IN
    [i \in {a.binding : a \in contacts} |-> {LinkerOfAnchor[a.kind] : a \in {b \in contacts : b.binding = i}}]

NoDirection == [kind |-> "none", of |-> 0, to |-> {}, away |-> FALSE]
Direction(kind, of, to, away) == [kind |-> kind, of |-> of, to |-> to, away |-> away]

----------------------------------------------------------------------------
(* The contact orbital. *)

PlaneNormal(g, i) ==
    IF Cardinality(Structural(g, i)) < 3 THEN None
    ELSE [mode |-> "n_2p_normal", direction |-> Direction("normal", i, Structural(g, i), FALSE)]

\* _resolved_mode_and_direction; None when the geometry does not tell the direction.
FromGeometry(w, g, i, linker) ==
    LET gold == AttachedAu(g, i)
        others == Structural(g, i)
        carbons == {k \in others : g.el[k] = "C"}
        valence == IF linker \in SulfurLinkers THEN "s_3p" ELSE "n_2s_2p"
        is(to, away) == [mode |-> valence, direction |-> Direction("unit", i, to, away)] IN
    IF Cardinality(gold) > 1 THEN None
    ELSE IF gold # {} THEN is(gold, FALSE)
    ELSE IF linker = "SH" THEN
        IF Cardinality(Hydrogens(g, i)) = 1 THEN is(Hydrogens(g, i), FALSE) ELSE None
    ELSE IF linker \in {"SMe", "Pyridine"} THEN
        IF Cardinality(carbons) = 2 /\ i \notin w.balanced THEN is(carbons, TRUE) ELSE None
    ELSE IF linker = "NCS" THEN
        IF others = carbons /\ Cardinality(carbons) = 1 THEN is(carbons, TRUE) ELSE None
    ELSE IF Cardinality(others) # 3 THEN None
    ELSE IF i \in w.balanced THEN PlaneNormal(g, i) ELSE is(others, TRUE)

\* resolve_contact_projection_geometry.
Resolution(w, g, contact) ==
    LET given == contact.direction # NoDirection
        derived == FromGeometry(w, g, contact.atom, contact.linker)
        with(mode, direction) == [mode |-> mode, direction |-> direction] IN
    IF contact.subspace = "manual_ao" THEN with("manual_ao", contact.direction)
    ELSE IF contact.subspace = "s_all_p" \/ (contact.linker = "NCS" /\ contact.subspace = "auto") THEN
        IF given THEN None ELSE with("s_all_p", NoDirection)
    ELSE IF contact.subspace # "auto" /\ given THEN with(contact.subspace, contact.direction)
    ELSE IF contact.subspace = "n_2p_normal" THEN PlaneNormal(g, contact.atom)
    ELSE IF derived = None THEN None
    ELSE with(IF contact.subspace = "auto" THEN derived.mode ELSE contact.subspace,
              IF given THEN contact.direction ELSE derived.direction)

\* OrcaWblContactSettings.__post_init__.
ContactIsValid(contact) ==
    /\ contact.direction.kind \in {"none", "unit"}
    /\ contact.aos.kind = IF contact.subspace = "manual_ao" THEN "numbers" ELSE "none"
    /\ contact.subspace = "s_all_p" => contact.linker = "NCS"

\* OrcaWblSettings.__post_init__: an ascending window of a whole number of steps.
WindowIsValid(window) ==
    /\ window.min < window.max /\ window.step > 0
    /\ (window.max - window.min) % window.step = 0
    /\ (window.max - window.min) \div window.step <= MaxPoints
SettingsAreValid(s) ==
    /\ \A d \in Sides : ContactIsValid(s[d]) /\ s[d].gamma > 0
    /\ s["left"].atom # s["right"].atom /\ WindowIsValid(s.window)

\* resolve_contact_projector: the orbitals the wavefunction has for a contact, or None.
Projector(w, g, contact) ==
    LET shells == w.shells[contact.atom]
        resolved == Resolution(w, g, contact) IN
    IF w.el[contact.atom] # ContactElement(contact.linker) THEN None
    ELSE IF contact.subspace = "manual_ao" THEN
        IF contact.aos.of = contact.atom THEN resolved ELSE None
    ELSE IF resolved = None THEN None
    ELSE IF resolved.mode = "s_all_p" THEN IF shells.p > 0 THEN resolved ELSE None
    ELSE IF \/ w.basis # "def2" \/ shells.p < Zeta
            \/ (resolved.mode = "n_2s_2p" /\ shells.s < Zeta) THEN None
    ELSE resolved

----------------------------------------------------------------------------
(* The form. *)

\* What the automatic projection is said to be (_refresh_auto_subspace).
AutoLabel(w, g, atom, linker) ==
    LET resolved == Resolution(w, g, [atom |-> atom, linker |-> linker, subspace |-> "auto",
                                      direction |-> NoDirection]) IN
    IF atom = None \/ linker = None THEN "choose"
    ELSE IF resolved = None THEN "unresolved" ELSE resolved.mode

NoNumbers == [kind |-> "none", of |-> 0]
EmptySide ==
    [atom |-> None, linker |-> None, gamma |-> 0, status |-> "hypothesis", subspace |-> "auto",
     direction |-> NoDirection, aos |-> NoNumbers, label |-> "choose"]

\* _linker_changed.
WithLinker(w, f, side, linker) ==
    [side EXCEPT !.linker = linker, !.label = AutoLabel(w, Graph(w, f.factor), side.atom, linker)]

\* _contact_atom_changed: the atom brings the linker that was detected, or none.
WithAtom(w, f, side, atom) ==
    LET detected == IF atom \in DOMAIN f.detected THEN f.detected[atom] ELSE {} IN
    WithLinker(w, f, [side EXCEPT !.atom = atom],
               IF Cardinality(detected) = 1 THEN CHOOSE l \in detected : TRUE ELSE None)

\* _subspace_changed.
WithSubspace(side, mode) ==
    [side EXCEPT !.subspace = mode, !.aos = IF mode = "manual_ao" THEN @ ELSE NoNumbers]

\* _mirror_right_gamma, _right_gamma_link_changed.
WithGamma(f, d, gamma) ==
    IF d = "left" /\ f.same THEN [f EXCEPT !["left"].gamma = gamma, !["right"].gamma = gamma]
    ELSE [f EXCEPT ![d].gamma = gamma]
WithSame(f, same) ==
    [f EXCEPT !.same = same, !["right"].gamma = IF same THEN f["left"].gamma ELSE @]

\* _contact_projection_problem.
Problem(w, f, side) ==
    IF side.atom = None THEN "unselected"
    ELSE IF side.linker = None THEN "linker"
    ELSE IF w.el[side.atom] # ContactElement(side.linker) THEN "element"
    ELSE IF ~ContactIsValid(side) \/ Resolution(w, Graph(w, f.factor), side) = None THEN "unresolved"
    ELSE "none"

\* _reveal_manual_contact_controls: once for each form.
Revealed(f) ==
    IF f.revealed \/ f.advanced THEN f ELSE [f EXCEPT !.revealed = TRUE, !.advanced = TRUE]

MissingGamma(f) == f["left"].gamma = 0 \/ (~f.same /\ f["right"].gamma = 0)

\* _update_required_input_message, after each change of a field it watches.
Reviewed(w, f) ==
    IF \E d \in Sides : Problem(w, f, f[d]) \notin {"none", "unselected"}
    THEN [Revealed(f) EXCEPT !.message = "contact"]
    ELSE [f EXCEPT !.message = IF MissingGamma(f) THEN "gamma" ELSE "complete"]

----------------------------------------------------------------------------
(* A new form: what is detected, then the settings of the previous run. *)

Blank(w, f) ==
    [left |-> EmptySide, right |-> EmptySide, same |-> TRUE, window |-> Defaults, factor |-> f,
     detected |-> DetectedLinkers(Graph(w, f)), advanced |-> FALSE, revealed |-> FALSE,
     message |-> "none", initial |-> None]

\* _prefill_detected_contacts: exactly two contacts, each of one linker.
Prefilled(w, f) ==
    LET atoms == DOMAIN f.detected IN
    IF Cardinality(atoms) = 2 /\ \A i \in atoms : Cardinality(f.detected[i]) = 1
    THEN [f EXCEPT !["left"] = WithAtom(w, f, @, Min(atoms)), !["right"] = WithAtom(w, f, @, Max(atoms))]
    ELSE f

\* _apply_initial_settings.
Applied(w, f, s) ==
    LET entered(d) ==
            [WithSubspace(WithLinker(w, f, WithAtom(w, f, f[d], s[d].atom), s[d].linker), s[d].subspace)
                EXCEPT !.status = s[d].status, !.direction = s[d].direction, !.aos = s[d].aos]
        chosen(d) == \/ s[d].atom \notin DOMAIN f.detected
                     \/ f.detected[s[d].atom] # {s[d].linker} \/ s[d].status = "calibrated"
                     \/ s[d].subspace # "auto" \/ s[d].direction # NoDirection
        same == s["left"].gamma = s["right"].gamma
        filled == [f EXCEPT !["left"] = entered("left"), !["right"] = entered("right"),
                            !.window = s.window, !.initial = s]
        coupled == WithGamma(WithSame(WithGamma(filled, "left", s["left"].gamma), same),
                             "right", s["right"].gamma) IN
    IF chosen("left") \/ chosen("right") THEN Revealed(coupled) ELSE coupled

Opened(w, f, s) ==
    LET prefilled == Prefilled(w, Blank(w, f)) IN
    Reviewed(w, IF s = None THEN prefilled ELSE Applied(w, prefilled, s))

----------------------------------------------------------------------------
(* Gestures. *)

Init ==
    /\ world \in Worlds /\ factor \in Factors
    /\ form = None /\ phase = "closed" /\ previous = None /\ accepted = None /\ outcome = None
    /\ edits = [all |-> 0, here |-> 0]

\* Requires two atoms that can be contacts.
Open ==
    /\ phase = "closed" /\ accepted = None /\ Cardinality(Selectable(world)) >= 2
    /\ form' = Opened(world, factor, previous) /\ phase' = "open"
    /\ edits' = [edits EXCEPT !.here = 0] /\ outcome' = None
    /\ UNCHANGED <<world, factor, previous, accepted>>

\* The bond threshold factor of the workspace, while no form is open.
ChangeFactor ==
    /\ phase = "closed" /\ accepted = None /\ edits.all < MaxEdits
    /\ \E f \in Factors \ {factor} : factor' = f
    /\ edits' = [edits EXCEPT !.all = @ + 1]
    /\ UNCHANGED <<world, form, phase, previous, accepted, outcome>>

Gesture ==
    /\ phase = "open" /\ edits.all < MaxEdits
    /\ edits' = [all |-> edits.all + 1, here |-> edits.here + 1]
    /\ UNCHANGED <<world, factor, phase, previous, accepted, outcome>>

ChooseAtom(d) ==
    /\ Gesture
    /\ \E atom \in (Selectable(world) \cup {None}) \ {form[d].atom} :
          form' = Reviewed(world, [form EXCEPT ![d] = WithAtom(world, form, @, atom)])

ChooseLinker(d) ==
    /\ Gesture
    /\ \E linker \in (Linkers \cup {None}) \ {form[d].linker} :
          form' = Reviewed(world, [form EXCEPT ![d] = WithLinker(world, form, @, linker)])

ChooseSubspace(d) ==
    /\ Gesture
    /\ \E mode \in Modes \ {form[d].subspace} :
          form' = Reviewed(world, [form EXCEPT ![d] = WithSubspace(@, mode)])

\* The orbital numbers can be edited only with the projection that uses them.
EnterNumbers(d) ==
    /\ Gesture /\ form[d].subspace = "manual_ao"
    /\ \E aos \in {[kind |-> "unreadable", of |-> 0]} \cup {[kind |-> "numbers", of |-> i] : i \in Selectable(world)} :
          form' = Reviewed(world, [form EXCEPT ![d].aos = aos])

TypeDirection(d) ==
    /\ Gesture
    /\ \E kind \in {"unreadable", "zero"} :
          form' = Reviewed(world, [form EXCEPT ![d].direction = Direction(kind, 0, {}, FALSE)])
ClearDirection(d) ==
    /\ Gesture /\ form[d].direction # NoDirection
    /\ form' = Reviewed(world, [form EXCEPT ![d].direction = NoDirection])

\* _choose_direction_atom: needs a contact atom, and another one.
DirectionFromAtom(d) ==
    /\ Gesture /\ form[d].atom # None
    /\ \E to \in DOMAIN world.el \ {form[d].atom}, away \in BOOLEAN :
          form' = Reviewed(world, [form EXCEPT ![d].direction = Direction("unit", form[d].atom, {to}, away)])

\* The right coupling cannot be edited while it mirrors the left one.
EnterGamma(d) ==
    /\ Gesture /\ (d = "right" => ~form.same)
    /\ \E gamma \in 0..2 : gamma # form[d].gamma /\ form' = Reviewed(world, WithGamma(form, d, gamma))
ToggleSame == Gesture /\ form' = Reviewed(world, WithSame(form, ~form.same))

\* Neither is watched: the message stays.
ChooseStatus(d) ==
    /\ Gesture
    /\ \E status \in {"hypothesis", "calibrated"} \ {form[d].status} : form' = [form EXCEPT ![d].status = status]
EnterWindow ==
    /\ Gesture
    /\ \E window \in Windows \ {form.window} : form' = [form EXCEPT !.window = window]
ToggleAdvanced == Gesture /\ form' = [form EXCEPT !.advanced = ~@]

\* "Manual select in viewer": the dialog ends, and is opened again after the pick.
StartPick(d) ==
    /\ phase = "open" /\ edits.all < MaxEdits
    /\ phase' = d /\ edits' = [all |-> edits.all + 1, here |-> edits.here + 1]
    /\ UNCHANGED <<world, factor, form, previous, accepted, outcome>>

\* A pick that was cancelled, or that is no contact, chooses the earlier atom anew.
EndPick(d) ==
    /\ phase = d /\ phase' = "open"
    /\ \E picked \in DOMAIN world.el \cup {None} :
          LET atom == IF picked \in Selectable(world) THEN picked ELSE form[d].atom IN
          form' = Reviewed(world, [form EXCEPT ![d] = WithAtom(world, form, @, atom)])
    /\ UNCHANGED <<world, factor, previous, accepted, outcome, edits>>

\* _validate_and_accept.
Entered(f) ==
    LET contact(d) == [atom |-> f[d].atom, linker |-> f[d].linker, gamma |-> f[d].gamma, status |-> f[d].status,
                       subspace |-> f[d].subspace, direction |-> f[d].direction, aos |-> f[d].aos] IN
    [left |-> contact("left"), right |-> contact("right"), window |-> f.window, factor |-> f.factor]
Accept ==
    /\ phase = "open"
    /\ IF MissingGamma(form) THEN form' = [form EXCEPT !.message = "refused"] /\ UNCHANGED <<phase, accepted>>
       ELSE IF \E d \in Sides : Problem(world, form, form[d]) # "none"
       THEN form' = [Revealed(form) EXCEPT !.message = "refused"] /\ UNCHANGED <<phase, accepted>>
       ELSE IF ~SettingsAreValid(Entered(form))
       THEN form' = [form EXCEPT !.message = "refused"] /\ UNCHANGED <<phase, accepted>>
       ELSE accepted' = Entered(form) /\ phase' = "closed" /\ UNCHANGED form
    /\ UNCHANGED <<world, factor, previous, outcome, edits>>

Cancel ==
    /\ phase = "open" /\ phase' = "closed" /\ form' = None
    /\ UNCHANGED <<world, factor, previous, accepted, outcome, edits>>

\* calculate_orca_wbl, with the bonds of the factor in the settings: the result and its
\* settings replace the previous ones, or those are kept.
Calculate ==
    /\ accepted # None /\ accepted' = None
    /\ LET projector(d) == Projector(world, Graph(world, accepted.factor), accepted[d])
           done == \A d \in Sides : projector(d) # None IN
       /\ outcome' = [settings |-> accepted, form |-> form, unedited |-> edits.here = 0,
                      done |-> done, projectors |-> [d \in Sides |-> projector(d)]]
       /\ previous' = IF done THEN accepted ELSE previous
    /\ form' = None
    /\ UNCHANGED <<world, factor, phase, edits>>

FieldEdit(d) ==
    \/ ChooseAtom(d) \/ ChooseLinker(d) \/ ChooseSubspace(d) \/ EnterNumbers(d) \/ TypeDirection(d)
    \/ ClearDirection(d) \/ DirectionFromAtom(d) \/ EnterGamma(d) \/ ChooseStatus(d)

Next ==
    \/ Open \/ ChangeFactor \/ Accept \/ Cancel \/ Calculate
    \/ ToggleSame \/ EnterWindow \/ ToggleAdvanced
    \/ \E d \in Sides : FieldEdit(d) \/ StartPick(d) \/ EndPick(d)

Spec == Init /\ [][Next]_vars

----------------------------------------------------------------------------
(* Properties. *)

\* What is accepted can be resolved: with the bonds the form used, only the orbitals of the
\* wavefunction can still refuse it, and the calculation projects as the form has said.
AcceptedIsResolved ==
    outcome # None =>
        \A d \in Sides :
            LET contact == outcome.settings[d] IN
            /\ Resolution(world, Graph(world, outcome.settings.factor), contact) # None
            /\ outcome.done /\ contact.subspace = "auto" => outcome.projectors[d].mode = outcome.form[d].label

\* The couplings are equal whenever the form says they are, whatever was ticked and typed
\* in which order, and what is accepted is what is shown.
SameMeansEqual ==
    /\ form # None /\ form.same => form["left"].gamma = form["right"].gamma
    /\ accepted # None => accepted["left"].gamma > 0 /\ accepted["right"].gamma > 0

\* A form that is opened on a stored result and confirmed as it is repeats that result's
\* settings, but for the factor, which is the one in use.
ResubmissionRepeats ==
    outcome # None /\ outcome.unedited /\ outcome.form.initial # None =>
        [outcome.settings EXCEPT !.factor = outcome.form.initial.factor] = outcome.form.initial
=============================================================================

------------------------------- MODULE JobForms --------------------------------
(***************************************************************************)
(* The settings of an FHI-aims job from the form they are entered in to the   *)
(* restart: AimsOptimizationSettingsDialog for Steps 1 and 2,                  *)
(* TransportConvergenceSettingsDialog for Step 3, the input files that are     *)
(* submitted, and the draft that is made of these files when the job is        *)
(* restarted, whose form opens on the settings read back.                      *)
(*                                                                           *)
(* The form keeps what has been entered below a box that is not ticked: 0      *)
(* stands for zero in a number field and for an unreadable text elsewhere.     *)
(***************************************************************************)
EXTENDS JobInputs

CONSTANTS
    Structures,  \* molecules: sequences of elements
    Libraries,   \* species definitions a server may have
    Starts,      \* settings a form may start with
    MaxEdits     \* bound on the gestures of the user

VARIABLES
    molecule,   \* the structure of the workspace
    library,    \* the definitions of the server
    historical, \* whether jobs are submitted by a release that did not write the accuracy
    form,       \* the open form, or None
    accepted,   \* the settings that were confirmed, or None
    submitted,  \* the job: its structure, its settings and its files, or None
    draft,      \* what the restart has read back, or None
    edits       \* gestures since the start, and since the form was opened

vars == <<molecule, library, historical, form, accepted, submitted, draft, edits>>

----------------------------------------------------------------------------
(* The form. *)

Shown(number) == IF number = None THEN 0 ELSE number

\* __init__, _build_spin_group, _build_charge_group of both dialogs.
Opened(s) ==
    [kind |-> s.kind,
     plain |-> [xc |-> s.xc, accuracy |-> s.accuracy, numbers |-> s.numbers, relativity |-> s.relativity,
                vdw |-> s.vdw, dipole |-> s.dipole],
     spin |-> [on |-> s.spin.enabled, uniform |-> s.spin.mode = "uniform", moment |-> Shown(s.spin.uniform),
               fixing |-> s.spin.fixed # None, fixed |-> Shown(s.spin.fixed)],
     charge |-> [on |-> s.charge # 0, total |-> s.charge],
     cubes |-> [frontier |-> s.cubes.frontier, listed |-> s.cubes.states # {}, states |-> s.cubes.states,
                spacing |-> s.cubes.spacing],
     atoms |-> s.atoms, selected |-> None]

\* _collect_settings; Step 3 has no boxes for the charge and the orbitals, and only one
\* initial spin density.
Collected(f) ==
    LET optimization == f.kind = "optimization"
        uniform == f.spin.on /\ (f.spin.uniform \/ ~optimization) IN
    [kind |-> f.kind, xc |-> f.plain.xc, accuracy |-> f.plain.accuracy, numbers |-> f.plain.numbers,
     relativity |-> f.plain.relativity, vdw |-> f.plain.vdw, dipole |-> f.plain.dipole,
     spin |-> [enabled |-> f.spin.on,
               mode |-> IF ~f.spin.on THEN None ELSE IF uniform THEN "uniform" ELSE "per_atom",
               uniform |-> IF uniform THEN f.spin.moment ELSE None,
               fixed |-> IF optimization /\ f.spin.on /\ f.spin.fixing THEN f.spin.fixed ELSE None],
     charge |-> IF optimization /\ ~f.charge.on THEN 0 ELSE f.charge.total,
     cubes |-> [frontier |-> f.cubes.frontier, spacing |-> f.cubes.spacing,
                states |-> IF optimization /\ ~f.cubes.listed THEN {} ELSE f.cubes.states],
     atoms |-> f.atoms]

----------------------------------------------------------------------------
(* Gestures. *)

Init ==
    /\ molecule \in Structures /\ library \in Libraries /\ historical \in BOOLEAN
    /\ \E s \in Starts : form = Opened(s)
    /\ accepted = None /\ submitted = None /\ draft = None
    /\ edits = [all |-> 0, here |-> 0]

Editing ==
    /\ form # None /\ edits.all < MaxEdits
    /\ edits' = [all |-> edits.all + 1, here |-> edits.here + 1]
    /\ UNCHANGED <<molecule, library, historical, accepted, submitted, draft>>

Optimizing == form # None /\ form.kind = "optimization"

ToggleSpin == Editing /\ form' = [form EXCEPT !.spin.on = ~@]
\* _update_spin_controls: what the box enables.
ChooseSpinMode == Optimizing /\ form.spin.on /\ Editing /\ form' = [form EXCEPT !.spin.uniform = ~@]
EnterMoment ==
    /\ Editing /\ form.spin.on /\ (Optimizing => form.spin.uniform)
    /\ \E moment \in {0, 1} \ {form.spin.moment} : form' = [form EXCEPT !.spin.moment = moment]
ToggleFixed == Optimizing /\ form.spin.on /\ Editing /\ form' = [form EXCEPT !.spin.fixing = ~@]
EnterFixed ==
    /\ Optimizing /\ form.spin.on /\ form.spin.fixing /\ Editing
    /\ form' = [form EXCEPT !.spin.fixed = 1 - @]

ToggleCharge == Optimizing /\ Editing /\ form' = [form EXCEPT !.charge.on = ~@]
EnterCharge ==
    /\ Editing /\ (Optimizing => form.charge.on)
    /\ form' = [form EXCEPT !.charge.total = 1 - @]

ToggleFrontier == Optimizing /\ Editing /\ form' = [form EXCEPT !.cubes.frontier = {"homo"} \ @]
ToggleStates == Optimizing /\ Editing /\ form' = [form EXCEPT !.cubes.listed = ~@]
EnterStates ==
    /\ Editing /\ (Optimizing => form.cubes.listed)
    /\ \E states \in {{}, {0}, {7}} \ {form.cubes.states} : form' = [form EXCEPT !.cubes.states = states]
EnterSpacing ==
    /\ Editing
    /\ \E spacing \in {None, 0, 1} \ {form.cubes.spacing} : form' = [form EXCEPT !.cubes.spacing = spacing]

ChooseAccuracy ==
    /\ Editing
    /\ \E accuracy \in Accuracies \ {form.plain.accuracy} : form' = [form EXCEPT !.plain.accuracy = accuracy]
ChooseFunctional == Editing /\ form' = [form EXCEPT !.plain.xc = IF @ = "pbe" THEN "pbe0" ELSE "pbe"]
ChooseVdw ==
    /\ Optimizing /\ Editing
    /\ form' = [form EXCEPT !.plain.vdw = IF @ = "none" THEN "vdw_ts" ELSE "none"]

\* AtomOverrideDialog: without spin the moment can neither be set nor removed.
Overrides(existing) ==
    LET moments == IF form.spin.on THEN {None, 0, 1} ELSE {existing.moment} IN
    {atom \in [accuracy : {None, "light", "tight"}, moment : moments, charge : {None, 0}] : OverrideIsValid(atom)}
NoOverride == [accuracy |-> None, moment |-> None, charge |-> None]

\* _add_override: an atom that has one is refused; the list selects the new one.
AddOverride ==
    /\ Optimizing /\ Editing
    /\ \E i \in DOMAIN molecule \ DOMAIN form.atoms, atom \in Overrides(NoOverride) :
          form' = [form EXCEPT !.atoms = (i :> atom) @@ @, !.selected = i]

\* _edit_override: may move to an atom that has none.
EditOverride ==
    /\ Optimizing /\ form.selected # None /\ Editing
    /\ \E i \in (DOMAIN molecule \ DOMAIN form.atoms) \cup {form.selected},
          atom \in Overrides(form.atoms[form.selected]) :
          LET others == [k \in DOMAIN form.atoms \ {form.selected} |-> form.atoms[k]] IN
          form' = [form EXCEPT !.atoms = (i :> atom) @@ others, !.selected = i]

RemoveOverride ==
    /\ Optimizing /\ form.selected # None /\ Editing
    /\ form' = [form EXCEPT !.atoms = [k \in DOMAIN @ \ {form.selected} |-> @[k]], !.selected = None]

SelectOverride ==
    /\ Optimizing /\ Editing
    /\ \E i \in DOMAIN form.atoms \ {form.selected} : form' = [form EXCEPT !.selected = i]

\* _validate_and_accept; what is not valid is refused and the form stays.
Accept ==
    /\ form # None /\ SettingsAreValid(Collected(form))
    /\ accepted' = Collected(form) /\ form' = None
    /\ UNCHANGED <<molecule, library, historical, submitted, draft, edits>>

Cancel ==
    /\ form # None /\ form' = None
    /\ UNCHANGED <<molecule, library, historical, accepted, submitted, draft, edits>>

----------------------------------------------------------------------------
(* Submission and restart. *)

\* acquire_species_library, then materialize: nothing is submitted when a definition is
\* missing or malformed.
Submit ==
    /\ accepted # None /\ accepted' = None
    /\ LET files == Inputs(molecule, accepted, library)
           written == IF historical THEN [files EXCEPT !.accuracy = None] ELSE files IN
       submitted' = IF files = None THEN submitted
                    ELSE [structure |-> molecule, settings |-> accepted, files |-> written]
    /\ draft' = None
    /\ UNCHANGED <<molecule, library, historical, form, edits>>

\* _prepare_draft of the restart service; the workspace takes the structure of the job.
Restart ==
    /\ submitted # None /\ draft = None /\ form = None /\ accepted = None
    /\ Recovered(submitted.files) # None
    /\ draft' = Recovered(submitted.files) /\ molecule' = draft'.structure
    /\ UNCHANGED <<library, historical, form, accepted, submitted, edits>>

\* The user takes an atom away; a draft of Step 3 allows coordinates only to change.
RemoveAtom ==
    /\ draft # None /\ draft.settings.kind = "optimization" /\ form = None /\ accepted = None
    /\ Len(molecule) > 1 /\ edits.all < MaxEdits
    /\ \E i \in DOMAIN molecule : molecule' = RemoveAt(molecule, i)
    /\ edits' = [edits EXCEPT !.all = @ + 1]
    /\ UNCHANGED <<library, historical, form, accepted, submitted, draft>>

\* _submit_restart_as_new_project: the list of overrides names the atom of each, so the form
\* does not open when one of them is not in the molecule any more.
OpenDraft ==
    /\ draft # None /\ form = None /\ accepted = None /\ edits.all < MaxEdits
    /\ DOMAIN draft.settings.atoms \subseteq DOMAIN molecule
    /\ form' = Opened(draft.settings)
    /\ edits' = [edits EXCEPT !.here = 0]
    /\ UNCHANGED <<molecule, library, historical, accepted, submitted, draft>>

Next ==
    \/ ToggleSpin \/ ChooseSpinMode \/ EnterMoment \/ ToggleFixed \/ EnterFixed
    \/ ToggleCharge \/ EnterCharge \/ ToggleFrontier \/ ToggleStates \/ EnterStates \/ EnterSpacing
    \/ ChooseAccuracy \/ ChooseFunctional \/ ChooseVdw
    \/ AddOverride \/ EditOverride \/ RemoveOverride \/ SelectOverride
    \/ Accept \/ Cancel \/ Submit \/ Restart \/ RemoveAtom \/ OpenDraft

Spec == Init /\ [][Next]_vars

----------------------------------------------------------------------------
(* Properties. *)

\* Overrides that repeat the accuracy of the other atoms leave no trace in the files.
Effective(s) ==
    LET effective(i) == [s.atoms[i] EXCEPT !.accuracy = IF @ = s.accuracy THEN None ELSE @]
        left == {i \in DOMAIN s.atoms : OverrideIsValid(effective(i))} IN
    [s EXCEPT !.atoms = [i \in left |-> effective(i)]]

\* Whatever was entered, the files of a job give back its structure and its settings, and
\* would be written again as they are from the definitions of the server.
RestartIsExact ==
    submitted # None /\ Recovered(submitted.files) # None =>
        LET read == Recovered(submitted.files) IN
        /\ read.structure = submitted.structure
        /\ read.settings = Effective(submitted.settings)
        /\ SameFiles(Inputs(read.structure, read.settings, library), submitted.files)

\* No line above a declaration or at the end of a definition prevents it but an empty one
\* there; a file of an earlier release also needs a comment that tells the accuracy of an
\* atom without override.
Readable(files) ==
    LET body == files.body
        places == Sorted(Declarations(body)) IN
    /\ \/ files.accuracy # None
       \/ \E j \in DOMAIN places : Declared(body, places[j]).accuracy = None /\ Suggested(body, j) # {}
    /\ \A k \in DOMAIN body : body[k] = Blank =>
          IF files.kind = "optimization" THEN k + 1 \notin Declarations(body) \/ k < places[1]
          ELSE k < Len(body) /\ body[k + 1] # Blank
RestartIsPossible ==
    submitted # None /\ Readable(submitted.files) => Recovered(submitted.files) # None

\* A form that is opened on the settings of a draft gives these settings when nothing is
\* changed, and they are accepted.
DraftIsConfirmed ==
    form # None /\ draft # None /\ edits.here = 0 =>
        Collected(form) = draft.settings /\ SettingsAreValid(Collected(form))
=============================================================================

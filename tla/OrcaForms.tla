------------------------------- MODULE OrcaForms -------------------------------
(***************************************************************************)
(* The forms that lead to an ORCA job: gui/orca_dialogs.py collects the      *)
(* settings of an optimization or a frequency, tools/molecule_viewer_demo.py *)
(* opens it for a new project, a resubmission or a verified optimization and *)
(* has its input and script confirmed, app/orca_submission.py renders both   *)
(* again and submits, app/orca_import.py reads an input back. In between the *)
(* user may verify another ORCA. Methods stand for their capabilities, and   *)
(* a structure for its electrons and whether a basis covers its elements.    *)
(***************************************************************************)
EXTENDS Integers, Sequences, FiniteSets

CONSTANTS
    Structures,   \* [electrons, covered]
    Profiles,     \* [family, nodes, procs, minutes, memory, mail]
    MaxEdits, None

FormsAssumption ==
    /\ Structures \subseteq [electrons : Nat \ {0}, covered : BOOLEAN]
    /\ MaxEdits \in Nat

\* orca/catalog.py: the reviewed choices, one method of each capability.
Families == {"5.0", "6.0", "6.1"}
Capability ==
    [PBE0 |-> [families |-> Families, basis |-> TRUE, dispersion |-> TRUE],
     B97_3C |-> [families |-> Families, basis |-> FALSE, dispersion |-> FALSE],
     R2SCAN_3C |-> [families |-> Families \ {"5.0"}, basis |-> FALSE, dispersion |-> FALSE],
     WB97M_D4REV |-> [families |-> Families \ {"5.0"}, basis |-> TRUE, dispersion |-> FALSE]]
Methods == DOMAIN Capability
Bases == {"DEF2-SVP", "DEF2-TZVP"}
Dispersions == {"NONE", "D4"}
Convergences == {"OPT", "TIGHTOPT"}
Scf == {"DEFAULT", "TIGHTSCF"}
Modes == {"FREQ", "NUMFREQ"}

IsSupported(method, family) ==
    IF family = None THEN Capability[method].families = Families ELSE family \in Capability[method].families
MethodsFor(family) == {method \in Methods : IsSupported(method, family)}
BasesFor(structure) == IF structure.covered THEN Bases ELSE {}

\* orca/settings.py. A frequency is a mode, resources and the optimization it follows.
IsValid(s, structure) ==
    LET electrons == structure.electrons - s.charge
    IN  /\ s.method # None /\ IsSupported(s.method, s.family)
        /\ Capability[s.method].basis <=> s.basis # None
        /\ s.dispersion # "NONE" => Capability[s.method].dispersion
        /\ s.basis # None => structure.covered
        /\ electrons > 0 /\ (electrons % 2 = 0 <=> s.multiplicity % 2 = 1)
Science(s) ==
    [method |-> s.method, basis |-> s.basis, dispersion |-> s.dispersion,
     charge |-> s.charge, multiplicity |-> s.multiplicity]

\* The forms show whole hundredths of hours, and the settings hold whole minutes.
Hours(minutes) == (2 * 100 * minutes + 60) \div 120
Minutes(hours) ==
    LET whole == (hours * 60) \div 100
        rest == (hours * 60) % 100
    IN  IF rest < 50 \/ (rest = 50 /\ whole % 2 = 0) THEN whole ELSE whole + 1

Resources(profile) ==
    [nodes |-> profile.nodes, procs |-> profile.procs, hours |-> Hours(profile.minutes),
     memory |-> profile.memory, writesCore |-> FALSE, core |-> 4096]
Collected(r) ==
    [nodes |-> r.nodes, procs |-> r.procs, minutes |-> Minutes(r.hours), memory |-> r.memory,
     core |-> IF r.writesCore THEN r.core ELSE None]

----------------------------------------------------------------------------
\* orca/input_writer.py: an input is its keywords and the header of its coordinates.
Keywords(s) ==
    {s.method} \cup (IF Capability[s.method].basis THEN {s.basis} ELSE {}) \cup ({s.dispersion} \ {"NONE"})
Header(s, structure, job) ==
    [charge |-> s.charge, multiplicity |-> s.multiplicity, structure |-> structure, procs |-> job.procs, core |-> job.core]
OptimizationInput(s, structure) ==
    [words |-> Keywords(s) \cup ({s.scf} \ {"DEFAULT"})
        \cup (IF s.coordinates = "CARTESIAN" THEN ({s.convergence} \ {"OPT"}) \cup {"COPT"} ELSE {s.convergence}),
     head |-> Header(s, structure, s.job)]
FrequencyInput(f, structure) ==
    [words |-> Keywords(f.source) \cup {f.mode} \cup ({f.source.scf} \ {"DEFAULT"}),
     head |-> Header(f.source, structure, f.job)]

\* What an input says of its science; an ambiguous line says nothing.
OnlyOf(choices) == IF choices = {} THEN None ELSE CHOOSE choice \in choices : TRUE
Identity(input) ==
    LET methods == input.words \cap Methods
        bases == input.words \cap Bases
        dispersions == input.words \cap (Dispersions \ {"NONE"})
        clear == Cardinality(methods) = 1 /\ Cardinality(bases) <= 1 /\ Cardinality(dispersions) <= 1
    IN  [method |-> IF clear THEN OnlyOf(methods) ELSE None,
         basis |-> IF clear THEN OnlyOf(bases) ELSE None,
         dispersion |-> IF clear /\ dispersions # {} THEN OnlyOf(dispersions) ELSE "NONE",
         charge |-> input.head.charge, multiplicity |-> input.head.multiplicity]

\* orca/batch.py: the script asks the scheduler for the job's resources.
Script(profile, job, mail) ==
    [nodes |-> job.nodes, tasks |-> job.procs, minutes |-> job.minutes, memory |-> job.memory,
     family |-> profile.family, mail |-> mail]

----------------------------------------------------------------------------
VARIABLES
    profile,     \* the server the user works with
    structure,   \* the molecule that is open
    project,     \* None, or the ORCA project that was opened last
    form,        \* None, or the open form
    confirm,     \* None, or what the user is asked to confirm
    sent,        \* None, or what the last confirmation has led to
    edits

vars == <<profile, structure, project, form, confirm, sent, edits>>

Init ==
    /\ profile \in Profiles /\ structure \in Structures
    /\ project = None /\ form = None /\ confirm = None /\ sent = None /\ edits = 0

NewForm(of) ==
    [kind |-> "optimization", method |-> None, basis |-> None, dispersion |-> "NONE", charge |-> 0,
     multiplicity |-> 1, convergence |-> "OPT", coordinates |-> "REDUNDANT", scf |-> "DEFAULT",
     mode |-> None, resources |-> Resources(of), edited |-> FALSE, base |-> None, profile |-> of]
\* A method that defines its basis or its dispersion clears them.
MethodChanged(f) ==
    IF f.method = None THEN f
    ELSE [f EXCEPT !.basis = IF Capability[f.method].basis THEN @ ELSE None,
                   !.dispersion = IF Capability[f.method].dispersion THEN @ ELSE "NONE"]
Prefilled(f, s) ==
    [f EXCEPT !.method = s.method, !.basis = s.basis, !.dispersion = s.dispersion, !.charge = s.charge,
              !.multiplicity = s.multiplicity, !.convergence = s.convergence, !.coordinates = s.coordinates,
              !.scf = s.scf, !.base = s,
              !.resources = [nodes |-> s.job.nodes, procs |-> s.job.procs, hours |-> Hours(s.job.minutes),
                             memory |-> s.job.memory, writesCore |-> s.job.core # None,
                             core |-> IF s.job.core = None THEN @.core ELSE s.job.core]]
Settings(f) ==
    [method |-> f.method, basis |-> f.basis, dispersion |-> f.dispersion, charge |-> f.charge,
     multiplicity |-> f.multiplicity, convergence |-> f.convergence, coordinates |-> f.coordinates, scf |-> f.scf,
     family |-> f.profile.family, job |-> Collected(f.resources)]

Open ==
    /\ form = None /\ confirm = None
    /\ form' = NewForm(profile)
    /\ UNCHANGED <<profile, structure, project, confirm, sent, edits>>
\* A stored choice that this runtime does not have keeps the form from opening. What was
\* imported is not resubmitted.
OpenResubmission ==
    /\ form = None /\ confirm = None /\ project # None /\ ~project.imported
    /\ project.settings.method \in MethodsFor(profile.family) \cup {None}
    /\ project.settings.basis \in BasesFor(structure) \cup {None}
    /\ form' = MethodChanged(Prefilled(NewForm(profile), project.settings))
    /\ UNCHANGED <<profile, structure, project, confirm, sent, edits>>
OpenFrequency ==
    /\ form = None /\ confirm = None /\ project # None /\ ~project.frequency
    /\ project.settings.method # None
    /\ form' = [NewForm(profile) EXCEPT !.kind = "frequency", !.base = project.settings]
    /\ UNCHANGED <<profile, structure, project, confirm, sent, edits>>

Edit(changed) ==
    /\ edits < MaxEdits
    /\ form' = [changed EXCEPT !.edited = TRUE]
    /\ edits' = edits + 1
    /\ UNCHANGED <<profile, structure, project, confirm, sent>>
IsOpen(kind) == form # None /\ form.kind = kind
ChooseMethod ==
    /\ IsOpen("optimization")
    /\ \E method \in MethodsFor(form.profile.family) \cup {None} :
           method # form.method /\ Edit(MethodChanged([form EXCEPT !.method = method]))
ChooseBasis ==
    /\ IsOpen("optimization")
    /\ form.method # None => Capability[form.method].basis
    /\ \E basis \in BasesFor(structure) \cup {None} : basis # form.basis /\ Edit([form EXCEPT !.basis = basis])
ChooseDispersion ==
    /\ IsOpen("optimization")
    /\ form.method # None => Capability[form.method].dispersion
    /\ \E dispersion \in Dispersions : dispersion # form.dispersion /\ Edit([form EXCEPT !.dispersion = dispersion])
ChooseControls ==
    /\ IsOpen("optimization")
    /\ \E convergence \in Convergences, coordinates \in {"REDUNDANT", "CARTESIAN"}, scf \in Scf :
           Edit([form EXCEPT !.convergence = convergence, !.coordinates = coordinates, !.scf = scf])
ChooseSpin ==
    /\ IsOpen("optimization")
    /\ \E charge \in {0, 1}, multiplicity \in {1, 2} :
           Edit([form EXCEPT !.charge = charge, !.multiplicity = multiplicity])
ChooseResources ==
    /\ form # None
    /\ \/ \E procs \in {1, 8} : Edit([form EXCEPT !.resources.procs = procs])
       \/ \E hours \in {2, 1250} : Edit([form EXCEPT !.resources.hours = hours])
       \/ \E writes \in BOOLEAN : Edit([form EXCEPT !.resources.writesCore = writes])
ChooseMode ==
    /\ IsOpen("frequency")
    /\ \E mode \in Modes : Edit([form EXCEPT !.mode = mode])

Cancel ==
    /\ form # None \/ confirm # None
    /\ form' = None /\ confirm' = None
    /\ UNCHANGED <<profile, structure, project, sent, edits>>

\* Continue checks the form, and shows the input and the script of the job.
Shown(f, settings, input, job) ==
    [kind |-> f.kind, settings |-> settings, structure |-> structure, profile |-> f.profile,
     input |-> input, script |-> Script(f.profile, job, FALSE), edited |-> f.edited, base |-> f.base]
ContinueOptimization ==
    /\ IsOpen("optimization")
    /\ LET s == Settings(form)
       IN  IsValid(s, structure) /\ confirm' = Shown(form, s, OptimizationInput(s, structure), s.job)
    /\ form' = None
    /\ UNCHANGED <<profile, structure, project, sent, edits>>
ContinueFrequency ==
    /\ IsOpen("frequency") /\ form.mode # None
    /\ IsSupported(form.base.method, form.base.family)
    /\ LET f == [source |-> form.base, mode |-> form.mode, job |-> Collected(form.resources)]
       IN  IsValid(f.source, structure) /\ confirm' = Shown(form, f, FrequencyInput(f, structure), f.job)
    /\ form' = None
    /\ UNCHANGED <<profile, structure, project, sent, edits>>

\* The service renders both files again, from the profile's preset with the resources of the job.
\* Mutant: the resources of the form are dropped.
PresetFor_Saved(of, job) == of
PresetFor(of, job) == [of EXCEPT !.nodes = job.nodes, !.procs = job.procs, !.minutes = job.minutes, !.memory = job.memory]
Rendered(preset, of) ==
    [nodes |-> preset.nodes, tasks |-> preset.procs, minutes |-> preset.minutes, memory |-> preset.memory,
     family |-> of.family, mail |-> of.mail]
Outcome(accepted, input, script) ==
    [accepted |-> accepted, input |-> IF accepted THEN input ELSE None, script |-> IF accepted THEN script ELSE None, shown |-> confirm]
ConfirmOptimization ==
    /\ confirm # None /\ confirm.kind = "optimization"
    /\ LET s == confirm.settings
           accepted == s.family = confirm.profile.family /\ IsValid(s, confirm.structure)
           script == Rendered(PresetFor(confirm.profile, s.job), confirm.profile)
       IN  /\ sent' = Outcome(accepted, OptimizationInput(s, confirm.structure), script)
           /\ project' = IF accepted THEN [settings |-> s, imported |-> FALSE, frequency |-> FALSE] ELSE project
    /\ confirm' = None
    /\ UNCHANGED <<profile, structure, form, edits>>
ConfirmFrequency ==
    /\ confirm # None /\ confirm.kind = "frequency"
    /\ LET f == confirm.settings
           accepted == f.source.family = confirm.profile.family /\ project.settings = f.source
           script == Rendered(PresetFor(confirm.profile, f.job), confirm.profile)
       IN  /\ sent' = Outcome(accepted, FrequencyInput(f, confirm.structure), script)
           /\ project' = [project EXCEPT !.frequency = @ \/ accepted]
    /\ confirm' = None
    /\ UNCHANGED <<profile, structure, form, edits>>

\* app/orca_import.py: the science of an input, that the program or somebody else has
\* written, the program's defaults for the rest and no version.
Import ==
    /\ form = None /\ confirm = None /\ sent # None /\ sent.accepted /\ edits < MaxEdits
    /\ \E input \in {sent.input, [sent.input EXCEPT !.words = @ \cup {"PBE0", "B97_3C"}]} :
           LET read == Identity(input)
           IN  project' = [imported |-> TRUE, frequency |-> FALSE,
                    settings |-> [method |-> read.method, basis |-> read.basis, dispersion |-> read.dispersion,
                        charge |-> read.charge, multiplicity |-> read.multiplicity, convergence |-> "OPT",
                        coordinates |-> "REDUNDANT", scf |-> "DEFAULT", family |-> None,
                        job |-> [nodes |-> 1, procs |-> 1, minutes |-> 60, memory |-> 1, core |-> None]]]
    /\ edits' = edits + 1
    /\ UNCHANGED <<profile, structure, form, confirm, sent>>

\* The user verifies another ORCA, or works with another server.
SelectServer ==
    /\ form = None /\ confirm = None /\ edits < MaxEdits
    /\ \E other \in Profiles \ {profile} : profile' = other
    /\ edits' = edits + 1
    /\ UNCHANGED <<structure, project, form, confirm, sent>>

Next ==
    \/ Open \/ OpenResubmission \/ OpenFrequency
    \/ ChooseMethod \/ ChooseBasis \/ ChooseDispersion \/ ChooseControls \/ ChooseSpin
    \/ ChooseResources \/ ChooseMode
    \/ Cancel \/ ContinueOptimization \/ ContinueFrequency
    \/ ConfirmOptimization \/ ConfirmFrequency \/ Import \/ SelectServer

----------------------------------------------------------------------------
Of(shown) == IF shown.kind = "frequency" THEN shown.settings.source ELSE shown.settings

\* docs/WORKFLOW.md: "previews deterministic orca_opt.inp and the exact scheduler script before
\* any remote mutation". What is submitted is what was confirmed, the mail lines apart: the
\* previews leave them out (render_orca_submit_script is called without mail_settings).
SubmittedIsPreviewed ==
    sent # None /\ sent.accepted =>
        /\ sent.input = sent.shown.input
        /\ [sent.script EXCEPT !.mail = FALSE] = sent.shown.script

\* A resubmission that nobody has edited repeats the optimization, for the ORCA that is
\* verified now: no detour through the form's widgets, units and ranges changes it.
ResubmissionRepeats ==
    sent # None /\ sent.accepted /\ sent.shown.kind = "optimization" /\ sent.shown.base # None /\ ~sent.shown.edited =>
        sent.shown.settings = [sent.shown.base EXCEPT !.family = sent.shown.profile.family]

\* What the forms let pass is submitted: only a frequency of an optimization by another
\* ORCA, or of an imported one, is refused once it is confirmed.
ConfirmedIsAccepted ==
    sent # None /\ ~sent.accepted =>
        sent.shown.kind = "frequency" /\ sent.shown.base.family # sent.shown.profile.family

\* An import reads back the science of every input the program writes, and a frequency
\* names that of its optimization.
ScienceIsRead == confirm # None => Identity(confirm.input) = Science(Of(confirm))
=============================================================================

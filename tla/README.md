# Moltage in TLA+

Moltage is a desktop program that builds molecular junctions and runs calculations on them on a cluster over
SSH: FHI-aims geometry optimizations (Steps 1 and 2), a transport-convergence run (Step 3) and an AITRANSS
transmission run (Step 4), electron-density tasks, and a parallel ORCA chain. It has no server of its own.
Everything durable is a file: one remote manifest per project or task, rewritten by whichever installation
looks at it, and a few local files per installation. There are no locks. What keeps two installations, an
abandoned thread and a crashed process from damaging each other is a revision (or digest) comparison, the
exclusive `mkdir` of a few directories and the rule that an uncertain submission is never repeated. What keeps
one installation from confusing itself is a set of registers, timers and one-thread pools whose callbacks arrive
in nested event loops. These modules say what both do and do not guarantee.

Paths below are relative to `src/src/moltage/`, VIEWER is `src/tools/molecule_viewer_demo.py` (the main window),
documents are in `src/docs/`.

## 1. The system

| Part | Its state | Operations | Speaks to |
|---|---|---|---|
| Manifest store, `remote/project_repository.py`, `remote/step_inputs.py` | remote `project.json`, `density.json` | load, write once, revision- or digest-checked replacement (compare, temporary file, rename) | SFTP |
| Submission, `app/project_submission.py` | project and step directories, manifest, one job per step | create a project, continue with Step 2 or 3: claim the directory, upload, dispatch, record | store, scheduler |
| Refresh, `app/project_recovery.py` | none of its own | discover, ask the scheduler, look at outputs, record | store, scheduler, local index |
| Job status and cancellation, `remote/slurm_status.py`, `remote/slurm_cancel.py` | none | queue, then accounting; `bjobs`, then `bhist`; cancel | scheduler |
| Transport attempts, `app/transport_submission.py`, `app/task_restart.py` | one directory shared by all attempts of Steps 3 and 4 | retry Step 3, submit and retry Step 4 in four ways, cancel for want of memory, abort | store, scheduler |
| Density tasks, `app/density_workflow.py` | `density.json`, one directory per attempt, a local copy | submit, refresh, recover, retry, cancel | store, scheduler |
| ORCA, `app/orca_*.py`, `remote/wbl_results.py` | `project.json` of its own kind, result directories | optimize, frequencies, wide-band limit (WBL), import, cancel, resubmit | store, scheduler |
| Verification, `remote/scheduler_discovery.py`, `remote/orca_runtime.py`, `remote/runtime_search.py` | none of its own | find and verify scheduler, ORCA, FHI-aims and AITRANSS; verify again before every submission | server |
| Server profiles, `app/server_profiles.py`, `gui/server_profiles_dialog.py`, `gui/cluster_execution_dialog.py` | one file, the key ring, a working copy per dialog | edit, check, browse, save; cache a detected scheduler | verification |
| Projects window, `gui/projects_dialog.py`, `gui/project_browser.py`, `gui/status_refresh.py` | the list, one operation at a time, refresh threads that may outlive it | refresh (60 s, Stop), open, abort, kill, retry, WBL, recycle, restore, delete | all services, index |
| Local index, `app/local_project_index.py` | `known_projects.json`: last seen revisions, recycle markers | mark seen (one, many), recycle, restore, forget | its file |
| Deletion, `app/project_management.py`, `remote/project_delete.py` | none of its own | verify, one `rm -rf`, prove the absence, clean up locally | store, scheduler, index |
| Main window, VIEWER | Geometry tabs, one set of registers bound to one tab at a time, a pool of one thread | submit Steps 1-3 and ORCA jobs, Step-4 preflight and submission, export, close | services |
| Geometry tab, VIEWER, `gui/geometry_history.py`, `structure/`, `junction/` | atoms, bonds, tools, undo history | pick, measure, edit, turn, place Au, build electrodes, undo | - |
| Dialogs of a calculation, `gui/optimization_dialog.py`, `gui/transport_convergence_dialog.py`, `gui/orca_dialogs.py` | a form | collect, validate, confirm; open on what was read back | input files |
| Input files, `aims/`, `orca/`, `aitranss/` | none | parse, render, validate | - |
| Result windows, `gui/tight_binding_workspace.py`, `gui/density_workspace.py` | parameters, a worker, a timer, what is shown | edit, recompute, preview, export | - |

Every remote operation runs in a worker thread of its own over its own connection; the window's threads only
receive results. Four kinds of things run at the same time: installations (or a restarted one), workers of one
installation (an abandoned refresh among them), the callbacks of one event loop inside each other, and the
scheduler's jobs.

**What is hard here, and what each part has to get right**

* *Several writers, no lock.* Between the comparison and the rename of an update lie two remote calls. Right
  is: with no two such windows overlapping, an update replaces what it was computed from; with overlapping
  ones, a record may be lost, but no job may be started twice and no record may lie about a job.
* *Uncertain dispatch.* `sbatch` may be accepted and its answer lost. Right is: never a second job for the same
  step or attempt, never a failure recorded over a job that exists, and the result still found if its receipt
  is known to anyone.
* *Evidence that is late or somebody else's.* Queue and accounting are asked one after the other and answer late
  or not at all; outputs appear after the job is gone; attempts share a directory. Right is: success is only
  reported for outputs of the recorded job, a verdict reached too early does not stay, and a retry begins only
  when what it replaces has ended.
* *Interrupted sequences.* Every operation is a dozen remote calls, and a fault may end it between any two; the
  publication of a WBL result is two renames, of which the second may never happen.
* *Threads without a session.* A refresh that was stopped or timed out goes on, persists and delivers. Right
  is: the window is free again, and nothing old is shown or un-recycled.
* *Callbacks inside callbacks.* A message box runs an event loop; the worker's `finished` signal, another tab's
  outcome or a timer is delivered in it. Right is: an outcome reaches the tab it came from, nothing that the
  user did meanwhile is lost, and an operation counts as running exactly as long as it does.
* *What is shown and what it was computed from.* Plots, surfaces, measurements and previews are computed later
  than they are asked for. Right is: when nothing is left to wait for, they are those of the current input.
* *Forms and files.* A job is confirmed in a form, written to files, read back for a restart or a resubmission.
  Right is: what is confirmed is what was shown, and it comes back.
* *Deleting.* One `rm -rf` whose answer may be lost. Right is: it hits what the user reviewed, with no work.

`PROJECT.json` lists each hazard at its line with the properties that watch it.

## 2. Modules

| Module | Stands for | Uses |
|---|---|---|
| `AtomicManifest` | the promise of the store: a register whose update installs the next revision in one step | |
| `ManifestStore` | the remote steps of `persist_update`, for any client | |
| `ManifestClients` | any clients of the store; shown to implement `AtomicManifest` | `ManifestStore` |
| `ProjectTypes` | the workflow record of `domain/calculation_project.py` | |
| `StepSubmission` | Steps 1 to 3: creation, continuation, refresh, persisting, faults, jobs | `ProjectTypes`, `ManifestStore`'s windows |
| `TransportAttempts` | Steps 3 and 4 in their shared directory, with retries, reconciliation and the two cancellations | `ManifestStore` |
| `DensityTask` | density tasks: five operations, saves, receipt cache, jobs | |
| `WblResult` | the remote directories of a WBL result and their publication | |
| `OrcaProject` | an ORCA project: optimization, frequency, WBL, cancellation, resubmission, import, refresh, two installations | `WblResult` |
| `JobStatus` | what queue and accounting answer while jobs go on, and how it is read | |
| `Preflight` | verification of scheduler and ORCA, in the settings and before a submission, on a server that changes | |
| `RuntimeSearch` | the five stages of the search for FHI-aims and AITRANSS under their budget | |
| `ServerSettings` | the profile file, the two settings dialogs with their nested checks, the submission that caches a scheduler | |
| `ProjectsDesktop` | one installation: refresh sessions and threads, index, submission worker, deletion | |
| `ProjectsWindow` | every operation of the Projects window with its boxes, queued reports and the viewer pick | |
| `DensityWindow` | a density tab and the density rows of the Projects window, other installations | |
| `MainWindow` | tabs, registers, background operations and nested callbacks of the main window | |
| `GeometryEditor` | the editing session of a Geometry tab | |
| `TightBinding`, `DensityView` | two windows that show what a worker computes | |
| `Anchors`, `Junction` | recognition of anchor groups; placing contact Au, and what may start after it | |
| `Electrodes` | the two electrodes: lattice, added atoms, provenance, recovery, the form for tcontrol, the interface of the retry | |
| `WblForm` | the WBL form, the contact orbitals it resolves to, picking in the viewer, calculating again | `Anchors` |
| `JobInputs`, `JobForms` | FHI-aims input files written and read back; the forms around them | |
| `OrcaForms` | the forms that lead to an ORCA job, preview, import, resubmission | |
| `ManifestProofs`, `StepSubmissionProofs`, `DensityTaskProofs`, `TransportAttemptsProofs`, `OrcaProjectProofs`, `JobStatusProofs` | theorems | the module they are named after |
| `ProjectsDesktopProofs` | theorems about three parts of `MCDesktop`: `ProjectsDesktop`, and `ServerSettings` and `DensityWindow` as instances | `MCDesktop` |
| `WorkbenchProofs` | theorems about the four parts of `MCWorkbench`, as instances of their modules | `MCWorkbench` |
| `MC...` | instances for TLC: symmetry, and views that leave out locals nobody reads any more | |

*Correspondence.* In the modules about remote state a variable `manifest` (`man`) is the remote file, `pc[w]` the
remote call an operation is about to make, `view[w]` the record it loaded (its `expected_...` argument), `cand[w]` the
one it is about to write. An action is one remote call or a run of calls whose interleaving with others cannot matter,
with everything the code computes around it. In the modules about windows a variable is a group of widget fields, a
`stack` the boxes and dialogs that are open one inside the other, `events` (`posted`) the signals that are queued, and an
action is a gesture, the end of a worker, or the delivery of one signal with the whole handler behind it. Names are those
of the code where TLA+ allows. `PROJECT.json` maps the definitions to their lines.

*How they fit together.* `OrcaProject`, `TransportAttempts` and `DensityTask` show what happens inside an operation;
`ProjectsWindow`, `DensityWindow` and `MainWindow` take an operation as one step (the WBL run as two) and show what happens
around it. `JobStatus` shows that an answer is true of the job at some moment of the question, which is what the others
assume of it; `Preflight`, what a submission does before its first step. The store's write is three steps in `StepSubmission`,
`TransportAttempts` and (with digests) `DensityTask`, and one in the others.

The scheduler, the file system and the network are modelled from how the code uses them. A job starts, is requeued, ends
well or badly or is killed; outputs may become visible late; a call may fail before or after it had its effect; a process
may end anywhere; a server may change between two commands.

### What the modules leave out

* `StepSubmission`: contents of uploads; of an output, whether it is absent, does not prove success, or does. One
  directory upload is one step. The OOM cancellation is in `TransportAttempts`, restart drafts are in `JobForms`.
* `TransportAttempts`: put and read-back of a file are one step. It starts when Step 3 has just been queued as job 1,
  and jobs are not requeued. A script is present or absent; a tcontrol has one of two texts.
* `DensityTask`: the last attempt of a manifest (earlier ones never change). Messages and the three lamps are left
  out, so two records that differ only there are the same to the digest comparison. The read-back of a save and the
  local copy are one step. A component's output is missing, unreadable, readable, valid, or valid on a grid that
  differs within the tolerance (`"skewed"`). Changed profiles or scheduler types end an operation like any fault.
* `OrcaProject`: which markers ORCA's files hold is an attribute of the job; the record of a WBL run that a process left at
  RUNNING is never cleared, as in the code, and no document says how it should be.
* `JobStatus`: exit codes, malformed rows and array jobs. A suspended job is UNRESOLVED; a failure of an earlier, requeued
  attempt may be reported while accounting lags; a rotated LSF log leaves the cause of a failure open.
* `Preflight`: the order among client bundles of LSF; the text of versions; AITRANSS and FHI-aims are not verified again.
* `RuntimeSearch`: module listings in any order, one executable per program, launcher hints, the wording of what is
  missing; running out of time and out of commands are one limit. The limits are the code's own.
* `ServerSettings`: host, port, resources and mail, the JSON text, boxes that only report.
* `ProjectsDesktop`: of a manifest, its revision, the state of its last step and which submission of it (*try*) that records.
  QUEUED, RUNNING and UNKNOWN after a dispatch are active; a scheduler that has answered nothing final
  (`ACCOUNTING_PENDING`, `UNRESOLVED`) leaves the record, although in the code such a snapshot also refuses a deletion. Refreshes
  record as `_reconcile` does, also over a failed or a completed step. A submission reloads, uploads, dispatches, records and marks
  as seen, and may end between any two of these. `persist_update` and every
  mutation of the index are one step: the first is `ManifestStore`'s subject, the second is excluded by
  ARCHITECTURE.md:192. All manifests of a discovery are read in one step, a batch checkpoint goes with the read that
  follows it, and the host-key question is answered in the step that asks it. One server profile.
* `ProjectsWindow`: an operation of a service is one step. Passwords are saved, the binding to another profile is
  confirmed, boxes that only inform are closed at once, the list may show any project first. One FHI-aims project (its
  Step 3 running or its Step 4 failed), one ORCA project (optimized, WBL calculated, frequency running), one density row.
* `DensityWindow`: QUEUED and RUNNING are one state; electronic states, SCF fields and recycled tasks are left out; one
  tab and one list.
* `MainWindow`: menus, layout, drawing. `GeometryEditor`: positions are named by the bonds an atom has been turned about;
  an edit that distances alone would refuse may be refused; which atoms are near each other is a constant relation per threshold
  of the bond detection.
* `TightBinding`: hover labels and tab pages; broadenings and grid are one field; a number is good, empty or malformed.
* `Anchors`, `Junction`: where an Au comes to lie and whether there is room for it.
* `Electrodes`: within a side a site is three integers and distances are exact; which sites of the two sides, or of a side and
  the molecule, are too near is given by a *crowd*, which a turn replaces. Tolerances, energies and broadenings of tcontrol are
  left out, and so is the recovery of electrodes of old projects that recorded none.
* `WblForm`: a direction is what it was built from. `JobInputs`: text by lines, order of directives, the marker
  `# Species` inside a definition; the number fields of Step 3 are one. `OrcaForms`: a method is its capabilities, a
  structure its electrons and whether a basis covers it.

## 3. Runs

| Run | Instance | Question and answer |
|---|---|---|
| `Parts` | nine areas, see below | Parts that share no state with the rest, each explored by itself. |
| `Endings` | 1 client on Steps 1-3 with 4 jobs and a requeue; 1 window with 2 threads | Is what completed well recorded in the end, and does every refresh free the window? Yes. |
| `StepTwoClients` | 2 clients, Steps 2-3, 3 jobs, any overlap of write windows | One dispatch per step, terminal records true, no job hidden by a failure; and until two windows have overlapped, nothing recorded is lost. |
| `TransportOne` | 1 client, 4 jobs, 2 texts, 3 attempts | One directory for all attempts: results, archives, cancellations and jobs are told apart, each attempt is dispatched once. |
| `DensityTasks` | 1 worker, 2 components, 2 attempts | Recorded validity and completeness are real, and outputs that combine are recovered in the end. |
| `DensityRace` | 2 installations, 1 component, 2 attempts | Stale and overlapping saves: one job per attempt, one live job, no foreign receipt; without overlap nothing recorded is lost. |
| `OrcaProject` | 2 installations, 2 WBL tokens, 1 fault anywhere | An accepted WBL result is never lost, no end is recorded that did not happen, a successor waits for the end of its source. |
| `DesktopProjects` | four areas, see below | The Projects window and the dialogs around it. |
| `Workbench` | four areas, see below | The main window and what it opens. |
| `DesktopRecycle` | 1 project, 2 threads, 3 revisions | *Violation*: a project with a job just queued can be recycled. |
| `Step4Routing` | 1 tab | *Violation*: a tab never learns that its Step 4 was submitted. |
| `DensityCancel` | 1 task, 2 jobs | *Violation*: the job that is cancelled is not the one that was confirmed. |

*Areas.* `Parts`, `DesktopProjects`, `Workbench` and `Endings` each hold several modules that share no state. The initial
state chooses one (`area`, `part`), only that one moves, and the variables of the others keep one value; so the state
space is the sum of theirs, not the product, and a property has one conjunct per area.

* `Parts`: *manifest* - two clients with serial windows refine `AtomicManifest` (`RegisterSpec`); *search* - every place
  a program may be found in, complete or lacking libraries, and every order of what a listing offers: what is returned keeps to what was entered, nothing found is
  better, and what modules can complete is completed (`SearchIsExact`); *preflight* and *status* - a server that changes once
  between two commands, two jobs and two questions (`ClusterIsReadRight`); *junction* - molecules made of eight
  end groups, as they are and with one element or bond changed, and *electrodes* - two added atoms on pyramids of two layers, or
  pyramids of four as they are, two crowds, two edits of the form (`JunctionIsRecognised`); *wbl*, *aims*, *orca* - two or four edits of a form, then accept, submit, read
  back, restart (`FormsAreExact`).
* `DesktopProjects`: *projects* - list, index, threads, a submission in five steps and deletion, one project, three revisions, one further submission; *settings* - two profiles, two checks under way, a
  submission that writes the same file (`DialogsAreVerified`); *tasks* - a tab and a list on two density tasks; *window* -
  four gestures of any kind with the outcomes, boxes and late signals between them (`ActsAsShown`, `CancelOnce`).
* `Workbench`: *editor* - four gestures on a molecule between two contacts (`EditIsUndoable`, `ShownIsCurrent`); *window* -
  two tabs, two submissions (`SubmissionStaysHome`, `SubmissionAccounted`); *binding* and *result* - four edits, or changes of
  a view, at any moment of a running worker (`ShownIsCurrent`).

*Why these bounds.* Two clients suffice for every pairwise race, and the theorems below take away the bound on clients
where they exist. A retry needs two attempts; a mistake between an attempt and one that is neither its neighbour nor
current needs three (`TransportOne`). Jobs exceed the dispatches that can legally happen, so that an illegal further one
is possible. Two components are the least on which a result combined from two attempts can mix grids; the race run has one,
because the race is between records. Two refresh threads are one live and one abandoned; that two
run at once is followed until something is submitted or the last revision is written (`RefreshBound`), with one thread to the end.
Three revisions leave room for an assessment and a submission, or for two assessments, after the first record, so that a thread may
rewrite a record between the reload and `rm -rf`; that it records a requeued job there takes a fourth (a run of it takes 190 s and
finds nothing; the theorem covers it). `MaxFaults` is one because an ORCA operation recovers from a fault by a later operation,
and two clients already interleave two of them. `MaxActs`, `MaxGestures`, `MaxEdits`, `MaxChanges`, `MaxUses`, `MaxStarts` and
`MaxOpens` bound what the *user* does; what the program does by itself is not bounded. Four gestures are: start, disturb, disturb
again, act on what is shown. `CHECK_DEADLOCK FALSE` stands where the bounds end the walk or a window may be closed.

*History variables.* `overlapped` (in `MCStepSubmission`) remembers that two write windows have overlapped, after which the
record promises nothing but truth. `past.overlapped` of `ProjectsWindow` remembers that a WBL form was accepted while another
operation ran, and `past.mixed` that the answer to a cancellation has put a fresh record beside an old chart: two real defects,
described below, that the properties name as their exceptions so that everything else about them is still checked.

*Symmetry* is over interchangeable clients, jobs, settings, sessions, profiles or tabs, only in safety runs, and no definition
names one of them. *Views* drop variables no action reads before writing them again (each MC module says which).

### Disagreements with the documentation that a run shows

1. `DesktopRecycle`: MAINTENANCE.md:52 says recycling "never hides or cancels that work". It is judged on the snapshot in the
   list, which a submission from an open workspace does not update.
2. `Step4Routing`: VIEWER:1984 says the callback context routes "an async callback to its originating Geometry". The Step-4
   dialog runs inside the callback of the preflight, whose `finished` signal is delivered in the dialog's event loop and clears
   the origin before the submission has begun.
3. `DensityCancel`: ELECTRON_DENSITY_DIFFERENCE.md:86 offers "cancellation of the exact shared Slurm Job ID", and the
   confirmation names it. The service gets only the path and cancels the job it then finds there.

### Others met while modelling

Between overlapping write windows a slow refresh writes RUNNING over SCHEDULER_COMPLETED, against project_recovery.py:870
"must never regress to RUNNING"; the next refresh repairs it, and `RecordIsDurable` is stated up to the first overlap. Two
installations that submit the same Step-4 attempt both dispatch it, against WORKFLOW.md:265 "at most once":
`upload_new_files_atomically` looks with `stat` and later renames over the file. Steps 2 and 3 and density attempts are safe:
they make their directory exclusively. `discover_and_refresh` may lower a newer seen revision (ARCHITECTURE.md:192), which
nothing reads.

*Deletion.* WORKFLOW.md:181 requires an "unchanged" manifest, and the code compares the one it reloads. Between that reload and `rm
-rf` the thread of an abandoned refresh may still rewrite the manifest: a failed step with a job and a completed step are asked about
and assessed again (project_recovery.py:864-1032), to RUNNING when the scheduler has requeued the job. And a submission that was cut off
between the dispatch (project_submission.py:1217) and its record (:1334) leaves a manifest without active work and a living job: the
project can be deleted. `DeletedAsReviewed` says what is left of the promise: nothing has been recorded as submitted since the
record the user saw, nothing is being submitted, and the job of that record is over, unless it was requeued.

*Host keys and retries.* The question whether to trust a host key is asked inside the handler of the failure, so that
`finished` is delivered while it is open: the promised retry never starts in the server profiles, the cluster settings and for
the geometry view and restart of a project. In the Projects window `_trust_retry_used` survives, so that another server's unknown
key may not be offered at all, and a pending operation survives a failed Step-3 or Step-4 retry and is started by a later trust.

*Settings.* MANUAL, another scheduler kind and back to AUTOMATIC keeps the directory of the other kind. `cache_automatic` writes
the whole file from a stale copy and can undo what the dialog saved. An ORCA verified on one host goes with the profile to
another. A runtime found without the manual dialog is replaced by the configured one at the next synchronisation. An ORCA whose
family is not reviewed is verified and saved, then refused at every submission. Client directories of LSF that were cached
automatically are passed to the second search as explicit ones: when they moved nothing is found, against WORKFLOW.md:99
"rediscovered if stale". A submission to Slurm verifies `sbatch` only.

*Search.* `retained[:MAX_SUPPORT_FRONTIER]` keeps the first in discovery order; an error that is not a limit loses partial
results; the support probe is estimated at four commands and takes five or more.

*Projects window.* While an atom is picked for WBL the main window is enabled: an operation may be started, and accepting the
form starts a second worker. `_orca_cancel_succeeded` puts the record it loaded beside the chart on screen, so that a chart may
be opened under the digest of another result, against the comment at `gui/projects_dialog.py:1540`. Kill and Abort remember what
they sent separately, and a full discovery forgets both. Retries and kills do not tell the open tabs. A tab that still submits a
density task can be opened a second time from the list.

*Density tab.* The suppression of a second cancel is lost with the tab, or by a refresh that answers UNRESOLVED. A `recover`
that fails its validation leaves the tab at OUTPUT_READY; a refresh of a FAILED task overwrites unsent edits.

*Main window.* A resubmission of an ORCA optimization concerns a project of its own, so that `_project_has_external_operation` does not
protect the source, whose job it cancels. After a deferred end of a submission its origin is never reset and a retired tab never released;
`_project_snapshot_updated` takes any snapshot without comparing revisions.

*Contact preview.* A preview of contact Au may outlive what is displayed. With a lowered bond threshold an anchor that touches
its contact is free, and its box may be ticked; a click on a lattice site then adds an atom, clears the displayed preview, and
gives the molecule back the connectivity of its electrodes, in which that anchor is bonded. `_lattice_extension_target_clicked`
(VIEWER:3276-3363) keeps `_current_proposals` and the ticked boxes, so that Done applies them without having screened them against
the added atom, against WORKFLOW.md:131 "Done consumes the currently displayed proposal objects". It came out when `NothingStale`
was proved: demanding of a proposal that its atoms *are* those of the geometry is refuted by a relation of distances
that no smaller instance had. `NothingStale` asks (`Kept`) what every path does keep, that each atom the proposal was made for is
still there under its number.

*Forms.* The preview of an ORCA job leaves out the mail lines that the service adds, against WORKFLOW.md:53 "the exact scheduler
script". A cancelled pick of a WBL contact chooses the earlier atom anew and loses its linker override; a direction built from
another atom stays when the contact changes. An override that repeats the global accuracy leaves no trace in the files. A species
file that ends with an empty line makes Steps 3 and 4 unrestartable, one with an empty line above a declaration Steps 1 and 2.
Overrides of a restart draft are shifted by the removal of an atom, and one beyond the molecule raises outside the handler. A
thiol on a carbon with only a nitrogen beside it is read as NCS once its hydrogen is gone.

*Electrodes.* A turn after the last added atom may bring gold so near that Step 3 is submitted, runs and finishes, and Step 4
then refuses its surfaces; only the restart looks before it submits. Surface numbers that the user edits for Step 4 are passed to
AITRANSS but not to the explicit self-energy, which takes the corners of the pyramids. An edited `natoms` or `nsaos` is accepted
and submitted, and first stops the retry after an overlap. Two standard pyramids are not refused for being near each other.

### Fairness

* `Endings`, steps: an operation that has begun ends (weak fairness; the 60 s of `gui/status_refresh.py` or an error at the
  latest), the user refreshes again and again, as the messages ask ("Refresh again"), and accounting is not silent for ever
  about a job it is asked about for ever. The property itself assumes that faults stop. Nothing is asked of jobs.
* `Endings`, desktop: only the `QTimer` of a session. The network may hang for ever.
* `DensityTasks`: a worker goes on with its operation, or fails; the user goes on asking for recovery; and from some point on a
  recovery is neither cut off before its outputs are read nor told `UNRESOLVED`. Without the last, the code rightly never
  recovers anything: `recover` begins with a refresh, and `UNRESOLVED` refuses it.

That a worker of a result window ends is not assumed: `ShownIsCurrent` says what holds once nothing is left to wait for, and is a
safety property.

## 4. Proofs

TLC answers for the instances above; these theorems hold for every number of clients, workers, jobs, attempts, projects and
threads, from the named assumptions on the constants in each module.

**`ManifestProofs`** - with serial windows a client between comparison and rename holds the stored revision
(`CheckedIsCurrent`), every write is the successor of what it replaces (`RevisionChecked`), and `ManifestClients` implements
`AtomicManifest`. `CheckedIsCurrent` is not inductive alone: the rename of one client would make another's comparison stale, so
the invariant adds `Serialized`.

**`StepSubmissionProofs`** - `TypeOK`, `AtMostOneDispatch`, `PrerequisiteVerified`, `TerminalIsReal`, `JobAccounted`, with overlapping
windows. Nothing holds of the manifest alone, since any stale copy may be written over it. So the invariant speaks of *copies*:
every workflow record anywhere (manifest, views, candidates, screens) tells the truth about the jobs, and a new copy is an old
one with one step replaced truthfully. Truth is stable because a directory is made once and a job that ended stays so.
`RecordIsDurable` holds while windows do not overlap, and compares a manifest with the next one: then a client in its window holds
the stored manifest (`Serial`, with `Created` for the first one), and what it will write continues what it has read (`Continuing`):
the owner of a step has read no record of it, and who asks or assesses has read no final one.

**`DensityTaskProofs`** - `TypeOK`, `OneJobPerAttempt`, `OneJobAtATime`, `JobIsOwn`, `CompleteIsReal`, `ValidatedStays`, with
overlapping windows; `HistoryKept` and `ReceiptKept` while they do not overlap. The same idea with one more layer:
  - `Directories`, `JobsApart`, `ClaimsApart`: attempts are numbered without gaps, each made when the one before was *over*
    (no living job and no worker on its way to a dispatch), by one worker, for one job;
  - `Advance` is what every step does to these; from it follows once and for all that an attempt that is over stays over, and
    that a truthful record stays truthful (`OverStays`, `TruthStays`);
  - each action then only has to show that the one record it adds is truthful (`OneNewRecord`). The subtle clause is
    `RetriedForCause`: only an attempt with an invalid component was ever retried, which is why a COMPLETE record put back by a
    stale save cannot coexist with a running retry;
  - `ReceiptKept` needs `Receipts`: a receipt is always that of a job really dispatched, only an attempt that was PREPARED is saved as
    UNKNOWN, and while windows do not overlap it is dispatched from the record in force;
  - `HistoryKept` needs `Order`: whoever is in a window is alone and still finds what he compared, and what he will write
    continues it.

**`TransportAttemptsProofs`** - `TypeOK`, `AttemptDispatchedOnce`, `OneLiveJob`, `OomCancelIsOwn`, `AttemptsKept`, `ResultIsOwn`, for
any number of clients as long as no two of them are between the check and the write of an upload (`PutsApart`); manifest writes may
overlap as they like. With one submitting client and any others that refresh and cancel, `PutsApart` is itself proved, so
`SerialTransport` has no premise on the behaviour. The premise is needed: `upload_new_files_atomically` looks and then
writes, and with two submitters TLC finds in 16 states that both find the script absent and both dispatch. The argument:
  - the first file of an upload is a lock nobody releases: whoever has written it holds the number of the attempt until he
    dispatches or gives up, and nobody else can begin with it (`Held`, `HoldersApart`). The archive of `tcontrol` plays the part
    for the two self-energy retries;
  - each copy of a step, wherever it is, is true of the jobs and files (`CopiesTrue`), and whatever happens later keeps it so
    (`Forward`), also where a stale save puts it back;
  - `Chain`: there is an attempt after another only if that other was truthfully recorded as failed, and a Step 4 only after a
    success of Step 3; so an old copy and a new attempt cannot disagree about which job may live;
  - what an operation intends between two calls is part of the invariant (`SubmitTrue`, `ReadTrue`): a cancellation for want of memory
    has read the output of the very attempt that it names. None of the five properties is inductive without these.

**`OrcaProjectProofs`** - `TypeOK`, `WblResultKept`, `EndIsReal`, `SuccessorWaits` and the action property `OptimizationIsFinal`, for any
number of clients, WBL tokens and faults and with no condition on the behaviour (the module writes a manifest in one step; see
"What the modules leave out"). The invariant has four parts:
  - every copy of the manifest tells the truth about the jobs of its stages (`CopyTrue`, `StageTrue`), whatever becomes of it later
    (`CopyStays`), and a copy of the stored revision is the stored manifest (`ViewDated`); so a record that is written over it
    changes one stage and no accepted one (`SavesOneStage`). From this come `EndIsReal` and `OptimizationIsFinal`;
  - what an operation knows at each phase of its stage (`KnowsStage`): a stage about to be dispatched has no job, the job that is asked
    about is the one recorded, a successor's source has ended or is being cancelled;
  - the manifest's RUNNING record is a lock: while it names a run nobody but that run moves a result, and only that run gives it back
    (`KnowsResult`). A run may fail in three situations, nothing moved, the old result aside, the new one in (`Undoable`), and
    each step of publish and rollback leads from one of them to another;
  - the result that the manifest accepts is in place whenever no run is recorded (`ResultInPlace`), and two clients neither
    create, dispatch one stage, nor use one token (`Apart`).

  `Advance` says what one client's step may do that the others can notice; that it leaves what they know true is proved once
  (`OthersCreate` to `OthersResult`), and each action is left with its own operation.

**`JobStatusProofs`** - `AnswerIsReal` and `SettledIsExact`, the parts of `ClusterIsReadRight` that are about jobs, for any number of jobs,
operations and events; `StatusAssumption` says only that "nothing" is not taken for a value. An answer is put together from two moments, so
the invariant says of each thing that was read what it is still good for: the queue names states the jobs have had since the operation
began, and is exact for one that stood still (`QueueTrue`); a failure without a reason waits for the history (`CurrentTrue`); the
books lag, but an end that they name was one (`BooksTrue`). States and earlier ends only grow while an answer is shown, which keeps it true.

**`ProjectsDesktopProofs`** - `TypeOK`, `RecycledHidden`, `ShownNeverOlder`, `MarkersKept`, `DeletedAsReviewed`. No copy of a
record is newer than the manifest, and equal revisions are equal records; the live session's copy is no older than the list and
contains nothing recycled; abandoned threads need nothing, because what they deliver is dropped. For `DeletedAsReviewed` no
assumption on threads is made either, so the manifest may be rewritten in the gap. What cannot change there is the submission it records:
refreshes keep it (`Reconcile`), and a submission worker needs an open tab. While a recorded job has never ended its record is active,
so no review has passed it (`JobsRecorded`); a submission about to dispatch has seen the try in force, and what was refused has no
job (`SubmissionKnows`); and from the reload on the try is the reviewed one, not alive, with no tab and no submission (`DeletionAlone`).

The second part is `DialogsAreVerified`, for any profiles, names, typed and installed locations, runtimes and number of edits and checks.
`SettingsAssumption` says that None is neither a profile nor the hints of one, that there is a name, and that an installed
ORCA has a path and an environment. The property itself says nothing of the dialogs between two saves; `SettingsInv` does:
  - *store* (`ProfilesFit`): profiles have the fields they must have, what they call verified is what their hints name and what they
    launch (`Verified`), and names differ; the same of the form of Server Profiles and of a submission that holds a profile;
  - *dialogs* (`StackFits`, `Owned`): Server Profiles is the lowest, at most one Cluster Execution Settings is open, all that
    belongs to it is above it, the box about unsaved changes is right on it, and only boxes of checks come above that one. A
    busy check has its dialog open, and none is busy under that box - so leaving or saving never drops a running check;
  - *checks* (`QueuesFit`, `OneWorker`): for a busy check there is one worker waiting or one end queued behind all its other
    signals, which is what makes a retry after a host key or password safe; an answer is of the kind its check is asked for;
  - *copies* (`CopiesFit`): the ORCA program that a working copy calls verified is the one its fields, or its hint, name; its launch
    command is that of its runtime, except while a search is under way, when only a found one may stand beside a configured one;
    and Manual Runtime Configuration would not write another program over the hint of the verified one. The exception and the clause about
    the nested dialog are what the property needs: an answer is written into a copy the user edits meanwhile, and either edit
    clears what it makes stale.

The third part is about the two places that show density tasks, for any atoms, servers, tasks, jobs and numbers: `SubmittedAsShown` and
`CancelStep`, the density halves of `ActsAsShown` and `CancelOnce`. `WindowAssumption` says that None is no record, job or operation and
that there is room for the one task and job of the initial state. A place works on a copy that others make stale, so `TasksInv` says little of
how a copy and the record compare (the fragments are apart, the task stays on its server) and more of what a place knows:
  - while an operation runs, the tab goes on showing what it was begun with (`TabWorkerFits`); the tab adopts a row only when idle;
  - a place that has sent a cancellation remembers it, or its outcome is still to be delivered (`Knows`), for as long as it shows the job
    as active (`AskedFits`). An operation that is about to cancel has confirmed a key that is not remembered, and only the end of that operation
    adds one; in the list, whose rows other answers replace, this holds of every key of the task, because the record that is
    cancelled may meanwhile be of a later job.

**`WorkbenchProofs`** - the four properties of the run `Workbench`: `SubmissionAccounted`, `SubmissionStaysHome`, `EditIsUndoable` and
`ShownIsCurrent`, for any tabs, projects, operations, structures, molecules, grids and bounds on the user. The assumptions are that
None is no tab and no work that a worker is given, that atoms are numbered and bonded in pairs, that a loaded structure is a
sequence of atoms, and that a history holds at least one state. Each part has its own invariant:
  - `MainInv` (main window): types; `Lifecycle`, the phase a submission is in - worker waiting, outcome queued, its box open with
    the `finished` signal still to come or already deferred, over - as a statement about where in pool, events and stack its
    one worker, its signals and its box are; `Counted4`, the same for the workers of Step 4; `ClosedIdle`; and `AtHome`, the tab
    of a submission that has not ended is in the window or kept for it. `SubmissionAccounted` alone is not inductive: whether
    a deferred end is still delivered depends on the box under which it was deferred. `SubmissionStaysHome` is
    an action property: a callback first stores the registers of the visible tab, binds the origin, and at the end binds the other
    again, and every other tab's content is the same before and after, whichever of them the registers were bound to;
  - `EditorInv` (Geometry tab): the geometry and each state of the history is `Sound` (its measurements, electrodes and contacts are of
    its own atoms, or Undo could bring back stale ones), and a torsion, a drag, the picks, a preview and the lattice belong to the
    atoms that are there. A drag changes positions only and has dropped the measurements once it moved (`DragFits`), which is
    why the one state pushed at its end restores what was there before. From it follow `NothingStale` and, action by action,
    `EditIsUndoable`;
  - `BindingInv` (tight binding): a request carries the model of its generation, an answer is of the request that is running, and
    while the plot is not that of the parameters a timer, a worker or a queued request is there to change it (`PlotComes`);
  - `ResultInv` (density result): the same of the revision of a surface (`RevisionFits`, `SurfaceComes`), and a basis that was prepared
    is that of its resolution (`BasesFit`).

**Only model-checked**: all liveness (`SuccessIsRecorded`, `RefreshEnds`, `ResultIsRecovered`) and everything with ENABLED, which
the prover does not reach; the parts of `ActsAsShown` and `CancelOnce` that are about the other operations of the Projects
window, whose invariant relates every report, box and worker to the record it was begun with; and those of `Parts` other than
`RegisterSpec` and what `JobStatusProofs` has: `MCParts` builds its molecules with RECURSIVE helpers, of which the prover has none.

## 5. Plan

Done, in this order: store, Steps 1-3, Steps 3-4, one installation, density tasks; then ORCA, job status, verification and search,
settings, Projects window, density window, main window, Geometry tab, result windows, junction, forms and electrodes. Next are proofs:

1. `ProjectsWindow`: `DraftIsLocked` and `OpensWhatWasAsked`, whose invariants relate one register to what was asked.
2. The rest of `ActsAsShown` and `CancelOnce`: `ChartIsOfResult`, `BusyWhileWorking` and `SentOnce`.

## 6. Not modelled

* *Codecs of manifests and the index*: JSON text to records and back with migrations, one pure function each way, read at once
  and unit-tested per version. The modules take a record that was written as the record that is read.
* *Rendering* (`visualization/`, `gui/transmission_*`, themes, layout, image export): no durable or shared state, and nothing a
  finite model would decide. The sessions behind it (torsion, measurement, placement preview, which surface is shown) are in
  `GeometryEditor` and `DensityView`.
* *Numerics in floating point*: positions and roll of electrodes, measured clearances, cube arithmetic, eigenvalues, transmission, validation of
  grids. Modelled is what the workflow decides on their outcome.
* *Text* of inputs and outputs, beyond the lines that `JobInputs` distinguishes; parsers of molecule files.
* *Orbital cubes and recovered geometry*: read-only downloads bound by size and hash.
* *Dialogs that only pick a server and a name*, periodic table, mail notifications.
* *SSH, host-key files, key ring, packaging*: I/O; the one trust question and the saved passwords are in `ProjectsDesktop`,
  `ProjectsWindow` and `ServerSettings`.

Known, and without a property: mutations of the index that overlap in their read/replace interval are excluded by the
documentation; two uploads of one Step-4 attempt that overlap dispatch it twice, against WORKFLOW.md:257, 265 and 269 "at most once"
(section 3), and no run has two submitters of one: `DispatchedOnce` is proved up to that overlap. An end of the process between the
`mkdir` of a density attempt and its record, or while a WBL run is recorded as RUNNING, leaves a task that cannot be retried,
which the models show: it is safe, and no document promises otherwise.

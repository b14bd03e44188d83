----------------------------- MODULE OrcaProject -----------------------------
(***************************************************************************)
(* An ORCA project: the optimization job (submitted or imported), the      *)
(* optional frequency job, the wide-band-limit (WBL) result that the       *)
(* desktop calculates from the optimization's wavefunction, cancellation,  *)
(* resubmission as a new project, and Refresh.                             *)
(*                                                                         *)
(* Clients are desktop installations, or windows of one.  A client runs    *)
(* one operation at a time; one action is one remote call or a run of      *)
(* calls whose interleaving with others cannot matter.  An update of the   *)
(* manifest is one compare-and-swap on its revision: what the window       *)
(* between its check and its rename can do is the subject of               *)
(* ManifestStore and StepSubmission.  Every remote call may fail without   *)
(* an effect or take effect unreported, and the program may end.           *)
(*                                                                         *)
(* app/orca_submission.py, app/orca_wbl.py, app/orca_import.py,            *)
(* app/orca_recovery.py, app/project_recovery.py (_reconcile_orca)         *)
(***************************************************************************)
EXTENDS WblResult

CONSTANTS
    Clients,     \* desktop installations
    MaxFaults    \* bound: failed or unreported remote calls and crashes

ASSUME MaxFaultsAssumption == MaxFaults \in Nat

VARIABLES
    man,      \* the remote manifest, or NoProject
    files,    \* the version of the artifacts in an imported project, or "none"
    source,   \* the version of the external directory an import reads
    jobs,     \* the scheduler's jobs
    killed,   \* jobs the scheduler has accepted a cancellation of
    op,       \* op[c]: the operation of client c and its locals
    faults    \* how many calls have failed

vars == <<man, files, source, jobs, killed, op, faults, wblVars>>

Jobs == {"opt", "freq"}
NoJob == "none"

\* A queued or running job ("live"), and how a job ended: "failed" at the
\* scheduler, or completed there, with what Left says in its files.
JobStates == {"none", "live", "failed", "nonconverged", "unverified", "cut", "bare", "full"}

\* What parse_orca_optimization_output, parse_orca_final_xyz and
\* parse_orca_frequency_evidence find in the files of a job that completed: normal
\* termination, convergence, the message that it was not reached, a geometry of the
\* submitted atoms, a wavefunction; modes, and a Hessian that agrees with them.
Left ==
    [nonconverged |-> {"terminated", "limit", "geometry"},
     unverified |-> {"terminated", "geometry"},
     cut |-> {"converged", "geometry", "modes"},
     bare |-> {"terminated", "converged", "geometry"},
     full |-> {"terminated", "converged", "geometry", "gbw", "modes", "hessian"}]

\* What a stage needs to be accepted.
Proof ==
    [opt |-> {"terminated", "converged", "geometry"},
     freq |-> {"terminated", "modes", "hessian"}]

\* The versions of an external directory: the calculation it holds may be run again.
Versions == {"first", "second"}
External == [first |-> Left["full"], second |-> Left["cut"]]

\* QUEUED stands for QUEUED and RUNNING, which no guard tells apart.
StageStates == {"ABSENT", "NOT_STARTED", "QUEUED", "UNKNOWN",
                "SCHEDULER_COMPLETED", "SUCCEEDED", "FAILED"}
Unfinished == {"QUEUED", "UNKNOWN"}

Stage(st, job) == [st |-> st, job |-> job, cancel |-> FALSE, gbw |-> FALSE]
StageRecord == [st : StageStates, job : Jobs \cup {NoJob}, cancel : BOOLEAN, gbw : BOOLEAN]

Absent == Stage("ABSENT", NoJob)

\* "import" is the version whose checksums an imported project records.
NoProject == [rev |-> 0, import |-> "none", opt |-> Absent, freq |-> Absent,
              wbl |-> [st |-> "ABSENT", run |-> NoResult]]

Manifests == [rev : Nat, import : Versions \cup {"none"}, opt : StageRecord, freq : StageRecord,
              wbl : [st : {"ABSENT", "RUNNING", "SUCCEEDED", "FAILED"}, run : Results]]

Idle == [pc |-> "idle", asked |-> NoJob, view |-> NoProject, cand |-> NoProject,
         then |-> "idle", stage |-> "opt", run |-> NoResult, prev |-> NoResult,
         made |-> FALSE, saw |-> "first", sums |-> "first"]

PCs == {"idle", "asked", "write_initial", "dispatch", "save", "query", "recover",
        "scancel", "replace", "import_digest", "import_shown", "import_copy", "import_register", "import_seen",
        "import_discard", "wbl_begin", "wbl_convert", "wbl_stage", "wbl_recheck",
        "wbl_aside", "wbl_publish", "wbl_commit", "wbl_tidy", "wbl_check",
        "wbl_rollback", "wbl_restore", "wbl_undo", "wbl_clean"}

\* An operation with its locals.
Operations ==
    [pc : PCs, asked : Jobs \cup {NoJob}, view : Manifests, cand : Manifests, then : PCs,
     stage : Jobs, run : Results, prev : Results, made : BOOLEAN,
     saw : Versions, sums : Versions]

TypeOK ==
    /\ man \in Manifests
    /\ files \in Versions \cup {"none"}
    /\ source \in Versions
    /\ jobs \in [Jobs -> JobStates]
    /\ killed \subseteq Jobs
    /\ faults \in 0..MaxFaults
    /\ op \in [Clients -> Operations]
    /\ WblTypeOK

Init ==
    /\ man = NoProject
    /\ files = "none" /\ source = "first"
    /\ jobs = [j \in Jobs |-> "none"] /\ killed = {}
    /\ op = [c \in Clients |-> Idle]
    /\ faults = 0
    /\ WblInit

----------------------------------------------------------------------------
(* Steps of an operation.                                                  *)

At(c, l) == op[c].pc = l
Goto(c, l) == op' = [op EXCEPT ![c].pc = l]

\* Past the dialog, the operation works on the manifest it has just loaded.
Loaded == [Idle EXCEPT !.view = man]
End(c) == op' = [op EXCEPT ![c] = Idle]

\* The operation will persist m and go on at l.
WillSave(c, m, l) ==
    op' = [op EXCEPT ![c].pc = "save", ![c].cand = m, ![c].then = l]

\* A fault: the call fails or its answer is lost.
Breaks == faults < MaxFaults /\ faults' = faults + 1
Works == UNCHANGED faults

\* Mutant: the stored revision is not looked at.
Current_Assumed(c) == TRUE

\* persist_update refuses a candidate whose revision is not the stored one.
Current(c) == man.rev = op[c].view.rev
Bumped(m) == [m EXCEPT !.rev = @ + 1]

\* _active_step_kind: the last stage, in the order optimization, WBL,
\* frequency, that has been started.
Active(m) ==
    IF m.freq.st \notin {"ABSENT", "NOT_STARTED"} THEN "freq"
    ELSE IF m.wbl.st # "ABSENT" THEN "wbl" ELSE "opt"

WithStage(m, s, record) == [m EXCEPT ![s] = record]

\* Changes nothing but the operation.
Local == UNCHANGED <<man, files, source, jobs, killed, faults, wblVars>>

----------------------------------------------------------------------------
(* persist_update as every operation but WBL's uses it: an error ends the  *)
(* operation.  A record that stays QUEUED here may have become RUNNING.     *)

\* Go on with what is now the stored manifest.
Resume(c, m) ==
    LET o == op[c] IN
    op' = [op EXCEPT ![c] =
             IF o.then = "idle" THEN Idle
             ELSE [o EXCEPT !.pc = o.then, !.view = m, !.cand = NoProject, !.then = "idle"]]

Saves(c) ==
    /\ At(c, "save")
    /\ UNCHANGED <<files, source, jobs, killed, wblVars>>
    /\ LET written == Bumped(op[c].cand) IN
       \/ /\ op[c].cand = op[c].view          \* _persist_step: nothing to write
          /\ Resume(c, op[c].view) /\ Works /\ UNCHANGED man
       \/ /\ op[c].cand # op[c].view \/ op[c].cand[op[c].stage].st = "QUEUED"
          /\ Current(c)
          /\ man' = written
          /\ \/ Resume(c, written) /\ Works
             \/ End(c) /\ Breaks              \* written, but the answer is lost
       \/ /\ op[c].cand # op[c].view
          /\ UNCHANGED man /\ End(c)
          /\ \/ ~Current(c) /\ Works          \* RemoteProjectConflict
             \/ Current(c) /\ Breaks

----------------------------------------------------------------------------
(* submit_optimization and _upload_and_submit.                             *)

\* allocate_remote_project_directory decides who owns the name, so one client
\* creates this project.
Create(c) ==
    /\ man = NoProject /\ \A d \in Clients : op[d] = Idle
    /\ op' = [op EXCEPT ![c] = [Idle EXCEPT !.pc = "write_initial"]]
    /\ Local

WriteInitial(c) ==
    /\ At(c, "write_initial")
    /\ LET first == [NoProject EXCEPT !.rev = 1, !.opt = Stage("NOT_STARTED", NoJob)] IN
       \/ /\ man' = first /\ Works
          /\ op' = [op EXCEPT ![c].pc = "dispatch", ![c].view = first, ![c].stage = "opt"]
       \/ /\ man' \in {man, first} /\ Breaks /\ End(c)
    /\ UNCHANGED <<files, source, jobs, killed, wblVars>>

\* sbatch: accepted with a receipt; unknown, or with a receipt that cannot be
\* read, and a job or none; rejected; or the upload before it fails.
Dispatch(c) ==
    /\ At(c, "dispatch")
    /\ UNCHANGED <<man, files, source, killed, wblVars>>
    /\ LET s == op[c].stage
           record(st, job) == WithStage(op[c].view, s, Stage(st, job)) IN
       \/ /\ jobs' = [jobs EXCEPT ![s] = "live"] /\ Works
          /\ WillSave(c, record("QUEUED", s), "idle")
       \/ /\ \/ jobs' = [jobs EXCEPT ![s] = "live"]
             \/ UNCHANGED jobs
          /\ Breaks
          /\ WillSave(c, record("UNKNOWN", NoJob), "idle")
       \/ UNCHANGED jobs /\ Works /\ WillSave(c, record("FAILED", NoJob), "idle")
       \/ UNCHANGED jobs /\ Breaks /\ End(c)

----------------------------------------------------------------------------
(* submit_frequency.                                                       *)

\* append_orca_frequency_step: once, after an accepted optimization.
CanAppendFrequency(m) == m.freq.st = "ABSENT" /\ m.opt.st = "SUCCEEDED"

\* The manifest must be the one on screen, at its revision: a stale request is
\* refused before it changes anything.  The stage is persisted before its
\* directory is made, so it can never be appended twice.
SubmitFrequency(c) ==
    /\ op[c] = Idle
    /\ CanAppendFrequency(man)
    /\ op' = [op EXCEPT ![c] =
                [Loaded EXCEPT !.pc = "save", !.stage = "freq", !.then = "dispatch",
                               !.cand = WithStage(man, "freq", Stage("NOT_STARTED", NoJob))]]
    /\ Local

----------------------------------------------------------------------------
(* Cancellation, and resubmission as a new project.                        *)

\* A request the scheduler takes, refuses, or answers too late.
Scancel(c, j, next) ==
    \/ killed' = killed \cup {j} /\ Works /\ next
    \/ killed' \in {killed, killed \cup {j}} /\ Breaks /\ End(c)

CancelRequested(m, s) == WithStage(m, s, [m[s] EXCEPT !.st = "UNKNOWN", !.cancel = TRUE])

\* _cancel_selected_orca: the question names the active job of the snapshot on
\* screen.
AskCancel(c) ==
    /\ op[c] = Idle
    /\ LET s == Active(man) IN
       /\ s # "wbl" /\ man[s].st \in Unfinished /\ man[s].job # NoJob
       /\ op' = [op EXCEPT ![c] = [Idle EXCEPT !.pc = "asked", !.asked = man[s].job]]
    /\ Local

DismissCancel(c) == At(c, "asked") /\ End(c) /\ Local

\* cancel_active_job: the active job of the manifest as it is loaded now.  (A
\* second request for one job is the same command again.)
CancelActive(c) ==
    /\ At(c, "asked")
    /\ LET s == Active(man) IN
       /\ s # "wbl"
       /\ man[s].st \in Unfinished /\ man[s].job # NoJob /\ man[s].job \notin killed
       /\ Scancel(c, man[s].job,
                  op' = [op EXCEPT ![c] = [Loaded EXCEPT !.pc = "save",
                                                         !.cand = CancelRequested(man, s)]])
    /\ UNCHANGED <<man, files, source, jobs, wblVars>>

\* query_slurm_job_status: what the queue and the accounting say of a job; they
\* may be silent or unreadable about any of them.
Reported(j) ==
    {"UNRESOLVED"} \cup
    CASE jobs[j] = "live" -> {"QUEUED"}
      [] jobs[j] = "failed" -> {"FAILED"}
      [] OTHER -> {"COMPLETED"}

\* Mutant: a prior job the scheduler says nothing certain about is left alone.
PriorEnded_Unresolved(m, s, status) == status # "QUEUED"

PriorEnded(m, s, status) == status \in {"COMPLETED", "FAILED"}

\* _cancel_resubmission_source.  An imported or never submitted optimization has
\* nothing to resubmit; an unfinished stage without a job, such as a running WBL, cannot
\* be resolved; a request from a stale snapshot is refused.
Resubmit(c) ==
    /\ op[c] = Idle
    /\ man.opt.st \notin {"ABSENT", "NOT_STARTED"} /\ man.import = "none"
    /\ LET s == Active(man)
           over == man[s].st \notin Unfinished \cup {"RUNNING"} IN
       /\ op' = [op EXCEPT ![c] = [Loaded EXCEPT !.pc = IF over THEN "replace" ELSE "scancel",
                                                 !.stage = IF s = "freq" THEN "freq" ELSE "opt"]]
       /\ over \/ (s # "wbl" /\ man[s].job # NoJob)
    /\ Local

\* The prior job is asked about once and cancelled if it is queued or running.
ResolvePrior(c) ==
    /\ At(c, "scancel")
    /\ UNCHANGED <<man, files, source, jobs, wblVars>>
    /\ LET s == op[c].stage
           j == op[c].view[s].job IN
       \E status \in Reported(j) :
         \/ /\ PriorEnded(op[c].view, s, status)
            /\ Goto(c, "replace") /\ Works /\ UNCHANGED killed
         \/ /\ status = "QUEUED"
            /\ Scancel(c, j, WillSave(c, CancelRequested(op[c].view, s), "replace"))
         \/ /\ ~PriorEnded(op[c].view, s, status) /\ status = "UNRESOLVED"
            /\ End(c) /\ Works /\ UNCHANGED killed

\* The new project is created and its job dispatched: a project of its own, that
\* goes through the same steps as this one and is not followed here.
DispatchSuccessor(c) == At(c, "replace") /\ End(c) /\ Local

----------------------------------------------------------------------------
(* Refresh: _reconcile_orca.                                               *)

\* The stages a Refresh has anything to do about.
Reconcilable(m, s) ==
    /\ m # NoProject
    /\ m[s].st # "NOT_STARTED"
    /\ m[s].job # NoJob \/ m[s].st \in {"SUCCEEDED", "SCHEDULER_COMPLETED"}

\* A running or failed WBL stage and a stage without a job are only shown; an
\* accepted WBL result is read and shown.  Everything else is asked about, or,
\* when its end is already recorded, assessed again.
Refresh(c) ==
    /\ op[c] = Idle
    /\ LET s == Active(man) IN
       /\ s # "wbl" /\ Reconcilable(man, s)
       /\ op' = [op EXCEPT ![c] =
                   [Loaded EXCEPT !.stage = s,
                                  !.pc = IF man[s].st \in {"SUCCEEDED", "SCHEDULER_COMPLETED"}
                                         THEN "recover" ELSE "query"]]
    /\ Local

Query(c) ==
    /\ At(c, "query")
    /\ UNCHANGED <<man, files, source, jobs, killed, wblVars>>
    /\ LET s == op[c].stage
           v == op[c].view
           as(st) == WithStage(v, s, [v[s] EXCEPT !.st = st, !.cancel = FALSE]) IN
       \/ /\ Works
          /\ \E status \in Reported(v[s].job) :
               CASE status = "COMPLETED" -> WillSave(c, as("SCHEDULER_COMPLETED"), "recover")
                 [] status = "UNRESOLVED" -> End(c)      \* the recorded state is kept
                 [] OTHER -> WillSave(c, as(status), "idle")
       \/ Breaks /\ End(c)

\* What the files show of a stage: of its job, or of an imported result, whose
\* copies are the evidence.
Evidence(m, s) ==
    IF s = "opt" /\ m.import # "none"
    THEN IF files = "none" THEN {} ELSE External[files]
    ELSE IF jobs[m[s].job] \in DOMAIN Left THEN Left[jobs[m[s].job]] ELSE {}

\* Mutant: normal termination is taken for convergence.
Assessed_Terminated(old, s, evidence) ==
    [old EXCEPT !.st = IF "terminated" \in evidence THEN "SUCCEEDED" ELSE "SCHEDULER_COMPLETED",
                !.gbw = "gbw" \in evidence]

\* _recover_orca_optimization, _recover_orca_frequency: an optimization that says it
\* did not converge has failed, whatever else it says.
Assessed(old, s, evidence) ==
    [old EXCEPT
       !.st = IF s = "opt" /\ "limit" \in evidence THEN "FAILED"
              ELSE IF Proof[s] \subseteq evidence THEN "SUCCEEDED"
              ELSE "SCHEDULER_COMPLETED",
       !.gbw = (s = "opt" /\ "gbw" \in evidence)]

Recover(c) ==
    /\ At(c, "recover")
    /\ UNCHANGED <<man, files, source, jobs, killed, wblVars>>
    /\ LET s == op[c].stage
           v == op[c].view IN
       \/ Works /\ WillSave(c, WithStage(v, s, Assessed(v[s], s, Evidence(v, s))), "idle")
       \/ Breaks /\ End(c)

----------------------------------------------------------------------------
(* validate and import_optimization.                                       *)

\* validate_orca_import_optimization, and the four files of a complete candidate.
Importable(evidence) ==
    "gbw" \in evidence /\ Proof["opt"] \subseteq evidence /\ "limit" \notin evidence

\* validate reads the files and their evidence, and only then, one remote command
\* for each, records their checksums.  (One client creates this project.)
Validate(c) ==
    /\ man = NoProject /\ \A d \in Clients : op[d] = Idle
    /\ Importable(External[source])
    /\ op' = [op EXCEPT ![c] = [Idle EXCEPT !.pc = "import_digest", !.saw = source]]
    /\ Local

RecordDigests(c) ==
    /\ At(c, "import_digest")
    /\ UNCHANGED <<man, files, source, jobs, killed, wblVars>>
    /\ \/ op' = [op EXCEPT ![c].pc = "import_shown", ![c].sums = source] /\ Works
       \/ End(c) /\ Breaks

\* The validation stays on screen until the dialog is closed or the input edited.
DiscardValidation(c) == At(c, "import_shown") /\ End(c) /\ Local

\* The checksums are taken again; "changed since validation; nothing was created"
\* leaves the validation on screen.  Otherwise the directory is claimed.
Import(c) ==
    /\ At(c, "import_shown") /\ source = op[c].sums
    /\ Goto(c, "import_copy")
    /\ Local

\* copy_remote_files_with_verified_digests, and the metadata directory.
CopyVerified(version, sums) == version = sums

ImportCopy(c) ==
    /\ At(c, "import_copy")
    /\ UNCHANGED <<man, source, jobs, killed, wblVars>>
    /\ files' = source
    /\ \/ /\ Works
          /\ Goto(c, IF CopyVerified(source, op[c].sums) THEN "import_register"
                     ELSE "import_discard")
       \/ Breaks /\ Goto(c, "import_discard")

Imported(version) == [NoProject EXCEPT !.rev = 1, !.import = version,
                                       !.opt = [Stage("SUCCEEDED", NoJob) EXCEPT !.gbw = TRUE]]

ImportRegister(c) ==
    /\ At(c, "import_register")
    /\ UNCHANGED <<files, source, jobs, killed, wblVars>>
    /\ \/ man' = Imported(op[c].sums) /\ Works /\ Goto(c, "import_seen")
       \/ man' \in {man, Imported(op[c].sums)} /\ Breaks /\ Goto(c, "import_discard")

\* The local index entry: an error here discards the import as well.
ImportSeen(c) ==
    /\ At(c, "import_seen")
    /\ UNCHANGED <<man, files, source, jobs, killed, wblVars>>
    /\ \/ End(c) /\ Works
       \/ Goto(c, "import_discard") /\ Breaks

\* discard_imported_step_inputs: rm -f of the copies, whatever else is there;
\* rmdir leaves a directory that holds a manifest.
ImportDiscard(c) ==
    /\ At(c, "import_discard")
    /\ UNCHANGED <<man, source, jobs, killed, wblVars>>
    /\ End(c)
    /\ \/ files' = "none" /\ Works
       \/ files' \in {files, "none"} /\ Breaks

----------------------------------------------------------------------------
(* OrcaWblService.calculate.                                               *)

\* _validate_project, begin_orca_wbl_step.
WblMayStart(m) ==
    /\ m.opt.st = "SUCCEEDED" /\ m.opt.gbw
    /\ m.wbl.st # "RUNNING"

Accepted(m) == IF m.wbl.st = "SUCCEEDED" THEN m.wbl.run ELSE NoResult

\* The result to be replaced must be the one the user was asked about, otherwise
\* the request is refused.  The manifest that records it is saved before
\* anything else.
BeginWbl(c, r) ==
    /\ op[c] = Idle
    /\ r \notin {op[d].run : d \in Clients} \cup {man.wbl.run}
    /\ WblMayStart(man)
    /\ Preflight(r, Accepted(man))
    /\ LET prev == Accepted(man) IN
       \/ /\ PreserveManifest(r, prev) /\ Works
          /\ op' = [op EXCEPT ![c] = [Loaded EXCEPT !.pc = "wbl_begin", !.run = r, !.prev = prev]]
       \/ /\ prev # NoResult /\ Breaks
          /\ PreserveManifest(r, prev) \/ UNCHANGED wblVars
          /\ End(c)
    /\ UNCHANGED <<man, files, source, jobs, killed>>

WithWbl(m, st, r) == [m EXCEPT !.wbl = [st |-> st, run |-> r]]

\* The manifest is written, and the answer may be lost.  Then it is loaded again:
\* when it is this candidate the operation goes on, otherwise, or when it cannot
\* be loaded, it continues at "failing".
Commits(c, m, next, failing) ==
    \/ /\ Current(c) /\ man' = Bumped(m)
       /\ \/ op' = [op EXCEPT ![c].pc = next, ![c].view = man'] /\ (Works \/ Breaks)
          \/ Breaks /\ failing             \* the connection is lost altogether
    \/ UNCHANGED man /\ failing /\ (IF Current(c) THEN Breaks ELSE Works)

RecordRunning(c) ==
    /\ At(c, "wbl_begin")
    /\ Commits(c, WithWbl(op[c].view, "RUNNING", op[c].run), "wbl_convert", End(c))
    /\ UNCHANGED <<files, source, jobs, killed, wblVars>>

\* The wavefunction is checked, converted and analysed: any of it may fail, the
\* entry in the local index included.
WblFails(c) ==
    /\ At(c, "wbl_convert")
    /\ Goto(c, "wbl_check")
    /\ Local

MakeStaging(c) ==
    /\ At(c, "wbl_convert")
    /\ UNCHANGED <<man, files, source, jobs, killed>>
    /\ \/ /\ SetStaging(op[c].run, "partial") /\ Works
          /\ op' = [op EXCEPT ![c].pc = "wbl_stage", ![c].made = TRUE]
       \/ /\ SetStaging(op[c].run, "partial") \/ UNCHANGED wblVars
          /\ Breaks /\ Goto(c, "wbl_check")

FillStaging(c) ==
    /\ At(c, "wbl_stage")
    /\ UNCHANGED <<man, files, source, jobs, killed>>
    /\ \/ SetStaging(op[c].run, "complete") /\ Works /\ Goto(c, "wbl_recheck")
       \/ /\ SetStaging(op[c].run, "complete") \/ UNCHANGED wblVars
          /\ Breaks /\ Goto(c, "wbl_check")

Recheck(c) ==
    /\ At(c, "wbl_recheck")
    /\ \/ /\ man = op[c].view /\ Works
          /\ Goto(c, IF op[c].prev = NoResult THEN "wbl_publish" ELSE "wbl_aside")
       \/ Goto(c, "wbl_check") /\ (IF man = op[c].view THEN Breaks ELSE Works)
    /\ UNCHANGED <<man, files, source, jobs, killed, wblVars>>

\* A rename whose error may hide that it happened.
Moves(c, move, next, failing) ==
    /\ UNCHANGED <<man, files, source, jobs, killed>>
    /\ \/ move /\ Works /\ Goto(c, next)
       \/ (move \/ UNCHANGED wblVars) /\ Breaks /\ failing

PublishAside(c) ==
    At(c, "wbl_aside") /\ Moves(c, SetAside(op[c].run, op[c].prev), "wbl_publish",
                                Goto(c, "wbl_check"))

PublishNew(c) ==
    At(c, "wbl_publish") /\ Moves(c, MoveIn(op[c].run), "wbl_commit", Goto(c, "wbl_check"))

Commit(c) ==
    /\ At(c, "wbl_commit")
    /\ Commits(c, WithWbl(op[c].view, "SUCCEEDED", op[c].run), "wbl_tidy",
               Goto(c, "wbl_check"))
    /\ UNCHANGED <<files, source, jobs, killed, wblVars>>

\* Clean-up is reported when it fails, and not repeated.
Tidy(c) ==
    /\ At(c, "wbl_tidy")
    /\ \/ /\ op[c].prev # NoResult
          /\ DiscardBackup(op[c].run, op[c].prev) /\ (Works \/ Breaks)
       \/ op[c].prev = NoResult /\ UNCHANGED wblVars /\ Works
       \/ op[c].prev # NoResult /\ UNCHANGED wblVars /\ Breaks
    /\ End(c)
    /\ UNCHANGED <<man, files, source, jobs, killed>>

\* The error handler: nothing is undone unless the manifest is still exactly
\* this run's RUNNING record.
StillOurs(c) == man = op[c].view

CheckFailure(c) ==
    /\ At(c, "wbl_check")
    /\ \/ StillOurs(c) /\ Works /\ Goto(c, "wbl_rollback")
       \/ End(c) /\ (IF StillOurs(c) THEN Breaks ELSE Works)
    /\ UNCHANGED <<man, files, source, jobs, killed, wblVars>>

\* rollback looks at the directories that are there; what it does not recognise
\* it leaves alone.
Rollback(c) ==
    /\ At(c, "wbl_rollback")
    /\ LET r == op[c].run
           prev == op[c].prev
           next == IF backup[r] # NoResult THEN "wbl_restore" ELSE "wbl_undo"
           mine == final = r /\ staging[r] = "absent" IN
       IF NothingToUndo(r, prev) THEN Goto(c, next) /\ Local
       ELSE \/ mine /\ Moves(c, MoveOut(r), next, End(c))
            \/ ~mine /\ End(c) /\ Local

RestorePrevious(c) ==
    At(c, "wbl_restore") /\ Moves(c, Restore(op[c].run, op[c].prev), "wbl_undo", End(c))

\* The previous accepted stage is put back as it was, or the run is FAILED.
Undone(c) ==
    IF op[c].prev = NoResult THEN WithWbl(op[c].view, "FAILED", op[c].run)
    ELSE WithWbl(op[c].view, "SUCCEEDED", op[c].prev)

Undo(c) ==
    /\ At(c, "wbl_undo")
    /\ \/ Current(c) /\ man' = Bumped(Undone(c)) /\ Works /\ Goto(c, "wbl_clean")
       \/ Current(c) /\ man' \in {man, Bumped(Undone(c))} /\ Breaks /\ End(c)
       \/ ~Current(c) /\ UNCHANGED man /\ Works /\ End(c)
    /\ UNCHANGED <<files, source, jobs, killed, wblVars>>

Clean(c) ==
    /\ At(c, "wbl_clean")
    /\ \/ DiscardStaging(op[c].run, op[c].made) /\ Works
       \/ (DiscardStaging(op[c].run, op[c].made) \/ UNCHANGED wblVars) /\ Breaks
    /\ End(c)
    /\ UNCHANGED <<man, files, source, jobs, killed>>

----------------------------------------------------------------------------
(* The program ends; the scheduler; the owner of the external directory.   *)

Crash(c) ==
    /\ op[c] # Idle
    /\ Breaks /\ End(c)
    /\ UNCHANGED <<man, files, source, jobs, killed, wblVars>>

\* A frequency job leaves a verified result ("full") or not.
JobEnds(j) ==
    /\ jobs[j] = "live"
    /\ \E end \in JobStates \ {"none", "live"} :
         /\ j = "freq" => end \notin {"nonconverged", "bare", "unverified"}
         /\ jobs' = [jobs EXCEPT ![j] = end]
    /\ UNCHANGED <<man, files, source, killed, op, faults, wblVars>>

SourceChanges ==
    /\ man = NoProject      \* nothing reads it afterwards
    /\ source = "first" /\ source' = "second"
    /\ UNCHANGED <<man, files, jobs, killed, op, faults, wblVars>>

Submission(c) ==
    \/ Create(c) \/ WriteInitial(c) \/ Dispatch(c) \/ SubmitFrequency(c)
    \/ AskCancel(c) \/ DismissCancel(c) \/ CancelActive(c) \/ Resubmit(c) \/ ResolvePrior(c) \/ DispatchSuccessor(c)

Importing(c) ==
    Validate(c) \/ RecordDigests(c) \/ DiscardValidation(c)
    \/ Import(c) \/ ImportCopy(c) \/ ImportRegister(c) \/ ImportSeen(c) \/ ImportDiscard(c)

WblRun(c) ==
    \/ \E r \in Runs : BeginWbl(c, r)
    \/ RecordRunning(c) \/ WblFails(c) \/ MakeStaging(c) \/ FillStaging(c) \/ Recheck(c)
    \/ PublishAside(c) \/ PublishNew(c) \/ Commit(c) \/ Tidy(c)
    \/ CheckFailure(c) \/ Rollback(c) \/ RestorePrevious(c) \/ Undo(c) \/ Clean(c)

Refreshing(c) == Refresh(c) \/ Query(c) \/ Recover(c)

Next ==
    \/ \E c \in Clients :
         \/ Saves(c) \/ Crash(c)
         \/ Submission(c) \/ Importing(c) \/ WblRun(c) \/ Refreshing(c)
    \/ \E j \in Jobs : JobEnds(j)
    \/ SourceChanges

Spec == Init /\ [][Next]_vars

----------------------------------------------------------------------------
(* Safety.                                                                 *)

\* remote/wbl_results.py:17 "Keep the prior result recoverable until its manifest
\* replacement commits".  What the manifest says of the WBL stage fits what lies in
\* the directories, whatever fails: an accepted result is exactly the one in place;
\* while a run is recorded as running, also when a crash left it so, the result it
\* replaces is in place or set aside, with the manifest that accepted it; and after
\* a failure nothing is left where the next run would refuse to publish.
WblResultKept ==
    /\ man.wbl.st = "SUCCEEDED" => final = man.wbl.run
    /\ \A r \in Runs : man.wbl = [st |-> "RUNNING", run |-> r] /\ snapshot[r] # NoResult =>
           snapshot[r] \in {final, backup[r]}
    /\ man.wbl.st = "FAILED" => final = NoResult

\* A recorded end is the job's real end: what Refresh, cancellation and
\* resubmission write never runs ahead of the scheduler or of ORCA's evidence; and
\* an import, which has no job, is registered only over copies of exactly the files
\* whose checksums it records, also when the external directory changes meanwhile.
EndIsReal ==
    /\ man.import # "none" => files \in {man.import, "none"}
    /\ \A s \in {"opt", "freq"} : LET record == man[s] IN
         ~(s = "opt" /\ man.import # "none") =>
           /\ record.st \in {"SUCCEEDED", "SCHEDULER_COMPLETED"} =>
                  record.job # NoJob /\ jobs[record.job] \in DOMAIN Left
           /\ record.st = "SUCCEEDED" => Proof[s] \subseteq Left[jobs[record.job]]
           /\ record.st = "FAILED" /\ record.job # NoJob =>
                  jobs[record.job] \in {"failed", "nonconverged"}

\* docs/WORKFLOW.md: WBL and frequency follow a verified optimization and never
\* change it: once accepted, its record stays as it is, whatever the other
\* stages, other installations and failures do.
OptimizationIsFinal ==
    [][/\ man.opt.st = "SUCCEEDED" /\ man.import = "none" => man'.opt = man.opt
       /\ man.freq.st = "SUCCEEDED" => man'.freq = man.freq]_vars

\* docs/WORKFLOW.md:57 "any unresolved status or cancellation outcome prevents
\* the replacement submission": when the successor starts, the job its source
\* was waiting for has ended or its cancellation was accepted.
SuccessorWaits ==
    \A c \in Clients : At(c, "replace") =>
        LET record == op[c].view[op[c].stage] IN
        record.job # NoJob => jobs[record.job] # "live" \/ record.job \in killed
=============================================================================

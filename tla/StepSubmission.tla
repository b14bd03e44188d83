--------------------------- MODULE StepSubmission ---------------------------
(***************************************************************************)
(* Steps 1-3 of one remote project: creation and first submission,         *)
(* continuation with Step 2 or 3, and explicit Refresh.                    *)
(*                                                                         *)
(* Clients are desktop installations (or restarts of one); each runs one   *)
(* operation at a time over its own SSH connection, and one action below   *)
(* is one remote call or a run of calls whose interleaving with others     *)
(* cannot matter.  What they share is remote: the manifest, the step       *)
(* directories, and the scheduler, which is external and modelled from     *)
(* what the program asks of it.                                            *)
(*                                                                         *)
(* app/project_submission.py, app/project_recovery.py                      *)
(***************************************************************************)
EXTENDS ProjectTypes

CONSTANTS
    Clients,      \* desktop installations
    StartStep,    \* the first step that is really calculated
    MaxRequeues   \* bound: how often the scheduler may requeue one job

ASSUME StartStepAssumption == StartStep \in StartingSteps
ASSUME MaxRequeuesAssumption == MaxRequeues \in Nat

VARIABLES
    manifest,   \* the remote project.json; revision 0 while there is none
    pc,         \* pc[c]: the point client c has reached in its operation
    view,       \* view[c]: the manifest this operation loaded
    cand,       \* cand[c]: the workflow record the operation will persist
    seen,       \* seen[c]: the project the user of c last had on screen
    step,       \* step[c]: the step the operation is about
    dirs,       \* the step directories that exist (Step 1 lives in the root)
    jobs        \* the scheduler's jobs and the output files they left

vars == <<manifest, pc, view, cand, seen, step, dirs, jobs>>

\* The repository protocol over the same variables.
Store == INSTANCE ManifestStore WITH Contents <- Workflows

Manifests == [rev : Nat, steps : Workflows]

JobStates == {"none", "pending", "running", "completed", "failed"}
Outputs == {"absent", "bad", "good"}
JobRecord == [step : 0..4, st : JobStates, out : Outputs, requeues : 0..MaxRequeues]

NoProject == [rev |-> 0, steps |-> InitialSteps(StartStep)]

PCs == {"idle", "init", "dirs", "claim", "upload", "dispatch",
        "query", "assess", "persist", "rename"}

Init ==
    /\ manifest = NoProject
    /\ pc = [c \in Clients |-> "idle"]
    /\ view = [c \in Clients |-> NoProject]
    /\ cand = [c \in Clients |-> NoProject.steps]
    /\ seen = [c \in Clients |-> NoProject]
    /\ step = [c \in Clients |-> StartStep]
    /\ dirs = {}
    /\ jobs = [j \in Jobs |->
                 [step |-> 0, st |-> "none", out |-> "absent", requeues |-> 0]]

Goto(c, l) == pc' = [pc EXCEPT ![c] = l]

\* The operation will persist view[c] with its own step replaced.
WillPersist(c, state, job, err) ==
    /\ cand' = [cand EXCEPT ![c] = WithStep(view[c].steps, step[c], state, job, err)]
    /\ Goto(c, "persist")

----------------------------------------------------------------------------
(* Creating a project: create_and_submit_project.                          *)

\* allocate_remote_project_directory: the mkdir of the project root decides
\* who owns the name; a client that finds it taken moves on to another name.
AllocateRoot(c) ==
    /\ pc[c] = "idle"
    /\ 1 \notin dirs
    /\ dirs' = dirs \cup {1}
    /\ step' = [step EXCEPT ![c] = StartStep]
    /\ Goto(c, "init")
    /\ UNCHANGED <<manifest, view, cand, seen, jobs>>

\* write_initial, at revision 1, and the local index entry.  When it fails the
\* directory stays behind without a manifest (see Disconnect).
WriteInitial(c) ==
    /\ pc[c] = "init"
    /\ manifest' = [rev |-> 1, steps |-> InitialSteps(StartStep)]
    /\ view' = [view EXCEPT ![c] = manifest']
    /\ seen' = [seen EXCEPT ![c] = manifest']
    /\ Goto(c, "dirs")
    /\ UNCHANGED <<cand, step, dirs, jobs>>

\* required_initial_directories: the folders up to the starting step.
MakeStepDirectories(c) ==
    /\ pc[c] = "dirs"
    /\ dirs' = dirs \cup 1..StartStep
    /\ Goto(c, "upload")
    /\ UNCHANGED <<manifest, view, cand, seen, step, jobs>>

\* The index entry or a mkdir failed after the manifest was written.
InitializationFails(c) ==
    /\ pc[c] = "dirs"
    /\ \E made \in 1..StartStep : dirs' = dirs \cup 1..made
    /\ WillPersist(c, "FAILED", NoJob, "submission")
    /\ UNCHANGED <<manifest, view, seen, step, jobs>>

----------------------------------------------------------------------------
(* Continuing a project: continue_project_with_step2 and _step3.           *)

\* Mutant: a step that only finished at the scheduler may be continued.
CanContinue_Unassessed(steps, s) ==
    /\ steps[s - 1].state \in {"SUCCEEDED", "SCHEDULER_COMPLETED"}
    /\ \A t \in s..4 : steps[t].state = "NOT_STARTED"

\* _validate_step2_continuation_state, _validate_step3_continuation_state.
CanContinue(steps, s) ==
    /\ steps[s - 1].state = "SUCCEEDED"
    /\ \A t \in s..4 : steps[t].state = "NOT_STARTED"
    /\ s = 3 => steps[s].job = NoJob /\ steps[s].err = "none"

\* The request carries the project on screen; the manifest is reloaded and must
\* still have its identity, revision and an eligible state.  A refused request
\* changes nothing.
Continue(c, s) ==
    /\ pc[c] = "idle"
    /\ CanContinue(seen[c].steps, s)
    /\ manifest.rev = seen[c].rev
    /\ CanContinue(manifest.steps, s)
    /\ view' = [view EXCEPT ![c] = manifest]
    /\ step' = [step EXCEPT ![c] = s]
    /\ Goto(c, "claim")
    /\ UNCHANGED <<manifest, cand, seen, dirs, jobs>>

\* Mutant: an existing step directory is adopted, as with mkdir(exist_ok=True).
FreeDirectory_Adopted(s) == s - 1 \in dirs

\* stat and then the exclusive mkdir of the step directory; its parent must exist.
FreeDirectory(s) == s \notin dirs /\ s - 1 \in dirs

ClaimDirectory(c) ==
    /\ pc[c] = "claim"
    /\ FreeDirectory(step[c])
    /\ dirs' = dirs \cup {step[c]}
    /\ Goto(c, "upload")
    /\ UNCHANGED <<manifest, view, cand, seen, step, jobs>>

\* The path exists already or appeared meanwhile: a conflict, nothing is recorded.
ClaimConflict(c) ==
    /\ pc[c] = "claim"
    /\ ~FreeDirectory(step[c])
    /\ Goto(c, "idle")
    /\ UNCHANGED <<manifest, view, cand, seen, step, dirs, jobs>>

\* The connection is lost around the mkdir, which may have happened.
ClaimLost(c) ==
    /\ pc[c] = "claim"
    /\ FreeDirectory(step[c])
    /\ dirs' = dirs \cup {step[c]}
    /\ Goto(c, "idle")
    /\ UNCHANGED <<manifest, view, cand, seen, step, jobs>>

----------------------------------------------------------------------------
(* Submitting the owned step: submit_project_step.                         *)

\* Upload the three inputs and compare their digests with what was read back.
UploadInputs(c) ==
    /\ pc[c] = "upload"
    /\ view[c].steps[step[c]].state = "NOT_STARTED"
    /\ Goto(c, "dispatch")
    /\ UNCHANGED <<manifest, view, cand, seen, step, dirs, jobs>>

UploadFails(c) ==
    /\ pc[c] = "upload"
    /\ view[c].steps[step[c]].state = "NOT_STARTED"
    /\ WillPersist(c, "FAILED", NoJob, "submission")
    /\ UNCHANGED <<manifest, view, seen, step, dirs, jobs>>

\* The scheduler accepts a job for step s under its next identifier.
Accept(j, s) ==
    /\ jobs[j].st = "none"
    /\ \A k \in Jobs : k < j => jobs[k].st # "none"
    /\ jobs' = [jobs EXCEPT ![j] =
                  [step |-> s, st |-> "pending", out |-> "absent", requeues |-> 0]]

\* sbatch succeeded and its receipt names the job.
DispatchAccepted(c) ==
    /\ pc[c] = "dispatch"
    /\ \E j \in Jobs :
         /\ Accept(j, step[c])
         /\ WillPersist(c, "QUEUED", j, "none")
    /\ UNCHANGED <<manifest, view, seen, step, dirs>>

\* Mutant: an ambiguous dispatch is recorded as a confirmed failure.
UnknownOutcome_Failed == "FAILED"

\* The state recorded when the outcome of sbatch cannot be told.
UnknownOutcome == "UNKNOWN"

\* RemoteCommandOutcomeUnknown, or a receipt that cannot be parsed: the job may
\* exist, its identifier is lost, and nothing is tried again.
DispatchUnknown(c) ==
    /\ pc[c] = "dispatch"
    /\ \/ \E j \in Jobs : Accept(j, step[c])
       \/ UNCHANGED jobs
    /\ WillPersist(c, UnknownOutcome, NoJob, "submission")
    /\ UNCHANGED <<manifest, view, seen, step, dirs>>

\* A nonzero exit status, or an executor that could not send the command.
DispatchRejected(c) ==
    /\ pc[c] = "dispatch"
    /\ WillPersist(c, "FAILED", NoJob, "submission")
    /\ UNCHANGED <<manifest, view, seen, step, dirs, jobs>>

----------------------------------------------------------------------------
(* Refresh: refresh_project and the same reconciliation in                 *)
(* discover_and_refresh, for the one active step.                          *)

\* Mutant: a failure is final even when the job it was judged by has more to show.
NothingToAsk_Failed(record) ==
    \/ record.state \in {"SUCCEEDED", "NOT_STARTED", "SKIPPED", "FAILED"}
    \/ record.state = "UNKNOWN" /\ record.job = NoJob

\* _reconcile returns what the manifest already says.
NothingToAsk(record) ==
    \/ record.state \in {"SUCCEEDED", "NOT_STARTED", "SKIPPED"}
    \/ record.state \in {"FAILED", "UNKNOWN"} /\ record.job = NoJob

\* The authoritative manifest is loaded and the active step decides what is
\* read next: nothing, the results, or the scheduler.
BeginRefresh(c) ==
    /\ pc[c] = "idle"
    /\ manifest.rev > 0
    /\ step' = [step EXCEPT ![c] = ActiveStep(manifest.steps, StartStep)]
    /\ view' = [view EXCEPT ![c] = manifest]
    /\ LET record == manifest.steps[step'[c]] IN
         \/ /\ NothingToAsk(record)
            /\ Goto(c, "idle")
            /\ seen' \in {seen, [seen EXCEPT ![c] = manifest]}
         \/ /\ record.state = "SCHEDULER_COMPLETED"
            /\ Goto(c, "assess")
            /\ UNCHANGED seen
         \/ /\ ~NothingToAsk(record)
            /\ record.state # "SCHEDULER_COMPLETED"
            /\ record.job # NoJob
            /\ Goto(c, "query")
            /\ UNCHANGED seen
    /\ UNCHANGED <<manifest, cand, dirs, jobs>>

\* _persist_step writes only a record that differs from the loaded one.
PersistStep(c, state, err) ==
    LET job == view[c].steps[step[c]].job
        new == WithStep(view[c].steps, step[c], state, job, err)
    IN  IF new = view[c].steps
        THEN /\ Goto(c, "idle")
             /\ seen' = [seen EXCEPT ![c] = view[c]]
             /\ UNCHANGED cand
        ELSE /\ WillPersist(c, state, job, err)
             /\ UNCHANGED seen

\* Mutant: COMPLETING is taken for a completed job.
Answers_Completing(st) ==
    CASE st = "pending"   -> {"QUEUED", "ACCOUNTING_PENDING", "UNRESOLVED"}
      [] st = "running"   -> {"RUNNING", "COMPLETED", "UNRESOLVED"}
      [] st = "completed" -> {"COMPLETED", "ACCOUNTING_PENDING", "UNRESOLVED"}
      [] st = "failed"    -> {"FAILED", "ACCOUNTING_PENDING", "UNRESOLVED"}
      [] OTHER            -> {}

\* What squeue and then sacct may say of a job, as slurm_status.py classifies
\* it: accounting lags behind the queue, and a state may be one the program
\* does not know.
Answers(st) ==
    CASE st = "pending"   -> {"QUEUED", "ACCOUNTING_PENDING", "UNRESOLVED"}
      [] st = "running"   -> {"RUNNING", "ACCOUNTING_PENDING", "UNRESOLVED"}
      [] st = "completed" -> {"COMPLETED", "ACCOUNTING_PENDING", "UNRESOLVED"}
      [] st = "failed"    -> {"FAILED", "ACCOUNTING_PENDING", "UNRESOLVED"}
      [] OTHER            -> {}

\* One status query; the answer is acted upon later, when the job may have
\* moved on.
Query(c) ==
    /\ pc[c] = "query"
    /\ \E answer \in Answers(jobs[view[c].steps[step[c]].job].st) :
         \/ /\ answer \in {"QUEUED", "RUNNING"}
            /\ PersistStep(c, answer, "none")
         \/ /\ answer \in {"ACCOUNTING_PENDING", "UNRESOLVED"}
            /\ Goto(c, "idle")
            /\ seen' = [seen EXCEPT ![c] = view[c]]
            /\ UNCHANGED cand
         \/ /\ answer = "FAILED"
            /\ PersistStep(c, "FAILED", "scheduler")
         \/ /\ answer = "COMPLETED"
            /\ Goto(c, "assess")
            /\ UNCHANGED <<cand, seen>>
    /\ UNCHANGED <<manifest, view, step, dirs, jobs>>

\* _assess_completed for Steps 1 and 2, _assess_transport_completed for Step 3:
\* only the two optimizations wait for an output that is not there yet.
Verdict(s, out) ==
    CASE out = "good" -> [state |-> "SUCCEEDED", err |-> "none"]
      [] out = "absent" /\ s < 3 -> [state |-> "SCHEDULER_COMPLETED", err |-> "none"]
      [] OTHER -> [state |-> "FAILED", err |-> "science"]

\* The results of the job are read and judged.
Assess(c) ==
    /\ pc[c] = "assess"
    /\ LET verdict == Verdict(step[c], jobs[view[c].steps[step[c]].job].out)
       IN  PersistStep(c, verdict.state, verdict.err)
    /\ UNCHANGED <<manifest, view, step, dirs, jobs>>

----------------------------------------------------------------------------
(* Recording: persist_update and then mark_seen; see ManifestStore.        *)

PersistCheck(c) ==
    /\ Store!Check(c) \/ Store!CheckFails(c)
    /\ UNCHANGED <<seen, step, dirs, jobs>>

\* The local index may fail after the remote manifest was written.
PersistRename(c) ==
    /\ Store!Rename(c)
    /\ seen' \in {seen, [seen EXCEPT ![c] = manifest']}
    /\ UNCHANGED <<step, dirs, jobs>>

----------------------------------------------------------------------------
(* Faults.                                                                 *)

\* A remote call fails where the operation has nothing more to record: the
\* error is shown, what the user had on screen stays.
Disconnect(c) ==
    /\ pc[c] \in {"init", "claim", "query", "assess", "persist", "rename"}
    /\ Goto(c, "idle")
    /\ UNCHANGED <<manifest, view, cand, seen, step, dirs, jobs>>

\* The process ends and is started again; it knows no project until a refresh.
Crash(c) ==
    /\ Goto(c, "idle")
    /\ seen' = [seen EXCEPT ![c] = NoProject]
    /\ UNCHANGED <<manifest, view, cand, step, dirs, jobs>>

\* The process ends after sbatch was sent and before anything is recorded.
CrashInDispatch(c) ==
    /\ pc[c] = "dispatch"
    /\ \E j \in Jobs : Accept(j, step[c])
    /\ Goto(c, "idle")
    /\ seen' = [seen EXCEPT ![c] = NoProject]
    /\ UNCHANGED <<manifest, view, cand, step, dirs>>

----------------------------------------------------------------------------
(* The scheduler (external): it runs the jobs it accepted.                 *)

JobStep(j, from, st, out, requeues) ==
    /\ jobs[j].st \in from
    /\ jobs' = [jobs EXCEPT ![j].st = st, ![j].out = out, ![j].requeues = requeues]
    /\ UNCHANGED <<manifest, pc, view, cand, seen, step, dirs>>

JobStarts(j) == JobStep(j, {"pending"}, "running", jobs[j].out, jobs[j].requeues)

JobRequeued(j) ==
    /\ jobs[j].requeues < MaxRequeues
    /\ JobStep(j, {"running"}, "pending", jobs[j].out, jobs[j].requeues + 1)

JobCompletes(j) ==
    \E out \in Outputs : JobStep(j, {"running"}, "completed", out, jobs[j].requeues)

JobFails(j) ==
    JobStep(j, {"pending", "running"}, "failed", jobs[j].out, jobs[j].requeues)

\* The shared file system shows an output late, first in part.
OutputSettles(j) ==
    \/ jobs[j].out = "absent" /\ JobStep(j, {"completed"}, "completed", "bad", jobs[j].requeues)
    \/ jobs[j].out \in {"absent", "bad"}
         /\ JobStep(j, {"completed"}, "completed", "good", jobs[j].requeues)

----------------------------------------------------------------------------
Create(c) ==
    AllocateRoot(c) \/ WriteInitial(c) \/ MakeStepDirectories(c) \/ InitializationFails(c)

Claim(c) ==
    (\E s \in {2, 3} : Continue(c, s)) \/ ClaimDirectory(c) \/ ClaimConflict(c) \/ ClaimLost(c)

Submit(c) ==
    UploadInputs(c) \/ UploadFails(c)
    \/ DispatchAccepted(c) \/ DispatchUnknown(c) \/ DispatchRejected(c)

Refresh(c) == BeginRefresh(c) \/ Query(c) \/ Assess(c)

Record(c) == PersistCheck(c) \/ PersistRename(c)

Fault(c) == Disconnect(c) \/ Crash(c) \/ CrashInDispatch(c)

Scheduler(j) ==
    JobStarts(j) \/ JobRequeued(j) \/ JobCompletes(j) \/ JobFails(j) \/ OutputSettles(j)

Next ==
    \/ \E c \in Clients :
         Create(c) \/ Claim(c) \/ Submit(c) \/ Refresh(c) \/ Record(c) \/ Fault(c)
    \/ \E j \in Jobs : Scheduler(j)

Spec == Init /\ [][Next]_vars

----------------------------------------------------------------------------
(* Properties.                                                             *)

TypeOK ==
    /\ manifest \in Manifests
    /\ pc \in [Clients -> PCs]
    /\ view \in [Clients -> Manifests]
    /\ cand \in [Clients -> Workflows]
    /\ seen \in [Clients -> Manifests]
    /\ step \in [Clients -> Steps]
    /\ dirs \subseteq Steps
    /\ jobs \in [Jobs -> JobRecord]

Dispatched(s) == {j \in Jobs : jobs[j].step = s}

\* A step is handed to the scheduler at most once, whatever crashes, unknown
\* outcomes, restarts and rival installations there are: the exclusive mkdir
\* of the step directory is the only thing that ensures it.
AtMostOneDispatch ==
    \A j, k \in Jobs : jobs[j].step = jobs[k].step /\ jobs[j].step # 0 => j = k

\* A continuation is dispatched only on a prerequisite whose scientific success
\* was real, also when manifests of rival clients overwrote each other.
PrerequisiteVerified ==
    \A j \in Jobs : jobs[j].step > StartStep =>
        \E k \in Dispatched(jobs[j].step - 1) : jobs[k].st = "completed" /\ jobs[k].out = "good"

\* A terminal state of the manifest is never reported ahead of the job: the
\* recorded job is a job of that step, it has ended the way the state says, and
\* SUCCEEDED means that its output is good.
TerminalIsReal ==
    \A s \in Steps : LET record == manifest.steps[s] IN
        /\ record.state = "SUCCEEDED" => record.job # NoJob
        /\ record.job # NoJob =>
             LET job == jobs[record.job] IN
             /\ job.step = s
             /\ record.state = "SUCCEEDED" => job.st = "completed" /\ job.out = "good"
             /\ record.state = "SCHEDULER_COMPLETED" => job.st = "completed"
             /\ record.state = "FAILED" => job.st \in {"completed", "failed"}

\* A job that exists is in the manifest, or the manifest says that the step may
\* have one (UNKNOWN) or leaves it with its directory taken (NOT_STARTED): no
\* failure is ever recorded over a job that is really there.
JobAccounted ==
    \A j \in Jobs : jobs[j].step # 0 =>
        LET record == manifest.steps[jobs[j].step] IN
        \/ record.job = j
        \/ record.job = NoJob /\ record.state \in {"NOT_STARTED", "UNKNOWN"}

----------------------------------------------------------------------------
(* Liveness.                                                               *)

\* Fairness: a client finishes the operation it is in, or drops it after the 60 s
\* of gui/status_refresh.py; its user refreshes again and again, as the status
\* messages ask for ("Refresh again"); the scheduler's accounting does not stay
\* silent for ever about a job it is asked about for ever.
QueryAnswered(c) ==
    /\ pc[c] = "query"
    /\ jobs[view[c].steps[step[c]].job].st \in {"completed", "failed"}
    /\ Query(c)
    /\ pc'[c] \in {"persist", "assess"} \/ manifest.steps[step[c]].state = "FAILED"

Fairness ==
    \A c \in Clients :
        /\ SF_vars(BeginRefresh(c))
        /\ WF_vars(Create(c) \/ Submit(c) \/ Query(c) \/ Assess(c) \/ Record(c))
        /\ WF_vars(ClaimDirectory(c) \/ ClaimConflict(c))
        /\ SF_vars(QueryAnswered(c))

FairSpec == Spec /\ Fairness

Faults == \E c \in Clients : Fault(c)

\* When clients stop failing, a recorded job whose good output is there is
\* eventually recorded as SUCCEEDED: refresh never gets stuck on a retained
\* state, a lagging accounting or a verdict reached too early.
SuccessIsRecorded ==
    (<>[][~Faults]_vars) =>
        \A s \in 1..3 :
            (/\ manifest.steps[s].job # NoJob
             /\ jobs[manifest.steps[s].job].st = "completed"
             /\ jobs[manifest.steps[s].job].out = "good")
            ~> manifest.steps[s].state = "SUCCEEDED"
=============================================================================

-------------------------- MODULE TransportAttempts --------------------------
(***************************************************************************)
(* The transport directory of one project: Step 3 with its resource        *)
(* retries, Step 4 with its four kinds of submission, the reconciliation   *)
(* of both, and the two ways of cancelling their jobs.                     *)
(*                                                                         *)
(* All attempts share one remote directory.  What keeps them apart are the *)
(* numbered names of scripts, archives and outputs, the rule that a new    *)
(* file may not exist yet, and the hashes of the manifest; the program     *)
(* holds no lock.                                                          *)
(*                                                                         *)
(* app/transport_submission.py, app/project_recovery.py (Steps 3 and 4),   *)
(* app/task_restart.py, remote/step_inputs.py                              *)
(***************************************************************************)
EXTENDS Naturals, Sequences, FiniteSets

CONSTANTS
    Clients,      \* desktop installations, or overlapping operations of one
    Submitters,   \* those that submit and cancel; the others only refresh
    Jobs,         \* scheduler identifiers, handed out in increasing order
    NoJob,
    Settings,     \* the texts a user may choose for tcontrol
    MaxAttempt    \* bound: the highest attempt number of a step

ASSUME SubmittersAssumption == Submitters \subseteq Clients
ASSUME JobsAssumption == Jobs \subseteq Nat /\ 1 \in Jobs /\ NoJob \notin Jobs
ASSUME MaxAttemptAssumption == MaxAttempt \in Nat \ {0}
ASSUME SettingsAssumption == Settings \cap {"absent", "present"} = {}

VARIABLES
    manifest,   \* project.json: revision and the records of Steps 3 and 4
    pc, view, cand,   \* as in ManifestStore
    seen,       \* seen[c]: the project the user of c has on screen
    op,         \* op[c]: the operation c is in and the uploads it has left
    files,      \* the input files of the directory
    logs,       \* the output files of the attempts
    matrices,   \* the job that wrote the Step-3 matrices and orbitals last
    te,         \* the job that wrote TE.dat last
    jobs

vars == <<manifest, pc, view, cand, seen, op, files, logs, matrices, te, jobs>>
remote == <<files, logs, matrices, te>>

NoFile == "absent"
Present == "present"

\* Names by role, step and attempt: submit.retryNN.sh, submit.aitranss.sh and
\* submit.aitranss.retryNN.sh, tcontrol, tcontrol.attemptNN, self.energy.retryNN.in.
Script(s, n) == <<"script", s, n>>
TControl == <<"tcontrol", 4, 0>>
Archive(n) == <<"archive", 4, n>>
Energy(n) == <<"energy", 4, n>>
FileNames == {Script(s, n) : s \in {3, 4}, n \in 1..MaxAttempt} \cup {TControl}
             \cup {Archive(n) : n \in 1..MaxAttempt} \cup {Energy(n) : n \in 1..MaxAttempt}

States == {"NOT_STARTED", "QUEUED", "RUNNING", "SCHEDULER_COMPLETED",
           "SUCCEEDED", "FAILED", "UNKNOWN"}
\* last_error: "resources" stands for the reviewed timeout and out-of-memory
\* reasons, "overlap" and "format" for the two AITRANSS failures with a retry.
Errors == {"none", "submission", "resources", "overlap", "format", "other"}
Attempts == [job : Jobs, tcontrol : Settings \cup {NoFile}, err : Errors]
Records == [state : States, job : Jobs \cup {NoJob}, err : Errors,
            sched : {"none", "COMPLETED", "CANCELLED", "FAILED"},
            tcontrol : Settings \cup {NoFile}, past : Seq(Attempts)]
Contents == [{3, 4} -> Records]

Store == INSTANCE ManifestStore

Number(record) == Len(record.past) + 1

Fresh == [state |-> "NOT_STARTED", job |-> NoJob, err |-> "none", sched |-> "none",
          tcontrol |-> NoFile, past |-> <<>>]

\* Step 3 has just been submitted as the first job of this directory.
Submitted == [rev |-> 1, steps |-> [s \in {3, 4} |->
    IF s = 3 THEN [Fresh EXCEPT !.state = "QUEUED", !.job = 1] ELSE Fresh]]

JobRecord == [step : {0, 3, 4}, n : 0..MaxAttempt, oom : BOOLEAN, killed : {"no", "abort", "oom"},
              st : {"none", "pending", "running", "completed", "resources", "failed", "cancelled"},
              ran : Settings \cup {NoFile}]
Unused == [step |-> 0, n |-> 0, oom |-> FALSE, killed |-> "no", st |-> "none", ran |-> NoFile]
Idle == [kind |-> "none", step |-> 3, n |-> 1, text |-> NoFile, todo |-> <<>>]

Init ==
    /\ manifest = Submitted
    /\ pc = [c \in Clients |-> "idle"]
    /\ view = [c \in Clients |-> Submitted]
    /\ cand = [c \in Clients |-> Submitted.steps]
    /\ seen = [c \in Clients |-> Submitted]
    /\ op = [c \in Clients |-> Idle]
    /\ files = [f \in FileNames |-> IF f = Script(3, 1) THEN Present ELSE NoFile]
    /\ logs = [s \in {3, 4} |-> [n \in 1..MaxAttempt |-> NoFile]]
    /\ matrices = NoJob
    /\ te = NoJob
    /\ jobs = [j \in Jobs |-> IF j = 1 THEN [Unused EXCEPT !.step = 3, !.n = 1, !.st = "pending"]
                                       ELSE Unused]

Goto(c, l) == pc' = [pc EXCEPT ![c] = l]

ActiveStep(steps) == IF steps[4].state = "NOT_STARTED" THEN 3 ELSE 4

----------------------------------------------------------------------------
(* Submissions.  A kind is one method of TransportSubmissionService.       *)

Kinds == {"retry3", "submit4", "energy4", "settings4"}

\* can_retry_step3, can_continue_step4, can_retry_step4_explicit and its
\* successor, and the restart draft of a cancelled Step 4: what the screen offers.
Offered(kind, steps) ==
    CASE kind = "retry3"  -> ActiveStep(steps) = 3 /\ steps[3].err = "resources"
      [] kind = "submit4" -> ActiveStep(steps) = 3 /\ steps[3].state = "SUCCEEDED"
      [] OTHER            -> ActiveStep(steps) = 4 /\ steps[4].state = "FAILED"

\* The state validators of the service: the third kind is the explicit
\* self-energy retry after a first overlap, and then the reader-compatible one.
Eligible(kind, steps) ==
    CASE kind = "retry3"    -> /\ steps[3].state = "FAILED" /\ steps[3].job # NoJob
                               /\ steps[4].state = "NOT_STARTED"
      [] kind = "submit4"   -> steps[3].state = "SUCCEEDED"
      [] kind = "settings4" -> /\ steps[3].state = "SUCCEEDED"
                               /\ steps[4].state = "FAILED" /\ steps[4].job # NoJob
                               /\ steps[4].sched = "CANCELLED"
      [] kind = "energy4"   ->
           /\ steps[3].state = "SUCCEEDED"
           /\ steps[4].state = "FAILED" /\ steps[4].job # NoJob
           /\ \/ steps[4].err = "overlap" /\ steps[4].past = <<>>
              \/ /\ steps[4].err = "format" /\ steps[4].sched = "COMPLETED"
                 /\ Len(steps[4].past) = 1 /\ steps[4].past[1].err = "overlap"
                 /\ files[Energy(2)] = Present

StepOf(kind) == IF kind = "retry3" THEN 3 ELSE 4

\* Mutant: the next number is the first whose script does not exist yet.
NextNumber_Free(kind, steps) ==
    LET free == {n \in 1..MaxAttempt : files[Script(StepOf(kind), n)] = NoFile}
    IN  IF free = {} THEN MaxAttempt + 1 ELSE CHOOSE n \in free : \A k \in free : n <= k

\* len(attempts) + 2: the number follows from the recorded history alone.
NextNumber(kind, steps) == IF kind = "submit4" THEN 1 ELSE Number(steps[StepOf(kind)]) + 1

Write(f, content) == [file |-> f, content |-> content]

\* The calls that upload, in order; each call stats all its files before it
\* writes one.  The call that writes an existing tcontrol is a replacement.
Uploads(kind, n, text, old) ==
    CASE kind = "retry3"    -> << <<Write(Script(3, n), Present)>> >>
      [] kind = "submit4"   -> << <<Write(TControl, text), Write(Script(4, 1), Present)>> >>
      [] kind = "settings4" -> << <<Write(Archive(n - 1), old)>>, <<Write(TControl, text)>>,
                                  <<Write(Script(4, n), Present)>> >>
      [] kind = "energy4"   -> << <<Write(Archive(n - 1), old)>>, <<Write(Energy(n), Present)>>,
                                  <<Write(TControl, text)>>, <<Write(Script(4, n), Present)>> >>

\* The inputs of the attempt that is to be replaced are still what was recorded.
\* The prior attempt's archive must verify too before a second self-energy retry.
InputsVerified(kind, record, n) ==
    kind \in {"settings4", "energy4"} =>
        /\ files[TControl] = record.tcontrol
        /\ files[Script(4, n - 1)] = Present
        /\ kind = "energy4" /\ n = 3 => files[Archive(1)] = record.past[1].tcontrol

\* Names checked before the first write: the retry's own files and its output,
\* and TE.dat when a self-energy is to be installed.
NamesFree(kind, n) ==
    /\ kind \in {"settings4", "energy4"} =>
         files[Archive(n - 1)] = NoFile /\ files[Script(4, n)] = NoFile
    /\ kind = "energy4" => files[Energy(n)] = NoFile /\ te = NoJob
    /\ kind # "submit4" => logs[StepOf(kind)][n] = NoFile

\* _load_matching_project, the validators and the evidence checks.  A refused
\* request changes nothing.
Begin(c, kind) ==
    /\ c \in Submitters
    /\ pc[c] = "idle"
    /\ Offered(kind, seen[c].steps)
    /\ manifest.rev = seen[c].rev
    /\ Eligible(kind, manifest.steps)
    /\ LET s == StepOf(kind)
           n == NextNumber(kind, manifest.steps)
           old == manifest.steps[s].tcontrol IN
         /\ n <= MaxAttempt
         /\ InputsVerified(kind, manifest.steps[s], n)
         /\ NamesFree(kind, n)
         /\ \E text \in (IF s = 3 THEN {NoFile} ELSE Settings) :
              op' = [op EXCEPT ![c] = [kind |-> kind, step |-> s, n |-> n, text |-> text,
                                       todo |-> Uploads(kind, n, text, old)]]
    /\ view' = [view EXCEPT ![c] = manifest]
    /\ Goto(c, "upload")
    /\ UNCHANGED <<manifest, cand, seen, remote, jobs>>

Batch(c) == Head(op[c].todo)
Replaces(c) == op[c].kind # "submit4" /\ Batch(c)[1].file = TControl

\* Mutant: an upload overwrites what is there.
MayUpload_Always(c) == TRUE

\* upload_new_files_atomically stats every destination before the first write;
\* replace_existing_file_atomically wants the recorded content instead.
MayUpload(c) ==
    IF Replaces(c)
    THEN files[TControl] = view[c].steps[4].tcontrol
    ELSE \A i \in DOMAIN Batch(c) : files[Batch(c)[i].file] = NoFile

CheckFiles(c) ==
    /\ pc[c] = "upload"
    /\ Goto(c, IF MayUpload(c) THEN "put" ELSE "idle")
    /\ UNCHANGED <<manifest, view, cand, seen, op, remote, jobs>>

\* The first k writes of the call.
Written(c, k) ==
    [f \in FileNames |->
        IF \E i \in 1..k : Batch(c)[i].file = f
        THEN (CHOOSE w \in {Batch(c)[i] : i \in 1..k} : w.file = f).content
        ELSE files[f]]

\* Temporary file, rename and read-back of each file.
PutFiles(c) ==
    /\ pc[c] = "put"
    /\ files' = Written(c, Len(Batch(c)))
    /\ op' = [op EXCEPT ![c].todo = Tail(@)]
    /\ Goto(c, IF Tail(op[c].todo) = <<>> THEN "dispatch" ELSE "upload")
    /\ UNCHANGED <<manifest, view, cand, seen, logs, matrices, te, jobs>>

\* The connection or the read-back fails: what was written stays, nothing is
\* recorded.
PutFails(c) ==
    /\ pc[c] = "put"
    /\ \E k \in 0..Len(Batch(c)) : files' = Written(c, k)
    /\ Goto(c, "idle")
    /\ UNCHANGED <<manifest, view, cand, seen, op, logs, matrices, te, jobs>>

----------------------------------------------------------------------------
(* Dispatch.                                                               *)

Accept(j, s, n) ==
    /\ jobs[j].st = "none"
    /\ \A k \in Jobs : k < j => jobs[k].st # "none"
    /\ jobs' = [jobs EXCEPT ![j] = [Unused EXCEPT !.step = s, !.n = n, !.st = "pending"]]

\* _archive_current_attempt and the prior_attempt of the Step-4 retries; the
\* first submission of Step 4 has nothing to archive.
\* Mutant: a retry leaves the history as it was.
History_Dropped(c, record) == record.past

History(c, record) ==
    IF op[c].kind = "submit4" THEN record.past
    ELSE Append(record.past, [job |-> record.job, tcontrol |-> record.tcontrol, err |-> record.err])

\* The record of the new attempt, persisted in place of the old one.
WillRecord(c, state, job, err) ==
    LET old == view[c].steps[op[c].step]
        new == [state |-> state, job |-> job, err |-> err, sched |-> "none",
                tcontrol |-> op[c].text, past |-> History(c, old)]
    IN  /\ cand' = [cand EXCEPT ![c] = [view[c].steps EXCEPT ![op[c].step] = new]]
        /\ Goto(c, "persist")

DispatchAccepted(c) ==
    /\ pc[c] = "dispatch"
    /\ \E j \in Jobs : Accept(j, op[c].step, op[c].n) /\ WillRecord(c, "QUEUED", j, "none")
    /\ UNCHANGED <<manifest, view, seen, op, remote>>

\* The outcome is lost or the receipt unreadable.
DispatchUnknown(c) ==
    /\ pc[c] = "dispatch"
    /\ (\E j \in Jobs : Accept(j, op[c].step, op[c].n)) \/ UNCHANGED jobs
    /\ WillRecord(c, "UNKNOWN", NoJob, "submission")
    /\ UNCHANGED <<manifest, view, seen, op, remote>>

\* A rejected retry of Step 4 is recorded as failed; a rejected Step-3 retry or
\* first Step 4 is not recorded at all, and its files stay.
DispatchRejected(c) ==
    /\ pc[c] = "dispatch"
    /\ IF op[c].kind \in {"retry3", "submit4"}
       THEN Goto(c, "idle") /\ UNCHANGED cand
       ELSE WillRecord(c, "FAILED", NoJob, "submission")
    /\ UNCHANGED <<manifest, view, seen, op, remote, jobs>>

\* The process ends, or the command cannot be sent, at the dispatch.
DispatchCrash(c) ==
    /\ pc[c] = "dispatch"
    /\ \E j \in Jobs : Accept(j, op[c].step, op[c].n)
    /\ Goto(c, "idle")
    /\ UNCHANGED <<manifest, view, cand, seen, op, remote>>

----------------------------------------------------------------------------
(* Refresh.                                                                *)

\* Mutant: the first attempt's output is read whatever the attempt.
Output_First(c) == logs[op[c].step][1]

\* The output file the record of the loaded attempt owns.
Output(c) == logs[op[c].step][Number(view[c].steps[op[c].step])]

BeginRefresh(c) ==
    /\ pc[c] = "idle"
    /\ LET s == ActiveStep(manifest.steps)
           record == manifest.steps[s] IN
         IF record.state = "SUCCEEDED" \/ record.job = NoJob
         THEN /\ seen' = [seen EXCEPT ![c] = manifest]
              /\ UNCHANGED <<pc, view, op>>
         ELSE /\ view' = [view EXCEPT ![c] = manifest]
              /\ op' = [op EXCEPT ![c] = [Idle EXCEPT !.step = s]]
              /\ Goto(c, "query")
              /\ UNCHANGED seen
    /\ UNCHANGED <<manifest, cand, remote, jobs>>

\* _persist_step: an unchanged record is not written again.
PersistStep(c, state, err, sched) ==
    LET s == op[c].step
        new == [view[c].steps EXCEPT ![s].state = state, ![s].err = err, ![s].sched = sched]
    IN  IF new = view[c].steps
        THEN Goto(c, "idle") /\ seen' = [seen EXCEPT ![c] = view[c]] /\ UNCHANGED cand
        ELSE Goto(c, "persist") /\ cand' = [cand EXCEPT ![c] = new] /\ UNCHANGED seen

Retain(c) == Goto(c, "idle") /\ seen' = [seen EXCEPT ![c] = view[c]] /\ UNCHANGED cand

\* A failed scheduler state: Step 3 refines it to the resource reasons, Step 4
\* looks for the reviewed AITRANSS failures first.
FailedError(c, st) ==
    IF op[c].step = 3
    THEN IF st = "resources" \/ Output(c) = "oom" THEN "resources" ELSE "other"
    ELSE IF Output(c) \in {"overlap", "format"} THEN Output(c) ELSE "other"

\* The status query and what follows from it.  Accounting may lag, then the
\* record is retained; a scheduler-completed Step 4 is never taken back.
Query(c) ==
    /\ pc[c] = "query"
    /\ LET record == view[c].steps[op[c].step]
           st == jobs[record.job].st
           durable == record.state = "SCHEDULER_COMPLETED" IN
         \/ st # "none" /\ Retain(c)
         \/ /\ ~durable /\ st \in {"pending", "running"}
            /\ PersistStep(c, IF st = "pending" THEN "QUEUED" ELSE "RUNNING", "none", record.sched)
         \/ st = "completed" /\ Goto(c, "assess") /\ UNCHANGED <<cand, seen>>
         \/ /\ st \in {"resources", "failed", "cancelled"}
            /\ PersistStep(c, "FAILED", FailedError(c, st),
                           IF st = "cancelled" THEN "CANCELLED" ELSE "FAILED")
    /\ UNCHANGED <<manifest, view, op, remote, jobs>>

\* Mutant: a result file is enough, whoever wrote it.
TransmissionDone_ResultOnly(c) == te # NoJob

\* _read_validated_transmission_result: the positive markers in the output of
\* this attempt, then the active tcontrol and the result it names.
TransmissionDone(c) == Output(c) = "done" /\ te # NoJob /\ files[TControl] # NoFile

\* _assess_transport_completed and _assess_transmission_completed.
Assess(c) ==
    /\ pc[c] = "assess"
    /\ \/ /\ op[c].step = 3
          /\ IF Output(c) = "done" /\ matrices # NoJob
             THEN PersistStep(c, "SUCCEEDED", "none", "COMPLETED")
             ELSE PersistStep(c, "FAILED", "other", "COMPLETED")
       \/ /\ op[c].step = 4
          /\ Output(c) \in {"overlap", "format"}
          /\ PersistStep(c, "FAILED", Output(c), "COMPLETED")
       \/ /\ op[c].step = 4
          /\ Output(c) \notin {"overlap", "format"}
          /\ IF TransmissionDone(c)
             THEN PersistStep(c, "SUCCEEDED", "none", "COMPLETED")
             ELSE PersistStep(c, "SCHEDULER_COMPLETED", "none", "COMPLETED")
    /\ UNCHANGED <<manifest, view, op, remote, jobs>>

----------------------------------------------------------------------------
(* Cancellation.                                                           *)

\* cancel_active_step3_oom_job: not the revision but the attempt must be the one
\* on screen, the job must be running, and its own output must show the
\* out-of-memory signature.
BeginOomCancel(c) ==
    /\ c \in Submitters
    /\ pc[c] = "idle"
    /\ ActiveStep(manifest.steps) = 3
    /\ ActiveStep(seen[c].steps) = 3 /\ seen[c].steps[3].state = "RUNNING"
    /\ manifest.steps[3].job = seen[c].steps[3].job
    /\ Number(manifest.steps[3]) = Number(seen[c].steps[3])
    /\ manifest.steps[3].state \in {"QUEUED", "RUNNING"}
    /\ jobs[manifest.steps[3].job].st = "running"
    /\ view' = [view EXCEPT ![c] = manifest]
    /\ op' = [op EXCEPT ![c] = [Idle EXCEPT !.kind = "oom"]]
    /\ Goto(c, "evidence")
    /\ UNCHANGED <<manifest, cand, seen, remote, jobs>>

OomEvidence(c) ==
    /\ pc[c] = "evidence"
    /\ Goto(c, IF Output(c) = "oom" THEN "kill" ELSE "idle")
    /\ UNCHANGED <<manifest, view, cand, seen, op, remote, jobs>>

\* abort_and_prepare of a restart draft: the revision and the attempt on screen,
\* recorded as active; the inputs are read before anything is cancelled.
BeginAbort(c) ==
    /\ c \in Submitters
    /\ pc[c] = "idle"
    /\ manifest.rev = seen[c].rev
    /\ LET s == ActiveStep(manifest.steps) IN
         /\ s = ActiveStep(seen[c].steps)
         /\ manifest.steps[s].state \in {"QUEUED", "RUNNING"}
         /\ manifest.steps[s].job = seen[c].steps[s].job
         /\ jobs[manifest.steps[s].job].st \in {"pending", "running"}
         /\ s = 4 => files[TControl] = manifest.steps[4].tcontrol
         /\ op' = [op EXCEPT ![c] = [Idle EXCEPT !.kind = "abort", !.step = s]]
    /\ view' = [view EXCEPT ![c] = manifest]
    /\ Goto(c, "kill")
    /\ UNCHANGED <<manifest, cand, seen, remote, jobs>>

\* One scancel of the exact job, which may have ended meanwhile or never get it.
Kill(c) ==
    /\ pc[c] = "kill"
    /\ LET j == view[c].steps[op[c].step].job IN
         \/ /\ jobs[j].st \in {"pending", "running"}
            /\ jobs' = [jobs EXCEPT ![j].st = "cancelled", ![j].killed = op[c].kind]
         \/ UNCHANGED jobs
    /\ Goto(c, "idle")
    /\ UNCHANGED <<manifest, view, cand, seen, op, remote>>

----------------------------------------------------------------------------
(* Recording and faults.                                                   *)

PersistCheck(c) ==
    /\ Store!Check(c) \/ Store!CheckFails(c)
    /\ UNCHANGED <<seen, op, remote, jobs>>

PersistRename(c) ==
    /\ Store!Rename(c)
    /\ seen' \in {seen, [seen EXCEPT ![c] = manifest']}
    /\ UNCHANGED <<op, remote, jobs>>

\* A lost connection or the end of the process anywhere else: nothing is undone.
Interrupt(c) ==
    /\ pc[c] # "idle"
    /\ Goto(c, "idle")
    /\ UNCHANGED <<manifest, view, cand, seen, op, remote, jobs>>

----------------------------------------------------------------------------
(* The scheduler and the two programs it runs (external).                  *)

Run(j, st) == jobs' = [jobs EXCEPT ![j].st = st]
Local == <<manifest, pc, view, cand, seen, op, files>>

\* AITRANSS reads tcontrol when it starts; the output file is truncated.
JobStarts(j) ==
    /\ jobs[j].st = "pending"
    /\ jobs' = [jobs EXCEPT ![j].st = "running",
                            ![j].ran = IF jobs[j].step = 4 THEN files[TControl] ELSE NoFile]
    /\ logs' = [logs EXCEPT ![jobs[j].step][jobs[j].n] = "started"]
    /\ UNCHANGED <<Local, matrices, te>>

\* A task of Step 3 is killed for memory while the job goes on.
JobOom(j) ==
    /\ jobs[j].st = "running" /\ jobs[j].step = 3 /\ ~jobs[j].oom
    /\ jobs' = [jobs EXCEPT ![j].oom = TRUE]
    /\ logs' = [logs EXCEPT ![3][jobs[j].n] = "oom"]
    /\ UNCHANGED <<Local, matrices, te>>

\* Exit code 0, with or without the evidence of success.
JobCompletes(j) ==
    /\ jobs[j].st = "running" /\ ~jobs[j].oom
    /\ Run(j, "completed")
    /\ \E log \in (IF jobs[j].step = 3 THEN {"started", "done"}
                                       ELSE {"started", "done", "overlap", "format"}) :
         /\ logs' = [logs EXCEPT ![jobs[j].step][jobs[j].n] = log]
         /\ matrices' = IF jobs[j].step = 3 THEN j ELSE matrices
         /\ te' = IF jobs[j].step = 4 /\ log = "done" THEN j ELSE te
    /\ UNCHANGED Local

\* Another end; results may have been written before it.
JobFails(j) ==
    /\ jobs[j].st \in {"pending", "running"}
    /\ \E st \in {"resources", "failed", "cancelled"} : Run(j, st)
    /\ \/ UNCHANGED <<matrices, te>>
       \/ jobs[j].st = "running" /\ jobs[j].step = 3 /\ matrices' = j /\ UNCHANGED te
       \/ jobs[j].st = "running" /\ jobs[j].step = 4 /\ te' = j /\ UNCHANGED matrices
    /\ UNCHANGED <<Local, logs>>

----------------------------------------------------------------------------
Submit(c) ==
    (\E kind \in Kinds : Begin(c, kind)) \/ CheckFiles(c) \/ PutFiles(c) \/ PutFails(c)
    \/ DispatchAccepted(c) \/ DispatchUnknown(c) \/ DispatchRejected(c) \/ DispatchCrash(c)
Refresh(c) == BeginRefresh(c) \/ Query(c) \/ Assess(c)
Cancel(c) == BeginOomCancel(c) \/ OomEvidence(c) \/ BeginAbort(c) \/ Kill(c)
Record(c) == PersistCheck(c) \/ PersistRename(c)
Scheduler(j) == JobStarts(j) \/ JobOom(j) \/ JobCompletes(j) \/ JobFails(j)

Next ==
    \/ \E c \in Clients : Submit(c) \/ Refresh(c) \/ Cancel(c) \/ Record(c) \/ Interrupt(c)
    \/ \E j \in Jobs : Scheduler(j)

Spec == Init /\ [][Next]_vars

----------------------------------------------------------------------------
(* Properties.                                                             *)

Ops == [kind : Kinds \cup {"none", "oom", "abort"}, step : {3, 4}, n : 1..MaxAttempt,
        text : Settings \cup {NoFile},
        todo : Seq(Seq([file : FileNames, content : Settings \cup {NoFile, Present}]))]

Manifests == [rev : Nat, steps : Contents]

TypeOK ==
    /\ manifest \in Manifests
    /\ pc \in [Clients -> {"idle", "upload", "put", "dispatch", "query", "assess",
                           "evidence", "kill", "persist", "rename"}]
    /\ view \in [Clients -> Manifests]
    /\ cand \in [Clients -> Contents]
    /\ seen \in [Clients -> Manifests]
    /\ op \in [Clients -> Ops]
    /\ files \in [FileNames -> Settings \cup {NoFile, Present}]
    /\ logs \in [{3, 4} -> [1..MaxAttempt ->
                   {NoFile, "started", "oom", "done", "overlap", "format"}]]
    /\ matrices \in Jobs \cup {NoJob} /\ te \in Jobs \cup {NoJob}
    /\ jobs \in [Jobs -> JobRecord]

\* docs/WORKFLOW.md:265 "either pre-existing file is a typed conflict. Submit one
\* Slurm task [...] through absolute sbatch at most once": an attempt is handed
\* to the scheduler at most once, whatever was lost or left behind before.
AttemptDispatchedOnce ==
    \A j, k \in Jobs :
        jobs[j].step # 0 /\ jobs[j].step = jobs[k].step /\ jobs[j].n = jobs[k].n => j = k

\* At most one job of the directory is alive: all attempts read and write the
\* same files, so a second one would corrupt the results of the first.
OneLiveJob ==
    \A j, k \in Jobs :
        jobs[j].st \in {"pending", "running"} /\ jobs[k].st \in {"pending", "running"} => j = k

\* A successful Step 4 shows the result of the job it names, computed with the
\* recorded tcontrol from the matrices of the Step-3 job it names.
ResultIsOwn ==
    LET s3 == manifest.steps[3]
        s4 == manifest.steps[4]
    IN  s4.state = "SUCCEEDED" =>
          /\ te = s4.job /\ jobs[s4.job].ran = s4.tcontrol
          /\ s3.state = "SUCCEEDED" /\ matrices = s3.job

\* The history is true: an archived attempt names its own job, which has ended,
\* and its preserved tcontrol is the one that job ran with; the current record
\* names a job of the current attempt.
AttemptsKept ==
    \A s \in {3, 4} : LET record == manifest.steps[s] IN
        /\ record.job # NoJob => jobs[record.job].step = s /\ jobs[record.job].n = Number(record)
        /\ \A i \in DOMAIN record.past :
             LET old == record.past[i] IN
             /\ jobs[old.job].step = s /\ jobs[old.job].n = i
             /\ jobs[old.job].st \in {"completed", "resources", "failed", "cancelled"}
             /\ s = 4 => /\ files[Archive(i)] = old.tcontrol
                         /\ jobs[old.job].ran \in {NoFile, old.tcontrol}

\* The program kills a job for want of memory only when that very job has shown
\* the signature, not an earlier attempt in the same directory.
OomCancelIsOwn == \A j \in Jobs : jobs[j].killed = "oom" => jobs[j].oom
=============================================================================

----------------------------- MODULE DensityTask -----------------------------
(***************************************************************************)
(* app/density_workflow.py: one electron-density task.  Its components run *)
(* one after the other in one scheduler job; its remote density.json keeps *)
(* the attempts, and every installation keeps a local copy of the last     *)
(* manifest it wrote, whose receipt can repair an interrupted update.      *)
(*                                                                         *)
(* Earlier attempts of a manifest never change, so only the last one is    *)
(* kept here.  Messages and the three component lamps are left out.        *)
(***************************************************************************)
EXTENDS Naturals, FiniteSets

CONSTANTS
    Installations,   \* desktop installations, each with its local cache
    Workers,         \* operations that may overlap: windows, tabs, sessions
    Home,            \* Home[w]: the installation worker w runs in
    Offered,         \* bound: Offered[w], the operations worker w performs
    NumComponents,   \* COMPONENTS of a task, in the order they run
    Jobs,            \* scheduler identifiers
    NoJob,
    Results,         \* bound: the outputs a component may leave behind
    MaxAttempt       \* bound: the highest attempt number

Operations == {"submit", "refresh", "recover", "retry", "cancel"}

ASSUME HomeAssumption == Home \in [Workers -> Installations]
ASSUME OfferedAssumption == Offered \in [Workers -> SUBSET Operations]
ASSUME ComponentsAssumption == NumComponents \in Nat \ {0}
ASSUME JobsAssumption == NoJob \notin Jobs
ASSUME ResultsAssumption ==
    Results \subseteq {"none", "ran", "parsed", "skewed", "valid"}
ASSUME MaxAttemptAssumption == MaxAttempt \in Nat \ {0}

VARIABLES
    manifest,    \* the last attempt recorded in density.json
    cache,       \* cache[i]: the same, in the local copy of installation i
    dirs,        \* the attempts whose directory exists
    out,         \* out[n][c]: the output of component c in that directory
    jobs,
    pc, op,      \* where worker w is and in which operation
    view, cand,  \* the record it works on, and the one it is about to save
    after,       \* where it goes on when that is saved
    receipts,    \* history: which installation recorded which attempt's receipt
    overlapped   \* history: two workers were in the write window together

durable == <<manifest, cache, dirs>>
locals == <<op, view, cand, after>>
cluster == <<out, jobs>>
history == <<receipts, overlapped>>
vars == <<durable, cluster, pc, locals, history>>

Components == 1..NumComponents
Numbers == 1..MaxAttempt

\* What a component leaves behind: a file missing; files the script accepts but
\* parse_density_output does not; a complete output whose cube does not fit;
\* one that validates, on the grid of Total ("valid") or on one that passes the
\* tolerance but is not the same ("skewed").
Outputs == {"none", "ran", "parsed", "skewed", "valid"}
Ready == {"parsed", "skewed", "valid"}
Validates == {"skewed", "valid"}

States == {"NONE", "UNKNOWN", "QUEUED", "RUNNING", "UNRESOLVED", "FAILED",
           "CANCELLED", "OUTPUT_READY", "COMPLETE"}

\* One attempt: "from" is the attempt whose directory holds a component, "flag"
\* is result_validation_failed.  Number 0 stands for a missing density.json.
Attempts == [number : 0..MaxAttempt, state : States, job : Jobs \cup {NoJob},
             from : [Components -> 0..MaxAttempt], valid : SUBSET Components,
             flag : BOOLEAN]

NoTask == [number |-> 0, state |-> "NONE", job |-> NoJob,
           from |-> [c \in Components |-> 0], valid |-> {}, flag |-> FALSE]

\* "left": the components of a job that have not ended yet.
JobRecord == [attempt : 0..MaxAttempt, left : SUBSET Components,
              st : {"none", "pending", "running", "completed", "failed", "cancelled"}]
Unused == [attempt |-> 0, left |-> {}, st |-> "none"]

Labels == {"idle", "refresh", "check", "rename", "verify", "dispatch",
           "recover", "retry", "cancel"}

Init ==
    /\ manifest = NoTask
    /\ cache = [i \in Installations |-> NoTask]
    /\ dirs = {}
    /\ out = [n \in Numbers |-> [c \in Components |-> "none"]]
    /\ jobs = [j \in Jobs |-> Unused]
    /\ pc = [w \in Workers |-> "idle"]
    /\ op = [w \in Workers |-> "refresh"]
    /\ view = [w \in Workers |-> NoTask]
    /\ cand = [w \in Workers |-> NoTask]
    /\ after = [w \in Workers |-> "idle"]
    /\ receipts = {}
    /\ overlapped = FALSE

Goto(w, l) == pc' = [pc EXCEPT ![w] = l]

\* The operation ends, and its locals with it.
Return(w) ==
    /\ Goto(w, "idle")
    /\ op' = [op EXCEPT ![w] = "refresh"]
    /\ view' = [view EXCEPT ![w] = NoTask]
    /\ cand' = [cand EXCEPT ![w] = NoTask]
    /\ after' = [after EXCEPT ![w] = "idle"]

Finish(w) == Return(w) /\ UNCHANGED <<durable, cluster, history>>

\* The worker will save "new" and then go on at l.
WillSave(w, new, l) ==
    /\ cand' = [cand EXCEPT ![w] = new]
    /\ after' = [after EXCEPT ![w] = l]
    /\ Goto(w, "check")

\* What the task's outputs say of one component.
Output(task, c) == out[task.from[c]][c]

----------------------------------------------------------------------------
(* _save: compare the digest of what was loaded, write a temporary file,   *)
(* rename it over density.json, read it back, then write the local copy.   *)

\* Mutant: the manifest is replaced without the comparison.
SameDigest_Any(w) == TRUE

\* expected_existing_digest; for a new task, that density.json does not exist.
SameDigest(w) == manifest = view[w]

InWindow(w) == pc[w] \in {"rename", "verify"}

Check(w) ==
    /\ pc[w] = "check"
    /\ SameDigest(w)
    /\ Goto(w, "rename")
    /\ overlapped' = (overlapped \/ \E x \in Workers \ {w} : InWindow(x))
    /\ UNCHANGED <<durable, cluster, locals, receipts>>

CheckFails(w) ==
    /\ pc[w] = "check"
    /\ ~SameDigest(w)
    /\ Finish(w)

Rename(w) ==
    /\ pc[w] = "rename"
    /\ manifest' = cand[w]
    /\ Goto(w, "verify")
    /\ UNCHANGED <<cache, dirs, cluster, locals, history>>

\* The digest read back is the written one: _cache_manifest, and the task the
\* operation continues with.
Verify(w) ==
    /\ pc[w] = "verify"
    /\ manifest = cand[w]
    /\ cache' = [cache EXCEPT ![Home[w]] = cand[w]]
    /\ \/ after[w] = "idle" /\ Return(w)
       \/ /\ after[w] # "idle"
          /\ Goto(w, after[w])
          /\ view' = [view EXCEPT ![w] = cand[w]]
          /\ UNCHANGED <<op, cand, after>>
    /\ UNCHANGED <<manifest, dirs, cluster, history>>

VerifyFails(w) ==
    /\ pc[w] = "verify"
    /\ manifest # cand[w]
    /\ Finish(w)

----------------------------------------------------------------------------
(* submit and the common _prepare_dispatch.                                *)

\* The record saved before the dispatch: components that are not valid start
\* anew in the directory of attempt n.
Prepared(n, from, valid) ==
    [number |-> n, state |-> "UNKNOWN", job |-> NoJob,
     from |-> [c \in Components |-> IF c \in valid THEN from[c] ELSE n],
     valid |-> valid, flag |-> FALSE]

\* The exclusive mkdir of the task directory makes the worker its only creator;
\* attempt01 and the inputs follow.
Submit(w) ==
    /\ pc[w] = "idle"
    /\ "submit" \in Offered[w]
    /\ dirs = {}
    /\ dirs' = {1}
    /\ op' = [op EXCEPT ![w] = "submit"]
    /\ view' = [view EXCEPT ![w] = NoTask]
    /\ WillSave(w, Prepared(1, NoTask.from, {}), "dispatch")
    /\ UNCHANGED <<manifest, cache, cluster, history>>

\* The scheduler accepts a job for the components of the attempt.
Accept(w, j) ==
    /\ jobs[j].st = "none"
    /\ jobs' = [jobs EXCEPT ![j] =
                  [attempt |-> view[w].number, left |-> Components \ view[w].valid,
                   st |-> "pending"]]

\* Mutant: the receipt reaches the local copy only with the saved manifest.
ReceiptCached_Later(w) == cache

\* _cache_manifest(final), before _save(final).
ReceiptCached(w) == [cache EXCEPT ![Home[w]] = cand'[w]]

\* sbatch returned a receipt.
DispatchAccepted(w) ==
    /\ pc[w] = "dispatch"
    /\ \E j \in Jobs :
         /\ Accept(w, j)
         /\ WillSave(w, [view[w] EXCEPT !.state = "QUEUED", !.job = j], "idle")
    /\ cache' = ReceiptCached(w)
    /\ receipts' = receipts \cup {<<Home[w], view[w].number>>}
    /\ UNCHANGED <<manifest, dirs, out, op, view, overlapped>>

\* sbatch refused the request.
DispatchRejected(w) ==
    /\ pc[w] = "dispatch"
    /\ WillSave(w, [view[w] EXCEPT !.state = "FAILED"], "idle")
    /\ cache' = ReceiptCached(w)
    /\ UNCHANGED <<manifest, dirs, cluster, op, view, history>>

\* The job exists, its receipt is lost or unreadable: the attempt stays UNKNOWN.
DispatchLost(w) ==
    /\ pc[w] = "dispatch"
    /\ \E j \in Jobs : Accept(w, j)
    /\ Return(w)
    /\ UNCHANGED <<durable, out, history>>

----------------------------------------------------------------------------
(* _refresh, the beginning of every operation on an existing task.         *)

Begin(w, kind) ==
    /\ pc[w] = "idle"
    /\ manifest.number > 0
    /\ kind = "cancel" => manifest.job # NoJob
    /\ view' = [view EXCEPT ![w] = manifest]
    /\ op' = [op EXCEPT ![w] = kind]
    /\ Goto(w, "refresh")
    /\ UNCHANGED <<durable, cluster, cand, after, history>>

\* What the operation does with the refreshed task.
AfterRefresh(w) == IF op[w] = "refresh" THEN "idle" ELSE op[w]

\* Mutant: any receipt of this task is taken for the current attempt's.
OwnReceipt_AnyAttempt(local, task) == local.job # NoJob

\* The local copy is of this very attempt and holds a receipt.
OwnReceipt(local, task) ==
    /\ local.number = task.number
    /\ local.from = task.from
    /\ local.valid = task.valid
    /\ local.job # NoJob

Repairable(w) == view[w].state = "UNKNOWN" /\ OwnReceipt(cache[Home[w]], view[w])

\* "Recovered the locally recorded scheduler receipt; no resubmission."
Repair(w) ==
    /\ pc[w] = "refresh"
    /\ view[w].job = NoJob
    /\ Repairable(w)
    /\ WillSave(w, [view[w] EXCEPT !.state = "QUEUED", !.job = cache[Home[w]].job], "refresh")
    /\ UNCHANGED <<durable, cluster, op, view, history>>

\* A complete task, or one without a job: nothing is asked or saved.
NothingToAsk(w) ==
    /\ pc[w] = "refresh"
    /\ \/ view[w].state = "COMPLETE"
       \/ view[w].job = NoJob /\ ~Repairable(w)
    /\ \/ AfterRefresh(w) = "idle" /\ Return(w)
       \/ AfterRefresh(w) # "idle" /\ Goto(w, AfterRefresh(w)) /\ UNCHANGED locals
    /\ UNCHANGED <<durable, cluster, history>>

\* The states the scheduler's answer and the bounded look at the outputs lead
\* to.  UNRESOLVED also stands for accounting that does not answer yet or any
\* more.
Concluded(task, st) ==
    CASE st = "pending"   -> {"QUEUED", "UNRESOLVED"}
      [] st = "running"   -> {"RUNNING", "UNRESOLVED"}
      [] st = "cancelled" -> {"CANCELLED", "UNRESOLVED"}
      [] st = "failed"    -> {"FAILED", "UNRESOLVED"}
      [] OTHER            ->
           {IF task.flag \/ \E c \in Components \ task.valid : Output(task, c) \notin Ready
            THEN "FAILED" ELSE "OUTPUT_READY", "UNRESOLVED"}

\* query_slurm_job_status; its conclusion is saved even if nothing changed.
Query(w) ==
    /\ pc[w] = "refresh"
    /\ view[w].state # "COMPLETE"
    /\ view[w].job # NoJob
    /\ \E state \in Concluded(view[w], jobs[view[w].job].st) :
         WillSave(w, [view[w] EXCEPT !.state = state], AfterRefresh(w))
    /\ UNCHANGED <<durable, cluster, op, view, history>>

----------------------------------------------------------------------------
(* recover, retry and cancel, on the refreshed task.                       *)

\* Mutant: a failed job has no results worth recovering.
Recoverable_Completed(task) == task.state \in {"OUTPUT_READY", "COMPLETE"}

Recoverable(task) == task.state \in {"OUTPUT_READY", "COMPLETE", "FAILED", "CANCELLED"}

\* _output_sizes finds every file of every component.
AllPresent(task) == \A c \in Components : Output(task, c) # "none"

\* Mutant: each component is validated, the common grid is not compared.
Combines_Each(task) == \A c \in Components : Output(task, c) \in Validates

\* build_density_result: every component validates, and on one and the same grid.
Combines(task) ==
    \E grid \in Validates : \A c \in Components : Output(task, c) = grid

Recover(w) ==
    /\ pc[w] = "recover"
    /\ Recoverable(view[w])
    /\ AllPresent(view[w])
    /\ WillSave(w, IF Combines(view[w])
                   THEN [view[w] EXCEPT !.state = "COMPLETE", !.valid = Components]
                   ELSE [view[w] EXCEPT !.state = "FAILED", !.flag = TRUE], "idle")
    /\ UNCHANGED <<durable, cluster, op, view, history>>

RecoverRefused(w) ==
    /\ pc[w] = "recover"
    /\ ~(Recoverable(view[w]) /\ AllPresent(view[w]))
    /\ Finish(w)

\* Mutant: an attempt whose job cannot be found is retried like a failed one.
Retryable_Unresolved(task) == task.state \in {"FAILED", "CANCELLED", "UNRESOLVED"}

\* "a confirmed failed or cancelled inactive attempt; UNKNOWN is never retried"
Retryable(task) == task.state \in {"FAILED", "CANCELLED"}

\* Mutant: a component counts as valid when its output is there.
ValidNow_Present(task) == {c \in Components : Output(task, c) # "none"}

\* Every component is downloaded and validated anew.
ValidNow(task) == {c \in Components : Output(task, c) \in Validates}

\* Mutant: the directory of an attempt is adopted when it exists.
FreeAttempt_Adopted(n) == n \in Numbers

\* The exclusive mkdir of attemptNN.
FreeAttempt(n) == n \in Numbers \ dirs

Retry(w) ==
    /\ pc[w] = "retry"
    /\ Retryable(view[w])
    /\ ValidNow(view[w]) # Components
    /\ LET n == view[w].number + 1 IN
         /\ FreeAttempt(n)
         /\ dirs' = dirs \cup {n}
         /\ WillSave(w, Prepared(n, view[w].from, ValidNow(view[w])), "dispatch")
    /\ UNCHANGED <<manifest, cache, cluster, op, view, history>>

\* Not retryable, nothing to run again, or the directory exists already.
RetryRefused(w) ==
    /\ pc[w] = "retry"
    /\ \/ ~Retryable(view[w])
       \/ ValidNow(view[w]) = Components
       \/ ~FreeAttempt(view[w].number + 1)
    /\ Finish(w)

\* request_slurm_cancellation_once; the scheduler may be too late.
Cancel(w) ==
    /\ pc[w] = "cancel"
    /\ view[w].state \in {"QUEUED", "RUNNING"}
    /\ \/ /\ jobs[view[w].job].st \in {"pending", "running"}
          /\ jobs' = [jobs EXCEPT ![view[w].job].st = "cancelled"]
       \/ UNCHANGED jobs
    /\ Return(w)
    /\ UNCHANGED <<durable, out, history>>

\* The job has ended or is not authoritatively active.
CancelRefused(w) ==
    /\ pc[w] = "cancel"
    /\ view[w].state \notin {"QUEUED", "RUNNING"}
    /\ Finish(w)

\* Lost connection, stop request, changed inputs, or the end of the process.
Fail(w) ==
    /\ pc[w] # "idle"
    /\ Finish(w)

----------------------------------------------------------------------------
(* The cluster.                                                            *)

JobStarts(j) ==
    /\ jobs[j].st = "pending"
    /\ jobs' = [jobs EXCEPT ![j].st = "running"]
    /\ UNCHANGED <<durable, out, pc, locals, history>>

Current(j) == CHOOSE c \in jobs[j].left : \A d \in jobs[j].left : c <= d

\* The script's tests pass ("set -e"), and the next component begins or the
\* job is done.
ComponentEnds(j) ==
    /\ jobs[j].st = "running"
    /\ \E result \in Results \ {"none"} :
         out' = [out EXCEPT ![jobs[j].attempt][Current(j)] = result]
    /\ LET left == jobs[j].left \ {Current(j)} IN
         jobs' = [jobs EXCEPT ![j].left = left,
                              ![j].st = IF left = {} THEN "completed" ELSE "running"]
    /\ UNCHANGED <<durable, pc, locals, history>>

\* A failed component, a limit, a lost node or an administrator: whatever the
\* current component has written stays.
JobStops(j) ==
    /\ jobs[j].st = "running"
    /\ \E result \in Results :
         out' = [out EXCEPT ![jobs[j].attempt][Current(j)] = result]
    /\ \E st \in {"failed", "cancelled"} : jobs' = [jobs EXCEPT ![j].st = st]
    /\ UNCHANGED <<durable, pc, locals, history>>

----------------------------------------------------------------------------
Save(w) == Check(w) \/ CheckFails(w) \/ Rename(w) \/ Verify(w) \/ VerifyFails(w)

Dispatch(w) == DispatchAccepted(w) \/ DispatchRejected(w) \/ DispatchLost(w)

Refresh(w) ==
    \/ \E kind \in Offered[w] \ {"submit"} : Begin(w, kind)
    \/ Repair(w) \/ NothingToAsk(w) \/ Query(w)

Act(w) ==
    \/ Recover(w) \/ RecoverRefused(w)
    \/ Retry(w) \/ RetryRefused(w)
    \/ Cancel(w) \/ CancelRefused(w)

JobStep(j) == JobStarts(j) \/ ComponentEnds(j) \/ JobStops(j)

Next ==
    \/ \E w \in Workers : Submit(w) \/ Dispatch(w) \/ Refresh(w) \/ Act(w) \/ Save(w) \/ Fail(w)
    \/ \E j \in Jobs : JobStep(j)

Spec == Init /\ [][Next]_vars

\* An operation that has begun goes on, to its end or to a failure.
Proceed(w) ==
    pc[w] # "idle" /\ (Dispatch(w) \/ Refresh(w) \/ Act(w) \/ Save(w) \/ Fail(w))

\* A recovery that no lost connection interrupts on the way to its outputs,
\* and whose question the scheduler answers.
Undisturbed(w) ==
    op[w] = "recover" =>
        /\ pc[w] = "refresh" => cand'[w].state # "UNRESOLVED"
        /\ \/ pc[w] \in {"refresh", "check", "rename"}
           \/ pc[w] = "verify" /\ after[w] # "idle"
           => pc'[w] # "idle"

\* A user who goes on asking for the results, over a connection that does not
\* fail and to accounting that is not silent for ever.  Nothing is asked of the
\* cluster.
FairSpec ==
    /\ Spec
    /\ \A w \in Workers :
        /\ WF_vars(Proceed(w))
        /\ SF_vars(Begin(w, "recover"))
        /\ SF_vars(Recover(w))
        /\ <>[][Undisturbed(w)]_vars

----------------------------------------------------------------------------
(* Properties.                                                             *)

TypeOK ==
    /\ manifest \in Attempts
    /\ cache \in [Installations -> Attempts]
    /\ dirs \subseteq Numbers
    /\ out \in [Numbers -> [Components -> Outputs]]
    /\ jobs \in [Jobs -> JobRecord]
    /\ pc \in [Workers -> Labels]
    /\ op \in [Workers -> Operations]
    /\ view \in [Workers -> Attempts]
    /\ cand \in [Workers -> Attempts]
    /\ after \in [Workers -> {"idle", "dispatch", "refresh", "recover", "retry", "cancel"}]
    /\ receipts \subseteq Installations \X Numbers
    /\ overlapped \in BOOLEAN

Alive(j) == jobs[j].st \in {"pending", "running"}

\* docs/ELECTRON_DENSITY_DIFFERENCE.md:113 "the one sbatch dispatch.  Transport
\* loss never triggers another dispatch": no attempt ever has two jobs, whatever
\* workers overlap, fail or overwrite each other's manifests.
OneJobPerAttempt ==
    \A j, k \in Jobs :
        jobs[j].attempt = jobs[k].attempt /\ jobs[j].st # "none" /\ jobs[k].st # "none"
            => j = k

\* A retry needs "a confirmed failed or cancelled inactive attempt": two jobs of
\* one task never run at the same time, also after a lost receipt.
OneJobAtATime == \A j, k \in Jobs : Alive(j) /\ Alive(k) => j = k

\* A recorded job is the recorded attempt's, also when it was recovered from a
\* local copy: no result of one attempt is read as another's.
JobIsOwn ==
    manifest.job # NoJob =>
        /\ jobs[manifest.job].st # "none"
        /\ jobs[manifest.job].attempt = manifest.number

\* "Green requires a recovered component with converged output [...] and fully
\* parsed common-grid Cube data": a task is COMPLETE only on ended jobs and on
\* outputs that lie on one grid.
CompleteIsReal ==
    manifest.state = "COMPLETE" =>
        /\ \A c, d \in Components : Output(manifest, c) = Output(manifest, d)
        /\ \A c \in Components : Output(manifest, c) \in Validates
        /\ \A j \in Jobs : ~Alive(j)

\* A component recorded as validated has a valid output, and no job is left
\* that would write to it again.
ValidatedStays ==
    \A c \in manifest.valid :
        /\ Output(manifest, c) \in Validates
        /\ \A j \in Jobs : Alive(j) /\ jobs[j].attempt = manifest.from[c]
                               => c \notin jobs[j].left

\* "A locally recorded unambiguous receipt can repair an interrupted manifest
\* update": while density.json says UNKNOWN, an installation that recorded the
\* attempt's receipt still has it (no two write windows having overlapped).
ReceiptKept ==
    \A i \in Installations :
        /\ ~overlapped
        /\ manifest.state = "UNKNOWN"
        /\ <<i, manifest.number>> \in receipts
        => OwnReceipt(cache[i], manifest)

\* As long as no two write windows overlap: attempts are never lost, a complete
\* task stays complete, and a job once recorded is not forgotten.
Forward(old, new) ==
    /\ new.number >= old.number
    /\ old.state = "COMPLETE" => new = old
    /\ new.number = old.number /\ old.job # NoJob => new.job = old.job
    /\ new.number = old.number => old.valid \subseteq new.valid

HistoryKept == [][~overlapped => Forward(manifest, manifest')]_vars

\* The job of the recorded attempt, as far as installation i can tell.
KnownJobs(i) ==
    ({manifest.job} \cup (IF OwnReceipt(cache[i], manifest) THEN {cache[i].job} ELSE {})) \ {NoJob}

\* "explicit recovery may establish valid scientific results after a scheduler
\* failure occurring after output completion": however the job ended, and
\* whatever was lost on the way, outputs that combine are recovered in the end.
ResultIsRecovered ==
    \A i \in Installations :
        /\ \E j \in KnownJobs(i) : jobs[j].st # "none" /\ ~Alive(j)
        /\ Combines(manifest)
        ~> manifest.state = "COMPLETE"
=============================================================================

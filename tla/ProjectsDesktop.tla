--------------------------- MODULE ProjectsDesktop ---------------------------
(***************************************************************************)
(* One installation: the Projects window with its single worker at a time, *)
(* refresh threads that may outlive their session (Stop, 60 s), the local  *)
(* index known_projects.json with its recycle markers, the submission      *)
(* worker of the main window and permanent deletion.                       *)
(*                                                                         *)
(* Of a manifest the revision, the state of its active step and the        *)
(* submission that state is of are kept; a rewrite may change only detail. *)
(* persist_update and each index mutation is one step: what goes wrong     *)
(* inside those windows is ManifestStore's subject, and                    *)
(* docs/ARCHITECTURE.md:192 excludes the one of the index.  What the       *)
(* scheduler and the files say is read when it is recorded.  Reading all   *)
(* manifests of a discovery is one step.  One server profile.              *)
(***************************************************************************)
EXTENDS Naturals, FiniteSets

CONSTANTS
    Projects,    \* project identities, ordered as their remote paths
    Sessions,    \* refresh threads that may exist at once (bound)
    NoSession,   \* no refresh is the window's
    MaxRev,      \* bound: no manifest is written from this revision on
    MaxTries     \* bound: dispatches that reach the scheduler, per project

ASSUME ProjectsAssumption == Projects \subseteq Nat \ {0} /\ IsFiniteSet(Projects)
ASSUME SessionsAssumption == NoSession \notin Sessions
ASSUME MaxRevAssumption == MaxRev \in Nat \ {0}
ASSUME MaxTriesAssumption == MaxTries \in Nat

VARIABLES
    remote,      \* remote[p]: the manifest of p, or None once it is deleted
    jobs,        \* jobs[p][n]: the job of the n-th submission of p; 0 is that of an earlier step
    index,       \* known_projects.json: last seen revisions, recycle markers
    shown,       \* shown[p]: the snapshot of p in the Projects list, or None
    tabs,        \* tabs[p]: the record an open workspace of p was opened with
    window,      \* the Projects window: _busy and the fields of its operation
    threads,     \* threads[s]: the daemon thread of refresh session s
    submission,  \* the submission worker of the main window
    deletion     \* the permanent-deletion worker

vars == <<remote, jobs, index, shown, tabs, window, threads, submission, deletion>>

\* "active" is QUEUED or RUNNING, "refused" a FAILED step that has no job, "failed" one
\* that has, "completed" SCHEDULER_COMPLETED.
StepStates == {"active", "unknown", "refused", "failed", "completed", "succeeded"}
Unsafe == {"active", "unknown"}

Tries == 1..MaxTries
JobStates == {"none", "alive", "requeued", "failed", "done"}

None == [rev |-> 0, state |-> "none", try |-> 0]
Manifests == [rev : 1..MaxRev, state : StepStates, try : 0..MaxTries]
Records == {None} \cup Manifests
AllProjects == 0                       \* scope of a full refresh

Listing == [Projects -> Records]
Nothing == [p \in Projects |-> None]

----------------------------------------------------------------------------
(* The local index.                                                        *)
Unseen == [p \in Projects |-> 0]

\* mark_seen and recycle write the reference of one project unconditionally.
MarkSeen(i, p, rev) == [i EXCEPT !.seen[p] = rev]

Recycle(i, p, rev) == [MarkSeen(i, p, rev) EXCEPT !.recycled = @ \cup {p}]

Forget(i, p) == [MarkSeen(i, p, 0) EXCEPT !.recycled = @ \ {p}]

Proposed(t, done) ==
    [p \in Projects |-> IF p \in done THEN t.snap[p].rev ELSE index.seen[p]]

\* mark_seen_many: a reference that is neither what the refresh started from nor
\* what it would write is a conflict, and nothing is written.
Conflict(t, done) ==
    \E p \in done : index.seen[p] \notin {t.refs[p], t.snap[p].rev}

\* Mutant: the operation's starting snapshot is written back.
MarkSeenMany_Wholesale(t, done) ==
    [seen |-> Proposed(t, done), recycled |-> t.hidden]

MarkSeenMany(t, done) ==
    [seen |-> Proposed(t, done), recycled |-> index.recycled]

----------------------------------------------------------------------------
Off == [pc |-> "off", scope |-> AllProjects, snap |-> Nothing, refs |-> Unseen,
        hidden |-> {}, todo |-> {}, outcome |-> "result"]

NoSubmission == [pc |-> "off", project |-> 0, record |-> None, try |-> 0, outcome |-> "none"]
NoDeletion == [pc |-> "off", project |-> 0, record |-> None]

Idle == [busy |-> "no", session |-> NoSession, scope |-> AllProjects, open |-> FALSE]

Init ==
    /\ remote = [p \in Projects |-> [rev |-> 1, state |-> "succeeded", try |-> 0]]
    /\ jobs = [p \in Projects |-> [n \in 0..MaxTries |-> IF n = 0 THEN "done" ELSE "none"]]
    /\ index = [seen |-> Unseen, recycled |-> {}]
    /\ shown = Nothing
    /\ tabs = Nothing
    /\ window = [op |-> Idle, trustUsed |-> FALSE]
    /\ threads = [s \in Sessions |-> Off]
    /\ submission = NoSubmission
    /\ deletion = NoDeletion

Busy == window.op.busy # "no"

----------------------------------------------------------------------------
(* Refresh sessions (gui/status_refresh.py, projects_dialog.py).           *)

\* request_stop has been called exactly when s is no longer the live session.
Stopped(s) == window.op.session # s

\* _start_operation: a new session with a thread of its own.
Started(s, scope, open) ==
    /\ threads[s].pc = "off"
    /\ threads' = [threads EXCEPT ![s] = [Off EXCEPT !.pc = "connect", !.scope = scope]]
    /\ window' = [window EXCEPT !.op =
                    [busy |-> "refresh", session |-> s, scope |-> scope, open |-> open]]

\* _discover, _refresh_selected and _open_selected.
StartRefresh(s) ==
    /\ ~Busy
    /\ \/ Started(s, AllProjects, FALSE)
       \/ \E p \in Projects, open \in BOOLEAN : shown[p] # None /\ Started(s, p, open)
    /\ UNCHANGED <<remote, jobs, index, shown, tabs, submission, deletion>>

\* Stop, or the single-shot timer: the window is free at once, the thread goes on.
Abandon(s) ==
    /\ window.op.session = s
    /\ window' = [window EXCEPT !.op = Idle]
    /\ UNCHANGED <<remote, jobs, index, shown, tabs, threads, submission, deletion>>

Stop(s) == Abandon(s)
Timeout(s) == Abandon(s)

Become(s, t) == threads' = [threads EXCEPT ![s] = t]

\* What run() emits when the operation is over: the snapshots or an error; nothing after a stop.
Ending(s, outcome) ==
    Become(s, IF Stopped(s) THEN Off
              ELSE [Off EXCEPT !.pc = "emitted", !.scope = threads[s].scope, !.outcome = outcome,
                       !.snap = IF outcome = "result" THEN threads[s].snap ELSE Nothing])

Reconciled(t) == {p \in Projects : t.snap[p] # None} \ (t.todo \cup t.hidden)

\* Connecting fails: the network, authentication, or an unknown host key.
ConnectFails(s) ==
    /\ threads[s].pc = "connect"
    /\ \E outcome \in {"error", "unknown host"} : Ending(s, outcome)
    /\ UNCHANGED <<remote, jobs, index, shown, tabs, window, submission, deletion>>

\* The checkpoints after connecting, then repository.discover or the load of one
\* project: a missing manifest is an error for the latter, not listed by the former.
Read(s) ==
    LET t == threads[s]
        p == t.scope
    IN
    /\ t.pc = "connect"
    /\ \/ Stopped(s) /\ Become(s, Off)
       \/ ~Stopped(s) /\ p = AllProjects /\ Become(s, [t EXCEPT !.pc = "index", !.snap = remote])
       \/ /\ ~Stopped(s) /\ p # AllProjects /\ remote[p] # None
          /\ Become(s, [t EXCEPT !.pc = "projects", !.todo = {p}, !.snap[p] = remote[p]])
       \/ ~Stopped(s) /\ p # AllProjects /\ remote[p] = None /\ Ending(s, "error")
    /\ UNCHANGED <<remote, jobs, index, shown, tabs, window, submission, deletion>>

\* load_snapshot: references and recycle markers, after the manifests were read.
ReadIndex(s) ==
    LET t == threads[s] IN
    /\ t.pc = "index"
    /\ Become(s, [t EXCEPT !.pc = "projects", !.refs = index.seen,
                    !.hidden = index.recycled,
                    !.snap = [p \in Projects |-> IF p \in index.recycled THEN None ELSE @[p]],
                    !.todo = {p \in Projects : t.snap[p] # None} \ index.recycled])
    /\ UNCHANGED <<remote, jobs, index, shown, tabs, window, submission, deletion>>

\* The checkpoint before a project; after the last one the index is brought up to date.
NextProject(s) ==
    LET t == threads[s] IN
    /\ t.pc = "projects"
    /\ \/ Stopped(s) /\ t.scope = AllProjects /\ Become(s, [t EXCEPT !.pc = "flush"])
       \/ Stopped(s) /\ t.scope # AllProjects /\ Become(s, Off)
       \/ ~Stopped(s) /\ Become(s, [t EXCEPT !.pc = IF t.todo = {} THEN "flush" ELSE "reconcile"])
    /\ UNCHANGED <<remote, jobs, index, shown, tabs, window, submission, deletion>>

\* What the scheduler and the output say of a job; while neither is final, nothing is recorded.
Answers ==
    [none |-> {}, alive |-> {"active"}, requeued |-> {"active"}, failed |-> {"failed"},
     done |-> {"failed", "completed", "succeeded"}]

\* The states a refresh may record over r: a completed step is assessed again without
\* asking (an ORCA stage also when it succeeded), a failed one with a job is asked about
\* like an active one; without a job there is nothing to ask.
Recorded(r, job) ==
    CASE r.state \in {"completed", "succeeded"} -> {"failed", "completed", "succeeded"}
      [] r.state \in {"active", "failed"} -> Answers[job]
      [] OTHER -> {}

\* _reconcile of the next project: nothing to write, or a state is recorded if the revision
\* still matches; an ORCA stage that is recorded as completed is assessed at once.
Reconcile(s) ==
    LET t == threads[s]
        p == CHOOSE q \in t.todo : \A r \in t.todo : q <= r
        Over(u) == [u EXCEPT !.pc = "projects", !.todo = @ \ {p}]
    IN
    /\ t.pc = "reconcile"
    /\ \/ Become(s, Over(t)) /\ UNCHANGED remote
       \/ \E state \in Recorded(t.snap[p], jobs[p][t.snap[p].try]) :
            LET written == [t.snap[p] EXCEPT !.rev = @ + 1, !.state = state]
                u == [t EXCEPT !.snap[p] = written]
            IN /\ remote[p].rev = t.snap[p].rev /\ remote[p].rev < MaxRev
               /\ remote' = [remote EXCEPT ![p] = written]
               /\ Become(s, Over(u)) \/ (state = "completed" /\ Become(s, u))
    /\ UNCHANGED <<jobs, index, shown, tabs, window, submission, deletion>>

\* The connection breaks, or persist_update finds another revision: the completed
\* prefix of a discovery is still flushed, a single refresh is over.
ReconcileFails(s) ==
    LET t == threads[s] IN
    /\ t.pc = "reconcile"
    /\ IF t.scope = AllProjects
       THEN Become(s, [t EXCEPT !.pc = "flush", !.outcome = "error"])
       ELSE Ending(s, "error")
    /\ UNCHANGED <<remote, jobs, index, shown, tabs, window, submission, deletion>>

\* mark_seen_many in the finally clause of a discovery.
Flush(s) ==
    LET t == threads[s]
        done == Reconciled(t)
    IN
    /\ t.pc = "flush" /\ t.scope = AllProjects
    /\ IF Conflict(t, done)
       THEN Ending(s, "error") /\ UNCHANGED index
       ELSE index' = MarkSeenMany(t, done) /\ Ending(s, t.outcome)
    /\ UNCHANGED <<remote, jobs, shown, tabs, window, submission, deletion>>

\* _mark_seen of a single refresh.
MarkOneSeen(s) ==
    LET t == threads[s] IN
    /\ t.pc = "flush" /\ t.scope # AllProjects
    /\ index' = MarkSeen(index, t.scope, t.snap[t.scope].rev)
    /\ Ending(s, "result")
    /\ UNCHANGED <<remote, jobs, shown, tabs, window, submission, deletion>>

----------------------------------------------------------------------------
(* Delivery in the GUI thread.                                             *)

\* Mutant: a result is delivered whether or not its session is the live one.
Accepted_Always(s) == threads[s].pc = "emitted"

\* _accept_result: only the live session delivers.
Accepted(s) == threads[s].pc = "emitted" /\ ~Stopped(s)

\* _replace_snapshot changes a project that is listed and adds none.
Replaced(p, record) ==
    [shown EXCEPT ![p] = IF shown[p] = None THEN None ELSE record]

\* _operation_succeeded: a discovery replaces the list, a refresh one entry of it;
\* _project_snapshot_updated brings open workspaces of that project up to date.
Succeeded(s) ==
    LET t == threads[s]
        p == t.scope
    IN
    /\ Accepted(s) /\ t.outcome = "result"
    /\ IF p = AllProjects
       THEN shown' = t.snap /\ UNCHANGED tabs
       ELSE /\ shown' = Replaced(p, t.snap[p])
            /\ tabs' = [tabs EXCEPT ![p] =
                          IF window.op.open \/ @ # None THEN t.snap[p] ELSE None]
    /\ window' = [op |-> Idle, trustUsed |-> FALSE]
    /\ Become(s, Off)
    /\ UNCHANGED <<remote, jobs, index, submission, deletion>>

\* Mutant: every unknown host key is offered.
MayTrust_Always == TRUE

MayTrust == ~window.trustUsed

\* _operation_failed: the error is shown, or an unknown host key refused.
Failed(s) ==
    /\ Accepted(s) /\ threads[s].outcome # "result"
    /\ window' = [window EXCEPT !.op = Idle]
    /\ Become(s, Off)
    /\ UNCHANGED <<remote, jobs, index, shown, tabs, submission, deletion>>

\* The user trusts the key and _operation_finished starts the same operation again,
\* as a new session, before the window is ever free.  (The modal question is asked
\* and answered in this one step: the window is busy and no session is live.)
TrustAndRetry(s, r) ==
    /\ Accepted(s) /\ threads[s].outcome = "unknown host" /\ MayTrust
    /\ r = s \/ threads[r].pc = "off"
    /\ threads' = [threads EXCEPT ![s] = Off,
                     ![r] = [Off EXCEPT !.pc = "connect", !.scope = window.op.scope]]
    /\ window' = [op |-> [window.op EXCEPT !.session = r], trustUsed |-> TRUE]
    /\ UNCHANGED <<remote, jobs, index, shown, tabs, submission, deletion>>

\* The queued result of an abandoned session reaches nobody.
Dropped(s) ==
    /\ threads[s].pc = "emitted" /\ ~Accepted(s)
    /\ Become(s, Off)
    /\ UNCHANGED <<remote, jobs, index, shown, tabs, window, submission, deletion>>

SessionStep(s) ==
    \/ StartRefresh(s) \/ Stop(s) \/ Timeout(s) \/ ConnectFails(s) \/ Read(s)
    \/ ReadIndex(s) \/ NextProject(s) \/ Reconcile(s) \/ ReconcileFails(s)
    \/ Flush(s) \/ MarkOneSeen(s) \/ Succeeded(s) \/ Failed(s) \/ Dropped(s)
    \/ \E r \in Sessions : TrustAndRetry(s, r)

----------------------------------------------------------------------------
(* The main window: workspaces and one submission at a time.               *)

CloseTab(p) ==
    /\ tabs[p] # None
    /\ tabs' = [tabs EXCEPT ![p] = None]
    /\ UNCHANGED <<remote, jobs, index, shown, window, threads, submission, deletion>>

\* _start_submission from an open workspace whose project can be continued or retried.
StartSubmission(p) ==
    /\ submission.pc = "off"
    /\ tabs[p].state \in {"failed", "succeeded"} /\ tabs[p].rev < MaxRev
    /\ submission' = [NoSubmission EXCEPT !.pc = "load", !.project = p, !.record = tabs[p]]
    /\ UNCHANGED <<remote, jobs, index, shown, tabs, window, threads, deletion>>

\* The reloaded manifest must be the workspace's; then the inputs are uploaded.
Revalidate ==
    /\ submission.pc = "load" /\ remote[submission.project] = submission.record
    /\ submission' = [submission EXCEPT !.pc = "dispatch"]
    /\ UNCHANGED <<remote, jobs, index, shown, tabs, window, threads, deletion>>

\* The first submission of p after the recorded one that has no job.
NextTry(p, n) ==
    /\ n \in Tries /\ n > submission.record.try /\ jobs[p][n] = "none"
    /\ \A m \in Tries : submission.record.try < m /\ m < n => jobs[p][m] # "none"

\* One dispatch: accepted, refused (or an upload failed before it), or its answer is lost
\* and the job may have been accepted or not.
Dispatch ==
    LET p == submission.project IN
    /\ submission.pc = "dispatch"
    /\ \E n \in Tries, outcome \in {"active", "refused", "unknown"} :
        /\ NextTry(p, n)
        /\ submission' = [submission EXCEPT !.pc = "record", !.try = n, !.outcome = outcome]
        /\ \/ outcome # "refused" /\ jobs' = [jobs EXCEPT ![p][n] = "alive"]
           \/ outcome # "active" /\ UNCHANGED jobs
    /\ UNCHANGED <<remote, index, shown, tabs, window, threads, deletion>>

\* The outcome is recorded, if the revision is still the one the submission started from.
RecordOutcome ==
    LET p == submission.project
        written == [rev |-> submission.record.rev + 1, state |-> submission.outcome,
                    try |-> submission.try]
    IN
    /\ submission.pc = "record"
    /\ remote[p].rev = submission.record.rev /\ remote[p].rev < MaxRev
    /\ remote' = [remote EXCEPT ![p] = written]
    /\ submission' = [submission EXCEPT !.pc = "seen", !.record = written]
    /\ UNCHANGED <<jobs, index, shown, tabs, window, threads, deletion>>

\* mark_seen; the callback of a success updates the workspace, that of a failure nothing,
\* and neither the Projects list.
SubmissionEnds ==
    LET p == submission.project IN
    /\ submission.pc = "seen"
    /\ index' = MarkSeen(index, p, submission.record.rev)
    /\ tabs' = [tabs EXCEPT ![p] = IF @ = None \/ submission.outcome # "active"
                                   THEN @ ELSE submission.record]
    /\ submission' = NoSubmission
    /\ UNCHANGED <<remote, jobs, shown, window, threads, deletion>>

\* An error anywhere, also between the dispatch and its record: the job then runs on and
\* the manifest stays as it was.
SubmissionFails ==
    /\ submission.pc # "off"
    /\ submission' = NoSubmission
    /\ UNCHANGED <<remote, jobs, index, shown, tabs, window, threads, deletion>>

\* A job ends, and the scheduler may put one that has failed back into the queue.
JobMoves(p, n) ==
    /\ \E state \in {"failed", "done", "requeued"} :
        /\ IF state = "requeued" THEN jobs[p][n] = "failed" ELSE jobs[p][n] \in {"alive", "requeued"}
        /\ jobs' = [jobs EXCEPT ![p][n] = state]
    /\ UNCHANGED <<remote, index, shown, tabs, window, threads, submission, deletion>>

----------------------------------------------------------------------------
(* Recycling and deletion.                                                 *)

\* _project_delete_block_reason, evaluated on the snapshot in the list.
Deletable(p) ==
    /\ shown[p] # None /\ shown[p].state \notin Unsafe
    /\ ~(submission.pc # "off" /\ submission.project = p)

MoveToRecycle(p) ==
    /\ ~Busy /\ Deletable(p)
    /\ index' = Recycle(index, p, shown[p].rev)
    /\ shown' = [shown EXCEPT ![p] = None]
    /\ UNCHANGED <<remote, jobs, tabs, window, threads, submission, deletion>>

Restore(p) ==
    /\ ~Busy /\ p \in index.recycled
    /\ index' = [index EXCEPT !.recycled = @ \ {p}]
    /\ UNCHANGED <<remote, jobs, shown, tabs, window, threads, submission, deletion>>

\* Permanent deletion additionally requires that no workspace of the project is open.
StartDeletion(p) ==
    /\ ~Busy /\ Deletable(p) /\ tabs[p] = None
    /\ deletion' = [pc |-> "verify", project |-> p, record |-> shown[p]]
    /\ window' = [window EXCEPT !.op = [Idle EXCEPT !.busy = "delete"]]
    /\ UNCHANGED <<remote, jobs, index, shown, tabs, threads, submission>>

\* Mutant: any project without active work is accepted.
Unchanged_Inactive ==
    remote[deletion.project] # None /\ remote[deletion.project].state \notin Unsafe

\* The reloaded manifest must be the one the user selected, and safe to delete.
Unchanged ==
    /\ remote[deletion.project] = deletion.record
    /\ remote[deletion.project].state \notin Unsafe

Verify ==
    /\ deletion.pc = "verify" /\ Unchanged
    /\ deletion' = [deletion EXCEPT !.pc = "remove"]
    /\ UNCHANGED <<remote, jobs, index, shown, tabs, window, threads, submission>>

DeletionOver ==
    /\ deletion' = NoDeletion
    /\ window' = [window EXCEPT !.op = Idle]

\* A refusal, a lost connection before the dispatch, or an unknown outcome later.
DeletionFails ==
    /\ deletion.pc # "off"
    /\ DeletionOver
    /\ UNCHANGED <<remote, jobs, index, shown, tabs, threads, submission>>

\* The one rm -rf is executed; its answer arrives or is lost.
Remove ==
    /\ deletion.pc = "remove"
    /\ remote' = [remote EXCEPT ![deletion.project] = None]
    /\ \/ deletion' = [deletion EXCEPT !.pc = "confirm"] /\ UNCHANGED window
       \/ DeletionOver
    /\ UNCHANGED <<jobs, index, shown, tabs, threads, submission>>

\* The separate check proves the path absent; only then the local state goes.
ConfirmAbsent ==
    LET p == deletion.project IN
    /\ deletion.pc = "confirm" /\ remote[p] = None
    /\ index' = Forget(index, p)
    /\ shown' = [shown EXCEPT ![p] = None]
    /\ DeletionOver
    /\ UNCHANGED <<remote, jobs, tabs, threads, submission>>

\* The process ends and is started again: only the files are left.
Restart ==
    /\ shown' = Nothing /\ tabs' = Nothing
    /\ window' = [op |-> Idle, trustUsed |-> FALSE]
    /\ threads' = [s \in Sessions |-> Off]
    /\ submission' = NoSubmission /\ deletion' = NoDeletion
    /\ UNCHANGED <<remote, jobs, index>>

ProjectStep(p) ==
    \/ CloseTab(p) \/ StartSubmission(p) \/ \E n \in Tries : JobMoves(p, n)
    \/ MoveToRecycle(p) \/ Restore(p) \/ StartDeletion(p)

Next ==
    \/ \E s \in Sessions : SessionStep(s)
    \/ \E p \in Projects : ProjectStep(p)
    \/ Revalidate \/ Dispatch \/ RecordOutcome \/ SubmissionEnds \/ SubmissionFails
    \/ Verify \/ DeletionFails \/ Remove \/ ConfirmAbsent \/ Restart

\* Only the timer is fair: the network may hang for ever, the user may do nothing.
Fairness == \A s \in Sessions : WF_vars(Timeout(s))

Spec == Init /\ [][Next]_vars /\ Fairness

----------------------------------------------------------------------------
ThreadRecords ==
    [pc : {"off", "connect", "index", "projects", "reconcile", "flush", "emitted"},
     scope : Projects \cup {AllProjects}, snap : Listing, refs : [Projects -> 0..MaxRev],
     hidden : SUBSET Projects, todo : SUBSET Projects,
     outcome : {"result", "error", "unknown host"}]

Operations ==
    [busy : {"no", "refresh", "delete"}, session : Sessions \cup {NoSession},
     scope : Projects \cup {AllProjects}, open : BOOLEAN]

Submissions ==
    [pc : {"off", "load", "dispatch", "record", "seen"}, project : Projects \cup {0},
     record : Records, try : 0..MaxTries, outcome : {"none", "active", "refused", "unknown"}]

\* Types, and who owns the window: a live session, the deletion worker, or nobody.
TypeOK ==
    /\ remote \in Listing /\ shown \in Listing /\ tabs \in Listing
    /\ jobs \in [Projects -> [0..MaxTries -> JobStates]]
    /\ index \in [seen : [Projects -> 0..MaxRev], recycled : SUBSET Projects]
    /\ window \in [op : Operations, trustUsed : BOOLEAN]
    /\ threads \in [Sessions -> ThreadRecords]
    /\ submission \in Submissions /\ (submission.pc = "record" => submission.outcome # "none")
    /\ deletion \in [pc : {"off", "verify", "remove", "confirm"},
                     project : Projects \cup {0}, record : Records]
    /\ window.op.busy = "refresh" <=> window.op.session # NoSession
    /\ window.op.busy = "delete" <=> deletion.pc # "off"

\* docs/WORKFLOW.md:183 "A new explicit refresh may start after Stop/timeout
\* without an old result overwriting it": the record the list shows of a project
\* is never replaced by an older one, whatever abandoned threads still do.
ShownNeverOlder ==
    [][\A p \in Projects :
        shown[p] # None /\ shown'[p] # None => shown'[p].rev >= shown[p].rev]_vars

\* A recycled project is not in the list: neither a refresh that read it before it
\* was recycled nor one that read the markers before brings it back.
RecycledHidden == \A p \in index.recycled : shown[p] = None

\* docs/ARCHITECTURE.md:192 "preserves unrelated references and current recycle
\* markers": no step of a refresh, live or abandoned, removes a marker.
MarkersKept ==
    [][\A s \in Sessions : threads'[s] # threads[s] => index.recycled \subseteq index'.recycled]_vars

\* docs/WORKFLOW.md:179 deletes only what is neither active nor "while a matching live
\* submission is in progress", :181 only what is "unchanged": whatever abandoned threads do
\* between the reload and the one rm -rf, nothing has been submitted since the record the
\* user was shown, nothing is being submitted, and the work which that record says has
\* ended is over - but for a job the scheduler has taken up again.  (A thread may rewrite
\* the record in that gap, and a job whose dispatch was never recorded is not known.)
DeletedAsReviewed ==
    [][\A p \in Projects :
        remote[p] # None /\ remote'[p] = None =>
            /\ deletion.project = p /\ submission.project # p
            /\ remote[p].try = deletion.record.try
            /\ jobs[p][remote[p].try] # "alive"]_vars

\* A refresh gives the window back though the network never answers; trusting a host
\* key restarts it without freeing the window, and that happens once.
RefreshEnds == (window.op.busy = "refresh") ~> (window.op.busy # "refresh")

\* docs/MAINTENANCE.md:52 "refuses QUEUED, RUNNING, UNKNOWN [...] before a tombstone
\* can be created; it never hides or cancels that work".
RecycleSparesWork ==
    [][\A p \in index'.recycled \ index.recycled : remote[p].state \notin Unsafe]_vars
=============================================================================

----------------------------- MODULE ProjectsWindow -----------------------------
(***************************************************************************)
(* The Projects window (gui/projects_dialog.py) and the operations it runs   *)
(* on the projects of one server: discovery and refresh in a session of      *)
(* their own, everything else as a worker of a pool with one thread.  What a *)
(* worker reports is queued and handled later, also while a box of an        *)
(* earlier handler is on screen; the form of the ORCA analysis gives the     *)
(* main window back while an atom is picked in the viewer.                   *)
(*                                                                         *)
(* An operation of a service is one step (two for the ORCA analysis); what   *)
(* happens inside one is in TransportAttempts, OrcaProject and DensityTask.  *)
(* Passwords are saved, a binding to another profile is confirmed, and error *)
(* boxes are closed at once.  The tabs are those the window opened.          *)
(***************************************************************************)
EXTENDS Naturals, Sequences

CONSTANTS
    None,
    Fhi, Orca, Rows,   \* FHI-aims projects, ORCA projects, density tasks of the list
    Servers, Home,     \* server profiles, and the one that holds them
    MaxJobs, MaxResults,
    MaxActs            \* bound on gestures that start or answer something

WindowAssumption ==
    /\ Home \in Servers /\ {MaxJobs, MaxResults, MaxActs} \subseteq Nat
    /\ Fhi \cap Orca = {} /\ (Fhi \cup Orca) \cap Rows = {} /\ None \notin Fhi \cup Orca \cup Rows

VARIABLES
    project,   \* [project -> its record on the server]
    over,      \* projects whose current scheduler job has ended
    known,     \* servers whose host key is trusted
    dlg,       \* fields of the window
    session,   \* the status refresh under way, or None
    pool,      \* workers of the thread pool; the first one runs
    posted,    \* reports of workers that the GUI thread has not handled
    stack,     \* boxes and forms on screen, the topmost last
    tabs,      \* [project -> the snapshot its tab works with, or None]
    draft,     \* the restart draft on screen: its project, its job, is it unlocked; or None
    past,      \* history the properties compare with
    acts

vars == <<project, over, known, dlg, session, pool, posted, stack, tabs, draft, past, acts>>

Calculations == Fhi \cup Orca
Items == Calculations \cup Rows

----------------------------------------------------------------------------
(* Records and snapshots. *)

\* A refreshed snapshot: the record, and the chart of the result on the server.
Snapshot(i, rec) ==
    IF i \in Orca
    THEN [rec |-> rec, active |-> "freq", chart |-> IF rec.wbl = "SUCCEEDED" THEN rec.result ELSE 0]
    ELSE [rec |-> rec]

\* What a refresh records of a project.
Refreshed(i) ==
    IF i \notin over THEN project[i]
    ELSE IF i \in Fhi THEN [project[i] EXCEPT !.state = IF @ = "RUNNING" THEN "FAILED" ELSE @]
    ELSE [project[i] EXCEPT !.freq = "ENDED"]

\* can_kill_step3_oom, can_retry_step3, can_retry_step4_explicit: out-of-memory and overlap
\* are the failures of this project.
CanKill(i, s) == i \in Fhi /\ s.rec.step = 3 /\ s.rec.state = "RUNNING"
CanRetry(i, s, step) == i \in Fhi /\ s.rec.step = step /\ s.rec.state = "FAILED"
CanAbort(i, s) == i \in Fhi /\ s.rec.state = "RUNNING"
CanCancelOrca(i, s) == i \in Orca /\ s.active = "freq" /\ s.rec.freq \in {"RUNNING", "UNKNOWN"}
WblEligible(i, s) == i \in Orca /\ s.rec.wbl # "RUNNING"
CanResubmitWbl(i, s) == WblEligible(i, s) /\ s.active = "wbl"

Attempt(i, s) == <<i, s.rec.job>>

----------------------------------------------------------------------------
(* The window. *)

\* _server_changed.
Emptied(d) == [d EXCEPT !.bin = FALSE, !.rows = [i \in Items |-> None], !.sel = None]

NewWindow ==
    [server |-> Home, rows |-> [i \in Items |-> None], sel |-> None, bin |-> FALSE,
     visible |-> TRUE, busy |-> FALSE, workers |-> 0,
     openAfter |-> FALSE, operation |-> None, geometry |-> None, restart |-> None,
     trustPending |-> FALSE, trustUsed |-> FALSE, killed |-> {}, aborted |-> {},
     wbl |-> None]

\* _current_snapshot, with its project.
Current(d) == IF d.bin \/ d.sel \in Rows \cup {None} THEN None ELSE d.rows[d.sel]

\* _render_snapshots: the selection is kept, or the first row is selected.
Rendered(d, first) ==
    IF d.bin THEN d
    ELSE [d EXCEPT !.sel = IF @ # None /\ d.rows[@] # None THEN @ ELSE first]

\* _replace_snapshot: a listed project is replaced, and it is selected.
Replaced(d, i, s) ==
    IF d.rows[i] = None THEN d
    ELSE [d EXCEPT !.rows[i] = s, !.sel = IF d.bin THEN @ ELSE i]

\* _clear_kill_suppression_for_project and its twin for restarts.
Cleared(keys, i) == {k \in keys : k[1] # i}

\* A worker has ended; the window is free when it was the last one.
Ended(d) ==
    LET e == [d EXCEPT !.workers = @ - 1]
    IN IF e.workers > 0 THEN e ELSE [e EXCEPT !.busy = FALSE]

Started(d) == [d EXCEPT !.workers = @ + 1, !.busy = TRUE]

\* A modal box or form takes all input; the viewer pick gives the main window back.
OnTop == IF stack = <<>> THEN "main" ELSE stack[Len(stack)].kind
MainEnabled == OnTop \in {"main", "pick"}
Usable == MainEnabled /\ dlg.visible

Act == acts < MaxActs /\ acts' = acts + 1

Remote == <<project, over, known>>
Desktop == <<tabs, draft>>

----------------------------------------------------------------------------
(* Discovery and refresh. *)

Session(kind, i, d) == [kind |-> kind, item |-> i, server |-> d.server, phase |-> "reading", got |-> None]

\* _start_operation
Begins(d, i) ==
    /\ dlg' = [Started(d) EXCEPT !.operation = [path |-> i]]
    /\ session' = Session(IF i = None THEN "discover" ELSE "refresh", i, d)

\* _refresh_or_stop without a running refresh
Discover ==
    /\ Usable /\ ~dlg.busy /\ ~dlg.bin /\ Act
    /\ Begins(dlg, None)
    /\ UNCHANGED <<Remote, Desktop, pool, posted, stack, past>>

\* _refresh_selected
RefreshSelected ==
    /\ Usable /\ ~dlg.busy /\ Current(dlg) # None /\ Act
    /\ Begins([dlg EXCEPT !.openAfter = FALSE], dlg.sel)
    /\ UNCHANGED <<Remote, Desktop, pool, posted, stack, past>>

\* _open_selected
OpenSelected ==
    /\ Usable /\ ~dlg.busy /\ Current(dlg) # None /\ Act
    /\ Begins([dlg EXCEPT !.openAfter = TRUE], dlg.sel)
    /\ past' = [past EXCEPT !.wanted = dlg.sel, !.opened = None]
    /\ UNCHANGED <<Remote, Desktop, pool, posted, stack>>

\* _refresh_density_task
RefreshTask ==
    /\ Usable /\ ~dlg.busy /\ ~dlg.bin /\ dlg.sel \in Rows /\ Act
    /\ dlg' = Started(dlg)
    /\ session' = Session("task", dlg.sel, dlg)
    /\ UNCHANGED <<Remote, Desktop, pool, posted, stack, past>>

\* The session reads the server and records what it finds; a project may be unreadable.
Reads(phase, got) == session' = [session EXCEPT !.phase = phase, !.got = got]

SessionReads ==
    /\ session # None /\ session.phase = "reading"
    /\ IF session.server \notin known
       THEN Reads("unknown key", None) /\ UNCHANGED project
       ELSE \/ Reads("error", None) /\ UNCHANGED project
            \/ /\ session.kind = "refresh"
               /\ project' = [project EXCEPT ![session.item] = Refreshed(session.item)]
               /\ Reads("read", Snapshot(session.item, Refreshed(session.item)))
            \/ session.kind = "task" /\ Reads("read", None) /\ UNCHANGED project
            \/ /\ session.kind = "discover" /\ session.server = Home
               /\ \E bad \in {{}} \cup {{i} : i \in Calculations} :
                    /\ project' = [i \in Calculations |-> IF i \in bad THEN project[i] ELSE Refreshed(i)]
                    /\ Reads("read", [i \in Items |-> CASE i \in bad -> None
                                                      [] i \in Calculations -> Snapshot(i, Refreshed(i))
                                                      [] OTHER -> "row"])
            \/ /\ session.kind = "discover" /\ session.server # Home
               /\ Reads("read", [i \in Items |-> None]) /\ UNCHANGED project
    /\ UNCHANGED <<over, known, dlg, pool, posted, stack, tabs, draft, past, acts>>

\* _operation_finished: a trusted host key lets the pending operation start once more.
SessionEnds(d) ==
    LET e == Ended(d)
    IN IF ~e.busy /\ e.trustPending /\ e.operation # None
       THEN Begins([e EXCEPT !.trustPending = FALSE], e.operation.path)
       ELSE dlg' = e /\ session' = None

\* request_stop and _operation_stopped
Stop ==
    /\ Usable /\ session # None /\ session.phase # "boxed"
    /\ SessionEnds([dlg EXCEPT !.trustPending = FALSE, !.openAfter = FALSE, !.operation = None])
    /\ UNCHANGED <<Remote, Desktop, pool, posted, stack, past, acts>>

\* The deadline of a minute; handled like Stop by _operation_failed.
TimesOut ==
    /\ session # None /\ session.phase # "boxed"
    /\ SessionEnds([dlg EXCEPT !.trustPending = FALSE, !.openAfter = FALSE, !.operation = None])
    /\ UNCHANGED <<Remote, Desktop, pool, posted, stack, past, acts>>

\* A draft may be submitted once its step is recorded as ended with the draft's job.
Unlocked(dr, i, s) ==
    IF dr = None \/ dr.item # i THEN dr
    ELSE [dr EXCEPT !.unlocked = s.rec.job = dr.job /\ s.rec.state = "FAILED"]

\* _project_snapshot_updated of the main window
ShowsUpdate(i, s) ==
    /\ tabs' = IF tabs[i] = None THEN tabs ELSE [tabs EXCEPT ![i] = s]
    /\ draft' = Unlocked(draft, i, s)

\* _operation_succeeded with the result of a discovery
Discovered(d, found, first) ==
    Rendered([d EXCEPT !.trustPending = FALSE, !.trustUsed = FALSE, !.killed = {}, !.aborted = {},
                       !.rows = found], first)

\* _operation_succeeded with the snapshot of a project, without the opening
RefreshedIn(d, i, s) ==
    Replaced([d EXCEPT !.trustPending = FALSE, !.trustUsed = FALSE,
                       !.killed = Cleared(@, i), !.aborted = Cleared(@, i)], i, s)

Forget(i) == [past EXCEPT !.sent = [k \in DOMAIN @ |-> IF k[2] = i THEN 0 ELSE @[k]]]

Failed(d) == [d EXCEPT !.trustPending = FALSE]

\* An unknown host key is offered for trust once, in the visible window.
Offered(d) == ~d.trustUsed /\ d.visible

SessionDelivers ==
    /\ session # None /\ session.phase \notin {"reading", "boxed"}
    /\ LET i == session.item
           s == session.got
       IN \/ /\ session.phase = "unknown key" /\ Offered(dlg)
             /\ stack' = Append(stack, [kind |-> "trust", of |-> "session", server |-> session.server])
             /\ session' = [session EXCEPT !.phase = "boxed"]
             /\ UNCHANGED <<dlg, tabs, draft, past>>
          \/ /\ session.phase = "error" \/ (session.phase = "unknown key" /\ ~Offered(dlg))
             /\ SessionEnds(Failed(dlg))
             /\ UNCHANGED <<stack, tabs, draft, past>>
          \/ /\ session.phase = "read" /\ session.kind = "task"      \* update_density_task
             /\ SessionEnds(dlg)
             /\ UNCHANGED <<stack, tabs, draft, past>>
          \/ /\ session.phase = "read" /\ session.kind = "discover"
             /\ \E first \in {j \in Items : s[j] # None} \cup
                             (IF \A j \in Items : s[j] = None THEN {None} ELSE {}) :
                  SessionEnds(Discovered(dlg, s, first))
             /\ past' = [past EXCEPT !.sent = [k \in DOMAIN @ |-> 0]]
             /\ UNCHANGED <<stack, tabs, draft>>
          \/ /\ session.phase = "read" /\ session.kind = "refresh"
             /\ LET d == RefreshedIn(dlg, i, s) IN
                IF d.openAfter
                THEN /\ SessionEnds([d EXCEPT !.openAfter = FALSE, !.visible = FALSE])
                     /\ tabs' = [tabs EXCEPT ![i] = s]
                     /\ draft' = Unlocked(draft, i, s)
                     /\ past' = [Forget(i) EXCEPT !.opened = i]
                ELSE SessionEnds(d) /\ ShowsUpdate(i, s) /\ past' = Forget(i)
             /\ UNCHANGED stack
    /\ UNCHANGED <<Remote, pool, posted, acts>>

----------------------------------------------------------------------------
(* Workers of the pool. *)

Worker(kind, i, s, d) == [kind |-> kind, item |-> i, snap |-> s, server |-> d.server, begun |-> None]

Enqueue(d, kind, i, s) ==
    /\ dlg' = Started(d)
    /\ pool' = Append(pool, Worker(kind, i, s, d))

\* _request_step_geometry and _start_geometry_view
ViewsGeometry(d, i, s) ==
    Enqueue([d EXCEPT !.geometry = [item |-> i, snap |-> s]], "geometry", i, s)

ViewGeometry ==
    /\ Usable /\ ~dlg.busy /\ Current(dlg) # None /\ Act
    /\ ViewsGeometry([dlg EXCEPT !.trustPending = FALSE, !.trustUsed = FALSE], dlg.sel, Current(dlg))
    /\ UNCHANGED <<Remote, Desktop, session, posted, stack, past>>

\* _start_task_restart
Aborts(d, i, s) == Enqueue([d EXCEPT !.restart = [item |-> i, snap |-> s]], "abort", i, s)

\* _step_task_menu, _request_task_restart
AbortTask ==
    /\ Usable /\ ~dlg.busy /\ Current(dlg) # None /\ Act
    /\ CanAbort(dlg.sel, Current(dlg)) /\ Attempt(dlg.sel, Current(dlg)) \notin dlg.aborted
    /\ Aborts([dlg EXCEPT !.trustPending = FALSE, !.trustUsed = FALSE], dlg.sel, Current(dlg))
    /\ UNCHANGED <<Remote, Desktop, session, posted, stack, past>>

\* _kill_selected_step3
KillSelected ==
    /\ Usable /\ ~dlg.busy /\ Current(dlg) # None /\ Act
    /\ CanKill(dlg.sel, Current(dlg)) /\ Attempt(dlg.sel, Current(dlg)) \notin dlg.killed
    /\ Enqueue(dlg, "kill", dlg.sel, Current(dlg))
    /\ UNCHANGED <<Remote, Desktop, session, posted, stack, past>>

\* _retry_selected_step3
RetryStep3 ==
    /\ Usable /\ ~dlg.busy /\ Current(dlg) # None /\ Act
    /\ CanRetry(dlg.sel, Current(dlg), 3)
    /\ Enqueue(dlg, "retry", dlg.sel, Current(dlg))
    /\ UNCHANGED <<Remote, Desktop, session, posted, stack, past>>

\* _retry_selected_step4
RetryStep4 ==
    /\ Usable /\ ~dlg.busy /\ Current(dlg) # None /\ Act
    /\ CanRetry(dlg.sel, Current(dlg), 4)
    /\ Enqueue(dlg, "retry", dlg.sel, Current(dlg))
    /\ UNCHANGED <<Remote, Desktop, session, posted, stack, past>>

\* _cancel_selected_orca
CancelOrca ==
    /\ Usable /\ ~dlg.busy /\ Current(dlg) # None /\ Act
    /\ CanCancelOrca(dlg.sel, Current(dlg))
    /\ Enqueue(dlg, "cancel", dlg.sel, Current(dlg))
    /\ UNCHANGED <<Remote, Desktop, session, posted, stack, past>>

Sent(by, i) == [past EXCEPT !.sent[<<by, i, project[i].job>>] = IF @ = 2 THEN 2 ELSE @ + 1]

Report(w, what, data) == [what |-> what, of |-> w, data |-> data]

\* The worker leaves the pool with its outcome and its end.
Leaves(w, what, data) ==
    /\ pool' = Tail(pool)
    /\ posted' = posted \o <<Report(w, what, data), Report(w, "finished", None)>>

\* A service opens only connections to hosts it knows.
WorkerFails(w) ==
    /\ Leaves(w, "failed", IF w.server \in known THEN "error" ELSE "unknown key")
    /\ UNCHANGED <<project, past>>

\* cancel_active_step3_oom_job; the record must be the one on screen.
Kills(w) ==
    /\ w.kind = "kill" /\ project[w.item] = w.snap.rec
    /\ \/ /\ w.item \in over
          /\ project' = [project EXCEPT ![w.item] = Refreshed(w.item)]
          /\ Leaves(w, "succeeded", [outcome |-> "TERMINAL", snap |-> Snapshot(w.item, Refreshed(w.item))])
          /\ UNCHANGED past
       \/ /\ w.item \notin over
          /\ \E answer \in {"REQUESTED", "UNKNOWN"} :
               Leaves(w, "succeeded", [outcome |-> answer, snap |-> None])
          /\ past' = Sent("kill", w.item)
          /\ UNCHANGED project

\* abort_and_prepare
AbortsTask(w) ==
    /\ w.kind = "abort" /\ project[w.item] = w.snap.rec
    /\ \/ w.item \in over /\ Leaves(w, "succeeded", "TERMINAL") /\ UNCHANGED past
       \/ /\ w.item \notin over
          /\ \E answer \in {"REQUESTED", "UNKNOWN"} : Leaves(w, "succeeded", answer)
          /\ past' = Sent("abort", w.item)
    /\ UNCHANGED project

\* retry_step3 and retry_step4_with_explicit_self_energy: a new job of the same step.
Retries(w) ==
    LET rec == [w.snap.rec EXCEPT !.state = "RUNNING", !.job = @ + 1]
    IN /\ w.kind = "retry" /\ project[w.item] = w.snap.rec /\ rec.job <= MaxJobs
       /\ project' = [project EXCEPT ![w.item] = rec]
       /\ Leaves(w, "succeeded", [rec |-> rec])
       /\ UNCHANGED past

Views(w) ==
    /\ w.kind = "geometry"
    /\ Leaves(w, "succeeded", "geometry") /\ UNCHANGED <<project, past>>

\* cancel_active_job: the record as it is now, whatever the window shows.
CancelsOrca(w) ==
    /\ w.kind = "cancel" /\ project[w.item].freq \in {"RUNNING", "UNKNOWN"}
    /\ project' = [project EXCEPT ![w.item].freq = "UNKNOWN"]
    /\ Leaves(w, "succeeded", [project[w.item] EXCEPT !.freq = "UNKNOWN"])
    /\ UNCHANGED past

\* calculate, up to the record of the running analysis: the result to replace must be
\* the one the form was opened with.
WblStarts(w) ==
    /\ w.kind = "wbl" /\ w.begun = None
    /\ project[w.item].wbl # "RUNNING"
    /\ project[w.item].result = w.snap.rec.result
    /\ LET rec == [project[w.item] EXCEPT !.wbl = "RUNNING", !.result = 0]
       IN /\ project' = [project EXCEPT ![w.item] = rec]
          /\ posted' = Append(posted, Report(w, "updated", rec))
          /\ pool' = [pool EXCEPT ![1].begun = rec]
    /\ UNCHANGED past

\* The rest of calculate: committed, failed (the previous result comes back), or left as it
\* stands because the record has changed meanwhile or the rollback could not be verified.
WblEnds(w) ==
    /\ w.kind = "wbl" /\ w.begun # None
    /\ LET now == project[w.item]
           done == [now EXCEPT !.wbl = "SUCCEEDED", !.result = past.results + 1]
           back == IF w.snap.rec.result # 0
                   THEN [now EXCEPT !.wbl = "SUCCEEDED", !.result = w.snap.rec.result]
                   ELSE [now EXCEPT !.wbl = "FAILED"]
       IN \/ /\ now = w.begun /\ past.results < MaxResults
             /\ past' = [past EXCEPT !.results = @ + 1]
             /\ project' = [project EXCEPT ![w.item] = done]
             /\ posted' = posted \o <<Report(w, "updated", done), Report(w, "succeeded", done),
                                      Report(w, "finished", None)>>
          \/ /\ now = w.begun
             /\ project' = [project EXCEPT ![w.item] = back]
             /\ posted' = posted \o <<Report(w, "updated", back), Report(w, "failed", "error"),
                                      Report(w, "finished", None)>>
             /\ UNCHANGED past
          \/ /\ posted' = posted \o <<Report(w, "failed", "error"), Report(w, "finished", None)>>
             /\ UNCHANGED <<project, past>>
    /\ pool' = Tail(pool)

\* The thread runs the first worker.
PoolRuns ==
    /\ pool # <<>>
    /\ LET w == pool[1]
       IN \/ w.begun = None /\ WorkerFails(w)
          \/ /\ w.server \in known
             /\ \/ Kills(w) \/ AbortsTask(w) \/ Retries(w) \/ Views(w) \/ CancelsOrca(w)
                \/ WblStarts(w) \/ WblEnds(w)
    /\ over' = over \ {i \in Fhi : project'[i].job # project[i].job}
    /\ UNCHANGED <<known, dlg, session, stack, tabs, draft, acts>>

----------------------------------------------------------------------------
(* What the window does with the reports. *)

\* _kill_succeeded
KillAnswered(d, w, answer) ==
    IF d.sel # w.item \/ Current(d) = None THEN d      \* "cancelled project selection changed"
    ELSE IF answer.outcome # "TERMINAL"
    THEN [d EXCEPT !.killed = @ \cup {Attempt(w.item, w.snap)}]
    ELSE Replaced([d EXCEPT !.killed = Cleared(@, w.item)], w.item, answer.snap)

\* _task_restart_succeeded: the attempt is suppressed, also when its outcome is unknown.
AbortAnswered(d, w) ==
    [d EXCEPT !.trustPending = FALSE, !.trustUsed = FALSE,
              !.aborted = @ \cup {Attempt(w.item, w.snap)}]

\* _open_project_restart_workspace: a draft of the job that is open is only shown.
DraftOf(w) ==
    IF draft # None /\ draft.item = w.item /\ draft.job = w.snap.rec.job THEN draft
    ELSE [item |-> w.item, job |-> w.snap.rec.job, unlocked |-> FALSE]

\* _retry_succeeded and _retry_step4_succeeded: no tab hears of the new job.
RetryAnswered(d, w, s) ==
    IF d.sel # w.item \/ Current(d) = None THEN d ELSE Replaced(d, w.item, s)

\* The analysis the window waits for.
PendingWbl(i) == IF dlg.wbl = None THEN FALSE ELSE dlg.wbl.item = i

\* Mutant: every update keeps the chart on screen.
WblUpdate_Inherits(d, rec) == [rec |-> rec, active |-> "wbl", chart |-> d.wbl.now.chart]

\* _orca_wbl_project_updated: a chart is kept only with the result it was drawn from.
WblUpdate(d, rec) ==
    LET before == d.wbl.before
        back == rec.wbl = "SUCCEEDED" /\ before.rec.wbl = "SUCCEEDED"
                /\ before.rec.result = rec.result
    IN [rec |-> rec, active |-> "wbl", chart |-> IF back THEN before.chart ELSE 0]

\* An answer of a worker that failed; only some workers offer an unknown key for trust.
FailureHandled(w, error) ==
    /\ UNCHANGED <<tabs, draft, past>>
    /\ IF error = "unknown key" /\ w.kind \in {"geometry", "abort", "retry"} /\ Offered(dlg)
       THEN /\ stack' = Append(stack, [kind |-> "trust", of |-> w.kind, server |-> w.server])
            /\ UNCHANGED dlg
       ELSE /\ dlg' = IF w.kind \in {"geometry", "abort", "retry"} THEN Failed(dlg) ELSE dlg
            /\ UNCHANGED stack

SuccessHandled(w, answer) ==
    /\ UNCHANGED stack
    /\ \/ w.kind = "kill" /\ dlg' = KillAnswered(dlg, w, answer) /\ UNCHANGED <<tabs, draft, past>>
       \/ /\ w.kind = "abort" /\ dlg' = AbortAnswered(dlg, w)
          /\ draft' = IF answer = "UNKNOWN" THEN draft ELSE DraftOf(w)
          /\ UNCHANGED <<tabs, past>>
       \/ w.kind = "retry" /\ dlg' = RetryAnswered(dlg, w, answer) /\ UNCHANGED <<tabs, draft, past>>
       \/ /\ w.kind = "geometry"
          /\ dlg' = [dlg EXCEPT !.trustPending = FALSE, !.trustUsed = FALSE]
          /\ UNCHANGED <<tabs, draft, past>>
       \/ /\ w.kind = "cancel"      \* _orca_cancel_succeeded: the chart on screen stays
          /\ LET s == Current(dlg)
                 t == [s EXCEPT !.rec = answer, !.active = "freq"]
             IN IF s = None \/ dlg.sel # w.item THEN UNCHANGED <<dlg, tabs, draft, past>>
                ELSE /\ dlg' = Replaced(dlg, w.item, t) /\ ShowsUpdate(w.item, t)
                     /\ past' = [past EXCEPT !.mixed =
                                   IF s.rec.result = answer.result /\ s.rec.wbl = answer.wbl
                                   THEN @ ELSE @ \cup {w.item}]
       \/ /\ w.kind = "wbl"         \* _orca_wbl_succeeded
          /\ LET t == [rec |-> answer, active |-> "wbl", chart |-> answer.result]
             IN IF ~PendingWbl(w.item) THEN UNCHANGED <<dlg, tabs, draft>>
                ELSE dlg' = Replaced(dlg, w.item, t) /\ ShowsUpdate(w.item, t)
          /\ UNCHANGED past

\* The _finished handlers of the pool's workers, with the promised retry of two of them.
WorkerEnds(w) ==
    LET e == Ended(IF w.kind = "wbl" /\ dlg.workers = 1
                   THEN [dlg EXCEPT !.wbl = None] ELSE dlg)
        again == ~e.busy /\ e.trustPending
        f == [e EXCEPT !.trustPending = FALSE]
    IN IF again /\ w.kind = "geometry" /\ e.geometry # None
       THEN ViewsGeometry(f, e.geometry.item, e.geometry.snap)
       ELSE IF again /\ w.kind = "abort" /\ e.restart # None
       THEN Aborts(f, e.restart.item, e.restart.snap)
       ELSE dlg' = e /\ UNCHANGED pool

Delivers ==
    /\ posted # <<>>
    /\ posted' = Tail(posted)
    /\ LET r == posted[1]
           w == r.of
       IN \/ /\ r.what = "failed" /\ FailureHandled(w, r.data)
             /\ UNCHANGED pool
          \/ /\ r.what = "succeeded" /\ SuccessHandled(w, r.data)
             /\ UNCHANGED pool
          \/ /\ r.what = "updated"
             /\ IF ~PendingWbl(w.item) THEN UNCHANGED <<dlg, tabs, draft>>
                ELSE LET t == WblUpdate(dlg, r.data)
                     IN /\ dlg' = Replaced([dlg EXCEPT !.wbl.now = t], w.item, t)
                        /\ ShowsUpdate(w.item, t)
             /\ UNCHANGED <<pool, stack, past>>
          \/ /\ r.what = "finished" /\ WorkerEnds(w)
             /\ UNCHANGED <<stack, tabs, draft, past>>
    /\ UNCHANGED <<Remote, session, acts>>

\* _confirm_unknown_host is answered; only the session's end is still to come.
AnswerTrust ==
    /\ OnTop = "trust" /\ Act
    /\ LET box == stack[Len(stack)] IN
       \E yes \in BOOLEAN :
         LET d == IF yes THEN [dlg EXCEPT !.trustUsed = TRUE, !.trustPending = TRUE] ELSE dlg
         IN /\ known' = IF yes THEN known \cup {box.server} ELSE known
            /\ IF box.of = "session" THEN SessionEnds(d) ELSE dlg' = d /\ UNCHANGED session
    /\ stack' = SubSeq(stack, 1, Len(stack) - 1)
    /\ UNCHANGED <<project, over, Desktop, pool, posted, past>>

----------------------------------------------------------------------------
(* The ORCA analysis, from its tab or from the window. *)

\* calculate_orca_wbl: the form is opened only by an idle window.
Form(i, s) == [kind |-> "form", item |-> i, snap |-> s]

CalculateWbl ==
    /\ MainEnabled /\ ~dlg.busy /\ Act
    /\ \E i \in Orca :
         /\ tabs[i] # None /\ WblEligible(i, tabs[i])
         /\ stack' = Append(stack, Form(i, tabs[i]))
    /\ UNCHANGED <<Remote, Desktop, dlg, session, pool, posted, past>>

\* _resubmit_selected_orca and _resubmit_orca_wbl: the project is opened, the window hides.
ResubmitWbl ==
    /\ Usable /\ ~dlg.busy /\ Current(dlg) # None /\ Act
    /\ CanResubmitWbl(dlg.sel, Current(dlg))
    /\ tabs' = [tabs EXCEPT ![dlg.sel] = Current(dlg)]
    /\ dlg' = [dlg EXCEPT !.visible = FALSE]
    /\ stack' = Append(stack, Form(dlg.sel, Current(dlg)))
    /\ UNCHANGED <<Remote, draft, session, pool, posted, past>>

Picking == \E n \in 1..Len(stack) : stack[n].kind = "pick"

\* _select_orca_wbl_contact_atom: one pick at a time.
StartPick ==
    /\ OnTop = "form" /\ ~Picking
    /\ stack' = Append(stack, [kind |-> "pick"])
    /\ UNCHANGED <<Remote, Desktop, dlg, session, pool, posted, past, acts>>

EndPick ==
    /\ OnTop = "pick"
    /\ stack' = SubSeq(stack, 1, Len(stack) - 1)
    /\ UNCHANGED <<Remote, Desktop, dlg, session, pool, posted, past, acts>>

CloseForm ==
    /\ OnTop = "form"
    /\ stack' = SubSeq(stack, 1, Len(stack) - 1)
    /\ UNCHANGED <<Remote, Desktop, dlg, session, pool, posted, past, acts>>

\* The rest of calculate_orca_wbl: whether the window is still idle is not asked again.
AcceptForm ==
    /\ OnTop = "form"
    /\ LET f == stack[Len(stack)]
       IN Enqueue([dlg EXCEPT !.wbl = [item |-> f.item, now |-> f.snap, before |-> f.snap]],
                  "wbl", f.item, f.snap)
    /\ past' = [past EXCEPT !.overlapped = @ \/ dlg.busy]
    /\ stack' = SubSeq(stack, 1, Len(stack) - 1)
    /\ UNCHANGED <<Remote, Desktop, session, posted, acts>>

----------------------------------------------------------------------------
(* Gestures without a remote operation, and the world outside. *)

Select ==
    /\ Usable /\ ~dlg.busy /\ ~dlg.bin
    /\ \E i \in Items : dlg.rows[i] # None /\ dlg' = [dlg EXCEPT !.sel = i]
    /\ UNCHANGED <<Remote, Desktop, session, pool, posted, stack, past, acts>>

ChangeServer ==
    /\ Usable /\ ~dlg.busy /\ ~dlg.bin /\ Act
    /\ \E s \in Servers \ {dlg.server} : dlg' = [Emptied(dlg) EXCEPT !.server = s]
    /\ UNCHANGED <<Remote, Desktop, session, pool, posted, stack, past>>

\* _show_recycle_bin and _show_projects; back in the list the first row is selected.
ShowBin ==
    /\ Usable /\ ~dlg.busy /\ ~dlg.bin /\ Act
    /\ dlg' = [dlg EXCEPT !.bin = TRUE, !.sel = None]
    /\ UNCHANGED <<Remote, Desktop, session, pool, posted, stack, past>>

ShowProjects ==
    /\ Usable /\ ~dlg.busy /\ dlg.bin
    /\ \E first \in {j \in Items : dlg.rows[j] # None} \cup
                    (IF \A j \in Items : dlg.rows[j] = None THEN {None} ELSE {}) :
         dlg' = Rendered([dlg EXCEPT !.bin = FALSE], first)
    /\ UNCHANGED <<Remote, Desktop, session, pool, posted, stack, past, acts>>

\* The window closes also while an operation runs.
Close ==
    /\ Usable
    /\ dlg' = [dlg EXCEPT !.visible = FALSE]
    /\ UNCHANGED <<Remote, Desktop, session, pool, posted, stack, past, acts>>

Show ==
    /\ MainEnabled /\ ~dlg.visible
    /\ dlg' = [dlg EXCEPT !.visible = TRUE]
    /\ UNCHANGED <<Remote, Desktop, session, pool, posted, stack, past, acts>>

JobEnds ==
    /\ \E i \in Calculations \ over : over' = over \cup {i}
    /\ UNCHANGED <<project, known, Desktop, dlg, session, pool, posted, stack, past, acts>>

\* Another installation repeats the analysis.
OtherWbl ==
    /\ past.results < MaxResults
    /\ \E i \in Orca :
         /\ project[i].wbl # "RUNNING"
         /\ project' = [project EXCEPT ![i].wbl = "SUCCEEDED", ![i].result = past.results + 1]
    /\ past' = [past EXCEPT !.results = @ + 1]
    /\ UNCHANGED <<over, known, Desktop, dlg, session, pool, posted, stack, acts>>

----------------------------------------------------------------------------

Init ==
    /\ project \in [Calculations -> [step : {3, 4}, state : {"RUNNING", "FAILED"}, job : {1}] \cup
                                [wbl : {"SUCCEEDED"}, result : {1}, freq : {"RUNNING"}]]
    /\ \A i \in Fhi : "step" \in DOMAIN project[i] /\ (project[i].step = 3 <=> project[i].state = "RUNNING")
    /\ \A i \in Orca : "wbl" \in DOMAIN project[i]
    /\ over = {i \in Fhi : project[i].state = "FAILED"}
    /\ known \in {{}, {Home}}
    /\ dlg = NewWindow /\ session = None /\ pool = <<>> /\ posted = <<>> /\ stack = <<>>
    /\ tabs = [i \in Calculations |-> None] /\ draft = None
    /\ past = [wanted |-> None, opened |-> None, results |-> 1, mixed |-> {}, overlapped |-> FALSE,
               sent |-> [k \in {"kill", "abort"} \X Fhi \X (1..MaxJobs) |-> 0]]
    /\ acts = 0

Next ==
    \/ Discover \/ RefreshSelected \/ OpenSelected \/ RefreshTask
    \/ SessionReads \/ SessionDelivers \/ Stop \/ TimesOut
    \/ ViewGeometry \/ AbortTask \/ KillSelected \/ RetryStep3 \/ RetryStep4 \/ CancelOrca
    \/ PoolRuns \/ Delivers \/ AnswerTrust
    \/ CalculateWbl \/ ResubmitWbl \/ StartPick \/ EndPick \/ CloseForm \/ AcceptForm
    \/ Select \/ ChangeServer \/ ShowBin \/ ShowProjects \/ Close \/ Show
    \/ JobEnds \/ OtherWbl

Spec == Init /\ [][Next]_vars

----------------------------------------------------------------------------
(* Properties. *)

ShownSnapshots(i) ==
    ({dlg.rows[i], tabs[i]} \ {None}) \cup (IF PendingWbl(i) THEN {dlg.wbl.now} ELSE {})

\* A chart belongs to the result the snapshot records ("must not inherit a chart from the
\* previous result under its new evidence identity").  The cancellation of a frequency job
\* is the exception: its answer carries the record as it is now beside the chart on screen.
ChartIsOfResult ==
    \A i \in Orca \ past.mixed : \A s \in ShownSnapshots(i) :
        s.chart # 0 => s.rec.wbl = "SUCCEEDED" /\ s.chart = s.rec.result

\* A restart draft is unlocked only when its job has ended.
DraftIsLocked ==
    draft # None /\ draft.unlocked => project[draft.item].job # draft.job \/ draft.item \in over

\* The window is busy exactly while one of its operations is under way, unless an analysis
\* was accepted while another operation was running.
BusyWhileWorking ==
    /\ dlg.busy <=> dlg.workers > 0
    /\ past.overlapped \/ dlg.workers <= 1
    /\ Len(pool) <= dlg.workers

\* A job is killed once, and aborted once, until the window has read its project again.
SentOnce == past.overlapped \/ \A k \in DOMAIN past.sent : past.sent[k] <= 1

\* Only the project whose Open was pressed is opened.
OpensWhatWasAsked == past.opened \in {None, past.wanted}
=============================================================================

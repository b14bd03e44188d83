------------------------------ MODULE MainWindow ------------------------------
(***************************************************************************)
(* The main window (tools/molecule_viewer_demo.py): its Geometry tabs, the   *)
(* one set of registers that the handlers work on and that is bound to one   *)
(* tab at a time, and the operations that run in the background and report   *)
(* to the tab they were started from: submissions of Steps 1-3 and of ORCA   *)
(* jobs, the Step-4 preflight and submission, and the export of inputs.      *)
(*                                                                         *)
(* All operations share a pool of one thread.  A worker emits its outcome    *)
(* and then "finished"; both are delivered in this order by the event loop.  *)
(* A message box or dialog inside a callback is a frame on the stack: it     *)
(* runs a nested event loop, in which further events are delivered, and the  *)
(* callback goes on when the box is answered.                               *)
(***************************************************************************)
EXTENDS Integers, FiniteSets, SequencesExt

CONSTANTS
    Tabs,          \* Geometry workspaces
    Projects,      \* managed projects
    Steps,         \* steps that a recovered geometry can be continued to
    None,          \* no value, no Geometry tab
    MaxOpens,      \* bound on the geometries opened
    MaxStarts,     \* bound on the operations started
    MaxTouches,    \* bound on the changes the user makes
    MaxActs        \* bound on all of these together

ASSUME WindowAssumption ==
    /\ MaxOpens \in Nat /\ MaxStarts \in Nat /\ MaxTouches \in Nat /\ MaxActs \in Nat
    /\ Steps \subseteq 2..4
    /\ None \notin Tabs

VARIABLES
    win,      \* [open, retired, tabs, bound, reg, visible, closed]
    sub,      \* the lifecycle of the submission
    tra,      \* [running, origin, project, workers]: the Step-4 operation
    pool,     \* workers waiting for the thread or running
    events,   \* signals emitted and not yet delivered
    stack,    \* callbacks waiting in a modal box
    home,     \* [operation -> the tab it was started from]
    count     \* [opens, starts, touches]

vars == <<win, sub, tra, pool, events, stack, home, count>>

Bounded == count.opens + count.starts + count.touches < MaxActs

Fresh == [snap |-> None, needs |-> {}, touched |-> 0]
Empty == [identity |-> None, draft |-> None, readOnly |-> FALSE, doc |-> Fresh]
Idle == [running |-> FALSE, origin |-> None, request |-> None, retry |-> FALSE, trusted |-> FALSE,
         inCallback |-> FALSE, finishPending |-> FALSE, workers |-> 0, shown |-> "none"]

\* The window starts with one empty Geometry tab.
Init ==
    \E first \in Tabs :
        /\ win = [open |-> {first}, retired |-> {}, tabs |-> [w \in Tabs |-> Empty],
                  bound |-> first, reg |-> Fresh, visible |-> first, closed |-> FALSE]
        /\ sub = Idle
        /\ tra = [running |-> FALSE, origin |-> None, project |-> None, workers |-> 0]
        /\ pool = <<>> /\ events = <<>> /\ stack = <<>>
        /\ home = [op \in {"submission", "transport"} |-> None]
        /\ count = [opens |-> 0, starts |-> 0, touches |-> 0]

----------------------------------------------------------------------------
(* Tabs and registers.                                                     *)

\* _bind_geometry_workspace.
Bind(v, w) == [v EXCEPT !.bound = w, !.reg = v.tabs[w].doc]

\* _store_bound_geometry_workspace.
Store(v) == IF v.bound = None THEN v ELSE [v EXCEPT !.tabs[v.bound].doc = v.reg]

\* What a tab holds now.
Content(v, w) == IF v.bound = w THEN v.reg ELSE v.tabs[w].doc

\* _focus_workspace, _active_workspace_changed: None is a tab that is no Geometry.
Show(v, w) ==
    LET shown == [Store(v) EXCEPT !.visible = w] IN
    IF w = None THEN shown ELSE Bind(shown, w)

\* _workspace_by_runtime_id: a closed tab is found only while it is retired.
Found(v, w) == IF w \in v.open \cup v.retired THEN w ELSE None

\* Mutant: the registers of the tab that is shown are not stored first.
Enter_Unstored(v, origin) ==
    IF Found(v, origin) \in {None, v.bound} THEN v ELSE Bind(v, origin)

\* _geometry_callback_context, up to its yield.
Enter(v, origin) ==
    IF Found(v, origin) \in {None, v.bound} THEN v ELSE Bind(Store(v), origin)

Context(v, origin) == [target |-> Found(v, origin), visible |-> v.visible, previous |-> v.bound]

\* Its finally clause: without a target nothing is stored, but the tab is bound again.
Leave(v, context) ==
    LET kept == IF context.target = None THEN v ELSE Store(v)
        back == IF context.visible = None THEN context.previous ELSE context.visible IN
    IF back \in {None, context.target} THEN kept ELSE Bind(kept, back)

\* _release_retired_workspace, once neither operation has it as its origin.
Release(v, w, origins) ==
    IF w \in v.retired \ origins
    THEN [v EXCEPT !.retired = @ \ {w}, !.tabs[w] = Empty, !.bound = IF @ = w THEN None ELSE @]
    ELSE v

UserMayAct == stack = <<>> /\ ~win.closed

\* _workspace_for_new_geometry: an empty tab is used again, else one is created.
ForNewGeometry ==
    LET empty == {w \in win.open : win.tabs[w].identity = None} IN
    IF win.visible \in empty THEN {win.visible}
    ELSE IF empty # {} THEN empty
    ELSE Tabs \ (win.open \cup win.retired)

\* _open_local_geometry, _open_recovered_geometry, _open_project_restart_workspace and
\* _open_project_geometry_workspace: an identity that is open is only shown.
Open(identity, loaded) ==
    /\ UserMayAct /\ count.opens < MaxOpens /\ Bounded
    /\ LET open == {w \in win.open : win.tabs[w].identity = identity} IN
       \/ \E w \in open : win' = Show(win, w)
       \/ /\ open = {}
          /\ \E w \in ForNewGeometry :
               win' = [Show([win EXCEPT !.open = @ \cup {w}], w)
                             EXCEPT !.tabs[w] = loaded, !.reg = loaded.doc]
    /\ count' = [count EXCEPT !.opens = @ + 1]
    /\ UNCHANGED <<sub, tra, pool, events, stack, home>>

OpenLocal ==
    LET identity == [project |-> None, role |-> "local"] IN
    Open(identity, [Empty EXCEPT !.identity = identity])

OpenRecovered(p, next) ==
    LET identity == [project |-> p, role |-> "recovered"] IN
    Open(identity, [Empty EXCEPT !.identity = identity,
                                 !.doc.snap = [project |-> p, next |-> next]])

\* The draft of a Step 4, submitted as a further attempt of its project.
OpenDraft(p) ==
    LET identity == [project |-> p, role |-> "draft"] IN
    Open(identity, [Empty EXCEPT !.identity = identity,
                                 !.draft = [project |-> p, confirmed |-> FALSE]])

OpenReadOnly(p) ==
    LET identity == [project |-> p, role |-> "view"] IN
    Open(identity, [Empty EXCEPT !.identity = identity, !.readOnly = TRUE])

\* A click on another tab; None is a result, density or tight-binding tab.
SwitchTab(w) ==
    /\ UserMayAct /\ w # win.visible /\ w \in win.open \cup {None}
    /\ win' = Show(win, w)
    /\ UNCHANGED <<sub, tra, pool, events, stack, home, count>>

\* A tab that an operation was started from is retired instead of deleted.
CloseTab(w) ==
    /\ UserMayAct /\ w \in win.open /\ win.visible = w
    /\ \E next \in (win.open \ {w}) \cup {None} :
         /\ next = None => win.open = {w}
         /\ LET kept == IF win.bound = w THEN Store(win) ELSE win
                retire == w \in {sub.origin, tra.origin}
                closed == [kept EXCEPT !.open = @ \ {w},
                                       !.retired = IF retire THEN @ \cup {w} ELSE @,
                                       !.tabs[w] = IF retire THEN @ ELSE Empty,
                                       !.bound = IF @ = w THEN None ELSE @] IN
            win' = Show(closed, next)
    /\ UNCHANGED <<sub, tra, pool, events, stack, home, count>>

\* Ticks, picks and measurements change the registers alone until they are stored.
Touch ==
    /\ UserMayAct /\ win.visible # None /\ win.visible = win.bound /\ count.touches < MaxTouches /\ Bounded
    /\ win' = [win EXCEPT !.reg.touched = count.touches + 1]
    /\ count' = [count EXCEPT !.touches = @ + 1]
    /\ UNCHANGED <<sub, tra, pool, events, stack, home>>

\* _project_snapshot_updated: at any time, every open tab of the project.
SnapshotUpdated(p, next, terminal) ==
    /\ ~win.closed
    /\ LET snap == [project |-> p, next |-> next]
           ofProject(doc) == doc.snap # None /\ doc.snap.project = p
           updated(w) ==
             [win.tabs[w] EXCEPT
                !.doc.snap = IF ofProject(win.tabs[w].doc) THEN snap ELSE @,
                !.draft = IF @ # None /\ @.project = p THEN [@ EXCEPT !.confirmed = terminal] ELSE @]
       IN /\ win' = [win EXCEPT
                       !.tabs = [w \in Tabs |-> IF w \in win.open THEN updated(w) ELSE win.tabs[w]],
                       !.reg.snap = IF win.bound \in win.open /\ ofProject(win.tabs[win.bound].doc)
                                    THEN snap ELSE @]
          /\ win' # win
    /\ UNCHANGED <<sub, tra, pool, events, stack, home, count>>

----------------------------------------------------------------------------
(* Starting an operation.                                                  *)

Started == count.starts < MaxStarts /\ Bounded /\ count' = [count EXCEPT !.starts = @ + 1]

Worker(op, project) == [op |-> op, project |-> project, origin |-> win.visible]

\* _start_submission and _launch_pending_submission_worker; the registers are those of
\* the active tab.  A submission for no project creates one.
StartSubmission(project, step) ==
    /\ ~sub.running /\ Started
    /\ sub' = [Idle EXCEPT !.running = TRUE, !.origin = win.visible, !.workers = 1,
                           !.request = [project |-> project, step |-> step]]
    /\ win' = [win EXCEPT !.reg.needs = @ \ {2}]
    /\ pool' = Append(pool, Worker("submission", project))
    /\ home' = [home EXCEPT !["submission"] = win.visible]
    /\ UNCHANGED <<tra, events, stack>>

\* What the routing of the actions asks of the active tab.
Active == UserMayAct /\ win.visible # None /\ win.visible = win.bound
Tab == win.tabs[win.bound]
Writable == Active /\ Tab.identity # None /\ ~Tab.readOnly
Unmanaged == Writable /\ Tab.draft = None /\ win.reg.snap = None

\* _submit_new_optimization_project, with FHI-aims (Step 1) or ORCA (0).
SubmitNew == Unmanaged /\ \E step \in {0, 1} : StartSubmission(None, step)

\* _submit_imported_step2.
SubmitImported2 == Unmanaged /\ 2 \notin win.reg.needs /\ StartSubmission(None, 2)

\* _submit_imported_step3.
SubmitImported3 == Unmanaged /\ 3 \notin win.reg.needs /\ StartSubmission(None, 3)

\* _submit_restart_as_new_project: a changed geometry starts with Step 3 again.
SubmitRestart ==
    /\ Writable /\ Tab.draft # None /\ Tab.draft.confirmed /\ ~tra.running
    /\ StartSubmission(None, 3)

Continues(step) ==
    /\ Writable /\ Tab.draft = None /\ step \notin win.reg.needs
    /\ win.reg.snap # None /\ win.reg.snap.next = step

\* _continue_project_step2.
ContinueStep2 == Continues(2) /\ StartSubmission(win.reg.snap.project, 2)

\* _continue_project_step3.
ContinueStep3 == Continues(3) /\ StartSubmission(win.reg.snap.project, 3)

\* _resubmit_orca_optimization: a project of its own.
ResubmitOrca == Active /\ StartSubmission(None, 0)

\* _prepare_orca_frequency_submission, which also works without a Geometry tab.
SubmitFrequency(p) == UserMayAct /\ (win.visible # None => Active) /\ StartSubmission(p, 0)

StartPreflight(project) ==
    /\ ~tra.running /\ ~sub.running /\ Started
    /\ tra' = [running |-> TRUE, origin |-> win.visible, project |-> project, workers |-> tra.workers + 1]
    /\ pool' = Append(pool, Worker("preflight", project))
    /\ home' = [home EXCEPT !["transport"] = win.visible]
    /\ UNCHANGED <<win, sub, events, stack>>

\* _continue_project_step4.
ContinueStep4 ==
    /\ Continues(4)
    /\ StartPreflight(win.reg.snap.project)

\* _submit_restart_draft and _submit_restart_step4.
RestartStep4 ==
    /\ Writable /\ Tab.draft # None /\ Tab.draft.confirmed
    /\ StartPreflight(Tab.draft.project)

\* _generate_aims_optimization; only one export at a time.
ExportInputs ==
    /\ Writable
    /\ \A i \in DOMAIN pool : pool[i].op # "export"
    /\ \A i \in DOMAIN events : events[i].op # "export"
    /\ Started
    /\ pool' = Append(pool, Worker("export", None))
    /\ UNCHANGED <<win, sub, tra, events, stack, home>>

\* The worker at the head of the pool ends: its outcome, then "finished".
WorkerEnds(what) ==
    /\ pool # <<>> /\ ~win.closed
    /\ what = "failed" => Head(pool).op # "export"    \* both only show a box
    /\ what = "unknownHost" => Head(pool).op = "submission"
    /\ what = "unavailable" => Head(pool).op = "preflight"
    /\ LET event(signal) == [op |-> Head(pool).op, project |-> Head(pool).project,
                             origin |-> Head(pool).origin, signal |-> signal] IN
       events' = events \o <<event(what), event("finished")>>
    /\ pool' = Tail(pool)
    /\ UNCHANGED <<win, sub, tra, stack, home, count>>

----------------------------------------------------------------------------
(* Delivering events.                                                      *)

Event == Head(events)
Next4(op) == op \in {"preflight", "step4", "restart4"}

\* Where the callback of an event is routed to.
Origin(event) ==
    IF event.op = "submission" THEN sub.origin
    ELSE IF Next4(event.op) THEN tra.origin ELSE event.origin

Delivered(op, signals) ==
    /\ ~win.closed /\ events # <<>> /\ Event.op \in op /\ Event.signal \in signals
    /\ events' = Tail(events)

Box(v, wait, data) ==
    stack' = Append(stack, [wait |-> wait, op |-> Event.op, data |-> data,
                            context |-> Context(win, Origin(Event))]) /\ win' = v

\* The snapshot after a submitted Step 2 or 3; without one, a refresh is required.
AfterSubmission(reg, request) ==
    IF request.step \notin {2, 3} THEN reg
    ELSE IF request.project # None /\ reg.snap # None
         THEN [reg EXCEPT !.snap = [project |-> request.project, next |-> 0], !.needs = @ \ {request.step}]
         ELSE [reg EXCEPT !.needs = @ \cup {request.step}]

\* _submission_succeeded, up to the box.
SubmissionSucceeded ==
    /\ Delivered({"submission"}, {"ok"})
    /\ sub' = [sub EXCEPT !.retry = FALSE, !.inCallback = TRUE]
    /\ LET v == Enter(win, sub.origin) IN
       Box([v EXCEPT !.reg = AfterSubmission(v.reg, sub.request)], "success", None)
    /\ UNCHANGED <<tra, pool, home, count>>

\* _submission_failed; an unknown host may be trusted once for each submission.
SubmissionFailed ==
    /\ Delivered({"submission"}, {"failed", "unknownHost"})
    /\ sub' = [sub EXCEPT !.inCallback = TRUE]
    /\ LET v == Enter(win, sub.origin)
           asks == Event.signal = "unknownHost" /\ ~sub.trusted IN
       Box([v EXCEPT !.reg.needs = IF sub.request.step = 3 /\ Event.signal = "failed"
                                   THEN @ \cup {3} ELSE @],
           IF asks THEN "trust" ELSE "failure", None)
    /\ UNCHANGED <<tra, pool, home, count>>

\* _complete_submission_worker_finish: relaunch after a trusted host, else the end.
Completed(s) ==
    IF s.retry THEN [s EXCEPT !.retry = FALSE, !.shown = "none", !.workers = 1]
    ELSE [s EXCEPT !.running = FALSE, !.request = None,
                   !.shown = IF @ = "none" THEN "fallback" ELSE @]

Relaunched(s) ==
    IF s.retry
    THEN Append(pool, [op |-> "submission", project |-> s.request.project, origin |-> s.origin])
    ELSE pool

\* _routed_submission_worker_finished: during a callback the finish is deferred.
SubmissionFinished ==
    /\ Delivered({"submission"}, {"finished"})
    /\ LET one == [sub EXCEPT !.workers = @ - 1]
           done == IF sub.inCallback THEN [one EXCEPT !.finishPending = TRUE] ELSE Completed(one)
           free == ~done.running /\ done.workers = 0
           left == Leave(Enter(win, sub.origin), Context(win, sub.origin)) IN
       /\ sub' = [done EXCEPT !.origin = IF free THEN None ELSE @]
       /\ win' = IF free THEN Release(left, sub.origin, {tra.origin}) ELSE left
       /\ pool' = IF sub.inCallback THEN pool ELSE Relaunched(one)
    /\ UNCHANGED <<tra, stack, home, count>>

\* Mutant: the deferred finish is forgotten.
Deferred_Dropped(s) == s

\* _complete_deferred_submission_finish.
Deferred(s) == IF s.finishPending THEN Completed([s EXCEPT !.finishPending = FALSE]) ELSE s

Answered(wait) == stack # <<>> /\ ~win.closed /\ Last(stack).wait \in wait /\ stack' = Front(stack)

\* The box of a submission is answered; a box that could not be shown leaves the
\* presentation to the fallback.
AnswerSubmission(yes) ==
    /\ Answered({"success", "failure", "trust"})
    /\ \E shown \in BOOLEAN :
         LET wait == Last(stack).wait
             retries == wait = "trust" /\ yes
             after == [sub EXCEPT !.inCallback = FALSE, !.retry = retries,
                                  !.trusted = @ \/ retries,
                                  !.shown = IF shown /\ ~retries THEN wait ELSE @] IN
         /\ ~shown => wait # "trust"
         /\ sub' = Deferred(after)
         /\ pool' = IF after.finishPending THEN Relaunched(after) ELSE pool
    /\ win' = Leave(win, Last(stack).context)
    /\ UNCHANGED <<tra, events, home, count>>

\* _step4_preflight_succeeded, _step4_preflight_failed: the dialog of the restart draft
\* that is shown, or of the bound snapshot; without an executable it cannot submit.
PreflightEnds ==
    /\ Delivered({"preflight"}, {"ok", "unavailable", "failed"})
    /\ LET v == Enter(win, tra.origin)
           draft == IF v.visible = None THEN None ELSE v.tabs[v.visible].draft
           opens == Event.signal # "failed" /\ tra.running /\ (draft # None \/ v.reg.snap # None) IN
       IF opens
       THEN Box(v, "dialog", [op |-> IF draft # None THEN "restart4" ELSE "step4",
                              project |-> IF draft # None THEN draft.project ELSE v.reg.snap.project,
                              maySubmit |-> Event.signal = "ok"])
       ELSE Box(v, "message", None)
    /\ UNCHANGED <<sub, tra, pool, home, count>>

\* The rest of _open_step4_dialog and _open_step4_restart_dialog.
AnswerStep4Dialog(accept) ==
    /\ Answered({"dialog"})
    /\ accept => Last(stack).data.maySubmit
    /\ IF accept
       THEN /\ pool' = Append(pool, [op |-> Last(stack).data.op, project |-> Last(stack).data.project,
                                     origin |-> None])
            /\ tra' = [tra EXCEPT !.workers = @ + 1]
       ELSE UNCHANGED <<pool, tra>>
    /\ win' = Leave(win, Last(stack).context)
    /\ UNCHANGED <<sub, events, home, count>>

\* _step4_submission_succeeded, _step4_restart_submission_succeeded and _failed.
Step4Ends ==
    /\ Delivered({"step4", "restart4"}, {"ok", "failed"})
    /\ LET v == Enter(win, tra.origin)
           submitted == Event.op = "step4" /\ Event.signal = "ok" /\ v.reg.snap # None
           restarted == /\ Event.op = "restart4" /\ Event.signal = "ok"
                        /\ v.visible # None /\ v.tabs[v.visible].draft # None IN
       Box(IF submitted THEN [v EXCEPT !.reg.snap = [project |-> Event.project, next |-> 0]]
           ELSE IF restarted
                THEN [v EXCEPT !.tabs[v.visible].draft = [project |-> Event.project, confirmed |-> FALSE]]
                ELSE v,
           IF submitted THEN "step4" ELSE "message", None)
    /\ UNCHANGED <<sub, tra, pool, home, count>>

\* _routed_transport_worker_finished.
TransportFinished ==
    /\ Delivered({"preflight", "step4", "restart4"}, {"finished"})
    /\ LET last == tra.workers = 1
           left == Leave(Enter(win, tra.origin), Context(win, tra.origin)) IN
       /\ tra' = IF last THEN [running |-> FALSE, origin |-> None, project |-> None, workers |-> 0]
                 ELSE [tra EXCEPT !.workers = @ - 1]
       /\ win' = IF last THEN Release(left, tra.origin, {sub.origin}) ELSE left
    /\ UNCHANGED <<sub, pool, stack, home, count>>

\* _aims_input_export_succeeded and _failed show a box, _finished does not.
ExportEnds ==
    /\ Delivered({"export"}, {"ok", "failed"})
    /\ Box(Enter(win, Event.origin), "message", None)
    /\ UNCHANGED <<sub, tra, pool, home, count>>

ExportFinished ==
    /\ Delivered({"export"}, {"finished"})
    /\ UNCHANGED <<win, sub, tra, pool, stack, home, count>>

AnswerMessage ==
    /\ Answered({"message", "step4"})
    /\ win' = Leave(win, Last(stack).context)
    /\ UNCHANGED <<sub, tra, pool, events, home, count>>

----------------------------------------------------------------------------
(* Closing, and what the Projects window asks.                             *)

\* _project_has_external_operation: a submission that creates a project counts for all,
\* except with ORCA, where the request has the new project's id already.
ExternalOperation(p) ==
    \/ sub.running /\ (sub.request.project = p \/ (sub.request.project = None /\ sub.request.step # 0))
    \/ tra.running /\ tra.project = p

\* _has_active_remote_operation.
RemoteOperation ==
    \/ sub.running \/ sub.workers > 0 \/ tra.running \/ tra.workers > 0
    \/ \E i \in DOMAIN pool : pool[i].op = "export"
    \/ \E i \in DOMAIN events : events[i].op = "export"

MayClose == ~RemoteOperation

\* closeEvent.
CloseWindow ==
    /\ UserMayAct /\ MayClose
    /\ win' = [win EXCEPT !.closed = TRUE]
    /\ UNCHANGED <<sub, tra, pool, events, stack, home, count>>

Next ==
    \/ OpenLocal \/ \E p \in Projects : OpenDraft(p) \/ OpenReadOnly(p)
    \/ \E p \in Projects, next \in Steps : OpenRecovered(p, next)
    \/ \E w \in Tabs \cup {None} : SwitchTab(w) \/ CloseTab(w)
    \/ Touch
    \/ \E p \in Projects, next \in {0} \cup Steps, terminal \in BOOLEAN : SnapshotUpdated(p, next, terminal)
    \/ SubmitNew \/ SubmitImported2 \/ SubmitImported3 \/ SubmitRestart
    \/ ContinueStep2 \/ ContinueStep3
    \/ ResubmitOrca \/ \E p \in Projects : SubmitFrequency(p)
    \/ ContinueStep4 \/ RestartStep4 \/ ExportInputs
    \/ \E what \in {"ok", "failed", "unknownHost", "unavailable"} : WorkerEnds(what)
    \/ SubmissionSucceeded \/ SubmissionFailed \/ SubmissionFinished
    \/ PreflightEnds \/ Step4Ends \/ TransportFinished \/ ExportEnds \/ ExportFinished
    \/ \E yes \in BOOLEAN : AnswerSubmission(yes) \/ AnswerStep4Dialog(yes)
    \/ AnswerMessage
    \/ CloseWindow

Spec == Init /\ [][Next]_vars

----------------------------------------------------------------------------
\* The step handles an event of a submission, or the answer to a box of one.
Handles(ops) ==
    \/ events # <<>> /\ events' = Tail(events) /\ Event.op \in ops
    \/ stack # <<>> /\ stack' = Front(stack) /\ Last(stack).op \in ops

\* tools/molecule_viewer_demo.py:1985 "Temporarily route an async callback to its
\* originating Geometry": whatever tab is shown, closed or bound when a submission
\* reports, nothing changes in any other tab, and nothing the user did is lost.  (A
\* frequency job submitted without a Geometry tab has no tab to be routed to.)
StaysHome ==
    Handles({"submission"}) /\ home["submission"] # None =>
        \A w \in win.open : Content(win', w) # Content(win, w) => w = home["submission"]

\* A submission counts as running exactly as long as a worker or a callback will end it
\* (the project it concerns is protected so long), the window closes only after that,
\* and a submission that ended has told the user how.
SubmissionIsAccounted ==
    /\ sub.running <=> sub.workers > 0 \/ \E i \in DOMAIN stack : stack[i].op = "submission"
    /\ sub.workers > 0 =>
          \/ \E i \in DOMAIN pool : pool[i].op = "submission"
          \/ \E i \in DOMAIN events : events[i].op = "submission" /\ events[i].signal = "finished"
    /\ sub.running /\ sub.request.project # None => ExternalOperation(sub.request.project)
    /\ win.closed => pool = <<>>
    /\ count.starts > 0 /\ home["submission"] # None /\ ~sub.running => sub.shown # "none"

\* The same claim for Step 4: when its success has been shown, the tab it was submitted
\* from knows that Step 4 is submitted.
Step4Recorded ==
    [][stack # <<>> /\ stack' = Front(stack) /\ Last(stack).wait = "step4"
          /\ home["transport"] \in win.open
       => LET after == Content(win', home["transport"]) IN after.snap # None => after.snap.next # 4]_vars
=============================================================================

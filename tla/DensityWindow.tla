----------------------------- MODULE DensityWindow -----------------------------
(***************************************************************************)
(* Two places of one desktop program that show electron-density tasks and  *)
(* act on them: the tab of a task (gui/density_workspace.py) and the rows  *)
(* of the Projects window (gui/projects_dialog.py).  Each works on a copy  *)
(* of a task, has one operation at a time and its own memory of the        *)
(* cancellations it sent; other installations retry the same tasks.        *)
(*                                                                         *)
(* An operation of the service (app/density_workflow.py) is one step here, *)
(* between the gesture that starts it and the delivery of its outcome; what *)
(* happens inside one is in DensityTask.  One tab and one server's list    *)
(* are open at most; electronic states and SCF settings are plain fields   *)
(* and are left out, QUEUED and RUNNING are one state.                     *)
(***************************************************************************)
EXTENDS Naturals

CONSTANTS
    None,
    Atoms,
    Servers, Home,    \* server profiles, and the one the list shows
    Preset,           \* [server -> the resources of its profile]
    Values,           \* numbers typed into a field
    Selections,       \* atoms chosen by one gesture
    MaxTasks, MaxJobs,
    MaxActs           \* bound on gestures and on acts of others

Tasks == 1..MaxTasks
Jobs == 1..MaxJobs

Active == {"QUEUED"}
Stopped == {"FAILED", "CANCELLED"}
Terminal == Stopped \cup {"OUTPUT_READY", "COMPLETE"}
States == Active \cup Terminal \cup {"PREPARED", "UNKNOWN", "UNRESOLVED"}

\* The record of a task, and what the scheduler knows of a job.
Parts == [1..2 -> SUBSET Atoms]
Numbers == Values \cup {1, 2}
Grids == [spacing : Numbers, padding : Numbers]
Records ==
    [id : Tasks, number : Nat, job : {None} \cup Jobs, state : States, part : Parts,
     grid : Grids, server : Servers, res : Numbers]
JobRecords == [id : Tasks, number : Nat, state : Active \cup Terminal]

\* What an operation is given and what it answers; None is none of these.
Table == [Tasks -> {None} \cup Records]
Requests ==
    [part : [1..2 -> {None} \cup SUBSET Atoms], grid : Grids, server : Servers, res : Numbers]
Answers ==
    [kind : {"none", "task", "error", "cancel", "rows"}, task : {None} \cup Records,
     rows : {None} \cup Table, outcome : {"none", "terminal", "requested", "unknown"}]
Workers ==
    [op : {"submit", "refresh", "recover", "retry", "cancel", "discover"},
     task : {None} \cup Records, with : Requests \cup [server : Servers], answer : Answers]

WindowAssumption ==
    /\ Home \in Servers /\ Preset \in [Servers -> Values]
    /\ Selections \subseteq SUBSET Atoms /\ {MaxTasks, MaxJobs} \subseteq Nat \ {0} /\ MaxActs \in Nat
    /\ None \notin Records \cup JobRecords \cup Workers

VARIABLES
    remote,   \* [task -> its record on the server, or None]
    cluster,  \* [job -> its task, attempt and state, or None]
    tab,      \* the tab: task, form, operation, suppressed cancellations; or None
    list,     \* the Projects window: rows, operation, suppressed cancellations; or None
    sent,     \* the last cancellation dispatched: by whom, which job, which was confirmed
    asked,    \* history: the jobs each place has cancelled and shows as active since
    acts

vars == <<remote, cluster, tab, list, sent, asked, acts>>

Malformed == None

Key(task) == <<task.id, task.job>>

----------------------------------------------------------------------------
(* The form of the tab. *)

\* Both index fields are written from the selection.
Synced(f, sel) == [f EXCEPT !.sel = sel, !.text = sel]

\* Assigning atoms to a fragment takes them from the other one.
Assigned(sel, active, atoms, remove) ==
    IF remove THEN [sel EXCEPT ![active] = @ \ atoms]
    ELSE [sel EXCEPT ![active] = @ \cup atoms, ![3 - active] = @ \ atoms]

\* What is typed as an index list replaces the fragment; a malformed list changes nothing.
Typed(f, i, text) ==
    IF text = Malformed THEN [f EXCEPT !.text[i] = text]
    ELSE Synced(f, [f.sel EXCEPT ![i] = text, ![3 - i] = @ \ text])

\* The common grid: that of the task on show until spacing or padding is edited.
Grid(f) == IF f.kept # None THEN f.kept ELSE [spacing |-> f.spacing, padding |-> f.padding]

GridEdited(f, field, value) == [f EXCEPT ![field] = value, !.kept = None]

\* Choosing a server fills in the resources of its profile.
ServerChanged(f, server) == [f EXCEPT !.server = server, !.res[server] = Preset[server]]

\* scientific_inputs and the resource values of the selected server.
Inputs(f) == [part |-> f.text, grid |-> Grid(f), server |-> f.server, res |-> f.res[f.server]]

Assigns(f) == Malformed \notin {f.text[1], f.text[2]} /\ f.text[1] \cup f.text[2] = Atoms

\* Two fragments, none of them empty: FragmentPartition.
Partitions(f) == Assigns(f) /\ {} \notin {f.text[1], f.text[2]}

NewForm ==
    [sel |-> <<{}, {}>>, text |-> <<{}, {}>>, spacing |-> 1, padding |-> 1, kept |-> None,
     server |-> Home, res |-> Preset]

Editable(t) == t.worker = None /\ (t.task # None => t.task.state \in Stopped)

NewTab == [task |-> None, form |-> NewForm, worker |-> None, suppressed |-> {}]

\* load_task, without the signal.
Filled(f, task) ==
    [Synced(f, task.part) EXCEPT !.server = task.server, !.res[task.server] = task.res,
                                 !.spacing = task.grid.spacing, !.kept = task.grid]

Shows(t, task) ==
    [t EXCEPT !.task = task, !.form = Filled(@, task),
              !.suppressed = IF task.job # None /\ task.state \notin Active THEN @ \ {Key(task)} ELSE @]

----------------------------------------------------------------------------
(* The rows of the Projects window. *)

NewList == [rows |-> [i \in Tasks |-> None], worker |-> None, suppressed |-> {}]

\* A suppressed cancellation stays while its job is shown as active.
StillActive(keys, id, task) ==
    {k \in keys : k[1] # id \/ (task # None /\ k = Key(task) /\ task.state \in Active)}

\* update_density_task; a task of another server is not in the list.
Updated(l, task) ==
    IF l = None \/ task.server # Home THEN l
    ELSE [l EXCEPT !.rows[task.id] = task, !.suppressed = StillActive(@, task.id, task)]

\* _density_discovered: the rows are those just read.
Discovered(l, rows) ==
    [l EXCEPT !.rows = rows,
              !.suppressed = {k \in @ : rows[k[1]] # None /\ k = Key(rows[k[1]])
                                        /\ rows[k[1]].state \in Active}]

\* load_task tells the Projects window.
Load(t, l, task) ==
    /\ tab' = Shows(t, task)
    /\ list' = Updated(l, task)

----------------------------------------------------------------------------
(* Gestures in the tab. *)

Act == acts < MaxActs /\ acts' = acts + 1

EditForm(form) ==
    /\ tab # None /\ Editable(tab) /\ Act
    /\ tab' = [tab EXCEPT !.form = form]
    /\ UNCHANGED <<remote, cluster, list, sent>>

\* A rectangle, or the atoms that are in neither fragment.
AssignAtoms(active, atoms, remove) ==
    tab # None /\ EditForm(Synced(tab.form, Assigned(tab.form.sel, active, atoms, remove)))

AddRemaining(active) ==
    AssignAtoms(active, Atoms \ (tab.form.sel[1] \cup tab.form.sel[2]), FALSE)

\* Clicking an atom of the active fragment removes it.
PickAtom(active, atom) ==
    tab # None /\ AssignAtoms(active, {atom}, atom \in tab.form.sel[active])

TypeAtoms(i, text) == tab # None /\ EditForm(Typed(tab.form, i, text))

EditGrid(field, value) == tab # None /\ EditForm(GridEdited(tab.form, field, value))

SelectServer(server) == tab # None /\ EditForm(ServerChanged(tab.form, server))

EditResources(value) == tab # None /\ EditForm([tab.form EXCEPT !.res[tab.form.server] = value])

NoAnswer == [kind |-> "none", task |-> None, rows |-> None, outcome |-> "none"]

\* _run and _run_status_refresh: the operation holds the copy it was started for.
Start(op) ==
    /\ Act
    /\ tab' = [tab EXCEPT !.worker = [op |-> op, task |-> tab.task, with |-> Inputs(tab.form),
                                      answer |-> NoAnswer]]
    /\ UNCHANGED <<remote, cluster, list, sent>>

Submit ==
    /\ tab # None /\ Editable(tab) /\ Partitions(tab.form)
    /\ Start("submit")

\* Retry only of a stopped task and with "Yes"; recovery only of one that has ended.
Remote(op) ==
    /\ tab # None /\ tab.worker = None /\ tab.task # None
    /\ op = "retry" => tab.task.state \in Stopped
    /\ op = "recover" => tab.task.state \in Terminal
    /\ Start(op)

\* Refresh Status is Stop while a refresh runs; its thread goes on as another's refresh.
StopRefresh ==
    /\ tab # None /\ tab.worker # None /\ tab.worker.op = "refresh" /\ Act
    /\ tab' = [tab EXCEPT !.worker = None]
    /\ UNCHANGED <<remote, cluster, list, sent>>

\* A lamp's menu, and the confirmation that names the job.
RequestCancel ==
    /\ tab # None /\ tab.worker = None /\ tab.task # None /\ tab.task.job # None
    /\ tab.task.state \in Active /\ Key(tab.task) \notin tab.suppressed
    /\ Start("cancel")

CloseTab ==
    /\ tab # None /\ tab.worker = None /\ Act
    /\ tab' = None
    /\ UNCHANGED <<remote, cluster, list, sent>>

----------------------------------------------------------------------------
(* Gestures in the Projects window and the main window. *)

NewWorkspace ==
    /\ tab = None /\ Act
    /\ tab' = NewTab
    /\ UNCHANGED <<remote, cluster, list, sent>>

OpenProjects ==
    /\ list = None /\ Act
    /\ list' = NewList
    /\ UNCHANGED <<remote, cluster, tab, sent>>

StartInList(op, task) ==
    /\ list.worker = None /\ Act
    /\ list' = [list EXCEPT !.worker = [op |-> op, task |-> task,
                                        with |-> [server |-> Home], answer |-> NoAnswer]]
    /\ UNCHANGED <<remote, cluster, tab, sent>>

DiscoverTasks == list # None /\ StartInList("discover", None)

RefreshRow(id) == list # None /\ list.rows[id] # None /\ StartInList("refresh", list.rows[id])

RequestListCancel(id) ==
    /\ list # None /\ list.rows[id] # None /\ list.rows[id].job # None
    /\ list.rows[id].state \in Active /\ Key(list.rows[id]) \notin list.suppressed
    /\ StartInList("cancel", list.rows[id])

\* An open tab of the task takes the row's copy unless an operation runs in it.
Adopts(t, id) == t # None /\ t.task # None /\ t.task.id = id /\ t.worker = None

OpenFromList(id) ==
    /\ list # None /\ list.rows[id] # None /\ list.worker = None /\ Act
    /\ \/ tab = None /\ Load(NewTab, list, list.rows[id])
       \/ Adopts(tab, id) /\ Load(tab, list, list.rows[id])
    /\ UNCHANGED <<remote, cluster, sent>>

----------------------------------------------------------------------------
(* The service. *)

\* What _refresh makes of a record: the truth about its job, or no answer.
Refreshed(r) ==
    IF r.state = "COMPLETE" \/ r.job = None THEN {r}
    ELSE {[r EXCEPT !.state = s] : s \in {cluster[r.job].state, "UNRESOLVED"}}

NewJob == {j \in Jobs : cluster[j] = None /\ \A k \in 1..(j - 1) : cluster[k] # None}

Answered(w, answer) == [w EXCEPT !.answer = answer]
Loads(task) == [NoAnswer EXCEPT !.kind = "task", !.task = task]
Fails(task) == [NoAnswer EXCEPT !.kind = "error", !.task = task]

\* _prepare_dispatch: a receipt, a rejection or a lost answer, each of them recorded;
\* an error carries the record to the tab.
Dispatch(record) ==
    \/ \E j \in NewJob :
        /\ cluster' = [cluster EXCEPT ![j] = [id |-> record.id, number |-> record.number,
                                              state |-> "QUEUED"]]
        /\ \/ LET r == [record EXCEPT !.state = "QUEUED", !.job = j] IN
               remote' = [remote EXCEPT ![record.id] = r] /\ tab' = [tab EXCEPT !.worker = Answered(@, Loads(r))]
           \/ LET r == [record EXCEPT !.state = "UNKNOWN"] IN
               remote' = [remote EXCEPT ![record.id] = r] /\ tab' = [tab EXCEPT !.worker = Answered(@, Fails(r))]
    \/ LET r == [record EXCEPT !.state = "FAILED"] IN
        /\ remote' = [remote EXCEPT ![record.id] = r]
        /\ tab' = [tab EXCEPT !.worker = Answered(@, Loads(r))]
        /\ UNCHANGED cluster

Refuse ==
    /\ tab' = [tab EXCEPT !.worker = Answered(@, Fails(None))]
    /\ UNCHANGED <<remote, cluster>>

Waits(place, op) ==
    place # None /\ place.worker # None /\ place.worker.answer = NoAnswer /\ place.worker.op = op

WorkSubmit ==
    /\ Waits(tab, "submit")
    /\ \/ \E id \in Tasks :
           /\ remote[id] = None /\ \A i \in 1..(id - 1) : remote[i] # None
           /\ Dispatch([id |-> id, number |-> 1, job |-> None, state |-> "PREPARED",
                        part |-> tab.worker.with.part, grid |-> tab.worker.with.grid,
                        server |-> tab.worker.with.server, res |-> tab.worker.with.res])
       \/ Refuse
    /\ UNCHANGED <<list, sent, acts>>

\* The record is looked for under the selected server's root.
Found(w) == w.with.server = w.task.server

\* Fragments and grid are those of the task, resources and server those of the form.
WorkRetry ==
    LET w == tab.worker IN
    /\ Waits(tab, "retry")
    /\ \/ /\ Found(w)
          /\ \E r \in Refreshed(remote[w.task.id]) :
              /\ r.state \in Stopped
              /\ Dispatch([r EXCEPT !.number = @ + 1, !.job = None, !.state = "PREPARED",
                                    !.res = w.with.res])
       \/ Refuse
    /\ UNCHANGED <<list, sent, acts>>

\* The tab or the list gets its answer.
Answer(place, answer) ==
    IF place = "tab" THEN tab' = [tab EXCEPT !.worker = Answered(@, answer)] /\ UNCHANGED list
                     ELSE list' = [list EXCEPT !.worker = Answered(@, answer)] /\ UNCHANGED tab

Place(place) == IF place = "tab" THEN tab ELSE list

WorkRefresh(place) ==
    LET w == Place(place).worker IN
    /\ Waits(Place(place), "refresh")
    /\ \/ /\ Found(w)
          /\ \E r \in Refreshed(remote[w.task.id]) :
              remote' = [remote EXCEPT ![r.id] = r] /\ Answer(place, Loads(r))
       \/ UNCHANGED remote /\ Answer(place, Fails(None))
    /\ UNCHANGED <<cluster, sent, acts>>

\* Outputs validate together or the record says that they do not.
WorkRecover ==
    LET w == tab.worker IN
    /\ Waits(tab, "recover")
    /\ \/ /\ Found(w)
          /\ \E r \in Refreshed(remote[w.task.id]) :
              /\ r.state \in Terminal
              /\ \/ LET c == [r EXCEPT !.state = "COMPLETE"] IN
                     remote' = [remote EXCEPT ![r.id] = c] /\ Answer("tab", Loads(c))
                 \/ /\ remote' = [remote EXCEPT ![r.id] = [r EXCEPT !.state = "FAILED"]]
                    /\ Answer("tab", Fails(None))
       \/ UNCHANGED remote /\ Answer("tab", Fails(None))
    /\ UNCHANGED <<cluster, sent, acts>>

Cancelled(r, outcome) == [NoAnswer EXCEPT !.kind = "cancel", !.task = r, !.outcome = outcome]

\* The job is that of the record as it is now, not of the copy that was confirmed.
WorkCancel(place) ==
    LET w == Place(place).worker IN
    /\ Waits(Place(place), "cancel")
    /\ \/ /\ Found(w) /\ remote[w.task.id].job # None
          /\ \E r \in Refreshed(remote[w.task.id]) :
              /\ remote' = [remote EXCEPT ![r.id] = r]
              /\ \/ r.state \in Terminal /\ Answer(place, Cancelled(r, "terminal")) /\ UNCHANGED <<cluster, sent>>
                 \/ /\ r.state \in Active
                    /\ sent' = [by |-> place, job |-> r.job, confirmed |-> w.task.job, count |-> sent.count + 1]
                    /\ \E outcome \in {"requested", "unknown"} : Answer(place, Cancelled(r, outcome))
                    /\ \/ cluster' = [cluster EXCEPT ![r.job].state = "CANCELLED"]
                       \/ UNCHANGED cluster
                 \/ r.state \notin Terminal \cup Active /\ Answer(place, Fails(None)) /\ UNCHANGED <<cluster, sent>>
       \/ Answer(place, Fails(None)) /\ UNCHANGED <<remote, cluster, sent>>
    /\ UNCHANGED acts

\* Records are read one after the other; one that cannot be read is a problem, not a row.
WorkDiscover ==
    /\ Waits(list, "discover")
    /\ \E readable \in SUBSET Tasks :
        Answer("list", [NoAnswer EXCEPT !.kind = "rows",
            !.rows = [i \in Tasks |-> IF i \in readable /\ remote[i] # None /\ remote[i].server = Home
                                      THEN remote[i] ELSE None]])
    /\ UNCHANGED <<remote, cluster, sent, acts>>

----------------------------------------------------------------------------
(* Answers are delivered; the end of the worker follows at once. *)

Done(place) == [place EXCEPT !.worker = None]

\* Mutant: the outcome of a cancellation is shown but not remembered.
Suppressed_Shown(place, task, outcome) == place

\* After a cancellation was requested, or may have been, no other is offered.
Suppressed(place, task, outcome) ==
    [place EXCEPT !.suppressed = IF outcome = "terminal" THEN @ \ {Key(task)} ELSE @ \cup {Key(task)}]

Has(place, kind) == place # None /\ place.worker # None /\ place.worker.answer.kind = kind

\* load_task of a refreshed, submitted or retried task, or of the one an error carries.
Completed ==
    LET answer == tab.worker.answer IN
    /\ Has(tab, "task") \/ Has(tab, "error")
    /\ IF answer.task # None THEN Load(Done(tab), list, answer.task)
                             ELSE tab' = Done(tab) /\ UNCHANGED list
    /\ UNCHANGED <<remote, cluster, sent, acts>>

CancellationCompleted ==
    LET answer == tab.worker.answer IN
    /\ Has(tab, "cancel")
    /\ tab' = Suppressed(Shows(Done(tab), answer.task), answer.task, answer.outcome)
    /\ list' = Updated(list, answer.task)
    /\ UNCHANGED <<remote, cluster, sent, acts>>

ListCompleted ==
    LET answer == list.worker.answer IN
    /\ Has(list, "task") \/ Has(list, "error") \/ Has(list, "rows")
    /\ list' = CASE answer.kind = "rows" -> Discovered(Done(list), answer.rows)
                 [] answer.kind = "task" -> Updated(Done(list), answer.task)
                 [] OTHER -> Done(list)
    /\ UNCHANGED <<remote, cluster, tab, sent, acts>>

\* The list was disabled meanwhile, so the row is still the selected one unless it left.
ListCancelCompleted ==
    LET answer == list.worker.answer IN
    /\ Has(list, "cancel")
    /\ list' = IF list.rows[answer.task.id] = None THEN Done(list)
               ELSE Updated(Suppressed(Done(list), answer.task, answer.outcome), answer.task)
    /\ UNCHANGED <<remote, cluster, tab, sent, acts>>

\* Without a worker the Projects window may be closed.
CloseProjects ==
    /\ list # None /\ list.worker = None /\ Act
    /\ list' = None
    /\ UNCHANGED <<remote, cluster, tab, sent>>

----------------------------------------------------------------------------
(* Others. *)

JobEnds(j) ==
    /\ cluster[j] # None /\ cluster[j].state = "QUEUED"
    /\ \E s \in {"FAILED", "OUTPUT_READY"} : cluster' = [cluster EXCEPT ![j].state = s]
    /\ UNCHANGED <<remote, tab, list, sent, acts>>

\* Another installation refreshes a stopped task, and may retry it.
OtherRetries(id) ==
    /\ remote[id] # None /\ remote[id].job # None /\ Act
    /\ \E r \in Refreshed(remote[id]), j \in NewJob :
        /\ r.state \in Stopped
        /\ remote' = [remote EXCEPT ![id] = [r EXCEPT !.number = @ + 1, !.job = j, !.state = "QUEUED"]]
        /\ cluster' = [cluster EXCEPT ![j] = [id |-> id, number |-> r.number + 1, state |-> "QUEUED"]]
    /\ UNCHANGED <<tab, list, sent>>

OtherRefreshes(id) ==
    /\ remote[id] # None /\ Act
    /\ \E r \in Refreshed(remote[id]) : r # remote[id] /\ remote' = [remote EXCEPT ![id] = r]
    /\ UNCHANGED <<cluster, tab, list, sent>>

----------------------------------------------------------------------------
(* Behaviours. *)

\* A task submitted earlier, with another padding than a new form has; its job runs.
Init ==
    /\ \E sel \in {s \in [1..2 -> SUBSET Atoms \ {{}}] : s[1] \cap s[2] = {} /\ s[1] \cup s[2] = Atoms} :
        remote = [i \in Tasks |-> IF i = 1 THEN
            [id |-> 1, number |-> 1, job |-> 1, state |-> "QUEUED", part |-> <<sel[1], sel[2]>>,
             grid |-> [spacing |-> 1, padding |-> 2], server |-> Home, res |-> Preset[Home]] ELSE None]
    /\ cluster = [j \in Jobs |-> IF j = 1 THEN [id |-> 1, number |-> 1, state |-> "QUEUED"] ELSE None]
    /\ tab \in {NewTab, Shows(NewTab, remote[1])}
    /\ list \in {None, [NewList EXCEPT !.rows[1] = remote[1]]}
    /\ sent = [by |-> "none", job |-> None, confirmed |-> None, count |-> 0]
    /\ asked = [place \in {"tab", "list"} |-> {}]
    /\ acts = 0

Edits ==
    \/ \E active \in 1..2 :
        \/ \E atoms \in Selections, remove \in BOOLEAN : AssignAtoms(active, atoms, remove)
        \/ \E atom \in Atoms : PickAtom(active, atom)
        \/ \E text \in Selections \cup {Malformed} : TypeAtoms(active, text)
    \/ \E active \in 1..2 : tab # None /\ AddRemaining(active)
    \/ \E field \in {"spacing", "padding"}, value \in Values : EditGrid(field, value)
    \/ \E server \in Servers : SelectServer(server)
    \/ \E value \in Values : EditResources(value)

TabStep ==
    \/ Submit \/ StopRefresh \/ RequestCancel \/ CloseTab \/ NewWorkspace
    \/ \E op \in {"refresh", "recover", "retry"} : Remote(op)
    \/ WorkSubmit \/ WorkRetry \/ WorkRecover \/ Completed \/ CancellationCompleted
    \/ WorkRefresh("tab") \/ WorkCancel("tab")

ListStep ==
    \/ OpenProjects \/ CloseProjects \/ DiscoverTasks \/ WorkDiscover
    \/ \E id \in Tasks : RefreshRow(id) \/ RequestListCancel(id) \/ OpenFromList(id)
    \/ WorkRefresh("list") \/ WorkCancel("list") \/ ListCompleted \/ ListCancelCompleted

Others == (\E j \in Jobs : JobEnds(j)) \/ (\E id \in Tasks : OtherRetries(id) \/ OtherRefreshes(id))

\* A key is remembered while the place that sent the cancellation shows the job as active.
ActiveIn(place, key) ==
    IF place = "tab" THEN tab # None /\ tab.task # None /\ key = Key(tab.task) /\ tab.task.state \in Active
    ELSE list # None /\ list.rows[key[1]] # None /\ key = Key(list.rows[key[1]])
         /\ list.rows[key[1]].state \in Active

Dispatched(place) == sent'.count > sent.count /\ sent'.by = place

DispatchedKey == <<cluster[sent'.job].id, sent'.job>>

Remembered ==
    asked' = [place \in {"tab", "list"} |->
        {k \in asked[place] \cup (IF Dispatched(place) THEN {DispatchedKey} ELSE {}) : ActiveIn(place, k)'}]

Next == (Edits \/ TabStep \/ ListStep \/ Others) /\ Remembered

Spec == Init /\ [][Next]_vars

----------------------------------------------------------------------------
(* Properties. *)

\* While a submission runs, the tab goes on showing what is being submitted, whatever
\* is opened from the list meanwhile; the two fragments shown, as colours and as index
\* lists, are one assignment; and a task is cancelled and retried on its own server.
SubmittedAsShown ==
    tab # None =>
        LET f == tab.form IN
        /\ tab.worker # None /\ tab.worker.op = "submit" => tab.worker.with = Inputs(f)
        /\ f.sel[1] \cap f.sel[2] = {}
        /\ \A i \in 1..2 : f.text[i] \in {Malformed, f.sel[i]}
        /\ tab.worker # None /\ tab.worker.op = "cancel" => Found(tab.worker)

\* A place that has sent a cancellation for a job, or may have, sends none again while
\* it goes on showing that job as active.
CancelStep == \A place \in {"tab", "list"} : Dispatched(place) => DispatchedKey \notin asked[place]

\* "cancellation of the exact shared Slurm Job ID" (docs/ELECTRON_DENSITY_DIFFERENCE.md):
\* the job that is cancelled is the one the user has confirmed.
CancelledAsConfirmed == sent.job = sent.confirmed
=============================================================================

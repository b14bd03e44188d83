-------------------------------- MODULE MCDesktop --------------------------------
(***************************************************************************)
(* Small instances for TLC of four parts of the desktop program that share   *)
(* no state: the Projects window with the local index, the server profiles   *)
(* with the dialogs that edit them, the two places where density tasks are   *)
(* shown, and the operations of the Projects window.  The initial state      *)
(* chooses the part whose behaviours follow; the others keep their first     *)
(* state.                                                                    *)
(***************************************************************************)
EXTENDS MCProjectsDesktop

CONSTANTS Absent, Ids, Names, Entered, Installed, Runtimes, MaxEdits, MaxChecks, MaxUses,
    Atoms, Servers, Home, Preset, Values, Selections, MaxTasks, MaxJobs, MaxActs,
    Fhi, Orca, Rows, MaxResults

VARIABLES area,
    file, keyring, host, form, cluster, manual, checks, workers, events, stack, cache, used,
    records, queue, tab, list, sent, asked, acts,
    project, over, known, dialog, refresh, pool, posted, boxes, opened, draft, past, gestures

dialogs == <<file, keyring, host, form, cluster, manual, checks, workers, events, stack, cache, used>>
tasks == <<records, queue, tab, list, sent, asked, acts>>
operations ==
    <<project, over, known, dialog, refresh, pool, posted, boxes, opened, draft, past, gestures>>
desktop == <<area, dialogs, tasks, operations, vars>>

MCEntered == {[path |-> p, env |-> e] : p \in {"", "orca"}, e \in {"auto", "modules"}}
MCInstalled == {[path |-> "orca", env |-> "modules"]}

MCPreset == [s \in Servers |-> 2]
MCSelections == {{1}, {1, 2}}

Settings == INSTANCE ServerSettings WITH None <- Absent, jobs <- workers
Density == INSTANCE DensityWindow WITH None <- Absent, remote <- records, cluster <- queue
Window == INSTANCE ProjectsWindow WITH None <- Absent, dlg <- dialog, session <- refresh,
    stack <- boxes, tabs <- opened, acts <- gestures

ASSUME PartsAssumption ==
    Settings!SettingsAssumption /\ Density!WindowAssumption /\ Window!WindowAssumption

NoDialogs ==
    /\ file = Absent /\ keyring = Absent /\ host = Absent /\ form = Absent /\ cluster = Absent
    /\ manual = Absent /\ checks = Absent /\ workers = Absent /\ events = Absent /\ stack = Absent
    /\ cache = Absent /\ used = Absent

NoTasks ==
    /\ records = Absent /\ queue = Absent /\ tab = Absent /\ list = Absent /\ sent = Absent
    /\ asked = Absent /\ acts = Absent

NoOperations ==
    /\ project = Absent /\ over = Absent /\ known = Absent /\ dialog = Absent
    /\ refresh = Absent /\ pool = Absent /\ posted = Absent /\ boxes = Absent
    /\ opened = Absent /\ draft = Absent /\ past = Absent /\ gestures = Absent

DesktopInit ==
    \/ area = "projects" /\ Init /\ NoDialogs /\ NoTasks /\ NoOperations
    \/ area = "settings" /\ Settings!Init /\ Init /\ NoTasks /\ NoOperations
    \/ area = "tasks" /\ Density!Init /\ Init /\ NoDialogs /\ NoOperations
    \/ area = "window" /\ Window!Init /\ Init /\ NoDialogs /\ NoTasks

DesktopNext ==
    \/ area = "projects" /\ Next /\ UNCHANGED <<area, dialogs, tasks, operations>>
    \/ area = "settings" /\ Settings!Next /\ UNCHANGED <<area, tasks, operations, vars>>
    \/ area = "tasks" /\ Density!Next /\ UNCHANGED <<area, dialogs, operations, vars>>
    \/ area = "window" /\ Window!Next /\ UNCHANGED <<area, dialogs, tasks, vars>>

DesktopSpec == DesktopInit /\ [][DesktopNext]_desktop

Symmetry == SessionSymmetry \cup Permutations(Ids)

\* An abandoned thread that will only end.
Leaving(s) ==
    /\ Stopped(s)
    /\ \/ threads[s].pc = "connect"
       \/ threads[s].pc = "projects" /\ threads[s].scope # AllProjects

\* Once Server Profiles is closed, only the store and who writes to it matter; what a geometry
\* view or an abort would be repeated with is what its worker runs with.
View ==
    CASE area = "projects" ->
           <<area, remote, jobs, index, shown, tabs, window, submission, deletion,
             [s \in Sessions |-> IF Leaving(s) THEN "leaving"
                               ELSE IF Stopped(s) THEN [threads[s] EXCEPT !.outcome = "result"]
                               ELSE threads[s]]>>
      [] area = "tasks" -> <<area, tasks>>
      [] area = "window" ->
           <<area, project, over, known, [dialog EXCEPT !.geometry = Absent, !.restart = Absent],
             refresh, pool, posted, boxes, opened, draft, past, gestures>>
      [] stack = <<>> -> <<area, file, cache>>
      [] OTHER -> <<area, dialogs>>

\* What the dialogs save was verified as it stands, and their checks end with them.
DialogsAreVerified ==
    area = "settings" => Settings!SavedIsVerified /\ Settings!ChecksHaveTheirDialog

\* The density tab and the Projects window act on what they show: a density task is submitted
\* as its tab shows it; the window opens the project that was asked for, draws a chart only
\* beside its result, unlocks a draft only when its job has ended, and is free only when it is
\* idle.
ActsAsShown ==
    /\ area = "tasks" => Density!SubmittedAsShown
    /\ area = "window" => /\ Window!ChartIsOfResult /\ Window!DraftIsLocked
                          /\ Window!BusyWhileWorking /\ Window!OpensWhatWasAsked

\* A job is cancelled once by each of them until it has read the job's record again.
CancelOnce ==
    [][(area = "tasks" => Density!CancelStep) /\ (area = "window" => Window!SentOnce')]_desktop
=============================================================================

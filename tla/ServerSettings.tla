---------------------------- MODULE ServerSettings ----------------------------
(***************************************************************************)
(* The server profiles and the two dialogs that edit them: Server Profiles  *)
(* (gui/server_profiles_dialog.py), Cluster Execution Settings              *)
(* (gui/cluster_execution_dialog.py) with its Manual Runtime Configuration, *)
(* the browsers of remote directories, and the submission that caches a     *)
(* detected scheduler location in the same file (app/server_profiles.py).   *)
(*                                                                         *)
(* Each dialog has one background thread.  A worker connects, emits its     *)
(* outcome and then "finished"; the event loop delivers both in this order, *)
(* also inside the nested loop of a box that a handler has opened.  Boxes   *)
(* that only report an error are left out, as is what no check reads: host, *)
(* port, resources and mail.  A scheduler directory stands for the kind of  *)
(* scheduler whose commands it holds.                                       *)
(***************************************************************************)
EXTENDS Integers, SequencesExt

CONSTANTS
    Ids,          \* profile identifiers
    Names,        \* profile names
    Entered,      \* ORCA locations that can be typed, [path, env]
    Installed,    \* ORCA locations that a check on the server confirms
    Runtimes,     \* FHI-aims and AITRANSS installations
    None,
    MaxEdits,     \* bound on the user's changes
    MaxChecks,    \* bound on the checks and submissions begun
    MaxUses       \* bound on both together

\* A record of the profile store; None is neither a profile nor the hints of one.
Kinds == {"slurm", "lsf"}
Blank == [path |-> "", env |-> "auto"]
Locations == {Blank} \cup Entered \cup Installed
HintRecords ==
    [fhi : {None} \cup Runtimes, ait : {None} \cup Runtimes, species : BOOLEAN, orca : Locations]
PresetRecords ==
    [mode : {"automatic", "manual"}, kind : Kinds, dir : {None} \cup Kinds,
     fhi : {None} \cup Runtimes, launch : {None} \cup Runtimes]
ProfileRecords ==
    [name : {""} \cup Names, keep : BOOLEAN, preset : {None} \cup PresetRecords,
     ait : {None} \cup Runtimes, hints : {None} \cup HintRecords, orca : {None} \cup Installed]

SettingsAssumption ==
    /\ MaxEdits \in Nat /\ MaxChecks \in Nat /\ MaxUses \in Nat
    /\ Names # {}
    /\ \A l \in Installed : l.path # "" /\ l.env # "auto"
    /\ None \notin ProfileRecords /\ None \notin HintRecords

VARIABLES
    file,      \* the profile store: [profiles, last]
    keyring,   \* profiles with a saved password
    host,      \* whether the host key is trusted
    form,      \* the fields of Server Profiles and what they carry along
    cluster,   \* working copy of Cluster Execution Settings
    manual,    \* fields of Manual Runtime Configuration
    checks,    \* [operation -> its registers]
    jobs,      \* workers waiting for their thread or running
    events,    \* signals emitted and not yet delivered
    stack,     \* dialogs and boxes, the last one is modal
    cache,     \* a submission that caches a scheduler location
    used       \* [edits, checks]

settings == <<file, keyring, host, form, cluster, manual, checks, jobs, events, stack, cache, used>>

ClusterChecks == {"scheduler", "runtime", "orca", "species"}
Checks == ClusterChecks \cup {"test", "workspace"}
Idle == [busy |-> FALSE, pending |-> FALSE, password |-> FALSE, asked |-> FALSE, trusted |-> FALSE]

Dialog(kind) == [kind |-> kind, check |-> None, why |-> None]
Top == IF stack = <<>> THEN "closed" ELSE Last(stack).kind
Bounded == used.edits + used.checks < MaxUses
Edits == used.edits < MaxEdits /\ Bounded
MayCheck == used.checks < MaxChecks /\ Bounded
Edited == used' = [used EXCEPT !.edits = @ + 1]

----------------------------------------------------------------------------
(* The profile store: load, change and write of the whole file.             *)

Profiles(f) == {id \in Ids : f.profiles[id] # None}
NameIsFree(f, id, name) == \A other \in Profiles(f) \ {id} : f.profiles[other].name # name

Stored(f, id, profile) == [f EXCEPT !.profiles[id] = profile, !.last = id]
Selected(f, id) == [f EXCEPT !.last = id]
Deleted(f, id) == [profiles |-> [f.profiles EXCEPT ![id] = None], last |-> IF f.last = id THEN None ELSE f.last]

\* The service keeps the key ring first; the write of the file may fail.
Keep(id, profile, password) ==
    keyring' = IF ~profile.keep THEN keyring \ {id} ELSE IF password THEN keyring \cup {id} ELSE keyring

\* The hints that a manual configuration starts from.
Hints(c) ==
    IF c.hints # None THEN [c.hints EXCEPT !.species = c.species]
    ELSE [fhi |-> c.fhi, ait |-> c.ait, species |-> c.species, orca |-> Blank]

----------------------------------------------------------------------------
(* Server Profiles.                                                         *)

Fields(id, p) ==
    [id |-> id, name |-> p.name, keep |-> p.keep, password |-> FALSE, deletable |-> TRUE,
     carried |-> [preset |-> p.preset, ait |-> p.ait, hints |-> p.hints, orca |-> p.orca]]

NewFields(id) ==
    [id |-> id, name |-> "", keep |-> FALSE, password |-> FALSE, deletable |-> FALSE,
     carried |-> [preset |-> None, ait |-> None, hints |-> None, orca |-> None]]

\* _refresh_profiles: a new profile has an identifier of its own.
Refreshed(f, target) ==
    IF target \in Profiles(f) THEN {Fields(target, f.profiles[target])}
    ELSE IF Profiles(f) # {} THEN {Fields(id, f.profiles[id]) : id \in Profiles(f)}
    ELSE {NewFields(id) : id \in Ids}

\* _collect_profile: the settings of the cluster are those read with the form.
Collected ==
    [name |-> form.name, keep |-> form.keep, preset |-> form.carried.preset, ait |-> form.carried.ait,
     hints |-> form.carried.hints, orca |-> form.carried.orca]

InProfiles == Top = "profiles"
NotTesting == ~checks["test"].busy

SelectProfile(id) ==
    /\ InProfiles /\ Edits /\ id \in Profiles(file) /\ id # form.id
    /\ file' = Selected(file, id)
    /\ form' = Fields(id, file.profiles[id])
    /\ Edited
    /\ UNCHANGED <<keyring, host, cluster, manual, checks, jobs, events, stack, cache>>

NewProfile ==
    /\ InProfiles /\ Edits /\ NotTesting
    /\ \E id \in Ids \ Profiles(file) : form' = NewFields(id)
    /\ Edited
    /\ UNCHANGED <<file, keyring, host, cluster, manual, checks, jobs, events, stack, cache>>

EditForm ==
    /\ InProfiles /\ Edits
    /\ \/ \E name \in Names : form' = [form EXCEPT !.name = name]
       \/ form' = [form EXCEPT !.keep = ~@]
       \/ form' = [form EXCEPT !.password = TRUE]
    /\ form' # form /\ Edited
    /\ UNCHANGED <<file, keyring, host, cluster, manual, checks, jobs, events, stack, cache>>

Save(id, profile, password) ==
    /\ NameIsFree(file, id, profile.name)
    /\ Keep(id, profile, password)
    /\ \/ file' = Stored(file, id, profile) /\ form' = Fields(id, profile)
       \/ UNCHANGED <<file, form>>

SaveProfile ==
    /\ InProfiles /\ Edits /\ NotTesting /\ form.name # ""
    /\ Save(form.id, Collected, form.password)
    /\ Edited
    /\ UNCHANGED <<host, cluster, manual, checks, jobs, events, stack, cache>>

\* The copy has a new identifier and what the draft carried.
SaveAsProfile ==
    /\ InProfiles /\ Edits /\ NotTesting /\ form.name # ""
    /\ \E id \in Ids \ Profiles(file) : id # form.id /\ Save(id, Collected, form.password)
    /\ Edited
    /\ UNCHANGED <<host, cluster, manual, checks, jobs, events, stack, cache>>

\* The box asks; the button may be enabled again while a test is running.
DeleteProfile ==
    /\ InProfiles /\ Edits /\ form.deletable /\ form.id \in Profiles(file)
    /\ keyring' = keyring \ {form.id}
    /\ \/ file' = Deleted(file, form.id) /\ form' \in Refreshed(file', file'.last)
       \/ UNCHANGED <<file, form>>
    /\ Edited
    /\ UNCHANGED <<host, cluster, manual, checks, jobs, events, stack, cache>>

CloseProfiles ==
    /\ InProfiles /\ ~checks["test"].busy /\ ~checks["workspace"].busy
    /\ stack' = Front(stack)
    /\ UNCHANGED <<file, keyring, host, form, cluster, manual, checks, jobs, events, cache, used>>

----------------------------------------------------------------------------
(* Checks: one worker each, one thread for every dialog.                    *)

Pool(check) == check \in ClusterChecks
Running(check) ==
    \E i \in DOMAIN jobs : /\ jobs[i].check = check
                           /\ \A k \in 1..(i - 1) : Pool(jobs[k].check) # Pool(check)

Job(check, password, data) == [check |-> check, password |-> password, data |-> data, reported |-> FALSE]
Start(check, registers, data) ==
    /\ checks' = [checks EXCEPT ![check] = [registers EXCEPT !.busy = TRUE]]
    /\ jobs' = Append(jobs, Job(check, registers.password, data))

\* The registers are cleared and the worker starts without a password, or with
\* the one entered.
Begin(check, password, data) ==
    /\ MayCheck
    /\ Start(check, [Idle EXCEPT !.password = password], data)
    /\ used' = [used EXCEPT !.checks = @ + 1]

Emit(check, kind, data) == events' = Append(events, [check |-> check, kind |-> kind, data |-> data])

\* A connection needs a password that is supplied or saved for the profile; then the
\* host must be known.
Connected(job) ==
    LET profile == IF job.check \in ClusterChecks THEN cluster.loaded ELSE Collected
        id == IF job.check \in ClusterChecks THEN cluster.id ELSE form.id IN
    IF ~job.password /\ ~(profile.keep /\ id \in keyring) THEN "password"
    ELSE IF ~host THEN "unknownHost" ELSE "connected"

\* What the server answers: an ORCA location is confirmed or candidates are found, a
\* typed scheduler directory holds the commands of its kind or not.
Answers(job) ==
    CASE job.check = "orca" /\ job.data # None -> Installed \cap {job.data}
      [] job.check = "orca" -> {None} \cup Installed
      [] job.check = "scheduler" /\ job.data.mode = "manual" -> {job.data.dir} \cap {job.data.kind}
      [] job.check = "scheduler" -> Kinds
      [] job.check = "runtime" -> {None} \cup Runtimes
      [] OTHER -> {None}

WorkerReports(check) ==
    \E i \in DOMAIN jobs :
        LET job == jobs[i] IN
        /\ job.check = check /\ Running(check) /\ ~job.reported
        /\ IF Connected(job) = "connected"
           THEN \/ \E answer \in Answers(job) : Emit(check, "succeeded", answer)
                \/ Emit(check, "failed", "error")
           ELSE Emit(check, "failed", Connected(job))
        /\ jobs' = [jobs EXCEPT ![i].reported = TRUE]
    /\ UNCHANGED <<file, keyring, host, form, cluster, manual, checks, stack, cache, used>>

WorkerFinishes(check) ==
    \E i \in DOMAIN jobs :
        /\ jobs[i].check = check /\ jobs[i].reported
        /\ Emit(check, "finished", jobs[i].data)
        /\ jobs' = RemoveAt(jobs, i)
        /\ UNCHANGED <<file, keyring, host, form, cluster, manual, checks, stack, cache, used>>

Deliver(check, kind) ==
    /\ events # <<>> /\ Head(events).check = check /\ Head(events).kind = kind
    /\ events' = Tail(events)

\* A failed slot asks for the password or for trust, once each; a test never asks for
\* the password.
Failed(check) ==
    LET why == Head(events).data  r == checks[check] IN
    /\ Deliver(check, "failed")
    /\ IF \/ why = "password" /\ ~r.asked /\ check # "test"
          \/ why = "unknownHost" /\ ~r.trusted
       THEN /\ stack' = Append(stack, [kind |-> "question", check |-> check, why |-> why])
            /\ UNCHANGED checks
       ELSE /\ checks' = [checks EXCEPT ![check].pending = FALSE,
                                        ![check].password = @ /\ check \notin {"scheduler", "runtime"}]
            /\ UNCHANGED stack
    /\ UNCHANGED <<file, keyring, host, form, cluster, manual, jobs, cache, used>>

\* The rest of the slot, when the box is answered.  Trusting the host may fail.
Answered ==
    LET q == Last(stack) IN
    /\ Top = "question"
    /\ stack' = Front(stack)
    /\ \/ /\ q.why = "password"
          /\ checks' = [checks EXCEPT ![q.check].asked = TRUE, ![q.check].password = TRUE, ![q.check].pending = TRUE]
          /\ UNCHANGED host
       \/ /\ q.why = "unknownHost"
          /\ host' = TRUE
          /\ checks' = [checks EXCEPT ![q.check].trusted = TRUE, ![q.check].pending = TRUE]
       \/ /\ checks' = [checks EXCEPT ![q.check].pending = IF q.check \in {"orca", "test"} THEN FALSE ELSE @]
          /\ UNCHANGED host
    /\ UNCHANGED <<file, keyring, form, cluster, manual, jobs, events, cache, used>>

\* A finished slot starts the retry that was agreed to before, or ends the check.
FinishedWith(check, data, forgets) ==
    LET r == checks[check] IN
    /\ Deliver(check, "finished")
    /\ IF r.pending
       THEN Start(check, [r EXCEPT !.pending = FALSE], data)
       ELSE /\ checks' = [checks EXCEPT ![check].busy = FALSE, ![check].password = @ /\ ~forgets]
            /\ UNCHANGED jobs
    /\ UNCHANGED <<file, keyring, host, manual, stack, cache, used>>

\* A list of folders is shown; a test only reports.
Reported(check) ==
    /\ Deliver(check, "succeeded")
    /\ checks' = [checks EXCEPT ![check].pending = FALSE]
    /\ UNCHANGED <<file, keyring, host, form, cluster, manual, jobs, stack, cache, used>>

----------------------------------------------------------------------------
(* Test Connection and the browser of the project workspace.                *)

TestConnection ==
    /\ InProfiles /\ NotTesting /\ form.name # ""
    /\ Begin("test", form.password, None)
    /\ form' = [form EXCEPT !.deletable = FALSE]
    /\ UNCHANGED <<file, keyring, host, cluster, manual, events, stack, cache>>

ConnectionSucceeded == Reported("test")
ConnectionFailed == Failed("test")
ConnectionFinished ==
    /\ FinishedWith("test", None, TRUE)
    /\ form' = IF checks["test"].pending THEN form ELSE [form EXCEPT !.deletable = form.id \in Profiles(file)]
    /\ UNCHANGED cluster

BrowseWorkspace ==
    /\ InProfiles /\ NotTesting /\ form.name # "" /\ ~checks["workspace"].busy
    /\ Begin("workspace", form.password, None)
    /\ stack' = Append(stack, Dialog("workspace"))
    /\ UNCHANGED <<file, keyring, host, form, cluster, manual, events, cache>>

\* Refresh, a folder or the parent folder: the password stays for the dialog.
RequestWorkspace ==
    /\ Top = "workspace" /\ ~checks["workspace"].busy /\ MayCheck
    /\ Start("workspace", [checks["workspace"] EXCEPT !.pending = FALSE], None)
    /\ used' = [used EXCEPT !.checks = @ + 1]
    /\ UNCHANGED <<file, keyring, host, form, cluster, manual, events, stack, cache>>

WorkspaceListed == Reported("workspace")
WorkspaceFailed == Failed("workspace")
WorkspaceFinished == FinishedWith("workspace", None, FALSE) /\ UNCHANGED <<form, cluster>>

CloseWorkspace ==
    /\ Top = "workspace" /\ ~checks["workspace"].busy
    /\ stack' = Front(stack)
    /\ checks' = [checks EXCEPT !["workspace"].pending = FALSE, !["workspace"].password = FALSE]
    /\ UNCHANGED <<file, keyring, host, form, cluster, manual, jobs, events, cache, used>>

----------------------------------------------------------------------------
(* Cluster Execution Settings: the working copy.                            *)

\* A configured runtime determines the modules and the launch command.
Synced(c) == IF c.fhi = None THEN c ELSE [c EXCEPT !.launch = c.fhi]

\* __init__, _load_working_copy and _load_orca_runtime.
Working(id, p) ==
    LET preset == p.preset IN
    Synced([id |-> id, loaded |-> p,
            mode |-> IF preset = None THEN "automatic" ELSE preset.mode,
            selector |-> IF preset = None THEN "slurm" ELSE preset.kind,
            auto |-> IF preset # None /\ preset.mode = "automatic" THEN preset.dir ELSE None,
            typed |-> IF preset # None /\ preset.mode = "manual" THEN preset.dir ELSE None,
            lsf |-> preset # None /\ preset.kind = "lsf",
            verified |-> None,
            fhi |-> IF preset = None THEN None ELSE preset.fhi,
            launch |-> IF preset = None THEN None ELSE preset.launch,
            ait |-> p.ait,
            species |-> IF p.hints = None THEN FALSE ELSE p.hints.species,
            hints |-> p.hints,
            orca |-> p.orca,
            fields |-> IF p.orca # None THEN p.orca ELSE IF p.hints # None THEN p.hints.orca ELSE Blank])

Kind(c) == IF c.mode = "automatic" /\ c.verified # None THEN c.verified ELSE c.selector

\* _orca_location: blank fields stand for the hint there is.
OrcaLocation(c) ==
    IF c.fields # Blank THEN c.fields ELSE IF c.hints # None THEN c.hints.orca ELSE Blank

\* Mutant: the runtime is kept when its path or environment changes.
FieldsChanged_Kept(c) == c

\* _orca_fields_changed.
FieldsChanged(c) == IF c.orca # None /\ OrcaLocation(c) # c.orca THEN [c EXCEPT !.orca = None] ELSE c

InCluster == Top = "cluster"

\* _has_active_workers.
NoWorkers == \A check \in ClusterChecks : ~checks[check].busy
Become(c) == cluster' = c

EditCluster(c) ==
    /\ InCluster /\ Edits /\ Edited
    /\ Become(c)
    /\ UNCHANGED <<file, keyring, host, form, manual, checks, jobs, events, stack, cache>>

OpenCluster ==
    /\ InProfiles /\ Edits /\ form.id \in Profiles(file)
    /\ Become(Working(form.id, file.profiles[form.id]))
    /\ stack' = Append(stack, Dialog("cluster"))
    /\ Edited
    /\ UNCHANGED <<file, keyring, host, form, manual, checks, jobs, events, cache>>

ToggleMode ==
    /\ InCluster /\ ~checks["scheduler"].busy
    /\ EditCluster(Synced([cluster EXCEPT !.mode = IF @ = "manual" THEN "automatic" ELSE "manual", !.verified = None]))

\* The choice of the kind is enabled in manual mode only.
ChooseKind(kind) ==
    /\ InCluster /\ ~checks["scheduler"].busy
    /\ cluster.mode = "manual" /\ cluster.selector # kind
    /\ EditCluster(Synced([cluster EXCEPT !.selector = kind, !.verified = None, !.typed = None]))

EditDirectory(dir) ==
    /\ InCluster /\ ~checks["scheduler"].busy
    /\ cluster.mode = "manual" /\ cluster.typed # dir
    /\ EditCluster([cluster EXCEPT !.typed = dir, !.verified = None])

EditLsfDirectories ==
    /\ InCluster /\ ~checks["scheduler"].busy /\ Kind(cluster) = "lsf"
    /\ EditCluster([cluster EXCEPT !.lsf = ~@, !.verified = None])

\* The path and the environment are separate fields; each change is looked at.
EditOrca(location) ==
    /\ InCluster /\ ~checks["orca"].busy
    /\ location # cluster.fields
    /\ location.path = cluster.fields.path \/ location.env = cluster.fields.env
    /\ EditCluster(FieldsChanged([cluster EXCEPT !.fields = location]))

EditLaunch(runtime) ==
    /\ InCluster /\ ~checks["runtime"].busy /\ cluster.fhi = None /\ cluster.launch # runtime
    /\ EditCluster([cluster EXCEPT !.launch = runtime])

----------------------------------------------------------------------------
(* Cluster Execution Settings: the checks on the server.                    *)

CheckScheduler ==
    /\ InCluster /\ ~checks["scheduler"].busy /\ ~checks["runtime"].busy
    /\ cluster.mode = "manual" => cluster.typed # None /\ (Kind(cluster) = "lsf" => cluster.lsf)
    /\ Begin("scheduler", FALSE, [mode |-> cluster.mode, dir |-> cluster.typed, kind |-> Kind(cluster)])
    /\ UNCHANGED <<file, keyring, host, form, cluster, manual, events, stack, cache>>

SchedulerSucceeded ==
    LET kind == Head(events).data IN
    /\ Deliver("scheduler", "succeeded")
    /\ Become(Synced([cluster EXCEPT !.verified = kind, !.selector = kind,
                                     !.auto = IF cluster.mode = "automatic" THEN kind ELSE @,
                                     !.typed = IF cluster.mode = "manual" THEN kind ELSE @,
                                     !.lsf = @ \/ kind = "lsf"]))
    /\ checks' = [checks EXCEPT !["scheduler"].pending = FALSE, !["scheduler"].password = FALSE]
    /\ UNCHANGED <<file, keyring, host, form, manual, jobs, stack, cache, used>>

SchedulerFailed == Failed("scheduler")
SchedulerFinished ==
    /\ FinishedWith("scheduler", [mode |-> cluster.mode, dir |-> cluster.typed, kind |-> Kind(cluster)], TRUE)
    /\ UNCHANGED <<form, cluster>>

BeginOrca(location) ==
    /\ InCluster /\ \A check \in {"orca", "scheduler", "runtime"} : ~checks[check].busy
    /\ Begin("orca", FALSE, location)
    /\ UNCHANGED <<file, keyring, host, form, cluster, manual, events, stack, cache>>

DiscoverOrca == InCluster /\ Kind(cluster) = "slurm" /\ BeginOrca(None)
ValidateOrca ==
    LET location == OrcaLocation(cluster) IN
    InCluster /\ location.path # "" /\ location.env # "auto" /\ BeginOrca(location)

\* A runtime that was confirmed is shown, kept and made the hint.
WithOrca(c, location) ==
    [c EXCEPT !.fields = location, !.orca = location, !.hints = [Hints(c) EXCEPT !.orca = location]]

\* Several candidates are chosen from in a box, which may be cancelled.
OrcaSucceeded ==
    LET location == Head(events).data IN
    /\ Deliver("orca", "succeeded")
    /\ checks' = [checks EXCEPT !["orca"].pending = FALSE, !["orca"].password = FALSE]
    /\ \/ location # None /\ Become(WithOrca(cluster, location)) /\ UNCHANGED stack
       \/ location = None /\ UNCHANGED <<cluster, stack>>
       \/ location = None /\ stack' = Append(stack, Dialog("candidates")) /\ UNCHANGED cluster
    /\ UNCHANGED <<file, keyring, host, form, manual, jobs, cache, used>>

SelectOrcaCandidate ==
    /\ Top = "candidates"
    /\ \/ \E location \in Installed : Become(WithOrca(cluster, location))
       \/ UNCHANGED cluster
    /\ stack' = Front(stack)
    /\ UNCHANGED <<file, keyring, host, form, manual, checks, jobs, events, cache, used>>

OrcaFailed == Failed("orca")
OrcaFinished == FinishedWith("orca", Head(events).data, FALSE) /\ UNCHANGED <<form, cluster>>

\* Discover Runtime, and Find Missing in the manual dialog.
BeginRuntime ==
    /\ Top \in {"cluster", "manual"}
    /\ \A check \in {"runtime", "scheduler", "species"} : ~checks[check].busy
    /\ Begin("runtime", FALSE, None)
    /\ UNCHANGED <<file, keyring, host, form, cluster, manual, events, stack, cache>>

Manual(c) ==
    LET h == Hints(c) IN
    [fhi |-> IF h.fhi # None THEN h.fhi ELSE c.fhi, ait |-> IF h.ait # None THEN h.ait ELSE c.ait,
     species |-> h.species, orca |-> h.orca]

\* receive_result: what is found fills the fields that are empty, unless the user
\* cancels a choice.
Filled(m, found, chosen) ==
    [m EXCEPT !.fhi = IF @ = None /\ "fhi" \in chosen THEN found ELSE @,
              !.ait = IF @ = None /\ "ait" \in chosen THEN found ELSE @,
              !.species = @ \/ ("fhi" \in chosen /\ found # None)]
Received(m, found) == {Filled(m, found, chosen) : chosen \in SUBSET {"fhi", "ait"}}

ManualIsOpen == \E i \in DOMAIN stack : stack[i].kind = "manual"

\* The result goes to the manual dialog if it is open or is needed for what was not
\* found; else candidates are chosen and replace the launch command and AITRANSS.
RuntimeSucceeded ==
    LET found == Head(events).data IN
    /\ Deliver("runtime", "succeeded")
    /\ checks' = [checks EXCEPT !["runtime"].pending = FALSE, !["runtime"].password = FALSE]
    /\ \/ ManualIsOpen /\ manual' \in Received(manual, found) /\ UNCHANGED <<cluster, stack>>
       \/ /\ ~ManualIsOpen
          /\ manual' \in Received(Manual(cluster), found)
          /\ stack' = Append(stack, Dialog("manual"))
          /\ UNCHANGED cluster
       \/ /\ ~ManualIsOpen /\ found # None
          /\ LET c == [cluster EXCEPT !.launch = found, !.ait = found, !.species = TRUE] IN
             Become([c EXCEPT !.hints = Hints(c)]) \/ UNCHANGED cluster
          /\ UNCHANGED <<manual, stack>>
    /\ UNCHANGED <<file, keyring, host, form, jobs, cache, used>>

RuntimeFailed == Failed("runtime")
RuntimeFinished ==
    /\ FinishedWith("runtime", None, TRUE)
    /\ Become(Synced(cluster)) /\ UNCHANGED form

----------------------------------------------------------------------------
(* Manual Runtime Configuration and its browser of remote folders.          *)

OpenManual ==
    /\ InCluster /\ Edits /\ ~checks["scheduler"].busy /\ ~checks["runtime"].busy
    /\ manual' = Manual(cluster)
    /\ stack' = Append(stack, Dialog("manual"))
    /\ Edited
    /\ UNCHANGED <<file, keyring, host, form, cluster, checks, jobs, events, cache>>

EditManual ==
    /\ Top = "manual" /\ Edits /\ ~checks["runtime"].busy
    /\ \E r \in {None} \cup Runtimes : manual' \in {[manual EXCEPT !.fhi = r], [manual EXCEPT !.ait = r]}
    /\ manual' # manual /\ Edited
    /\ UNCHANGED <<file, keyring, host, form, cluster, checks, jobs, events, stack, cache>>

\* Apply changes the working copy: without an FHI-aims runtime, after there was one,
\* the launch command is cleared.
ApplyManual ==
    /\ Top = "manual" /\ ~checks["runtime"].busy
    /\ LET h == [fhi |-> manual.fhi, ait |-> manual.ait, species |-> manual.species, orca |-> manual.orca] IN
       Become(Synced([cluster EXCEPT !.hints = h, !.species = manual.species, !.ait = manual.ait,
                                     !.fhi = manual.fhi,
                                     !.launch = IF manual.fhi = None /\ cluster.fhi # None THEN None ELSE @]))
    /\ stack' = Front(stack) /\ manual' = None
    /\ UNCHANGED <<file, keyring, host, form, checks, jobs, events, cache, used>>

CancelManual ==
    /\ Top = "manual" /\ ~checks["runtime"].busy
    /\ stack' = Front(stack) /\ manual' = None
    /\ UNCHANGED <<file, keyring, host, form, cluster, checks, jobs, events, cache, used>>

BrowseSpecies ==
    /\ Top = "manual" /\ \A check \in {"species", "runtime", "scheduler"} : ~checks[check].busy
    /\ Begin("species", FALSE, None)
    /\ stack' = Append(stack, Dialog("species"))
    /\ UNCHANGED <<file, keyring, host, form, cluster, manual, events, cache>>

RequestSpecies ==
    /\ Top = "species" /\ ~checks["species"].busy /\ MayCheck
    /\ Start("species", [checks["species"] EXCEPT !.pending = FALSE], None)
    /\ used' = [used EXCEPT !.checks = @ + 1]
    /\ UNCHANGED <<file, keyring, host, form, cluster, manual, events, stack, cache>>

SpeciesListed == Reported("species")
SpeciesFailed == Failed("species")
SpeciesFinished == FinishedWith("species", None, FALSE) /\ UNCHANGED <<form, cluster>>

CloseSpecies ==
    /\ Top = "species" /\ ~checks["species"].busy
    /\ stack' = Front(stack)
    /\ \/ manual' = [manual EXCEPT !.species = TRUE]
       \/ UNCHANGED manual
    /\ checks' = [checks EXCEPT !["species"].pending = FALSE, !["species"].password = FALSE]
    /\ UNCHANGED <<file, keyring, host, form, cluster, jobs, events, cache, used>>

----------------------------------------------------------------------------
(* Leaving Cluster Execution Settings.                                      *)

\* _collect_preset and SlurmExecutionPreset: what is typed must be complete.
PresetOf(c) ==
    [mode |-> c.mode, kind |-> Kind(c), dir |-> IF c.mode = "automatic" THEN c.auto ELSE c.typed,
     fhi |-> c.fhi, launch |-> c.launch]
Collectable(c) == c.mode = "manual" => c.typed # None /\ (Kind(c) = "lsf" => c.lsf)

\* The dialog goes, with the box that asks about unsaved changes.
Discarded ==
    /\ stack' = IF Top = "unsaved" THEN Front(Front(stack)) ELSE Front(stack)
    /\ cluster' = None

\* _save of the dialog, then the save of the profile that it was opened for.
SaveCluster ==
    /\ Top \in {"cluster", "unsaved"} /\ NoWorkers /\ Collectable(cluster)
    /\ LET profile == [cluster.loaded EXCEPT !.preset = PresetOf(cluster), !.ait = cluster.ait,
                                             !.hints = [Hints(cluster) EXCEPT !.orca = OrcaLocation(cluster)],
                                             !.orca = cluster.orca] IN
       \/ Save(cluster.id, profile, FALSE)
       \/ ~NameIsFree(file, cluster.id, profile.name) /\ UNCHANGED <<file, keyring, form>>
    /\ Discarded
    /\ UNCHANGED <<host, manual, checks, jobs, events, cache, used>>

\* What the baseline is compared with: everything that can be edited.
Editable(c) == [c EXCEPT !.verified = None]
Unsaved == Editable(cluster) # Editable(Working(cluster.id, cluster.loaded))

\* Cancel, Escape and the close button: refused while a worker is active.
RejectCluster ==
    /\ InCluster /\ NoWorkers
    /\ \/ Unsaved /\ stack' = Append(stack, Dialog("unsaved")) /\ UNCHANGED cluster
       \/ ~Unsaved /\ Discarded
    /\ UNCHANGED <<file, keyring, host, form, manual, checks, jobs, events, cache, used>>

AnswerUnsaved ==
    /\ Top = "unsaved"
    /\ \/ Discarded
       \/ stack' = Front(stack) /\ UNCHANGED cluster
    /\ UNCHANGED <<file, keyring, host, form, manual, checks, jobs, events, cache, used>>

----------------------------------------------------------------------------
(* A submission that has found the scheduler somewhere else than cached.    *)

CacheLoads(id) ==
    /\ cache = None /\ MayCheck /\ id \in Profiles(file)
    /\ LET p == file.profiles[id] IN
       /\ p.preset # None /\ p.preset.mode = "automatic"
       /\ \E kind \in Kinds \ {p.preset.dir} :
            cache' = [id |-> id, profile |-> [p EXCEPT !.preset.dir = kind], reloaded |-> None]
    /\ used' = [used EXCEPT !.checks = @ + 1]
    /\ UNCHANGED <<file, keyring, host, form, cluster, manual, checks, jobs, events, stack>>

\* save reads the file again; two profiles of one name are refused.
CacheReloads ==
    /\ cache # None /\ cache.reloaded = None
    /\ cache' = IF NameIsFree(file, cache.id, cache.profile.name) THEN [cache EXCEPT !.reloaded = file] ELSE None
    /\ UNCHANGED <<file, keyring, host, form, cluster, manual, checks, jobs, events, stack, used>>

CacheWrites ==
    /\ cache # None /\ cache.reloaded # None
    /\ file' = Stored(cache.reloaded, cache.id, cache.profile) \/ UNCHANGED file
    /\ cache' = None
    /\ UNCHANGED <<keyring, host, form, cluster, manual, checks, jobs, events, stack, used>>

----------------------------------------------------------------------------

\* One profile is saved, without cluster settings or with those of a cluster, and with
\* an ORCA runtime on one that is run by Slurm.
FirstProfiles ==
    LET plain == [name |-> CHOOSE n \in Names : TRUE, keep |-> FALSE, preset |-> None, ait |-> None,
                  hints |-> None, orca |-> None]
        configured(kind, location) ==
            [plain EXCEPT !.keep = TRUE, !.orca = location,
                          !.preset = [mode |-> "automatic", kind |-> kind, dir |-> kind, fhi |-> None, launch |-> None],
                          !.hints = [fhi |-> None, ait |-> None, species |-> FALSE,
                                     orca |-> IF location = None THEN Blank ELSE location]] IN
    {plain, configured("lsf", None)} \cup {configured("slurm", location) : location \in Installed}

Init ==
    \E id \in Ids, profile \in FirstProfiles :
        /\ file = [profiles |-> [i \in Ids |-> IF i = id THEN profile ELSE None], last |-> id]
        /\ keyring \in IF profile.keep THEN {{}, {id}} ELSE {{}}
        /\ host \in {TRUE, profile.preset # None}
        /\ form = Fields(id, profile)
        /\ cluster = None /\ manual = None
        /\ checks = [check \in Checks |-> Idle]
        /\ jobs = <<>> /\ events = <<>> /\ stack = <<Dialog("profiles")>> /\ cache = None
        /\ used = [edits |-> 0, checks |-> 0]

ProfileActs ==
    \/ \E id \in Ids : SelectProfile(id)
    \/ NewProfile
    \/ EditForm
    \/ SaveProfile
    \/ SaveAsProfile
    \/ DeleteProfile
    \/ CloseProfiles
    \/ TestConnection
    \/ BrowseWorkspace
    \/ RequestWorkspace
    \/ CloseWorkspace
    \/ OpenCluster

ClusterActs ==
    \/ ToggleMode
    \/ \E kind \in Kinds : ChooseKind(kind) \/ EditDirectory(kind)
    \/ EditLsfDirectories
    \/ \E location \in Entered : EditOrca(location)
    \/ \E runtime \in Runtimes : EditLaunch(runtime)
    \/ CheckScheduler
    \/ DiscoverOrca
    \/ ValidateOrca
    \/ SelectOrcaCandidate
    \/ BeginRuntime
    \/ OpenManual
    \/ EditManual
    \/ ApplyManual
    \/ CancelManual
    \/ BrowseSpecies
    \/ RequestSpecies
    \/ CloseSpecies
    \/ SaveCluster
    \/ RejectCluster
    \/ AnswerUnsaved

Signals ==
    \/ Answered
    \/ ConnectionSucceeded \/ ConnectionFailed \/ ConnectionFinished
    \/ WorkspaceListed \/ WorkspaceFailed \/ WorkspaceFinished
    \/ SchedulerSucceeded \/ SchedulerFailed \/ SchedulerFinished
    \/ OrcaSucceeded \/ OrcaFailed \/ OrcaFinished
    \/ RuntimeSucceeded \/ RuntimeFailed \/ RuntimeFinished
    \/ SpeciesListed \/ SpeciesFailed \/ SpeciesFinished

Background ==
    \/ \E check \in Checks : WorkerReports(check) \/ WorkerFinishes(check)
    \/ \E id \in Ids : CacheLoads(id)
    \/ CacheReloads
    \/ CacheWrites

Next == ProfileActs \/ ClusterActs \/ Signals \/ Background

----------------------------------------------------------------------------
(* Properties.                                                              *)

\* The store can always be read again, and what it calls a verified ORCA runtime was
\* confirmed on the server for exactly the location that is stored as its hint; a
\* configured FHI-aims runtime is what the stored launch command runs.
SavedIsVerified ==
    /\ file.last = None \/ file.last \in Profiles(file)
    /\ \A id \in Profiles(file) :
        LET p == file.profiles[id] IN
        /\ NameIsFree(file, id, p.name)
        /\ p.orca # None => p.orca \in Installed /\ p.hints # None /\ p.hints.orca = p.orca
        /\ p.preset # None /\ p.preset.fhi # None => p.preset.launch = p.preset.fhi

\* A dialog stays until the last of its workers has finished, so that no outcome is
\* delivered to a dialog that is gone or to one opened later.
ChecksHaveTheirDialog ==
    \A check \in Checks :
        checks[check].busy =>
            \E i \in DOMAIN stack : stack[i].kind =
                CASE check \in {"test", "workspace"} -> IF check = "test" THEN "profiles" ELSE "workspace"
                  [] check = "species" -> "species"
                  [] OTHER -> "cluster"
=============================================================================

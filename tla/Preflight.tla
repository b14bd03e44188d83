-------------------------------- MODULE Preflight --------------------------------
(***************************************************************************)
(* What is verified on a server: the scheduler's commands and ORCA, in the   *)
(* cluster settings (remote/scheduler_discovery.py, remote/orca_runtime.py)  *)
(* and again at the beginning of every submission, when the server may have  *)
(* changed.  A command is one step; between two steps the server may change. *)
(*                                                                         *)
(* A command directory is a model value; the client directories of LSF are   *)
(* one bundle [env, home]: where lsf.conf is, and the installation whose lib *)
(* and etc are used.                                                         *)
(***************************************************************************)
EXTENDS SequencesExt, Integers

CONSTANTS
    Worlds,         \* states the server can be in
    Dirs,           \* command directories, each in an installation of its own
    Etc,            \* /etc
    Envs, Login,    \* environments ORCA can be searched in; the one that loads nothing
    Reviewed,       \* versions of the reviewed families
    None,
    MaxChanges      \* bound: changes of the server

PreflightAssumption == Login \in Envs /\ MaxChanges \in Nat

VARIABLES
    world,      \* the server
    preset,     \* [kind, mode, dir, bundle], as saved
    orca,       \* [env, path, version], as saved, or None
    job,        \* the call that runs, or None
    outcome,    \* what the last call returned, or None
    age         \* changes of the server, and how many there were at each save

preflight == <<world, preset, orca, job, outcome, age>>

Shells == <<"current", "login">>
Bundle(env, home) == [env |-> env, home |-> home]

----------------------------------------------------------------------------
(* What the server answers.                                                 *)

\* verify_sbatch_path; verify_scheduler_submit_path asks for the other commands too.
Sbatch(dir) == world.slurm[dir] # "none"
SlurmSet(dir) == world.slurm[dir] = "complete"

\* _lsf_client_directory_candidates: a bundle given is the only one; else what the
\* shell advertises, as a whole if it belongs to this directory, and the usual places.
ClientDirectories(dir, given, advertised) ==
    IF given # None THEN {given}
    ELSE {Bundle(env, dir) : env \in {Etc, dir} \cup (IF advertised = None THEN {} ELSE {advertised.env})}
         \cup (IF advertised # None /\ advertised.dir = dir
               THEN {Bundle(advertised.env, advertised.home)} ELSE {})

\* _verify_lsf_submit_path: one that lsid accepts (the first of them; any of them here).
Accepted(dir, given, advertised) ==
    IF dir \in world.lsf THEN ClientDirectories(dir, given, advertised) \cap world.bundles ELSE {}

Result(kind, dir, bundle, source) == [kind |-> kind, dir |-> dir, bundle |-> bundle, source |-> source]

\* The results of verifying one directory, none or one.
Verified(kind, dir, given, advertised, source) ==
    IF kind = "slurm" THEN IF SlurmSet(dir) THEN {Result(kind, dir, None, source)} ELSE {}
    ELSE {Result(kind, dir, bundle, source) : bundle \in Accepted(dir, given, advertised)}

\* validate_orca_runtime: the path is its own canonical path and what the environment
\* resolves orca to.
Runs(env, path) == path # None /\ path \in world.canonical /\ world.exposes[env] = path
OrcaRuntime(env, path) == [env |-> env, path |-> path, version |-> world.version]

----------------------------------------------------------------------------
(* One call: what it still has to do, and what it has verified.              *)

Call(do, kinds, given, todo) ==
    [do |-> do, kinds |-> kinds, given |-> given, todo |-> todo, verified |-> {}, fresh |-> TRUE]
Returns(value) ==
    /\ outcome' = [do |-> job.do, value |-> value, fresh |-> job.fresh]
    /\ job' = None
Goes(todo, verified) ==
    /\ job' = [job EXCEPT !.todo = todo, !.verified = verified]
    /\ UNCHANGED outcome
Doing(do) == job # None /\ job.todo # <<>> /\ Head(job.todo).do = do

Lookup(shell) == [do |-> "lookup", shell |-> shell]
Verify(kind, dir, advertised, source) ==
    [do |-> "verify", kind |-> kind, dir |-> dir, advertised |-> advertised, source |-> source]
Decide == [do |-> "decide"]

\* discover_scheduler and discover_slurm: the environment of the connection, then the
\* login shell.
Search == <<Lookup("current"), Decide, Lookup("login"), Decide, [do |-> "fail"]>>

\* The settings: automatic detection of either scheduler, or one directory.
CheckAutomatic ==
    /\ job = None
    /\ \E given \in {None, preset.bundle} :
          job' = Call("check", {"slurm", "lsf"}, given, Search)
    /\ UNCHANGED <<world, preset, orca, outcome, age>>

\* A manual LSF check needs the client directories.
CheckManual ==
    /\ job = None
    /\ \E kind \in {"slurm", "lsf"}, dir \in Dirs, env \in Dirs \cup {Etc} :
          LET given == IF kind = "lsf" THEN Bundle(env, dir) ELSE None IN
          job' = Call("check", {kind}, given, <<Verify(kind, dir, None, "manual"), Decide, [do |-> "fail"]>>)
    /\ UNCHANGED <<world, preset, orca, outcome, age>>

\* Save of the settings, with what was just verified.
SavePreset ==
    /\ job = None /\ outcome # None /\ outcome.do = "check" /\ outcome.value # None
    /\ LET found == outcome.value IN
       preset' = [kind |-> found.kind, mode |-> IF found.source = "manual" THEN "manual" ELSE "automatic",
                  dir |-> found.dir, bundle |-> found.bundle]
    /\ age' = [age EXCEPT !.preset = IF outcome.fresh THEN age.now ELSE -1]
    /\ outcome' = None
    /\ UNCHANGED <<world, orca, job>>

\* Preset of an older version of the program, without client directories.
Unresolved == [kind |-> "lsf", mode |-> "automatic", dir |-> None, bundle |-> None]

\* resolve_scheduler_for_submission: exactly the scheduler declared.
ResolveScheduler ==
    IF preset.mode = "manual"
    THEN <<Verify(preset.kind, preset.dir, None, "manual"), Decide, [do |-> "fail"]>>
    ELSE (IF preset.dir # None THEN <<Verify(preset.kind, preset.dir, None, "cached"), Decide>> ELSE <<>>)
         \o Search

\* A submission of an ORCA job verifies ORCA before the scheduler.
Submit ==
    /\ job = None
    /\ \E program \in {"none"} \cup (IF orca # None THEN {"orca"} ELSE {}) :
          job' = Call("submit", {preset.kind}, preset.bundle,
                      (IF program = "orca" THEN <<[do |-> "orca"]>> ELSE <<>>) \o ResolveScheduler)
    /\ UNCHANGED <<world, preset, orca, outcome, age>>

----------------------------------------------------------------------------
(* The commands.                                                            *)

\* One candidate of each kind that is visible and asked for.
LookUp ==
    LET shell == Head(job.todo).shell
        visible(kind) == kind \in job.kinds /\ world.visible[shell][kind] # None
        candidate(kind) == Verify(kind, world.visible[shell][kind], world.advertised, shell)
        candidates == (IF visible("slurm") THEN <<candidate("slurm")>> ELSE <<>>)
                          \o (IF visible("lsf") THEN <<candidate("lsf")>> ELSE <<>>) IN
    /\ Doing("lookup")
    /\ Goes(candidates \o Tail(job.todo), {})
    /\ UNCHANGED <<world, preset, orca, age>>

\* A submission with Slurm asks sbatch for its version and nothing more.
Confirmed(t) ==
    IF t.kind = "slurm" /\ job.do = "submit"
    THEN IF Sbatch(t.dir) THEN {Result(t.kind, t.dir, None, t.source)} ELSE {}
    ELSE Verified(t.kind, t.dir, job.given, t.advertised, t.source)

VerifyDirectory ==
    LET t == Head(job.todo) IN
    /\ Doing("verify")
    /\ \/ /\ Confirmed(t) = {}
          /\ Goes(Tail(job.todo), job.verified)
       \/ \E r \in Confirmed(t) : Goes(Tail(job.todo), job.verified \cup {r})
    /\ UNCHANGED <<world, preset, orca, age>>

\* One verified set is the result, two are ambiguous, none leads to what is next.
DecideOne ==
    /\ Doing("decide")
    /\ IF Cardinality(job.verified) = 1 THEN \E r \in job.verified : Returns(r)
       ELSE IF job.verified # {} THEN Returns(None)
       ELSE Goes(Tail(job.todo), {})
    /\ UNCHANGED <<world, preset, orca, age>>

NotFound ==
    /\ Doing("fail")
    /\ Returns(None)
    /\ UNCHANGED <<world, preset, orca, age>>

\* require_usable_orca_runtime: validated as in the settings, with the same version.
Usable ==
    /\ Runs(orca.env, orca.path)
    /\ world.version = orca.version
    /\ world.version \in Reviewed \cup {None}

RequireOrca ==
    /\ Doing("orca")
    /\ IF Usable THEN Goes(Tail(job.todo), {}) ELSE Returns(None)
    /\ UNCHANGED <<world, preset, orca, age>>

----------------------------------------------------------------------------
(* ORCA in the settings, with Slurm only.                                    *)

\* The login shell, the environment entered, every module with a fitting name.
DiscoverOrca ==
    /\ job = None /\ preset.kind = "slurm"
    /\ \E entered \in Envs :
          LET searched == SetToSeq({Login, entered} \cup world.listed) IN
          job' = Call("orca", {}, None, [i \in DOMAIN searched |-> [do |-> "identify", env |-> searched[i]]]
                                            \o <<[do |-> "choose"]>>)
    /\ UNCHANGED <<world, preset, orca, outcome, age>>

\* command -v and readlink give the path; it is validated like one that was entered.
Identify ==
    LET env == Head(job.todo).env  path == world.exposes[env] IN
    /\ Doing("identify")
    /\ Goes(Tail(job.todo), IF Runs(env, path) THEN job.verified \cup {OrcaRuntime(env, path)} ELSE job.verified)
    /\ UNCHANGED <<world, preset, orca, age>>

ValidateOrca ==
    /\ job = None
    /\ \E env \in Envs : \E path \in world.canonical :
          /\ Runs(env, path)
          /\ outcome' = [do |-> "orca", value |-> OrcaRuntime(env, path), fresh |-> TRUE]
    /\ UNCHANGED <<world, preset, orca, job, age>>

ChooseOrca ==
    /\ Doing("choose")
    /\ IF job.verified = {} THEN Returns(None) ELSE \E r \in job.verified : Returns(r)
    /\ UNCHANGED <<world, preset, orca, age>>

SaveOrca ==
    /\ job = None /\ outcome # None /\ outcome.do = "orca" /\ outcome.value # None
    /\ orca' = outcome.value /\ outcome' = None
    /\ age' = [age EXCEPT !.orca = IF outcome.fresh THEN age.now ELSE -1]
    /\ UNCHANGED <<world, preset, job>>

\* _cache_automatic_slurm_location: what a submission has found is the preset's.
CacheLocation ==
    /\ job = None /\ outcome # None /\ outcome.do = "submit" /\ outcome.value # None
    /\ preset.mode = "automatic"
    /\ preset' = [preset EXCEPT !.dir = outcome.value.dir, !.bundle = outcome.value.bundle]
    /\ preset' # preset
    /\ age' = [age EXCEPT !.preset = -1]
    /\ outcome' = None
    /\ UNCHANGED <<world, orca, job>>

----------------------------------------------------------------------------
(* Modules, programs and installations come and go; the connection breaks.    *)

ServerChanges ==
    /\ age.now < MaxChanges
    /\ world' \in Worlds /\ world' # world
    /\ age' = [age EXCEPT !.now = @ + 1]
    /\ job' = IF job = None THEN None ELSE [job EXCEPT !.fresh = FALSE]
    /\ outcome' = IF outcome = None THEN None ELSE [outcome EXCEPT !.fresh = FALSE]
    /\ UNCHANGED <<preset, orca>>

ConnectionBreaks ==
    /\ job # None /\ job' = None /\ outcome' = None
    /\ UNCHANGED <<world, preset, orca, age>>

Init ==
    /\ world \in Worlds
    /\ preset \in {Unresolved, [Unresolved EXCEPT !.kind = "slurm"]}
    /\ orca = None /\ job = None /\ outcome = None
    /\ age = [now |-> 0, preset |-> -1, orca |-> -1]

Next ==
    \/ CheckAutomatic
    \/ CheckManual
    \/ SavePreset
    \/ Submit
    \/ LookUp
    \/ VerifyDirectory
    \/ DecideOne
    \/ NotFound
    \/ RequireOrca
    \/ DiscoverOrca
    \/ Identify
    \/ ValidateOrca
    \/ ChooseOrca
    \/ SaveOrca
    \/ CacheLocation
    \/ ServerChanges
    \/ ConnectionBreaks

----------------------------------------------------------------------------
(* Properties.                                                              *)

Submitted == outcome # None /\ outcome.do = "submit" /\ outcome.fresh
Works(kind, dir, bundle) == IF kind = "slurm" THEN Sbatch(dir) ELSE dir \in world.lsf /\ bundle \in world.bundles

\* A submission goes to the scheduler the preset declares and never to the other one
\* that may be there; with manual settings to that directory and no other; it works.
SubmitsAsDeclared ==
    Submitted /\ outcome.value # None =>
        /\ outcome.value.kind = preset.kind
        /\ preset.mode = "manual" => outcome.value.dir = preset.dir /\ outcome.value.bundle = preset.bundle
        /\ Works(outcome.value.kind, outcome.value.dir, outcome.value.bundle)

\* What the settings have verified and saved, a submission accepts for as long as the
\* server stays as it was: the two verify differently, in particular the client
\* directories found are then given.  ORCA of a family that was not reviewed is found,
\* validated and saved, and refused at every submission.
VerifiedIsAccepted ==
    Submitted /\ outcome.value = None =>
        \/ age.preset # age.now
        \/ orca # None /\ (age.orca # age.now \/ orca.version \notin Reviewed \cup {None})

\* docs/WORKFLOW.md:99 "rediscovered if stale": an automatic submission only fails when no
\* directory that is visible works.  This excludes a preset with client directories: they
\* are given in the second search too, and when those of LSF have moved nothing is found.
Rediscovered ==
    /\ Submitted /\ outcome.value = None
    /\ preset.mode = "automatic" /\ preset.bundle = None
    /\ orca = None
    => \A shell \in {"current", "login"} :
           LET dir == world.visible[shell][preset.kind] IN
           dir # None => /\ preset.kind = "slurm" => ~Sbatch(dir)
                         /\ preset.kind = "lsf" => Accepted(dir, None, world.advertised) = {}
=============================================================================

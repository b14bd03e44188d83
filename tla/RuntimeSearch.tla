------------------------------ MODULE RuntimeSearch ------------------------------
(***************************************************************************)
(* The search for FHI-aims and AITRANSS on a server                          *)
(* (remote/runtime_search.py, discover_runtime_configuration): five stages   *)
(* under one budget of commands, every command asked once.                   *)
(*                                                                         *)
(* A server is a record: for every program the place of its executable, the  *)
(* libraries it needs and how many species roots it comes with; what the     *)
(* module system offers.  An environment is a set of modules, the empty one  *)
(* is none; a setup script is a module that no listing names.  The agenda    *)
(* holds what the nested loops of the function still have to do.             *)
(***************************************************************************)
EXTENDS FiniteSets, SequencesExt, Integers

CONSTANTS
    Servers,        \* servers that can be searched
    Requests,       \* [program -> [env, location]], what the user has entered
    Families,       \* sequence of the library families, as they are searched for
    None,
    MaxCommands,    \* MAX_COMMANDS
    Reserve,        \* OPTIONAL_COMMAND_RESERVE
    MaxDepth,       \* MAX_SUPPORT_DEPTH
    MaxFrontier,    \* MAX_SUPPORT_FRONTIER
    MaxProbes,      \* MAX_SUPPORT_MODULE_PROBES
    MaxPrograms     \* MAX_PROGRAM_MODULE_ENVIRONMENTS

SearchAssumption ==
    /\ {MaxCommands, Reserve, MaxDepth, MaxFrontier, MaxProbes, MaxPrograms} \subseteq Nat
    /\ MaxCommands > Reserve

VARIABLES
    server,     \* the server that is searched
    request,    \* what the user has entered
    asked,      \* commands that were executed; a repeated one is answered from the cache
    found,      \* [program -> its candidates, in the order they were found]
    attempted,  \* what in_environment was called with
    seen,       \* [program -> environments probed for support, and how many there were]
    indexed,    \* what the filename index lists, None before it is queried
    agenda,     \* tasks
    result      \* None, then [kind, candidates]

search == <<server, request, asked, found, attempted, seen, indexed, agenda, result>>

Programs == {"fhi", "ait"}
Auto == {"auto"}
PathNames == {"path", "wrapper"}

----------------------------------------------------------------------------
(* What the server answers.                                                 *)

Loaded(env) == UNION {server.gives[m] : m \in env}

\* Places where an executable is found: by its name on PATH, or only there when a
\* module is loaded.
OnPath(label, env) ==
    \/ server.place[label] \in PathNames
    \/ server.place[label] = "program" /\ "program" \in env

\* mpirun may come with a module; a wrapper that starts it excludes srun.
LaunchersIn(label, env) ==
    (IF server.place[label] = "wrapper" THEN {} ELSE server.launchers)
        \cup (IF "mpirun" \in Loaded(env) THEN {"mpirun"} ELSE {})

Missing(label, env) == server.needs[label] \ Loaded(env)

----------------------------------------------------------------------------
(* Candidates.                                                              *)

\* add_paths: what is known about an executable in an environment.
Candidate(label, env) ==
    [env |-> env,
     missing |-> IF server.readable THEN Missing(label, env) ELSE {},
     settled |-> \/ request[label].env # Auto
                 \/ server.readable /\ Missing(label, env) = {},
     launchers |-> IF label = "fhi" THEN LaunchersIn(label, env) ELSE {},
     species |-> IF label = "fhi" THEN server.species ELSE 0]

\* _candidate_unmet.
Unmet(label, c) ==
    (IF c.settled THEN {} ELSE IF c.missing = {} THEN {"environment"} ELSE c.missing)
        \cup (IF label = "fhi" /\ c.launchers = {} THEN {"launcher"} ELSE {})
        \cup (IF label = "fhi" /\ c.species # 1 THEN {"species"} ELSE {})

Ready(label, c) == Unmet(label, c) = {}
Resolved(label) == \E i \in DOMAIN found[label] : Ready(label, found[label][i])

\* _candidate_gap_key, compared from the left.
Gap(label, c) ==
    LET unmet == Unmet(label, c) IN
    <<IF "environment" \in unmet THEN 1 ELSE 0,
      Cardinality(unmet \ {"environment", "launcher", "species"}),
      IF "launcher" \in unmet THEN 1 ELSE 0,
      IF "species" \in unmet THEN 1 ELSE 0>>

Less(g, h) == \E i \in DOMAIN g : g[i] < h[i] /\ \A k \in 1..(i - 1) : g[k] = h[k]

\* needs_automatic_search: several species roots are the user's to choose from.
Needed(label) ==
    /\ request[label].env = Auto /\ ~Resolved(label)
    /\ ~\E i \in DOMAIN found[label] :
           LET c == found[label][i] IN label = "fhi" /\ c.settled /\ c.launchers # {} /\ c.species > 1

----------------------------------------------------------------------------
(* Tasks.                                                                   *)

\* in_environment: defaults are the sources of the program itself; unless it is
\* resolved by then.
Look(label, env, seeds, defaults, unless) ==
    [do |-> "look", label |-> label, env |-> env, seeds |-> seeds, defaults |-> defaults, unless |-> unless]
Add(label, env, family) == [do |-> "add", label |-> label, env |-> env, family |-> family]
Family(label, env) == [do |-> "family", label |-> label, env |-> env]
Task(do, label) == [do |-> do, label |-> label]
Looks(label, envs, seeds, defaults) == [i \in DOMAIN envs |-> Look(label, envs[i], seeds, defaults, TRUE)]

Unique(s) == FoldLeft(LAMBDA acc, x : IF x \in ToSet(acc) THEN acc ELSE Append(acc, x), <<>>, s)
EnvironmentsOf(candidates) == Unique([i \in DOMAIN candidates |-> candidates[i].env])

\* environments_for: those of the modules loaded now come first.
Initial(label) ==
    IF request[label].env # Auto THEN <<request[label].env>>
    ELSE IF server.current = {} THEN <<{}>> ELSE <<server.current, {}>>

Doing(do) == agenda # <<>> /\ Head(agenda).do = do
Then(tasks) == agenda' = tasks \o Tail(agenda)

\* The first of those that tell the same about an executable.
Distinct(label, candidates) ==
    LET same(c, d) == Unmet(label, c) = Unmet(label, d) /\ c.launchers = d.launchers IN
    FoldLeft(LAMBDA acc, c : IF \E i \in DOMAIN acc : same(acc[i], c) THEN acc ELSE Append(acc, c), <<>>, candidates)

First(s, n) == SubSeq(s, 1, IF Len(s) < n THEN Len(s) ELSE n)
FewModules(c, d) == Cardinality(c.env) < Cardinality(d.env)

\* Mutant: the first ones found, the complete ones not preferred.
Retained_First(label) == First(Distinct(label, Unique(found[label])), 1)

\* _retain_best_candidates: the complete ones, or those with the smallest gap.
Retained(label) ==
    LET all == Unique(found[label])
        complete == SelectSeq(all, LAMBDA c : Ready(label, c))
        best == SelectSeq(all, LAMBDA c : \A i \in DOMAIN all : ~Less(Gap(label, all[i]), Gap(label, c))) IN
    IF complete # <<>> THEN complete
    ELSE First(Distinct(label, SortSeq(best, FewModules)), MaxFrontier)

Returned(kind) == [kind |-> kind, candidates |-> [label \in Programs |-> Retained(label)]]
Nothing == [kind |-> "error", candidates |-> [label \in Programs |-> <<>>]]

\* Commands are executed until the budget is spent.
Affords(commands) == Cardinality(asked \cup commands) <= MaxCommands
Asking(commands) == asked' = asked \cup commands
Spare(calls) == Cardinality(asked) + calls <= MaxCommands - Reserve

\* The commands or the time are used up: what was found is kept, unless that is nothing.
LimitReached ==
    /\ agenda # <<>> /\ agenda' = <<>>
    /\ result' = IF \E label \in Programs : found[label] # <<>> THEN Returned("partial") ELSE Nothing
    /\ UNCHANGED <<server, request, asked, found, attempted, seen, indexed>>

\* The connection is lost, a script is not permitted or an answer cannot be read.
Breaks ==
    /\ agenda # <<>> /\ agenda' = <<>> /\ result' = Nothing
    /\ UNCHANGED <<server, request, asked, found, attempted, seen, indexed>>

----------------------------------------------------------------------------
(* Looking for one program in one environment.                              *)

Found == {label \in Programs : found[label] # <<>>}

\* What the sources of the program list: the location entered; PATH and the wrapper on
\* it; the neighbourhood of what was found; with nothing so far and no environment,
\* what PATH advertises.
Listed(label, env) ==
    LET place == server.place[label] IN
    IF request[label].location THEN server.located[label]
    ELSE \/ OnPath(label, env)
         \/ place = "sibling" /\ Found # {}
         \/ place = "advertised" /\ env = {}

PathInventory(env) == {<<"path", env>>}
WrapperTarget(label, env) == IF server.place[label] = "wrapper" THEN {<<"wrapper", env>>} ELSE {}
Neighbours(label, env) ==
    IF ~Resolved(label) /\ Found # {} THEN {<<"layout", label, env, Found>>} ELSE {}
AdvertisedRoots(label, env, seeds) ==
    IF env = {} /\ ~seeds /\ ~OnPath(label, env) THEN {<<"advertised", label>>} ELSE {}
BelowLocation(label, env) == {<<"location", label, env>>}

Sources(label, env, seeds) ==
    IF request[label].location THEN BelowLocation(label, env)
    ELSE PathInventory(env) \cup WrapperTarget(label, env) \cup Neighbours(label, env)
             \cup AdvertisedRoots(label, env, seeds)

LauncherCommands(label, env) ==
    PathInventory(env) \cup {<<"launcher", name, env>> : name \in LaunchersIn(label, env)}

Attempt(t) == [label |-> t.label, env |-> t.env, seeds |-> t.seeds, defaults |-> t.defaults, roots |-> Found]

InEnvironment ==
    LET t == Head(agenda)
        commands == (IF t.defaults THEN Sources(t.label, t.env, t.seeds) ELSE {})
                        \cup (IF t.label = "fhi" /\ t.defaults THEN LauncherCommands(t.label, t.env) ELSE {})
        family == t.defaults /\ ~request[t.label].location
        listed == \/ t.defaults /\ Listed(t.label, t.env)
                  \/ t.seeds /\ (family \/ ~t.defaults) IN
    /\ Doing("look")
    /\ ~(t.unless /\ Resolved(t.label)) /\ Attempt(t) \notin attempted
    /\ Affords(commands) /\ Asking(commands)
    /\ attempted' = attempted \cup {Attempt(t)}
    /\ Then(IF listed THEN <<Add(t.label, t.env, family)>> ELSE IF family THEN <<Family(t.label, t.env)>> ELSE <<>>)
    /\ UNCHANGED <<server, request, found, seen, indexed, result>>

\* Nothing is looked for twice, or once the program is resolved.
SkipEnvironment ==
    LET t == Head(agenda) IN
    /\ Doing("look")
    /\ (t.unless /\ Resolved(t.label)) \/ Attempt(t) \in attempted
    /\ Then(<<>>)
    /\ UNCHANGED <<server, request, asked, found, attempted, seen, indexed, result>>

\* path_family: the versioned names, when nothing was added.
PathFamily ==
    LET t == Head(agenda)  command == {<<"family", t.label, t.env>>} IN
    /\ Doing("family") /\ Affords(command) /\ Asking(command)
    /\ Then(IF server.place[t.label] = "versioned" THEN <<Add(t.label, t.env, FALSE)>> ELSE <<>>)
    /\ UNCHANGED <<server, request, found, attempted, seen, indexed, result>>

\* What is asked about one executable: its kind, the libraries it lacks, the species
\* definitions beside it, the launchers.
Probe(label, env) == {<<"file", label, env>>, <<"elf", label, env>>}
Libraries(label, env) == IF server.readable THEN {<<"libraries", label, env>>} ELSE {}
SpeciesRoots(label, env) == IF label = "fhi" THEN {<<"species", label, env>>} ELSE {}
Examined(label, env) ==
    Probe(label, env) \cup Libraries(label, env) \cup SpeciesRoots(label, env)
        \cup (IF label = "fhi" THEN LauncherCommands(label, env) ELSE {})

AddPath ==
    LET t == Head(agenda)
        known == \E i \in DOMAIN found[t.label] : found[t.label][i].env = t.env
        commands == IF known THEN {<<"file", t.label, t.env>>} ELSE Examined(t.label, t.env) IN
    /\ Doing("add") /\ Affords(commands) /\ Asking(commands)
    /\ IF known
       THEN Then(IF t.family THEN <<Family(t.label, t.env)>> ELSE <<>>) /\ UNCHANGED found
       ELSE /\ Then(<<>>)
            /\ found' = [found EXCEPT ![t.label] = Append(@, Candidate(t.label, t.env))]
    /\ UNCHANGED <<server, request, attempted, seen, indexed, result>>

----------------------------------------------------------------------------
(* The stages.                                                              *)

\* Stage 1: AITRANSS is looked for in the environments of FHI-aims first.
LookOnPath ==
    LET label == Head(agenda).label
        others == IF label = "ait" /\ request[label].env = Auto THEN EnvironmentsOf(found["fhi"]) ELSE <<>> IN
    /\ Doing("path")
    /\ Then(Looks(label, Unique(others \o Initial(label)), FALSE, TRUE))
    /\ UNCHANGED <<server, request, asked, found, attempted, seen, indexed, result>>

IndexLists == {label \in Programs : server.place[label] = "index"}

\* Stage 2: the filename index is asked once, for programs that were not seen at all.
QueryIndex ==
    LET lost == {label \in Programs : Needed(label) /\ ~request[label].location /\ found[label] = <<>>}
        inOrder == SelectSeq(<<"fhi", "ait">>, LAMBDA label : label \in lost) IN
    /\ Doing("index")
    /\ IF lost = {} THEN Then(<<>>) /\ UNCHANGED <<asked, indexed>>
       ELSE /\ Affords({<<"index">>}) /\ Asking({<<"index">>})
            /\ indexed' = IndexLists
            /\ Then([i \in DOMAIN inOrder |-> Task("indexed", inOrder[i])]
                        \o [i \in DOMAIN inOrder |-> Task("again", inOrder[i])])
    /\ UNCHANGED <<server, request, found, attempted, seen, result>>

LookAtIndexed ==
    LET label == Head(agenda).label IN
    /\ Doing("indexed")
    /\ Then(IF Needed(label) /\ label \in indexed
            THEN Looks(label, Unique(EnvironmentsOf(found[label]) \o Initial(label)), TRUE, FALSE) ELSE <<>>)
    /\ UNCHANGED <<server, request, asked, found, attempted, seen, indexed, result>>

\* An indexed path can expose a neighbour.
LookAgain ==
    LET label == Head(agenda).label IN
    /\ Doing("again")
    /\ Then(IF Needed(label) THEN Looks(label, Initial(label), FALSE, TRUE) ELSE <<>>)
    /\ UNCHANGED <<server, request, asked, found, attempted, seen, indexed, result>>

\* Stages 3 and 5: environments are extended by modules that close an observed gap.
Frontier(label, candidates) ==
    LET open == SelectSeq(candidates, LAMBDA c : ~Ready(label, c)) IN
    First(Distinct(label, SortSeq(open, LAMBDA c, d :
              \/ Less(Gap(label, c), Gap(label, d))
              \/ (Gap(label, c) = Gap(label, d) /\ FewModules(c, d)))),
          MaxFrontier)

Deepen(label, depth, bases, improved) ==
    [do |-> "deepen", label |-> label, depth |-> depth, bases |-> bases, improved |-> improved]

CompleteKnown ==
    LET label == Head(agenda).label IN
    /\ Doing("support")
    /\ IF Needed(label) /\ found[label] # <<>>
       THEN /\ Then(<<Deepen(label, 1, Frontier(label, found[label]), <<>>)>>)
            /\ seen' = [seen EXCEPT ![label].envs = {found[label][i].env : i \in DOMAIN found[label]}]
       ELSE Then(<<>>) /\ UNCHANGED seen
    /\ UNCHANGED <<server, request, asked, found, attempted, indexed, result>>

\* The families of what is unmet; a launcher is looked for with the last one.
Wanted(label, c) ==
    SelectSeq(Families, LAMBDA f : \/ f \in Unmet(label, c)
                                   \/ f = Last(Families) /\ "launcher" \in Unmet(label, c))

\* The bases of one depth are extended one after the other, then the improved ones.
NextBase ==
    LET t == Head(agenda)  base == Head(t.bases) IN
    /\ Doing("deepen") /\ t.bases # <<>>
    /\ Then(<<[do |-> "extend", label |-> t.label, base |-> base, families |-> Wanted(t.label, base),
               modules |-> None, depth |-> t.depth, bases |-> Tail(t.bases), improved |-> t.improved]>>)
    /\ UNCHANGED <<server, request, asked, found, attempted, seen, indexed, result>>

NextDepth ==
    LET t == Head(agenda) IN
    /\ Doing("deepen") /\ t.bases = <<>>
    /\ Then(IF t.improved = <<>> \/ Resolved(t.label) \/ t.depth >= MaxDepth THEN <<>>
            ELSE <<Deepen(t.label, t.depth + 1, Frontier(t.label, t.improved), <<>>)>>)
    /\ UNCHANGED <<server, request, asked, found, attempted, seen, indexed, result>>

OfFamily(family) == {m \in DOMAIN server.family : server.family[m] = family}
\* The catalog is filtered by the server; spider is asked when it names nothing.
Catalog(env, family) ==
    {<<"catalog", env, family>>} \cup (IF OfFamily(family) = {} THEN {<<"spider", env, family>>} ELSE {})

\* support_module_batches: one family is listed, in the environment of the base.
ListFamily ==
    LET t == Head(agenda)
        commands == Catalog(t.base.env, Head(t.families)) IN
    /\ Doing("extend") /\ t.modules = None /\ t.families # <<>>
    /\ Affords(commands) /\ Asking(commands)
    /\ Then(<<[t EXCEPT !.modules = OfFamily(Head(t.families)) \ t.base.env, !.families = Tail(@)]>>)
    /\ UNCHANGED <<server, request, found, attempted, seen, indexed, result>>

Extended(base, module) == base.env \cup {module}

Better(label, c, base) == Less(Gap(label, c), Gap(label, base))

\* Module names are ranked by what the libraries look like: any order.  Only a strictly
\* smaller gap is kept, and ends the work on this base; a ready one ends the stage.
TryModule ==
    LET t == Head(agenda) IN
    /\ Doing("extend") /\ t.modules \notin {None, {}}
    /\ \E module \in t.modules :
        LET env == Extended(t.base, module)
            c == Candidate(t.label, env)
            commands == Examined(t.label, env) IN
        IF env \in seen[t.label].envs
        THEN /\ Then(<<[t EXCEPT !.modules = @ \ {module}]>>)
             /\ UNCHANGED <<asked, found, seen>>
        ELSE IF seen[t.label].probes >= MaxProbes \/ ~Spare(4)
        THEN Then(<<>>) /\ UNCHANGED <<asked, found, seen>>
        ELSE /\ Affords(commands) /\ Asking(commands)
             /\ seen' = [seen EXCEPT ![t.label] = [envs |-> @.envs \cup {env}, probes |-> @.probes + 1]]
             /\ IF Better(t.label, c, t.base)
                THEN /\ found' = [found EXCEPT ![t.label] = Append(@, c)]
                     /\ Then(IF Ready(t.label, c) THEN <<>>
                             ELSE <<Deepen(t.label, t.depth, t.bases, Append(t.improved, c))>>)
                ELSE /\ Then(<<[t EXCEPT !.modules = @ \ {module}]>>)
                     /\ UNCHANGED found
    /\ UNCHANGED <<server, request, attempted, indexed, result>>

\* No module of the family helps: the next family, or the next base.
NextFamily ==
    LET t == Head(agenda) IN
    /\ Doing("extend")
    /\ \/ t.modules = {} /\ Then(<<[t EXCEPT !.modules = None]>>)
       \/ /\ t.modules = None /\ t.families = <<>>
          /\ Then(<<Deepen(t.label, t.depth, t.bases, t.improved)>>)
    /\ UNCHANGED <<server, request, asked, found, attempted, seen, indexed, result>>

\* AITRANSS is looked for again where FHI-aims is complete.
ReuseEnvironment ==
    LET ready == SelectSeq(found["fhi"], LAMBDA c : Ready("fhi", c))
        known == found["ait"] # <<>> \/ (indexed # None /\ "ait" \in indexed) IN
    /\ Doing("reuse")
    /\ Then(IF Needed("ait") THEN Looks("ait", EnvironmentsOf(ready), known, TRUE) ELSE <<>>)
    /\ UNCHANGED <<server, request, asked, found, attempted, seen, indexed, result>>

\* Stage 4: modules with the names of the programs, listed with and without those
\* that are loaded now.
ModulePrefixes == IF server.current = {} THEN <<{}>> ELSE <<{}, server.current>>

StartPrograms ==
    /\ Doing("programs")
    /\ Then(IF \E label \in Programs : Needed(label)
            THEN [i \in 1..(2 * Len(ModulePrefixes)) |->
                     [do |-> "list", by |-> IF i <= Len(ModulePrefixes) THEN "avail" ELSE "spider",
                      prefix |-> ModulePrefixes[((i - 1) % Len(ModulePrefixes)) + 1]]]
            ELSE <<>>)
    /\ UNCHANGED <<server, request, asked, found, attempted, seen, indexed, result>>

\* A batch is worked through for every program that needs it when it starts; the
\* budget for what is optional, or nothing needed any more, ends the stage.
AfterPrograms == SelectSeq(Tail(agenda), LAMBDA t : t.do # "list")

Batch(env) == [label |-> "programs", env |-> env, seeds |-> FALSE, defaults |-> FALSE, roots |-> {}]

ListPrograms ==
    LET t == Head(agenda)
        command == {<<t.by, t.prefix>>}
        env == t.prefix \cup {"program"}
        batch == IF t.by \in server.lists /\ Batch(env) \notin attempted THEN {env} ELSE {}
        pending == SelectSeq(<<"fhi", "ait">>, Needed) IN
    /\ Doing("list")
    /\ IF pending = <<>> THEN agenda' = AfterPrograms /\ UNCHANGED <<asked, attempted>>
       ELSE /\ Affords(command) /\ Asking(command)
            /\ attempted' = attempted \cup {Batch(e) : e \in batch}
            /\ IF batch = {} THEN Then(<<>>)
               ELSE IF \/ Cardinality({k \in attempted : k.label = "programs"}) >= MaxPrograms
                       \/ Cardinality(asked \cup command) + 6 > MaxCommands - Reserve
               THEN agenda' = AfterPrograms
               ELSE Then([i \in DOMAIN pending |-> Look(pending[i], env, FALSE, TRUE, FALSE)])
    /\ UNCHANGED <<server, request, found, seen, indexed, result>>

Finish ==
    /\ Doing("finish")
    /\ agenda' = <<>> /\ result' = Returned("found")
    /\ UNCHANGED <<server, request, asked, found, attempted, seen, indexed>>

----------------------------------------------------------------------------

Init ==
    /\ server \in Servers /\ request \in Requests
    /\ asked = {} /\ attempted = {} /\ indexed = None /\ result = None
    /\ found = [label \in Programs |-> <<>>]
    /\ seen = [label \in Programs |-> [envs |-> {}, probes |-> 0]]
    /\ agenda = <<Task("path", "fhi"), Task("path", "ait"), Task("index", None),
                  Task("support", "fhi"), Task("support", "ait"), Task("reuse", None),
                  Task("programs", None),
                  Task("support", "fhi"), Task("support", "ait"), Task("reuse", None), Task("finish", None)>>

Next ==
    \/ InEnvironment
    \/ SkipEnvironment
    \/ PathFamily
    \/ AddPath
    \/ LookOnPath
    \/ QueryIndex
    \/ LookAtIndexed
    \/ LookAgain
    \/ CompleteKnown
    \/ NextBase
    \/ NextDepth
    \/ ListFamily
    \/ TryModule
    \/ NextFamily
    \/ ReuseEnvironment
    \/ StartPrograms
    \/ ListPrograms
    \/ Finish
    \/ LimitReached
    \/ Breaks

----------------------------------------------------------------------------
(* Properties.                                                              *)

\* What the user has entered is never left: a program is only looked for in the
\* environment and below the location given for it, by none of the five stages.
SearchKeepsToRequest ==
    \A label \in Programs : \A i \in DOMAIN found[label] :
        /\ request[label].env # Auto => found[label][i].env = request[label].env
        /\ request[label].location => server.located[label]

\* What the module system can complete is completed, although one module is tried at a
\* time and kept only if it closes more of the gap: of an executable that was found,
\* all libraries are located in one of the environments returned.
SearchIsThorough ==
    result # None /\ result.kind = "found" =>
        \A label \in Programs :
            /\ request[label].env = Auto /\ found[label] # <<>> /\ server.readable
            /\ \A library \in server.needs[label] :
                  \E m \in DOMAIN server.gives : server.family[m] = library /\ library \in server.gives[m]
            => \E i \in DOMAIN result.candidates[label] : result.candidates[label][i].missing = {}

\* Whether the search ends or is stopped, nothing better than what it returns was found.
BestIsReturned ==
    result # None /\ result.kind # "error" =>
        \A label \in Programs : \A i \in DOMAIN found[label] :
            \E k \in DOMAIN result.candidates[label] :
                ~Less(Gap(label, found[label][i]), Gap(label, result.candidates[label][k]))
=============================================================================

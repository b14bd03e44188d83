-------------------------------- MODULE MCParts --------------------------------
(***************************************************************************)
(* The parts that are checked by themselves, one area per behaviour: clients *)
(* of the manifest repository, a search for the programs, a verification of  *)
(* scheduler and ORCA, what is learned of jobs while they go on, a junction   *)
(* that is recognised and built, the electrodes on it until AITRANSS is given *)
(* their interface, and the forms that collect the settings of a job.        *)
(***************************************************************************)
EXTENDS ManifestClients, SequencesExt

CONSTANTS None, d1, d2, site, Etc

\* Servers to search: modules blas and omp look like they provide mkl, only blas does;
\* ompi brings the MPI library and mpirun; program is a module for FHI-aims.
Family == [blas |-> "mkl", omp |-> "mkl", ompi |-> "mpi", program |-> "none"]
Gives == [blas |-> {"mkl"}, omp |-> {}, ompi |-> {"mpi", "mpirun"}, program |-> {}]
Places ==
    {[fhi |-> p, ait |-> q] : p \in {"path", "wrapper", "program", "versioned", "nowhere"}, q \in {"path", "sibling"}}
        \cup {[fhi |-> "path", ait |-> q] : q \in {"program", "advertised", "versioned", "index", "nowhere"}}
        \cup {[fhi |-> p, ait |-> "program"] : p \in {"index", "advertised"}}
Computer(place, needs, species, gives, current) ==
    [place |-> place, needs |-> [fhi |-> needs, ait |-> {"mkl"}], species |-> species, readable |-> TRUE,
     launchers |-> {}, family |-> Family, gives |-> gives, current |-> current, lists |-> {"avail"},
     located |-> [fhi |-> TRUE, ait |-> FALSE]]
Computers ==
    {Computer(place, needs, species, gives, current) :
        place \in Places, needs \in {{}, {"mkl"}, {"mkl", "mpi"}}, species \in {1, 2},
        gives \in {Gives, [Gives EXCEPT !["program"] = {"mpi"}]}, current \in {{}, {"omp"}}}
Servers ==
    Computers \cup {[s EXCEPT !.launchers = {"srun"}, !.readable = FALSE] : s \in {t \in Computers : t.current = {}}}

Asks(env, location) == [env |-> env, location |-> location]
Requests ==
    {[fhi |-> f, ait |-> a] :
        f \in {Asks({"auto"}, FALSE), Asks({"blas", "ompi"}, FALSE), Asks({"auto"}, TRUE)},
        a \in {Asks({"auto"}, FALSE), Asks({"script"}, TRUE)}}
Families == <<"mkl", "mpi">>

\* The limits of the code.
MaxCommands == 128
Reserve == 16
MaxDepth == 4
MaxFrontier == 6
MaxProbes == 20
MaxPrograms == 12

VARIABLES server, request, asked, found, attempted, seen, indexed, agenda, result
Search == INSTANCE RuntimeSearch
ASSUME LimitsAssumption == Search!SearchAssumption

----------------------------------------------------------------------------
\* Servers to verify: a Slurm that is complete, one without its queries; an LSF that is
\* used with what it advertises, one with the usual places; ORCA in a module.
Visible(current, login) ==
    [current |-> [slurm |-> current[1], lsf |-> current[2]], login |-> [slurm |-> login[1], lsf |-> login[2]]]
Slurm(first, second) == d1 :> first @@ d2 :> second
Plain ==
    [slurm |-> Slurm("complete", "none"), lsf |-> {}, bundles |-> {},
     visible |-> Visible(<<d1, None>>, <<d1, None>>), advertised |-> None,
     canonical |-> {"orca"}, exposes |-> [login |-> "orca", module |-> None], version |-> "6", listed |-> {"module"}]
SlurmWorlds ==
    {[Plain EXCEPT !.slurm = s, !.visible = v] :
        s \in {Slurm("complete", "none"), Slurm("submit", "complete"), Slurm("none", "complete")},
        v \in {Visible(<<d1, None>>, <<d2, None>>), Visible(<<None, None>>, <<d1, None>>)}}
LsfWorlds ==
    {[Plain EXCEPT !.slurm = Slurm("none", "complete"), !.visible = v, !.lsf = {d1}, !.bundles = b, !.advertised = a] :
        v \in {Visible(<<None, d1>>, <<d2, d1>>), Visible(<<d2, None>>, <<d2, d1>>)},
        b \in {{[env |-> site, home |-> d2]}, {[env |-> Etc, home |-> d1]}, {}},
        a \in {None, [dir |-> d1, env |-> site, home |-> d2]}}
OrcaWorlds ==
    {[Plain EXCEPT !.exposes = e, !.version = w, !.canonical = c] :
        e \in {[login |-> None, module |-> "orca"], [login |-> "old", module |-> "orca"]},
        w \in {"6", "4", None}, c \in {{"old", "orca"}}}
Worlds == SlurmWorlds \cup LsfWorlds \cup OrcaWorlds
Dirs == {d1, d2}
Envs == {"login", "module"}
Login == "login"
Reviewed == {"6"}
MaxChanges == 1

VARIABLES world, preset, orca, job, outcome, age
Verification == INSTANCE Preflight
ASSUME ServersAssumption == Verification!PreflightAssumption

----------------------------------------------------------------------------
VARIABLES system, jobs, books, query, answer, lately, changes
Status == INSTANCE JobStatus WITH Ids <- {1, 2}, MaxChanges <- 4, MaxQueries <- 2, seen <- lately
ASSUME JobsAssumption == Status!StatusAssumption

----------------------------------------------------------------------------
\* Molecules: two end groups, joined by one carbon.
Ends ==
    [ncs |-> [el |-> <<"N", "C", "S">>, bonds |-> {{1, 2}, {2, 3}}],
     nh2 |-> [el |-> <<"N", "H", "H">>, bonds |-> {{1, 2}, {1, 3}}],
     sh |-> [el |-> <<"S", "H">>, bonds |-> {{1, 2}}],
     sme |-> [el |-> <<"S", "C", "H", "H", "H">>, bonds |-> {{1, 2}, {2, 3}, {2, 4}, {2, 5}}],
     alkynyl |-> [el |-> <<"C", "C", "H">>, bonds |-> {{1, 2}, {2, 3}}],
     cyano |-> [el |-> <<"C", "N">>, bonds |-> {{1, 2}}],
     pyridine |-> [el |-> <<"C", "C", "C", "N", "C", "C">>,
                   bonds |-> {{1, 2}, {2, 3}, {3, 4}, {4, 5}, {5, 6}, {1, 6}}],
     dicyano |-> [el |-> <<"C", "C", "N", "C", "N">>, bonds |-> {{1, 2}, {2, 3}, {1, 4}, {4, 5}}]]
Shifted(bonds, n) == {{i + n : i \in b} : b \in bonds}
Joined(left, right) ==
    LET n == Len(left.el) IN
    [el |-> left.el \o <<"C">> \o right.el,
     bonds |-> left.bonds \cup {{1, n + 1}, {n + 1, n + 2}} \cup Shifted(right.bonds, n + 1)]

\* Some of them, and what an edit of one element or one bond makes of these.
Whole == {Joined(Ends[p], Ends["sh"]) : p \in DOMAIN Ends} \cup {Joined(Ends["dicyano"], Ends["ncs"])}
Swapped(s) == {[s EXCEPT !.el[i] = e] : i \in DOMAIN s.el, e \in {"S", "N", "C", "H", "Au"}}
Rebonded(s) == {[s EXCEPT !.bonds = (@ \ {{i, j}}) \cup ({{i, j}} \ @)] : i \in DOMAIN s.el, j \in DOMAIN s.el}
Near(s, part) == part \cup UNION {b \in s.bonds : b \cap part # {}}
RECURSIVE Reached(_, _)
Reached(s, part) == IF Near(s, part) = part THEN part ELSE Reached(s, Near(s, part))
Proper(s) == (\A b \in s.bonds : Cardinality(b) = 2) /\ Reached(s, {1}) = DOMAIN s.el
Molecules == {s \in Whole \cup UNION {Swapped(t) \cup Rebonded(t) : t \in Whole} : Proper(s)}

VARIABLES mol, placed
Joint == INSTANCE Junction WITH Structures <- Molecules

----------------------------------------------------------------------------
\* Electrodes of two layers that are extended, and of four that have a third plane; two
\* sites of one side are too near two of the other before or after a turn.
Open == {<<1, -1, 0>>, <<1, 0, -1>>, <<2, -1, -1>>, <<1, 1, -1>>}
Walls == {[side |-> side, key |-> key] : side \in {"LEFT", "RIGHT"}, key \in ((-2..3) \X (-2..3) \X (-2..3)) \ Open}
Opposite(p, q) == {[side |-> "LEFT", key |-> p], [side |-> "RIGHT", key |-> q]}
Crowd(clash) == [clash |-> clash, walls |-> Walls]
Straight == Crowd({Opposite(<<1, -1, 0>>, <<1, -1, 0>>), Opposite(<<1, 0, 0>>, <<0, 1, 0>>)})
Turned == Crowd({Opposite(<<1, 1, -1>>, <<1, 0, 0>>), Opposite(<<1, 0, -1>>, <<1, 1, -1>>)})
Between(left, right, layers) ==
    [elements |-> <<"S", "Au", "Au">>, contact |-> [LEFT |-> left, RIGHT |-> right], layers |-> layers, crowd |-> Straight]
Bounds(added, entries) == [added |-> added, entries |-> entries]

VARIABLES placement, applied, atoms, crowd, step3, step4Form, step4, plan, step4Edits
Electrode == INSTANCE Electrodes WITH
    Placements <- {Between(3, 2, 2), Between(2, 3, 4)}, Crowds <- {Straight, Turned},
    Room <- 2 :> Bounds(2, {}) @@ 4 :> Bounds(0, {1, 5, 20}), MaxEdits <- 2,
    form <- step4Form, edits <- step4Edits

----------------------------------------------------------------------------
\* Optimized molecules: one bond is missed with a small bond threshold.
Optimized(left, right, missed, balanced, basis, p) ==
    LET s == Joined(Ends[left], Ends[right]) IN
    [el |-> s.el, bonds |-> [usual |-> s.bonds, short |-> s.bonds \ {missed}], balanced |-> balanced,
     basis |-> basis, shells |-> [i \in DOMAIN s.el |-> [s |-> 2, p |-> p]]]
WblWorlds ==
    {Optimized("sh", "nh2", {1, 2}, {}, "def2", 2), Optimized("ncs", "nh2", {2, 3}, {5}, "def2", 2),
     Optimized("sh", "sme", {4, 5}, {}, "composite", 2)}
Windows == {[min |-> 0, max |-> 4, step |-> 2], [min |-> 0, max |-> 3, step |-> 2]}
UsualWindow == [min |-> 0, max |-> 4, step |-> 2]

VARIABLES optimized, factor, wblForm, phase, previous, wblSettings, calculated, wblEdits
Wbl == INSTANCE WblForm WITH
    Worlds <- WblWorlds, Defaults <- UsualWindow, Zeta <- 2, MaxPoints <- 3, MaxEdits <- 2,
    world <- optimized, form <- wblForm, accepted <- wblSettings, outcome <- calculated, edits <- wblEdits

----------------------------------------------------------------------------
\* Species definitions: with their accuracy above the declaration, with an empty line at the
\* end or above, and without the lighter definition of hydrogen.
Accuracies == {"light", "tight", "really_tight"}
Text == [kind |-> "text", element |-> None, accuracy |-> None]
Empty == [Text EXCEPT !.kind = "blank"]
Declares(kind, element) == [Text EXCEPT !.kind = kind, !.element = element]
Suggests(accuracy) == [Text EXCEPT !.kind = "hint", !.accuracy = accuracy]
Definition(lead, element, trail) == lead \o <<Text, Declares("species", element), Declares("nucleus", element), Text>> \o trail
Libraries ==
    {[key \in {"C", "H"} \X Accuracies |-> Definition(<<Suggests(key[2])>>, key[1], <<>>)],
     [key \in {"C", "H"} \X Accuracies |-> Definition(<<>>, key[1], <<Empty>>)],
     [key \in ({"C", "H"} \X Accuracies) \ {<<"H", "light">>} |-> Definition(<<Text, Suggests(key[2]), Empty>>, key[1], <<>>)],
     [key \in {"C", "H"} \X Accuracies |->
         <<Text, Suggests(key[2]), Empty, Declares("species", key[1]), Declares("nucleus", key[1]), Text>>]}
NoSpin == [enabled |-> FALSE, mode |-> None, uniform |-> None, fixed |-> None]
Step(kind, relativity, frontier, dipole) ==
    [kind |-> kind, xc |-> "pbe", accuracy |-> "tight", numbers |-> 1, charge |-> 0, spin |-> NoSpin,
     cubes |-> [frontier |-> frontier, states |-> {}, spacing |-> None], relativity |-> relativity, vdw |-> "none",
     dipole |-> dipole, atoms |-> <<>>]
Optimization == Step("optimization", "zora", {"homo"}, TRUE)
Starts ==
    {Optimization, Step("convergence", None, {}, FALSE),
     [Optimization EXCEPT !.spin = [enabled |-> TRUE, mode |-> "per_atom", uniform |-> None, fixed |-> 1],
         !.atoms = 2 :> [accuracy |-> "light", moment |-> 1, charge |-> None]]}

VARIABLES molecule, library, historical, jobForm, jobSettings, submitted, draft, jobEdits
Aims == INSTANCE JobForms WITH
    Structures <- {<<"C", "H">>, <<"H", "C", "C">>}, MaxEdits <- 2,
    form <- jobForm, accepted <- jobSettings, edits <- jobEdits

----------------------------------------------------------------------------
\* ORCA: molecules with an even and an odd number of electrons; another ORCA may be verified.
Computing(family, procs, minutes, mail) ==
    [family |-> family, nodes |-> 1, procs |-> procs, minutes |-> minutes, memory |-> 2, mail |-> mail]
OrcaMolecules == {[electrons |-> 10, covered |-> TRUE], [electrons |-> 11, covered |-> FALSE]}
OrcaServers == {Computing("5.0", 8, 61, TRUE), Computing("6.1", 8, 61, TRUE), Computing(None, 1, 60, FALSE)}

VARIABLES profile, structure, project, orcaForm, confirm, sent, orcaEdits
OrcaJobs == INSTANCE OrcaForms WITH
    Structures <- OrcaMolecules, Profiles <- OrcaServers, MaxEdits <- 4, form <- orcaForm, edits <- orcaEdits
ASSUME OrcaAssumption == OrcaJobs!FormsAssumption

----------------------------------------------------------------------------
VARIABLE area

store == <<manifest, pc, view, cand>>
search == <<server, request, asked, found, attempted, seen, indexed, agenda, result>>
preflight == <<world, preset, orca, job, outcome, age>>
status == <<system, jobs, books, query, answer, lately, changes>>
junction == <<mol, placed>>
electrodes == <<placement, applied, atoms, crowd, step3, step4Form, step4, plan, step4Edits>>
wbl == <<optimized, factor, wblForm, phase, previous, wblSettings, calculated, wblEdits>>
aims == <<molecule, library, historical, jobForm, jobSettings, submitted, draft, jobEdits>>
orcaJobs == <<profile, structure, project, orcaForm, confirm, sent, orcaEdits>>

StoreIsIdle ==
    /\ manifest = [rev |-> 1, steps |-> CHOOSE content \in Contents : TRUE]
    /\ pc = [c \in Clients |-> "idle"]
    /\ view = [c \in Clients |-> manifest] /\ cand = [c \in Clients |-> manifest.steps]
NoSearch ==
    /\ server = None /\ request = None /\ asked = None /\ found = None /\ attempted = None
    /\ seen = None /\ indexed = None /\ agenda = None /\ result = None
NoPreflight ==
    /\ world = None /\ preset = None /\ orca = None /\ job = None /\ outcome = None /\ age = None

NoStatus ==
    /\ system = None /\ jobs = None /\ books = None /\ query = None
    /\ answer = None /\ lately = None /\ changes = None
NoJunction == mol = None /\ placed = None
NoElectrodes ==
    /\ placement = None /\ applied = None /\ atoms = None /\ crowd = None /\ step3 = None
    /\ step4Form = None /\ step4 = None /\ plan = None /\ step4Edits = None
NoWbl ==
    /\ optimized = None /\ factor = None /\ wblForm = None /\ phase = None
    /\ previous = None /\ wblSettings = None /\ calculated = None /\ wblEdits = None
NoAims ==
    /\ molecule = None /\ library = None /\ historical = None /\ jobForm = None
    /\ jobSettings = None /\ submitted = None /\ draft = None /\ jobEdits = None
NoOrca ==
    /\ profile = None /\ structure = None /\ project = None /\ orcaForm = None
    /\ confirm = None /\ sent = None /\ orcaEdits = None
NoForm == NoWbl /\ NoAims /\ NoOrca
NoBuilding == NoJunction /\ NoElectrodes

PartsInit ==
    \/ area = "manifest" /\ Init /\ NoSearch /\ NoPreflight /\ NoStatus /\ NoBuilding /\ NoForm
    \/ area = "search" /\ Search!Init /\ StoreIsIdle /\ NoPreflight /\ NoStatus /\ NoBuilding /\ NoForm
    \/ area = "preflight" /\ Verification!Init /\ StoreIsIdle /\ NoSearch /\ NoStatus /\ NoBuilding /\ NoForm
    \/ area = "status" /\ Status!Init /\ StoreIsIdle /\ NoSearch /\ NoPreflight /\ NoBuilding /\ NoForm
    \/ area = "junction" /\ Joint!Init /\ NoElectrodes /\ StoreIsIdle /\ NoSearch /\ NoPreflight /\ NoStatus /\ NoForm
    \/ area = "electrodes" /\ Electrode!Init /\ NoJunction /\ StoreIsIdle /\ NoSearch /\ NoPreflight /\ NoStatus /\ NoForm
    \/ area = "wbl" /\ Wbl!Init /\ StoreIsIdle /\ NoSearch /\ NoPreflight /\ NoStatus /\ NoBuilding /\ NoAims /\ NoOrca
    \/ area = "aims" /\ Aims!Init /\ StoreIsIdle /\ NoSearch /\ NoPreflight /\ NoStatus /\ NoBuilding /\ NoWbl /\ NoOrca
    \/ area = "orca" /\ OrcaJobs!Init /\ StoreIsIdle /\ NoSearch /\ NoPreflight /\ NoStatus /\ NoBuilding /\ NoWbl /\ NoAims

PartsNext ==
    \/ area = "manifest" /\ SerialNext /\ UNCHANGED <<area, search, preflight, status, junction, electrodes, wbl, aims, orcaJobs>>
    \/ area = "search" /\ Search!Next /\ UNCHANGED <<area, store, preflight, status, junction, electrodes, wbl, aims, orcaJobs>>
    \/ area = "preflight" /\ Verification!Next /\ UNCHANGED <<area, store, search, status, junction, electrodes, wbl, aims, orcaJobs>>
    \/ area = "status" /\ Status!Next /\ UNCHANGED <<area, store, search, preflight, junction, electrodes, wbl, aims, orcaJobs>>
    \/ area = "junction" /\ Joint!Next /\ UNCHANGED <<area, store, search, preflight, status, electrodes, wbl, aims, orcaJobs>>
    \/ area = "electrodes" /\ Electrode!Next /\ UNCHANGED <<area, store, search, preflight, status, junction, wbl, aims, orcaJobs>>
    \/ area = "wbl" /\ Wbl!Next /\ UNCHANGED <<area, store, search, preflight, status, junction, electrodes, aims, orcaJobs>>
    \/ area = "aims" /\ Aims!Next /\ UNCHANGED <<area, store, search, preflight, status, junction, electrodes, wbl, orcaJobs>>
    \/ area = "orca" /\ OrcaJobs!Next /\ UNCHANGED <<area, store, search, preflight, status, junction, electrodes, wbl, aims>>

PartsSpec == PartsInit /\ [][PartsNext]_<<area, store, search, preflight, status, junction, electrodes, wbl, aims, orcaJobs>>

----------------------------------------------------------------------------
\* What a search returns: never beyond what the user has entered, nothing better was
\* found, and what the module system can complete is completed.
SearchIsExact ==
    area = "search" =>
        Search!SearchKeepsToRequest /\ Search!BestIsReturned /\ Search!SearchIsThorough

\* A submission goes to the scheduler that was declared, and that works; what was
\* verified is accepted, what is stale is found again; and a job is reported to be, or to
\* have ended, as it is or has been.
ClusterIsReadRight ==
    /\ area = "preflight" =>
        /\ Verification!SubmitsAsDeclared
        /\ Verification!VerifiedIsAccepted /\ Verification!Rediscovered
    /\ area = "status" => Status!AnswerIsReal /\ Status!SettledIsExact

\* The groups that bind gold are recognised as what they are, before and after gold is
\* placed on them, and the step a project may start with follows from this; the electrodes
\* are found again in the submitted geometry and give the interface of their own side.
JunctionIsRecognised ==
    /\ area = "junction" =>
        /\ Joint!AnchorsAreSound /\ Joint!ContactsAreRecognised
        /\ Joint!JointIsSequential /\ Joint!StartIsAdvised
    /\ area = "electrodes" =>
        Electrode!ElectrodesAreRecovered /\ Electrode!InterfaceIsOwn /\ Electrode!FormIsTrue

\* What a form confirms is what was shown, can be calculated, and comes back when the job
\* is restarted, resubmitted or calculated again.
FormsAreExact ==
    /\ area = "wbl" => Wbl!AcceptedIsResolved /\ Wbl!SameMeansEqual /\ Wbl!ResubmissionRepeats
    /\ area = "aims" => Aims!RestartIsExact /\ Aims!RestartIsPossible /\ Aims!DraftIsConfirmed
    /\ area = "orca" =>
        /\ OrcaJobs!SubmittedIsPreviewed /\ OrcaJobs!ResubmissionRepeats
        /\ OrcaJobs!ConfirmedIsAccepted /\ OrcaJobs!ScienceIsRead
=============================================================================

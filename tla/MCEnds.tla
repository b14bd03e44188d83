-------------------------------- MODULE MCEnds --------------------------------
(***************************************************************************)
(* A small instance for TLC of what must happen eventually, in two parts   *)
(* of the system that share no state here: one client that submits the     *)
(* steps of a project, and one Projects window.  The initial state chooses *)
(* the part; the variables of the other keep an initial state of theirs,   *)
(* and the fairness of each part is that of its module.                    *)
(***************************************************************************)
EXTENDS StepSubmission

CONSTANTS Projects, Sessions, NoSession, LastRev, LastTry

VARIABLES part, remote, over, index, shown, tabs, window, threads, submission, deletion

desktop == <<remote, over, index, shown, tabs, window, threads, submission, deletion>>
everything == <<part, vars, desktop>>

Desktop == INSTANCE ProjectsDesktop WITH jobs <- over, MaxRev <- LastRev, MaxTries <- LastTry

ASSUME DesktopAssumption ==
    /\ Projects \subseteq Nat \ {0} /\ NoSession \notin Sessions /\ LastRev \in Nat \ {0}
    /\ LastTry \in Nat

EndsInit == part \in {"steps", "desktop"} /\ Init /\ Desktop!Init

EndsNext ==
    \/ part = "steps" /\ Next /\ UNCHANGED <<part, desktop>>
    \/ part = "desktop" /\ Desktop!Next /\ UNCHANGED <<part, vars>>

InSteps(action) == part = "steps" /\ action /\ UNCHANGED <<part, desktop>>
InDesktop(action) == part = "desktop" /\ action /\ UNCHANGED <<part, vars>>

\* See Fairness of StepSubmission and of ProjectsDesktop.
EndsFairness ==
    /\ \A c \in Clients :
        /\ SF_everything(InSteps(BeginRefresh(c)))
        /\ WF_everything(InSteps(Create(c) \/ Submit(c) \/ Query(c) \/ Assess(c) \/ Record(c)))
        /\ WF_everything(InSteps(ClaimDirectory(c) \/ ClaimConflict(c)))
        /\ SF_everything(InSteps(QueryAnswered(c)))
    /\ \A s \in Sessions : WF_everything(InDesktop(Desktop!Timeout(s)))

EndsSpec == EndsInit /\ [][EndsNext]_everything /\ EndsFairness

\* A refresh of the Projects window ends: its session's timeout ends it even when the
\* connection of its thread never answers (gui/status_refresh.py).
RefreshEnds == Desktop!RefreshEnds
=============================================================================

---------------------------- MODULE ProjectTypes ----------------------------
(***************************************************************************)
(* The persistent workflow record of one FHI-aims/AITRANSS project, as     *)
(* domain/calculation_project.py defines it: four ordered steps, the state *)
(* of each, and the scheduler job the current attempt of a step owns.      *)
(* Timestamps, hashes, file names and messages are left out; of the error  *)
(* text only its origin is kept, because refresh compares whole records to *)
(* decide whether anything has to be written.                              *)
(***************************************************************************)
EXTENDS Naturals

CONSTANTS
    Jobs,    \* the identifiers the scheduler may hand out, in this order
    NoJob    \* job_id = None

ASSUME JobsAssumption == Jobs \subseteq Nat /\ NoJob \notin Jobs

\* ProjectStepKind of the FHI workflow: 1 MOLECULE_OPT, 2 MOLECULE_AU_OPT,
\* 3 TRANSPORT_CONVERGENCE, 4 TRANSMISSION.
Steps == 1..4

\* A new project may start at Step 1, 2 or 3.
StartingSteps == 1..3

StepStates == {"NOT_STARTED", "SKIPPED", "QUEUED", "RUNNING",
               "SCHEDULER_COMPLETED", "SUCCEEDED", "FAILED", "UNKNOWN"}

\* Where the last_error of a step comes from.
Errors == {"none", "submission", "scheduler", "science"}

StepRecord == [state : StepStates, job : Jobs \cup {NoJob}, err : Errors]

Workflows == [Steps -> StepRecord]

\* initial_step_records: everything before the starting step is SKIPPED.
InitialSteps(start) ==
    [s \in Steps |->
        [state |-> IF s < start THEN "SKIPPED" ELSE "NOT_STARTED",
         job   |-> NoJob,
         err   |-> "none"]]

\* The steps some operation has already written a state for.
Reached(steps) == {s \in Steps : steps[s].state \notin {"NOT_STARTED", "SKIPPED"}}

\* _active_step_kind: the last reached step, or the starting step of a project
\* recovered between its first manifest and its first submission update.
ActiveStep(steps, start) ==
    IF Reached(steps) = {}
    THEN start
    ELSE CHOOSE s \in Reached(steps) : \A t \in Reached(steps) : t <= s

\* _with_step and _persist_step: replace exactly one step of the record.
WithStep(steps, s, state, job, err) ==
    [steps EXCEPT ![s] = [state |-> state, job |-> job, err |-> err]]
=============================================================================

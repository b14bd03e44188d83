--------------------------- MODULE MCStepSubmission ---------------------------
(***************************************************************************)
(* Small instances of StepSubmission for TLC.                              *)
(***************************************************************************)
EXTENDS StepSubmission, TLC

\* Clients are interchangeable: no definition names one of them.
Symmetry == Permutations(Clients)

\* Whether two clients have ever been between the revision check and the rename
\* of persist_update at once (see ManifestStore): the code does nothing to
\* prevent it, and the record is durable only while it has not happened.
VARIABLE overlapped

RaceInit == Init /\ overlapped = FALSE
RaceNext == Next /\ overlapped' = (overlapped \/ ~Store!Serialized')
RaceSpec == RaceInit /\ [][RaceNext]_<<vars, overlapped>>

\* The locals of an operation end with it: no action reads view or step of an
\* idle client, or cand before the operation has set it.  States that differ
\* only there are one state.
LiveState ==
    <<manifest, pc, seen, dirs, jobs, overlapped,
      [c \in Clients |-> IF pc[c] = "idle" THEN NoProject ELSE view[c]],
      [c \in Clients |-> IF pc[c] \in {"persist", "rename"} THEN cand[c] ELSE NoProject.steps],
      [c \in Clients |-> IF pc[c] = "idle" THEN StartStep ELSE step[c]]>>

\* As long as no two write windows have overlapped, what has been recorded stays
\* recorded, whichever client writes next: a success is final, a job keeps its
\* place in the manifest, and (project_recovery.py:870) "scheduler completion is
\* durable evidence.  A later refresh may finish scientific assessment, but must
\* never regress to RUNNING."
RecordIsDurable ==
    [][~overlapped' => \A s \in Steps : LET old == manifest.steps[s]
                                            new == manifest'.steps[s] IN
         /\ old.state = "SUCCEEDED" => new = old
         /\ old.state = "SCHEDULER_COMPLETED" =>
                new.state \in {"SCHEDULER_COMPLETED", "SUCCEEDED", "FAILED"}
         /\ old.job # NoJob => new.job = old.job]_vars
=============================================================================

------------------------------- MODULE JobStatus -------------------------------
(***************************************************************************)
(* What the program learns of its jobs: remote/slurm_status.py asks the queue  *)
(* and then the accounting, or bjobs and then bhist, while the jobs go on, and *)
(* remote/slurm_cancel.py asks for the end of a job.                           *)
(*                                                                           *)
(* A refresh of all projects reads a Slurm queue once and asks the accounting  *)
(* for each job that is not in it.  A job that is put back is pending again;   *)
(* how its earlier attempts ended stays in the accounting until that catches   *)
(* up, and in the event log of LSF until the log is rotated.                   *)
(***************************************************************************)
EXTENDS Naturals, FiniteSets, SequencesExt

CONSTANTS
    Ids,         \* jobs of the user
    MaxChanges,  \* bound on what happens in the cluster
    MaxQueries,  \* bound on the operations of the program
    None

Alive == {"PENDING", "RUNNING", "COMPLETING", "SUSPENDED"}
Failures == {"TIMEOUT", "OUT_OF_MEMORY", "CANCELLED", "FAILED"}
Ends == {"COMPLETED"} \cup Failures

Kinds == {"QUEUED", "RUNNING", "COMPLETED", "FAILED", "UNRESOLVED", "ACCOUNTING_PENDING"}
\* Nothing is not one of the things it is told apart from.
StatusAssumption ==
    /\ None \notin Ids /\ None \notin Alive \cup Ends
    /\ None \notin [id : Ids, kind : Kinds, state : Alive \cup Ends \cup {"EXIT", None}]

VARIABLES
    system,   \* "slurm" or "lsf"
    jobs,     \* for each job: its state, how earlier attempts ended, whether it is listed
    books,    \* for each job: what sacct has of it, or what bhist has of its ends
    query,    \* the operation: the queue it has read, and the job it asks about
    answer,   \* the latest answer, and what was asked for: [id, kind, state], or None
    seen,     \* for each job: its states since the operation began, and whether it stood still
    changes   \* what has happened, and how many operations there were

status == <<system, jobs, books, query, answer, seen, changes>>

Idle == [on |-> FALSE, queue |-> None, id |-> None, current |-> None]
Answered(id, kind, state) == [id |-> id, kind |-> kind, state |-> state]

Init ==
    /\ system \in {"slurm", "lsf"}
    /\ jobs = [id \in Ids |-> [state |-> "PENDING", earlier |-> {}, listed |-> TRUE]]
    /\ books = [id \in Ids |-> IF system = "slurm" THEN None ELSE <<>>]
    /\ query = Idle /\ answer = None
    /\ seen = [id \in Ids |-> [states |-> {"PENDING"}, still |-> TRUE]]
    /\ changes = [cluster |-> 0, queries |-> 0]

----------------------------------------------------------------------------
(* The cluster. *)

Happens(id, job) ==
    /\ changes.cluster < MaxChanges /\ changes' = [changes EXCEPT !.cluster = @ + 1]
    /\ jobs' = [jobs EXCEPT ![id] = job]
    /\ seen' = [seen EXCEPT ![id].states = @ \cup {job.state}, ![id].still = FALSE]
    /\ UNCHANGED <<system, query, answer>>

Starts(id) ==
    /\ jobs[id].state \in {"PENDING", "SUSPENDED"}
    /\ Happens(id, [jobs[id] EXCEPT !.state = "RUNNING"]) /\ UNCHANGED books
Suspended(id) ==
    /\ jobs[id].state = "RUNNING"
    /\ Happens(id, [jobs[id] EXCEPT !.state = "SUSPENDED"]) /\ UNCHANGED books
Completing(id) ==
    /\ system = "slurm" /\ jobs[id].state = "RUNNING"
    /\ Happens(id, [jobs[id] EXCEPT !.state = "COMPLETING"]) /\ UNCHANGED books

\* An end leaves the queue of Slurm; bjobs keeps it. The log of LSF gets it at once.
Ended(id, end) ==
    /\ Happens(id, [jobs[id] EXCEPT !.state = end, !.listed = system = "lsf"])
    /\ books' = IF system = "lsf" THEN [books EXCEPT ![id] = Append(@, end)] ELSE books
JobEnds(id) ==
    \E end \in IF jobs[id].state \in {"RUNNING", "COMPLETING"} THEN Ends ELSE {"CANCELLED"} :
        jobs[id].state \in Alive /\ Ended(id, end)

\* A node fails, or somebody puts the job back.
Requeued(id) ==
    /\ jobs[id].state = "RUNNING" \/ (jobs[id].state \in Ends /\ jobs[id].listed)
    /\ LET end == IF jobs[id].state = "RUNNING" THEN "FAILED" ELSE jobs[id].state IN
       Happens(id, [jobs[id] EXCEPT !.state = "PENDING", !.earlier = @ \cup {end}])
    /\ books' = IF system = "lsf" /\ jobs[id].state = "RUNNING" THEN [books EXCEPT ![id] = Append(@, "FAILED")] ELSE books

\* The accounting notes the state of a job, or of the attempt that was put back.
Noted(id) ==
    /\ system = "slurm" /\ \E state \in {jobs[id].state} \cup jobs[id].earlier :
           books[id] # state /\ books' = [books EXCEPT ![id] = state]
    /\ Happens(id, jobs[id])
\* bjobs forgets what has ended; the oldest log is removed.
Forgotten(id) ==
    /\ system = "lsf" /\ jobs[id].state \in Ends /\ jobs[id].listed
    /\ Happens(id, [jobs[id] EXCEPT !.listed = FALSE]) /\ UNCHANGED books
Rotated(id) ==
    /\ system = "lsf" /\ books[id] # <<>>
    /\ books' = [books EXCEPT ![id] = Tail(@)] /\ Happens(id, jobs[id])

----------------------------------------------------------------------------
(* What the outputs are taken for. *)

\* parse_squeue_output: COMPLETING still runs, SUSPENDED is no state the program knows.
InQueue(state) ==
    CASE state = "PENDING" -> "QUEUED"
      [] state \in {"RUNNING", "COMPLETING"} -> "RUNNING"
      [] OTHER -> "UNRESOLVED"

\* Mutant: what the accounting has of a job that is not in the queue is taken for its end.
InAccounting_Ended(state) ==
    IF state = None THEN "ACCOUNTING_PENDING" ELSE IF state \in Failures THEN "FAILED" ELSE "COMPLETED"
\* parse_sacct_output.
InAccounting(state) ==
    CASE state = None -> "ACCOUNTING_PENDING"
      [] state = "COMPLETED" -> "COMPLETED"
      [] state \in Failures -> "FAILED"
      [] OTHER -> "UNRESOLVED"

\* parse_bjobs_output: EXIT does not say why.
InBjobs(id) ==
    LET state == jobs[id].state IN
    IF ~jobs[id].listed THEN None
    ELSE IF state \in Failures THEN Answered(id, "FAILED", "EXIT")
    ELSE IF state = "COMPLETED" THEN Answered(id, "COMPLETED", "COMPLETED")
    ELSE Answered(id, InQueue(state), state)

\* parse_bhist_output: the last end that is in the log.
InHistory(id) ==
    IF books[id] = <<>> THEN Answered(id, "ACCOUNTING_PENDING", None)
    ELSE Answered(id, IF Last(books[id]) = "COMPLETED" THEN "COMPLETED" ELSE "FAILED", Last(books[id]))

----------------------------------------------------------------------------
(* An operation. Its answers are for the job it asks about. *)

Begin ==
    /\ ~query.on /\ changes.queries < MaxQueries
    /\ query' = [Idle EXCEPT !.on = TRUE] /\ answer' = None
    /\ seen' = [id \in Ids |-> [states |-> {jobs[id].state}, still |-> TRUE]]
    /\ changes' = [changes EXCEPT !.queries = @ + 1]
    /\ UNCHANGED <<system, jobs, books>>
End ==
    /\ query.on /\ query' = Idle
    /\ UNCHANGED <<system, jobs, books, answer, seen, changes>>

Asks(id) == query.on /\ query.id = None /\ query' = [query EXCEPT !.id = id]
Answers(with) == answer' = with /\ query' = [query EXCEPT !.id = None, !.current = None]

\* make_batch_job_status_query: the queue is read for the first job, and kept.
AskSlurm(id) ==
    /\ system = "slurm" /\ Asks(id)
    /\ UNCHANGED <<system, jobs, books, answer, seen, changes>>
ReadQueue ==
    /\ system = "slurm" /\ query.id # None /\ query.queue = None
    /\ query' = [query EXCEPT !.queue = [id \in {i \in Ids : jobs[i].listed} |-> jobs[id].state]]
    /\ UNCHANGED <<system, jobs, books, answer, seen, changes>>
FindInQueue ==
    /\ system = "slurm" /\ query.id # None /\ query.queue # None /\ query.id \in DOMAIN query.queue
    /\ Answers(Answered(query.id, InQueue(query.queue[query.id]), query.queue[query.id]))
    /\ UNCHANGED <<system, jobs, books, seen, changes>>
ReadAccounting ==
    /\ system = "slurm" /\ query.id # None /\ query.queue # None /\ query.id \notin DOMAIN query.queue
    /\ Answers(Answered(query.id, InAccounting(books[query.id]), books[query.id]))
    /\ UNCHANGED <<system, jobs, books, seen, changes>>

\* query_lsf_job_status: the history only of what has failed or is not known any more.
AskLsf(id) ==
    /\ system = "lsf" /\ query.on /\ query.id = None
    /\ LET current == InBjobs(id) IN
       IF current # None /\ current.kind # "FAILED" THEN Answers(current)
       ELSE query' = [query EXCEPT !.id = id, !.current = current] /\ UNCHANGED answer
    /\ UNCHANGED <<system, jobs, books, seen, changes>>
ReadHistory ==
    /\ system = "lsf" /\ query.id # None
    /\ LET past == InHistory(query.id) IN
       Answers(IF past.kind = "ACCOUNTING_PENDING" /\ query.current # None THEN query.current ELSE past)
    /\ UNCHANGED <<system, jobs, books, seen, changes>>

\* A command that fails, or an output that is malformed, ends the operation.
QueryFails == query.id # None /\ query' = Idle /\ UNCHANGED <<system, jobs, books, answer, seen, changes>>

\* request_slurm_cancellation_once, after an answer that the job is alive: refused when it has ended.
Cancel ==
    /\ answer # None /\ answer.kind \in {"QUEUED", "RUNNING"} /\ jobs[answer.id].state \in Alive
    /\ Ended(answer.id, "CANCELLED")

Next ==
    \/ \E id \in Ids :
          \/ Starts(id) \/ Suspended(id) \/ Completing(id) \/ JobEnds(id) \/ Requeued(id)
          \/ Noted(id) \/ Forgotten(id) \/ Rotated(id) \/ AskSlurm(id) \/ AskLsf(id)
    \/ Begin \/ End \/ ReadQueue \/ FindInQueue \/ ReadAccounting \/ ReadHistory \/ QueryFails \/ Cancel

Spec == Init /\ [][Next]_status

----------------------------------------------------------------------------
\* Whatever happens between the commands of an operation, an answer names a state the job
\* has had since the operation began, or the end of an attempt that was put back: a job is
\* never reported to have ended in a way it did not.
AnswerIsReal ==
    answer # None =>
        LET states == seen[answer.id].states
            ends == (states \cup jobs[answer.id].earlier) \cap Ends IN
        CASE answer.kind = "QUEUED" -> "PENDING" \in states
          [] answer.kind = "RUNNING" -> states \cap {"RUNNING", "COMPLETING"} # {}
          [] answer.kind = "COMPLETED" -> "COMPLETED" \in ends
          [] answer.kind = "FAILED" -> IF answer.state = "EXIT" THEN ends \cap Failures # {} ELSE answer.state \in ends
          [] OTHER -> TRUE

\* A job that stands still, and that the accounting knows, is answered with what it is; only
\* a rotated log leaves the reason of a failure open.
SettledIsExact ==
    answer # None /\ seen[answer.id].still =>
        LET state == jobs[answer.id].state IN
        (IF system = "slurm" THEN books[answer.id] = state ELSE jobs[answer.id].listed \/ books[answer.id] # <<>>) =>
            CASE state = "COMPLETED" -> answer.kind = "COMPLETED"
              [] state \in Failures -> answer.kind = "FAILED" /\ answer.state \in {state, "EXIT"}
              [] OTHER -> answer.kind = InQueue(state)
=============================================================================

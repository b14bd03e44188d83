---------------------------- MODULE JobStatusProofs ----------------------------
(***************************************************************************)
(* The answers of JobStatus are true, for any number of jobs and operations   *)
(* and whatever happens in the cluster between two commands.                  *)
(*                                                                           *)
(* An answer is put together from what was read at two moments: the queue and *)
(* the accounting, or bjobs and bhist.  What was read is true of a state the  *)
(* job has had since the operation began, or of an attempt that was put back; *)
(* neither is forgotten while the answer is shown (HappensInv).  And of a job  *)
(* that stood still both moments tell the same.                              *)
(***************************************************************************)
EXTENDS JobStatus, TLAPS

JobsType ==
    /\ system \in {"slurm", "lsf"}
    /\ jobs \in [Ids -> [state : Alive \cup Ends, earlier : SUBSET Ends, listed : BOOLEAN]]
    /\ system = "slurm" => books \in [Ids -> Alive \cup Ends \cup {None}]
    /\ system = "lsf" => books \in [Ids -> Seq(Ends)]
    /\ seen \in [Ids -> [states : SUBSET (Alive \cup Ends), still : BOOLEAN]]

\* What is known of a job: the states it has had since the operation began, and
\* how attempts that were put back have ended.
Known(id) == seen[id].states \cup jobs[id].earlier

\* The books lag, but what they have as an end was one; in the log the last end
\* is that of a job that has ended.
BooksTrue(id) ==
    /\ jobs[id].state \in seen[id].states
    /\ system = "slurm" =>
         /\ books[id] \in Ends => books[id] \in {jobs[id].state} \cup jobs[id].earlier
         /\ jobs[id].listed <=> jobs[id].state \in Alive
    /\ system = "lsf" =>
         /\ \A n \in DOMAIN books[id] : books[id][n] \in {jobs[id].state} \cup jobs[id].earlier
         /\ jobs[id].state \in Ends /\ books[id] # <<>> => Last(books[id]) = jobs[id].state
         /\ ~jobs[id].listed => jobs[id].state \in Ends

\* What an operation has read, and holds while it goes on.
QueryShape ==
    /\ query = [on |-> query.on, queue |-> query.queue, id |-> query.id, current |-> query.current]
    /\ query.on \in BOOLEAN /\ (~query.on => query = Idle)
    /\ query.id # None => query.id \in Ids
    /\ query.id = None => query.current = None
QueueTrue(id) ==
    query.queue # None =>
        /\ id \in DOMAIN query.queue => query.queue[id] \in seen[id].states
        /\ seen[id].still =>
             /\ id \in DOMAIN query.queue <=> jobs[id].listed
             /\ jobs[id].listed => query.queue[id] = jobs[id].state
CurrentTrue(id) ==
    query.id = id =>
        /\ query.current # None =>
             /\ system = "lsf" /\ query.current = Answered(id, "FAILED", "EXIT")
             /\ Known(id) \cap Failures # {}
             /\ seen[id].still => jobs[id].state \in Failures
        /\ system = "lsf" /\ query.current = None /\ seen[id].still => ~jobs[id].listed

\* An answer that is true, and of a job that stands still exactly true.
Real(a) ==
    LET ends == Known(a.id) \cap Ends IN
    /\ a.kind = "QUEUED" => "PENDING" \in seen[a.id].states
    /\ a.kind = "RUNNING" => seen[a.id].states \cap {"RUNNING", "COMPLETING"} # {}
    /\ a.kind = "COMPLETED" => "COMPLETED" \in ends
    /\ a.kind = "FAILED" => IF a.state = "EXIT" THEN ends \cap Failures # {} ELSE a.state \in ends
Settled(id) ==
    seen[id].still /\ IF system = "slurm" THEN books[id] = jobs[id].state ELSE jobs[id].listed \/ books[id] # <<>>
Exact(a) ==
    Settled(a.id) =>
        LET state == jobs[a.id].state IN
        /\ state = "COMPLETED" => a.kind = "COMPLETED"
        /\ state \in Failures => a.kind = "FAILED" /\ a.state \in {state, "EXIT"}
        /\ state \in Alive => a.kind = InQueue(state)
AnswerTrue == answer # None => answer.id \in Ids /\ Real(answer) /\ Exact(answer)

Inv ==
    /\ JobsType /\ QueryShape /\ AnswerTrue
    /\ \A id \in Ids : BooksTrue(id) /\ QueueTrue(id) /\ CurrentTrue(id)

----------------------------------------------------------------------------
(* What the outputs are taken for.                                          *)

\* The log of a job, with one more end or without its oldest part.
LEMMA LogFacts ==
    ASSUME NEW log \in Seq(Ends), NEW end \in Ends
    PROVE  /\ Append(log, end) \in Seq(Ends) /\ Append(log, end) # <<>> /\ Last(Append(log, end)) = end
           /\ \A n \in DOMAIN Append(log, end) : Append(log, end)[n] = end \/ \E m \in DOMAIN log : Append(log, end)[n] = log[m]
           /\ log # <<>> => /\ Tail(log) \in Seq(Ends)
                            /\ \A n \in DOMAIN Tail(log) : \E m \in DOMAIN log : Tail(log)[n] = log[m]
                            /\ Tail(log) # <<>> => Last(Tail(log)) = Last(log)
                            /\ \E m \in DOMAIN log : Last(log) = log[m]
<1>1. Append(log, end) \in Seq(Ends) /\ Append(log, end) # <<>> /\ Last(Append(log, end)) = end
  BY DEF Last
<1>2. ASSUME NEW n \in DOMAIN Append(log, end)
      PROVE  Append(log, end)[n] = end \/ \E m \in DOMAIN log : Append(log, end)[n] = log[m]
  BY <1>2
<1>3. ASSUME log # <<>>
      PROVE  /\ Tail(log) \in Seq(Ends) /\ Len(Tail(log)) = Len(log) - 1 /\ Len(log) \in Nat \ {0}
             /\ \A n \in DOMAIN Tail(log) : n + 1 \in DOMAIN log /\ Tail(log)[n] = log[n + 1]
  BY <1>3
<1>4. ASSUME log # <<>>, Tail(log) # <<>> PROVE Last(Tail(log)) = Last(log)
  <2>1. Len(Tail(log)) \in DOMAIN Tail(log)
    BY <1>3, <1>4
  <2> QED
    BY <1>3, <1>4, <2>1 DEF Last
<1>5. ASSUME log # <<>> PROVE \E m \in DOMAIN log : Last(log) = log[m]
  BY <1>3, <1>5 DEF Last
<1> QED
  BY <1>1, <1>2, <1>3, <1>4, <1>5

\* A state of the queue.
LEMMA InQueueFacts ==
    ASSUME NEW state \in Alive \cup Ends
    PROVE  /\ InQueue(state) \in {"QUEUED", "RUNNING", "UNRESOLVED"}
           /\ InQueue(state) = "QUEUED" => state = "PENDING"
           /\ InQueue(state) = "RUNNING" => state \in {"RUNNING", "COMPLETING"}
<1> QED
  BY DEF InQueue, Alive, Ends, Failures

\* What the accounting has.
LEMMA InAccountingFacts ==
    ASSUME StatusAssumption, NEW state \in Alive \cup Ends \cup {None}
    PROVE  /\ InAccounting(state) \in Kinds \ {"QUEUED", "RUNNING"}
           /\ InAccounting(state) = "COMPLETED" <=> state = "COMPLETED"
           /\ InAccounting(state) = "FAILED" <=> state \in Failures
<1>1. None \notin Alive \cup Ends
  BY DEF StatusAssumption
<1>2. CASE state = None
  BY <1>1, <1>2 DEF InAccounting, Kinds, Alive, Ends, Failures
<1>3. CASE state \in Ends
  BY <1>1, <1>3 DEF InAccounting, Kinds, Alive, Ends, Failures
<1>4. CASE state \in Alive
  BY <1>1, <1>4 DEF InAccounting, Kinds, Alive, Ends, Failures
<1> QED
  BY <1>2, <1>3, <1>4

\* An answer is not taken for none.
LEMMA AnswerIsNotNone ==
    ASSUME StatusAssumption, NEW id \in Ids, NEW kind \in Kinds, NEW state \in Alive \cup Ends \cup {"EXIT", None}
    PROVE  /\ Answered(id, kind, state) # None
           /\ Answered(id, kind, state).id = id /\ Answered(id, kind, state).kind = kind
           /\ Answered(id, kind, state).state = state
<1> QED
  BY DEF StatusAssumption, Answered

----------------------------------------------------------------------------
(* The cluster.                                                             *)

\* Something happens to a job.
LEMMA HappensInv ==
    ASSUME Inv, NEW id \in Ids, NEW job \in [state : Alive \cup Ends, earlier : SUBSET Ends, listed : BOOLEAN],
           Happens(id, job), jobs[id].earlier \subseteq job.earlier, JobsType', BooksTrue(id)',
           \A d \in Ids \ {id} : books'[d] = books[d]
    PROVE  Inv'
<1> USE DEF Inv
<1>1. /\ UNCHANGED <<system, query, answer>>
      /\ jobs'[id] = job /\ seen'[id].states = seen[id].states \cup {job.state} /\ ~seen'[id].still
      /\ \A d \in Ids \ {id} : jobs'[d] = jobs[d] /\ seen'[d] = seen[d] /\ books'[d] = books[d]
  BY DEF Happens, JobsType
<1>2. \A d \in Ids : seen[d].states \subseteq seen'[d].states /\ Known(d) \subseteq Known(d)'
  BY <1>1 DEF Known
<1>3. ASSUME NEW d \in Ids PROVE BooksTrue(d)'
  BY <1>1, <1>3 DEF BooksTrue
<1>4. ASSUME NEW d \in Ids PROVE QueueTrue(d)'
  <2>1. CASE d = id
    BY <1>1, <1>2, <2>1 DEF QueueTrue
  <2>2. CASE d # id
    BY <1>1, <2>2 DEF QueueTrue
  <2> QED
    BY <2>1, <2>2
<1>5. ASSUME NEW d \in Ids PROVE CurrentTrue(d)'
  <2>1. CASE d = id
    BY <1>1, <1>2, <2>1 DEF CurrentTrue
  <2>2. CASE d # id
    BY <1>1, <2>2 DEF CurrentTrue, Known
  <2> QED
    BY <2>1, <2>2
<1>6. AnswerTrue'
  <2> SUFFICES ASSUME answer # None PROVE answer.id \in Ids /\ Real(answer)' /\ Exact(answer)'
    BY <1>1 DEF AnswerTrue
  <2>1. answer.id \in Ids /\ Real(answer) /\ Exact(answer)
    BY DEF AnswerTrue
  <2>2. Real(answer)'
    BY <1>1, <1>2, <2>1 DEF Real
  <2>3. Exact(answer)'
    <3>1. CASE answer.id = id
      BY <1>1, <3>1 DEF Exact, Settled
    <3>2. CASE answer.id # id
      BY <1>1, <2>1, <3>2 DEF Exact, Settled
    <3> QED
      BY <3>1, <3>2
  <2> QED
    BY <2>1, <2>2, <2>3
<1>7. QueryShape'
  BY <1>1 DEF QueryShape
<1> QED
  BY <1>3, <1>4, <1>5, <1>6, <1>7

\* A job that is alive goes on.
LEMMA GoesOnInv ==
    ASSUME Inv, NEW id \in Ids, NEW state \in Alive, jobs[id].state \in Alive,
           Happens(id, [jobs[id] EXCEPT !.state = state]), UNCHANGED books
    PROVE  Inv'
<1> USE DEF Inv
<1> DEFINE job == [jobs[id] EXCEPT !.state = state]
<1>1. /\ job \in [state : Alive \cup Ends, earlier : SUBSET Ends, listed : BOOLEAN]
      /\ job.state = state /\ job.earlier = jobs[id].earlier /\ job.listed = jobs[id].listed
  BY DEF JobsType
<1>2. /\ UNCHANGED <<system, books>> /\ jobs' = [jobs EXCEPT ![id] = job]
      /\ seen' = [seen EXCEPT ![id].states = @ \cup {job.state}, ![id].still = FALSE]
  BY DEF Happens
<1> HIDE DEF job
<1>3. JobsType'
  BY <1>1, <1>2 DEF JobsType
<1>4. jobs'[id] = job /\ job.state \in seen'[id].states
  BY <1>1, <1>2 DEF JobsType
<1>5. BooksTrue(id)'
  <2>1. jobs[id].state \notin Ends /\ state \notin Ends
    BY DEF Alive, Ends, Failures
  <2>2. CASE system = "slurm"
    BY <1>1, <1>2, <1>4, <2>1, <2>2 DEF BooksTrue
  <2>3. CASE system = "lsf"
    <3>1. books[id] \in Seq(Ends)
      BY <2>3 DEF JobsType
    <3>2. \A n \in DOMAIN books[id] : books[id][n] \in Ends
      BY <3>1
    <3> QED
      BY <1>1, <1>2, <1>4, <2>1, <2>3, <3>2 DEF BooksTrue
  <2> QED
    BY <2>2, <2>3 DEF JobsType
<1>6. Happens(id, job)
  BY DEF job
<1> QED
  BY <1>1, <1>2, <1>3, <1>5, <1>6, HappensInv

\* A job ends.
LEMMA EndedInv ==
    ASSUME Inv, NEW id \in Ids, NEW end \in Ends, jobs[id].state \in Alive, Ended(id, end)
    PROVE  Inv'
<1> USE DEF Inv
<1> DEFINE job == [jobs[id] EXCEPT !.state = end, !.listed = system = "lsf"]
<1>1. /\ job \in [state : Alive \cup Ends, earlier : SUBSET Ends, listed : BOOLEAN]
      /\ job.state = end /\ job.earlier = jobs[id].earlier /\ job.listed = (system = "lsf")
  BY DEF JobsType
<1>2. /\ UNCHANGED system /\ jobs' = [jobs EXCEPT ![id] = job] /\ Happens(id, job)
      /\ seen' = [seen EXCEPT ![id].states = @ \cup {job.state}, ![id].still = FALSE]
      /\ books' = IF system = "lsf" THEN [books EXCEPT ![id] = Append(@, end)] ELSE books
  BY DEF Ended, Happens
<1> HIDE DEF job
<1>3. jobs'[id] = job /\ job.state \in seen'[id].states
  BY <1>1, <1>2 DEF JobsType
<1>4. end \notin Alive /\ jobs[id].state \notin Ends
  BY DEF Alive, Ends, Failures
<1>5. CASE system = "slurm"
  <2>1. books' = books
    BY <1>2, <1>5
  <2>2. JobsType'
    BY <1>1, <1>2, <1>5, <2>1 DEF JobsType
  <2>3. BooksTrue(id)'
    BY <1>1, <1>2, <1>3, <1>4, <1>5, <2>1 DEF BooksTrue
  <2> QED
    BY <1>1, <1>2, <2>1, <2>2, <2>3, HappensInv
<1>6. CASE system = "lsf"
  <2>1. books \in [Ids -> Seq(Ends)] /\ books[id] \in Seq(Ends)
    BY <1>6 DEF JobsType
  <2>2. books'[id] = Append(books[id], end) /\ \A d \in Ids \ {id} : books'[d] = books[d]
    BY <1>2, <1>6, <2>1
  <2>3. Append(books[id], end) \in Seq(Ends)
    BY <2>1, LogFacts
  <2>4. books' \in [Ids -> Seq(Ends)]
    BY <1>2, <1>6, <2>1, <2>3
  <2>5. JobsType'
    <3>1. /\ job \in [state : Alive \cup Ends, earlier : SUBSET Ends, listed : BOOLEAN]
          /\ jobs' = [jobs EXCEPT ![id] = job] /\ system' = "lsf"
          /\ seen' = [seen EXCEPT ![id].states = @ \cup {job.state}, ![id].still = FALSE]
          /\ job.state \in Ends
      BY <1>1, <1>2, <1>6
    <3>2. jobs' \in [Ids -> [state : Alive \cup Ends, earlier : SUBSET Ends, listed : BOOLEAN]]
      BY <3>1 DEF JobsType
    <3>3. seen' \in [Ids -> [states : SUBSET (Alive \cup Ends), still : BOOLEAN]]
      BY <3>1 DEF JobsType
    <3> QED
      BY <2>4, <3>1, <3>2, <3>3 DEF JobsType
  <2>6. \A n \in DOMAIN books[id] : books[id][n] \in Ends
    BY <2>1
  <2>7. \A n \in DOMAIN books'[id] : books'[id][n] \in {end} \cup jobs[id].earlier
    BY <1>4, <1>6, <2>1, <2>2, <2>6, LogFacts DEF BooksTrue
  <2>8. Last(books'[id]) = end
    BY <2>1, <2>2, LogFacts
  <2>9. BooksTrue(id)'
    BY <1>1, <1>2, <1>3, <1>6, <2>7, <2>8 DEF BooksTrue
  <2> QED
    BY <1>1, <1>2, <2>2, <2>5, <2>9, HappensInv
<1> QED
  BY <1>5, <1>6 DEF JobsType

\* A job is put back.
LEMMA RequeuedInv ==
    ASSUME Inv, NEW id \in Ids, Requeued(id)
    PROVE  Inv'
<1> USE DEF Inv
<1> DEFINE end == IF jobs[id].state = "RUNNING" THEN "FAILED" ELSE jobs[id].state
           job == [jobs[id] EXCEPT !.state = "PENDING", !.earlier = @ \cup {end}]
<1>1. end \in Ends /\ "FAILED" \in Ends /\ "PENDING" \in Alive /\ "PENDING" \notin Ends /\ "RUNNING" \notin Ends
  BY DEF Requeued, Ends, Failures, Alive
<1>2. /\ job \in [state : Alive \cup Ends, earlier : SUBSET Ends, listed : BOOLEAN]
      /\ job.state = "PENDING" /\ job.earlier = jobs[id].earlier \cup {end} /\ job.listed = jobs[id].listed
  BY <1>1 DEF JobsType
<1>3. /\ UNCHANGED system /\ jobs' = [jobs EXCEPT ![id] = job] /\ Happens(id, job)
      /\ seen' = [seen EXCEPT ![id].states = @ \cup {job.state}, ![id].still = FALSE]
  BY DEF Requeued, Happens
<1>4. /\ jobs[id].state = "RUNNING" => end = "FAILED"
      /\ jobs[id].state # "RUNNING" => end = jobs[id].state /\ jobs[id].state \in Ends /\ jobs[id].listed
  BY DEF Requeued
<1>5. books' = IF system = "lsf" /\ jobs[id].state = "RUNNING" THEN [books EXCEPT ![id] = Append(@, "FAILED")] ELSE books
  BY DEF Requeued
<1> HIDE DEF job, end
<1>6. jobs'[id] = job /\ job.state \in seen'[id].states
  BY <1>2, <1>3 DEF JobsType
<1>7. CASE system = "slurm"
  <2>1. books' = books
    BY <1>5, <1>7
  <2>2. JobsType'
    BY <1>2, <1>3, <1>7, <2>1 DEF JobsType
  <2>3. jobs[id].state = "RUNNING" /\ jobs[id].listed
    BY <1>1, <1>4, <1>7 DEF BooksTrue, Alive, Ends, Failures
  <2>4. BooksTrue(id)'
    BY <1>1, <1>2, <1>3, <1>6, <1>7, <2>1, <2>3 DEF BooksTrue
  <2> QED
    BY <1>2, <1>3, <2>1, <2>2, <2>4, HappensInv
<1>8. CASE system = "lsf"
  <2>1. books \in [Ids -> Seq(Ends)] /\ books[id] \in Seq(Ends)
    BY <1>8 DEF JobsType
  <2>2. \A n \in DOMAIN books[id] : books[id][n] \in Ends /\ books[id][n] \in {jobs[id].state} \cup jobs[id].earlier
    BY <1>8, <2>1 DEF BooksTrue
  <2>3. \A n \in DOMAIN books[id] : books[id][n] \in {end} \cup jobs[id].earlier
    BY <1>1, <1>4, <2>2
  <2>4. jobs[id].listed
    BY <1>1, <1>4, <1>8 DEF BooksTrue
  <2>5. CASE jobs[id].state = "RUNNING"
    <3>1. books'[id] = Append(books[id], "FAILED") /\ \A d \in Ids \ {id} : books'[d] = books[d]
      BY <1>5, <1>8, <2>1, <2>5
    <3>2. Append(books[id], "FAILED") \in Seq(Ends)
      BY <1>1, <2>1, LogFacts
    <3>3. books' \in [Ids -> Seq(Ends)]
      BY <1>5, <1>8, <2>1, <2>5, <3>2
    <3>4. JobsType'
      BY <1>2, <1>3, <1>8, <3>3 DEF JobsType
    <3>5. \A n \in DOMAIN books'[id] : books'[id][n] \in {end} \cup jobs[id].earlier
      BY <1>1, <1>4, <2>1, <2>3, <2>5, <3>1, LogFacts
    <3>6. BooksTrue(id)'
      BY <1>1, <1>2, <1>3, <1>6, <1>8, <2>4, <3>5 DEF BooksTrue
    <3> QED
      BY <1>2, <1>3, <3>1, <3>4, <3>6, HappensInv
  <2>6. CASE jobs[id].state # "RUNNING"
    <3>1. books' = books
      BY <1>5, <2>6
    <3>2. JobsType'
      BY <1>2, <1>3, <1>8, <3>1 DEF JobsType
    <3>3. BooksTrue(id)'
      BY <1>1, <1>2, <1>3, <1>6, <1>8, <2>3, <2>4, <3>1 DEF BooksTrue
    <3> QED
      BY <1>2, <1>3, <3>1, <3>2, <3>3, HappensInv
  <2> QED
    BY <2>5, <2>6
<1> QED
  BY <1>7, <1>8 DEF JobsType

\* The books move on; bjobs forgets a job.
LEMMA BooksInv ==
    ASSUME Inv, NEW id \in Ids, Noted(id) \/ Forgotten(id) \/ Rotated(id)
    PROVE  Inv'
<1> USE DEF Inv
<1>1. jobs[id] \in [state : Alive \cup Ends, earlier : SUBSET Ends, listed : BOOLEAN]
  BY DEF JobsType
<1>2. ASSUME Noted(id) PROVE Inv'
  <2>1. PICK state \in {jobs[id].state} \cup jobs[id].earlier : books' = [books EXCEPT ![id] = state]
    BY <1>2 DEF Noted
  <2>2. /\ system = "slurm" /\ Happens(id, jobs[id]) /\ UNCHANGED system /\ jobs' = [jobs EXCEPT ![id] = jobs[id]]
        /\ seen' = [seen EXCEPT ![id].states = @ \cup {jobs[id].state}, ![id].still = FALSE]
    BY <1>2 DEF Noted, Happens
  <2>3. jobs' = jobs /\ books'[id] = state /\ \A d \in Ids \ {id} : books'[d] = books[d]
    BY <2>1, <2>2 DEF JobsType
  <2>4. JobsType'
    BY <1>1, <2>1, <2>2, <2>3 DEF JobsType
  <2>5. jobs[id].state \in seen'[id].states
    BY <2>2 DEF JobsType
  <2>6. BooksTrue(id)'
    BY <2>1, <2>2, <2>3, <2>5 DEF BooksTrue
  <2> QED
    BY <1>1, <2>2, <2>3, <2>4, <2>6, HappensInv
<1>3. ASSUME Forgotten(id) PROVE Inv'
  <2> DEFINE job == [jobs[id] EXCEPT !.listed = FALSE]
  <2>1. /\ job \in [state : Alive \cup Ends, earlier : SUBSET Ends, listed : BOOLEAN]
        /\ job.state = jobs[id].state /\ job.earlier = jobs[id].earlier /\ ~job.listed
    BY <1>1
  <2>2. /\ system = "lsf" /\ jobs[id].state \in Ends /\ UNCHANGED <<system, books>> /\ Happens(id, job)
        /\ jobs' = [jobs EXCEPT ![id] = job]
        /\ seen' = [seen EXCEPT ![id].states = @ \cup {job.state}, ![id].still = FALSE]
    BY <1>3 DEF Forgotten, Happens
  <2> HIDE DEF job
  <2>3. JobsType'
    BY <2>1, <2>2 DEF JobsType
  <2>4. jobs'[id] = job /\ job.state \in seen'[id].states
    BY <2>1, <2>2 DEF JobsType
  <2>5. BooksTrue(id)'
    BY <2>1, <2>2, <2>4 DEF BooksTrue
  <2> QED
    BY <2>1, <2>2, <2>3, <2>5, HappensInv
<1>4. ASSUME Rotated(id) PROVE Inv'
  <2>1. /\ system = "lsf" /\ books[id] # <<>> /\ UNCHANGED system /\ Happens(id, jobs[id])
        /\ jobs' = [jobs EXCEPT ![id] = jobs[id]] /\ books' = [books EXCEPT ![id] = Tail(@)]
        /\ seen' = [seen EXCEPT ![id].states = @ \cup {jobs[id].state}, ![id].still = FALSE]
    BY <1>4 DEF Rotated, Happens
  <2>2. books \in [Ids -> Seq(Ends)] /\ books[id] \in Seq(Ends) /\ jobs' = jobs
    BY <2>1 DEF JobsType
  <2>3. /\ Tail(books[id]) \in Seq(Ends)
        /\ \A n \in DOMAIN Tail(books[id]) : \E m \in DOMAIN books[id] : Tail(books[id])[n] = books[id][m]
        /\ Tail(books[id]) # <<>> => Last(Tail(books[id])) = Last(books[id])
    <3>1. "COMPLETED" \in Ends
      BY DEF Ends
    <3> QED
      BY <2>1, <2>2, <3>1, LogFacts
  <2>4. books'[id] = Tail(books[id]) /\ \A d \in Ids \ {id} : books'[d] = books[d]
    BY <2>1, <2>2
  <2>5. books' \in [Ids -> Seq(Ends)]
    BY <2>1, <2>2, <2>3
  <2>6. JobsType'
    BY <1>1, <2>1, <2>2, <2>5 DEF JobsType
  <2>7. jobs[id].state \in seen'[id].states
    BY <2>1 DEF JobsType
  <2>8. \A n \in DOMAIN books'[id] : books'[id][n] \in {jobs[id].state} \cup jobs[id].earlier
    BY <2>1, <2>3, <2>4 DEF BooksTrue
  <2>9. BooksTrue(id)'
    BY <2>1, <2>2, <2>3, <2>4, <2>7, <2>8 DEF BooksTrue
  <2> QED
    BY <1>1, <2>1, <2>2, <2>4, <2>6, <2>9, HappensInv
<1> QED
  BY <1>2, <1>3, <1>4

----------------------------------------------------------------------------
(* An operation.                                                            *)

\* A command that leaves the cluster alone: what the operation holds is true, and
\* so is the answer, if it is a new one.
LEMMA CommandInv ==
    ASSUME Inv, UNCHANGED <<system, jobs, books, seen>>, QueryShape',
           \A id \in Ids : QueueTrue(id)' /\ CurrentTrue(id)',
           answer' = answer \/ (answer'.id \in Ids /\ Real(answer') /\ Exact(answer'))
    PROVE  Inv'
<1> USE DEF Inv
<1>1. JobsType' /\ \A id \in Ids : BooksTrue(id)'
  BY DEF JobsType, BooksTrue
<1>2. Real(answer)' = Real(answer') /\ Exact(answer)' = Exact(answer')
  BY DEF Real, Exact, Settled, Known
<1>3. AnswerTrue'
  BY <1>2 DEF AnswerTrue
<1> QED
  BY <1>1, <1>3

\* An operation begins, ends or fails.
LEMMA BoundsInv ==
    ASSUME StatusAssumption, Inv, Begin \/ End \/ QueryFails
    PROVE  Inv'
<1> USE DEF Inv
<1>1. Idle.on = FALSE /\ Idle.queue = None /\ Idle.id = None /\ Idle.current = None
      /\ Idle = [on |-> Idle.on, queue |-> Idle.queue, id |-> Idle.id, current |-> Idle.current]
  BY DEF Idle
<1>2. CASE Begin
  <2>1. /\ query' = [on |-> TRUE, queue |-> None, id |-> None, current |-> None] /\ answer' = None
        /\ UNCHANGED <<system, jobs, books>>
        /\ seen' = [id \in Ids |-> [states |-> {jobs[id].state}, still |-> TRUE]]
    BY <1>2 DEF Begin, Idle
  <2>2. JobsType' /\ \A id \in Ids : BooksTrue(id)'
    BY <2>1 DEF JobsType, BooksTrue
  <2>3. QueryShape' /\ AnswerTrue'
    BY <2>1 DEF QueryShape, AnswerTrue
  <2>4. \A id \in Ids : id # None
    BY DEF StatusAssumption
  <2>5. \A id \in Ids : QueueTrue(id)' /\ CurrentTrue(id)'
    BY <2>1, <2>4 DEF QueueTrue, CurrentTrue
  <2> QED
    BY <2>2, <2>3, <2>5
<1>3. CASE End \/ QueryFails
  <2>1. query' = Idle /\ UNCHANGED <<system, jobs, books, answer, seen>>
    BY <1>3 DEF End, QueryFails
  <2> QED
    BY <1>1, <2>1, CommandInv DEF StatusAssumption, QueryShape, QueueTrue, CurrentTrue
<1> QED
  BY <1>2, <1>3

\* The next job is asked about.
LEMMA AskSlurmInv ==
    ASSUME StatusAssumption, Inv, NEW id \in Ids, AskSlurm(id)
    PROVE  Inv'
<1> USE DEF Inv
<1>1. /\ system = "slurm" /\ query.id = None /\ query.on /\ UNCHANGED <<system, jobs, books, answer, seen>>
      /\ query' = [on |-> query.on, queue |-> query.queue, id |-> id, current |-> None]
  BY DEF AskSlurm, Asks, QueryShape
<1>2. QueryShape' /\ \A d \in Ids : QueueTrue(d)' /\ CurrentTrue(d)'
  BY <1>1 DEF StatusAssumption, QueryShape, QueueTrue, CurrentTrue
<1> QED
  BY <1>1, <1>2, CommandInv

\* The queue is read: every job that is in it, with its state.
LEMMA ReadQueueInv ==
    ASSUME StatusAssumption, Inv, ReadQueue
    PROVE  Inv'
<1> USE DEF Inv
<1> DEFINE queue == [id \in {i \in Ids : jobs[i].listed} |-> jobs[id].state]
<1>1. /\ system = "slurm" /\ query.id # None /\ UNCHANGED <<system, jobs, books, answer, seen>>
      /\ query' = [on |-> query.on, queue |-> queue, id |-> query.id, current |-> query.current]
  BY DEF ReadQueue, QueryShape
<1>2. QueryShape'
  BY <1>1 DEF QueryShape, Idle
<1>3. \A d \in Ids : QueueTrue(d)'
  BY <1>1 DEF QueueTrue, BooksTrue
<1>4. \A d \in Ids : CurrentTrue(d)'
  BY <1>1 DEF CurrentTrue, Known
<1> QED
  BY <1>1, <1>2, <1>3, <1>4, CommandInv

\* The answer is given, and the operation goes on to the next job.
LEMMA AnswersInv ==
    ASSUME StatusAssumption, Inv, NEW a, Answers(a), UNCHANGED <<system, jobs, books, seen>>,
           query.on, a.id \in Ids, Real(a), Exact(a)
    PROVE  Inv'
<1> USE DEF Inv
<1>1. /\ answer' = a
      /\ query' = [on |-> query.on, queue |-> query.queue, id |-> None, current |-> None]
  BY DEF Answers, QueryShape
<1>2. QueryShape' /\ \A d \in Ids : QueueTrue(d)' /\ CurrentTrue(d)'
  BY <1>1 DEF StatusAssumption, QueryShape, QueueTrue, CurrentTrue
<1> QED
  BY <1>1, <1>2, CommandInv

\* A job that is in the queue that was read.
LEMMA FindInQueueInv ==
    ASSUME StatusAssumption, Inv, FindInQueue
    PROVE  Inv'
<1> USE DEF Inv
<1> DEFINE id == query.id
           state == query.queue[id]
           a == Answered(id, InQueue(state), state)
<1>1. /\ system = "slurm" /\ id \in Ids /\ query.on /\ query.queue # None /\ id \in DOMAIN query.queue
      /\ Answers(a) /\ UNCHANGED <<system, jobs, books, seen>>
  BY DEF FindInQueue, QueryShape, Idle
<1>2. /\ state \in seen[id].states /\ state \in Alive \cup Ends
      /\ seen[id].still => jobs[id].listed /\ state = jobs[id].state
  BY <1>1 DEF QueueTrue, JobsType
<1>3. a.id = id /\ a.kind = InQueue(state) /\ a.state = state
  BY DEF Answered
<1>4. Real(a)
  BY <1>2, <1>3, InQueueFacts DEF Real
<1>5. Exact(a)
  <2>1. jobs[id].listed => jobs[id].state \in Alive
    BY <1>1 DEF BooksTrue
  <2> QED
    BY <1>2, <1>3, <2>1 DEF Exact, Settled, Alive, Failures
<1> HIDE DEF a
<1> QED
  BY <1>1, <1>3, <1>4, <1>5, AnswersInv

\* A job that is not in it is looked up in the accounting.
LEMMA ReadAccountingInv ==
    ASSUME StatusAssumption, Inv, ReadAccounting
    PROVE  Inv'
<1> USE DEF Inv
<1> DEFINE id == query.id
           state == books[id]
           a == Answered(id, InAccounting(state), state)
<1>1. /\ system = "slurm" /\ id \in Ids /\ query.on /\ query.queue # None /\ id \notin DOMAIN query.queue
      /\ Answers(a) /\ UNCHANGED <<system, jobs, books, seen>>
  BY DEF ReadAccounting, QueryShape, Idle
<1>2. /\ state \in Alive \cup Ends \cup {None} /\ jobs[id].state \in seen[id].states
      /\ state \in Ends => state \in {jobs[id].state} \cup jobs[id].earlier
      /\ jobs[id].listed <=> jobs[id].state \in Alive
      /\ seen[id].still => ~jobs[id].listed
  BY <1>1 DEF JobsType, BooksTrue, QueueTrue
<1>3. a.id = id /\ a.kind = InAccounting(state) /\ a.state = state
  BY DEF Answered
<1>4. /\ a.kind \notin {"QUEUED", "RUNNING"} /\ (a.kind = "COMPLETED" <=> state = "COMPLETED")
      /\ a.kind = "FAILED" <=> state \in Failures
  BY <1>2, <1>3, InAccountingFacts
<1>5. Real(a)
  <2>1. state \in Ends => state \in Known(id)
    BY <1>2 DEF Known
  <2>2. "EXIT" \notin Failures
    BY DEF Failures
  <2> QED
    BY <1>3, <1>4, <2>1, <2>2 DEF Real, Ends
<1>6. Exact(a)
  BY <1>1, <1>2, <1>3, <1>4 DEF Exact, Settled, Failures
<1> HIDE DEF a
<1> QED
  BY <1>1, <1>3, <1>5, <1>6, AnswersInv

\* bjobs knows the job, or not.
LEMMA InBjobsFacts ==
    ASSUME StatusAssumption, Inv, system = "lsf", NEW id \in Ids
    PROVE  LET current == InBjobs(id) IN
           /\ ~jobs[id].listed => current = None
           /\ jobs[id].listed =>
                /\ current # None /\ current.id = id
                /\ current.kind = "FAILED" <=> jobs[id].state \in Failures
                /\ current.kind = "FAILED" => current = Answered(id, "FAILED", "EXIT")
                /\ current.kind # "FAILED" => Real(current) /\ Exact(current)
<1> USE DEF Inv
<1> DEFINE state == jobs[id].state
           current == InBjobs(id)
<1>1. state \in Alive \cup Ends /\ state \in seen[id].states
  BY DEF JobsType, BooksTrue
<1>2. CASE ~jobs[id].listed
  BY <1>2 DEF InBjobs
<1>3. CASE jobs[id].listed /\ state \in Failures
  <2>1. current = Answered(id, "FAILED", "EXIT")
    BY <1>3 DEF InBjobs
  <2> QED
    BY <1>3, <2>1, AnswerIsNotNone DEF Kinds
<1>4. CASE jobs[id].listed /\ state = "COMPLETED"
  <2>1. current = Answered(id, "COMPLETED", "COMPLETED") /\ state \notin Failures
    BY <1>4 DEF InBjobs, Failures
  <2>2. current.id = id /\ current.kind = "COMPLETED" /\ current # None
    BY <2>1, AnswerIsNotNone DEF Kinds, Ends
  <2>3. Real(current) /\ Exact(current)
    BY <1>1, <1>4, <2>1, <2>2 DEF Real, Exact, Known, Ends, Alive
  <2> QED
    BY <1>4, <2>1, <2>2, <2>3
<1>5. CASE jobs[id].listed /\ state \in Alive
  <2>1. current = Answered(id, InQueue(state), state) /\ state \notin Ends
    BY <1>5 DEF InBjobs, Alive, Ends, Failures
  <2>2. current.id = id /\ current.kind = InQueue(state) /\ current # None
    BY <1>1, <2>1, InQueueFacts, AnswerIsNotNone DEF Kinds
  <2>3. current.kind # "FAILED" /\ current.kind # "COMPLETED"
    BY <1>1, <2>2, InQueueFacts
  <2>4. Real(current) /\ Exact(current)
    BY <1>1, <1>5, <2>1, <2>2, <2>3, InQueueFacts DEF Real, Exact, Ends
  <2> QED
    BY <1>5, <2>1, <2>2, <2>3, <2>4 DEF Ends
<1> QED
  BY <1>1, <1>2, <1>3, <1>4, <1>5 DEF Ends

\* bjobs answers at once, or its answer waits for the history.
LEMMA AskLsfInv ==
    ASSUME StatusAssumption, Inv, NEW id \in Ids, AskLsf(id)
    PROVE  Inv'
<1> USE DEF Inv
<1> DEFINE current == InBjobs(id)
<1>1. /\ system = "lsf" /\ query.on /\ query.id = None /\ UNCHANGED <<system, jobs, books, seen>>
      /\ IF current # None /\ current.kind # "FAILED" THEN Answers(current)
         ELSE query' = [query EXCEPT !.id = id, !.current = current] /\ UNCHANGED answer
  BY DEF AskLsf
<1>2. /\ ~jobs[id].listed => current = None
      /\ jobs[id].listed =>
           /\ current # None /\ current.id = id
           /\ current.kind = "FAILED" <=> jobs[id].state \in Failures
           /\ current.kind = "FAILED" => current = Answered(id, "FAILED", "EXIT")
           /\ current.kind # "FAILED" => Real(current) /\ Exact(current)
  BY <1>1, InBjobsFacts
<1> HIDE DEF current
<1>3. CASE current # None /\ current.kind # "FAILED"
  BY <1>1, <1>2, <1>3, AnswersInv DEF JobsType
<1>4. CASE ~(current # None /\ current.kind # "FAILED")
  <2>1. query' = [on |-> query.on, queue |-> query.queue, id |-> id, current |-> current] /\ UNCHANGED answer
    BY <1>1, <1>4 DEF QueryShape
  <2>2. QueryShape'
    BY <1>1, <2>1 DEF StatusAssumption, QueryShape
  <2>3. \A d \in Ids : QueueTrue(d)'
    BY <1>1, <2>1 DEF QueueTrue
  <2>4. /\ current # None => jobs[id].listed /\ jobs[id].state \in Failures /\ current = Answered(id, "FAILED", "EXIT")
        /\ current = None => ~jobs[id].listed
    BY <1>2, <1>4 DEF JobsType
  <2>5. jobs[id].state \in Known(id)
    BY DEF BooksTrue, Known
  <2>6. \A d \in Ids : CurrentTrue(d)'
    BY <1>1, <2>1, <2>4, <2>5 DEF CurrentTrue, Known
  <2> QED
    BY <1>1, <2>1, <2>2, <2>3, <2>6, CommandInv
<1> QED
  BY <1>3, <1>4

\* The history has the last end, or leaves what bjobs has said.
LEMMA ReadHistoryInv ==
    ASSUME StatusAssumption, Inv, ReadHistory
    PROVE  Inv'
<1> USE DEF Inv
<1> DEFINE id == query.id
           past == InHistory(id)
           a == IF past.kind = "ACCOUNTING_PENDING" /\ query.current # None THEN query.current ELSE past
<1>1. /\ system = "lsf" /\ id \in Ids /\ query.on /\ Answers(a) /\ UNCHANGED <<system, jobs, books, seen>>
  BY DEF ReadHistory, QueryShape, Idle
<1>2. /\ books[id] \in Seq(Ends) /\ jobs[id].state \in Alive \cup Ends /\ jobs[id].state \in seen[id].states
      /\ \A n \in DOMAIN books[id] : books[id][n] \in {jobs[id].state} \cup jobs[id].earlier
      /\ jobs[id].state \in Ends /\ books[id] # <<>> => Last(books[id]) = jobs[id].state
      /\ ~jobs[id].listed => jobs[id].state \in Ends
  BY <1>1 DEF JobsType, BooksTrue
<1>3. /\ query.current # None =>
           /\ query.current = Answered(id, "FAILED", "EXIT") /\ Known(id) \cap Failures # {}
           /\ seen[id].still => jobs[id].state \in Failures
      /\ query.current = None /\ seen[id].still => ~jobs[id].listed
  BY <1>1 DEF CurrentTrue
<1>4. Failures \subseteq Ends /\ "EXIT" \notin Failures /\ "COMPLETED" \notin Failures /\ Alive \cap Ends = {}
      /\ Ends = {"COMPLETED"} \cup Failures
  BY DEF Alive, Ends, Failures
<1>5. CASE books[id] = <<>> /\ query.current = None
  <2>1. a.id = id /\ a.kind = "ACCOUNTING_PENDING"
    BY <1>5 DEF InHistory, Answered
  <2>2. Real(a)
    BY <2>1 DEF Real
  <2>3. Exact(a)
    BY <1>1, <1>3, <1>5, <2>1 DEF Exact, Settled
  <2> HIDE DEF a
  <2> QED
    BY <1>1, <2>1, <2>2, <2>3, AnswersInv
<1>6. CASE books[id] = <<>> /\ query.current # None
  <2>1. a = Answered(id, "FAILED", "EXIT")
    BY <1>3, <1>6 DEF InHistory, Answered
  <2>2. a.id = id /\ a.kind = "FAILED" /\ a.state = "EXIT"
    BY <2>1 DEF Answered
  <2>3. Real(a)
    BY <1>3, <1>4, <1>6, <2>2 DEF Real
  <2>4. Exact(a)
    BY <1>3, <1>4, <1>6, <2>2 DEF Exact, Settled
  <2> HIDE DEF a
  <2> QED
    BY <1>1, <2>2, <2>3, <2>4, AnswersInv
<1>7. CASE books[id] # <<>>
  <2> DEFINE end == Last(books[id])
  <2>1. end \in Ends /\ end \in {jobs[id].state} \cup jobs[id].earlier
    <3>1. PICK m \in DOMAIN books[id] : end = books[id][m]
      BY <1>2, <1>4, <1>7, LogFacts
    <3> QED
      BY <1>2, <3>1
  <2>2. a = Answered(id, IF end = "COMPLETED" THEN "COMPLETED" ELSE "FAILED", end)
    BY <1>7 DEF InHistory, Answered
  <2>3. a.id = id /\ a.kind = (IF end = "COMPLETED" THEN "COMPLETED" ELSE "FAILED") /\ a.state = end
    BY <2>2 DEF Answered
  <2>4. end \in Known(id)
    BY <1>2, <2>1 DEF Known
  <2>5. Real(a)
    BY <1>4, <2>1, <2>3, <2>4 DEF Real
  <2>6. Exact(a)
    BY <1>2, <1>3, <1>4, <1>7, <2>1, <2>3 DEF Exact, Settled
  <2> HIDE DEF a
  <2> QED
    BY <1>1, <2>3, <2>5, <2>6, AnswersInv
<1> QED
  BY <1>5, <1>6, <1>7

----------------------------------------------------------------------------
(* The theorems.                                                            *)

\* The initial state.
LEMMA InitInv == ASSUME StatusAssumption, Init PROVE Inv
<1>1. "PENDING" \in Alive /\ "PENDING" \notin Ends
  BY DEF Alive, Ends, Failures
<1>2. JobsType
  BY <1>1 DEF Init, JobsType
<1>3. QueryShape /\ AnswerTrue
  BY DEF Init, Idle, QueryShape, AnswerTrue
<1>4. ASSUME NEW id \in Ids PROVE BooksTrue(id) /\ QueueTrue(id) /\ CurrentTrue(id)
  <2>1. jobs[id].state = "PENDING" /\ jobs[id].listed /\ seen[id].states = {"PENDING"}
    BY DEF Init
  <2>2. BooksTrue(id)
    BY <1>1, <2>1 DEF Init, BooksTrue, StatusAssumption
  <2>3. QueueTrue(id) /\ CurrentTrue(id)
    BY DEF Init, Idle, QueueTrue, CurrentTrue, StatusAssumption
  <2> QED
    BY <2>2, <2>3
<1> QED
  BY <1>2, <1>3, <1>4 DEF Inv

\* Every step preserves the invariant.
LEMMA StepInv == ASSUME StatusAssumption, Inv, [Next]_status PROVE Inv'
<1>1. CASE UNCHANGED status
  <2>1. UNCHANGED <<system, jobs, books, query, answer, seen>>
    BY <1>1 DEF status
  <2>2. QueryShape' /\ \A id \in Ids : QueueTrue(id)' /\ CurrentTrue(id)'
    BY <2>1 DEF Inv, QueryShape, QueueTrue, CurrentTrue, Known
  <2> QED
    BY <2>1, <2>2, CommandInv
<1>2. ASSUME NEW id \in Ids, Starts(id) \/ Suspended(id) \/ Completing(id) PROVE Inv'
  <2>1. PICK state \in {"RUNNING", "SUSPENDED", "COMPLETING"} :
          /\ Happens(id, [jobs[id] EXCEPT !.state = state]) /\ UNCHANGED books
          /\ jobs[id].state \in {"PENDING", "SUSPENDED", "RUNNING"}
    BY <1>2 DEF Starts, Suspended, Completing
  <2>2. state \in Alive /\ jobs[id].state \in Alive
    BY <2>1 DEF Alive
  <2> QED
    BY <2>1, <2>2, GoesOnInv
<1>3. ASSUME NEW id \in Ids, JobEnds(id) PROVE Inv'
  <2>1. PICK end \in Ends : jobs[id].state \in Alive /\ Ended(id, end)
    BY <1>3 DEF JobEnds, Ends, Failures
  <2> QED
    BY <2>1, EndedInv
<1>4. ASSUME Cancel PROVE Inv'
  <2>1. answer.id \in Ids /\ jobs[answer.id].state \in Alive /\ Ended(answer.id, "CANCELLED")
    BY <1>4 DEF Cancel, Inv, AnswerTrue
  <2>2. "CANCELLED" \in Ends
    BY DEF Ends, Failures
  <2> QED
    BY <2>1, <2>2, EndedInv
<1> QED
  BY <1>1, <1>2, <1>3, <1>4, RequeuedInv, BooksInv, BoundsInv, AskSlurmInv, ReadQueueInv, FindInQueueInv,
     ReadAccountingInv, AskLsfInv, ReadHistoryInv DEF Next

\* Every reachable state satisfies the invariant.
THEOREM Invariance == ASSUME StatusAssumption PROVE Spec => []Inv
<1>1. Init => Inv
  BY InitInv
<1>2. Inv /\ [Next]_status => Inv'
  BY StepInv
<1> QED
  BY <1>1, <1>2, PTL DEF Spec

\* A job is never reported to be or to have ended as it neither is, was since the
\* question, nor ended in an attempt before (query_slurm_job_status,
\* query_lsf_job_status).
THEOREM AnswerTheorem == ASSUME StatusAssumption PROVE Spec => []AnswerIsReal
<1>1. Inv => AnswerIsReal
  <2> SUFFICES ASSUME Inv, answer # None PROVE AnswerIsReal
    BY DEF AnswerIsReal
  <2>1. Real(answer)
    BY DEF Inv, AnswerTrue
  <2> QED
    BY <2>1 DEF Real, Known, AnswerIsReal
<1> QED
  BY <1>1, Invariance, PTL

\* Of a job that stands still, and that the accounting or the log knows, the answer
\* is what it is; only a failure may be left without its reason.
THEOREM SettledTheorem == ASSUME StatusAssumption PROVE Spec => []SettledIsExact
<1>1. Inv => SettledIsExact
  <2> SUFFICES ASSUME Inv, answer # None, seen[answer.id].still,
                      IF system = "slurm" THEN books[answer.id] = jobs[answer.id].state
                      ELSE jobs[answer.id].listed \/ books[answer.id] # <<>>
               PROVE  LET state == jobs[answer.id].state IN
                      CASE state = "COMPLETED" -> answer.kind = "COMPLETED"
                        [] state \in Failures -> answer.kind = "FAILED" /\ answer.state \in {state, "EXIT"}
                        [] OTHER -> answer.kind = InQueue(state)
    BY DEF SettledIsExact
  <2>1. Exact(answer) /\ Settled(answer.id) /\ jobs[answer.id].state \in Alive \cup Ends
    BY DEF Inv, AnswerTrue, Settled, JobsType
  <2> QED
    BY <2>1 DEF Exact, Ends, Failures
<1> QED
  BY <1>1, Invariance, PTL
=============================================================================

------------------------ MODULE StepSubmissionProofs ------------------------
(***************************************************************************)
(* The safety properties of StepSubmission, for any number of clients and  *)
(* jobs, every starting step, and every interleaving - overlapping write   *)
(* windows, crashes, lost answers and stale copies included.               *)
(*                                                                         *)
(* The argument is about copies.  Workflow records are copied from the     *)
(* manifest to clients and back, by clients that overwrite each other, so  *)
(* nothing can be said of the manifest alone.  But every copy anywhere     *)
(* tells the truth about the jobs (GoodCopy), and a new copy is always an  *)
(* old one with one step replaced truthfully.  RecordIsDurable, stated     *)
(* beside the history of overlaps in MCStepSubmission, is about serial     *)
(* windows.                                                                *)
(***************************************************************************)
EXTENDS MCStepSubmission, TLAPS

\* Every workflow record there is: in the manifest, or held by a client.
Copies ==
    {manifest.steps} \cup {view[c].steps : c \in Clients}
    \cup {cand[c] : c \in Clients} \cup {seen[c].steps : c \in Clients}

\* The client is about to dispatch its step and nobody else is.
Owns(c) == pc[c] \in {"init", "dirs", "upload", "dispatch"}

\* The directory whose exclusive creation decides who dispatches step s.
Taken(s) == IF s = StartStep THEN 1 \in dirs ELSE s \in dirs

\* No record of step s has been written yet, by anyone.
Untouched(s) == ~Taken(s) \/ \E c \in Clients : Owns(c) /\ step[c] = s

\* The prerequisite of step s has a real success.
Verified(s) ==
    s > StartStep =>
        \E k \in Jobs : jobs[k].step = s - 1 /\ jobs[k].st = "completed" /\ jobs[k].out = "good"

\* A record of step s tells the truth about the job it names.
TrueRecord(s, record) ==
    /\ record.state \in {"SUCCEEDED", "SCHEDULER_COMPLETED"} => record.job # NoJob
    /\ record.job # NoJob =>
         /\ jobs[record.job].step = s
         /\ record.state = "SUCCEEDED" =>
              jobs[record.job].st = "completed" /\ jobs[record.job].out = "good"
         /\ record.state = "SCHEDULER_COMPLETED" => jobs[record.job].st = "completed"
         /\ record.state = "FAILED" => jobs[record.job].st \in {"completed", "failed"}

\* A record of step s leaves no job of that step out.
CompleteRecord(s, record) ==
    \A j \in Jobs : jobs[j].step = s =>
        \/ record.job = j
        \/ record.job = NoJob /\ record.state \in {"NOT_STARTED", "UNKNOWN"}

Fresh(record) == record.job = NoJob /\ record.state = "NOT_STARTED"

\* One step of a copy.
GoodRecord(s, record) ==
    /\ TrueRecord(s, record)
    /\ CompleteRecord(s, record)
    /\ s < StartStep => record.state = "SKIPPED" /\ record.job = NoJob
    /\ s >= StartStep /\ Untouched(s) => Fresh(record)

GoodCopy(w) == w \in Workflows /\ \A s \in Steps : GoodRecord(s, w[s])

GoodCopies == \A w \in Copies : GoodCopy(w)

\* A client that owns a step has taken its directory, alone, and the step has
\* no job yet.
OwnerAlone ==
    \A c \in Clients : Owns(c) =>
        /\ step[c] \in StartStep..3
        /\ Taken(step[c])
        /\ \A j \in Jobs : jobs[j].step # step[c]
        /\ \A d \in Clients : Owns(d) /\ step[d] = step[c] => d = c

\* What a client knows at the point it has reached.
Knows(c) ==
    /\ pc[c] \in {"init", "dirs"} => step[c] = StartStep
    /\ pc[c] = "claim" => step[c] \in 2..3 /\ step[c] > StartStep
    /\ pc[c] \in {"claim", "upload", "dispatch"} => Verified(step[c])
    /\ pc[c] \in {"query", "assess"} => view[c].steps[step[c]].job # NoJob
    /\ pc[c] = "assess" => jobs[view[c].steps[step[c]].job].st = "completed"

ClientKnows == \A c \in Clients : Knows(c)

\* What is known of a job that exists.
JobsKnown ==
    \A j \in Jobs :
        /\ jobs[j].st = "none" => jobs[j].step = 0
        /\ jobs[j].step # 0 =>
             /\ jobs[j].step \in StartStep..3
             /\ Taken(jobs[j].step)
             /\ Verified(jobs[j].step)

Inv ==
    /\ TypeOK
    /\ GoodCopies
    /\ OwnerAlone
    /\ ClientKnows
    /\ JobsKnown
    /\ AtMostOneDispatch

----------------------------------------------------------------------------
(* Types.                                                                  *)

\* Replacing a step of a record gives a record with that step and the others.
LEMMA WithStepFacts ==
    ASSUME NEW w \in Workflows, NEW s \in Steps, NEW state \in StepStates,
           NEW job \in Jobs \cup {NoJob}, NEW err \in Errors
    PROVE  /\ WithStep(w, s, state, job, err) \in Workflows
           /\ WithStep(w, s, state, job, err)[s] = [state |-> state, job |-> job, err |-> err]
           /\ \A t \in Steps : t # s => WithStep(w, s, state, job, err)[t] = w[t]
<1> QED
  BY DEF WithStep, Workflows, StepRecord

\* The active step is the starting step or one that has been reached.
LEMMA ActiveStepFacts ==
    ASSUME NEW w \in Workflows, NEW start \in StartingSteps
    PROVE  /\ ActiveStep(w, start) \in Steps
           /\ ActiveStep(w, start) = start \/ ActiveStep(w, start) \in Reached(w)
<1>1. CASE Reached(w) = {}
  BY <1>1 DEF ActiveStep, StartingSteps, Steps
<1>2. CASE Reached(w) # {}
  <2>1. Reached(w) \subseteq 1..4
    BY DEF Reached, Steps
  <2>2. \E s \in Reached(w) : \A t \in Reached(w) : t <= s
    <3>1. CASE 4 \in Reached(w)
      BY <2>1, <3>1
    <3>2. CASE 4 \notin Reached(w) /\ 3 \in Reached(w)
      BY <2>1, <3>2
    <3>3. CASE 4 \notin Reached(w) /\ 3 \notin Reached(w) /\ 2 \in Reached(w)
      BY <2>1, <3>3
    <3>4. CASE 4 \notin Reached(w) /\ 3 \notin Reached(w) /\ 2 \notin Reached(w)
      BY <2>1, <3>4, <1>2
    <3> QED
      BY <3>1, <3>2, <3>3, <3>4
  <2>3. ActiveStep(w, start) \in Reached(w)
    BY <2>2, <1>2 DEF ActiveStep
  <2> QED
    BY <2>1, <2>3 DEF Steps
<1> QED
  BY <1>1, <1>2

\* A new project's records.
LEMMA InitialStepsType == InitialSteps(StartStep) \in Workflows
<1> QED
  BY DEF InitialSteps, Workflows, StepRecord, StepStates, Errors

\* The initial state is well typed.
LEMMA InitType == Init => TypeOK
<1> SUFFICES ASSUME Init PROVE TypeOK
  OBVIOUS
<1>1. NoProject \in Manifests
  BY InitialStepsType DEF NoProject, Manifests
<1>2. NoProject.steps \in Workflows
  BY InitialStepsType DEF NoProject
<1>3. jobs \in [Jobs -> JobRecord]
  BY MaxRequeuesAssumption DEF Init, JobRecord, JobStates, Outputs
<1>4. StartStep \in Steps
  BY StartStepAssumption DEF StartingSteps, Steps
<1> QED
  BY <1>1, <1>2, <1>3, <1>4 DEF Init, TypeOK, PCs, Steps

\* What WillPersist leaves behind.
LEMMA WillPersistType ==
    ASSUME TypeOK, NEW c \in Clients, NEW state \in StepStates,
           NEW job \in Jobs \cup {NoJob}, NEW err \in Errors,
           WillPersist(c, state, job, err)
    PROVE  cand' \in [Clients -> Workflows] /\ pc' \in [Clients -> PCs]
<1>1. WithStep(view[c].steps, step[c], state, job, err) \in Workflows
  BY WithStepFacts DEF TypeOK, Manifests
<1> QED
  BY <1>1 DEF WillPersist, Goto, TypeOK, PCs

\* What PersistStep leaves behind.
LEMMA PersistStepType ==
    ASSUME TypeOK, NEW c \in Clients, NEW state \in StepStates, NEW err \in Errors,
           PersistStep(c, state, err)
    PROVE  /\ cand' \in [Clients -> Workflows] /\ pc' \in [Clients -> PCs]
           /\ seen' \in [Clients -> Manifests]
<1>1. view[c].steps[step[c]].job \in Jobs \cup {NoJob}
  BY DEF TypeOK, Manifests, Workflows, StepRecord
<1>2. CASE WillPersist(c, state, view[c].steps[step[c]].job, err) /\ UNCHANGED seen
  BY <1>1, <1>2, WillPersistType DEF TypeOK
<1>3. CASE Goto(c, "idle") /\ seen' = [seen EXCEPT ![c] = view[c]] /\ UNCHANGED cand
  BY <1>3 DEF Goto, TypeOK, PCs
<1> QED
  BY <1>2, <1>3 DEF PersistStep

\* A dispatched job is a well-typed job.
LEMMA AcceptType ==
    ASSUME TypeOK, NEW j \in Jobs, NEW s \in Steps, Accept(j, s)
    PROVE  jobs' \in [Jobs -> JobRecord]
<1> QED
  BY MaxRequeuesAssumption DEF Accept, TypeOK, JobRecord, JobStates, Outputs, Steps

\* A step of the scheduler leaves a well-typed job.
LEMMA JobStepType ==
    ASSUME TypeOK, NEW j \in Jobs, NEW from, NEW st \in JobStates, NEW out \in Outputs,
           NEW n \in 0..MaxRequeues, JobStep(j, from, st, out, n)
    PROVE  TypeOK'
<1>1. jobs' \in [Jobs -> JobRecord]
  BY DEF JobStep, TypeOK, JobRecord
<1> QED
  BY <1>1 DEF JobStep, TypeOK

\* The actions of a client preserve the types.
LEMMA ClientType ==
    ASSUME TypeOK, NEW c \in Clients,
           Create(c) \/ Claim(c) \/ Submit(c) \/ Refresh(c) \/ Record(c) \/ Fault(c)
    PROVE  TypeOK'
<1> USE DEF TypeOK
<1>a. StartStep \in Steps /\ 1..StartStep \subseteq Steps /\ 1 \in Steps
  BY StartStepAssumption DEF StartingSteps, Steps
<1>b. NoProject \in Manifests /\ [rev |-> 1, steps |-> InitialSteps(StartStep)] \in Manifests
  BY InitialStepsType DEF NoProject, Manifests
<1>c. "FAILED" \in StepStates /\ "QUEUED" \in StepStates /\ "UNKNOWN" \in StepStates
      /\ "none" \in Errors /\ "submission" \in Errors /\ NoJob \in Jobs \cup {NoJob}
  BY DEF StepStates, Errors
<1>1. CASE AllocateRoot(c)
  BY <1>1, <1>a DEF AllocateRoot, Goto, PCs
<1>2. CASE WriteInitial(c)
  BY <1>2, <1>b DEF WriteInitial, Goto, PCs
<1>3. CASE MakeStepDirectories(c)
  BY <1>3, <1>a DEF MakeStepDirectories, Goto, PCs
<1>4. CASE InitializationFails(c)
  <2>1. WillPersist(c, "FAILED", NoJob, "submission")
    BY <1>4 DEF InitializationFails
  <2>2. cand' \in [Clients -> Workflows] /\ pc' \in [Clients -> PCs]
    BY <2>1, <1>c, WillPersistType
  <2>3. dirs' \subseteq Steps
    BY <1>4, StartStepAssumption DEF InitializationFails, StartingSteps, Steps
  <2> QED
    BY <1>4, <2>2, <2>3 DEF InitializationFails
<1>5. CASE \E s \in {2, 3} : Continue(c, s)
  BY <1>5 DEF Continue, Goto, PCs, Steps
<1>6. CASE ClaimDirectory(c) \/ ClaimConflict(c) \/ ClaimLost(c)
  BY <1>6 DEF ClaimDirectory, ClaimConflict, ClaimLost, Goto, PCs
<1>7. CASE UploadInputs(c)
  BY <1>7 DEF UploadInputs, Goto, PCs
<1>8. CASE UploadFails(c) \/ DispatchRejected(c)
  <2>1. WillPersist(c, "FAILED", NoJob, "submission")
    BY <1>8 DEF UploadFails, DispatchRejected
  <2>2. cand' \in [Clients -> Workflows] /\ pc' \in [Clients -> PCs]
    BY <2>1, <1>c, WillPersistType
  <2> QED
    BY <1>8, <2>2 DEF UploadFails, DispatchRejected
<1>9. CASE DispatchAccepted(c)
  <2>1. PICK j \in Jobs : Accept(j, step[c]) /\ WillPersist(c, "QUEUED", j, "none")
    BY <1>9 DEF DispatchAccepted
  <2>2. cand' \in [Clients -> Workflows] /\ pc' \in [Clients -> PCs]
    BY <2>1, <1>c, WillPersistType
  <2>3. jobs' \in [Jobs -> JobRecord]
    BY <2>1, AcceptType
  <2> QED
    BY <1>9, <2>2, <2>3 DEF DispatchAccepted
<1>10. CASE DispatchUnknown(c)
  <2>1. WillPersist(c, "UNKNOWN", NoJob, "submission")
    BY <1>10 DEF DispatchUnknown, UnknownOutcome
  <2>2. cand' \in [Clients -> Workflows] /\ pc' \in [Clients -> PCs]
    BY <2>1, <1>c, WillPersistType
  <2>3. jobs' \in [Jobs -> JobRecord]
    BY <1>10, AcceptType DEF DispatchUnknown
  <2> QED
    BY <1>10, <2>2, <2>3 DEF DispatchUnknown
<1>11. CASE BeginRefresh(c)
  <2>1. ActiveStep(manifest.steps, StartStep) \in Steps
    BY ActiveStepFacts, StartStepAssumption DEF Manifests
  <2>2. pc' \in [Clients -> PCs] /\ seen' \in [Clients -> Manifests]
    BY <1>11 DEF BeginRefresh, Goto, PCs
  <2> QED
    BY <1>11, <2>1, <2>2 DEF BeginRefresh
<1>12. CASE Query(c)
  <2>1. PICK answer : 
          \/ answer \in {"QUEUED", "RUNNING"} /\ PersistStep(c, answer, "none")
          \/ Goto(c, "idle") /\ seen' = [seen EXCEPT ![c] = view[c]] /\ UNCHANGED cand
          \/ PersistStep(c, "FAILED", "scheduler")
          \/ Goto(c, "assess") /\ UNCHANGED <<cand, seen>>
    BY <1>12 DEF Query
  <2>2. /\ cand' \in [Clients -> Workflows] /\ pc' \in [Clients -> PCs]
        /\ seen' \in [Clients -> Manifests]
    <3>1. CASE answer \in {"QUEUED", "RUNNING"} /\ PersistStep(c, answer, "none")
      BY <3>1, PersistStepType DEF StepStates, Errors
    <3>2. CASE PersistStep(c, "FAILED", "scheduler")
      BY <3>2, PersistStepType DEF StepStates, Errors
    <3> QED
      BY <2>1, <3>1, <3>2 DEF Goto, PCs
  <2> QED
    BY <1>12, <2>2 DEF Query
<1>13. CASE Assess(c)
  <2>1. PICK state \in StepStates, err \in Errors : PersistStep(c, state, err)
    BY <1>13 DEF Assess, Verdict, StepStates, Errors
  <2> QED
    BY <1>13, <2>1, PersistStepType DEF Assess
<1>14. CASE PersistCheck(c)
  BY <1>14 DEF PersistCheck, Store!Check, Store!CheckFails, PCs
<1>15. CASE PersistRename(c)
  <2>1. manifest' \in Manifests /\ pc' \in [Clients -> PCs]
    BY <1>15 DEF PersistRename, Store!Rename, Store!Successor, Manifests, PCs
  <2>2. seen' \in [Clients -> Manifests]
    BY <1>15, <2>1 DEF PersistRename
  <2> QED
    BY <1>15, <2>1, <2>2 DEF PersistRename, Store!Rename
<1>16. CASE Disconnect(c) \/ Crash(c)
  BY <1>16, <1>b DEF Disconnect, Crash, Goto, PCs
<1>17. CASE CrashInDispatch(c)
  <2>1. jobs' \in [Jobs -> JobRecord]
    BY <1>17, AcceptType DEF CrashInDispatch
  <2> QED
    BY <1>17, <1>b, <2>1 DEF CrashInDispatch, Goto, PCs
<1> QED
  BY <1>1, <1>2, <1>3, <1>4, <1>5, <1>6, <1>7, <1>8, <1>9, <1>10, <1>11, <1>12, <1>13,
     <1>14, <1>15, <1>16, <1>17 DEF Create, Claim, Submit, Refresh, Record, Fault

\* The actions of the scheduler preserve the types.
LEMMA SchedulerType ==
    ASSUME TypeOK, NEW j \in Jobs, Scheduler(j)
    PROVE  TypeOK'
<1>1. jobs[j].out \in Outputs /\ jobs[j].requeues \in 0..MaxRequeues
  BY DEF TypeOK, JobRecord
<1>3. "absent" \in Outputs /\ "bad" \in Outputs /\ "good" \in Outputs
  BY DEF Outputs
<1>4. {"pending", "running", "completed", "failed"} \subseteq JobStates
  BY DEF JobStates
<1>5. CASE JobRequeued(j)
  <2>1. jobs[j].requeues + 1 \in 0..MaxRequeues
    BY <1>1, <1>5, MaxRequeuesAssumption DEF JobRequeued
  <2> QED
    BY <1>1, <1>4, <1>5, <2>1, JobStepType DEF JobRequeued
<1> QED
  BY <1>1, <1>3, <1>4, <1>5, JobStepType
     DEF Scheduler, JobStarts, JobCompletes, JobFails, OutputSettles

\* Every step preserves the types.
LEMMA StepType == TypeOK /\ [Next]_vars => TypeOK'
<1>1. TypeOK /\ UNCHANGED vars => TypeOK'
  BY DEF TypeOK, vars
<1> QED
  BY <1>1, ClientType, SchedulerType DEF Next

----------------------------------------------------------------------------
(* What a step may do to the jobs and to the untouched steps without       *)
(* making any existing copy false.                                         *)

\* Jobs appear only for untouched steps, and what has ended stays as it ended.
JobsGrow ==
    \A j \in Jobs :
        /\ jobs[j].step # 0 => jobs'[j].step = jobs[j].step
        /\ jobs[j].step = 0 /\ jobs'[j].step # 0 =>
             jobs'[j].step \in StartStep..3 /\ Untouched(jobs'[j].step)
        /\ jobs[j].st = "completed" => jobs'[j].st = "completed"
        /\ jobs[j].st = "failed" => jobs'[j].st = "failed"
        /\ jobs[j].st = "completed" /\ jobs[j].out = "good" => jobs'[j].out = "good"

\* No step becomes untouched again.
TouchedStays == \A s \in Steps : s >= StartStep /\ Untouched(s)' => Untouched(s)

\* Under such a step a true record stays true.
LEMMA KeepRecord ==
    ASSUME TypeOK, JobsGrow, TouchedStays,
           NEW s \in Steps, NEW record \in StepRecord, GoodRecord(s, record)
    PROVE  GoodRecord(s, record)'
<1> USE DEF GoodRecord
<1>1. TrueRecord(s, record)'
  <2>1. SUFFICES ASSUME record.job # NoJob PROVE TrueRecord(s, record)'
    BY DEF TrueRecord
  <2>2. record.job \in Jobs /\ jobs[record.job].step = s /\ s # 0
    BY <2>1 DEF StepRecord, TrueRecord, Steps
  <2> QED
    BY <2>2 DEF TrueRecord, JobsGrow
<1>2. CompleteRecord(s, record)'
  <2> SUFFICES ASSUME NEW j \in Jobs, jobs'[j].step = s
               PROVE  \/ record.job = j
                      \/ record.job = NoJob /\ record.state \in {"NOT_STARTED", "UNKNOWN"}
    BY DEF CompleteRecord
  <2>1. CASE jobs[j].step = s
    BY <2>1 DEF CompleteRecord
  <2>2. CASE jobs[j].step # s
    <3>1. jobs[j].step = 0 /\ s # 0
      BY <2>2 DEF JobsGrow, Steps
    <3>2. s >= StartStep /\ Untouched(s)
      BY <3>1, StartStepAssumption DEF JobsGrow, StartingSteps
    <3> QED
      BY <3>2 DEF Fresh
  <2> QED
    BY <2>1, <2>2
<1>3. s >= StartStep /\ Untouched(s)' => Fresh(record)
  BY DEF TouchedStays
<1>4. Fresh(record)' <=> Fresh(record)
  BY DEF Fresh
<1> QED
  BY <1>1, <1>2, <1>3, <1>4

\* ... and so does a copy.
LEMMA KeepCopy ==
    ASSUME TypeOK, JobsGrow, TouchedStays, NEW w, GoodCopy(w)
    PROVE  GoodCopy(w)'
<1>1. \A s \in Steps : w[s] \in StepRecord
  BY DEF GoodCopy, Workflows
<1> QED
  BY <1>1, KeepRecord DEF GoodCopy

\* A verified prerequisite stays verified.
LEMMA KeepVerified ==
    ASSUME TypeOK, JobsGrow, NEW s \in Steps, Verified(s)
    PROVE  Verified(s)'
<1>1. CASE s > StartStep
  <2>1. PICK k \in Jobs : jobs[k].step = s - 1 /\ jobs[k].st = "completed" /\ jobs[k].out = "good"
    BY <1>1 DEF Verified
  <2>2. s - 1 # 0
    BY <1>1, StartStepAssumption DEF Steps, StartingSteps
  <2> QED
    BY <2>1, <2>2 DEF JobsGrow, Verified
<1>2. CASE ~(s > StartStep)
  BY <1>2 DEF Verified
<1> QED
  BY <1>1, <1>2

\* Copies that were there, or are good, are good.
LEMMA KeepCopies ==
    ASSUME Inv, JobsGrow, TouchedStays,
           \A w \in Copies' : w \in Copies \/ GoodCopy(w)'
    PROVE  GoodCopies'
<1>1. \A w \in Copies : GoodCopy(w)'
  BY KeepCopy DEF Inv, GoodCopies
<1> QED
  BY <1>1 DEF GoodCopies

\* A step that leaves the jobs alone, removes no directory and makes no new
\* owner disturbs nothing but the copies and what its client knows.
LEMMA NoNewOwner ==
    ASSUME Inv, UNCHANGED jobs, dirs \subseteq dirs',
           \A d \in Clients : Owns(d)' => Owns(d) /\ step'[d] = step[d]
    PROVE  /\ JobsGrow /\ TouchedStays
           /\ OwnerAlone' /\ JobsKnown' /\ AtMostOneDispatch'
<1> USE DEF Inv
<1>1. JobsGrow
  BY DEF JobsGrow
<1>2. \A s : Taken(s) => Taken(s)'
  BY DEF Taken
<1>3. TouchedStays
  BY <1>2 DEF TouchedStays, Untouched
<1>4. OwnerAlone'
  BY <1>2 DEF OwnerAlone
<1>5. JobsKnown'
  BY <1>2 DEF JobsKnown, Verified
<1>6. AtMostOneDispatch'
  BY DEF AtMostOneDispatch
<1> QED
  BY <1>1, <1>3, <1>4, <1>5, <1>6

----------------------------------------------------------------------------
(* The initial state, and the records a new project starts with.           *)

\* Every record of a new project is good while no job exists for its step.
LEMMA InitialCopy ==
    ASSUME \A j \in Jobs : jobs[j].step # 0 => jobs[j].step \in StartStep..3
    PROVE  GoodCopy(NoProject.steps)
<1>1. NoProject.steps = InitialSteps(StartStep)
  BY DEF NoProject
<1> SUFFICES ASSUME NEW s \in Steps PROVE GoodRecord(s, InitialSteps(StartStep)[s])
  BY <1>1, InitialStepsType DEF GoodCopy
<1>2. InitialSteps(StartStep)[s] =
        [state |-> IF s < StartStep THEN "SKIPPED" ELSE "NOT_STARTED", job |-> NoJob, err |-> "none"]
  BY DEF InitialSteps
<1>3. CompleteRecord(s, InitialSteps(StartStep)[s])
  BY <1>2, StartStepAssumption DEF CompleteRecord, StartingSteps, Steps
<1>4. TrueRecord(s, InitialSteps(StartStep)[s])
  BY <1>2 DEF TrueRecord
<1> QED
  BY <1>2, <1>3, <1>4, StartStepAssumption DEF GoodRecord, Fresh, StartingSteps, Steps

\* The initial state satisfies the invariant.
LEMMA InitInv == Init => Inv
<1> SUFFICES ASSUME Init PROVE Inv
  OBVIOUS
<1>1. TypeOK
  BY InitType
<1>2. \A j \in Jobs : jobs[j].step = 0
  BY DEF Init
<1>3. GoodCopies
  <2>1. \A w \in Copies : w = NoProject.steps
    BY DEF Init, Copies
  <2> QED
    BY <1>2, <2>1, InitialCopy DEF GoodCopies
<1>4. OwnerAlone /\ ClientKnows
  BY DEF Init, OwnerAlone, ClientKnows, Knows, Owns
<1>5. JobsKnown /\ AtMostOneDispatch
  BY <1>2 DEF JobsKnown, AtMostOneDispatch
<1> QED
  BY <1>1, <1>3, <1>4, <1>5 DEF Inv

----------------------------------------------------------------------------
(* The steps.  Each of the following lemmas is about one action or a few   *)
(* that disturb the invariant in the same way.                             *)

\* A client that does not move keeps what it knows.
LEMMA KeepKnows ==
    ASSUME Inv, JobsGrow, NEW d \in Clients,
           pc'[d] = pc[d], step'[d] = step[d], view'[d] = view[d]
    PROVE  Knows(d)'
<1>1. Knows(d) /\ step[d] \in Steps
  BY DEF Inv, ClientKnows, TypeOK
<1>2. Verified(step[d]) => Verified(step[d])'
  BY <1>1, KeepVerified DEF Inv
<1>3. pc[d] = "assess" => view[d].steps[step[d]].job \in Jobs
  BY <1>1 DEF Knows, Inv, TypeOK, Manifests, Workflows, StepRecord
<1> QED
  BY <1>1, <1>2, <1>3 DEF Knows, JobsGrow, Verified

\* A step of client c that shows only old copies, or good ones, and tells it
\* nothing new, preserves the invariant.
LEMMA ClientStepInv ==
    ASSUME Inv, TypeOK', NEW c \in Clients,
           JobsGrow, TouchedStays, OwnerAlone', JobsKnown', AtMostOneDispatch', Knows(c)',
           \A d \in Clients \ {c} : pc'[d] = pc[d] /\ step'[d] = step[d] /\ view'[d] = view[d],
           \A w \in Copies' : w \in Copies \/ GoodCopy(w)'
    PROVE  Inv'
<1>1. ClientKnows'
  BY KeepKnows DEF ClientKnows
<1> QED
  BY <1>1, KeepCopies DEF Inv

\* Replacing one step of a good copy truthfully gives a good copy.
LEMMA ReplaceStep ==
    ASSUME TypeOK, JobsGrow, TouchedStays, NEW w, GoodCopy(w), NEW s \in Steps,
           NEW state \in StepStates, NEW job \in Jobs \cup {NoJob}, NEW err \in Errors,
           GoodRecord(s, [state |-> state, job |-> job, err |-> err])'
    PROVE  GoodCopy(WithStep(w, s, state, job, err))'
<1> DEFINE new == WithStep(w, s, state, job, err)
<1>1. w \in Workflows
  BY DEF GoodCopy
<1>2. /\ new \in Workflows /\ new[s] = [state |-> state, job |-> job, err |-> err]
      /\ \A t \in Steps : t # s => new[t] = w[t]
  BY <1>1, WithStepFacts
<1>3. GoodCopy(w)'
  BY KeepCopy
<1>4. ASSUME NEW t \in Steps PROVE GoodRecord(t, new[t])'
  BY <1>2, <1>3 DEF GoodCopy
<1> QED
  BY <1>2, <1>4 DEF GoodCopy

\* Creating the project, up to the point where the inputs are uploaded.
LEMMA CreateInv ==
    ASSUME Inv, TypeOK', NEW c \in Clients,
           AllocateRoot(c) \/ WriteInitial(c) \/ MakeStepDirectories(c)
    PROVE  Inv'
<1> USE DEF Inv
<1>0. StartStep \in 1..3
  BY StartStepAssumption DEF StartingSteps
<1>1. CASE AllocateRoot(c)
  <2>1. ~Taken(StartStep) /\ Taken(StartStep)' /\ UNCHANGED jobs
    BY <1>1 DEF AllocateRoot, Taken
  <2>2. \A d \in Clients : Owns(d)' => (d = c /\ step'[d] = StartStep) \/ (d # c /\ Owns(d) /\ step'[d] = step[d])
    BY <1>1 DEF AllocateRoot, Goto, Owns, TypeOK
  <2>3. \A s : Taken(s) => Taken(s)'
    BY <1>1 DEF AllocateRoot, Taken
  <2>4. JobsGrow
    BY <2>1 DEF JobsGrow
  <2>5. TouchedStays
    BY <2>1, <2>2, <2>3 DEF TouchedStays, Untouched
  <2>6. \A d \in Clients : Owns(d) => step[d] # StartStep
    BY <2>1 DEF OwnerAlone
  <2>7. \A j \in Jobs : jobs[j].step # StartStep
    BY <1>0, <2>1 DEF JobsKnown
  <2>8. OwnerAlone'
    <3>1. ASSUME NEW d \in Clients, Owns(d)'
          PROVE  /\ step'[d] \in StartStep..3 /\ Taken(step[d])'
                 /\ \A j \in Jobs : jobs'[j].step # step'[d]
      BY <3>1, <1>0, <2>1, <2>2, <2>3, <2>7 DEF OwnerAlone
    <3>2. ASSUME NEW d \in Clients, Owns(d)', NEW e \in Clients, Owns(e)', step'[e] = step'[d]
          PROVE  d = e
      BY <3>2, <2>2, <2>6 DEF OwnerAlone
    <3> QED
      BY <3>1, <3>2 DEF OwnerAlone
  <2>9. JobsKnown' /\ AtMostOneDispatch'
    BY <2>1, <2>3 DEF JobsKnown, AtMostOneDispatch, Verified
  <2>10. Knows(c)'
    BY <1>1 DEF AllocateRoot, Goto, Knows, TypeOK
  <2>11. \A d \in Clients \ {c} : pc'[d] = pc[d] /\ step'[d] = step[d] /\ view'[d] = view[d]
    BY <1>1 DEF AllocateRoot, Goto, TypeOK
  <2>12. Copies' = Copies
    BY <1>1 DEF AllocateRoot, Copies
  <2> QED
    BY <2>4, <2>5, <2>8, <2>9, <2>10, <2>11, <2>12, ClientStepInv
<1>2. CASE WriteInitial(c)
  <2>1. \A d \in Clients : Owns(d)' => Owns(d) /\ step'[d] = step[d]
    BY <1>2 DEF WriteInitial, Goto, Owns, TypeOK
  <2>2. /\ JobsGrow /\ TouchedStays
        /\ OwnerAlone' /\ JobsKnown' /\ AtMostOneDispatch'
    BY <1>2, <2>1, NoNewOwner DEF WriteInitial
  <2>3. Knows(c)'
    BY <1>2 DEF WriteInitial, Goto, Knows, TypeOK, ClientKnows
  <2>4. \A d \in Clients \ {c} : pc'[d] = pc[d] /\ step'[d] = step[d] /\ view'[d] = view[d]
    BY <1>2 DEF WriteInitial, Goto, TypeOK
  <2>5. GoodCopy(InitialSteps(StartStep))'
    BY <2>2, InitialCopy, KeepCopy DEF JobsKnown, NoProject
  <2>6. \A w \in Copies' : w \in Copies \/ w = InitialSteps(StartStep)
    BY <1>2 DEF WriteInitial, Copies, TypeOK
  <2> QED
    BY <2>2, <2>3, <2>4, <2>5, <2>6, ClientStepInv
<1>3. CASE MakeStepDirectories(c)
  <2>1. \A d \in Clients : Owns(d)' => Owns(d) /\ step'[d] = step[d]
    BY <1>3 DEF MakeStepDirectories, Goto, Owns, TypeOK
  <2>2. /\ JobsGrow /\ TouchedStays
        /\ OwnerAlone' /\ JobsKnown' /\ AtMostOneDispatch'
    BY <1>3, <2>1, NoNewOwner DEF MakeStepDirectories
  <2>3. Knows(c)'
    BY <1>0, <1>3 DEF MakeStepDirectories, Goto, Knows, TypeOK, ClientKnows, Verified
  <2>4. \A d \in Clients \ {c} : pc'[d] = pc[d] /\ step'[d] = step[d] /\ view'[d] = view[d]
    BY <1>3 DEF MakeStepDirectories, Goto, TypeOK
  <2>5. Copies' = Copies
    BY <1>3 DEF MakeStepDirectories, Copies
  <2> QED
    BY <2>2, <2>3, <2>4, <2>5, ClientStepInv
<1> QED
  BY <1>1, <1>2, <1>3

\* Continuing with a step: the checks, and the exclusive mkdir.
LEMMA ClaimInv ==
    ASSUME Inv, TypeOK', NEW c \in Clients, Claim(c)
    PROVE  Inv'
<1> USE DEF Inv
<1>0. StartStep \in 1..3
  BY StartStepAssumption DEF StartingSteps
<1>1. ASSUME NEW s \in {2, 3}, Continue(c, s) PROVE Inv'
  <2>1. \A d \in Clients : Owns(d)' => Owns(d) /\ step'[d] = step[d]
    BY <1>1 DEF Continue, Goto, Owns, TypeOK
  <2>2. /\ JobsGrow /\ TouchedStays
        /\ OwnerAlone' /\ JobsKnown' /\ AtMostOneDispatch'
    BY <1>1, <2>1, NoNewOwner DEF Continue
  <2>3. /\ GoodRecord(s - 1, manifest.steps[s - 1])
        /\ manifest.steps[s - 1].state = "SUCCEEDED"
        /\ manifest.steps[s - 1] \in StepRecord
    <3>1. manifest.steps \in Copies /\ s - 1 \in Steps
      BY DEF Copies, Steps
    <3>2. GoodCopy(manifest.steps)
      BY <3>1 DEF GoodCopies
    <3> QED
      BY <1>1, <3>1, <3>2 DEF GoodCopy, Workflows, Continue, CanContinue
  <2>4. s > StartStep /\ Verified(s)
    BY <1>0, <2>3 DEF GoodRecord, TrueRecord, StepRecord, Verified
  <2>5. Knows(c)'
    BY <1>1, <2>2, <2>4, KeepVerified DEF Continue, Goto, Knows, TypeOK, Steps, Verified
  <2>6. \A d \in Clients \ {c} : pc'[d] = pc[d] /\ step'[d] = step[d] /\ view'[d] = view[d]
    BY <1>1 DEF Continue, Goto, TypeOK
  <2>7. \A w \in Copies' : w \in Copies
    BY <1>1 DEF Continue, Copies, TypeOK
  <2> QED
    BY <2>2, <2>5, <2>6, <2>7, ClientStepInv
<1>2. CASE ClaimDirectory(c)
  <2> DEFINE s == step[c]
  <2>1. s \in 2..3 /\ s > StartStep /\ Verified(s) /\ s \in Steps
    BY <1>2 DEF ClaimDirectory, ClientKnows, Knows, Steps
  <2>2. ~Taken(s) /\ Taken(s)' /\ UNCHANGED <<jobs, step>>
    BY <1>2, <2>1 DEF ClaimDirectory, FreeDirectory, Taken
  <2>3. \A d \in Clients : Owns(d)' => d = c \/ Owns(d)
    BY <1>2 DEF ClaimDirectory, Goto, Owns, TypeOK
  <2>4. \A t : Taken(t) => Taken(t)'
    BY <1>2 DEF ClaimDirectory, Taken
  <2>5. JobsGrow
    BY <2>2 DEF JobsGrow
  <2>6. TouchedStays
    BY <2>2, <2>3, <2>4 DEF TouchedStays, Untouched
  <2>7. \A d \in Clients : Owns(d) => step[d] # s
    BY <2>2 DEF OwnerAlone
  <2>8. \A j \in Jobs : jobs[j].step # s
    BY <2>1, <2>2 DEF JobsKnown
  <2>9. OwnerAlone'
    <3>1. ASSUME NEW d \in Clients, Owns(d)'
          PROVE  /\ step'[d] \in StartStep..3 /\ Taken(step[d])'
                 /\ \A j \in Jobs : jobs'[j].step # step'[d]
      BY <3>1, <1>0, <2>1, <2>2, <2>3, <2>4, <2>8 DEF OwnerAlone
    <3>2. ASSUME NEW d \in Clients, Owns(d)', NEW e \in Clients, Owns(e)', step'[e] = step'[d]
          PROVE  d = e
      BY <3>2, <2>2, <2>3, <2>7 DEF OwnerAlone
    <3> QED
      BY <3>1, <3>2 DEF OwnerAlone
  <2>10. JobsKnown' /\ AtMostOneDispatch'
    BY <2>2, <2>4 DEF JobsKnown, AtMostOneDispatch, Verified
  <2>11. Knows(c)'
    BY <1>2, <2>1, <2>2 DEF ClaimDirectory, Goto, Knows, TypeOK, Verified
  <2>12. \A d \in Clients \ {c} : pc'[d] = pc[d] /\ step'[d] = step[d] /\ view'[d] = view[d]
    BY <1>2 DEF ClaimDirectory, Goto, TypeOK
  <2>13. Copies' = Copies
    BY <1>2 DEF ClaimDirectory, Copies
  <2> QED
    BY <2>5, <2>6, <2>9, <2>10, <2>11, <2>12, <2>13, ClientStepInv
<1>3. CASE ClaimConflict(c) \/ ClaimLost(c)
  <2>1. \A d \in Clients : Owns(d)' => Owns(d) /\ step'[d] = step[d]
    BY <1>3 DEF ClaimConflict, ClaimLost, Goto, Owns, TypeOK
  <2>2. /\ JobsGrow /\ TouchedStays
        /\ OwnerAlone' /\ JobsKnown' /\ AtMostOneDispatch'
    BY <1>3, <2>1, NoNewOwner DEF ClaimConflict, ClaimLost
  <2>3. Knows(c)'
    BY <1>3 DEF ClaimConflict, ClaimLost, Goto, Knows, TypeOK
  <2>4. \A d \in Clients \ {c} : pc'[d] = pc[d] /\ step'[d] = step[d] /\ view'[d] = view[d]
    BY <1>3 DEF ClaimConflict, ClaimLost, Goto, TypeOK
  <2>5. Copies' = Copies
    BY <1>3 DEF ClaimConflict, ClaimLost, Copies
  <2> QED
    BY <2>2, <2>3, <2>4, <2>5, ClientStepInv
<1> QED
  BY <1>1, <1>2, <1>3 DEF Claim

\* The workflow record a client loaded is a good copy.
LEMMA ViewIsGood ==
    ASSUME Inv, NEW c \in Clients
    PROVE  /\ GoodCopy(view[c].steps)
           /\ view[c].steps[step[c]] \in StepRecord
           /\ GoodRecord(step[c], view[c].steps[step[c]])
<1>1. view[c].steps \in Copies /\ step[c] \in Steps
  BY DEF Copies, Inv, TypeOK
<1> QED
  BY <1>1 DEF Inv, GoodCopies, GoodCopy, Workflows

\* An owner that records an outcome gives up its step: the recorded record is
\* true after the step, and every job of that step is in it or may be unknown.
LEMMA OwnerRecordsInv ==
    ASSUME Inv, TypeOK', NEW c \in Clients, Owns(c), JobsGrow,
           NEW state \in StepStates, NEW job \in Jobs \cup {NoJob}, NEW err \in Errors,
           WillPersist(c, state, job, err),
           TrueRecord(step[c], [state |-> state, job |-> job, err |-> err])',
           CompleteRecord(step[c], [state |-> state, job |-> job, err |-> err])',
           dirs \subseteq dirs', OwnerAlone', JobsKnown', AtMostOneDispatch',
           UNCHANGED <<manifest, view, seen, step>>
    PROVE  Inv'
<1> USE DEF Inv
<1>1. /\ \A d \in Clients : Owns(d)' => d # c /\ Owns(d) /\ step'[d] = step[d]
      /\ \A s : Taken(s) => Taken(s)'
  BY DEF WillPersist, Goto, Owns, TypeOK, Taken
<1>2. TouchedStays
  BY <1>1 DEF TouchedStays, Untouched
<1>3. step[c] \in Steps /\ step[c] >= StartStep
  BY StartStepAssumption DEF OwnerAlone, TypeOK, Steps, StartingSteps
<1>4. ~Untouched(step[c])'
  BY <1>1 DEF OwnerAlone, Untouched
<1>5. GoodRecord(step[c], [state |-> state, job |-> job, err |-> err])'
  BY <1>3, <1>4, StartStepAssumption DEF GoodRecord, StartingSteps, Steps
<1>6. GoodCopy(WithStep(view[c].steps, step[c], state, job, err))'
  BY <1>2, <1>3, <1>5, ViewIsGood, ReplaceStep
<1>7. \A w \in Copies' : w \in Copies \/ w = WithStep(view[c].steps, step[c], state, job, err)
  BY DEF WillPersist, Copies, TypeOK
<1>8. Knows(c)'
  BY DEF WillPersist, Goto, Knows, TypeOK
<1>9. \A d \in Clients \ {c} : pc'[d] = pc[d] /\ step'[d] = step[d] /\ view'[d] = view[d]
  BY DEF WillPersist, Goto, TypeOK
<1>10. \A w \in Copies' : w \in Copies \/ GoodCopy(w)'
  BY <1>6, <1>7
<1> QED
  BY <1>2, <1>8, <1>9, <1>10, ClientStepInv

\* The scheduler accepts a job from the owner of a step, which gives it up.
LEMMA AcceptFacts ==
    ASSUME Inv, NEW c \in Clients, pc[c] = "dispatch", NEW j \in Jobs, Accept(j, step[c]),
           UNCHANGED <<step, dirs>>,
           \A d \in Clients : Owns(d)' => d # c /\ Owns(d)
    PROVE  /\ JobsGrow /\ OwnerAlone' /\ JobsKnown' /\ AtMostOneDispatch'
           /\ \A k \in Jobs : jobs'[k].step = step[c] => k = j
           /\ jobs'[j].step = step[c] /\ jobs'[j].st = "pending"
<1> USE DEF Inv
<1>0. StartStep \in 1..3
  BY StartStepAssumption DEF StartingSteps
<1>1. /\ Owns(c) /\ step[c] \in StartStep..3 /\ Taken(step[c]) /\ Verified(step[c])
      /\ \A k \in Jobs : jobs[k].step # step[c]
      /\ \A d \in Clients : Owns(d) /\ step[d] = step[c] => d = c
  BY DEF Owns, OwnerAlone, ClientKnows, Knows
<1>2. /\ jobs[j].step = 0 /\ jobs[j].st = "none"
      /\ jobs'[j].step = step[c] /\ jobs'[j].st = "pending"
      /\ \A k \in Jobs \ {j} : jobs'[k] = jobs[k]
  BY DEF Accept, TypeOK, JobsKnown
<1>3. JobsGrow
  BY <1>1, <1>2 DEF JobsGrow, Untouched
<1>4. OwnerAlone'
  <2> SUFFICES ASSUME NEW d \in Clients, Owns(d)'
               PROVE  /\ step[d] \in StartStep..3 /\ Taken(step[d])'
                      /\ \A k \in Jobs : jobs'[k].step # step[d]
                      /\ \A e \in Clients : Owns(e)' /\ step[e] = step[d] => e = d
    BY DEF OwnerAlone
  <2>1. d # c /\ Owns(d) /\ step[d] # step[c]
    BY <1>1
  <2>2. \A k \in Jobs : jobs'[k].step # step[d]
    BY <1>2, <2>1 DEF OwnerAlone
  <2> QED
    BY <2>1, <2>2 DEF OwnerAlone, Taken
<1>5. JobsKnown'
  <2> SUFFICES ASSUME NEW k \in Jobs
               PROVE  /\ jobs'[k].st = "none" => jobs'[k].step = 0
                      /\ jobs'[k].step # 0 =>
                           jobs'[k].step \in StartStep..3 /\ Taken(jobs[k].step)' /\ Verified(jobs[k].step)'
    BY DEF JobsKnown
  <2>1. CASE k = j
    <3>1. step[c] \in Steps /\ Verified(step[c])'
      BY <1>0, <1>1, <1>3, KeepVerified DEF Steps
    <3> QED
      BY <1>1, <1>2, <2>1, <3>1 DEF Taken, Verified
  <2>2. CASE k # j
    <3>1. jobs'[k] = jobs[k] /\ Taken(jobs[k].step)' = Taken(jobs[k].step)
      BY <1>2, <2>2 DEF Taken
    <3>2. jobs[k].step # 0 => Verified(jobs[k].step)'
      BY <1>0, <1>3, <3>1, KeepVerified DEF JobsKnown, Steps, Verified
    <3> QED
      BY <3>1, <3>2 DEF JobsKnown
  <2> QED
    BY <2>1, <2>2
<1>6. AtMostOneDispatch'
  BY <1>1, <1>2 DEF AtMostOneDispatch
<1>7. \A k \in Jobs : jobs'[k].step = step[c] => k = j
  BY <1>1, <1>2
<1> QED
  BY <1>2, <1>3, <1>4, <1>5, <1>6, <1>7

\* Recording that nothing was dispatched, or that nothing is known of it.
LEMMA NothingDispatchedInv ==
    ASSUME Inv, TypeOK', NEW c \in Clients, Owns(c), NEW state \in {"FAILED", "UNKNOWN"},
           WillPersist(c, state, NoJob, "submission"), dirs \subseteq dirs',
           UNCHANGED <<manifest, view, seen, step, jobs>>
    PROVE  Inv'
<1>1. \A d \in Clients : Owns(d)' => Owns(d) /\ step'[d] = step[d]
  BY DEF WillPersist, Goto, Owns, Inv, TypeOK
<1>2. /\ JobsGrow /\ OwnerAlone' /\ JobsKnown' /\ AtMostOneDispatch'
  BY <1>1, NoNewOwner
<1>3. TrueRecord(step[c], [state |-> state, job |-> NoJob, err |-> "submission"])'
  BY DEF TrueRecord
<1>4. CompleteRecord(step[c], [state |-> state, job |-> NoJob, err |-> "submission"])'
  BY DEF CompleteRecord, Inv, OwnerAlone
<1>5. state \in StepStates /\ "submission" \in Errors /\ NoJob \in Jobs \cup {NoJob}
  BY DEF StepStates, Errors
<1> QED
  BY <1>2, <1>3, <1>4, <1>5, OwnerRecordsInv

\* Submitting the owned step, with every outcome of the dispatch.
LEMMA SubmitInv ==
    ASSUME Inv, TypeOK', NEW c \in Clients, Submit(c) \/ InitializationFails(c)
    PROVE  Inv'
<1>1. CASE InitializationFails(c)
  <2>1. Owns(c) /\ dirs \subseteq dirs'
    BY <1>1 DEF InitializationFails, Owns
  <2> QED
    BY <1>1, <2>1, NothingDispatchedInv DEF InitializationFails
<1>2. CASE UploadInputs(c)
  <2>1. \A d \in Clients : Owns(d)' => Owns(d) /\ step'[d] = step[d]
    BY <1>2 DEF UploadInputs, Goto, Owns, Inv, TypeOK
  <2>2. /\ JobsGrow /\ TouchedStays
        /\ OwnerAlone' /\ JobsKnown' /\ AtMostOneDispatch'
    BY <1>2, <2>1, NoNewOwner DEF UploadInputs
  <2>3. Knows(c)'
    BY <1>2 DEF UploadInputs, Goto, Knows, Inv, TypeOK, ClientKnows, Verified
  <2>4. \A d \in Clients \ {c} : pc'[d] = pc[d] /\ step'[d] = step[d] /\ view'[d] = view[d]
    BY <1>2 DEF UploadInputs, Goto, Inv, TypeOK
  <2>5. Copies' = Copies
    BY <1>2 DEF UploadInputs, Copies
  <2> QED
    BY <2>2, <2>3, <2>4, <2>5, ClientStepInv
<1>3. CASE UploadFails(c) \/ DispatchRejected(c)
  <2>1. Owns(c)
    BY <1>3 DEF UploadFails, DispatchRejected, Owns
  <2> QED
    BY <1>3, <2>1, NothingDispatchedInv DEF UploadFails, DispatchRejected
<1>4. CASE DispatchAccepted(c)
  <2>1. PICK j \in Jobs : Accept(j, step[c]) /\ WillPersist(c, "QUEUED", j, "none")
    BY <1>4 DEF DispatchAccepted
  <2>2. /\ Owns(c) /\ pc[c] = "dispatch" /\ UNCHANGED <<manifest, view, seen, step, dirs>>
        /\ \A d \in Clients : Owns(d)' => d # c /\ Owns(d)
    BY <1>4, <2>1 DEF DispatchAccepted, WillPersist, Goto, Owns, Inv, TypeOK
  <2>3. /\ JobsGrow /\ OwnerAlone' /\ JobsKnown' /\ AtMostOneDispatch'
        /\ \A k \in Jobs : jobs'[k].step = step[c] => k = j
        /\ jobs'[j].step = step[c] /\ jobs'[j].st = "pending"
    BY <2>1, <2>2, AcceptFacts
  <2>4. TrueRecord(step[c], [state |-> "QUEUED", job |-> j, err |-> "none"])'
    BY <2>2, <2>3 DEF TrueRecord
  <2>5. CompleteRecord(step[c], [state |-> "QUEUED", job |-> j, err |-> "none"])'
    BY <2>2, <2>3 DEF CompleteRecord
  <2>6. "QUEUED" \in StepStates /\ "none" \in Errors
    BY DEF StepStates, Errors
  <2> QED
    BY <2>1, <2>2, <2>3, <2>4, <2>5, <2>6, OwnerRecordsInv
<1>5. CASE DispatchUnknown(c)
  <2>1. /\ Owns(c) /\ pc[c] = "dispatch" /\ WillPersist(c, "UNKNOWN", NoJob, "submission")
        /\ UNCHANGED <<manifest, view, seen, step, dirs>>
        /\ \A d \in Clients : Owns(d)' => d # c /\ Owns(d)
    BY <1>5 DEF DispatchUnknown, UnknownOutcome, WillPersist, Goto, Owns, Inv, TypeOK
  <2>2. CASE UNCHANGED jobs
    BY <2>1, <2>2, NothingDispatchedInv
  <2>3. ASSUME NEW j \in Jobs, Accept(j, step[c]) PROVE Inv'
    <3>1. JobsGrow /\ OwnerAlone' /\ JobsKnown' /\ AtMostOneDispatch'
      BY <2>1, <2>3, AcceptFacts
    <3>2. /\ TrueRecord(step[c], [state |-> "UNKNOWN", job |-> NoJob, err |-> "submission"])'
          /\ CompleteRecord(step[c], [state |-> "UNKNOWN", job |-> NoJob, err |-> "submission"])'
      BY DEF TrueRecord, CompleteRecord
    <3>3. "UNKNOWN" \in StepStates /\ "submission" \in Errors
      BY DEF StepStates, Errors
    <3> QED
      BY <2>1, <3>1, <3>2, <3>3, OwnerRecordsInv
  <2> QED
    BY <1>5, <2>2, <2>3 DEF DispatchUnknown
<1> QED
  BY <1>1, <1>2, <1>3, <1>4, <1>5 DEF Submit

\* A client that owns nothing before and after, and leaves jobs, directories and
\* the other clients alone.
LEMMA QuietInv ==
    ASSUME Inv, TypeOK', NEW c \in Clients, ~Owns(c)', UNCHANGED <<jobs, dirs>>, Knows(c)',
           \A d \in Clients \ {c} : pc'[d] = pc[d] /\ step'[d] = step[d] /\ view'[d] = view[d],
           \A w \in Copies' : w \in Copies \/ ((JobsGrow /\ TouchedStays) => GoodCopy(w)')
    PROVE  Inv'
<1>1. \A d \in Clients : Owns(d)' => Owns(d) /\ step'[d] = step[d]
  BY DEF Owns
<1>2. /\ JobsGrow /\ TouchedStays
      /\ OwnerAlone' /\ JobsKnown' /\ AtMostOneDispatch'
  BY <1>1, NoNewOwner
<1>3. \A w \in Copies' : w \in Copies \/ GoodCopy(w)'
  BY <1>2
<1> QED
  BY <1>2, <1>3, ClientStepInv

\* What refresh persists after a query or an assessment is a true record.
LEMMA PersistStepInv ==
    ASSUME Inv, TypeOK', NEW c \in Clients, pc[c] \in {"query", "assess"},
           NEW state \in StepStates, NEW err \in Errors, PersistStep(c, state, err),
           LET job == jobs[view[c].steps[step[c]].job] IN
             /\ state = "SUCCEEDED" => job.st = "completed" /\ job.out = "good"
             /\ state = "SCHEDULER_COMPLETED" => job.st = "completed"
             /\ state = "FAILED" => job.st \in {"completed", "failed"},
           UNCHANGED <<manifest, view, step, dirs, jobs>>
    PROVE  Inv'
<1> DEFINE old == view[c].steps[step[c]]
           new == [state |-> state, job |-> old.job, err |-> err]
           w   == WithStep(view[c].steps, step[c], state, old.job, err)
<1>1. /\ GoodCopy(view[c].steps) /\ old \in StepRecord /\ GoodRecord(step[c], old)
      /\ old.job \in Jobs /\ step[c] \in Steps
  BY ViewIsGood DEF Inv, ClientKnows, Knows, StepRecord, TypeOK
<1>2. ASSUME JobsGrow, TouchedStays PROVE GoodCopy(w)'
  <2>1. TrueRecord(step[c], new)'
    BY <1>1, JobsAssumption DEF GoodRecord, TrueRecord
  <2>2. CompleteRecord(step[c], new)'
    BY <1>1, JobsAssumption DEF GoodRecord, CompleteRecord
  <2>3. step[c] >= StartStep /\ ~Untouched(step[c])'
    BY <1>1, <1>2, JobsAssumption, StartStepAssumption
       DEF GoodRecord, Fresh, TouchedStays, Steps, StartingSteps
  <2>4. GoodRecord(step[c], new)'
    BY <1>1, <2>1, <2>2, <2>3, StartStepAssumption DEF GoodRecord, Steps, StartingSteps
  <2> QED
    BY <1>1, <1>2, <2>4, ReplaceStep DEF Inv
<1>3. pc'[c] \in {"idle", "persist"} /\ \A d \in Clients \ {c} : pc'[d] = pc[d]
  BY DEF PersistStep, WillPersist, Goto, Inv, TypeOK
<1>4. \A v \in Copies' : v \in Copies \/ v = w
  BY DEF PersistStep, WillPersist, Copies, Inv, TypeOK
<1>5. Knows(c)' /\ ~Owns(c)'
  BY <1>3 DEF Knows, Owns
<1>6. \A v \in Copies' : v \in Copies \/ ((JobsGrow /\ TouchedStays) => GoodCopy(v)')
  BY <1>2, <1>4
<1> QED
  BY <1>3, <1>5, <1>6, QuietInv

\* Refresh.
LEMMA RefreshInv ==
    ASSUME Inv, TypeOK', NEW c \in Clients, Refresh(c)
    PROVE  Inv'
<1>1. CASE BeginRefresh(c)
  <2> DEFINE s == ActiveStep(manifest.steps, StartStep)
  <2>1. /\ step' = [step EXCEPT ![c] = s] /\ view' = [view EXCEPT ![c] = manifest]
        /\ UNCHANGED <<manifest, cand, dirs, jobs>> /\ pc[c] = "idle"
    BY <1>1 DEF BeginRefresh
  <2>2. s \in Steps /\ GoodRecord(s, manifest.steps[s]) /\ manifest.steps[s] \in StepRecord
    <3>1. s \in Steps
      BY ActiveStepFacts, StartStepAssumption DEF Inv, TypeOK, Manifests
    <3>2. GoodCopy(manifest.steps)
      BY DEF Inv, GoodCopies, Copies
    <3> QED
      BY <3>1, <3>2 DEF GoodCopy, Workflows
  <2>3. /\ pc'[c] \in {"idle", "assess", "query"}
        /\ pc'[c] = "assess" => manifest.steps[s].state = "SCHEDULER_COMPLETED"
        /\ pc'[c] = "query" => manifest.steps[s].job # NoJob
        /\ \A d \in Clients \ {c} : pc'[d] = pc[d]
    BY <1>1, <2>1 DEF BeginRefresh, Goto, Inv, TypeOK
  <2>4. view'[c].steps[step'[c]] = manifest.steps[s]
    BY <2>1 DEF Inv, TypeOK
  <2>5. Knows(c)' /\ ~Owns(c)'
    BY <2>1, <2>2, <2>3, <2>4 DEF Knows, Owns, GoodRecord, TrueRecord
  <2>6. \A d \in Clients \ {c} : pc'[d] = pc[d] /\ step'[d] = step[d] /\ view'[d] = view[d]
    BY <2>1, <2>3 DEF Inv, TypeOK
  <2>7. \A w \in Copies' : w \in Copies
    <3>1. seen' \in {seen, [seen EXCEPT ![c] = manifest]}
      BY <1>1 DEF BeginRefresh
    <3> QED
      BY <2>1, <3>1 DEF Copies, Inv, TypeOK
  <2> QED
    BY <2>1, <2>5, <2>6, <2>7, QuietInv
<1>2. CASE Query(c)
  <2> DEFINE job == jobs[view[c].steps[step[c]].job]
  <2>1. pc[c] = "query" /\ UNCHANGED <<manifest, view, step, dirs, jobs>>
    BY <1>2 DEF Query
  <2>2. \/ \E state \in {"QUEUED", "RUNNING"} : PersistStep(c, state, "none")
        \/ Goto(c, "idle") /\ seen' = [seen EXCEPT ![c] = view[c]] /\ UNCHANGED cand
        \/ job.st = "failed" /\ PersistStep(c, "FAILED", "scheduler")
        \/ job.st = "completed" /\ Goto(c, "assess") /\ UNCHANGED <<cand, seen>>
    BY <1>2 DEF Query, Answers
  <2>3. ASSUME NEW state \in {"QUEUED", "RUNNING"}, PersistStep(c, state, "none") PROVE Inv'
    BY <2>1, <2>3, PersistStepInv DEF StepStates, Errors
  <2>4. CASE Goto(c, "idle") /\ seen' = [seen EXCEPT ![c] = view[c]] /\ UNCHANGED cand
    <3>1. \A d \in Clients \ {c} : pc'[d] = pc[d] /\ step'[d] = step[d] /\ view'[d] = view[d]
      BY <2>1, <2>4 DEF Goto, Inv, TypeOK
    <3>2. Knows(c)' /\ ~Owns(c)'
      BY <2>4 DEF Goto, Inv, TypeOK, Knows, Owns
    <3>3. \A w \in Copies' : w \in Copies
      BY <2>1, <2>4 DEF Copies, Inv, TypeOK
    <3> QED
      BY <2>1, <3>1, <3>2, <3>3, QuietInv
  <2>5. CASE job.st = "failed" /\ PersistStep(c, "FAILED", "scheduler")
    BY <2>1, <2>5, PersistStepInv DEF StepStates, Errors
  <2>6. CASE job.st = "completed" /\ Goto(c, "assess") /\ UNCHANGED <<cand, seen>>
    <3>1. \A d \in Clients \ {c} : pc'[d] = pc[d] /\ step'[d] = step[d] /\ view'[d] = view[d]
      BY <2>1, <2>6 DEF Goto, Inv, TypeOK
    <3>2. Knows(c)' /\ ~Owns(c)'
      BY <2>1, <2>6 DEF Goto, Inv, TypeOK, Knows, Owns, ClientKnows
    <3>3. Copies' = Copies
      BY <2>1, <2>6 DEF Copies
    <3> QED
      BY <2>1, <3>1, <3>2, <3>3, QuietInv
  <2> QED
    BY <2>2, <2>3, <2>4, <2>5, <2>6
<1>3. CASE Assess(c)
  <2> DEFINE job == jobs[view[c].steps[step[c]].job]
             verdict == Verdict(step[c], job.out)
  <2>1. /\ pc[c] = "assess" /\ PersistStep(c, verdict.state, verdict.err)
        /\ UNCHANGED <<manifest, view, step, dirs, jobs>>
    BY <1>3 DEF Assess
  <2>2. /\ verdict.state \in StepStates /\ verdict.err \in Errors
        /\ verdict.state = "SUCCEEDED" => job.out = "good"
    BY DEF Verdict, StepStates, Errors
  <2>3. job.st = "completed"
    BY <2>1 DEF Inv, ClientKnows, Knows
  <2> QED
    BY <2>1, <2>2, <2>3, PersistStepInv
<1> QED
  BY <1>1, <1>2, <1>3 DEF Refresh

\* Recording and faults move copies about; a dispatch that the process does not
\* survive adds a job to a step that no copy says anything of.
LEMMA RecordInv ==
    ASSUME Inv, TypeOK', NEW c \in Clients, Record(c) \/ Disconnect(c) \/ Crash(c)
    PROVE  Inv'
<1>1. UNCHANGED <<jobs, dirs, step, view, cand>>
  BY DEF Record, PersistCheck, PersistRename, Store!Check, Store!CheckFails, Store!Rename,
         Disconnect, Crash
<1>2. pc'[c] \in {"idle", "rename"} /\ \A d \in Clients \ {c} : pc'[d] = pc[d]
  BY DEF Record, PersistCheck, PersistRename, Store!Check, Store!CheckFails, Store!Rename,
         Disconnect, Crash, Goto, Inv, TypeOK
<1>3. Knows(c)' /\ ~Owns(c)'
  BY <1>2 DEF Knows, Owns
<1>4. \A w \in Copies' : w \in Copies \/ w = NoProject.steps
  <2>1. CASE PersistRename(c)
    <3>1. manifest'.steps = cand[c] /\ cand[c] \in Copies
      BY <2>1 DEF PersistRename, Store!Rename, Store!Successor, Copies
    <3>2. seen' \in {seen, [seen EXCEPT ![c] = manifest']}
      BY <2>1 DEF PersistRename
    <3> QED
      BY <1>1, <3>1, <3>2 DEF Copies, Inv, TypeOK
  <2>2. CASE PersistCheck(c) \/ Disconnect(c)
    <3>1. Copies' = Copies
      BY <1>1, <2>2 DEF PersistCheck, Store!Check, Store!CheckFails, Disconnect, Copies
    <3> QED
      BY <3>1
  <2>3. CASE Crash(c)
    BY <1>1, <2>3 DEF Crash, Copies, Inv, TypeOK
  <2> QED
    BY <2>1, <2>2, <2>3 DEF Record
<1>5. JobsGrow /\ TouchedStays => GoodCopy(NoProject.steps)'
  BY InitialCopy, KeepCopy DEF Inv, JobsKnown
<1>6. \A w \in Copies' : w \in Copies \/ ((JobsGrow /\ TouchedStays) => GoodCopy(w)')
  BY <1>4, <1>5
<1>7. \A d \in Clients \ {c} : pc'[d] = pc[d] /\ step'[d] = step[d] /\ view'[d] = view[d]
  BY <1>1, <1>2
<1> QED
  BY <1>1, <1>3, <1>6, <1>7, QuietInv

\* The process ends right after the scheduler accepted its job.
LEMMA CrashInDispatchInv ==
    ASSUME Inv, TypeOK', NEW c \in Clients, CrashInDispatch(c)
    PROVE  Inv'
<1>1. PICK j \in Jobs : Accept(j, step[c])
  BY DEF CrashInDispatch
<1>2. /\ pc[c] = "dispatch" /\ UNCHANGED <<manifest, view, cand, step, dirs>>
      /\ \A d \in Clients : Owns(d)' => d # c /\ Owns(d)
      /\ pc'[c] = "idle" /\ \A d \in Clients \ {c} : pc'[d] = pc[d]
  BY DEF CrashInDispatch, Goto, Owns, Inv, TypeOK
<1>3. JobsGrow /\ OwnerAlone' /\ JobsKnown' /\ AtMostOneDispatch'
  BY <1>1, <1>2, AcceptFacts
<1>4. TouchedStays
  BY <1>2 DEF TouchedStays, Untouched, Taken
<1>5. \A w \in Copies' : w \in Copies \/ w = NoProject.steps
  BY <1>2 DEF CrashInDispatch, Copies, Inv, TypeOK
<1>6. GoodCopy(NoProject.steps)'
  BY <1>3, <1>4, InitialCopy, KeepCopy DEF Inv, JobsKnown
<1>7. Knows(c)'
  BY <1>2 DEF Knows
<1>8. \A w \in Copies' : w \in Copies \/ GoodCopy(w)'
  BY <1>5, <1>6
<1> QED
  BY <1>2, <1>3, <1>4, <1>7, <1>8, ClientStepInv

\* The scheduler changes jobs in the ways that JobsGrow allows.
LEMMA SchedulerInv ==
    ASSUME Inv, TypeOK', NEW j \in Jobs, Scheduler(j)
    PROVE  Inv'
<1>1. /\ UNCHANGED <<manifest, pc, view, cand, seen, step, dirs>>
      /\ \A k \in Jobs \ {j} : jobs'[k] = jobs[k]
      /\ jobs'[j].step = jobs[j].step /\ jobs[j].st # "none" /\ jobs'[j].st # "none"
      /\ jobs[j].st = "completed" => jobs'[j].st = "completed"
      /\ jobs[j].st # "failed"
      /\ jobs[j].st = "completed" /\ jobs[j].out = "good" => jobs'[j].out = "good"
  <2>1. PICK from, st, out, n :
          /\ JobStep(j, from, st, out, n)
          /\ jobs[j].st \in {"pending", "running", "completed"}
          /\ st \in {"pending", "running", "completed", "failed"}
          /\ jobs[j].st = "completed" => st = "completed"
          /\ jobs[j].st = "completed" /\ jobs[j].out = "good" => out = "good"
    BY DEF Scheduler, JobStarts, JobRequeued, JobCompletes, JobFails, OutputSettles, JobStep
  <2>2. jobs[j] = [step |-> jobs[j].step, st |-> jobs[j].st,
                   out |-> jobs[j].out, requeues |-> jobs[j].requeues]
    BY DEF Inv, TypeOK, JobRecord
  <2>3. jobs'[j] = [step |-> jobs[j].step, st |-> st, out |-> out, requeues |-> n]
    BY <2>1, <2>2 DEF JobStep, Inv, TypeOK, JobRecord
  <2>4. \A k \in Jobs \ {j} : jobs'[k] = jobs[k]
    BY <2>1 DEF JobStep, Inv, TypeOK
  <2>5. UNCHANGED <<manifest, pc, view, cand, seen, step, dirs>>
    BY <2>1 DEF JobStep
  <2>6. jobs'[j].step = jobs[j].step /\ jobs'[j].st = st /\ jobs'[j].out = out
    BY <2>3
  <2> QED
    BY <2>1, <2>4, <2>5, <2>6
<1>2. JobsGrow
  BY <1>1 DEF JobsGrow
<1>3. TouchedStays
  BY <1>1 DEF TouchedStays, Untouched, Taken, Owns
<1>4. \A k \in Jobs : jobs'[k].step = jobs[k].step
  BY <1>1
<1>5. GoodCopies'
  <2>1. Copies' = Copies
    BY <1>1 DEF Copies
  <2> QED
    BY <1>2, <1>3, <2>1, KeepCopies
<1>6. OwnerAlone' /\ AtMostOneDispatch'
  BY <1>1, <1>4 DEF Inv, OwnerAlone, AtMostOneDispatch, Owns, Taken
<1>7. ClientKnows'
  BY <1>1, <1>2, KeepKnows DEF ClientKnows
<1>8. JobsKnown'
  <2> SUFFICES ASSUME NEW k \in Jobs
               PROVE  /\ jobs'[k].st = "none" => jobs'[k].step = 0
                      /\ jobs'[k].step # 0 =>
                           jobs'[k].step \in StartStep..3 /\ Taken(jobs[k].step)' /\ Verified(jobs[k].step)'
    BY DEF JobsKnown
  <2>1. jobs[k].step # 0 => jobs[k].step \in Steps /\ Verified(jobs[k].step)
    BY StartStepAssumption DEF Inv, JobsKnown, Steps, StartingSteps
  <2>2. jobs[k].step # 0 => Verified(jobs[k].step)'
    BY <1>2, <1>4, <2>1, KeepVerified DEF Inv
  <2> QED
    BY <1>1, <1>4, <2>2 DEF Inv, JobsKnown, Taken
<1> QED
  BY <1>5, <1>6, <1>7, <1>8 DEF Inv

\* Every step preserves the invariant.
LEMMA StepInv == Inv /\ [Next]_vars => Inv'
<1> SUFFICES ASSUME Inv, [Next]_vars PROVE Inv'
  OBVIOUS
<1>1. TypeOK'
  BY StepType DEF Inv
<1>2. CASE UNCHANGED vars
  BY <1>2 DEF vars, Inv, TypeOK, GoodCopies, Copies, GoodCopy, GoodRecord, TrueRecord,
              CompleteRecord, Fresh, Untouched, Taken, Owns, OwnerAlone, ClientKnows, Knows,
              Verified, JobsKnown, AtMostOneDispatch
<1>3. ASSUME NEW c \in Clients,
             Create(c) \/ Claim(c) \/ Submit(c) \/ Refresh(c) \/ Record(c) \/ Fault(c)
      PROVE  Inv'
  BY <1>1, <1>3, CreateInv, ClaimInv, SubmitInv, RefreshInv, RecordInv, CrashInDispatchInv
     DEF Create, Fault
<1>4. ASSUME NEW j \in Jobs, Scheduler(j) PROVE Inv'
  BY <1>1, <1>4, SchedulerInv
<1> QED
  BY <1>2, <1>3, <1>4 DEF Next

----------------------------------------------------------------------------
(* The theorems.                                                           *)

\* Every reachable state satisfies the invariant.
THEOREM Invariance == Spec => []Inv
<1> QED
  BY InitInv, StepInv, PTL DEF Spec

\* Every reachable state is well typed.
THEOREM TypeTheorem == Spec => []TypeOK
<1>1. Inv => TypeOK
  BY DEF Inv
<1> QED
  BY <1>1, Invariance, PTL

\* No step is handed to the scheduler twice (submit_project_step runs only
\* behind an exclusive mkdir).
THEOREM AtMostOneDispatchTheorem == Spec => []AtMostOneDispatch
<1>1. Inv => AtMostOneDispatch
  BY DEF Inv
<1> QED
  BY <1>1, Invariance, PTL

\* A continuation is dispatched only on a real success of its prerequisite
\* (_validate_step2_continuation_state, _validate_step3_continuation_state).
THEOREM PrerequisiteTheorem == Spec => []PrerequisiteVerified
<1>1. Inv => PrerequisiteVerified
  BY StartStepAssumption
     DEF Inv, JobsKnown, Verified, PrerequisiteVerified, Dispatched, StartingSteps
<1> QED
  BY <1>1, Invariance, PTL

\* The manifest never reports a job further than it is (_reconcile).
THEOREM TerminalTheorem == Spec => []TerminalIsReal
<1>1. ASSUME Inv, NEW s \in Steps PROVE TrueRecord(s, manifest.steps[s])
  BY <1>1 DEF Inv, GoodCopies, Copies, GoodCopy, GoodRecord
<1>2. Inv => TerminalIsReal
  BY <1>1 DEF TrueRecord, TerminalIsReal
<1> QED
  BY <1>2, Invariance, PTL

\* No job is hidden behind a recorded failure (_record_and_raise).
THEOREM JobAccountedTheorem == Spec => []JobAccounted
<1>1. ASSUME Inv, NEW s \in Steps PROVE CompleteRecord(s, manifest.steps[s])
  BY <1>1 DEF Inv, GoodCopies, Copies, GoodCopy, GoodRecord
<1>2. ASSUME Inv, NEW j \in Jobs, jobs[j].step # 0 PROVE jobs[j].step \in Steps
  BY <1>2, StartStepAssumption DEF Inv, JobsKnown, Steps, StartingSteps
<1>3. Inv => JobAccounted
  BY <1>1, <1>2 DEF CompleteRecord, JobAccounted
<1> QED
  BY <1>3, Invariance, PTL
----------------------------------------------------------------------------
(* What has been recorded stays recorded, as long as write windows do not     *)
(* overlap: then a client in its window holds the manifest that is stored,    *)
(* and its candidate continues the copy that it holds.                        *)

\* What may follow a record of a step (RecordIsDurable, of one step).
Lasting(old, new) ==
    /\ old.state = "SUCCEEDED" => new = old
    /\ old.state = "SCHEDULER_COMPLETED" => new.state \in {"SCHEDULER_COMPLETED", "SUCCEEDED", "FAILED"}
    /\ old.job # NoJob => new.job = old.job

\* There is a manifest once a client has left the creation of the project, and
\* none while the root directory is free or has just been made.
Created ==
    /\ manifest.rev = 0 => manifest = NoProject
    /\ 1 \notin dirs => manifest.rev = 0
    /\ \A c \in Clients : pc[c] = "init" => manifest.rev = 0
    /\ \A c \in Clients : pc[c] \notin {"idle", "init"} => manifest.rev > 0

\* What a client will write continues what it has read.
Continuing(c) ==
    /\ pc[c] \in {"persist", "rename"} => \A s \in Steps : Lasting(view[c].steps[s], cand[c][s])
    /\ pc[c] = "query" => view[c].steps[step[c]].state \notin {"SUCCEEDED", "SCHEDULER_COMPLETED"}
    /\ pc[c] = "assess" => view[c].steps[step[c]].state # "SUCCEEDED"

\* No copy is newer than the manifest, and one of the same revision equals it.
Dated(c) == view[c].rev <= manifest.rev /\ (view[c].rev = manifest.rev => view[c] = manifest)

Serial ==
    /\ Store!Serialized
    /\ \A c \in Clients : Dated(c) /\ (pc[c] = "rename" => view[c].rev = manifest.rev)

RaceInv ==
    /\ Inv /\ Created /\ overlapped \in BOOLEAN
    /\ \A c \in Clients : Continuing(c)
    /\ ~overlapped => Serial

\* A record with one step replaced by one that may follow it.
LEMMA ReplacedLasts ==
    ASSUME NEW w \in Workflows, NEW s \in Steps, NEW state \in StepStates,
           NEW job \in Jobs \cup {NoJob}, NEW err \in Errors,
           Lasting(w[s], [state |-> state, job |-> job, err |-> err])
    PROVE  \A t \in Steps : Lasting(w[t], WithStep(w, s, state, job, err)[t])
<1>1. \A t \in Steps : Lasting(w[t], w[t])
  BY DEF Lasting
<1> QED
  BY <1>1, WithStepFacts

\* WillPersist with a record that may follow the one the client has read.
LEMMA WillPersistContinues ==
    ASSUME TypeOK, NEW c \in Clients, NEW state \in StepStates,
           NEW job \in Jobs \cup {NoJob}, NEW err \in Errors,
           Lasting(view[c].steps[step[c]], [state |-> state, job |-> job, err |-> err]),
           WillPersist(c, state, job, err), UNCHANGED view
    PROVE  Continuing(c)'
<1>1. view[c].steps \in Workflows /\ step[c] \in Steps
  BY DEF TypeOK, Manifests
<1>2. cand'[c] = WithStep(view[c].steps, step[c], state, job, err) /\ pc'[c] = "persist"
  BY DEF WillPersist, Goto, TypeOK
<1>3. \A s \in Steps : Lasting(view[c].steps[s], cand'[c][s])
  BY <1>1, <1>2, ReplacedLasts
<1> QED
  BY <1>2, <1>3 DEF Continuing

\* A client that owns its step has read no record of it, and may write any.
LEMMA OwnerContinues ==
    ASSUME Inv, NEW c \in Clients, Owns(c), NEW state \in StepStates,
           NEW job \in Jobs \cup {NoJob}, NEW err \in Errors,
           WillPersist(c, state, job, err), UNCHANGED view
    PROVE  Continuing(c)'
<1>1. Untouched(step[c]) /\ step[c] >= StartStep
  BY StartStepAssumption DEF Untouched, Inv, OwnerAlone, StartingSteps
<1>2. Fresh(view[c].steps[step[c]])
  BY <1>1, ViewIsGood DEF GoodRecord
<1>3. Lasting(view[c].steps[step[c]], [state |-> state, job |-> job, err |-> err])
  BY <1>2 DEF Fresh, Lasting
<1> QED
  BY <1>3, WillPersistContinues DEF Inv

\* An answer or a verdict keeps the job, and is not reached from a final record.
LEMMA PersistStepContinues ==
    ASSUME Inv, NEW c \in Clients, NEW state \in StepStates, NEW err \in Errors,
           LET old == view[c].steps[step[c]] IN
             /\ old.state # "SUCCEEDED"
             /\ old.state = "SCHEDULER_COMPLETED" =>
                  state \in {"SCHEDULER_COMPLETED", "SUCCEEDED", "FAILED"},
           PersistStep(c, state, err), UNCHANGED view
    PROVE  Continuing(c)'
<1> DEFINE old == view[c].steps[step[c]]
<1>1. old.job \in Jobs \cup {NoJob}
  BY ViewIsGood DEF StepRecord
<1>2. Lasting(old, [state |-> state, job |-> old.job, err |-> err])
  BY DEF Lasting
<1>3. CASE WillPersist(c, state, old.job, err)
  BY <1>1, <1>2, <1>3, WillPersistContinues DEF Inv
<1>4. CASE Goto(c, "idle")
  BY <1>4 DEF Goto, Continuing, Inv, TypeOK
<1> QED
  BY <1>3, <1>4 DEF PersistStep

\* Whatever a client does, what it will write continues what it has read.
LEMMA ContinuingKept ==
    ASSUME Inv, NEW c \in Clients, Continuing(c),
           Create(c) \/ Claim(c) \/ Submit(c) \/ Refresh(c) \/ Record(c) \/ Fault(c)
    PROVE  Continuing(c)'
<1> USE DEF Inv
<1>a. "FAILED" \in StepStates /\ "QUEUED" \in StepStates /\ "UNKNOWN" \in StepStates
      /\ "RUNNING" \in StepStates /\ "none" \in Errors /\ "submission" \in Errors
      /\ "scheduler" \in Errors /\ NoJob \in Jobs \cup {NoJob}
  BY DEF StepStates, Errors
<1>1. CASE pc'[c] \in {"idle", "init", "dirs", "claim", "upload", "dispatch"}
  BY <1>1 DEF Continuing
<1>2. ASSUME InitializationFails(c) \/ UploadFails(c) \/ DispatchRejected(c) PROVE Continuing(c)'
  <2>1. WillPersist(c, "FAILED", NoJob, "submission") /\ Owns(c) /\ UNCHANGED view
    BY <1>2 DEF InitializationFails, UploadFails, DispatchRejected, Owns
  <2> QED
    BY <2>1, <1>a, OwnerContinues
<1>3. ASSUME DispatchAccepted(c) PROVE Continuing(c)'
  <2>1. PICK j \in Jobs : WillPersist(c, "QUEUED", j, "none")
    BY <1>3 DEF DispatchAccepted
  <2>2. Owns(c) /\ UNCHANGED view
    BY <1>3 DEF DispatchAccepted, Owns
  <2> QED
    BY <2>1, <2>2, <1>a, OwnerContinues
<1>4. ASSUME DispatchUnknown(c) PROVE Continuing(c)'
  <2>1. WillPersist(c, "UNKNOWN", NoJob, "submission") /\ Owns(c) /\ UNCHANGED view
    BY <1>4 DEF DispatchUnknown, UnknownOutcome, Owns
  <2> QED
    BY <2>1, <1>a, OwnerContinues
<1>5. ASSUME BeginRefresh(c) PROVE Continuing(c)'
  <2> DEFINE s == ActiveStep(manifest.steps, StartStep)
  <2>1. view'[c] = manifest /\ step'[c] = s
    BY <1>5 DEF BeginRefresh, TypeOK
  <2>2. /\ pc'[c] \in {"idle", "assess", "query"}
        /\ pc'[c] = "assess" => manifest.steps[s].state = "SCHEDULER_COMPLETED"
        /\ pc'[c] = "query" => /\ ~NothingToAsk(manifest.steps[s])
                               /\ manifest.steps[s].state # "SCHEDULER_COMPLETED"
    BY <1>5, <2>1 DEF BeginRefresh, Goto, TypeOK
  <2> QED
    BY <2>1, <2>2 DEF Continuing, NothingToAsk
<1>6. ASSUME Query(c) PROVE Continuing(c)'
  <2>1. /\ view[c].steps[step[c]].state \notin {"SUCCEEDED", "SCHEDULER_COMPLETED"}
        /\ UNCHANGED <<view, step>>
    BY <1>6 DEF Query, Continuing
  <2>2. \/ \E state \in {"QUEUED", "RUNNING"} : PersistStep(c, state, "none")
        \/ PersistStep(c, "FAILED", "scheduler")
        \/ Goto(c, "idle") \/ Goto(c, "assess")
    BY <1>6 DEF Query
  <2>3. ASSUME NEW state \in {"QUEUED", "RUNNING"}, PersistStep(c, state, "none")
        PROVE  Continuing(c)'
    BY <2>1, <2>3, <1>a, PersistStepContinues
  <2>4. ASSUME PersistStep(c, "FAILED", "scheduler") PROVE Continuing(c)'
    BY <2>1, <2>4, <1>a, PersistStepContinues
  <2>5. ASSUME Goto(c, "idle") \/ Goto(c, "assess") PROVE Continuing(c)'
    BY <2>1, <2>5 DEF Goto, Continuing, TypeOK
  <2> QED
    BY <2>2, <2>3, <2>4, <2>5
<1>7. ASSUME Assess(c) PROVE Continuing(c)'
  <2> DEFINE verdict == Verdict(step[c], jobs[view[c].steps[step[c]].job].out)
  <2>1. /\ view[c].steps[step[c]].state # "SUCCEEDED" /\ UNCHANGED view
        /\ PersistStep(c, verdict.state, verdict.err)
    BY <1>7 DEF Assess, Continuing
  <2>2. verdict.state \in {"SUCCEEDED", "SCHEDULER_COMPLETED", "FAILED"} /\ verdict.err \in {"none", "science"}
    BY DEF Verdict
  <2>3. verdict.state \in StepStates /\ verdict.err \in Errors
    BY <2>2 DEF StepStates, Errors
  <2> QED
    BY <2>1, <2>2, <2>3, PersistStepContinues
<1>8. ASSUME Record(c) PROVE Continuing(c)'
  BY <1>8 DEF Record, PersistCheck, PersistRename, Store!Check, Store!CheckFails, Store!Rename,
              Continuing, TypeOK
<1>9. ASSUME \/ AllocateRoot(c) \/ WriteInitial(c) \/ MakeStepDirectories(c) \/ Claim(c)
             \/ UploadInputs(c) \/ Fault(c)
      PROVE  pc'[c] \in {"idle", "init", "dirs", "claim", "upload", "dispatch"}
  BY <1>9 DEF AllocateRoot, WriteInitial, MakeStepDirectories, Claim, Continue, ClaimDirectory,
              ClaimConflict, ClaimLost, UploadInputs, Fault, Disconnect, Crash, CrashInDispatch,
              Goto, TypeOK
<1> QED
  BY <1>1, <1>2, <1>3, <1>4, <1>5, <1>6, <1>7, <1>8, <1>9 DEF Create, Submit, Refresh

\* The steps of a client leave the others where they are.
LEMMA OthersStay ==
    ASSUME TypeOK, NEW c \in Clients,
           Create(c) \/ Claim(c) \/ Submit(c) \/ Refresh(c) \/ Record(c) \/ Fault(c)
    PROVE  \A d \in Clients \ {c} :
               pc'[d] = pc[d] /\ view'[d] = view[d] /\ cand'[d] = cand[d] /\ step'[d] = step[d]
<1> USE DEF TypeOK, Goto, WillPersist
<1>1. CASE Create(c)
  BY <1>1 DEF Create, AllocateRoot, WriteInitial, MakeStepDirectories, InitializationFails
<1>2. CASE Claim(c)
  BY <1>2 DEF Claim, Continue, ClaimDirectory, ClaimConflict, ClaimLost
<1>3. CASE Submit(c)
  BY <1>3 DEF Submit, UploadInputs, UploadFails, DispatchAccepted, DispatchUnknown, DispatchRejected
<1>4. CASE BeginRefresh(c)
  BY <1>4 DEF BeginRefresh
<1>5. CASE Query(c) \/ Assess(c)
  BY <1>5 DEF Query, Assess, PersistStep
<1>6. CASE Record(c)
  BY <1>6 DEF Record, PersistCheck, PersistRename, Store!Check, Store!CheckFails, Store!Rename
<1>7. CASE Fault(c)
  BY <1>7 DEF Fault, Disconnect, Crash, CrashInDispatch
<1> QED
  BY <1>1, <1>2, <1>3, <1>4, <1>5, <1>6, <1>7 DEF Refresh

\* The manifest is written by the creation of the project and by a rename only.
LEMMA OnlyWriters ==
    ASSUME TypeOK, NEW c \in Clients,
           Create(c) \/ Claim(c) \/ Submit(c) \/ Refresh(c) \/ Record(c) \/ Fault(c),
           ~WriteInitial(c), ~PersistRename(c)
    PROVE  /\ manifest' = manifest
           /\ view'[c] \in {view[c], manifest}
           /\ pc'[c] = "rename" => view'[c].rev = manifest.rev
<1> USE DEF TypeOK, Goto, WillPersist
<1>1. CASE Create(c)
  BY <1>1 DEF Create, AllocateRoot, MakeStepDirectories, InitializationFails
<1>2. CASE Claim(c)
  BY <1>2 DEF Claim, Continue, ClaimDirectory, ClaimConflict, ClaimLost
<1>3. CASE Submit(c)
  BY <1>3 DEF Submit, UploadInputs, UploadFails, DispatchAccepted, DispatchUnknown, DispatchRejected
<1>4. CASE BeginRefresh(c)
  BY <1>4 DEF BeginRefresh
<1>5. CASE Query(c) \/ Assess(c)
  BY <1>5 DEF Query, Assess, PersistStep
<1>6. CASE Record(c)
  BY <1>6 DEF Record, PersistCheck, Store!Check, Store!CheckFails, Store!SameRevision
<1>7. CASE Fault(c)
  BY <1>7 DEF Fault, Disconnect, Crash, CrashInDispatch
<1> QED
  BY <1>1, <1>2, <1>3, <1>4, <1>5, <1>6, <1>7 DEF Refresh

\* The initial records of a project.
LEMMA InitialRecords ==
    /\ NoProject \in Manifests /\ NoProject.rev = 0
    /\ \A s \in Steps : InitialSteps(StartStep)[s].state # "SUCCEEDED" /\ NoProject.steps[s].state # "SUCCEEDED"
    /\ NoProject.steps = InitialSteps(StartStep)
<1> QED
  BY InitialStepsType DEF NoProject, Manifests, InitialSteps

\* A project is created once, and everything else happens to one that exists.
LEMMA CreatedKept ==
    ASSUME Inv, Created, NEW c \in Clients,
           Create(c) \/ Claim(c) \/ Submit(c) \/ Refresh(c) \/ Record(c) \/ Fault(c)
    PROVE  Created'
<1> USE DEF Inv
<1>1. /\ manifest \in Manifests /\ manifest.rev \in Nat /\ view[c].rev \in Nat
      /\ pc \in [Clients -> PCs]
  BY DEF TypeOK, Manifests
<1>2. CASE AllocateRoot(c)
  BY <1>1, <1>2 DEF AllocateRoot, Goto, Created
<1>3. CASE WriteInitial(c)
  <2>1. \A d \in Clients : pc[d] = "init" => d = c
    BY <1>3 DEF WriteInitial, OwnerAlone, Owns, ClientKnows, Knows
  <2>2. manifest'.rev = 1 /\ UNCHANGED dirs /\ pc' = [pc EXCEPT ![c] = "dirs"]
    BY <1>3 DEF WriteInitial, Goto
  <2>3. 1 \in dirs
    BY <1>3, StartStepAssumption DEF WriteInitial, OwnerAlone, Owns, ClientKnows, Knows, Taken
  <2> QED
    BY <1>1, <2>1, <2>2, <2>3 DEF Created
<1>4. CASE PersistRename(c)
  <2>1. manifest'.rev = view[c].rev + 1 /\ UNCHANGED dirs /\ pc' = [pc EXCEPT ![c] = "idle"]
        /\ pc[c] = "rename"
    BY <1>4 DEF PersistRename, Store!Rename, Store!Successor
  <2>2. manifest.rev > 0 /\ manifest'.rev > 0
    BY <1>1, <2>1 DEF Created
  <2>3. 1 \in dirs /\ \A d \in Clients : pc[d] # "init"
    BY <1>1, <2>2 DEF Created
  <2> QED
    BY <1>1, <2>1, <2>2, <2>3 DEF Created
<1>5. ASSUME ~AllocateRoot(c), ~WriteInitial(c), ~PersistRename(c) PROVE Created'
  <2>1. manifest' = manifest /\ \A d \in Clients \ {c} : pc'[d] = pc[d]
    BY <1>5, OnlyWriters, OthersStay
  <2>2. dirs \subseteq dirs'
    BY DEF Create, AllocateRoot, WriteInitial, MakeStepDirectories, InitializationFails,
           Claim, Continue, ClaimDirectory, ClaimConflict, ClaimLost,
           Submit, UploadInputs, UploadFails, DispatchAccepted, DispatchUnknown, DispatchRejected,
           Refresh, BeginRefresh, Query, Assess,
           Record, PersistCheck, PersistRename, Fault, Disconnect, Crash, CrashInDispatch
  <2>3. pc'[c] # "init"
    <3> USE DEF TypeOK, Goto, WillPersist
    <3>1. CASE Create(c)
      BY <1>5, <3>1 DEF Create, MakeStepDirectories, InitializationFails
    <3>2. CASE Claim(c) \/ Submit(c)
      BY <3>2 DEF Claim, Continue, ClaimDirectory, ClaimConflict, ClaimLost, Submit, UploadInputs,
                  UploadFails, DispatchAccepted, DispatchUnknown, DispatchRejected
    <3>3. CASE Refresh(c)
      BY <3>3 DEF Refresh, BeginRefresh, Query, Assess, PersistStep
    <3>4. CASE Record(c)
      BY <3>4 DEF Record, PersistCheck, PersistRename, Store!Check, Store!CheckFails, Store!Rename
    <3>5. CASE Fault(c)
      BY <3>5 DEF Fault, Disconnect, Crash, CrashInDispatch
    <3> QED
      BY <3>1, <3>2, <3>3, <3>4, <3>5
  <2>4. pc'[c] # "idle" => manifest.rev > 0
    <3>1. ASSUME pc[c] \notin {"idle", "init"} PROVE manifest.rev > 0
      BY <3>1 DEF Created
    <3>2. ASSUME pc[c] = "init", pc'[c] # "idle" PROVE FALSE
      BY <1>5, <3>2 DEF Create, AllocateRoot, WriteInitial, MakeStepDirectories, InitializationFails,
           Claim, Continue, ClaimDirectory, ClaimConflict, ClaimLost,
           Submit, UploadInputs, UploadFails, DispatchAccepted, DispatchUnknown, DispatchRejected,
           Refresh, BeginRefresh, Query, Assess, Record, PersistCheck, PersistRename,
           Store!Check, Store!CheckFails, Store!Rename, Fault, Disconnect, Crash, CrashInDispatch,
           Goto, TypeOK
    <3>3. ASSUME pc[c] = "idle", pc'[c] # "idle" PROVE BeginRefresh(c) \/ \E s \in {2, 3} : Continue(c, s)
      BY <1>5, <3>3 DEF Create, AllocateRoot, WriteInitial, MakeStepDirectories, InitializationFails,
           Claim, ClaimDirectory, ClaimConflict, ClaimLost,
           Submit, UploadInputs, UploadFails, DispatchAccepted, DispatchUnknown, DispatchRejected,
           Refresh, Query, Assess, Record, PersistCheck, PersistRename,
           Store!Check, Store!CheckFails, Store!Rename, Fault, Disconnect, Crash, CrashInDispatch,
           Goto, TypeOK
    <3>4. ASSUME NEW s \in {2, 3}, Continue(c, s) PROVE manifest.rev > 0
      <4>1. manifest.steps[s - 1].state = "SUCCEEDED" /\ s - 1 \in Steps
        BY <3>4 DEF Continue, CanContinue, Steps
      <4>2. manifest # NoProject
        BY <4>1, InitialRecords
      <4> QED
        BY <1>1, <4>2 DEF Created
    <3> QED
      BY <3>1, <3>2, <3>3, <3>4 DEF BeginRefresh
  <2>5. ASSUME NEW d \in Clients, pc'[d] = "init" PROVE manifest'.rev = 0
    BY <2>1, <2>3, <2>5 DEF Created
  <2>6. ASSUME NEW d \in Clients, pc'[d] \notin {"idle", "init"} PROVE manifest'.rev > 0
    BY <2>1, <2>4, <2>6 DEF Created
  <2> QED
    BY <2>1, <2>2, <2>5, <2>6 DEF Created
<1> QED
  BY <1>2, <1>3, <1>4, <1>5

\* In serial windows only the holder of the stored manifest writes, and everybody
\* else's copy is older from then on.
LEMMA SerialKept ==
    ASSUME Inv, Created, Serial, Store!Serialized', NEW c \in Clients,
           Create(c) \/ Claim(c) \/ Submit(c) \/ Refresh(c) \/ Record(c) \/ Fault(c)
    PROVE  Serial'
<1> USE DEF Inv
<1>1. /\ manifest.rev \in Nat /\ \A d \in Clients : view[d].rev \in Nat
      /\ \A d \in Clients \ {c} : pc'[d] = pc[d] /\ view'[d] = view[d]
  BY OthersStay DEF TypeOK, Manifests
<1>2. CASE WriteInitial(c)
  <2>1. /\ manifest'.rev = 1 /\ view'[c] = manifest' /\ manifest.rev = 0 /\ pc'[c] = "dirs"
    BY <1>2 DEF WriteInitial, Goto, TypeOK, Created
  <2>2. \A d \in Clients : pc[d] # "rename"
    BY <2>1 DEF Created
  <2> QED
    BY <1>1, <2>1, <2>2 DEF Serial, Dated
<1>3. CASE PersistRename(c)
  <2>1. /\ manifest'.rev = view[c].rev + 1 /\ view' = view /\ pc[c] = "rename" /\ pc'[c] = "idle"
    BY <1>3 DEF PersistRename, Store!Rename, Store!Successor, TypeOK
  <2>2. manifest'.rev = manifest.rev + 1 /\ \A d \in Clients : pc[d] = "rename" => d = c
    BY <2>1 DEF Serial, Store!Serialized, Store!InWindow
  <2> QED
    BY <1>1, <2>1, <2>2 DEF Serial, Dated
<1>4. ASSUME ~WriteInitial(c), ~PersistRename(c) PROVE Serial'
  <2>1. /\ manifest' = manifest /\ view'[c] \in {view[c], manifest}
        /\ pc'[c] = "rename" => view'[c].rev = manifest.rev
    BY <1>4, OnlyWriters
  <2> QED
    BY <1>1, <2>1 DEF Serial, Dated
<1> QED
  BY <1>2, <1>3, <1>4

\* The initial state.
LEMMA RaceInitInv == RaceInit => RaceInv
<1> SUFFICES ASSUME RaceInit PROVE RaceInv
  OBVIOUS
<1>1. Inv
  BY InitInv DEF RaceInit
<1>2. Created /\ \A c \in Clients : Continuing(c)
  BY InitialRecords DEF RaceInit, Init, Created, Continuing
<1>3. Serial
  BY InitialRecords DEF RaceInit, Init, Serial, Dated, Store!Serialized, Store!InWindow
<1> QED
  BY <1>1, <1>2, <1>3 DEF RaceInv, RaceInit

\* Every step preserves it.
LEMMA RaceStepInv == RaceInv /\ [RaceNext]_<<vars, overlapped>> => RaceInv'
<1> SUFFICES ASSUME RaceInv, [RaceNext]_<<vars, overlapped>> PROVE RaceInv'
  OBVIOUS
<1>1. CASE UNCHANGED <<vars, overlapped>>
  <2>1. Inv'
    BY <1>1, StepInv DEF RaceInv
  <2> QED
    BY <1>1, <2>1 DEF RaceInv, vars, Created, Continuing, Serial, Dated, Store!Serialized, Store!InWindow
<1>2. ASSUME Next, overlapped' = (overlapped \/ ~Store!Serialized') PROVE RaceInv'
  <2>1. Inv /\ Inv' /\ Created /\ overlapped' \in BOOLEAN
    BY <1>2, StepInv DEF RaceInv
  <2>2. ~overlapped' => Serial /\ Store!Serialized'
    BY <1>2 DEF RaceInv
  <2>3. ASSUME NEW c \in Clients,
               Create(c) \/ Claim(c) \/ Submit(c) \/ Refresh(c) \/ Record(c) \/ Fault(c)
        PROVE  RaceInv'
    <3>1. Created' /\ (~overlapped' => Serial')
      BY <2>1, <2>2, <2>3, CreatedKept, SerialKept
    <3>2. \A d \in Clients \ {c} :
             pc'[d] = pc[d] /\ view'[d] = view[d] /\ cand'[d] = cand[d] /\ step'[d] = step[d]
      BY <2>1, <2>3, OthersStay DEF Inv
    <3>3. ASSUME NEW d \in Clients PROVE Continuing(d)'
      <4>1. CASE d = c
        BY <2>1, <2>3, <4>1, ContinuingKept DEF RaceInv
      <4>2. CASE d # c
        BY <3>2, <4>2 DEF RaceInv, Continuing
      <4> QED
        BY <4>1, <4>2
    <3> QED
      BY <2>1, <3>1, <3>3 DEF RaceInv
  <2>4. ASSUME NEW j \in Jobs, Scheduler(j) PROVE RaceInv'
    <3>1. UNCHANGED <<manifest, pc, view, cand, seen, step, dirs>>
      BY <2>4 DEF Scheduler, JobStarts, JobRequeued, JobCompletes, JobFails, OutputSettles, JobStep
    <3> QED
      BY <2>1, <2>2, <3>1 DEF RaceInv, Created, Continuing, Serial, Dated, Store!Serialized, Store!InWindow
  <2> QED
    BY <1>2, <2>3, <2>4 DEF Next
<1> QED
  BY <1>1, <1>2 DEF RaceNext

\* A step outside of overlapped windows keeps what the manifest says.
LEMMA WriteLasts ==
    ASSUME RaceInv, [Next]_vars, ~overlapped, NEW s \in Steps
    PROVE  Lasting(manifest.steps[s], manifest'.steps[s])
<1>1. Lasting(manifest.steps[s], manifest.steps[s])
  BY DEF Lasting
<1>2. CASE UNCHANGED manifest
  BY <1>1, <1>2
<1>3. ASSUME NEW c \in Clients, WriteInitial(c)
      PROVE  Lasting(manifest.steps[s], manifest'.steps[s])
  <2>1. manifest.steps = manifest'.steps
    BY <1>3, InitialRecords DEF WriteInitial, RaceInv, Created
  <2> QED
    BY <1>1, <2>1
<1>4. ASSUME NEW c \in Clients, PersistRename(c)
      PROVE  Lasting(manifest.steps[s], manifest'.steps[s])
  <2>1. manifest'.steps = cand[c] /\ pc[c] = "rename"
    BY <1>4 DEF PersistRename, Store!Rename, Store!Successor
  <2>2. view[c] = manifest
    BY <2>1 DEF RaceInv, Serial, Dated
  <2> QED
    BY <2>1, <2>2 DEF RaceInv, Continuing
<1>5. ASSUME NEW c \in Clients, ~WriteInitial(c), ~PersistRename(c),
             Create(c) \/ Claim(c) \/ Submit(c) \/ Refresh(c) \/ Record(c) \/ Fault(c)
      PROVE  UNCHANGED manifest
  BY <1>5, OnlyWriters DEF RaceInv, Inv
<1>6. ASSUME NEW j \in Jobs, Scheduler(j) PROVE UNCHANGED manifest
  BY <1>6 DEF Scheduler, JobStarts, JobRequeued, JobCompletes, JobFails, OutputSettles, JobStep
<1>7. UNCHANGED vars => UNCHANGED manifest
  BY DEF vars
<1> QED
  BY <1>2, <1>3, <1>4, <1>5, <1>6, <1>7 DEF Next

\* The invariant holds with the history of overlaps beside it.
THEOREM RaceInvariance == RaceSpec => []RaceInv
<1> QED
  BY RaceInitInv, RaceStepInv, PTL DEF RaceSpec

\* While no two write windows have overlapped, a success is final, a job keeps its
\* place, and a completed job never becomes a running one (project_recovery.py:870).
THEOREM DurableTheorem == RaceSpec => RecordIsDurable
<1>1. RaceInv /\ [RaceNext]_<<vars, overlapped>> =>
        [~overlapped' => \A s \in Steps : LET old == manifest.steps[s]
                                              new == manifest'.steps[s] IN
           /\ old.state = "SUCCEEDED" => new = old
           /\ old.state = "SCHEDULER_COMPLETED" =>
                  new.state \in {"SCHEDULER_COMPLETED", "SUCCEEDED", "FAILED"}
           /\ old.job # NoJob => new.job = old.job]_vars
  <2>1. SUFFICES ASSUME RaceInv, RaceNext, ~overlapped', NEW s \in Steps
                 PROVE  Lasting(manifest.steps[s], manifest'.steps[s])
    BY DEF Lasting, vars
  <2>2. Next /\ ~overlapped
    BY <2>1 DEF RaceNext
  <2> QED
    BY <2>1, <2>2, WriteLasts
<1> QED
  BY <1>1, RaceInvariance, PTL DEF RaceSpec, RecordIsDurable
=============================================================================

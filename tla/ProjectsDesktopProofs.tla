------------------------ MODULE ProjectsDesktopProofs ------------------------
(***************************************************************************)
(* What holds of the Projects window for any projects, any number of       *)
(* refresh threads and any revisions.  The inductive invariant compares    *)
(* every copy of a record with the manifest (none is newer, one of the     *)
(* same revision is the same), and the live session's copy with the list.  *)
(* The second part is about the server profiles and the dialogs that edit  *)
(* them, for any names, runtimes, ORCA programs and number of checks; the  *)
(* third about the two places that show density tasks, for any atoms,      *)
(* servers, tasks and jobs.                                                *)
(***************************************************************************)
EXTENDS MCDesktop, SequenceTheorems, FiniteSetTheorems, TLAPS

\* A copy r of p's record is no newer than the manifest, and equal at its revision.
Old(p, r) ==
    remote[p] # None =>
        r.rev <= remote[p].rev /\ (r.rev = remote[p].rev => r = remote[p])

CopiesOld ==
    \A p \in Projects : Old(p, shown[p]) /\ \A s \in Sessions : Old(p, threads[s].snap[p])

\* The thread holds what it would deliver.
Holding(t) ==
    \/ t.pc \in {"index", "projects", "reconcile", "flush"}
    \/ t.pc = "emitted" /\ t.outcome = "result"

\* The live session would not take the list back in time.
LiveFresh ==
    \A s \in Sessions : window.op.session = s /\ Holding(threads[s]) =>
        \A p \in Projects : threads[s].snap[p] # None /\ shown[p] # None =>
            threads[s].snap[p].rev >= shown[p].rev

\* Nor bring a recycled project back.
LiveHides ==
    \A s \in Sessions :
        /\ window.op.session = s /\ Holding(threads[s])
        /\ threads[s].scope = AllProjects /\ threads[s].pc # "index"
        => \A p \in index.recycled : threads[s].snap[p] = None

\* A thread that is still connecting holds nothing.
Fresh == \A s \in Sessions : threads[s].pc = "connect" => threads[s].snap = Nothing

\* The job of the recorded submission is known until the scheduler has ended it once.
JobsRecorded ==
    \A p \in Projects :
        remote[p] # None /\ jobs[p][remote[p].try] = "alive" => remote[p].state \in Unsafe

\* Since the submission worker has read the manifest only its detail was rewritten, and
\* what was refused runs nowhere.
SubmissionKnows ==
    LET p == submission.project IN
    /\ submission.pc # "off" => p \in Projects /\ submission.record # None
    /\ submission.pc = "dispatch" => remote[p] = None \/ remote[p].try = submission.record.try
    /\ submission.pc = "record" /\ submission.outcome = "refused" =>
        jobs[p][submission.try] = "none"

\* Nothing of the project that is being deleted is open or being submitted; from the reload
\* on its recorded submission stays the one that was reviewed, and does not run.
DeletionAlone ==
    /\ submission.pc = "off" => submission.project = 0
    /\ deletion.pc # "off" =>
        /\ deletion.project \in Projects
        /\ tabs[deletion.project] = None
        /\ submission.project # deletion.project
    /\ deletion.pc = "remove" =>
        LET p == deletion.project IN
        remote[p] = None \/ (remote[p].try = deletion.record.try
                             /\ jobs[p][remote[p].try] # "alive")

Inv == /\ TypeOK /\ CopiesOld /\ LiveFresh /\ LiveHides /\ RecycledHidden
       /\ Fresh /\ JobsRecorded /\ SubmissionKnows /\ DeletionAlone

----------------------------------------------------------------------------
LEMMA NoneIsRecord == None \in Records /\ None.rev = 0 /\ None.state = "none" /\ None.try = 0
BY DEF None, Records

\* Facts about records every step needs.
LEMMA RecordFacts ==
    ASSUME NEW r \in Records
    PROVE  /\ r.rev \in 0..MaxRev /\ r.try \in 0..MaxTries
           /\ r # None <=> r.rev # 0
           /\ r # None => r \in Manifests /\ r.state \in StepStates
<1>1. CASE r = None
    BY <1>1, MaxRevAssumption, MaxTriesAssumption DEF None
<1>2. CASE r \in Manifests
    BY <1>2, MaxRevAssumption, NoneIsRecord DEF Manifests
<1> QED
    BY <1>1, <1>2 DEF Records

\* What a refresh records: a state of a step, of a manifest that exists, and of a job that
\* has not ended once nothing but that it runs.
LEMMA RecordedStates ==
    ASSUME NEW r \in Records, NEW job \in JobStates, NEW state \in Recorded(r, job)
    PROVE  /\ state \in StepStates /\ r # None
           /\ job = "alive" /\ r.state \in Unsafe => state \in Unsafe
<1>1. r # None
    BY NoneIsRecord DEF Recorded
<1>2. CASE r.state \in {"completed", "succeeded"}
    BY <1>1, <1>2 DEF Recorded, StepStates, Unsafe
<1>3. CASE r.state \in {"active", "failed"}
    BY <1>1, <1>3 DEF Recorded, Answers, StepStates, Unsafe, JobStates
<1>4. CASE r.state \notin {"completed", "succeeded", "active", "failed"}
    BY <1>4 DEF Recorded
<1> QED
    BY <1>2, <1>3, <1>4

\* A manifest rewritten under the next revision.
LEMMA RewrittenIsRecord ==
    ASSUME NEW rev \in 0..MaxRev, rev < MaxRev, NEW state \in StepStates, NEW try \in 0..MaxTries
    PROVE  /\ [rev |-> rev + 1, state |-> state, try |-> try] \in Manifests
           /\ [rev |-> rev + 1, state |-> state, try |-> try] \in Records
           /\ [rev |-> rev + 1, state |-> state, try |-> try] # None
<1>1. rev + 1 \in 1..MaxRev
    BY MaxRevAssumption
<1>2. [rev |-> rev + 1, state |-> state, try |-> try].rev = rev + 1 /\ rev + 1 # 0
    BY <1>1
<1> QED
    BY <1>1, <1>2, NoneIsRecord DEF Manifests, Records

LEMMA NothingListed == Nothing \in Listing
BY NoneIsRecord DEF Nothing, Listing

LEMMA OffIsThread == Off \in ThreadRecords
BY NothingListed, MaxRevAssumption DEF Off, ThreadRecords, Unseen

LEMMA IdleIsOperation == Idle \in Operations
BY DEF Idle, Operations

\* Every outcome a thread may report leaves it a thread.
LEMMA EndingType ==
    ASSUME TypeOK, NEW s \in Sessions, NEW outcome \in {"result", "error", "unknown host"},
           Ending(s, outcome)
    PROVE  threads' \in [Sessions -> ThreadRecords]
<1> DEFINE snap == IF outcome = "result" THEN threads[s].snap ELSE Nothing
           emitted == [Off EXCEPT !.pc = "emitted", !.scope = threads[s].scope,
                         !.outcome = outcome, !.snap = snap]
<1>1. threads[s] \in ThreadRecords
    BY DEF TypeOK
<1>2. snap \in Listing /\ threads[s].scope \in Projects \cup {AllProjects}
    BY <1>1, NothingListed DEF ThreadRecords
<1> HIDE DEF snap
<1>4. emitted \in ThreadRecords
    BY <1>2, OffIsThread DEF ThreadRecords
<1>3. threads' = [threads EXCEPT ![s] = Off] \/ threads' = [threads EXCEPT ![s] = emitted]
    BY DEF Ending, Become, snap
<1> HIDE DEF emitted
<1> QED
    BY <1>3, <1>4, OffIsThread DEF TypeOK

\* The initial state is well typed.
THEOREM TypeInit == Init => TypeOK
<1> SUFFICES ASSUME Init PROVE TypeOK
    OBVIOUS
<1>1. [rev |-> 1, state |-> "succeeded", try |-> 0] \in Records
    BY MaxRevAssumption, MaxTriesAssumption DEF Records, Manifests, StepStates
<1>2. remote \in Listing /\ shown \in Listing /\ tabs \in Listing
    BY <1>1, NothingListed DEF Init, Listing
<1>3. index \in [seen : [Projects -> 0..MaxRev], recycled : SUBSET Projects]
    BY MaxRevAssumption DEF Init, Unseen
<1>4. /\ window \in [op : Operations, trustUsed : BOOLEAN]
      /\ window.op.busy = "refresh" <=> window.op.session # NoSession
      /\ window.op.busy = "delete" <=> deletion.pc # "off"
    BY IdleIsOperation DEF Init, Idle, NoDeletion
<1>5. threads \in [Sessions -> ThreadRecords]
    BY OffIsThread DEF Init
<1>6. /\ submission \in Submissions
      /\ deletion \in [pc : {"off", "verify", "remove", "confirm"},
                       project : Projects \cup {0}, record : Records]
      /\ submission.pc # "record"
    BY NoneIsRecord, MaxTriesAssumption DEF Init, NoSubmission, Submissions, NoDeletion
<1>7. jobs \in [Projects -> [0..MaxTries -> JobStates]]
    BY DEF Init, JobStates
<1> QED
    BY <1>2, <1>3, <1>4, <1>5, <1>6, <1>7 DEF TypeOK

----------------------------------------------------------------------------
(* Type preservation, one lemma per part of the system.                    *)

LEMMA WindowStepType ==
    ASSUME TypeOK, NEW s \in Sessions,
           StartRefresh(s) \/ Stop(s) \/ Timeout(s) \/ Succeeded(s) \/ Failed(s) \/ Dropped(s)
           \/ \E r \in Sessions : TrustAndRetry(s, r)
    PROVE  TypeOK'
<1>0. NoSession \notin Sessions
    BY SessionsAssumption
<1>1. CASE StartRefresh(s)
  <2>1. PICK scope \in Projects \cup {AllProjects}, open \in BOOLEAN : Started(s, scope, open)
    BY <1>1 DEF StartRefresh
  <2>2. [Off EXCEPT !.pc = "connect", !.scope = scope] \in ThreadRecords
    BY OffIsThread DEF ThreadRecords
  <2>3. threads' \in [Sessions -> ThreadRecords]
    BY <2>1, <2>2 DEF Started, TypeOK
  <2>4. [busy |-> "refresh", session |-> s, scope |-> scope, open |-> open] \in Operations
    BY DEF Operations
  <2>5. /\ window' \in [op : Operations, trustUsed : BOOLEAN]
        /\ window'.op.busy = "refresh" /\ window'.op.session = s
    BY <2>1, <2>4 DEF Started, TypeOK
  <2>6. deletion.pc = "off"
    BY <1>1 DEF StartRefresh, Busy, TypeOK
  <2> QED
    BY <1>0, <1>1, <2>3, <2>5, <2>6 DEF StartRefresh, TypeOK
<1>2. CASE Stop(s) \/ Timeout(s)
  <2>1. Abandon(s)
    BY <1>2 DEF Stop, Timeout
  <2>2. /\ window' \in [op : Operations, trustUsed : BOOLEAN]
        /\ window'.op.busy = "no" /\ window'.op.session = NoSession
    BY <2>1, IdleIsOperation DEF Abandon, Idle, TypeOK
  <2>3. deletion.pc = "off"
    BY <1>0, <2>1 DEF Abandon, TypeOK
  <2> QED
    BY <2>1, <2>2, <2>3 DEF Abandon, TypeOK
<1>3. CASE Succeeded(s)
  <2>1. threads' \in [Sessions -> ThreadRecords]
    BY <1>3, OffIsThread DEF Succeeded, Become, TypeOK
  <2>2. /\ window' \in [op : Operations, trustUsed : BOOLEAN]
        /\ window'.op.busy = "no" /\ window'.op.session = NoSession
    BY <1>3, IdleIsOperation DEF Succeeded, Idle
  <2>3. deletion.pc = "off"
    BY <1>0, <1>3 DEF Succeeded, Accepted, Stopped, TypeOK
  <2>4. threads[s].snap \in Listing /\ threads[s].scope \in Projects \cup {AllProjects}
    BY DEF TypeOK, ThreadRecords
  <2>5. shown' \in Listing
    BY <1>3, <2>4, NoneIsRecord DEF Succeeded, Replaced, Listing, TypeOK
  <2>6. tabs' \in Listing
    BY <1>3, <2>4, NoneIsRecord DEF Succeeded, Listing, TypeOK
  <2> QED
    BY <1>3, <2>1, <2>2, <2>3, <2>5, <2>6 DEF Succeeded, TypeOK
<1>4. CASE Failed(s)
  <2>1. threads' \in [Sessions -> ThreadRecords]
    BY <1>4, OffIsThread DEF Failed, Become, TypeOK
  <2>2. /\ window' \in [op : Operations, trustUsed : BOOLEAN]
        /\ window'.op.busy = "no" /\ window'.op.session = NoSession
    BY <1>4, IdleIsOperation DEF Failed, Idle, TypeOK
  <2>3. deletion.pc = "off"
    BY <1>0, <1>4 DEF Failed, Accepted, Stopped, TypeOK
  <2> QED
    BY <1>4, <2>1, <2>2, <2>3 DEF Failed, TypeOK
<1>5. CASE Dropped(s)
  <2>1. threads' \in [Sessions -> ThreadRecords]
    BY <1>5, OffIsThread DEF Dropped, Become, TypeOK
  <2> QED
    BY <1>5, <2>1 DEF Dropped, TypeOK
<1>6. CASE \E r \in Sessions : TrustAndRetry(s, r)
  <2>1. PICK r \in Sessions : TrustAndRetry(s, r)
    BY <1>6
  <2>2. [Off EXCEPT !.pc = "connect", !.scope = window.op.scope] \in ThreadRecords
    BY OffIsThread DEF ThreadRecords, TypeOK, Operations
  <2>3. threads' \in [Sessions -> ThreadRecords]
    BY <2>1, <2>2, OffIsThread DEF TrustAndRetry, TypeOK
  <2>4. window.op.busy = "refresh" /\ deletion.pc = "off"
    BY <1>0, <2>1 DEF TrustAndRetry, Accepted, Stopped, TypeOK
  <2>5. /\ window' \in [op : Operations, trustUsed : BOOLEAN]
        /\ window'.op.busy = "refresh" /\ window'.op.session = r
    BY <2>1, <2>4 DEF TrustAndRetry, TypeOK, Operations
  <2> QED
    BY <1>0, <2>1, <2>3, <2>4, <2>5 DEF TrustAndRetry, TypeOK
<1> QED
    BY <1>1, <1>2, <1>3, <1>4, <1>5, <1>6

LEMMA ThreadStepType ==
    ASSUME TypeOK, NEW s \in Sessions,
           ConnectFails(s) \/ Read(s) \/ ReadIndex(s) \/ NextProject(s)
           \/ ReconcileFails(s) \/ Reconcile(s) \/ Flush(s) \/ MarkOneSeen(s)
    PROVE  TypeOK'
<1> DEFINE t == threads[s]
<1>t. /\ t \in ThreadRecords /\ t.snap \in Listing /\ t.todo \subseteq Projects
      /\ t.scope \in Projects \cup {AllProjects} /\ remote \in Listing
      /\ t.outcome \in {"result", "error", "unknown host"}
      /\ index.recycled \subseteq Projects /\ index.seen \in [Projects -> 0..MaxRev]
    BY DEF TypeOK, ThreadRecords
<1>1. CASE ConnectFails(s)
  <2>1. threads' \in [Sessions -> ThreadRecords]
    BY <1>1, EndingType DEF ConnectFails
  <2> QED
    BY <1>1, <2>1 DEF ConnectFails, TypeOK
<1>2. CASE Read(s)
  <2>1. [t EXCEPT !.pc = "index", !.snap = remote] \in ThreadRecords
    BY <1>t DEF ThreadRecords
  <2>2. ASSUME t.scope # AllProjects
        PROVE  [t EXCEPT !.pc = "projects", !.todo = {t.scope}, !.snap[t.scope] = remote[t.scope]]
                 \in ThreadRecords
    <3>1. [t.snap EXCEPT ![t.scope] = remote[t.scope]] \in Listing
      BY <1>t, <2>2 DEF Listing
    <3>2. {t.scope} \subseteq Projects
      BY <1>t, <2>2
    <3> QED
      BY <1>t, <3>1, <3>2 DEF ThreadRecords
  <2>3. threads' \in [Sessions -> ThreadRecords]
    <3>1. CASE Ending(s, "error")
      BY <3>1, EndingType
    <3>2. CASE Become(s, Off)
      BY <3>2, OffIsThread DEF Become, TypeOK
    <3>3. CASE Become(s, [t EXCEPT !.pc = "index", !.snap = remote])
      BY <3>3, <2>1 DEF Become, TypeOK
    <3>4. CASE /\ t.scope # AllProjects
               /\ Become(s, [t EXCEPT !.pc = "projects", !.todo = {t.scope},
                                      !.snap[t.scope] = remote[t.scope]])
      BY <3>4, <2>2 DEF Become, TypeOK
    <3> QED
      BY <1>2, <3>1, <3>2, <3>3, <3>4 DEF Read
  <2> QED
    BY <1>2, <2>3 DEF Read, TypeOK
<1>3. CASE ReadIndex(s)
  <2> DEFINE kept == [p \in Projects |-> IF p \in index.recycled THEN None ELSE t.snap[p]]
             left == {p \in Projects : t.snap[p] # None} \ index.recycled
             u == [t EXCEPT !.pc = "projects", !.refs = index.seen, !.hidden = index.recycled,
                     !.snap = kept, !.todo = left]
  <2>1. kept \in Listing
    BY <1>t, NoneIsRecord DEF Listing
  <2>2. u \in ThreadRecords
    <3> HIDE DEF kept
    <3> QED
      BY <1>t, <2>1 DEF ThreadRecords
  <2>3. Become(s, u)
    BY <1>3 DEF ReadIndex
  <2>4. threads' \in [Sessions -> ThreadRecords]
    <3> HIDE DEF u
    <3> QED
      BY <2>2, <2>3 DEF Become, TypeOK
  <2> QED
    BY <1>3, <2>4 DEF ReadIndex, TypeOK
<1>4. CASE NextProject(s)
  <2>1. /\ [t EXCEPT !.pc = "flush"] \in ThreadRecords
        /\ [t EXCEPT !.pc = IF t.todo = {} THEN "flush" ELSE "reconcile"] \in ThreadRecords
    BY <1>t DEF ThreadRecords
  <2>2. threads' \in [Sessions -> ThreadRecords]
    BY <1>4, <2>1, OffIsThread DEF NextProject, Become, TypeOK
  <2> QED
    BY <1>4, <2>2 DEF NextProject, TypeOK
<1>5. CASE ReconcileFails(s)
  <2>1. [t EXCEPT !.pc = "flush", !.outcome = "error"] \in ThreadRecords
    BY <1>t DEF ThreadRecords
  <2>2. CASE t.scope = AllProjects
    <3>1. threads' \in [Sessions -> ThreadRecords]
      BY <1>5, <2>1, <2>2 DEF ReconcileFails, Become, TypeOK
    <3> QED
      BY <1>5, <3>1 DEF ReconcileFails, TypeOK
  <2>3. CASE t.scope # AllProjects
    <3>1. threads' \in [Sessions -> ThreadRecords]
      BY <1>5, <2>3, EndingType DEF ReconcileFails
    <3> QED
      BY <1>5, <3>1 DEF ReconcileFails, TypeOK
  <2> QED
    BY <2>2, <2>3
<1>6. CASE Reconcile(s)
  <2> DEFINE p == CHOOSE q \in t.todo : \A r \in t.todo : q <= r
  <2>1. ASSUME NEW snap \in Listing
        PROVE  /\ [t EXCEPT !.snap = snap] \in ThreadRecords
               /\ [[t EXCEPT !.snap = snap] EXCEPT !.pc = "projects", !.todo = @ \ {p}]
                    \in ThreadRecords
    <3> HIDE DEF p
    <3> QED
      BY <1>t DEF ThreadRecords
  <2>2. CASE Become(s, [t EXCEPT !.pc = "projects", !.todo = @ \ {p}]) /\ UNCHANGED remote
    <3> DEFINE u == [t EXCEPT !.pc = "projects", !.todo = @ \ {p}]
    <3>1. u \in ThreadRecords
      <4> HIDE DEF p
      <4> QED
        BY <1>t DEF ThreadRecords
    <3>2. Become(s, u)
      BY <2>2
    <3>3. threads' \in [Sessions -> ThreadRecords]
      <4> HIDE DEF u
      <4> QED
        BY <3>1, <3>2 DEF Become, TypeOK
    <3> QED
      BY <1>6, <2>2, <3>3 DEF Reconcile, TypeOK
  <2>3. ASSUME NEW state \in Recorded(t.snap[p], jobs[p][t.snap[p].try]),
               remote[p].rev = t.snap[p].rev, remote[p].rev < MaxRev,
               remote' = [remote EXCEPT ![p] = [t.snap[p] EXCEPT !.rev = @ + 1, !.state = state]],
               LET u == [t EXCEPT !.snap[p] = [t.snap[p] EXCEPT !.rev = @ + 1, !.state = state]]
               IN  \/ Become(s, u)
                   \/ Become(s, [u EXCEPT !.pc = "projects", !.todo = @ \ {p}])
        PROVE  remote' \in Listing /\ threads' \in [Sessions -> ThreadRecords]
    <3> DEFINE written == [t.snap[p] EXCEPT !.rev = @ + 1, !.state = state]
               snap == [t.snap EXCEPT ![p] = written]
               v == [t EXCEPT !.snap = snap]
               w == [v EXCEPT !.pc = "projects", !.todo = @ \ {p}]
    <3>1. p \in Projects => written \in Records
      <4> SUFFICES ASSUME p \in Projects PROVE written \in Records
        OBVIOUS
      <4>1. t.snap[p] \in Records
        BY <1>t DEF Listing
      <4>2. jobs[p][t.snap[p].try] \in JobStates
        BY <4>1, RecordFacts DEF TypeOK
      <4>3. t.snap[p] \in Manifests /\ state \in StepStates
        BY <2>3, <4>1, <4>2, RecordedStates, RecordFacts
      <4> HIDE DEF p
      <4>4. t.snap[p].rev + 1 \in 1..MaxRev
        BY <2>3, <4>3, MaxRevAssumption DEF Manifests
      <4> QED
        BY <4>3, <4>4 DEF Manifests, Records
    <3>2. remote' = [remote EXCEPT ![p] = written] /\ (Become(s, v) \/ Become(s, w))
      BY <2>3
    <3> HIDE DEF p, written
    <3>3. remote' \in Listing /\ snap \in Listing
      BY <1>t, <3>1, <3>2 DEF Listing
    <3> HIDE DEF snap
    <3>4. v \in ThreadRecords /\ w \in ThreadRecords
      BY <2>1, <3>3
    <3> HIDE DEF v, w
    <3> QED
      BY <3>2, <3>3, <3>4 DEF Become, TypeOK
  <2>4. \/ Become(s, [t EXCEPT !.pc = "projects", !.todo = @ \ {p}]) /\ UNCHANGED remote
        \/ remote' \in Listing /\ threads' \in [Sessions -> ThreadRecords]
    BY <1>6, <2>3 DEF Reconcile
  <2> HIDE DEF p
  <2> QED
    BY <1>6, <2>2, <2>4 DEF Reconcile, TypeOK
<1>7. CASE Flush(s)
  <2> DEFINE done == Reconciled(t)
  <2>1. threads' \in [Sessions -> ThreadRecords]
    BY <1>7, <1>t, EndingType DEF Flush
  <2>2. Proposed(t, done) \in [Projects -> 0..MaxRev]
    <3>1. \A q \in Projects : t.snap[q].rev \in 0..MaxRev
      BY <1>t, RecordFacts DEF Listing
    <3> HIDE DEF done, t
    <3> QED
      BY <3>1, <1>t DEF Proposed
  <2>3. index' = index \/ index' = MarkSeenMany(t, done)
    BY <1>7 DEF Flush
  <2>4. index' \in [seen : [Projects -> 0..MaxRev], recycled : SUBSET Projects]
    <3>1. MarkSeenMany(t, done) \in [seen : [Projects -> 0..MaxRev], recycled : SUBSET Projects]
      BY <2>2, <1>t DEF MarkSeenMany
    <3> QED
      BY <2>3, <3>1 DEF TypeOK
  <2> QED
    BY <1>7, <2>1, <2>4 DEF Flush, TypeOK
<1>8. CASE MarkOneSeen(s)
  <2>1. threads' \in [Sessions -> ThreadRecords]
    BY <1>8, EndingType DEF MarkOneSeen
  <2>2. t.scope \in Projects /\ t.snap[t.scope].rev \in 0..MaxRev
    BY <1>8, <1>t, RecordFacts DEF MarkOneSeen, Listing
  <2>3. index' \in [seen : [Projects -> 0..MaxRev], recycled : SUBSET Projects]
    BY <1>8, <2>2 DEF MarkOneSeen, MarkSeen, TypeOK
  <2> QED
    BY <1>8, <2>1, <2>3 DEF MarkOneSeen, TypeOK
<1> QED
    BY <1>1, <1>2, <1>3, <1>4, <1>5, <1>6, <1>7, <1>8

\* The workspaces, the submission worker and the jobs.
LEMMA MainWindowStepType ==
    ASSUME TypeOK,
           \/ Revalidate \/ Dispatch \/ RecordOutcome \/ SubmissionEnds \/ SubmissionFails
           \/ \E p \in Projects :
                CloseTab(p) \/ StartSubmission(p) \/ \E n \in Tries : JobMoves(p, n)
    PROVE  TypeOK'
<1>s. submission \in Submissions /\ NoSubmission \in Submissions /\ NoSubmission.pc = "off"
  BY NoneIsRecord, MaxTriesAssumption DEF TypeOK, NoSubmission, Submissions
<1>1. CASE Revalidate
  <2>1. submission' \in Submissions /\ submission'.pc # "record"
    BY <1>1, <1>s DEF Revalidate, Submissions
  <2> QED
    BY <1>1, <2>1 DEF Revalidate, TypeOK
<1>2. CASE Dispatch
  <2>1. PICK n \in Tries, outcome \in {"active", "refused", "unknown"} :
          /\ submission' = [submission EXCEPT !.pc = "record", !.try = n, !.outcome = outcome]
          /\ jobs' \in {jobs, [jobs EXCEPT ![submission.project][n] = "alive"]}
    BY <1>2 DEF Dispatch
  <2>2. n \in 0..MaxTries
    BY MaxTriesAssumption DEF Tries
  <2>3. submission' \in Submissions /\ submission'.outcome # "none"
    BY <1>s, <2>1, <2>2 DEF Submissions
  <2> DEFINE p == submission.project
  <2>4. jobs' \in [Projects -> [0..MaxTries -> JobStates]]
    <3>1. CASE jobs' = [jobs EXCEPT ![p][n] = "alive"] /\ p \in Projects
      <4> HIDE DEF p
      <4> QED
        BY <2>2, <3>1 DEF TypeOK, JobStates
    <3>2. CASE jobs' = [jobs EXCEPT ![p][n] = "alive"] /\ p \notin Projects
      <4> HIDE DEF p
      <4> QED
        BY <3>2 DEF TypeOK
    <3> QED
      BY <2>1, <3>1, <3>2 DEF TypeOK
  <2> QED
    BY <1>2, <2>3, <2>4 DEF Dispatch, TypeOK
<1>3. CASE RecordOutcome
  <2> DEFINE p == submission.project
             written == [rev |-> submission.record.rev + 1, state |-> submission.outcome,
                         try |-> submission.try]
  <2>1. /\ remote' = [remote EXCEPT ![p] = written]
        /\ submission' = [submission EXCEPT !.pc = "seen", !.record = written]
    BY <1>3 DEF RecordOutcome
  <2>2. written \in Records
    <3>1. /\ submission.record \in Records /\ submission.record.rev < MaxRev
          /\ submission.try \in 0..MaxTries /\ submission.outcome \in StepStates
      BY <1>3, <1>s DEF RecordOutcome, TypeOK, Submissions, StepStates
    <3> QED
      BY <3>1, RecordFacts, RewrittenIsRecord
  <2> HIDE DEF written
  <2>3. remote' \in Listing
    BY <2>1, <2>2 DEF TypeOK, Listing
  <2>4. submission' \in Submissions /\ submission'.pc # "record"
    BY <1>s, <2>1, <2>2 DEF Submissions
  <2> QED
    BY <1>3, <2>3, <2>4 DEF RecordOutcome, TypeOK
<1>4. CASE SubmissionEnds
  <2>1. submission.record \in Records /\ submission.record.rev \in 0..MaxRev
    BY <1>s, RecordFacts DEF Submissions
  <2>2. index' \in [seen : [Projects -> 0..MaxRev], recycled : SUBSET Projects]
    BY <1>4, <2>1 DEF SubmissionEnds, MarkSeen, TypeOK
  <2>3. tabs' \in Listing
    BY <1>4, <2>1 DEF SubmissionEnds, TypeOK, Listing
  <2> QED
    BY <1>4, <1>s, <2>2, <2>3 DEF SubmissionEnds, TypeOK
<1>5. CASE SubmissionFails
  BY <1>5, <1>s DEF SubmissionFails, TypeOK
<1>6. ASSUME NEW p \in Projects, CloseTab(p) PROVE TypeOK'
  <2>1. tabs' \in Listing
    BY <1>6, NoneIsRecord DEF CloseTab, TypeOK, Listing
  <2> QED
    BY <1>6, <2>1 DEF CloseTab, TypeOK
<1>7. ASSUME NEW p \in Projects, StartSubmission(p) PROVE TypeOK'
  <2>1. tabs[p] \in Records
    BY DEF TypeOK, Listing
  <2>2. submission' \in Submissions /\ submission'.pc # "record"
    BY <1>7, <1>s, <2>1 DEF StartSubmission, Submissions
  <2> QED
    BY <1>7, <2>2 DEF StartSubmission, TypeOK
<1>8. ASSUME NEW p \in Projects, NEW n \in Tries, JobMoves(p, n) PROVE TypeOK'
  <2>1. PICK state \in {"failed", "done", "requeued"} : jobs' = [jobs EXCEPT ![p][n] = state]
    BY <1>8 DEF JobMoves
  <2>2. jobs' \in [Projects -> [0..MaxTries -> JobStates]]
    BY <2>1 DEF TypeOK, JobStates
  <2> QED
    BY <1>8, <2>2 DEF JobMoves, TypeOK
<1> QED
  BY <1>1, <1>2, <1>3, <1>4, <1>5, <1>6, <1>7, <1>8

\* Recycling, permanent deletion and the end of the process.
LEMMA RecycleStepType ==
    ASSUME TypeOK,
           \/ Verify \/ DeletionFails \/ Remove \/ ConfirmAbsent \/ Restart
           \/ \E p \in Projects : MoveToRecycle(p) \/ Restore(p) \/ StartDeletion(p)
    PROVE  TypeOK'
<1>i. /\ index.seen \in [Projects -> 0..MaxRev] /\ index.recycled \subseteq Projects
      /\ index \in [seen : [Projects -> 0..MaxRev], recycled : SUBSET Projects]
      /\ 0 \in 0..MaxRev
  BY MaxRevAssumption DEF TypeOK
<1>o. ASSUME DeletionOver
      PROVE
        /\ window' \in [op : Operations, trustUsed : BOOLEAN]
        /\ window'.op.busy = "no" /\ window'.op.session = NoSession
        /\ deletion' \in [pc : {"off", "verify", "remove", "confirm"},
                          project : Projects \cup {0}, record : Records]
        /\ deletion'.pc = "off"
  <2>1. deletion' = NoDeletion /\ window' = [window EXCEPT !.op = Idle]
    BY <1>o DEF DeletionOver
  <2>2. NoDeletion \in [pc : {"off", "verify", "remove", "confirm"},
                       project : Projects \cup {0}, record : Records]
    BY NoneIsRecord DEF NoDeletion
  <2>3. window' \in [op : Operations, trustUsed : BOOLEAN] /\ window'.op = Idle
    BY <2>1, IdleIsOperation DEF TypeOK
  <2> QED
    BY <2>1, <2>2, <2>3 DEF NoDeletion, Idle
<1>1. CASE Verify
  BY <1>1 DEF Verify, TypeOK
<1>2. CASE DeletionFails
  BY <1>2, <1>o DEF DeletionFails, TypeOK
<1>3. CASE Remove
  <2>1. remote' \in Listing
    BY <1>3, NoneIsRecord DEF Remove, TypeOK, Listing
  <2>2. CASE deletion' = [deletion EXCEPT !.pc = "confirm"] /\ UNCHANGED window
    <3>1. /\ deletion' \in [pc : {"off", "verify", "remove", "confirm"},
                            project : Projects \cup {0}, record : Records]
          /\ deletion'.pc # "off" /\ deletion.pc # "off"
      BY <1>3, <2>2 DEF Remove, TypeOK
    <3> QED
      BY <1>3, <2>1, <2>2, <3>1 DEF Remove, TypeOK
  <2>3. CASE DeletionOver
    BY <1>3, <2>1, <2>3, <1>o DEF Remove, TypeOK
  <2> QED
    BY <1>3, <2>2, <2>3 DEF Remove
<1>4. CASE ConfirmAbsent
  <2>1. index' \in [seen : [Projects -> 0..MaxRev], recycled : SUBSET Projects]
    BY <1>4, <1>i DEF ConfirmAbsent, Forget, MarkSeen
  <2>2. shown' \in Listing
    BY <1>4, NoneIsRecord DEF ConfirmAbsent, TypeOK, Listing
  <2> QED
    BY <1>4, <1>o, <2>1, <2>2 DEF ConfirmAbsent, TypeOK
<1>5. CASE Restart
  <2>1. threads' \in [Sessions -> ThreadRecords]
    BY <1>5, OffIsThread DEF Restart
  <2>2. /\ window' \in [op : Operations, trustUsed : BOOLEAN]
        /\ window'.op.busy = "no" /\ window'.op.session = NoSession
    BY <1>5, IdleIsOperation DEF Restart, Idle
  <2>3. /\ submission' \in Submissions
        /\ deletion' \in [pc : {"off", "verify", "remove", "confirm"},
                          project : Projects \cup {0}, record : Records]
        /\ submission'.pc = "off" /\ deletion'.pc = "off"
    BY <1>5, NoneIsRecord, MaxTriesAssumption DEF Restart, NoSubmission, Submissions, NoDeletion
  <2>4. shown' \in Listing /\ tabs' \in Listing
    BY <1>5, NothingListed DEF Restart
  <2> QED
    BY <1>5, <2>1, <2>2, <2>3, <2>4 DEF Restart, TypeOK
<1>6. ASSUME NEW p \in Projects, MoveToRecycle(p) PROVE TypeOK'
  <2>1. shown[p] \in Records /\ shown[p].rev \in 0..MaxRev
    BY RecordFacts DEF TypeOK, Listing
  <2>2. index' \in [seen : [Projects -> 0..MaxRev], recycled : SUBSET Projects]
    BY <1>6, <1>i, <2>1 DEF MoveToRecycle, Recycle, MarkSeen
  <2>3. shown' \in Listing
    BY <1>6, NoneIsRecord DEF MoveToRecycle, TypeOK, Listing
  <2> QED
    BY <1>6, <2>2, <2>3 DEF MoveToRecycle, TypeOK
<1>7. ASSUME NEW p \in Projects, Restore(p) PROVE TypeOK'
  <2>1. index' \in [seen : [Projects -> 0..MaxRev], recycled : SUBSET Projects]
    BY <1>7, <1>i DEF Restore
  <2> QED
    BY <1>7, <2>1 DEF Restore, TypeOK
<1>8. ASSUME NEW p \in Projects, StartDeletion(p) PROVE TypeOK'
  <2>1. deletion' \in [pc : {"off", "verify", "remove", "confirm"},
                       project : Projects \cup {0}, record : Records] /\ deletion'.pc # "off"
    BY <1>8 DEF StartDeletion, TypeOK, Listing
  <2>2. [Idle EXCEPT !.busy = "delete"] \in Operations
    BY IdleIsOperation DEF Operations
  <2>3. /\ window' \in [op : Operations, trustUsed : BOOLEAN]
        /\ window'.op.busy = "delete" /\ window'.op.session = NoSession
    BY <1>8, <2>2 DEF StartDeletion, TypeOK, Idle
  <2> QED
    BY <1>8, <2>1, <2>3 DEF StartDeletion, TypeOK
<1> QED
  BY <1>1, <1>2, <1>3, <1>4, <1>5, <1>6, <1>7, <1>8

\* Every variable keeps its type, and the window is busy exactly while it has a live
\* session or a deletion worker, whatever the abandoned threads do.
THEOREM TypeCorrect == Spec => []TypeOK
<1>1. TypeOK /\ [Next]_vars => TypeOK'
  <2> SUFFICES ASSUME TypeOK, [Next]_vars PROVE TypeOK'
    OBVIOUS
  <2>1. CASE UNCHANGED vars
    BY <2>1 DEF vars, TypeOK
  <2>2. ASSUME NEW s \in Sessions, SessionStep(s) PROVE TypeOK'
    BY <2>2, WindowStepType, ThreadStepType DEF SessionStep
  <2>3. ASSUME NEW p \in Projects, ProjectStep(p) PROVE TypeOK'
    BY <2>3, MainWindowStepType, RecycleStepType DEF ProjectStep
  <2> QED
    BY <2>1, <2>2, <2>3, MainWindowStepType, RecycleStepType DEF Next
<1> QED
  BY TypeInit, <1>1, PTL DEF Spec

----------------------------------------------------------------------------
(* Preservation of the invariant.  Rest is Inv without its type part.      *)

Rest == /\ CopiesOld /\ LiveFresh /\ LiveHides /\ RecycledHidden
        /\ Fresh /\ JobsRecorded /\ SubmissionKnows /\ DeletionAlone

\* An absent record is older than any manifest.
LEMMA NoneIsOld ==
    ASSUME TypeOK, NEW p \in Projects
    PROVE  Old(p, None)
BY RecordFacts, NoneIsRecord DEF Old, TypeOK, Listing

\* The manifest itself is not newer than itself.
LEMMA ManifestIsOld ==
    ASSUME TypeOK, NEW p \in Projects
    PROVE  Old(p, remote[p])
<1>1. remote[p] \in Records
  BY DEF TypeOK, Listing
<1>2. remote[p].rev \in 0..MaxRev
  BY <1>1, RecordFacts
<1> QED
  BY <1>2 DEF Old

\* While the window is not refreshing, no session is live.
LEMMA NobodyLive ==
    ASSUME TypeOK, NEW s \in Sessions, window.op.busy # "refresh" \/ deletion.pc # "off"
    PROVE  window.op.session # s
BY SessionsAssumption DEF TypeOK

\* A thread that moves and touches nothing but revisions of the index, and whose
\* new snapshot is as good as Inv demands.
LEMMA ThreadMoves ==
    ASSUME Inv, NEW s \in Sessions, NEW u \in ThreadRecords,
           threads' = [threads EXCEPT ![s] = u],
           UNCHANGED <<remote, jobs, shown, tabs, window, submission, deletion>>,
           index'.recycled = index.recycled,
           \A p \in Projects : Old(p, u.snap[p]),
           u.pc = "connect" => u.snap = Nothing,
           window.op.session = s /\ Holding(u) =>
               \A p \in Projects : u.snap[p] # None /\ shown[p] # None =>
                   u.snap[p].rev >= shown[p].rev,
           window.op.session = s /\ Holding(u) /\ u.scope = AllProjects /\ u.pc # "index" =>
               \A p \in index.recycled : u.snap[p] = None
    PROVE  Rest'
<1>1. threads'[s] = u /\ \A r \in Sessions : r # s => threads'[r] = threads[r]
  BY DEF Inv, TypeOK
<1>2. CopiesOld'
  BY <1>1 DEF Inv, CopiesOld, Old
<1>3. LiveFresh'
  BY <1>1 DEF Inv, LiveFresh
<1>4. LiveHides'
  BY <1>1 DEF Inv, LiveHides
<1>5. Fresh'
  BY <1>1 DEF Inv, Fresh
<1>6. RecycledHidden' /\ JobsRecorded' /\ SubmissionKnows' /\ DeletionAlone'
  BY DEF Inv, RecycledHidden, JobsRecorded, SubmissionKnows, DeletionAlone
<1> QED
  BY <1>2, <1>3, <1>4, <1>5, <1>6 DEF Rest

\* In particular a thread that keeps the snapshot it held, or drops it.
LEMMA ThreadKeeps ==
    ASSUME Inv, NEW s \in Sessions, NEW u \in ThreadRecords,
           threads' = [threads EXCEPT ![s] = u],
           UNCHANGED <<remote, jobs, shown, tabs, window, submission, deletion>>,
           index'.recycled = index.recycled,
           u.pc # "connect",
           \/ u.snap = Nothing /\ ~Holding(u)
           \/ u.snap = threads[s].snap /\ ~Holding(u)
           \/ /\ u.snap = threads[s].snap /\ u.scope = threads[s].scope
              /\ Holding(threads[s]) /\ threads[s].pc # "index"
    PROVE  Rest'
<1>1. \A p \in Projects : Old(p, u.snap[p])
  <2>1. CASE u.snap = Nothing
    BY <2>1, NoneIsOld DEF Nothing, Inv
  <2>2. CASE u.snap = threads[s].snap
    BY <2>2 DEF Inv, CopiesOld
  <2> QED
    BY <2>1, <2>2
<1>3. window.op.session = s /\ Holding(u) =>
        \A p \in Projects : u.snap[p] # None /\ shown[p] # None => u.snap[p].rev >= shown[p].rev
  BY DEF Inv, LiveFresh
<1>4. window.op.session = s /\ Holding(u) /\ u.scope = AllProjects /\ u.pc # "index" =>
        \A p \in index.recycled : u.snap[p] = None
  BY DEF Inv, LiveHides
<1> QED
  BY <1>1, <1>3, <1>4, ThreadMoves

\* Reporting the end of an operation.
LEMMA EndingKeeps ==
    ASSUME Inv, NEW s \in Sessions, NEW outcome \in {"result", "error", "unknown host"},
           Ending(s, outcome),
           UNCHANGED <<remote, jobs, shown, tabs, window, submission, deletion>>,
           index'.recycled = index.recycled,
           outcome = "result" => threads[s].pc = "flush"
    PROVE  Rest'
<1> DEFINE snap == IF outcome = "result" THEN threads[s].snap ELSE Nothing
           emitted == [Off EXCEPT !.pc = "emitted", !.scope = threads[s].scope,
                         !.outcome = outcome, !.snap = snap]
<1>0. Off.pc # "connect" /\ Off.snap = Nothing /\ ~Holding(Off)
  BY DEF Off, Holding
<1>1. CASE threads' = [threads EXCEPT ![s] = Off]
  BY <1>0, <1>1, OffIsThread, ThreadKeeps
<1>2. CASE threads' = [threads EXCEPT ![s] = emitted]
  <2>1. threads[s] \in ThreadRecords /\ TypeOK
    BY DEF Inv, TypeOK
  <2>2. snap \in Listing /\ threads[s].scope \in Projects \cup {AllProjects}
    BY <2>1, NothingListed DEF ThreadRecords
  <2>3. outcome = "result" => Holding(threads[s]) /\ threads[s].pc # "index" /\ snap = threads[s].snap
    BY DEF Holding
  <2>4. outcome # "result" => snap = Nothing
    OBVIOUS
  <2> HIDE DEF snap
  <2>5. /\ emitted \in ThreadRecords /\ emitted.snap = snap
        /\ emitted.pc # "connect"
        /\ emitted.scope = threads[s].scope
        /\ outcome # "result" => ~Holding(emitted)
    BY <2>2, OffIsThread DEF ThreadRecords, Holding
  <2> HIDE DEF emitted
  <2> QED
    BY <1>2, <2>3, <2>4, <2>5, ThreadKeeps
<1> QED
  BY <1>1, <1>2 DEF Ending, Become

LEMMA ThreadStepKeepsRest ==
    ASSUME Inv, NEW s \in Sessions,
           ConnectFails(s) \/ Read(s) \/ ReadIndex(s) \/ NextProject(s)
           \/ ReconcileFails(s) \/ Flush(s) \/ MarkOneSeen(s) \/ Dropped(s)
    PROVE  Rest'
<1> DEFINE t == threads[s]
<1>t. /\ TypeOK /\ t \in ThreadRecords /\ t.snap \in Listing /\ t.todo \subseteq Projects
      /\ t.scope \in Projects \cup {AllProjects} /\ remote \in Listing
      /\ t.outcome \in {"result", "error", "unknown host"}
      /\ index.recycled \subseteq Projects /\ index.seen \in [Projects -> 0..MaxRev]
  BY DEF Inv, TypeOK, ThreadRecords
<1>off. Off.pc # "connect" /\ Off.snap = Nothing /\ ~Holding(Off)
  BY DEF Off, Holding
<1>shown. \A p \in Projects : shown[p] \in Records /\ Old(p, shown[p])
  BY <1>t DEF Inv, CopiesOld, TypeOK, Listing
<1>1. CASE ConnectFails(s)
  BY <1>1, EndingKeeps DEF ConnectFails
<1>2. CASE Read(s)
  <2>0. index'.recycled = index.recycled
        /\ UNCHANGED <<remote, jobs, shown, tabs, window, submission, deletion>>
    BY <1>2 DEF Read
  <2>1. CASE Ending(s, "error")
    BY <2>0, <2>1, EndingKeeps
  <2>2. CASE Become(s, Off)
    BY <2>0, <2>2, <1>off, OffIsThread, ThreadKeeps DEF Become
  <2>3. ASSUME Become(s, [t EXCEPT !.pc = "index", !.snap = remote]) PROVE Rest'
    <3> DEFINE u == [t EXCEPT !.pc = "index", !.snap = remote]
    <3>1. u \in ThreadRecords /\ u.snap = remote /\ u.pc = "index"
      BY <1>t DEF ThreadRecords
    <3>2. Become(s, u)
      BY <2>3
    <3> HIDE DEF u
    <3>3. \A p \in Projects : Old(p, remote[p])
      BY <1>t, ManifestIsOld
    <3>4. \A p \in Projects : remote[p] # None => remote[p].rev >= shown[p].rev
      BY <1>t, <1>shown, RecordFacts DEF Old, Listing
    <3> QED
      BY <2>0, <3>1, <3>2, <3>3, <3>4, ThreadMoves DEF Become
  <2>4. ASSUME t.scope # AllProjects, remote[t.scope] # None, t.pc = "connect",
               Become(s, [t EXCEPT !.pc = "projects", !.todo = {t.scope},
                                   !.snap[t.scope] = remote[t.scope]])
        PROVE  Rest'
    <3> DEFINE read == [t.snap EXCEPT ![t.scope] = remote[t.scope]]
               u == [t EXCEPT !.pc = "projects", !.todo = {t.scope}, !.snap = read]
    <3>1. read \in Listing /\ t.scope \in Projects
      BY <1>t, <2>4 DEF Listing
    <3>2. \A p \in Projects : Old(p, read[p])
      <4>1. \A p \in Projects : Old(p, t.snap[p]) /\ Old(p, remote[p])
        BY <1>t, ManifestIsOld DEF Inv, CopiesOld
      <4> QED
        BY <1>t, <4>1 DEF Listing
    <3>3. \A p \in Projects : read[p] # None /\ shown[p] # None => read[p].rev >= shown[p].rev
      <4>1. read[t.scope].rev >= shown[t.scope].rev
        BY <1>t, <1>shown, <2>4, <3>1, RecordFacts DEF Old, Listing
      <4>2. \A p \in Projects : p # t.scope => read[p] = None
        BY <1>t, <2>4 DEF Inv, Fresh, Listing, Nothing
      <4> QED
        BY <4>1, <4>2
    <3>4. u \in ThreadRecords /\ u.snap = read /\ u.scope = t.scope /\ u.pc # "connect"
      <4> HIDE DEF read
      <4> QED
        BY <1>t, <3>1 DEF ThreadRecords
    <3>5. Become(s, u)
      BY <2>4
    <3> HIDE DEF u, read
    <3> QED
      BY <2>0, <2>4, <3>2, <3>3, <3>4, <3>5, ThreadMoves DEF Become
  <2> QED
    BY <1>2, <2>1, <2>2, <2>3, <2>4 DEF Read
<1>3. CASE ReadIndex(s)
  <2> DEFINE kept == [p \in Projects |-> IF p \in index.recycled THEN None ELSE t.snap[p]]
             left == {p \in Projects : t.snap[p] # None} \ index.recycled
             u == [t EXCEPT !.pc = "projects", !.refs = index.seen, !.hidden = index.recycled,
                     !.snap = kept, !.todo = left]
  <2>1. kept \in Listing
    BY <1>t, NoneIsRecord DEF Listing
  <2>2. u \in ThreadRecords /\ u.snap = kept /\ u.pc # "connect"
    <3> HIDE DEF kept
    <3> QED
      BY <1>t, <2>1 DEF ThreadRecords
  <2>3. Become(s, u) /\ t.pc = "index"
    BY <1>3 DEF ReadIndex
  <2>4. \A p \in Projects : Old(p, kept[p])
    BY <1>t, NoneIsOld DEF Inv, CopiesOld
  <2>5. window.op.session = s => \A p \in Projects : kept[p] # None /\ shown[p] # None =>
            kept[p].rev >= shown[p].rev
    BY <2>3 DEF Inv, LiveFresh, Holding
  <2>6. \A p \in index.recycled : kept[p] = None
    BY <1>t
  <2>7. index'.recycled = index.recycled
        /\ UNCHANGED <<remote, jobs, shown, tabs, window, submission, deletion>>
    BY <1>3 DEF ReadIndex
  <2> HIDE DEF u, kept
  <2> QED
    BY <2>2, <2>3, <2>4, <2>5, <2>6, <2>7, ThreadMoves DEF Become
<1>4. CASE NextProject(s)
  <2>1. ASSUME NEW pc \in {"flush", "reconcile"}, Become(s, [t EXCEPT !.pc = pc]) PROVE Rest'
    <3> DEFINE u == [t EXCEPT !.pc = pc]
    <3>1. /\ u \in ThreadRecords /\ u.snap = t.snap /\ u.scope = t.scope /\ u.pc # "connect"
          /\ Holding(t) /\ t.pc # "index"
      BY <1>4, <1>t DEF ThreadRecords, NextProject, Holding
    <3>2. Become(s, u)
      BY <2>1
    <3> HIDE DEF u
    <3> QED
      BY <1>4, <3>1, <3>2, ThreadKeeps DEF NextProject, Become
  <2>2. CASE Become(s, Off)
    BY <1>4, <2>2, <1>off, OffIsThread, ThreadKeeps DEF NextProject, Become
  <2> QED
    BY <1>4, <2>1, <2>2 DEF NextProject
<1>5. CASE ReconcileFails(s)
  <2>1. CASE t.scope = AllProjects
    <3> DEFINE u == [t EXCEPT !.pc = "flush", !.outcome = "error"]
    <3>1. /\ u \in ThreadRecords /\ u.snap = t.snap /\ u.scope = t.scope /\ u.pc # "connect"
          /\ Holding(t) /\ t.pc # "index"
      BY <1>5, <1>t DEF ThreadRecords, ReconcileFails, Holding
    <3>2. Become(s, u)
      BY <1>5, <2>1 DEF ReconcileFails
    <3> HIDE DEF u
    <3> QED
      BY <1>5, <3>1, <3>2, ThreadKeeps DEF ReconcileFails, Become
  <2>2. CASE t.scope # AllProjects
    BY <1>5, <2>2, EndingKeeps DEF ReconcileFails
  <2> QED
    BY <2>1, <2>2
<1>6. CASE Flush(s)
  <2>1. index'.recycled = index.recycled
    BY <1>6 DEF Flush, MarkSeenMany
  <2> QED
    BY <1>6, <1>t, <2>1, EndingKeeps DEF Flush
<1>7. CASE MarkOneSeen(s)
  <2>1. index'.recycled = index.recycled
    BY <1>7, <1>t DEF MarkOneSeen, MarkSeen, TypeOK
  <2> QED
    BY <1>7, <2>1, EndingKeeps DEF MarkOneSeen
<1>8. CASE Dropped(s)
  BY <1>8, <1>off, OffIsThread, ThreadKeeps DEF Dropped, Become
<1> QED
  BY <1>1, <1>2, <1>3, <1>4, <1>5, <1>6, <1>7, <1>8

\* Recording an ended job makes the thread's copy the manifest; every other copy
\* becomes one of an earlier revision.
LEMMA ReconcileKeepsRest ==
    ASSUME Inv, NEW s \in Sessions, Reconcile(s)
    PROVE  Rest'
<1> DEFINE t == threads[s]
           p == CHOOSE q \in t.todo : \A r \in t.todo : q <= r
           rest == [t EXCEPT !.pc = "projects", !.todo = @ \ {p}]
<1>t. /\ TypeOK /\ t \in ThreadRecords /\ t.snap \in Listing /\ t.todo \subseteq Projects
      /\ remote \in Listing
      /\ t.pc = "reconcile" /\ Holding(t)
      /\ index.recycled \subseteq Projects
  BY DEF Inv, TypeOK, ThreadRecords, Reconcile, Holding
<1>u. UNCHANGED <<jobs, index, shown, tabs, window, submission, deletion>>
  BY DEF Reconcile
<1>1. CASE Become(s, rest) /\ UNCHANGED remote
  <2>1. /\ rest \in ThreadRecords /\ rest.snap = t.snap /\ rest.scope = t.scope
        /\ rest.pc # "connect"
    BY <1>t DEF ThreadRecords
  <2> HIDE DEF rest
  <2> QED
    BY <1>1, <1>t, <1>u, <2>1, ThreadKeeps DEF Become
<1>2. ASSUME NEW state \in Recorded(t.snap[p], jobs[p][t.snap[p].try]),
             remote[p].rev = t.snap[p].rev,
             remote' = [remote EXCEPT ![p] = [t.snap[p] EXCEPT !.rev = @ + 1, !.state = state]],
             LET u == [t EXCEPT !.snap[p] = [t.snap[p] EXCEPT !.rev = @ + 1, !.state = state]]
             IN  \/ Become(s, u)
                 \/ Become(s, [u EXCEPT !.pc = "projects", !.todo = @ \ {p}])
      PROVE  Rest'
  <2> DEFINE written == [t.snap[p] EXCEPT !.rev = @ + 1, !.state = state]
             snap == [t.snap EXCEPT ![p] = written]
             v == [t EXCEPT !.snap = snap]
             w == [v EXCEPT !.pc = "projects", !.todo = @ \ {p}]
  <2>1. /\ v.snap = snap /\ v.scope = t.scope /\ v.pc = "reconcile"
        /\ w.snap = snap /\ w.scope = t.scope /\ w.pc = "projects"
    <3> HIDE DEF p, written
    <3> QED
      BY <1>t DEF ThreadRecords
  <2>2. PICK u \in {v, w} :
        /\ threads' = [threads EXCEPT ![s] = u]
        /\ threads'[s] = u /\ \A r \in Sessions : r # s => threads'[r] = threads[r]
    <3>1. threads' = [threads EXCEPT ![s] = v] \/ threads' = [threads EXCEPT ![s] = w]
      BY <1>2 DEF Become
    <3> HIDE DEF v, w
    <3> QED
      BY <1>t, <3>1 DEF TypeOK
  <2>3. ASSUME p \in Projects
        PROVE  /\ t.snap[p] \in Manifests /\ t.snap[p].rev \in 0..MaxRev /\ t.snap[p] # None
               /\ remote[p] = t.snap[p] /\ state \in StepStates
               /\ jobs[p][remote[p].try] = "alive" => state \in Unsafe
    <3> HIDE DEF p
    <3>1. t.snap[p] \in Records /\ remote[p] \in Records
      BY <1>t, <2>3 DEF Listing
    <3>2. jobs[p][t.snap[p].try] \in JobStates
      <4>1. t.snap[p].try \in 0..MaxTries
        BY <3>1, RecordFacts
      <4>2. jobs[p] \in [0..MaxTries -> JobStates]
        BY <1>t, <2>3 DEF TypeOK
      <4> QED
        BY <4>1, <4>2
    <3>3. /\ state \in StepStates /\ t.snap[p] # None
          /\ jobs[p][t.snap[p].try] = "alive" /\ t.snap[p].state \in Unsafe => state \in Unsafe
      BY <1>2, <3>1, <3>2, RecordedStates
    <3>4. t.snap[p].rev \in 0..MaxRev /\ t.snap[p].rev # 0 /\ t.snap[p] \in Manifests
      BY <3>1, <3>3, RecordFacts
    <3>5. remote[p] # None
      BY <1>2, <3>1, <3>4, RecordFacts
    <3>6. remote[p] = t.snap[p]
      BY <1>2, <2>3, <3>5 DEF Inv, CopiesOld, Old
    <3> QED
      BY <2>3, <3>3, <3>4, <3>5, <3>6 DEF Inv, JobsRecorded
  <2>4. \A q \in Projects :
          /\ remote'[q] = IF q = p THEN written ELSE remote[q]
          /\ snap[q] = IF q = p THEN written ELSE t.snap[q]
    <3> HIDE DEF p, written
    <3>1. remote' = [remote EXCEPT ![p] = written]
      BY <1>2 DEF written
    <3> QED
      BY <3>1, <1>t DEF Listing
  <2>5. p \in Projects =>
          /\ written.rev = remote[p].rev + 1 /\ written # None
          /\ written.state = state /\ written.try = remote[p].try
    <3> SUFFICES ASSUME p \in Projects
                 PROVE  /\ written.rev = remote[p].rev + 1 /\ written # None
                        /\ written.state = state /\ written.try = remote[p].try
      OBVIOUS
    <3>1. t.snap[p] \in Manifests /\ t.snap[p].rev \in 0..MaxRev /\ remote[p] = t.snap[p]
          /\ state \in StepStates
      BY <2>3
    <3> HIDE DEF p
    <3>2. /\ written.rev = t.snap[p].rev + 1 /\ written.state = state
          /\ written.try = t.snap[p].try
      BY <3>1 DEF Manifests
    <3> HIDE DEF written
    <3> QED
      BY <3>1, <3>2 DEF None
  <2> HIDE DEF p, written, snap, v, w, rest
  <2>6. CopiesOld'
    <3>1. ASSUME NEW q \in Projects, NEW r \in Records, Old(q, r)
          PROVE  Old(q, r)'
      <4>1. CASE q = p
        <5>1. r.rev \in 0..MaxRev /\ remote[q].rev \in 0..MaxRev
          BY <2>3, <4>1, <3>1, RecordFacts
        <5>2. r.rev <= remote[q].rev
          BY <2>3, <3>1, <4>1 DEF Old
        <5> QED
          BY <2>4, <2>5, <4>1, <5>1, <5>2 DEF Old
      <4>2. CASE q # p
        BY <2>4, <3>1, <4>2 DEF Old
      <4> QED
        BY <4>1, <4>2
    <3>2. ASSUME NEW q \in Projects, NEW r \in Sessions
          PROVE  Old(q, threads[r].snap[q])'
      <4>1. CASE r # s \/ q # p
        <5>1. threads'[r].snap[q] = threads[r].snap[q]
          BY <2>1, <2>2, <2>4, <4>1
        <5>2. threads[r].snap[q] \in Records
          <6>1. threads[r] \in ThreadRecords
            BY <1>t DEF TypeOK
          <6>2. threads[r].snap \in Listing
            BY <6>1 DEF ThreadRecords
          <6> QED
            BY <6>2 DEF Listing
        <5>3. Old(q, threads[r].snap[q])
          BY DEF Inv, CopiesOld
        <5> QED
          BY <3>1, <5>1, <5>2, <5>3 DEF Old
      <4>2. CASE r = s /\ q = p
        <5>1. threads'[r].snap[q] = remote'[q]
          BY <2>1, <2>2, <2>4, <4>2
        <5>2. remote'[q].rev \in Nat
          BY <2>3, <2>4, <2>5, <4>2
        <5> QED
          BY <5>1, <5>2 DEF Old
      <4> QED
        BY <4>1, <4>2
    <3>3. ASSUME NEW q \in Projects PROVE Old(q, shown[q])'
      <4>1. shown[q] \in Records /\ Old(q, shown[q]) /\ shown'[q] = shown[q]
        BY <1>t, <1>u DEF TypeOK, Listing, Inv, CopiesOld
      <4> QED
        BY <3>1, <4>1 DEF Old
    <3> QED
      BY <3>2, <3>3 DEF CopiesOld
  <2>7. LiveFresh'
    <3> SUFFICES ASSUME window.op.session = s, NEW q \in Projects,
                        snap[q] # None, shown[q] # None
                 PROVE  snap[q].rev >= shown[q].rev
      BY <1>u, <2>1, <2>2 DEF LiveFresh, Inv
    <3>1. q = p \/ t.snap[q] # None => t.snap[q].rev >= shown[q].rev
      BY <1>t, <2>3 DEF Inv, LiveFresh
    <3>2. shown[q].rev \in 0..MaxRev
      BY <1>t, RecordFacts DEF TypeOK, Listing
    <3> QED
      BY <2>3, <2>4, <2>5, <3>1, <3>2
  <2>8. LiveHides'
    <3> SUFFICES ASSUME window.op.session = s, t.scope = AllProjects, NEW q \in index.recycled
                 PROVE  snap[q] = None
      BY <1>u, <2>1, <2>2 DEF LiveHides, Inv
    <3>1. t.snap[q] = None /\ q \in Projects
      BY <1>t DEF Inv, LiveHides
    <3> QED
      BY <2>3, <2>4, <3>1
  <2>9. JobsRecorded'
    BY <1>u, <2>3, <2>4, <2>5 DEF Inv, JobsRecorded
  <2>10. SubmissionKnows'
    BY <1>u, <2>3, <2>4, <2>5 DEF Inv, SubmissionKnows
  <2>11. DeletionAlone'
    BY <1>u, <2>3, <2>4, <2>5 DEF Inv, DeletionAlone
  <2>12. Fresh' /\ RecycledHidden'
    BY <1>u, <2>1, <2>2 DEF Inv, Fresh, RecycledHidden
  <2> QED
    BY <2>6, <2>7, <2>8, <2>9, <2>10, <2>11, <2>12 DEF Rest
<1>3. \/ Become(s, rest) /\ UNCHANGED remote
      \/ Rest'
  BY <1>2 DEF Reconcile
<1> QED
  BY <1>1, <1>3

\* Nothing is live once the window is free, and a new session holds nothing yet.
LEMMA WindowStepKeepsRest ==
    ASSUME Inv, TypeOK', NEW s \in Sessions,
           StartRefresh(s) \/ Stop(s) \/ Timeout(s) \/ Succeeded(s) \/ Failed(s)
           \/ \E r \in Sessions : TrustAndRetry(s, r)
    PROVE  Rest'
<1>t. /\ TypeOK /\ threads \in [Sessions -> ThreadRecords] /\ NoSession \notin Sessions
      /\ Off.snap = Nothing /\ ~Holding(Off) /\ Off.pc = "off"
  BY SessionsAssumption DEF Inv, TypeOK, Off, Holding
<1>n. \A p \in Projects : Nothing[p] = None /\ Old(p, None)
  BY <1>t, NoneIsOld DEF Nothing
<1>1. CASE StartRefresh(s) \/ \E r \in Sessions : TrustAndRetry(s, r)
  <2>1. PICK r \in Sessions, scope \in Projects \cup {AllProjects}, open \in BOOLEAN :
          /\ threads' = [threads EXCEPT ![s] = Off,
                           ![r] = [Off EXCEPT !.pc = "connect", !.scope = scope]]
          /\ window'.op.session = r
          /\ r = s \/ threads[r].pc = "off"
    <3>1. CASE StartRefresh(s)
      <4>1. PICK scope \in Projects \cup {AllProjects}, open \in BOOLEAN : Started(s, scope, open)
        BY <3>1 DEF StartRefresh
      <4>2. /\ threads' = [threads EXCEPT ![s] = [Off EXCEPT !.pc = "connect", !.scope = scope]]
            /\ window'.op.session = s
        BY <1>t, <4>1 DEF Started, TypeOK
      <4> QED
        BY <1>t, <4>2
    <3>2. CASE \E r \in Sessions : TrustAndRetry(s, r)
      <4>1. PICK r \in Sessions : TrustAndRetry(s, r)
        BY <3>2
      <4>2. window'.op.session = r /\ window.op.scope \in Projects \cup {AllProjects}
        BY <1>t, <4>1 DEF TrustAndRetry, TypeOK, Operations
      <4> QED
        BY <4>1, <4>2 DEF TrustAndRetry
    <3> QED
      BY <1>1, <3>1, <3>2
  <2> DEFINE u == [Off EXCEPT !.pc = "connect", !.scope = scope]
  <2>2. u.snap = Nothing /\ ~Holding(u)
    BY DEF Off, Holding
  <2>3. /\ threads'[r] = u
        /\ \A q \in Sessions : q # r => threads'[q] \in {threads[q], Off}
    <3> HIDE DEF u
    <3>1. threads' = [threads EXCEPT ![s] = Off, ![r] = u]
      BY <2>1 DEF u
    <3> QED
      BY <1>t, <3>1
  <2> HIDE DEF u
  <2>4. UNCHANGED <<remote, jobs, index, shown, tabs, submission, deletion>>
    BY <1>1 DEF StartRefresh, TrustAndRetry
  <2>5. CopiesOld' /\ Fresh'
    BY <1>t, <1>n, <2>2, <2>3, <2>4 DEF Inv, CopiesOld, Fresh, Old
  <2>6. LiveFresh' /\ LiveHides'
    BY <2>1, <2>2, <2>3 DEF LiveFresh, LiveHides
  <2> QED
    BY <2>4, <2>5, <2>6 DEF Rest, Inv, RecycledHidden, JobsRecorded, SubmissionKnows, DeletionAlone
<1>2. CASE Stop(s) \/ Timeout(s)
  <2>1. window'.op.session = NoSession
    BY <1>2, <1>t DEF Stop, Timeout, Abandon, TypeOK, Idle
  <2>2. UNCHANGED <<remote, jobs, index, shown, tabs, threads, submission, deletion>>
    BY <1>2 DEF Stop, Timeout, Abandon
  <2> QED
    BY <1>t, <2>1, <2>2 DEF Rest, Inv, CopiesOld, Old, LiveFresh, LiveHides, Fresh,
       RecycledHidden, JobsRecorded, SubmissionKnows, DeletionAlone
<1>3. CASE Succeeded(s) \/ Failed(s)
  <2>1. /\ window'.op.session = NoSession /\ window.op.session = s
        /\ threads' = [threads EXCEPT ![s] = Off]
        /\ UNCHANGED <<remote, jobs, index, submission, deletion>>
    BY <1>3, <1>t DEF Succeeded, Failed, Accepted, Stopped, Become, TypeOK, Idle
  <2>2. \A q \in Sessions : threads'[q] \in {threads[q], Off}
    BY <1>t, <2>1
  <2>3. LiveFresh' /\ LiveHides' /\ Fresh' /\ JobsRecorded' /\ SubmissionKnows'
    BY <1>t, <2>1, <2>2 DEF LiveFresh, LiveHides, Inv, Fresh, JobsRecorded, SubmissionKnows
  <2>4. \A p \in Projects : shown'[p] \in {shown[p], threads[s].snap[p]}
    <3>1. shown \in Listing
      BY <1>t DEF TypeOK
    <3>2. CASE Failed(s)
      BY <3>2 DEF Failed
    <3>3. CASE Succeeded(s)
      <4>1. CASE threads[s].scope = AllProjects
        BY <3>3, <4>1 DEF Succeeded
      <4>2. CASE threads[s].scope # AllProjects
        BY <3>1, <3>3, <4>2 DEF Succeeded, Replaced, Listing
      <4> QED
        BY <4>1, <4>2
    <3> QED
      BY <1>3, <3>2, <3>3
  <2>5. CopiesOld'
    BY <1>t, <1>n, <2>1, <2>2, <2>4 DEF Inv, CopiesOld, Old
  <2>6. RecycledHidden'
    <3>1. shown \in Listing /\ index.recycled \subseteq Projects
      BY <1>t DEF TypeOK
    <3>2. CASE Failed(s)
      BY <3>2, <2>1 DEF Failed, Inv, RecycledHidden
    <3>3. ASSUME Succeeded(s), threads[s].scope = AllProjects PROVE RecycledHidden'
      BY <2>1, <3>3 DEF Succeeded, Accepted, Holding, Inv, LiveHides, RecycledHidden
    <3>4. ASSUME Succeeded(s), threads[s].scope # AllProjects PROVE RecycledHidden'
      BY <2>1, <3>1, <3>4 DEF Succeeded, Replaced, Listing, Inv, RecycledHidden
    <3> QED
      BY <1>3, <3>2, <3>3, <3>4
  <2>7. DeletionAlone'
    <3>1. deletion.pc = "off"
      BY <1>t, <2>1 DEF TypeOK
    <3> QED
      BY <2>1, <3>1 DEF Inv, DeletionAlone
  <2> QED
    BY <2>3, <2>5, <2>6, <2>7 DEF Rest
<1> QED
  BY <1>1, <1>2, <1>3

\* What a submission records replaces the manifest the worker was given by a newer one; it
\* cannot be the one being deleted.
LEMMA MainWindowStepKeepsRest ==
    ASSUME Inv,
           \/ Revalidate \/ Dispatch \/ RecordOutcome \/ SubmissionEnds \/ SubmissionFails
           \/ \E p \in Projects :
                CloseTab(p) \/ StartSubmission(p) \/ \E n \in Tries : JobMoves(p, n)
    PROVE  Rest'
<1>t. /\ TypeOK /\ remote \in Listing /\ tabs \in Listing
      /\ jobs \in [Projects -> [0..MaxTries -> JobStates]] /\ submission \in Submissions
  BY DEF Inv, TypeOK
<1>0. 0 \notin Projects
  BY ProjectsAssumption
<1>1. CASE RecordOutcome
  <2> DEFINE p == submission.project
             written == [rev |-> submission.record.rev + 1, state |-> submission.outcome,
                         try |-> submission.try]
  <2>1. /\ submission.pc = "record" /\ remote[p].rev = submission.record.rev
        /\ remote' = [remote EXCEPT ![p] = written]
        /\ submission'.project = p /\ submission'.pc = "seen"
        /\ UNCHANGED <<jobs, index, shown, tabs, window, threads, deletion>>
    BY <1>1, <1>t DEF RecordOutcome, Submissions
  <2>2. /\ p \in Projects /\ submission.record # None
        /\ submission.outcome = "refused" => jobs[p][submission.try] = "none"
    BY <2>1 DEF Inv, SubmissionKnows
  <2>3. /\ submission.outcome \in {"active", "refused", "unknown"}
        /\ submission.record.rev \in 0..MaxRev /\ remote[p] # None
    <3>1. submission.record \in Records /\ remote[p] \in Records
      BY <1>t, <2>2 DEF Submissions, Listing
    <3>2. submission.outcome \in {"active", "refused", "unknown"}
      BY <1>t, <2>1 DEF Inv, TypeOK, Submissions
    <3> HIDE DEF p
    <3> QED
      BY <2>1, <2>2, <3>1, <3>2, RecordFacts
  <2>4. /\ written.rev = remote[p].rev + 1 /\ written.state = submission.outcome
        /\ written.try = submission.try /\ remote[p].rev \in 0..MaxRev
    BY <2>1, <2>3
  <2> HIDE DEF p, written
  <2>5. \A q \in Projects : remote'[q] = IF q = p THEN written ELSE remote[q]
    BY <1>t, <2>1 DEF Listing
  <2>6. ASSUME NEW q \in Projects, NEW r \in Records, Old(q, r) PROVE Old(q, r)'
    <3>1. CASE q = p
      <4>1. r.rev \in 0..MaxRev /\ r.rev <= remote[p].rev
        BY <2>3, <2>6, <3>1, RecordFacts DEF Old
      <4> QED
        BY <2>4, <2>5, <3>1, <4>1 DEF Old
    <3>2. CASE q # p
      BY <2>5, <2>6, <3>2 DEF Old
    <3> QED
      BY <3>1, <3>2
  <2>7. CopiesOld'
    <3>1. ASSUME NEW q \in Projects, NEW s \in Sessions
          PROVE  Old(q, threads[s].snap[q])'
      <4>1. threads[s] \in ThreadRecords
        BY <1>t DEF TypeOK
      <4>2. threads[s].snap \in Listing
        BY <4>1 DEF ThreadRecords
      <4>3. threads[s].snap[q] \in Records
        BY <4>2 DEF Listing
      <4>4. Old(q, threads[s].snap[q])
        BY DEF Inv, CopiesOld
      <4> QED
        BY <2>1, <2>6, <4>3, <4>4 DEF Old
    <3>2. ASSUME NEW q \in Projects PROVE Old(q, shown[q])'
      <4>1. shown[q] \in Records /\ Old(q, shown[q])
        BY <1>t DEF TypeOK, Listing, Inv, CopiesOld
      <4> QED
        BY <2>1, <2>6, <4>1 DEF Old
    <3> QED
      BY <3>1, <3>2 DEF CopiesOld
  <2>8. JobsRecorded'
    BY <2>1, <2>2, <2>3, <2>4, <2>5 DEF Inv, JobsRecorded, Unsafe
  <2>9. SubmissionKnows'
    <3>1. submission'.record # None
      <4>1. submission'.record = written
        BY <1>1, <1>t DEF RecordOutcome, Submissions, written, p
      <4> QED
        BY <2>3, <2>4, <4>1, NoneIsRecord
    <3> QED
      BY <2>1, <2>2, <3>1 DEF SubmissionKnows
  <2>10. DeletionAlone'
    <3>1. deletion.pc # "off" => deletion.project \in Projects /\ p # deletion.project
      BY DEF Inv, DeletionAlone, p
    <3> QED
      BY <2>1, <2>5, <3>1 DEF Inv, DeletionAlone
  <2>11. LiveFresh' /\ LiveHides' /\ RecycledHidden' /\ Fresh'
    BY <2>1 DEF Inv, LiveFresh, LiveHides, RecycledHidden, Fresh
  <2> QED
    BY <2>7, <2>8, <2>9, <2>10, <2>11 DEF Rest
<1>2. CASE Dispatch
  <2> DEFINE p == submission.project
  <2>1. PICK n \in Tries, outcome \in {"active", "refused", "unknown"} :
          /\ NextTry(p, n)
          /\ submission' = [submission EXCEPT !.pc = "record", !.try = n, !.outcome = outcome]
          /\ \/ outcome # "refused" /\ jobs' = [jobs EXCEPT ![p][n] = "alive"]
             \/ UNCHANGED jobs
    BY <1>2 DEF Dispatch
  <2>2. /\ submission.pc = "dispatch"
        /\ UNCHANGED <<remote, index, shown, tabs, window, threads, deletion>>
    BY <1>2 DEF Dispatch
  <2>3. /\ p \in Projects /\ submission.record # None
        /\ remote[p] = None \/ remote[p].try = submission.record.try
    BY <2>2 DEF Inv, SubmissionKnows
  <2>4. /\ submission'.pc = "record" /\ submission'.project = p /\ submission'.try = n
        /\ submission'.outcome = outcome /\ submission'.record = submission.record
    BY <1>t, <2>1 DEF Submissions
  <2>5. n \in Nat /\ n \in 0..MaxTries /\ n > submission.record.try /\ jobs[p][n] = "none"
    BY <2>1, MaxTriesAssumption DEF NextTry, Tries
  <2> HIDE DEF p
  <2>6. /\ \A q \in Projects : q # p => jobs'[q] = jobs[q]
        /\ \A m \in 0..MaxTries : m # n => jobs'[p][m] = jobs[p][m]
        /\ outcome = "refused" => jobs'[p][n] = "none"
    BY <1>t, <2>1, <2>3, <2>5
  <2>7. JobsRecorded'
    <3> SUFFICES ASSUME NEW q \in Projects, remote[q] # None, jobs'[q][remote[q].try] = "alive"
                 PROVE  remote[q].state \in Unsafe
      BY <2>2 DEF JobsRecorded
    <3>1. remote[q].try \in 0..MaxTries
      BY <1>t, RecordFacts DEF Listing
    <3>2. q = p => remote[q].try # n
      BY <2>3, <2>5, <3>1
    <3>3. jobs[q][remote[q].try] = "alive"
      BY <2>6, <3>1, <3>2
    <3> QED
      BY <3>3 DEF Inv, JobsRecorded
  <2>8. SubmissionKnows'
    BY <2>2, <2>3, <2>4, <2>6 DEF SubmissionKnows
  <2>9. DeletionAlone'
    <3>1. deletion.pc # "off" => deletion.project \in Projects /\ p # deletion.project
      BY DEF Inv, DeletionAlone, p
    <3>2. deletion.pc # "off" => jobs'[deletion.project] = jobs[deletion.project]
      BY <2>6, <3>1
    <3> QED
      BY <2>2, <2>4, <3>1, <3>2 DEF Inv, DeletionAlone
  <2> QED
    BY <2>2, <2>7, <2>8, <2>9 DEF Rest, Inv, CopiesOld, Old, LiveFresh, LiveHides,
       RecycledHidden, Fresh
<1>3. CASE Revalidate
  <2>1. /\ submission.pc = "load" /\ remote[submission.project] = submission.record
        /\ submission'.pc = "dispatch" /\ submission'.project = submission.project
        /\ submission'.record = submission.record
        /\ UNCHANGED <<remote, jobs, index, shown, tabs, window, threads, deletion>>
    BY <1>3, <1>t DEF Revalidate, Submissions
  <2>2. SubmissionKnows'
    BY <2>1 DEF Inv, SubmissionKnows
  <2>3. DeletionAlone'
    BY <2>1 DEF Inv, DeletionAlone
  <2> QED
    BY <2>1, <2>2, <2>3 DEF Rest, Inv, CopiesOld, Old, LiveFresh, LiveHides, RecycledHidden,
       Fresh, JobsRecorded
<1>4. CASE SubmissionEnds \/ SubmissionFails
  <2>1. /\ index'.recycled = index.recycled
        /\ submission'.pc = "off" /\ submission'.project = 0
        /\ UNCHANGED <<remote, jobs, shown, window, threads, deletion>>
    BY <1>4, <1>t DEF SubmissionEnds, SubmissionFails, MarkSeen, NoSubmission, TypeOK
  <2>2. \A p \in Projects : tabs[p] = None => tabs'[p] = None
    BY <1>4, <1>t DEF SubmissionEnds, SubmissionFails, Listing
  <2>3. DeletionAlone' /\ SubmissionKnows'
    BY <1>0, <2>1, <2>2 DEF Inv, DeletionAlone, SubmissionKnows
  <2> QED
    BY <2>1, <2>3 DEF Rest, Inv, CopiesOld, Old, LiveFresh, LiveHides, RecycledHidden,
       Fresh, JobsRecorded
<1>5. ASSUME NEW p \in Projects, CloseTab(p) PROVE Rest'
  <2>1. UNCHANGED <<remote, jobs, index, shown, window, threads, submission, deletion>>
        /\ \A q \in Projects : tabs[q] = None => tabs'[q] = None
    BY <1>5, <1>t DEF CloseTab, Listing
  <2> QED
    BY <2>1 DEF Rest, Inv, CopiesOld, Old, LiveFresh, LiveHides, RecycledHidden,
       Fresh, JobsRecorded, SubmissionKnows, DeletionAlone
<1>6. ASSUME NEW p \in Projects, StartSubmission(p) PROVE Rest'
  <2>1. /\ submission'.pc = "load" /\ submission'.project = p /\ tabs[p] # None
        /\ submission'.record = tabs[p]
        /\ UNCHANGED <<remote, jobs, index, shown, tabs, window, threads, deletion>>
    BY <1>6, NoneIsRecord DEF StartSubmission, NoSubmission
  <2>2. SubmissionKnows' /\ DeletionAlone'
    BY <2>1 DEF Inv, SubmissionKnows, DeletionAlone
  <2> QED
    BY <2>1, <2>2 DEF Rest, Inv, CopiesOld, Old, LiveFresh, LiveHides, RecycledHidden,
       Fresh, JobsRecorded
<1>7. ASSUME NEW p \in Projects, NEW n \in Tries, JobMoves(p, n) PROVE Rest'
  <2>1. PICK state \in {"failed", "done", "requeued"} :
          jobs[p][n] # "none" /\ jobs' = [jobs EXCEPT ![p][n] = state]
    BY <1>7 DEF JobMoves
  <2>2. UNCHANGED <<remote, index, shown, tabs, window, threads, submission, deletion>>
    BY <1>7 DEF JobMoves
  <2>3. \A q \in Projects, m \in 0..MaxTries :
          /\ jobs'[q][m] = "alive" => jobs[q][m] = "alive"
          /\ jobs[q][m] = "none" => jobs'[q][m] = "none"
    BY <1>t, <2>1
  <2>4. \A q \in Projects : remote[q].try \in 0..MaxTries
    BY <1>t, RecordFacts DEF Listing
  <2>5. submission.try \in 0..MaxTries
    BY <1>t DEF Submissions
  <2>6. JobsRecorded' /\ SubmissionKnows' /\ DeletionAlone'
    BY <2>2, <2>3, <2>4, <2>5 DEF Inv, JobsRecorded, SubmissionKnows, DeletionAlone
  <2> QED
    BY <2>2, <2>6 DEF Rest, Inv, CopiesOld, Old, LiveFresh, LiveHides, RecycledHidden, Fresh
<1> QED
  BY <1>1, <1>2, <1>3, <1>4, <1>5, <1>6, <1>7

\* Recycling and deletion need a window that is not refreshing: no session is live.
LEMMA RecycleStepKeepsRest ==
    ASSUME Inv, TypeOK',
           \/ Verify \/ DeletionFails \/ Remove \/ ConfirmAbsent \/ Restart
           \/ \E p \in Projects : MoveToRecycle(p) \/ Restore(p) \/ StartDeletion(p)
    PROVE  Rest'
<1>t. /\ TypeOK /\ remote \in Listing /\ shown \in Listing /\ NoSession \notin Sessions
      /\ index.recycled \subseteq Projects /\ index.seen \in [Projects -> 0..MaxRev]
      /\ index \in [seen : [Projects -> 0..MaxRev], recycled : SUBSET Projects]
  BY SessionsAssumption DEF Inv, TypeOK
<1>n. \A p \in Projects : Old(p, None)
  BY <1>t, NoneIsOld
<1>o. DeletionOver => deletion'.pc = "off" /\ window'.op.session = NoSession
  BY <1>t DEF DeletionOver, NoDeletion, Idle, TypeOK
<1>live. ASSUME window.op.busy # "refresh" \/ deletion.pc # "off", NEW s \in Sessions
         PROVE  window.op.session # s
  BY <1>live, <1>t, NobodyLive
<1>1. CASE Verify
  <2>1. /\ deletion.pc # "off" /\ deletion'.project = deletion.project
        /\ deletion'.record = deletion.record /\ deletion'.pc = "remove"
        /\ remote[deletion.project] = deletion.record
        /\ deletion.record.state \notin Unsafe
        /\ UNCHANGED <<remote, jobs, index, shown, tabs, window, threads, submission>>
    BY <1>1, <1>t DEF Verify, Unchanged, TypeOK
  <2>2. DeletionAlone'
    BY <2>1 DEF Inv, DeletionAlone, JobsRecorded
  <2> QED
    BY <2>1, <2>2 DEF Rest, Inv, CopiesOld, Old, LiveFresh, LiveHides, RecycledHidden,
       Fresh, JobsRecorded, SubmissionKnows
<1>2. CASE DeletionFails
  <2>1. /\ deletion'.pc = "off" /\ window'.op.session = NoSession
        /\ UNCHANGED <<remote, jobs, index, shown, tabs, threads, submission>>
    BY <1>2, <1>o DEF DeletionFails
  <2> QED
    BY <1>t, <2>1 DEF Rest, Inv, CopiesOld, Old, LiveFresh, LiveHides, RecycledHidden,
       Fresh, JobsRecorded, SubmissionKnows, DeletionAlone
<1>3. CASE Remove
  <2>1. /\ deletion.pc = "remove"
        /\ remote' = [remote EXCEPT ![deletion.project] = None]
        /\ UNCHANGED <<jobs, index, shown, tabs, threads, submission>>
        /\ deletion'.pc # "remove"
        /\ deletion'.pc # "off" => deletion'.project = deletion.project
    BY <1>3, <1>t, <1>o DEF Remove, TypeOK
  <2>2. \A s \in Sessions : window'.op.session # s
    BY <1>3, <1>t, <1>o, <1>live DEF Remove
  <2>3. \A p \in Projects : remote'[p] \in {remote[p], None}
    BY <1>t, <2>1 DEF Listing
  <2>4. CopiesOld' /\ JobsRecorded' /\ SubmissionKnows'
    BY <2>1, <2>3 DEF Inv, CopiesOld, Old, JobsRecorded, SubmissionKnows
  <2>5. LiveFresh' /\ LiveHides' /\ RecycledHidden' /\ Fresh' /\ DeletionAlone'
    BY <2>1, <2>2 DEF Inv, LiveFresh, LiveHides, RecycledHidden, Fresh, DeletionAlone
  <2> QED
    BY <2>4, <2>5 DEF Rest
<1>4. CASE ConfirmAbsent
  <2>1. /\ index'.recycled \subseteq index.recycled
        /\ \A p \in Projects : shown'[p] \in {shown[p], None}
    BY <1>4, <1>t DEF ConfirmAbsent, Forget, MarkSeen, Listing
  <2>2. /\ deletion'.pc = "off" /\ window'.op.session = NoSession
        /\ UNCHANGED <<remote, jobs, tabs, threads, submission>>
    BY <1>4, <1>o DEF ConfirmAbsent
  <2>3. CopiesOld' /\ RecycledHidden'
    BY <1>t, <1>n, <2>1, <2>2 DEF Inv, CopiesOld, Old, RecycledHidden
  <2>4. LiveFresh' /\ LiveHides' /\ Fresh' /\ JobsRecorded' /\ SubmissionKnows' /\ DeletionAlone'
    BY <1>t, <2>2 DEF Inv, LiveFresh, LiveHides, Fresh, JobsRecorded, SubmissionKnows, DeletionAlone
  <2> QED
    BY <2>3, <2>4 DEF Rest
<1>5. CASE Restart
  <2>1. /\ \A p \in Projects : shown'[p] = None /\ tabs'[p] = None
        /\ \A s \in Sessions : threads'[s] = Off
        /\ window'.op.session = NoSession
        /\ submission'.pc = "off" /\ submission'.project = 0 /\ deletion'.pc = "off"
        /\ UNCHANGED <<remote, jobs, index>>
    BY <1>5 DEF Restart, Nothing, Idle, NoSubmission, NoDeletion
  <2>2. Off.snap = Nothing /\ \A p \in Projects : Nothing[p] = None
    BY DEF Off, Nothing
  <2>3. CopiesOld' /\ Fresh'
    BY <1>n, <2>1, <2>2 DEF CopiesOld, Old, Fresh
  <2>4. LiveFresh' /\ LiveHides' /\ RecycledHidden' /\ JobsRecorded' /\ SubmissionKnows' /\ DeletionAlone'
    BY <1>t, <2>1 DEF Inv, LiveFresh, LiveHides, RecycledHidden, JobsRecorded, SubmissionKnows, DeletionAlone
  <2> QED
    BY <2>3, <2>4 DEF Rest
<1>6. ASSUME NEW p \in Projects, MoveToRecycle(p) PROVE Rest'
  <2>1. /\ index'.recycled = index.recycled \cup {p}
        /\ \A q \in Projects : shown'[q] = IF q = p THEN None ELSE shown[q]
        /\ UNCHANGED <<remote, jobs, tabs, window, threads, submission, deletion>>
    BY <1>6, <1>t DEF MoveToRecycle, Recycle, MarkSeen, Listing
  <2>2. \A s \in Sessions : window.op.session # s
    BY <1>6, <1>live DEF MoveToRecycle, Busy
  <2>3. CopiesOld' /\ RecycledHidden'
    BY <1>t, <1>n, <2>1 DEF Inv, CopiesOld, Old, RecycledHidden
  <2>4. LiveFresh' /\ LiveHides' /\ Fresh' /\ JobsRecorded' /\ SubmissionKnows' /\ DeletionAlone'
    BY <2>1, <2>2 DEF Inv, LiveFresh, LiveHides, Fresh, JobsRecorded, SubmissionKnows, DeletionAlone
  <2> QED
    BY <2>3, <2>4 DEF Rest
<1>7. ASSUME NEW p \in Projects, Restore(p) PROVE Rest'
  <2>1. /\ index'.recycled = index.recycled \ {p}
        /\ UNCHANGED <<remote, jobs, shown, tabs, window, threads, submission, deletion>>
    BY <1>7, <1>t DEF Restore
  <2> QED
    BY <2>1 DEF Rest, Inv, CopiesOld, Old, LiveFresh, LiveHides, RecycledHidden,
       Fresh, JobsRecorded, SubmissionKnows, DeletionAlone
<1>8. ASSUME NEW p \in Projects, StartDeletion(p) PROVE Rest'
  <2>1. /\ deletion'.pc = "verify" /\ deletion'.project = p /\ tabs[p] = None
        /\ window'.op.session = NoSession
        /\ UNCHANGED <<remote, jobs, index, shown, tabs, threads, submission>>
    BY <1>8, <1>t DEF StartDeletion, Idle, TypeOK
  <2>2. submission.project # p
    BY <1>8, ProjectsAssumption DEF StartDeletion, Deletable, Inv, DeletionAlone
  <2>3. DeletionAlone'
    BY <2>1, <2>2 DEF Inv, DeletionAlone
  <2> QED
    BY <1>t, <2>1, <2>3 DEF Rest, Inv, CopiesOld, Old, LiveFresh, LiveHides, RecycledHidden,
       Fresh, JobsRecorded, SubmissionKnows
<1> QED
  BY <1>1, <1>2, <1>3, <1>4, <1>5, <1>6, <1>7, <1>8

----------------------------------------------------------------------------
\* The invariant holds of a fresh installation with freshly created projects.
THEOREM InvInit == Init => Inv
<1> SUFFICES ASSUME Init PROVE Inv
  OBVIOUS
<1>1. TypeOK
  BY TypeInit
<1>2. /\ \A p \in Projects : shown[p] = None /\ Old(p, None)
      /\ \A s \in Sessions : threads[s] = Off
  BY <1>1, NoneIsOld DEF Init, Nothing
<1>3. Off.snap = Nothing /\ Off.pc = "off" /\ ~Holding(Off) /\ \A p \in Projects : Nothing[p] = None
  BY DEF Off, Nothing, Holding
<1>4. CopiesOld /\ LiveFresh /\ LiveHides /\ Fresh
  BY <1>2, <1>3 DEF CopiesOld, LiveFresh, LiveHides, Fresh
<1>5. RecycledHidden /\ JobsRecorded /\ SubmissionKnows /\ DeletionAlone
  <2>1. \A p \in Projects : remote[p].try = 0 /\ jobs[p][0] = "done"
    BY MaxTriesAssumption DEF Init
  <2> QED
    BY <2>1 DEF Init, RecycledHidden, JobsRecorded, SubmissionKnows, DeletionAlone, NoSubmission,
       NoDeletion
<1> QED
  BY <1>1, <1>4, <1>5 DEF Inv

\* No step of the window, of a thread, of a worker or of a job breaks it.
THEOREM InvStep == Inv /\ [Next]_vars => Inv'
<1> SUFFICES ASSUME Inv, [Next]_vars PROVE Inv'
  OBVIOUS
<1>1. Rest' => (TypeOK' => Inv')
  BY DEF Rest, Inv
<1>2. TypeOK
  BY DEF Inv
<1>3. CASE UNCHANGED vars
  BY <1>3 DEF vars, Inv, TypeOK, CopiesOld, Old, LiveFresh, LiveHides, RecycledHidden,
     Fresh, JobsRecorded, SubmissionKnows, DeletionAlone
<1>4. ASSUME NEW s \in Sessions, SessionStep(s) PROVE Inv'
  <2>1. TypeOK'
    BY <1>2, <1>4, WindowStepType, ThreadStepType DEF SessionStep
  <2>2. Rest'
    BY <1>4, <2>1, WindowStepKeepsRest, ThreadStepKeepsRest, ReconcileKeepsRest DEF SessionStep
  <2> QED
    BY <1>1, <2>1, <2>2
<1>5. ASSUME \/ \E p \in Projects : ProjectStep(p)
             \/ Revalidate \/ Dispatch \/ RecordOutcome \/ SubmissionEnds \/ SubmissionFails
             \/ Verify \/ DeletionFails \/ Remove \/ ConfirmAbsent \/ Restart
      PROVE  Inv'
  <2>1. TypeOK'
    BY <1>2, <1>5, MainWindowStepType, RecycleStepType DEF ProjectStep
  <2>2. Rest'
    BY <1>5, <2>1, MainWindowStepKeepsRest, RecycleStepKeepsRest DEF ProjectStep
  <2> QED
    BY <1>1, <2>1, <2>2
<1> QED
  BY <1>3, <1>4, <1>5 DEF Next

\* Every copy of a record is old, and what the live session holds fits the list.
THEOREM Invariant == Spec => []Inv
BY InvInit, InvStep, PTL DEF Spec

\* No refresh brings a recycled project back into the list.
THEOREM RecycledStaysHidden == Spec => []RecycledHidden
<1>1. Inv => RecycledHidden
  BY DEF Inv
<1> QED
  BY Invariant, <1>1, PTL

\* The record the list shows is never replaced by an older one: only a live session
\* changes it, and what the session holds is as new as the list (LiveFresh).
THEOREM ListNeverGoesBack == Spec => ShownNeverOlder
<1>1. Inv /\ [Next]_vars =>
        \A p \in Projects :
            shown[p] # None /\ shown'[p] # None => shown'[p].rev >= shown[p].rev
  <2> SUFFICES ASSUME Inv, [Next]_vars, NEW p \in Projects, shown[p] # None, shown'[p] # None
               PROVE  shown'[p].rev >= shown[p].rev
    OBVIOUS
  <2>0. shown \in Listing /\ shown[p].rev \in Nat
    <3>1. shown \in Listing /\ shown[p] \in Records
      BY DEF Inv, TypeOK, Listing
    <3> QED
      BY <3>1, RecordFacts, MaxRevAssumption
  <2>1. CASE shown'[p] = shown[p]
    BY <2>0, <2>1
  <2>2. ASSUME NEW s \in Sessions, Succeeded(s), shown'[p] # shown[p]
        PROVE  shown'[p].rev >= shown[p].rev
    <3>1. Holding(threads[s]) /\ window.op.session = s
      BY <2>2 DEF Succeeded, Accepted, Stopped, Holding
    <3>2. shown'[p] = threads[s].snap[p]
      <4>1. CASE threads[s].scope = AllProjects
        BY <2>2, <4>1 DEF Succeeded
      <4>2. CASE threads[s].scope # AllProjects
        BY <2>0, <2>2, <4>2 DEF Succeeded, Replaced, Listing
      <4> QED
        BY <4>1, <4>2
    <3> QED
      BY <3>1, <3>2 DEF Inv, LiveFresh
  <2>3. ASSUME NEW s \in Sessions, SessionStep(s), ~Succeeded(s) PROVE shown' = shown
    BY <2>3 DEF SessionStep, StartRefresh, Stop, Timeout, Abandon, ConnectFails, Read, ReadIndex,
       NextProject, Reconcile, ReconcileFails, Flush, MarkOneSeen, Failed, Dropped, TrustAndRetry
  <2>4. ASSUME NEW q \in Projects, ProjectStep(q) PROVE shown'[p] = shown[p]
    BY <2>0, <2>4 DEF ProjectStep, CloseTab, StartSubmission, JobMoves, MoveToRecycle, Restore,
       StartDeletion, Listing
  <2>5. ASSUME \/ Revalidate \/ Dispatch \/ RecordOutcome \/ SubmissionEnds \/ SubmissionFails
               \/ Verify \/ DeletionFails \/ Remove \/ ConfirmAbsent \/ Restart \/ UNCHANGED vars
        PROVE  shown'[p] = shown[p]
    BY <2>0, <2>5 DEF Revalidate, Dispatch, RecordOutcome, SubmissionEnds, SubmissionFails,
       Verify, DeletionFails, Remove, ConfirmAbsent, Restart, Nothing, vars, Listing
  <2> QED
    BY <2>1, <2>2, <2>3, <2>4, <2>5 DEF Next
<1> QED
  BY Invariant, <1>1, PTL DEF Spec, ShownNeverOlder

\* No step of a refresh thread removes a recycle marker.
THEOREM RefreshKeepsMarkers == Spec => MarkersKept
<1>1. TypeOK /\ [Next]_vars =>
        \A s \in Sessions : threads'[s] # threads[s] => index.recycled \subseteq index'.recycled
  <2> SUFFICES ASSUME TypeOK, [Next]_vars, NEW s \in Sessions, threads'[s] # threads[s]
               PROVE  index.recycled \subseteq index'.recycled
    OBVIOUS
  <2>1. ASSUME NEW r \in Sessions, SessionStep(r) PROVE index'.recycled = index.recycled
    <3>1. CASE Flush(r)
      BY <3>1 DEF Flush, MarkSeenMany
    <3>2. CASE MarkOneSeen(r)
      BY <3>2 DEF MarkOneSeen, MarkSeen, TypeOK
    <3>3. CASE ~Flush(r) /\ ~MarkOneSeen(r)
      BY <2>1, <3>3 DEF SessionStep, StartRefresh, Stop, Timeout, Abandon, ConnectFails, Read,
         ReadIndex, NextProject, Reconcile, ReconcileFails, Succeeded, Failed, Dropped,
         TrustAndRetry
    <3> QED
      BY <3>1, <3>2, <3>3
  <2>2. CASE Restart
    BY <2>2 DEF Restart
  <2>3. ASSUME \/ \E p \in Projects : ProjectStep(p)
               \/ Revalidate \/ Dispatch \/ RecordOutcome \/ SubmissionEnds \/ SubmissionFails
               \/ Verify \/ DeletionFails \/ Remove \/ ConfirmAbsent \/ UNCHANGED vars
        PROVE  threads' = threads
    BY <2>3 DEF ProjectStep, CloseTab, StartSubmission, JobMoves, MoveToRecycle, Restore,
       StartDeletion, Revalidate, Dispatch, RecordOutcome, SubmissionEnds, SubmissionFails,
       Verify, DeletionFails, Remove, ConfirmAbsent, vars
  <2> QED
    BY <2>1, <2>2, <2>3 DEF Next
<1> QED
  BY TypeCorrect, <1>1, PTL DEF Spec, MarkersKept

\* Whatever refresh threads, a submission and the scheduler do between the reload and the one
\* rm -rf: the submission that is deleted is the one the user was shown, its job has ended at
\* least once, and no other one of the project is under way.
THEOREM DeletesWhatWasReviewed == Spec => DeletedAsReviewed
<1>1. Inv /\ [Next]_vars =>
        \A p \in Projects :
            remote[p] # None /\ remote'[p] = None =>
                /\ deletion.project = p /\ submission.project # p
                /\ remote[p].try = deletion.record.try
                /\ jobs[p][remote[p].try] # "alive"
  <2> SUFFICES ASSUME Inv, [Next]_vars, NEW p \in Projects, remote[p] # None, remote'[p] = None
               PROVE  /\ deletion.project = p /\ submission.project # p
                      /\ remote[p].try = deletion.record.try
                      /\ jobs[p][remote[p].try] # "alive"
    OBVIOUS
  <2>0. TypeOK /\ remote \in Listing /\ remote[p] \in Manifests /\ remote[p].rev \in Nat
    <3>1. TypeOK /\ remote \in Listing /\ remote[p] \in Records
      BY DEF Inv, TypeOK, Listing
    <3> QED
      BY <3>1, RecordFacts, MaxRevAssumption
  <2>1. Remove
    <3>1. ASSUME NEW s \in Sessions, SessionStep(s) PROVE FALSE
      <4>1. CASE Reconcile(s)
        <5> DEFINE t == threads[s]
                   q == CHOOSE r \in t.todo : \A m \in t.todo : r <= m
        <5>0. t.snap \in Listing
          BY <2>0 DEF TypeOK, ThreadRecords
        <5>1. PICK state \in Recorded(t.snap[q], jobs[q][t.snap[q].try]) :
                /\ remote[q].rev = t.snap[q].rev
                /\ remote' = [remote EXCEPT ![q] = [t.snap[q] EXCEPT !.rev = @ + 1, !.state = state]]
          <6>1. remote' # remote
            OBVIOUS
          <6> QED
            BY <4>1, <6>1 DEF Reconcile
        <5> HIDE DEF t, q
        <5>2. q = p
          BY <2>0, <5>1 DEF Listing
        <5>3. t.snap[p] \in Manifests
          <6>1. t.snap[p] \in Records /\ remote[p] # None /\ remote[p] \in Records
            BY <2>0, <5>0 DEF Listing
          <6> QED
            BY <5>1, <5>2, <6>1, RecordFacts
        <5>4. remote'[p] = [t.snap[p] EXCEPT !.rev = @ + 1, !.state = state]
          BY <2>0, <5>1, <5>2 DEF Listing
        <5>5. remote'[p].rev = remote[p].rev + 1
          BY <5>1, <5>2, <5>3, <5>4 DEF Manifests
        <5> QED
          BY <2>0, <5>5, NoneIsRecord
      <4>2. CASE ~Reconcile(s)
        BY <3>1, <4>2 DEF SessionStep, StartRefresh, Stop, Timeout, Abandon, ConnectFails, Read,
           ReadIndex, NextProject, ReconcileFails, Flush, MarkOneSeen, Succeeded, Failed, Dropped,
           TrustAndRetry
      <4> QED
        BY <4>1, <4>2
    <3>2. ASSUME RecordOutcome PROVE FALSE
      <4>1. PICK q, written : /\ written.rev = remote[q].rev + 1
                              /\ remote' = [remote EXCEPT ![q] = written]
        BY <3>2 DEF RecordOutcome
      <4>2. q = p /\ remote'[p] = written
        BY <2>0, <4>1 DEF Listing
      <4> QED
        BY <2>0, <4>1, <4>2, NoneIsRecord
    <3>3. ASSUME \/ \E q \in Projects : ProjectStep(q)
                 \/ Revalidate \/ Dispatch \/ SubmissionEnds \/ SubmissionFails
                 \/ Verify \/ DeletionFails \/ ConfirmAbsent \/ Restart \/ UNCHANGED vars
          PROVE  remote' = remote
      BY <3>3 DEF ProjectStep, CloseTab, StartSubmission, JobMoves, MoveToRecycle, Restore,
         StartDeletion, Revalidate, Dispatch, SubmissionEnds, SubmissionFails, Verify,
         DeletionFails, ConfirmAbsent, Restart, vars
    <3> QED
      BY <3>1, <3>2, <3>3 DEF Next
  <2>2. deletion.pc = "remove" /\ deletion.project = p
    BY <2>0, <2>1 DEF Remove, Listing
  <2> QED
    BY <2>2 DEF Inv, DeletionAlone
<1> QED
  BY Invariant, <1>1, PTL DEF Spec, DeletedAsReviewed

----------------------------------------------------------------------------
(* The server profiles and the dialogs that edit them.                     *)

Runtime == {Absent} \cup Runtimes
Scheduler == {Absent} \cup Settings!Kinds

\* What a profile calls verified is what its hints name, and what it launches.
Verified(p) ==
    /\ p.orca # Absent => p.hints # Absent /\ p.hints.orca = p.orca
    /\ p.preset # Absent /\ p.preset.fhi # Absent => p.preset.launch = p.preset.fhi

Stores == [profiles : [Ids -> {Absent} \cup Settings!ProfileRecords], last : {Absent} \cup Ids]
StoreFits(f) ==
    /\ f \in Stores
    /\ f.last = Absent \/ f.last \in Settings!Profiles(f)
    /\ \A id \in Settings!Profiles(f) :
          Verified(f.profiles[id]) /\ Settings!NameIsFree(f, id, f.profiles[id].name)

Carried ==
    [preset : {Absent} \cup Settings!PresetRecords, ait : Runtime,
     hints : {Absent} \cup Settings!HintRecords, orca : {Absent} \cup Installed]
Forms ==
    [id : Ids, name : {""} \cup Names, keep : BOOLEAN, password : BOOLEAN, deletable : BOOLEAN,
     carried : Carried]
FormFits(f) == f \in Forms /\ Verified(f.carried)

Writes == [id : Ids, profile : Settings!ProfileRecords, reloaded : {Absent} \cup Stores]
CacheFits ==
    cache # Absent =>
        /\ cache \in Writes /\ Verified(cache.profile)
        /\ cache.reloaded # Absent =>
              /\ StoreFits(cache.reloaded)
              /\ Settings!NameIsFree(cache.reloaded, cache.id, cache.profile.name)

ProfilesFit == StoreFits(file) /\ FormFits(form) /\ CacheFits

----------------------------------------------------------------------------
(* Which dialogs are open.                                                 *)

DialogKinds ==
    {"profiles", "workspace", "cluster", "candidates", "manual", "species", "unsaved", "question"}
Boxes == [kind : DialogKinds, check : {Absent} \cup Settings!Checks, why : {Absent, "password", "unknownHost"}]
Open(q, kind) == \E i \in DOMAIN q : q[i].kind = kind

\* Server Profiles is below everything; what belongs to Cluster Execution Settings is above
\* it; its box about unsaved changes is right on it, and only boxes of checks come above that.
StackFits(q) ==
    /\ q \in Seq(Boxes)
    /\ \A i \in DOMAIN q : q[i].kind = "profiles" => i = 1
    /\ \A i, k \in DOMAIN q : q[i].kind = q[k].kind /\ q[i].kind \in {"cluster", "manual"} => i = k
    /\ \A i \in DOMAIN q : q[i].kind \in {"manual", "candidates", "unsaved"} =>
          \E k \in DOMAIN q : k < i /\ q[k].kind = "cluster"
    /\ \A i \in DOMAIN q : q[i].kind = "unsaved" => i > 1 /\ q[i - 1].kind = "cluster"
    /\ \A i, k \in DOMAIN q : q[i].kind = "unsaved" /\ i < k => q[k].kind = "question"
    /\ \A i \in DOMAIN q : q[i].kind = "question" => q[i].check \in Settings!Checks

\* The dialog of a check.
Owner(check) ==
    CASE check = "test" -> "profiles" [] check \in {"workspace", "species"} -> check [] OTHER -> "cluster"

Owned(q, c) ==
    /\ \A check \in Settings!Checks : c[check].busy => Open(q, Owner(check))
    /\ Open(q, "unsaved") => \A check \in Settings!ClusterChecks : ~c[check].busy

----------------------------------------------------------------------------
(* The checks: registers, workers and signals.                             *)

Registers ==
    [busy : BOOLEAN, pending : BOOLEAN, password : BOOLEAN, asked : BOOLEAN, trusted : BOOLEAN]
Searches == [mode : {"manual", "automatic"}, dir : Scheduler, kind : Settings!Kinds]
Tasked == {Absent} \cup Settings!Locations \cup Searches
Workers == [check : Settings!Checks, password : BOOLEAN, data : Tasked, reported : BOOLEAN]
Told == Tasked \cup Settings!Kinds \cup Runtimes \cup {"error", "password", "unknownHost"}
Tidings == [check : Settings!Checks, kind : {"succeeded", "failed", "finished"}, data : Told]

\* What a worker is given and what it answers.
ToldRight(e) ==
    /\ e.kind = "finished" => e.data \in Tasked
    /\ e.kind = "succeeded" /\ e.check = "orca" => e.data \in {Absent} \cup Installed
    /\ e.kind = "succeeded" /\ e.check = "scheduler" => e.data \in Settings!Kinds
    /\ e.kind = "succeeded" /\ e.check = "runtime" => e.data \in Runtime
    /\ e.kind = "failed" => e.data \in {"error", "password", "unknownHost"}

QueuesFit(c, w, e) ==
    /\ c \in [Settings!Checks -> Registers]
    /\ w \in Seq(Workers) /\ e \in Seq(Tidings)
    /\ \A i \in DOMAIN w : w[i].check = "scheduler" => w[i].data \in Searches
    /\ \A i \in DOMAIN e : ToldRight(e[i])

\* A check is busy as long as a worker of it is there or its end is to come; nothing
\* follows its end, and there is one of the two only.
OneWorker(c, w, e) ==
    /\ \A i \in DOMAIN w : c[w[i].check].busy
    /\ \A i \in DOMAIN e : c[e[i].check].busy
    /\ \A i, k \in DOMAIN w : w[i].check = w[k].check => i = k
    /\ \A i \in DOMAIN w, k \in DOMAIN e : w[i].check = e[k].check => e[k].kind # "finished"
    /\ \A i, k \in DOMAIN e : e[i].check = e[k].check /\ e[i].kind = "finished" => k <= i

Queues(c, w, e) == QueuesFit(c, w, e) /\ OneWorker(c, w, e)

\* Nothing is under way for a check.
Rests(check, w, e) ==
    (\A i \in DOMAIN w : w[i].check # check) /\ (\A i \in DOMAIN e : e[i].check # check)

----------------------------------------------------------------------------
(* The working copies.                                                     *)

Clusters ==
    [id : Ids, loaded : Settings!ProfileRecords, mode : {"automatic", "manual"}, selector : Settings!Kinds,
     auto : Scheduler, typed : Scheduler, lsf : BOOLEAN, verified : Scheduler,
     fhi : Runtime, launch : Runtime, ait : Runtime, species : BOOLEAN,
     hints : {Absent} \cup Settings!HintRecords, orca : {Absent} \cup Installed, fields : Settings!Locations]

\* A runtime that is kept as verified is the one in the fields; until a search has ended a
\* found launch command may stand beside a configured runtime.
ClusterFits(c, searching) ==
    /\ c \in Clusters /\ Verified(c.loaded)
    /\ c.orca # Absent => Settings!OrcaLocation(c) = c.orca
    /\ c.fhi # Absent /\ ~searching => c.launch = c.fhi

\* What Apply would write over the hint of the verified runtime is the same.
ManualFits(m, c) ==
    /\ m \in Settings!HintRecords
    /\ c.orca # Absent /\ c.fields = Settings!Blank => m.orca = c.orca

CopiesFit(q, c, m, searching) ==
    /\ Open(q, "cluster") => ClusterFits(c, searching)
    /\ Open(q, "manual") => ManualFits(m, c)

SettingsInv ==
    /\ ProfilesFit
    /\ StackFits(stack) /\ Owned(stack, checks)
    /\ Queues(checks, workers, events)
    /\ CopiesFit(stack, cluster, manual, checks["runtime"].busy)
SettingsAreaInv == area = "settings" => SettingsInv


----------------------------------------------------------------------------
(* Sequences.                                                              *)

LEMMA TailOf ==
    ASSUME NEW S, NEW q \in Seq(S), q # <<>>
    PROVE  /\ Tail(q) \in Seq(S) /\ Head(q) = q[1] /\ 1 \in DOMAIN q /\ q[1] \in S
           /\ DOMAIN q = 1..Len(q) /\ DOMAIN Tail(q) = 1..(Len(q) - 1) /\ Len(q) \in Nat \ {0}
           /\ \A i \in 1..(Len(q) - 1) : Tail(q)[i] = q[i + 1]
<1>1. Tail(q) \in Seq(S) /\ Len(Tail(q)) = Len(q) - 1 /\ Head(q) \in S
      /\ \A i \in 1..(Len(q) - 1) : Tail(q)[i] = q[i + 1]
  BY HeadTailProperties
<1>2. Head(q) = q[1] /\ Len(q) \in Nat /\ DOMAIN q = 1..Len(q)
  OBVIOUS
<1>3. Len(q) # 0
  BY EmptySeq, <1>2
<1>4. DOMAIN Tail(q) = 1..(Len(q) - 1)
  BY <1>1
<1> QED BY <1>1, <1>2, <1>3, <1>4

LEMMA AppendedTo ==
    ASSUME NEW S, NEW q \in Seq(S), NEW x \in S
    PROVE  /\ Append(q, x) \in Seq(S) /\ Len(q) \in Nat
           /\ DOMAIN q = 1..Len(q) /\ DOMAIN Append(q, x) = 1..(Len(q) + 1)
           /\ Append(q, x)[Len(q) + 1] = x
           /\ \A i \in 1..Len(q) : Append(q, x)[i] = q[i]
           /\ \A i \in DOMAIN Append(q, x) :
                 (i \in DOMAIN q /\ Append(q, x)[i] = q[i]) \/ (i = Len(q) + 1 /\ Append(q, x)[i] = x)
<1> DEFINE n == Len(q)
           p == Append(q, x)
<1>1. /\ p \in Seq(S) /\ n \in Nat /\ DOMAIN q = 1..n /\ DOMAIN p = 1..(n + 1)
      /\ p[n + 1] = x /\ \A i \in 1..n : p[i] = q[i]
  BY AppendProperties
<1> HIDE DEF n, p
<1>2. ASSUME NEW i \in 1..(n + 1)
      PROVE  i \in 1..n \/ i = n + 1
  BY <1>1
<1>3. \A i \in DOMAIN p : (i \in DOMAIN q /\ p[i] = q[i]) \/ (i = n + 1 /\ p[i] = x)
  <2>1. TAKE i \in DOMAIN p
  <2>2. i \in 1..n \/ i = n + 1
    BY <1>1, <1>2
  <2>3. CASE i \in 1..n
    BY <1>1, <2>3, Zenon
  <2>4. CASE i = n + 1
    BY <1>1, <2>4
  <2> QED BY <2>2, <2>3, <2>4
<1> QED BY <1>1, <1>3 DEF n, p

LEMMA FrontOf ==
    ASSUME NEW S, NEW q \in Seq(S), q # <<>>
    PROVE  /\ SubSeq(q, 1, Len(q) - 1) \in Seq(S) /\ q[Len(q)] \in S /\ Len(q) \in DOMAIN q
           /\ DOMAIN q = 1..Len(q) /\ DOMAIN SubSeq(q, 1, Len(q) - 1) = 1..(Len(q) - 1)
           /\ Len(q) \in Nat \ {0} /\ Len(SubSeq(q, 1, Len(q) - 1)) = Len(q) - 1
           /\ \A i \in 1..(Len(q) - 1) : SubSeq(q, 1, Len(q) - 1)[i] = q[i]
<1>1. Len(q) \in Nat /\ DOMAIN q = 1..Len(q)
  OBVIOUS
<1>2. Len(q) # 0
  BY EmptySeq, <1>1
<1>3. /\ SubSeq(q, 1, Len(q) - 1) \in Seq(S) /\ Len(SubSeq(q, 1, Len(q) - 1)) = Len(q) - 1
      /\ \A i \in 1..(Len(q) - 1) : SubSeq(q, 1, Len(q) - 1)[i] = q[i]
  <2>1. \A i \in 1..(Len(q) - 1) : q[i] \in S
    BY <1>1
  <2>2. /\ SubSeq(q, 1, Len(q) - 1) \in Seq(S)
        /\ Len(SubSeq(q, 1, Len(q) - 1)) = IF 1 <= Len(q) - 1 THEN Len(q) - 1 - 1 + 1 ELSE 0
        /\ \A i \in 1..(Len(q) - 1 - 1 + 1) : SubSeq(q, 1, Len(q) - 1)[i] = q[1 + i - 1]
    BY SubSeqProperties, <1>1, <1>2, <2>1
  <2> QED BY <2>2, <1>1, <1>2
<1>5. DOMAIN SubSeq(q, 1, Len(q) - 1) = 1..(Len(q) - 1)
  BY <1>3
<1>6. q[Len(q)] \in S /\ Len(q) \in DOMAIN q
  BY <1>1, <1>2
<1> QED BY <1>1, <1>2, <1>3, <1>5, <1>6

LEMMA RemovedFrom ==
    ASSUME NEW S, NEW q \in Seq(S), NEW n \in DOMAIN q
    PROVE  /\ Settings!RemoveAt(q, n) \in Seq(S)
           /\ DOMAIN q = 1..Len(q) /\ DOMAIN Settings!RemoveAt(q, n) = 1..(Len(q) - 1) /\ Len(q) \in Nat \ {0}
           /\ \A i \in 1..(Len(q) - 1) : Settings!RemoveAt(q, n)[i] = IF i < n THEN q[i] ELSE q[i + 1]
<1> DEFINE left == SubSeq(q, 1, n - 1)
           right == SubSeq(q, n + 1, Len(q))
<1>1. Len(q) \in Nat /\ DOMAIN q = 1..Len(q) /\ n \in 1..Len(q) /\ \A i \in 1..Len(q) : q[i] \in S
  OBVIOUS
<1>2. /\ left \in Seq(S) /\ Len(left) = n - 1 /\ \A i \in 1..(n - 1) : left[i] = q[i]
  <2>1. \A i \in 1..(n - 1) : q[i] \in S
    BY <1>1
  <2>2. /\ left \in Seq(S) /\ Len(left) = (IF 1 <= n - 1 THEN n - 1 - 1 + 1 ELSE 0)
        /\ \A i \in 1..(n - 1 - 1 + 1) : left[i] = q[1 + i - 1]
    BY SubSeqProperties, <1>1, <2>1
  <2> QED BY <2>2, <1>1
<1>3. /\ right \in Seq(S) /\ Len(right) = Len(q) - n /\ \A i \in 1..(Len(q) - n) : right[i] = q[i + n]
  <2>1. \A i \in (n + 1)..Len(q) : q[i] \in S
    BY <1>1
  <2>2. /\ right \in Seq(S)
        /\ Len(right) = (IF n + 1 <= Len(q) THEN Len(q) - (n + 1) + 1 ELSE 0)
        /\ \A i \in 1..(Len(q) - (n + 1) + 1) : right[i] = q[n + 1 + i - 1]
    BY SubSeqProperties, <1>1, <2>1
  <2>3. \A i \in 1..(Len(q) - n) : i \in 1..(Len(q) - (n + 1) + 1) /\ n + 1 + i - 1 = i + n
    BY <1>1
  <2> QED BY <2>2, <2>3, <1>1
<1>4. Settings!RemoveAt(q, n) = left \o right
  BY DEF Settings!RemoveAt
<1> HIDE DEF left, right
<1>5. /\ left \o right \in Seq(S) /\ Len(left \o right) = Len(q) - 1
      /\ \A i \in 1..(Len(q) - 1) : (left \o right)[i] = IF i <= n - 1 THEN left[i] ELSE right[i - (n - 1)]
  <2>1. /\ left \o right \in Seq(S) /\ Len(left \o right) = Len(left) + Len(right)
        /\ \A i \in 1..(Len(left) + Len(right)) :
              (left \o right)[i] = IF i <= Len(left) THEN left[i] ELSE right[i - Len(left)]
    BY <1>2, <1>3, ConcatProperties
  <2>2. Len(left) + Len(right) = Len(q) - 1
    BY <1>1, <1>2, <1>3
  <2> QED BY <2>1, <2>2, <1>2
<1>6. ASSUME NEW i \in 1..(Len(q) - 1)
      PROVE  (left \o right)[i] = IF i < n THEN q[i] ELSE q[i + 1]
  <2>1. CASE i < n
    BY <2>1, <1>1, <1>2, <1>5
  <2>2. CASE ~(i < n)
    <3>1. i - (n - 1) \in 1..(Len(q) - n) /\ i - (n - 1) + n = i + 1 /\ ~(i <= n - 1)
      BY <2>2, <1>1
    <3>2. right[i - (n - 1)] = q[i + 1]
      BY <3>1, <1>3
    <3> QED BY <2>2, <3>1, <3>2, <1>5
  <2> QED BY <2>1, <2>2
<1>7. DOMAIN (left \o right) = 1..(Len(q) - 1)
  BY <1>5
<1>8. /\ left \o right \in Seq(S) /\ DOMAIN (left \o right) = 1..(Len(q) - 1)
      /\ \A i \in 1..(Len(q) - 1) : (left \o right)[i] = IF i < n THEN q[i] ELSE q[i + 1]
  BY <1>5, <1>6, <1>7
<1>9. Len(q) \in Nat \ {0}
  BY <1>1
<1> QED BY <1>1, <1>4, <1>8, <1>9, Zenon

----------------------------------------------------------------------------
(* Opening and closing dialogs.                                            *)

LEMMA LastOf == \A q : Settings!Last(q) = q[Len(q)]
BY DEF Settings!Last

LEMMA FrontIs == \A q : Settings!Front(q) = SubSeq(q, 1, Len(q) - 1)
BY DEF Settings!Front

\* What a new dialog asks of those that are open.
Opens(q, b) ==
    /\ b \in Boxes /\ b.kind # "profiles"
    /\ b.kind = "question" => b.check \in Settings!Checks
    /\ b.kind # "question" => ~Open(q, "unsaved")
    /\ b.kind \in {"manual", "candidates", "unsaved"} => Open(q, "cluster")
    /\ b.kind \in {"cluster", "manual"} => ~Open(q, b.kind)
    /\ b.kind = "unsaved" => q # <<>> /\ q[Len(q)].kind = "cluster"

LEMMA PushedFits ==
    ASSUME NEW q, StackFits(q), NEW b, Opens(q, b)
    PROVE  StackFits(Append(q, b))
<1> DEFINE p == Append(q, b)
<1>1. q \in Seq(Boxes) /\ b \in Boxes
  BY DEF StackFits, Opens
<1>2. /\ p \in Seq(Boxes) /\ Len(q) \in Nat /\ DOMAIN q = 1..Len(q) /\ DOMAIN p = 1..(Len(q) + 1)
      /\ p[Len(q) + 1] = b /\ (\A i \in 1..Len(q) : p[i] = q[i])
      /\ \A i \in DOMAIN p : (i \in DOMAIN q /\ p[i] = q[i]) \/ (i = Len(q) + 1 /\ p[i] = b)
  BY <1>1, AppendedTo
<1> HIDE DEF p
<1>3. \A i \in DOMAIN p : (i \in DOMAIN q /\ p[i] = q[i]) \/ (i = Len(q) + 1 /\ p[i] = b)
  BY <1>2
<1>4. \A i \in DOMAIN q : i \in DOMAIN p /\ p[i] = q[i] /\ i < Len(q) + 1
  BY <1>2
<1>5. \A i \in DOMAIN p : p[i].kind = "profiles" => i = 1
  BY <1>3 DEF StackFits, Opens
<1>6. \A i, k \in DOMAIN p : p[i].kind = p[k].kind /\ p[i].kind \in {"cluster", "manual"} => i = k
  BY <1>3 DEF StackFits, Opens, Open
<1>7. ASSUME NEW i \in DOMAIN p, p[i].kind \in {"manual", "candidates", "unsaved"}
      PROVE  \E k \in DOMAIN p : k < i /\ p[k].kind = "cluster"
  <2>1. CASE i \in DOMAIN q /\ p[i] = q[i]
    BY <1>4, <1>7, <2>1 DEF StackFits
  <2>2. CASE i = Len(q) + 1 /\ p[i] = b
    <3>1. PICK k \in DOMAIN q : q[k].kind = "cluster"
      BY <1>7, <2>2 DEF Opens, Open
    <3> QED BY <1>4, <2>2, <3>1
  <2> QED BY <1>3, <2>1, <2>2
<1>8. ASSUME NEW i \in DOMAIN p, p[i].kind = "unsaved"
      PROVE  i > 1 /\ p[i - 1].kind = "cluster"
  <2>1. CASE i \in DOMAIN q /\ p[i] = q[i]
    <3>1. i > 1 /\ q[i - 1].kind = "cluster"
      BY <1>8, <2>1 DEF StackFits
    <3>2. i - 1 \in DOMAIN q
      BY <1>2, <2>1, <3>1
    <3> QED BY <1>4, <3>1, <3>2
  <2>2. CASE i = Len(q) + 1 /\ p[i] = b
    <3>1. q # <<>> /\ q[Len(q)].kind = "cluster"
      BY <1>8, <2>2 DEF Opens
    <3>2. Len(q) # 0
      BY <1>1, <3>1, EmptySeq
    <3>3. i - 1 = Len(q) /\ i - 1 \in DOMAIN q /\ i > 1
      BY <1>2, <2>2, <3>2
    <3> QED BY <1>4, <3>1, <3>3
  <2> QED BY <1>3, <2>1, <2>2
<1>9. ASSUME NEW i \in DOMAIN p, NEW k \in DOMAIN p, p[i].kind = "unsaved", i < k
      PROVE  p[k].kind = "question"
  <2>1. i \in DOMAIN q /\ p[i] = q[i]
    BY <1>2, <1>9
  <2>2. CASE k \in DOMAIN q /\ p[k] = q[k]
    BY <1>9, <2>1, <2>2 DEF StackFits
  <2>3. CASE p[k] = b
    BY <1>9, <2>1, <2>3 DEF Opens, Open
  <2> QED BY <1>3, <2>2, <2>3
<1>10. \A i \in DOMAIN p : p[i].kind = "question" => p[i].check \in Settings!Checks
  BY <1>3 DEF StackFits, Opens
<1>11. StackFits(p)
  BY <1>2, <1>5, <1>6, <1>7, <1>8, <1>9, <1>10 DEF StackFits
<1> QED BY <1>11 DEF p

LEMMA PushedOpen ==
    ASSUME NEW q, StackFits(q), NEW b \in Boxes, NEW kind
    PROVE  Open(Append(q, b), kind) <=> Open(q, kind) \/ b.kind = kind
<1> DEFINE p == Append(q, b)
<1>1. q \in Seq(Boxes)
  BY DEF StackFits
<1>2. /\ Len(q) \in Nat /\ DOMAIN q = 1..Len(q) /\ DOMAIN p = 1..(Len(q) + 1)
      /\ p[Len(q) + 1] = b /\ (\A i \in 1..Len(q) : p[i] = q[i])
      /\ \A i \in DOMAIN p : (i \in DOMAIN q /\ p[i] = q[i]) \/ (i = Len(q) + 1 /\ p[i] = b)
  BY <1>1, AppendedTo
<1> HIDE DEF p
<1>3. \A i \in DOMAIN p : (i \in DOMAIN q /\ p[i] = q[i]) \/ (i = Len(q) + 1 /\ p[i] = b)
  BY <1>2
<1>4. (\A i \in DOMAIN q : i \in DOMAIN p /\ p[i] = q[i]) /\ Len(q) + 1 \in DOMAIN p
  BY <1>2
<1>5. Open(p, kind) <=> Open(q, kind) \/ b.kind = kind
  BY <1>2, <1>3, <1>4 DEF Open
<1> QED BY <1>5 DEF p

\* What is left when the dialog on top is closed.
LEMMA PoppedFits ==
    ASSUME NEW q, StackFits(q), q # <<>>
    PROVE  /\ StackFits(SubSeq(q, 1, Len(q) - 1))
           /\ \A kind : Open(SubSeq(q, 1, Len(q) - 1), kind) => Open(q, kind)
           /\ \A kind : kind # q[Len(q)].kind /\ Open(q, kind) => Open(SubSeq(q, 1, Len(q) - 1), kind)
           /\ q[Len(q)].kind \in {"cluster", "manual", "unsaved"} =>
                 ~Open(SubSeq(q, 1, Len(q) - 1), q[Len(q)].kind)
           /\ q[Len(q)].kind = "cluster" => ~Open(q, "manual") /\ ~Open(q, "unsaved")
           /\ q[Len(q)].kind = "unsaved" =>
                 /\ SubSeq(q, 1, Len(q) - 1) # <<>>
                 /\ SubSeq(q, 1, Len(q) - 1)[Len(SubSeq(q, 1, Len(q) - 1))].kind = "cluster"
<1> DEFINE p == SubSeq(q, 1, Len(q) - 1)
           top == q[Len(q)]
<1>1. q \in Seq(Boxes)
  BY DEF StackFits
<1>2. /\ p \in Seq(Boxes) /\ Len(q) \in DOMAIN q
      /\ DOMAIN q = 1..Len(q) /\ DOMAIN p = 1..(Len(q) - 1) /\ Len(q) \in Nat \ {0}
      /\ Len(p) = Len(q) - 1 /\ \A i \in 1..(Len(q) - 1) : p[i] = q[i]
  BY <1>1, FrontOf
<1> HIDE DEF p
<1>3. \A i \in DOMAIN p : i \in DOMAIN q /\ p[i] = q[i] /\ i < Len(q)
  BY <1>2
<1>4. \A i \in DOMAIN q : (i \in DOMAIN p /\ p[i] = q[i]) \/ i = Len(q)
  BY <1>2
<1>5. StackFits(p)
  <2>1. ASSUME NEW i \in DOMAIN p, p[i].kind \in {"manual", "candidates", "unsaved"}
        PROVE  \E k \in DOMAIN p : k < i /\ p[k].kind = "cluster"
    <3>1. PICK k \in DOMAIN q : k < i /\ q[k].kind = "cluster"
      BY <1>3, <2>1 DEF StackFits
    <3>2. k \in DOMAIN p /\ p[k] = q[k]
      BY <1>2, <3>1
    <3> QED BY <3>1, <3>2
  <2>2. ASSUME NEW i \in DOMAIN p, p[i].kind = "unsaved"
        PROVE  i > 1 /\ p[i - 1].kind = "cluster"
    <3>1. i > 1 /\ q[i - 1].kind = "cluster"
      BY <1>3, <2>2 DEF StackFits
    <3>2. i - 1 \in DOMAIN p
      BY <1>2, <3>1
    <3> QED BY <1>3, <3>1, <3>2
  <2>3. ASSUME NEW i \in DOMAIN p, NEW k \in DOMAIN p, p[i].kind = "unsaved", i < k
        PROVE  p[k].kind = "question"
    BY <1>3, <2>3 DEF StackFits
  <2>4. /\ \A i \in DOMAIN p : p[i].kind = "profiles" => i = 1
        /\ \A i, k \in DOMAIN p : p[i].kind = p[k].kind /\ p[i].kind \in {"cluster", "manual"} => i = k
        /\ \A i \in DOMAIN p : p[i].kind = "question" => p[i].check \in Settings!Checks
    BY <1>3 DEF StackFits
  <2> QED BY <1>2, <2>1, <2>2, <2>3, <2>4 DEF StackFits
<1>6. \A kind : Open(p, kind) => Open(q, kind)
  BY <1>3 DEF Open
<1>7. \A kind : kind # top.kind /\ Open(q, kind) => Open(p, kind)
  BY <1>4 DEF Open
<1>8. top.kind \in {"cluster", "manual", "unsaved"} => ~Open(p, top.kind)
  <2>1. ASSUME top.kind \in {"cluster", "manual", "unsaved"}, NEW i \in DOMAIN p, p[i].kind = top.kind
        PROVE  FALSE
    <3>1. i \in DOMAIN q /\ q[i].kind = top.kind /\ i < Len(q) /\ i # Len(q)
      BY <1>2, <1>3, <2>1
    <3>2. top.kind = "unsaved"
      BY <1>2, <2>1, <3>1 DEF StackFits
    <3>3. top.kind = "question"
      BY <1>2, <3>1, <3>2 DEF StackFits
    <3> QED BY <3>2, <3>3
  <2> QED BY <2>1 DEF Open
<1>9. top.kind = "cluster" => ~Open(q, "manual") /\ ~Open(q, "unsaved")
  <2>1. ASSUME top.kind = "cluster", NEW i \in DOMAIN q, q[i].kind \in {"manual", "unsaved"}
        PROVE  FALSE
    <3>1. PICK k \in DOMAIN q : k < i /\ q[k].kind = "cluster"
      BY <2>1 DEF StackFits
    <3>2. k = Len(q)
      BY <1>2, <2>1, <3>1 DEF StackFits
    <3> QED BY <1>2, <3>1, <3>2
  <2> QED BY <2>1 DEF Open
<1>10. top.kind = "unsaved" => p # <<>> /\ p[Len(p)].kind = "cluster"
  <2>1. SUFFICES ASSUME top.kind = "unsaved" PROVE p # <<>> /\ p[Len(p)].kind = "cluster"
    OBVIOUS
  <2>2. Len(q) > 1 /\ q[Len(q) - 1].kind = "cluster"
    BY <1>2, <2>1 DEF StackFits
  <2>3. Len(p) = Len(q) - 1 /\ Len(q) - 1 \in DOMAIN p
    BY <1>2, <2>2
  <2>4. p # <<>>
    BY <2>3
  <2> QED BY <1>3, <2>2, <2>3, <2>4
<1> QED BY <1>5, <1>6, <1>7, <1>8, <1>9, <1>10 DEF p, top

\* Above the box about unsaved changes there are only boxes of checks.
LEMMA UnsavedIsLast ==
    ASSUME NEW q, StackFits(q), Open(q, "unsaved")
    PROVE  q # <<>> /\ q[Len(q)].kind \in {"unsaved", "question"}
<1>1. PICK i \in DOMAIN q : q[i].kind = "unsaved"
  BY DEF Open
<1>2. q \in Seq(Boxes)
  BY DEF StackFits
<1>3. q # <<>>
  BY <1>1, EmptySeq
<1>4. DOMAIN q = 1..Len(q) /\ Len(q) \in DOMAIN q /\ Len(q) \in Nat
  BY <1>2, <1>3, FrontOf
<1>5. i = Len(q) \/ i < Len(q)
  BY <1>1, <1>4
<1> QED BY <1>1, <1>3, <1>4, <1>5 DEF StackFits

LEMMA TopIsOpen ==
    ASSUME NEW q, StackFits(q), q # <<>>
    PROVE  Open(q, q[Len(q)].kind)
<1>1. q \in Seq(Boxes)
  BY DEF StackFits
<1> QED BY <1>1, FrontOf DEF Open

----------------------------------------------------------------------------
(* What happens to the registers, the workers and the signals.             *)

LEMMA QueuesTypes ==
    ASSUME NEW c, NEW w, NEW e, Queues(c, w, e)
    PROVE  /\ c \in [Settings!Checks -> Registers] /\ w \in Seq(Workers) /\ e \in Seq(Tidings)
           /\ \A i \in DOMAIN w : w[i] \in Workers
           /\ \A i \in DOMAIN e : e[i] \in Tidings
<1>1. c \in [Settings!Checks -> Registers] /\ w \in Seq(Workers) /\ e \in Seq(Tidings)
  BY DEF Queues, QueuesFit
<1>2. \A i \in DOMAIN w : w[i] \in Workers
  BY <1>1
<1>3. \A i \in DOMAIN e : e[i] \in Tidings
  BY <1>1
<1> QED BY <1>1, <1>2, <1>3

\* The registers may change as long as every check that is under way stays busy.
LEMMA RegistersMayChange ==
    ASSUME NEW c, NEW w, NEW e, Queues(c, w, e), NEW d \in [Settings!Checks -> Registers],
           \A i \in DOMAIN w : d[w[i].check].busy, \A i \in DOMAIN e : d[e[i].check].busy
    PROVE  Queues(d, w, e)
BY DEF Queues, QueuesFit, OneWorker

\* What the delivered signal says, and what is left.
LEMMA Delivered ==
    ASSUME NEW c, NEW w, NEW e, Queues(c, w, e), e # <<>>
    PROVE  /\ Queues(c, w, Tail(e))
           /\ Head(e) \in Tidings /\ ToldRight(Head(e)) /\ c[Head(e).check].busy
           /\ Head(e).kind = "finished" => Rests(Head(e).check, w, Tail(e))
<1> DEFINE f == Tail(e)
<1>1. c \in [Settings!Checks -> Registers] /\ w \in Seq(Workers) /\ e \in Seq(Tidings)
  BY QueuesTypes
<1>2. /\ f \in Seq(Tidings) /\ Head(e) = e[1] /\ 1 \in DOMAIN e /\ e[1] \in Tidings
      /\ DOMAIN e = 1..Len(e) /\ DOMAIN f = 1..(Len(e) - 1) /\ Len(e) \in Nat \ {0}
      /\ \A i \in 1..(Len(e) - 1) : f[i] = e[i + 1]
  BY <1>1, TailOf
<1> HIDE DEF f
<1>3. \A i \in DOMAIN f : i \in Nat \ {0} /\ i + 1 \in DOMAIN e /\ f[i] = e[i + 1]
  BY <1>2
<1>4. QueuesFit(c, w, f)
  BY <1>2, <1>3 DEF Queues, QueuesFit
<1>5. /\ \A i \in DOMAIN w, k \in DOMAIN f : w[i].check = f[k].check => f[k].kind # "finished"
      /\ \A i \in DOMAIN f : c[f[i].check].busy
  BY <1>3 DEF Queues, OneWorker
<1>6. ASSUME NEW i \in DOMAIN f, NEW k \in DOMAIN f, f[i].check = f[k].check, f[i].kind = "finished"
      PROVE  k <= i
  <2>1. k + 1 <= i + 1
    BY <1>3, <1>6 DEF Queues, OneWorker
  <2> QED BY <2>1, <1>3
<1>7. Queues(c, w, f)
  BY <1>4, <1>5, <1>6 DEF Queues, OneWorker
<1>8. ToldRight(Head(e)) /\ c[Head(e).check].busy
  BY <1>2 DEF Queues, QueuesFit, OneWorker
<1>9. ASSUME Head(e).kind = "finished" PROVE Rests(Head(e).check, w, f)
  <2>1. \A i \in DOMAIN w : w[i].check # e[1].check
    BY <1>2, <1>9 DEF Queues, OneWorker
  <2>2. ASSUME NEW i \in DOMAIN f, f[i].check = e[1].check PROVE FALSE
    <3>1. i + 1 <= 1
      BY <1>2, <1>3, <1>9, <2>2 DEF Queues, OneWorker
    <3> QED BY <3>1, <1>3
  <2> QED BY <1>2, <2>1, <2>2 DEF Rests
<1> QED BY <1>2, <1>7, <1>8, <1>9 DEF f

LEMMA IdleRests ==
    ASSUME NEW c, NEW w, NEW e, Queues(c, w, e), NEW check, ~c[check].busy
    PROVE  Rests(check, w, e)
BY DEF Queues, OneWorker, Rests

\* A check that rests may be started.
LEMMA StartedFits ==
    ASSUME NEW c, NEW w, NEW e, Queues(c, w, e), NEW check \in Settings!Checks, Rests(check, w, e),
           NEW r \in Registers, NEW data \in Tasked, check = "scheduler" => data \in Searches
    PROVE  Queues([c EXCEPT ![check] = [r EXCEPT !.busy = TRUE]],
                  Append(w, Settings!Job(check, r.password, data)), e)
<1> DEFINE d == [c EXCEPT ![check] = [r EXCEPT !.busy = TRUE]]
           job == Settings!Job(check, r.password, data)
           v == Append(w, job)
<1>1. /\ c \in [Settings!Checks -> Registers] /\ w \in Seq(Workers) /\ e \in Seq(Tidings)
      /\ (\A i \in DOMAIN w : w[i] \in Workers) /\ (\A i \in DOMAIN e : e[i] \in Tidings)
  BY QueuesTypes
<1>2. job \in Workers /\ job.check = check /\ job.data = data
  <2>1. r.password \in BOOLEAN
    BY DEF Registers
  <2> QED BY <2>1 DEF Settings!Job, Workers
<1>3. [r EXCEPT !.busy = TRUE] \in Registers /\ [r EXCEPT !.busy = TRUE].busy
  BY DEF Registers
<1>4. /\ d \in [Settings!Checks -> Registers] /\ d[check].busy
      /\ \A k \in Settings!Checks \ {check} : d[k] = c[k]
  BY <1>1, <1>3
<1> HIDE DEF d, job
<1>5. /\ v \in Seq(Workers) /\ Len(w) \in Nat /\ DOMAIN w = 1..Len(w)
      /\ \A i \in DOMAIN v : (i \in DOMAIN w /\ v[i] = w[i]) \/ (i = Len(w) + 1 /\ v[i] = job)
  BY <1>1, <1>2, AppendedTo
<1> HIDE DEF v
<1>6. /\ \A i \in DOMAIN w : w[i].check \in Settings!Checks /\ w[i].check # check
      /\ \A i \in DOMAIN e : e[i].check \in Settings!Checks /\ e[i].check # check
  <2>1. \A x \in Workers : x.check \in Settings!Checks
    BY DEF Workers
  <2>2. \A x \in Tidings : x.check \in Settings!Checks
    BY DEF Tidings
  <2> QED BY <1>1, <2>1, <2>2 DEF Rests
<1>7. QueuesFit(d, v, e)
  <2>1. \A i \in DOMAIN v : v[i].check = "scheduler" => v[i].data \in Searches
    BY <1>2, <1>5 DEF Queues, QueuesFit
  <2> QED BY <1>1, <1>4, <1>5, <2>1 DEF Queues, QueuesFit
<1>8. \A i \in DOMAIN v : d[v[i].check].busy
  BY <1>2, <1>4, <1>5, <1>6 DEF Queues, OneWorker
<1>9. \A i \in DOMAIN e : d[e[i].check].busy
  BY <1>4, <1>6 DEF Queues, OneWorker
<1>10. \A i, k \in DOMAIN v : v[i].check = v[k].check => i = k
  BY <1>2, <1>5, <1>6 DEF Queues, OneWorker
<1>11. \A i \in DOMAIN v, k \in DOMAIN e : v[i].check = e[k].check => e[k].kind # "finished"
  BY <1>2, <1>5, <1>6 DEF Queues, OneWorker
<1>12. \A i, k \in DOMAIN e : e[i].check = e[k].check /\ e[i].kind = "finished" => k <= i
  BY DEF Queues, OneWorker
<1>13. Queues(d, v, e)
  BY <1>7, <1>8, <1>9, <1>10, <1>11, <1>12 DEF Queues, OneWorker
<1> QED BY <1>13 DEF d, v, job

\* A worker tells its outcome.
LEMMA ToldFits ==
    ASSUME NEW c, NEW w, NEW e, Queues(c, w, e), NEW n \in DOMAIN w,
           NEW b \in Tidings, b.check = w[n].check, b.kind # "finished", ToldRight(b)
    PROVE  Queues(c, [w EXCEPT ![n].reported = TRUE], Append(e, b))
<1> DEFINE v == [w EXCEPT ![n].reported = TRUE]
           f == Append(e, b)
<1>1. /\ c \in [Settings!Checks -> Registers] /\ w \in Seq(Workers) /\ e \in Seq(Tidings)
      /\ (\A i \in DOMAIN w : w[i] \in Workers) /\ (\A i \in DOMAIN e : e[i] \in Tidings)
  BY QueuesTypes
<1>2. \A x \in Workers : /\ [x EXCEPT !.reported = TRUE] \in Workers
                         /\ [x EXCEPT !.reported = TRUE].check = x.check
                         /\ [x EXCEPT !.reported = TRUE].data = x.data
  BY DEF Workers
<1>3. Len(w) \in Nat /\ DOMAIN w = 1..Len(w)
  BY <1>1
<1>4. /\ v \in Seq(Workers) /\ DOMAIN v = DOMAIN w
      /\ \A i \in DOMAIN w : v[i].check = w[i].check /\ v[i].data = w[i].data
  <2>1. v = [i \in DOMAIN w |-> IF i = n THEN [w[n] EXCEPT !.reported = TRUE] ELSE w[i]]
    BY <1>1
  <2> HIDE DEF v
  <2>2. v = [i \in 1..Len(w) |-> IF i = n THEN [w[n] EXCEPT !.reported = TRUE] ELSE w[i]]
    BY <2>1, <1>3
  <2>3. \A i \in 1..Len(w) : v[i] \in Workers
    BY <1>1, <1>2, <1>3, <2>2
  <2>4. v \in [1..Len(w) -> Workers]
    BY <2>2, <2>3
  <2>5. v \in Seq(Workers)
    BY <2>4, <1>3, SeqDef
  <2> QED BY <1>1, <1>2, <2>1, <2>5
<1> HIDE DEF v
<1>5. /\ f \in Seq(Tidings) /\ Len(e) \in Nat /\ DOMAIN e = 1..Len(e)
      /\ \A i \in DOMAIN f : (i \in DOMAIN e /\ f[i] = e[i]) \/ (i = Len(e) + 1 /\ f[i] = b)
  BY <1>1, AppendedTo
<1> HIDE DEF f
<1>6. QueuesFit(c, v, f)
  <2>1. \A i \in DOMAIN v : v[i].check = "scheduler" => v[i].data \in Searches
    BY <1>4 DEF Queues, QueuesFit
  <2>2. \A i \in DOMAIN f : ToldRight(f[i])
    BY <1>5 DEF Queues, QueuesFit
  <2> QED BY <1>1, <1>4, <1>5, <2>1, <2>2 DEF QueuesFit
<1>7. \A i \in DOMAIN v : c[v[i].check].busy
  BY <1>4 DEF Queues, OneWorker
<1>8. \A i \in DOMAIN f : c[f[i].check].busy
  BY <1>5 DEF Queues, OneWorker
<1>9. \A i, k \in DOMAIN v : v[i].check = v[k].check => i = k
  BY <1>4 DEF Queues, OneWorker
<1>10. \A i \in DOMAIN v, k \in DOMAIN f : v[i].check = f[k].check => f[k].kind # "finished"
  BY <1>4, <1>5 DEF Queues, OneWorker
<1>11. \A i, k \in DOMAIN f : f[i].check = f[k].check /\ f[i].kind = "finished" => k <= i
  <2>1. ASSUME NEW i \in DOMAIN f, NEW k \in DOMAIN f, f[i].check = f[k].check, f[i].kind = "finished"
        PROVE  k <= i
    <3>1. i \in DOMAIN e /\ f[i] = e[i]
      BY <1>5, <2>1
    <3>2. CASE k \in DOMAIN e /\ f[k] = e[k]
      BY <2>1, <3>1, <3>2 DEF Queues, OneWorker
    <3>3. CASE f[k] = b
      BY <2>1, <3>1, <3>3 DEF Queues, OneWorker
    <3> QED BY <1>5, <3>2, <3>3
  <2> QED BY <2>1
<1>12. Queues(c, v, f)
  BY <1>6, <1>7, <1>8, <1>9, <1>10, <1>11 DEF Queues, OneWorker
<1> QED BY <1>12 DEF v, f

\* A worker ends, and says so last.
LEMMA EndedFits ==
    ASSUME NEW c, NEW w, NEW e, Queues(c, w, e), NEW n \in DOMAIN w,
           NEW b \in Tidings, b.check = w[n].check, b.kind = "finished", ToldRight(b)
    PROVE  Queues(c, Settings!RemoveAt(w, n), Append(e, b))
<1> DEFINE v == Settings!RemoveAt(w, n)
           f == Append(e, b)
<1>1. /\ c \in [Settings!Checks -> Registers] /\ w \in Seq(Workers) /\ e \in Seq(Tidings)
      /\ (\A i \in DOMAIN w : w[i] \in Workers) /\ (\A i \in DOMAIN e : e[i] \in Tidings)
  BY QueuesTypes
<1>2. /\ v \in Seq(Workers) /\ DOMAIN w = 1..Len(w) /\ DOMAIN v = 1..(Len(w) - 1) /\ Len(w) \in Nat \ {0}
      /\ \A i \in 1..(Len(w) - 1) : v[i] = IF i < n THEN w[i] ELSE w[i + 1]
  BY <1>1, RemovedFrom
<1> HIDE DEF v
<1> DEFINE of(i) == IF i < n THEN i ELSE i + 1
<1>3. \A i \in DOMAIN v : of(i) \in DOMAIN w /\ of(i) # n /\ v[i] = w[of(i)]
  BY <1>2
<1>4. \A i, k \in DOMAIN v : of(i) = of(k) => i = k
  BY <1>2
<1> HIDE DEF of
<1>5. /\ f \in Seq(Tidings) /\ Len(e) \in Nat /\ DOMAIN e = 1..Len(e) /\ DOMAIN f = 1..(Len(e) + 1)
      /\ \A i \in DOMAIN f : (i \in DOMAIN e /\ f[i] = e[i]) \/ (i = Len(e) + 1 /\ f[i] = b)
  BY <1>1, AppendedTo
<1> HIDE DEF f
<1>6. QueuesFit(c, v, f)
  <2>1. \A i \in DOMAIN v : v[i].check = "scheduler" => v[i].data \in Searches
    BY <1>3 DEF Queues, QueuesFit
  <2>2. \A i \in DOMAIN f : ToldRight(f[i])
    BY <1>5 DEF Queues, QueuesFit
  <2> QED BY <1>1, <1>2, <1>5, <2>1, <2>2 DEF QueuesFit
<1>7. \A i \in DOMAIN v : c[v[i].check].busy
  BY <1>3 DEF Queues, OneWorker
<1>8. \A i \in DOMAIN f : c[f[i].check].busy
  BY <1>5 DEF Queues, OneWorker
<1>9. \A i, k \in DOMAIN v : v[i].check = v[k].check => i = k
  BY <1>3, <1>4 DEF Queues, OneWorker
<1>10. \A i \in DOMAIN v, k \in DOMAIN f : v[i].check = f[k].check => f[k].kind # "finished"
  <2>1. ASSUME NEW i \in DOMAIN v, NEW k \in DOMAIN f, v[i].check = f[k].check
        PROVE  f[k].kind # "finished"
    <3>1. w[of(i)].check # w[n].check
      BY <1>3 DEF Queues, OneWorker
    <3>2. k \in DOMAIN e /\ f[k] = e[k]
      BY <1>3, <1>5, <2>1, <3>1
    <3> QED BY <1>3, <2>1, <3>2 DEF Queues, OneWorker
  <2> QED BY <2>1
<1>11. \A i, k \in DOMAIN f : f[i].check = f[k].check /\ f[i].kind = "finished" => k <= i
  <2>1. ASSUME NEW i \in DOMAIN f, NEW k \in DOMAIN f, f[i].check = f[k].check, f[i].kind = "finished"
        PROVE  k <= i
    <3>1. CASE i = Len(e) + 1
      BY <1>5, <3>1
    <3>2. CASE i \in DOMAIN e /\ f[i] = e[i]
      <4>1. f[i].check # w[n].check
        BY <2>1, <3>2 DEF Queues, OneWorker
      <4>2. k \in DOMAIN e /\ f[k] = e[k]
        BY <1>5, <2>1, <4>1
      <4> QED BY <2>1, <3>2, <4>2 DEF Queues, OneWorker
    <3> QED BY <1>5, <3>1, <3>2
  <2> QED BY <2>1
<1>12. Queues(c, v, f)
  BY <1>6, <1>7, <1>8, <1>9, <1>10, <1>11 DEF Queues, OneWorker
<1> QED BY <1>12 DEF v, f

----------------------------------------------------------------------------
(* The profile store.                                                      *)

LEMMA SettingsConstants ==
    /\ Installed \subseteq Settings!Locations /\ Entered \subseteq Settings!Locations /\ Names # {}
    /\ \A l \in Installed : l.path # ""
    /\ Absent \notin Settings!ProfileRecords /\ Absent \notin Settings!HintRecords
BY PartsAssumption DEF Settings!SettingsAssumption, Settings!Locations

LEMMA ProfileShape ==
    ASSUME NEW p \in Settings!ProfileRecords
    PROVE  /\ p.name \in {""} \cup Names /\ p.keep \in BOOLEAN /\ p.preset \in {Absent} \cup Settings!PresetRecords
           /\ p.ait \in Runtime /\ p.hints \in {Absent} \cup Settings!HintRecords
           /\ p.orca \in {Absent} \cup Installed
           /\ p = [name |-> p.name, keep |-> p.keep, preset |-> p.preset, ait |-> p.ait,
                   hints |-> p.hints, orca |-> p.orca]
BY DEF Settings!ProfileRecords, Runtime

LEMMA StoreHas ==
    ASSUME NEW f, StoreFits(f)
    PROVE  /\ \A id \in Ids : f.profiles[id] \in {Absent} \cup Settings!ProfileRecords
           /\ \A id \in Settings!Profiles(f) :
                 id \in Ids /\ f.profiles[id] \in Settings!ProfileRecords /\ Verified(f.profiles[id])
BY DEF StoreFits, Stores, Settings!Profiles

LEMMA StoredFits ==
    ASSUME NEW f, StoreFits(f), NEW id \in Ids, NEW p \in Settings!ProfileRecords, Verified(p),
           Settings!NameIsFree(f, id, p.name)
    PROVE  StoreFits(Settings!Stored(f, id, p))
<1> DEFINE g == Settings!Stored(f, id, p)
           all == {Absent} \cup Settings!ProfileRecords
<1>1. f \in [profiles : [Ids -> all], last : {Absent} \cup Ids] /\ f.profiles \in [Ids -> all]
  BY DEF StoreFits, Stores
<1>0. g = [f EXCEPT !.profiles[id] = p, !.last = id]
  BY DEF Settings!Stored
<1> HIDE DEF g
<1>2. g = [profiles |-> [f.profiles EXCEPT ![id] = p], last |-> id]
  BY <1>0, <1>1
<1>3. p \in all
  OBVIOUS
<1> HIDE DEF g, all
<1>4. /\ g.profiles \in [Ids -> all] /\ g.last = id /\ g.profiles[id] = p
      /\ \A i \in Ids \ {id} : g.profiles[i] = f.profiles[i]
  BY <1>1, <1>2, <1>3
<1>5. p # Absent
  BY SettingsConstants
<1>6. /\ id \in Settings!Profiles(g)
      /\ \A i \in Ids \ {id} : i \in Settings!Profiles(g) <=> i \in Settings!Profiles(f)
  BY <1>4, <1>5 DEF Settings!Profiles
<1>7. g \in Stores
  BY <1>2, <1>4 DEF Stores, all
<1>8. \A i \in Settings!Profiles(g) : Verified(g.profiles[i])
  BY <1>4, <1>6 DEF StoreFits, Settings!Profiles
<1>9. ASSUME NEW i \in Settings!Profiles(g), NEW k \in Settings!Profiles(g) \ {i}
      PROVE  g.profiles[k].name # g.profiles[i].name
  <2>1. i \in Ids /\ k \in Ids
    BY DEF Settings!Profiles
  <2>2. CASE i = id
    <3>1. k \in Settings!Profiles(f) \ {id} /\ g.profiles[k] = f.profiles[k]
      BY <1>4, <1>6, <2>1, <2>2
    <3>2. f.profiles[k].name # p.name
      BY <3>1 DEF Settings!NameIsFree
    <3> QED BY <1>4, <2>2, <3>1, <3>2
  <2>3. CASE k = id
    <3>1. i \in Settings!Profiles(f) \ {id} /\ g.profiles[i] = f.profiles[i]
      BY <1>4, <1>6, <2>1, <2>3
    <3>2. f.profiles[i].name # p.name
      BY <3>1 DEF Settings!NameIsFree
    <3> QED BY <1>4, <2>3, <3>1, <3>2
  <2>4. CASE i # id /\ k # id
    <3>1. /\ i \in Settings!Profiles(f) /\ g.profiles[i] = f.profiles[i]
          /\ k \in Settings!Profiles(f) \ {i} /\ g.profiles[k] = f.profiles[k]
      BY <1>4, <1>6, <2>1, <2>4
    <3>2. f.profiles[k].name # f.profiles[i].name
      BY <3>1 DEF StoreFits, Settings!NameIsFree
    <3> QED BY <3>1, <3>2
  <2> QED BY <2>2, <2>3, <2>4
<1>10. StoreFits(g)
  BY <1>4, <1>6, <1>7, <1>8, <1>9 DEF StoreFits, Settings!NameIsFree
<1> QED BY <1>10 DEF g

LEMMA SelectedFits ==
    ASSUME NEW f, StoreFits(f), NEW id \in Settings!Profiles(f)
    PROVE  StoreFits(Settings!Selected(f, id))
<1> DEFINE g == Settings!Selected(f, id)
<1>1. id \in Ids
  BY DEF Settings!Profiles
<1>2. g = [profiles |-> f.profiles, last |-> id]
  BY DEF StoreFits, Stores, Settings!Selected
<1>3. f.profiles \in [Ids -> {Absent} \cup Settings!ProfileRecords]
  BY DEF StoreFits, Stores
<1> HIDE DEF g
<1>4. g.profiles = f.profiles /\ g.last = id
  BY <1>2
<1>5. g \in Stores
  BY <1>1, <1>2, <1>3 DEF Stores
<1>6. StoreFits(g)
  BY <1>4, <1>5 DEF StoreFits, Settings!Profiles, Settings!NameIsFree
<1> QED BY <1>6 DEF g

LEMMA DeletedFits ==
    ASSUME NEW f, StoreFits(f), NEW id \in Ids
    PROVE  StoreFits(Settings!Deleted(f, id))
<1> DEFINE g == Settings!Deleted(f, id)
<1>1. /\ f.profiles \in [Ids -> {Absent} \cup Settings!ProfileRecords] /\ f.last \in {Absent} \cup Ids
      /\ f.last = Absent \/ f.last \in Settings!Profiles(f)
  BY DEF StoreFits, Stores
<1>2. g = [profiles |-> [f.profiles EXCEPT ![id] = Absent], last |-> IF f.last = id THEN Absent ELSE f.last]
  BY DEF Settings!Deleted
<1> HIDE DEF g
<1>3. /\ g.profiles \in [Ids -> {Absent} \cup Settings!ProfileRecords] /\ g.profiles[id] = Absent
      /\ g.last = IF f.last = id THEN Absent ELSE f.last
      /\ \A i \in Ids \ {id} : g.profiles[i] = f.profiles[i]
  BY <1>1, <1>2
<1>4. \A i \in Settings!Profiles(g) : i \in Settings!Profiles(f) /\ g.profiles[i] = f.profiles[i]
  BY <1>3 DEF Settings!Profiles
<1>5. \A i \in Settings!Profiles(f) \ {id} : i \in Settings!Profiles(g)
  BY <1>3 DEF Settings!Profiles
<1>6. g \in Stores
  BY <1>1, <1>2, <1>3 DEF Stores
<1>7. g.last = Absent \/ g.last \in Settings!Profiles(g)
  BY <1>1, <1>3, <1>5
<1>8. StoreFits(g)
  BY <1>4, <1>6, <1>7 DEF StoreFits, Settings!NameIsFree
<1> QED BY <1>8 DEF g

LEMMA FieldsFit ==
    ASSUME NEW id \in Ids, NEW p \in Settings!ProfileRecords, Verified(p)
    PROVE  FormFits(Settings!Fields(id, p))
BY ProfileShape DEF FormFits, Forms, Carried, Verified, Settings!Fields, Runtime

LEMMA NewFieldsFit ==
    ASSUME NEW id \in Ids
    PROVE  FormFits(Settings!NewFields(id))
BY DEF FormFits, Forms, Carried, Verified, Settings!NewFields, Runtime

LEMMA RefreshedFits ==
    ASSUME NEW f, StoreFits(f), NEW target, NEW g \in Settings!Refreshed(f, target)
    PROVE  FormFits(g)
<1>1. CASE target \in Settings!Profiles(f)
  <2>1. g = Settings!Fields(target, f.profiles[target])
    BY <1>1 DEF Settings!Refreshed
  <2> QED BY <1>1, <2>1, StoreHas, FieldsFit
<1>2. CASE target \notin Settings!Profiles(f) /\ Settings!Profiles(f) # {}
  <2>1. PICK id \in Settings!Profiles(f) : g = Settings!Fields(id, f.profiles[id])
    BY <1>2 DEF Settings!Refreshed
  <2> QED BY <2>1, StoreHas, FieldsFit
<1>3. CASE target \notin Settings!Profiles(f) /\ Settings!Profiles(f) = {}
  <2>1. PICK id \in Ids : g = Settings!NewFields(id)
    BY <1>3 DEF Settings!Refreshed
  <2> QED BY <2>1, NewFieldsFit
<1> QED BY <1>1, <1>2, <1>3

LEMMA CollectedFits ==
    ASSUME FormFits(form)
    PROVE  Settings!Collected \in Settings!ProfileRecords /\ Verified(Settings!Collected)
BY DEF FormFits, Forms, Carried, Verified, Settings!Collected, Settings!ProfileRecords, Runtime

LEMMA SaveFits ==
    ASSUME ProfilesFit, NEW id \in Ids, NEW p \in Settings!ProfileRecords, Verified(p), NEW password,
           Settings!Save(id, p, password), cache' = cache
    PROVE  ProfilesFit'
<1>1. CASE file' = Settings!Stored(file, id, p) /\ form' = Settings!Fields(id, p)
  <2>1. Settings!NameIsFree(file, id, p.name)
    BY DEF Settings!Save
  <2>2. StoreFits(file') /\ FormFits(form')
    BY <1>1, <2>1, StoredFits, FieldsFit DEF ProfilesFit
  <2> QED BY <2>2 DEF ProfilesFit, CacheFits
<1>2. CASE UNCHANGED <<file, form>>
  BY <1>2 DEF ProfilesFit, CacheFits
<1> QED BY <1>1, <1>2 DEF Settings!Save

----------------------------------------------------------------------------
(* The working copy of Cluster Execution Settings.                         *)

LEMMA ClusterShape ==
    ASSUME NEW c \in Clusters
    PROVE  /\ c.id \in Ids /\ c.loaded \in Settings!ProfileRecords /\ c.mode \in {"automatic", "manual"}
           /\ c.selector \in Settings!Kinds /\ c.auto \in Scheduler /\ c.typed \in Scheduler /\ c.lsf \in BOOLEAN
           /\ c.verified \in Scheduler /\ c.fhi \in Runtime /\ c.launch \in Runtime /\ c.ait \in Runtime
           /\ c.species \in BOOLEAN /\ c.hints \in {Absent} \cup Settings!HintRecords
           /\ c.orca \in {Absent} \cup Installed /\ c.fields \in Settings!Locations
           /\ c = [id |-> c.id, loaded |-> c.loaded, mode |-> c.mode, selector |-> c.selector,
                   auto |-> c.auto, typed |-> c.typed, lsf |-> c.lsf, verified |-> c.verified,
                   fhi |-> c.fhi, launch |-> c.launch, ait |-> c.ait, species |-> c.species,
                   hints |-> c.hints, orca |-> c.orca, fields |-> c.fields]
BY DEF Clusters

LEMMA HintShape ==
    ASSUME NEW h \in Settings!HintRecords
    PROVE  /\ h.fhi \in Runtime /\ h.ait \in Runtime /\ h.species \in BOOLEAN /\ h.orca \in Settings!Locations
           /\ h = [fhi |-> h.fhi, ait |-> h.ait, species |-> h.species, orca |-> h.orca]
BY DEF Settings!HintRecords, Runtime

LEMMA BlankIsLocation == Settings!Blank \in Settings!Locations /\ Settings!Blank \notin Installed
<1>1. Settings!Blank.path = ""
  BY DEF Settings!Blank
<1> QED BY <1>1, SettingsConstants DEF Settings!Locations

LEMMA HintsOf ==
    ASSUME NEW c \in Clusters
    PROVE  /\ Settings!Hints(c) \in Settings!HintRecords
           /\ c.hints = Absent => Settings!Hints(c).orca = Settings!Blank
           /\ c.hints # Absent => Settings!Hints(c).orca = c.hints.orca
<1>1. c.fhi \in Runtime /\ c.ait \in Runtime /\ c.species \in BOOLEAN /\ c.hints \in {Absent} \cup Settings!HintRecords
  BY ClusterShape
<1>2. CASE c.hints = Absent
  BY <1>1, <1>2, BlankIsLocation DEF Settings!Hints, Settings!HintRecords, Runtime
<1>3. CASE c.hints # Absent
  <2>1. c.hints \in Settings!HintRecords
    BY <1>1, <1>3
  <2>2. Settings!Hints(c) = [c.hints EXCEPT !.species = c.species]
    BY <1>3 DEF Settings!Hints
  <2> QED BY <1>1, <1>3, <2>1, <2>2 DEF Settings!HintRecords
<1> QED BY <1>2, <1>3

LEMMA OrcaLocationType ==
    ASSUME NEW c \in Clusters
    PROVE  Settings!OrcaLocation(c) \in Settings!Locations
BY ClusterShape, HintShape, BlankIsLocation DEF Settings!OrcaLocation

\* The ORCA part of the copy is the same.
SameOrca(c, d) == d.loaded = c.loaded /\ d.fields = c.fields /\ d.hints = c.hints /\ d.orca = c.orca

LEMMA SameOrcaFits ==
    ASSUME NEW c, NEW b, ClusterFits(c, b), NEW d \in Clusters, SameOrca(c, d)
    PROVE  /\ ClusterFits(d, TRUE)
           /\ d.fhi = c.fhi /\ d.launch = c.launch => ClusterFits(d, b)
           /\ \A m : ManualFits(m, c) => ManualFits(m, d)
BY DEF ClusterFits, SameOrca, Settings!OrcaLocation, ManualFits

LEMMA LongerSearch ==
    ASSUME NEW c, NEW b, ClusterFits(c, b)
    PROVE  ClusterFits(c, TRUE)
BY DEF ClusterFits

LEMMA SyncedFits ==
    ASSUME NEW c, ClusterFits(c, TRUE), NEW b
    PROVE  /\ ClusterFits(Settings!Synced(c), b)
           /\ \A m : ManualFits(m, c) => ManualFits(m, Settings!Synced(c))
<1> DEFINE d == Settings!Synced(c)
<1>1. c \in Clusters
  BY DEF ClusterFits
<1>2. CASE c.fhi = Absent
  BY <1>2 DEF Settings!Synced, ClusterFits
<1>3. CASE c.fhi # Absent
  <2>1. d = [c EXCEPT !.launch = c.fhi]
    BY <1>3 DEF Settings!Synced
  <2> HIDE DEF d
  <2>2. d = [id |-> c.id, loaded |-> c.loaded, mode |-> c.mode, selector |-> c.selector,
             auto |-> c.auto, typed |-> c.typed, lsf |-> c.lsf, verified |-> c.verified,
             fhi |-> c.fhi, launch |-> c.fhi, ait |-> c.ait, species |-> c.species,
             hints |-> c.hints, orca |-> c.orca, fields |-> c.fields]
    BY <1>1, <2>1, ClusterShape
  <2>3. d \in Clusters
    BY <1>1, <2>2, ClusterShape DEF Clusters
  <2>4. SameOrca(c, d) /\ d.launch = d.fhi
    BY <2>2 DEF SameOrca
  <2>5. ClusterFits(d, TRUE) /\ \A m : ManualFits(m, c) => ManualFits(m, d)
    BY <2>3, <2>4, SameOrcaFits
  <2>6. ClusterFits(d, b)
    BY <2>4, <2>5 DEF ClusterFits
  <2> QED BY <2>5, <2>6 DEF d
<1> QED BY <1>2, <1>3

\* The copy that is opened of a profile.
LEMMA WorkingFits ==
    ASSUME NEW id \in Ids, NEW p \in Settings!ProfileRecords, Verified(p), NEW b
    PROVE  ClusterFits(Settings!Working(id, p), b)
<1> DEFINE preset == p.preset
           c == [id |-> id, loaded |-> p,
                 mode |-> IF preset = Absent THEN "automatic" ELSE preset.mode,
                 selector |-> IF preset = Absent THEN "slurm" ELSE preset.kind,
                 auto |-> IF preset # Absent /\ preset.mode = "automatic" THEN preset.dir ELSE Absent,
                 typed |-> IF preset # Absent /\ preset.mode = "manual" THEN preset.dir ELSE Absent,
                 lsf |-> preset # Absent /\ preset.kind = "lsf",
                 verified |-> Absent,
                 fhi |-> IF preset = Absent THEN Absent ELSE preset.fhi,
                 launch |-> IF preset = Absent THEN Absent ELSE preset.launch,
                 ait |-> p.ait,
                 species |-> IF p.hints = Absent THEN FALSE ELSE p.hints.species,
                 hints |-> p.hints,
                 orca |-> p.orca,
                 fields |-> IF p.orca # Absent THEN p.orca
                            ELSE IF p.hints # Absent THEN p.hints.orca ELSE Settings!Blank]
<1>1. Settings!Working(id, p) = Settings!Synced(c)
  BY DEF Settings!Working
<1>2. preset # Absent =>
        /\ preset.mode \in {"automatic", "manual"} /\ preset.kind \in Settings!Kinds /\ preset.dir \in Scheduler
        /\ preset.fhi \in Runtime /\ preset.launch \in Runtime
  BY ProfileShape DEF Settings!PresetRecords, Scheduler, Runtime
<1>3. p.hints # Absent => p.hints.species \in BOOLEAN /\ p.hints.orca \in Settings!Locations
  BY ProfileShape, HintShape
<1>4. p.orca # Absent => p.orca \in Settings!Locations /\ p.hints # Absent /\ p.hints.orca = p.orca
  BY ProfileShape, SettingsConstants DEF Verified
<1>5. c \in Clusters
  <2>1. c.mode \in {"automatic", "manual"} /\ c.selector \in Settings!Kinds
    BY <1>2 DEF Settings!Kinds
  <2>2. c.auto \in Scheduler /\ c.typed \in Scheduler /\ c.lsf \in BOOLEAN /\ c.verified \in Scheduler
    BY <1>2 DEF Scheduler
  <2>3. c.fhi \in Runtime /\ c.launch \in Runtime /\ c.ait \in Runtime
    BY <1>2, ProfileShape DEF Runtime
  <2>4. c.species \in BOOLEAN /\ c.fields \in Settings!Locations
    BY <1>3, <1>4, BlankIsLocation
  <2>5. /\ c.id \in Ids /\ c.loaded \in Settings!ProfileRecords
        /\ c.hints \in {Absent} \cup Settings!HintRecords /\ c.orca \in {Absent} \cup Installed
    BY ProfileShape
  <2>6. c = [id |-> c.id, loaded |-> c.loaded, mode |-> c.mode, selector |-> c.selector,
             auto |-> c.auto, typed |-> c.typed, lsf |-> c.lsf, verified |-> c.verified,
             fhi |-> c.fhi, launch |-> c.launch, ait |-> c.ait, species |-> c.species,
             hints |-> c.hints, orca |-> c.orca, fields |-> c.fields]
    OBVIOUS
  <2> HIDE DEF c
  <2> QED BY <2>1, <2>2, <2>3, <2>4, <2>5, <2>6 DEF Clusters
<1>6. c.orca # Absent => Settings!OrcaLocation(c) = c.orca
  <2>1. c.orca = p.orca /\ c.hints = p.hints /\ (p.orca # Absent => c.fields = p.orca)
    OBVIOUS
  <2> HIDE DEF c
  <2> QED BY <1>4, <2>1 DEF Settings!OrcaLocation
<1>7. c.loaded = p
  OBVIOUS
<1> HIDE DEF c
<1>8. ClusterFits(c, TRUE)
  BY <1>5, <1>6, <1>7 DEF ClusterFits
<1> QED BY <1>1, <1>8, SyncedFits

\* _orca_fields_changed drops a runtime that is no longer the one in the fields.
LEMMA FieldsChangedFits ==
    ASSUME NEW c, NEW b, ClusterFits(c, b), NEW location \in Settings!Locations
    PROVE  ClusterFits(Settings!FieldsChanged([c EXCEPT !.fields = location]), b)
<1> DEFINE d == [c EXCEPT !.fields = location]
           g == [d EXCEPT !.orca = Absent]
<1>1. c \in Clusters
  BY DEF ClusterFits
<1>2. d = [id |-> c.id, loaded |-> c.loaded, mode |-> c.mode, selector |-> c.selector,
           auto |-> c.auto, typed |-> c.typed, lsf |-> c.lsf, verified |-> c.verified,
           fhi |-> c.fhi, launch |-> c.launch, ait |-> c.ait, species |-> c.species,
           hints |-> c.hints, orca |-> c.orca, fields |-> location]
  <2>1. d = [c EXCEPT !.fields = location]
    OBVIOUS
  <2> HIDE DEF d
  <2> QED BY <1>1, <2>1, ClusterShape
<1> HIDE DEF d
<1>3. d \in Clusters
  BY <1>1, <1>2, ClusterShape DEF Clusters
<1>4. d.loaded = c.loaded /\ d.fhi = c.fhi /\ d.launch = c.launch
  BY <1>2
<1>5. g = [id |-> d.id, loaded |-> d.loaded, mode |-> d.mode, selector |-> d.selector,
           auto |-> d.auto, typed |-> d.typed, lsf |-> d.lsf, verified |-> d.verified,
           fhi |-> d.fhi, launch |-> d.launch, ait |-> d.ait, species |-> d.species,
           hints |-> d.hints, orca |-> Absent, fields |-> d.fields]
  <2>1. g = [d EXCEPT !.orca = Absent]
    OBVIOUS
  <2> HIDE DEF g
  <2> QED BY <1>3, <2>1, ClusterShape
<1> HIDE DEF g
<1>6. g \in Clusters
  BY <1>3, <1>5, ClusterShape DEF Clusters
<1>7. g.loaded = c.loaded /\ g.fhi = c.fhi /\ g.launch = c.launch /\ g.orca = Absent
  BY <1>4, <1>5
<1>8. CASE d.orca # Absent /\ Settings!OrcaLocation(d) # d.orca
  <2>1. Settings!FieldsChanged(d) = g
    BY <1>8 DEF Settings!FieldsChanged, g
  <2>2. ClusterFits(g, b)
    BY <1>6, <1>7 DEF ClusterFits
  <2> QED BY <2>1, <2>2 DEF d
<1>9. CASE ~(d.orca # Absent /\ Settings!OrcaLocation(d) # d.orca)
  <2>1. Settings!FieldsChanged(d) = d
    BY <1>9 DEF Settings!FieldsChanged
  <2>2. ClusterFits(d, b)
    BY <1>3, <1>4, <1>9 DEF ClusterFits
  <2> QED BY <2>1, <2>2 DEF d
<1> QED BY <1>8, <1>9

\* A confirmed runtime is in the fields and is the hint.
LEMMA WithOrcaFits ==
    ASSUME NEW c, NEW b, ClusterFits(c, b), NEW location \in Installed
    PROVE  /\ ClusterFits(Settings!WithOrca(c, location), b)
           /\ \A m : ManualFits(m, c) => ManualFits(m, Settings!WithOrca(c, location))
<1> DEFINE d == Settings!WithOrca(c, location)
           h == [Settings!Hints(c) EXCEPT !.orca = location]
<1>1. c \in Clusters
  BY DEF ClusterFits
<1>2. location \in Settings!Locations /\ location # Settings!Blank
  BY SettingsConstants, BlankIsLocation
<1>3. h \in Settings!HintRecords
  <2>1. h = [Settings!Hints(c) EXCEPT !.orca = location]
    OBVIOUS
  <2> HIDE DEF h
  <2> QED BY <1>1, <1>2, <2>1, HintsOf DEF Settings!HintRecords
<1>4. d = [c EXCEPT !.fields = location, !.orca = location, !.hints = h]
  BY DEF Settings!WithOrca
<1> HIDE DEF d, h
<1>5. d = [id |-> c.id, loaded |-> c.loaded, mode |-> c.mode, selector |-> c.selector,
           auto |-> c.auto, typed |-> c.typed, lsf |-> c.lsf, verified |-> c.verified,
           fhi |-> c.fhi, launch |-> c.launch, ait |-> c.ait, species |-> c.species,
           hints |-> h, orca |-> location, fields |-> location]
  BY <1>1, <1>4 DEF Clusters
<1>6. d \in Clusters
  BY <1>1, <1>2, <1>3, <1>5, ClusterShape DEF Clusters
<1>7. /\ d.loaded = c.loaded /\ d.fhi = c.fhi /\ d.launch = c.launch /\ d.orca = location
      /\ d.fields = location
  BY <1>5
<1>8. ClusterFits(d, b)
  BY <1>2, <1>6, <1>7 DEF ClusterFits, Settings!OrcaLocation
<1>9. \A m : ManualFits(m, c) => ManualFits(m, d)
  BY <1>2, <1>7 DEF ManualFits
<1> QED BY <1>8, <1>9 DEF d

\* The manual dialog starts with the hint of the verified runtime.
LEMMA ManualStartsFit ==
    ASSUME NEW c, NEW b, ClusterFits(c, b)
    PROVE  ManualFits(Settings!Manual(c), c)
<1> DEFINE m == Settings!Manual(c)
           h == Settings!Hints(c)
<1>1. c \in Clusters
  BY DEF ClusterFits
<1>2. h \in Settings!HintRecords
  BY <1>1, HintsOf
<1>3. m = [fhi |-> IF h.fhi # Absent THEN h.fhi ELSE c.fhi, ait |-> IF h.ait # Absent THEN h.ait ELSE c.ait,
           species |-> h.species, orca |-> h.orca]
  BY DEF Settings!Manual
<1>4. (c.hints = Absent => h.orca = Settings!Blank) /\ (c.hints # Absent => h.orca = c.hints.orca)
  BY <1>1, HintsOf
<1> HIDE DEF m, h
<1>5. c.fhi \in {Absent} \cup Runtimes /\ c.ait \in {Absent} \cup Runtimes
  BY <1>1, ClusterShape DEF Runtime
<1>6. m \in Settings!HintRecords
  BY <1>2, <1>3, <1>5 DEF Settings!HintRecords
<1>7. c.orca # Absent /\ c.fields = Settings!Blank => m.orca = c.orca
  BY <1>3, <1>4 DEF ClusterFits, Settings!OrcaLocation
<1>8. ManualFits(m, c)
  BY <1>6, <1>7 DEF ManualFits
<1> QED BY <1>8 DEF m

LEMMA ReceivedFits ==
    ASSUME NEW m, NEW c, ManualFits(m, c), NEW found \in Runtime, NEW g \in Settings!Received(m, found)
    PROVE  ManualFits(g, c)
<1>1. m \in Settings!HintRecords
  BY DEF ManualFits
<1>2. PICK chosen : g = Settings!Filled(m, found, chosen)
  BY DEF Settings!Received
<1>3. g = [fhi |-> IF m.fhi = Absent /\ "fhi" \in chosen THEN found ELSE m.fhi,
           ait |-> IF m.ait = Absent /\ "ait" \in chosen THEN found ELSE m.ait,
           species |-> m.species \/ ("fhi" \in chosen /\ found # Absent), orca |-> m.orca]
  BY <1>1, <1>2 DEF Settings!HintRecords, Settings!Filled
<1>4. /\ m.fhi \in {Absent} \cup Runtimes /\ m.ait \in {Absent} \cup Runtimes
      /\ m.species \in BOOLEAN /\ m.orca \in Settings!Locations /\ found \in {Absent} \cup Runtimes
  BY <1>1 DEF Settings!HintRecords, Runtime
<1>5. g \in Settings!HintRecords
  BY <1>3, <1>4 DEF Settings!HintRecords
<1>6. g.orca = m.orca
  BY <1>3
<1> QED BY <1>5, <1>6 DEF ManualFits

\* The candidate that is chosen without the manual dialog.
LEMMA ChosenFits ==
    ASSUME NEW c, NEW b, ClusterFits(c, b), NEW found \in Runtime
    PROVE  LET d == [c EXCEPT !.launch = found, !.ait = found, !.species = TRUE] IN
           /\ ClusterFits([d EXCEPT !.hints = Settings!Hints(d)], TRUE)
           /\ \A m : ManualFits(m, c) => ManualFits(m, [d EXCEPT !.hints = Settings!Hints(d)])
<1> DEFINE d == [c EXCEPT !.launch = found, !.ait = found, !.species = TRUE]
           g == [d EXCEPT !.hints = Settings!Hints(d)]
           h == Settings!Hints(d)
<1>1. c \in Clusters
  BY DEF ClusterFits
<1>2. d = [id |-> c.id, loaded |-> c.loaded, mode |-> c.mode, selector |-> c.selector,
           auto |-> c.auto, typed |-> c.typed, lsf |-> c.lsf, verified |-> c.verified,
           fhi |-> c.fhi, launch |-> found, ait |-> found, species |-> TRUE,
           hints |-> c.hints, orca |-> c.orca, fields |-> c.fields]
  <2>1. d = [c EXCEPT !.launch = found, !.ait = found, !.species = TRUE]
    OBVIOUS
  <2> HIDE DEF d
  <2> QED BY <1>1, <2>1 DEF Clusters
<1> HIDE DEF d
<1>3. d \in Clusters
  BY <1>1, <1>2, ClusterShape DEF Clusters
<1>4. /\ h \in Settings!HintRecords
      /\ (d.hints = Absent => h.orca = Settings!Blank) /\ (d.hints # Absent => h.orca = d.hints.orca)
  BY <1>3, HintsOf
<1>5. g = [d EXCEPT !.hints = h]
  OBVIOUS
<1> HIDE DEF g, h
<1>6. g = [id |-> d.id, loaded |-> d.loaded, mode |-> d.mode, selector |-> d.selector,
           auto |-> d.auto, typed |-> d.typed, lsf |-> d.lsf, verified |-> d.verified,
           fhi |-> d.fhi, launch |-> d.launch, ait |-> d.ait, species |-> d.species,
           hints |-> h, orca |-> d.orca, fields |-> d.fields]
  BY <1>3, <1>5, ClusterShape
<1>7. g \in Clusters
  BY <1>3, <1>4, <1>6, ClusterShape DEF Clusters
<1>8. g.loaded = c.loaded /\ g.fields = c.fields /\ g.orca = c.orca /\ g.hints = h /\ d.hints = c.hints
  BY <1>2, <1>6
<1>9. h # Absent
  BY <1>4, SettingsConstants
<1>10. Settings!OrcaLocation(g) = Settings!OrcaLocation(c)
  BY <1>4, <1>8, <1>9 DEF Settings!OrcaLocation
<1>11. ClusterFits(g, TRUE)
  BY <1>7, <1>8, <1>10 DEF ClusterFits
<1>12. \A m : ManualFits(m, c) => ManualFits(m, g)
  BY <1>8 DEF ManualFits
<1> QED BY <1>11, <1>12 DEF g, h, d

\* Apply of the manual dialog.
LEMMA AppliedFits ==
    ASSUME NEW c, NEW b, ClusterFits(c, b), NEW m, ManualFits(m, c), NEW h,
           h = [fhi |-> m.fhi, ait |-> m.ait, species |-> m.species, orca |-> m.orca]
    PROVE  ClusterFits([c EXCEPT !.hints = h, !.species = m.species, !.ait = m.ait, !.fhi = m.fhi,
                                 !.launch = IF m.fhi = Absent /\ c.fhi # Absent THEN Absent ELSE @], TRUE)
<1> DEFINE d == [c EXCEPT !.hints = h, !.species = m.species, !.ait = m.ait, !.fhi = m.fhi,
                          !.launch = IF m.fhi = Absent /\ c.fhi # Absent THEN Absent ELSE @]
           launch == IF m.fhi = Absent /\ c.fhi # Absent THEN Absent ELSE c.launch
<1>1. c \in Clusters /\ m \in Settings!HintRecords
  BY DEF ClusterFits, ManualFits
<1>2. d = [id |-> c.id, loaded |-> c.loaded, mode |-> c.mode, selector |-> c.selector,
           auto |-> c.auto, typed |-> c.typed, lsf |-> c.lsf, verified |-> c.verified,
           fhi |-> m.fhi, launch |-> launch, ait |-> m.ait, species |-> m.species,
           hints |-> h, orca |-> c.orca, fields |-> c.fields]
  <2>1. d = [c EXCEPT !.hints = h, !.species = m.species, !.ait = m.ait, !.fhi = m.fhi, !.launch = launch]
    OBVIOUS
  <2> HIDE DEF d, launch
  <2> QED BY <1>1, <2>1 DEF Clusters
<1> HIDE DEF d
<1>3. h \in Settings!HintRecords /\ h.orca = m.orca
  BY <1>1, HintShape
<1>4. launch \in Runtime
  BY <1>1, ClusterShape DEF Runtime
<1> HIDE DEF launch
<1>5. d \in Clusters
  BY <1>1, <1>2, <1>3, <1>4, ClusterShape, HintShape DEF Clusters
<1>6. d.loaded = c.loaded /\ d.fields = c.fields /\ d.orca = c.orca /\ d.hints = h
  BY <1>2
<1>7. h # Absent
  BY <1>3, SettingsConstants
<1>8. c.orca # Absent => Settings!OrcaLocation(d) = c.orca
  <2>1. CASE c.fields = Settings!Blank
    BY <1>3, <1>6, <1>7, <2>1 DEF Settings!OrcaLocation, ManualFits
  <2>2. CASE c.fields # Settings!Blank
    BY <1>6, <2>2 DEF Settings!OrcaLocation, ClusterFits
  <2> QED BY <2>1, <2>2
<1>9. ClusterFits(d, TRUE)
  BY <1>5, <1>6, <1>8 DEF ClusterFits
<1> QED BY <1>9 DEF d

\* What is saved of a copy that no search is about to change.
LEMMA SavedFits ==
    ASSUME NEW c, ClusterFits(c, FALSE)
    PROVE  LET p == [c.loaded EXCEPT !.preset = Settings!PresetOf(c), !.ait = c.ait,
                                     !.hints = [Settings!Hints(c) EXCEPT !.orca = Settings!OrcaLocation(c)],
                                     !.orca = c.orca] IN
           p \in Settings!ProfileRecords /\ Verified(p)
<1> DEFINE p == [c.loaded EXCEPT !.preset = Settings!PresetOf(c), !.ait = c.ait,
                                 !.hints = [Settings!Hints(c) EXCEPT !.orca = Settings!OrcaLocation(c)],
                                 !.orca = c.orca]
           h == [Settings!Hints(c) EXCEPT !.orca = Settings!OrcaLocation(c)]
           preset == Settings!PresetOf(c)
<1>1. c \in Clusters /\ c.loaded \in Settings!ProfileRecords
  BY ClusterShape DEF ClusterFits
<1>2. h \in Settings!HintRecords /\ h.orca = Settings!OrcaLocation(c)
  BY <1>1, HintsOf, OrcaLocationType DEF Settings!HintRecords
<1>3. preset \in Settings!PresetRecords /\ preset.fhi = c.fhi /\ preset.launch = c.launch
  <2>1. preset = [mode |-> c.mode, kind |-> Settings!Kind(c),
                  dir |-> IF c.mode = "automatic" THEN c.auto ELSE c.typed, fhi |-> c.fhi, launch |-> c.launch]
    BY DEF Settings!PresetOf
  <2>2. Settings!Kind(c) \in Settings!Kinds
    BY <1>1, ClusterShape DEF Settings!Kind, Scheduler
  <2> HIDE DEF preset
  <2> QED BY <1>1, <2>1, <2>2, ClusterShape DEF Settings!PresetRecords, Scheduler, Runtime
<1>8. p = [c.loaded EXCEPT !.preset = preset, !.ait = c.ait, !.hints = h, !.orca = c.orca]
  OBVIOUS
<1> HIDE DEF h, preset, p
<1>4. p = [name |-> c.loaded.name, keep |-> c.loaded.keep, preset |-> preset, ait |-> c.ait,
           hints |-> h, orca |-> c.orca]
  BY <1>1, <1>8 DEF Settings!ProfileRecords
<1>5. p \in Settings!ProfileRecords
  BY <1>1, <1>2, <1>3, <1>4, ClusterShape, ProfileShape DEF Settings!ProfileRecords, Runtime
<1>6. h # Absent
  BY <1>2, SettingsConstants
<1>9. p.orca = c.orca /\ p.hints = h /\ p.preset = preset
  BY <1>4
<1>10. c.orca # Absent => Settings!OrcaLocation(c) = c.orca
  BY DEF ClusterFits
<1>11. c.fhi # Absent => c.launch = c.fhi
  BY DEF ClusterFits
<1>7. Verified(p)
  BY <1>2, <1>3, <1>6, <1>9, <1>10, <1>11 DEF Verified
<1> QED BY <1>5, <1>7 DEF p, h, preset

----------------------------------------------------------------------------
(* The steps of Server Profiles.                                           *)

LEMMA TopIs ==
    ASSUME Settings!Top # "closed"
    PROVE  stack # <<>> /\ stack[Len(stack)].kind = Settings!Top
BY LastOf DEF Settings!Top

LEMMA TopOpen ==
    ASSUME SettingsInv, Settings!Top # "closed"
    PROVE  Open(stack, Settings!Top)
BY TopIs, TopIsOpen DEF SettingsInv

LEMMA NothingUnsaved ==
    ASSUME SettingsInv, Settings!Top \notin {"unsaved", "question"}
    PROVE  ~Open(stack, "unsaved")
<1> SUFFICES ASSUME Open(stack, "unsaved") PROVE FALSE
  OBVIOUS
<1>1. stack # <<>> /\ stack[Len(stack)].kind \in {"unsaved", "question"}
  BY UnsavedIsLast DEF SettingsInv
<1>2. Settings!Top = stack[Len(stack)].kind
  BY <1>1, LastOf DEF Settings!Top
<1> QED BY <1>1, <1>2

\* The stack and the checks may change when every dialog of a busy check stays.
LEMMA OwnedMayChange ==
    ASSUME NEW q, NEW c, Owned(q, c), NEW p, NEW d,
           \A check \in Settings!Checks : d[check].busy => c[check].busy \/ Open(p, Owner(check)),
           \A check \in Settings!Checks : c[check].busy /\ Open(q, Owner(check)) => Open(p, Owner(check)),
           Open(p, "unsaved") => \A check \in Settings!ClusterChecks : ~d[check].busy
    PROVE  Owned(p, d)
BY DEF Owned

LEMMA CopiesMayChange ==
    ASSUME NEW q, NEW c, NEW m, NEW b, CopiesFit(q, c, m, b), NEW p, NEW s, b => s,
           Open(p, "cluster") => Open(q, "cluster"), Open(p, "manual") => Open(q, "manual")
    PROVE  CopiesFit(p, c, m, s)
BY DEF CopiesFit, ClusterFits

\* The dialogs are as before.
DialogsSame == UNCHANGED <<cluster, manual, checks, workers, events, stack>>

LEMMA StoreStepKeeps ==
    ASSUME SettingsInv, ProfilesFit', DialogsSame
    PROVE  SettingsInv'
BY DEF SettingsInv, DialogsSame

LEMMA SelectProfileKeeps == ASSUME SettingsInv, NEW id \in Ids, Settings!SelectProfile(id) PROVE SettingsInv'
<1>1. /\ id \in Settings!Profiles(file) /\ file' = Settings!Selected(file, id)
      /\ form' = Settings!Fields(id, file.profiles[id]) /\ cache' = cache /\ DialogsSame
  BY DEF Settings!SelectProfile, DialogsSame
<1>2. StoreFits(file) /\ CacheFits
  BY DEF SettingsInv, ProfilesFit
<1>3. StoreFits(file')
  BY <1>1, <1>2, SelectedFits
<1>4. FormFits(form')
  BY <1>1, <1>2, StoreHas, FieldsFit
<1>5. ProfilesFit'
  BY <1>1, <1>2, <1>3, <1>4 DEF ProfilesFit, CacheFits
<1> QED BY <1>1, <1>5, StoreStepKeeps

LEMMA NewProfileKeeps == ASSUME SettingsInv, Settings!NewProfile PROVE SettingsInv'
<1>1. UNCHANGED <<file, cache>> /\ DialogsSame
  BY DEF Settings!NewProfile, DialogsSame
<1>2. PICK id \in Ids : form' = Settings!NewFields(id)
  BY DEF Settings!NewProfile
<1>3. FormFits(form')
  BY <1>2, NewFieldsFit
<1>4. ProfilesFit'
  BY <1>1, <1>3 DEF SettingsInv, ProfilesFit, CacheFits
<1> QED BY <1>1, <1>4, StoreStepKeeps

LEMMA EditFormKeeps == ASSUME SettingsInv, Settings!EditForm PROVE SettingsInv'
<1>1. UNCHANGED <<file, cache>> /\ DialogsSame
  BY DEF Settings!EditForm, DialogsSame
<1>2. \/ \E name \in Names : form' = [form EXCEPT !.name = name]
      \/ form' = [form EXCEPT !.keep = ~@]
      \/ form' = [form EXCEPT !.password = TRUE]
  BY DEF Settings!EditForm
<1>3. form \in Forms /\ Verified(form.carried)
  BY DEF SettingsInv, ProfilesFit, FormFits
<1>4. form' \in Forms /\ form'.carried = form.carried
  BY <1>2, <1>3 DEF Forms
<1>5. FormFits(form')
  BY <1>3, <1>4 DEF FormFits
<1>6. ProfilesFit'
  BY <1>1, <1>5 DEF SettingsInv, ProfilesFit, CacheFits
<1> QED BY <1>1, <1>6, StoreStepKeeps

LEMMA SaveProfileKeeps == ASSUME SettingsInv, Settings!SaveProfile PROVE SettingsInv'
<1>1. DialogsSame /\ cache' = cache /\ Settings!Save(form.id, Settings!Collected, form.password)
  BY DEF Settings!SaveProfile, DialogsSame
<1>2. ProfilesFit /\ form.id \in Ids
  BY DEF SettingsInv, ProfilesFit, FormFits, Forms
<1>3. Settings!Collected \in Settings!ProfileRecords /\ Verified(Settings!Collected)
  BY <1>2, CollectedFits DEF ProfilesFit
<1>4. ProfilesFit'
  BY <1>1, <1>2, <1>3, SaveFits
<1> QED BY <1>1, <1>4, StoreStepKeeps

LEMMA SaveAsProfileKeeps == ASSUME SettingsInv, Settings!SaveAsProfile PROVE SettingsInv'
<1>1. DialogsSame /\ cache' = cache
  BY DEF Settings!SaveAsProfile, DialogsSame
<1>2. PICK id \in Ids : Settings!Save(id, Settings!Collected, form.password)
  BY DEF Settings!SaveAsProfile
<1>3. ProfilesFit
  BY DEF SettingsInv
<1>4. Settings!Collected \in Settings!ProfileRecords /\ Verified(Settings!Collected)
  BY <1>3, CollectedFits DEF ProfilesFit
<1>5. ProfilesFit'
  BY <1>1, <1>2, <1>3, <1>4, SaveFits
<1> QED BY <1>1, <1>5, StoreStepKeeps

LEMMA DeleteProfileKeeps == ASSUME SettingsInv, Settings!DeleteProfile PROVE SettingsInv'
<1>1. /\ DialogsSame /\ cache' = cache
      /\ \/ file' = Settings!Deleted(file, form.id) /\ form' \in Settings!Refreshed(file', file'.last)
         \/ UNCHANGED <<file, form>>
  BY DEF Settings!DeleteProfile, DialogsSame
<1>2. StoreFits(file) /\ FormFits(form) /\ CacheFits /\ form.id \in Ids
  BY DEF SettingsInv, ProfilesFit, FormFits, Forms
<1>3. CASE file' = Settings!Deleted(file, form.id) /\ form' \in Settings!Refreshed(file', file'.last)
  <2>1. StoreFits(file')
    BY <1>2, <1>3, DeletedFits
  <2>2. FormFits(form')
    BY <1>3, <2>1, RefreshedFits
  <2>3. ProfilesFit'
    BY <1>1, <1>2, <2>1, <2>2 DEF ProfilesFit, CacheFits
  <2> QED BY <1>1, <2>3, StoreStepKeeps
<1>4. CASE UNCHANGED <<file, form>>
  <2>1. ProfilesFit'
    BY <1>1, <1>2, <1>4 DEF ProfilesFit, CacheFits
  <2> QED BY <1>1, <2>1, StoreStepKeeps
<1> QED BY <1>1, <1>3, <1>4

LEMMA CacheLoadsKeeps == ASSUME SettingsInv, NEW id \in Ids, Settings!CacheLoads(id) PROVE SettingsInv'
<1> DEFINE p == file.profiles[id]
<1>1. DialogsSame /\ UNCHANGED <<file, form>> /\ id \in Settings!Profiles(file) /\ p.preset # Absent
  BY DEF Settings!CacheLoads, DialogsSame
<1>2. PICK kind \in Settings!Kinds :
        cache' = [id |-> id, profile |-> [p EXCEPT !.preset.dir = kind], reloaded |-> Absent]
  BY DEF Settings!CacheLoads
<1>3. StoreFits(file) /\ FormFits(form)
  BY DEF SettingsInv, ProfilesFit
<1>4. p \in Settings!ProfileRecords /\ Verified(p)
  BY <1>1, <1>3, StoreHas
<1> DEFINE g == [p EXCEPT !.preset.dir = kind]
           preset == [p.preset EXCEPT !.dir = kind]
<1>5. g = [p EXCEPT !.preset = [p.preset EXCEPT !.dir = kind]]
  BY <1>4 DEF Settings!ProfileRecords
<1>6. cache'.profile = g /\ cache'.id = id /\ cache'.reloaded = Absent
      /\ cache' = [id |-> id, profile |-> g, reloaded |-> Absent]
  BY <1>2
<1> HIDE DEF p, g
<1>7. p.preset \in Settings!PresetRecords
  BY <1>1, <1>4, ProfileShape
<1>8. preset \in Settings!PresetRecords /\ preset.fhi = p.preset.fhi /\ preset.launch = p.preset.launch
  BY <1>7 DEF Settings!PresetRecords
<1>9. g = [p EXCEPT !.preset = preset]
  BY <1>5
<1> HIDE DEF preset
<1>10. g = [name |-> p.name, keep |-> p.keep, preset |-> preset, ait |-> p.ait, hints |-> p.hints,
            orca |-> p.orca]
  BY <1>4, <1>9 DEF Settings!ProfileRecords
<1>11. g \in Settings!ProfileRecords
  BY <1>4, <1>8, <1>10, ProfileShape DEF Settings!ProfileRecords, Runtime
<1>12. Verified(g)
  BY <1>1, <1>4, <1>8, <1>10 DEF Verified
<1>13. CacheFits'
  BY <1>6, <1>11, <1>12 DEF CacheFits, Writes
<1>14. ProfilesFit'
  BY <1>1, <1>3, <1>13 DEF ProfilesFit
<1> QED BY <1>1, <1>14, StoreStepKeeps

LEMMA CacheReloadsKeeps == ASSUME SettingsInv, Settings!CacheReloads PROVE SettingsInv'
<1>1. /\ DialogsSame /\ UNCHANGED <<file, form>> /\ cache # Absent
      /\ cache' = IF Settings!NameIsFree(file, cache.id, cache.profile.name)
                  THEN [cache EXCEPT !.reloaded = file] ELSE Absent
  BY DEF Settings!CacheReloads, DialogsSame
<1>2. StoreFits(file) /\ FormFits(form) /\ cache \in Writes /\ Verified(cache.profile)
  BY <1>1 DEF SettingsInv, ProfilesFit, CacheFits
<1>3. CASE Settings!NameIsFree(file, cache.id, cache.profile.name)
  <2>1. cache' = [cache EXCEPT !.reloaded = file]
    BY <1>1, <1>3
  <2>2. cache' = [id |-> cache.id, profile |-> cache.profile, reloaded |-> file]
    BY <1>2, <2>1 DEF Writes
  <2>3. cache' \in Writes
    BY <1>2, <2>2 DEF Writes, StoreFits
  <2>4. CacheFits'
    BY <1>2, <1>3, <2>2, <2>3 DEF CacheFits
  <2>5. ProfilesFit'
    BY <1>1, <1>2, <2>4 DEF ProfilesFit
  <2> QED BY <1>1, <2>5, StoreStepKeeps
<1>4. CASE ~Settings!NameIsFree(file, cache.id, cache.profile.name)
  <2>1. CacheFits'
    BY <1>1, <1>4 DEF CacheFits
  <2>2. ProfilesFit'
    BY <1>1, <1>2, <2>1 DEF ProfilesFit
  <2> QED BY <1>1, <2>2, StoreStepKeeps
<1> QED BY <1>3, <1>4

LEMMA CacheWritesKeeps == ASSUME SettingsInv, Settings!CacheWrites PROVE SettingsInv'
<1>1. /\ DialogsSame /\ form' = form /\ cache # Absent /\ cache.reloaded # Absent /\ cache' = Absent
      /\ file' = Settings!Stored(cache.reloaded, cache.id, cache.profile) \/ UNCHANGED file
  BY DEF Settings!CacheWrites, DialogsSame
<1>2. /\ StoreFits(file) /\ FormFits(form) /\ cache \in Writes /\ Verified(cache.profile)
      /\ StoreFits(cache.reloaded)
      /\ Settings!NameIsFree(cache.reloaded, cache.id, cache.profile.name)
  BY <1>1 DEF SettingsInv, ProfilesFit, CacheFits
<1>3. cache.id \in Ids /\ cache.profile \in Settings!ProfileRecords
  BY <1>2 DEF Writes
<1>4. StoreFits(file')
  BY <1>1, <1>2, <1>3, StoredFits
<1>5. ProfilesFit'
  BY <1>1, <1>2, <1>4 DEF ProfilesFit, CacheFits
<1> QED BY <1>1, <1>5, StoreStepKeeps

----------------------------------------------------------------------------
(* Checks begin.                                                           *)

LEMMA ProfilesSame ==
    ASSUME ProfilesFit, UNCHANGED <<file, form, cache>>
    PROVE  ProfilesFit'
BY DEF ProfilesFit, CacheFits

LEMMA CheckNames ==
    /\ Settings!ClusterChecks \subseteq Settings!Checks
    /\ \A check \in {"test", "workspace", "scheduler", "runtime", "orca", "species"} : check \in Settings!Checks
    /\ Owner("test") = "profiles" /\ Owner("workspace") = "workspace" /\ Owner("species") = "species"
    /\ Owner("scheduler") = "cluster" /\ Owner("runtime") = "cluster" /\ Owner("orca") = "cluster"
    /\ \A check \in Settings!Checks : Owner(check) \in {"profiles", "workspace", "species", "cluster"}
BY DEF Settings!ClusterChecks, Settings!Checks, Owner

LEMMA IdleIsRegister ==
    ASSUME NEW password \in BOOLEAN
    PROVE  LET r == [Settings!Idle EXCEPT !.password = password] IN r \in Registers /\ r.password = password
BY DEF Settings!Idle, Registers

\* The registers and the workers after a check was started.
LEMMA StartKeeps ==
    ASSUME NEW e, Queues(checks, workers, e), NEW check \in Settings!Checks, Rests(check, workers, e),
           NEW r \in Registers, NEW data \in Tasked, check = "scheduler" => data \in Searches,
           Settings!Start(check, r, data)
    PROVE  /\ Queues(checks', workers', e) /\ checks'[check].busy
           /\ \A k \in Settings!Checks \ {check} : checks'[k] = checks[k]
<1>1. checks \in [Settings!Checks -> Registers]
  BY QueuesTypes
<1>2. /\ checks' = [checks EXCEPT ![check] = [r EXCEPT !.busy = TRUE]]
      /\ workers' = Append(workers, Settings!Job(check, r.password, data))
  BY DEF Settings!Start
<1>3. Queues(checks', workers', e)
  BY <1>2, StartedFits
<1>4. [r EXCEPT !.busy = TRUE].busy
  BY DEF Registers
<1> QED BY <1>1, <1>2, <1>3, <1>4

LEMMA BeginKeeps ==
    ASSUME Queues(checks, workers, events), NEW check \in Settings!Checks, ~checks[check].busy,
           NEW password \in BOOLEAN, NEW data \in Tasked, check = "scheduler" => data \in Searches,
           Settings!Begin(check, password, data), events' = events
    PROVE  /\ Queues(checks', workers', events') /\ checks'[check].busy
           /\ \A k \in Settings!Checks \ {check} : checks'[k] = checks[k]
<1> DEFINE r == [Settings!Idle EXCEPT !.password = password]
<1>1. Settings!Start(check, r, data)
  BY DEF Settings!Begin
<1>2. r \in Registers
  BY IdleIsRegister
<1>3. Rests(check, workers, events)
  BY IdleRests
<1> HIDE DEF r
<1> QED BY <1>1, <1>2, <1>3, StartKeeps

\* A check of a dialog that is there, or comes with it.
LEMMA StartedKeeps ==
    ASSUME SettingsInv, NEW check \in Settings!Checks, Queues(checks', workers', events'),
           \A k \in Settings!Checks \ {check} : checks'[k] = checks[k],
           StackFits(stack'), \A kind : Open(stack, kind) => Open(stack', kind),
           \A kind \in {"cluster", "manual"} : Open(stack', kind) => Open(stack, kind),
           Open(stack', Owner(check)), Open(stack', "unsaved") => check \notin Settings!ClusterChecks /\ Open(stack, "unsaved"),
           checks["runtime"].busy => checks'["runtime"].busy,
           ProfilesFit', UNCHANGED <<cluster, manual>>
    PROVE  SettingsInv'
<1>1. Owned(stack, checks) /\ CopiesFit(stack, cluster, manual, checks["runtime"].busy)
  BY DEF SettingsInv
<1>2. \A k \in Settings!Checks : checks'[k].busy => checks[k].busy \/ Open(stack', Owner(k))
  OBVIOUS
<1>3. \A k \in Settings!ClusterChecks : k # check => checks'[k] = checks[k]
  BY CheckNames
<1>4. Open(stack', "unsaved") => \A k \in Settings!ClusterChecks : ~checks'[k].busy
  BY <1>1, <1>3 DEF Owned
<1>5. Owned(stack', checks')
  BY <1>1, <1>2, <1>4, OwnedMayChange
<1>6. CopiesFit(stack', cluster', manual', checks'["runtime"].busy)
  BY <1>1, CopiesMayChange
<1> QED BY <1>5, <1>6 DEF SettingsInv

LEMMA TestConnectionKeeps == ASSUME SettingsInv, Settings!TestConnection PROVE SettingsInv'
<1>1. /\ Settings!Top = "profiles" /\ ~checks["test"].busy /\ Settings!Begin("test", form.password, Absent)
      /\ form' = [form EXCEPT !.deletable = FALSE]
      /\ UNCHANGED <<file, cluster, manual, events, stack, cache>>
  BY DEF Settings!TestConnection, Settings!InProfiles, Settings!NotTesting
<1>2. form \in Forms /\ Verified(form.carried) /\ Queues(checks, workers, events) /\ StackFits(stack)
  BY DEF SettingsInv, ProfilesFit, FormFits
<1>3. form' \in Forms /\ form'.carried = form.carried /\ form.password \in BOOLEAN
  BY <1>1, <1>2 DEF Forms
<1>4. ProfilesFit'
  BY <1>1, <1>2, <1>3 DEF SettingsInv, ProfilesFit, FormFits, CacheFits
<1>5. /\ Queues(checks', workers', events')
      /\ \A k \in Settings!Checks \ {"test"} : checks'[k] = checks[k]
  BY <1>1, <1>2, <1>3, BeginKeeps, CheckNames DEF Tasked
<1>6. Open(stack, "profiles") /\ ~Open(stack, "unsaved")
  BY <1>1, TopOpen, NothingUnsaved
<1>7. checks'["runtime"] = checks["runtime"]
  BY <1>5, CheckNames
<1> QED BY <1>1, <1>2, <1>4, <1>5, <1>6, <1>7, CheckNames, StartedKeeps

\* A dialog that comes with a check of its own.
LEMMA BrowserOpens ==
    ASSUME SettingsInv, NEW check \in {"workspace", "species"}, Settings!Top \in {"profiles", "manual"},
           stack' = Append(stack, Settings!Dialog(check))
    PROVE  /\ StackFits(stack') /\ ~Open(stack', "unsaved") /\ Open(stack', check)
           /\ \A kind : Open(stack, kind) => Open(stack', kind)
           /\ \A kind \in {"cluster", "manual"} : Open(stack', kind) => Open(stack, kind)
<1> DEFINE b == Settings!Dialog(check)
<1>1. b.kind = check /\ b \in Boxes
  BY DEF Settings!Dialog, Boxes, DialogKinds
<1>2. ~Open(stack, "unsaved") /\ StackFits(stack)
  BY NothingUnsaved DEF SettingsInv
<1> HIDE DEF b
<1>3. Opens(stack, b)
  BY <1>1, <1>2 DEF Opens
<1>4. stack' = Append(stack, b)
  BY DEF b
<1>5. StackFits(stack')
  BY <1>2, <1>3, <1>4, PushedFits
<1>6. \A kind : Open(stack', kind) <=> Open(stack, kind) \/ b.kind = kind
  BY <1>1, <1>2, <1>4, PushedOpen
<1> QED BY <1>1, <1>2, <1>5, <1>6

LEMMA BrowseWorkspaceKeeps == ASSUME SettingsInv, Settings!BrowseWorkspace PROVE SettingsInv'
<1>1. /\ Settings!Top = "profiles" /\ ~checks["workspace"].busy
      /\ Settings!Begin("workspace", form.password, Absent)
      /\ stack' = Append(stack, Settings!Dialog("workspace"))
      /\ UNCHANGED <<file, form, cluster, manual, events, cache>>
  BY DEF Settings!BrowseWorkspace, Settings!InProfiles
<1>2. form.password \in BOOLEAN /\ Queues(checks, workers, events) /\ ProfilesFit
  BY DEF SettingsInv, ProfilesFit, FormFits, Forms
<1>3. /\ Queues(checks', workers', events')
      /\ \A k \in Settings!Checks \ {"workspace"} : checks'[k] = checks[k]
  BY <1>1, <1>2, BeginKeeps, CheckNames DEF Tasked
<1>4. checks'["runtime"] = checks["runtime"]
  BY <1>3, CheckNames
<1>5. /\ StackFits(stack') /\ ~Open(stack', "unsaved") /\ Open(stack', "workspace")
      /\ \A kind : Open(stack, kind) => Open(stack', kind)
      /\ \A kind \in {"cluster", "manual"} : Open(stack', kind) => Open(stack, kind)
  BY <1>1, BrowserOpens
<1>6. ProfilesFit'
  BY <1>1, <1>2, ProfilesSame
<1> QED BY <1>1, <1>3, <1>4, <1>5, <1>6, CheckNames, StartedKeeps

LEMMA BrowseSpeciesKeeps == ASSUME SettingsInv, Settings!BrowseSpecies PROVE SettingsInv'
<1>1. /\ Settings!Top = "manual" /\ ~checks["species"].busy
      /\ Settings!Begin("species", FALSE, Absent)
      /\ stack' = Append(stack, Settings!Dialog("species"))
      /\ UNCHANGED <<file, form, cluster, manual, events, cache>>
  BY DEF Settings!BrowseSpecies
<1>2. Queues(checks, workers, events) /\ ProfilesFit
  BY DEF SettingsInv
<1>3. /\ Queues(checks', workers', events')
      /\ \A k \in Settings!Checks \ {"species"} : checks'[k] = checks[k]
  BY <1>1, <1>2, BeginKeeps, CheckNames DEF Tasked
<1>4. checks'["runtime"] = checks["runtime"]
  BY <1>3, CheckNames
<1>5. /\ StackFits(stack') /\ ~Open(stack', "unsaved") /\ Open(stack', "species")
      /\ \A kind : Open(stack, kind) => Open(stack', kind)
      /\ \A kind \in {"cluster", "manual"} : Open(stack', kind) => Open(stack, kind)
  BY <1>1, BrowserOpens
<1>6. ProfilesFit'
  BY <1>1, <1>2, ProfilesSame
<1> QED BY <1>1, <1>3, <1>4, <1>5, <1>6, CheckNames, StartedKeeps

\* The browser asks for another folder.
LEMMA RequestKeeps ==
    ASSUME SettingsInv, NEW check \in {"workspace", "species"}, Settings!Top = check, ~checks[check].busy,
           Settings!Start(check, [checks[check] EXCEPT !.pending = FALSE], Absent),
           UNCHANGED <<file, form, cluster, manual, events, stack, cache>>
    PROVE  SettingsInv'
<1> DEFINE r == [checks[check] EXCEPT !.pending = FALSE]
<1>1. Queues(checks, workers, events) /\ ProfilesFit /\ StackFits(stack)
  BY DEF SettingsInv
<1>2. check \in Settings!Checks /\ checks[check] \in Registers
  BY <1>1, QueuesTypes, CheckNames
<1>3. r \in Registers
  BY <1>2 DEF Registers
<1>4. Rests(check, workers, events)
  BY <1>1, IdleRests
<1>5. Settings!Start(check, r, Absent)
  OBVIOUS
<1> HIDE DEF r
<1>6. Queues(checks', workers', events) /\ \A k \in Settings!Checks \ {check} : checks'[k] = checks[k]
  BY <1>1, <1>2, <1>3, <1>4, <1>5, StartKeeps DEF Tasked
<1>7. Open(stack, check) /\ ~Open(stack, "unsaved")
  BY TopOpen, NothingUnsaved
<1>8. checks'["runtime"] = checks["runtime"] /\ Owner(check) = check
  BY <1>6, CheckNames
<1>9. ProfilesFit'
  BY <1>1, ProfilesSame
<1> QED BY <1>1, <1>2, <1>6, <1>7, <1>8, <1>9, StartedKeeps

LEMMA RequestWorkspaceKeeps == ASSUME SettingsInv, Settings!RequestWorkspace PROVE SettingsInv'
BY RequestKeeps DEF Settings!RequestWorkspace

LEMMA RequestSpeciesKeeps == ASSUME SettingsInv, Settings!RequestSpecies PROVE SettingsInv'
BY RequestKeeps DEF Settings!RequestSpecies

\* The checks of Cluster Execution Settings.
LEMMA ClusterCheckKeeps ==
    ASSUME SettingsInv, NEW check \in {"scheduler", "runtime", "orca"}, ~checks[check].busy,
           Settings!Top \in {"cluster", "manual"}, NEW data \in Tasked, check = "scheduler" => data \in Searches,
           Settings!Begin(check, FALSE, data), UNCHANGED <<file, form, cluster, manual, events, stack, cache>>
    PROVE  SettingsInv'
<1>1. Queues(checks, workers, events) /\ ProfilesFit /\ StackFits(stack)
  BY DEF SettingsInv
<1>2. check \in Settings!Checks /\ Owner(check) = "cluster"
  BY CheckNames
<1>3. /\ Queues(checks', workers', events') /\ checks'[check].busy
      /\ \A k \in Settings!Checks \ {check} : checks'[k] = checks[k]
  BY <1>1, <1>2, BeginKeeps
<1>4. Open(stack, "cluster")
  <2>1. Open(stack, Settings!Top)
    BY TopOpen
  <2>2. CASE Settings!Top = "manual"
    <3>1. Open(stack, "manual")
      BY <2>1, <2>2
    <3> QED BY <1>1, <3>1 DEF StackFits, Open
  <2>3. CASE Settings!Top = "cluster"
    BY <2>1, <2>3
  <2> QED BY <2>2, <2>3
<1>5. ~Open(stack, "unsaved")
  BY NothingUnsaved
<1>6. checks["runtime"].busy => checks'["runtime"].busy
  BY <1>3, CheckNames
<1>7. ProfilesFit'
  BY <1>1, ProfilesSame
<1> QED BY <1>1, <1>2, <1>3, <1>4, <1>5, <1>6, <1>7, StartedKeeps

LEMMA ClusterIsThere ==
    ASSUME SettingsInv, Settings!Top = "cluster"
    PROVE  /\ ClusterFits(cluster, checks["runtime"].busy) /\ cluster \in Clusters
           /\ Open(stack, "cluster") /\ ~Open(stack, "unsaved") /\ ~Open(stack, "manual")
<1>1. Open(stack, "cluster") /\ ~Open(stack, "unsaved")
  BY TopOpen, NothingUnsaved
<1>2. ClusterFits(cluster, checks["runtime"].busy)
  BY <1>1 DEF SettingsInv, CopiesFit
<1>3. stack # <<>> /\ stack[Len(stack)].kind = "cluster" /\ StackFits(stack)
  BY TopIs DEF SettingsInv
<1>4. ~Open(stack, "manual")
  BY <1>3, PoppedFits
<1> QED BY <1>1, <1>2, <1>4 DEF ClusterFits

LEMMA SearchOf ==
    ASSUME NEW c \in Clusters
    PROVE  [mode |-> c.mode, dir |-> c.typed, kind |-> Settings!Kind(c)] \in Searches
<1>1. Settings!Kind(c) \in Settings!Kinds
  BY ClusterShape DEF Settings!Kind, Scheduler
<1> QED BY <1>1, ClusterShape DEF Searches

LEMMA CheckSchedulerKeeps == ASSUME SettingsInv, Settings!CheckScheduler PROVE SettingsInv'
<1> DEFINE data == [mode |-> cluster.mode, dir |-> cluster.typed, kind |-> Settings!Kind(cluster)]
<1>1. /\ Settings!Top = "cluster" /\ ~checks["scheduler"].busy /\ Settings!Begin("scheduler", FALSE, data)
      /\ UNCHANGED <<file, form, cluster, manual, events, stack, cache>>
  BY DEF Settings!CheckScheduler, Settings!InCluster
<1>2. data \in Searches
  BY <1>1, ClusterIsThere, SearchOf
<1> HIDE DEF data
<1> QED BY <1>1, <1>2, ClusterCheckKeeps DEF Tasked

LEMMA BeginOrcaKeeps ==
    ASSUME SettingsInv, NEW location \in {Absent} \cup Settings!Locations, Settings!BeginOrca(location)
    PROVE  SettingsInv'
<1>1. /\ Settings!Top = "cluster" /\ ~checks["orca"].busy /\ Settings!Begin("orca", FALSE, location)
      /\ UNCHANGED <<file, form, cluster, manual, events, stack, cache>>
  BY DEF Settings!BeginOrca, Settings!InCluster
<1> QED BY <1>1, ClusterCheckKeeps DEF Tasked

LEMMA DiscoverOrcaKeeps == ASSUME SettingsInv, Settings!DiscoverOrca PROVE SettingsInv'
BY BeginOrcaKeeps DEF Settings!DiscoverOrca

LEMMA ValidateOrcaKeeps == ASSUME SettingsInv, Settings!ValidateOrca PROVE SettingsInv'
<1>1. Settings!Top = "cluster" /\ Settings!BeginOrca(Settings!OrcaLocation(cluster))
  BY DEF Settings!ValidateOrca, Settings!InCluster
<1>2. Settings!OrcaLocation(cluster) \in Settings!Locations
  BY <1>1, ClusterIsThere, OrcaLocationType
<1> QED BY <1>1, <1>2, BeginOrcaKeeps

LEMMA BeginRuntimeKeeps == ASSUME SettingsInv, Settings!BeginRuntime PROVE SettingsInv'
<1>1. /\ Settings!Top \in {"cluster", "manual"} /\ ~checks["runtime"].busy
      /\ Settings!Begin("runtime", FALSE, Absent)
      /\ UNCHANGED <<file, form, cluster, manual, events, stack, cache>>
  BY DEF Settings!BeginRuntime
<1> QED BY <1>1, ClusterCheckKeeps DEF Tasked

----------------------------------------------------------------------------
(* Dialogs are opened and closed, and what is in them is edited.            *)

LEMMA TopCloses ==
    ASSUME SettingsInv, Settings!Top # "closed", stack' = Settings!Front(stack)
    PROVE  /\ StackFits(stack') /\ \A kind : Open(stack', kind) => Open(stack, kind)
           /\ \A kind : kind # Settings!Top /\ Open(stack, kind) => Open(stack', kind)
           /\ Settings!Top \in {"cluster", "manual", "unsaved"} => ~Open(stack', Settings!Top)
           /\ Settings!Top = "cluster" => ~Open(stack, "manual") /\ ~Open(stack, "unsaved")
<1>1. stack # <<>> /\ stack[Len(stack)].kind = Settings!Top /\ StackFits(stack)
  BY TopIs DEF SettingsInv
<1>2. stack' = SubSeq(stack, 1, Len(stack) - 1)
  BY FrontIs
<1> QED BY <1>1, <1>2, PoppedFits

\* A dialog is closed once its own checks rest.
LEMMA ClosedKeeps ==
    ASSUME SettingsInv, Settings!Top # "closed", stack' = Settings!Front(stack),
           \A check \in Settings!Checks : Owner(check) = Settings!Top => ~checks[check].busy,
           UNCHANGED <<workers, events>>, checks' \in [Settings!Checks -> Registers],
           \A check \in Settings!Checks : checks'[check].busy = checks[check].busy,
           ProfilesFit', CopiesFit(stack', cluster', manual', checks["runtime"].busy)
    PROVE  SettingsInv'
<1>1. /\ StackFits(stack') /\ \A kind : Open(stack', kind) => Open(stack, kind)
      /\ \A kind : kind # Settings!Top /\ Open(stack, kind) => Open(stack', kind)
  BY TopCloses
<1>2. Owned(stack, checks) /\ Queues(checks, workers, events)
  BY DEF SettingsInv
<1>3. \A check \in Settings!ClusterChecks : checks'[check].busy = checks[check].busy
  BY CheckNames
<1>4. Owned(stack', checks')
  BY <1>1, <1>2, <1>3 DEF Owned
<1>5. /\ \A i \in DOMAIN workers : workers[i].check \in Settings!Checks
      /\ \A i \in DOMAIN events : events[i].check \in Settings!Checks
  BY <1>2, QueuesTypes DEF Workers, Tidings
<1>6. /\ \A i \in DOMAIN workers : checks'[workers[i].check].busy
      /\ \A i \in DOMAIN events : checks'[events[i].check].busy
  BY <1>2, <1>5 DEF Queues, OneWorker
<1>7. Queues(checks', workers', events')
  BY <1>2, <1>6, RegistersMayChange
<1>8. checks'["runtime"].busy = checks["runtime"].busy
  BY CheckNames
<1> QED BY <1>1, <1>4, <1>7, <1>8 DEF SettingsInv

LEMMA CloseProfilesKeeps == ASSUME SettingsInv, Settings!CloseProfiles PROVE SettingsInv'
<1>1. /\ Settings!Top = "profiles" /\ ~checks["test"].busy /\ stack' = Settings!Front(stack)
      /\ UNCHANGED <<file, form, cluster, manual, checks, workers, events, cache>>
  BY DEF Settings!CloseProfiles, Settings!InProfiles
<1>2. \A check \in Settings!Checks : Owner(check) = "profiles" => check = "test"
  BY DEF Owner
<1>3. ProfilesFit /\ CopiesFit(stack, cluster, manual, checks["runtime"].busy)
      /\ checks \in [Settings!Checks -> Registers]
  BY QueuesTypes DEF SettingsInv
<1>4. \A kind : Open(stack', kind) => Open(stack, kind)
  BY <1>1, TopCloses
<1>5. ProfilesFit' /\ CopiesFit(stack', cluster', manual', checks["runtime"].busy)
  BY <1>1, <1>3, <1>4, ProfilesSame, CopiesMayChange
<1> QED BY <1>1, <1>2, <1>3, <1>5, ClosedKeeps

\* The register of a browser is cleared when it is closed.
LEMMA ClearedRegister ==
    ASSUME NEW c \in [Settings!Checks -> Registers], NEW check \in Settings!Checks
    PROVE  LET d == [c EXCEPT ![check].pending = FALSE, ![check].password = FALSE] IN
           d \in [Settings!Checks -> Registers] /\ \A k \in Settings!Checks : d[k].busy = c[k].busy
<1> DEFINE r == [c[check] EXCEPT !.pending = FALSE, !.password = FALSE]
           d == [c EXCEPT ![check].pending = FALSE, ![check].password = FALSE]
<1>1. d = [c EXCEPT ![check] = r]
  OBVIOUS
<1>2. r \in Registers /\ r.busy = c[check].busy
  BY DEF Registers
<1> HIDE DEF r, d
<1>3. d \in [Settings!Checks -> Registers] /\ d[check] = r /\ \A k \in Settings!Checks \ {check} : d[k] = c[k]
  BY <1>1, <1>2
<1>4. d \in [Settings!Checks -> Registers] /\ \A k \in Settings!Checks : d[k].busy = c[k].busy
  BY <1>2, <1>3
<1> QED BY <1>4 DEF d

LEMMA CloseWorkspaceKeeps == ASSUME SettingsInv, Settings!CloseWorkspace PROVE SettingsInv'
<1>1. /\ Settings!Top = "workspace" /\ ~checks["workspace"].busy /\ stack' = Settings!Front(stack)
      /\ checks' = [checks EXCEPT !["workspace"].pending = FALSE, !["workspace"].password = FALSE]
      /\ UNCHANGED <<file, form, cluster, manual, workers, events, cache>>
  BY DEF Settings!CloseWorkspace
<1>2. \A check \in Settings!Checks : Owner(check) = "workspace" => check = "workspace"
  BY DEF Owner
<1>3. ProfilesFit /\ CopiesFit(stack, cluster, manual, checks["runtime"].busy)
      /\ checks \in [Settings!Checks -> Registers]
  BY QueuesTypes DEF SettingsInv
<1>4. \A kind : Open(stack', kind) => Open(stack, kind)
  BY <1>1, TopCloses
<1>5. ProfilesFit' /\ CopiesFit(stack', cluster', manual', checks["runtime"].busy)
  BY <1>1, <1>3, <1>4, ProfilesSame, CopiesMayChange
<1>6. /\ checks' \in [Settings!Checks -> Registers]
      /\ \A check \in Settings!Checks : checks'[check].busy = checks[check].busy
  <2>1. \A check \in {"workspace", "species"} : check \in Settings!Checks
    BY CheckNames
  <2> QED BY <1>1, <1>3, <2>1, ClearedRegister
<1> QED BY <1>1, <1>2, <1>5, <1>6, ClosedKeeps

LEMMA CloseSpeciesKeeps == ASSUME SettingsInv, Settings!CloseSpecies PROVE SettingsInv'
<1>1. /\ Settings!Top = "species" /\ ~checks["species"].busy /\ stack' = Settings!Front(stack)
      /\ checks' = [checks EXCEPT !["species"].pending = FALSE, !["species"].password = FALSE]
      /\ manual' = [manual EXCEPT !.species = TRUE] \/ manual' = manual
      /\ UNCHANGED <<file, form, cluster, workers, events, cache>>
  BY DEF Settings!CloseSpecies
<1>2. \A check \in Settings!Checks : Owner(check) = "species" => check = "species"
  BY DEF Owner
<1>3. ProfilesFit /\ CopiesFit(stack, cluster, manual, checks["runtime"].busy)
      /\ checks \in [Settings!Checks -> Registers]
  BY QueuesTypes DEF SettingsInv
<1>4. \A kind : Open(stack', kind) => Open(stack, kind)
  BY <1>1, TopCloses
<1>5. ManualFits(manual, cluster) => ManualFits(manual', cluster)
  <2>1. CASE manual' = [manual EXCEPT !.species = TRUE]
    BY <2>1 DEF ManualFits, Settings!HintRecords
  <2> QED BY <1>1, <2>1
<1>6. CopiesFit(stack', cluster', manual', checks["runtime"].busy)
  BY <1>1, <1>3, <1>4, <1>5 DEF CopiesFit
<1>7. ProfilesFit'
  BY <1>1, <1>3, ProfilesSame
<1>8. /\ checks' \in [Settings!Checks -> Registers]
      /\ \A check \in Settings!Checks : checks'[check].busy = checks[check].busy
  <2>1. \A check \in {"workspace", "species"} : check \in Settings!Checks
    BY CheckNames
  <2> QED BY <1>1, <1>3, <2>1, ClearedRegister
<1> QED BY <1>1, <1>2, <1>6, <1>7, <1>8, ClosedKeeps

\* A dialog is opened that brings no check.
LEMMA OpenedKeeps ==
    ASSUME SettingsInv, NEW b, Opens(stack, b), stack' = Append(stack, b),
           b.kind = "unsaved" => \A check \in Settings!ClusterChecks : ~checks[check].busy,
           UNCHANGED <<file, form, cache, checks, workers, events>>,
           CopiesFit(stack', cluster', manual', checks["runtime"].busy)
    PROVE  SettingsInv'
<1>1. /\ ProfilesFit /\ StackFits(stack) /\ Owned(stack, checks) /\ Queues(checks, workers, events)
      /\ b \in Boxes
  BY DEF SettingsInv, Opens
<1>2. StackFits(stack')
  BY <1>1, PushedFits
<1>3. \A kind : Open(stack', kind) <=> Open(stack, kind) \/ b.kind = kind
  BY <1>1, PushedOpen
<1>4. Owned(stack', checks)
  BY <1>1, <1>3 DEF Owned
<1>5. ProfilesFit'
  BY <1>1, ProfilesSame
<1> QED BY <1>1, <1>2, <1>4, <1>5 DEF SettingsInv

LEMMA DialogIs ==
    ASSUME NEW kind \in DialogKinds
    PROVE  Settings!Dialog(kind) \in Boxes /\ Settings!Dialog(kind).kind = kind
BY DEF Settings!Dialog, Boxes

\* Which dialogs are open after one more.
LEMMA OneMore ==
    ASSUME SettingsInv, NEW name \in DialogKinds, NEW kind
    PROVE  Open(Append(stack, Settings!Dialog(name)), kind) <=> Open(stack, kind) \/ name = kind
<1> DEFINE b == Settings!Dialog(name)
<1>1. b \in Boxes /\ b.kind = name
  BY DialogIs
<1>2. StackFits(stack)
  BY DEF SettingsInv
<1> HIDE DEF b
<1>3. Open(Append(stack, b), kind) <=> Open(stack, kind) \/ b.kind = kind
  BY <1>1, <1>2, PushedOpen
<1> QED BY <1>1, <1>3 DEF b

LEMMA OpenClusterKeeps == ASSUME SettingsInv, Settings!OpenCluster PROVE SettingsInv'
<1> DEFINE b == Settings!Dialog("cluster")
<1>1. /\ Settings!Top = "profiles" /\ form.id \in Settings!Profiles(file)
      /\ cluster' = Settings!Working(form.id, file.profiles[form.id])
      /\ stack' = Append(stack, b)
      /\ UNCHANGED <<file, form, manual, checks, workers, events, cache>>
  BY DEF Settings!OpenCluster, Settings!InProfiles, Settings!Become
<1>2. StoreFits(file) /\ StackFits(stack)
  BY DEF SettingsInv, ProfilesFit
<1>3. \A x : ClusterFits(cluster', x)
  BY <1>1, <1>2, StoreHas, WorkingFits
<1>4. ~Open(stack, "cluster") /\ ~Open(stack, "manual") /\ ~Open(stack, "unsaved")
  <2>1. stack # <<>> /\ stack[Len(stack)].kind = "profiles" /\ stack \in Seq(Boxes)
    BY <1>1, <1>2, TopIs DEF StackFits
  <2>2. Len(stack) \in DOMAIN stack /\ DOMAIN stack = 1..Len(stack)
    BY <2>1, FrontOf
  <2>3. Len(stack) = 1
    BY <1>2, <2>1, <2>2 DEF StackFits
  <2>4. \A i \in DOMAIN stack : stack[i].kind = "profiles"
    BY <2>1, <2>2, <2>3
  <2> QED BY <2>4 DEF Open
<1>5. b \in Boxes /\ b.kind = "cluster"
  BY DialogIs DEF DialogKinds
<1>6. \A kind : Open(stack', kind) <=> Open(stack, kind) \/ "cluster" = kind
  BY <1>1, OneMore DEF DialogKinds
<1> HIDE DEF b
<1>7. Opens(stack, b)
  BY <1>4, <1>5 DEF Opens
<1>8. CopiesFit(stack', cluster', manual', checks["runtime"].busy)
  BY <1>3, <1>4, <1>6 DEF CopiesFit
<1> QED BY <1>1, <1>5, <1>7, <1>8, OpenedKeeps

LEMMA OpenManualKeeps == ASSUME SettingsInv, Settings!OpenManual PROVE SettingsInv'
<1> DEFINE b == Settings!Dialog("manual")
<1>1. /\ Settings!Top = "cluster" /\ manual' = Settings!Manual(cluster) /\ stack' = Append(stack, b)
      /\ UNCHANGED <<file, form, cluster, checks, workers, events, cache>>
  BY DEF Settings!OpenManual, Settings!InCluster
<1>2. /\ ClusterFits(cluster, checks["runtime"].busy) /\ Open(stack, "cluster") /\ ~Open(stack, "manual")
      /\ ~Open(stack, "unsaved")
  BY <1>1, ClusterIsThere
<1>3. ManualFits(manual', cluster)
  BY <1>1, <1>2, ManualStartsFit
<1>4. b \in Boxes /\ b.kind = "manual"
  BY DialogIs DEF DialogKinds
<1> HIDE DEF b
<1>5. Opens(stack, b)
  BY <1>2, <1>4 DEF Opens
<1>6. CopiesFit(stack', cluster', manual', checks["runtime"].busy)
  BY <1>1, <1>2, <1>3 DEF CopiesFit
<1> QED BY <1>1, <1>4, <1>5, <1>6, OpenedKeeps

\* An edit of the working copy.
LEMMA CopyEditKeeps ==
    ASSUME SettingsInv, NEW c, Settings!EditCluster(c), ClusterFits(c, checks["runtime"].busy)
    PROVE  SettingsInv'
<1>1. /\ Settings!Top = "cluster" /\ cluster' = c
      /\ UNCHANGED <<file, form, manual, checks, workers, events, stack, cache>>
  BY DEF Settings!EditCluster, Settings!InCluster, Settings!Become
<1>2. ~Open(stack, "manual")
  BY <1>1, ClusterIsThere
<1>3. CopiesFit(stack', cluster', manual', checks'["runtime"].busy)
  BY <1>1, <1>2 DEF CopiesFit
<1>4. ProfilesFit'
  BY <1>1, ProfilesSame DEF SettingsInv
<1> QED BY <1>1, <1>3, <1>4 DEF SettingsInv

\* An edit of what is neither ORCA nor a runtime.
LEMMA OtherFieldsFit ==
    ASSUME NEW c, NEW b, ClusterFits(c, b), NEW mode \in {"automatic", "manual"},
           NEW selector \in Settings!Kinds, NEW auto \in Scheduler, NEW typed \in Scheduler,
           NEW lsf \in BOOLEAN, NEW verified \in Scheduler
    PROVE  LET d == [id |-> c.id, loaded |-> c.loaded, mode |-> mode, selector |-> selector,
                     auto |-> auto, typed |-> typed, lsf |-> lsf, verified |-> verified,
                     fhi |-> c.fhi, launch |-> c.launch, ait |-> c.ait, species |-> c.species,
                     hints |-> c.hints, orca |-> c.orca, fields |-> c.fields] IN
           ClusterFits(d, b) /\ SameOrca(c, d)
<1> DEFINE d == [id |-> c.id, loaded |-> c.loaded, mode |-> mode, selector |-> selector,
                 auto |-> auto, typed |-> typed, lsf |-> lsf, verified |-> verified,
                 fhi |-> c.fhi, launch |-> c.launch, ait |-> c.ait, species |-> c.species,
                 hints |-> c.hints, orca |-> c.orca, fields |-> c.fields]
<1>1. c \in Clusters
  BY DEF ClusterFits
<1>2. d \in Clusters
  BY <1>1, ClusterShape DEF Clusters
<1>3. SameOrca(c, d) /\ d.fhi = c.fhi /\ d.launch = c.launch
  BY DEF SameOrca
<1> HIDE DEF d
<1>4. ClusterFits(d, b) /\ SameOrca(c, d)
  BY <1>2, <1>3, SameOrcaFits
<1> QED BY <1>4 DEF d

\* A switch of the scheduler in the copy, with the runtime as configured.
LEMMA SwitchedFits ==
    ASSUME NEW c, NEW b, ClusterFits(c, b), NEW d, d \in Clusters, SameOrca(c, d)
    PROVE  ClusterFits(Settings!Synced(d), b) /\ \A m : ManualFits(m, c) => ManualFits(m, Settings!Synced(d))
<1>1. ClusterFits(d, TRUE) /\ \A m : ManualFits(m, c) => ManualFits(m, d)
  BY SameOrcaFits
<1> QED BY <1>1, SyncedFits

LEMMA ToggleModeKeeps == ASSUME SettingsInv, Settings!ToggleMode PROVE SettingsInv'
<1> DEFINE mode == IF cluster.mode = "manual" THEN "automatic" ELSE "manual"
           d == [cluster EXCEPT !.mode = IF @ = "manual" THEN "automatic" ELSE "manual", !.verified = Absent]
<1>1. Settings!Top = "cluster" /\ Settings!EditCluster(Settings!Synced(d))
  BY DEF Settings!ToggleMode, Settings!InCluster
<1>2. ClusterFits(cluster, checks["runtime"].busy) /\ cluster \in Clusters
  BY <1>1, ClusterIsThere
<1>3. d = [cluster EXCEPT !.mode = mode, !.verified = Absent]
  BY <1>2 DEF Clusters
<1> HIDE DEF d
<1>4. d = [id |-> cluster.id, loaded |-> cluster.loaded, mode |-> mode, selector |-> cluster.selector,
           auto |-> cluster.auto, typed |-> cluster.typed, lsf |-> cluster.lsf, verified |-> Absent,
           fhi |-> cluster.fhi, launch |-> cluster.launch, ait |-> cluster.ait, species |-> cluster.species,
           hints |-> cluster.hints, orca |-> cluster.orca, fields |-> cluster.fields]
  BY <1>2, <1>3 DEF Clusters
<1>5. mode \in {"automatic", "manual"} /\ Absent \in Scheduler
  BY DEF Scheduler
<1> HIDE DEF mode
<1>6. d \in Clusters
  BY <1>2, <1>4, <1>5, ClusterShape DEF Clusters
<1>7. SameOrca(cluster, d)
  BY <1>4 DEF SameOrca
<1>8. ClusterFits(Settings!Synced(d), checks["runtime"].busy)
  BY <1>2, <1>6, <1>7, SwitchedFits
<1> QED BY <1>1, <1>8, CopyEditKeeps

LEMMA ChooseKindKeeps ==
    ASSUME SettingsInv, NEW kind \in Settings!Kinds, Settings!ChooseKind(kind)
    PROVE  SettingsInv'
<1> DEFINE d == [cluster EXCEPT !.selector = kind, !.verified = Absent, !.typed = Absent]
<1>1. Settings!Top = "cluster" /\ Settings!EditCluster(Settings!Synced(d))
  BY DEF Settings!ChooseKind, Settings!InCluster
<1>2. ClusterFits(cluster, checks["runtime"].busy) /\ cluster \in Clusters
  BY <1>1, ClusterIsThere
<1>3. d = [cluster EXCEPT !.selector = kind, !.verified = Absent, !.typed = Absent]
  OBVIOUS
<1> HIDE DEF d
<1>4. d = [id |-> cluster.id, loaded |-> cluster.loaded, mode |-> cluster.mode, selector |-> kind,
           auto |-> cluster.auto, typed |-> Absent, lsf |-> cluster.lsf, verified |-> Absent,
           fhi |-> cluster.fhi, launch |-> cluster.launch, ait |-> cluster.ait, species |-> cluster.species,
           hints |-> cluster.hints, orca |-> cluster.orca, fields |-> cluster.fields]
  BY <1>2, <1>3 DEF Clusters
<1>5. Absent \in Scheduler
  BY DEF Scheduler
<1>6. d \in Clusters
  BY <1>2, <1>4, <1>5, ClusterShape DEF Clusters
<1>7. SameOrca(cluster, d)
  BY <1>4 DEF SameOrca
<1>8. ClusterFits(Settings!Synced(d), checks["runtime"].busy)
  BY <1>2, <1>6, <1>7, SwitchedFits
<1> QED BY <1>1, <1>8, CopyEditKeeps

LEMMA EditDirectoryKeeps ==
    ASSUME SettingsInv, NEW kind \in Settings!Kinds, Settings!EditDirectory(kind)
    PROVE  SettingsInv'
<1> DEFINE d == [cluster EXCEPT !.typed = kind, !.verified = Absent]
<1>1. Settings!Top = "cluster" /\ Settings!EditCluster(d)
  BY DEF Settings!EditDirectory, Settings!InCluster
<1>2. ClusterFits(cluster, checks["runtime"].busy) /\ cluster \in Clusters
  BY <1>1, ClusterIsThere
<1>3. d = [cluster EXCEPT !.typed = kind, !.verified = Absent]
  OBVIOUS
<1> HIDE DEF d
<1>4. d = [id |-> cluster.id, loaded |-> cluster.loaded, mode |-> cluster.mode, selector |-> cluster.selector,
           auto |-> cluster.auto, typed |-> kind, lsf |-> cluster.lsf, verified |-> Absent,
           fhi |-> cluster.fhi, launch |-> cluster.launch, ait |-> cluster.ait, species |-> cluster.species,
           hints |-> cluster.hints, orca |-> cluster.orca, fields |-> cluster.fields]
  BY <1>2, <1>3 DEF Clusters
<1>5. Absent \in Scheduler /\ kind \in Scheduler
  BY DEF Scheduler
<1>6. ClusterFits(d, checks["runtime"].busy)
  BY <1>2, <1>4, <1>5, ClusterShape, OtherFieldsFit
<1> QED BY <1>1, <1>6, CopyEditKeeps

LEMMA EditLsfDirectoriesKeeps == ASSUME SettingsInv, Settings!EditLsfDirectories PROVE SettingsInv'
<1> DEFINE d == [cluster EXCEPT !.lsf = ~@, !.verified = Absent]
<1>1. Settings!Top = "cluster" /\ Settings!EditCluster(d)
  BY DEF Settings!EditLsfDirectories, Settings!InCluster
<1>2. ClusterFits(cluster, checks["runtime"].busy) /\ cluster \in Clusters
  BY <1>1, ClusterIsThere
<1>3. d = [cluster EXCEPT !.lsf = ~cluster.lsf, !.verified = Absent]
  BY <1>2 DEF Clusters
<1> HIDE DEF d
<1>4. d = [id |-> cluster.id, loaded |-> cluster.loaded, mode |-> cluster.mode, selector |-> cluster.selector,
           auto |-> cluster.auto, typed |-> cluster.typed, lsf |-> ~cluster.lsf, verified |-> Absent,
           fhi |-> cluster.fhi, launch |-> cluster.launch, ait |-> cluster.ait, species |-> cluster.species,
           hints |-> cluster.hints, orca |-> cluster.orca, fields |-> cluster.fields]
  BY <1>2, <1>3 DEF Clusters
<1>5. Absent \in Scheduler /\ (~cluster.lsf) \in BOOLEAN
  BY DEF Scheduler
<1>6. ClusterFits(d, checks["runtime"].busy)
  BY <1>2, <1>4, <1>5, ClusterShape, OtherFieldsFit
<1> QED BY <1>1, <1>6, CopyEditKeeps

LEMMA EditOrcaKeeps ==
    ASSUME SettingsInv, NEW location \in Entered, Settings!EditOrca(location)
    PROVE  SettingsInv'
<1>1. /\ Settings!Top = "cluster"
      /\ Settings!EditCluster(Settings!FieldsChanged([cluster EXCEPT !.fields = location]))
  BY DEF Settings!EditOrca, Settings!InCluster
<1>2. location \in Settings!Locations
  BY SettingsConstants
<1>3. ClusterFits(Settings!FieldsChanged([cluster EXCEPT !.fields = location]), checks["runtime"].busy)
  BY <1>1, <1>2, ClusterIsThere, FieldsChangedFits
<1> QED BY <1>1, <1>3, CopyEditKeeps

LEMMA EditLaunchKeeps ==
    ASSUME SettingsInv, NEW runtime \in Runtimes, Settings!EditLaunch(runtime)
    PROVE  SettingsInv'
<1> DEFINE d == [cluster EXCEPT !.launch = runtime]
<1>1. Settings!Top = "cluster" /\ cluster.fhi = Absent /\ Settings!EditCluster(d)
  BY DEF Settings!EditLaunch, Settings!InCluster
<1>2. ClusterFits(cluster, checks["runtime"].busy) /\ cluster \in Clusters
  BY <1>1, ClusterIsThere
<1>3. d = [cluster EXCEPT !.launch = runtime]
  OBVIOUS
<1> HIDE DEF d
<1>4. d = [id |-> cluster.id, loaded |-> cluster.loaded, mode |-> cluster.mode, selector |-> cluster.selector,
           auto |-> cluster.auto, typed |-> cluster.typed, lsf |-> cluster.lsf, verified |-> cluster.verified,
           fhi |-> cluster.fhi, launch |-> runtime, ait |-> cluster.ait, species |-> cluster.species,
           hints |-> cluster.hints, orca |-> cluster.orca, fields |-> cluster.fields]
  BY <1>2, <1>3 DEF Clusters
<1>5. runtime \in Runtime
  BY DEF Runtime
<1>6. d \in Clusters
  BY <1>2, <1>4, <1>5, ClusterShape DEF Clusters
<1>7. SameOrca(cluster, d) /\ d.fhi = Absent
  BY <1>1, <1>4 DEF SameOrca
<1>8. ClusterFits(d, TRUE)
  BY <1>2, <1>6, <1>7, SameOrcaFits
<1>9. ClusterFits(d, checks["runtime"].busy)
  BY <1>7, <1>8 DEF ClusterFits
<1> QED BY <1>1, <1>9, CopyEditKeeps

\* The cluster dialog is below what belongs to it.
LEMMA ClusterIsBelow ==
    ASSUME SettingsInv, Settings!Top \in {"manual", "candidates", "unsaved"}
    PROVE  /\ Open(stack, "cluster") /\ Open(stack, Settings!Top) /\ cluster \in Clusters
           /\ ClusterFits(cluster, checks["runtime"].busy)
<1>1. Open(stack, Settings!Top)
  BY TopOpen
<1>2. Open(stack, "cluster")
  <2>1. PICK i \in DOMAIN stack : stack[i].kind \in {"manual", "candidates", "unsaved"}
    BY <1>1 DEF Open
  <2> QED BY <2>1 DEF Open, SettingsInv, StackFits
<1>3. ClusterFits(cluster, checks["runtime"].busy)
  BY <1>2 DEF SettingsInv, CopiesFit
<1> QED BY <1>1, <1>2, <1>3 DEF ClusterFits

LEMMA SelectOrcaCandidateKeeps == ASSUME SettingsInv, Settings!SelectOrcaCandidate PROVE SettingsInv'
<1>1. /\ Settings!Top = "candidates" /\ stack' = Settings!Front(stack)
      /\ (\E location \in Installed : cluster' = Settings!WithOrca(cluster, location)) \/ cluster' = cluster
      /\ UNCHANGED <<file, form, manual, checks, workers, events, cache>>
  BY DEF Settings!SelectOrcaCandidate, Settings!Become
<1>2. /\ ClusterFits(cluster', checks["runtime"].busy)
      /\ ManualFits(manual, cluster) => ManualFits(manual, cluster')
  <2>1. ClusterFits(cluster, checks["runtime"].busy)
    BY <1>1, ClusterIsBelow
  <2>2. CASE cluster' = cluster
    BY <2>1, <2>2
  <2>3. CASE \E location \in Installed : cluster' = Settings!WithOrca(cluster, location)
    BY <2>1, <2>3, WithOrcaFits
  <2> QED BY <1>1, <2>2, <2>3
<1>3. /\ ProfilesFit /\ CopiesFit(stack, cluster, manual, checks["runtime"].busy)
      /\ checks \in [Settings!Checks -> Registers]
  BY QueuesTypes DEF SettingsInv
<1>4. \A kind : Open(stack', kind) => Open(stack, kind)
  BY <1>1, TopCloses
<1>5. CopiesFit(stack', cluster', manual', checks["runtime"].busy)
  BY <1>1, <1>2, <1>3, <1>4 DEF CopiesFit
<1>6. ProfilesFit'
  BY <1>1, <1>3, ProfilesSame
<1>7. \A check \in Settings!Checks : Owner(check) # "candidates"
  BY CheckNames
<1> QED BY <1>1, <1>3, <1>5, <1>6, <1>7, ClosedKeeps

LEMMA EditManualKeeps == ASSUME SettingsInv, Settings!EditManual PROVE SettingsInv'
<1>1. /\ Settings!Top = "manual"
      /\ UNCHANGED <<file, form, cluster, checks, workers, events, stack, cache>>
  BY DEF Settings!EditManual
<1>2. PICK r \in {Absent} \cup Runtimes : manual' \in {[manual EXCEPT !.fhi = r], [manual EXCEPT !.ait = r]}
  BY DEF Settings!EditManual
<1>3. Open(stack, "manual")
  BY <1>1, ClusterIsBelow
<1>4. ManualFits(manual, cluster)
  BY <1>3 DEF SettingsInv, CopiesFit
<1>5. ManualFits(manual', cluster)
  BY <1>2, <1>4 DEF ManualFits, Settings!HintRecords
<1>6. CopiesFit(stack', cluster', manual', checks'["runtime"].busy)
  BY <1>1, <1>5 DEF CopiesFit, SettingsInv
<1>7. ProfilesFit'
  BY <1>1, ProfilesSame DEF SettingsInv
<1> QED BY <1>1, <1>6, <1>7 DEF SettingsInv

\* The manual dialog goes.
LEMMA ManualCloses ==
    ASSUME SettingsInv, Settings!Top = "manual", stack' = Settings!Front(stack),
           ClusterFits(cluster', checks["runtime"].busy), UNCHANGED <<file, form, checks, workers, events, cache>>
    PROVE  SettingsInv'
<1>1. ProfilesFit /\ checks \in [Settings!Checks -> Registers]
  BY QueuesTypes DEF SettingsInv
<1>2. ~Open(stack', "manual")
  BY TopCloses
<1>3. CopiesFit(stack', cluster', manual', checks["runtime"].busy)
  BY <1>2 DEF CopiesFit
<1>4. ProfilesFit'
  BY <1>1, ProfilesSame
<1>5. \A check \in Settings!Checks : Owner(check) # "manual"
  BY CheckNames
<1> QED BY <1>1, <1>3, <1>4, <1>5, ClosedKeeps

LEMMA CancelManualKeeps == ASSUME SettingsInv, Settings!CancelManual PROVE SettingsInv'
<1>1. /\ Settings!Top = "manual" /\ stack' = Settings!Front(stack)
      /\ UNCHANGED <<file, form, cluster, checks, workers, events, cache>>
  BY DEF Settings!CancelManual
<1> QED BY <1>1, ClusterIsBelow, ManualCloses

LEMMA ApplyManualKeeps == ASSUME SettingsInv, Settings!ApplyManual PROVE SettingsInv'
<1> DEFINE h == [fhi |-> manual.fhi, ait |-> manual.ait, species |-> manual.species, orca |-> manual.orca]
           d == [cluster EXCEPT !.hints = h, !.species = manual.species, !.ait = manual.ait, !.fhi = manual.fhi,
                                !.launch = IF manual.fhi = Absent /\ cluster.fhi # Absent THEN Absent ELSE @]
<1>1. /\ Settings!Top = "manual" /\ stack' = Settings!Front(stack) /\ cluster' = Settings!Synced(d)
      /\ UNCHANGED <<file, form, checks, workers, events, cache>>
  BY DEF Settings!ApplyManual, Settings!Become
<1>2. Open(stack, "manual") /\ ClusterFits(cluster, checks["runtime"].busy)
  BY <1>1, ClusterIsBelow
<1>3. ManualFits(manual, cluster)
  BY <1>2 DEF SettingsInv, CopiesFit
<1>4. ClusterFits(d, TRUE)
  BY <1>2, <1>3, AppliedFits
<1> HIDE DEF d, h
<1>5. ClusterFits(cluster', checks["runtime"].busy)
  BY <1>1, <1>4, SyncedFits
<1> QED BY <1>1, <1>5, ManualCloses

----------------------------------------------------------------------------
(* Cluster Execution Settings is left.                                     *)

LEMMA DiscardedKeeps ==
    ASSUME SettingsInv, Settings!Top \in {"cluster", "unsaved"}, Settings!Discarded,
           \A check \in Settings!ClusterChecks : ~checks[check].busy,
           ProfilesFit', UNCHANGED <<manual, checks, workers, events>>
    PROVE  SettingsInv'
<1>1. /\ StackFits(stack) /\ Owned(stack, checks) /\ Queues(checks, workers, events)
      /\ checks \in [Settings!Checks -> Registers]
  BY QueuesTypes DEF SettingsInv
<1>2. \A check \in Settings!Checks : Owner(check) = "cluster" => ~checks[check].busy
  BY DEF Owner, Settings!Checks
<1>3. CASE Settings!Top = "cluster"
  <2>1. stack' = Settings!Front(stack)
    BY <1>3 DEF Settings!Discarded
  <2>2. ~Open(stack', "cluster") /\ ~Open(stack', "manual")
    BY <1>3, <2>1, TopCloses
  <2>3. CopiesFit(stack', cluster', manual', checks["runtime"].busy)
    BY <2>2 DEF CopiesFit
  <2> QED BY <1>1, <1>2, <1>3, <2>1, <2>3, ClosedKeeps
<1>4. CASE Settings!Top = "unsaved"
  <2> DEFINE q == Settings!Front(stack)
  <2>1. stack # <<>> /\ stack[Len(stack)].kind = "unsaved"
    BY <1>4, TopIs
  <2>2. q = SubSeq(stack, 1, Len(stack) - 1) /\ stack' = Settings!Front(q)
    BY <1>4, FrontIs DEF Settings!Discarded
  <2> HIDE DEF q
  <2>3. /\ StackFits(q) /\ q # <<>> /\ q[Len(q)].kind = "cluster"
        /\ \A kind : kind # "unsaved" /\ Open(stack, kind) => Open(q, kind)
    BY <1>1, <2>1, <2>2, PoppedFits
  <2>4. stack' = SubSeq(q, 1, Len(q) - 1)
    BY <2>2, FrontIs
  <2>5. /\ StackFits(stack') /\ \A kind : kind # "cluster" /\ Open(q, kind) => Open(stack', kind)
        /\ ~Open(stack', "cluster") /\ ~Open(stack', "manual") /\ ~Open(stack', "unsaved")
    BY <2>3, <2>4, PoppedFits
  <2>6. Owned(stack', checks')
    <3>1. \A check \in Settings!Checks : checks[check].busy => Owner(check) \notin {"cluster", "unsaved"}
      BY <1>2, CheckNames
    <3> QED BY <1>1, <2>3, <2>5, <3>1 DEF Owned
  <2>7. CopiesFit(stack', cluster', manual', checks'["runtime"].busy)
    BY <2>5 DEF CopiesFit
  <2> QED BY <1>1, <2>5, <2>6, <2>7 DEF SettingsInv
<1> QED BY <1>3, <1>4

LEMMA SaveClusterKeeps == ASSUME SettingsInv, Settings!SaveCluster PROVE SettingsInv'
<1> DEFINE p == [cluster.loaded EXCEPT !.preset = Settings!PresetOf(cluster), !.ait = cluster.ait,
                     !.hints = [Settings!Hints(cluster) EXCEPT !.orca = Settings!OrcaLocation(cluster)],
                     !.orca = cluster.orca]
<1>1. /\ Settings!Top \in {"cluster", "unsaved"} /\ Settings!NoWorkers /\ Settings!Discarded
      /\ Settings!Save(cluster.id, p, FALSE) \/ UNCHANGED <<file, keyring, form>>
      /\ UNCHANGED <<manual, checks, workers, events, cache>>
  BY DEF Settings!SaveCluster
<1>2. ClusterFits(cluster, checks["runtime"].busy) /\ cluster.id \in Ids
  BY <1>1, ClusterIsThere, ClusterIsBelow, ClusterShape
<1>3. \A check \in Settings!ClusterChecks : ~checks[check].busy
  BY <1>1 DEF Settings!NoWorkers
<1>4. ~checks["runtime"].busy
  BY <1>3 DEF Settings!ClusterChecks
<1>5. ClusterFits(cluster, FALSE)
  BY <1>2, <1>4 DEF ClusterFits
<1>6. p \in Settings!ProfileRecords /\ Verified(p)
  BY <1>5, SavedFits
<1> HIDE DEF p
<1>7. ProfilesFit'
  <2>1. ProfilesFit
    BY DEF SettingsInv
  <2>2. CASE Settings!Save(cluster.id, p, FALSE)
    BY <1>1, <1>2, <1>6, <2>1, <2>2, SaveFits
  <2>3. CASE UNCHANGED <<file, keyring, form>>
    BY <1>1, <2>1, <2>3, ProfilesSame
  <2> QED BY <1>1, <2>2, <2>3
<1> QED BY <1>1, <1>3, <1>7, DiscardedKeeps

LEMMA RejectClusterKeeps == ASSUME SettingsInv, Settings!RejectCluster PROVE SettingsInv'
<1> DEFINE b == Settings!Dialog("unsaved")
<1>1. /\ Settings!Top = "cluster" /\ Settings!NoWorkers
      /\ \/ stack' = Append(stack, b) /\ UNCHANGED cluster
         \/ Settings!Discarded
      /\ UNCHANGED <<file, form, manual, checks, workers, events, cache>>
  BY DEF Settings!RejectCluster, Settings!InCluster
<1>2. \A check \in Settings!ClusterChecks : ~checks[check].busy
  BY <1>1 DEF Settings!NoWorkers
<1>3. CASE stack' = Append(stack, b) /\ UNCHANGED cluster
  <2>1. b \in Boxes /\ b.kind = "unsaved"
    BY DialogIs DEF DialogKinds
  <2>2. stack # <<>> /\ stack[Len(stack)].kind = "cluster"
    BY <1>1, TopIs
  <2>3. Open(stack, "cluster") /\ ~Open(stack, "unsaved") /\ ~Open(stack, "manual")
    BY <1>1, ClusterIsThere
  <2>4. \A kind : Open(stack', kind) <=> Open(stack, kind) \/ "unsaved" = kind
    BY <1>3, OneMore DEF DialogKinds
  <2> HIDE DEF b
  <2>5. Opens(stack, b)
    BY <2>1, <2>2, <2>3 DEF Opens
  <2>6. CopiesFit(stack', cluster', manual', checks["runtime"].busy)
    BY <1>1, <1>3, <2>4 DEF SettingsInv, CopiesFit
  <2> QED BY <1>1, <1>2, <1>3, <2>5, <2>6, OpenedKeeps
<1>4. CASE Settings!Discarded
  <2>1. ProfilesFit'
    BY <1>1, ProfilesSame DEF SettingsInv
  <2> QED BY <1>1, <1>2, <1>4, <2>1, DiscardedKeeps
<1> QED BY <1>1, <1>3, <1>4

LEMMA AnswerUnsavedKeeps == ASSUME SettingsInv, Settings!AnswerUnsaved PROVE SettingsInv'
<1>1. /\ Settings!Top = "unsaved"
      /\ \/ Settings!Discarded
         \/ stack' = Settings!Front(stack) /\ UNCHANGED cluster
      /\ UNCHANGED <<file, form, manual, checks, workers, events, cache>>
  BY DEF Settings!AnswerUnsaved
<1>2. \A check \in Settings!ClusterChecks : ~checks[check].busy
  BY <1>1, TopOpen DEF SettingsInv, Owned
<1>3. ProfilesFit' /\ checks \in [Settings!Checks -> Registers]
  BY <1>1, ProfilesSame, QueuesTypes DEF SettingsInv
<1>4. CASE Settings!Discarded
  BY <1>1, <1>2, <1>3, <1>4, DiscardedKeeps
<1>5. CASE stack' = Settings!Front(stack) /\ UNCHANGED cluster
  <2>1. \A kind : Open(stack', kind) => Open(stack, kind)
    BY <1>1, <1>5, TopCloses
  <2>2. CopiesFit(stack', cluster', manual', checks["runtime"].busy)
    BY <1>1, <1>5, <2>1, CopiesMayChange DEF SettingsInv
  <2>3. \A check \in Settings!Checks : Owner(check) # "unsaved"
    BY CheckNames
  <2> QED BY <1>1, <1>3, <1>5, <2>2, <2>3, ClosedKeeps
<1> QED BY <1>1, <1>4, <1>5

----------------------------------------------------------------------------
(* Signals are delivered.                                                  *)

LEMMA DeliveredHere ==
    ASSUME SettingsInv, NEW check \in Settings!Checks, NEW kind, Settings!Deliver(check, kind)
    PROVE  /\ Queues(checks, workers, events') /\ checks[check].busy
           /\ checks \in [Settings!Checks -> Registers]
           /\ Head(events).check = check /\ Head(events).kind = kind
           /\ Head(events) \in Tidings /\ ToldRight(Head(events))
           /\ kind = "finished" => Rests(check, workers, events')
<1>1. events # <<>> /\ Head(events).check = check /\ Head(events).kind = kind /\ events' = Tail(events)
  BY DEF Settings!Deliver
<1>2. Queues(checks, workers, events)
  BY DEF SettingsInv
<1> QED BY <1>1, <1>2, Delivered, QueuesTypes

\* A step that leaves every check as busy as it was.
LEMMA SignalKeeps ==
    ASSUME SettingsInv, Queues(checks, workers, events'), workers' = workers,
           checks' \in [Settings!Checks -> Registers],
           \A check \in Settings!Checks : checks'[check].busy = checks[check].busy,
           StackFits(stack'), \A kind : Open(stack, kind) => Open(stack', kind),
           Open(stack', "unsaved") => Open(stack, "unsaved"),
           ProfilesFit', CopiesFit(stack', cluster', manual', checks["runtime"].busy)
    PROVE  SettingsInv'
<1>1. Owned(stack, checks)
  BY DEF SettingsInv
<1>2. \A check \in Settings!ClusterChecks : checks'[check].busy = checks[check].busy
  BY CheckNames
<1>3. Owned(stack', checks')
  BY <1>1, <1>2 DEF Owned
<1>4. /\ \A i \in DOMAIN workers : workers[i].check \in Settings!Checks
      /\ \A i \in DOMAIN events' : (events')[i].check \in Settings!Checks
  BY QueuesTypes DEF Workers, Tidings
<1>5. /\ \A i \in DOMAIN workers : checks'[workers[i].check].busy
      /\ \A i \in DOMAIN events' : checks'[(events')[i].check].busy
  BY <1>4 DEF Queues, OneWorker
<1>6. Queues(checks', workers', events')
  BY <1>5, RegistersMayChange
<1>7. checks'["runtime"].busy = checks["runtime"].busy
  BY CheckNames
<1> QED BY <1>3, <1>6, <1>7 DEF SettingsInv

LEMMA RegisterChanges ==
    ASSUME NEW c \in [Settings!Checks -> Registers], NEW check \in Settings!Checks,
           NEW r \in Registers, r.busy = c[check].busy
    PROVE  /\ [c EXCEPT ![check] = r] \in [Settings!Checks -> Registers]
           /\ \A k \in Settings!Checks : [c EXCEPT ![check] = r][k].busy = c[k].busy
<1> DEFINE d == [c EXCEPT ![check] = r]
<1>1. d \in [Settings!Checks -> Registers] /\ d[check] = r /\ \A k \in Settings!Checks \ {check} : d[k] = c[k]
  OBVIOUS
<1> HIDE DEF d
<1>2. \A k \in Settings!Checks : d[k].busy = c[k].busy
  BY <1>1
<1> QED BY <1>1, <1>2 DEF d

\* The outcome of a browser or of a test is only shown.
LEMMA ReportedKeeps ==
    ASSUME SettingsInv, NEW check \in Settings!Checks, Settings!Reported(check)
    PROVE  SettingsInv'
<1> DEFINE r == [checks[check] EXCEPT !.pending = FALSE]
<1>1. /\ Settings!Deliver(check, "succeeded") /\ checks' = [checks EXCEPT ![check] = r]
      /\ UNCHANGED <<file, form, cluster, manual, workers, stack, cache>>
  BY DEF Settings!Reported
<1>2. Queues(checks, workers, events') /\ checks \in [Settings!Checks -> Registers]
  BY <1>1, DeliveredHere
<1>3. r \in Registers /\ r.busy = checks[check].busy
  BY <1>2 DEF Registers
<1> HIDE DEF r
<1>4. /\ checks' \in [Settings!Checks -> Registers]
      /\ \A k \in Settings!Checks : checks'[k].busy = checks[k].busy
  BY <1>1, <1>2, <1>3, RegisterChanges
<1>5. StackFits(stack) /\ CopiesFit(stack, cluster, manual, checks["runtime"].busy) /\ ProfilesFit
  BY DEF SettingsInv
<1>6. ProfilesFit'
  BY <1>1, <1>5, ProfilesSame
<1> QED BY <1>1, <1>2, <1>4, <1>5, <1>6, SignalKeeps

\* A failure is reported, or a box asks for the password or for trust.
LEMMA FailedKeeps ==
    ASSUME SettingsInv, NEW check \in Settings!Checks, Settings!Failed(check)
    PROVE  SettingsInv'
<1> DEFINE why == Head(events).data
           asks == \/ why = "password" /\ ~checks[check].asked /\ check # "test"
                   \/ why = "unknownHost" /\ ~checks[check].trusted
           b == [kind |-> "question", check |-> check, why |-> why]
           r == [checks[check] EXCEPT !.pending = FALSE, !.password = @ /\ check \notin {"scheduler", "runtime"}]
<1>1. /\ Settings!Deliver(check, "failed")
      /\ UNCHANGED <<file, form, cluster, manual, workers, cache>>
      /\ IF asks THEN stack' = Append(stack, b) /\ UNCHANGED checks
         ELSE checks' = [checks EXCEPT ![check] = r] /\ UNCHANGED stack
  BY DEF Settings!Failed
<1>2. Queues(checks, workers, events') /\ checks \in [Settings!Checks -> Registers]
  BY <1>1, DeliveredHere
<1>3. /\ StackFits(stack) /\ CopiesFit(stack, cluster, manual, checks["runtime"].busy) /\ ProfilesFit'
  BY <1>1, ProfilesSame DEF SettingsInv
<1>4. CASE asks
  <2>1. why \in {"password", "unknownHost"}
    BY <1>4
  <2>2. b \in Boxes /\ b.kind = "question" /\ b.check = check
    BY <2>1 DEF Boxes, DialogKinds
  <2>3. stack' = Append(stack, b) /\ UNCHANGED checks
    BY <1>1, <1>4
  <2> HIDE DEF b, why, asks
  <2>4. Opens(stack, b)
    BY <2>2 DEF Opens
  <2>5. StackFits(stack')
    BY <1>3, <2>3, <2>4, PushedFits
  <2>6. \A kind : Open(stack', kind) <=> Open(stack, kind) \/ b.kind = kind
    BY <1>3, <2>2, <2>3, PushedOpen
  <2>7. CopiesFit(stack', cluster', manual', checks["runtime"].busy)
    BY <1>1, <1>3, <2>2, <2>6 DEF CopiesFit
  <2>8. Open(stack', "unsaved") => Open(stack, "unsaved")
    BY <2>2, <2>6
  <2> QED BY <1>1, <1>2, <1>3, <2>3, <2>5, <2>6, <2>7, <2>8, SignalKeeps
<1>5. CASE ~asks
  <2>1. checks' = [checks EXCEPT ![check] = r] /\ UNCHANGED stack
    BY <1>1, <1>5
  <2>2. r \in Registers /\ r.busy = checks[check].busy
    BY <1>2 DEF Registers
  <2> HIDE DEF r, asks
  <2>3. /\ checks' \in [Settings!Checks -> Registers]
        /\ \A k \in Settings!Checks : checks'[k].busy = checks[k].busy
    BY <1>2, <2>1, <2>2, RegisterChanges
  <2> QED BY <1>1, <1>2, <1>3, <2>1, <2>3, SignalKeeps
<1> QED BY <1>4, <1>5

LEMMA AnsweredKeeps == ASSUME SettingsInv, Settings!Answered PROVE SettingsInv'
<1> DEFINE check == Settings!Last(stack).check
           r1 == [checks[check] EXCEPT !.asked = TRUE, !.password = TRUE, !.pending = TRUE]
           r2 == [checks[check] EXCEPT !.trusted = TRUE, !.pending = TRUE]
           r3 == [checks[check] EXCEPT !.pending = IF check \in {"orca", "test"} THEN FALSE ELSE @]
<1>1. /\ Settings!Top = "question" /\ stack' = Settings!Front(stack)
      /\ UNCHANGED <<file, form, cluster, manual, workers, events, cache>>
      /\ \/ checks' = [checks EXCEPT ![check] = r1]
         \/ checks' = [checks EXCEPT ![check] = r2]
         \/ checks' = [checks EXCEPT ![check] = r3]
  BY DEF Settings!Answered
<1>2. /\ StackFits(stack) /\ CopiesFit(stack, cluster, manual, checks["runtime"].busy) /\ ProfilesFit'
      /\ checks \in [Settings!Checks -> Registers]
  BY <1>1, ProfilesSame, QueuesTypes DEF SettingsInv
<1>3. check \in Settings!Checks
  <2>1. stack # <<>> /\ stack[Len(stack)].kind = "question" /\ stack \in Seq(Boxes)
    BY <1>1, <1>2, TopIs DEF StackFits
  <2>2. Len(stack) \in DOMAIN stack
    BY <2>1, FrontOf
  <2>3. check = stack[Len(stack)].check
    BY LastOf
  <2> QED BY <1>2, <2>1, <2>2, <2>3 DEF StackFits
<1> HIDE DEF check
<1>4. \A r \in {r1, r2, r3} : r \in Registers /\ r.busy = checks[check].busy
  BY <1>2, <1>3 DEF Registers
<1> HIDE DEF r1, r2, r3
<1>5. /\ checks' \in [Settings!Checks -> Registers]
      /\ \A k \in Settings!Checks : checks'[k].busy = checks[k].busy
  <2>1. PICK r \in {r1, r2, r3} : checks' = [checks EXCEPT ![check] = r]
    BY <1>1
  <2> QED BY <1>2, <1>3, <1>4, <2>1, RegisterChanges
<1>6. \A kind : Open(stack', kind) => Open(stack, kind)
  BY <1>1, TopCloses
<1>7. CopiesFit(stack', cluster', manual', checks["runtime"].busy)
  BY <1>1, <1>2, <1>6, CopiesMayChange
<1>8. \A k \in Settings!Checks : Owner(k) # "question"
  BY CheckNames
<1> QED BY <1>1, <1>2, <1>5, <1>7, <1>8, ClosedKeeps

\* A check ends, or is tried again as was agreed to before.
LEMMA FinishedLeaves ==
    ASSUME SettingsInv, NEW check \in Settings!Checks, NEW data \in Tasked,
           check = "scheduler" => data \in Searches, NEW forgets \in BOOLEAN,
           Settings!FinishedWith(check, data, forgets)
    PROVE  /\ Queues(checks', workers', events') /\ checks[check].busy
           /\ \A k \in Settings!Checks \ {check} : checks'[k] = checks[k]
           /\ UNCHANGED <<file, manual, stack, cache>>
<1> DEFINE r == [checks[check] EXCEPT !.pending = FALSE]
           idle == [checks[check] EXCEPT !.busy = FALSE, !.password = @ /\ ~forgets]
<1>1. /\ Settings!Deliver(check, "finished") /\ UNCHANGED <<file, manual, stack, cache>>
      /\ IF checks[check].pending THEN Settings!Start(check, r, data)
         ELSE checks' = [checks EXCEPT ![check] = idle] /\ UNCHANGED workers
  BY DEF Settings!FinishedWith
<1>2. /\ Queues(checks, workers, events') /\ checks[check].busy /\ Rests(check, workers, events')
      /\ checks \in [Settings!Checks -> Registers]
  BY <1>1, DeliveredHere
<1>3. r \in Registers /\ idle \in Registers
  BY <1>2 DEF Registers
<1> HIDE DEF r, idle
<1>4. CASE checks[check].pending
  <2>1. Settings!Start(check, r, data)
    BY <1>1, <1>4
  <2> QED BY <1>1, <1>2, <1>3, <2>1, StartKeeps
<1>5. CASE ~checks[check].pending
  <2>1. checks' = [checks EXCEPT ![check] = idle] /\ UNCHANGED workers
    BY <1>1, <1>5
  <2>2. checks' \in [Settings!Checks -> Registers] /\ \A k \in Settings!Checks \ {check} : checks'[k] = checks[k]
    BY <1>2, <1>3, <2>1
  <2>3. /\ \A i \in DOMAIN workers : workers[i].check \in Settings!Checks \ {check}
        /\ \A i \in DOMAIN events' : (events')[i].check \in Settings!Checks \ {check}
    BY <1>2, QueuesTypes DEF Workers, Tidings, Rests
  <2>4. /\ \A i \in DOMAIN workers : checks'[workers[i].check].busy
        /\ \A i \in DOMAIN events' : checks'[(events')[i].check].busy
    BY <1>2, <2>2, <2>3 DEF Queues, OneWorker
  <2>5. Queues(checks', workers', events')
    BY <1>2, <2>1, <2>2, <2>4, RegistersMayChange
  <2> QED BY <1>1, <1>2, <2>2, <2>5
<1> QED BY <1>4, <1>5

LEMMA FinishedKeeps ==
    ASSUME SettingsInv, NEW check \in Settings!Checks, checks[check].busy,
           Queues(checks', workers', events'), \A k \in Settings!Checks \ {check} : checks'[k] = checks[k],
           stack' = stack, ProfilesFit', CopiesFit(stack, cluster', manual', checks'["runtime"].busy)
    PROVE  SettingsInv'
<1>1. Owned(stack, checks) /\ StackFits(stack)
  BY DEF SettingsInv
<1>2. \A k \in Settings!Checks : checks'[k].busy => checks[k].busy
  OBVIOUS
<1>3. Owned(stack', checks')
  BY <1>1, <1>2, CheckNames DEF Owned
<1> QED BY <1>1, <1>3 DEF SettingsInv

\* The others end alike.
LEMMA OtherFinishedKeeps ==
    ASSUME SettingsInv, NEW check \in Settings!Checks, check # "runtime", NEW data \in Tasked,
           check = "scheduler" => data \in Searches, NEW forgets \in BOOLEAN,
           Settings!FinishedWith(check, data, forgets), UNCHANGED cluster, FormFits(form')
    PROVE  SettingsInv'
<1>1. /\ Queues(checks', workers', events') /\ checks[check].busy
      /\ \A k \in Settings!Checks \ {check} : checks'[k] = checks[k]
      /\ UNCHANGED <<file, manual, stack, cache>>
  BY FinishedLeaves
<1>2. checks'["runtime"] = checks["runtime"]
  BY <1>1, CheckNames
<1>3. CopiesFit(stack, cluster', manual', checks'["runtime"].busy)
  BY <1>1, <1>2 DEF SettingsInv
<1>4. ProfilesFit'
  BY <1>1 DEF SettingsInv, ProfilesFit, CacheFits
<1> QED BY <1>1, <1>3, <1>4, FinishedKeeps

LEMMA ConnectionFinishedKeeps == ASSUME SettingsInv, Settings!ConnectionFinished PROVE SettingsInv'
<1>1. /\ Settings!FinishedWith("test", Absent, TRUE) /\ UNCHANGED cluster
      /\ form' = IF checks["test"].pending THEN form
                 ELSE [form EXCEPT !.deletable = form.id \in Settings!Profiles(file)]
  BY DEF Settings!ConnectionFinished
<1>2. form \in Forms /\ Verified(form.carried)
  BY DEF SettingsInv, ProfilesFit, FormFits
<1>3. (form.id \in Settings!Profiles(file)) \in BOOLEAN
  OBVIOUS
<1>4. form' \in Forms /\ form'.carried = form.carried
  <2>1. CASE checks["test"].pending
    BY <1>1, <1>2, <2>1
  <2>2. CASE ~checks["test"].pending
    <3> DEFINE deletable == form.id \in Settings!Profiles(file)
    <3>1. form' = [form EXCEPT !.deletable = deletable] /\ deletable \in BOOLEAN
      BY <1>1, <2>2
    <3> HIDE DEF deletable
    <3> QED BY <1>2, <3>1 DEF Forms
  <2> QED BY <2>1, <2>2
<1>5. FormFits(form')
  BY <1>2, <1>4 DEF FormFits
<1> QED BY <1>1, <1>5, CheckNames, OtherFinishedKeeps DEF Tasked

LEMMA WorkspaceFinishedKeeps == ASSUME SettingsInv, Settings!WorkspaceFinished PROVE SettingsInv'
<1>1. Settings!FinishedWith("workspace", Absent, FALSE) /\ UNCHANGED <<form, cluster>> /\ FormFits(form)
  BY DEF Settings!WorkspaceFinished, SettingsInv, ProfilesFit
<1> QED BY <1>1, CheckNames, OtherFinishedKeeps DEF Tasked

LEMMA SpeciesFinishedKeeps == ASSUME SettingsInv, Settings!SpeciesFinished PROVE SettingsInv'
<1>1. Settings!FinishedWith("species", Absent, FALSE) /\ UNCHANGED <<form, cluster>> /\ FormFits(form)
  BY DEF Settings!SpeciesFinished, SettingsInv, ProfilesFit
<1> QED BY <1>1, CheckNames, OtherFinishedKeeps DEF Tasked

LEMMA OrcaFinishedKeeps == ASSUME SettingsInv, Settings!OrcaFinished PROVE SettingsInv'
<1>1. /\ Settings!FinishedWith("orca", Head(events).data, FALSE) /\ UNCHANGED <<form, cluster>>
      /\ FormFits(form)
  BY DEF Settings!OrcaFinished, SettingsInv, ProfilesFit
<1>2. Settings!Deliver("orca", "finished")
  BY <1>1 DEF Settings!FinishedWith
<1>3. Head(events).data \in Tasked
  BY <1>2, DeliveredHere, CheckNames DEF ToldRight
<1> QED BY <1>1, <1>3, CheckNames, OtherFinishedKeeps

\* The dialog of a check that is under way.
LEMMA ClusterIsOpen ==
    ASSUME SettingsInv, NEW check \in {"scheduler", "runtime", "orca"}, checks[check].busy
    PROVE  /\ Open(stack, "cluster") /\ ~Open(stack, "unsaved") /\ cluster \in Clusters
           /\ ClusterFits(cluster, checks["runtime"].busy)
<1>1. check \in Settings!ClusterChecks /\ check \in Settings!Checks /\ Owner(check) = "cluster"
  BY CheckNames DEF Settings!ClusterChecks
<1>2. Open(stack, "cluster") /\ ~Open(stack, "unsaved")
  BY <1>1 DEF SettingsInv, Owned
<1>3. ClusterFits(cluster, checks["runtime"].busy)
  BY <1>2 DEF SettingsInv, CopiesFit
<1> QED BY <1>2, <1>3 DEF ClusterFits

LEMMA SchedulerFinishedKeeps == ASSUME SettingsInv, Settings!SchedulerFinished PROVE SettingsInv'
<1> DEFINE data == [mode |-> cluster.mode, dir |-> cluster.typed, kind |-> Settings!Kind(cluster)]
<1>1. /\ Settings!FinishedWith("scheduler", data, TRUE) /\ UNCHANGED <<form, cluster>>
      /\ FormFits(form)
  BY DEF Settings!SchedulerFinished, SettingsInv, ProfilesFit
<1>2. Settings!Deliver("scheduler", "finished")
  BY <1>1 DEF Settings!FinishedWith
<1>3. checks["scheduler"].busy
  BY <1>2, DeliveredHere, CheckNames
<1>4. data \in Searches
  BY <1>3, ClusterIsOpen, SearchOf
<1> HIDE DEF data
<1> QED BY <1>1, <1>4, CheckNames, OtherFinishedKeeps DEF Tasked

LEMMA RuntimeFinishedKeeps == ASSUME SettingsInv, Settings!RuntimeFinished PROVE SettingsInv'
<1>1. /\ Settings!FinishedWith("runtime", Absent, TRUE) /\ cluster' = Settings!Synced(cluster)
      /\ form' = form
  BY DEF Settings!RuntimeFinished, Settings!Become
<1>2. "runtime" \in Settings!Checks
  BY CheckNames
<1>3. /\ Queues(checks', workers', events') /\ checks["runtime"].busy
      /\ \A k \in Settings!Checks \ {"runtime"} : checks'[k] = checks[k]
      /\ UNCHANGED <<file, manual, stack, cache>>
  BY <1>1, <1>2, FinishedLeaves DEF Tasked
<1>4. ClusterFits(cluster, TRUE)
  BY <1>3, ClusterIsOpen, LongerSearch
<1>5. /\ ClusterFits(cluster', checks'["runtime"].busy)
      /\ ManualFits(manual, cluster) => ManualFits(manual, cluster')
  BY <1>1, <1>4, SyncedFits
<1>6. CopiesFit(stack, cluster', manual', checks'["runtime"].busy)
  BY <1>3, <1>5 DEF SettingsInv, CopiesFit
<1>7. ProfilesFit'
  BY <1>1, <1>3, ProfilesSame DEF SettingsInv
<1> QED BY <1>2, <1>3, <1>6, <1>7, FinishedKeeps

\* The two registers of a check that has succeeded are cleared.
LEMMA SucceededLeaves ==
    ASSUME SettingsInv, NEW check \in Settings!Checks, Settings!Deliver(check, "succeeded"),
           checks' = [checks EXCEPT ![check].pending = FALSE, ![check].password = FALSE]
    PROVE  /\ Queues(checks, workers, events') /\ checks[check].busy
           /\ checks' \in [Settings!Checks -> Registers]
           /\ \A k \in Settings!Checks : checks'[k].busy = checks[k].busy
           /\ Head(events).check = check /\ Head(events).kind = "succeeded" /\ ToldRight(Head(events))
BY DeliveredHere, ClearedRegister

LEMMA SchedulerSucceededKeeps == ASSUME SettingsInv, Settings!SchedulerSucceeded PROVE SettingsInv'
<1> DEFINE kind == Head(events).data
           auto == IF cluster.mode = "automatic" THEN kind ELSE cluster.auto
           typed == IF cluster.mode = "manual" THEN kind ELSE cluster.typed
           lsf == cluster.lsf \/ kind = "lsf"
           d == [cluster EXCEPT !.verified = kind, !.selector = kind,
                                !.auto = IF cluster.mode = "automatic" THEN kind ELSE @,
                                !.typed = IF cluster.mode = "manual" THEN kind ELSE @,
                                !.lsf = @ \/ kind = "lsf"]
<1>1. /\ Settings!Deliver("scheduler", "succeeded") /\ cluster' = Settings!Synced(d)
      /\ checks' = [checks EXCEPT !["scheduler"].pending = FALSE, !["scheduler"].password = FALSE]
      /\ UNCHANGED <<file, form, manual, workers, stack, cache>>
  BY DEF Settings!SchedulerSucceeded, Settings!Become
<1>2. "scheduler" \in Settings!Checks
  BY CheckNames
<1>3. /\ Queues(checks, workers, events') /\ checks["scheduler"].busy
      /\ checks' \in [Settings!Checks -> Registers]
      /\ \A k \in Settings!Checks : checks'[k].busy = checks[k].busy
      /\ Head(events).check = "scheduler" /\ Head(events).kind = "succeeded" /\ ToldRight(Head(events))
  BY <1>1, <1>2, SucceededLeaves
<1>4. kind \in Settings!Kinds
  BY <1>3 DEF ToldRight
<1>5. cluster \in Clusters /\ ClusterFits(cluster, checks["runtime"].busy)
  BY <1>3, ClusterIsOpen
<1>6. d = [cluster EXCEPT !.verified = kind, !.selector = kind, !.auto = auto, !.typed = typed, !.lsf = lsf]
  BY <1>5 DEF Clusters
<1>7. auto \in Scheduler /\ typed \in Scheduler /\ lsf \in BOOLEAN /\ kind \in Scheduler
  BY <1>4, <1>5, ClusterShape DEF Scheduler
<1> HIDE DEF d, auto, typed, lsf, kind
<1>8. d = [id |-> cluster.id, loaded |-> cluster.loaded, mode |-> cluster.mode, selector |-> kind,
           auto |-> auto, typed |-> typed, lsf |-> lsf, verified |-> kind,
           fhi |-> cluster.fhi, launch |-> cluster.launch, ait |-> cluster.ait, species |-> cluster.species,
           hints |-> cluster.hints, orca |-> cluster.orca, fields |-> cluster.fields]
  BY <1>5, <1>6 DEF Clusters
<1>9. d \in Clusters
  BY <1>4, <1>5, <1>7, <1>8, ClusterShape DEF Clusters
<1>10. SameOrca(cluster, d)
  BY <1>8 DEF SameOrca
<1>11. /\ ClusterFits(cluster', checks["runtime"].busy)
       /\ ManualFits(manual, cluster) => ManualFits(manual, cluster')
  BY <1>1, <1>5, <1>9, <1>10, SwitchedFits
<1>12. CopiesFit(stack', cluster', manual', checks["runtime"].busy)
  BY <1>1, <1>11 DEF SettingsInv, CopiesFit
<1>13. ProfilesFit' /\ StackFits(stack)
  BY <1>1, ProfilesSame DEF SettingsInv
<1> QED BY <1>1, <1>3, <1>12, <1>13, SignalKeeps

\* A box or a dialog of the cluster dialog is opened by a signal.
LEMMA SignalOpens ==
    ASSUME SettingsInv, NEW name \in {"candidates", "manual"}, Open(stack, "cluster"), ~Open(stack, "unsaved"),
           name = "manual" => ~Open(stack, "manual"), stack' = Append(stack, Settings!Dialog(name))
    PROVE  /\ StackFits(stack') /\ ~Open(stack', "unsaved")
           /\ \A kind : Open(stack', kind) <=> Open(stack, kind) \/ name = kind
<1> DEFINE b == Settings!Dialog(name)
<1>1. name \in DialogKinds
  BY DEF DialogKinds
<1>2. b \in Boxes /\ b.kind = name
  BY <1>1, DialogIs
<1>3. \A kind : Open(stack', kind) <=> Open(stack, kind) \/ name = kind
  BY <1>1, OneMore
<1>4. stack' = Append(stack, b)
  OBVIOUS
<1> HIDE DEF b
<1>5. Opens(stack, b)
  BY <1>2 DEF Opens
<1>6. StackFits(stack')
  BY <1>4, <1>5, PushedFits DEF SettingsInv
<1> QED BY <1>3, <1>6

LEMMA OrcaSucceededKeeps == ASSUME SettingsInv, Settings!OrcaSucceeded PROVE SettingsInv'
<1> DEFINE location == Head(events).data
<1>1. /\ Settings!Deliver("orca", "succeeded")
      /\ checks' = [checks EXCEPT !["orca"].pending = FALSE, !["orca"].password = FALSE]
      /\ \/ location # Absent /\ cluster' = Settings!WithOrca(cluster, location) /\ UNCHANGED stack
         \/ UNCHANGED <<cluster, stack>>
         \/ stack' = Append(stack, Settings!Dialog("candidates")) /\ UNCHANGED cluster
      /\ UNCHANGED <<file, form, manual, workers, cache>>
  BY DEF Settings!OrcaSucceeded, Settings!Become
<1>2. "orca" \in Settings!Checks
  BY CheckNames
<1>3. /\ Queues(checks, workers, events') /\ checks["orca"].busy
      /\ checks' \in [Settings!Checks -> Registers]
      /\ \A k \in Settings!Checks : checks'[k].busy = checks[k].busy
      /\ Head(events).check = "orca" /\ Head(events).kind = "succeeded" /\ ToldRight(Head(events))
  BY <1>1, <1>2, SucceededLeaves
<1>4. location \in {Absent} \cup Installed
  BY <1>3 DEF ToldRight
<1>5. /\ cluster \in Clusters /\ ClusterFits(cluster, checks["runtime"].busy)
      /\ Open(stack, "cluster") /\ ~Open(stack, "unsaved")
  BY <1>3, ClusterIsOpen
<1>6. StackFits(stack) /\ CopiesFit(stack, cluster, manual, checks["runtime"].busy) /\ ProfilesFit'
  BY <1>1, ProfilesSame DEF SettingsInv
<1> HIDE DEF location
<1>7. CASE location # Absent /\ cluster' = Settings!WithOrca(cluster, location) /\ UNCHANGED stack
  <2>1. /\ ClusterFits(cluster', checks["runtime"].busy)
        /\ ManualFits(manual, cluster) => ManualFits(manual, cluster')
    BY <1>4, <1>5, <1>7, WithOrcaFits
  <2>2. CopiesFit(stack', cluster', manual', checks["runtime"].busy)
    BY <1>1, <1>6, <1>7, <2>1 DEF CopiesFit
  <2> QED BY <1>1, <1>3, <1>6, <1>7, <2>2, SignalKeeps
<1>8. CASE UNCHANGED <<cluster, stack>>
  BY <1>1, <1>3, <1>6, <1>8, SignalKeeps
<1>9. CASE stack' = Append(stack, Settings!Dialog("candidates")) /\ UNCHANGED cluster
  <2>1. /\ StackFits(stack') /\ ~Open(stack', "unsaved")
        /\ \A kind : Open(stack', kind) <=> Open(stack, kind) \/ "candidates" = kind
    BY <1>5, <1>9, SignalOpens
  <2>2. CopiesFit(stack', cluster', manual', checks["runtime"].busy)
    BY <1>1, <1>6, <1>9, <2>1 DEF CopiesFit
  <2> QED BY <1>1, <1>3, <1>6, <1>9, <2>1, <2>2, SignalKeeps
<1> QED BY <1>1, <1>7, <1>8, <1>9

LEMMA RuntimeSucceededKeeps == ASSUME SettingsInv, Settings!RuntimeSucceeded PROVE SettingsInv'
<1> DEFINE found == Head(events).data
           d == [cluster EXCEPT !.launch = found, !.ait = found, !.species = TRUE]
           chosen == [d EXCEPT !.hints = Settings!Hints(d)]
<1>1. /\ Settings!Deliver("runtime", "succeeded")
      /\ checks' = [checks EXCEPT !["runtime"].pending = FALSE, !["runtime"].password = FALSE]
      /\ \/ /\ Settings!ManualIsOpen /\ manual' \in Settings!Received(manual, found)
            /\ UNCHANGED <<cluster, stack>>
         \/ /\ ~Settings!ManualIsOpen /\ manual' \in Settings!Received(Settings!Manual(cluster), found)
            /\ stack' = Append(stack, Settings!Dialog("manual")) /\ UNCHANGED cluster
         \/ /\ cluster' = chosen \/ UNCHANGED cluster
            /\ UNCHANGED <<manual, stack>>
      /\ UNCHANGED <<file, form, workers, cache>>
  BY DEF Settings!RuntimeSucceeded, Settings!Become
<1>2. "runtime" \in Settings!Checks
  BY CheckNames
<1>3. /\ Queues(checks, workers, events') /\ checks["runtime"].busy
      /\ checks' \in [Settings!Checks -> Registers]
      /\ \A k \in Settings!Checks : checks'[k].busy = checks[k].busy
      /\ Head(events).check = "runtime" /\ Head(events).kind = "succeeded" /\ ToldRight(Head(events))
  BY <1>1, <1>2, SucceededLeaves
<1>4. found \in Runtime
  BY <1>3 DEF ToldRight
<1>5. /\ ClusterFits(cluster, checks["runtime"].busy) /\ Open(stack, "cluster") /\ ~Open(stack, "unsaved")
  BY <1>3, ClusterIsOpen
<1>6. StackFits(stack) /\ CopiesFit(stack, cluster, manual, checks["runtime"].busy) /\ ProfilesFit'
  BY <1>1, ProfilesSame DEF SettingsInv
<1>7. Settings!ManualIsOpen <=> Open(stack, "manual")
  BY DEF Settings!ManualIsOpen, Open
<1>8. /\ ClusterFits(chosen, TRUE)
      /\ ManualFits(manual, cluster) => ManualFits(manual, chosen)
  BY <1>4, <1>5, ChosenFits
<1> HIDE DEF found, d, chosen
<1>9. CASE /\ Settings!ManualIsOpen /\ manual' \in Settings!Received(manual, found)
           /\ UNCHANGED <<cluster, stack>>
  <2>1. ManualFits(manual, cluster)
    BY <1>6, <1>7, <1>9 DEF CopiesFit
  <2>2. ManualFits(manual', cluster)
    BY <1>4, <1>9, <2>1, ReceivedFits
  <2>3. CopiesFit(stack', cluster', manual', checks["runtime"].busy)
    BY <1>6, <1>9, <2>2 DEF CopiesFit
  <2> QED BY <1>1, <1>3, <1>6, <1>9, <2>3, SignalKeeps
<1>10. CASE /\ ~Settings!ManualIsOpen /\ manual' \in Settings!Received(Settings!Manual(cluster), found)
            /\ stack' = Append(stack, Settings!Dialog("manual")) /\ UNCHANGED cluster
  <2>1. /\ StackFits(stack') /\ ~Open(stack', "unsaved")
        /\ \A kind : Open(stack', kind) <=> Open(stack, kind) \/ "manual" = kind
    BY <1>5, <1>7, <1>10, SignalOpens
  <2>2. ManualFits(Settings!Manual(cluster), cluster)
    BY <1>5, ManualStartsFit
  <2>3. ManualFits(manual', cluster)
    BY <1>4, <1>10, <2>2, ReceivedFits
  <2>4. CopiesFit(stack', cluster', manual', checks["runtime"].busy)
    BY <1>5, <1>10, <2>3 DEF CopiesFit
  <2> QED BY <1>1, <1>3, <1>6, <1>10, <2>1, <2>4, SignalKeeps
<1>11. CASE (cluster' = chosen \/ UNCHANGED cluster) /\ UNCHANGED <<manual, stack>>
  <2>1. ClusterFits(chosen, checks["runtime"].busy)
    BY <1>3, <1>8 DEF ClusterFits
  <2>2. CopiesFit(stack', cluster', manual', checks["runtime"].busy)
    BY <1>6, <1>8, <1>11, <2>1 DEF CopiesFit
  <2> QED BY <1>1, <1>3, <1>6, <1>11, <2>2, SignalKeeps
<1> QED BY <1>1, <1>9, <1>10, <1>11

----------------------------------------------------------------------------
(* The workers.                                                            *)

\* What the server answers is of the kind the slot expects.
LEMMA AnswersFit ==
    ASSUME NEW job \in Workers, job.check = "scheduler" => job.data \in Searches,
           NEW answer \in Settings!Answers(job)
    PROVE  /\ job.check = "orca" => answer \in {Absent} \cup Installed
           /\ job.check = "scheduler" => answer \in Settings!Kinds
           /\ job.check = "runtime" => answer \in Runtime
           /\ answer \in Told
<1>1. CASE job.check = "orca"
  <2>1. answer \in {Absent} \cup Installed
    BY <1>1 DEF Settings!Answers
  <2> QED BY <1>1, <2>1, SettingsConstants DEF Told, Tasked
<1>2. CASE job.check = "scheduler"
  <2>1. job.data.kind \in Settings!Kinds
    BY <1>2 DEF Searches
  <2>2. answer \in Settings!Kinds
    BY <1>2, <2>1 DEF Settings!Answers
  <2> QED BY <1>2, <2>2 DEF Told
<1>3. CASE job.check = "runtime"
  <2>1. answer \in Runtime
    BY <1>3 DEF Settings!Answers, Runtime
  <2> QED BY <1>3, <2>1 DEF Told, Tasked, Runtime
<1>4. CASE job.check \notin {"orca", "scheduler", "runtime"}
  <2>1. answer = Absent
    BY <1>4 DEF Settings!Answers
  <2> QED BY <1>4, <2>1 DEF Told, Tasked
<1> QED BY <1>1, <1>2, <1>3, <1>4

\* A step of a worker changes the workers and the signals only.
LEMMA WorkerStepKeeps ==
    ASSUME SettingsInv, Queues(checks, workers', events'),
           UNCHANGED <<file, form, cluster, manual, checks, stack, cache>>
    PROVE  SettingsInv'
<1>1. ProfilesFit'
  BY ProfilesSame DEF SettingsInv
<1> QED BY <1>1 DEF SettingsInv

LEMMA WorkerReportsKeeps ==
    ASSUME SettingsInv, NEW check \in Settings!Checks, Settings!WorkerReports(check)
    PROVE  SettingsInv'
<1>1. PICK i \in DOMAIN workers :
        /\ workers[i].check = check
        /\ IF Settings!Connected(workers[i]) = "connected"
           THEN \/ \E answer \in Settings!Answers(workers[i]) : Settings!Emit(check, "succeeded", answer)
                \/ Settings!Emit(check, "failed", "error")
           ELSE Settings!Emit(check, "failed", Settings!Connected(workers[i]))
        /\ workers' = [workers EXCEPT ![i].reported = TRUE]
  BY DEF Settings!WorkerReports
<1>2. UNCHANGED <<file, form, cluster, manual, checks, stack, cache>>
  BY DEF Settings!WorkerReports
<1>3. /\ Queues(checks, workers, events) /\ workers[i] \in Workers
      /\ workers[i].check = "scheduler" => workers[i].data \in Searches
  BY QueuesTypes DEF SettingsInv, Queues, QueuesFit
<1>4. Settings!Connected(workers[i]) \in {"password", "unknownHost", "connected"}
  BY DEF Settings!Connected
<1>5. \/ \E answer \in Settings!Answers(workers[i]) : Settings!Emit(check, "succeeded", answer)
      \/ \E why \in {"error", "password", "unknownHost"} : Settings!Emit(check, "failed", why)
  BY <1>1, <1>4
<1>6. \E b \in Tidings : b.check = check /\ b.kind # "finished" /\ ToldRight(b) /\ events' = Append(events, b)
  <2>1. ASSUME NEW answer \in Settings!Answers(workers[i]), Settings!Emit(check, "succeeded", answer)
        PROVE  \E b \in Tidings : b.check = check /\ b.kind # "finished" /\ ToldRight(b)
                                  /\ events' = Append(events, b)
    <3> DEFINE b == [check |-> check, kind |-> "succeeded", data |-> answer]
    <3>1. events' = Append(events, b)
      BY <2>1 DEF Settings!Emit
    <3>2. /\ check = "orca" => answer \in {Absent} \cup Installed
          /\ check = "scheduler" => answer \in Settings!Kinds
          /\ check = "runtime" => answer \in Runtime
          /\ answer \in Told
      BY <1>1, <1>3, AnswersFit
    <3>3. b \in Tidings /\ b.check = check /\ b.kind = "succeeded" /\ b.data = answer
      BY <3>2 DEF Tidings
    <3> HIDE DEF b
    <3>4. ToldRight(b)
      BY <3>2, <3>3 DEF ToldRight
    <3> QED BY <3>1, <3>3, <3>4
  <2>2. ASSUME NEW why \in {"error", "password", "unknownHost"}, Settings!Emit(check, "failed", why)
        PROVE  \E b \in Tidings : b.check = check /\ b.kind # "finished" /\ ToldRight(b)
                                  /\ events' = Append(events, b)
    <3> DEFINE b == [check |-> check, kind |-> "failed", data |-> why]
    <3>1. events' = Append(events, b)
      BY <2>2 DEF Settings!Emit
    <3>2. why \in Told
      BY DEF Told
    <3>3. b \in Tidings /\ b.check = check /\ b.kind = "failed" /\ b.data = why
      BY <3>2 DEF Tidings
    <3> HIDE DEF b
    <3>4. ToldRight(b)
      BY <3>3 DEF ToldRight
    <3> QED BY <3>1, <3>3, <3>4
  <2> QED BY <1>5, <2>1, <2>2
<1>7. PICK b \in Tidings : b.check = check /\ b.kind # "finished" /\ ToldRight(b) /\ events' = Append(events, b)
  BY <1>6
<1>8. Queues(checks, workers', events')
  BY <1>1, <1>3, <1>7, ToldFits
<1> QED BY <1>2, <1>8, WorkerStepKeeps

LEMMA WorkerFinishesKeeps ==
    ASSUME SettingsInv, NEW check \in Settings!Checks, Settings!WorkerFinishes(check)
    PROVE  SettingsInv'
<1>1. PICK i \in DOMAIN workers :
        /\ workers[i].check = check
        /\ Settings!Emit(check, "finished", workers[i].data)
        /\ workers' = Settings!RemoveAt(workers, i)
        /\ UNCHANGED <<file, form, cluster, manual, checks, stack, cache>>
  BY DEF Settings!WorkerFinishes
<1>2. Queues(checks, workers, events) /\ workers[i].data \in Tasked
  BY QueuesTypes DEF SettingsInv, Workers
<1> DEFINE b == [check |-> check, kind |-> "finished", data |-> workers[i].data]
<1>3. events' = Append(events, b)
  BY <1>1 DEF Settings!Emit
<1>4. b \in Tidings /\ b.check = check /\ b.kind = "finished" /\ b.data \in Tasked
  BY <1>2 DEF Tidings, Told
<1> HIDE DEF b
<1>5. ToldRight(b)
  BY <1>4 DEF ToldRight
<1>6. Queues(checks, workers', events')
  BY <1>1, <1>2, <1>3, <1>4, <1>5, EndedFits
<1> QED BY <1>1, <1>6, WorkerStepKeeps

----------------------------------------------------------------------------
(* The theorem.                                                            *)

LEMMA FirstProfileFits ==
    ASSUME NEW p \in Settings!FirstProfiles
    PROVE  p \in Settings!ProfileRecords /\ Verified(p)
<1> DEFINE name == CHOOSE n \in Names : TRUE
           plain == [name |-> name, keep |-> FALSE, preset |-> Absent, ait |-> Absent,
                     hints |-> Absent, orca |-> Absent]
           preset(kind) == [mode |-> "automatic", kind |-> kind, dir |-> kind, fhi |-> Absent, launch |-> Absent]
           hints(location) == [fhi |-> Absent, ait |-> Absent, species |-> FALSE,
                               orca |-> IF location = Absent THEN Settings!Blank ELSE location]
           configured(kind, location) == [name |-> name, keep |-> TRUE, preset |-> preset(kind), ait |-> Absent,
                                          hints |-> hints(location), orca |-> location]
<1>1. p = plain \/ p = configured("lsf", Absent) \/ \E location \in Installed : p = configured("slurm", location)
  BY DEF Settings!FirstProfiles
<1>2. name \in Names
  BY SettingsConstants
<1>3. \A kind \in Settings!Kinds :
        /\ preset(kind) \in Settings!PresetRecords
        /\ preset(kind).fhi = Absent
  BY DEF Settings!PresetRecords
<1>4. \A location \in {Absent} \cup Installed :
        /\ hints(location) \in Settings!HintRecords
        /\ location # Absent => hints(location).orca = location
  BY SettingsConstants, BlankIsLocation DEF Settings!HintRecords
<1> HIDE DEF name, preset, hints
<1>5. plain \in Settings!ProfileRecords /\ Verified(plain)
  BY <1>2 DEF Settings!ProfileRecords, Verified
<1>6. ASSUME NEW kind \in Settings!Kinds, NEW location \in {Absent} \cup Installed
      PROVE  configured(kind, location) \in Settings!ProfileRecords /\ Verified(configured(kind, location))
  <2>1. hints(location) # Absent
    BY <1>4, SettingsConstants
  <2> QED BY <1>2, <1>3, <1>4, <2>1 DEF Settings!ProfileRecords, Verified
<1>7. "lsf" \in Settings!Kinds /\ "slurm" \in Settings!Kinds
  BY DEF Settings!Kinds
<1> HIDE DEF plain, configured
<1> QED BY <1>1, <1>5, <1>6, <1>7

LEMMA SettingsInit == ASSUME Settings!Init PROVE SettingsInv
<1> DEFINE first == <<Settings!Dialog("profiles")>>
<1>1. PICK id \in Ids, p \in Settings!FirstProfiles :
        /\ file = [profiles |-> [i \in Ids |-> IF i = id THEN p ELSE Absent], last |-> id]
        /\ form = Settings!Fields(id, p)
        /\ checks = [check \in Settings!Checks |-> Settings!Idle]
        /\ workers = <<>> /\ events = <<>> /\ stack = first /\ cache = Absent
  BY DEF Settings!Init
<1>2. p \in Settings!ProfileRecords /\ Verified(p) /\ p # Absent
  BY FirstProfileFits, SettingsConstants
<1>3. StoreFits(file)
  <2>1. /\ file.profiles \in [Ids -> {Absent} \cup Settings!ProfileRecords] /\ file.last = id
        /\ \A i \in Ids : file.profiles[i] = IF i = id THEN p ELSE Absent
    BY <1>1, <1>2
  <2>2. file \in Stores
    BY <1>1, <2>1 DEF Stores
  <2>3. Settings!Profiles(file) = {id}
    BY <1>2, <2>1 DEF Settings!Profiles
  <2>4. \A i \in Settings!Profiles(file) : Verified(file.profiles[i])
    BY <1>2, <2>1, <2>3
  <2>5. \A i \in Settings!Profiles(file) : Settings!NameIsFree(file, i, file.profiles[i].name)
    BY <2>3 DEF Settings!NameIsFree
  <2> QED BY <2>1, <2>2, <2>3, <2>4, <2>5 DEF StoreFits
<1>4. ProfilesFit
  BY <1>1, <1>2, <1>3, FieldsFit DEF ProfilesFit, CacheFits
<1>5. first \in Seq(Boxes) /\ DOMAIN first = {1} /\ first[1].kind = "profiles"
  BY DialogIs DEF DialogKinds
<1> HIDE DEF first
<1>6. StackFits(first) /\ \A kind : Open(first, kind) <=> kind = "profiles"
  BY <1>5 DEF StackFits, Open
<1>7. checks \in [Settings!Checks -> Registers] /\ \A check \in Settings!Checks : ~checks[check].busy
  BY <1>1 DEF Settings!Idle, Registers
<1>8. Owned(stack, checks)
  BY <1>1, <1>6, <1>7 DEF Owned
<1>9. Queues(checks, workers, events)
  <2>1. DOMAIN workers = {} /\ DOMAIN events = {} /\ workers \in Seq(Workers) /\ events \in Seq(Tidings)
    BY <1>1
  <2> QED BY <1>7, <2>1 DEF Queues, QueuesFit, OneWorker
<1>10. CopiesFit(stack, cluster, manual, checks["runtime"].busy)
  BY <1>1, <1>6 DEF CopiesFit
<1> QED BY <1>1, <1>4, <1>6, <1>8, <1>9, <1>10 DEF SettingsInv

LEMMA SettingsNext == ASSUME SettingsInv, Settings!Next PROVE SettingsInv'
<1>1. CASE Settings!ProfileActs
  BY <1>1, SelectProfileKeeps, NewProfileKeeps, EditFormKeeps, SaveProfileKeeps, SaveAsProfileKeeps,
     DeleteProfileKeeps, CloseProfilesKeeps, TestConnectionKeeps, BrowseWorkspaceKeeps,
     RequestWorkspaceKeeps, CloseWorkspaceKeeps, OpenClusterKeeps DEF Settings!ProfileActs
<1>2. CASE Settings!ClusterActs
  BY <1>2, ToggleModeKeeps, ChooseKindKeeps, EditDirectoryKeeps, EditLsfDirectoriesKeeps, EditOrcaKeeps,
     EditLaunchKeeps, CheckSchedulerKeeps, DiscoverOrcaKeeps, ValidateOrcaKeeps, SelectOrcaCandidateKeeps,
     BeginRuntimeKeeps, OpenManualKeeps, EditManualKeeps, ApplyManualKeeps, CancelManualKeeps,
     BrowseSpeciesKeeps, RequestSpeciesKeeps, CloseSpeciesKeeps, SaveClusterKeeps, RejectClusterKeeps,
     AnswerUnsavedKeeps DEF Settings!ClusterActs
<1>3. CASE Settings!Signals
  <2>1. \A check \in {"test", "workspace", "scheduler", "orca", "runtime", "species"} : check \in Settings!Checks
    BY CheckNames
  <2>2. ASSUME \E check \in {"test", "workspace", "species"} : Settings!Reported(check) PROVE SettingsInv'
    BY <2>1, <2>2, ReportedKeeps
  <2>3. ASSUME \E check \in {"test", "workspace", "scheduler", "orca", "runtime", "species"} : Settings!Failed(check)
        PROVE  SettingsInv'
    BY <2>1, <2>3, FailedKeeps
  <2>4. \/ Settings!Answered
        \/ \E check \in {"test", "workspace", "species"} : Settings!Reported(check)
        \/ \E check \in {"test", "workspace", "scheduler", "orca", "runtime", "species"} : Settings!Failed(check)
        \/ Settings!ConnectionFinished \/ Settings!WorkspaceFinished \/ Settings!SpeciesFinished
        \/ Settings!SchedulerSucceeded \/ Settings!SchedulerFinished
        \/ Settings!OrcaSucceeded \/ Settings!OrcaFinished
        \/ Settings!RuntimeSucceeded \/ Settings!RuntimeFinished
    BY <1>3 DEF Settings!Signals, Settings!ConnectionSucceeded, Settings!ConnectionFailed,
       Settings!WorkspaceListed, Settings!WorkspaceFailed, Settings!SchedulerFailed, Settings!OrcaFailed,
       Settings!RuntimeFailed, Settings!SpeciesListed, Settings!SpeciesFailed
  <2> QED BY <2>2, <2>3, <2>4, AnsweredKeeps, ConnectionFinishedKeeps, WorkspaceFinishedKeeps,
             SpeciesFinishedKeeps, SchedulerSucceededKeeps, SchedulerFinishedKeeps, OrcaSucceededKeeps,
             OrcaFinishedKeeps, RuntimeSucceededKeeps, RuntimeFinishedKeeps
<1>4. CASE Settings!Background
  BY <1>4, WorkerReportsKeeps, WorkerFinishesKeeps, CacheLoadsKeeps, CacheReloadsKeeps, CacheWritesKeeps
     DEF Settings!Background
<1> QED BY <1>1, <1>2, <1>3, <1>4 DEF Settings!Next

LEMMA SettingsUnchanged == ASSUME SettingsInv, UNCHANGED dialogs PROVE SettingsInv'
<1>1. UNCHANGED <<file, form, cluster, manual, checks, workers, events, stack, cache>>
  BY DEF dialogs
<1>2. ProfilesFit'
  BY <1>1, ProfilesSame DEF SettingsInv
<1> QED BY <1>1, <1>2, StoreStepKeeps DEF DialogsSame

LEMMA SettingsSpec == DesktopSpec => []SettingsAreaInv
<1>1. DesktopInit => SettingsAreaInv
  BY SettingsInit DEF DesktopInit, SettingsAreaInv
<1>2. ASSUME SettingsAreaInv, [DesktopNext]_desktop
      PROVE  SettingsAreaInv'
  <2>1. area' = area
    BY <1>2 DEF DesktopNext, desktop
  <2>2. CASE area # "settings"
    BY <2>1, <2>2 DEF SettingsAreaInv
  <2>3. CASE area = "settings" /\ Settings!Next
    BY <1>2, <2>1, <2>3, SettingsNext DEF SettingsAreaInv
  <2>4. CASE area = "settings" /\ UNCHANGED dialogs
    BY <1>2, <2>1, <2>4, SettingsUnchanged DEF SettingsAreaInv
  <2>5. DesktopNext /\ area = "settings" => Settings!Next
    BY DEF DesktopNext
  <2>6. UNCHANGED desktop => UNCHANGED dialogs
    BY DEF desktop
  <2> QED BY <1>2, <2>2, <2>3, <2>4, <2>5, <2>6
<1> QED BY <1>1, <1>2, PTL DEF DesktopSpec

LEMMA SettingsInvImplies == SettingsInv => Settings!SavedIsVerified /\ Settings!ChecksHaveTheirDialog
<1> SUFFICES ASSUME SettingsInv PROVE Settings!SavedIsVerified /\ Settings!ChecksHaveTheirDialog
  OBVIOUS
<1>1. Settings!SavedIsVerified
  <2>1. StoreFits(file)
    BY DEF SettingsInv, ProfilesFit
  <2>2. ASSUME NEW id \in Settings!Profiles(file)
        PROVE  LET p == file.profiles[id] IN
               /\ Settings!NameIsFree(file, id, p.name)
               /\ p.orca # Absent => p.orca \in Installed /\ p.hints # Absent /\ p.hints.orca = p.orca
               /\ p.preset # Absent /\ p.preset.fhi # Absent => p.preset.launch = p.preset.fhi
    <3>1. file.profiles[id] \in Settings!ProfileRecords /\ Verified(file.profiles[id])
      BY <2>1, StoreHas
    <3>2. file.profiles[id].orca \in {Absent} \cup Installed
      BY <3>1, ProfileShape
    <3> QED BY <2>1, <3>1, <3>2 DEF StoreFits, Verified
  <2>3. file.last = Absent \/ file.last \in Settings!Profiles(file)
    BY <2>1 DEF StoreFits
  <2> QED BY <2>2, <2>3 DEF Settings!SavedIsVerified
<1>2. Settings!ChecksHaveTheirDialog
  <2>1. \A check \in Settings!Checks : checks[check].busy => Open(stack, Owner(check))
    BY DEF SettingsInv, Owned
  <2> QED BY <2>1 DEF Settings!ChecksHaveTheirDialog, Open, Owner, Settings!Checks, Settings!ClusterChecks
<1> QED BY <1>1, <1>2

\* What the two settings dialogs store was verified on the server, for exactly the location
\* and the launch command that are stored with it, however their background checks, the boxes
\* those open, the user's edits and a submission's write of the same file interleave; and no
\* check outlives its dialog (gui/cluster_execution_dialog.py, gui/server_profiles_dialog.py).
THEOREM DialogsAreAlwaysVerified == DesktopSpec => []DialogsAreVerified
<1>1. SettingsAreaInv => DialogsAreVerified
  BY SettingsInvImplies DEF SettingsAreaInv, DialogsAreVerified
<1> QED BY <1>1, SettingsSpec, PTL

----------------------------------------------------------------------------
(* The density tasks on show.                                              *)

Keys == Density!Tasks \X ({Absent} \cup Density!Jobs)
Resources == [Servers -> Density!Numbers]
Drawn ==
    [sel : Density!Parts, text : [1..2 -> {Absent} \cup SUBSET Atoms], spacing : Density!Numbers,
     padding : Density!Numbers, kept : {Absent} \cup Density!Grids, server : Servers, res : Resources]
Tabs ==
    [task : {Absent} \cup Density!Records, form : Drawn, worker : {Absent} \cup Density!Workers,
     suppressed : SUBSET Keys]
Lists == [rows : Density!Table, worker : {Absent} \cup Density!Workers, suppressed : SUBSET Keys]

\* A copy of a task: its fragments are apart, and it stays on the server it was made on.
CopyOf(r, m) ==
    /\ r \in Density!Records /\ r.part[1] \cap r.part[2] = {}
    /\ m[r.id] # Absent /\ m[r.id].server = r.server

\* The record of a job that was accepted names a job of that task.
TasksFit(m, q) ==
    /\ m \in Density!Table /\ q \in [Density!Jobs -> {Absent} \cup Density!JobRecords]
    /\ \A i \in Density!Tasks : m[i] # Absent =>
          /\ m[i].id = i /\ CopyOf(m[i], m)
          /\ m[i].job # Absent => q[m[i].job] # Absent /\ q[m[i].job].id = i

RowsFit(rows, m) ==
    /\ rows \in Density!Table
    /\ \A i \in Density!Tasks : rows[i] # Absent =>
          CopyOf(rows[i], m) /\ rows[i].id = i /\ rows[i].server = Home

ReplyFits(a, m) ==
    /\ a \in Density!Answers
    /\ a.task # Absent \/ a.kind \in {"task", "cancel"} => CopyOf(a.task, m)
    /\ a.kind = "rows" => RowsFit(a.rows, m)
    /\ a.kind = "cancel" /\ a.outcome = "terminal" => a.task.state \in Density!Terminal

DrawnFits(f) ==
    /\ f \in Drawn /\ f.sel[1] \cap f.sel[2] = {}
    /\ \A i \in 1..2 : f.text[i] = Absent \/ f.text[i] = f.sel[i]

\* While an operation runs the tab goes on showing what it was begun with.
TabWorkerFits(t, w, m) ==
    /\ ReplyFits(w.answer, m) /\ w.answer.kind # "rows" /\ w.with \in Density!Requests
    /\ w.op = "submit" => w.with = Density!Inputs(t.form) /\ Density!Partitions(t.form)
    /\ w.op # "submit" => w.task = t.task /\ t.task # Absent
    /\ w.op = "cancel" => Density!Found(w)
    /\ w.op = "cancel" /\ w.answer.kind = "none" => Density!Key(t.task) \notin t.suppressed
    /\ w.answer.kind = "cancel" => w.op = "cancel"

TabFits(t, m) ==
    /\ t \in Tabs /\ DrawnFits(t.form)
    /\ t.task # Absent =>
          CopyOf(t.task, m) /\ (t.task.state \notin Density!Stopped => t.form.server = t.task.server)
    /\ t.worker # Absent => TabWorkerFits(t, t.worker, m)

\* A key is shown by the tab, or by the list, as a job that is active.
ShownAs(t, k) == t.task # Absent /\ k = Density!Key(t.task) /\ t.task.state \in Density!Active
ListedAs(l, k) ==
    /\ l.rows[k[1]] # Absent /\ k = Density!Key(l.rows[k[1]])
    /\ l.rows[k[1]].state \in Density!Active

ListWorkerFits(l, w, m) ==
    /\ ReplyFits(w.answer, m)
    /\ w.op # "discover" => CopyOf(w.task, m) /\ w.task.server = Home
    /\ w.answer.task # Absent \/ w.answer.kind \in {"task", "cancel"} => w.answer.task.server = Home
    /\ w.op = "cancel" /\ w.answer.kind = "none" => \A k \in l.suppressed : k[1] # w.task.id
    /\ w.answer.kind = "cancel" => w.op = "cancel"

ListFits(l, m) ==
    /\ l \in Lists /\ RowsFit(l.rows, m)
    /\ \A k \in l.suppressed : ListedAs(l, k)
    /\ l.worker # Absent => ListWorkerFits(l, l.worker, m)

\* A cancellation that was sent is remembered, or its outcome is still to be delivered.
Knows(place, k) ==
    \/ k \in place.suppressed
    \/ /\ place.worker # Absent /\ place.worker.answer.kind = "cancel"
       /\ place.worker.answer.outcome # "terminal" /\ Density!Key(place.worker.answer.task) = k

AskedFits ==
    /\ asked \in [{"tab", "list"} -> SUBSET Keys]
    /\ \A k \in asked["tab"] : tab # Absent /\ ShownAs(tab, k) /\ Knows(tab, k)
    /\ \A k \in asked["list"] : list # Absent /\ ListedAs(list, k) /\ Knows(list, k)

TasksInv ==
    /\ TasksFit(records, queue)
    /\ tab # Absent => TabFits(tab, records)
    /\ list # Absent => ListFits(list, records)
    /\ sent.count \in Nat /\ AskedFits
TasksAreaInv == area = "tasks" => TasksInv

----------------------------------------------------------------------------
(* Records, and what stays true of a copy.                                 *)

LEMMA TasksConstants ==
    /\ Home \in Servers /\ Preset \in [Servers -> Values] /\ Selections \subseteq SUBSET Atoms
    /\ Density!Tasks \subseteq Nat /\ Density!Jobs \subseteq Nat /\ 1 \in Density!Tasks \cap Density!Jobs
    /\ Absent \notin Density!Records /\ Absent \notin Density!JobRecords /\ Absent \notin Density!Workers
BY PartsAssumption DEF Density!WindowAssumption, Density!Tasks, Density!Jobs

Same(m, n) ==
    /\ n \in Density!Table
    /\ \A i \in Density!Tasks : m[i] # Absent => n[i] # Absent /\ n[i].server = m[i].server
JobsStay(q, p) ==
    /\ p \in [Density!Jobs -> {Absent} \cup Density!JobRecords]
    /\ \A j \in Density!Jobs : q[j] # Absent => p[j] # Absent /\ p[j].id = q[j].id

LEMMA SameSelf == ASSUME NEW m \in Density!Table PROVE Same(m, m)
BY DEF Same

LEMMA JobsStaySelf ==
    ASSUME NEW m, NEW q, TasksFit(m, q)
    PROVE  JobsStay(q, q)
BY DEF JobsStay, TasksFit

LEMMA CopyStays ==
    ASSUME NEW m, NEW n, Same(m, n), NEW r, CopyOf(r, m)
    PROVE  CopyOf(r, n)
<1>1. r.id \in Density!Tasks
  BY DEF CopyOf, Density!Records
<1> QED BY <1>1 DEF CopyOf, Same

LEMMA RowsStay ==
    ASSUME NEW m, NEW n, Same(m, n), NEW rows, RowsFit(rows, m)
    PROVE  RowsFit(rows, n)
BY CopyStays DEF RowsFit

LEMMA ReplyStays ==
    ASSUME NEW m, NEW n, Same(m, n), NEW a, ReplyFits(a, m)
    PROVE  ReplyFits(a, n)
BY CopyStays, RowsStay DEF ReplyFits

LEMMA TabStays ==
    ASSUME NEW m, NEW n, Same(m, n), NEW t, TabFits(t, m)
    PROVE  TabFits(t, n)
BY CopyStays, ReplyStays DEF TabFits, TabWorkerFits

LEMMA ListStays ==
    ASSUME NEW m, NEW n, Same(m, n), NEW l, ListFits(l, m)
    PROVE  ListFits(l, n)
<1>1. l.worker # Absent => ListWorkerFits(l, l.worker, n)
  BY CopyStays, ReplyStays DEF ListFits, ListWorkerFits
<1> QED BY <1>1, RowsStay DEF ListFits

\* A record with another state, attempt, job or resources.
LEMMA RecordChanged ==
    ASSUME NEW r \in Density!Records, NEW s \in Density!States
    PROVE  LET h == [r EXCEPT !.state = s] IN
           /\ h \in Density!Records /\ h.state = s /\ h.id = r.id /\ h.number = r.number
           /\ h.job = r.job /\ h.part = r.part /\ h.grid = r.grid /\ h.server = r.server /\ h.res = r.res
BY DEF Density!Records

LEMMA StatesAre ==
    /\ Density!Active \subseteq Density!States /\ Density!Terminal \subseteq Density!States
    /\ Density!Stopped \subseteq Density!Terminal
    /\ \A s \in Density!Terminal : s \notin Density!Active
    /\ {"PREPARED", "UNKNOWN", "UNRESOLVED", "QUEUED", "FAILED", "COMPLETE"} \subseteq Density!States
    /\ "QUEUED" \in Density!Active /\ Density!Stopped \cap Density!Active = {}
BY DEF Density!States, Density!Active, Density!Terminal, Density!Stopped

LEMMA RefreshedTaskFits ==
    ASSUME NEW m, TasksFit(m, queue), NEW i \in Density!Tasks, m[i] # Absent,
           NEW r \in Density!Refreshed(m[i])
    PROVE  /\ r \in Density!Records /\ r.id = i /\ r.server = m[i].server /\ r.part = m[i].part
           /\ r.job = m[i].job /\ r.part[1] \cap r.part[2] = {}
           /\ r.job # Absent => r.job \in Density!Jobs /\ queue[r.job] # Absent /\ queue[r.job].id = i
<1> DEFINE c == m[i]
<1>1. c \in Density!Records /\ c.id = i /\ c.part[1] \cap c.part[2] = {}
  BY DEF TasksFit, CopyOf
<1>2. c.job # Absent => c.job \in Density!Jobs /\ queue[c.job] # Absent /\ queue[c.job].id = i
  BY <1>1 DEF TasksFit, Density!Records
<1>3. c.job # Absent => queue[c.job].state \in Density!States
  BY <1>2, StatesAre DEF TasksFit, Density!JobRecords
<1>4. r = c \/ \E s \in Density!States : r = [c EXCEPT !.state = s]
  BY <1>3, StatesAre DEF Density!Refreshed
<1> HIDE DEF c
<1>5. CASE r = c
  BY <1>1, <1>2, <1>5 DEF c
<1>6. ASSUME NEW s \in Density!States, r = [c EXCEPT !.state = s]
      PROVE  /\ r \in Density!Records /\ r.id = i /\ r.server = c.server /\ r.part = c.part /\ r.job = c.job
  BY <1>1, <1>6, RecordChanged
<1> QED BY <1>1, <1>2, <1>4, <1>5, <1>6 DEF c

\* The record of a task is replaced by one of the same task.
LEMMA TaskRecorded ==
    ASSUME NEW m, NEW q, NEW p, TasksFit(m, q), JobsStay(q, p),
           NEW r \in Density!Records, r.part[1] \cap r.part[2] = {},
           m[r.id] # Absent => r.server = m[r.id].server,
           r.job # Absent => p[r.job] # Absent /\ p[r.job].id = r.id
    PROVE  LET n == [m EXCEPT ![r.id] = r] IN TasksFit(n, p) /\ Same(m, n) /\ CopyOf(r, n)
<1> DEFINE n == [m EXCEPT ![r.id] = r]
<1>1. r.id \in Density!Tasks /\ r # Absent
  BY TasksConstants DEF Density!Records
<1>2. /\ n \in Density!Table /\ n[r.id] = r
      /\ \A i \in Density!Tasks : i # r.id => n[i] = m[i]
  BY <1>1 DEF TasksFit, Density!Table
<1> HIDE DEF n
<1>3. Same(m, n) /\ CopyOf(r, n)
  BY <1>1, <1>2 DEF Same, CopyOf
<1>4. ASSUME NEW i \in Density!Tasks, n[i] # Absent
      PROVE  n[i].id = i /\ CopyOf(n[i], n) /\ (n[i].job # Absent => p[n[i].job] # Absent /\ p[n[i].job].id = i)
  <2>1. CASE i = r.id
    BY <1>2, <1>3, <2>1
  <2>2. CASE i # r.id
    <3>1. /\ n[i] = m[i] /\ m[i].id = i /\ CopyOf(m[i], m)
          /\ m[i].job # Absent => q[m[i].job] # Absent /\ q[m[i].job].id = i
      BY <1>2, <1>4, <2>2 DEF TasksFit
    <3>2. m[i].job # Absent => m[i].job \in Density!Jobs
      BY <3>1 DEF CopyOf, Density!Records
    <3> QED BY <1>3, <3>1, <3>2, CopyStays DEF JobsStay
  <2> QED BY <2>1, <2>2
<1>5. p \in [Density!Jobs -> {Absent} \cup Density!JobRecords]
  BY DEF JobsStay
<1> QED BY <1>2, <1>3, <1>4, <1>5 DEF TasksFit, n

\* A job is new, or its state changes.
LEMMA JobIsNew ==
    ASSUME NEW m, TasksFit(m, queue), NEW j \in Density!NewJob, NEW r \in Density!JobRecords
    PROVE  LET p == [queue EXCEPT ![j] = r] IN
           JobsStay(queue, p) /\ p[j] # Absent /\ p[j].id = r.id /\ j \in Density!Jobs
BY TasksConstants DEF TasksFit, JobsStay, Density!NewJob

LEMMA JobChanges ==
    ASSUME NEW m, TasksFit(m, queue), NEW j \in Density!Jobs, queue[j] # Absent,
           NEW s \in Density!Active \cup Density!Terminal
    PROVE  JobsStay(queue, [queue EXCEPT ![j].state = s])
<1> DEFINE r == [queue[j] EXCEPT !.state = s]
<1>1. queue[j] \in Density!JobRecords
  BY DEF TasksFit
<1>2. r \in Density!JobRecords /\ r.id = queue[j].id
  BY <1>1 DEF Density!JobRecords
<1>3. [queue EXCEPT ![j].state = s] = [queue EXCEPT ![j] = r]
  OBVIOUS
<1> HIDE DEF r
<1> QED BY <1>2, <1>3, TasksConstants DEF TasksFit, JobsStay

\* What only the scheduler does.
LEMMA JobsChange ==
    ASSUME NEW m, NEW q, NEW p, TasksFit(m, q), JobsStay(q, p)
    PROVE  TasksFit(m, p)
<1>1. ASSUME NEW i \in Density!Tasks, m[i] # Absent, m[i].job # Absent
      PROVE  p[m[i].job] # Absent /\ p[m[i].job].id = i
  <2>1. m[i].job \in Density!Jobs
    BY <1>1 DEF TasksFit, Density!Records, Density!Table
  <2> QED BY <1>1, <2>1 DEF TasksFit, JobsStay
<1> QED BY <1>1 DEF TasksFit, JobsStay

----------------------------------------------------------------------------
(* The form of the tab.                                                    *)

LEMMA DrawnIs ==
    ASSUME NEW f, DrawnFits(f)
    PROVE  /\ f.sel \in Density!Parts /\ f.text \in [1..2 -> {Absent} \cup SUBSET Atoms]
           /\ f.spacing \in Density!Numbers /\ f.padding \in Density!Numbers
           /\ f.kept \in {Absent} \cup Density!Grids /\ f.server \in Servers /\ f.res \in Resources
           /\ f = [sel |-> f.sel, text |-> f.text, spacing |-> f.spacing, padding |-> f.padding,
                   kept |-> f.kept, server |-> f.server, res |-> f.res]
BY DEF DrawnFits, Drawn

LEMMA SyncedFormFits ==
    ASSUME NEW f, DrawnFits(f), NEW s \in Density!Parts, s[1] \cap s[2] = {}
    PROVE  LET h == Density!Synced(f, s) IN
           /\ DrawnFits(h) /\ h.server = f.server
           /\ h = [sel |-> s, text |-> s, spacing |-> f.spacing, padding |-> f.padding,
                   kept |-> f.kept, server |-> f.server, res |-> f.res]
<1> DEFINE h == Density!Synced(f, s)
<1>0. h = [f EXCEPT !.sel = s, !.text = s]
  BY DEF Density!Synced
<1> HIDE DEF h
<1>1. h = [sel |-> s, text |-> s, spacing |-> f.spacing, padding |-> f.padding,
           kept |-> f.kept, server |-> f.server, res |-> f.res]
  BY <1>0 DEF DrawnFits, Drawn
<1>2. s \in [1..2 -> {Absent} \cup SUBSET Atoms]
  BY DEF Density!Parts
<1>3. h \in Drawn /\ h.sel = s /\ h.text = s /\ h.server = f.server
  BY <1>1, <1>2, DrawnIs DEF Drawn
<1> QED BY <1>1, <1>3 DEF DrawnFits, h

LEMMA TypedFits ==
    ASSUME NEW f, DrawnFits(f), NEW i \in 1..2, NEW text \in Selections \cup {Absent}
    PROVE  DrawnFits(Density!Typed(f, i, text)) /\ Density!Typed(f, i, text).server = f.server
<1>1. CASE text = Absent
  <2> DEFINE h == [f EXCEPT !.text[i] = text]
             x == [f.text EXCEPT ![i] = text]
  <2>1. Density!Typed(f, i, text) = h
    BY <1>1 DEF Density!Typed, Density!Malformed
  <2>2. x \in [1..2 -> {Absent} \cup SUBSET Atoms] /\ \A k \in 1..2 : x[k] = Absent \/ x[k] = f.sel[k]
    BY <1>1, DrawnIs DEF DrawnFits
  <2>3. h = [sel |-> f.sel, text |-> x, spacing |-> f.spacing, padding |-> f.padding,
             kept |-> f.kept, server |-> f.server, res |-> f.res]
    BY DrawnIs
  <2> HIDE DEF h, x
  <2>4. h \in Drawn /\ h.sel = f.sel /\ h.text = x /\ h.server = f.server
    BY <2>2, <2>3, DrawnIs DEF Drawn
  <2> QED BY <2>1, <2>2, <2>4 DEF DrawnFits
<1>2. CASE text # Absent
  <2> DEFINE s == [f.sel EXCEPT ![i] = text, ![3 - i] = @ \ text]
  <2>1. Density!Typed(f, i, text) = Density!Synced(f, s)
    BY <1>2 DEF Density!Typed, Density!Malformed
  <2>2. text \in SUBSET Atoms /\ f.sel \in [1..2 -> SUBSET Atoms]
    BY <1>2, TasksConstants, DrawnIs DEF Density!Parts
  <2>3. s \in Density!Parts /\ s[1] \cap s[2] = {}
    <3>1. CASE i = 1
      BY <2>2, <3>1 DEF Density!Parts
    <3>2. CASE i = 2
      BY <2>2, <3>2 DEF Density!Parts
    <3> QED BY <3>1, <3>2
  <2> QED BY <2>1, <2>3, SyncedFormFits
<1> QED BY <1>1, <1>2

LEMMA AssignedFits ==
    ASSUME NEW f, DrawnFits(f), NEW a \in 1..2, NEW atoms \in SUBSET Atoms, NEW remove \in BOOLEAN
    PROVE  LET s == Density!Assigned(f.sel, a, atoms, remove) IN s \in Density!Parts /\ s[1] \cap s[2] = {}
<1>1. f.sel \in [1..2 -> SUBSET Atoms] /\ f.sel[1] \cap f.sel[2] = {}
  BY DrawnIs DEF DrawnFits, Density!Parts
<1>2. CASE a = 1
  BY <1>1, <1>2 DEF Density!Assigned, Density!Parts
<1>3. CASE a = 2
  BY <1>1, <1>3 DEF Density!Assigned, Density!Parts
<1> QED BY <1>2, <1>3

LEMMA GridEditedFits ==
    ASSUME NEW f, DrawnFits(f), NEW field \in {"spacing", "padding"}, NEW value \in Values
    PROVE  DrawnFits(Density!GridEdited(f, field, value))
<1> DEFINE h == Density!GridEdited(f, field, value)
<1>1. value \in Density!Numbers
  BY DEF Density!Numbers
<1>2. CASE field = "spacing"
  <2>0. h = [f EXCEPT !.spacing = value, !.kept = Absent]
    BY <1>2 DEF Density!GridEdited
  <2> HIDE DEF h
  <2>1. h = [sel |-> f.sel, text |-> f.text, spacing |-> value, padding |-> f.padding,
             kept |-> Absent, server |-> f.server, res |-> f.res]
    BY <2>0 DEF DrawnFits, Drawn
  <2>2. h \in Drawn /\ h.sel = f.sel /\ h.text = f.text
    BY <1>1, <2>1, DrawnIs DEF Drawn
  <2> QED BY <2>2 DEF DrawnFits, h
<1>3. CASE field = "padding"
  <2>0. h = [f EXCEPT !.padding = value, !.kept = Absent]
    BY <1>3 DEF Density!GridEdited
  <2> HIDE DEF h
  <2>1. h = [sel |-> f.sel, text |-> f.text, spacing |-> f.spacing, padding |-> value,
             kept |-> Absent, server |-> f.server, res |-> f.res]
    BY <2>0 DEF DrawnFits, Drawn
  <2>2. h \in Drawn /\ h.sel = f.sel /\ h.text = f.text
    BY <1>1, <2>1, DrawnIs DEF Drawn
  <2> QED BY <2>2 DEF DrawnFits, h
<1> QED BY <1>2, <1>3

LEMMA ServerChangedFits ==
    ASSUME NEW f, DrawnFits(f), NEW s \in Servers
    PROVE  DrawnFits(Density!ServerChanged(f, s))
<1> DEFINE h == Density!ServerChanged(f, s)
           res == [f.res EXCEPT ![s] = Preset[s]]
<1>1. res \in Resources
  BY TasksConstants, DrawnIs DEF Resources, Density!Numbers
<1>0. h = [f EXCEPT !.server = s, !.res[s] = Preset[s]]
  BY DEF Density!ServerChanged
<1> HIDE DEF h
<1>2. h = [sel |-> f.sel, text |-> f.text, spacing |-> f.spacing, padding |-> f.padding,
           kept |-> f.kept, server |-> s, res |-> res]
  BY <1>0 DEF DrawnFits, Drawn
<1> HIDE DEF res
<1>3. h \in Drawn /\ h.sel = f.sel /\ h.text = f.text
  BY <1>1, <1>2, DrawnIs DEF Drawn
<1> QED BY <1>3 DEF DrawnFits, h

LEMMA ResourcesFit ==
    ASSUME NEW f, DrawnFits(f), NEW value \in Values
    PROVE  DrawnFits([f EXCEPT !.res[f.server] = value])
<1> DEFINE h == [f EXCEPT !.res[f.server] = value]
           res == [f.res EXCEPT ![f.server] = value]
<1>1. res \in Resources
  BY DrawnIs DEF Resources, Density!Numbers
<1>2. h = [sel |-> f.sel, text |-> f.text, spacing |-> f.spacing, padding |-> f.padding,
           kept |-> f.kept, server |-> f.server, res |-> res]
  BY DrawnIs
<1> HIDE DEF h, res
<1>3. h \in Drawn /\ h.sel = f.sel /\ h.text = f.text
  BY <1>1, <1>2, DrawnIs DEF Drawn
<1> QED BY <1>3 DEF DrawnFits, h

LEMMA FilledFormFits ==
    ASSUME NEW f, DrawnFits(f), NEW m, NEW r, CopyOf(r, m)
    PROVE  DrawnFits(Density!Filled(f, r)) /\ Density!Filled(f, r).server = r.server
<1> DEFINE g == Density!Synced(f, r.part)
           h == Density!Filled(f, r)
           res == [f.res EXCEPT ![r.server] = r.res]
<1>1. /\ r.part \in Density!Parts /\ r.part[1] \cap r.part[2] = {} /\ r.server \in Servers
      /\ r.res \in Density!Numbers /\ r.grid \in Density!Grids /\ r.grid.spacing \in Density!Numbers
  BY DEF CopyOf, Density!Records, Density!Grids
<1>2. g = [sel |-> r.part, text |-> r.part, spacing |-> f.spacing, padding |-> f.padding,
           kept |-> f.kept, server |-> f.server, res |-> f.res] /\ DrawnFits(g)
  BY <1>1, SyncedFormFits
<1>3. res \in Resources
  BY <1>1, DrawnIs DEF Resources
<1>4. h = [g EXCEPT !.server = r.server, !.res[r.server] = r.res,
                    !.spacing = r.grid.spacing, !.kept = r.grid]
  BY DEF Density!Filled
<1> HIDE DEF g, h
<1>5. h = [sel |-> r.part, text |-> r.part, spacing |-> r.grid.spacing, padding |-> f.padding,
           kept |-> r.grid, server |-> r.server, res |-> res]
  BY <1>2, <1>4
<1> HIDE DEF res
<1>6. r.part \in [1..2 -> {Absent} \cup SUBSET Atoms]
  BY <1>1 DEF Density!Parts
<1>7. h \in Drawn /\ h.sel = r.part /\ h.text = r.part /\ h.server = r.server
  BY <1>1, <1>3, <1>5, <1>6, DrawnIs DEF Drawn
<1> QED BY <1>1, <1>7 DEF DrawnFits, h

LEMMA InputsFit ==
    ASSUME NEW f, DrawnFits(f)
    PROVE  LET w == Density!Inputs(f) IN
           w \in Density!Requests /\ w.part = f.text /\ w.server = f.server
<1>1. Density!Grid(f) \in Density!Grids
  BY DrawnIs DEF Density!Grid, Density!Grids
<1>2. f.res[f.server] \in Density!Numbers
  BY DrawnIs DEF Resources
<1> QED BY <1>1, <1>2, DrawnIs DEF Density!Inputs, Density!Requests

\* Fragments that may be submitted are apart, as they are drawn.
LEMMA PartitionsApart ==
    ASSUME NEW f, DrawnFits(f), Density!Partitions(f)
    PROVE  f.text \in Density!Parts /\ f.text[1] \cap f.text[2] = {}
<1>1. f.text[1] # Absent /\ f.text[2] # Absent
  BY DEF Density!Partitions, Density!Assigns, Density!Malformed
<1>2. f.text[1] = f.sel[1] /\ f.text[2] = f.sel[2]
  BY <1>1 DEF DrawnFits
<1>3. f.text \in Density!Parts
  BY <1>2, DrawnIs DEF Density!Parts
<1> QED BY <1>2, <1>3 DEF DrawnFits

----------------------------------------------------------------------------
(* The tab and the list.                                                   *)

LEMMA TabIs ==
    ASSUME NEW t \in Tabs
    PROVE  /\ t.task \in {Absent} \cup Density!Records /\ t.form \in Drawn
           /\ t.worker \in {Absent} \cup Density!Workers /\ t.suppressed \in SUBSET Keys
           /\ t = [task |-> t.task, form |-> t.form, worker |-> t.worker, suppressed |-> t.suppressed]
BY DEF Tabs

LEMMA ListIs ==
    ASSUME NEW l \in Lists
    PROVE  /\ l.rows \in Density!Table /\ l.worker \in {Absent} \cup Density!Workers /\ l.suppressed \in SUBSET Keys
           /\ l = [rows |-> l.rows, worker |-> l.worker, suppressed |-> l.suppressed]
BY DEF Lists

LEMMA KeyIs ==
    ASSUME NEW r \in Density!Records
    PROVE  /\ Density!Key(r) \in Keys /\ Density!Key(r)[1] = r.id
           /\ \A q \in Density!Records : Density!Key(q) = Density!Key(r) <=> q.id = r.id /\ q.job = r.job
BY DEF Density!Key, Keys, Density!Records

\* What of the knowledge of a place survives a step of it.
TabKeeps(t, u) == \A k : Knows(t, k) /\ ShownAs(u, k) => Knows(u, k)
ListKeeps(l, n) == \A k : Knows(l, k) /\ ListedAs(n, k) => Knows(n, k)

\* A worker is begun or answers, or is dropped.
LEMMA TabWorks ==
    ASSUME NEW m, NEW t, TabFits(t, m), NEW w \in Density!Workers, TabWorkerFits(t, w, m)
    PROVE  /\ TabFits([t EXCEPT !.worker = w], m)
           /\ (w.answer.kind # "none" /\ t.worker # Absent /\ t.worker.answer.kind = "none")
              \/ t.worker = Absent => TabKeeps(t, [t EXCEPT !.worker = w])
<1> DEFINE u == [t EXCEPT !.worker = w]
<1>1. t \in Tabs
  BY DEF TabFits
<1>2. u \in Tabs /\ u.worker = w /\ u.task = t.task /\ u.form = t.form /\ u.suppressed = t.suppressed
  BY <1>1 DEF Tabs
<1> HIDE DEF u
<1>3. TabWorkerFits(u, w, m)
  BY <1>2 DEF TabWorkerFits
<1>4. TabFits(u, m)
  BY <1>2, <1>3 DEF TabFits
<1>5. ASSUME (w.answer.kind # "none" /\ t.worker # Absent /\ t.worker.answer.kind = "none") \/ t.worker = Absent
      PROVE  TabKeeps(t, u)
  BY <1>2, <1>5 DEF TabKeeps, Knows
<1> QED BY <1>4, <1>5 DEF u

LEMMA TabDone ==
    ASSUME NEW m, NEW t, TabFits(t, m)
    PROVE  LET u == Density!Done(t) IN
           /\ TabFits(u, m) /\ u.task = t.task /\ u.form = t.form /\ u.worker = Absent
           /\ u.suppressed = t.suppressed
           /\ t.worker # Absent /\ t.worker.answer.kind # "cancel" => TabKeeps(t, u)
<1> DEFINE u == Density!Done(t)
<1>1. t \in Tabs
  BY DEF TabFits
<1>2. u \in Tabs /\ u.worker = Absent /\ u.task = t.task /\ u.form = t.form /\ u.suppressed = t.suppressed
  BY <1>1 DEF Tabs, Density!Done
<1> HIDE DEF u
<1>3. TabFits(u, m)
  BY <1>2 DEF TabFits
<1>4. t.worker # Absent /\ t.worker.answer.kind # "cancel" => TabKeeps(t, u)
  BY <1>2 DEF TabKeeps, Knows
<1> QED BY <1>2, <1>3, <1>4 DEF u

\* A record is shown; a cancellation is forgotten only when its job is not active in it.
LEMMA ShowsFits ==
    ASSUME NEW m, NEW t, TabFits(t, m), t.worker = Absent, NEW r, CopyOf(r, m)
    PROVE  LET u == Density!Shows(t, r) IN
           /\ TabFits(u, m) /\ u.task = r /\ u.worker = Absent
           /\ \A k : k \in t.suppressed /\ ShownAs(u, k) => k \in u.suppressed
<1> DEFINE u == Density!Shows(t, r)
           f == Density!Filled(t.form, r)
           s == IF r.job # Absent /\ r.state \notin Density!Active
                THEN t.suppressed \ {Density!Key(r)} ELSE t.suppressed
<1>1. t \in Tabs /\ DrawnFits(t.form) /\ r \in Density!Records
  BY DEF TabFits, CopyOf
<1>2. DrawnFits(f) /\ f.server = r.server
  BY <1>1, FilledFormFits
<1>3. f \in Drawn /\ s \in SUBSET Keys
  BY <1>1, <1>2, TabIs DEF DrawnFits
<1>4. u = [t EXCEPT !.task = r, !.form = f, !.suppressed = s]
  BY <1>1 DEF Density!Shows, Tabs
<1> HIDE DEF u, f
<1>5. \A k : k \in t.suppressed /\ ~(k \in s) => k = Density!Key(r) /\ r.state \notin Density!Active
  OBVIOUS
<1> HIDE DEF s
<1>6. u = [task |-> r, form |-> f, worker |-> t.worker, suppressed |-> s]
  BY <1>1, <1>4 DEF Tabs
<1>7. u \in Tabs /\ u.task = r /\ u.form = f /\ u.worker = Absent /\ u.suppressed = s
  BY <1>1, <1>3, <1>6, TabIs DEF Tabs
<1>8. TabFits(u, m)
  BY <1>2, <1>7 DEF TabFits
<1>9. ASSUME NEW k, k \in t.suppressed, ShownAs(u, k) PROVE k \in u.suppressed
  BY <1>5, <1>7, <1>9 DEF ShownAs
<1> QED BY <1>7, <1>8, <1>9 DEF u

LEMMA NewTabFits ==
    ASSUME NEW m
    PROVE  /\ TabFits(Density!NewTab, m) /\ Density!NewTab.worker = Absent
           /\ Density!NewTab.suppressed = {} /\ Density!NewTab.task = Absent
<1> DEFINE f == Density!NewForm
<1>1. <<{}, {}>> \in Density!Parts /\ <<{}, {}>> \in [1..2 -> {Absent} \cup SUBSET Atoms]
  BY DEF Density!Parts
<1>2. Preset \in Resources /\ 1 \in Density!Numbers /\ Home \in Servers
  BY TasksConstants DEF Resources, Density!Numbers
<1>3. f = [sel |-> <<{}, {}>>, text |-> <<{}, {}>>, spacing |-> 1, padding |-> 1, kept |-> Absent,
           server |-> Home, res |-> Preset]
  BY DEF Density!NewForm
<1> HIDE DEF f
<1>4. f \in Drawn /\ f.sel = <<{}, {}>> /\ f.text = <<{}, {}>>
  BY <1>1, <1>2, <1>3 DEF Drawn
<1>5. DrawnFits(f)
  BY <1>4 DEF DrawnFits
<1>6. Density!NewTab = [task |-> Absent, form |-> f, worker |-> Absent, suppressed |-> {}]
  BY DEF Density!NewTab, f
<1> QED BY <1>4, <1>5, <1>6 DEF TabFits, Tabs

\* The same of the list.
LEMMA ListWorks ==
    ASSUME NEW m, NEW l, ListFits(l, m), NEW w \in Density!Workers, ListWorkerFits(l, w, m)
    PROVE  /\ ListFits([l EXCEPT !.worker = w], m)
           /\ (w.answer.kind # "none" /\ l.worker # Absent /\ l.worker.answer.kind = "none")
              \/ l.worker = Absent => ListKeeps(l, [l EXCEPT !.worker = w])
<1> DEFINE u == [l EXCEPT !.worker = w]
<1>1. l \in Lists
  BY DEF ListFits
<1>2. u \in Lists /\ u.worker = w /\ u.rows = l.rows /\ u.suppressed = l.suppressed
  BY <1>1 DEF Lists
<1> HIDE DEF u
<1>3. ListWorkerFits(u, w, m)
  BY <1>2 DEF ListWorkerFits
<1>4. ListFits(u, m)
  BY <1>2, <1>3 DEF ListFits, ListedAs
<1>5. ASSUME (w.answer.kind # "none" /\ l.worker # Absent /\ l.worker.answer.kind = "none") \/ l.worker = Absent
      PROVE  ListKeeps(l, u)
  BY <1>2, <1>5 DEF ListKeeps, Knows
<1> QED BY <1>4, <1>5 DEF u

LEMMA ListDone ==
    ASSUME NEW m, NEW l, ListFits(l, m)
    PROVE  LET u == Density!Done(l) IN
           /\ ListFits(u, m) /\ u.rows = l.rows /\ u.worker = Absent /\ u.suppressed = l.suppressed
           /\ l.worker # Absent /\ l.worker.answer.kind # "cancel" => ListKeeps(l, u)
<1> DEFINE u == Density!Done(l)
<1>1. l \in Lists
  BY DEF ListFits
<1>2. u \in Lists /\ u.worker = Absent /\ u.rows = l.rows /\ u.suppressed = l.suppressed
  BY <1>1 DEF Lists, Density!Done
<1> HIDE DEF u
<1>3. ListFits(u, m)
  BY <1>2 DEF ListFits, ListedAs
<1>4. l.worker # Absent /\ l.worker.answer.kind # "cancel" => ListKeeps(l, u)
  BY <1>2 DEF ListKeeps, Knows
<1> QED BY <1>2, <1>3, <1>4 DEF u

\* A row is replaced; what is remembered of its task is what the new row shows.
LEMMA UpdatedFits ==
    ASSUME NEW m, NEW l, ListFits(l, m), NEW r, CopyOf(r, m)
    PROVE  LET n == Density!Updated(l, r) IN
           ListFits(n, m) /\ n.worker = l.worker /\ ListKeeps(l, n)
<1> DEFINE n == Density!Updated(l, r)
           rows == [l.rows EXCEPT ![r.id] = r]
           s == Density!StillActive(l.suppressed, r.id, r)
<1>1. CASE l = Absent \/ r.server # Home
  BY <1>1 DEF Density!Updated, ListKeeps
<1>2. CASE ~(l = Absent \/ r.server # Home)
  <2>1. l \in Lists /\ r \in Density!Records /\ r.id \in Density!Tasks /\ r # Absent /\ r.server = Home
    BY <1>2, TasksConstants DEF ListFits, CopyOf, Density!Records
  <2>2. n = [l EXCEPT !.rows = rows, !.suppressed = s]
    BY <1>2, <2>1 DEF Density!Updated, Lists
  <2>3. \A k : k \in s <=> /\ k \in l.suppressed
                           /\ k[1] # r.id \/ (k = Density!Key(r) /\ r.state \in Density!Active)
    BY <2>1 DEF Density!StillActive
  <2>4. /\ rows \in Density!Table /\ rows[r.id] = r
        /\ \A i \in Density!Tasks : i # r.id => rows[i] = l.rows[i]
    BY <2>1, ListIs DEF Density!Table
  <2> HIDE DEF n, rows, s
  <2>5. n = [rows |-> rows, worker |-> l.worker, suppressed |-> s]
    BY <2>1, <2>2 DEF Lists
  <2>6. s \in SUBSET Keys
    BY <2>1, <2>3, ListIs
  <2>7. n \in Lists /\ n.rows = rows /\ n.worker = l.worker /\ n.suppressed = s
    BY <2>1, <2>4, <2>5, <2>6, ListIs DEF Lists
  <2>8. RowsFit(rows, m)
    BY <2>1, <2>4 DEF ListFits, RowsFit
  <2>9. ASSUME NEW k \in s PROVE ListedAs(n, k)
    <3>1. k[1] \in Density!Tasks /\ k \in l.suppressed /\ ListedAs(l, k)
      BY <2>1, <2>3, <2>9, ListIs DEF Keys, ListFits
    <3>2. CASE k[1] # r.id
      BY <2>4, <2>7, <3>1, <3>2 DEF ListedAs
    <3>3. CASE k = Density!Key(r) /\ r.state \in Density!Active
      BY <2>1, <2>4, <2>7, <3>3, KeyIs DEF ListedAs
    <3> QED BY <2>3, <3>2, <3>3
  <2>10. ASSUME l.worker # Absent PROVE ListWorkerFits(n, l.worker, m)
    BY <2>3, <2>7, <2>10 DEF ListFits, ListWorkerFits
  <2>11. ListFits(n, m)
    BY <2>7, <2>8, <2>9, <2>10 DEF ListFits
  <2>12. ASSUME NEW k, Knows(l, k), ListedAs(n, k) PROVE Knows(n, k)
    <3>1. CASE k \in l.suppressed
      <4>1. k[1] \in Density!Tasks
        BY <2>1, <3>1, ListIs DEF Keys
      <4>2. k[1] = r.id => k = Density!Key(r) /\ r.state \in Density!Active
        BY <2>4, <2>7, <2>12 DEF ListedAs
      <4> QED BY <2>3, <2>7, <3>1, <4>2 DEF Knows
    <3> QED BY <2>7, <2>12, <3>1 DEF Knows
  <2> QED BY <2>7, <2>11, <2>12 DEF ListKeeps, n
<1> QED BY <1>1, <1>2

----------------------------------------------------------------------------
(* A step, and what is remembered of the cancellations.                    *)

TasksKept == TasksInv' /\ Density!CancelStep

LEMMA AskedStep ==
    ASSUME TasksInv, Density!Remembered,
           tab # Absent /\ tab' # Absent => TabKeeps(tab, tab'),
           list # Absent /\ list' # Absent => ListKeeps(list, list'),
           Density!Dispatched("tab") =>
               /\ Density!DispatchedKey \in Keys /\ Density!DispatchedKey \notin asked["tab"]
               /\ tab' # Absent => Knows(tab', Density!DispatchedKey),
           Density!Dispatched("list") =>
               /\ Density!DispatchedKey \in Keys /\ Density!DispatchedKey \notin asked["list"]
               /\ list' # Absent => Knows(list', Density!DispatchedKey)
    PROVE  AskedFits' /\ Density!CancelStep
<1> DEFINE more(place) == IF Density!Dispatched(place) THEN {Density!DispatchedKey} ELSE {}
<1>1. /\ asked["tab"] \in SUBSET Keys /\ asked["list"] \in SUBSET Keys
      /\ \A k \in asked["tab"] : tab # Absent /\ Knows(tab, k)
      /\ \A k \in asked["list"] : list # Absent /\ Knows(list, k)
  BY DEF TasksInv, AskedFits
<1>2. more("tab") \subseteq Keys /\ more("list") \subseteq Keys
  OBVIOUS
<1>3. asked' = [place \in {"tab", "list"} |->
                   {k \in asked[place] \cup more(place) : Density!ActiveIn(place, k)'}]
  BY DEF Density!Remembered
<1>4. \A k : k \in more("tab") => Density!Dispatched("tab") /\ k = Density!DispatchedKey
  OBVIOUS
<1>5. \A k : k \in more("list") => Density!Dispatched("list") /\ k = Density!DispatchedKey
  OBVIOUS
<1> HIDE DEF more
<1>6. asked'["tab"] \in SUBSET Keys /\ asked'["list"] \in SUBSET Keys
  BY <1>1, <1>2, <1>3
<1>7. asked' \in [{"tab", "list"} -> SUBSET Keys]
  BY <1>3, <1>6
<1>8. ASSUME NEW k \in asked'["tab"] PROVE tab' # Absent /\ ShownAs(tab', k) /\ Knows(tab', k)
  <2>1. Density!ActiveIn("tab", k)' /\ (k \in asked["tab"] \/ k \in more("tab"))
    BY <1>3, <1>8
  <2>2. tab' # Absent /\ ShownAs(tab', k)
    BY <2>1 DEF Density!ActiveIn, ShownAs
  <2> QED BY <1>1, <1>4, <2>1, <2>2 DEF TabKeeps
<1>9. ASSUME NEW k \in asked'["list"] PROVE list' # Absent /\ ListedAs(list', k) /\ Knows(list', k)
  <2>1. Density!ActiveIn("list", k)' /\ (k \in asked["list"] \/ k \in more("list"))
    BY <1>3, <1>9
  <2>2. list' # Absent /\ ListedAs(list', k)
    BY <2>1 DEF Density!ActiveIn, ListedAs
  <2> QED BY <1>1, <1>5, <2>1, <2>2 DEF ListKeeps
<1>10. AskedFits'
  BY <1>7, <1>8, <1>9 DEF AskedFits
<1> QED BY <1>10 DEF Density!CancelStep

LEMMA QuietStep ==
    ASSUME TasksInv, Density!Remembered, sent' = sent, TasksFit(records', queue'),
           tab' # Absent => TabFits(tab', records'), list' # Absent => ListFits(list', records'),
           tab # Absent /\ tab' # Absent => TabKeeps(tab, tab'),
           list # Absent /\ list' # Absent => ListKeeps(list, list')
    PROVE  TasksKept
<1>1. sent.count \in Nat
  BY DEF TasksInv
<1>2. ~Density!Dispatched("tab") /\ ~Density!Dispatched("list")
  BY <1>1 DEF Density!Dispatched
<1>3. AskedFits' /\ Density!CancelStep
  BY <1>2, AskedStep
<1> QED BY <1>1, <1>3 DEF TasksInv, TasksKept

LEMMA KeepsSelf == \A p : TabKeeps(p, p) /\ ListKeeps(p, p)
BY DEF TabKeeps, ListKeeps

LEMMA TabOnly ==
    ASSUME TasksInv, Density!Remembered, UNCHANGED <<records, queue, list, sent>>,
           tab' # Absent => TabFits(tab', records), tab # Absent /\ tab' # Absent => TabKeeps(tab, tab')
    PROVE  TasksKept
<1>1. TasksFit(records', queue') /\ (list' # Absent => ListFits(list', records'))
  BY DEF TasksInv
<1> QED BY <1>1, QuietStep, KeepsSelf

LEMMA ListOnly ==
    ASSUME TasksInv, Density!Remembered, UNCHANGED <<records, queue, tab, sent>>,
           list' # Absent => ListFits(list', records), list # Absent /\ list' # Absent => ListKeeps(list, list')
    PROVE  TasksKept
<1>1. TasksFit(records', queue') /\ (tab' # Absent => TabFits(tab', records'))
  BY DEF TasksInv
<1> QED BY <1>1, QuietStep, KeepsSelf

\* Records and jobs change; what the two places hold stays copies.
LEMMA OthersOnly ==
    ASSUME TasksInv, Density!Remembered, UNCHANGED <<tab, list, sent>>, TasksFit(records', queue'),
           Same(records, records')
    PROVE  TasksKept
<1>1. tab # Absent => TabFits(tab, records')
  BY TabStays DEF TasksInv
<1>2. list # Absent => ListFits(list, records')
  BY ListStays DEF TasksInv
<1> QED BY <1>1, <1>2, QuietStep, KeepsSelf

----------------------------------------------------------------------------
(* Gestures.                                                               *)

LEMMA TabEditKeeps ==
    ASSUME TasksInv, Density!Remembered, NEW g, Density!EditForm(g), DrawnFits(g)
    PROVE  TasksKept
<1>1. /\ tab # Absent /\ tab.worker = Absent /\ (tab.task # Absent => tab.task.state \in Density!Stopped)
      /\ tab' = [tab EXCEPT !.form = g] /\ UNCHANGED <<records, queue, list, sent>>
  BY DEF Density!EditForm, Density!Editable
<1>2. TabFits(tab, records) /\ tab \in Tabs /\ g \in Drawn
  BY <1>1 DEF TasksInv, TabFits, DrawnFits
<1>3. /\ tab' \in Tabs /\ tab'.form = g /\ tab'.task = tab.task /\ tab'.worker = Absent
      /\ tab'.suppressed = tab.suppressed
  BY <1>1, <1>2 DEF Tabs
<1>4. TabFits(tab', records)
  BY <1>1, <1>2, <1>3 DEF TabFits
<1>5. TabKeeps(tab, tab')
  BY <1>1, <1>3 DEF TabKeeps, Knows
<1> QED BY <1>1, <1>4, <1>5, TabOnly

LEMMA EditsKeep ==
    ASSUME TasksInv, Density!Remembered, Density!Edits
    PROVE  TasksKept
<1>1. tab # Absent => DrawnFits(tab.form)
  BY DEF TasksInv, TabFits
<1>2. ASSUME NEW a \in 1..2, NEW atoms \in SUBSET Atoms, NEW remove \in BOOLEAN,
             Density!AssignAtoms(a, atoms, remove)
      PROVE  TasksKept
  <2> DEFINE s == Density!Assigned(tab.form.sel, a, atoms, remove)
  <2>1. tab # Absent /\ Density!EditForm(Density!Synced(tab.form, s))
    BY <1>2 DEF Density!AssignAtoms
  <2>2. s \in Density!Parts /\ s[1] \cap s[2] = {}
    BY <1>1, <2>1, AssignedFits
  <2> HIDE DEF s
  <2>3. DrawnFits(Density!Synced(tab.form, s))
    BY <1>1, <2>1, <2>2, SyncedFormFits
  <2> QED BY <2>1, <2>3, TabEditKeeps
<1>3. ASSUME NEW a \in 1..2, NEW atoms \in Selections, NEW remove \in BOOLEAN,
             Density!AssignAtoms(a, atoms, remove)
      PROVE  TasksKept
  BY <1>2, <1>3, TasksConstants
<1>4. ASSUME NEW a \in 1..2, NEW atom \in Atoms, Density!PickAtom(a, atom)
      PROVE  TasksKept
  <2>1. Density!AssignAtoms(a, {atom}, atom \in tab.form.sel[a])
    BY <1>4 DEF Density!PickAtom
  <2>2. (atom \in tab.form.sel[a]) \in BOOLEAN /\ {atom} \in SUBSET Atoms
    OBVIOUS
  <2> QED BY <1>2, <2>1, <2>2
<1>5. ASSUME NEW a \in 1..2, NEW text \in Selections \cup {Absent}, Density!TypeAtoms(a, text)
      PROVE  TasksKept
  BY <1>1, <1>5, TypedFits, TabEditKeeps DEF Density!TypeAtoms
<1>6. ASSUME NEW a \in 1..2, Density!AddRemaining(a)
      PROVE  TasksKept
  BY <1>2, <1>6 DEF Density!AddRemaining
<1>7. ASSUME NEW field \in {"spacing", "padding"}, NEW value \in Values, Density!EditGrid(field, value)
      PROVE  TasksKept
  BY <1>1, <1>7, GridEditedFits, TabEditKeeps DEF Density!EditGrid
<1>8. ASSUME NEW s \in Servers, Density!SelectServer(s)
      PROVE  TasksKept
  BY <1>1, <1>8, ServerChangedFits, TabEditKeeps DEF Density!SelectServer
<1>9. ASSUME NEW value \in Values, Density!EditResources(value)
      PROVE  TasksKept
  BY <1>1, <1>9, ResourcesFit, TabEditKeeps DEF Density!EditResources
<1> QED BY <1>3, <1>4, <1>5, <1>6, <1>7, <1>8, <1>9 DEF Density!Edits, Density!Malformed

LEMMA NoReply ==
    /\ \A m : ReplyFits(Density!NoAnswer, m)
    /\ Density!NoAnswer.kind = "none" /\ Density!NoAnswer.task = Absent
BY DEF ReplyFits, Density!NoAnswer, Density!Answers

LEMMA TabStartKeeps ==
    ASSUME TasksInv, Density!Remembered, tab # Absent, tab.worker = Absent,
           NEW op \in {"submit", "refresh", "recover", "retry", "cancel"}, Density!Start(op),
           op = "submit" => Density!Partitions(tab.form),
           op # "submit" => tab.task # Absent,
           op = "cancel" => /\ tab.task.state \notin Density!Stopped
                            /\ Density!Key(tab.task) \notin tab.suppressed
    PROVE  TasksKept
<1> DEFINE w == [op |-> op, task |-> tab.task, with |-> Density!Inputs(tab.form), answer |-> Density!NoAnswer]
<1>1. tab' = [tab EXCEPT !.worker = w] /\ UNCHANGED <<records, queue, list, sent>>
  BY DEF Density!Start
<1>2. /\ TabFits(tab, records) /\ tab \in Tabs /\ DrawnFits(tab.form)
      /\ tab.task \in {Absent} \cup Density!Records
      /\ tab.task # Absent => (tab.task.state \notin Density!Stopped => tab.form.server = tab.task.server)
  BY DEF TasksInv, TabFits, Tabs
<1>3. /\ Density!Inputs(tab.form) \in Density!Requests /\ Density!Inputs(tab.form).server = tab.form.server
      /\ Density!NoAnswer \in Density!Answers
  BY <1>2, InputsFit, NoReply DEF ReplyFits
<1>4. /\ w \in Density!Workers /\ w.op = op /\ w.task = tab.task /\ w.with = Density!Inputs(tab.form)
      /\ w.answer = Density!NoAnswer
  BY <1>2, <1>3 DEF Density!Workers
<1> HIDE DEF w
<1>5. op = "cancel" => Density!Found(w)
  BY <1>2, <1>3, <1>4 DEF Density!Found
<1>6. TabWorkerFits(tab, w, records)
  BY <1>3, <1>4, <1>5, NoReply DEF TabWorkerFits
<1>7. TabFits(tab', records) /\ TabKeeps(tab, tab')
  BY <1>1, <1>2, <1>4, <1>6, TabWorks
<1> QED BY <1>1, <1>7, TabOnly

LEMMA TabGestures ==
    ASSUME TasksInv, Density!Remembered,
           \/ Density!Submit \/ Density!StopRefresh \/ Density!RequestCancel \/ Density!CloseTab
           \/ Density!NewWorkspace \/ \E op \in {"refresh", "recover", "retry"} : Density!Remote(op)
    PROVE  TasksKept
<1>1. CASE Density!Submit
  BY <1>1, TabStartKeeps DEF Density!Submit, Density!Editable
<1>2. CASE Density!StopRefresh
  <2>1. /\ tab # Absent /\ tab.worker # Absent /\ tab.worker.op = "refresh"
        /\ tab' = Density!Done(tab) /\ UNCHANGED <<records, queue, list, sent>>
    BY <1>2 DEF Density!StopRefresh, Density!Done
  <2>2. TabFits(tab, records) /\ tab.worker.answer.kind # "cancel"
    BY <2>1 DEF TasksInv, TabFits, TabWorkerFits
  <2>3. TabFits(tab', records) /\ TabKeeps(tab, tab')
    BY <2>1, <2>2, TabDone
  <2> QED BY <2>1, <2>3, TabOnly
<1>3. CASE Density!RequestCancel
  <2>1. /\ tab # Absent /\ tab.worker = Absent /\ tab.task # Absent /\ tab.task.state \in Density!Active
        /\ Density!Key(tab.task) \notin tab.suppressed /\ Density!Start("cancel")
    BY <1>3 DEF Density!RequestCancel
  <2>2. tab.task.state \notin Density!Stopped
    BY <2>1, StatesAre
  <2> QED BY <2>1, <2>2, TabStartKeeps
<1>4. CASE Density!CloseTab
  BY <1>4, TabOnly DEF Density!CloseTab
<1>5. CASE Density!NewWorkspace
  BY <1>5, TabOnly, NewTabFits DEF Density!NewWorkspace
<1>6. ASSUME NEW op \in {"refresh", "recover", "retry"}, Density!Remote(op) PROVE TasksKept
  BY <1>6, TabStartKeeps DEF Density!Remote
<1> QED BY <1>1, <1>2, <1>3, <1>4, <1>5, <1>6

LEMMA StartInListKeeps ==
    ASSUME TasksInv, Density!Remembered, list # Absent,
           NEW op \in {"discover", "refresh", "cancel"}, NEW task, Density!StartInList(op, task),
           op = "discover" => task = Absent,
           op # "discover" => \E id \in Density!Tasks : list.rows[id] # Absent /\ task = list.rows[id],
           op = "cancel" => Density!Key(task) \notin list.suppressed
    PROVE  TasksKept
<1> DEFINE w == [op |-> op, task |-> task, with |-> [server |-> Home], answer |-> Density!NoAnswer]
<1>1. /\ list' = [list EXCEPT !.worker = w] /\ list.worker = Absent
      /\ UNCHANGED <<records, queue, tab, sent>>
  BY DEF Density!StartInList
<1>2. /\ ListFits(list, records) /\ list \in Lists /\ RowsFit(list.rows, records)
      /\ \A k \in list.suppressed : ListedAs(list, k)
  BY DEF TasksInv, ListFits
<1>3. op # "discover" => /\ CopyOf(task, records) /\ task.server = Home /\ task \in Density!Records
                         /\ list.rows[task.id] = task
  BY <1>2 DEF RowsFit, CopyOf
<1>0. [server |-> Home] \in [server : Servers]
  BY TasksConstants
<1>4. /\ w \in Density!Workers /\ w.op = op /\ w.task = task /\ w.answer = Density!NoAnswer
  BY <1>0, <1>3, NoReply DEF Density!Workers, ReplyFits
<1> HIDE DEF w
<1>5. op = "cancel" => \A k \in list.suppressed : k[1] # task.id
  BY <1>2, <1>3 DEF ListedAs
<1>6. ListWorkerFits(list, w, records)
  BY <1>3, <1>4, <1>5, NoReply DEF ListWorkerFits
<1>7. ListFits(list', records) /\ ListKeeps(list, list')
  BY <1>1, <1>2, <1>4, <1>6, ListWorks
<1> QED BY <1>1, <1>7, ListOnly

LEMMA OpenKeeps ==
    ASSUME TasksInv, Density!Remembered, NEW id \in Density!Tasks, Density!OpenFromList(id)
    PROVE  TasksKept
<1> DEFINE r == list.rows[id]
<1>1. /\ list # Absent /\ list.rows[id] # Absent /\ UNCHANGED <<records, queue, sent>>
      /\ \/ tab = Absent /\ Density!Load(Density!NewTab, list, r)
         \/ Density!Adopts(tab, id) /\ Density!Load(tab, list, r)
  BY DEF Density!OpenFromList
<1>2. ListFits(list, records) /\ CopyOf(r, records)
  BY <1>1 DEF TasksInv, ListFits, RowsFit
<1> HIDE DEF r
<1>3. list' = Density!Updated(list, r)
  BY <1>1 DEF Density!Load
<1>4. ListFits(list', records) /\ ListKeeps(list, list')
  BY <1>2, <1>3, UpdatedFits
<1>5. CASE tab = Absent /\ tab' = Density!Shows(Density!NewTab, r)
  BY <1>1, <1>2, <1>4, <1>5, NewTabFits, ShowsFits, QuietStep DEF TasksInv
<1>6. CASE tab # Absent /\ tab.worker = Absent /\ tab' = Density!Shows(tab, r)
  <2>1. TabFits(tab, records)
    BY <1>6 DEF TasksInv
  <2>2. TabFits(tab', records) /\ TabKeeps(tab, tab')
    BY <1>2, <1>6, <2>1, ShowsFits DEF TabKeeps, Knows
  <2> QED BY <1>1, <1>4, <2>2, QuietStep DEF TasksInv
<1> QED BY <1>1, <1>5, <1>6 DEF Density!Load, Density!Adopts

LEMMA ListGestures ==
    ASSUME TasksInv, Density!Remembered,
           \/ Density!OpenProjects \/ Density!CloseProjects \/ Density!DiscoverTasks
           \/ \E id \in Density!Tasks :
                 Density!RefreshRow(id) \/ Density!RequestListCancel(id) \/ Density!OpenFromList(id)
    PROVE  TasksKept
<1>1. CASE Density!OpenProjects
  <2>1. /\ list = Absent /\ UNCHANGED <<records, queue, tab, sent>>
        /\ list' = [rows |-> [i \in Density!Tasks |-> Absent], worker |-> Absent, suppressed |-> {}]
    BY <1>1 DEF Density!OpenProjects, Density!NewList
  <2>2. [i \in Density!Tasks |-> Absent] \in Density!Table
    BY DEF Density!Table
  <2>3. ListFits(list', records)
    BY <2>1, <2>2 DEF ListFits, Lists, RowsFit
  <2> QED BY <2>1, <2>3, ListOnly
<1>2. CASE Density!CloseProjects
  BY <1>2, ListOnly DEF Density!CloseProjects
<1>3. CASE Density!DiscoverTasks
  BY <1>3, StartInListKeeps DEF Density!DiscoverTasks
<1>4. ASSUME NEW id \in Density!Tasks, Density!RefreshRow(id) PROVE TasksKept
  BY <1>4, StartInListKeeps DEF Density!RefreshRow
<1>5. ASSUME NEW id \in Density!Tasks, Density!RequestListCancel(id) PROVE TasksKept
  BY <1>5, StartInListKeeps DEF Density!RequestListCancel
<1> QED BY <1>1, <1>2, <1>3, <1>4, <1>5, OpenKeeps

----------------------------------------------------------------------------
(* The service answers.                                                    *)

LEMMA ReplyIs ==
    /\ \A r : Density!Loads(r) = [kind |-> "task", task |-> r, rows |-> Absent, outcome |-> "none"]
    /\ \A r : Density!Fails(r) = [kind |-> "error", task |-> r, rows |-> Absent, outcome |-> "none"]
    /\ \A r, o : Density!Cancelled(r, o) = [kind |-> "cancel", task |-> r, rows |-> Absent, outcome |-> o]
<1> DEFINE none == Density!NoAnswer
<1>1. none = [kind |-> "none", task |-> Absent, rows |-> Absent, outcome |-> "none"]
  BY DEF Density!NoAnswer
<1>2. ASSUME NEW r, NEW kind, NEW h, h = [none EXCEPT !.kind = kind, !.task = r]
      PROVE  h = [kind |-> kind, task |-> r, rows |-> Absent, outcome |-> "none"]
  <2> HIDE DEF none
  <2> QED BY <1>1, <1>2
<1>3. ASSUME NEW r, NEW o, NEW h, h = [none EXCEPT !.kind = "cancel", !.task = r, !.outcome = o]
      PROVE  h = [kind |-> "cancel", task |-> r, rows |-> Absent, outcome |-> o]
  <2> HIDE DEF none
  <2> QED BY <1>1, <1>3
<1> QED BY <1>2, <1>3 DEF Density!Loads, Density!Fails, Density!Cancelled

LEMMA RepliesFit ==
    ASSUME NEW m
    PROVE  /\ \A r : CopyOf(r, m) => ReplyFits(Density!Loads(r), m) /\ ReplyFits(Density!Fails(r), m)
           /\ ReplyFits(Density!Fails(Absent), m)
           /\ \A r : CopyOf(r, m) => \A o \in {"requested", "unknown"} : ReplyFits(Density!Cancelled(r, o), m)
           /\ \A r : CopyOf(r, m) /\ r.state \in Density!Terminal =>
                  ReplyFits(Density!Cancelled(r, "terminal"), m)
BY ReplyIs DEF ReplyFits, Density!Answers, CopyOf

LEMMA AnswerTab ==
    ASSUME NEW m, NEW t, TabFits(t, m), t.worker # Absent, t.worker.answer = Density!NoAnswer,
           NEW a, ReplyFits(a, m), a.kind \in {"task", "error", "cancel"},
           a.kind = "cancel" => t.worker.op = "cancel"
    PROVE  LET u == [t EXCEPT !.worker = Density!Answered(@, a)] IN
           TabFits(u, m) /\ TabKeeps(t, u) /\ u.worker # Absent /\ u.worker.answer = a
<1> DEFINE w == t.worker
           v == Density!Answered(w, a)
           u == [t EXCEPT !.worker = v]
<1>1. w \in Density!Workers /\ TabWorkerFits(t, w, m) /\ w.answer.kind = "none" /\ t \in Tabs
  BY NoReply DEF TabFits, Tabs
<1>2. a \in Density!Answers /\ (a.kind = "cancel" => w.op = "cancel")
  BY DEF ReplyFits
<1> HIDE DEF w
<1>3. v \in Density!Workers /\ v.op = w.op /\ v.task = w.task /\ v.with = w.with /\ v.answer = a
  BY <1>1, <1>2 DEF Density!Workers, Density!Answered
<1> HIDE DEF v
<1>4. TabWorkerFits(t, v, m)
  BY <1>1, <1>2, <1>3 DEF TabWorkerFits, Density!Found
<1>5. TabFits(u, m) /\ TabKeeps(t, u)
  BY <1>1, <1>3, <1>4, TabWorks DEF w
<1>6. u.worker = v /\ v # Absent
  BY <1>1, <1>3, TasksConstants DEF Tabs
<1> QED BY <1>3, <1>5, <1>6 DEF v, w

LEMMA AnswerList ==
    ASSUME NEW m, NEW l, ListFits(l, m), l.worker # Absent, l.worker.answer = Density!NoAnswer,
           NEW a, ReplyFits(a, m), a.kind \in {"task", "error", "cancel", "rows"},
           a.task # Absent \/ a.kind \in {"task", "cancel"} => a.task.server = Home,
           a.kind = "cancel" => l.worker.op = "cancel"
    PROVE  LET u == [l EXCEPT !.worker = Density!Answered(@, a)] IN
           ListFits(u, m) /\ ListKeeps(l, u) /\ u.worker # Absent /\ u.worker.answer = a
<1> DEFINE w == l.worker
           v == Density!Answered(w, a)
           u == [l EXCEPT !.worker = v]
<1>1. w \in Density!Workers /\ ListWorkerFits(l, w, m) /\ w.answer.kind = "none" /\ l \in Lists
  BY NoReply DEF ListFits, Lists
<1>2. a \in Density!Answers /\ (a.kind = "cancel" => w.op = "cancel")
  BY DEF ReplyFits
<1> HIDE DEF w
<1>3. v \in Density!Workers /\ v.op = w.op /\ v.task = w.task /\ v.with = w.with /\ v.answer = a
  BY <1>1, <1>2 DEF Density!Workers, Density!Answered
<1> HIDE DEF v
<1>4. ListWorkerFits(l, v, m)
  BY <1>1, <1>2, <1>3 DEF ListWorkerFits
<1>5. ListFits(u, m) /\ ListKeeps(l, u)
  BY <1>1, <1>3, <1>4, ListWorks DEF w
<1>6. u.worker = v /\ v # Absent
  BY <1>1, <1>3, TasksConstants DEF Lists
<1> QED BY <1>3, <1>5, <1>6 DEF v, w

\* An answer for the tab, with records that go on.
LEMMA TabAnswers ==
    ASSUME TasksInv, Density!Remembered, tab # Absent, tab.worker # Absent,
           tab.worker.answer = Density!NoAnswer, UNCHANGED <<list, sent>>,
           TasksFit(records', queue'), Same(records, records'),
           NEW a, ReplyFits(a, records'), a.kind \in {"task", "error", "cancel"},
           a.kind = "cancel" => tab.worker.op = "cancel",
           tab' = [tab EXCEPT !.worker = Density!Answered(@, a)]
    PROVE  TasksKept
<1>1. TabFits(tab, records') /\ (list # Absent => ListFits(list, records'))
  BY TabStays, ListStays DEF TasksInv
<1>2. TabFits(tab', records') /\ TabKeeps(tab, tab')
  BY <1>1, AnswerTab
<1> QED BY <1>1, <1>2, QuietStep, KeepsSelf

LEMMA ListAnswers ==
    ASSUME TasksInv, Density!Remembered, list # Absent, list.worker # Absent,
           list.worker.answer = Density!NoAnswer, UNCHANGED <<tab, sent>>,
           TasksFit(records', queue'), Same(records, records'),
           NEW a, ReplyFits(a, records'), a.kind \in {"task", "error", "cancel", "rows"},
           a.task # Absent \/ a.kind \in {"task", "cancel"} => a.task.server = Home,
           a.kind = "cancel" => list.worker.op = "cancel",
           list' = [list EXCEPT !.worker = Density!Answered(@, a)]
    PROVE  TasksKept
<1>1. ListFits(list, records') /\ (tab # Absent => TabFits(tab, records'))
  BY TabStays, ListStays DEF TasksInv
<1>2. ListFits(list', records') /\ ListKeeps(list, list')
  BY <1>1, AnswerList
<1> QED BY <1>1, <1>2, QuietStep, KeepsSelf

LEMMA AnswerKeeps ==
    ASSUME TasksInv, Density!Remembered, NEW place \in {"tab", "list"}, NEW op,
           Density!Waits(Density!Place(place), op), sent' = sent,
           TasksFit(records', queue'), Same(records, records'),
           NEW a, ReplyFits(a, records'), a.kind \in {"task", "error", "cancel"},
           a.kind = "cancel" => op = "cancel",
           place = "list" => (a.task # Absent \/ a.kind \in {"task", "cancel"} => a.task.server = Home),
           Density!Answer(place, a)
    PROVE  TasksKept
<1>1. CASE place = "tab"
  BY <1>1, TabAnswers DEF Density!Waits, Density!Place, Density!Answer
<1>2. CASE place = "list"
  BY <1>2, ListAnswers DEF Density!Waits, Density!Place, Density!Answer
<1> QED BY <1>1, <1>2

\* A dispatch: a job or none, and a record of it.
LEMMA DispatchKeeps ==
    ASSUME TasksInv, Density!Remembered, NEW op, Density!Waits(tab, op),
           NEW r \in Density!Records, r.part[1] \cap r.part[2] = {}, r.job = Absent,
           records[r.id] # Absent => r.server = records[r.id].server,
           Density!Dispatch(r), UNCHANGED <<list, sent>>
    PROVE  TasksKept
<1>1. TasksFit(records, queue) /\ tab # Absent /\ tab.worker # Absent /\ tab.worker.answer = Density!NoAnswer
  BY DEF TasksInv, Density!Waits
<1>2. r.id \in Density!Tasks /\ r.number \in Nat /\ "QUEUED" \in Density!Active
  BY StatesAre DEF Density!Records
<1>3. ASSUME NEW c \in Density!Records, c.id = r.id, c.part = r.part, c.server = r.server, NEW a,
             JobsStay(queue, queue'),
             c.job # Absent => queue'[c.job] # Absent /\ queue'[c.job].id = r.id,
             records' = [records EXCEPT ![r.id] = c], a = Density!Loads(c) \/ a = Density!Fails(c),
             tab' = [tab EXCEPT !.worker = Density!Answered(@, a)]
      PROVE  TasksKept
  <2>1. TasksFit(records', queue') /\ Same(records, records') /\ CopyOf(c, records')
    BY <1>1, <1>3, TaskRecorded
  <2>2. ReplyFits(Density!Loads(c), records') /\ ReplyFits(Density!Fails(c), records')
    BY <2>1, RepliesFit
  <2>3. Density!Loads(c).kind = "task" /\ Density!Fails(c).kind = "error"
    BY ReplyIs
  <2>4. ReplyFits(a, records') /\ a.kind \in {"task", "error"}
    BY <1>3, <2>2, <2>3
  <2> QED BY <1>1, <1>3, <2>1, <2>4, TabAnswers
<1>4. ASSUME NEW j \in Density!NewJob,
             queue' = [queue EXCEPT ![j] = [id |-> r.id, number |-> r.number, state |-> "QUEUED"]]
      PROVE  /\ JobsStay(queue, queue') /\ queue'[j] # Absent /\ queue'[j].id = r.id
             /\ j \in Density!Jobs
  <2> DEFINE b == [id |-> r.id, number |-> r.number, state |-> "QUEUED"]
  <2>1. b \in Density!JobRecords /\ b.id = r.id
    BY <1>2 DEF Density!JobRecords
  <2> HIDE DEF b
  <2> QED BY <1>1, <1>4, <2>1, JobIsNew DEF b
<1>5. ASSUME NEW j \in Density!NewJob,
             queue' = [queue EXCEPT ![j] = [id |-> r.id, number |-> r.number, state |-> "QUEUED"]],
             records' = [records EXCEPT ![r.id] = [r EXCEPT !.state = "QUEUED", !.job = j]],
             tab' = [tab EXCEPT !.worker = Density!Answered(@, Density!Loads([r EXCEPT !.state = "QUEUED", !.job = j]))]
      PROVE  TasksKept
  <2> DEFINE c == [r EXCEPT !.state = "QUEUED", !.job = j]
  <2>1. c = [r EXCEPT !.state = "QUEUED", !.job = j]
    OBVIOUS
  <2> HIDE DEF c
  <2>2. c = [id |-> r.id, number |-> r.number, job |-> j, state |-> "QUEUED", part |-> r.part,
             grid |-> r.grid, server |-> r.server, res |-> r.res]
    BY <2>1 DEF Density!Records
  <2>3. c \in Density!Records /\ c.id = r.id /\ c.part = r.part /\ c.server = r.server /\ c.job = j
    BY <1>4, <1>5, <2>2, StatesAre DEF Density!Records
  <2> QED BY <1>3, <1>4, <1>5, <2>1, <2>3
<1>6. ASSUME NEW s \in Density!States, JobsStay(queue, queue'),
             records' = [records EXCEPT ![r.id] = [r EXCEPT !.state = s]], NEW a,
             a = Density!Loads([r EXCEPT !.state = s]) \/ a = Density!Fails([r EXCEPT !.state = s]),
             tab' = [tab EXCEPT !.worker = Density!Answered(@, a)]
      PROVE  TasksKept
  <2> DEFINE c == [r EXCEPT !.state = s]
  <2>1. c \in Density!Records /\ c.id = r.id /\ c.part = r.part /\ c.server = r.server /\ c.job = Absent
    BY RecordChanged
  <2> HIDE DEF c
  <2> QED BY <1>3, <1>6, <2>1 DEF c
<1>7. JobsStay(queue, queue)
  BY <1>1, JobsStaySelf
<1> QED BY <1>4, <1>5, <1>6, <1>7, StatesAre DEF Density!Dispatch

LEMMA TabWorkerIs ==
    ASSUME TasksInv, NEW op, Density!Waits(tab, op)
    PROVE  /\ tab # Absent /\ tab.worker # Absent /\ tab.worker.answer = Density!NoAnswer
           /\ tab.worker.op = op /\ TasksFit(records, queue) /\ DrawnFits(tab.form)
           /\ op = "submit" => tab.worker.with = Density!Inputs(tab.form) /\ Density!Partitions(tab.form)
           /\ op # "submit" => /\ tab.worker.task = tab.task /\ CopyOf(tab.task, records)
                               /\ tab.task.id \in Density!Tasks
           /\ op = "cancel" => Density!Key(tab.task) \notin tab.suppressed
           /\ tab.worker.with \in Density!Requests
<1>1. /\ tab # Absent /\ tab.worker # Absent /\ tab.worker.answer = Density!NoAnswer /\ tab.worker.op = op
      /\ TabFits(tab, records) /\ TasksFit(records, queue)
  BY DEF Density!Waits, TasksInv
<1>2. TabWorkerFits(tab, tab.worker, records) /\ tab \in Tabs
  BY <1>1 DEF TabFits
<1>3. tab.worker.with \in Density!Requests
  BY <1>2 DEF TabWorkerFits
<1>4. op # "submit" => CopyOf(tab.task, records) /\ tab.worker.task = tab.task
  BY <1>1, <1>2 DEF TabFits, TabWorkerFits
<1>5. op # "submit" => tab.task.id \in Density!Tasks
  BY <1>4 DEF CopyOf, Density!Records
<1> QED BY <1>1, <1>2, <1>3, <1>4, <1>5, NoReply DEF TabFits, TabWorkerFits

LEMMA ListWorkerIs ==
    ASSUME TasksInv, NEW op, Density!Waits(list, op)
    PROVE  /\ list # Absent /\ list.worker # Absent /\ list.worker.answer = Density!NoAnswer
           /\ list.worker.op = op /\ TasksFit(records, queue)
           /\ op # "discover" => /\ CopyOf(list.worker.task, records) /\ list.worker.task.server = Home
                                 /\ list.worker.task.id \in Density!Tasks
           /\ op = "cancel" => \A k \in list.suppressed : k[1] # list.worker.task.id
<1>1. /\ list # Absent /\ list.worker # Absent /\ list.worker.answer = Density!NoAnswer /\ list.worker.op = op
      /\ ListFits(list, records) /\ TasksFit(records, queue)
  BY DEF Density!Waits, TasksInv
<1>2. ListWorkerFits(list, list.worker, records)
  BY <1>1 DEF ListFits
<1>3. op # "discover" => CopyOf(list.worker.task, records) /\ list.worker.task.server = Home
  BY <1>1, <1>2 DEF ListWorkerFits
<1>4. op # "discover" => list.worker.task.id \in Density!Tasks
  BY <1>3 DEF CopyOf, Density!Records
<1> QED BY <1>1, <1>2, <1>3, <1>4, NoReply DEF ListWorkerFits

\* What an operation writes back after it asked the scheduler.
LEMMA WrittenBack ==
    ASSUME TasksInv, NEW i \in Density!Tasks, records[i] # Absent, NEW r \in Density!Refreshed(records[i]),
           NEW s \in Density!States
    PROVE  LET c == [r EXCEPT !.state = s] IN
           /\ TasksFit([records EXCEPT ![i] = c], queue) /\ Same(records, [records EXCEPT ![i] = c])
           /\ CopyOf(c, [records EXCEPT ![i] = c]) /\ c.server = records[i].server
<1>1. TasksFit(records, queue)
  BY DEF TasksInv
<1>2. /\ r \in Density!Records /\ r.id = i /\ r.server = records[i].server /\ r.part[1] \cap r.part[2] = {}
      /\ r.job # Absent => r.job \in Density!Jobs /\ queue[r.job] # Absent /\ queue[r.job].id = i
  BY <1>1, RefreshedTaskFits
<1> DEFINE c == [r EXCEPT !.state = s]
<1>3. c \in Density!Records /\ c.id = i /\ c.part = r.part /\ c.server = r.server /\ c.job = r.job
  BY <1>2, RecordChanged
<1>4. JobsStay(queue, queue)
  BY <1>1, JobsStaySelf
<1> HIDE DEF c
<1> QED BY <1>1, <1>2, <1>3, <1>4, TaskRecorded DEF c

LEMMA AskedAgain ==
    ASSUME TasksInv, NEW i \in Density!Tasks, records[i] # Absent, NEW r \in Density!Refreshed(records[i])
    PROVE  /\ TasksFit([records EXCEPT ![i] = r], queue) /\ Same(records, [records EXCEPT ![i] = r])
           /\ CopyOf(r, [records EXCEPT ![i] = r]) /\ r.server = records[i].server /\ r.id = i
           /\ r \in Density!Records /\ r.job = records[i].job
           /\ r.job # Absent => r.job \in Density!Jobs /\ queue[r.job] # Absent /\ queue[r.job].id = i
<1>1. TasksFit(records, queue)
  BY DEF TasksInv
<1>2. /\ r \in Density!Records /\ r.id = i /\ r.server = records[i].server /\ r.part[1] \cap r.part[2] = {}
      /\ r.job # Absent => r.job \in Density!Jobs /\ queue[r.job] # Absent /\ queue[r.job].id = i
      /\ r.job = records[i].job
  BY <1>1, RefreshedTaskFits
<1>3. JobsStay(queue, queue)
  BY <1>1, JobsStaySelf
<1> QED BY <1>1, <1>2, <1>3, TaskRecorded

LEMMA NothingWritten ==
    ASSUME TasksInv, UNCHANGED <<records, queue>>
    PROVE  TasksFit(records', queue') /\ Same(records, records')
BY SameSelf DEF TasksInv, TasksFit

LEMMA FailsFit ==
    /\ \A m : ReplyFits(Density!Fails(Absent), m)
    /\ Density!Fails(Absent).kind = "error" /\ Density!Fails(Absent).task = Absent
BY RepliesFit, ReplyIs

LEMMA WorkSubmitKeeps == ASSUME TasksInv, Density!Remembered, Density!WorkSubmit PROVE TasksKept
<1>1. /\ tab # Absent /\ tab.worker # Absent /\ tab.worker.answer = Density!NoAnswer
      /\ DrawnFits(tab.form) /\ tab.worker.with = Density!Inputs(tab.form)
      /\ Density!Partitions(tab.form) /\ Density!Waits(tab, "submit") /\ UNCHANGED <<list, sent>>
  BY TabWorkerIs DEF Density!WorkSubmit
<1>2. ASSUME Density!Refuse PROVE TasksKept
  BY <1>1, <1>2, NothingWritten, FailsFit, TabAnswers DEF Density!Refuse
<1>3. ASSUME NEW id \in Density!Tasks, records[id] = Absent,
             Density!Dispatch([id |-> id, number |-> 1, job |-> Absent, state |-> "PREPARED",
                        part |-> tab.worker.with.part, grid |-> tab.worker.with.grid,
                        server |-> tab.worker.with.server, res |-> tab.worker.with.res])
      PROVE  TasksKept
  <2> DEFINE r == [id |-> id, number |-> 1, job |-> Absent, state |-> "PREPARED",
                   part |-> tab.worker.with.part, grid |-> tab.worker.with.grid,
                   server |-> tab.worker.with.server, res |-> tab.worker.with.res]
  <2>1. /\ tab.worker.with.part \in Density!Parts
        /\ tab.worker.with.part[1] \cap tab.worker.with.part[2] = {}
    BY <1>1, InputsFit, PartitionsApart
  <2>2. /\ tab.worker.with.grid \in Density!Grids /\ tab.worker.with.server \in Servers
        /\ tab.worker.with.res \in Density!Numbers
    <3>1. Density!Grid(tab.form) \in Density!Grids
      BY <1>1, DrawnIs DEF Density!Grid, Density!Grids
    <3>2. tab.form.res[tab.form.server] \in Density!Numbers
      BY <1>1, DrawnIs DEF Resources
    <3> QED BY <1>1, <3>1, <3>2, DrawnIs DEF Density!Inputs
  <2>3. /\ r \in Density!Records /\ r.id = id /\ r.job = Absent
        /\ r.part[1] \cap r.part[2] = {}
    BY <2>1, <2>2, StatesAre DEF Density!Records
  <2> HIDE DEF r
  <2> QED BY <1>1, <1>3, <2>3, DispatchKeeps DEF r
<1> QED BY <1>2, <1>3 DEF Density!WorkSubmit

LEMMA WorkRetryKeeps == ASSUME TasksInv, Density!Remembered, Density!WorkRetry PROVE TasksKept
<1> DEFINE w == tab.worker
<1>0. Density!Waits(tab, "retry") /\ UNCHANGED <<list, sent>>
  BY DEF Density!WorkRetry
<1>1. /\ tab # Absent /\ tab.worker # Absent /\ tab.worker.answer = Density!NoAnswer
      /\ w.task = tab.task /\ CopyOf(w.task, records) /\ w.task.id \in Density!Tasks
      /\ w.with \in Density!Requests /\ TasksFit(records, queue)
  BY <1>0, TabWorkerIs
<1>2. ASSUME Density!Refuse PROVE TasksKept
  BY <1>0, <1>1, <1>2, NothingWritten, FailsFit, TabAnswers DEF Density!Refuse
<1>3. ASSUME NEW r \in Density!Refreshed(records[w.task.id]),
             Density!Dispatch([r EXCEPT !.number = @ + 1, !.job = Absent, !.state = "PREPARED",
                                        !.res = w.with.res])
      PROVE  TasksKept
  <2> DEFINE c == [r EXCEPT !.number = @ + 1, !.job = Absent, !.state = "PREPARED", !.res = w.with.res]
  <2>1. /\ r \in Density!Records /\ r.id = w.task.id /\ r.server = records[w.task.id].server
        /\ r.part[1] \cap r.part[2] = {}
    BY <1>1, RefreshedTaskFits DEF CopyOf
  <2>2. w.with.res \in Density!Numbers
    BY <1>1 DEF Density!Requests
  <2>3. c = [r EXCEPT !.number = @ + 1, !.job = Absent, !.state = "PREPARED", !.res = w.with.res]
    OBVIOUS
  <2> HIDE DEF c
  <2>4. c = [id |-> r.id, number |-> r.number + 1, job |-> Absent, state |-> "PREPARED", part |-> r.part,
             grid |-> r.grid, server |-> r.server, res |-> w.with.res]
    BY <2>1, <2>3 DEF Density!Records
  <2>5. /\ c \in Density!Records /\ c.id = w.task.id /\ c.job = Absent /\ c.part[1] \cap c.part[2] = {}
        /\ c.server = records[w.task.id].server
    BY <2>1, <2>2, <2>4, StatesAre DEF Density!Records
  <2> QED BY <1>0, <1>3, <2>3, <2>5, DispatchKeeps
<1> QED BY <1>2, <1>3 DEF Density!WorkRetry

\* The task of an operation of either place, as the server has it now.
LEMMA OperationIs ==
    ASSUME TasksInv, NEW place \in {"tab", "list"}, NEW op \in {"refresh", "recover", "retry", "cancel"},
           Density!Waits(Density!Place(place), op), NEW w, w = Density!Place(place).worker
    PROVE  /\ CopyOf(w.task, records) /\ w.task.id \in Density!Tasks
           /\ records[w.task.id] # Absent /\ records[w.task.id].server = w.task.server
           /\ place = "list" => records[w.task.id].server = Home
<1>1. CASE place = "tab"
  BY <1>1, TabWorkerIs DEF Density!Place, CopyOf
<1>2. CASE place = "list"
  BY <1>2, ListWorkerIs DEF Density!Place, CopyOf
<1> QED BY <1>1, <1>2

LEMMA FailureKeeps ==
    ASSUME TasksInv, Density!Remembered, NEW place \in {"tab", "list"}, NEW op,
           Density!Waits(Density!Place(place), op), UNCHANGED <<records, queue, sent>>,
           Density!Answer(place, Density!Fails(Absent))
    PROVE  TasksKept
BY NothingWritten, FailsFit, AnswerKeeps

LEMMA WorkRefreshKeeps ==
    ASSUME TasksInv, Density!Remembered, NEW place \in {"tab", "list"}, Density!WorkRefresh(place)
    PROVE  TasksKept
<1> DEFINE w == Density!Place(place).worker
<1>1. Density!Waits(Density!Place(place), "refresh") /\ UNCHANGED <<queue, sent>>
  BY DEF Density!WorkRefresh
<1>2. /\ w.task.id \in Density!Tasks /\ records[w.task.id] # Absent
      /\ place = "list" => records[w.task.id].server = Home
  BY <1>1, OperationIs
<1>3. ASSUME UNCHANGED records, Density!Answer(place, Density!Fails(Absent)) PROVE TasksKept
  BY <1>1, <1>3, FailureKeeps
<1>4. ASSUME NEW r \in Density!Refreshed(records[w.task.id]), records' = [records EXCEPT ![r.id] = r],
             Density!Answer(place, Density!Loads(r))
      PROVE  TasksKept
  <2>1. /\ TasksFit(records', queue') /\ Same(records, records') /\ CopyOf(r, records')
        /\ r.server = records[w.task.id].server
    BY <1>1, <1>2, <1>4, AskedAgain
  <2>2. ReplyFits(Density!Loads(r), records') /\ Density!Loads(r).kind = "task" /\ Density!Loads(r).task = r
    BY <2>1, RepliesFit, ReplyIs
  <2> QED BY <1>1, <1>2, <1>4, <2>1, <2>2, AnswerKeeps
<1> QED BY <1>3, <1>4 DEF Density!WorkRefresh

LEMMA WorkRecoverKeeps == ASSUME TasksInv, Density!Remembered, Density!WorkRecover PROVE TasksKept
<1> DEFINE w == tab.worker
<1>1. Density!Waits(Density!Place("tab"), "recover") /\ UNCHANGED <<queue, sent>> /\ Density!Place("tab") = tab
  BY DEF Density!WorkRecover, Density!Place
<1>2. w.task.id \in Density!Tasks /\ records[w.task.id] # Absent
  BY <1>1, OperationIs
<1>3. ASSUME UNCHANGED records, Density!Answer("tab", Density!Fails(Absent)) PROVE TasksKept
  BY <1>1, <1>3, FailureKeeps
<1>4. ASSUME NEW r \in Density!Refreshed(records[w.task.id]), NEW s \in {"COMPLETE", "FAILED"},
             records' = [records EXCEPT ![r.id] = [r EXCEPT !.state = s]],
             \/ Density!Answer("tab", Density!Loads([r EXCEPT !.state = s]))
             \/ Density!Answer("tab", Density!Fails(Absent))
      PROVE  TasksKept
  <2> DEFINE c == [r EXCEPT !.state = s]
  <2>1. s \in Density!States /\ r.id = w.task.id
    BY <1>2, AskedAgain, StatesAre
  <2>2. TasksFit(records', queue') /\ Same(records, records') /\ CopyOf(c, records')
    BY <1>1, <1>2, <1>4, <2>1, WrittenBack
  <2> HIDE DEF c
  <2>3. ReplyFits(Density!Loads(c), records') /\ Density!Loads(c).kind = "task"
    BY <2>2, RepliesFit, ReplyIs
  <2> QED BY <1>1, <1>4, <2>2, <2>3, FailsFit, AnswerKeeps DEF c
<1> QED BY <1>3, <1>4 DEF Density!WorkRecover

LEMMA WorkDiscoverKeeps == ASSUME TasksInv, Density!Remembered, Density!WorkDiscover PROVE TasksKept
<1>1. Density!Waits(list, "discover") /\ UNCHANGED <<records, queue, sent>>
  BY DEF Density!WorkDiscover
<1>2. PICK readable \in SUBSET Density!Tasks :
         Density!Answer("list", [Density!NoAnswer EXCEPT !.kind = "rows",
            !.rows = [i \in Density!Tasks |->
                IF i \in readable /\ records[i] # Absent /\ records[i].server = Home
                THEN records[i] ELSE Absent]])
  BY DEF Density!WorkDiscover
<1> DEFINE rows == [i \in Density!Tasks |->
                       IF i \in readable /\ records[i] # Absent /\ records[i].server = Home
                       THEN records[i] ELSE Absent]
           a == [Density!NoAnswer EXCEPT !.kind = "rows", !.rows = rows]
           none == Density!NoAnswer
<1>3. TasksFit(records, queue)
  BY DEF TasksInv
<1>4. rows \in Density!Table /\ RowsFit(rows, records)
  BY <1>3 DEF TasksFit, RowsFit, Density!Table
<1>5. a = [none EXCEPT !.kind = "rows", !.rows = rows]
  OBVIOUS
<1>6. none = [kind |-> "none", task |-> Absent, rows |-> Absent, outcome |-> "none"]
  BY DEF Density!NoAnswer
<1>7. Density!Answer("list", a)
  BY <1>2
<1> HIDE DEF a, none, rows
<1>8. a = [kind |-> "rows", task |-> Absent, rows |-> rows, outcome |-> "none"]
  BY <1>5, <1>6
<1>9. ReplyFits(a, records) /\ a.kind = "rows" /\ a.task = Absent
  BY <1>4, <1>8 DEF ReplyFits, Density!Answers
<1>10. /\ list # Absent /\ list.worker # Absent /\ list.worker.answer = Density!NoAnswer
  BY <1>1, ListWorkerIs
<1>11. list' = [list EXCEPT !.worker = Density!Answered(@, a)] /\ UNCHANGED tab
  BY <1>7 DEF Density!Answer
<1> QED BY <1>1, <1>9, <1>10, <1>11, NothingWritten, ListAnswers

\* A cancellation goes out for a job that this place does not remember to have cancelled.
LEMMA CancelSent ==
    ASSUME TasksInv, Density!Remembered, NEW place \in {"tab", "list"},
           Density!Waits(Density!Place(place), "cancel"),
           NEW w, w = Density!Place(place).worker,
           NEW r \in Density!Refreshed(records[w.task.id]), records' = [records EXCEPT ![r.id] = r],
           records[w.task.id].job # Absent,
           sent' = [by |-> place, job |-> r.job, confirmed |-> w.task.job, count |-> sent.count + 1],
           NEW o \in {"requested", "unknown"}, Density!Answer(place, Density!Cancelled(r, o)),
           \/ queue' = [queue EXCEPT ![r.job].state = "CANCELLED"] \/ UNCHANGED queue
    PROVE  TasksKept
<1> DEFINE a == Density!Cancelled(r, o)
           key == Density!DispatchedKey
<1>1. /\ w.task.id \in Density!Tasks /\ records[w.task.id] # Absent
      /\ place = "list" => records[w.task.id].server = Home
  BY OperationIs
<1>2. /\ TasksFit(records', queue) /\ Same(records, records') /\ CopyOf(r, records')
      /\ r.server = records[w.task.id].server /\ r.id = w.task.id /\ r \in Density!Records
      /\ r.job \in Density!Jobs /\ queue[r.job] # Absent /\ queue[r.job].id = w.task.id
  BY <1>1, AskedAgain
<1>3. TasksFit(records', queue')
  <2>1. TasksFit(records, queue) /\ "CANCELLED" \in Density!Terminal
    BY DEF TasksInv, Density!Terminal, Density!Stopped
  <2>2. JobsStay(queue, queue')
    BY <1>2, <2>1, JobChanges, JobsStaySelf
  <2> QED BY <1>2, <2>2, JobsChange
<1>4. ReplyFits(a, records') /\ a.kind = "cancel" /\ a.task = r /\ a.outcome = o
  BY <1>2, RepliesFit, ReplyIs
<1>5. key = Density!Key(r) /\ key \in Keys
  BY <1>2, KeyIs DEF Density!DispatchedKey, Density!Key
<1>6. sent.count \in Nat /\ sent'.count = sent.count + 1 /\ sent'.by = place
  BY DEF TasksInv
<1> HIDE DEF a, key
<1>7. CASE place = "tab"
  <2>1. /\ tab # Absent /\ tab.worker # Absent /\ tab.worker.answer = Density!NoAnswer
        /\ tab.worker.op = "cancel" /\ Density!Key(tab.task) \notin tab.suppressed
    BY <1>7, TabWorkerIs DEF Density!Place
  <2>2. tab' = [tab EXCEPT !.worker = Density!Answered(@, a)] /\ UNCHANGED list
    BY <1>7 DEF Density!Answer, a
  <2>3. TabFits(tab, records') /\ (list # Absent => ListFits(list, records'))
    BY <1>2, <2>1, TabStays, ListStays DEF TasksInv
  <2>4. TabFits(tab', records') /\ TabKeeps(tab, tab') /\ tab'.worker # Absent /\ tab'.worker.answer = a
    BY <1>4, <2>1, <2>2, <2>3, AnswerTab
  <2>5. Knows(tab', key)
    BY <1>4, <1>5, <2>4 DEF Knows
  <2>6. ASSUME key \in asked["tab"] PROVE FALSE
    <3>1. ShownAs(tab, key) /\ Knows(tab, key)
      BY <2>6 DEF TasksInv, AskedFits
    <3> QED BY <2>1, <3>1, NoReply DEF Knows, ShownAs
  <2>7. ~Density!Dispatched("list")
    BY <1>6, <1>7 DEF Density!Dispatched
  <2>8. AskedFits' /\ Density!CancelStep
    BY <1>5, <2>2, <2>4, <2>5, <2>6, <2>7, AskedStep, KeepsSelf DEF key
  <2> QED BY <1>3, <1>6, <2>2, <2>3, <2>4, <2>8 DEF TasksInv, TasksKept
<1>8. CASE place = "list"
  <2>1. /\ list # Absent /\ list.worker # Absent /\ list.worker.answer = Density!NoAnswer
        /\ list.worker.op = "cancel" /\ \A k \in list.suppressed : k[1] # w.task.id
    BY <1>8, ListWorkerIs DEF Density!Place
  <2>2. list' = [list EXCEPT !.worker = Density!Answered(@, a)] /\ UNCHANGED tab
    BY <1>8 DEF Density!Answer, a
  <2>3. ListFits(list, records') /\ (tab # Absent => TabFits(tab, records'))
    BY <1>2, <2>1, TabStays, ListStays DEF TasksInv
  <2>4. ListFits(list', records') /\ ListKeeps(list, list') /\ list'.worker # Absent /\ list'.worker.answer = a
    BY <1>1, <1>2, <1>4, <1>8, <2>1, <2>2, <2>3, AnswerList
  <2>5. Knows(list', key)
    BY <1>4, <1>5, <2>4 DEF Knows
  <2>6. ASSUME key \in asked["list"] PROVE FALSE
    <3>1. Knows(list, key)
      BY <2>6 DEF TasksInv, AskedFits
    <3>2. key[1] = w.task.id
      BY <1>2, <1>5, KeyIs
    <3> QED BY <2>1, <3>1, <3>2, NoReply DEF Knows
  <2>7. ~Density!Dispatched("tab")
    BY <1>6, <1>8 DEF Density!Dispatched
  <2>8. AskedFits' /\ Density!CancelStep
    BY <1>5, <2>2, <2>4, <2>5, <2>6, <2>7, AskedStep, KeepsSelf DEF key
  <2> QED BY <1>3, <1>6, <2>2, <2>3, <2>4, <2>8 DEF TasksInv, TasksKept
<1> QED BY <1>7, <1>8

LEMMA WorkCancelKeeps ==
    ASSUME TasksInv, Density!Remembered, NEW place \in {"tab", "list"}, Density!WorkCancel(place)
    PROVE  TasksKept
<1> DEFINE w == Density!Place(place).worker
<1>1. Density!Waits(Density!Place(place), "cancel")
  BY DEF Density!WorkCancel
<1>2. /\ w.task.id \in Density!Tasks /\ records[w.task.id] # Absent
      /\ place = "list" => records[w.task.id].server = Home
  BY <1>1, OperationIs
<1>3. ASSUME UNCHANGED <<records, queue, sent>>, Density!Answer(place, Density!Fails(Absent)) PROVE TasksKept
  BY <1>1, <1>3, FailureKeeps
<1>4. ASSUME NEW r \in Density!Refreshed(records[w.task.id]), records' = [records EXCEPT ![r.id] = r],
             UNCHANGED <<queue, sent>>,
             \/ r.state \in Density!Terminal /\ Density!Answer(place, Density!Cancelled(r, "terminal"))
             \/ Density!Answer(place, Density!Fails(Absent))
      PROVE  TasksKept
  <2>1. /\ TasksFit(records', queue') /\ Same(records, records') /\ CopyOf(r, records')
        /\ r.server = records[w.task.id].server
    BY <1>2, <1>4, AskedAgain
  <2>2. CASE r.state \in Density!Terminal /\ Density!Answer(place, Density!Cancelled(r, "terminal"))
    <3> DEFINE a == Density!Cancelled(r, "terminal")
    <3>1. ReplyFits(a, records') /\ a.kind = "cancel" /\ a.task = r
      BY <2>1, <2>2, RepliesFit, ReplyIs
    <3> HIDE DEF a
    <3> QED BY <1>1, <1>2, <1>4, <2>1, <2>2, <3>1, AnswerKeeps DEF a
  <2>3. CASE Density!Answer(place, Density!Fails(Absent))
    BY <1>1, <1>4, <2>1, <2>3, FailsFit, AnswerKeeps
  <2> QED BY <1>4, <2>2, <2>3
<1>5. ASSUME NEW r \in Density!Refreshed(records[w.task.id]), records' = [records EXCEPT ![r.id] = r],
             records[w.task.id].job # Absent,
             sent' = [by |-> place, job |-> r.job, confirmed |-> w.task.job, count |-> sent.count + 1],
             NEW o \in {"requested", "unknown"}, Density!Answer(place, Density!Cancelled(r, o)),
             \/ queue' = [queue EXCEPT ![r.job].state = "CANCELLED"] \/ UNCHANGED queue
      PROVE  TasksKept
  BY <1>1, <1>5, CancelSent
<1> QED BY <1>3, <1>4, <1>5 DEF Density!WorkCancel

----------------------------------------------------------------------------
(* Answers are delivered.                                                  *)

LEMMA CompletedKeeps == ASSUME TasksInv, Density!Remembered, Density!Completed PROVE TasksKept
<1> DEFINE r == tab.worker.answer.task
           t == Density!Done(tab)
<1>1. /\ tab # Absent /\ tab.worker # Absent /\ tab.worker.answer.kind \in {"task", "error"}
      /\ UNCHANGED <<records, queue, sent>>
      /\ IF r # Absent THEN Density!Load(t, list, r) ELSE tab' = t /\ UNCHANGED list
  BY DEF Density!Completed, Density!Has
<1>2. TabFits(tab, records) /\ TabWorkerFits(tab, tab.worker, records)
  BY <1>1 DEF TasksInv, TabFits
<1>3. TabFits(t, records) /\ t.worker = Absent /\ TabKeeps(tab, t) /\ t.suppressed = tab.suppressed
  BY <1>1, <1>2, TabDone
<1>4. r # Absent => CopyOf(r, records)
  BY <1>2 DEF TabWorkerFits, ReplyFits
<1> HIDE DEF t, r
<1>5. CASE tab' = t /\ UNCHANGED list
  BY <1>1, <1>3, <1>5, TabOnly
<1>6. CASE r # Absent /\ Density!Load(t, list, r)
  <2>1. tab' = Density!Shows(t, r) /\ list' = Density!Updated(list, r)
    BY <1>6 DEF Density!Load
  <2>2. TabFits(tab', records) /\ \A k : k \in t.suppressed /\ ShownAs(tab', k) => k \in tab'.suppressed
    BY <1>3, <1>4, <1>6, <2>1, ShowsFits
  <2>3. TabKeeps(tab, tab')
    BY <1>1, <1>3, <2>2 DEF TabKeeps, Knows
  <2>4. list' # Absent => ListFits(list', records) /\ (list # Absent => ListKeeps(list, list'))
    <3>1. CASE list = Absent
      BY <2>1, <3>1 DEF Density!Updated
    <3>2. CASE list # Absent
      BY <1>4, <1>6, <2>1, <3>2, UpdatedFits DEF TasksInv
    <3> QED BY <3>1, <3>2
  <2> QED BY <1>1, <2>2, <2>3, <2>4, QuietStep DEF TasksInv
<1> QED BY <1>1, <1>5, <1>6

\* The outcome of a cancellation is remembered with the key of the job it was sent for.
LEMMA SuppressedFits ==
    ASSUME NEW m, NEW t, TabFits(t, m), t.worker = Absent, NEW r \in Density!Records, NEW o
    PROVE  LET u == Density!Suppressed(t, r, o) IN
           /\ TabFits(u, m) /\ u.task = t.task /\ u.worker = Absent
           /\ o = "terminal" => u.suppressed = t.suppressed \ {Density!Key(r)}
           /\ o # "terminal" => u.suppressed = t.suppressed \cup {Density!Key(r)}
<1> DEFINE u == Density!Suppressed(t, r, o)
           s == IF o = "terminal" THEN t.suppressed \ {Density!Key(r)} ELSE t.suppressed \cup {Density!Key(r)}
<1>1. t \in Tabs /\ t.suppressed \in SUBSET Keys
  BY DEF TabFits, Tabs
<1>2. s \in SUBSET Keys
  BY <1>1, KeyIs
<1>3. u = [t EXCEPT !.suppressed = s]
  BY <1>1 DEF Density!Suppressed, Tabs
<1> HIDE DEF u, s
<1>4. u \in Tabs /\ u.task = t.task /\ u.form = t.form /\ u.worker = Absent /\ u.suppressed = s
  BY <1>1, <1>2, <1>3 DEF Tabs
<1>5. TabFits(u, m)
  BY <1>4 DEF TabFits
<1> QED BY <1>4, <1>5 DEF u, s

LEMMA CancellationCompletedKeeps ==
    ASSUME TasksInv, Density!Remembered, Density!CancellationCompleted PROVE TasksKept
<1> DEFINE r == tab.worker.answer.task
           o == tab.worker.answer.outcome
           t == Density!Done(tab)
           u == Density!Shows(t, r)
<1>1. /\ tab # Absent /\ tab.worker # Absent /\ tab.worker.answer.kind = "cancel"
      /\ UNCHANGED <<records, queue, sent>>
      /\ tab' = Density!Suppressed(u, r, o) /\ list' = Density!Updated(list, r)
  BY DEF Density!CancellationCompleted, Density!Has
<1>2. TabFits(tab, records) /\ TabWorkerFits(tab, tab.worker, records)
  BY <1>1 DEF TasksInv, TabFits
<1>3. TabFits(t, records) /\ t.worker = Absent /\ t.suppressed = tab.suppressed
  BY <1>1, <1>2, TabDone
<1>4. CopyOf(r, records) /\ (o = "terminal" => r.state \in Density!Terminal)
  BY <1>1, <1>2 DEF TabWorkerFits, ReplyFits
<1>5. \A k : Knows(tab, k) => k \in tab.suppressed \/ (o # "terminal" /\ k = Density!Key(r))
  BY DEF Knows
<1> HIDE DEF t, r, o
<1>6. /\ TabFits(u, records) /\ u.task = r /\ u.worker = Absent
      /\ \A k : k \in t.suppressed /\ ShownAs(u, k) => k \in u.suppressed
  BY <1>3, <1>4, ShowsFits
<1> HIDE DEF u
<1>7. r \in Density!Records
  BY <1>4 DEF CopyOf
<1>8. /\ TabFits(tab', records) /\ tab'.task = r /\ tab'.worker = Absent
      /\ o = "terminal" => tab'.suppressed = u.suppressed \ {Density!Key(r)}
      /\ o # "terminal" => tab'.suppressed = u.suppressed \cup {Density!Key(r)}
  BY <1>1, <1>6, <1>7, SuppressedFits
<1>9. ASSUME NEW k, Knows(tab, k), ShownAs(tab', k) PROVE Knows(tab', k)
  <2>1. k = Density!Key(r) /\ r.state \in Density!Active /\ ShownAs(u, k)
    BY <1>6, <1>8, <1>9 DEF ShownAs
  <2>2. o # "terminal"
    BY <1>4, <2>1, StatesAre
  <2> QED BY <1>8, <2>1, <2>2 DEF Knows
<1>10. list' # Absent => ListFits(list', records) /\ (list # Absent => ListKeeps(list, list'))
  <2>1. CASE list = Absent
    BY <1>1, <2>1 DEF Density!Updated
  <2>2. CASE list # Absent
    BY <1>1, <1>4, <2>2, UpdatedFits DEF TasksInv
  <2> QED BY <2>1, <2>2
<1> QED BY <1>1, <1>8, <1>9, <1>10, QuietStep DEF TasksInv, TabKeeps

\* The list that was just read.
LEMMA DiscoveredFits ==
    ASSUME NEW m, NEW l, ListFits(l, m), l.worker = Absent, NEW rows, RowsFit(rows, m)
    PROVE  LET n == Density!Discovered(l, rows) IN ListFits(n, m) /\ ListKeeps(l, n)
<1> DEFINE n == Density!Discovered(l, rows)
           s == {k \in l.suppressed : rows[k[1]] # Absent /\ k = Density!Key(rows[k[1]])
                                        /\ rows[k[1]].state \in Density!Active}
<1>1. l \in Lists /\ rows \in Density!Table /\ l.suppressed \in SUBSET Keys
  BY DEF ListFits, RowsFit, Lists
<1>2. n = [l EXCEPT !.rows = rows, !.suppressed = s]
  BY <1>1 DEF Density!Discovered, Lists
<1>3. \A k : k \in s <=> /\ k \in l.suppressed /\ rows[k[1]] # Absent
                         /\ k = Density!Key(rows[k[1]]) /\ rows[k[1]].state \in Density!Active
  OBVIOUS
<1> HIDE DEF n, s
<1>4. n = [rows |-> rows, worker |-> l.worker, suppressed |-> s]
  BY <1>1, <1>2 DEF Lists
<1>5. s \in SUBSET Keys
  BY <1>1, <1>3
<1>6. n \in Lists /\ n.rows = rows /\ n.worker = Absent /\ n.suppressed = s
  BY <1>1, <1>4, <1>5 DEF Lists
<1>7. ListFits(n, m)
  BY <1>3, <1>6 DEF ListFits, ListedAs
<1>8. ListKeeps(l, n)
  BY <1>3, <1>6 DEF ListKeeps, Knows, ListedAs
<1> QED BY <1>7, <1>8 DEF n

LEMMA ListCompletedKeeps == ASSUME TasksInv, Density!Remembered, Density!ListCompleted PROVE TasksKept
<1> DEFINE a == list.worker.answer
           l == Density!Done(list)
<1>1. /\ list # Absent /\ list.worker # Absent /\ a.kind \in {"task", "error", "rows"}
      /\ UNCHANGED <<records, queue, tab, sent>>
      /\ \/ a.kind = "rows" /\ list' = Density!Discovered(l, a.rows)
         \/ a.kind = "task" /\ list' = Density!Updated(l, a.task)
         \/ list' = l
  BY DEF Density!ListCompleted, Density!Has
<1>2. ListFits(list, records) /\ ListWorkerFits(list, list.worker, records)
  BY <1>1 DEF TasksInv, ListFits
<1>3. ListFits(l, records) /\ l.worker = Absent /\ ListKeeps(list, l) /\ l.suppressed = list.suppressed
  BY <1>1, <1>2, ListDone
<1>4. (a.kind = "rows" => RowsFit(a.rows, records)) /\ (a.kind = "task" => CopyOf(a.task, records))
  BY <1>2 DEF ListWorkerFits, ReplyFits
<1>5. \A k : Knows(list, k) => Knows(l, k)
  BY <1>1, <1>3 DEF Knows
<1> HIDE DEF a, l
<1>6. ListFits(list', records) /\ ListKeeps(l, list')
  BY <1>1, <1>3, <1>4, DiscoveredFits, UpdatedFits, KeepsSelf
<1>7. ListKeeps(list, list')
  BY <1>5, <1>6 DEF ListKeeps
<1> QED BY <1>1, <1>6, <1>7, ListOnly

LEMMA ListCancelCompletedKeeps ==
    ASSUME TasksInv, Density!Remembered, Density!ListCancelCompleted PROVE TasksKept
<1> DEFINE r == list.worker.answer.task
           o == list.worker.answer.outcome
           l == Density!Done(list)
           u == Density!Suppressed(l, r, o)
<1>1. /\ list # Absent /\ list.worker # Absent /\ list.worker.answer.kind = "cancel"
      /\ UNCHANGED <<records, queue, tab, sent>>
      /\ list' = IF list.rows[r.id] = Absent THEN l ELSE Density!Updated(u, r)
  BY DEF Density!ListCancelCompleted, Density!Has
<1>2. ListFits(list, records) /\ ListWorkerFits(list, list.worker, records)
  BY <1>1 DEF TasksInv, ListFits
<1>3. ListFits(l, records) /\ l.worker = Absent /\ l.suppressed = list.suppressed /\ l.rows = list.rows
  BY <1>1, <1>2, ListDone
<1>4. CopyOf(r, records) /\ r.server = Home /\ (o = "terminal" => r.state \in Density!Terminal)
  BY <1>1, <1>2 DEF ListWorkerFits, ReplyFits
<1>5. \A k : Knows(list, k) => k \in list.suppressed \/ (o # "terminal" /\ k = Density!Key(r))
  BY DEF Knows
<1>6. r \in Density!Records /\ r.id \in Density!Tasks /\ r # Absent
  BY <1>4, TasksConstants DEF CopyOf, Density!Records
<1> HIDE DEF r, o, l
<1>7. CASE list.rows[r.id] = Absent
  <2>1. list' = l
    BY <1>1, <1>7
  <2>2. ASSUME NEW k, Knows(list, k), ListedAs(l, k) PROVE Knows(l, k)
    <3>1. k # Density!Key(r)
      BY <1>3, <1>6, <1>7, <2>2, KeyIs DEF ListedAs
    <3> QED BY <1>3, <1>5, <2>2, <3>1 DEF Knows
  <2> QED BY <1>1, <1>3, <2>1, <2>2, ListOnly DEF ListKeeps
<1>8. CASE list.rows[r.id] # Absent
  <2> DEFINE s == IF o = "terminal" THEN l.suppressed \ {Density!Key(r)} ELSE l.suppressed \cup {Density!Key(r)}
             rows == [l.rows EXCEPT ![r.id] = r]
             z == Density!StillActive(s, r.id, r)
             n == Density!Updated(u, r)
  <2>1. l \in Lists /\ l.suppressed \in SUBSET Keys /\ l.rows \in Density!Table
    BY <1>3 DEF ListFits, Lists
  <2>2. s \in SUBSET Keys
    BY <1>6, <2>1, KeyIs
  <2>3. /\ \A k : k \in l.suppressed => k \in s \/ (o = "terminal" /\ k = Density!Key(r))
        /\ o # "terminal" => Density!Key(r) \in s
        /\ \A k : k \in s => k \in l.suppressed \/ k = Density!Key(r)
    OBVIOUS
  <2>4. u = [l EXCEPT !.suppressed = s]
    BY <2>1 DEF Density!Suppressed, Lists
  <2>5. \A k : k \in z <=> /\ k \in s
                           /\ k[1] # r.id \/ (k = Density!Key(r) /\ r.state \in Density!Active)
    BY <1>6 DEF Density!StillActive
  <2>6. /\ rows \in Density!Table /\ rows[r.id] = r
        /\ \A i \in Density!Tasks : i # r.id => rows[i] = l.rows[i]
    BY <1>6, <2>1 DEF Density!Table
  <2>7. n = IF u = Absent THEN u ELSE [u EXCEPT !.rows[r.id] = r, !.suppressed = Density!StillActive(@, r.id, r)]
    BY <1>4 DEF Density!Updated
  <2>8. u = [rows |-> l.rows, worker |-> l.worker, suppressed |-> s]
    <3> HIDE DEF u, s
    <3> QED BY <2>1, <2>4 DEF Lists
  <2> HIDE DEF u, s, n
  <2>9. CASE u # Absent
    <3>1. n = [u EXCEPT !.rows = rows, !.suppressed = z]
      BY <2>7, <2>8, <2>9
    <3> HIDE DEF rows, z
    <3>2. n = [rows |-> rows, worker |-> l.worker, suppressed |-> z]
      BY <2>8, <3>1
    <3>3. z \in SUBSET Keys
      BY <2>2, <2>5
    <3>4. n \in Lists /\ n.rows = rows /\ n.worker = Absent /\ n.suppressed = z
      BY <1>3, <2>1, <2>6, <3>2, <3>3 DEF Lists
    <3>5. RowsFit(rows, records)
      BY <1>3, <1>4, <2>6 DEF ListFits, RowsFit
    <3>6. ASSUME NEW k \in z PROVE ListedAs(n, k)
      <4>1. k \in s /\ k[1] \in Density!Tasks
        BY <2>2, <2>5 DEF Keys
      <4>2. CASE k = Density!Key(r) /\ r.state \in Density!Active
        BY <1>6, <2>6, <3>4, <4>2, KeyIs DEF ListedAs
      <4>3. CASE k[1] # r.id
        <5>1. k \in l.suppressed
          BY <1>6, <2>3, <4>1, <4>3, KeyIs
        <5> QED BY <1>3, <2>6, <3>4, <4>1, <4>3, <5>1 DEF ListFits, ListedAs
      <4> QED BY <2>5, <4>2, <4>3
    <3>7. ListFits(n, records)
      BY <3>4, <3>5, <3>6 DEF ListFits
    <3>8. ASSUME NEW k, Knows(list, k), ListedAs(n, k) PROVE Knows(n, k)
      <4>1. k \in l.suppressed \/ (o # "terminal" /\ k = Density!Key(r))
        BY <1>3, <1>5, <3>8
      <4>2. CASE k[1] = r.id
        <5>1. k = Density!Key(r) /\ r.state \in Density!Active
          BY <2>6, <3>4, <3>8, <4>2 DEF ListedAs
        <5>2. o # "terminal"
          BY <1>4, <5>1, StatesAre
        <5> QED BY <2>3, <2>5, <3>4, <5>1, <5>2 DEF Knows
      <4>3. CASE k[1] # r.id
        <5>1. k \in l.suppressed /\ k # Density!Key(r)
          BY <1>6, <4>1, <4>3, KeyIs
        <5> QED BY <2>3, <2>5, <3>4, <4>3, <5>1 DEF Knows
      <4> QED BY <4>2, <4>3
    <3>9. list' = n
      BY <1>1, <1>8 DEF n
    <3> QED BY <1>1, <3>7, <3>8, <3>9, ListOnly DEF ListKeeps
  <2>10. CASE u = Absent
    <3>1. list' = Absent
      BY <1>1, <1>8, <2>7, <2>10 DEF n
    <3> QED BY <1>1, <3>1, ListOnly
  <2> QED BY <2>9, <2>10
<1> QED BY <1>7, <1>8

----------------------------------------------------------------------------
(* Others, and the first state.                                            *)

LEMMA OthersKeep == ASSUME TasksInv, Density!Remembered, Density!Others PROVE TasksKept
<1>1. TasksFit(records, queue)
  BY DEF TasksInv
<1>2. ASSUME NEW j \in Density!Jobs, Density!JobEnds(j) PROVE TasksKept
  <2>1. PICK s \in {"FAILED", "OUTPUT_READY"} : queue' = [queue EXCEPT ![j].state = s]
    BY <1>2 DEF Density!JobEnds
  <2>2. queue[j] # Absent /\ UNCHANGED <<records, tab, list, sent>>
    BY <1>2 DEF Density!JobEnds
  <2>3. s \in Density!Active \cup Density!Terminal
    BY DEF Density!Terminal, Density!Stopped
  <2>4. JobsStay(queue, queue')
    BY <1>1, <2>1, <2>2, <2>3, JobChanges
  <2>5. TasksFit(records', queue') /\ Same(records, records')
    BY <1>1, <2>2, <2>4, JobsChange, SameSelf DEF TasksFit
  <2> QED BY <2>2, <2>5, OthersOnly
<1>3. ASSUME NEW id \in Density!Tasks, Density!OtherRetries(id) PROVE TasksKept
  <2>1. records[id] # Absent /\ UNCHANGED <<tab, list, sent>>
    BY <1>3 DEF Density!OtherRetries
  <2>2. PICK r \in Density!Refreshed(records[id]), j \in Density!NewJob :
           /\ records' = [records EXCEPT ![id] = [r EXCEPT !.number = @ + 1, !.job = j, !.state = "QUEUED"]]
           /\ queue' = [queue EXCEPT ![j] = [id |-> id, number |-> r.number + 1, state |-> "QUEUED"]]
    BY <1>3 DEF Density!OtherRetries
  <2>3. /\ r \in Density!Records /\ r.id = id /\ r.server = records[id].server
        /\ r.part[1] \cap r.part[2] = {} /\ r.number \in Nat
    BY <1>1, <2>1, RefreshedTaskFits DEF Density!Records
  <2> DEFINE b == [id |-> id, number |-> r.number + 1, state |-> "QUEUED"]
             c == [r EXCEPT !.number = @ + 1, !.job = j, !.state = "QUEUED"]
  <2>4. b \in Density!JobRecords /\ b.id = id
    BY <2>3, StatesAre DEF Density!JobRecords
  <2>5. c = [r EXCEPT !.number = @ + 1, !.job = j, !.state = "QUEUED"]
    OBVIOUS
  <2> HIDE DEF b, c
  <2>6. JobsStay(queue, queue') /\ queue'[j] # Absent /\ queue'[j].id = id /\ j \in Density!Jobs
    BY <1>1, <2>2, <2>4, JobIsNew DEF b
  <2>7. c = [id |-> r.id, number |-> r.number + 1, job |-> j, state |-> "QUEUED", part |-> r.part,
             grid |-> r.grid, server |-> r.server, res |-> r.res]
    BY <2>3, <2>5 DEF Density!Records
  <2>8. /\ c \in Density!Records /\ c.id = id /\ c.job = j /\ c.part = r.part /\ c.server = r.server
    BY <2>3, <2>6, <2>7, StatesAre DEF Density!Records
  <2>9. TasksFit(records', queue') /\ Same(records, records')
    BY <1>1, <2>2, <2>3, <2>5, <2>6, <2>8, TaskRecorded
  <2> QED BY <2>1, <2>9, OthersOnly
<1>4. ASSUME NEW id \in Density!Tasks, Density!OtherRefreshes(id) PROVE TasksKept
  <2>1. records[id] # Absent /\ UNCHANGED <<queue, tab, list, sent>>
    BY <1>4 DEF Density!OtherRefreshes
  <2>2. PICK r \in Density!Refreshed(records[id]) : records' = [records EXCEPT ![id] = r]
    BY <1>4 DEF Density!OtherRefreshes
  <2>3. TasksFit(records', queue') /\ Same(records, records')
    BY <2>1, <2>2, AskedAgain
  <2> QED BY <2>1, <2>3, OthersOnly
<1> QED BY <1>2, <1>3, <1>4 DEF Density!Others

LEMMA TasksInit == ASSUME Density!Init PROVE TasksInv
<1>1. PICK sel \in {s \in [1..2 -> SUBSET Atoms \ {{}}] : s[1] \cap s[2] = {} /\ s[1] \cup s[2] = Atoms} :
        records = [i \in Density!Tasks |-> IF i = 1 THEN
            [id |-> 1, number |-> 1, job |-> 1, state |-> "QUEUED", part |-> <<sel[1], sel[2]>>,
             grid |-> [spacing |-> 1, padding |-> 2], server |-> Home, res |-> Preset[Home]] ELSE Absent]
  BY DEF Density!Init
<1>2. /\ queue = [j \in Density!Jobs |->
                    IF j = 1 THEN [id |-> 1, number |-> 1, state |-> "QUEUED"] ELSE Absent]
      /\ tab \in {Density!NewTab, Density!Shows(Density!NewTab, records[1])}
      /\ list \in {Absent, [Density!NewList EXCEPT !.rows[1] = records[1]]}
      /\ sent.count = 0 /\ asked = [place \in {"tab", "list"} |-> {}]
  BY DEF Density!Init
<1> DEFINE q == [id |-> 1, number |-> 1, state |-> "QUEUED"]
           g == [spacing |-> 1, padding |-> 2]
           p == <<sel[1], sel[2]>>
           r == [id |-> 1, number |-> 1, job |-> 1, state |-> "QUEUED", part |-> p,
                 grid |-> g, server |-> Home, res |-> Preset[Home]]
<1>3. p \in Density!Parts /\ p[1] \cap p[2] = {}
  <2>1. sel[1] \subseteq Atoms /\ sel[2] \subseteq Atoms /\ sel[1] \cap sel[2] = {}
    OBVIOUS
  <2> QED BY <2>1 DEF Density!Parts
<1>4. g \in Density!Grids /\ Preset[Home] \in Density!Numbers
  BY TasksConstants DEF Density!Grids, Density!Numbers
<1>5. q \in Density!JobRecords /\ q.id = 1
  BY TasksConstants, StatesAre DEF Density!JobRecords
<1>6. r \in Density!Records
  <2> HIDE DEF p, g
  <2> QED BY <1>3, <1>4, TasksConstants, StatesAre DEF Density!Records
<1>7. r.id = 1 /\ r.part = p /\ r.job = 1 /\ r.server = Home
  OBVIOUS
<1>8. r # Absent /\ q # Absent
  BY <1>5, <1>6, TasksConstants
<1>9. records = [i \in Density!Tasks |-> IF i = 1 THEN r ELSE Absent]
  BY <1>1
<1>10. queue = [j \in Density!Jobs |-> IF j = 1 THEN q ELSE Absent]
  BY <1>2
<1> HIDE DEF p, g, q, r
<1>11. records[1] = r /\ queue[1] = q
  BY <1>9, <1>10, TasksConstants
<1>12. CopyOf(r, records)
  BY <1>3, <1>6, <1>7, <1>8, <1>11 DEF CopyOf
<1>13. records \in Density!Table
  BY <1>6, <1>9 DEF Density!Table
<1>14. queue \in [Density!Jobs -> {Absent} \cup Density!JobRecords]
  BY <1>5, <1>10
<1>15. TasksFit(records, queue)
  BY <1>5, <1>7, <1>8, <1>9, <1>11, <1>12, <1>13, <1>14 DEF TasksFit
<1>16. TabFits(tab, records)
  BY <1>2, <1>11, <1>12, NewTabFits, ShowsFits
<1>17. list # Absent => ListFits(list, records)
  <2> SUFFICES ASSUME list # Absent PROVE ListFits(list, records)
    OBVIOUS
  <2>1. list = [rows |-> [Density!NewList.rows EXCEPT ![1] = r], worker |-> Absent, suppressed |-> {}]
    BY <1>2, <1>11 DEF Density!NewList
  <2> DEFINE rows == [Density!NewList.rows EXCEPT ![1] = r]
  <2>2. /\ rows \in Density!Table
        /\ \A i \in Density!Tasks : rows[i] # Absent => i = 1 /\ rows[i] = r
    BY <1>6, TasksConstants DEF Density!NewList, Density!Table
  <2>3. list.rows = rows /\ list.worker = Absent /\ list.suppressed = {}
    BY <2>1
  <2> HIDE DEF rows
  <2>4. RowsFit(rows, records)
    BY <2>2, <1>7, <1>12 DEF RowsFit
  <2>5. list \in Lists
    BY <2>1, <2>2 DEF Lists, rows
  <2> QED BY <2>3, <2>4, <2>5 DEF ListFits
<1>18. AskedFits
  BY <1>2 DEF AskedFits
<1> QED BY <1>2, <1>15, <1>16, <1>17, <1>18 DEF TasksInv

LEMMA TasksNext == ASSUME TasksInv, Density!Next PROVE TasksKept
<1>1. Density!Remembered
  BY DEF Density!Next
<1>2. CASE Density!Edits
  BY <1>1, <1>2, EditsKeep
<1>3. CASE Density!TabStep
  <2>1. CASE \/ Density!Submit \/ Density!StopRefresh \/ Density!RequestCancel \/ Density!CloseTab
             \/ Density!NewWorkspace \/ \E op \in {"refresh", "recover", "retry"} : Density!Remote(op)
    BY <2>1, <1>1, TabGestures
  <2>2. CASE Density!WorkSubmit \/ Density!WorkRetry \/ Density!WorkRecover
    BY <2>2, <1>1, WorkSubmitKeeps, WorkRetryKeeps, WorkRecoverKeeps
  <2>3. CASE Density!Completed \/ Density!CancellationCompleted
    BY <2>3, <1>1, CompletedKeeps, CancellationCompletedKeeps
  <2>4. CASE Density!WorkRefresh("tab") \/ Density!WorkCancel("tab")
    BY <2>4, <1>1, WorkRefreshKeeps, WorkCancelKeeps
  <2> QED BY <1>3, <2>1, <2>2, <2>3, <2>4 DEF Density!TabStep
<1>4. CASE Density!ListStep
  <2>1. CASE \/ Density!OpenProjects \/ Density!CloseProjects \/ Density!DiscoverTasks
             \/ \E id \in Density!Tasks :
                   Density!RefreshRow(id) \/ Density!RequestListCancel(id) \/ Density!OpenFromList(id)
    BY <2>1, <1>1, ListGestures
  <2>2. CASE Density!WorkDiscover
    BY <2>2, <1>1, WorkDiscoverKeeps
  <2>3. CASE Density!WorkRefresh("list") \/ Density!WorkCancel("list")
    BY <2>3, <1>1, WorkRefreshKeeps, WorkCancelKeeps
  <2>4. CASE Density!ListCompleted \/ Density!ListCancelCompleted
    BY <2>4, <1>1, ListCompletedKeeps, ListCancelCompletedKeeps
  <2> QED BY <1>4, <2>1, <2>2, <2>3, <2>4 DEF Density!ListStep
<1>5. CASE Density!Others
  BY <1>1, <1>5, OthersKeep
<1> QED BY <1>2, <1>3, <1>4, <1>5 DEF Density!Next


LEMMA TasksUnchanged == ASSUME TasksInv, UNCHANGED tasks PROVE TasksKept
<1>1. UNCHANGED <<records, queue, tab, list, sent, asked>>
  BY DEF tasks
<1>2. TasksInv'
  BY <1>1 DEF TasksInv, AskedFits
<1>3. ~Density!Dispatched("tab") /\ ~Density!Dispatched("list")
  BY <1>1 DEF TasksInv, Density!Dispatched
<1> QED BY <1>2, <1>3 DEF TasksKept, Density!CancelStep

LEMMA TasksAreaKept ==
    ASSUME TasksAreaInv, [DesktopNext]_desktop
    PROVE  TasksAreaInv' /\ (area = "tasks" => Density!CancelStep)
<1>1. area' = area
  BY DEF DesktopNext, desktop
<1>2. CASE area # "tasks"
  BY <1>1, <1>2 DEF TasksAreaInv
<1>3. CASE area = "tasks" /\ Density!Next
  BY <1>1, <1>3, TasksNext DEF TasksAreaInv, TasksKept
<1>4. CASE area = "tasks" /\ UNCHANGED tasks
  BY <1>1, <1>4, TasksUnchanged DEF TasksAreaInv, TasksKept
<1>5. DesktopNext /\ area = "tasks" => Density!Next
  BY DEF DesktopNext
<1>6. UNCHANGED desktop => UNCHANGED tasks
  BY DEF desktop
<1> QED BY <1>2, <1>3, <1>4, <1>5, <1>6

LEMMA TasksSpec == DesktopSpec => []TasksAreaInv
<1>1. DesktopInit => TasksAreaInv
  BY TasksInit DEF DesktopInit, TasksAreaInv
<1>2. TasksAreaInv /\ [DesktopNext]_desktop => TasksAreaInv'
  BY TasksAreaKept
<1> QED BY <1>1, <1>2, PTL DEF DesktopSpec

LEMMA TasksInvImplies == TasksInv => Density!SubmittedAsShown
<1> SUFFICES ASSUME TasksInv, tab # Absent
             PROVE  LET f == tab.form IN
                    /\ tab.worker # Absent /\ tab.worker.op = "submit" => tab.worker.with = Density!Inputs(f)
                    /\ f.sel[1] \cap f.sel[2] = {}
                    /\ \A i \in 1..2 : f.text[i] \in {Absent, f.sel[i]}
                    /\ tab.worker # Absent /\ tab.worker.op = "cancel" => Density!Found(tab.worker)
  BY DEF Density!SubmittedAsShown, Density!Malformed
<1> QED BY DEF TasksInv, TabFits, TabWorkerFits, DrawnFits

\* A density task is submitted with the fragments, grid, server and resources its tab shows,
\* although rows of the Projects window load other records into the tab meanwhile; colours and
\* index lists show one assignment, and a cancellation looks for the task on its own server
\* (gui/density_workspace.py, gui/projects_dialog.py).
THEOREM TasksActAsShown == DesktopSpec => [](area = "tasks" => Density!SubmittedAsShown)
<1>1. TasksAreaInv => (area = "tasks" => Density!SubmittedAsShown)
  BY TasksInvImplies DEF TasksAreaInv
<1> QED BY <1>1, TasksSpec, PTL

\* The tab and the Projects window each send one cancellation for a job, and none again while
\* they go on showing it as active, although each works on a copy of the task that the other
\* and other installations make stale (gui/density_workspace.py, gui/projects_dialog.py).
THEOREM TasksCancelOnce == DesktopSpec => [][area = "tasks" => Density!CancelStep]_desktop
<1>1. TasksAreaInv /\ [DesktopNext]_desktop => [area = "tasks" => Density!CancelStep]_desktop
  BY TasksAreaKept
<1> QED BY <1>1, TasksSpec, PTL DEF DesktopSpec

=============================================================================

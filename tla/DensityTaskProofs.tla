-------------------------- MODULE DensityTaskProofs --------------------------
(***************************************************************************)
(* What DensityTask keeps for any number of installations, workers and     *)
(* attempts, also when the write windows of two workers overlap and a      *)
(* stale save puts an old record back.                                     *)
(*                                                                         *)
(* The argument: an attempt is prepared by the one worker that made its    *)
(* directory, and only after a copy of the previous attempt's record said  *)
(* that it had ended.  Whatever copy of density.json is around - remote,   *)
(* local, or in the hands of a worker - tells the truth about the jobs and *)
(* outputs of its attempt, and goes on doing so, because an attempt that   *)
(* is over has neither a job nor a worker that could start one.            *)
(***************************************************************************)
EXTENDS DensityTask, TLAPS

Used(j) == jobs[j].st # "none"

Saving(w) == pc[w] \in {"check", "rename", "verify"}

\* The worker is on its way from the mkdir of an attempt to its dispatch.
Preparing(w) == pc[w] = "dispatch" \/ (Saving(w) /\ after[w] = "dispatch")

Claim(w) == IF pc[w] = "dispatch" THEN view[w].number ELSE cand[w].number

\* Of the attempts up to n no job is alive and none will be.
Over(n) ==
    /\ \A j \in Jobs : Used(j) /\ jobs[j].attempt <= n => ~Alive(j)
    /\ \A w \in Workers : Preparing(w) => Claim(w) > n

Ended == {"FAILED", "CANCELLED", "OUTPUT_READY", "COMPLETE"}

\* The records that are around.
Copies == {manifest} \cup {cache[i] : i \in Installations}
          \cup {view[w] : w \in Workers} \cup {cand[w] : w \in Workers}

\* Attempts are numbered without a gap, each made when the one before was over.
Directories ==
    \A n \in dirs : Over(n - 1) /\ \A k \in 1..n : k \in dirs

\* A job belongs to a directory that exists and to no other job's attempt.
JobsApart == OneJobPerAttempt /\ \A j \in Jobs : Used(j) => jobs[j].attempt \in dirs

\* A worker that prepares an attempt is the only one, and it has no job yet.
ClaimsApart ==
    /\ \A w \in Workers : Preparing(w) =>
         Claim(w) \in dirs /\ \A j \in Jobs : Used(j) => jobs[j].attempt # Claim(w)
    /\ \A w, x \in Workers :
         Preparing(w) /\ Preparing(x) /\ Claim(w) = Claim(x) => w = x

\* The record's number and its components' directories exist.
Placed(r) ==
    /\ r.number \in dirs \cup {0}
    /\ r.number = 0 => r.from = NoTask.from
    /\ r.number > 0 => \A c \in Components : r.from[c] \in 1..r.number

\* Its job is the attempt's.
OwnsJob(r) == r.job # NoJob => Used(r.job) /\ jobs[r.job].attempt = r.number

\* A final state is final.
EndIsReal(r) == r.state \in Ended => r.number > 0 /\ Over(r.number)

\* Validated components are valid and nothing writes to them any more.
ValidIsReal(r) ==
    \A c \in r.valid :
        r.number > 0 /\ Output(r, c) \in Validates /\ Over(r.from[c])

\* Only an attempt with an invalid component was ever retried.
RetriedForCause(r) == r.number > 0 /\ r.number + 1 \in dirs => ValidNow(r) # Components

\* A complete task is one whole.
Whole(r) == r.state = "COMPLETE" => Combines(r) /\ r.valid = Components

Truth(r) ==
    /\ Placed(r) /\ OwnsJob(r) /\ EndIsReal(r)
    /\ ValidIsReal(r) /\ RetriedForCause(r) /\ Whole(r)

\* A new task is not refreshed.
RefreshOfOld == \A w \in Workers : pc[w] = "refresh" \/ after[w] = "refresh" => op[w] # "submit"

\* Two records of one attempt agree on where its components are.
Agree == \A r, s \in Copies : r.number = s.number => r.from = s.from

Inv == /\ TypeOK /\ RefreshOfOld /\ Directories /\ JobsApart /\ ClaimsApart
       /\ Agree /\ \A r \in Copies : Truth(r)

----------------------------------------------------------------------------
(* Types.                                                                  *)

\* The variables of the workers have their types.
LocalTypes ==
    /\ pc \in [Workers -> Labels]
    /\ op \in [Workers -> Operations]
    /\ view \in [Workers -> Attempts]
    /\ cand \in [Workers -> Attempts]
    /\ after \in [Workers -> {"idle", "dispatch", "refresh", "recover", "retry", "cancel"}]

\* A missing density.json is a record like any other.
LEMMA NoTaskType == NoTask \in Attempts
  BY MaxAttemptAssumption DEF NoTask, Attempts, States

\* An operation that ends leaves well-typed locals (Return).
LEMMA ReturnType ==
  ASSUME TypeOK, NEW w \in Workers, Return(w)
  PROVE  LocalTypes'
  BY NoTaskType DEF TypeOK, LocalTypes, Return, Goto, Labels, Operations

\* So does one that is about to save a record (WillSave).
LEMMA WillSaveType ==
  ASSUME TypeOK, NEW w \in Workers, NEW new \in Attempts,
         NEW l \in {"idle", "dispatch", "refresh", "recover", "retry", "cancel"},
         WillSave(w, new, l), view' \in [Workers -> Attempts],
         op' \in [Workers -> Operations]
  PROVE  LocalTypes'
  BY DEF TypeOK, LocalTypes, WillSave, Goto, Labels

\* The record of a new attempt is one (Prepared).
LEMMA PreparedType ==
  ASSUME NEW n \in Numbers, NEW r \in Attempts, NEW valid \in SUBSET Components
  PROVE  Prepared(n, r.from, valid) \in Attempts
  BY MaxAttemptAssumption DEF Prepared, Attempts, States, Numbers

\* What the scheduler's answer leads to is a state (Concluded).
LEMMA ConcludedType ==
  ASSUME NEW task, NEW st, NEW state \in Concluded(task, st)
  PROVE  /\ state \in States \ {"COMPLETE"}
         /\ state \in Ended => st \notin {"pending", "running"}
  BY DEF Concluded, States, Ended

\* A worker about to dispatch holds the number of a directory.
LEMMA DispatchNumber ==
  ASSUME Inv, NEW w \in Workers, pc[w] = "dispatch"
  PROVE  view[w].number \in dirs /\ view[w].number \in Numbers
  BY DEF Inv, TypeOK, ClaimsApart, Preparing, Claim

\* Every step keeps the types.
LEMMA TypeStep ==
  ASSUME Inv, [Next]_vars
  PROVE  TypeOK'
  <1> TypeOK
    BY DEF Inv
  <1> USE DEF durable, cluster, locals, history
  <1>0. ASSUME LocalTypes', UNCHANGED <<durable, cluster, history>> PROVE TypeOK'
    BY <1>0 DEF TypeOK, LocalTypes
  <1>1. ASSUME NEW w \in Workers, Save(w) PROVE TypeOK'
    <2>1. CASE Check(w)
      BY <2>1 DEF TypeOK, Check, Goto, Labels
    <2>2. CASE CheckFails(w) \/ VerifyFails(w)
      BY <2>2, <1>0, ReturnType DEF CheckFails, VerifyFails, Finish
    <2>3. CASE Rename(w)
      BY <2>3 DEF TypeOK, Rename, Goto, Labels
    <2>4. CASE Verify(w)
      <3>1. LocalTypes'
        <4>1. CASE Return(w)
          BY <4>1, ReturnType
        <4>2. CASE ~Return(w)
          BY <4>2, <2>4 DEF TypeOK, LocalTypes, Verify, Goto, Labels
        <4> QED BY <4>1, <4>2
      <3>2. cache' \in [Installations -> Attempts]
        BY <2>4, HomeAssumption DEF Verify, TypeOK
      <3> QED BY <3>1, <3>2, <2>4 DEF TypeOK, LocalTypes, Verify
    <2> QED BY <1>1, <2>1, <2>2, <2>3, <2>4 DEF Save
  <1>2. ASSUME NEW w \in Workers, Submit(w) PROVE TypeOK'
    <2>1. 1 \in Numbers /\ Prepared(1, NoTask.from, {}) \in Attempts
      BY MaxAttemptAssumption, PreparedType, NoTaskType DEF Numbers
    <2>2. view' \in [Workers -> Attempts] /\ op' \in [Workers -> Operations]
      BY <1>2, NoTaskType DEF Submit, TypeOK, Operations
    <2>3. LocalTypes'
      BY <1>2, <2>1, <2>2, WillSaveType DEF Submit
    <2> QED BY <1>2, <2>1, <2>3 DEF Submit, TypeOK, LocalTypes
  <1>3. ASSUME NEW w \in Workers, Dispatch(w) PROVE TypeOK'
    <2>0. pc[w] = "dispatch" /\ view[w].number \in Numbers
      BY <1>3, DispatchNumber DEF Dispatch, DispatchAccepted, DispatchRejected, DispatchLost
    <2>1. ASSUME NEW j \in Jobs, Accept(w, j) PROVE jobs' \in [Jobs -> JobRecord]
      BY <2>1 DEF Accept, TypeOK, JobRecord, Attempts
    <2>2. CASE DispatchAccepted(w)
      <3>1. PICK j \in Jobs : /\ Accept(w, j)
                              /\ WillSave(w, [view[w] EXCEPT !.state = "QUEUED", !.job = j], "idle")
        BY <2>2 DEF DispatchAccepted
      <3>2. [view[w] EXCEPT !.state = "QUEUED", !.job = j] \in Attempts
        BY DEF TypeOK, Attempts, States
      <3>3. LocalTypes'
        BY <2>2, <3>1, <3>2, WillSaveType DEF DispatchAccepted, TypeOK
      <3>4. cache' \in [Installations -> Attempts]
        BY <2>2, <3>3, HomeAssumption DEF DispatchAccepted, ReceiptCached, TypeOK, LocalTypes
      <3>5. receipts' \subseteq Installations \X Numbers
        BY <2>2, <2>0, HomeAssumption DEF DispatchAccepted, TypeOK
      <3> QED BY <2>2, <3>1, <3>3, <3>4, <3>5, <2>1 DEF DispatchAccepted, TypeOK, LocalTypes
    <2>3. CASE DispatchRejected(w)
      <3>1. [view[w] EXCEPT !.state = "FAILED"] \in Attempts
        BY DEF TypeOK, Attempts, States
      <3>2. LocalTypes'
        BY <2>3, <3>1, WillSaveType DEF DispatchRejected, TypeOK
      <3>3. cache' \in [Installations -> Attempts]
        BY <2>3, <3>2, HomeAssumption DEF DispatchRejected, ReceiptCached, TypeOK, LocalTypes
      <3> QED BY <2>3, <3>2, <3>3 DEF DispatchRejected, TypeOK, LocalTypes
    <2>4. CASE DispatchLost(w)
      BY <2>4, <2>1, ReturnType DEF DispatchLost, TypeOK, LocalTypes
    <2> QED BY <1>3, <2>2, <2>3, <2>4 DEF Dispatch
  <1>4. ASSUME NEW w \in Workers, Refresh(w) PROVE TypeOK'
    <2>1. ASSUME NEW kind \in Offered[w] \ {"submit"}, Begin(w, kind) PROVE TypeOK'
      BY <2>1, OfferedAssumption DEF Begin, TypeOK, Goto, Labels
    <2>2. CASE Repair(w)
      <3>1. cache[Home[w]] \in Attempts
        BY HomeAssumption DEF TypeOK
      <3>2. [view[w] EXCEPT !.state = "QUEUED", !.job = cache[Home[w]].job] \in Attempts
        BY <3>1 DEF TypeOK, Attempts, States
      <3>3. LocalTypes'
        BY <2>2, <3>2, WillSaveType DEF Repair, TypeOK
      <3> QED BY <2>2, <3>3, <1>0 DEF Repair
    <2>3. CASE NothingToAsk(w)
      <3>1. CASE Return(w)
        BY <2>3, <3>1, <1>0, ReturnType DEF NothingToAsk
      <3>2. CASE ~Return(w)
        BY <2>3, <3>2 DEF NothingToAsk, TypeOK, Goto, AfterRefresh, Labels, Operations,
                          Inv, RefreshOfOld
      <3> QED BY <3>1, <3>2
    <2>4. CASE Query(w)
      <3>1. PICK state \in Concluded(view[w], jobs[view[w].job].st) :
              WillSave(w, [view[w] EXCEPT !.state = state], AfterRefresh(w))
        BY <2>4 DEF Query
      <3>2. [view[w] EXCEPT !.state = state] \in Attempts
        BY ConcludedType DEF TypeOK, Attempts
      <3>3. AfterRefresh(w) \in {"idle", "dispatch", "refresh", "recover", "retry", "cancel"}
        BY <2>4 DEF Query, Inv, RefreshOfOld, TypeOK, AfterRefresh, Operations
      <3>4. LocalTypes'
        BY <2>4, <3>1, <3>2, <3>3, WillSaveType DEF Query, TypeOK
      <3> QED BY <2>4, <3>4, <1>0 DEF Query
    <2> QED BY <1>4, <2>1, <2>2, <2>3, <2>4 DEF Refresh
  <1>5. ASSUME NEW w \in Workers, Act(w) PROVE TypeOK'
    <2>1. CASE Recover(w)
      <3>1. /\ [view[w] EXCEPT !.state = "COMPLETE", !.valid = Components] \in Attempts
            /\ [view[w] EXCEPT !.state = "FAILED", !.flag = TRUE] \in Attempts
        BY DEF TypeOK, Attempts, States
      <3>2. LocalTypes'
        BY <2>1, <3>1, WillSaveType DEF Recover, TypeOK
      <3> QED BY <2>1, <3>2, <1>0 DEF Recover
    <2>2. CASE RecoverRefused(w) \/ RetryRefused(w) \/ CancelRefused(w)
      BY <2>2, <1>0, ReturnType DEF RecoverRefused, RetryRefused, CancelRefused, Finish
    <2>3. CASE Retry(w)
      <3> DEFINE n == view[w].number + 1
      <3>1. n \in Numbers /\ view[w] \in Attempts
        BY <2>3 DEF Retry, FreeAttempt, TypeOK
      <3>2. ValidNow(view[w]) \in SUBSET Components
        BY DEF ValidNow
      <3>3. Prepared(n, view[w].from, ValidNow(view[w])) \in Attempts
        BY <3>1, <3>2, PreparedType
      <3>4. LocalTypes'
        BY <2>3, <3>3, WillSaveType DEF Retry, TypeOK
      <3> QED BY <2>3, <3>1, <3>4 DEF Retry, TypeOK, LocalTypes
    <2>4. CASE Cancel(w)
      <3>1. jobs' \in [Jobs -> JobRecord]
        BY <2>4 DEF Cancel, TypeOK, JobRecord
      <3> QED BY <2>4, <3>1, ReturnType DEF Cancel, TypeOK, LocalTypes
    <2> QED BY <1>5, <2>1, <2>2, <2>3, <2>4 DEF Act
  <1>6. ASSUME NEW w \in Workers, Fail(w) PROVE TypeOK'
    BY <1>6, <1>0, ReturnType DEF Fail, Finish
  <1>7. ASSUME NEW j \in Jobs, JobStep(j) PROVE TypeOK'
    <2>1. jobs' \in [Jobs -> JobRecord]
      <3>1. jobs[j] \in JobRecord
        BY DEF TypeOK
      <3>2. CASE JobStarts(j)
        BY <3>1, <3>2 DEF JobStarts, TypeOK, JobRecord
      <3>3. CASE ComponentEnds(j)
        <4> DEFINE left == jobs[j].left \ {Current(j)}
                   st == IF left = {} THEN "completed" ELSE "running"
        <4>1. jobs' = [jobs EXCEPT ![j].left = left, ![j].st = st]
          BY <3>3 DEF ComponentEnds
        <4> HIDE DEF left, st
        <4>2. jobs' = [jobs EXCEPT ![j] = [jobs[j] EXCEPT !.left = left, !.st = st]]
          BY <4>1 DEF TypeOK
        <4>3. left \subseteq Components /\ st \in {"completed", "running"}
          BY <3>1 DEF JobRecord, left, st
        <4>4. [jobs[j] EXCEPT !.left = left, !.st = st] \in JobRecord
          BY <3>1, <4>3 DEF JobRecord
        <4> QED BY <4>2, <4>4 DEF TypeOK
      <3>4. CASE JobStops(j)
        BY <3>1, <3>4 DEF JobStops, TypeOK, JobRecord
      <3> QED BY <1>7, <3>2, <3>3, <3>4 DEF JobStep
    <2>2. out' \in [Numbers -> [Components -> Outputs]]
      <3>1. ASSUME NEW n, NEW c, NEW result \in Outputs, out' = [out EXCEPT ![n][c] = result]
            PROVE  out' \in [Numbers -> [Components -> Outputs]]
        BY <3>1 DEF TypeOK
      <3> QED BY <1>7, <3>1, ResultsAssumption
              DEF JobStep, JobStarts, ComponentEnds, JobStops, TypeOK, Outputs
    <2> QED BY <1>7, <2>1, <2>2 DEF JobStep, JobStarts, ComponentEnds, JobStops, TypeOK
  <1>8. ASSUME UNCHANGED vars PROVE TypeOK'
    BY <1>8 DEF vars, cluster, TypeOK
  <1> QED BY <1>1, <1>2, <1>3, <1>4, <1>5, <1>6, <1>7, <1>8 DEF Next

----------------------------------------------------------------------------
(* What every step does to directories, jobs and outputs, and why a record *)
(* that told the truth goes on telling it.                                 *)

\* A used identifier keeps its attempt, and a job that has ended stays so.
JobsAdvance ==
    \A j \in Jobs : Used(j) =>
        Used(j)' /\ jobs'[j].attempt = jobs[j].attempt /\ (Alive(j)' => Alive(j))

\* A new job comes from the worker that was preparing its attempt, and alone.
NewJobs ==
    /\ \A j \in Jobs : Used(j)' /\ ~Used(j) =>
         \E w \in Workers : /\ Preparing(w) /\ ~Preparing(w)'
                           /\ jobs'[j].attempt = Claim(w)
    /\ \A j, k \in Jobs : Used(j)' /\ ~Used(j) /\ Used(k)' /\ ~Used(k) => j = k

\* A worker goes on preparing, or begins to in a new directory, and alone.
Fresh(w) == Preparing(w)' /\ Claim(w)' \in dirs' \ dirs

ClaimsAdvance ==
    /\ \A w \in Workers : Preparing(w)' =>
         Fresh(w) \/ (Preparing(w) /\ Claim(w)' = Claim(w))
    /\ \A w, x \in Workers : Fresh(w) /\ Fresh(x) => w = x

\* A new directory is the first, or follows an attempt that was over and had
\* an invalid component.
DirsAdvance ==
    /\ dirs \subseteq dirs'
    /\ \A n \in dirs' \ dirs :
         \/ n = 1 /\ dirs = {}
         \/ \E w \in Workers : /\ view[w].number + 1 = n /\ view[w].number \in dirs
                               /\ Over(view[w].number)
                               /\ ValidNow(view[w]) # Components

\* Only a living job writes, in its attempt's directory.
OutAdvance ==
    \A n \in Numbers : out'[n] # out[n] => \E j \in Jobs : Alive(j) /\ jobs[j].attempt = n

Advance == JobsAdvance /\ NewJobs /\ ClaimsAdvance /\ DirsAdvance /\ OutAdvance

\* A living job is a job.
LEMMA AliveUsed == \A j \in Jobs : Alive(j) => Used(j)
  BY DEF Alive, Used

\* The numbers of the directories.
LEMMA DirNumbers ==
  ASSUME TypeOK
  PROVE  dirs \subseteq Numbers /\ dirs \subseteq Nat \ {0} /\ Numbers \subseteq Nat \ {0}
  BY MaxAttemptAssumption DEF TypeOK, Numbers

\* Attempt 0 was never there.
LEMMA OverZero ==
  ASSUME Inv
  PROVE  Over(0)
  <1>1. \A j \in Jobs : Used(j) => jobs[j].attempt \in Numbers
    BY DEF Inv, TypeOK, JobsApart
  <1>2. \A w \in Workers : Preparing(w) => Claim(w) \in Numbers
    BY DEF Inv, TypeOK, ClaimsApart
  <1> QED BY <1>1, <1>2 DEF Over, Numbers

\* An attempt that is over stays over.
LEMMA OverStays ==
  ASSUME Inv, TypeOK', Advance, NEW n \in dirs \cup {0}, Over(n)
  PROVE  Over(n)'
  <1>1. ASSUME NEW j \in Jobs, Used(j)', jobs'[j].attempt <= n
        PROVE  ~Alive(j)'
    <2>1. CASE Used(j)
      BY <2>1, <1>1 DEF Advance, JobsAdvance, Over
    <2>2. CASE ~Used(j)
      <3>1. PICK w \in Workers : Preparing(w) /\ jobs'[j].attempt = Claim(w)
        BY <2>2, <1>1 DEF Advance, NewJobs
      <3>2. Claim(w) \in Nat /\ n \in Nat /\ Claim(w) > n
        BY <3>1, DirNumbers DEF Over, Inv, ClaimsApart
      <3> QED BY <3>1, <3>2, <1>1
    <2> QED BY <2>1, <2>2
  <1>2. ASSUME NEW w \in Workers, Preparing(w)'
        PROVE  Claim(w)' > n
    <2>1. CASE Preparing(w) /\ Claim(w)' = Claim(w)
      BY <2>1 DEF Over
    <2>2. CASE Fresh(w)
      <3>1. Claim(w)' \in Nat \ {0} /\ Claim(w)' \notin dirs /\ n \in Nat
        <4>1. dirs' \subseteq Numbers
          BY DEF TypeOK
        <4> QED BY <4>1, <2>2, DirNumbers DEF Fresh, Inv
      <3>2. \A k \in 1..n : k \in dirs
        BY DEF Inv, Directories
      <3> QED BY <3>1, <3>2
    <2> QED BY <1>2, <2>1, <2>2 DEF Advance, ClaimsAdvance
  <1> QED BY <1>1, <1>2 DEF Over

\* An attempt that is over includes the ones before it.
LEMMA OverBelow ==
  ASSUME NEW n \in Nat, NEW k \in Nat, k <= n, TypeOK, Over(n),
         \A w \in Workers : Preparing(w) => Claim(w) \in Nat
  PROVE  Over(k)
  <1>1. \A j \in Jobs : jobs[j].attempt \in Nat
    BY DEF TypeOK, JobRecord
  <1> QED BY <1>1 DEF Over

\* Nothing is written to an attempt that is over.
LEMMA OutStays ==
  ASSUME Inv, Advance, NEW n \in Numbers, NEW k \in Nat, n <= k, Over(k)
  PROVE  out'[n] = out[n]
  BY AliveUsed DEF Advance, OutAdvance, Over, Numbers

\* Directories stay numbered without a gap.
LEMMA DirectoriesStay ==
  ASSUME Inv, TypeOK', Advance
  PROVE  Directories'
  <1> SUFFICES ASSUME NEW n \in dirs'
               PROVE  Over(n - 1)' /\ \A k \in 1..n : k \in dirs'
    BY DEF Directories
  <1>0. n \in Nat \ {0} /\ dirs \subseteq dirs' /\ dirs \subseteq Nat \ {0}
    <2>1. dirs' \subseteq Numbers
      BY DEF TypeOK
    <2> QED BY <2>1, DirNumbers DEF Advance, DirsAdvance, Inv
  <1>1. CASE n \in dirs
    <2>1. Over(n - 1) /\ \A k \in 1..n : k \in dirs
      BY <1>1 DEF Inv, Directories
    <2>2. n - 1 \in dirs \cup {0}
      BY <2>1, <1>0
    <2> QED BY <2>1, <2>2, <1>0, OverStays
  <1>2. CASE n \notin dirs
    <2>1. Over(n - 1) /\ n - 1 \in dirs \cup {0}
      <3>1. CASE n = 1
        <4>1. n - 1 = 0
          BY <3>1
        <4> QED BY <4>1, OverZero
      <3>2. ASSUME NEW w \in Workers, view[w].number + 1 = n, view[w].number \in dirs,
                   Over(view[w].number)
            PROVE  Over(n - 1) /\ n - 1 \in dirs \cup {0}
        <4>1. view[w].number \in Nat
          BY <3>2, <1>0
        <4>2. n - 1 = view[w].number
          BY <3>2, <1>0, <4>1
        <4> QED BY <3>2, <4>2
      <3> QED BY <1>2, <3>1, <3>2 DEF Advance, DirsAdvance
    <2>2. \A k \in 1..(n - 1) : k \in dirs
      BY <2>1, <1>0 DEF Inv, Directories
    <2> QED BY <2>1, <2>2, <1>0, OverStays
  <1> QED BY <1>1, <1>2

\* No attempt gets a second job.
LEMMA JobsStayApart ==
  ASSUME Inv, TypeOK', Advance
  PROVE  JobsApart'
  <1>1. ASSUME NEW j \in Jobs, Used(j)', ~Used(j)
        PROVE  /\ jobs'[j].attempt \in dirs
               /\ \A k \in Jobs : Used(k) => jobs'[k].attempt # jobs'[j].attempt
    <2>1. PICK w \in Workers : Preparing(w) /\ jobs'[j].attempt = Claim(w)
      BY <1>1 DEF Advance, NewJobs
    <2> QED BY <2>1 DEF Inv, ClaimsApart, Advance, JobsAdvance
  <1>2. \A j \in Jobs : Used(j)' => jobs'[j].attempt \in dirs'
    BY <1>1 DEF Inv, JobsApart, Advance, JobsAdvance, DirsAdvance
  <1>3. ASSUME NEW j \in Jobs, NEW k \in Jobs, Used(j)', Used(k)',
               jobs'[j].attempt = jobs'[k].attempt
        PROVE  j = k
    <2>1. CASE Used(j) /\ Used(k)
      BY <2>1, <1>3 DEF Inv, JobsApart, OneJobPerAttempt, Used, Advance, JobsAdvance
    <2>2. CASE ~Used(j) \/ ~Used(k)
      BY <2>2, <1>1, <1>3 DEF Advance, NewJobs
    <2> QED BY <2>1, <2>2
  <1> QED BY <1>2, <1>3 DEF JobsApart, OneJobPerAttempt, Used

\* No attempt gets a second worker that prepares it.
LEMMA ClaimsStayApart ==
  ASSUME Inv, TypeOK', Advance
  PROVE  ClaimsApart'
  <1>1. ASSUME NEW w \in Workers, Preparing(w)'
        PROVE  Claim(w)' \in dirs'
    BY <1>1 DEF Inv, ClaimsApart, Advance, ClaimsAdvance, Fresh, DirsAdvance
  <1>2. ASSUME NEW w \in Workers, Preparing(w)', NEW j \in Jobs, Used(j)'
        PROVE  jobs'[j].attempt # Claim(w)'
    <2>1. CASE Used(j)
      BY <2>1, <1>2 DEF Inv, JobsApart, ClaimsApart, Advance, JobsAdvance, ClaimsAdvance, Fresh
    <2>2. CASE ~Used(j)
      <3>1. PICK x \in Workers : Preparing(x) /\ ~Preparing(x)' /\ jobs'[j].attempt = Claim(x)
        BY <2>2, <1>2 DEF Advance, NewJobs
      <3>2. Claim(x) \in dirs /\ (Preparing(w) => Claim(w) # Claim(x))
        BY <3>1, <1>2 DEF Inv, ClaimsApart
      <3> QED BY <3>1, <3>2, <1>2 DEF Advance, ClaimsAdvance, Fresh
    <2> QED BY <2>1, <2>2
  <1>3. ASSUME NEW w \in Workers, NEW x \in Workers, Preparing(w)', Preparing(x)',
               Claim(w)' = Claim(x)'
        PROVE  w = x
    BY <1>3 DEF Inv, ClaimsApart, Advance, ClaimsAdvance, Fresh
  <1> QED BY <1>1, <1>2, <1>3 DEF ClaimsApart

\* Of a record whose attempt is over, every output stays.
LEMMA OutputsStay ==
  ASSUME Inv, Advance, NEW r \in Attempts, Placed(r), r.number > 0, Over(r.number)
  PROVE  /\ \A c \in Components : Output(r, c)' = Output(r, c)
         /\ ValidNow(r)' = ValidNow(r) /\ (Combines(r) => Combines(r)')
  <1>1. r.number \in Nat /\ r.number \in dirs
    BY MaxAttemptAssumption DEF Placed, Attempts
  <1>2. ASSUME NEW c \in Components PROVE out'[r.from[c]] = out[r.from[c]]
    <2>1. r.from[c] \in 1..r.number
      BY DEF Placed
    <2>2. r.from[c] \in Numbers
      BY <2>1, <1>1, DirNumbers, MaxAttemptAssumption DEF Numbers, Inv
    <2> QED BY <2>1, <2>2, <1>1, OutStays
  <1>3. \A c \in Components : Output(r, c)' = Output(r, c)
    BY <1>2 DEF Output
  <1> QED BY <1>3 DEF ValidNow, Combines

\* What a copy said of its attempt stays true.
LEMMA TruthStays ==
  ASSUME Inv, TypeOK', Advance, NEW r \in Copies
  PROVE  Truth(r)'
  <1>0. r \in Attempts /\ r.number \in Nat /\ Truth(r)
    BY MaxAttemptAssumption DEF Inv, TypeOK, Copies, Attempts
  <1> USE <1>0 DEF Truth
  <1>1. Placed(r)'
    BY DEF Placed, Advance, DirsAdvance
  <1>2. OwnsJob(r)'
    BY DEF OwnsJob, Advance, JobsAdvance, Attempts
  <1>3. EndIsReal(r)'
    BY OverStays DEF EndIsReal, Placed
  <1>4. ValidIsReal(r)'
    <2> SUFFICES ASSUME NEW c \in r.valid
                 PROVE  r.number > 0 /\ Output(r, c)' \in Validates /\ Over(r.from[c])'
      BY DEF ValidIsReal
    <2>1. c \in Components /\ r.number > 0 /\ Output(r, c) \in Validates /\ Over(r.from[c])
      BY DEF ValidIsReal, Attempts
    <2>2. r.from[c] \in 1..r.number /\ r.number \in dirs
      BY <2>1 DEF Placed
    <2>3. r.from[c] \in dirs
      BY <2>2 DEF Inv, Directories
    <2>4. Output(r, c)' = Output(r, c)
      BY <2>1, <2>3, DirNumbers, OutStays DEF Output, Inv
    <2> QED BY <2>1, <2>3, <2>4, OverStays
  <1>5. RetriedForCause(r)'
    <2> SUFFICES ASSUME r.number > 0, r.number + 1 \in dirs'
                 PROVE  ValidNow(r)' # Components
      BY DEF RetriedForCause
    <2>1. CASE r.number + 1 \in dirs
      <3>1. Over((r.number + 1) - 1)
        BY <2>1 DEF Inv, Directories
      <3>2. (r.number + 1) - 1 = r.number
        OBVIOUS
      <3> QED BY <2>1, <3>1, <3>2, OutputsStay DEF RetriedForCause
    <2>2. CASE r.number + 1 \notin dirs
      <3>1. dirs # {} /\ r.number \in dirs
        BY DEF Placed
      <3>2. PICK w \in Workers : /\ view[w].number + 1 = r.number + 1
                                 /\ view[w].number \in dirs /\ Over(view[w].number)
                                 /\ ValidNow(view[w]) # Components
        BY <2>2, <3>1 DEF Advance, DirsAdvance
      <3>3. view[w].number = r.number
        BY <3>2, DirNumbers DEF Inv
      <3>4. view[w].from = r.from
        BY <3>3 DEF Inv, Agree, Copies
      <3>5. ValidNow(r) # Components
        BY <3>2, <3>4 DEF ValidNow, Output
      <3> QED BY <3>2, <3>3, <3>5, OutputsStay
    <2> QED BY <2>1, <2>2
  <1>6. Whole(r)'
    BY OutputsStay DEF Whole, EndIsReal, Ended
  <1> QED BY <1>1, <1>2, <1>3, <1>4, <1>5, <1>6

\* The missing density.json tells the truth.
LEMMA NoTaskTruth == Truth(NoTask) /\ Truth(NoTask)'
  BY DEF Truth, Placed, OwnsJob, EndIsReal, ValidIsReal, RetriedForCause, Whole, NoTask, Ended

\* A step that adds at most one record, which tells the truth too, keeps Inv.
LEMMA OneNewRecord ==
  ASSUME Inv, TypeOK', RefreshOfOld', Advance, NEW new,
         Copies' \subseteq Copies \cup {new, NoTask}, Truth(new)',
         \A r \in Copies : r.number = new.number => r.from = new.from
  PROVE  Inv'
  <1>1. \A r \in Copies' : Truth(r)'
    BY TruthStays, NoTaskTruth
  <1>2. \A r \in Copies \cup {new, NoTask} : r.number = 0 => r.from = NoTask.from
    BY DEF Inv, Truth, Placed
  <1>3. NoTask.number = 0
    BY DEF NoTask
  <1>4. ASSUME NEW r \in Copies \cup {new, NoTask}, NEW s \in Copies \cup {new, NoTask},
               r.number = s.number
        PROVE  r.from = s.from
    BY <1>2, <1>3, <1>4 DEF Inv, Agree
  <1>5. Agree'
    BY <1>4 DEF Agree
  <1> QED BY <1>1, <1>5, DirectoriesStay, JobsStayApart, ClaimsStayApart DEF Inv

\* And so does one that adds none.
LEMMA NoNewRecord ==
  ASSUME Inv, TypeOK', RefreshOfOld', Advance, Copies' \subseteq Copies \cup {NoTask}
  PROVE  Inv'
  <1>1. manifest \in Copies
    BY DEF Copies
  <1> QED BY <1>1, TruthStays, OneNewRecord DEF Inv, Agree

\* The state, job or flag of a known record may be written anew.
LEMMA Revised ==
  ASSUME Inv, TypeOK', Advance, NEW r \in Copies, NEW new,
         new.number = r.number, new.from = r.from, new.valid = r.valid,
         OwnsJob(new)', EndIsReal(new)', new.state # "COMPLETE"
  PROVE  Truth(new)' /\ \A s \in Copies : s.number = new.number => s.from = new.from
  <1>1. Truth(r)'
    BY TruthStays
  <1>2. \A c : Output(new, c)' = Output(r, c)'
    BY DEF Output
  <1>3. ValidNow(new)' = ValidNow(r)'
    BY <1>2 DEF ValidNow
  <1>4. Placed(new)' /\ ValidIsReal(new)' /\ RetriedForCause(new)' /\ Whole(new)'
    BY <1>1, <1>2, <1>3 DEF Truth, Placed, ValidIsReal, RetriedForCause, Whole
  <1> QED BY <1>4 DEF Truth, Inv, Agree

----------------------------------------------------------------------------
(* The steps.                                                              *)

\* The other workers are where they were.
Alone(w) == \A x \in Workers \ {w} :
    /\ pc'[x] = pc[x] /\ op'[x] = op[x] /\ after'[x] = after[x]
    /\ view'[x] = view[x] /\ cand'[x] = cand[x]

LEMMA ReturnAlone ==
  ASSUME TypeOK, NEW w \in Workers, Return(w)
  PROVE  /\ Alone(w) /\ pc'[w] = "idle" /\ op'[w] = "refresh" /\ after'[w] = "idle"
         /\ view'[w] = NoTask /\ cand'[w] = NoTask
  BY DEF TypeOK, Return, Goto, Alone

LEMMA WillSaveAlone ==
  ASSUME TypeOK, NEW w \in Workers, NEW new, NEW l, WillSave(w, new, l), UNCHANGED <<op, view>>
  PROVE  /\ Alone(w) /\ pc'[w] = "check" /\ cand'[w] = new /\ after'[w] = l
         /\ view'[w] = view[w] /\ op'[w] = op[w]
  BY DEF TypeOK, WillSave, Goto, Alone

\* The records after a step of one worker.
LEMMA CopiesStep ==
  ASSUME NEW w \in Workers, NEW S, Copies \subseteq S, Alone(w), manifest' \in S,
         \A i \in Installations : cache'[i] \in S, view'[w] \in S, cand'[w] \in S
  PROVE  Copies' \subseteq S
  BY DEF Copies, Alone

LEMMA RefreshStep ==
  ASSUME Inv, NEW w \in Workers, Alone(w),
         pc'[w] = "refresh" \/ after'[w] = "refresh" => op'[w] # "submit"
  PROVE  RefreshOfOld'
  BY DEF Inv, RefreshOfOld, Alone

\* The claims of the other workers stay.
LEMMA OthersClaim ==
  ASSUME NEW w \in Workers, Alone(w), NEW x \in Workers \ {w}
  PROVE  Preparing(x)' = Preparing(x) /\ Claim(x)' = Claim(x)
  BY DEF Alone, Preparing, Claim, Saving

\* A step of one worker that makes no directory, no job and no output.
LEMMA QuietAdvance ==
  ASSUME NEW w \in Workers, Alone(w), UNCHANGED <<dirs, out, jobs>>,
         Preparing(w)' => Preparing(w) /\ Claim(w)' = Claim(w)
  PROVE  Advance
  BY OthersClaim DEF Advance, JobsAdvance, NewJobs, ClaimsAdvance, DirsAdvance, OutAdvance,
                     Fresh, Used, Alive

\* A worker that returns.
LEMMA ReturnAdvance ==
  ASSUME Inv, NEW w \in Workers, Return(w), UNCHANGED <<dirs, out, jobs>>
  PROVE  Advance
  BY ReturnAlone, QuietAdvance DEF Inv, Preparing, Saving

LEMMA FinishStep ==
  ASSUME Inv, TypeOK', NEW w \in Workers, Finish(w)
  PROVE  Inv'
  <1>1. Alone(w) /\ RefreshOfOld' /\ Advance
    BY ReturnAlone, ReturnAdvance, RefreshStep DEF Finish, durable, cluster, Inv
  <1>2. Copies' \subseteq Copies \cup {NoTask}
    <2>1. Copies \subseteq Copies \cup {NoTask} /\ manifest' = manifest /\ cache' = cache
      BY DEF Finish, durable
    <2>2. manifest \in Copies /\ \A i \in Installations : cache[i] \in Copies
      BY DEF Copies
    <2> QED BY <1>1, <2>1, <2>2, ReturnAlone, CopiesStep DEF Finish, Inv
  <1> QED BY <1>1, <1>2, NoNewRecord

\* The steps of _save put around what the worker has.
LEMMA SaveStep ==
  ASSUME Inv, TypeOK', NEW w \in Workers, Save(w)
  PROVE  Inv'
  <1> USE DEF durable, cluster, locals, history
  <1> DEFINE S == Copies \cup {NoTask}
  <1>0. /\ TypeOK /\ Copies \subseteq S /\ manifest \in S /\ view[w] \in S /\ cand[w] \in S
        /\ NoTask \in S /\ \A i \in Installations : cache[i] \in S
    BY DEF Copies, Inv
  <1> HIDE DEF S
  <1>1. CASE CheckFails(w) \/ VerifyFails(w)
    BY <1>1, FinishStep DEF CheckFails, VerifyFails
  <1>2. CASE Check(w) \/ Rename(w)
    <2>1. Alone(w) /\ pc'[w] \in {"rename", "verify"} /\ UNCHANGED <<locals, dirs, jobs, out, cache>>
      BY <1>0, <1>2 DEF Check, Rename, TypeOK, Goto, Alone
    <2>2. RefreshOfOld'
      BY <2>1, <1>2, RefreshStep DEF Inv, RefreshOfOld
    <2>3. Preparing(w)' => Preparing(w) /\ Claim(w)' = Claim(w)
      BY <2>1, <1>2 DEF Preparing, Claim, Saving, Check, Rename
    <2>4. Copies' \subseteq S
      <3>1. manifest' \in S
        BY <1>0, <1>2 DEF Check, Rename
      <3> QED BY <3>1, <1>0, <2>1, CopiesStep
    <2> QED BY <2>1, <2>2, <2>3, <2>4, QuietAdvance, NoNewRecord DEF S
  <1>3. CASE Verify(w)
    <2>1. /\ Alone(w) /\ UNCHANGED <<manifest, dirs, jobs, out>>
          /\ view'[w] \in S /\ cand'[w] \in S
          /\ \/ pc'[w] = "idle" /\ after'[w] = "idle"
             \/ /\ pc'[w] = after[w] /\ view'[w] = cand[w] /\ after'[w] = after[w]
                /\ op'[w] = op[w] /\ pc'[w] \notin {"check", "rename", "verify"}
      <3>1. CASE Return(w)
        BY <1>0, <1>3, <3>1, ReturnAlone DEF Verify
      <3>2. CASE ~Return(w)
        BY <1>0, <1>3, <3>2 DEF Verify, TypeOK, Goto, Alone
      <3> QED BY <3>1, <3>2
    <2>2. RefreshOfOld'
      BY <2>1, RefreshStep DEF Inv, RefreshOfOld
    <2>3. Preparing(w)' => Preparing(w) /\ Claim(w)' = Claim(w)
      BY <2>1, <1>3 DEF Preparing, Claim, Saving, Verify
    <2>4. \A i \in Installations : cache'[i] \in S
      BY <1>0, <1>3 DEF Verify, TypeOK
    <2>5. Copies' \subseteq S
      BY <2>1, <2>4, <1>0, CopiesStep
    <2> QED BY <2>1, <2>2, <2>3, <2>5, QuietAdvance, NoNewRecord DEF S
  <1> QED BY <1>1, <1>2, <1>3 DEF Save

\* A worker that makes the directory of attempt n and will save its record.
LEMMA NewAttempt ==
  ASSUME Inv, TypeOK', NEW w \in Workers, Alone(w), NEW n \in Numbers \ dirs, NEW new,
         dirs' = dirs \cup {n}, UNCHANGED <<manifest, cache, jobs, out>>,
         pc'[w] = "check", after'[w] = "dispatch", view'[w] \in Copies \cup {NoTask},
         cand'[w] = new, new.number = n, Truth(new)',
         \/ n = 1 /\ dirs = {}
         \/ /\ view[w].number + 1 = n /\ view[w].number \in dirs
            /\ Over(view[w].number) /\ ValidNow(view[w]) # Components
  PROVE  Inv'
  <1>1. Preparing(w)' /\ Claim(w)' = n
    BY DEF Preparing, Claim, Saving
  <1>2. Fresh(w) /\ \A x \in Workers \ {w} : ~Fresh(x) /\ (Preparing(x)' => Preparing(x) /\ Claim(x)' = Claim(x))
    <2>1. \A x \in Workers \ {w} : Preparing(x)' => Claim(x)' \in dirs
      BY OthersClaim DEF Inv, ClaimsApart
    <2> QED BY <1>1, <2>1, OthersClaim DEF Fresh
  <1>3. Advance
    <2>1. JobsAdvance /\ NewJobs /\ OutAdvance
      BY DEF JobsAdvance, NewJobs, OutAdvance, Used, Alive
    <2>2. ClaimsAdvance
      BY <1>2 DEF ClaimsAdvance
    <2>3. DirsAdvance
      BY DEF DirsAdvance
    <2> QED BY <2>1, <2>2, <2>3 DEF Advance
  <1>4. RefreshOfOld'
    BY RefreshStep
  <1>5. Copies' \subseteq Copies \cup {new, NoTask}
    <2> DEFINE S == Copies \cup {new, NoTask}
    <2>1. /\ Copies \subseteq S /\ manifest' \in S /\ view'[w] \in S /\ cand'[w] \in S
          /\ \A i \in Installations : cache'[i] \in S
      BY DEF Copies
    <2> HIDE DEF S
    <2>2. Copies' \subseteq S
      BY <2>1, CopiesStep
    <2> QED BY <2>2 DEF S
  <1>6. \A r \in Copies : r.number # n
    BY DirNumbers DEF Inv, Truth, Placed
  <1> QED BY <1>3, <1>4, <1>5, <1>6, OneNewRecord

LEMMA SubmitStep ==
  ASSUME Inv, TypeOK', NEW w \in Workers, Submit(w)
  PROVE  Inv'
  <1>0. PICK new : new = Prepared(1, NoTask.from, {})
    OBVIOUS
  <1>1. /\ Alone(w) /\ pc'[w] = "check" /\ cand'[w] = new /\ after'[w] = "dispatch"
        /\ view'[w] = NoTask
    BY <1>0 DEF Submit, WillSave, Goto, Alone, Inv, TypeOK
  <1>2. /\ new.number = 1 /\ new.state = "UNKNOWN" /\ new.job = NoJob /\ new.valid = {}
        /\ \A c \in Components : new.from[c] = 1
    BY <1>0 DEF Prepared
  <1>3. 1 \in Numbers \ dirs /\ dirs' = dirs \cup {1} /\ dirs = {}
    BY MaxAttemptAssumption DEF Submit, Numbers
  <1>4. Truth(new)'
    <2>1. Placed(new)' /\ OwnsJob(new)' /\ EndIsReal(new)' /\ ValidIsReal(new)' /\ Whole(new)'
      BY <1>2, <1>3 DEF Placed, OwnsJob, EndIsReal, ValidIsReal, Whole, Ended
    <2>2. RetriedForCause(new)'
      BY <1>2, <1>3 DEF RetriedForCause
    <2> QED BY <2>1, <2>2 DEF Truth
  <1> QED BY <1>1, <1>2, <1>3, <1>4, NewAttempt DEF Submit, cluster

LEMMA RetryStep ==
  ASSUME Inv, TypeOK', NEW w \in Workers, Retry(w)
  PROVE  Inv'
  <1>0. PICK r, n, new :
          /\ r = view[w] /\ n = r.number + 1 /\ new = Prepared(n, r.from, ValidNow(r))
    OBVIOUS
  <1>1. /\ Alone(w) /\ pc'[w] = "check" /\ cand'[w] = new /\ after'[w] = "dispatch"
        /\ view'[w] = r
    BY <1>0, WillSaveAlone DEF Retry, Inv
  <1>2. /\ n \in Numbers \ dirs /\ dirs' = dirs \cup {n}
        /\ ValidNow(r) # Components /\ Retryable(r)
        /\ UNCHANGED <<manifest, cache, jobs, out>>
    BY <1>0 DEF Retry, FreeAttempt, cluster
  <1>3. r \in Copies /\ Truth(r) /\ r.number \in Nat /\ n = r.number + 1
    BY <1>0, MaxAttemptAssumption DEF Copies, Inv, TypeOK, Attempts
  <1>4. /\ new.number = n /\ new.state = "UNKNOWN" /\ new.job = NoJob
        /\ new.valid = ValidNow(r)
        /\ \A c \in Components : new.from[c] = IF c \in ValidNow(r) THEN r.from[c] ELSE n
    BY <1>0 DEF Prepared
  <1>5. r.number > 0 /\ Over(r.number) /\ r.number \in dirs
    BY <1>2, <1>3 DEF Truth, EndIsReal, Placed, Retryable, Ended
  <1>6. \A c \in Components : r.from[c] \in 1..r.number
    BY <1>3, <1>5 DEF Truth, Placed
  <1>7. \A k \in 1..r.number : Over(k)'
    <2> SUFFICES ASSUME NEW k \in 1..r.number PROVE Over(k)'
      OBVIOUS
    <2>1. \A j \in Jobs : jobs[j].attempt \in Nat
      BY DEF Inv, TypeOK, JobRecord
    <2>2. \A j \in Jobs : Used(j)' /\ jobs'[j].attempt <= k => ~Alive(j)'
      BY <1>2, <1>3, <1>5, <2>1 DEF Over, Used, Alive
    <2>3. \A x \in Workers \ {w} : Preparing(x)' => Claim(x)' > k
      BY <1>1, <1>3, <1>5, OthersClaim, DirNumbers DEF Over, Inv, ClaimsApart
    <2>4. Preparing(w)' => Claim(w)' > k
      BY <1>1, <1>3, <1>4 DEF Preparing, Claim, Saving
    <2> QED BY <2>2, <2>3, <2>4 DEF Over
  <1>8. Truth(new)'
    <2>1. Placed(new)'
      BY <1>2, <1>3, <1>4, <1>6 DEF Placed
    <2>2. OwnsJob(new)' /\ EndIsReal(new)' /\ Whole(new)'
      BY <1>4 DEF OwnsJob, EndIsReal, Whole, Ended
    <2>3. ValidIsReal(new)'
      <3> SUFFICES ASSUME NEW c \in ValidNow(r)
                   PROVE  n > 0 /\ out'[new.from[c]][c] \in Validates /\ Over(new.from[c])'
        BY <1>4 DEF ValidIsReal, Output
      <3>1. c \in Components /\ out[r.from[c]][c] \in Validates
        BY DEF ValidNow, Output
      <3>2. new.from[c] = r.from[c]
        BY <1>4, <3>1
      <3>3. Over(r.from[c])'
        BY <1>6, <1>7, <3>1
      <3> QED BY <1>2, <1>3, <3>1, <3>2, <3>3
    <2>4. RetriedForCause(new)'
      <3>1. n + 1 \notin dirs'
        BY <1>2, <1>3, DirNumbers DEF Inv, Directories
      <3> QED BY <3>1, <1>4 DEF RetriedForCause
    <2> QED BY <2>1, <2>2, <2>3, <2>4 DEF Truth
  <1> QED BY <1>0, <1>1, <1>2, <1>3, <1>4, <1>5, <1>8, NewAttempt

\* What a step of one worker that adds the record "new" has to show.
LEMMA RecordStep ==
  ASSUME Inv, TypeOK', NEW w \in Workers, Alone(w), NEW new, Advance, Truth(new)',
         \A r \in Copies : r.number = new.number => r.from = new.from,
         manifest' = manifest, \A i \in Installations : cache'[i] \in {cache[i], new},
         view'[w] \in {view[w], manifest, NoTask}, cand'[w] \in {cand[w], new, NoTask},
         pc'[w] = "refresh" \/ after'[w] = "refresh" => op'[w] # "submit"
  PROVE  Inv'
  <1> DEFINE S == Copies \cup {new, NoTask}
  <1>1. /\ Copies \subseteq S /\ manifest' \in S /\ view'[w] \in S /\ cand'[w] \in S
        /\ \A i \in Installations : cache'[i] \in S
    BY DEF Copies
  <1> HIDE DEF S
  <1>2. Copies' \subseteq S
    BY <1>1, CopiesStep
  <1> QED BY <1>2, RefreshStep, OneNewRecord DEF S

\* The job of the attempt a worker was preparing: it is the first and only one.
LEMMA LaunchAdvance ==
  ASSUME Inv, NEW w \in Workers, NEW j \in Jobs, Alone(w), pc[w] = "dispatch",
         Accept(w, j), ~Preparing(w)', UNCHANGED <<dirs, out>>
  PROVE  Advance /\ Used(j)' /\ jobs'[j].attempt = view[w].number
  <1>1. ~Used(j) /\ Used(j)' /\ jobs'[j].attempt = view[w].number
    BY DEF Accept, Used, Inv, TypeOK
  <1>2. \A k \in Jobs \ {j} : jobs'[k] = jobs[k]
    BY DEF Accept, Inv, TypeOK
  <1>3. Preparing(w) /\ Claim(w) = view[w].number
    BY DEF Preparing, Claim
  <1>4. JobsAdvance
    BY <1>1, <1>2 DEF JobsAdvance, Used, Alive
  <1>5. NewJobs
    BY <1>1, <1>2, <1>3 DEF NewJobs, Used
  <1>6. ClaimsAdvance
    BY OthersClaim DEF ClaimsAdvance, Fresh
  <1> QED BY <1>1, <1>4, <1>5, <1>6 DEF Advance, DirsAdvance, OutAdvance

LEMMA DispatchStep ==
  ASSUME Inv, TypeOK', NEW w \in Workers, Dispatch(w)
  PROVE  Inv'
  <1> USE DEF durable, cluster, locals, history
  <1>0. /\ pc[w] = "dispatch" /\ view[w] \in Copies /\ TypeOK /\ view[w].number \in dirs
        /\ Preparing(w) /\ Claim(w) = view[w].number /\ Truth(view[w])
        /\ view[w].number \in Nat \ {0}
    BY DispatchNumber, DirNumbers
       DEF Dispatch, DispatchAccepted, DispatchRejected, DispatchLost, Copies, Inv, Preparing, Claim
  <1>1. CASE DispatchAccepted(w)
    <2>1. PICK j, new :
            /\ j \in Jobs /\ Accept(w, j) /\ new = [view[w] EXCEPT !.state = "QUEUED", !.job = j]
            /\ WillSave(w, new, "idle")
      BY <1>1 DEF DispatchAccepted
    <2>2. /\ Alone(w) /\ pc'[w] = "check" /\ cand'[w] = new /\ after'[w] = "idle"
          /\ view'[w] = view[w] /\ op'[w] = op[w]
      BY <1>0, <1>1, <2>1, WillSaveAlone DEF DispatchAccepted
    <2>3. Advance /\ Used(j)' /\ jobs'[j].attempt = view[w].number
      BY <1>0, <1>1, <2>1, <2>2, LaunchAdvance DEF DispatchAccepted, Preparing, Saving
    <2>4. /\ new.number = view[w].number /\ new.from = view[w].from
          /\ new.valid = view[w].valid /\ new.state = "QUEUED" /\ new.job = j
      BY <1>0, <2>1 DEF TypeOK, Attempts
    <2>5. OwnsJob(new)' /\ EndIsReal(new)'
      BY <2>3, <2>4 DEF OwnsJob, EndIsReal, Ended
    <2>6. Truth(new)' /\ \A s \in Copies : s.number = new.number => s.from = new.from
      BY <1>0, <2>3, <2>4, <2>5, Revised
    <2>7. manifest' = manifest /\ \A i \in Installations : cache'[i] \in {cache[i], new}
      BY <1>0, <1>1, <2>2 DEF DispatchAccepted, ReceiptCached, TypeOK
    <2> QED BY <2>2, <2>3, <2>6, <2>7, RecordStep
  <1>2. CASE DispatchRejected(w)
    <2>1. PICK new : new = [view[w] EXCEPT !.state = "FAILED"] /\ WillSave(w, new, "idle")
      BY <1>2 DEF DispatchRejected
    <2>2. /\ Alone(w) /\ pc'[w] = "check" /\ cand'[w] = new /\ after'[w] = "idle"
          /\ view'[w] = view[w] /\ op'[w] = op[w]
      BY <1>0, <1>2, <2>1, WillSaveAlone DEF DispatchRejected
    <2>3. Advance /\ ~Preparing(w)'
      BY <1>2, <2>2, QuietAdvance DEF DispatchRejected, Preparing, Saving
    <2>4. /\ new.number = view[w].number /\ new.from = view[w].from
          /\ new.valid = view[w].valid /\ new.state = "FAILED" /\ new.job = view[w].job
      BY <1>0, <2>1 DEF TypeOK, Attempts
    <2>5. Over(new.number)'
      <3>1. Over(new.number - 1)
        BY <1>0, <2>4 DEF Inv, Directories
      <3>2. ASSUME NEW j \in Jobs, Used(j)', jobs'[j].attempt <= new.number
            PROVE  ~Alive(j)'
        <4>1. Used(j) /\ jobs[j].attempt # new.number /\ jobs[j].attempt \in Nat
          BY <1>0, <1>2, <2>4, <3>2 DEF DispatchRejected, Used, Inv, ClaimsApart, TypeOK, JobRecord
        <4> QED BY <1>0, <1>2, <2>4, <3>1, <3>2, <4>1 DEF DispatchRejected, Over, Used, Alive
      <3>3. ASSUME NEW x \in Workers, Preparing(x)'
            PROVE  Claim(x)' > new.number
        <4>1. x # w /\ Preparing(x) /\ Claim(x)' = Claim(x)
          BY <2>2, <2>3, <3>3, OthersClaim
        <4>2. Claim(x) # new.number /\ Claim(x) > new.number - 1 /\ Claim(x) \in Nat
          BY <1>0, <2>4, <3>1, <4>1, DirNumbers DEF Over, Inv, ClaimsApart
        <4> QED BY <1>0, <2>4, <4>1, <4>2
      <3> QED BY <3>2, <3>3 DEF Over
    <2>6. OwnsJob(new)' /\ EndIsReal(new)'
      <3>1. OwnsJob(view[w])
        BY <1>0 DEF Truth
      <3> QED BY <1>0, <1>2, <2>4, <2>5, <3>1 DEF DispatchRejected, OwnsJob, EndIsReal, Ended, Used
    <2>7. Truth(new)' /\ \A s \in Copies : s.number = new.number => s.from = new.from
      BY <1>0, <2>3, <2>4, <2>6, Revised
    <2>8. manifest' = manifest /\ \A i \in Installations : cache'[i] \in {cache[i], new}
      BY <1>0, <1>2, <2>2 DEF DispatchRejected, ReceiptCached, TypeOK
    <2> QED BY <2>2, <2>3, <2>7, <2>8, RecordStep
  <1>3. CASE DispatchLost(w)
    <2>1. PICK j \in Jobs : Accept(w, j)
      BY <1>3 DEF DispatchLost
    <2>2. Alone(w) /\ ~Preparing(w)'
      BY <1>0, <1>3, ReturnAlone DEF DispatchLost, Preparing, Saving
    <2>3. Advance
      BY <1>0, <1>3, <2>1, <2>2, LaunchAdvance DEF DispatchLost
    <2>4. PICK old : old = manifest
      OBVIOUS
    <2>5. old \in Copies /\ Truth(old)'
      BY <2>3, <2>4, TruthStays DEF Copies
    <2>6. \A r \in Copies : r.number = old.number => r.from = old.from
      BY <2>5 DEF Inv, Agree
    <2> QED BY <1>0, <1>3, <2>2, <2>3, <2>5, <2>6, ReturnAlone, RecordStep DEF DispatchLost
  <1> QED BY <1>1, <1>2, <1>3 DEF Dispatch

\* A step of one worker that only writes an attempt's record anew.
LEMMA RevisedStep ==
  ASSUME Inv, TypeOK', NEW w \in Workers, NEW new, NEW l \in {"idle", "refresh", "recover", "retry", "cancel"},
         WillSave(w, new, l), UNCHANGED <<durable, cluster, op, view>>,
         pc[w] \in {"refresh", "recover"}, l = "refresh" => op[w] # "submit",
         Truth(new)' \/ (/\ new.number = view[w].number /\ new.from = view[w].from
                         /\ new.valid = view[w].valid /\ OwnsJob(new) /\ EndIsReal(new)
                         /\ new.state # "COMPLETE"),
         new.number = view[w].number /\ new.from = view[w].from
  PROVE  Inv'
  <1>1. /\ Alone(w) /\ pc'[w] = "check" /\ cand'[w] = new /\ after'[w] = l
        /\ view'[w] = view[w] /\ op'[w] = op[w]
    BY WillSaveAlone DEF Inv
  <1>2. Advance /\ ~Preparing(w)'
    BY <1>1, QuietAdvance DEF Preparing, Saving, durable, cluster
  <1>3. view[w] \in Copies
    BY DEF Copies
  <1>4. Truth(new)'
    <2>1. ASSUME OwnsJob(new), EndIsReal(new), new.number = view[w].number
          PROVE  OwnsJob(new)' /\ EndIsReal(new)'
      <3>1. OwnsJob(new)'
        BY <2>1 DEF OwnsJob, Used, cluster
      <3>2. new.number \in dirs \cup {0}
        BY <1>3, <2>1 DEF Inv, Truth, Placed
      <3>3. EndIsReal(new)'
        BY <1>2, <2>1, <3>2, OverStays DEF EndIsReal
      <3> QED BY <3>1, <3>3
    <2> QED BY <1>2, <1>3, <2>1, Revised
  <1>5. \A s \in Copies : s.number = new.number => s.from = new.from
    BY <1>3 DEF Inv, Agree
  <1> QED BY <1>1, <1>2, <1>4, <1>5, RecordStep DEF durable

\* When the job of a copy has ended, so has its attempt.
LEMMA JobEndsAttempt ==
  ASSUME Inv, NEW r \in Copies, r.job # NoJob, ~Alive(r.job)
  PROVE  r.number > 0 /\ Over(r.number)
  <1>1. /\ r.job \in Jobs /\ Used(r.job) /\ jobs[r.job].attempt = r.number
        /\ r.number \in dirs /\ r.number \in Nat \ {0}
    <2>1. r \in Attempts /\ OwnsJob(r)
      BY DEF Inv, TypeOK, Copies, Truth
    <2> QED BY <2>1, DirNumbers DEF Attempts, OwnsJob, Inv, JobsApart
  <1>2. Over(r.number - 1)
    BY <1>1 DEF Inv, Directories
  <1>3. ASSUME NEW j \in Jobs, Used(j), jobs[j].attempt <= r.number PROVE ~Alive(j)
    <2>1. CASE jobs[j].attempt = r.number
      BY <2>1, <1>1, <1>3 DEF Inv, JobsApart, OneJobPerAttempt, Used
    <2>2. CASE jobs[j].attempt # r.number
      <3>1. jobs[j].attempt \in Nat
        BY DEF Inv, TypeOK, JobRecord
      <3> QED BY <2>2, <3>1, <1>1, <1>2, <1>3 DEF Over
    <2> QED BY <2>1, <2>2
  <1>4. ASSUME NEW w \in Workers, Preparing(w) PROVE Claim(w) > r.number
    <2>1. Claim(w) \in Nat /\ Claim(w) > r.number - 1 /\ Claim(w) # r.number
      BY <1>1, <1>2, <1>4, DirNumbers DEF Over, Inv, ClaimsApart
    <2> QED BY <2>1, <1>1
  <1> QED BY <1>1, <1>3, <1>4 DEF Over

LEMMA RefreshInv ==
  ASSUME Inv, TypeOK', NEW w \in Workers, Refresh(w)
  PROVE  Inv'
  <1> USE DEF durable, cluster, locals, history
  <1>0. /\ TypeOK /\ view[w] \in Copies /\ manifest \in Copies /\ Truth(view[w])
        /\ view[w] \in Attempts
    BY DEF Inv, Copies, TypeOK
  <1>1. ASSUME NEW kind \in Offered[w] \ {"submit"}, Begin(w, kind) PROVE Inv'
    <2>1. /\ Alone(w) /\ pc'[w] = "refresh" /\ op'[w] # "submit" /\ view'[w] = manifest
          /\ cand' = cand /\ after' = after
      BY <1>0, <1>1 DEF Begin, Goto, Alone, TypeOK
    <2>2. Advance
      BY <1>1, <2>1, QuietAdvance DEF Begin, Preparing, Saving
    <2>3. PICK old : old = manifest
      OBVIOUS
    <2>4. Truth(old)' /\ \A r \in Copies : r.number = old.number => r.from = old.from
      BY <1>0, <2>2, <2>3, TruthStays DEF Inv, Agree
    <2> QED BY <1>1, <2>1, <2>2, <2>4, RecordStep DEF Begin
  <1>2. CASE Repair(w)
    <2> DEFINE local == cache[Home[w]]
    <2>1. PICK new : /\ new = [view[w] EXCEPT !.state = "QUEUED", !.job = local.job]
                     /\ WillSave(w, new, "refresh")
      BY <1>2 DEF Repair
    <2>2. local \in Copies /\ OwnsJob(local) /\ local.number = view[w].number
      BY <1>2, HomeAssumption DEF Repair, Repairable, OwnReceipt, Copies, Inv, Truth
    <2>3. /\ new.number = view[w].number /\ new.from = view[w].from
          /\ new.valid = view[w].valid /\ new.state = "QUEUED" /\ new.job = local.job
      BY <1>0, <2>1 DEF Attempts
    <2>4. OwnsJob(new) /\ EndIsReal(new)
      BY <2>2, <2>3 DEF OwnsJob, EndIsReal, Ended
    <2>5. pc[w] = "refresh" /\ op[w] # "submit"
      BY <1>2 DEF Repair, Inv, RefreshOfOld
    <2> QED BY <1>2, <2>1, <2>3, <2>4, <2>5, RevisedStep DEF Repair
  <1>3. CASE NothingToAsk(w)
    <2>1. CASE Return(w)
      BY <1>3, <2>1, FinishStep DEF NothingToAsk, Finish
    <2>2. CASE ~Return(w)
      <3>1. /\ Alone(w) /\ pc'[w] = op[w] /\ op[w] \notin {"refresh", "submit"} /\ UNCHANGED locals
        BY <1>0, <1>3, <2>2 DEF NothingToAsk, AfterRefresh, Goto, Alone, TypeOK, Inv, RefreshOfOld
      <3>2. pc'[w] \in {"recover", "retry", "cancel"}
        BY <1>0, <3>1 DEF TypeOK, Operations
      <3>3. Advance
        BY <1>3, <3>1, <3>2, QuietAdvance DEF NothingToAsk, Preparing, Saving
      <3>4. RefreshOfOld'
        BY <3>1, <3>2, RefreshStep DEF Inv, RefreshOfOld
      <3>5. Copies' = Copies
        BY <1>3, <3>1 DEF NothingToAsk, Copies
      <3> QED BY <3>3, <3>4, <3>5, NoNewRecord
    <2> QED BY <2>1, <2>2
  <1>4. CASE Query(w)
    <2>1. PICK state, new :
            /\ state \in Concluded(view[w], jobs[view[w].job].st)
            /\ new = [view[w] EXCEPT !.state = state] /\ WillSave(w, new, AfterRefresh(w))
      BY <1>4 DEF Query
    <2>2. /\ new.number = view[w].number /\ new.from = view[w].from
          /\ new.valid = view[w].valid /\ new.state = state /\ new.job = view[w].job
      BY <1>0, <2>1 DEF Attempts
    <2>3. /\ state # "COMPLETE"
          /\ state \in Ended => jobs[view[w].job].st \notin {"pending", "running"}
      BY <2>1, ConcludedType
    <2>4. OwnsJob(new) /\ EndIsReal(new)
      BY <1>0, <1>4, <2>2, <2>3, JobEndsAttempt DEF Query, Truth, OwnsJob, EndIsReal, Alive
    <2>5. /\ AfterRefresh(w) \in {"idle", "refresh", "recover", "retry", "cancel"}
          /\ AfterRefresh(w) # "refresh" /\ pc[w] = "refresh"
      BY <1>0, <1>4 DEF Query, AfterRefresh, TypeOK, Operations, Inv, RefreshOfOld
    <2> QED BY <1>4, <2>1, <2>2, <2>3, <2>4, <2>5, RevisedStep DEF Query
  <1> QED BY <1>1, <1>2, <1>3, <1>4 DEF Refresh

LEMMA RecoverStep ==
  ASSUME Inv, TypeOK', NEW w \in Workers, Recover(w)
  PROVE  Inv'
  <1> USE DEF durable, cluster, locals, history
  <1> DEFINE r == view[w]
  <1>0. /\ r \in Copies /\ r \in Attempts /\ Truth(r) /\ r.number > 0 /\ Over(r.number)
        /\ pc[w] = "recover" /\ UNCHANGED <<durable, cluster, op, view>>
    BY DEF Recover, Recoverable, Inv, Copies, TypeOK, Truth, EndIsReal, Ended
  <1>1. CASE Combines(r)
    <2>1. PICK new : /\ new = [r EXCEPT !.state = "COMPLETE", !.valid = Components]
                     /\ WillSave(w, new, "idle")
      BY <1>1 DEF Recover
    <2>2. /\ new.number = r.number /\ new.from = r.from /\ new.valid = Components
          /\ new.state = "COMPLETE" /\ new.job = r.job
      BY <1>0, <2>1 DEF Attempts
    <2>3. Advance
      BY <2>1, <1>0, WillSaveAlone, QuietAdvance DEF Inv, Preparing, Saving
    <2>4. Over(new.number)'
      BY <1>0, <2>2, <2>3, OverStays DEF Truth, Placed
    <2>6. Placed(new)' /\ OwnsJob(new)' /\ EndIsReal(new)'
      BY <1>0, <2>2, <2>4 DEF Truth, Placed, OwnsJob, EndIsReal, Used
    <2>7. \A c \in Components : /\ out[new.from[c]][c] = out[r.from[c]][c]
                               /\ out'[new.from[c]][c] = out[r.from[c]][c]
      BY <1>0, <2>2
    <2>8. \A c \in Components : out[r.from[c]][c] \in Validates
      BY <1>1 DEF Combines, Output
    <2>9. ValidIsReal(new)'
      <3> SUFFICES ASSUME NEW c \in Components PROVE Over(new.from[c])'
        BY <1>0, <2>2, <2>7, <2>8 DEF ValidIsReal, Output
      <3>1. new.from[c] \in 1..new.number /\ new.number \in Nat
        BY <1>0, <2>2, MaxAttemptAssumption DEF Truth, Placed, Attempts
      <3>2. \A x \in Workers : Preparing(x)' => Claim(x)' \in Nat
        <4>1. ClaimsApart' /\ dirs' \subseteq Nat
          BY <1>0, <2>3, ClaimsStayApart, DirNumbers DEF Inv
        <4> QED BY <4>1 DEF ClaimsApart
      <3>3. \A j \in Jobs : jobs'[j].attempt \in Nat
        BY DEF TypeOK, JobRecord
      <3> QED BY <2>4, <3>1, <3>2, <3>3 DEF Over
    <2>10. RetriedForCause(new)'
      <3>1. ValidNow(new)' = ValidNow(r)
        BY <2>7 DEF ValidNow, Output
      <3> QED BY <1>0, <2>2, <3>1 DEF Truth, RetriedForCause
    <2>11. Whole(new)'
      BY <1>1, <2>2, <2>7 DEF Whole, Combines, Output
    <2>12. Truth(new)'
      BY <2>6, <2>9, <2>10, <2>11 DEF Truth
    <2> QED BY <1>0, <2>1, <2>2, <2>12, RevisedStep
  <1>2. CASE ~Combines(r)
    <2>1. PICK new : /\ new = [r EXCEPT !.state = "FAILED", !.flag = TRUE]
                     /\ WillSave(w, new, "idle")
      BY <1>2 DEF Recover
    <2>2. /\ new.number = r.number /\ new.from = r.from /\ new.valid = r.valid
          /\ new.state = "FAILED" /\ new.job = r.job
      BY <1>0, <2>1 DEF Attempts
    <2>3. OwnsJob(new) /\ EndIsReal(new)
      BY <1>0, <2>2 DEF Truth, OwnsJob, EndIsReal
    <2> QED BY <1>0, <2>1, <2>2, <2>3, RevisedStep
  <1> QED BY <1>1, <1>2

\* A step that leaves the records alone and starts no job.
LEMMA ClusterAdvance ==
  ASSUME UNCHANGED dirs, NEW j \in Jobs, Used(j),
         \A k \in Jobs \ {j} : jobs'[k] = jobs[k],
         jobs'[j].attempt = jobs[j].attempt, Used(j)', Alive(j)' => Alive(j),
         \A w \in Workers : Preparing(w)' => Preparing(w) /\ Claim(w)' = Claim(w),
         OutAdvance
  PROVE  Advance
  <1>1. JobsAdvance /\ NewJobs
    BY DEF JobsAdvance, NewJobs, Used, Alive
  <1>2. ClaimsAdvance /\ DirsAdvance
    BY DEF ClaimsAdvance, DirsAdvance, Fresh
  <1> QED BY <1>1, <1>2 DEF Advance

LEMMA CancelStep ==
  ASSUME Inv, TypeOK', NEW w \in Workers, Cancel(w)
  PROVE  Inv'
  <1> USE DEF durable, cluster, locals, history
  <1>1. CASE UNCHANGED jobs
    BY <1>1, FinishStep DEF Cancel, Finish
  <1>2. CASE ~UNCHANGED jobs
    <2>1. PICK j : j = view[w].job
      OBVIOUS
    <2>2. /\ jobs[j].st \in {"pending", "running"}
          /\ jobs' = [jobs EXCEPT ![j].st = "cancelled"]
      BY <1>2, <2>1 DEF Cancel
    <2>3. j \in Jobs
      BY <1>2, <2>2 DEF Inv, TypeOK
    <2>4. /\ \A k \in Jobs \ {j} : jobs'[k] = jobs[k]
          /\ jobs'[j].attempt = jobs[j].attempt /\ Used(j) /\ Used(j)' /\ Alive(j)
      BY <2>2, <2>3 DEF Inv, TypeOK, JobRecord, Used, Alive
    <2>5. /\ Alone(w) /\ pc'[w] = "idle" /\ op'[w] = "refresh" /\ after'[w] = "idle"
          /\ view'[w] = NoTask /\ cand'[w] = NoTask
      BY ReturnAlone DEF Cancel, Inv
    <2>6. \A x \in Workers : Preparing(x)' => Preparing(x) /\ Claim(x)' = Claim(x)
      BY <2>5, OthersClaim DEF Preparing, Saving
    <2>7. Advance
      BY <2>3, <2>4, <2>6, ClusterAdvance DEF Cancel, OutAdvance
    <2>8. RefreshOfOld'
      BY <2>5, RefreshStep
    <2>9. Copies' \subseteq Copies \cup {NoTask}
      <3> DEFINE S == Copies \cup {NoTask}
      <3>1. /\ Copies \subseteq S /\ manifest \in S /\ NoTask \in S
            /\ \A i \in Installations : cache[i] \in S
        BY DEF Copies
      <3> HIDE DEF S
      <3>2. Copies' \subseteq S
        BY <3>1, <2>5, CopiesStep DEF Cancel
      <3> QED BY <3>2 DEF S
    <2> QED BY <2>7, <2>8, <2>9, NoNewRecord
  <1> QED BY <1>1, <1>2

LEMMA ActStep ==
  ASSUME Inv, TypeOK', NEW w \in Workers, Act(w)
  PROVE  Inv'
  <1>1. CASE RecoverRefused(w) \/ RetryRefused(w) \/ CancelRefused(w)
    BY <1>1, FinishStep DEF RecoverRefused, RetryRefused, CancelRefused
  <1> QED BY <1>1, RecoverStep, RetryStep, CancelStep DEF Act

\* A job that goes on keeps its attempt and was alive (JobStarts, ComponentEnds, JobStops).
LEMMA JobsStep ==
  ASSUME Inv, NEW j \in Jobs, JobStep(j)
  PROVE  /\ \A k \in Jobs \ {j} : jobs'[k] = jobs[k]
         /\ jobs'[j].attempt = jobs[j].attempt /\ Used(j) /\ Used(j)' /\ Alive(j)
  <1>0. jobs[j] \in JobRecord /\ jobs \in [Jobs -> JobRecord]
    BY DEF Inv, TypeOK
  <1>1. CASE JobStarts(j)
    BY <1>0, <1>1 DEF JobStarts, JobRecord, Used, Alive
  <1>2. CASE ComponentEnds(j)
    <2>1. PICK left, st : /\ st \in {"completed", "running"}
                          /\ jobs' = [jobs EXCEPT ![j].left = left, ![j].st = st]
      BY <1>2 DEF ComponentEnds
    <2>2. jobs' = [jobs EXCEPT ![j] = [jobs[j] EXCEPT !.left = left, !.st = st]]
      BY <1>0, <2>1
    <2>3. /\ \A k \in Jobs \ {j} : jobs'[k] = jobs[k]
          /\ jobs'[j] = [jobs[j] EXCEPT !.left = left, !.st = st]
      BY <1>0, <2>2
    <2>4. jobs[j].st = "running"
      BY <1>2 DEF ComponentEnds
    <2> QED BY <1>0, <2>1, <2>3, <2>4 DEF JobRecord, Used, Alive
  <1>3. CASE JobStops(j)
    BY <1>0, <1>3 DEF JobStops, JobRecord, Used, Alive
  <1> QED BY <1>1, <1>2, <1>3 DEF JobStep

LEMMA JobInv ==
  ASSUME Inv, TypeOK', NEW j \in Jobs, JobStep(j)
  PROVE  Inv'
  <1> USE DEF durable, locals, history
  <1>1. UNCHANGED <<manifest, cache, dirs, pc, op, view, cand, after>>
    BY DEF JobStep, JobStarts, ComponentEnds, JobStops
  <1>2. /\ \A k \in Jobs \ {j} : jobs'[k] = jobs[k]
        /\ jobs'[j].attempt = jobs[j].attempt /\ Used(j) /\ Used(j)' /\ Alive(j)
    BY JobsStep
  <1>3. OutAdvance
    <2>1. ASSUME NEW n \in Numbers, n # jobs[j].attempt PROVE out'[n] = out[n]
      BY <2>1 DEF JobStep, JobStarts, ComponentEnds, JobStops, Inv, TypeOK
    <2> QED BY <1>2, <2>1 DEF OutAdvance
  <1>4. Advance
    BY <1>1, <1>2, <1>3, ClusterAdvance DEF Preparing, Claim, Saving
  <1>5. RefreshOfOld' /\ Copies' = Copies
    BY <1>1 DEF Inv, RefreshOfOld, Copies
  <1> QED BY <1>4, <1>5, NoNewRecord

LEMMA InitInv ==
  ASSUME Init
  PROVE  Inv
  <1>1. TypeOK
    <2>1. jobs \in [Jobs -> JobRecord]
      BY MaxAttemptAssumption DEF Init, Unused, JobRecord
    <2>2. out \in [Numbers -> [Components -> Outputs]]
      BY DEF Init, Outputs
    <2> QED BY <2>1, <2>2, NoTaskType DEF Init, TypeOK, Labels, Operations
  <1>2. \A w \in Workers : ~Preparing(w) /\ pc[w] = "idle" /\ after[w] = "idle"
    BY DEF Init, Preparing, Saving
  <1>3. \A j \in Jobs : ~Used(j)
    BY DEF Init, Used, Unused
  <1>4. \A r \in Copies : r = NoTask
    BY DEF Init, Copies
  <1>5. dirs = {}
    BY DEF Init
  <1> QED BY <1>1, <1>2, <1>3, <1>4, <1>5, NoTaskTruth
          DEF Inv, RefreshOfOld, Directories, JobsApart, OneJobPerAttempt, ClaimsApart,
              Agree, Used

LEMMA NextInv ==
  ASSUME Inv, [Next]_vars
  PROVE  Inv'
  <1>1. TypeOK'
    BY TypeStep
  <1>2. CASE UNCHANGED vars
    <2>1. UNCHANGED <<manifest, cache, dirs, out, jobs, pc, op, view, cand, after>>
      BY <1>2 DEF vars, durable, cluster, locals
    <2>2. Advance
      BY <2>1 DEF Advance, JobsAdvance, NewJobs, ClaimsAdvance, DirsAdvance, OutAdvance,
                  Fresh, Used, Alive, Preparing, Saving, Claim
    <2>3. RefreshOfOld' /\ Copies' = Copies
      BY <2>1 DEF Inv, RefreshOfOld, Copies
    <2> QED BY <1>1, <2>2, <2>3, NoNewRecord
  <1>3. ASSUME NEW w \in Workers, Fail(w) PROVE Inv'
    BY <1>1, <1>3, FinishStep DEF Fail
  <1> QED BY <1>1, <1>2, <1>3, SubmitStep, DispatchStep, RefreshInv, ActStep, SaveStep, JobInv
          DEF Next

\* Every copy of the manifest tells the truth, in every reachable state.
THEOREM Invariance == Spec => []Inv
  BY InitInv, NextInv, PTL DEF Spec

----------------------------------------------------------------------------
(* The properties.                                                         *)

\* Every variable keeps its type, whatever the workers and the cluster do.
THEOREM TypeTheorem == Spec => []TypeOK
  <1>1. Inv => TypeOK
    BY DEF Inv
  <1> QED BY <1>1, Invariance, PTL

\* No attempt ever has two jobs: transport loss, repair, retry and overlapping
\* saves never dispatch one attempt twice.
THEOREM DispatchedOnceTheorem == Spec => []OneJobPerAttempt
  <1>1. Inv => OneJobPerAttempt
    BY DEF Inv, JobsApart
  <1> QED BY <1>1, Invariance, PTL

\* Two jobs of one task never run at the same time: a retry follows an attempt
\* that is over.
THEOREM OneLiveJobTheorem == Spec => []OneJobAtATime
  <1>1. ASSUME Inv PROVE OneJobAtATime
    <2> USE <1>1
    <2> SUFFICES ASSUME NEW j \in Jobs, NEW k \in Jobs, Alive(j), Alive(k) PROVE j = k
      BY DEF OneJobAtATime
    <2>1. \A i \in Jobs : Alive(i) => Used(i) /\ jobs[i].attempt \in dirs /\ jobs[i].attempt \in Nat
      BY AliveUsed, DirNumbers DEF Inv, JobsApart
    <2>2. ASSUME NEW a \in Jobs, NEW b \in Jobs, Alive(a), Alive(b)
          PROVE  ~(jobs[a].attempt < jobs[b].attempt)
      <3>1. Over(jobs[b].attempt - 1)
        BY <2>1, <2>2 DEF Inv, Directories
      <3> QED BY <2>1, <2>2, <3>1 DEF Over
    <2>3. jobs[j].attempt = jobs[k].attempt
      BY <2>1, <2>2
    <2> QED BY <2>1, <2>3 DEF Inv, JobsApart, OneJobPerAttempt, Used
  <1> QED BY <1>1, Invariance, PTL

\* A recorded job is the recorded attempt's, also after the repair from a local
\* copy.
THEOREM JobIsOwnTheorem == Spec => []JobIsOwn
  <1>1. Inv => JobIsOwn
    BY DEF Inv, Copies, Truth, OwnsJob, JobIsOwn, Used
  <1> QED BY <1>1, Invariance, PTL

\* A task recorded as COMPLETE rests on outputs that combine, and no job of it
\* runs any more.
THEOREM CompleteTheorem == Spec => []CompleteIsReal
  <1>1. ASSUME Inv, manifest.state = "COMPLETE"
        PROVE  /\ \A c, d \in Components : Output(manifest, c) = Output(manifest, d)
               /\ \A c \in Components : Output(manifest, c) \in Validates
               /\ \A j \in Jobs : ~Alive(j)
    <2>1. Truth(manifest)
      BY <1>1 DEF Inv, Copies
    <2>2. Combines(manifest) /\ manifest.number > 0 /\ Over(manifest.number)
      BY <1>1, <2>1 DEF Truth, Whole, EndIsReal, Ended
    <2>3. ValidNow(manifest) = Components
      BY <2>2 DEF ValidNow, Combines
    <2>4. manifest.number \in Nat /\ manifest.number + 1 \notin dirs
      BY <1>1, <2>1, <2>2, <2>3, MaxAttemptAssumption
         DEF Truth, RetriedForCause, Inv, TypeOK, Attempts
    <2>5. ASSUME NEW j \in Jobs PROVE ~Alive(j)
      <3>1. Used(j) => jobs[j].attempt \in dirs /\ jobs[j].attempt \in Nat
        BY <1>1, DirNumbers DEF Inv, JobsApart
      <3>2. \A n \in dirs : n <= manifest.number
        BY <1>1, <2>4, DirNumbers DEF Inv, Directories
      <3> QED BY <2>2, <3>1, <3>2, AliveUsed DEF Over
    <2> QED BY <2>2, <2>5 DEF Combines
  <1>2. Inv => CompleteIsReal
    BY <1>1 DEF CompleteIsReal
  <1> QED BY <1>2, Invariance, PTL

\* A component recorded as validated has a valid output nobody writes any more.
THEOREM ValidatedTheorem == Spec => []ValidatedStays
  <1>1. ASSUME Inv PROVE ValidatedStays
    <2>1. ValidIsReal(manifest)
      BY <1>1 DEF Inv, Copies, Truth
    <2>2. \A j \in Jobs : jobs[j].attempt \in Nat
      BY <1>1 DEF Inv, TypeOK, JobRecord
    <2> QED BY <2>1, <2>2, AliveUsed DEF ValidatedStays, ValidIsReal, Over
  <1> QED BY <1>1, Invariance, PTL

----------------------------------------------------------------------------
(* Why saves that do not overlap only go forward.                          *)

\* While no two windows overlapped, whoever is in one is alone in it and still
\* finds the record he compared.
OneSaver ==
    ~overlapped =>
        /\ \A w, x \in Workers : InWindow(w) /\ InWindow(x) => w = x
        /\ \A w \in Workers : pc[w] = "rename" => manifest = view[w]

\* What a worker is about to save continues what it loaded.
SavesForward ==
    \A w \in Workers : pc[w] \in {"check", "rename"} => Forward(view[w], cand[w])

\* A prepared attempt has no job.
PreparedOpen ==
    \A w \in Workers : Preparing(w) =>
        LET r == IF pc[w] = "dispatch" THEN view[w] ELSE cand[w] IN
        r.state = "UNKNOWN" /\ r.job = NoJob

Order == OneSaver /\ SavesForward /\ PreparedOpen

\* A worker that is in no window leaves the others' order alone.
LEMMA OutsideOrder ==
  ASSUME Inv, Order, NEW w \in Workers, Alone(w), UNCHANGED <<manifest, overlapped>>,
         pc'[w] \notin {"rename", "verify"},
         pc'[w] = "check" => Forward(view'[w], cand'[w]),
         pc'[w] = "check" /\ after'[w] = "dispatch" => cand'[w].state = "UNKNOWN" /\ cand'[w].job = NoJob,
         pc'[w] = "dispatch" => view'[w].state = "UNKNOWN" /\ view'[w].job = NoJob
  PROVE  Order'
  <1>1. OneSaver'
    BY DEF Order, OneSaver, InWindow, Alone
  <1>2. SavesForward'
    BY DEF Order, SavesForward, Alone, Forward
  <1>3. PreparedOpen'
    BY DEF Order, PreparedOpen, Preparing, Saving, Alone
  <1> QED BY <1>1, <1>2, <1>3 DEF Order

LEMMA ReturnOrder ==
  ASSUME Inv, Order, NEW w \in Workers, Return(w), UNCHANGED <<manifest, overlapped>>
  PROVE  Order'
  BY ReturnAlone, OutsideOrder DEF Inv

\* A worker that will save a record that continues the loaded one.
LEMMA WillSaveOrder ==
  ASSUME Inv, Order, NEW w \in Workers, NEW new, NEW l, WillSave(w, new, l),
         UNCHANGED <<manifest, overlapped, op, view>>, Forward(view[w], new),
         l = "dispatch" => new.state = "UNKNOWN" /\ new.job = NoJob
  PROVE  Order'
  BY WillSaveAlone, OutsideOrder DEF Inv, Forward

LEMMA SaveOrder ==
  ASSUME Inv, Order, NEW w \in Workers, Save(w)
  PROVE  Order'
  <1> USE DEF durable, cluster, locals, history
  <1>0. TypeOK
    BY DEF Inv
  <1>1. CASE CheckFails(w) \/ VerifyFails(w)
    BY <1>1, ReturnOrder DEF CheckFails, VerifyFails, Finish
  <1>2. CASE Check(w)
    <2>1. /\ Alone(w) /\ pc[w] = "check" /\ pc'[w] = "rename" /\ manifest = view[w]
          /\ UNCHANGED <<manifest, op, view, cand, after>>
          /\ overlapped' = (overlapped \/ \E x \in Workers \ {w} : InWindow(x))
      BY <1>0, <1>2 DEF Check, SameDigest, TypeOK, Goto, Alone
    <2>2. OneSaver'
      BY <2>1 DEF Order, OneSaver, InWindow, Alone
    <2>3. SavesForward' /\ PreparedOpen'
      BY <2>1 DEF Order, SavesForward, PreparedOpen, Preparing, Saving, Alone, Forward
    <2> QED BY <2>2, <2>3 DEF Order
  <1>3. CASE Rename(w)
    <2>1. /\ Alone(w) /\ pc[w] = "rename" /\ pc'[w] = "verify"
          /\ UNCHANGED <<op, view, cand, after, overlapped>>
      BY <1>0, <1>3 DEF Rename, TypeOK, Goto, Alone
    <2>2. OneSaver'
      BY <2>1 DEF Order, OneSaver, InWindow, Alone
    <2>3. SavesForward' /\ PreparedOpen'
      BY <2>1 DEF Order, SavesForward, PreparedOpen, Preparing, Saving, Alone, Forward
    <2> QED BY <2>2, <2>3 DEF Order
  <1>4. CASE Verify(w)
    <2>1. CASE Return(w)
      BY <1>4, <2>1, ReturnOrder DEF Verify
    <2>2. CASE ~Return(w)
      <3>1. /\ Alone(w) /\ pc[w] = "verify" /\ pc'[w] = after[w] /\ view'[w] = cand[w]
            /\ UNCHANGED <<manifest, overlapped>> /\ pc'[w] \notin {"check", "rename", "verify"}
        BY <1>0, <1>4, <2>2 DEF Verify, TypeOK, Goto, Alone
      <3>2. pc'[w] = "dispatch" => view'[w].state = "UNKNOWN" /\ view'[w].job = NoJob
        BY <3>1 DEF Order, PreparedOpen, Preparing, Saving
      <3> QED BY <3>1, <3>2, OutsideOrder
    <2> QED BY <2>1, <2>2
  <1> QED BY <1>1, <1>2, <1>3, <1>4 DEF Save

\* A record with new state, job or flag continues the old one, unless that was
\* complete or had another job.
LEMMA ForwardRevision ==
  ASSUME NEW old \in Attempts, NEW new, new.number = old.number, new.valid = old.valid,
         old.state # "COMPLETE", old.job # NoJob => new.job = old.job
  PROVE  Forward(old, new)
  <1>1. old.number \in Nat
    BY MaxAttemptAssumption DEF Attempts
  <1> QED BY <1>1 DEF Forward

LEMMA WorkerOrder ==
  ASSUME Inv, Order, NEW w \in Workers,
         Submit(w) \/ Dispatch(w) \/ Refresh(w) \/ Act(w) \/ Fail(w)
  PROVE  Order'
  <1> USE DEF durable, cluster, locals, history
  <1> DEFINE r == view[w]
  <1>0. TypeOK /\ r \in Attempts /\ Truth(r) /\ r.number \in Nat
    BY MaxAttemptAssumption DEF Inv, TypeOK, Copies, Attempts
  <1>1. CASE Submit(w)
    <2>1. /\ Alone(w) /\ pc'[w] = "check" /\ view'[w] = NoTask
          /\ cand'[w] = Prepared(1, NoTask.from, {}) /\ UNCHANGED <<manifest, overlapped>>
      BY <1>0, <1>1 DEF Submit, WillSave, Goto, Alone, TypeOK
    <2>2. Forward(view'[w], cand'[w]) /\ cand'[w].state = "UNKNOWN" /\ cand'[w].job = NoJob
      BY <2>1 DEF Prepared, NoTask, Forward
    <2> QED BY <2>1, <2>2, OutsideOrder
  <1>2. CASE Dispatch(w)
    <2>1. pc[w] = "dispatch" /\ r.state = "UNKNOWN" /\ r.job = NoJob
      BY <1>2 DEF Dispatch, DispatchAccepted, DispatchRejected, DispatchLost,
                  Order, PreparedOpen, Preparing
    <2>2. CASE DispatchAccepted(w)
      <3>1. PICK j, new : /\ new = [r EXCEPT !.state = "QUEUED", !.job = j]
                          /\ WillSave(w, new, "idle")
        BY <2>2 DEF DispatchAccepted
      <3>2. new.number = r.number /\ new.valid = r.valid
        BY <1>0, <3>1 DEF Attempts
      <3> QED BY <1>0, <2>1, <2>2, <3>1, <3>2, ForwardRevision, WillSaveOrder DEF DispatchAccepted
    <2>3. CASE DispatchRejected(w)
      <3>1. PICK new : new = [r EXCEPT !.state = "FAILED"] /\ WillSave(w, new, "idle")
        BY <2>3 DEF DispatchRejected
      <3>2. new.number = r.number /\ new.valid = r.valid
        BY <1>0, <3>1 DEF Attempts
      <3> QED BY <1>0, <2>1, <2>3, <3>1, <3>2, ForwardRevision, WillSaveOrder DEF DispatchRejected
    <2>4. CASE DispatchLost(w)
      BY <2>4, ReturnOrder DEF DispatchLost
    <2> QED BY <1>2, <2>2, <2>3, <2>4 DEF Dispatch
  <1>3. CASE Refresh(w)
    <2>1. ASSUME NEW kind \in Offered[w] \ {"submit"}, Begin(w, kind) PROVE Order'
      <3>1. Alone(w) /\ pc'[w] = "refresh" /\ UNCHANGED <<manifest, overlapped>>
        BY <1>0, <2>1 DEF Begin, Goto, Alone, TypeOK
      <3> QED BY <3>1, OutsideOrder
    <2>2. CASE Repair(w)
      <3>1. PICK new : /\ new = [r EXCEPT !.state = "QUEUED", !.job = cache[Home[w]].job]
                       /\ WillSave(w, new, "refresh") /\ r.job = NoJob /\ r.state = "UNKNOWN"
        BY <2>2 DEF Repair, Repairable
      <3>2. new.number = r.number /\ new.valid = r.valid
        BY <1>0, <3>1 DEF Attempts
      <3> QED BY <1>0, <2>2, <3>1, <3>2, ForwardRevision, WillSaveOrder DEF Repair
    <2>3. CASE NothingToAsk(w)
      <3>1. CASE Return(w)
        BY <2>3, <3>1, ReturnOrder DEF NothingToAsk
      <3>2. CASE ~Return(w)
        <4>1. /\ Alone(w) /\ UNCHANGED <<manifest, overlapped>>
              /\ pc'[w] \in {"recover", "retry", "cancel"}
          BY <1>0, <2>3, <3>2
             DEF NothingToAsk, AfterRefresh, Goto, Alone, TypeOK, Operations, Inv, RefreshOfOld
        <4> QED BY <4>1, OutsideOrder
      <3> QED BY <3>1, <3>2
    <2>4. CASE Query(w)
      <3>1. PICK state, new : /\ new = [r EXCEPT !.state = state]
                              /\ WillSave(w, new, AfterRefresh(w)) /\ r.state # "COMPLETE"
        BY <2>4 DEF Query
      <3>2. new.number = r.number /\ new.valid = r.valid /\ new.job = r.job
        BY <1>0, <3>1 DEF Attempts
      <3>3. AfterRefresh(w) # "dispatch"
        BY <1>0 DEF AfterRefresh, TypeOK, Operations
      <3> QED BY <1>0, <2>4, <3>1, <3>2, <3>3, ForwardRevision, WillSaveOrder DEF Query
    <2> QED BY <1>3, <2>1, <2>2, <2>3, <2>4 DEF Refresh
  <1>4. CASE Act(w)
    <2>1. CASE Recover(w)
      <3>1. CASE Combines(r)
        <4>1. PICK new : /\ new = [r EXCEPT !.state = "COMPLETE", !.valid = Components]
                         /\ WillSave(w, new, "idle")
          BY <2>1, <3>1 DEF Recover
        <4>2. r.state = "COMPLETE" => new = r
          BY <1>0, <4>1 DEF Truth, Whole, Attempts
        <4>3. Forward(r, new)
          BY <1>0, <4>1, <4>2 DEF Forward, Attempts
        <4> QED BY <2>1, <4>1, <4>3, WillSaveOrder DEF Recover
      <3>2. CASE ~Combines(r)
        <4>1. PICK new : /\ new = [r EXCEPT !.state = "FAILED", !.flag = TRUE]
                         /\ WillSave(w, new, "idle")
          BY <2>1, <3>2 DEF Recover
        <4>2. /\ new.number = r.number /\ new.valid = r.valid /\ new.job = r.job
              /\ r.state # "COMPLETE"
          BY <1>0, <3>2, <4>1 DEF Truth, Whole, Attempts
        <4> QED BY <1>0, <2>1, <4>1, <4>2, ForwardRevision, WillSaveOrder DEF Recover
      <3> QED BY <3>1, <3>2
    <2>2. CASE Retry(w)
      <3>1. PICK new : /\ new = Prepared(r.number + 1, r.from, ValidNow(r))
                       /\ WillSave(w, new, "dispatch") /\ r.state # "COMPLETE"
        BY <2>2 DEF Retry, Retryable
      <3>2. new.number = r.number + 1 /\ new.state = "UNKNOWN" /\ new.job = NoJob
        BY <3>1 DEF Prepared
      <3>3. Forward(r, new)
        BY <1>0, <3>1, <3>2 DEF Forward
      <3> QED BY <2>2, <3>1, <3>2, <3>3, WillSaveOrder DEF Retry
    <2>3. CASE RecoverRefused(w) \/ RetryRefused(w) \/ CancelRefused(w) \/ Cancel(w)
      BY <2>3, ReturnOrder DEF RecoverRefused, RetryRefused, CancelRefused, Cancel, Finish
    <2> QED BY <1>4, <2>1, <2>2, <2>3 DEF Act
  <1>5. CASE Fail(w)
    BY <1>5, ReturnOrder DEF Fail, Finish
  <1> QED BY <1>1, <1>2, <1>3, <1>4, <1>5

LEMMA OrderNext ==
  ASSUME Inv, Order, [Next]_vars
  PROVE  Order'
  <1>1. ASSUME UNCHANGED <<manifest, overlapped, pc, op, view, cand, after>>
        PROVE  Order'
    BY <1>1 DEF Order, OneSaver, SavesForward, PreparedOpen, InWindow, Preparing, Saving, Forward
  <1>2. ASSUME NEW j \in Jobs, JobStep(j) PROVE Order'
    BY <1>1, <1>2 DEF JobStep, JobStarts, ComponentEnds, JobStops, durable, locals, history
  <1>3. CASE UNCHANGED vars
    BY <1>1, <1>3 DEF vars, durable, locals, history
  <1> QED BY <1>2, <1>3, SaveOrder, WorkerOrder DEF Next

LEMMA OrderInit ==
  ASSUME Init
  PROVE  Order
  BY DEF Init, Order, OneSaver, SavesForward, PreparedOpen, InWindow, Preparing, Saving

\* Only Rename replaces density.json.
LEMMA ForwardStep ==
  ASSUME Inv, Order, [Next]_vars, ~overlapped
  PROVE  Forward(manifest, manifest')
  <1> USE DEF durable, cluster, locals, history
  <1>0. manifest.number \in Nat
    BY MaxAttemptAssumption DEF Inv, TypeOK, Attempts
  <1>1. CASE manifest' = manifest
    BY <1>0, <1>1 DEF Forward
  <1>2. ASSUME NEW w \in Workers, Rename(w) PROVE Forward(manifest, manifest')
    BY <1>2 DEF Rename, Order, OneSaver, SavesForward
  <1>3. ASSUME NEW w \in Workers,
               Submit(w) \/ Dispatch(w) \/ Refresh(w) \/ Act(w) \/ Fail(w)
        PROVE  manifest' = manifest
    BY <1>3 DEF Submit, Dispatch, DispatchAccepted, DispatchRejected, DispatchLost,
                Refresh, Begin, Repair, NothingToAsk, Query, Act, Recover, RecoverRefused,
                Retry, RetryRefused, Cancel, CancelRefused, Fail, Finish
  <1>4. ASSUME NEW w \in Workers, Save(w), ~Rename(w) PROVE manifest' = manifest
    BY <1>4 DEF Save, Check, CheckFails, Verify, VerifyFails, Finish
  <1>5. ASSUME NEW j \in Jobs, JobStep(j) PROVE manifest' = manifest
    BY <1>5 DEF JobStep, JobStarts, ComponentEnds, JobStops
  <1>6. CASE UNCHANGED vars
    BY <1>1, <1>6 DEF vars
  <1> QED BY <1>1, <1>2, <1>3, <1>4, <1>5, <1>6 DEF Next

\* As long as no two write windows overlapped, density.json only goes forward:
\* no attempt, job or result that was recorded is lost to an older record.
THEOREM HistoryTheorem == Spec => HistoryKept
  <1>1. Inv /\ Order /\ [Next]_vars => Inv' /\ Order'
    BY NextInv, OrderNext
  <1>2. Inv /\ Order /\ [Next]_vars => (~overlapped => Forward(manifest, manifest'))
    BY ForwardStep
  <1>3. Init => Inv /\ Order
    BY InitInv, OrderInit
  <1>4. Spec => [](Inv /\ Order)
    BY <1>1, <1>3, PTL DEF Spec
  <1> QED BY <1>2, <1>4, PTL DEF Spec, HistoryKept

----------------------------------------------------------------------------
(* Why a recorded receipt is still there when it is needed.                *)

\* A recorded receipt is that of a job.
ReceiptsDispatched ==
    \A e \in receipts : \E j \in Jobs : Used(j) /\ jobs[j].attempt = e[2]

\* Only a new attempt is saved as UNKNOWN.
UnknownPrepared ==
    \A w \in Workers : Saving(w) /\ cand[w].state = "UNKNOWN" => after[w] = "dispatch"

\* While no two windows overlapped, an attempt is dispatched from the recorded one.
DispatchRecorded ==
    ~overlapped => \A w \in Workers :
        /\ pc[w] = "verify" => manifest = cand[w]
        /\ pc[w] = "dispatch" =>
             /\ view[w].number <= manifest.number
             /\ manifest.number = view[w].number /\ manifest.state = "UNKNOWN" => manifest = view[w]

Receipts == ReceiptsDispatched /\ UnknownPrepared /\ DispatchRecorded /\ ReceiptKept

\* An attempt that is being prepared has no receipt yet (_prepare_dispatch).
LEMMA NoReceiptYet ==
  ASSUME Inv, ReceiptsDispatched, NEW w \in Workers, Preparing(w), NEW i
  PROVE  <<i, Claim(w)>> \notin receipts
  <1> SUFFICES ASSUME <<i, Claim(w)>> \in receipts
               PROVE  FALSE
    OBVIOUS
  <1>1. PICK e : e = <<i, Claim(w)>>
    OBVIOUS
  <1>2. e \in receipts /\ e[2] = Claim(w)
    BY <1>1
  <1>3. \E j \in Jobs : Used(j) /\ jobs[j].attempt = Claim(w)
    BY <1>2 DEF ReceiptsDispatched
  <1> QED BY <1>3 DEF Inv, ClaimsApart

\* The job of a receipt stays one (JobsAdvance).
LEMMA ReceiptsStay ==
  ASSUME ReceiptsDispatched, JobsAdvance, UNCHANGED receipts
  PROVE  ReceiptsDispatched'
  <1> SUFFICES ASSUME NEW e \in receipts'
               PROVE  \E j \in Jobs : Used(j)' /\ jobs'[j].attempt = e[2]
    BY DEF ReceiptsDispatched
  <1>1. PICK j \in Jobs : Used(j) /\ jobs[j].attempt = e[2]
    BY DEF ReceiptsDispatched
  <1> QED BY <1>1 DEF JobsAdvance

\* A step of one worker that leaves density.json, caches and receipts alone.
LEMMA OutsideReceipts ==
  ASSUME Inv, Receipts, NEW w \in Workers, Alone(w), JobsAdvance,
         UNCHANGED <<manifest, cache, receipts>>, ~overlapped' => ~overlapped,
         pc'[w] \notin {"verify", "dispatch"},
         Saving(w)' /\ cand'[w].state = "UNKNOWN" => after'[w] = "dispatch"
  PROVE  Receipts'
  <1>1. ReceiptsDispatched'
    BY ReceiptsStay DEF Receipts
  <1>2. UnknownPrepared'
    BY DEF Receipts, UnknownPrepared, Saving, Alone
  <1>3. DispatchRecorded'
    BY DEF Receipts, DispatchRecorded, Alone
  <1>4. ReceiptKept'
    BY DEF Receipts, ReceiptKept, OwnReceipt
  <1> QED BY <1>1, <1>2, <1>3, <1>4 DEF Receipts

\* An operation that ends.
LEMMA ReturnReceipts ==
  ASSUME Inv, Receipts, NEW w \in Workers, Return(w), JobsAdvance,
         UNCHANGED <<manifest, cache, receipts, overlapped>>
  PROVE  Receipts'
  <1>1. TypeOK
    BY DEF Inv
  <1> QED BY <1>1, ReturnAlone, OutsideReceipts DEF Saving

\* An operation that will save a record which is not a new attempt's, or is.
LEMMA WillSaveReceipts ==
  ASSUME Inv, Receipts, NEW w \in Workers, NEW new, NEW l, WillSave(w, new, l), JobsAdvance,
         UNCHANGED <<manifest, cache, receipts, overlapped, op, view>>,
         new.state = "UNKNOWN" => l = "dispatch"
  PROVE  Receipts'
  <1>1. TypeOK
    BY DEF Inv
  <1>2. Alone(w) /\ pc'[w] = "check" /\ cand'[w] = new /\ after'[w] = l
    BY <1>1, WillSaveAlone
  <1> QED BY <1>2, OutsideReceipts

\* No job is touched.
LEMMA SameJobs ==
  ASSUME UNCHANGED jobs
  PROVE  JobsAdvance
  BY DEF JobsAdvance, Used, Alive


\* Saving: only what was prepared is UNKNOWN, and what is being prepared has no
\* receipt (_save).
LEMMA SaveReceipts ==
  ASSUME Inv, Order, Receipts, NEW w \in Workers, Save(w)
  PROVE  Receipts'
  <1> USE DEF durable, cluster, locals, history
  <1>0. TypeOK /\ JobsAdvance /\ UNCHANGED <<receipts, jobs>>
    BY SameJobs DEF Inv, Save, Check, CheckFails, Rename, Verify, VerifyFails, Finish
  <1>1. ReceiptsDispatched'
    BY <1>0, ReceiptsStay DEF Receipts
  <1>2. ASSUME Saving(w), cand[w].state = "UNKNOWN"
        PROVE  Preparing(w) /\ Claim(w) = cand[w].number /\ \A i : <<i, cand[w].number>> \notin receipts
    <2>1. Preparing(w) /\ Claim(w) = cand[w].number
      BY <1>2 DEF Receipts, UnknownPrepared, Preparing, Claim, Saving
    <2> QED BY <2>1, NoReceiptYet DEF Receipts
  <1>3. CASE CheckFails(w) \/ VerifyFails(w)
    BY <1>0, <1>3, ReturnReceipts DEF CheckFails, VerifyFails, Finish
  <1>4. CASE Check(w)
    <2>1. /\ Alone(w) /\ pc[w] = "check" /\ pc'[w] = "rename"
          /\ UNCHANGED <<manifest, cache, op, view, cand, after>>
          /\ overlapped' = (overlapped \/ \E x \in Workers \ {w} : InWindow(x))
      BY <1>0, <1>4 DEF Check, TypeOK, Goto, Alone
    <2>2. Saving(w)' /\ cand'[w].state = "UNKNOWN" => after'[w] = "dispatch"
      BY <2>1 DEF Receipts, UnknownPrepared, Saving
    <2>3. ~overlapped' => ~overlapped
      BY <2>1
    <2> QED BY <1>0, <2>1, <2>2, <2>3, OutsideReceipts
  <1>5. CASE Rename(w)
    <2>1. /\ Alone(w) /\ pc[w] = "rename" /\ pc'[w] = "verify" /\ manifest' = cand[w]
          /\ UNCHANGED <<cache, op, view, cand, after, overlapped>>
      BY <1>0, <1>5 DEF Rename, TypeOK, Goto, Alone
    <2>2. UnknownPrepared'
      BY <2>1 DEF Receipts, UnknownPrepared, Saving, Alone
    <2>3. ~overlapped => Forward(manifest, cand[w])
      BY <2>1 DEF Order, OneSaver, SavesForward
    <2>4. DispatchRecorded'
      <3> SUFFICES ASSUME ~overlapped, NEW x \in Workers
                   PROVE  /\ pc'[x] = "verify" => cand[w] = cand[x]
                          /\ pc'[x] = "dispatch" =>
                               /\ view[x].number <= cand[w].number
                               /\ cand[w].number = view[x].number /\ cand[w].state = "UNKNOWN"
                                    => cand[w] = view[x]
        BY <2>1 DEF DispatchRecorded
      <3>1. pc'[x] = "verify" => x = w
        BY <2>1 DEF Order, OneSaver, InWindow, Alone
      <3>2. ASSUME pc'[x] = "dispatch"
            PROVE  /\ view[x].number <= cand[w].number
                   /\ cand[w].number = view[x].number => cand[w].state # "UNKNOWN"
        <4>1. x # w /\ pc[x] = "dispatch" /\ view[x].number <= manifest.number
          BY <2>1, <3>2 DEF Alone, Receipts, DispatchRecorded
        <4>2. view[x].number \in Nat /\ manifest.number \in Nat /\ cand[w].number \in Nat
          BY <1>0, MaxAttemptAssumption DEF TypeOK, Attempts
        <4>3. view[x].number <= cand[w].number
          BY <2>3, <4>1, <4>2 DEF Forward
        <4>4. Preparing(x) /\ Claim(x) = view[x].number
          BY <4>1 DEF Preparing, Claim
        <4>5. ASSUME cand[w].number = view[x].number, cand[w].state = "UNKNOWN" PROVE FALSE
          <5>1. Preparing(w) /\ Claim(w) = cand[w].number
            BY <1>2, <2>1, <4>5 DEF Saving
          <5> QED BY <4>1, <4>4, <4>5, <5>1 DEF Inv, ClaimsApart
        <4> QED BY <4>3, <4>5
      <3> QED BY <3>1, <3>2
    <2>5. ReceiptKept'
      <3>1. manifest'.state = "UNKNOWN" => \A i : <<i, manifest'.number>> \notin receipts
        BY <1>2, <2>1 DEF Saving
      <3> QED BY <1>0, <3>1 DEF ReceiptKept
    <2> QED BY <1>1, <2>2, <2>4, <2>5 DEF Receipts
  <1>6. CASE Verify(w)
    <2>1. /\ Alone(w) /\ pc[w] = "verify" /\ manifest = cand[w]
          /\ UNCHANGED <<manifest, overlapped>>
      BY <1>0, <1>6, ReturnAlone DEF Verify, TypeOK, Goto, Alone
    <2>2. ReceiptKept'
      <3>1. manifest.state = "UNKNOWN" => \A i : <<i, manifest.number>> \notin receipts
        BY <1>2, <2>1 DEF Saving
      <3> QED BY <1>0, <2>1, <3>1 DEF ReceiptKept
    <2>3. pc'[w] \notin {"check", "rename", "verify"} /\ (pc'[w] = "dispatch" => view'[w] = manifest)
      BY <1>0, <1>6, <2>1, ReturnAlone DEF Verify, TypeOK, Goto
    <2>4. UnknownPrepared'
      BY <2>1, <2>3 DEF Receipts, UnknownPrepared, Saving, Alone
    <2>5. DispatchRecorded'
      <3>1. manifest.number \in Nat
        BY <1>0, MaxAttemptAssumption DEF TypeOK, Attempts
      <3> QED BY <2>1, <2>3, <3>1 DEF Receipts, DispatchRecorded, Alone
    <2> QED BY <1>1, <2>2, <2>4, <2>5 DEF Receipts
  <1> QED BY <1>3, <1>4, <1>5, <1>6 DEF Save

\* A dispatch: the receipt is cached before it is saved (_prepare_dispatch).
LEMMA DispatchReceipts ==
  ASSUME Inv, Order, Receipts, NEW w \in Workers, Dispatch(w), JobsAdvance
  PROVE  Receipts'
  <1> USE DEF durable, cluster, locals, history
  <1> DEFINE r == view[w]
  <1>0. /\ TypeOK /\ r \in Attempts /\ pc[w] = "dispatch" /\ Preparing(w)
        /\ Claim(w) = r.number /\ r.number \in Nat /\ manifest.number \in Nat
    <2>1. pc[w] = "dispatch"
      BY DEF Dispatch, DispatchAccepted, DispatchRejected, DispatchLost
    <2> QED BY <2>1, MaxAttemptAssumption DEF Inv, TypeOK, Attempts, Preparing, Claim
  <1>1. \A i : <<i, r.number>> \notin receipts
    BY <1>0, NoReceiptYet DEF Receipts
  <1>2. ASSUME ~overlapped PROVE manifest.number = r.number
    <2>1. r.number <= manifest.number
      BY <1>0, <1>2 DEF Receipts, DispatchRecorded
    <2>2. manifest.number > 0 => Over(manifest.number - 1)
      BY <1>0 DEF Inv, Copies, Truth, Placed, Directories
    <2>3. manifest.number > 0 => r.number > manifest.number - 1
      BY <1>0, <2>2 DEF Over
    <2> QED BY <1>0, <2>1, <2>3
  <1>3. ASSUME NEW new, new.state # "UNKNOWN", WillSave(w, new, "idle"),
               UNCHANGED <<manifest, op, view, overlapped>>
        PROVE  cand'[w] = new /\ UnknownPrepared' /\ DispatchRecorded'
    <2>1. Alone(w) /\ pc'[w] = "check" /\ cand'[w] = new
      BY <1>0, <1>3, WillSaveAlone
    <2>2. UnknownPrepared'
      BY <1>3, <2>1 DEF Receipts, UnknownPrepared, Saving, Alone
    <2>3. DispatchRecorded'
      BY <1>3, <2>1 DEF Receipts, DispatchRecorded, Alone
    <2> QED BY <2>1, <2>2, <2>3
  <1>4. CASE DispatchAccepted(w)
    <2>1. PICK j, new : /\ j \in Jobs /\ Accept(w, j) /\ WillSave(w, new, "idle")
                        /\ new = [r EXCEPT !.state = "QUEUED", !.job = j]
      BY <1>4 DEF DispatchAccepted
    <2>2. /\ new.number = r.number /\ new.from = r.from /\ new.valid = r.valid
          /\ new.job = j /\ new.state = "QUEUED" /\ j # NoJob
      BY <1>0, <2>1, JobsAssumption DEF Attempts
    <2>3. /\ UNCHANGED <<manifest, op, view, overlapped>> /\ cache' = ReceiptCached(w)
          /\ receipts' = receipts \cup {<<Home[w], r.number>>}
      BY <1>4 DEF DispatchAccepted
    <2>4. cand'[w] = new /\ UnknownPrepared' /\ DispatchRecorded'
      BY <1>3, <2>1, <2>2, <2>3
    <2>5. cache'[Home[w]] = new /\ \A i \in Installations \ {Home[w]} : cache'[i] = cache[i]
      BY <1>0, <2>3, <2>4, HomeAssumption DEF ReceiptCached, TypeOK
    <2>6. ReceiptsDispatched'
      <3> SUFFICES ASSUME NEW e \in receipts'
                   PROVE  \E k \in Jobs : Used(k)' /\ jobs'[k].attempt = e[2]
        BY DEF ReceiptsDispatched
      <3>1. CASE e \in receipts
        <4>1. PICK k \in Jobs : Used(k) /\ jobs[k].attempt = e[2]
          BY <3>1 DEF Receipts, ReceiptsDispatched
        <4> QED BY <1>0, <4>1 DEF JobsAdvance
      <3>2. CASE e = <<Home[w], r.number>>
        <4>1. e[2] = r.number
          BY <3>2
        <4>2. Used(j)' /\ jobs'[j].attempt = r.number
          BY <1>0, <2>1 DEF Accept, TypeOK, Used
        <4> QED BY <2>1, <4>1, <4>2
      <3> QED BY <2>3, <3>1, <3>2
    <2>7. ReceiptKept'
      <3> SUFFICES ASSUME NEW i \in Installations, ~overlapped, manifest.state = "UNKNOWN",
                          <<i, manifest.number>> \in receipts'
                   PROVE  OwnReceipt(cache'[i], manifest)
        BY <2>3 DEF ReceiptKept
      <3>1. manifest.number = r.number /\ manifest = r
        BY <1>0, <1>2 DEF Receipts, DispatchRecorded
      <3>2. <<i, manifest.number>> \notin receipts
        BY <1>1, <3>1
      <3>3. i = Home[w]
        BY <2>3, <3>2
      <3> QED BY <2>2, <2>5, <3>1, <3>3 DEF OwnReceipt
    <2> QED BY <2>4, <2>6, <2>7 DEF Receipts
  <1>5. CASE DispatchRejected(w)
    <2>1. PICK new : new = [r EXCEPT !.state = "FAILED"] /\ WillSave(w, new, "idle")
      BY <1>5 DEF DispatchRejected
    <2>2. /\ UNCHANGED <<manifest, op, view, overlapped, receipts>> /\ cache' = ReceiptCached(w)
          /\ new.state = "FAILED"
      BY <1>0, <1>5, <2>1 DEF DispatchRejected, Attempts
    <2>3. UnknownPrepared' /\ DispatchRecorded'
      BY <1>3, <2>1, <2>2
    <2>4. ReceiptsDispatched'
      BY <1>0, <2>2, ReceiptsStay DEF Receipts
    <2>5. ReceiptKept'
      <3> SUFFICES ASSUME NEW i \in Installations, ~overlapped,
                          <<i, manifest.number>> \in receipts
                   PROVE  FALSE
        BY <2>2 DEF ReceiptKept
      <3>1. manifest.number = r.number
        BY <1>2
      <3> QED BY <1>1, <3>1
    <2> QED BY <2>3, <2>4, <2>5 DEF Receipts
  <1>6. CASE DispatchLost(w)
    BY <1>0, <1>6, ReturnReceipts DEF DispatchLost
  <1> QED BY <1>4, <1>5, <1>6 DEF Dispatch

\* The other steps of a worker leave density.json, caches and receipts alone.
LEMMA WorkerReceipts ==
  ASSUME Inv, Receipts, NEW w \in Workers, JobsAdvance,
         Submit(w) \/ Refresh(w) \/ Act(w) \/ Fail(w)
  PROVE  Receipts'
  <1> USE DEF durable, cluster, locals, history
  <1> DEFINE r == view[w]
  <1>0. TypeOK /\ r \in Attempts
    BY DEF Inv, TypeOK
  <1>1. CASE Submit(w)
    <2>1. /\ Alone(w) /\ pc'[w] = "check" /\ after'[w] = "dispatch"
          /\ UNCHANGED <<manifest, cache, receipts, overlapped>>
      BY <1>0, <1>1 DEF Submit, WillSave, Goto, Alone, TypeOK
    <2> QED BY <2>1, OutsideReceipts
  <1>2. CASE Refresh(w)
    <2>1. ASSUME NEW kind \in Offered[w] \ {"submit"}, Begin(w, kind) PROVE Receipts'
      <3>1. /\ Alone(w) /\ pc'[w] = "refresh"
            /\ UNCHANGED <<manifest, cache, receipts, overlapped>>
        BY <1>0, <2>1 DEF Begin, Goto, Alone, TypeOK
      <3> QED BY <3>1, OutsideReceipts DEF Saving
    <2>2. CASE Repair(w)
      <3>1. PICK new : /\ new = [r EXCEPT !.state = "QUEUED", !.job = cache[Home[w]].job]
                       /\ WillSave(w, new, "refresh")
        BY <2>2 DEF Repair
      <3>2. new.state = "QUEUED"
        BY <1>0, <3>1 DEF Attempts
      <3> QED BY <2>2, <3>1, <3>2, WillSaveReceipts DEF Repair
    <2>3. CASE NothingToAsk(w)
      <3>1. CASE Return(w)
        BY <2>3, <3>1, ReturnReceipts DEF NothingToAsk
      <3>2. CASE ~Return(w)
        <4>1. /\ Alone(w) /\ UNCHANGED <<manifest, cache, receipts, overlapped>>
              /\ pc'[w] \in {"recover", "retry", "cancel"}
          BY <1>0, <2>3, <3>2
             DEF NothingToAsk, AfterRefresh, Goto, Alone, TypeOK, Operations, Inv, RefreshOfOld
        <4> QED BY <4>1, OutsideReceipts DEF Saving
      <3> QED BY <3>1, <3>2
    <2>4. CASE Query(w)
      <3>1. PICK state, new : /\ state \in Concluded(r, jobs[r.job].st)
                              /\ new = [r EXCEPT !.state = state]
                              /\ WillSave(w, new, AfterRefresh(w))
        BY <2>4 DEF Query
      <3>2. new.state = state /\ state # "UNKNOWN"
        BY <1>0, <3>1 DEF Attempts, Concluded
      <3> QED BY <2>4, <3>1, <3>2, WillSaveReceipts DEF Query
    <2> QED BY <1>2, <2>1, <2>2, <2>3, <2>4 DEF Refresh
  <1>3. CASE Act(w)
    <2>1. CASE Recover(w)
      <3>1. PICK new : /\ new \in {[r EXCEPT !.state = "COMPLETE", !.valid = Components],
                                   [r EXCEPT !.state = "FAILED", !.flag = TRUE]}
                       /\ WillSave(w, new, "idle")
        BY <2>1 DEF Recover
      <3>2. new.state # "UNKNOWN"
        BY <1>0, <3>1 DEF Attempts
      <3> QED BY <2>1, <3>1, <3>2, WillSaveReceipts DEF Recover
    <2>2. CASE Retry(w)
      <3>1. PICK new : WillSave(w, new, "dispatch")
        BY <2>2 DEF Retry
      <3> QED BY <2>2, <3>1, WillSaveReceipts DEF Retry
    <2>3. CASE RecoverRefused(w) \/ RetryRefused(w) \/ CancelRefused(w) \/ Cancel(w)
      BY <2>3, ReturnReceipts DEF RecoverRefused, RetryRefused, CancelRefused, Cancel, Finish
    <2> QED BY <1>3, <2>1, <2>2, <2>3 DEF Act
  <1>4. CASE Fail(w)
    BY <1>4, ReturnReceipts DEF Fail, Finish
  <1> QED BY <1>1, <1>2, <1>3, <1>4

\* No step makes a job another attempt's or brings it back (jobs).
LEMMA JobsForward ==
  ASSUME Inv, [Next]_vars
  PROVE  JobsAdvance
  <1> USE DEF durable, cluster, locals, history
  <1>0. TypeOK
    BY DEF Inv
  <1>1. ASSUME NEW w \in Workers, NEW j \in Jobs, Accept(w, j) PROVE JobsAdvance
    BY <1>0, <1>1 DEF Accept, TypeOK, JobsAdvance, Used, Alive
  <1>2. ASSUME NEW w \in Workers, Cancel(w) PROVE JobsAdvance
    <2>1. CASE UNCHANGED jobs
      BY <2>1, SameJobs
    <2>2. CASE ~UNCHANGED jobs
      <3>1. jobs' = [jobs EXCEPT ![view[w].job].st = "cancelled"]
        BY <1>2, <2>2 DEF Cancel
      <3> QED BY <1>0, <3>1 DEF TypeOK, JobsAdvance, JobRecord, Used, Alive
    <2> QED BY <2>1, <2>2
  <1>3. ASSUME NEW j \in Jobs, JobStep(j) PROVE JobsAdvance
    BY <1>3, JobsStep DEF JobsAdvance, Alive, Used
  <1>4. ASSUME NEW w \in Workers, Submit(w) \/ Refresh(w) \/ Save(w) \/ Fail(w) PROVE JobsAdvance
    BY <1>4, SameJobs
       DEF Submit, Refresh, Begin, Repair, NothingToAsk, Query, Fail, Finish,
           Save, Check, CheckFails, Rename, Verify, VerifyFails
  <1>5. ASSUME NEW w \in Workers, Dispatch(w) PROVE JobsAdvance
    BY <1>1, <1>5, SameJobs DEF Dispatch, DispatchAccepted, DispatchRejected, DispatchLost
  <1>6. ASSUME NEW w \in Workers, Act(w) PROVE JobsAdvance
    BY <1>2, <1>6, SameJobs DEF Act, Recover, RecoverRefused, Retry, RetryRefused,
                                CancelRefused, Finish
  <1>7. CASE UNCHANGED vars
    BY <1>7, SameJobs DEF vars
  <1> QED BY <1>3, <1>4, <1>5, <1>6, <1>7 DEF Next

\* Nor does the cluster touch a record.
LEMMA ReceiptsNext ==
  ASSUME Inv, Order, Receipts, [Next]_vars
  PROVE  Receipts'
  <1>1. JobsAdvance
    BY JobsForward
  <1>2. ASSUME UNCHANGED <<manifest, cache, pc, view, cand, after, history>>
        PROVE  Receipts'
    <2>1. ReceiptsDispatched'
      BY <1>1, <1>2, ReceiptsStay DEF Receipts, history
    <2> QED BY <1>2, <2>1 DEF Receipts, UnknownPrepared, DispatchRecorded, ReceiptKept,
                              OwnReceipt, Saving, history
  <1>3. ASSUME NEW j \in Jobs, JobStep(j) PROVE Receipts'
    BY <1>2, <1>3 DEF JobStep, JobStarts, ComponentEnds, JobStops, durable, locals
  <1>4. CASE UNCHANGED vars
    BY <1>2, <1>4 DEF vars, durable, locals
  <1> QED BY <1>1, <1>3, <1>4, SaveReceipts, DispatchReceipts, WorkerReceipts DEF Next

LEMMA ReceiptsInit ==
  ASSUME Init
  PROVE  Receipts
  BY DEF Init, Receipts, ReceiptsDispatched, UnknownPrepared, DispatchRecorded, ReceiptKept,
         Saving

\* An installation that recorded the receipt of the attempt that density.json calls
\* UNKNOWN can still repair the record, as long as no two write windows overlapped.
THEOREM ReceiptTheorem == Spec => []ReceiptKept
  <1>1. Inv /\ Order /\ Receipts /\ [Next]_vars => Inv' /\ Order' /\ Receipts'
    BY NextInv, OrderNext, ReceiptsNext
  <1>2. Init => Inv /\ Order /\ Receipts
    BY InitInv, OrderInit, ReceiptsInit
  <1>3. Receipts => ReceiptKept
    BY DEF Receipts
  <1> QED BY <1>1, <1>2, <1>3, PTL DEF Spec
=============================================================================

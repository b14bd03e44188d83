----------------------- MODULE TransportAttemptsProofs -----------------------
(***************************************************************************)
(* What TransportAttempts keeps for any number of clients, jobs, settings  *)
(* and attempts, as long as no two clients are between the check and the   *)
(* write of an upload at the same time: with one submitting client this is *)
(* always so, however many others refresh.                                 *)
(*                                                                         *)
(* The argument: a file name that must not exist yet is what a lock would  *)
(* be.  The operation that wrote the first such file of an attempt is the  *)
(* only one that can dispatch it, and nothing ever removes the file.  What *)
(* any copy of the record says of an attempt - in project.json, also when  *)
(* a stale save put it back, or in the hands of a client - stays true,     *)
(* because a job that has ended is left alone, and a next attempt is only  *)
(* made from a copy that says that the one before has failed.              *)
(***************************************************************************)
EXTENDS TransportAttempts, TLAPS

Used(j) == jobs[j].st # "none"
Alive(j) == jobs[j].st \in {"pending", "running"}
Ended(j) == jobs[j].st \in {"completed", "resources", "failed", "cancelled"}

\* Job j runs attempt n of step s.
Of(j, s, n) == jobs[j].step = s /\ jobs[j].n = n

Succeeded(j) == jobs[j].st = "completed" /\ logs[jobs[j].step][jobs[j].n] = "done"

\* The files of an attempt are there before its job is, and stay.
JobsPlaced ==
    \A j \in Jobs :
        /\ Used(j) <=> jobs[j].step # 0
        /\ Used(j) => /\ jobs[j].n \in 1..MaxAttempt
                      /\ files[Script(jobs[j].step, jobs[j].n)] = Present
        /\ jobs[j].step = 4 => /\ files[TControl] # NoFile
                               /\ jobs[j].n > 1 => files[Archive(jobs[j].n - 1)] # NoFile
        /\ jobs[j].st = "pending" => jobs[j].ran = NoFile

\* The active tcontrol is a text.
ControlIsText == files[TControl] \in Settings \cup {NoFile}

\* An output is written by a job of its attempt, which has shown what it says.
LogsOwned ==
    \A s \in {3, 4}, n \in 1..MaxAttempt :
        /\ logs[s][n] # NoFile => \E j \in Jobs : Of(j, s, n)
        /\ logs[s][n] = "oom" => \A j \in Jobs : Of(j, s, n) => jobs[j].oom

\* A job comes after the failure of every attempt before its own, and a job of
\* Step 4 after a success of Step 3.
Chain ==
    \A j \in Jobs : Used(j) =>
        /\ \A m \in 1..MaxAttempt : m < jobs[j].n =>
             \E k \in Jobs : Of(k, jobs[j].step, m) /\ Ended(k) /\ ~Succeeded(k)
        /\ jobs[j].step = 4 => \E k \in Jobs : jobs[k].step = 3 /\ Succeeded(k)

\* The results are those of the job that succeeded.
Results ==
    \A j \in Jobs : Succeeded(j) =>
        /\ jobs[j].step = 3 => matrices = j
        /\ jobs[j].step = 4 => te = j

\* Job j reads, or has read, this tcontrol, unless it never started.
RanWith(j, tcontrol) ==
    /\ jobs[j].st = "pending" => files[TControl] = tcontrol
    /\ jobs[j].st \in {"running", "completed"} => jobs[j].ran = tcontrol
    /\ jobs[j].ran \in {NoFile, tcontrol}

\* What a copy says of the attempt it archives, and of the current one.
PastTrue(s, i, old) ==
    /\ Of(old.job, s, i) /\ Ended(old.job) /\ ~Succeeded(old.job)
    /\ s = 4 => /\ old.tcontrol \in Settings
                /\ files[Archive(i)] = old.tcontrol
                /\ jobs[old.job].ran \in {NoFile, old.tcontrol}

Final == {"FAILED", "SCHEDULER_COMPLETED", "SUCCEEDED"}

JobTrue(s, r) ==
    /\ Of(r.job, s, Number(r))
    /\ r.state \in Final => Ended(r.job)
    /\ r.state = "SUCCEEDED" => Succeeded(r.job)
    /\ r.state = "FAILED" => ~Succeeded(r.job)
    /\ s = 4 => RanWith(r.job, r.tcontrol)

RecordTrue(s, r) ==
    /\ Len(r.past) < MaxAttempt
    /\ \A i \in DOMAIN r.past : PastTrue(s, i, r.past[i])
    /\ r.state = "NOT_STARTED" => r.job = NoJob /\ r.past = <<>>
    /\ r.state \in {"QUEUED", "RUNNING", "SCHEDULER_COMPLETED", "SUCCEEDED"} => r.job # NoJob
    /\ r.job # NoJob => JobTrue(s, r)
    /\ s = 4 /\ r.state # "NOT_STARTED" => r.tcontrol \in Settings /\ files[TControl] # NoFile

StepsTrue(steps) ==
    /\ RecordTrue(3, steps[3]) /\ RecordTrue(4, steps[4])
    /\ steps[4].state # "NOT_STARTED" => steps[3].state = "SUCCEEDED"

\* The records that are around.
Copies == {manifest.steps} \cup {view[c].steps : c \in Clients}
          \cup {seen[c].steps : c \in Clients} \cup {cand[c] : c \in Clients}

CopiesTrue == \A steps \in Copies : StepsTrue(steps)

Uploading(c) == pc[c] \in {"upload", "put"}
Working(c) == Uploading(c) \/ pc[c] = "dispatch"

\* The record of the attempt to be replaced, and all uploads of the operation.
Old(c) == view[c].steps[op[c].step]
All(c) == Uploads(op[c].kind, op[c].n, op[c].text, Old(c).tcontrol)

\* The operation has written a file that only one operation can write.
Holds(c) == pc[c] = "dispatch" \/ (Uploading(c) /\ Len(op[c].todo) < Len(All(c)))

\* The uploads an operation has left are the last of all.
Remains(c) ==
    IF pc[c] = "dispatch" THEN op[c].todo = <<>>
    ELSE /\ Len(op[c].todo) \in 1..Len(All(c))
         /\ \A i \in 1..Len(op[c].todo) :
              op[c].todo[i] = All(c)[i + Len(All(c)) - Len(op[c].todo)]

\* It replaces a failed attempt, or makes the first of Step 4.
Planned(c) ==
    /\ op[c].kind \in Kinds /\ op[c].step = StepOf(op[c].kind)
    /\ op[c].n = NextNumber(op[c].kind, view[c].steps)
    /\ op[c].kind # "submit4" => Old(c).state = "FAILED" /\ Old(c).job # NoJob
    /\ op[c].step = 3 => view[c].steps[4].state = "NOT_STARTED"
    /\ op[c].step = 4 => view[c].steps[3].state = "SUCCEEDED" /\ op[c].text \in Settings

\* The attempt has no job, and its files are as they were uploaded.
Held(c) ==
    /\ \A j \in Jobs : ~Of(j, op[c].step, op[c].n)
    /\ op[c].kind = "submit4" => view[c].steps[4].state = "NOT_STARTED"
    /\ op[c].step = 4 /\ op[c].kind # "submit4" => files[Archive(op[c].n - 1)] = Old(c).tcontrol
    /\ op[c].step = 4 /\ Len(op[c].todo) < 2 => files[TControl] = op[c].text
    /\ pc[c] = "dispatch" => files[Script(op[c].step, op[c].n)] = Present

SubmitTrue(c) ==
    /\ Working(c) => Planned(c) /\ Remains(c)
    /\ pc[c] = "put" => MayUpload(c)
    /\ Holds(c) => Held(c)

HoldersApart ==
    \A c, d \in Clients :
       Holds(c) /\ Holds(d) /\ op[c].step = op[d].step /\ op[c].n = op[d].n => c = d

\* Refreshing and cancelling clients work on a job that the record names.
ReadTrue(c) ==
    pc[c] \in {"query", "assess", "evidence", "kill"} =>
       LET r == view[c].steps[op[c].step] IN
       /\ r.job # NoJob
       /\ pc[c] \in {"query", "assess"} =>
            r.state # "SUCCEEDED" /\ op[c].step = ActiveStep(view[c].steps)
       /\ pc[c] = "assess" => jobs[r.job].st = "completed"
       /\ pc[c] = "evidence" => op[c].kind = "oom"
       /\ pc[c] = "kill" => op[c].kind \in {"oom", "abort"}
       /\ pc[c] = "kill" /\ op[c].kind = "oom" => jobs[r.job].oom

ClientsTrue == \A c \in Clients : SubmitTrue(c) /\ ReadTrue(c)

\* No two clients are between the check and the write of an upload.
PutsApart == \A c, d \in Clients : pc[c] = "put" /\ pc[d] = "put" => c = d

Inv == /\ TypeOK /\ ControlIsText /\ JobsPlaced /\ LogsOwned /\ AttemptDispatchedOnce /\ Chain
       /\ Results /\ OomCancelIsOwn /\ CopiesTrue /\ ClientsTrue /\ HoldersApart

----------------------------------------------------------------------------
(* File names.                                                             *)

\* The names of different files differ.
LEMMA NamesApart ==
  /\ \A s, t, n, m : Script(s, n) = Script(t, m) => s = t /\ n = m
  /\ \A n, m : Archive(n) = Archive(m) => n = m
  /\ \A s, n, m : Script(s, n) # Archive(m) /\ Script(s, n) # Energy(m) /\ Script(s, n) # TControl
  /\ \A n, m : Archive(n) # Energy(m) /\ Archive(n) # TControl /\ Energy(m) # TControl
  BY DEF Script, Archive, Energy, TControl

\* The files of an attempt have names.
LEMMA NamesType ==
  /\ TControl \in FileNames
  /\ \A n \in 1..MaxAttempt : Archive(n) \in FileNames /\ Energy(n) \in FileNames
  /\ \A s \in {3, 4}, n \in 1..MaxAttempt : Script(s, n) \in FileNames
  BY DEF FileNames

\* The texts of tcontrol are neither of the two marks.
LEMMA TextsApart == NoFile # Present /\ NoFile \notin Settings /\ Present \notin Settings
  BY SettingsAssumption DEF NoFile, Present

----------------------------------------------------------------------------
(* Types.                                                                  *)

\* The number of a well-typed record is one.
LEMMA NumberType ==
  ASSUME NEW r \in Records
  PROVE  Number(r) \in Nat /\ Number(r) >= 1 /\ Len(r.past) \in Nat /\ Number(r) = Len(r.past) + 1
  BY DEF Records, Number

\* The uploads of an attempt: how many there are, and which files each writes.
LEMMA UploadsShape ==
  ASSUME NEW kind \in Kinds, NEW n, NEW text, NEW old, NEW u, u = Uploads(kind, n, text, old)
  PROVE  /\ kind = "retry3" => u = << <<Write(Script(3, n), Present)>> >>
         /\ kind = "submit4" => u = << <<Write(TControl, text), Write(Script(4, 1), Present)>> >>
         /\ kind = "settings4" =>
              u = << <<Write(Archive(n - 1), old)>>, <<Write(TControl, text)>>,
                     <<Write(Script(4, n), Present)>> >>
         /\ kind = "energy4" =>
              u = << <<Write(Archive(n - 1), old)>>, <<Write(Energy(n), Present)>>,
                     <<Write(TControl, text)>>, <<Write(Script(4, n), Present)>> >>
  BY DEF Uploads, Kinds

\* Short tuples are sequences.
LEMMA ShortSeq ==
  ASSUME NEW S, NEW w \in S, NEW x \in S, NEW y \in S, NEW z \in S
  PROVE  <<w>> \in Seq(S) /\ <<w, x>> \in Seq(S) /\ <<w, x, y>> \in Seq(S)
         /\ <<w, x, y, z>> \in Seq(S)
  OBVIOUS

\* Uploads are sequences of calls, and a call is a sequence of writes (Uploads).
LEMMA UploadsType ==
  ASSUME NEW kind \in Kinds, NEW n \in 1..MaxAttempt, kind # "submit4" => n > 1,
         NEW text \in Settings \cup {NoFile}, NEW old \in Settings \cup {NoFile}
  PROVE  Uploads(kind, n, text, old)
           \in Seq(Seq([file : FileNames, content : Settings \cup {NoFile, Present}]))
  <1> DEFINE W == [file : FileNames, content : Settings \cup {NoFile, Present}]
             Contained == Settings \cup {NoFile, Present}
  <1>1. \A f \in FileNames, x \in Contained : Write(f, x) \in W
    BY DEF Write
  <1>2. /\ TControl \in FileNames /\ Script(4, 1) \in FileNames
        /\ kind = "retry3" => Script(3, n) \in FileNames
        /\ kind # "retry3" => Script(4, n) \in FileNames /\ Energy(n) \in FileNames
        /\ kind # "submit4" => Archive(n - 1) \in FileNames
    BY NamesType, MaxAttemptAssumption
  <1>3. text \in Contained /\ old \in Contained /\ Present \in Contained
    OBVIOUS
  <1> HIDE DEF W, Contained
  <1>4. CASE kind = "retry3"
    <2> DEFINE q == <<Write(Script(3, n), Present)>>
    <2>1. q \in Seq(W)
      BY <1>1, <1>2, <1>3, <1>4, ShortSeq
    <2>2. Uploads(kind, n, text, old) = <<q>>
      BY <1>4 DEF Uploads
    <2> HIDE DEF q
    <2> QED BY <2>1, <2>2, ShortSeq DEF W
  <1>5. CASE kind = "submit4"
    <2> DEFINE q == <<Write(TControl, text), Write(Script(4, 1), Present)>>
    <2>1. q \in Seq(W)
      BY <1>1, <1>2, <1>3, ShortSeq
    <2>2. Uploads(kind, n, text, old) = <<q>>
      BY <1>5 DEF Uploads
    <2> HIDE DEF q
    <2> QED BY <2>1, <2>2, ShortSeq DEF W
  <1>6. CASE kind \in {"settings4", "energy4"}
    <2> DEFINE q == <<Write(Archive(n - 1), old)>>
               e == <<Write(Energy(n), Present)>>
               t == <<Write(TControl, text)>>
               l == <<Write(Script(4, n), Present)>>
    <2>1. q \in Seq(W) /\ e \in Seq(W) /\ t \in Seq(W) /\ l \in Seq(W)
      BY <1>1, <1>2, <1>3, <1>6, ShortSeq
    <2> DEFINE u == Uploads(kind, n, text, old)
    <2> HIDE DEF u
    <2>2. kind = "settings4" => u = <<q, t, l>>
      BY UploadsShape DEF u
    <2>3. kind = "energy4" => u = <<q, e, t, l>>
      BY UploadsShape, Zenon DEF u
    <2> HIDE DEF q, e, t, l
    <2>4. <<q, t, l>> \in Seq(Seq(W)) /\ <<q, e, t, l>> \in Seq(Seq(W))
      BY <2>1, ShortSeq
    <2>5. u \in Seq(Seq(W))
      BY <1>6, <2>2, <2>3, <2>4
    <2> QED BY <2>5 DEF W, u
  <1> QED BY <1>4, <1>5, <1>6 DEF Kinds

\* The number of the next attempt is one more than that of a retried one.
LEMMA NextNumberType ==
  ASSUME NEW steps \in Contents, NEW kind \in Kinds
  PROVE  /\ steps[StepOf(kind)] \in Records
         /\ NextNumber(kind, steps) \in Nat /\ NextNumber(kind, steps) >= 1
         /\ kind # "submit4" => NextNumber(kind, steps) = Len(steps[StepOf(kind)].past) + 2
  BY NumberType DEF NextNumber, Contents, StepOf

\* A new operation has its type (Begin).
LEMMA BeginType ==
  ASSUME TypeOK, NEW c \in Clients, NEW kind \in Kinds, Begin(c, kind)
  PROVE  TypeOK'
  <1> DEFINE s == StepOf(kind)
             n == NextNumber(kind, manifest.steps)
             old == manifest.steps[s].tcontrol
  <1>1. manifest.steps \in Contents /\ manifest.steps[s] \in Records /\ s \in {3, 4}
    BY NextNumberType DEF TypeOK, Manifests, StepOf
  <1>2. old \in Settings \cup {NoFile} /\ n \in 1..MaxAttempt /\ (kind # "submit4" => n > 1)
    BY <1>1, NextNumberType, NumberType, MaxAttemptAssumption DEF Begin, Records
  <1>3. PICK text \in Settings \cup {NoFile} :
          op' = [op EXCEPT ![c] = [kind |-> kind, step |-> s, n |-> n, text |-> text,
                                   todo |-> Uploads(kind, n, text, old)]]
    BY DEF Begin
  <1>4. op' \in [Clients -> Ops]
    <2>1. Uploads(kind, n, text, old)
            \in Seq(Seq([file : FileNames, content : Settings \cup {NoFile, Present}]))
      BY <1>2, UploadsType
    <2> QED BY <1>1, <1>2, <1>3, <2>1 DEF TypeOK, Ops
  <1> QED BY <1>4 DEF TypeOK, Begin, Goto, remote

Writes == [file : FileNames, content : Settings \cup {NoFile, Present}]

\* Head and tail of a sequence.
LEMMA HeadTail ==
  ASSUME NEW S, NEW t \in Seq(S), t # <<>>
  PROVE  Head(t) \in S /\ Tail(t) \in Seq(S)
  OBVIOUS

\* The members of a sequence.
LEMMA Members ==
  ASSUME NEW S, NEW t \in Seq(S)
  PROVE  Len(t) \in Nat /\ \A i \in 1..Len(t) : t[i] \in S
  OBVIOUS

\* The next upload of an operation (Batch).
LEMMA BatchType ==
  ASSUME TypeOK, NEW c \in Clients, op[c].todo # <<>>
  PROVE  /\ op[c].todo \in Seq(Seq(Writes)) /\ Tail(op[c].todo) \in Seq(Seq(Writes))
         /\ Batch(c) \in Seq(Writes) /\ Len(Batch(c)) \in Nat
         /\ \A i \in 1..Len(Batch(c)) : Batch(c)[i] \in Writes
  <1>1. op[c].todo \in Seq(Seq(Writes))
    BY DEF TypeOK, Ops, Writes
  <1>2. Batch(c) \in Seq(Writes) /\ Tail(op[c].todo) \in Seq(Seq(Writes))
    BY <1>1, HeadTail DEF Batch
  <1> QED BY <1>1, <1>2, Members

\* A call leaves alone what it does not write (Written).
LEMMA WrittenFile ==
  ASSUME TypeOK, NEW c \in Clients, op[c].todo # <<>>, NEW k \in 0..Len(Batch(c)),
         NEW f \in FileNames
  PROVE  /\ (\A i \in 1..k : Batch(c)[i].file # f) => Written(c, k)[f] = files[f]
         /\ (\E i \in 1..k : Batch(c)[i].file = f) =>
              \E i \in 1..k : Batch(c)[i].file = f /\ Written(c, k)[f] = Batch(c)[i].content
         /\ Written(c, k)[f] \in Settings \cup {NoFile, Present}
  <1> DEFINE P == {Batch(c)[i] : i \in 1..k}
  <1>1. \A i \in 1..k : Batch(c)[i] \in Writes
    BY BatchType
  <1>2. \A i \in 1..k : Batch(c)[i].content \in Settings \cup {NoFile, Present}
    BY <1>1 DEF Writes
  <1>3. files[f] \in Settings \cup {NoFile, Present}
    BY DEF TypeOK
  <1>4. CASE \A i \in 1..k : Batch(c)[i].file # f
    BY <1>3, <1>4 DEF Written
  <1>5. CASE \E i \in 1..k : Batch(c)[i].file = f
    <2> DEFINE w == CHOOSE w \in P : w.file = f
    <2>1. w \in P /\ w.file = f
      BY <1>5
    <2>2. PICK i \in 1..k : w = Batch(c)[i]
      BY <2>1
    <2>3. Written(c, k)[f] = w.content
      BY <1>5 DEF Written
    <2> HIDE DEF w
    <2> QED BY <1>2, <1>5, <2>1, <2>2, <2>3
  <1> QED BY <1>4, <1>5

\* An upload, whole or in part, leaves well-typed files and uploads.
LEMMA PutType ==
  ASSUME TypeOK, NEW c \in Clients, op[c].todo # <<>>, PutFiles(c) \/ PutFails(c)
  PROVE  TypeOK'
  <1>1. Tail(op[c].todo) \in Seq(Seq(Writes)) /\ Len(Batch(c)) \in Nat
    BY BatchType
  <1>2. Len(Batch(c)) \in 0..Len(Batch(c))
    BY <1>1
  <1>3. \A k \in 0..Len(Batch(c)) :
          Written(c, k) \in [FileNames -> Settings \cup {NoFile, Present}]
    <2> TAKE k \in 0..Len(Batch(c))
    <2>1. \A f \in FileNames : Written(c, k)[f] \in Settings \cup {NoFile, Present}
      BY WrittenFile
    <2>2. Written(c, k) = [f \in FileNames |-> Written(c, k)[f]]
      BY DEF Written
    <2> QED BY <2>1, <2>2
  <1>4. CASE PutFiles(c)
    <2> DEFINE T == Seq(Seq(Writes))
    <2>0. Ops = [kind : Kinds \cup {"none", "oom", "abort"}, step : {3, 4}, n : 1..MaxAttempt,
                 text : Settings \cup {NoFile}, todo : T]
      BY DEF Ops, Writes
    <2>1. [op[c] EXCEPT !.todo = Tail(@)] \in Ops
      <3>1. op[c] \in Ops /\ Tail(op[c].todo) \in T
        BY <1>1 DEF TypeOK
      <3> HIDE DEF T
      <3> QED BY <2>0, <3>1
    <2>2. op' \in [Clients -> Ops]
      BY <1>4, <2>1 DEF TypeOK, PutFiles
    <2>3. files' \in [FileNames -> Settings \cup {NoFile, Present}]
      BY <1>2, <1>3, <1>4 DEF PutFiles
    <2> QED BY <1>4, <2>2, <2>3 DEF TypeOK, PutFiles, Goto
  <1>5. CASE PutFails(c)
    <2>1. files' \in [FileNames -> Settings \cup {NoFile, Present}]
      BY <1>3, <1>5 DEF PutFails
    <2> QED BY <1>5, <2>1 DEF TypeOK, PutFails, Goto
  <1> QED BY <1>4, <1>5

\* The job the scheduler makes of an attempt (Accept).
LEMMA AcceptType ==
  ASSUME TypeOK, NEW j \in Jobs, NEW s \in {3, 4}, NEW n \in 1..MaxAttempt, Accept(j, s, n)
  PROVE  /\ jobs' \in [Jobs -> JobRecord]
         /\ \A k \in Jobs \ {j} : jobs'[k] = jobs[k]
         /\ jobs'[j].step = s /\ jobs'[j].n = n /\ jobs'[j].st = "pending"
         /\ jobs'[j].ran = NoFile /\ jobs'[j].killed = "no" /\ ~jobs'[j].oom
  <1>1. n \in 0..MaxAttempt /\ 0 \in 0..MaxAttempt
    BY MaxAttemptAssumption
  <1>2. PICK u : u = Unused
    OBVIOUS
  <1>3. u \in JobRecord /\ u.ran = NoFile /\ u.killed = "no" /\ ~u.oom
    BY <1>1, <1>2 DEF Unused, JobRecord
  <1>4. PICK new : new = [u EXCEPT !.step = s, !.n = n, !.st = "pending"]
    OBVIOUS
  <1>5. /\ new \in JobRecord /\ new.step = s /\ new.n = n /\ new.st = "pending"
        /\ new.ran = NoFile /\ new.killed = "no" /\ ~new.oom
    BY <1>1, <1>3, <1>4 DEF JobRecord
  <1>6. jobs' = [jobs EXCEPT ![j] = new]
    BY <1>2, <1>4 DEF Accept
  <1> QED BY <1>5, <1>6 DEF TypeOK

\* So is the history of a retried step (History).
LEMMA HistoryType ==
  ASSUME TypeOK, NEW c \in Clients, NEW r \in Records, r.job \in Jobs \/ op[c].kind = "submit4"
  PROVE  History(c, r) \in Seq(Attempts)
  <1>1. r.past \in Seq(Attempts)
    BY DEF Records
  <1>2. r.job \in Jobs =>
          [job |-> r.job, tcontrol |-> r.tcontrol, err |-> r.err] \in Attempts
    BY DEF Records, Attempts
  <1> QED BY <1>1, <1>2 DEF History

\* What a dispatch will record is a record (WillRecord).
LEMMA WillRecordType ==
  ASSUME TypeOK, NEW c \in Clients, Old(c).job # NoJob \/ op[c].kind = "submit4",
         NEW state \in States, NEW job \in Jobs \cup {NoJob}, NEW err \in Errors,
         WillRecord(c, state, job, err)
  PROVE  /\ cand' \in [Clients -> Contents]
         /\ cand'[c] = [view[c].steps EXCEPT ![op[c].step] =
              [state |-> state, job |-> job, err |-> err, sched |-> "none",
               tcontrol |-> op[c].text, past |-> History(c, Old(c))]]
         /\ \A d \in Clients \ {c} : cand'[d] = cand[d]
         /\ pc' = [pc EXCEPT ![c] = "persist"]
  <1>1. view[c].steps \in Contents /\ op[c] \in Ops
    BY DEF TypeOK, Manifests
  <1>2. op[c].step \in {3, 4} /\ Old(c) \in Records /\ op[c].text \in Settings \cup {NoFile}
    BY <1>1 DEF Old, Ops, Contents
  <1>3. History(c, Old(c)) \in Seq(Attempts)
    BY <1>2, HistoryType DEF Records
  <1> DEFINE new == [state |-> state, job |-> job, err |-> err, sched |-> "none",
                     tcontrol |-> op[c].text, past |-> History(c, Old(c))]
  <1>4. new \in Records
    BY <1>2, <1>3 DEF Records
  <1>5. cand' = [cand EXCEPT ![c] = [view[c].steps EXCEPT ![op[c].step] = new]]
    BY DEF WillRecord, Old
  <1> HIDE DEF new
  <1>6. [view[c].steps EXCEPT ![op[c].step] = new] \in Contents
    BY <1>1, <1>2, <1>4 DEF Contents
  <1>7. cand' \in [Clients -> Contents] /\ cand'[c] = [view[c].steps EXCEPT ![op[c].step] = new]
        /\ \A d \in Clients \ {c} : cand'[d] = cand[d]
    BY <1>5, <1>6 DEF TypeOK
  <1> QED BY <1>7 DEF new, WillRecord, Goto

\* Dispatches keep the types.
LEMMA DispatchType ==
  ASSUME TypeOK, NEW c \in Clients, pc[c] = "dispatch",
         Old(c).job # NoJob \/ op[c].kind = "submit4",
         \/ DispatchAccepted(c) \/ DispatchUnknown(c) \/ DispatchRejected(c) \/ DispatchCrash(c)
  PROVE  TypeOK'
  <1>1. op[c].step \in {3, 4} /\ op[c].n \in 1..MaxAttempt
    BY DEF TypeOK, Ops
  <1>2. {"QUEUED", "UNKNOWN", "FAILED"} \subseteq States /\ {"none", "submission"} \subseteq Errors
    BY DEF States, Errors
  <1>3. CASE DispatchAccepted(c)
    <2>1. PICK j \in Jobs : Accept(j, op[c].step, op[c].n) /\ WillRecord(c, "QUEUED", j, "none")
      BY <1>3 DEF DispatchAccepted
    <2>2. cand' \in [Clients -> Contents] /\ pc' = [pc EXCEPT ![c] = "persist"]
      BY <1>2, <2>1, WillRecordType
    <2>3. jobs' \in [Jobs -> JobRecord]
      BY <1>1, <2>1, AcceptType
    <2> QED BY <1>3, <2>2, <2>3 DEF TypeOK, DispatchAccepted, remote
  <1>4. CASE DispatchUnknown(c)
    <2>1. cand' \in [Clients -> Contents] /\ pc' = [pc EXCEPT ![c] = "persist"]
      BY <1>2, <1>4, WillRecordType DEF DispatchUnknown
    <2>2. jobs' \in [Jobs -> JobRecord]
      BY <1>1, <1>4, AcceptType DEF DispatchUnknown, TypeOK
    <2> QED BY <1>4, <2>1, <2>2 DEF TypeOK, DispatchUnknown, remote
  <1>5. CASE DispatchRejected(c)
    <2>1. CASE op[c].kind \in {"retry3", "submit4"}
      BY <1>5, <2>1 DEF TypeOK, DispatchRejected, Goto, remote
    <2>2. CASE op[c].kind \notin {"retry3", "submit4"}
      <3>1. cand' \in [Clients -> Contents] /\ pc' = [pc EXCEPT ![c] = "persist"]
        BY <1>2, <1>5, <2>2, WillRecordType DEF DispatchRejected
      <3> QED BY <1>5, <3>1 DEF TypeOK, DispatchRejected, remote
    <2> QED BY <2>1, <2>2
  <1>6. CASE DispatchCrash(c)
    <2>1. jobs' \in [Jobs -> JobRecord]
      BY <1>1, <1>6, AcceptType DEF DispatchCrash
    <2> QED BY <1>6, <2>1 DEF TypeOK, DispatchCrash, Goto, remote
  <1> QED BY <1>3, <1>4, <1>5, <1>6

Scheds == {"none", "COMPLETED", "CANCELLED", "FAILED"}

\* The locals of a client that is in none of the steps of an operation (Idle).
LEMMA IdleType ==
  ASSUME NEW kind \in {"none", "oom", "abort"}, NEW s \in {3, 4}
  PROVE  /\ [Idle EXCEPT !.kind = kind, !.step = s] \in Ops
         /\ [Idle EXCEPT !.kind = kind] \in Ops /\ [Idle EXCEPT !.step = s] \in Ops
  <1>1. 1 \in 1..MaxAttempt
    BY MaxAttemptAssumption
  <1>2. PICK T : T = Seq(Seq([file : FileNames, content : Settings \cup {NoFile, Present}]))
    OBVIOUS
  <1>3. <<>> \in T
    BY <1>2
  <1>4. Ops = [kind : Kinds \cup {"none", "oom", "abort"}, step : {3, 4}, n : 1..MaxAttempt,
               text : Settings \cup {NoFile}, todo : T]
    BY <1>2 DEF Ops
  <1>5. PICK i : i = Idle
    OBVIOUS
  <1>6. i \in Ops
    BY <1>1, <1>3, <1>4, <1>5 DEF Idle
  <1> QED BY <1>4, <1>5, <1>6

\* A refresh either keeps the record or is about to persist a new one.
Retains(c) ==
    cand' = cand /\ seen' = [seen EXCEPT ![c] = view[c]] /\ pc' = [pc EXCEPT ![c] = "idle"]

WillSave(c, new) ==
    seen' = seen /\ cand' = [cand EXCEPT ![c] = new] /\ pc' = [pc EXCEPT ![c] = "persist"]

\* The new record differs in the state, the error and the scheduler's word.
Updates(c, new, state) ==
    /\ new[op[c].step] \in Records
    /\ new[op[c].step].state = state /\ new[op[c].step].job = Old(c).job
    /\ new[op[c].step].past = Old(c).past /\ new[op[c].step].tcontrol = Old(c).tcontrol
    /\ \A s \in {3, 4} \ {op[c].step} : new[s] = view[c].steps[s]

\* What a refresh does with its answer (PersistStep).
LEMMA PersistStepType ==
  ASSUME TypeOK, NEW c \in Clients, NEW state \in States, NEW err \in Errors, NEW sched \in Scheds,
         PersistStep(c, state, err, sched)
  PROVE  \/ Retains(c)
         \/ \E new \in Contents : WillSave(c, new) /\ Updates(c, new, state)
  <1>1. view[c].steps \in Contents /\ op[c].step \in {3, 4} /\ Old(c) \in Records
    BY DEF TypeOK, Manifests, Ops, Contents, Old
  <1>2. PICK new : new = [view[c].steps EXCEPT ![op[c].step].state = state,
                            ![op[c].step].err = err, ![op[c].step].sched = sched]
    OBVIOUS
  <1>3. PICK r : r = [Old(c) EXCEPT !.state = state, !.err = err, !.sched = sched]
    OBVIOUS
  <1>4. /\ r \in Records /\ r.state = state /\ r.job = Old(c).job /\ r.past = Old(c).past
        /\ r.tcontrol = Old(c).tcontrol
    BY <1>1, <1>3 DEF Records, Scheds
  <1>5. new \in Contents /\ new[op[c].step] = r
        /\ \A s \in {3, 4} \ {op[c].step} : new[s] = view[c].steps[s]
    BY <1>1, <1>2, <1>3, <1>4 DEF Contents, Old
  <1>6. CASE new = view[c].steps
    BY <1>2, <1>6 DEF PersistStep, Goto, Retains
  <1>7. CASE new # view[c].steps
    <2>1. WillSave(c, new)
      BY <1>2, <1>7 DEF PersistStep, Goto, WillSave
    <2>2. Updates(c, new, state)
      BY <1>4, <1>5 DEF Updates
    <2> QED BY <1>5, <2>1, <2>2
  <1> QED BY <1>6, <1>7

\* The step a project is in (ActiveStep).
LEMMA ActiveStepType == \A steps : ActiveStep(steps) \in {3, 4}
  BY DEF ActiveStep

\* Refreshes keep the types.
LEMMA BeginRefreshType ==
  ASSUME TypeOK, NEW c \in Clients, BeginRefresh(c)
  PROVE  TypeOK'
  <1>1. [Idle EXCEPT !.step = ActiveStep(manifest.steps)] \in Ops
    BY IdleType, ActiveStepType
  <1>2. op' \in [Clients -> Ops]
    BY <1>1 DEF TypeOK, BeginRefresh
  <1> QED BY <1>2 DEF TypeOK, BeginRefresh, Goto, remote

\* The locals after an answer of the scheduler or an assessment.
LEMMA ReadEndType ==
  ASSUME TypeOK, NEW c \in Clients, UNCHANGED <<manifest, view, op, remote, jobs>>,
         \/ \E state \in States, err \in Errors,
               sched \in Scheds :
               PersistStep(c, state, err, sched)
         \/ Retain(c)
         \/ Goto(c, "assess") /\ UNCHANGED <<cand, seen>>
  PROVE  TypeOK'
  <1>1. /\ pc' \in [Clients -> {"idle", "upload", "put", "dispatch", "query", "assess",
                                "evidence", "kill", "persist", "rename"}]
        /\ cand' \in [Clients -> Contents] /\ seen' \in [Clients -> Manifests]
    <2>1. CASE Retain(c)
      BY <2>1 DEF Retain, Goto, TypeOK
    <2>2. CASE Goto(c, "assess") /\ UNCHANGED <<cand, seen>>
      BY <2>2 DEF Goto, TypeOK
    <2>3. CASE \E state \in States, err \in Errors,
                  sched \in Scheds :
                  PersistStep(c, state, err, sched)
      <3>1. PICK state \in States, err \in Errors,
                 sched \in Scheds :
                 PersistStep(c, state, err, sched)
        BY <2>3
      <3>2. Retains(c) \/ \E new \in Contents : WillSave(c, new)
        BY <3>1, PersistStepType
      <3>3. CASE Retains(c)
        BY <3>3 DEF TypeOK, Retains
      <3>4. CASE \E new \in Contents : WillSave(c, new)
        BY <3>4 DEF TypeOK, WillSave
      <3> QED BY <3>2, <3>3, <3>4
    <2> QED BY <2>1, <2>2, <2>3
  <1> QED BY <1>1 DEF TypeOK, remote

\* The error a failed job is recorded with.
LEMMA FailedErrorType ==
  ASSUME NEW c, NEW st
  PROVE  FailedError(c, st) \in Errors
  BY DEF FailedError, Errors

\* The scheduled field of the loaded record.
LEMMA OldType ==
  ASSUME TypeOK, NEW c \in Clients
  PROVE  /\ view[c].steps \in Contents /\ op[c].step \in {3, 4} /\ Old(c) \in Records
         /\ Old(c) = view[c].steps[op[c].step] /\ op[c].n \in 1..MaxAttempt
  BY DEF TypeOK, Manifests, Ops, Contents, Old

\* An answer of the scheduler is recorded in a record (Query).
LEMMA QueryType ==
  ASSUME TypeOK, NEW c \in Clients, Query(c)
  PROVE  TypeOK'
  <1>1. {"QUEUED", "RUNNING", "FAILED"} \subseteq States /\ "none" \in Errors
    BY DEF States, Errors
  <1>2. Old(c).sched \in Scheds
    BY OldType DEF Records, Scheds
  <1> QED BY <1>1, <1>2, FailedErrorType, ReadEndType DEF Query, Old, Scheds

\* So is an assessment (Assess).
LEMMA AssessType ==
  ASSUME TypeOK, NEW c \in Clients, Assess(c)
  PROVE  TypeOK'
  <1>1. {"SUCCEEDED", "FAILED", "SCHEDULER_COMPLETED"} \subseteq States
        /\ {"none", "other", "overlap", "format"} \subseteq Errors
    BY DEF States, Errors
  <1> QED BY <1>1, ReadEndType DEF Assess, Scheds

\* Cancellations keep the types.
LEMMA CancelType ==
  ASSUME TypeOK, NEW c \in Clients, ReadTrue(c), Cancel(c)
  PROVE  TypeOK'
  <1>1. CASE BeginOomCancel(c)
    <2>1. [Idle EXCEPT !.kind = "oom"] \in Ops
      BY IdleType
    <2> QED BY <1>1, <2>1 DEF TypeOK, BeginOomCancel, Goto, remote
  <1>2. CASE OomEvidence(c)
    BY <1>2 DEF TypeOK, OomEvidence, Goto, remote
  <1>3. CASE BeginAbort(c)
    <2>1. [Idle EXCEPT !.kind = "abort", !.step = ActiveStep(manifest.steps)] \in Ops
      BY IdleType, ActiveStepType
    <2> QED BY <1>3, <2>1 DEF TypeOK, BeginAbort, Goto, remote
  <1>4. CASE Kill(c)
    <2>1. op[c].kind \in {"oom", "abort"} /\ Old(c).job \in Jobs
      BY <1>4, OldType DEF Kill, ReadTrue, Records, Old
    <2>2. jobs' \in [Jobs -> JobRecord]
      <3>1. [jobs[Old(c).job] EXCEPT !.st = "cancelled", !.killed = op[c].kind] \in JobRecord
        <4>1. PICK r, k : r = jobs[Old(c).job] /\ k = op[c].kind
          OBVIOUS
        <4>2. r \in JobRecord /\ k \in {"oom", "abort"}
          BY <2>1, <4>1 DEF TypeOK
        <4>3. [r EXCEPT !.st = "cancelled", !.killed = k] \in JobRecord
          BY <4>2 DEF JobRecord
        <4> QED BY <4>1, <4>3
      <3>2. \/ jobs' = jobs
            \/ jobs' = [jobs EXCEPT ![Old(c).job] = [@ EXCEPT !.st = "cancelled",
                                                              !.killed = op[c].kind]]
        BY <1>4 DEF Kill, Old
      <3> QED BY <2>1, <3>1, <3>2 DEF TypeOK
    <2> QED BY <1>4, <2>2 DEF TypeOK, Kill, Goto, remote
  <1> QED BY <1>1, <1>2, <1>3, <1>4 DEF Cancel

\* What a used job is (JobsPlaced).
LEMMA UsedJob ==
  ASSUME Inv, NEW j \in Jobs, Used(j)
  PROVE  /\ jobs[j] \in JobRecord /\ jobs[j].step \in {3, 4} /\ jobs[j].n \in 1..MaxAttempt
         /\ files[Script(jobs[j].step, jobs[j].n)] = Present
  BY DEF Inv, TypeOK, JobRecord, JobsPlaced

\* A change of a job's state and of one output.
LEMMA OutputType ==
  ASSUME TypeOK, NEW s \in {3, 4}, NEW n \in 1..MaxAttempt,
         NEW log \in {"started", "oom", "done", "overlap", "format"},
         logs' = [logs EXCEPT ![s][n] = log]
  PROVE  /\ logs' \in [{3, 4} -> [1..MaxAttempt ->
                   {NoFile, "started", "oom", "done", "overlap", "format"}]]
         /\ logs'[s][n] = log
         /\ \A t \in {3, 4}, m \in 1..MaxAttempt : t # s \/ m # n => logs'[t][m] = logs[t][m]
  BY DEF TypeOK

\* A change of a job's state leaves the rest of the job alone (Run).
LEMMA RunType ==
  ASSUME TypeOK, NEW j \in Jobs,
         NEW st \in {"running", "completed", "resources", "failed", "cancelled"}, Run(j, st)
  PROVE  /\ jobs' \in [Jobs -> JobRecord]
         /\ \A k \in Jobs \ {j} : jobs'[k] = jobs[k]
         /\ jobs'[j].st = st /\ jobs'[j].step = jobs[j].step /\ jobs'[j].n = jobs[j].n
         /\ jobs'[j].ran = jobs[j].ran /\ jobs'[j].killed = jobs[j].killed
         /\ jobs'[j].oom = jobs[j].oom
  BY DEF TypeOK, JobRecord, Run

\* What the start of a job changes of it, and of nothing else (JobStarts).
LEMMA JobStartsType ==
  ASSUME Inv, NEW j \in Jobs, JobStarts(j)
  PROVE  /\ TypeOK' /\ \A k \in Jobs \ {j} : jobs'[k] = jobs[k]
         /\ jobs'[j].st = "running" /\ jobs'[j].step = jobs[j].step /\ jobs'[j].n = jobs[j].n
         /\ jobs'[j].ran = IF jobs[j].step = 4 THEN files[TControl] ELSE NoFile
         /\ jobs'[j].killed = jobs[j].killed /\ jobs'[j].oom = jobs[j].oom
  <1>0. TypeOK /\ Used(j) /\ jobs[j] \in JobRecord
    BY UsedJob DEF Inv, JobStarts, Used, TypeOK
  <1>1. PICK r, ran : r = jobs[j] /\ ran = IF r.step = 4 THEN files[TControl] ELSE NoFile
    OBVIOUS
  <1>2. r \in JobRecord /\ ran \in Settings \cup {NoFile}
    BY <1>0, <1>1 DEF Inv, ControlIsText
  <1>3. PICK new : new = [r EXCEPT !.st = "running", !.ran = ran]
    OBVIOUS
  <1>4. /\ new \in JobRecord /\ new.st = "running" /\ new.step = r.step /\ new.n = r.n
        /\ new.ran = ran /\ new.killed = r.killed /\ new.oom = r.oom
    BY <1>2, <1>3 DEF JobRecord
  <1>5. jobs' = [jobs EXCEPT ![j] = new]
    BY <1>1, <1>3 DEF JobStarts
  <1>6. logs' \in [{3, 4} -> [1..MaxAttempt ->
                   {NoFile, "started", "oom", "done", "overlap", "format"}]]
    BY <1>0, UsedJob, OutputType DEF JobStarts
  <1>7. jobs' \in [Jobs -> JobRecord]
    BY <1>0, <1>4, <1>5 DEF TypeOK
  <1>8. TypeOK'
    BY <1>0, <1>6, <1>7 DEF TypeOK, JobStarts, Local
  <1> QED BY <1>0, <1>1, <1>4, <1>5, <1>8 DEF TypeOK

\* What a task killed for memory changes (JobOom).
LEMMA JobOomType ==
  ASSUME Inv, NEW j \in Jobs, JobOom(j)
  PROVE  /\ TypeOK' /\ \A k \in Jobs \ {j} : jobs'[k] = jobs[k]
         /\ jobs'[j].st = jobs[j].st /\ jobs'[j].step = jobs[j].step /\ jobs'[j].n = jobs[j].n
         /\ jobs'[j].ran = jobs[j].ran /\ jobs'[j].killed = jobs[j].killed /\ jobs'[j].oom
  <1>0. TypeOK /\ Used(j) /\ jobs[j] \in JobRecord
    BY UsedJob DEF Inv, JobOom, Used, TypeOK
  <1>1. /\ jobs' \in [Jobs -> JobRecord] /\ \A k \in Jobs \ {j} : jobs'[k] = jobs[k]
        /\ jobs'[j].st = jobs[j].st /\ jobs'[j].step = jobs[j].step /\ jobs'[j].n = jobs[j].n
        /\ jobs'[j].ran = jobs[j].ran /\ jobs'[j].killed = jobs[j].killed /\ jobs'[j].oom
    BY <1>0 DEF TypeOK, JobRecord, JobOom
  <1>2. logs' \in [{3, 4} -> [1..MaxAttempt ->
                   {NoFile, "started", "oom", "done", "overlap", "format"}]]
    BY <1>0, UsedJob, OutputType DEF JobOom
  <1>3. TypeOK'
    BY <1>0, <1>1, <1>2 DEF TypeOK, JobOom, Local
  <1> QED BY <1>1, <1>3

\* A completion keeps the types (JobCompletes).
LEMMA JobCompletesType ==
  ASSUME Inv, NEW j \in Jobs, JobCompletes(j)
  PROVE  TypeOK'
  <1>0. TypeOK /\ Used(j)
    BY DEF Inv, JobCompletes, Used
  <1>1. jobs' \in [Jobs -> JobRecord]
    BY <1>0, RunType DEF JobCompletes
  <1>2. PICK log \in {"started", "done", "overlap", "format"} :
          /\ logs' = [logs EXCEPT ![jobs[j].step][jobs[j].n] = log]
          /\ matrices' = IF jobs[j].step = 3 THEN j ELSE matrices
          /\ te' = IF jobs[j].step = 4 /\ log = "done" THEN j ELSE te
    BY DEF JobCompletes
  <1>3. logs' \in [{3, 4} -> [1..MaxAttempt ->
                   {NoFile, "started", "oom", "done", "overlap", "format"}]]
    BY <1>0, <1>2, UsedJob, OutputType
  <1>4. matrices' \in Jobs \cup {NoJob} /\ te' \in Jobs \cup {NoJob}
    BY <1>0, <1>2 DEF TypeOK
  <1> QED BY <1>0, <1>1, <1>3, <1>4 DEF TypeOK, JobCompletes, Local

\* So does another end (JobFails).
LEMMA JobFailsType ==
  ASSUME TypeOK, NEW j \in Jobs, JobFails(j)
  PROVE  TypeOK'
  <1>1. jobs' \in [Jobs -> JobRecord]
    BY RunType DEF JobFails
  <1>2. matrices' \in Jobs \cup {NoJob} /\ te' \in Jobs \cup {NoJob}
    BY DEF TypeOK, JobFails
  <1> QED BY <1>1, <1>2 DEF TypeOK, JobFails, Local

\* Recording keeps the types.
LEMMA RecordType ==
  ASSUME TypeOK, NEW c \in Clients, Record(c)
  PROVE  TypeOK'
  <1>1. CASE PersistCheck(c)
    BY <1>1 DEF TypeOK, PersistCheck, Store!Check, Store!CheckFails, remote
  <1>2. CASE PersistRename(c)
    <2>1. manifest' = [rev |-> view[c].rev + 1, steps |-> cand[c]]
      BY <1>2 DEF PersistRename, Store!Rename, Store!Successor
    <2>2. manifest' \in Manifests
      BY <2>1 DEF TypeOK, Manifests
    <2>3. seen' \in [Clients -> Manifests]
      BY <1>2, <2>2 DEF TypeOK, PersistRename
    <2> QED BY <1>2, <2>2, <2>3 DEF TypeOK, PersistRename, Store!Rename, remote
  <1> QED BY <1>1, <1>2 DEF Record

\* An operation that uploads has uploads left.
LEMMA UploadsLeft ==
  ASSUME Inv, NEW c \in Clients, Uploading(c)
  PROVE  op[c].todo # <<>>
  <1>1. op[c].todo \in Seq(Seq(Writes))
    BY DEF Inv, TypeOK, Ops, Writes
  <1>2. SubmitTrue(c) /\ Working(c) /\ pc[c] # "dispatch"
    BY DEF Inv, ClientsTrue, Working, Uploading
  <1>3. Len(op[c].todo) # 0
    BY <1>2 DEF SubmitTrue, Remains
  <1> QED BY <1>1, <1>3

\* Every step keeps the types.
LEMMA TypeStep ==
  ASSUME Inv, [Next]_vars
  PROVE  TypeOK'
  <1>0. TypeOK
    BY DEF Inv
  <1>1. ASSUME NEW c \in Clients, Submit(c) PROVE TypeOK'
    <2>1. CASE \E kind \in Kinds : Begin(c, kind)
      BY <1>0, <2>1, BeginType
    <2>2. CASE CheckFiles(c)
      BY <1>0, <2>2 DEF TypeOK, CheckFiles, Goto, remote
    <2>3. CASE PutFiles(c) \/ PutFails(c)
      <3>1. op[c].todo # <<>>
        BY <2>3, UploadsLeft DEF PutFiles, PutFails, Uploading
      <3> QED BY <1>0, <2>3, <3>1, PutType
    <2>4. CASE \/ DispatchAccepted(c) \/ DispatchUnknown(c)
               \/ DispatchRejected(c) \/ DispatchCrash(c)
      <3>1. pc[c] = "dispatch"
        BY <2>4 DEF DispatchAccepted, DispatchUnknown, DispatchRejected, DispatchCrash
      <3>2. Old(c).job # NoJob \/ op[c].kind = "submit4"
        BY <3>1 DEF Inv, ClientsTrue, SubmitTrue, Working, Planned
      <3> QED BY <1>0, <2>4, <3>1, <3>2, DispatchType
    <2> QED BY <1>1, <2>1, <2>2, <2>3, <2>4 DEF Submit
  <1>2. ASSUME NEW c \in Clients, Refresh(c) PROVE TypeOK'
    BY <1>0, <1>2, BeginRefreshType, QueryType, AssessType DEF Refresh
  <1>3. ASSUME NEW c \in Clients, Cancel(c) PROVE TypeOK'
    BY <1>0, <1>3, CancelType DEF Inv, ClientsTrue
  <1>4. ASSUME NEW c \in Clients, Record(c) \/ Interrupt(c) PROVE TypeOK'
    <2>1. CASE Interrupt(c)
      BY <1>0, <2>1 DEF TypeOK, Interrupt, Goto, remote
    <2> QED BY <1>0, <1>4, <2>1, RecordType
  <1>5. ASSUME NEW j \in Jobs, Scheduler(j) PROVE TypeOK'
    BY <1>0, <1>5, JobStartsType, JobOomType, JobCompletesType, JobFailsType DEF Scheduler
  <1>6. CASE UNCHANGED vars
    BY <1>0, <1>6 DEF TypeOK, vars
  <1> QED BY <1>1, <1>2, <1>3, <1>4, <1>5, <1>6 DEF Next

----------------------------------------------------------------------------
(* What stays true of a copy.                                              *)

\* No file disappears, and only tcontrol is ever replaced.
Kept ==
    \A f \in FileNames : files[f] # NoFile =>
        files'[f] # NoFile /\ (f # TControl => files'[f] = files[f])

\* A job keeps its attempt; one that has ended keeps everything; one of Step 4
\* runs with the tcontrol that is there when it starts.
JobKept(j) ==
    /\ jobs'[j].step = jobs[j].step /\ jobs'[j].n = jobs[j].n
    /\ jobs[j].oom => jobs'[j].oom
    /\ Used(j)'
    /\ Ended(j) => /\ jobs'[j].st = jobs[j].st /\ jobs'[j].ran = jobs[j].ran
                   /\ Succeeded(j)' <=> Succeeded(j)
    /\ jobs[j].step = 4 =>
         /\ jobs'[j].st = "pending" => jobs[j].st = "pending" /\ files'[TControl] = files[TControl]
         /\ jobs'[j].st \in {"running", "completed"} =>
              \/ jobs[j].st \in {"running", "completed"} /\ jobs'[j].ran = jobs[j].ran
              \/ jobs[j].st = "pending" /\ jobs'[j].ran = files[TControl]
         /\ \/ jobs'[j].ran = jobs[j].ran
            \/ jobs[j].st = "pending" /\ jobs'[j].ran = files[TControl]

Forward == Kept /\ \A j \in Jobs : Used(j) => JobKept(j)

\* A job of an attempt is used.
LEMMA OfUsed ==
  ASSUME Inv, NEW j \in Jobs, NEW s \in {3, 4}, NEW n, Of(j, s, n)
  PROVE  Used(j)
  BY DEF Inv, JobsPlaced, Of

\* A job of an attempt stays that as steps go forward.
LEMMA OfForward ==
  ASSUME Inv, Forward, NEW j \in Jobs, NEW s \in {3, 4}, NEW n, Of(j, s, n)
  PROVE  Used(j) /\ JobKept(j) /\ Of(j, s, n)'
  BY OfUsed DEF Forward, JobKept, Of

\* An archived attempt stays what it was.
LEMMA PastForward ==
  ASSUME Inv, Forward, NEW s \in {3, 4}, NEW i \in 1..MaxAttempt, NEW old \in Attempts,
         PastTrue(s, i, old)
  PROVE  PastTrue(s, i, old)'
  <1>1. old.job \in Jobs
    BY DEF Attempts
  <1>2. Used(old.job) /\ JobKept(old.job) /\ Of(old.job, s, i)'
    BY <1>1, OfForward DEF PastTrue
  <1>3. Ended(old.job)' /\ ~Succeeded(old.job)' /\ jobs'[old.job].ran = jobs[old.job].ran
    BY <1>2 DEF PastTrue, JobKept, Ended
  <1>4. s = 4 => files'[Archive(i)] = files[Archive(i)]
    <2>1. Archive(i) \in FileNames /\ Archive(i) # TControl
      BY NamesType, NamesApart
    <2>2. s = 4 => files[Archive(i)] # NoFile
      BY TextsApart DEF PastTrue
    <2> QED BY <2>1, <2>2 DEF Forward, Kept
  <1> QED BY <1>2, <1>3, <1>4 DEF PastTrue

\* So does what a record says of its job.
LEMMA RanForward ==
  ASSUME NEW j \in Jobs, jobs[j].step = 4, JobKept(j), NEW tcontrol, RanWith(j, tcontrol)
  PROVE  RanWith(j, tcontrol)'
  BY DEF RanWith, JobKept

\* What a record says of its job stays true.
LEMMA JobForward ==
  ASSUME Inv, Forward, NEW s \in {3, 4}, NEW r \in Records, r.job # NoJob, JobTrue(s, r)
  PROVE  JobTrue(s, r)'
  <1>1. r.job \in Jobs
    BY DEF Records
  <1>2. Used(r.job) /\ JobKept(r.job) /\ Of(r.job, s, Number(r))'
    BY <1>1, OfForward DEF JobTrue
  <1>3. r.state \in Final =>
          Ended(r.job) /\ Ended(r.job)' /\ (Succeeded(r.job)' <=> Succeeded(r.job))
    BY <1>2 DEF JobTrue, JobKept, Ended
  <1>4. s = 4 => RanWith(r.job, r.tcontrol)'
    BY <1>1, <1>2, RanForward DEF JobTrue, Of
  <1> QED BY <1>2, <1>3, <1>4 DEF JobTrue, Final

\* So does all that it says.
LEMMA RecordForward ==
  ASSUME Inv, Forward, NEW s \in {3, 4}, NEW r \in Records, RecordTrue(s, r)
  PROVE  RecordTrue(s, r)'
  <1>1. \A i \in DOMAIN r.past : PastTrue(s, i, r.past[i])'
    <2> TAKE i \in DOMAIN r.past
    <2>1. r.past \in Seq(Attempts) /\ Len(r.past) < MaxAttempt
      BY DEF Records, RecordTrue
    <2>2. i \in 1..MaxAttempt /\ r.past[i] \in Attempts
      BY <2>1, MaxAttemptAssumption
    <2> QED BY <2>2, PastForward DEF RecordTrue
  <1>2. r.job # NoJob => JobTrue(s, r)'
    BY JobForward DEF RecordTrue
  <1>3. files[TControl] # NoFile => files'[TControl] # NoFile
    BY NamesType DEF Forward, Kept
  <1> QED BY <1>1, <1>2, <1>3 DEF RecordTrue

\* The records of both steps stay true.
LEMMA StepsForward ==
  ASSUME Inv, Forward, NEW steps \in Contents, StepsTrue(steps)
  PROVE  StepsTrue(steps)'
  <1>1. steps[3] \in Records /\ steps[4] \in Records
    BY DEF Contents
  <1> QED BY <1>1, RecordForward DEF StepsTrue

\* The copies are records.
LEMMA CopiesType ==
  ASSUME TypeOK
  PROVE  /\ \A steps \in Copies : steps \in Contents
         /\ manifest.steps \in Copies
         /\ \A c \in Clients : /\ view[c].steps \in Copies /\ seen[c].steps \in Copies
                               /\ cand[c] \in Copies
  BY DEF TypeOK, Manifests, Copies

\* Where the copies come from after a step.
LEMMA CopiesStep ==
  ASSUME NEW S, manifest'.steps \in S,
         \A c \in Clients : view'[c].steps \in S /\ seen'[c].steps \in S /\ cand'[c] \in S
  PROVE  Copies' \subseteq S
  BY DEF Copies

\* The copies stay true when what is new among them is.
LEMMA CopiesForward ==
  ASSUME Inv, Forward, NEW S, Copies' \subseteq Copies \cup S, \A steps \in S : StepsTrue(steps)'
  PROVE  CopiesTrue'
  <1>1. \A steps \in Copies : StepsTrue(steps)'
    BY StepsForward, CopiesType DEF Inv, CopiesTrue
  <1>2. \A steps \in Copies' : StepsTrue(steps)'
    BY <1>1
  <1> QED BY <1>2 DEF CopiesTrue

\* A copy says the truth.
LEMMA CopyTrue ==
  ASSUME Inv, NEW steps \in Copies
  PROVE  steps \in Contents /\ StepsTrue(steps)
  BY CopiesType DEF Inv, CopiesTrue

----------------------------------------------------------------------------
(* Clients.                                                                *)

\* Client d does nothing.
Stays(d) == op'[d] = op[d] /\ view'[d] = view[d] /\ pc'[d] = pc[d]

\* What is true of a client stays so while others work, unless they take its
\* attempt, write a file it has found absent, or replace its tcontrol.
LEMMA OthersTrue ==
  ASSUME Inv, Forward, NEW d \in Clients, Stays(d),
         pc[d] = "put" => UNCHANGED files,
         Holds(d) => /\ \A j \in Jobs : ~Of(j, op[d].step, op[d].n)'
                     /\ op[d].step = 4 /\ Len(op[d].todo) < 2 => files'[TControl] = files[TControl]
  PROVE  SubmitTrue(d)' /\ ReadTrue(d)' /\ (Holds(d)' <=> Holds(d))
  <1>1. SubmitTrue(d) /\ ReadTrue(d) /\ TypeOK
    BY DEF Inv, ClientsTrue
  <1>2. /\ Old(d)' = Old(d) /\ All(d)' = All(d) /\ (Holds(d)' <=> Holds(d))
        /\ (Working(d)' <=> Working(d))
    BY DEF Stays, Old, All, Holds, Working, Uploading
  <1>3. Working(d)' => Planned(d)' /\ Remains(d)'
    BY <1>1, <1>2 DEF SubmitTrue, Planned, Remains, Stays
  <1>4. pc'[d] = "put" => MayUpload(d)'
    BY <1>1 DEF SubmitTrue, MayUpload, Replaces, Batch, Stays
  <1>5. Holds(d) => Held(d)'
    <2> SUFFICES ASSUME Holds(d) PROVE Held(d)'
      OBVIOUS
    <2>1. Held(d) /\ Working(d) /\ Planned(d)
      BY <1>1 DEF SubmitTrue, Holds, Working
    <2>2. pc[d] = "dispatch" => files'[Script(op[d].step, op[d].n)] = Present
      BY <1>1, <2>1, OldType, NamesType, NamesApart, TextsApart DEF Held, Forward, Kept
    <2>3. op[d].step = 4 /\ op[d].kind # "submit4" =>
            files'[Archive(op[d].n - 1)] = files[Archive(op[d].n - 1)]
      <3> SUFFICES ASSUME op[d].step = 4, op[d].kind # "submit4"
                   PROVE  files'[Archive(op[d].n - 1)] = files[Archive(op[d].n - 1)]
        OBVIOUS
      <3>1. op[d].n \in 1..MaxAttempt /\ op[d].n > 1
        BY <1>1, <2>1, OldType, NextNumberType, NumberType DEF Planned
      <3>2. Archive(op[d].n - 1) \in FileNames /\ Archive(op[d].n - 1) # TControl
        BY <3>1, NamesType, NamesApart, MaxAttemptAssumption
      <3>3. files[Archive(op[d].n - 1)] # NoFile
        <4>1. Old(d).state = "FAILED" /\ view[d].steps[4] = Old(d)
          BY <2>1 DEF Planned, Old
        <4>2. Old(d).tcontrol \in Settings
          BY <1>1, <4>1, CopyTrue, CopiesType DEF StepsTrue, RecordTrue
        <4> QED BY <2>1, <4>2, TextsApart DEF Held
      <3> QED BY <3>2, <3>3 DEF Forward, Kept
    <2> QED BY <1>2, <2>1, <2>2, <2>3 DEF Held, Stays
  <1>6. ReadTrue(d)'
    <2> SUFFICES ASSUME pc[d] \in {"query", "assess", "evidence", "kill"} PROVE ReadTrue(d)'
      BY DEF ReadTrue, Stays
    <2>1. Old(d).job \in Jobs
      BY <1>1, OldType DEF ReadTrue, Records, Old
    <2>2. Of(Old(d).job, op[d].step, Number(Old(d)))
      BY <1>1, <2>1, JobsAssumption, OldType, CopyTrue, CopiesType
         DEF StepsTrue, RecordTrue, JobTrue, Old
    <2>3. JobKept(Old(d).job) /\ Used(Old(d).job)
      BY <1>1, <2>1, <2>2, OldType, OfForward
    <2>4. jobs[Old(d).job].st = "completed" => jobs'[Old(d).job].st = "completed"
      BY <2>3 DEF JobKept, Ended
    <2> QED BY <1>1, <2>3, <2>4 DEF ReadTrue, Old, Stays, JobKept
  <1> QED BY <1>2, <1>3, <1>4, <1>5, <1>6 DEF SubmitTrue

----------------------------------------------------------------------------
(* Steps that change nothing but the record and the clients' locals.       *)

Quiet == UNCHANGED <<files, logs, matrices, te, jobs>>

\* A quiet step goes forward.
LEMMA QuietForward ==
  ASSUME Quiet
  PROVE  Forward
  BY DEF Quiet, Forward, Kept, JobKept, Used, Succeeded

\* The attempt of client c is still its own.
StillHolds(c) ==
    Holds(c)' => Holds(c) /\ op'[c].step = op[c].step /\ op'[c].n = op[c].n

\* A quiet step keeps the invariant when its client and its new copy are right.
LEMMA QuietStep ==
  ASSUME Inv, TypeOK', Quiet, NEW c \in Clients, \A d \in Clients \ {c} : Stays(d),
         SubmitTrue(c)', ReadTrue(c)', StillHolds(c),
         NEW S, Copies' \subseteq Copies \cup S, \A steps \in S : StepsTrue(steps)'
  PROVE  Inv'
  <1>1. Forward
    BY QuietForward
  <1>2. CopiesTrue'
    BY <1>1, CopiesForward
  <1>3. \A d \in Clients \ {c} : SubmitTrue(d)' /\ ReadTrue(d)' /\ (Holds(d)' <=> Holds(d))
    <2> TAKE d \in Clients \ {c}
    <2>1. Holds(d) => Held(d)
      BY DEF Inv, ClientsTrue, SubmitTrue
    <2>2. Holds(d) => \A j \in Jobs : ~Of(j, op[d].step, op[d].n)'
      BY <2>1 DEF Held, Of, Quiet, Stays
    <2> QED BY <1>1, <2>2, OthersTrue DEF Quiet
  <1>4. ClientsTrue'
    BY <1>3 DEF ClientsTrue
  <1>5. HoldersApart'
    BY <1>3 DEF Inv, HoldersApart, StillHolds, Stays
  <1>6. /\ ControlIsText' /\ JobsPlaced' /\ LogsOwned' /\ AttemptDispatchedOnce' /\ Chain'
        /\ Results' /\ OomCancelIsOwn'
    BY DEF Inv, Quiet, ControlIsText, JobsPlaced, LogsOwned, AttemptDispatchedOnce, Chain,
           Results, OomCancelIsOwn, Used, Of, Succeeded, Ended
  <1> QED BY <1>2, <1>4, <1>5, <1>6 DEF Inv

\* The same for a step that makes no new copy.
LEMMA QuietSame ==
  ASSUME Inv, TypeOK', Quiet, NEW c \in Clients, \A d \in Clients \ {c} : Stays(d),
         SubmitTrue(c)', ReadTrue(c)', StillHolds(c), Copies' \subseteq Copies
  PROVE  Inv'
  <1>1. PICK S : S = {}
    OBVIOUS
  <1>2. Copies' \subseteq Copies \cup S /\ \A steps \in S : StepsTrue(steps)'
    BY <1>1
  <1> QED BY <1>2, QuietStep

\* A client that ends its operation has nothing left to keep.
LEMMA AtRest ==
  ASSUME NEW c \in Clients, pc'[c] \in {"idle", "persist", "rename"}
  PROVE  SubmitTrue(c)' /\ ReadTrue(c)' /\ StillHolds(c)
  BY DEF SubmitTrue, ReadTrue, StillHolds, Holds, Working, Uploading

\* A client that reads has no attempt of its own.
LEMMA Reading ==
  ASSUME NEW c \in Clients, pc'[c] \in {"query", "assess", "evidence", "kill"}
  PROVE  SubmitTrue(c)' /\ StillHolds(c)
  BY DEF SubmitTrue, StillHolds, Holds, Working, Uploading

\* Uploads are at least one call.
LEMMA UploadsSome ==
  ASSUME NEW kind \in Kinds, NEW n, NEW text, NEW old, NEW u, u = Uploads(kind, n, text, old)
  PROVE  /\ kind \in {"retry3", "submit4"} => Len(u) = 1
         /\ kind = "settings4" => Len(u) = 3
         /\ kind = "energy4" => Len(u) = 4
         /\ Len(u) \in 1..4
  <1>1. kind \in {"retry3", "submit4"} => Len(u) = 1
    BY UploadsShape
  <1>2. kind = "settings4" => Len(u) = 3
    BY UploadsShape
  <1>3. kind = "energy4" => Len(u) = 4
    BY UploadsShape
  <1> QED BY <1>1, <1>2, <1>3 DEF Kinds

\* A new operation is planned from the record that was verified (Begin).
LEMMA BeginStep ==
  ASSUME Inv, TypeOK', NEW c \in Clients, NEW kind \in Kinds, Begin(c, kind)
  PROVE  Inv'
  <1> DEFINE s == StepOf(kind)
             n == NextNumber(kind, manifest.steps)
             old == manifest.steps[s].tcontrol
  <1>0. TypeOK /\ manifest.steps \in Contents
    BY DEF Inv, TypeOK, Manifests
  <1>1. PICK text \in (IF s = 3 THEN {NoFile} ELSE Settings) :
          op' = [op EXCEPT ![c] = [kind |-> kind, step |-> s, n |-> n, text |-> text,
                                   todo |-> Uploads(kind, n, text, old)]]
    BY DEF Begin
  <1>2. /\ op'[c].kind = kind /\ op'[c].step = s /\ op'[c].n = n /\ op'[c].text = text
        /\ op'[c].todo = Uploads(kind, n, text, old)
        /\ view'[c] = manifest /\ pc'[c] = "upload" /\ Eligible(kind, manifest.steps)
    BY <1>0, <1>1 DEF TypeOK, Begin, Goto
  <1>3. op'[c].todo = All(c)' /\ Len(op'[c].todo) \in 1..4
    BY <1>2, UploadsSome DEF All, Old
  <1>4. Planned(c)'
    <2>1. Old(c)' = manifest.steps[s] /\ view'[c].steps = manifest.steps
      BY <1>2 DEF Old
    <2>2. /\ kind # "submit4" => manifest.steps[s].state = "FAILED" /\ manifest.steps[s].job # NoJob
          /\ s = 3 => manifest.steps[4].state = "NOT_STARTED"
          /\ s = 4 => manifest.steps[3].state = "SUCCEEDED"
      <3>1. CASE kind = "retry3"
        BY <1>2, <3>1 DEF Eligible, StepOf
      <3>2. CASE kind = "submit4"
        BY <1>2, <3>2 DEF Eligible, StepOf
      <3>3. CASE kind = "energy4"
        BY <1>2, <3>3 DEF Eligible, StepOf
      <3>4. CASE kind = "settings4"
        BY <1>2, <3>4 DEF Eligible, StepOf
      <3> QED BY <3>1, <3>2, <3>3, <3>4 DEF Kinds
    <2>3. s = 4 => text \in Settings
      BY <1>1
    <2> HIDE DEF s, n, old
    <2>4. op'[c].step = StepOf(op'[c].kind) /\ op'[c].n = NextNumber(op'[c].kind, view'[c].steps)
      BY <1>2, <2>1 DEF s, n
    <2> QED BY <1>2, <2>1, <2>2, <2>3, <2>4 DEF Planned
  <1>5. Remains(c)'
    <2>1. PICK u : u = op'[c].todo /\ u = All(c)'
      BY <1>3
    <2>2. Len(u) \in 1..4
      BY <1>3, <2>1
    <2>3. \A k \in 1..4 : k \in 1..k /\ \A i \in 1..k : i + k - k = i
      OBVIOUS
    <2>4. Len(u) \in 1..Len(u) /\ \A i \in 1..Len(u) : u[i] = u[i + Len(u) - Len(u)]
      BY <2>2, <2>3
    <2> QED BY <1>2, <2>1, <2>4 DEF Remains
  <1>6. ~Holds(c)'
    BY <1>2, <1>3 DEF Holds
  <1>7. SubmitTrue(c)' /\ ReadTrue(c)' /\ StillHolds(c)
    BY <1>2, <1>4, <1>5, <1>6 DEF SubmitTrue, ReadTrue, StillHolds
  <1>8. Quiet /\ \A d \in Clients \ {c} : Stays(d)
    BY <1>0, <1>1 DEF TypeOK, Begin, Goto, Quiet, remote, Stays
  <1>9. Copies' \subseteq Copies
    <2>1. \A d \in Clients : view'[d].steps \in Copies /\ seen'[d] = seen[d] /\ cand'[d] = cand[d]
      BY <1>0, CopiesType DEF TypeOK, Begin
    <2> QED BY <1>0, <2>1, CopiesType, CopiesStep DEF Begin
  <1> QED BY <1>7, <1>8, <1>9, QuietSame

\* The check before an upload (CheckFiles).
LEMMA CheckFilesStep ==
  ASSUME Inv, TypeOK', NEW c \in Clients, CheckFiles(c)
  PROVE  Inv'
  <1>0. TypeOK /\ SubmitTrue(c)
    BY DEF Inv, ClientsTrue
  <1>1. Quiet /\ \A d \in Clients \ {c} : Stays(d)
    BY <1>0 DEF TypeOK, CheckFiles, Goto, Quiet, remote, Stays
  <1>2. Copies' \subseteq Copies
    BY DEF CheckFiles, Copies
  <1>3. SubmitTrue(c)' /\ ReadTrue(c)' /\ StillHolds(c)
    <2>1. CASE pc'[c] = "idle"
      BY <2>1, AtRest
    <2>2. CASE pc'[c] = "put" /\ MayUpload(c)
      <3>1. pc[c] = "upload" /\ UNCHANGED <<view, op, files, jobs>>
        BY DEF CheckFiles, remote
      <3>2. All(c)' = All(c) /\ Old(c)' = Old(c)
        BY <3>1 DEF All, Old
      <3>3. (Holds(c)' <=> Holds(c)) /\ Working(c) /\ MayUpload(c)'
        BY <2>2, <3>1, <3>2 DEF Holds, Uploading, Working, MayUpload, Replaces, Batch
      <3>4. Planned(c)' /\ Remains(c)'
        BY <1>0, <2>2, <3>1, <3>2, <3>3 DEF SubmitTrue, Planned, Remains
      <3>5. Holds(c) => Held(c)'
        BY <1>0, <2>2, <3>1, <3>2 DEF SubmitTrue, Held, Of
      <3> QED BY <2>2, <3>1, <3>3, <3>4, <3>5 DEF SubmitTrue, ReadTrue, StillHolds
    <2>3. pc'[c] = IF MayUpload(c) THEN "put" ELSE "idle"
      BY <1>0 DEF TypeOK, CheckFiles, Goto
    <2> QED BY <2>1, <2>2, <2>3
  <1> QED BY <1>1, <1>2, <1>3, QuietSame

\* An interrupted client (Interrupt).
LEMMA InterruptStep ==
  ASSUME Inv, TypeOK', NEW c \in Clients, Interrupt(c)
  PROVE  Inv'
  <1>1. Quiet /\ (\A d \in Clients \ {c} : Stays(d)) /\ pc'[c] = "idle"
    BY DEF Inv, TypeOK, Interrupt, Goto, Quiet, remote, Stays
  <1>2. Copies' \subseteq Copies
    BY DEF Interrupt, Copies
  <1> QED BY <1>1, <1>2, AtRest, QuietSame

\* A save puts one of the copies into project.json, fresh or stale (Record).
LEMMA RecordStep ==
  ASSUME Inv, TypeOK', NEW c \in Clients, Record(c)
  PROVE  Inv'
  <1>0. TypeOK
    BY DEF Inv
  <1>1. /\ Quiet /\ (\A d \in Clients \ {c} : Stays(d)) /\ pc'[c] \in {"idle", "rename"}
        /\ UNCHANGED <<view, cand>>
    BY <1>0 DEF TypeOK, Record, PersistCheck, PersistRename, Store!Check, Store!CheckFails,
                Store!Rename, Quiet, remote, Stays
  <1>2. manifest'.steps \in Copies /\ \A d \in Clients : seen'[d].steps \in Copies
    <2>1. CASE PersistCheck(c)
      BY <1>0, <2>1, CopiesType DEF PersistCheck, Store!Check, Store!CheckFails
    <2>2. CASE PersistRename(c)
      <3>1. manifest' = [rev |-> view[c].rev + 1, steps |-> cand[c]]
        BY <2>2 DEF PersistRename, Store!Rename, Store!Successor
      <3>2. manifest'.steps \in Copies
        BY <1>0, <3>1, CopiesType
      <3>3. \A d \in Clients : seen'[d] \in {seen[d], manifest'}
        BY <1>0, <2>2 DEF TypeOK, PersistRename
      <3> QED BY <1>0, <3>2, <3>3, CopiesType
    <2> QED BY <2>1, <2>2 DEF Record
  <1>3. Copies' \subseteq Copies
    BY <1>0, <1>1, <1>2, CopiesType, CopiesStep
  <1> QED BY <1>1, <1>3, AtRest, QuietSame

\* The job a client reads about, and its output (Output).
LEMMA ReadsOwn ==
  ASSUME Inv, NEW c \in Clients, pc[c] \in {"query", "assess", "evidence", "kill"}
  PROVE  /\ Old(c).job \in Jobs /\ Used(Old(c).job) /\ Old(c).job # NoJob
         /\ Of(Old(c).job, op[c].step, Number(Old(c))) /\ Number(Old(c)) \in 1..MaxAttempt
         /\ Output(c) = logs[jobs[Old(c).job].step][jobs[Old(c).job].n]
         /\ RecordTrue(op[c].step, Old(c)) /\ StepsTrue(view[c].steps)
  <1>0. TypeOK /\ ReadTrue(c)
    BY DEF Inv, ClientsTrue
  <1>1. Old(c).job \in Jobs /\ Old(c).job # NoJob
    BY <1>0, OldType DEF ReadTrue, Records, Old
  <1>2. StepsTrue(view[c].steps) /\ RecordTrue(op[c].step, Old(c))
    BY <1>0, OldType, CopyTrue, CopiesType DEF StepsTrue, Old
  <1>3. Of(Old(c).job, op[c].step, Number(Old(c)))
    BY <1>1, <1>2 DEF RecordTrue, JobTrue
  <1>4. Used(Old(c).job)
    BY <1>0, <1>1, <1>3, OldType, OfUsed
  <1>5. jobs[Old(c).job].step = op[c].step /\ jobs[Old(c).job].n = Number(Old(c))
    BY <1>3 DEF Of
  <1>6. Number(Old(c)) \in 1..MaxAttempt
    BY <1>1, <1>4, <1>5, UsedJob
  <1>7. Output(c) = logs[jobs[Old(c).job].step][jobs[Old(c).job].n]
    BY <1>5 DEF Output, Old
  <1> QED BY <1>1, <1>2, <1>3, <1>4, <1>6, <1>7

\* What a refresh records is true when it says no more of the job than is so.
LEMMA UpdateTrue ==
  ASSUME Inv, NEW c \in Clients, pc[c] \in {"query", "assess"}, NEW new \in Contents,
         NEW state \in {"QUEUED", "RUNNING", "FAILED", "SCHEDULER_COMPLETED", "SUCCEEDED"},
         Updates(c, new, state),
         state \in Final => Ended(Old(c).job),
         state = "SUCCEEDED" => Succeeded(Old(c).job),
         state = "FAILED" => ~Succeeded(Old(c).job)
  PROVE  StepsTrue(new)
  <1> DEFINE s == op[c].step
             r == new[s]
  <1>0. TypeOK /\ ReadTrue(c)
    BY DEF Inv, ClientsTrue
  <1>1. /\ r \in Records /\ r.state = state /\ r.job = Old(c).job /\ r.past = Old(c).past
        /\ r.tcontrol = Old(c).tcontrol /\ s \in {3, 4} /\ Old(c).job # NoJob
        /\ RecordTrue(s, Old(c)) /\ StepsTrue(view[c].steps)
    BY <1>0, OldType, ReadsOwn DEF Updates
  <1>2. Old(c).state # "NOT_STARTED"
    BY <1>1 DEF RecordTrue
  <1>3. Number(r) = Number(Old(c))
    BY <1>1 DEF Number
  <1> HIDE DEF r
  <1>4. JobTrue(s, r)
    BY <1>1, <1>3 DEF JobTrue, RecordTrue
  <1>5. RecordTrue(s, r)
    BY <1>1, <1>2, <1>4 DEF RecordTrue
  <1>6. CASE s = 3
    <2>1. new[3] = r /\ new[4] = view[c].steps[4] /\ view[c].steps[4].state = "NOT_STARTED"
      BY <1>0, <1>6 DEF Updates, r, ReadTrue, ActiveStep
    <2> QED BY <1>1, <1>5, <1>6, <2>1 DEF StepsTrue
  <1>7. CASE s = 4
    <2>1. new[4] = r /\ new[3] = view[c].steps[3] /\ view[c].steps[4].state # "NOT_STARTED"
      BY <1>0, <1>7 DEF Updates, r, ReadTrue, ActiveStep
    <2> QED BY <1>1, <1>5, <1>7, <2>1 DEF StepsTrue
  <1> QED BY <1>1, <1>6, <1>7

\* A refresh that records what is so (PersistStep).
LEMMA PersistStepStep ==
  ASSUME Inv, TypeOK', NEW c \in Clients, pc[c] \in {"query", "assess"},
         UNCHANGED <<manifest, view, op, remote, jobs>>,
         NEW state \in {"QUEUED", "RUNNING", "FAILED", "SCHEDULER_COMPLETED", "SUCCEEDED"},
         NEW err \in Errors, NEW sched \in Scheds, PersistStep(c, state, err, sched),
         state \in Final => Ended(Old(c).job),
         state = "SUCCEEDED" => Succeeded(Old(c).job),
         state = "FAILED" => ~Succeeded(Old(c).job)
  PROVE  Inv'
  <1>0. TypeOK /\ state \in States
    BY DEF Inv, States
  <1>1. Quiet
    BY DEF Quiet, remote
  <1>2. Retains(c) \/ \E new \in Contents : WillSave(c, new) /\ Updates(c, new, state)
    BY <1>0, PersistStepType
  <1>3. CASE Retains(c)
    <2>1. pc'[c] = "idle" /\ \A d \in Clients \ {c} : Stays(d)
      BY <1>0, <1>3 DEF TypeOK, Retains, Stays
    <2>2. \A d \in Clients : seen'[d].steps \in Copies /\ cand'[d] \in Copies /\ view'[d].steps \in Copies
      BY <1>0, <1>3, CopiesType DEF TypeOK, Retains
    <2>3. Copies' \subseteq Copies
      BY <1>0, <2>2, CopiesType, CopiesStep
    <2> QED BY <1>1, <2>1, <2>3, AtRest, QuietSame
  <1>4. CASE \E new \in Contents : WillSave(c, new) /\ Updates(c, new, state)
    <2>1. PICK new \in Contents : WillSave(c, new) /\ Updates(c, new, state)
      BY <1>4
    <2>2. StepsTrue(new)
      BY <2>1, UpdateTrue
    <2>3. StepsTrue(new)'
      BY <1>1, <2>2, QuietForward, StepsForward
    <2>4. pc'[c] = "persist" /\ \A d \in Clients \ {c} : Stays(d)
      BY <1>0, <2>1 DEF TypeOK, WillSave, Stays
    <2>5. PICK S : S = {new}
      OBVIOUS
    <2>6. \A d \in Clients : cand'[d] \in Copies \cup S
      BY <1>0, <2>1, <2>5, CopiesType DEF TypeOK, WillSave
    <2>7. \A d \in Clients : seen'[d].steps \in Copies \cup S /\ view'[d].steps \in Copies \cup S
      BY <1>0, <2>1, CopiesType DEF WillSave
    <2>8. manifest'.steps \in Copies \cup S
      BY <1>0, CopiesType
    <2>9. Copies' \subseteq Copies \cup S
      BY <2>6, <2>7, <2>8, CopiesStep
    <2>10. \A steps \in S : StepsTrue(steps)'
      BY <2>3, <2>5
    <2> QED BY <1>1, <2>4, <2>9, <2>10, AtRest, QuietStep
  <1> QED BY <1>2, <1>3, <1>4

\* A refresh that leaves the record as it is (Retain).
LEMMA RetainStep ==
  ASSUME Inv, TypeOK', NEW c \in Clients,
         UNCHANGED <<manifest, view, op, remote, jobs>>, Retain(c)
  PROVE  Inv'
  <1>0. TypeOK
    BY DEF Inv
  <1>1. Quiet /\ pc'[c] = "idle" /\ \A d \in Clients \ {c} : Stays(d)
    BY <1>0 DEF TypeOK, Retain, Goto, Stays, Quiet, remote
  <1>2. \A d \in Clients : seen'[d].steps \in Copies /\ cand'[d] \in Copies /\ view'[d].steps \in Copies
    BY <1>0, CopiesType DEF TypeOK, Retain
  <1>3. Copies' \subseteq Copies
    BY <1>0, <1>2, CopiesType, CopiesStep
  <1> QED BY <1>1, <1>3, AtRest, QuietSame

\* A refresh begins with a record that names a job (BeginRefresh).
LEMMA BeginRefreshStep ==
  ASSUME Inv, TypeOK', NEW c \in Clients, BeginRefresh(c)
  PROVE  Inv'
  <1> DEFINE s == ActiveStep(manifest.steps)
             record == manifest.steps[s]
  <1>0. TypeOK
    BY DEF Inv
  <1>1. Quiet /\ \A d \in Clients \ {c} : Stays(d)
    BY <1>0 DEF TypeOK, BeginRefresh, Goto, Stays, Quiet, remote
  <1>2. \A d \in Clients : seen'[d].steps \in Copies /\ cand'[d] \in Copies /\ view'[d].steps \in Copies
    BY <1>0, CopiesType DEF TypeOK, BeginRefresh
  <1>3. Copies' \subseteq Copies
    BY <1>0, <1>2, CopiesType, CopiesStep DEF BeginRefresh
  <1>4. CASE record.state = "SUCCEEDED" \/ record.job = NoJob
    <2>1. pc'[c] = "idle"
      BY <1>4 DEF BeginRefresh
    <2> QED BY <1>1, <1>3, <2>1, AtRest, QuietSame
  <1>5. CASE ~(record.state = "SUCCEEDED" \/ record.job = NoJob)
    <2>1. /\ view'[c] = manifest /\ op'[c] = [Idle EXCEPT !.step = s] /\ pc'[c] = "query"
      BY <1>0, <1>5 DEF TypeOK, BeginRefresh, Goto
    <2>2. op'[c].step = s
      BY <2>1 DEF Idle
    <2>3. ReadTrue(c)'
      BY <1>5, <2>1, <2>2 DEF ReadTrue
    <2> QED BY <1>1, <1>3, <2>1, <2>3, Reading, QuietSame
  <1> QED BY <1>4, <1>5

\* What the scheduler answers is so (Query).
LEMMA QueryStep ==
  ASSUME Inv, TypeOK', NEW c \in Clients, Query(c)
  PROVE  Inv'
  <1> DEFINE st == jobs[Old(c).job].st
  <1>0. TypeOK /\ ReadTrue(c) /\ pc[c] = "query" /\ Old(c).sched \in Scheds
    BY OldType DEF Inv, ClientsTrue, Query, Records, Scheds
  <1>1. UNCHANGED <<manifest, view, op, remote, jobs>>
    BY DEF Query
  <1>2. CASE Retain(c)
    BY <1>1, <1>2, RetainStep
  <1>3. CASE st \in {"pending", "running"}
             /\ PersistStep(c, IF st = "pending" THEN "QUEUED" ELSE "RUNNING", "none", Old(c).sched)
    <2>1. PICK state \in {"QUEUED", "RUNNING"} : PersistStep(c, state, "none", Old(c).sched)
      BY <1>3
    <2>2. state \notin Final /\ "none" \in Errors
      BY DEF Final, Errors
    <2> QED BY <1>0, <1>1, <2>1, <2>2, PersistStepStep DEF Final
  <1>4. CASE st = "completed" /\ Goto(c, "assess") /\ UNCHANGED <<cand, seen>>
    <2>1. Quiet /\ pc'[c] = "assess" /\ \A d \in Clients \ {c} : Stays(d)
      BY <1>0, <1>1, <1>4 DEF TypeOK, Goto, Stays, Quiet, remote
    <2>2. Copies' \subseteq Copies
      BY <1>1, <1>4 DEF Copies
    <2>3. ReadTrue(c)'
      BY <1>0, <1>1, <1>4, <2>1 DEF ReadTrue, Old
    <2> QED BY <2>1, <2>2, <2>3, Reading, QuietSame
  <1>5. CASE /\ st \in {"resources", "failed", "cancelled"}
             /\ PersistStep(c, "FAILED", FailedError(c, st),
                            IF st = "cancelled" THEN "CANCELLED" ELSE "FAILED")
    <2>1. PICK sched \in Scheds : PersistStep(c, "FAILED", FailedError(c, st), sched)
      BY <1>5 DEF Scheds
    <2>2. Ended(Old(c).job) /\ ~Succeeded(Old(c).job) /\ FailedError(c, st) \in Errors
      BY <1>5, FailedErrorType DEF Ended, Succeeded
    <2> QED BY <1>0, <1>1, <2>1, <2>2, PersistStepStep
  <1> QED BY <1>2, <1>3, <1>4, <1>5 DEF Query, Old

\* What an assessment finds in the attempt's own output is so (Assess).
LEMMA AssessStep ==
  ASSUME Inv, TypeOK', NEW c \in Clients, Assess(c)
  PROVE  Inv'
  <1> DEFINE j == Old(c).job
  <1>0. /\ TypeOK /\ ReadTrue(c) /\ pc[c] = "assess" /\ "COMPLETED" \in Scheds
        /\ {"none", "other", "overlap", "format"} \subseteq Errors
    BY DEF Inv, ClientsTrue, Assess, Scheds, Errors
  <1>1. UNCHANGED <<manifest, view, op, remote, jobs>>
    BY DEF Assess
  <1>2. /\ j \in Jobs /\ jobs[j].st = "completed" /\ jobs[j].step = op[c].step
        /\ (Succeeded(j) <=> Output(c) = "done")
    BY <1>0, ReadsOwn DEF ReadTrue, Old, Of, Succeeded
  <1>3. Ended(j)
    BY <1>2 DEF Ended
  <1>4. CASE op[c].step = 3 /\ Output(c) = "done"
    <2>1. matrices = j /\ j # NoJob
      BY <1>0, <1>2, <1>4, ReadsOwn DEF Inv, Results
    <2>2. PersistStep(c, "SUCCEEDED", "none", "COMPLETED")
      BY <1>4, <2>1 DEF Assess
    <2> QED BY <1>0, <1>1, <1>2, <1>3, <1>4, <2>2, PersistStepStep
  <1>5. CASE op[c].step = 3 /\ Output(c) # "done"
    <2>1. PersistStep(c, "FAILED", "other", "COMPLETED")
      BY <1>5 DEF Assess
    <2> QED BY <1>0, <1>1, <1>2, <1>3, <1>5, <2>1, PersistStepStep
  <1>6. CASE op[c].step = 4 /\ Output(c) \in {"overlap", "format"}
    <2>1. PersistStep(c, "FAILED", Output(c), "COMPLETED") /\ Output(c) \in Errors
      BY <1>0, <1>6 DEF Assess
    <2>2. ~Succeeded(j)
      BY <1>2, <1>6
    <2> QED BY <1>0, <1>1, <1>3, <2>1, <2>2, PersistStepStep
  <1>7. CASE op[c].step = 4 /\ Output(c) \notin {"overlap", "format"}
    <2>1. PICK state \in {"SUCCEEDED", "SCHEDULER_COMPLETED"} :
            /\ PersistStep(c, state, "none", "COMPLETED")
            /\ state = "SUCCEEDED" => TransmissionDone(c)
      BY <1>7 DEF Assess
    <2>2. state = "SUCCEEDED" => Succeeded(j)
      BY <1>2, <2>1 DEF TransmissionDone
    <2> QED BY <1>0, <1>1, <1>3, <2>1, <2>2, PersistStepStep
  <1> QED BY <1>0, <1>4, <1>5, <1>6, <1>7, OldType

\* The record a cancellation loads names a job (BeginOomCancel, BeginAbort).
LEMMA ActiveNamesJob ==
  ASSUME Inv, NEW s \in {3, 4}, manifest.steps[s].state \in {"QUEUED", "RUNNING"}
  PROVE  manifest.steps[s].job # NoJob
  <1>1. TypeOK
    BY DEF Inv
  <1>2. RecordTrue(s, manifest.steps[s])
    BY <1>1, CopiesType, CopyTrue DEF StepsTrue
  <1> QED BY <1>2 DEF RecordTrue

\* A cancellation begins with a record that names a job.
LEMMA BeginCancelStep ==
  ASSUME Inv, TypeOK', NEW c \in Clients, BeginOomCancel(c) \/ BeginAbort(c)
  PROVE  Inv'
  <1>0. TypeOK
    BY DEF Inv
  <1>1. Quiet /\ (\A d \in Clients \ {c} : Stays(d)) /\ view' = [view EXCEPT ![c] = manifest]
    BY <1>0 DEF TypeOK, BeginOomCancel, BeginAbort, Goto, Stays, Quiet, remote
  <1>2. \A d \in Clients : seen'[d].steps \in Copies /\ cand'[d] \in Copies /\ view'[d].steps \in Copies
    BY <1>0, <1>1, CopiesType DEF TypeOK, BeginOomCancel, BeginAbort
  <1>3. Copies' \subseteq Copies
    BY <1>0, <1>2, CopiesType, CopiesStep DEF BeginOomCancel, BeginAbort
  <1>4. CASE BeginOomCancel(c)
    <2>1. pc'[c] = "evidence" /\ op'[c] = [Idle EXCEPT !.kind = "oom"] /\ view'[c] = manifest
      BY <1>0, <1>4 DEF TypeOK, BeginOomCancel, Goto
    <2>2. op'[c].kind = "oom" /\ op'[c].step = 3
      BY <2>1 DEF Idle
    <2>3. manifest.steps[3].job # NoJob
      BY <1>4, ActiveNamesJob DEF BeginOomCancel
    <2>4. ReadTrue(c)'
      BY <2>1, <2>2, <2>3 DEF ReadTrue
    <2> QED BY <1>1, <1>3, <2>1, <2>4, Reading, QuietSame
  <1>5. CASE BeginAbort(c)
    <2>1. PICK s \in {3, 4} :
            /\ pc'[c] = "kill" /\ op'[c] = [Idle EXCEPT !.kind = "abort", !.step = s]
            /\ view'[c] = manifest /\ manifest.steps[s].state \in {"QUEUED", "RUNNING"}
      BY <1>0, <1>5, ActiveStepType DEF TypeOK, BeginAbort, Goto
    <2>2. op'[c].kind = "abort" /\ op'[c].step = s
      BY <2>1 DEF Idle
    <2>3. manifest.steps[s].job # NoJob
      BY <2>1, ActiveNamesJob
    <2>4. ReadTrue(c)'
      BY <2>1, <2>2, <2>3 DEF ReadTrue
    <2> QED BY <1>1, <1>3, <2>1, <2>4, Reading, QuietSame
  <1> QED BY <1>4, <1>5

\* The signature in the attempt's own output is the job's (OomEvidence).
LEMMA OomEvidenceStep ==
  ASSUME Inv, TypeOK', NEW c \in Clients, OomEvidence(c)
  PROVE  Inv'
  <1>0. TypeOK /\ ReadTrue(c) /\ pc[c] = "evidence" /\ UNCHANGED <<view, op, jobs>>
    BY DEF Inv, ClientsTrue, OomEvidence
  <1>1. Quiet /\ \A d \in Clients \ {c} : Stays(d)
    BY <1>0 DEF TypeOK, OomEvidence, Goto, Stays, Quiet, remote
  <1>2. Copies' \subseteq Copies
    BY DEF OomEvidence, Copies
  <1>3. CASE Output(c) = "oom"
    <2>1. pc'[c] = "kill"
      BY <1>0, <1>3 DEF TypeOK, OomEvidence, Goto
    <2>2. jobs[Old(c).job].oom
      <3>1. /\ Of(Old(c).job, jobs[Old(c).job].step, jobs[Old(c).job].n)
            /\ logs[jobs[Old(c).job].step][jobs[Old(c).job].n] = "oom" /\ Old(c).job \in Jobs
        BY <1>0, <1>3, ReadsOwn DEF Of
      <3>2. jobs[Old(c).job].step \in {3, 4} /\ jobs[Old(c).job].n \in 1..MaxAttempt
        BY <1>0, ReadsOwn, UsedJob
      <3> QED BY <3>1, <3>2 DEF Inv, LogsOwned
    <2>3. ReadTrue(c)'
      BY <1>0, <2>1, <2>2 DEF ReadTrue, Old
    <2> QED BY <1>1, <1>2, <2>1, <2>3, Reading, QuietSame
  <1>4. CASE Output(c) # "oom"
    <2>1. pc'[c] = "idle"
      BY <1>0, <1>4 DEF TypeOK, OomEvidence, Goto
    <2> QED BY <1>1, <1>2, <2>1, AtRest, QuietSame
  <1> QED BY <1>3, <1>4

----------------------------------------------------------------------------
(* The scheduler.                                                          *)

\* Two jobs of one attempt are one job.
LEMMA SameAttempt ==
  ASSUME Inv, NEW j \in Jobs, NEW k \in Jobs, Used(j), jobs[j].step = jobs[k].step,
         jobs[j].n = jobs[k].n
  PROVE  j = k
  BY UsedJob DEF Inv, AttemptDispatchedOnce

\* No job of a step is alive beside one of the step that succeeded.
LEMMA SuccessIsLast ==
  ASSUME Inv, NEW j \in Jobs, NEW k \in Jobs, Alive(j), Succeeded(k)
  PROVE  jobs[j].step # jobs[k].step
  <1> SUFFICES ASSUME jobs[j].step = jobs[k].step PROVE FALSE
    OBVIOUS
  <1>1. /\ Used(j) /\ Used(k) /\ ~Ended(j) /\ j # k
        /\ jobs[j].n \in 1..MaxAttempt /\ jobs[k].n \in 1..MaxAttempt
    BY UsedJob DEF Alive, Succeeded, Used, Ended
  <1>2. CASE jobs[j].n = jobs[k].n
    BY <1>1, <1>2, SameAttempt
  <1>3. CASE jobs[j].n < jobs[k].n
    <2>1. PICK i \in Jobs : Of(i, jobs[k].step, jobs[j].n) /\ Ended(i)
      BY <1>1, <1>3 DEF Inv, Chain
    <2>2. i = j
      BY <1>1, <2>1, SameAttempt DEF Of
    <2> QED BY <1>1, <2>1, <2>2
  <1>4. CASE jobs[k].n < jobs[j].n
    <2>1. PICK i \in Jobs : Of(i, jobs[j].step, jobs[k].n) /\ ~Succeeded(i)
      BY <1>1, <1>4 DEF Inv, Chain
    <2>2. i = k
      BY <1>1, <2>1, SameAttempt DEF Of
    <2> QED BY <2>1, <2>2
  <1> QED BY <1>1, <1>2, <1>3, <1>4

\* At most one job is alive (OneLiveJob).
LEMMA OneAlive ==
  ASSUME Inv
  PROVE  OneLiveJob
  <1> SUFFICES ASSUME NEW j \in Jobs, NEW k \in Jobs, Alive(j), Alive(k) PROVE j = k
    BY DEF OneLiveJob, Alive
  <1>1. /\ Used(j) /\ Used(k) /\ ~Ended(j) /\ ~Ended(k)
        /\ jobs[j].n \in 1..MaxAttempt /\ jobs[k].n \in 1..MaxAttempt
        /\ jobs[j].step \in {3, 4} /\ jobs[k].step \in {3, 4}
    BY UsedJob DEF Alive, Used, Ended
  <1>2. \A x, y \in Jobs :
          Used(x) /\ Used(y) /\ ~Ended(x) /\ jobs[x].step = jobs[y].step
          /\ jobs[x].n \in 1..MaxAttempt => ~(jobs[x].n < jobs[y].n)
    <2> SUFFICES ASSUME NEW x \in Jobs, NEW y \in Jobs, Used(x), Used(y), ~Ended(x),
                        jobs[x].step = jobs[y].step, jobs[x].n \in 1..MaxAttempt,
                        jobs[x].n < jobs[y].n
                 PROVE  FALSE
      OBVIOUS
    <2>1. PICK i \in Jobs : Of(i, jobs[y].step, jobs[x].n) /\ Ended(i)
      BY DEF Inv, Chain
    <2>2. i = x
      BY <2>1, SameAttempt DEF Of
    <2> QED BY <2>1, <2>2
  <1>3. jobs[j].step = jobs[k].step
    <2>1. \A x, y \in Jobs : Alive(x) /\ Used(y) /\ jobs[y].step = 4 => jobs[x].step # 3
      BY SuccessIsLast DEF Inv, Chain
    <2> QED BY <1>1, <2>1
  <1>4. jobs[j].n = jobs[k].n
    BY <1>1, <1>2, <1>3
  <1> QED BY <1>1, <1>3, <1>4, SameAttempt

\* The chain of attempts stays one (Chain) as jobs go on.
LEMMA ChainForward ==
  ASSUME Inv, Forward, NEW j \in Jobs, Used(j)
  PROVE  /\ \A m \in 1..MaxAttempt : m < jobs'[j].n =>
              \E k \in Jobs : /\ jobs'[k].step = jobs'[j].step /\ jobs'[k].n = m
                              /\ Ended(k)' /\ ~Succeeded(k)'
         /\ jobs'[j].step = 4 => \E k \in Jobs : jobs'[k].step = 3 /\ Succeeded(k)'
  <1>1. JobKept(j) /\ jobs'[j].step = jobs[j].step /\ jobs'[j].n = jobs[j].n
    BY DEF Forward, JobKept
  <1>2. \A k \in Jobs : Ended(k) =>
          /\ Used(k) /\ Ended(k)' /\ (Succeeded(k)' <=> Succeeded(k))
          /\ jobs'[k].step = jobs[k].step /\ jobs'[k].n = jobs[k].n
    BY DEF Forward, JobKept, Ended, Used
  <1>3. ASSUME NEW m \in 1..MaxAttempt, m < jobs[j].n
        PROVE  \E k \in Jobs : /\ jobs'[k].step = jobs[j].step /\ jobs'[k].n = m
                               /\ Ended(k)' /\ ~Succeeded(k)'
    <2>1. PICK k \in Jobs : Of(k, jobs[j].step, m) /\ Ended(k) /\ ~Succeeded(k)
      BY <1>3 DEF Inv, Chain
    <2> QED BY <1>2, <2>1 DEF Of
  <1>4. ASSUME jobs[j].step = 4
        PROVE  \E k \in Jobs : jobs'[k].step = 3 /\ Succeeded(k)'
    <2>1. PICK k \in Jobs : jobs[k].step = 3 /\ Succeeded(k)
      BY <1>4 DEF Inv, Chain
    <2>2. Ended(k)
      BY <2>1 DEF Succeeded, Ended
    <2> QED BY <1>2, <2>1, <2>2
  <1> QED BY <1>1, <1>3, <1>4

\* A live job goes on, and nothing else does: it starts with the active tcontrol,
\* writes its own output and results, is killed or ends.
LEMMA JobStep ==
  ASSUME Inv, TypeOK', NEW j \in Jobs, Alive(j), UNCHANGED files,
         \A k \in Jobs \ {j} : jobs'[k] = jobs[k],
         jobs'[j].step = jobs[j].step, jobs'[j].n = jobs[j].n, Used(j)', jobs'[j].st # "pending",
         jobs[j].oom => jobs'[j].oom, jobs'[j].killed = "oom" => jobs'[j].oom,
         \/ jobs'[j].ran = jobs[j].ran
            /\ (jobs'[j].st \in {"running", "completed"} => jobs[j].st = "running")
         \/ jobs[j].st = "pending" /\ (jobs[j].step = 4 => jobs'[j].ran = files[TControl]),
         \A s \in {3, 4}, n \in 1..MaxAttempt :
           s # jobs[j].step \/ n # jobs[j].n => logs'[s][n] = logs[s][n],
         logs'[jobs[j].step][jobs[j].n] = "oom" => jobs'[j].oom,
         Succeeded(j)' => /\ jobs[j].step = 3 => matrices' = j
                          /\ jobs[j].step = 4 => te' = j,
         matrices' # matrices => jobs[j].step = 3, te' # te => jobs[j].step = 4,
         \A d \in Clients : Stays(d) \/ pc'[d] = "idle",
         Copies' \subseteq Copies
  PROVE  Inv'
  <1>0. TypeOK /\ Used(j) /\ ~Ended(j) /\ jobs[j].step \in {3, 4} /\ jobs[j].n \in 1..MaxAttempt
    BY UsedJob DEF Inv, Alive, Used, Ended
  <1>1. \A k \in Jobs \ {j} : Used(k) => (Succeeded(k)' <=> Succeeded(k))
    <2> TAKE k \in Jobs \ {j}
    <2>1. Used(k) => /\ jobs[k].step \in {3, 4} /\ jobs[k].n \in 1..MaxAttempt
                     /\ jobs[k].step # jobs[j].step \/ jobs[k].n # jobs[j].n
      BY UsedJob, SameAttempt
    <2> QED BY <2>1 DEF Succeeded
  <1>2. Forward
    <2>1. \A k \in Jobs \ {j} : Used(k) => JobKept(k)
      BY <1>1 DEF JobKept, Used
    <2>2. JobKept(j)
      BY <1>0 DEF JobKept
    <2> QED BY <2>1, <2>2 DEF Forward, Kept
  <1>3. CopiesTrue'
    <2>1. PICK S : S = {}
      OBVIOUS
    <2>2. Copies' \subseteq Copies \cup S /\ \A steps \in S : StepsTrue(steps)'
      BY <2>1
    <2> QED BY <1>2, <2>2, CopiesForward
  <1>4. \A d \in Clients : SubmitTrue(d)' /\ ReadTrue(d)' /\ StillHolds(d)
    <2> TAKE d \in Clients
    <2>1. CASE pc'[d] = "idle"
      BY <2>1, AtRest
    <2>2. CASE Stays(d)
      <3>1. Holds(d) => \A k \in Jobs : ~Of(k, op[d].step, op[d].n)
        BY DEF Inv, ClientsTrue, SubmitTrue, Held
      <3>2. Holds(d) => \A k \in Jobs : ~Of(k, op[d].step, op[d].n)'
        BY <2>2, <3>1 DEF Of, Stays
      <3> QED BY <1>2, <2>2, <3>2, OthersTrue DEF StillHolds, Stays
    <2> QED BY <2>1, <2>2
  <1>5. ClientsTrue' /\ HoldersApart'
    BY <1>4 DEF ClientsTrue, Inv, HoldersApart, StillHolds
  <1>6. ControlIsText' /\ OomCancelIsOwn'
    BY DEF Inv, ControlIsText, OomCancelIsOwn
  <1>7. JobsPlaced'
    <2>1. \A k \in Jobs \ {j} : (Used(k)' <=> Used(k)) /\ jobs'[k] = jobs[k]
      BY DEF Used
    <2> QED BY <1>0, <2>1 DEF Inv, JobsPlaced
  <1>8. LogsOwned'
    <2>1. \A k \in Jobs, s \in {3, 4}, n \in 1..MaxAttempt : Of(k, s, n)' <=> Of(k, s, n)
      BY DEF Of
    <2>2. ASSUME NEW s \in {3, 4}, NEW n \in 1..MaxAttempt, s # jobs[j].step \/ n # jobs[j].n
          PROVE  /\ logs'[s][n] # NoFile => \E k \in Jobs : Of(k, s, n)'
                 /\ logs'[s][n] = "oom" => \A k \in Jobs : Of(k, s, n)' => jobs'[k].oom
      <3>1. logs'[s][n] = logs[s][n] /\ ~Of(j, s, n)
        BY <2>2 DEF Of
      <3> QED BY <2>1, <3>1 DEF Inv, LogsOwned
    <2>3. Of(j, jobs[j].step, jobs[j].n)'
      BY DEF Of
    <2>4. logs'[jobs[j].step][jobs[j].n] = "oom" =>
            \A k \in Jobs : Of(k, jobs[j].step, jobs[j].n) => jobs'[k].oom
      <3>1. \A k \in Jobs : Of(k, jobs[j].step, jobs[j].n) => k = j
        BY <1>0, SameAttempt DEF Of
      <3> QED BY <3>1
    <2>5. \A s \in {3, 4}, n \in 1..MaxAttempt :
            /\ logs'[s][n] # NoFile => \E k \in Jobs : Of(k, s, n)'
            /\ logs'[s][n] = "oom" => \A k \in Jobs : Of(k, s, n)' => jobs'[k].oom
      <3> TAKE s \in {3, 4}, n \in 1..MaxAttempt
      <3>1. CASE s = jobs[j].step /\ n = jobs[j].n
        <4>1. Of(j, s, n)' /\ (logs'[s][n] = "oom" => \A k \in Jobs : Of(k, s, n)' => jobs'[k].oom)
          BY <2>1, <2>3, <2>4, <3>1 DEF Of
        <4> QED BY <4>1
      <3>2. CASE ~(s = jobs[j].step /\ n = jobs[j].n)
        BY <2>2, <3>2
      <3> QED BY <3>1, <3>2
    <2> QED BY <2>5 DEF LogsOwned
  <1>9. AttemptDispatchedOnce'
    <2>1. \A k \in Jobs : jobs'[k].step = jobs[k].step /\ jobs'[k].n = jobs[k].n
      OBVIOUS
    <2> QED BY <2>1 DEF Inv, AttemptDispatchedOnce
  <1>10. Chain'
    <2>1. \A k \in Jobs : Used(k)' <=> Used(k)
      BY <1>0 DEF Used
    <2> QED BY <1>2, <2>1, ChainForward DEF Chain, Of
  <1>11. Results'
    <2> SUFFICES ASSUME NEW k \in Jobs, Succeeded(k)'
                 PROVE  /\ jobs'[k].step = 3 => matrices' = k
                        /\ jobs'[k].step = 4 => te' = k
      BY DEF Results
    <2>1. CASE k = j
      BY <2>1
    <2>2. CASE k # j
      <3>1. Succeeded(k) /\ jobs'[k] = jobs[k]
        BY <1>1, <2>2 DEF Succeeded, Used
      <3>2. jobs[k].step # jobs[j].step
        BY <3>1, SuccessIsLast
      <3> QED BY <3>1, <3>2 DEF Inv, Results
    <2> QED BY <2>1, <2>2
  <1> QED BY <1>3, <1>5, <1>6, <1>7, <1>8, <1>9, <1>10, <1>11 DEF Inv

\* A cancelled job has not succeeded (Kill).
LEMMA KillStep ==
  ASSUME Inv, TypeOK', NEW c \in Clients, Kill(c)
  PROVE  Inv'
  <1>a. PICK j : j = Old(c).job
    OBVIOUS
  <1>0. /\ TypeOK /\ ReadTrue(c) /\ pc[c] = "kill" /\ j \in Jobs /\ pc'[c] = "idle"
        /\ \A d \in Clients \ {c} : Stays(d)
    BY <1>a, ReadsOwn DEF Inv, ClientsTrue, Kill, Goto, TypeOK, Stays
  <1>1. Copies' \subseteq Copies
    BY DEF Kill, Copies
  <1>2. CASE UNCHANGED jobs
    <2>1. Quiet
      BY <1>2 DEF Kill, remote, Quiet
    <2> QED BY <1>0, <1>1, <2>1, AtRest, QuietSame
  <1>3. CASE /\ jobs[j].st \in {"pending", "running"}
             /\ jobs' = [jobs EXCEPT ![j].st = "cancelled", ![j].killed = op[c].kind]
    <2>1. /\ Alive(j) /\ UNCHANGED <<files, logs, matrices, te>>
          /\ \A k \in Jobs \ {j} : jobs'[k] = jobs[k]
      BY <1>0, <1>3 DEF Alive, Kill, remote, TypeOK
    <2>2. PICK r, new : r = jobs[j] /\ new = [r EXCEPT !.st = "cancelled", !.killed = op[c].kind]
      OBVIOUS
    <2>3. r \in JobRecord
      BY <1>0, <2>2 DEF TypeOK
    <2>4. /\ new.step = r.step /\ new.n = r.n /\ new.st = "cancelled" /\ new.oom = r.oom
          /\ new.ran = r.ran /\ new.killed = op[c].kind
      BY <2>2, <2>3 DEF JobRecord
    <2>5. jobs'[j] = new
      BY <1>0, <1>3, <2>2 DEF TypeOK
    <2>6. jobs'[j].killed = "oom" => jobs'[j].oom
      BY <1>0, <1>a, <2>2, <2>4, <2>5 DEF ReadTrue, Old
    <2>7. logs'[jobs[j].step][jobs[j].n] = "oom" => jobs'[j].oom
      <3>1. Used(j) /\ Of(j, jobs[j].step, jobs[j].n)
        BY <1>3 DEF Used, Of
      <3> QED BY <1>0, <2>1, <2>2, <2>4, <2>5, <3>1, UsedJob DEF Inv, LogsOwned
    <2>8. Used(j)' /\ ~Succeeded(j)'
      BY <2>4, <2>5 DEF Used, Succeeded
    <2> QED BY <1>0, <1>1, <2>1, <2>2, <2>4, <2>5, <2>6, <2>7, <2>8, JobStep
  <1> QED BY <1>a, <1>2, <1>3 DEF Kill, Old

\* The client side does not see what the scheduler does.
LEMMA ClientsStay ==
  ASSUME Local' = Local
  PROVE  UNCHANGED files /\ Copies' \subseteq Copies /\ \A d \in Clients : Stays(d)
  BY DEF Local, Copies, Stays

\* A job starts (JobStarts).
LEMMA JobStartsStep ==
  ASSUME Inv, TypeOK', NEW j \in Jobs, JobStarts(j)
  PROVE  Inv'
  <1>1. /\ Alive(j) /\ Used(j) /\ jobs[j].st = "pending" /\ TypeOK
        /\ UNCHANGED <<Local, matrices, te>>
    BY DEF JobStarts, Alive, Used, Inv
  <1>2. jobs[j].step \in {3, 4} /\ jobs[j].n \in 1..MaxAttempt
    BY <1>1, UsedJob
  <1>3. /\ logs'[jobs[j].step][jobs[j].n] = "started"
        /\ \A s \in {3, 4}, n \in 1..MaxAttempt :
             s # jobs[j].step \/ n # jobs[j].n => logs'[s][n] = logs[s][n]
    BY <1>1, <1>2, OutputType DEF JobStarts
  <1>4. /\ jobs'[j].st = "running" /\ jobs'[j].step = jobs[j].step /\ jobs'[j].n = jobs[j].n
        /\ jobs[j].step = 4 => jobs'[j].ran = files[TControl]
        /\ jobs'[j].killed = jobs[j].killed /\ jobs'[j].oom = jobs[j].oom
        /\ \A k \in Jobs \ {j} : jobs'[k] = jobs[k]
    BY JobStartsType
  <1>5. Used(j)' /\ ~Succeeded(j)' /\ (jobs'[j].killed = "oom" => jobs'[j].oom)
    BY <1>4 DEF Used, Succeeded, Inv, OomCancelIsOwn
  <1> QED BY <1>1, <1>3, <1>4, <1>5, ClientsStay, JobStep

\* A job loses a task for want of memory (JobOom).
LEMMA JobOomStep ==
  ASSUME Inv, TypeOK', NEW j \in Jobs, JobOom(j)
  PROVE  Inv'
  <1>1. /\ Alive(j) /\ Used(j) /\ jobs[j].st = "running" /\ TypeOK
        /\ UNCHANGED <<Local, matrices, te>>
    BY DEF JobOom, Alive, Used, Inv
  <1>2. jobs[j].step \in {3, 4} /\ jobs[j].n \in 1..MaxAttempt
    BY <1>1, UsedJob
  <1>3. \A s \in {3, 4}, n \in 1..MaxAttempt :
          s # jobs[j].step \/ n # jobs[j].n => logs'[s][n] = logs[s][n]
    BY <1>1, <1>2, OutputType DEF JobOom
  <1>4. /\ jobs'[j].st = "running" /\ jobs'[j].step = jobs[j].step /\ jobs'[j].n = jobs[j].n
        /\ jobs'[j].ran = jobs[j].ran /\ jobs'[j].oom
        /\ \A k \in Jobs \ {j} : jobs'[k] = jobs[k]
    BY <1>1, JobOomType
  <1>5. Used(j)' /\ ~Succeeded(j)'
    BY <1>4 DEF Used, Succeeded
  <1> QED BY <1>1, <1>3, <1>4, <1>5, ClientsStay, JobStep

\* A job completes, and may succeed (JobCompletes).
LEMMA JobCompletesStep ==
  ASSUME Inv, TypeOK', NEW j \in Jobs, JobCompletes(j)
  PROVE  Inv'
  <1>1. /\ Alive(j) /\ Used(j) /\ jobs[j].st = "running" /\ TypeOK /\ UNCHANGED Local
        /\ Run(j, "completed")
    BY DEF JobCompletes, Alive, Used, Inv
  <1>2. jobs[j].step \in {3, 4} /\ jobs[j].n \in 1..MaxAttempt
    BY <1>1, UsedJob
  <1>3. PICK log \in {"started", "done", "overlap", "format"} :
          /\ logs' = [logs EXCEPT ![jobs[j].step][jobs[j].n] = log]
          /\ matrices' = IF jobs[j].step = 3 THEN j ELSE matrices
          /\ te' = IF jobs[j].step = 4 /\ log = "done" THEN j ELSE te
    BY DEF JobCompletes
  <1>4. /\ logs'[jobs[j].step][jobs[j].n] = log
        /\ \A s \in {3, 4}, n \in 1..MaxAttempt :
             s # jobs[j].step \/ n # jobs[j].n => logs'[s][n] = logs[s][n]
    <2>1. PICK s \in {3, 4}, n \in 1..MaxAttempt : s = jobs[j].step /\ n = jobs[j].n
      BY <1>2
    <2>2. log \in {"started", "oom", "done", "overlap", "format"} /\ TypeOK
      BY <1>1
    <2>3. logs' = [logs EXCEPT ![s][n] = log]
      BY <1>3, <2>1
    <2>4. /\ logs'[s][n] = log
          /\ \A t \in {3, 4}, m \in 1..MaxAttempt : t # s \/ m # n => logs'[t][m] = logs[t][m]
      BY <2>2, <2>3 DEF TypeOK
    <2> QED BY <2>1, <2>4
  <1>5. /\ jobs'[j].st = "completed" /\ jobs'[j].step = jobs[j].step /\ jobs'[j].n = jobs[j].n
        /\ jobs'[j].ran = jobs[j].ran /\ jobs'[j].killed = jobs[j].killed
        /\ jobs'[j].oom = jobs[j].oom /\ \A k \in Jobs \ {j} : jobs'[k] = jobs[k]
    BY <1>1, RunType
  <1>6. Used(j)' /\ (Succeeded(j)' <=> log = "done") /\ (jobs'[j].killed = "oom" => jobs'[j].oom)
    BY <1>4, <1>5 DEF Used, Succeeded, Inv, OomCancelIsOwn
  <1> QED BY <1>1, <1>2, <1>3, <1>4, <1>5, <1>6, ClientsStay, JobStep

\* A job ends otherwise (JobFails).
LEMMA JobFailsStep ==
  ASSUME Inv, TypeOK', NEW j \in Jobs, JobFails(j)
  PROVE  Inv'
  <1>1. Alive(j) /\ Used(j) /\ TypeOK /\ UNCHANGED <<Local, logs>>
    BY DEF JobFails, Alive, Used, Inv
  <1>2. PICK st \in {"resources", "failed", "cancelled"} : Run(j, st)
    BY DEF JobFails
  <1>3. /\ jobs'[j].st = st /\ jobs'[j].step = jobs[j].step /\ jobs'[j].n = jobs[j].n
        /\ jobs'[j].ran = jobs[j].ran /\ jobs'[j].killed = jobs[j].killed
        /\ jobs'[j].oom = jobs[j].oom /\ \A k \in Jobs \ {j} : jobs'[k] = jobs[k]
    BY <1>1, <1>2, RunType
  <1>4. Used(j)' /\ ~Succeeded(j)' /\ (jobs'[j].killed = "oom" => jobs'[j].oom)
    BY <1>3 DEF Used, Succeeded, Inv, OomCancelIsOwn
  <1>5. logs[jobs[j].step][jobs[j].n] = "oom" => jobs[j].oom
    BY <1>1, UsedJob DEF Inv, LogsOwned, Of
  <1>6. (matrices' # matrices => jobs[j].step = 3) /\ (te' # te => jobs[j].step = 4)
    BY DEF JobFails
  <1> QED BY <1>1, <1>3, <1>4, <1>5, <1>6, ClientsStay, JobStep

----------------------------------------------------------------------------
(* Uploads.                                                                *)

\* The next call of an operation: its script, tcontrol and script of a first Step 4,
\* the archive of the attempt it replaces, the self-energy, or tcontrol in its place.
ScriptNext(c) ==
    /\ op[c].kind # "submit4" /\ Len(op[c].todo) = 1
    /\ Batch(c) = <<Write(Script(op[c].step, op[c].n), Present)>>
    /\ Holds(c) <=> op[c].kind # "retry3"
FirstNext(c) ==
    /\ op[c].kind = "submit4" /\ Len(op[c].todo) = 1 /\ ~Holds(c)
    /\ Batch(c) = <<Write(TControl, op[c].text), Write(Script(4, 1), Present)>>
ArchiveNext(c) ==
    /\ op[c].kind \in {"settings4", "energy4"} /\ Len(op[c].todo) > 2 /\ ~Holds(c)
    /\ Batch(c) = <<Write(Archive(op[c].n - 1), Old(c).tcontrol)>>
EnergyNext(c) ==
    /\ op[c].kind = "energy4" /\ Len(op[c].todo) = 3 /\ Holds(c)
    /\ Batch(c) = <<Write(Energy(op[c].n), Present)>>
ControlNext(c) ==
    /\ op[c].kind \in {"settings4", "energy4"} /\ Len(op[c].todo) = 2 /\ Holds(c)
    /\ Batch(c) = <<Write(TControl, op[c].text)>>

\* The call at the place where l are left, of one call.
LEMMA NextOfOne ==
  ASSUME NEW u, NEW l, NEW x, l \in 1..Len(u), x = u[1 + Len(u) - l], NEW p, u = <<p>>
  PROVE  Len(u) = 1 /\ l = 1 /\ x = p
  <1>1. Len(u) = 1 /\ u[1] = p
    OBVIOUS
  <1> QED BY <1>1

\* Three calls.
LEMMA NextOfThree ==
  ASSUME NEW u, NEW l, NEW x, l \in 1..Len(u), x = u[1 + Len(u) - l],
         NEW p, NEW q, NEW r, u = <<p, q, r>>
  PROVE  Len(u) = 3 /\ ((l = 3 /\ x = p) \/ (l = 2 /\ x = q) \/ (l = 1 /\ x = r))
  <1>1. Len(u) = 3 /\ u[1] = p /\ u[2] = q /\ u[3] = r
    OBVIOUS
  <1>2. (l = 3 /\ x = u[1]) \/ (l = 2 /\ x = u[2]) \/ (l = 1 /\ x = u[3])
    <2>1. l = 3 \/ l = 2 \/ l = 1
      BY <1>1
    <2>2. (l = 3 => x = u[1]) /\ (l = 2 => x = u[2]) /\ (l = 1 => x = u[3])
      <3>1. 1 + 3 - 3 = 1 /\ 1 + 3 - 2 = 2 /\ 1 + 3 - 1 = 3
        OBVIOUS
      <3> QED BY <1>1, <3>1, Zenon
    <2> QED BY <2>1, <2>2, Zenon
  <1> QED BY <1>1, <1>2, Zenon

\* Four calls.
LEMMA NextOfFour ==
  ASSUME NEW u, NEW l, NEW x, l \in 1..Len(u), x = u[1 + Len(u) - l],
         NEW p, NEW q, NEW r, NEW s, u = <<p, q, r, s>>
  PROVE  Len(u) = 4 /\ ((l = 4 /\ x = p) \/ (l = 3 /\ x = q) \/ (l = 2 /\ x = r)
                          \/ (l = 1 /\ x = s))
  <1>1. Len(u) = 4 /\ u[1] = p /\ u[2] = q /\ u[3] = r /\ u[4] = s
    OBVIOUS
  <1>2. \/ (l = 4 /\ x = u[1]) \/ (l = 3 /\ x = u[2])
        \/ (l = 2 /\ x = u[3]) \/ (l = 1 /\ x = u[4])
    <2>1. l = 4 \/ l = 3 \/ l = 2 \/ l = 1
      BY <1>1
    <2>2. /\ (l = 4 => x = u[1]) /\ (l = 3 => x = u[2])
          /\ (l = 2 => x = u[3]) /\ (l = 1 => x = u[4])
      <3>1. 1 + 4 - 4 = 1 /\ 1 + 4 - 3 = 2 /\ 1 + 4 - 2 = 3 /\ 1 + 4 - 1 = 4
        OBVIOUS
      <3> QED BY <1>1, <3>1, Zenon
    <2> QED BY <2>1, <2>2, Zenon
  <1> QED BY <1>1, <1>2, Zenon

\* An uploading client's next call is one of these (Uploads).
LEMMA BatchShape ==
  ASSUME Inv, NEW c \in Clients, Uploading(c)
  PROVE  ScriptNext(c) \/ FirstNext(c) \/ ArchiveNext(c) \/ EnergyNext(c) \/ ControlNext(c)
  <1>1. /\ TypeOK /\ SubmitTrue(c) /\ Working(c) /\ pc[c] # "dispatch" /\ op[c].todo # <<>>
        /\ op[c].todo \in Seq(Seq(Writes))
    BY UploadsLeft, BatchType DEF Inv, ClientsTrue, Working, Uploading
  <1>2. PICK u, l, old : u = All(c) /\ l = Len(op[c].todo) /\ old = Old(c).tcontrol
    OBVIOUS
  <1>3. /\ op[c].kind \in Kinds /\ op[c].step = StepOf(op[c].kind)
        /\ Remains(c)
    BY <1>1 DEF SubmitTrue, Planned
  <1>4. l \in 1..Len(u) /\ l \in Nat /\ \A i \in 1..l : op[c].todo[i] = u[i + Len(u) - l]
    <2>1. l \in Nat
      BY <1>1, <1>2
    <2>2. l \in 1..Len(u) /\ \A i \in 1..l : op[c].todo[i] = u[i + Len(u) - l]
      BY <1>1, <1>2, <1>3, Zenon DEF Remains
    <2> QED BY <2>1, <2>2
  <1>5. Batch(c) = u[1 + Len(u) - l]
    <2>1. 1 \in 1..l
      BY <1>4
    <2> QED BY <1>1, <1>4, <2>1 DEF Batch
  <1>6. u = Uploads(op[c].kind, op[c].n, op[c].text, old)
    BY <1>2 DEF All
  <1>7. Holds(c) <=> l < Len(u)
    BY <1>1, <1>2 DEF Holds, Working
  <1>8. PICK x, first, third, script, archive, energy, control :
          /\ x = Batch(c)
          /\ first = <<Write(TControl, op[c].text), Write(Script(4, 1), Present)>>
          /\ third = <<Write(Script(3, op[c].n), Present)>>
          /\ script = <<Write(Script(4, op[c].n), Present)>>
          /\ archive = <<Write(Archive(op[c].n - 1), old)>>
          /\ energy = <<Write(Energy(op[c].n), Present)>>
          /\ control = <<Write(TControl, op[c].text)>>
    OBVIOUS
  <1>9. /\ op[c].kind = "retry3" => op[c].step = 3
        /\ op[c].kind # "retry3" => op[c].step = 4
    BY <1>3 DEF StepOf
  <1>10. /\ op[c].kind = "retry3" => u = <<third>>
         /\ op[c].kind = "submit4" => u = <<first>>
         /\ op[c].kind = "settings4" => u = <<archive, control, script>>
         /\ op[c].kind = "energy4" => u = <<archive, energy, control, script>>
    <2>1. op[c].kind = "retry3" => u = <<third>>
      <3>1. op[c].kind = "retry3" => u = << <<Write(Script(3, op[c].n), Present)>> >>
        BY <1>3, <1>6, UploadsShape
      <3> QED BY <1>8, <3>1, Zenon
    <2>2. op[c].kind = "submit4" => u = <<first>>
      <3>1. op[c].kind = "submit4" => u = << <<Write(TControl, op[c].text), Write(Script(4, 1), Present)>> >>
        BY <1>3, <1>6, UploadsShape
      <3> QED BY <1>8, <3>1, Zenon
    <2>3. op[c].kind = "settings4" => u = <<archive, control, script>>
      <3>1. op[c].kind = "settings4" => u = << <<Write(Archive(op[c].n - 1), old)>>,
                 <<Write(TControl, op[c].text)>>, <<Write(Script(4, op[c].n), Present)>> >>
        BY <1>3, <1>6, UploadsShape
      <3> QED BY <1>8, <3>1, Zenon
    <2>4. op[c].kind = "energy4" => u = <<archive, energy, control, script>>
      <3>1. op[c].kind = "energy4" => u = << <<Write(Archive(op[c].n - 1), old)>>,
                 <<Write(Energy(op[c].n), Present)>>, <<Write(TControl, op[c].text)>>,
                 <<Write(Script(4, op[c].n), Present)>> >>
        BY <1>3, <1>6, UploadsShape
      <3> QED BY <1>8, <3>1, Zenon
    <2> QED BY <2>1, <2>2, <2>3, <2>4
  <1>11. CASE op[c].kind = "retry3"
    <2>1. l = 1 /\ x = third /\ Len(u) = 1
      BY <1>4, <1>5, <1>8, <1>10, <1>11, NextOfOne
    <2> QED BY <1>2, <1>7, <1>8, <1>9, <1>11, <2>1 DEF ScriptNext
  <1>12. CASE op[c].kind = "submit4"
    <2>1. l = 1 /\ x = first /\ Len(u) = 1
      BY <1>4, <1>5, <1>8, <1>10, <1>12, NextOfOne
    <2> QED BY <1>2, <1>7, <1>8, <1>12, <2>1 DEF FirstNext
  <1>13. CASE op[c].kind = "settings4"
    <2>1. Len(u) = 3 /\ ((l = 3 /\ x = archive) \/ (l = 2 /\ x = control)
                          \/ (l = 1 /\ x = script))
      <3>1. u = <<archive, control, script>> /\ x = u[1 + Len(u) - l] /\ l \in 1..Len(u)
        BY <1>4, <1>5, <1>8, <1>10, <1>13
      <3> QED BY <3>1, NextOfThree
    <2>2. CASE l = 3 /\ x = archive
      BY <1>2, <1>7, <1>8, <1>13, <2>1, <2>2 DEF ArchiveNext
    <2>3. CASE l = 2 /\ x = control
      BY <1>2, <1>7, <1>8, <1>13, <2>1, <2>3 DEF ControlNext
    <2>4. CASE l = 1 /\ x = script
      BY <1>2, <1>7, <1>8, <1>9, <1>13, <2>1, <2>4 DEF ScriptNext
    <2> QED BY <2>1, <2>2, <2>3, <2>4
  <1>14. CASE op[c].kind = "energy4"
    <2>1. /\ Len(u) = 4
          /\ \/ l = 4 /\ x = archive
             \/ l = 3 /\ x = energy
             \/ l = 2 /\ x = control
             \/ l = 1 /\ x = script
      <3>1. u = <<archive, energy, control, script>> /\ x = u[1 + Len(u) - l] /\ l \in 1..Len(u)
        BY <1>4, <1>5, <1>8, <1>10, <1>14
      <3> QED BY <3>1, NextOfFour
    <2>2. CASE l = 4 /\ x = archive
      BY <1>2, <1>7, <1>8, <1>14, <2>1, <2>2 DEF ArchiveNext
    <2>3. CASE l = 3 /\ x = energy
      BY <1>2, <1>7, <1>8, <1>14, <2>1, <2>3 DEF EnergyNext
    <2>4. CASE l = 2 /\ x = control
      BY <1>2, <1>7, <1>8, <1>14, <2>1, <2>4 DEF ControlNext
    <2>5. CASE l = 1 /\ x = script
      BY <1>2, <1>7, <1>8, <1>9, <1>14, <2>1, <2>5 DEF ScriptNext
    <2> QED BY <2>1, <2>2, <2>3, <2>4, <2>5
  <1> QED BY <1>3, <1>11, <1>12, <1>13, <1>14 DEF Kinds

\* The number and the old tcontrol of a working client's attempt.
LEMMA PlannedNumber ==
  ASSUME Inv, NEW c \in Clients, Working(c)
  PROVE  /\ Planned(c) /\ op[c].n \in 1..MaxAttempt /\ op[c].step \in {3, 4}
         /\ op[c].step = 3 <=> op[c].kind = "retry3"
         /\ op[c].kind = "submit4" => op[c].n = 1
         /\ op[c].kind # "submit4" =>
              op[c].n > 1 /\ op[c].n - 1 \in 1..MaxAttempt /\ op[c].n = Number(Old(c)) + 1
         /\ op[c].step = 4 /\ op[c].kind # "submit4" =>
              Old(c).tcontrol \in Settings /\ files[TControl] # NoFile
  <1>1. TypeOK /\ Planned(c)
    BY DEF Inv, ClientsTrue, SubmitTrue
  <1>2. Old(c) \in Records /\ op[c].n \in 1..MaxAttempt /\ op[c].step \in {3, 4}
    BY <1>1, OldType
  <1>3. op[c].kind # "submit4" => op[c].n = Number(Old(c)) + 1 /\ Number(Old(c)) \in Nat
                                  /\ Number(Old(c)) >= 1
    BY <1>1, <1>2, NumberType DEF Planned, NextNumber, Old
  <1>4. op[c].step = 3 <=> op[c].kind = "retry3"
    BY <1>1 DEF Planned, StepOf, Kinds
  <1>5. op[c].kind = "submit4" => op[c].n = 1
    BY <1>1 DEF Planned, NextNumber
  <1>6. op[c].step = 4 /\ op[c].kind # "submit4" =>
          Old(c).tcontrol \in Settings /\ files[TControl] # NoFile
    BY <1>1, CopiesType, CopyTrue DEF Planned, Old, StepsTrue, RecordTrue
  <1> QED BY <1>1, <1>2, <1>3, <1>4, <1>5, <1>6, MaxAttemptAssumption

\* Every attempt before a planned one has a job, which failed.
LEMMA AttemptsBefore ==
  ASSUME Inv, NEW c \in Clients, Working(c), NEW m \in 1..MaxAttempt, m < op[c].n
  PROVE  \E k \in Jobs : Of(k, op[c].step, m) /\ Used(k) /\ Ended(k) /\ ~Succeeded(k)
  <1>0. TypeOK /\ Planned(c) /\ op[c].step \in {3, 4} /\ op[c].kind # "submit4"
        /\ op[c].n = Number(Old(c)) + 1 /\ Old(c) \in Records
    BY PlannedNumber, OldType, MaxAttemptAssumption DEF Inv
  <1>1. Old(c).job \in Jobs /\ Old(c).state = "FAILED"
    BY <1>0 DEF Planned, Records
  <1>2. RecordTrue(op[c].step, Old(c))
    BY <1>0, CopiesType, CopyTrue DEF StepsTrue, Old
  <1>3. PICK j \in Jobs : j = Old(c).job
    BY <1>1
  <1>4. Of(j, op[c].step, Number(Old(c))) /\ Ended(j) /\ ~Succeeded(j) /\ Used(j)
    BY <1>0, <1>1, <1>2, <1>3, OfUsed DEF RecordTrue, JobTrue, Final, Planned
  <1>5. CASE m = Number(Old(c))
    BY <1>4, <1>5
  <1>6. CASE m # Number(Old(c))
    <2>1. m < jobs[j].n /\ jobs[j].step = op[c].step
      BY <1>0, <1>4, <1>6, NumberType DEF Of
    <2>2. PICK k \in Jobs : Of(k, jobs[j].step, m) /\ Ended(k) /\ ~Succeeded(k)
      BY <1>4, <2>1 DEF Inv, Chain
    <2> QED BY <2>1, <2>2 DEF Ended, Used
  <1> QED BY <1>5, <1>6

\* Only one client holds an attempt of a step.
LEMMA OneHolder ==
  ASSUME Inv, NEW c \in Clients, NEW d \in Clients, Holds(c), Holds(d), op[c].step = op[d].step
  PROVE  c = d
  <1>1. /\ Working(c) /\ Working(d) /\ Held(c) /\ Held(d)
        /\ op[c].n \in 1..MaxAttempt /\ op[d].n \in 1..MaxAttempt
    BY PlannedNumber DEF Inv, ClientsTrue, SubmitTrue, Holds, Working
  <1>2. ~(op[c].n < op[d].n) /\ ~(op[d].n < op[c].n)
    BY <1>1, AttemptsBefore DEF Held
  <1>3. op[c].n = op[d].n
    BY <1>1, <1>2
  <1> QED BY <1>3 DEF Inv, HoldersApart

\* While an attempt is held, no job of its step is alive.
LEMMA HeldAlone ==
  ASSUME Inv, NEW c \in Clients, Holds(c), NEW j \in Jobs, Used(j), jobs[j].step = op[c].step
  PROVE  Ended(j) /\ jobs[j].n < op[c].n /\ ~Succeeded(j)
  <1>1. Working(c) /\ Held(c) /\ op[c].n \in 1..MaxAttempt /\ jobs[j].n \in 1..MaxAttempt
    BY PlannedNumber, UsedJob DEF Inv, ClientsTrue, SubmitTrue, Holds, Working
  <1>2. jobs[j].n # op[c].n
    BY <1>1 DEF Held, Of
  <1>3. ~(op[c].n < jobs[j].n)
    <2> SUFFICES ASSUME op[c].n < jobs[j].n PROVE FALSE
      OBVIOUS
    <2>1. PICK k \in Jobs : Of(k, jobs[j].step, op[c].n)
      BY <1>1 DEF Inv, Chain
    <2> QED BY <1>1, <2>1 DEF Held
  <1>4. jobs[j].n < op[c].n
    BY <1>1, <1>2, <1>3
  <1>5. PICK k \in Jobs : Of(k, op[c].step, jobs[j].n) /\ Ended(k) /\ ~Succeeded(k)
    BY <1>1, <1>4, AttemptsBefore
  <1>6. k = j
    BY <1>5, SameAttempt DEF Of
  <1> QED BY <1>4, <1>5, <1>6

\* The call that writes tcontrol writes the text of its attempt, alone or before
\* the first script; only in the first case does it replace one.
LEMMA ControlWrite ==
  ASSUME Inv, NEW c \in Clients, Uploading(c)
  PROVE  /\ Replaces(c) => ControlNext(c)
         /\ ~Replaces(c) => \A i \in 1..Len(Batch(c)) : Batch(c)[i].file = TControl => FirstNext(c)
         /\ \A i \in 1..Len(Batch(c)) : Batch(c)[i].file = TControl =>
              Batch(c)[i].content = op[c].text /\ op[c].step = 4 /\ op[c].text \in Settings
  <1>1. Working(c) /\ Planned(c) /\ op[c].step \in {3, 4} /\ (op[c].step = 3 <=> op[c].kind = "retry3")
        /\ (op[c].step = 4 => op[c].text \in Settings)
    BY PlannedNumber DEF Working, Planned
  <1>2. PICK b : b = Batch(c)
    OBVIOUS
  <1>3. CASE ScriptNext(c) \/ ArchiveNext(c) \/ EnergyNext(c)
    <2>1. PICK f, x : b = <<Write(f, x)>> /\ f # TControl
      BY <1>2, <1>3, NamesApart DEF ScriptNext, ArchiveNext, EnergyNext
    <2>2. Len(b) = 1 /\ b[1].file # TControl
      BY <2>1 DEF Write
    <2> QED BY <1>2, <2>2 DEF Replaces
  <1>4. CASE FirstNext(c)
    <2>1. b = <<Write(TControl, op[c].text), Write(Script(4, 1), Present)>>
      BY <1>2, <1>4 DEF FirstNext
    <2>2. /\ Len(b) = 2 /\ b[1].content = op[c].text /\ b[2].file # TControl
          /\ op[c].kind = "submit4"
      BY <1>4, <2>1, NamesApart DEF Write, FirstNext
    <2>3. \A i \in 1..Len(b) : i = 1 \/ i = 2
      BY <2>2
    <2> QED BY <1>1, <1>2, <1>4, <2>2, <2>3 DEF Replaces
  <1>5. CASE ControlNext(c)
    <2>1. b = <<Write(TControl, op[c].text)>> /\ op[c].kind \notin {"submit4", "retry3"}
      BY <1>2, <1>5 DEF ControlNext
    <2>2. Len(b) = 1 /\ b[1].content = op[c].text /\ b[1].file = TControl
      BY <2>1 DEF Write
    <2>3. Replaces(c) /\ \A i \in 1..Len(b) : i = 1
      BY <1>2, <2>1, <2>2 DEF Replaces
    <2>4. op[c].step = 4 /\ op[c].text \in Settings
      BY <1>1, <2>1
    <2> QED BY <1>2, <1>5, <2>2, <2>3, <2>4
  <1> QED BY <1>3, <1>4, <1>5, BatchShape

\* While tcontrol is written no job of Step 4 waits to read it, and no other client
\* holds an attempt of Step 4.
LEMMA ControlFree ==
  ASSUME Inv, NEW c \in Clients, Uploading(c), MayUpload(c),
         FirstNext(c) \/ ControlNext(c)
  PROVE  /\ \A j \in Jobs : jobs[j].step = 4 => jobs[j].st # "pending"
         /\ \A d \in Clients \ {c} : Holds(d) => op[d].step # 4
  <1>1. Working(c) /\ Planned(c) /\ (op[c].step = 3 <=> op[c].kind = "retry3")
        /\ op[c].step \in {3, 4}
    BY PlannedNumber DEF Working
  <1>2. op[c].step = 4
    BY <1>1 DEF FirstNext, ControlNext
  <1>3. CASE ControlNext(c)
    <2>1. Holds(c)
      BY <1>3 DEF ControlNext
    <2>2. \A j \in Jobs : jobs[j].step = 4 => jobs[j].st # "pending"
      <3> SUFFICES ASSUME NEW j \in Jobs, jobs[j].step = 4, jobs[j].st = "pending" PROVE FALSE
        OBVIOUS
      <3>1. Used(j) /\ ~Ended(j)
        BY DEF Used, Ended
      <3> QED BY <1>2, <2>1, <3>1, HeldAlone
    <2> QED BY <1>2, <2>1, <2>2, OneHolder
  <1>4. CASE FirstNext(c)
    <2>1. files[TControl] = NoFile
      <3>1. PICK b : b = Batch(c) /\ b = <<Write(TControl, op[c].text), Write(Script(4, 1), Present)>>
        BY <1>4 DEF FirstNext
      <3>2. 1 \in DOMAIN b /\ b[1].file = TControl
        BY <3>1 DEF Write
      <3> QED BY <1>4, <3>1, <3>2 DEF MayUpload, Replaces, FirstNext
    <2>2. \A j \in Jobs : jobs[j].step # 4
      BY <2>1 DEF Inv, JobsPlaced
    <2>3. \A d \in Clients \ {c} : Holds(d) => op[d].step # 4
      <3> SUFFICES ASSUME NEW d \in Clients, Holds(d), op[d].step = 4 PROVE FALSE
        OBVIOUS
      <3>1. Working(d) /\ Held(d)
        BY DEF Inv, ClientsTrue, SubmitTrue, Holds, Working
      <3>2. op[d].kind = "submit4"
        BY <2>1, <3>1, PlannedNumber
      <3>3. pc[d] = "dispatch" \/ FirstNext(d)
        <4>1. Uploading(d) => FirstNext(d)
          BY <3>2, BatchShape DEF ScriptNext, ArchiveNext, EnergyNext, ControlNext
        <4> QED BY <3>1, <4>1 DEF Working
      <3>4. pc[d] = "dispatch" /\ op[d].todo = <<>>
        BY <3>1, <3>3 DEF FirstNext, Inv, ClientsTrue, SubmitTrue, Remains
      <3>5. files[TControl] = op[d].text /\ op[d].text \in Settings
        BY <3>1, <3>4, PlannedNumber DEF Held, Planned
      <3> QED BY <2>1, <3>5, TextsApart
    <2> QED BY <2>2, <2>3
  <1> QED BY <1>3, <1>4

\* What a call may change: a file that does not exist yet, or tcontrol in its place.
LEMMA WrittenKept ==
  ASSUME Inv, NEW c \in Clients, Uploading(c), MayUpload(c), NEW k \in 0..Len(Batch(c)),
         files' = Written(c, k)
  PROVE  /\ Kept /\ ControlIsText'
         /\ files'[TControl] # files[TControl] =>
              /\ \A j \in Jobs : jobs[j].step = 4 => jobs[j].st # "pending"
              /\ \A d \in Clients \ {c} : Holds(d) => op[d].step # 4
  <1>0. TypeOK /\ op[c].todo # <<>>
    BY UploadsLeft DEF Inv
  <1>1. /\ Len(Batch(c)) \in Nat /\ \A i \in 1..Len(Batch(c)) : Batch(c)[i] \in Writes
        /\ \A i \in 1..k : i \in 1..Len(Batch(c)) /\ i \in DOMAIN Batch(c)
    BY <1>0, BatchType
  <1>2. \A f \in FileNames : f # TControl => files[f] = NoFile \/ files'[f] = files[f]
    <2> SUFFICES ASSUME NEW f \in FileNames, f # TControl, files[f] # NoFile
                 PROVE  files'[f] = files[f]
      OBVIOUS
    <2>1. CASE Replaces(c)
      <3>1. PICK b : b = Batch(c) /\ b = <<Write(TControl, op[c].text)>>
        BY <2>1, ControlWrite DEF ControlNext
      <3>2. Len(b) = 1 /\ b[1].file = TControl
        BY <3>1 DEF Write
      <3>3. \A i \in 1..k : Batch(c)[i].file # f
        BY <1>1, <3>1, <3>2
      <3> QED BY <1>0, <3>3, WrittenFile
    <2>2. CASE ~Replaces(c)
      <3>1. \A i \in 1..k : Batch(c)[i].file # f
        BY <1>1, <2>2 DEF MayUpload
      <3> QED BY <1>0, <3>1, WrittenFile
    <2> QED BY <2>1, <2>2
  <1>3. files'[TControl] = files[TControl]
        \/ (files'[TControl] = op[c].text /\ op[c].text \in Settings
            /\ (FirstNext(c) \/ ControlNext(c)))
    <2>1. CASE \A i \in 1..k : Batch(c)[i].file # TControl
      BY <1>0, <2>1, NamesType, WrittenFile
    <2>2. CASE \E i \in 1..k : Batch(c)[i].file = TControl
      <3>1. PICK i \in 1..k : Batch(c)[i].file = TControl /\ files'[TControl] = Batch(c)[i].content
        BY <1>0, <2>2, NamesType, WrittenFile
      <3>2. i \in 1..Len(Batch(c))
        BY <1>1
      <3> QED BY <3>1, <3>2, ControlWrite
    <2> QED BY <2>1, <2>2
  <1>4. Kept
    BY <1>2, <1>3, TextsApart DEF Kept
  <1>5. ControlIsText'
    BY <1>3 DEF Inv, ControlIsText
  <1> QED BY <1>3, <1>4, <1>5, ControlFree

\* An upload that keeps the files of the others keeps the invariant.
LEMMA UploadStep ==
  ASSUME Inv, PutsApart, TypeOK', NEW c \in Clients, pc[c] = "put",
         NEW k \in 0..Len(Batch(c)), files' = Written(c, k),
         UNCHANGED <<manifest, view, cand, seen, logs, matrices, te, jobs>>,
         \A d \in Clients \ {c} : Stays(d),
         SubmitTrue(c)', ReadTrue(c)',
         Holds(c)' => /\ op'[c].step = op[c].step /\ op'[c].n = op[c].n
                      /\ \A d \in Clients \ {c} :
                           Holds(d) /\ op[d].step = op[c].step => op[d].n # op[c].n
  PROVE  Inv'
  <1>1. Uploading(c) /\ MayUpload(c)
    BY DEF Inv, ClientsTrue, SubmitTrue, Uploading
  <1>2. /\ Kept /\ ControlIsText'
        /\ files'[TControl] # files[TControl] =>
             /\ \A j \in Jobs : jobs[j].step = 4 => jobs[j].st # "pending"
             /\ \A d \in Clients \ {c} : Holds(d) => op[d].step # 4
    BY <1>1, WrittenKept
  <1>3. \A j \in Jobs : (Used(j)' <=> Used(j)) /\ (Ended(j)' <=> Ended(j))
                        /\ (Succeeded(j)' <=> Succeeded(j))
    BY DEF Used, Ended, Succeeded
  <1>4. Forward
    BY <1>2, <1>3 DEF Forward, JobKept, Used
  <1>5. CopiesTrue'
    <2>1. PICK S : S = {}
      OBVIOUS
    <2>2. Copies' \subseteq Copies \cup S /\ \A steps \in S : StepsTrue(steps)'
      BY <2>1 DEF Copies
    <2> QED BY <1>4, <2>2, CopiesForward
  <1>6. \A d \in Clients \ {c} : SubmitTrue(d)' /\ ReadTrue(d)' /\ (Holds(d)' <=> Holds(d))
    <2> TAKE d \in Clients \ {c}
    <2>1. Holds(d) => Held(d)
      BY DEF Inv, ClientsTrue, SubmitTrue
    <2>2. Holds(d) => \A j \in Jobs : ~Of(j, op[d].step, op[d].n)'
      BY <2>1 DEF Held, Of, Stays
    <2>3. pc[d] # "put"
      BY DEF PutsApart
    <2>4. Holds(d) /\ op[d].step = 4 => files'[TControl] = files[TControl]
      BY <1>2
    <2> QED BY <1>4, <2>2, <2>3, <2>4, OthersTrue
  <1>7. ClientsTrue'
    BY <1>6 DEF ClientsTrue
  <1>8. HoldersApart'
    BY <1>6 DEF Inv, HoldersApart, Stays
  <1>9. JobsPlaced'
    <2> SUFFICES ASSUME NEW j \in Jobs
                 PROVE  /\ Used(j)' <=> jobs'[j].step # 0
                        /\ Used(j)' => /\ jobs'[j].n \in 1..MaxAttempt
                                       /\ files'[Script(jobs'[j].step, jobs'[j].n)] = Present
                        /\ jobs'[j].step = 4 =>
                             /\ files'[TControl] # NoFile
                             /\ jobs'[j].n > 1 => files'[Archive(jobs'[j].n - 1)] # NoFile
                        /\ jobs'[j].st = "pending" => jobs'[j].ran = NoFile
      BY DEF JobsPlaced
    <2>1. Used(j) => files'[Script(jobs[j].step, jobs[j].n)] = Present
      BY <1>2, UsedJob, NamesType, NamesApart, TextsApart DEF Kept
    <2>2. jobs[j].step = 4 =>
            /\ files'[TControl] # NoFile
            /\ jobs[j].n > 1 => files'[Archive(jobs[j].n - 1)] # NoFile
      <3> SUFFICES ASSUME jobs[j].step = 4
                   PROVE  /\ files'[TControl] # NoFile
                          /\ jobs[j].n > 1 => files'[Archive(jobs[j].n - 1)] # NoFile
        OBVIOUS
      <3>1. Used(j) /\ jobs[j].n \in 1..MaxAttempt
        BY DEF Inv, JobsPlaced
      <3>2. jobs[j].n > 1 => jobs[j].n - 1 \in 1..MaxAttempt
        BY <3>1, MaxAttemptAssumption
      <3> QED BY <1>2, <3>2, NamesType DEF Kept, Inv, JobsPlaced
    <2> QED BY <1>3, <2>1, <2>2 DEF Inv, JobsPlaced
  <1>10. /\ LogsOwned' /\ AttemptDispatchedOnce' /\ Chain' /\ Results' /\ OomCancelIsOwn'
    BY <1>3 DEF Inv, LogsOwned, AttemptDispatchedOnce, Chain, Results, OomCancelIsOwn, Of
  <1> QED BY <1>2, <1>5, <1>7, <1>8, <1>9, <1>10 DEF Inv

\* A call that fails leaves the client without an operation (PutFails).
LEMMA PutFailsStep ==
  ASSUME Inv, PutsApart, TypeOK', NEW c \in Clients, PutFails(c)
  PROVE  Inv'
  <1>1. PICK k \in 0..Len(Batch(c)) : files' = Written(c, k)
    BY DEF PutFails
  <1>2. /\ pc[c] = "put" /\ pc'[c] = "idle" /\ \A d \in Clients \ {c} : Stays(d)
        /\ UNCHANGED <<manifest, view, cand, seen, logs, matrices, te, jobs>>
    BY DEF PutFails, Goto, Inv, TypeOK, Stays
  <1>3. SubmitTrue(c)' /\ ReadTrue(c)' /\ ~Holds(c)'
    BY <1>2, AtRest DEF Holds, Uploading
  <1> QED BY <1>1, <1>2, <1>3, UploadStep

\* The first file of an attempt that may not exist yet: who finds it absent is the
\* only one to work on the attempt, which has no job.
LEMMA AttemptFree ==
  ASSUME Inv, NEW c \in Clients, Uploading(c), MayUpload(c), ~Holds(c)
  PROVE  /\ \A j \in Jobs : ~Of(j, op[c].step, op[c].n)
         /\ \A d \in Clients : Holds(d) /\ op[d].step = op[c].step => op[d].n # op[c].n
         /\ op[c].kind = "submit4" => view[c].steps[4].state = "NOT_STARTED"
  <1>1. /\ Working(c) /\ Planned(c) /\ op[c].step \in {3, 4} /\ op[c].n \in 1..MaxAttempt
        /\ op[c].step = 3 <=> op[c].kind = "retry3"
        /\ op[c].kind = "submit4" => op[c].n = 1
        /\ op[c].kind # "submit4" => op[c].n > 1 /\ op[c].n - 1 \in 1..MaxAttempt
    BY PlannedNumber DEF Working
  <1>2. \A j \in Jobs : Of(j, op[c].step, op[c].n) =>
          /\ Used(j) /\ jobs[j].step = op[c].step /\ jobs[j].n = op[c].n
          /\ files[Script(op[c].step, op[c].n)] = Present
    BY <1>1, OfUsed, UsedJob DEF Of
  <1>3. \A d \in Clients : Holds(d) =>
          /\ Working(d) /\ Planned(d) /\ Held(d)
          /\ pc[d] = "dispatch" => files[Script(op[d].step, op[d].n)] = Present
    BY DEF Inv, ClientsTrue, SubmitTrue, Holds, Working, Held
  <1>4. PICK b : b = Batch(c)
    OBVIOUS
  <1>5. CASE ScriptNext(c)
    <2>1. op[c].kind = "retry3" /\ op[c].step = 3
      BY <1>1, <1>5 DEF ScriptNext
    <2>2. b = <<Write(Script(3, op[c].n), Present)>>
      BY <1>4, <1>5, <2>1 DEF ScriptNext
    <2>3. 1 \in DOMAIN b /\ b[1].file = Script(3, op[c].n)
      BY <2>2 DEF Write
    <2>4. files[Script(3, op[c].n)] = NoFile
      BY <1>4, <2>3, NamesApart DEF MayUpload, Replaces
    <2>5. ASSUME NEW d \in Clients, Holds(d), op[d].step = 3 PROVE op[d].n # op[c].n
      <3>1. op[d].kind = "retry3" /\ Working(d)
        BY <1>3, <2>5, PlannedNumber
      <3>2. pc[d] = "dispatch"
        <4>1. Uploading(d) => ScriptNext(d)
          BY <3>1, BatchShape DEF FirstNext, ArchiveNext, EnergyNext, ControlNext
        <4> QED BY <2>5, <3>1, <4>1 DEF Working, ScriptNext
      <3> QED BY <1>3, <2>4, <2>5, <3>2, TextsApart
    <2> QED BY <1>2, <2>1, <2>4, <2>5, TextsApart
  <1>6. CASE FirstNext(c)
    <2>1. b = <<Write(TControl, op[c].text), Write(Script(4, 1), Present)>> /\ op[c].kind = "submit4"
      BY <1>4, <1>6 DEF FirstNext
    <2>2. op[c].step = 4 /\ op[c].n = 1
      BY <1>1, <2>1
    <2>3. {1, 2} \subseteq DOMAIN b /\ b[1].file = TControl /\ b[2].file = Script(4, 1)
      BY <2>1 DEF Write
    <2>4. files[TControl] = NoFile /\ files[Script(4, 1)] = NoFile
      BY <1>4, <2>1, <2>3 DEF MayUpload, Replaces
    <2>5. view[c].steps[4].state = "NOT_STARTED"
      BY <2>4, CopiesType, CopyTrue DEF StepsTrue, RecordTrue, Inv
    <2>6. \A d \in Clients : Holds(d) /\ op[d].step = 4 => d = c
      BY <1>6, ControlFree
    <2> QED BY <1>2, <2>2, <2>4, <2>5, <2>6, TextsApart
  <1>7. CASE ArchiveNext(c)
    <2>1. /\ b = <<Write(Archive(op[c].n - 1), Old(c).tcontrol)>>
          /\ op[c].kind \notin {"submit4", "retry3"} /\ op[c].step = 4
      BY <1>1, <1>4, <1>7 DEF ArchiveNext
    <2>2. 1 \in DOMAIN b /\ b[1].file = Archive(op[c].n - 1)
      BY <2>1 DEF Write
    <2>3. files[Archive(op[c].n - 1)] = NoFile
      BY <1>4, <2>2, NamesApart DEF MayUpload, Replaces
    <2>4. \A j \in Jobs : ~Of(j, op[c].step, op[c].n)
      BY <1>1, <2>1, <2>3 DEF Of, Inv, JobsPlaced
    <2>5. ASSUME NEW d \in Clients, Holds(d), op[d].step = 4 PROVE op[d].n # op[c].n
      <3> SUFFICES ASSUME op[d].n = op[c].n PROVE FALSE
        OBVIOUS
      <3>1. op[d].kind # "submit4" /\ Old(d).tcontrol \in Settings
        BY <1>1, <1>3, <2>1, <2>5, PlannedNumber
      <3>2. files[Archive(op[d].n - 1)] = Old(d).tcontrol
        BY <1>3, <2>5, <3>1 DEF Held
      <3> QED BY <2>3, <3>1, <3>2, TextsApart
    <2> QED BY <2>1, <2>4, <2>5
  <1>8. ~EnergyNext(c) /\ ~ControlNext(c)
    BY DEF EnergyNext, ControlNext
  <1> QED BY <1>5, <1>6, <1>7, <1>8, BatchShape

\* What a complete call leaves: its files as they are to be (PutFiles).
LEMMA CallWritten ==
  ASSUME Inv, NEW c \in Clients, Uploading(c), MayUpload(c), files' = Written(c, Len(Batch(c)))
  PROVE  /\ ScriptNext(c) => files'[Script(op[c].step, op[c].n)] = Present
                             /\ files'[TControl] = files[TControl]
         /\ FirstNext(c) => files'[Script(4, 1)] = Present /\ files'[TControl] = op[c].text
         /\ ArchiveNext(c) => files'[Archive(op[c].n - 1)] = Old(c).tcontrol
         /\ ControlNext(c) => files'[TControl] = op[c].text
  <1>1. /\ TypeOK /\ op[c].todo # <<>> /\ Len(Batch(c)) \in 0..Len(Batch(c))
        /\ op[c].step \in {3, 4} /\ op[c].n \in 1..MaxAttempt
        /\ op[c].kind # "submit4" => op[c].n - 1 \in 1..MaxAttempt
    BY UploadsLeft, BatchType, PlannedNumber DEF Inv, Working
  <1>2. PICK b, m : b = Batch(c) /\ m = Len(Batch(c))
    OBVIOUS
  <1>3. ASSUME NEW f \in FileNames, NEW i \in 1..m, b[i].file = f,
               \A l \in 1..m : b[l].file = f => l = i
        PROVE  files'[f] = b[i].content
    <2>1. PICK l \in 1..m : b[l].file = f /\ files'[f] = b[l].content
      BY <1>1, <1>2, <1>3, WrittenFile
    <2> QED BY <1>3, <2>1
  <1>4. ASSUME NEW f \in FileNames, NEW x, b = <<Write(f, x)>> PROVE files'[f] = x
    <2>1. m = 1 /\ b[1].file = f /\ b[1].content = x
      BY <1>2, <1>4 DEF Write
    <2>2. 1 \in 1..m /\ \A l \in 1..m : l = 1
      BY <2>1
    <2> QED BY <1>3, <2>1, <2>2
  <1>5. ScriptNext(c) => files'[Script(op[c].step, op[c].n)] = Present
                         /\ files'[TControl] = files[TControl]
    <2> SUFFICES ASSUME ScriptNext(c)
                 PROVE  files'[Script(op[c].step, op[c].n)] = Present
                        /\ files'[TControl] = files[TControl]
      OBVIOUS
    <2>1. b = <<Write(Script(op[c].step, op[c].n), Present)>>
      BY <1>2 DEF ScriptNext
    <2>2. m = 1 /\ b[1].file # TControl
      BY <1>2, <2>1, NamesApart DEF Write
    <2>3. files'[TControl] = files[TControl]
      <3>1. \A i \in 1..m : Batch(c)[i].file # TControl
        BY <1>2, <2>2
      <3> QED BY <1>1, <1>2, <3>1, NamesType, WrittenFile
    <2> QED BY <1>1, <1>4, <2>1, <2>3, NamesType
  <1>6. FirstNext(c) => files'[Script(4, 1)] = Present /\ files'[TControl] = op[c].text
    <2> SUFFICES ASSUME FirstNext(c)
                 PROVE  files'[Script(4, 1)] = Present /\ files'[TControl] = op[c].text
      OBVIOUS
    <2>1. b = <<Write(TControl, op[c].text), Write(Script(4, 1), Present)>>
      BY <1>2 DEF FirstNext
    <2>2. /\ m = 2 /\ b[1].file = TControl /\ b[1].content = op[c].text
          /\ b[2].file = Script(4, 1) /\ b[2].content = Present /\ Script(4, 1) # TControl
      BY <1>2, <2>1, NamesApart DEF Write
    <2>3. 1 \in 1..m /\ 2 \in 1..m /\ \A l \in 1..m : l = 1 \/ l = 2
      BY <2>2
    <2>4. Script(4, 1) \in FileNames /\ TControl \in FileNames
      BY NamesType, MaxAttemptAssumption
    <2>5. files'[TControl] = op[c].text
      BY <1>3, <2>2, <2>3, <2>4
    <2>6. files'[Script(4, 1)] = Present
      BY <1>3, <2>2, <2>3, <2>4
    <2> QED BY <2>5, <2>6
  <1>7. ArchiveNext(c) => files'[Archive(op[c].n - 1)] = Old(c).tcontrol
    BY <1>1, <1>2, <1>4, NamesType DEF ArchiveNext
  <1>8. ControlNext(c) => files'[TControl] = op[c].text
    BY <1>1, <1>2, <1>4, NamesType DEF ControlNext
  <1> QED BY <1>5, <1>6, <1>7, <1>8

\* The rest of a sequence.
LEMMA TailOf ==
  ASSUME NEW S, NEW t \in Seq(S), t # <<>>, NEW l, l = Len(t)
  PROVE  /\ Tail(t) = <<>> <=> l = 1
         /\ Len(Tail(t)) = l - 1
         /\ \A i \in 1..(l - 1) : Tail(t)[i] = t[i + 1]
  <1>1. Tail(t) \in Seq(S) /\ Len(Tail(t)) = l - 1 /\ l \in Nat
    OBVIOUS
  <1>2. \A i \in 1..(l - 1) : Tail(t)[i] = t[i + 1]
    OBVIOUS
  <1>3. Tail(t) = <<>> <=> Len(Tail(t)) = 0
    BY <1>1
  <1> QED BY <1>1, <1>2, <1>3

\* A complete call takes the operation one upload further (PutFiles).
LEMMA PutFilesStep ==
  ASSUME Inv, PutsApart, TypeOK', NEW c \in Clients, PutFiles(c)
  PROVE  Inv'
  <1>0. /\ TypeOK /\ pc[c] = "put" /\ Uploading(c) /\ Working(c) /\ MayUpload(c) /\ SubmitTrue(c)
        /\ files' = Written(c, Len(Batch(c)))
    BY DEF PutFiles, Inv, ClientsTrue, SubmitTrue, Uploading, Working
  <1>1. /\ op[c].todo \in Seq(Seq(Writes)) /\ op[c].todo # <<>>
        /\ Len(Batch(c)) \in 0..Len(Batch(c))
        /\ Planned(c) /\ op[c].step \in {3, 4} /\ op[c].n \in 1..MaxAttempt
        /\ op[c].step = 3 <=> op[c].kind = "retry3"
        /\ op[c].kind # "submit4" => op[c].n > 1 /\ op[c].n - 1 \in 1..MaxAttempt
        /\ op[c].step = 4 /\ op[c].kind # "submit4" => Old(c).tcontrol \in Settings
    BY <1>0, UploadsLeft, BatchType, PlannedNumber
  <1>2. /\ op'[c] = [op[c] EXCEPT !.todo = Tail(op[c].todo)]
        /\ pc'[c] = IF Tail(op[c].todo) = <<>> THEN "dispatch" ELSE "upload"
        /\ \A d \in Clients \ {c} : Stays(d)
        /\ UNCHANGED <<manifest, view, cand, seen, logs, matrices, te, jobs>>
    BY <1>0 DEF PutFiles, Goto, TypeOK, Stays
  <1>3. /\ op'[c].kind = op[c].kind /\ op'[c].step = op[c].step /\ op'[c].n = op[c].n
        /\ op'[c].text = op[c].text /\ op'[c].todo = Tail(op[c].todo)
    BY <1>0, <1>2 DEF TypeOK, Ops
  <1>4. Old(c)' = Old(c) /\ All(c)' = All(c) /\ Planned(c)'
    BY <1>1, <1>2, <1>3 DEF Old, All, Planned
  <1>5. PICK u, t, l : u = All(c) /\ t = op[c].todo /\ l = Len(op[c].todo)
    OBVIOUS
  <1>6. l \in Nat \ {0} /\ l \in 1..Len(u) /\ \A i \in 1..l : t[i] = u[i + Len(u) - l]
    <2>1. l \in Nat \ {0}
      BY <1>1, <1>5
    <2>2. pc[c] # "dispatch" /\ Remains(c)
      BY <1>0 DEF SubmitTrue
    <2>3. l \in 1..Len(u) /\ \A i \in 1..l : t[i] = u[i + Len(u) - l]
      BY <1>5, <2>2, Zenon DEF Remains
    <2> QED BY <2>1, <2>3
  <1>7. /\ Tail(t) = <<>> <=> l = 1
        /\ Len(Tail(t)) = l - 1
        /\ \A i \in 1..(l - 1) : Tail(t)[i] = t[i + 1]
    <2>1. t # <<>> /\ t \in Seq(Seq(Writes)) /\ l = Len(t)
      BY <1>1, <1>5
    <2> QED BY <2>1, TailOf
  <1>8. Remains(c)'
    <2>1. CASE l = 1
      <3>1. Tail(t) = <<>> /\ pc'[c] = "dispatch" /\ op'[c].todo = <<>>
        BY <1>2, <1>3, <1>5, <1>7, <2>1
      <3> QED BY <3>1 DEF Remains
    <2>2. CASE l # 1
      <3>1. PICK w : w = Tail(t)
        OBVIOUS
      <3>2. w # <<>> /\ pc'[c] # "dispatch" /\ op'[c].todo = w /\ Len(w) = l - 1
        BY <1>2, <1>3, <1>5, <1>7, <2>2, <3>1
      <3>3. Len(u) \in Nat
        BY <1>1, <1>5, UploadsSome DEF All, Planned
      <3>4. Len(w) \in 1..Len(u)
        BY <1>6, <2>2, <3>2, <3>3
      <3>5. \A i \in 1..Len(w) : w[i] = u[i + Len(u) - Len(w)]
        <4> TAKE i \in 1..Len(w)
        <4>1. i \in 1..(l - 1) /\ i + 1 \in 1..l /\ w[i] = t[i + 1]
          BY <1>6, <1>7, <3>1, <3>2
        <4>2. t[i + 1] = u[i + 1 + Len(u) - l]
          BY <1>6, <4>1
        <4>3. i + 1 + Len(u) - l = i + Len(u) - Len(w)
          BY <1>6, <3>2, <3>3, <4>1
        <4> QED BY <4>1, <4>2, <4>3
      <3>6. All(c)' = u
        BY <1>4, <1>5
      <3> QED BY <3>2, <3>4, <3>5, <3>6, Zenon DEF Remains
    <2> QED BY <2>1, <2>2
  <1>9. \A j \in Jobs : ~Of(j, op[c].step, op[c].n)
    BY <1>0, AttemptFree DEF SubmitTrue, Held
  <1>10. /\ op[c].kind = "submit4" => view[c].steps[4].state = "NOT_STARTED"
         /\ \A d \in Clients \ {c} : Holds(d) /\ op[d].step = op[c].step => op[d].n # op[c].n
    BY <1>0, AttemptFree, OneHolder DEF SubmitTrue, Held
  <1>11. Kept /\ ControlIsText'
    BY <1>0, <1>1, WrittenKept
  <1>12. /\ ScriptNext(c) => files'[Script(op[c].step, op[c].n)] = Present
                             /\ files'[TControl] = files[TControl]
         /\ FirstNext(c) => files'[Script(4, 1)] = Present /\ files'[TControl] = op[c].text
         /\ ArchiveNext(c) => files'[Archive(op[c].n - 1)] = Old(c).tcontrol
         /\ ControlNext(c) => files'[TControl] = op[c].text
    BY <1>0, CallWritten
  <1>13. op[c].step = 4 /\ op[c].kind # "submit4" => files'[Archive(op[c].n - 1)] = Old(c).tcontrol
    <2> SUFFICES ASSUME op[c].step = 4, op[c].kind # "submit4"
                 PROVE  files'[Archive(op[c].n - 1)] = Old(c).tcontrol
      OBVIOUS
    <2>1. CASE Holds(c)
      <3>1. files[Archive(op[c].n - 1)] = Old(c).tcontrol /\ Old(c).tcontrol # NoFile
        BY <1>0, <1>1, <2>1, TextsApart DEF SubmitTrue, Held
      <3>2. Archive(op[c].n - 1) \in FileNames /\ Archive(op[c].n - 1) # TControl
        BY <1>1, NamesType, NamesApart
      <3> QED BY <1>11, <3>1, <3>2 DEF Kept
    <2>2. CASE ~Holds(c)
      <3>1. ArchiveNext(c)
        BY <1>0, <1>1, <2>2, BatchShape DEF ScriptNext, FirstNext, EnergyNext, ControlNext
      <3> QED BY <1>12, <3>1
    <2> QED BY <2>1, <2>2
  <1>14. op[c].step = 4 /\ l - 1 < 2 => files'[TControl] = op[c].text
    <2> SUFFICES ASSUME op[c].step = 4, l - 1 < 2 PROVE files'[TControl] = op[c].text
      OBVIOUS
    <2>1. ~ArchiveNext(c) /\ ~EnergyNext(c)
      <3>1. Len(op[c].todo) < 3 /\ Len(op[c].todo) \in Nat
        BY <1>5, <1>6
      <3> QED BY <3>1 DEF ArchiveNext, EnergyNext
    <2>2. ScriptNext(c) \/ FirstNext(c) \/ ControlNext(c)
      BY <1>0, <2>1, BatchShape
    <2>3. CASE ScriptNext(c)
      <3>1. Holds(c) /\ Len(op[c].todo) < 2
        BY <1>1, <2>3 DEF ScriptNext
      <3>2. files[TControl] = op[c].text
        BY <1>0, <3>1 DEF SubmitTrue, Held
      <3> QED BY <1>12, <2>3, <3>2
    <2> QED BY <1>12, <2>2, <2>3
  <1>15. l = 1 => files'[Script(op[c].step, op[c].n)] = Present
    <2>1. l = 1 => ScriptNext(c) \/ FirstNext(c)
      <3>1. ASSUME l = 1 PROVE ~ArchiveNext(c) /\ ~EnergyNext(c) /\ ~ControlNext(c)
        <4>1. Len(op[c].todo) = 1
          BY <1>5, <3>1
        <4>2. ~ArchiveNext(c) /\ ~EnergyNext(c)
          BY <4>1 DEF ArchiveNext, EnergyNext
        <4>3. ~ControlNext(c)
          BY <4>1 DEF ControlNext
        <4> QED BY <4>2, <4>3
      <3> QED BY <1>0, <3>1, BatchShape
    <2>2. FirstNext(c) => op[c].step = 4 /\ op[c].n = 1
      BY <1>0, <1>1, PlannedNumber DEF FirstNext
    <2> QED BY <1>12, <2>1, <2>2
  <1>16. Held(c)'
    <2>1. \A j \in Jobs : ~(jobs'[j].step = op'[c].step /\ jobs'[j].n = op'[c].n)
      BY <1>2, <1>3, <1>9 DEF Of
    <2>2. pc'[c] = "dispatch" => l = 1
      BY <1>2, <1>5, <1>7
    <2>3. Len(op'[c].todo) = l - 1
      BY <1>3, <1>5, <1>7
    <2> QED BY <1>2, <1>3, <1>4, <1>10, <1>13, <1>14, <1>15, <2>1, <2>2, <2>3 DEF Held, Of
  <1>17. SubmitTrue(c)' /\ ReadTrue(c)'
    BY <1>2, <1>4, <1>8, <1>16 DEF SubmitTrue, ReadTrue
  <1> QED BY <1>0, <1>1, <1>2, <1>3, <1>10, <1>17, UploadStep

----------------------------------------------------------------------------
(* Dispatch.                                                               *)

\* A client that dispatches holds its attempt.
LEMMA Dispatching ==
  ASSUME Inv, NEW c \in Clients, pc[c] = "dispatch"
  PROVE  /\ TypeOK /\ Working(c) /\ Holds(c) /\ Planned(c) /\ Held(c)
         /\ op[c].step \in {3, 4} /\ op[c].n \in 1..MaxAttempt
         /\ files[Script(op[c].step, op[c].n)] = Present
         /\ op[c].step = 4 => files[TControl] = op[c].text /\ op[c].text \in Settings
         /\ op[c].step = 4 /\ op[c].n > 1 => files[Archive(op[c].n - 1)] # NoFile
         /\ Old(c).job # NoJob \/ op[c].kind = "submit4"
         /\ Old(c) \in Records /\ RecordTrue(op[c].step, Old(c)) /\ StepsTrue(view[c].steps)
  <1>1. TypeOK /\ Working(c) /\ Holds(c) /\ Planned(c) /\ Held(c) /\ Remains(c)
    BY DEF Inv, ClientsTrue, SubmitTrue, Holds, Working
  <1>2. op[c].step \in {3, 4} /\ op[c].n \in 1..MaxAttempt /\ Old(c) \in Records
    BY <1>1, OldType
  <1>3. op[c].todo = <<>> /\ Len(op[c].todo) < 2
    BY <1>1 DEF Remains
  <1>4. op[c].step = 4 => files[TControl] = op[c].text /\ op[c].text \in Settings
    BY <1>1, <1>3 DEF Held, Planned
  <1>5. op[c].step = 4 /\ op[c].n > 1 => files[Archive(op[c].n - 1)] # NoFile
    BY <1>1, PlannedNumber, TextsApart DEF Held
  <1>6. StepsTrue(view[c].steps) /\ RecordTrue(op[c].step, Old(c))
    BY <1>1, <1>2, CopiesType, CopyTrue DEF StepsTrue, Old
  <1> QED BY <1>1, <1>2, <1>4, <1>5, <1>6 DEF Held, Planned

\* The attempt that is archived did what the archive says (History).
LEMMA ArchivedTrue ==
  ASSUME Inv, NEW c \in Clients, pc[c] = "dispatch", op[c].kind # "submit4",
         NEW old \in Attempts, old.job = Old(c).job, old.tcontrol = Old(c).tcontrol
  PROVE  PastTrue(op[c].step, op[c].n - 1, old)
  <1>1. /\ RecordTrue(op[c].step, Old(c)) /\ Old(c).state = "FAILED" /\ Old(c).job # NoJob
        /\ op[c].n = Number(Old(c)) + 1 /\ Number(Old(c)) \in Nat /\ Planned(c) /\ Held(c)
        /\ op[c].step = 4 => Old(c).tcontrol \in Settings
    BY Dispatching, PlannedNumber, NumberType DEF Planned
  <1>2. JobTrue(op[c].step, Old(c))
    BY <1>1 DEF RecordTrue
  <1>3. op[c].n - 1 = Number(Old(c))
    BY <1>1
  <1>4. Of(old.job, op[c].step, op[c].n - 1) /\ Ended(old.job) /\ ~Succeeded(old.job)
    BY <1>1, <1>2, <1>3 DEF JobTrue, Final
  <1>5. op[c].step = 4 => files[Archive(op[c].n - 1)] = old.tcontrol
    BY <1>1 DEF Held
  <1>6. op[c].step = 4 => jobs[old.job].ran \in {NoFile, old.tcontrol}
    BY <1>2 DEF JobTrue, RanWith
  <1> QED BY <1>1, <1>4, <1>5, <1>6 DEF PastTrue

\* The history of the new record is as long as its attempts, and true.
LEMMA HistoryTrue ==
  ASSUME Inv, Forward, NEW c \in Clients, pc[c] = "dispatch",
         NEW s, NEW n, NEW h, s = op[c].step, n = op[c].n, h = History(c, Old(c))
  PROVE  /\ h \in Seq(Attempts) /\ Len(h) = n - 1
         /\ \A i \in 1..Len(h) : PastTrue(s, i, h[i])'
  <1>1. /\ TypeOK /\ Old(c) \in Records /\ RecordTrue(op[c].step, Old(c)) /\ Planned(c) /\ Held(c)
        /\ op[c].step \in {3, 4} /\ op[c].n \in 1..MaxAttempt
        /\ Old(c).job # NoJob \/ op[c].kind = "submit4"
    BY Dispatching
  <1>2. s = op[c].step /\ n = op[c].n
    OBVIOUS
  <1>3. h \in Seq(Attempts)
    BY <1>1, HistoryType DEF Records
  <1>4. CASE op[c].kind = "submit4"
    <2>1. n = 1 /\ Old(c).state = "NOT_STARTED" /\ h = Old(c).past
      BY <1>1, <1>2, <1>4, PlannedNumber, Dispatching DEF Held, Planned, Old, StepOf, History
    <2>2. h = <<>>
      BY <1>1, <2>1 DEF RecordTrue
    <2> QED BY <1>2, <1>3, <2>1, <2>2
  <1>5. CASE op[c].kind # "submit4"
    <2>1. PICK past, new :
            /\ past = Old(c).past
            /\ new = [job |-> Old(c).job, tcontrol |-> Old(c).tcontrol, err |-> Old(c).err]
      OBVIOUS
    <2>2. past \in Seq(Attempts) /\ new \in Attempts
      BY <1>1, <1>5, <2>1 DEF Records, Attempts
    <2>3. h = Append(past, new)
      BY <1>5, <2>1 DEF History
    <2>4. n = Len(past) + 2 /\ n \in 1..MaxAttempt
      BY <1>1, <1>2, <1>5, <2>1, PlannedNumber, Dispatching DEF Number
    <2>5. /\ Len(h) = n - 1 /\ h[n - 1] = new
          /\ \A i \in 1..Len(past) : h[i] = past[i]
          /\ \A i \in 1..Len(h) : i \in 1..MaxAttempt /\ (i = n - 1 \/ i \in 1..Len(past))
      BY <2>2, <2>3, <2>4, MaxAttemptAssumption
    <2>6. new.job = Old(c).job /\ new.tcontrol = Old(c).tcontrol
      BY <2>1
    <2>7. PastTrue(s, n - 1, new)
      BY <1>2, <1>5, <2>2, <2>6, ArchivedTrue
    <2>8. \A i \in 1..Len(past) : PastTrue(s, i, past[i])
      BY <1>1, <1>2, <2>1, <2>2 DEF RecordTrue
    <2>9. \A i \in 1..Len(h) : h[i] \in Attempts /\ PastTrue(s, i, h[i])
      BY <1>3, <2>5, <2>7, <2>8
    <2>10. \A i \in 1..Len(h) : PastTrue(s, i, h[i])'
      BY <1>1, <1>2, <2>5, <2>9, PastForward
    <2> QED BY <1>2, <1>3, <2>5, <2>10
  <1> QED BY <1>4, <1>5

\* What a dispatch will record is true (WillRecord).
LEMMA RecordedTrue ==
  ASSUME Inv, Forward, UNCHANGED files, NEW c \in Clients, pc[c] = "dispatch",
         NEW state \in {"QUEUED", "UNKNOWN", "FAILED"}, NEW job \in Jobs \cup {NoJob},
         NEW err \in Errors, state = "QUEUED" <=> job # NoJob,
         job # NoJob => /\ jobs'[job].step = op[c].step /\ jobs'[job].n = op[c].n
                        /\ jobs'[job].st = "pending" /\ jobs'[job].ran = NoFile,
         NEW new, new = [view[c].steps EXCEPT ![op[c].step] =
              [state |-> state, job |-> job, err |-> err, sched |-> "none",
               tcontrol |-> op[c].text, past |-> History(c, Old(c))]]
  PROVE  StepsTrue(new)'
  <1>1. /\ TypeOK /\ Planned(c) /\ op[c].step \in {3, 4} /\ op[c].n \in 1..MaxAttempt
        /\ op[c].step = 4 => files[TControl] = op[c].text /\ op[c].text \in Settings
        /\ StepsTrue(view[c].steps) /\ view[c].steps \in Contents
    BY Dispatching, OldType
  <1>2. PICK s, n, text, h, r :
          /\ s = op[c].step /\ n = op[c].n /\ text = op[c].text /\ h = History(c, Old(c))
          /\ r = [state |-> state, job |-> job, err |-> err, sched |-> "none",
                  tcontrol |-> text, past |-> h]
    OBVIOUS
  <1>3. /\ r.state = state /\ r.job = job /\ r.tcontrol = text /\ r.past = h
        /\ new[s] = r /\ \A t \in {3, 4} : t # s => new[t] = view[c].steps[t]
    BY <1>1, <1>2 DEF Contents
  <1>4. /\ Len(h) = n - 1 /\ h \in Seq(Attempts)
        /\ \A i \in 1..Len(h) : PastTrue(s, i, h[i])'
    BY <1>2, HistoryTrue
  <1>5. PICK steps \in Contents : steps = view[c].steps /\ StepsTrue(steps)'
    BY <1>1, StepsForward
  <1>6. Number(r) = n
    BY <1>1, <1>2, <1>3, <1>4 DEF Number
  <1>7. job # NoJob => JobTrue(s, r)'
    <2> SUFFICES ASSUME job # NoJob PROVE JobTrue(s, r)'
      OBVIOUS
    <2>1. Of(job, s, Number(r))'
      BY <1>2, <1>6 DEF Of
    <2>2. state = "QUEUED" /\ state \notin Final
      BY DEF Final
    <2>3. s = 4 => RanWith(job, text)'
      BY <1>1, <1>2 DEF RanWith
    <2> QED BY <1>3, <2>1, <2>2, <2>3 DEF JobTrue, Final
  <1>8. RecordTrue(s, r)'
    <2>1. Len(r.past) < MaxAttempt /\ \A i \in DOMAIN r.past : PastTrue(s, i, r.past[i])'
      <3>1. Len(h) < MaxAttempt
        BY <1>1, <1>2, <1>4, MaxAttemptAssumption
      <3>2. \A i \in DOMAIN h : PastTrue(s, i, h[i])'
        BY <1>4
      <3> QED BY <1>3, <3>1, <3>2
    <2>2. s = 4 => r.tcontrol \in Settings /\ files'[TControl] # NoFile
      BY <1>1, <1>2, <1>3, TextsApart
    <2> QED BY <1>3, <1>7, <2>1, <2>2 DEF RecordTrue
  <1>9. CASE s = 3
    <2>1. new[3] = r /\ new[4] = steps[4] /\ new[4].state = "NOT_STARTED"
      BY <1>1, <1>2, <1>3, <1>5, <1>9 DEF Planned
    <2> QED BY <1>5, <1>8, <1>9, <2>1 DEF StepsTrue
  <1>10. CASE s = 4
    <2>1. new[4] = r /\ new[3] = steps[3] /\ new[3].state = "SUCCEEDED"
      BY <1>1, <1>2, <1>3, <1>5, <1>10 DEF Planned
    <2> QED BY <1>5, <1>8, <1>10, <2>1 DEF StepsTrue
  <1> QED BY <1>1, <1>2, <1>9, <1>10

\* The job of a dispatched attempt is new (Accept).
LEMMA AcceptForward ==
  ASSUME Inv, NEW c \in Clients, pc[c] = "dispatch", NEW j \in Jobs,
         Accept(j, op[c].step, op[c].n), UNCHANGED <<files, logs>>
  PROVE  /\ Forward /\ ~Used(j)
         /\ \A k \in Jobs \ {j} : jobs'[k] = jobs[k]
         /\ jobs'[j].step = op[c].step /\ jobs'[j].n = op[c].n /\ jobs'[j].st = "pending"
         /\ jobs'[j].ran = NoFile /\ jobs'[j].killed = "no" /\ ~jobs'[j].oom
         /\ \A k \in Jobs : Used(k) => k # j /\ Used(k)' /\ (Ended(k)' <=> Ended(k))
                                       /\ (Succeeded(k)' <=> Succeeded(k))
  <1>1. TypeOK /\ op[c].step \in {3, 4} /\ op[c].n \in 1..MaxAttempt
    BY Dispatching
  <1>2. /\ \A k \in Jobs \ {j} : jobs'[k] = jobs[k]
        /\ jobs'[j].step = op[c].step /\ jobs'[j].n = op[c].n /\ jobs'[j].st = "pending"
        /\ jobs'[j].ran = NoFile /\ jobs'[j].killed = "no" /\ ~jobs'[j].oom
    BY <1>1, AcceptType
  <1>3. ~Used(j)
    BY DEF Accept, Used
  <1>4. \A k \in Jobs : Used(k) => /\ k # j /\ jobs'[k] = jobs[k] /\ Used(k)'
                                   /\ (Ended(k)' <=> Ended(k))
                                   /\ (Succeeded(k)' <=> Succeeded(k))
    BY <1>2, <1>3 DEF Used, Ended, Succeeded
  <1>5. Forward
    BY <1>4 DEF Forward, Kept, JobKept
  <1> QED BY <1>2, <1>3, <1>4, <1>5

\* A job of the held attempt keeps what is true of the jobs and their outputs.
LEMMA AcceptJobs ==
  ASSUME Inv, NEW c \in Clients, pc[c] = "dispatch", NEW j \in Jobs,
         Accept(j, op[c].step, op[c].n), UNCHANGED remote
  PROVE  ControlIsText' /\ JobsPlaced' /\ LogsOwned' /\ AttemptDispatchedOnce' /\ Chain'
         /\ Results' /\ OomCancelIsOwn'
  <1>0. UNCHANGED <<files, logs, matrices, te>>
    BY DEF remote
  <1>1. /\ Forward /\ ~Used(j)
        /\ \A k \in Jobs \ {j} : jobs'[k] = jobs[k]
        /\ jobs'[j].step = op[c].step /\ jobs'[j].n = op[c].n /\ jobs'[j].st = "pending"
        /\ jobs'[j].ran = NoFile /\ jobs'[j].killed = "no" /\ ~jobs'[j].oom
        /\ \A k \in Jobs : Used(k) => k # j /\ Used(k)' /\ (Ended(k)' <=> Ended(k))
                                      /\ (Succeeded(k)' <=> Succeeded(k))
    BY <1>0, AcceptForward
  <1>2. /\ TypeOK /\ Working(c) /\ Holds(c) /\ Planned(c) /\ Held(c)
        /\ op[c].step \in {3, 4} /\ op[c].n \in 1..MaxAttempt
        /\ files[Script(op[c].step, op[c].n)] = Present
        /\ op[c].step = 4 => files[TControl] = op[c].text /\ op[c].text \in Settings
        /\ op[c].step = 4 /\ op[c].n > 1 => files[Archive(op[c].n - 1)] # NoFile
        /\ StepsTrue(view[c].steps)
    BY Dispatching
  <1>3. \A k \in Jobs : ~Of(k, op[c].step, op[c].n)
    BY <1>2 DEF Held
  <1>4. jobs[j].step = 0 /\ \A k \in Jobs : jobs[k].step # 0 => Used(k)
    BY <1>1 DEF Inv, JobsPlaced
  <1>5. ControlIsText'
    BY <1>0 DEF Inv, ControlIsText
  <1>6. JobsPlaced'
    <2> SUFFICES ASSUME NEW k \in Jobs
                 PROVE  /\ Used(k)' <=> jobs'[k].step # 0
                        /\ Used(k)' => /\ jobs'[k].n \in 1..MaxAttempt
                                       /\ files'[Script(jobs'[k].step, jobs'[k].n)] = Present
                        /\ jobs'[k].step = 4 =>
                             /\ files'[TControl] # NoFile
                             /\ jobs'[k].n > 1 => files'[Archive(jobs'[k].n - 1)] # NoFile
                        /\ jobs'[k].st = "pending" => jobs'[k].ran = NoFile
      BY DEF JobsPlaced
    <2>1. CASE k = j
      <3>1. Used(k)' /\ jobs'[k].step # 0
        BY <1>1, <1>2, <2>1 DEF Used
      <3> QED BY <1>0, <1>1, <1>2, <2>1, <3>1, TextsApart
    <2>2. CASE k # j
      <3>1. jobs'[k] = jobs[k] /\ (Used(k)' <=> Used(k))
        BY <1>1, <2>2 DEF Used
      <3> QED BY <1>0, <3>1 DEF Inv, JobsPlaced
    <2> QED BY <2>1, <2>2
  <1>7. LogsOwned'
    <2> SUFFICES ASSUME NEW s \in {3, 4}, NEW n \in 1..MaxAttempt
                 PROVE  /\ logs'[s][n] # NoFile => \E k \in Jobs : Of(k, s, n)'
                        /\ logs'[s][n] = "oom" => \A k \in Jobs : Of(k, s, n)' => jobs'[k].oom
      BY DEF LogsOwned
    <2>1. \A k \in Jobs : Of(k, s, n) => Used(k) /\ k # j /\ Of(k, s, n)' /\ jobs'[k] = jobs[k]
      BY <1>1, OfUsed DEF Of
    <2>2. "oom" # NoFile
      BY DEF NoFile
    <2>3. logs[s][n] # NoFile => ~(s = op[c].step /\ n = op[c].n)
      BY <1>3 DEF Inv, LogsOwned
    <2>4. \A k \in Jobs : Of(k, s, n)' => k = j \/ (Of(k, s, n) /\ jobs'[k] = jobs[k])
      BY <1>1 DEF Of
    <2>5. logs[s][n] = "oom" => ~Of(j, s, n)'
      BY <1>1, <2>2, <2>3 DEF Of
    <2>6. logs'[s][n] # NoFile => \E k \in Jobs : Of(k, s, n)'
      BY <1>0, <2>1 DEF Inv, LogsOwned
    <2>7. logs'[s][n] = "oom" => \A k \in Jobs : Of(k, s, n)' => jobs'[k].oom
      BY <1>0, <2>4, <2>5 DEF Inv, LogsOwned
    <2> QED BY <2>6, <2>7
  <1>8. AttemptDispatchedOnce'
    <2>1. \A k \in Jobs \ {j} : ~(jobs'[k].step = op[c].step /\ jobs'[k].n = op[c].n)
      BY <1>1, <1>3 DEF Of
    <2> QED BY <1>1, <2>1 DEF Inv, AttemptDispatchedOnce
  <1>9. Chain'
    <2>1. PICK s, n : s = op[c].step /\ n = op[c].n
      OBVIOUS
    <2>2. ASSUME NEW m \in 1..MaxAttempt, m < n
          PROVE  \E k \in Jobs : jobs'[k].step = s /\ jobs'[k].n = m /\ Ended(k)' /\ ~Succeeded(k)'
      <3>1. PICK k \in Jobs : Of(k, s, m) /\ Used(k) /\ Ended(k) /\ ~Succeeded(k)
        BY <1>2, <2>1, <2>2, AttemptsBefore
      <3> QED BY <1>1, <3>1 DEF Of
    <2>3. s = 4 => \E k \in Jobs : jobs'[k].step = 3 /\ Succeeded(k)'
      <3> SUFFICES ASSUME s = 4 PROVE \E k \in Jobs : jobs'[k].step = 3 /\ Succeeded(k)'
        OBVIOUS
      <3>1. PICK r : r = view[c].steps[3]
        OBVIOUS
      <3>2. r.state = "SUCCEEDED" /\ RecordTrue(3, r) /\ r \in Records
        BY <1>2, <2>1, <3>1, OldType DEF Planned, StepsTrue, Contents
      <3>3. r.job \in Jobs /\ JobTrue(3, r)
        BY <3>2 DEF RecordTrue, Records
      <3>4. jobs[r.job].step = 3 /\ Succeeded(r.job)
        BY <3>2, <3>3 DEF JobTrue, Of
      <3>5. Used(r.job)
        BY <3>4 DEF Succeeded, Used
      <3> QED BY <1>1, <3>3, <3>4, <3>5
    <2> SUFFICES ASSUME NEW i \in Jobs, Used(i)'
                 PROVE  /\ \A m \in 1..MaxAttempt : m < jobs'[i].n =>
                             \E k \in Jobs : /\ jobs'[k].step = jobs'[i].step /\ jobs'[k].n = m
                                             /\ Ended(k)' /\ ~Succeeded(k)'
                        /\ jobs'[i].step = 4 => \E k \in Jobs : jobs'[k].step = 3 /\ Succeeded(k)'
      BY DEF Chain, Of
    <2>4. CASE i = j
      BY <1>1, <2>1, <2>2, <2>3, <2>4
    <2>5. CASE i # j
      <3>1. Used(i)
        BY <1>1, <2>5 DEF Used
      <3> QED BY <1>1, <3>1, ChainForward
    <2> QED BY <2>4, <2>5
  <1>10. Results'
    <2>1. \A k \in Jobs : Succeeded(k)' => k # j /\ Used(k) /\ Succeeded(k) /\ jobs'[k] = jobs[k]
      BY <1>1 DEF Succeeded, Used
    <2> QED BY <1>0, <2>1 DEF Inv, Results
  <1>11. OomCancelIsOwn'
    BY <1>1 DEF Inv, OomCancelIsOwn
  <1> QED BY <1>5, <1>6, <1>7, <1>8, <1>9, <1>10, <1>11

\* An accepted dispatch, whatever the client learns and records of it.
LEMMA AcceptStep ==
  ASSUME Inv, TypeOK', NEW c \in Clients, pc[c] = "dispatch", NEW j \in Jobs,
         Accept(j, op[c].step, op[c].n), UNCHANGED remote,
         pc'[c] \in {"idle", "persist"}, \A d \in Clients \ {c} : Stays(d),
         NEW S, Copies' \subseteq Copies \cup S, \A steps \in S : StepsTrue(steps)'
  PROVE  Inv'
  <1>0. UNCHANGED <<files, logs>>
    BY DEF remote
  <1>1. /\ Forward /\ \A k \in Jobs \ {j} : jobs'[k] = jobs[k]
        /\ jobs'[j].step = op[c].step /\ jobs'[j].n = op[c].n
    BY <1>0, AcceptForward
  <1>2. CopiesTrue'
    BY <1>1, CopiesForward
  <1>3. SubmitTrue(c)' /\ ReadTrue(c)' /\ ~Holds(c)'
    BY AtRest DEF Holds, Uploading
  <1>4. \A d \in Clients \ {c} : SubmitTrue(d)' /\ ReadTrue(d)' /\ (Holds(d)' <=> Holds(d))
    <2> TAKE d \in Clients \ {c}
    <2>1. Holds(d) => ~(op[d].step = op[c].step /\ op[d].n = op[c].n)
      BY Dispatching DEF Inv, HoldersApart
    <2>2. Holds(d) => \A k \in Jobs : ~Of(k, op[d].step, op[d].n)
      BY DEF Inv, ClientsTrue, SubmitTrue, Held
    <2>3. Holds(d) => \A k \in Jobs : ~Of(k, op[d].step, op[d].n)'
      BY <1>1, <2>1, <2>2 DEF Of, Stays
    <2> QED BY <1>0, <1>1, <2>3, OthersTrue
  <1>5. ClientsTrue' /\ HoldersApart'
    BY <1>3, <1>4 DEF ClientsTrue, Inv, HoldersApart, Stays
  <1> QED BY <1>2, <1>5, AcceptJobs DEF Inv

\* The copies after a dispatch that is to be recorded.
LEMMA RecordedCopies ==
  ASSUME TypeOK, NEW c \in Clients, NEW new, cand'[c] = new, UNCHANGED <<manifest, view, seen>>,
         \A d \in Clients \ {c} : cand'[d] = cand[d], NEW S, S = {new}
  PROVE  Copies' \subseteq Copies \cup S
  <1>1. \A d \in Clients : cand'[d] \in Copies \cup S
    BY CopiesType
  <1>2. \A d \in Clients : view'[d].steps \in Copies \cup S /\ seen'[d].steps \in Copies \cup S
    BY CopiesType
  <1>3. manifest'.steps \in Copies \cup S
    BY CopiesType
  <1> QED BY <1>1, <1>2, <1>3, CopiesStep

\* A dispatch whose outcome is recorded without a new job: not known, or rejected.
LEMMA RecordedWithoutJob ==
  ASSUME Inv, TypeOK', NEW c \in Clients, pc[c] = "dispatch",
         NEW state \in {"UNKNOWN", "FAILED"}, WillRecord(c, state, NoJob, "submission"),
         UNCHANGED <<manifest, view, seen, op, remote, jobs>>
  PROVE  Inv'
  <1>1. TypeOK /\ (Old(c).job # NoJob \/ op[c].kind = "submit4") /\ Quiet
    BY Dispatching DEF Quiet, remote
  <1>2. state \in States /\ "submission" \in Errors
    BY DEF States, Errors
  <1>3. PICK new : new = [view[c].steps EXCEPT ![op[c].step] =
                           [state |-> state, job |-> NoJob, err |-> "submission", sched |-> "none",
                            tcontrol |-> op[c].text, past |-> History(c, Old(c))]]
    OBVIOUS
  <1>4. /\ cand'[c] = new /\ pc' = [pc EXCEPT ![c] = "persist"]
        /\ \A d \in Clients \ {c} : cand'[d] = cand[d]
    BY <1>1, <1>2, <1>3, WillRecordType
  <1>5. StepsTrue(new)'
    BY <1>1, <1>2, <1>3, QuietForward, RecordedTrue DEF Quiet
  <1>6. PICK S : S = {new}
    OBVIOUS
  <1>7. Copies' \subseteq Copies \cup S
    BY <1>1, <1>4, <1>6, RecordedCopies
  <1>8. pc'[c] = "persist" /\ \A d \in Clients \ {c} : Stays(d)
    BY <1>1, <1>4 DEF TypeOK, Stays
  <1>9. \A steps \in S : StepsTrue(steps)'
    BY <1>5, <1>6
  <1> QED BY <1>1, <1>7, <1>8, <1>9, AtRest, QuietStep

\* A dispatch that is accepted and recorded, with its job or as not known.
LEMMA RecordedWithJob ==
  ASSUME Inv, TypeOK', NEW c \in Clients, pc[c] = "dispatch", NEW j \in Jobs,
         Accept(j, op[c].step, op[c].n), NEW state \in {"QUEUED", "UNKNOWN"},
         NEW job \in {j, NoJob}, state = "QUEUED" <=> job = j,
         NEW err \in {"none", "submission"}, WillRecord(c, state, job, err),
         UNCHANGED <<manifest, view, seen, op, remote>>
  PROVE  Inv'
  <1>1. TypeOK /\ (Old(c).job # NoJob \/ op[c].kind = "submit4") /\ UNCHANGED <<files, logs>>
    BY Dispatching DEF remote
  <1>2. /\ state \in States /\ err \in Errors /\ job \in Jobs \cup {NoJob} /\ j # NoJob
        /\ state \in {"QUEUED", "UNKNOWN", "FAILED"}
    BY JobsAssumption DEF States, Errors
  <1>3. PICK new : new = [view[c].steps EXCEPT ![op[c].step] =
                           [state |-> state, job |-> job, err |-> err, sched |-> "none",
                            tcontrol |-> op[c].text, past |-> History(c, Old(c))]]
    OBVIOUS
  <1>4. /\ cand'[c] = new /\ pc' = [pc EXCEPT ![c] = "persist"]
        /\ \A d \in Clients \ {c} : cand'[d] = cand[d]
    BY <1>1, <1>2, <1>3, WillRecordType
  <1>5. /\ Forward /\ jobs'[j].step = op[c].step /\ jobs'[j].n = op[c].n
        /\ jobs'[j].st = "pending" /\ jobs'[j].ran = NoFile
    BY <1>1, AcceptForward
  <1>6. state = "QUEUED" <=> job # NoJob
    BY <1>2
  <1>7. job # NoJob => /\ jobs'[job].step = op[c].step /\ jobs'[job].n = op[c].n
                       /\ jobs'[job].st = "pending" /\ jobs'[job].ran = NoFile
    BY <1>5
  <1>8. StepsTrue(new)'
    BY <1>1, <1>2, <1>3, <1>5, <1>6, <1>7, RecordedTrue
  <1>9. PICK S : S = {new}
    OBVIOUS
  <1>10. Copies' \subseteq Copies \cup S
    BY <1>1, <1>4, <1>9, RecordedCopies
  <1>11. pc'[c] = "persist" /\ \A d \in Clients \ {c} : Stays(d)
    BY <1>1, <1>4 DEF TypeOK, Stays
  <1>12. \A steps \in S : StepsTrue(steps)'
    BY <1>8, <1>9
  <1> QED BY <1>10, <1>11, <1>12, AcceptStep

\* A dispatch keeps the invariant, whatever becomes of it.
LEMMA DispatchStep ==
  ASSUME Inv, TypeOK', NEW c \in Clients,
         \/ DispatchAccepted(c) \/ DispatchUnknown(c) \/ DispatchRejected(c) \/ DispatchCrash(c)
  PROVE  Inv'
  <1>1. pc[c] = "dispatch" /\ TypeOK
    BY DEF DispatchAccepted, DispatchUnknown, DispatchRejected, DispatchCrash, Inv
  <1>2. CASE DispatchAccepted(c)
    <2>1. PICK j \in Jobs : Accept(j, op[c].step, op[c].n) /\ WillRecord(c, "QUEUED", j, "none")
      BY <1>2 DEF DispatchAccepted
    <2> QED BY <1>1, <1>2, <2>1, RecordedWithJob DEF DispatchAccepted
  <1>3. CASE DispatchUnknown(c)
    <2>1. CASE UNCHANGED jobs
      BY <1>1, <1>3, <2>1, RecordedWithoutJob DEF DispatchUnknown
    <2>2. CASE \E j \in Jobs : Accept(j, op[c].step, op[c].n)
      <3>1. PICK j \in Jobs : Accept(j, op[c].step, op[c].n)
        BY <2>2
      <3>2. j # NoJob
        BY JobsAssumption
      <3> QED BY <1>1, <1>3, <3>1, <3>2, RecordedWithJob DEF DispatchUnknown
    <2> QED BY <1>3, <2>1, <2>2 DEF DispatchUnknown
  <1>4. CASE DispatchRejected(c)
    <2>1. CASE Goto(c, "idle") /\ UNCHANGED cand
      <3>1. Quiet /\ pc'[c] = "idle" /\ \A d \in Clients \ {c} : Stays(d)
        BY <1>1, <1>4, <2>1 DEF DispatchRejected, Goto, TypeOK, Quiet, remote, Stays
      <3>2. Copies' \subseteq Copies
        BY <1>4, <2>1 DEF DispatchRejected, Copies
      <3> QED BY <3>1, <3>2, AtRest, QuietSame
    <2>2. CASE WillRecord(c, "FAILED", NoJob, "submission")
      BY <1>1, <1>4, <2>2, RecordedWithoutJob DEF DispatchRejected
    <2> QED BY <1>4, <2>1, <2>2 DEF DispatchRejected
  <1>5. CASE DispatchCrash(c)
    <2>1. PICK j \in Jobs : Accept(j, op[c].step, op[c].n)
      BY <1>5 DEF DispatchCrash
    <2>2. pc'[c] = "idle" /\ UNCHANGED remote /\ \A d \in Clients \ {c} : Stays(d)
      BY <1>1, <1>5 DEF DispatchCrash, Goto, TypeOK, Stays
    <2>3. PICK S : S = {}
      OBVIOUS
    <2>4. Copies' \subseteq Copies \cup S /\ \A steps \in S : StepsTrue(steps)'
      BY <1>5, <2>3 DEF DispatchCrash, Copies
    <2> QED BY <1>1, <2>1, <2>2, <2>4, AcceptStep
  <1> QED BY <1>2, <1>3, <1>4, <1>5

----------------------------------------------------------------------------
(* The invariant.                                                          *)

\* Step 3 has its first job, and nothing else is there.
LEMMA InvInit == Init => Inv
  <1> SUFFICES ASSUME Init PROVE Inv
    OBVIOUS
  <1>1. PICK r3, r4 : r4 = Fresh /\ r3 = [r4 EXCEPT !.state = "QUEUED", !.job = 1]
    OBVIOUS
  <1>2. /\ r4 \in Records /\ r4.state = "NOT_STARTED" /\ r4.job = NoJob /\ r4.past = <<>>
        /\ r4.tcontrol = NoFile
    BY <1>1 DEF Fresh, Records, States, Errors
  <1>3. /\ r3 \in Records /\ r3.state = "QUEUED" /\ r3.job = 1 /\ r3.past = <<>>
        /\ 1 \in Jobs /\ NoJob # 1
    BY <1>1, <1>2, JobsAssumption DEF Records, States
  <1>4. PICK first : first = Submitted
    OBVIOUS
  <1>5. first \in Manifests /\ first.steps[3] = r3 /\ first.steps[4] = r4
    BY <1>1, <1>2, <1>3, <1>4 DEF Submitted, Manifests, Contents
  <1>6. PICK unused, pending :
          unused = Unused /\ pending = [unused EXCEPT !.step = 3, !.n = 1, !.st = "pending"]
    OBVIOUS
  <1>7. /\ unused \in JobRecord /\ unused.step = 0 /\ unused.st = "none" /\ unused.killed = "no"
    BY <1>6, MaxAttemptAssumption DEF Unused, JobRecord
  <1>8. unused.ran = NoFile /\ unused.n = 0
    BY <1>6 DEF Unused
  <1>9. /\ pending \in JobRecord /\ pending.step = 3 /\ pending.n = 1 /\ pending.st = "pending"
        /\ pending.killed = "no" /\ pending.ran = NoFile
    <2>1. 1 \in 0..MaxAttempt
      BY MaxAttemptAssumption
    <2>2. pending.ran = unused.ran /\ pending.killed = unused.killed
      BY <1>6, <1>7 DEF JobRecord
    <2> QED BY <1>6, <1>7, <1>8, <2>1, <2>2 DEF JobRecord
  <1>10. /\ \A j \in Jobs : jobs[j] = IF j = 1 THEN pending ELSE unused
         /\ jobs = [j \in Jobs |-> IF j = 1 THEN pending ELSE unused]
    BY <1>6 DEF Init
  <1>11. /\ manifest = first /\ \A c \in Clients : view[c] = first /\ seen[c] = first
         /\ \A c \in Clients : cand[c] = first.steps /\ pc[c] = "idle"
    BY <1>4 DEF Init
  <1>12. TypeOK
    <2>1. Idle \in Ops
      <3>1. [Idle EXCEPT !.kind = "none"] \in Ops
        BY IdleType
      <3>2. [Idle EXCEPT !.kind = "none"] = Idle
        BY DEF Idle
      <3> QED BY <3>1, <3>2
    <2>2. jobs \in [Jobs -> JobRecord]
      BY <1>7, <1>9, <1>10
    <2>3. first.steps \in Contents
      BY <1>5 DEF Manifests
    <2>4. files \in [FileNames -> Settings \cup {NoFile, Present}]
      BY DEF Init
    <2>5. /\ view \in [Clients -> Manifests] /\ seen \in [Clients -> Manifests]
          /\ cand \in [Clients -> Contents] /\ op \in [Clients -> Ops]
          /\ manifest \in Manifests
      BY <1>4, <1>5, <2>1, <2>3 DEF Init
    <2>6. logs \in [{3, 4} -> [1..MaxAttempt ->
                     {NoFile, "started", "oom", "done", "overlap", "format"}]]
      BY DEF Init
    <2> QED BY <2>2, <2>4, <2>5, <2>6 DEF TypeOK, Init
  <1>13. /\ files[TControl] = NoFile /\ files[Script(3, 1)] = Present
         /\ \A s \in {3, 4}, n \in 1..MaxAttempt : logs[s][n] = NoFile
    BY NamesType, NamesApart, MaxAttemptAssumption DEF Init
  <1>14. \A j \in Jobs : (Used(j) <=> j = 1) /\ ~Succeeded(j) /\ jobs[j].killed = "no"
    BY <1>7, <1>9, <1>10 DEF Used, Succeeded
  <1>15. jobs[1] = pending
    BY <1>3, <1>10
  <1>16. ControlIsText /\ OomCancelIsOwn /\ Results
    BY <1>13, <1>14 DEF ControlIsText, OomCancelIsOwn, Results
  <1>17. JobsPlaced
    BY <1>7, <1>8, <1>9, <1>10, <1>13, <1>14, MaxAttemptAssumption DEF JobsPlaced
  <1>18. LogsOwned /\ AttemptDispatchedOnce
    <2>1. NoFile # "oom"
      BY DEF NoFile
    <2> QED BY <1>7, <1>10, <1>13, <2>1 DEF LogsOwned, AttemptDispatchedOnce
  <1>19. Chain
    BY <1>9, <1>14, <1>15 DEF Chain
  <1>20. CopiesTrue
    <2>1. RecordTrue(4, r4)
      BY <1>2, MaxAttemptAssumption DEF RecordTrue
    <2>2. JobTrue(3, r3)
      BY <1>3, <1>9, <1>15 DEF JobTrue, Of, Number, Final
    <2>3. RecordTrue(3, r3)
      BY <1>3, <2>2, MaxAttemptAssumption DEF RecordTrue
    <2>4. StepsTrue(first.steps)
      BY <1>2, <1>5, <2>1, <2>3 DEF StepsTrue
    <2>5. \A steps \in Copies : steps = first.steps
      BY <1>11 DEF Copies
    <2> QED BY <2>4, <2>5 DEF CopiesTrue
  <1>21. ClientsTrue /\ HoldersApart
    BY <1>11 DEF ClientsTrue, SubmitTrue, ReadTrue, HoldersApart, Holds, Working, Uploading
  <1> QED BY <1>12, <1>16, <1>17, <1>18, <1>19, <1>20, <1>21 DEF Inv

\* The steps of a client keep the invariant.
LEMMA ClientStep ==
  ASSUME Inv, PutsApart, TypeOK', NEW c \in Clients,
         Submit(c) \/ Refresh(c) \/ Cancel(c) \/ Record(c) \/ Interrupt(c)
  PROVE  Inv'
  <1>1. CASE Submit(c)
    BY <1>1, BeginStep, CheckFilesStep, PutFilesStep, PutFailsStep, DispatchStep DEF Submit
  <1>2. CASE Refresh(c)
    BY <1>2, BeginRefreshStep, QueryStep, AssessStep DEF Refresh
  <1>3. CASE Cancel(c)
    BY <1>3, BeginCancelStep, OomEvidenceStep, KillStep DEF Cancel
  <1> QED BY <1>1, <1>2, <1>3, RecordStep, InterruptStep

\* Nothing happens.
LEMMA StutterStep ==
  ASSUME Inv, UNCHANGED vars
  PROVE  Inv'
  <1>1. TypeOK' /\ Quiet /\ Copies' = Copies /\ \A d \in Clients : Stays(d)
    BY TypeStep DEF vars, Quiet, Copies, Stays
  <1>2. Forward
    BY <1>1, QuietForward
  <1>3. CopiesTrue'
    <2>1. PICK S : S = {}
      OBVIOUS
    <2>2. Copies' \subseteq Copies \cup S /\ \A steps \in S : StepsTrue(steps)'
      BY <1>1, <2>1
    <2> QED BY <1>2, <2>2, CopiesForward
  <1>4. \A d \in Clients : SubmitTrue(d)' /\ ReadTrue(d)' /\ (Holds(d)' <=> Holds(d))
    <2> TAKE d \in Clients
    <2>1. Holds(d) => \A j \in Jobs : ~Of(j, op[d].step, op[d].n)
      BY DEF Inv, ClientsTrue, SubmitTrue, Held
    <2>2. Holds(d) => \A j \in Jobs : ~Of(j, op[d].step, op[d].n)'
      BY <1>1, <2>1 DEF Of, Quiet, Stays
    <2> QED BY <1>1, <1>2, <2>2, OthersTrue DEF Quiet
  <1>5. ClientsTrue' /\ HoldersApart'
    BY <1>1, <1>4 DEF ClientsTrue, Inv, HoldersApart, Stays
  <1>6. /\ ControlIsText' /\ JobsPlaced' /\ LogsOwned' /\ AttemptDispatchedOnce' /\ Chain'
        /\ Results' /\ OomCancelIsOwn'
    BY <1>1 DEF Inv, Quiet, ControlIsText, JobsPlaced, LogsOwned, AttemptDispatchedOnce, Chain,
                Results, OomCancelIsOwn, Used, Of, Succeeded, Ended
  <1> QED BY <1>1, <1>3, <1>5, <1>6 DEF Inv

\* Every step keeps the invariant while uploads do not overlap.
LEMMA InvStep == Inv /\ PutsApart /\ [Next]_vars => Inv'
  <1> SUFFICES ASSUME Inv, PutsApart, [Next]_vars PROVE Inv'
    OBVIOUS
  <1>1. TypeOK'
    BY TypeStep
  <1>2. ASSUME NEW j \in Jobs, Scheduler(j) PROVE Inv'
    BY <1>1, <1>2, JobStartsStep, JobOomStep, JobCompletesStep, JobFailsStep DEF Scheduler
  <1> QED BY <1>1, <1>2, ClientStep, StutterStep DEF Next

\* The inductive invariant holds as long as no two uploads are in progress at once.
THEOREM Invariance == Spec /\ []PutsApart => []Inv
  BY InvInit, InvStep, PTL DEF Spec


----------------------------------------------------------------------------
(* What follows.                                                           *)

\* One user submits and cancels; any number of clients refresh.
OneSubmitter == \A c, d \in Submitters : c = d

Labels == {"idle", "upload", "put", "dispatch", "query", "assess", "evidence", "kill",
           "persist", "rename"}

\* Only those that submit upload.
UploadsSubmitted ==
    pc \in [Clients -> Labels] /\ \A c \in Clients : Uploading(c) => c \in Submitters

\* No step starts an upload for another client.
LEMMA UploadsSubmittedStep == UploadsSubmitted /\ [Next]_vars => UploadsSubmitted'
  <1> SUFFICES ASSUME UploadsSubmitted, [Next]_vars PROVE UploadsSubmitted'
    OBVIOUS
  <1>1. ASSUME NEW c \in Clients, NEW l \in Labels, Goto(c, l),
               l \in {"upload", "put"} => c \in Submitters
        PROVE  UploadsSubmitted'
    BY <1>1 DEF UploadsSubmitted, Goto, Uploading
  <1>2. ASSUME UNCHANGED pc PROVE UploadsSubmitted'
    BY <1>2 DEF UploadsSubmitted, Uploading
  <1>3. ASSUME NEW c \in Clients, Submit(c) PROVE UploadsSubmitted'
    <2>1. CASE \E kind \in Kinds : Begin(c, kind)
      BY <1>1, <2>1 DEF Begin, Labels
    <2>2. CASE CheckFiles(c) \/ PutFiles(c) \/ PutFails(c)
      <3>1. c \in Submitters
        BY <2>2 DEF CheckFiles, PutFiles, PutFails, UploadsSubmitted, Uploading
      <3>2. \E l \in Labels : Goto(c, l)
        BY <2>2 DEF CheckFiles, PutFiles, PutFails, Labels
      <3> QED BY <1>1, <3>1, <3>2
    <2>3. CASE DispatchAccepted(c) \/ DispatchUnknown(c) \/ DispatchRejected(c) \/ DispatchCrash(c)
      <3>1. Goto(c, "persist") \/ Goto(c, "idle")
        BY <2>3 DEF DispatchAccepted, DispatchUnknown, DispatchRejected, DispatchCrash, WillRecord
      <3> QED BY <1>1, <3>1 DEF Labels
    <2> QED BY <1>3, <2>1, <2>2, <2>3 DEF Submit
  <1>4. ASSUME NEW c \in Clients, Refresh(c) PROVE UploadsSubmitted'
    <2>1. \/ UNCHANGED pc
          \/ Goto(c, "idle") \/ Goto(c, "query") \/ Goto(c, "assess") \/ Goto(c, "persist")
      BY <1>4 DEF Refresh, BeginRefresh, Query, Assess, Retain, PersistStep
    <2> QED BY <1>1, <1>2, <2>1 DEF Labels
  <1>5. ASSUME NEW c \in Clients, Cancel(c) PROVE UploadsSubmitted'
    <2>1. Goto(c, "idle") \/ Goto(c, "evidence") \/ Goto(c, "kill")
      BY <1>5 DEF Cancel, BeginOomCancel, OomEvidence, BeginAbort, Kill
    <2> QED BY <1>1, <2>1 DEF Labels
  <1>6. ASSUME NEW c \in Clients, Record(c) \/ Interrupt(c) PROVE UploadsSubmitted'
    <2>1. Goto(c, "idle") \/ Goto(c, "rename")
      BY <1>6 DEF Record, PersistCheck, PersistRename, Store!Check, Store!CheckFails,
                  Store!Rename, Interrupt, Goto
    <2> QED BY <1>1, <2>1 DEF Labels
  <1>7. ASSUME NEW j \in Jobs, Scheduler(j) PROVE UploadsSubmitted'
    <2>1. UNCHANGED pc
      BY <1>7 DEF Scheduler, JobStarts, JobOom, JobCompletes, JobFails, Local
    <2> QED BY <1>2, <2>1
  <1>8. CASE UNCHANGED vars
    BY <1>2, <1>8 DEF vars
  <1> QED BY <1>3, <1>4, <1>5, <1>6, <1>7, <1>8 DEF Next

\* With one submitting client uploads do not overlap, however many others refresh.
THEOREM OneSubmitterUploads ==
  ASSUME OneSubmitter
  PROVE  Spec => []PutsApart
  <1>1. Init => UploadsSubmitted
    BY DEF Init, UploadsSubmitted, Uploading, Labels
  <1>2. UploadsSubmitted => PutsApart
    BY DEF OneSubmitter, UploadsSubmitted, Uploading, PutsApart
  <1> QED BY <1>1, <1>2, UploadsSubmittedStep, PTL DEF Spec

\* So the invariant holds then.
THEOREM SerialInvariance ==
  ASSUME OneSubmitter
  PROVE  Spec => []Inv
  BY OneSubmitterUploads, Invariance, PTL

\* Every variable of the directory and its clients keeps its type.
THEOREM TransportTypes == Spec /\ []PutsApart => []TypeOK
  <1>1. Inv => TypeOK
    BY DEF Inv
  <1> QED BY <1>1, Invariance, PTL

\* An attempt is handed to the scheduler at most once, whatever requests were lost,
\* interrupted or repeated: its number follows from the history, and its first file
\* may not exist yet (Begin, upload_new_files_atomically, DispatchUnknown).
THEOREM DispatchedOnce == Spec /\ []PutsApart => []AttemptDispatchedOnce
  <1>1. Inv => AttemptDispatchedOnce
    BY DEF Inv
  <1> QED BY <1>1, Invariance, PTL

\* No two jobs of the directory are alive at once, though the program holds no lock:
\* a next attempt is made from a record of the one before that says it has failed.
THEOREM OneJobAlive == Spec /\ []PutsApart => []OneLiveJob
  BY OneAlive, Invariance, PTL

\* A job is cancelled for want of memory only when its own output has shown it
\* (BeginOomCancel, OomEvidence, Kill).
THEOREM OomCancelOwn == Spec /\ []PutsApart => []OomCancelIsOwn
  <1>1. Inv => OomCancelIsOwn
    BY DEF Inv
  <1> QED BY <1>1, Invariance, PTL

\* The history in project.json is true, also when a stale save put it back: every
\* archived attempt names its job, which has ended and ran with the archived tcontrol.
THEOREM HistoryIsTrue == Spec /\ []PutsApart => []AttemptsKept
  <1>1. Inv => AttemptsKept
    <2> SUFFICES ASSUME Inv, NEW s \in {3, 4}, NEW record, record = manifest.steps[s]
                 PROVE  /\ record.job # NoJob =>
                             jobs[record.job].step = s /\ jobs[record.job].n = Number(record)
                        /\ \A i \in DOMAIN record.past :
                             LET old == record.past[i] IN
                             /\ jobs[old.job].step = s /\ jobs[old.job].n = i
                             /\ jobs[old.job].st \in {"completed", "resources", "failed", "cancelled"}
                             /\ s = 4 => /\ files[Archive(i)] = old.tcontrol
                                         /\ jobs[old.job].ran \in {NoFile, old.tcontrol}
      BY DEF AttemptsKept
    <2>1. RecordTrue(s, record)
      BY CopiesType, CopyTrue DEF Inv, StepsTrue
    <2> QED BY <2>1 DEF RecordTrue, JobTrue, PastTrue, Of, Ended
  <1> QED BY <1>1, Invariance, PTL

\* A successful Step 4 in project.json shows what its own job computed, with the
\* recorded tcontrol and from the matrices of the Step-3 job the record names
\* (_read_validated_transmission_result).
THEOREM ResultTrue == Spec /\ []PutsApart => []ResultIsOwn
  <1>1. Inv => ResultIsOwn
    <2> SUFFICES ASSUME Inv, manifest.steps[4].state = "SUCCEEDED"
                 PROVE  /\ te = manifest.steps[4].job
                        /\ jobs[manifest.steps[4].job].ran = manifest.steps[4].tcontrol
                        /\ manifest.steps[3].state = "SUCCEEDED"
                        /\ matrices = manifest.steps[3].job
      BY DEF ResultIsOwn
    <2>1. PICK r3, r4 : r3 = manifest.steps[3] /\ r4 = manifest.steps[4]
      OBVIOUS
    <2>2. /\ r3 \in Records /\ r4 \in Records /\ RecordTrue(3, r3) /\ RecordTrue(4, r4)
          /\ r3.state = "SUCCEEDED" /\ r4.state = "SUCCEEDED"
      BY <2>1, CopiesType, CopyTrue DEF Inv, StepsTrue, Contents
    <2>3. r3.job \in Jobs /\ JobTrue(3, r3) /\ r4.job \in Jobs /\ JobTrue(4, r4)
      BY <2>2 DEF RecordTrue, Records
    <2>4. /\ Succeeded(r3.job) /\ jobs[r3.job].step = 3
          /\ Succeeded(r4.job) /\ jobs[r4.job].step = 4 /\ RanWith(r4.job, r4.tcontrol)
      BY <2>2, <2>3 DEF JobTrue, Of
    <2>5. matrices = r3.job /\ te = r4.job
      BY <2>3, <2>4 DEF Inv, Results
    <2>6. jobs[r4.job].ran = r4.tcontrol
      BY <2>4 DEF Succeeded, RanWith
    <2> QED BY <2>1, <2>2, <2>5, <2>6
  <1> QED BY <1>1, Invariance, PTL


\* All of it for one submitting client, with no condition on the behaviour.
THEOREM SerialTransport ==
  ASSUME OneSubmitter
  PROVE  Spec => [](TypeOK /\ AttemptDispatchedOnce /\ OneLiveJob /\ OomCancelIsOwn
                    /\ AttemptsKept /\ ResultIsOwn)
  BY OneSubmitterUploads, TransportTypes, DispatchedOnce, OneJobAlive, OomCancelOwn,
     HistoryIsTrue, ResultTrue, PTL
==============================================================================

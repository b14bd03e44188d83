-------------------------- MODULE OrcaProjectProofs --------------------------
(***************************************************************************)
(* What OrcaProject keeps for any number of clients, runs and faults.      *)
(*                                                                         *)
(* The argument: every copy of the manifest tells the truth about the jobs *)
(* of its stages, because a stage is dispatched once, by the client that   *)
(* recorded it, and a job that has ended stays as it is.  A copy can only  *)
(* be written over the manifest it was taken from.  And while the manifest *)
(* names a run as RUNNING nobody but that run moves a result: it is a lock *)
(* which only the run gives back, with the directories as it says.         *)
(***************************************************************************)
EXTENDS OrcaProject, TLAPS

Stages == {"opt", "freq"}

----------------------------------------------------------------------------
(* What every copy of the manifest says truly.                             *)

\* A stage, of its job; an imported optimization has none.
StageTrue(m, s) ==
    /\ m[s].job \in {NoJob, s}
    /\ m[s].job # NoJob => jobs[s] # "none"
    /\ m[s].st \in {"ABSENT", "NOT_STARTED"} => m[s].job = NoJob
    /\ ~(s = "opt" /\ m.import # "none") =>
         /\ m[s].st \in {"SUCCEEDED", "SCHEDULER_COMPLETED"} =>
              m[s].job = s /\ jobs[s] \in DOMAIN Left
         /\ m[s].st = "SUCCEEDED" =>
              /\ Proof[s] \subseteq Left[jobs[s]]
              /\ m[s].gbw = (s = "opt" /\ "gbw" \in Left[jobs[s]])
         /\ m[s].st = "FAILED" /\ m[s].job # NoJob => jobs[s] \in {"failed", "nonconverged"}

CopyTrue(m) ==
    /\ StageTrue(m, "opt") /\ StageTrue(m, "freq")
    /\ m.wbl.st # "ABSENT" => m.opt.st = "SUCCEEDED"

----------------------------------------------------------------------------
(* The remote side.                                                        *)

\* A job exists only when the manifest has its stage, and an import its copies.
RemoteTrue ==
    /\ CopyTrue(man)
    /\ man.rev = 0 => man = NoProject
    /\ man = NoProject => jobs["opt"] = "none"
    /\ man.freq.st = "ABSENT" => jobs["freq"] = "none"
    /\ man.import # "none" => files \in {man.import, "none"}

\* The result the manifest accepts, or none, is in place when no run is recorded.
ResultInPlace ==
    /\ WblResultKept
    /\ man.wbl.st = "ABSENT" => final = NoResult

----------------------------------------------------------------------------
(* An operation o.                                                         *)

\* The manifest is written for the first time by the only client at work.
CreatingPCs == {"write_initial", "import_digest", "import_shown", "import_copy",
                "import_register"}

CreatesAlone(o) ==
    /\ o.pc = "idle" => o = Idle
    /\ o.pc \in CreatingPCs => man = NoProject
    /\ o.pc \notin CreatingPCs \cup {"idle", "import_discard"} => man # NoProject
    /\ o.pc = "import_register" => files = o.sums

\* A copy is of the stored revision only when it is the stored manifest.
ViewDated(o) ==
    /\ o.view.rev <= man.rev
    /\ o.view.rev = man.rev => o.view = man
    /\ CopyTrue(o.view) /\ CopyTrue(o.cand)

\* What is to be saved changes one stage, and no accepted one.
SavesOneStage(o) ==
    o.pc = "save" =>
        /\ o.cand.rev = o.view.rev /\ o.cand.import = o.view.import /\ o.cand.wbl = o.view.wbl
        /\ o.view.opt.st = "SUCCEEDED" /\ o.view.import = "none" => o.cand.opt = o.view.opt
        /\ o.view.freq.st = "SUCCEEDED" => o.cand.freq = o.view.freq
        /\ o.cand.freq.st = "ABSENT" => o.view.freq.st = "ABSENT"
        /\ o.then \in {"idle", "dispatch", "recover", "replace"}
        /\ o.then = "dispatch" =>
             o.stage = "freq" /\ o.view.freq.st = "ABSENT" /\ o.cand.freq.st = "NOT_STARTED"
        /\ o.then = "recover" =>
             /\ o.stage = "opt" => o.cand.wbl.st = "ABSENT"
             /\ o.cand[o.stage].st = "SCHEDULER_COMPLETED"
        /\ o.then = "replace" => o.cand[o.stage].job \in killed

\* What an operation has found out about its stage.
KnowsStage(o) ==
    /\ o.pc = "dispatch" =>
         /\ o.view[o.stage].st = "NOT_STARTED" /\ jobs[o.stage] = "none"
         /\ o.stage = "opt" => o.view.wbl.st = "ABSENT"
         /\ o.stage = "freq" => man.freq.st # "ABSENT"
    /\ o.pc \in {"query", "recover", "scancel"} /\ o.stage = "opt" => o.view.wbl.st = "ABSENT"
    /\ o.pc \in {"query", "scancel"} =>
         /\ o.view[o.stage].job # NoJob
         /\ o.view[o.stage].st \notin {"SUCCEEDED", "SCHEDULER_COMPLETED"}
    /\ o.pc = "recover" => o.view[o.stage].st \in {"SUCCEEDED", "SCHEDULER_COMPLETED"}
    /\ o.pc = "replace" /\ o.view[o.stage].job # NoJob =>
         jobs[o.stage] # "live" \/ o.stage \in killed

\* The three states of the directories in which a run may fail: nothing moved,
\* the previous result set aside, the new one in place.
Untouched(o) == final = o.prev /\ backup[o.run] = NoResult
MovedAside(o) == final = NoResult /\ backup[o.run] = o.prev
MovedIn(o) == final = o.run /\ backup[o.run] = o.prev
Undoable(o) == Untouched(o) \/ MovedAside(o) \/ MovedIn(o)

Running(r) == [st |-> "RUNNING", run |-> r]

\* Before anything is moved, while it is, and when it is done.
BeforePCs == {"wbl_convert", "wbl_stage", "wbl_recheck", "wbl_aside"}
LockedPCs == BeforePCs \cup {"wbl_publish", "wbl_commit", "wbl_rollback", "wbl_restore", "wbl_undo"}
AfterPCs == {"wbl_tidy", "wbl_clean"}
WblPCs == LockedPCs \cup AfterPCs \cup {"wbl_begin", "wbl_check"}

\* A run that the manifest records as running is the only one that moves results.
KnowsResult(o) ==
    /\ o.pc \in WblPCs <=> o.run # NoResult
    /\ o.pc = "wbl_begin" =>
         /\ o.view.wbl.st # "RUNNING" /\ o.prev = Accepted(o.view) /\ o.view.opt.st = "SUCCEEDED"
         /\ backup[o.run] = NoResult /\ snapshot[o.run] = o.prev
    /\ o.pc \in AfterPCs \cup {"wbl_begin"} => man.wbl # Running(o.run)
    /\ o.pc \in LockedPCs \cup {"wbl_check"} =>
         o.view.wbl = Running(o.run) /\ o.view.opt.st = "SUCCEEDED"
    /\ o.pc \in LockedPCs => man.wbl = Running(o.run) /\ snapshot[o.run] = o.prev
    /\ o.pc \in BeforePCs => Untouched(o)
    /\ o.pc \in {"wbl_publish", "wbl_restore"} => MovedAside(o)
    /\ o.pc = "wbl_commit" => MovedIn(o)
    /\ o.pc = "wbl_check" /\ man.rev = o.view.rev =>
         snapshot[o.run] = o.prev /\ Undoable(o)
    /\ o.pc = "wbl_rollback" => Undoable(o)
    /\ o.pc = "wbl_undo" => final = o.prev

OpTrue(o) ==
    CreatesAlone(o) /\ ViewDated(o) /\ SavesOneStage(o) /\ KnowsStage(o) /\ KnowsResult(o)

\* Two clients neither create, nor dispatch one stage, nor run under one token.
Apart(c, d) ==
    /\ man = NoProject => op[c] = Idle \/ op[d] = Idle
    /\ At(c, "dispatch") /\ At(d, "dispatch") => op[c].stage # op[d].stage
    /\ op[c].run = op[d].run => op[c].run = NoResult

Inv == /\ TypeOK /\ RemoteTrue /\ ResultInPlace
       /\ \A c \in Clients : OpTrue(op[c])
       /\ \A c, d \in Clients : c # d => Apart(c, d)

----------------------------------------------------------------------------
(* Types.                                                                  *)

\* A missing manifest is a manifest, and a client that does nothing an operation.
LEMMA IdleType == NoProject \in Manifests /\ Idle \in Operations /\ NoProject.rev = 0
  BY DEF NoProject, Absent, Stage, Manifests, StageRecord, StageStates, Jobs, NoJob, Results,
         Idle, Operations, PCs, Versions

\* The fields of a manifest.
LEMMA ManifestFields ==
  ASSUME NEW m \in Manifests
  PROVE  /\ m.rev \in Nat /\ m.import \in Versions \cup {"none"}
         /\ m.opt \in StageRecord /\ m.freq \in StageRecord
         /\ m.wbl \in [st : {"ABSENT", "RUNNING", "SUCCEEDED", "FAILED"}, run : Results]
         /\ m["opt"] = m.opt /\ m["freq"] = m.freq
  BY DEF Manifests

\* The fields of an operation.
LEMMA OperationFields ==
  ASSUME NEW o \in Operations
  PROVE  /\ o.pc \in PCs /\ o.asked \in Jobs \cup {NoJob} /\ o.view \in Manifests
         /\ o.cand \in Manifests /\ o.then \in PCs /\ o.stage \in {"opt", "freq"}
         /\ o.run \in Results /\ o.prev \in Results /\ o.made \in BOOLEAN
         /\ o.saw \in Versions /\ o.sums \in Versions
  BY DEF Operations, Jobs

\* The operations of the clients.
LEMMA OpTypes ==
  ASSUME TypeOK
  PROVE  /\ op \in [Clients -> Operations] /\ \A c \in Clients : op[c] \in Operations
         /\ man \in Manifests /\ man.rev \in Nat
  BY ManifestFields DEF TypeOK

\* A stage in a manifest (WithStage).
LEMMA WithStageFields ==
  ASSUME NEW m \in Manifests, NEW s \in Stages, NEW r \in StageRecord
  PROVE  /\ WithStage(m, s, r) \in Manifests
         /\ WithStage(m, s, r).rev = m.rev /\ WithStage(m, s, r).import = m.import
         /\ WithStage(m, s, r).wbl = m.wbl /\ WithStage(m, s, r)[s] = r
         /\ s = "opt" => WithStage(m, s, r).opt = r /\ WithStage(m, s, r).freq = m.freq
         /\ s = "freq" => WithStage(m, s, r).freq = r /\ WithStage(m, s, r).opt = m.opt
  <1>1. CASE s = "opt"
    BY <1>1 DEF WithStage, Manifests
  <1>2. CASE s = "freq"
    BY <1>2 DEF WithStage, Manifests
  <1> QED BY <1>1, <1>2 DEF Stages

\* The next revision of a manifest (persist_update).
LEMMA BumpedFields ==
  ASSUME NEW m \in Manifests
  PROVE  /\ Bumped(m) \in Manifests /\ Bumped(m).rev = m.rev + 1
         /\ Bumped(m).import = m.import /\ Bumped(m).wbl = m.wbl
         /\ Bumped(m).opt = m.opt /\ Bumped(m).freq = m.freq
  BY DEF Bumped, Manifests

\* The WBL stage in a manifest.
LEMMA WithWblFields ==
  ASSUME NEW m \in Manifests, NEW st \in {"RUNNING", "SUCCEEDED", "FAILED"}, NEW r \in Results
  PROVE  /\ WithWbl(m, st, r) \in Manifests /\ WithWbl(m, st, r).rev = m.rev
         /\ WithWbl(m, st, r).import = m.import /\ WithWbl(m, st, r).wbl = [st |-> st, run |-> r]
         /\ WithWbl(m, st, r).opt = m.opt /\ WithWbl(m, st, r).freq = m.freq
  BY DEF WithWbl, Manifests

\* A record of a stage (Stage).
LEMMA StageFields ==
  ASSUME NEW st \in StageStates, NEW j \in Jobs \cup {NoJob}
  PROVE  /\ Stage(st, j) \in StageRecord /\ Stage(st, j).st = st /\ Stage(st, j).job = j
         /\ Stage(st, j).cancel = FALSE /\ Stage(st, j).gbw = FALSE
  BY DEF Stage, StageRecord

\* How a job may have completed.
LEMMA LeftStates ==
  /\ DOMAIN Left = {"nonconverged", "unverified", "cut", "bare", "full"}
  /\ "none" \notin DOMAIN Left /\ "live" \notin DOMAIN Left /\ "failed" \notin DOMAIN Left
  /\ JobStates = {"none", "live", "failed"} \cup DOMAIN Left
  BY DEF Left, JobStates

----------------------------------------------------------------------------
(* What a step of one client may do that others see, and why it leaves what *)
(* they know true.                                                         *)

\* A job once made stays, and one that ended stays as it is.
JobsForward ==
    \A j \in Stages : jobs[j] # "none" =>
        jobs'[j] # "none" /\ (jobs[j] # "live" => jobs'[j] = jobs[j])

\* Client c goes on to o.
Advance(c, o) ==
    /\ op' = [op EXCEPT ![c] = o]
    /\ JobsForward
    /\ \A s \in Stages : jobs[s] = "none" /\ jobs'[s] # "none" =>
         op[c].pc = "dispatch" /\ op[c].stage = s
    /\ killed \subseteq killed'
    /\ man' = man \/ (man'.rev > man.rev /\ op[c].pc # "idle")
    /\ man.freq.st # "ABSENT" => man'.freq.st # "ABSENT"
    /\ files' = files \/ op[c].pc # "idle"
    /\ man.wbl.st = "RUNNING" /\ man.wbl.run # op[c].run => man'.wbl = man.wbl /\ final' = final
    /\ man'.wbl.st = "RUNNING" => man'.wbl = man.wbl \/ man'.wbl.run = op[c].run
    /\ \A r \in Runs \ {op[c].run, o.run} :
         \/ backup'[r] = backup[r] /\ snapshot'[r] = snapshot[r]
         \/ \A d \in Clients : op[d].run # r
    /\ o.run \in {op[c].run, NoResult} \/ \A d \in Clients : op[d].run # o.run
    /\ o.pc = "dispatch" => man = NoProject \/ (o.stage = "freq" /\ man.freq.st = "ABSENT")
    /\ man = NoProject /\ op[c] = Idle => o = Idle \/ \A d \in Clients : op[d] = Idle

\* What is true of a stage stays so.
LEMMA StageStays ==
  ASSUME JobsForward, NEW m, NEW s \in Stages, StageTrue(m, s)
  PROVE  StageTrue(m, s)'
  BY LeftStates DEF JobsForward, StageTrue, NoJob, Stages

LEMMA CopyStays ==
  ASSUME JobsForward, NEW m, CopyTrue(m)
  PROVE  CopyTrue(m)'
  BY StageStays DEF CopyTrue, Stages

\* The same remote side as before.
Same == UNCHANGED <<man, files, jobs, killed, final, backup, snapshot>>

LEMMA SameTrue ==
  ASSUME Same, NEW o
  PROVE  OpTrue(o)' <=> OpTrue(o)
  BY DEF Same, OpTrue, CreatesAlone, ViewDated, CopyTrue, StageTrue, SavesOneStage, KnowsStage,
         KnowsResult, Untouched, MovedAside, MovedIn, Undoable

----------------------------------------------------------------------------
(* The others.                                                             *)

LEMMA OthersCreate ==
  ASSUME Inv, TypeOK', NEW c \in Clients, NEW o \in Operations, Advance(c, o),
         NEW d \in Clients \ {c}, NEW x, x = op[d]
  PROVE  CreatesAlone(x)'
  <1>1. /\ CreatesAlone(x) /\ CreatesAlone(op[c]) /\ Apart(c, d) /\ man.rev \in Nat
        /\ man'.rev \in Nat /\ NoProject.rev = 0 /\ Idle.pc = "idle"
    <2>1. CreatesAlone(x) /\ CreatesAlone(op[c]) /\ Apart(c, d)
      BY DEF Inv, OpTrue
    <2>2. man.rev \in Nat /\ man'.rev \in Nat
      BY ManifestFields DEF Inv, TypeOK
    <2> QED BY <2>1, <2>2, IdleType DEF Idle
  <1>2. CASE x = Idle
    BY <1>1, <1>2 DEF CreatesAlone, CreatingPCs
  <1>3. CASE x # Idle
    <2>1. man = NoProject => op[c].pc = "idle"
      BY <1>1, <1>3 DEF Apart
    <2>2. x.pc \in CreatingPCs => man = NoProject /\ man' = man /\ files' = files
      BY <1>1, <2>1 DEF CreatesAlone, Advance
    <2>3. man # NoProject => man' # NoProject
      BY <1>1 DEF Advance
    <2> QED BY <1>1, <2>2, <2>3 DEF CreatesAlone, CreatingPCs
  <1> QED BY <1>2, <1>3

LEMMA OthersView ==
  ASSUME Inv, TypeOK', NEW c \in Clients, NEW o \in Operations, Advance(c, o),
         NEW d \in Clients \ {c}, NEW x, x = op[d]
  PROVE  /\ ViewDated(x)'
         /\ man'.rev = x.view.rev => man' = man /\ x.view = man
  <1>1. /\ ViewDated(x) /\ x \in Operations /\ x.view.rev \in Nat /\ man.rev \in Nat
        /\ man'.rev \in Nat
    <2>1. ViewDated(x) /\ x \in Operations
      BY OpTypes DEF Inv, OpTrue
    <2>2. man.rev \in Nat /\ man'.rev \in Nat
      BY ManifestFields DEF Inv, TypeOK
    <2> QED BY <2>1, <2>2, OperationFields, ManifestFields
  <1>2. CopyTrue(x.view)' /\ CopyTrue(x.cand)'
    BY <1>1, CopyStays DEF Advance, ViewDated
  <1> QED BY <1>1, <1>2 DEF Advance, ViewDated

LEMMA OthersStage ==
  ASSUME Inv, TypeOK', NEW c \in Clients, NEW o \in Operations, Advance(c, o),
         NEW d \in Clients \ {c}, NEW x, x = op[d]
  PROVE  SavesOneStage(x)' /\ KnowsStage(x)'
  <1>1. /\ SavesOneStage(x) /\ KnowsStage(x) /\ CopyTrue(x.view) /\ Apart(c, d)
        /\ x \in Operations /\ x.stage \in {"opt", "freq"}
    BY OpTypes, OperationFields DEF Inv, OpTrue, ViewDated
  <1>2. SavesOneStage(x)'
    BY <1>1 DEF Advance, SavesOneStage
  <1>3. x.pc = "dispatch" => jobs'[x.stage] = "none"
    BY <1>1 DEF Advance, KnowsStage, Apart, At, Stages
  <1>4. x.pc = "replace" /\ x.view[x.stage].job # NoJob =>
          jobs'[x.stage] # "live" \/ x.stage \in killed'
    BY <1>1 DEF Advance, JobsForward, KnowsStage, CopyTrue, StageTrue, Stages
  <1> QED BY <1>1, <1>2, <1>3, <1>4 DEF Advance, KnowsStage

LEMMA OthersResult ==
  ASSUME Inv, TypeOK', NEW c \in Clients, NEW o \in Operations, Advance(c, o),
         NEW d \in Clients \ {c}, NEW x, x = op[d]
  PROVE  KnowsResult(x)'
  <1>1. /\ KnowsResult(x) /\ Apart(c, d) /\ x \in Operations /\ x.run \in Results
        /\ op[c].run \in Results
    BY OpTypes, OperationFields DEF Inv, OpTrue
  <1>2. CASE x.run = NoResult
    BY <1>1, <1>2 DEF KnowsResult, WblPCs, LockedPCs, BeforePCs, AfterPCs
  <1>3. CASE x.run # NoResult
    <2>1. x.run \in Runs \ {op[c].run, o.run}
      BY <1>1, <1>3 DEF Apart, Advance, Results
    <2>2. backup'[x.run] = backup[x.run] /\ snapshot'[x.run] = snapshot[x.run]
      BY <2>1 DEF Advance
    <2>3. Running(x.run).st = "RUNNING" /\ Running(x.run).run = x.run
      BY DEF Running
    <2>4. man.wbl = Running(x.run) => man'.wbl = man.wbl /\ final' = final
      BY <2>1, <2>3 DEF Advance
    <2>5. man'.wbl = Running(x.run) => man.wbl = Running(x.run)
      BY <2>1, <2>3 DEF Advance
    <2>6. man'.rev = x.view.rev => man' = man /\ x.view = man
      BY OthersView
    <2>7. /\ x.pc \in LockedPCs => man.wbl = Running(x.run)
          /\ x.pc = "wbl_check" => x.view.wbl = Running(x.run)
      BY <1>1 DEF KnowsResult
    <2>8. x.pc \in LockedPCs \/ (x.pc = "wbl_check" /\ man'.rev = x.view.rev)
            => man'.wbl = man.wbl /\ final' = final
      BY <2>4, <2>6, <2>7
    <2>9. /\ Untouched(x)' <=> final' = x.prev /\ backup[x.run] = NoResult
          /\ MovedAside(x)' <=> final' = NoResult /\ backup[x.run] = x.prev
          /\ MovedIn(x)' <=> final' = x.run /\ backup[x.run] = x.prev
          /\ Undoable(x)' <=> Untouched(x)' \/ MovedAside(x)' \/ MovedIn(x)'
      BY <2>2 DEF Untouched, MovedAside, MovedIn, Undoable
    <2> QED BY <1>1, <2>2, <2>5, <2>6, <2>8, <2>9
            DEF KnowsResult, WblPCs, LockedPCs, BeforePCs, AfterPCs, Untouched, MovedAside,
                MovedIn, Undoable
  <1> QED BY <1>2, <1>3

\* The pairs of clients.
LEMMA ApartKeep ==
  ASSUME Inv, TypeOK', NEW c \in Clients, NEW o \in Operations, Advance(c, o)
  PROVE  \A x, y \in Clients : x # y => Apart(x, y)'
  <1>1. /\ op'[c] = o /\ \A d \in Clients \ {c} : op'[d] = op[d]
        /\ man' = NoProject => man = NoProject
    <2>1. man.rev \in Nat /\ man'.rev \in Nat
      BY ManifestFields DEF Inv, TypeOK
    <2> QED BY <2>1, OpTypes, IdleType DEF Inv, Advance
  <1>2. \A x, y \in Clients : x # y => Apart(x, y)
    BY DEF Inv
  <1>3. ASSUME NEW d \in Clients \ {c}, NEW x, x = op[d]
        PROVE  /\ man' = NoProject => o = Idle \/ x = Idle
               /\ o.pc = "dispatch" /\ x.pc = "dispatch" => o.stage # x.stage
               /\ o.run = x.run => o.run = NoResult
    <2>1. /\ CreatesAlone(x) /\ KnowsStage(x) /\ Apart(c, d) /\ x \in Operations
      BY <1>3, OpTypes DEF Inv, OpTrue
    <2>2. man' = NoProject => o = Idle \/ x = Idle
      BY <1>1, <1>3, <2>1 DEF Advance, Apart
    <2>3. x.pc = "dispatch" => man # NoProject /\ (x.stage = "freq" => man.freq.st # "ABSENT")
      BY <2>1 DEF CreatesAlone, CreatingPCs, KnowsStage
    <2>4. o.pc = "dispatch" /\ x.pc = "dispatch" => o.stage # x.stage
      BY <2>3 DEF Advance
    <2>5. o.run = x.run => o.run = NoResult
      BY <1>3, <2>1 DEF Advance, Apart
    <2> QED BY <2>2, <2>4, <2>5
  <1>4. ASSUME NEW x \in Clients, NEW y \in Clients, x # y PROVE Apart(x, y)'
    <2>1. CASE x # c /\ y # c
      BY <1>1, <1>2, <1>4, <2>1 DEF Apart, At
    <2>2. CASE x = c
      BY <1>1, <1>3, <1>4, <2>2 DEF Apart, At
    <2>3. CASE y = c
      BY <1>1, <1>3, <1>4, <2>3 DEF Apart, At
    <2> QED BY <2>1, <2>2, <2>3
  <1> QED BY <1>4

\* A step of one client.
LEMMA StepTrue ==
  ASSUME Inv, TypeOK', NEW c \in Clients, NEW o \in Operations, Advance(c, o),
         RemoteTrue', ResultInPlace', OpTrue(o)'
  PROVE  Inv'
  <1>1. ASSUME NEW d \in Clients PROVE OpTrue(op[d])'
    <2>1. CASE d = c
      <3>1. op'[d] = o
        BY <2>1, OpTypes DEF Inv, Advance
      <3>2. PICK x : x = op'[d]
        OBVIOUS
      <3>3. OpTrue(x)'
        BY <3>1, <3>2
      <3> QED BY <3>2, <3>3 DEF OpTrue, CreatesAlone, ViewDated, SavesOneStage, KnowsStage,
                 KnowsResult, Untouched, MovedAside, MovedIn, Undoable
    <2>2. CASE d # c
      <3>1. PICK x : x = op[d]
        OBVIOUS
      <3>2. OpTrue(x)'
        BY <2>2, <3>1, OthersCreate, OthersView, OthersStage, OthersResult DEF OpTrue
      <3>3. op'[d] = x
        BY <2>2, <3>1, OpTypes DEF Inv, Advance
      <3> QED BY <3>2, <3>3 DEF OpTrue, CreatesAlone, ViewDated, SavesOneStage, KnowsStage,
                 KnowsResult, Untouched, MovedAside, MovedIn, Undoable
    <2> QED BY <2>1, <2>2
  <1> QED BY <1>1, ApartKeep DEF Inv

\* A client that does nothing knows nothing.
LEMMA IdleTrue ==
  ASSUME TypeOK', RemoteTrue'
  PROVE  OpTrue(Idle)'
  <1>1. /\ Idle.pc = "idle" /\ Idle.view = NoProject /\ Idle.cand = NoProject
        /\ Idle.run = NoResult
    BY DEF Idle
  <1>2. man'.rev \in Nat /\ (man'.rev = 0 => man' = NoProject) /\ NoProject.rev = 0
    BY ManifestFields, IdleType DEF TypeOK, RemoteTrue
  <1>3. CopyTrue(NoProject)'
    BY DEF CopyTrue, StageTrue, NoProject, Absent, Stage, NoJob
  <1>4. ViewDated(Idle)'
    BY <1>1, <1>2, <1>3 DEF ViewDated
  <1>5. CreatesAlone(Idle)' /\ SavesOneStage(Idle)' /\ KnowsStage(Idle)'
    BY <1>1 DEF CreatesAlone, CreatingPCs, SavesOneStage, KnowsStage
  <1>6. KnowsResult(Idle)'
    BY <1>1 DEF KnowsResult, WblPCs, LockedPCs, BeforePCs, AfterPCs
  <1> QED BY <1>4, <1>5, <1>6 DEF OpTrue

\* The count of faults (Breaks, Works).
LEMMA FaultsType ==
  ASSUME TypeOK, Breaks \/ Works
  PROVE  faults' \in 0..MaxFaults
  BY MaxFaultsAssumption DEF TypeOK, Breaks, Works

\* The remote side stays as it is.
Remote == <<man, files, source, jobs, killed, wblVars>>

\* A step of a client that changes nothing but the client.
LEMMA LocalStep ==
  ASSUME Inv, NEW c \in Clients, NEW o \in Operations, op' = [op EXCEPT ![c] = o],
         UNCHANGED Remote, Breaks \/ Works, OpTrue(o), o.pc # "dispatch",
         \/ o.run \in {op[c].run, NoResult}
         \/ \A d \in Clients : op[d].run # o.run,
         man = NoProject /\ op[c] = Idle => o = Idle \/ \A d \in Clients : op[d] = Idle
  PROVE  Inv'
  <1>1. Same /\ UNCHANGED <<source, staging>> /\ faults' \in 0..MaxFaults
    BY FaultsType DEF Inv, Remote, wblVars, Same
  <1>2. op' \in [Clients -> Operations]
    BY OpTypes DEF Inv
  <1>3. TypeOK'
    BY <1>1, <1>2 DEF Inv, TypeOK, WblTypeOK, Same
  <1>4. RemoteTrue' /\ ResultInPlace'
    BY <1>1 DEF Inv, Same, RemoteTrue, CopyTrue, StageTrue, ResultInPlace, WblResultKept
  <1>5. OpTrue(o)'
    BY <1>1, SameTrue
  <1>6. Advance(c, o)
    BY <1>1 DEF Advance, JobsForward, Same
  <1> QED BY <1>3, <1>4, <1>5, <1>6, StepTrue

\* An operation that ends and changes nothing.
LEMMA EndLocal ==
  ASSUME Inv, NEW c \in Clients, End(c), UNCHANGED Remote, Breaks \/ Works
  PROVE  Inv'
  <1>1. Same /\ UNCHANGED <<source, staging>> /\ faults' \in 0..MaxFaults
    BY FaultsType DEF Inv, Remote, wblVars, Same
  <1>2. op' \in [Clients -> Operations]
    BY IdleType, OpTypes DEF Inv, End
  <1>3. TypeOK'
    BY <1>1, <1>2 DEF Inv, TypeOK, WblTypeOK, Same
  <1>4. RemoteTrue' /\ ResultInPlace'
    BY <1>1 DEF Inv, Same, RemoteTrue, CopyTrue, StageTrue, ResultInPlace, WblResultKept
  <1>5. OpTrue(Idle)'
    BY <1>3, <1>4, IdleTrue
  <1>6. Advance(c, Idle)
    BY <1>1 DEF Advance, JobsForward, Same, End, Idle
  <1> QED BY <1>3, <1>4, <1>5, <1>6, IdleType, StepTrue

----------------------------------------------------------------------------
(* Operations.                                                             *)

\* What an operation is that is not in one of the phases a conjunct is about.
LEMMA NoRun ==
  ASSUME NEW o, o.pc \notin WblPCs, o.run = NoResult
  PROVE  KnowsResult(o)
  BY DEF KnowsResult, WblPCs, LockedPCs, BeforePCs, AfterPCs

LEMMA NoStage ==
  ASSUME NEW o, o.pc \notin {"dispatch", "query", "recover", "scancel", "replace"}
  PROVE  KnowsStage(o)
  BY DEF KnowsStage

\* The next label (Goto).
LEMMA GotoFields ==
  ASSUME TypeOK, NEW c \in Clients, NEW l \in PCs, Goto(c, l)
  PROVE  \E o \in Operations :
           /\ op' = [op EXCEPT ![c] = o] /\ o.pc = l
           /\ o.asked = op[c].asked /\ o.view = op[c].view /\ o.cand = op[c].cand
           /\ o.then = op[c].then /\ o.stage = op[c].stage /\ o.run = op[c].run
           /\ o.prev = op[c].prev /\ o.made = op[c].made /\ o.saw = op[c].saw
           /\ o.sums = op[c].sums
  <1>1. PICK o : o = [op[c] EXCEPT !.pc = l]
    OBVIOUS
  <1>2. op[c] \in Operations
    BY OpTypes
  <1>3. o \in Operations
    BY <1>1, <1>2 DEF Operations
  <1>4. op' = [op EXCEPT ![c] = o]
    BY <1>1 DEF Goto
  <1> QED BY <1>1, <1>2, <1>3, <1>4 DEF Operations

\* The record to save (WillSave).
LEMMA WillSaveFields ==
  ASSUME TypeOK, NEW c \in Clients, NEW m \in Manifests, NEW l \in PCs, WillSave(c, m, l)
  PROVE  \E o \in Operations :
           /\ op' = [op EXCEPT ![c] = o] /\ o.pc = "save" /\ o.cand = m /\ o.then = l
           /\ o.view = op[c].view /\ o.stage = op[c].stage /\ o.run = op[c].run
           /\ o.prev = op[c].prev
  <1>1. PICK o : o = [op[c] EXCEPT !.pc = "save", !.cand = m, !.then = l]
    OBVIOUS
  <1>2. op[c] \in Operations
    BY OpTypes
  <1>3. o \in Operations
    BY <1>1, <1>2 DEF Operations, PCs
  <1>4. op' = [op EXCEPT ![c] = o]
    BY <1>1 DEF WillSave
  <1> QED BY <1>1, <1>2, <1>3, <1>4 DEF Operations

\* An operation and what is known of it.
LEMMA Known ==
  ASSUME Inv, NEW c \in Clients
  PROVE  \E x \in Operations :
           x = op[c] /\ OpTrue(x) /\ CreatesAlone(x) /\ ViewDated(x) /\ SavesOneStage(x)
             /\ KnowsStage(x) /\ KnowsResult(x)
  BY OpTypes DEF Inv, OpTrue

\* A stage written into a true copy.
LEMMA CopyWithStage ==
  ASSUME NEW m \in Manifests, CopyTrue(m), NEW s \in Stages, NEW r \in StageRecord,
         NEW x, x = WithStage(m, s, r), StageTrue(x, s),
         s = "opt" /\ m.wbl.st # "ABSENT" => r.st = "SUCCEEDED"
  PROVE  CopyTrue(x)
  <1>1. /\ x \in Manifests /\ x.import = m.import /\ x.wbl = m.wbl
        /\ s = "opt" => x.opt = r /\ x.freq = m.freq
        /\ s = "freq" => x.freq = r /\ x.opt = m.opt
    BY WithStageFields
  <1>2. x["opt"] = x.opt /\ x["freq"] = x.freq /\ m["opt"] = m.opt /\ m["freq"] = m.freq
    BY <1>1, ManifestFields
  <1>3. CASE s = "opt"
    <2>1. x["freq"] = m["freq"]
      BY <1>1, <1>2, <1>3
    <2>2. StageTrue(x, "freq")
      BY <2>1, <1>1 DEF CopyTrue, StageTrue
    <2> QED BY <1>1, <1>3, <2>2 DEF CopyTrue
  <1>4. CASE s = "freq"
    <2>1. x["opt"] = m["opt"]
      BY <1>1, <1>2, <1>4
    <2>2. StageTrue(x, "opt")
      BY <2>1, <1>1 DEF CopyTrue, StageTrue
    <2> QED BY <1>1, <1>4, <2>2 DEF CopyTrue
  <1> QED BY <1>3, <1>4 DEF Stages

\* A copy just loaded, and one beside it.
LEMMA LoadedView ==
  ASSUME Inv, NEW o, o.view = man, o.cand = NoProject \/ CopyTrue(o.cand)
  PROVE  ViewDated(o)
  <1>1. CopyTrue(NoProject)
    BY DEF CopyTrue, StageTrue, NoProject, Absent, Stage, NoJob
  <1>2. man.rev \in Nat
    BY OpTypes DEF Inv
  <1> QED BY <1>1, <1>2 DEF Inv, RemoteTrue, ViewDated

\* The phases of a run of WBL.
LEMMA WblGoto ==
  ASSUME NEW x, NEW o, OpTrue(x), x.pc \in WblPCs, o.pc \in WblPCs, o.view = x.view,
         o.cand = x.cand, KnowsResult(o)
  PROVE  OpTrue(o)
  BY DEF OpTrue, CreatesAlone, CreatingPCs, ViewDated, SavesOneStage, KnowsStage, WblPCs,
         LockedPCs, BeforePCs, AfterPCs

----------------------------------------------------------------------------
(* The steps that change nothing but the client.                           *)

LEMMA CreateInv ==
  ASSUME Inv, NEW c \in Clients, Create(c)
  PROVE  Inv'
  <1>1. PICK o : o = [Idle EXCEPT !.pc = "write_initial"]
    OBVIOUS
  <1>2. /\ o \in Operations /\ o.pc = "write_initial" /\ o.view = NoProject
        /\ o.cand = NoProject /\ o.run = NoResult
    <2>1. o \in Operations
      BY <1>1, IdleType DEF Operations, PCs
    <2> QED BY <1>1, <2>1 DEF Idle
  <1>3. man = NoProject /\ (\A d \in Clients : op[d] = Idle) /\ op' = [op EXCEPT ![c] = o]
        /\ UNCHANGED Remote /\ Works
    BY <1>1 DEF Create, Local, Remote, Works
  <1>4. ViewDated(o)
    BY <1>2, <1>3, LoadedView
  <1>5. OpTrue(o)
    BY <1>2, <1>3, <1>4, NoRun, NoStage
       DEF OpTrue, CreatesAlone, CreatingPCs, SavesOneStage, WblPCs, LockedPCs, BeforePCs, AfterPCs
  <1> QED BY <1>2, <1>3, <1>5, LocalStep

LEMMA ValidateInv ==
  ASSUME Inv, NEW c \in Clients, Validate(c)
  PROVE  Inv'
  <1>1. PICK o : o = [Idle EXCEPT !.pc = "import_digest", !.saw = source]
    OBVIOUS
  <1>2. /\ o \in Operations /\ o.pc = "import_digest" /\ o.view = NoProject
        /\ o.cand = NoProject /\ o.run = NoResult
    <2>1. o \in Operations
      BY <1>1, IdleType DEF Operations, PCs, Inv, TypeOK
    <2> QED BY <1>1, <2>1 DEF Idle
  <1>3. man = NoProject /\ (\A d \in Clients : op[d] = Idle) /\ op' = [op EXCEPT ![c] = o]
        /\ UNCHANGED Remote /\ Works
    BY <1>1 DEF Validate, Local, Remote, Works
  <1>4. ViewDated(o)
    BY <1>2, <1>3, LoadedView
  <1>5. OpTrue(o)
    BY <1>2, <1>3, <1>4, NoRun, NoStage
       DEF OpTrue, CreatesAlone, CreatingPCs, SavesOneStage, WblPCs, LockedPCs, BeforePCs, AfterPCs
  <1> QED BY <1>2, <1>3, <1>5, LocalStep

LEMMA SubmitFrequencyInv ==
  ASSUME Inv, NEW c \in Clients, SubmitFrequency(c)
  PROVE  Inv'
  <1>1. PICK r : r = Stage("NOT_STARTED", NoJob)
    OBVIOUS
  <1>2. PICK m : m = WithStage(man, "freq", r)
    OBVIOUS
  <1>3. PICK o : o = [Loaded EXCEPT !.pc = "save", !.stage = "freq", !.then = "dispatch", !.cand = m]
    OBVIOUS
  <1>4. /\ man.freq.st = "ABSENT" /\ man.opt.st = "SUCCEEDED" /\ op[c] = Idle
        /\ op' = [op EXCEPT ![c] = o] /\ UNCHANGED Remote /\ Works
    BY <1>1, <1>2, <1>3 DEF SubmitFrequency, CanAppendFrequency, Local, Remote, Works
  <1>5. r \in StageRecord /\ r.st = "NOT_STARTED" /\ r.job = NoJob /\ man \in Manifests
    <2>1. "NOT_STARTED" \in StageStates /\ NoJob \in Jobs \cup {NoJob}
      BY DEF StageStates
    <2>2. man \in Manifests
      BY OpTypes DEF Inv
    <2> QED BY <1>1, <2>1, <2>2, StageFields
  <1>6. /\ m \in Manifests /\ m.rev = man.rev /\ m.import = man.import /\ m.wbl = man.wbl
        /\ m["freq"] = r /\ m.freq = r /\ m.opt = man.opt
    BY <1>2, <1>5, WithStageFields DEF Stages
  <1>7. /\ o \in Operations /\ o.pc = "save" /\ o.stage = "freq" /\ o.then = "dispatch"
        /\ o.cand = m /\ o.view = man /\ o.run = NoResult
    <2>1. o \in Operations
      BY <1>3, <1>5, <1>6, IdleType DEF Loaded, Operations, PCs, Jobs
    <2> QED BY <1>3, <2>1 DEF Loaded, Idle
  <1>8. StageTrue(m, "freq")
    BY <1>5, <1>6 DEF StageTrue
  <1>9. CopyTrue(m)
    BY <1>2, <1>5, <1>8, CopyWithStage DEF Inv, RemoteTrue, Stages
  <1>10. ViewDated(o)
    BY <1>7, <1>9, LoadedView
  <1>11. man # NoProject
    BY <1>4 DEF NoProject, Absent, Stage
  <1>12. OpTrue(o)
    BY <1>4, <1>5, <1>6, <1>7, <1>10, <1>11, NoRun, NoStage
       DEF OpTrue, CreatesAlone, CreatingPCs, SavesOneStage, WblPCs, LockedPCs, BeforePCs, AfterPCs
  <1> QED BY <1>4, <1>7, <1>11, <1>12, LocalStep

LEMMA AskCancelInv ==
  ASSUME Inv, NEW c \in Clients, AskCancel(c)
  PROVE  Inv'
  <1>1. PICK s : s = Active(man)
    OBVIOUS
  <1>2. PICK j : j = man[s].job
    OBVIOUS
  <1>3. PICK o : o = [Idle EXCEPT !.pc = "asked", !.asked = j]
    OBVIOUS
  <1>4. /\ s # "wbl" /\ man[s].st \in Unfinished /\ j # NoJob /\ op[c] = Idle
        /\ op' = [op EXCEPT ![c] = o] /\ UNCHANGED Remote /\ Works
    BY <1>1, <1>2, <1>3 DEF AskCancel, Local, Remote, Works
  <1>5. s \in Stages
    BY <1>1, <1>4 DEF Active, Stages
  <1>6. man # NoProject /\ j \in Jobs
    BY <1>2, <1>4, <1>5, OpTypes, ManifestFields
       DEF Inv, Stages, NoProject, Absent, Stage, Unfinished, StageRecord
  <1>7. /\ o \in Operations /\ o.pc = "asked" /\ o.view = NoProject /\ o.cand = NoProject
        /\ o.run = NoResult
    <2>1. o \in Operations
      BY <1>3, <1>6, IdleType DEF Operations, PCs
    <2> QED BY <1>3, <2>1 DEF Idle
  <1>8. ViewDated(o)
    <2>1. CopyTrue(NoProject)
      BY DEF CopyTrue, StageTrue, NoProject, Absent, Stage, NoJob
    <2>2. man.rev \in Nat /\ (man.rev = 0 => man = NoProject) /\ NoProject.rev = 0
      BY OpTypes, IdleType DEF Inv, RemoteTrue
    <2> QED BY <1>7, <2>1, <2>2 DEF ViewDated
  <1>9. OpTrue(o)
    BY <1>6, <1>7, <1>8, NoRun, NoStage
       DEF OpTrue, CreatesAlone, CreatingPCs, SavesOneStage, WblPCs, LockedPCs, BeforePCs, AfterPCs
  <1> QED BY <1>4, <1>6, <1>7, <1>9, LocalStep

LEMMA ResubmitInv ==
  ASSUME Inv, NEW c \in Clients, Resubmit(c)
  PROVE  Inv'
  <1>1. PICK s : s = Active(man)
    OBVIOUS
  <1>2. PICK l : l = IF man[s].st \notin Unfinished \cup {"RUNNING"} THEN "replace" ELSE "scancel"
    OBVIOUS
  <1>3. PICK t : t = IF s = "freq" THEN "freq" ELSE "opt"
    OBVIOUS
  <1>4. PICK o : o = [Loaded EXCEPT !.pc = l, !.stage = t]
    OBVIOUS
  <1>5. /\ man.opt.st \notin {"ABSENT", "NOT_STARTED"} /\ man.import = "none" /\ op[c] = Idle
        /\ op' = [op EXCEPT ![c] = o] /\ UNCHANGED Remote /\ Works
        /\ man[s].st \notin Unfinished \cup {"RUNNING"} \/ (s # "wbl" /\ man[s].job # NoJob)
    BY <1>1, <1>2, <1>3, <1>4 DEF Resubmit, Local, Remote, Works
  <1>6. /\ man \in Manifests /\ man["opt"] = man.opt /\ man["freq"] = man.freq
        /\ man.opt \in StageRecord /\ man.freq \in StageRecord /\ CopyTrue(man)
    BY OpTypes, ManifestFields DEF Inv, RemoteTrue
  <1>7. /\ o \in Operations /\ o.pc = l /\ o.stage = t /\ o.view = man /\ o.cand = NoProject
        /\ o.run = NoResult /\ l \in {"replace", "scancel"} /\ t \in Stages
    <2>1. l \in {"replace", "scancel"} /\ t \in Stages
      BY <1>2, <1>3 DEF Stages
    <2>2. o \in Operations
      BY <1>4, <1>6, <2>1, IdleType DEF Loaded, Operations, PCs, Jobs, Stages
    <2> QED BY <1>4, <2>1, <2>2 DEF Loaded, Idle
  <1>8. man # NoProject
    BY <1>5 DEF NoProject, Absent, Stage
  <1>9. /\ s = "freq" => man.freq.st \notin {"ABSENT", "NOT_STARTED"}
        /\ s # "freq" /\ s # "opt" => s = "wbl" /\ man.opt.st = "SUCCEEDED"
        /\ s = "opt" => man.wbl.st = "ABSENT"
    BY <1>1, <1>6 DEF Active, CopyTrue
  <1>10. ASSUME l = "replace" PROVE KnowsStage(o)
    <2>1. man[s].st \notin Unfinished
      BY <1>2, <1>10
    <2>2. man[t].st \in {"SCHEDULER_COMPLETED", "SUCCEEDED", "FAILED"}
      BY <1>3, <1>5, <1>6, <1>9, <2>1 DEF Unfinished, StageRecord, StageStates
    <2>3. StageTrue(man, t)
      BY <1>6, <1>7 DEF CopyTrue, Stages
    <2>4. man[t].job # NoJob => jobs[t] # "live"
      BY <1>5, <2>2, <2>3, LeftStates DEF StageTrue
    <2> QED BY <1>7, <1>10, <2>4 DEF KnowsStage
  <1>11. ASSUME l = "scancel" PROVE KnowsStage(o)
    <2>1. s # "wbl" /\ man[s].job # NoJob /\ man[s].st \in Unfinished \cup {"RUNNING"}
      BY <1>2, <1>5, <1>11
    <2>2. s \in {"opt", "freq"} /\ t = s
      BY <1>3, <1>9, <2>1
    <2>3. man[s].st \in Unfinished
      BY <1>6, <2>1, <2>2 DEF StageRecord, StageStates
    <2> QED BY <1>7, <1>9, <1>11, <2>1, <2>2, <2>3 DEF KnowsStage, Unfinished
  <1>12. KnowsStage(o)
    BY <1>7, <1>10, <1>11
  <1>13. ViewDated(o)
    BY <1>7, LoadedView
  <1>14. OpTrue(o)
    BY <1>7, <1>8, <1>12, <1>13, NoRun
       DEF OpTrue, CreatesAlone, CreatingPCs, SavesOneStage, WblPCs, LockedPCs, BeforePCs, AfterPCs
  <1> QED BY <1>5, <1>7, <1>8, <1>14, LocalStep

LEMMA RefreshInv ==
  ASSUME Inv, NEW c \in Clients, Refresh(c)
  PROVE  Inv'
  <1>1. PICK s : s = Active(man)
    OBVIOUS
  <1>2. PICK l : l = IF man[s].st \in {"SUCCEEDED", "SCHEDULER_COMPLETED"} THEN "recover" ELSE "query"
    OBVIOUS
  <1>3. PICK o : o = [Loaded EXCEPT !.stage = s, !.pc = l]
    OBVIOUS
  <1>4. /\ s # "wbl" /\ Reconcilable(man, s) /\ op[c] = Idle
        /\ op' = [op EXCEPT ![c] = o] /\ UNCHANGED Remote /\ Works
    BY <1>1, <1>2, <1>3 DEF Refresh, Local, Remote, Works
  <1>5. s \in Stages /\ (s = "opt" => man.wbl.st = "ABSENT") /\ l \in {"recover", "query"}
    BY <1>1, <1>2, <1>4 DEF Active, Stages
  <1>6. /\ o \in Operations /\ o.pc = l /\ o.stage = s /\ o.view = man /\ o.cand = NoProject
        /\ o.run = NoResult
    <2>1. o \in Operations
      BY <1>3, <1>5, IdleType, OpTypes DEF Loaded, Operations, PCs, Jobs, Stages, Inv
    <2> QED BY <1>3, <2>1 DEF Loaded, Idle
  <1>7. KnowsStage(o)
    BY <1>2, <1>4, <1>5, <1>6 DEF KnowsStage, Reconcilable
  <1>8. ViewDated(o) /\ man # NoProject
    BY <1>4, <1>6, LoadedView DEF Reconcilable
  <1>9. OpTrue(o)
    BY <1>5, <1>6, <1>7, <1>8, NoRun
       DEF OpTrue, CreatesAlone, CreatingPCs, SavesOneStage, WblPCs, LockedPCs, BeforePCs, AfterPCs
  <1> QED BY <1>4, <1>5, <1>6, <1>8, <1>9, LocalStep

----------------------------------------------------------------------------
(* Refresh: the scheduler is asked, the files are assessed.                *)

\* The operation goes on to save a true copy.
LEMMA SaveTrue ==
  ASSUME NEW x, OpTrue(x), x.pc \notin CreatingPCs \cup {"idle", "import_discard"} \cup WblPCs,
         NEW o, o.pc = "save", o.view = x.view, o.run = x.run, CopyTrue(o.cand)
  PROVE  CreatesAlone(o) /\ ViewDated(o) /\ KnowsStage(o) /\ KnowsResult(o)
  BY NoRun, NoStage DEF OpTrue, CreatesAlone, CreatingPCs, ViewDated, KnowsResult, WblPCs,
     LockedPCs, BeforePCs, AfterPCs

\* The stage of an operation that asks or assesses.
LEMMA StageKnown ==
  ASSUME NEW x \in Operations, OpTrue(x)
  PROVE  /\ x.view \in Manifests /\ x.stage \in Stages /\ CopyTrue(x.view)
         /\ StageTrue(x.view, x.stage)
         /\ x.view[x.stage] \in StageRecord
         /\ x.view["opt"] = x.view.opt /\ x.view["freq"] = x.view.freq
  <1>1. x.view \in Manifests /\ x.stage \in Stages /\ CopyTrue(x.view)
    BY OperationFields DEF OpTrue, ViewDated, Stages
  <1> QED BY <1>1, ManifestFields DEF CopyTrue, Stages

\* What the scheduler says of a job that exists.
LEMMA ReportedOf ==
  ASSUME Inv, NEW s \in Stages, jobs[s] # "none", NEW status \in Reported(s)
  PROVE  /\ status \in {"UNRESOLVED", "QUEUED", "FAILED", "COMPLETED"}
         /\ status = "FAILED" => jobs[s] = "failed"
         /\ status = "COMPLETED" => jobs[s] \in DOMAIN Left
  <1>1. jobs[s] \in JobStates
    BY DEF Inv, TypeOK, Jobs, Stages
  <1> QED BY <1>1, LeftStates DEF Reported

\* What the scheduler said, in a copy.
LEMMA QuerySaves ==
  ASSUME Inv, NEW c \in Clients, NEW x \in Operations, x = op[c], OpTrue(x), x.pc = "query",
         NEW st \in {"SCHEDULER_COMPLETED", "QUEUED", "FAILED"},
         st = "SCHEDULER_COMPLETED" => jobs[x.stage] \in DOMAIN Left,
         st = "FAILED" => jobs[x.stage] = "failed",
         NEW l \in {"recover", "idle"}, l = "recover" => st = "SCHEDULER_COMPLETED",
         WillSave(c, WithStage(x.view, x.stage,
                               [x.view[x.stage] EXCEPT !.st = st, !.cancel = FALSE]), l),
         UNCHANGED Remote, Works
  PROVE  Inv'
  <1>1. PICK s : s = x.stage
    OBVIOUS
  <1>2. PICK v : v = x.view
    OBVIOUS
  <1>3. PICK r : r = [v[s] EXCEPT !.st = st, !.cancel = FALSE]
    OBVIOUS
  <1>4. PICK m : m = WithStage(v, s, r)
    OBVIOUS
  <1>5. /\ v \in Manifests /\ s \in Stages /\ CopyTrue(v) /\ StageTrue(v, s) /\ v[s] \in StageRecord
        /\ v["opt"] = v.opt /\ v["freq"] = v.freq
    BY <1>1, <1>2, StageKnown
  <1>6. /\ v[s].job # NoJob /\ v[s].st \notin {"SUCCEEDED", "SCHEDULER_COMPLETED"}
        /\ s = "opt" => v.wbl.st = "ABSENT"
    BY <1>1, <1>2 DEF OpTrue, KnowsStage
  <1>7. r \in StageRecord /\ r.st = st /\ r.job = v[s].job
    BY <1>3, <1>5 DEF StageRecord, StageStates
  <1>8. /\ m \in Manifests /\ m.rev = v.rev /\ m.import = v.import /\ m.wbl = v.wbl
        /\ m[s] = r
        /\ s = "opt" => m.opt = r /\ m.freq = v.freq
        /\ s = "freq" => m.freq = r /\ m.opt = v.opt
    BY <1>4, <1>5, <1>7, WithStageFields
  <1>9. StageTrue(m, s)
    BY <1>1, <1>5, <1>6, <1>7, <1>8, LeftStates DEF StageTrue
  <1>10. CopyTrue(m)
    BY <1>4, <1>5, <1>6, <1>7, <1>9, CopyWithStage
  <1>11. PICK o \in Operations :
           /\ op' = [op EXCEPT ![c] = o] /\ o.pc = "save" /\ o.cand = m /\ o.then = l
           /\ o.view = v /\ o.stage = s /\ o.run = x.run
    <2>1. l \in PCs /\ WillSave(c, m, l)
      BY <1>1, <1>2, <1>3, <1>4 DEF PCs
    <2> QED BY <1>1, <1>2, <1>8, <2>1, WillSaveFields DEF Inv
  <1>12. CreatesAlone(o) /\ ViewDated(o) /\ KnowsStage(o) /\ KnowsResult(o)
    BY <1>2, <1>10, <1>11, SaveTrue DEF CreatingPCs, WblPCs, LockedPCs, BeforePCs, AfterPCs
  <1>13. SavesOneStage(o)
    BY <1>5, <1>6, <1>7, <1>8, <1>11 DEF SavesOneStage, Stages
  <1>14. op[c] # Idle /\ o.run = op[c].run
    BY <1>11 DEF Idle
  <1> QED BY <1>11, <1>12, <1>13, <1>14, LocalStep DEF OpTrue

LEMMA QueryInv ==
  ASSUME Inv, NEW c \in Clients, Query(c)
  PROVE  Inv'
  <1>1. PICK x \in Operations : x = op[c] /\ OpTrue(x) /\ KnowsStage(x)
    BY Known
  <1>2. PICK s : s = x.stage
    OBVIOUS
  <1>3. PICK j : j = x.view[s].job
    OBVIOUS
  <1>4. x.pc = "query" /\ UNCHANGED Remote
    BY <1>1 DEF Query, At, Remote
  <1>5. s \in Stages /\ StageTrue(x.view, s) /\ j # NoJob
    BY <1>1, <1>2, <1>3, <1>4, StageKnown DEF KnowsStage
  <1>6. j = s /\ jobs[s] # "none"
    BY <1>3, <1>5 DEF StageTrue
  <1>7. CASE Breaks /\ End(c)
    BY <1>4, <1>7, EndLocal
  <1>8. ASSUME Works, NEW status \in Reported(j),
               CASE status = "COMPLETED" ->
                      WillSave(c, WithStage(x.view, s, [x.view[s] EXCEPT !.st = "SCHEDULER_COMPLETED",
                                                                         !.cancel = FALSE]),
                               "recover")
                 [] status = "UNRESOLVED" -> End(c)
                 [] OTHER -> WillSave(c, WithStage(x.view, s, [x.view[s] EXCEPT !.st = status,
                                                                                !.cancel = FALSE]),
                                      "idle")
        PROVE  Inv'
    <2>1. /\ status \in {"UNRESOLVED", "QUEUED", "FAILED", "COMPLETED"}
          /\ status = "FAILED" => jobs[s] = "failed"
          /\ status = "COMPLETED" => jobs[s] \in DOMAIN Left
      BY <1>5, <1>6, <1>8, ReportedOf
    <2>2. CASE status = "UNRESOLVED"
      BY <1>4, <1>8, <2>2, EndLocal
    <2>3. CASE status = "COMPLETED"
      BY <1>1, <1>2, <1>4, <1>8, <2>1, <2>3, QuerySaves
    <2>4. CASE status \in {"QUEUED", "FAILED"}
      BY <1>1, <1>2, <1>4, <1>8, <2>1, <2>4, QuerySaves
    <2> QED BY <2>1, <2>2, <2>3, <2>4
  <1>9. \/ Breaks /\ End(c)
        \/ /\ Works
           /\ \E status \in Reported(j) :
               CASE status = "COMPLETED" ->
                      WillSave(c, WithStage(x.view, s, [x.view[s] EXCEPT !.st = "SCHEDULER_COMPLETED",
                                                                         !.cancel = FALSE]),
                               "recover")
                 [] status = "UNRESOLVED" -> End(c)
                 [] OTHER -> WillSave(c, WithStage(x.view, s, [x.view[s] EXCEPT !.st = status,
                                                                                !.cancel = FALSE]),
                                      "idle")
    BY <1>1, <1>2, <1>3 DEF Query
  <1> QED BY <1>7, <1>8, <1>9

\* A record assessed again stays a record, of the same job.
LEMMA AssessedFields ==
  ASSUME NEW old \in StageRecord, NEW s, NEW e
  PROVE  /\ Assessed(old, s, e) \in StageRecord /\ Assessed(old, s, e).job = old.job
         /\ Assessed(old, s, e).gbw = (s = "opt" /\ "gbw" \in e)
         /\ Assessed(old, s, e).cancel = old.cancel
         /\ s = "opt" /\ "limit" \in e => Assessed(old, s, e).st = "FAILED"
         /\ ~(s = "opt" /\ "limit" \in e) /\ Proof[s] \subseteq e => Assessed(old, s, e).st = "SUCCEEDED"
         /\ ~(s = "opt" /\ "limit" \in e) /\ ~(Proof[s] \subseteq e) =>
              Assessed(old, s, e).st = "SCHEDULER_COMPLETED"
  <1>1. PICK st : st = IF s = "opt" /\ "limit" \in e THEN "FAILED"
                       ELSE IF Proof[s] \subseteq e THEN "SUCCEEDED"
                       ELSE "SCHEDULER_COMPLETED"
    OBVIOUS
  <1>2. PICK g : g = (s = "opt" /\ "gbw" \in e)
    OBVIOUS
  <1>3. Assessed(old, s, e) = [old EXCEPT !.st = st, !.gbw = g]
    <2>1. Assessed(old, s, e) =
            [old EXCEPT
               !.st = IF s = "opt" /\ "limit" \in e THEN "FAILED"
                      ELSE IF Proof[s] \subseteq e THEN "SUCCEEDED"
                      ELSE "SCHEDULER_COMPLETED",
               !.gbw = (s = "opt" /\ "gbw" \in e)]
      BY DEF Assessed
    <2> QED BY <1>1, <1>2, <2>1, Zenon
  <1>4. /\ s = "opt" /\ "limit" \in e => st = "FAILED"
        /\ ~(s = "opt" /\ "limit" \in e) /\ Proof[s] \subseteq e => st = "SUCCEEDED"
        /\ ~(s = "opt" /\ "limit" \in e) /\ ~(Proof[s] \subseteq e) => st = "SCHEDULER_COMPLETED"
        /\ st \in StageStates
    <2>3. CASE s = "opt" /\ "limit" \in e
      BY <1>1, <2>3 DEF StageStates
    <2>4. CASE ~(s = "opt" /\ "limit" \in e) /\ Proof[s] \subseteq e
      BY <1>1, <2>4 DEF StageStates
    <2>5. CASE ~(s = "opt" /\ "limit" \in e) /\ ~(Proof[s] \subseteq e)
      BY <1>1, <2>5 DEF StageStates
    <2> QED BY <2>3, <2>4, <2>5
  <1>5. g \in BOOLEAN
    BY <1>2
  <1>6. PICK new : new = [old EXCEPT !.st = st, !.gbw = g]
    OBVIOUS
  <1>7. new \in StageRecord /\ new.job = old.job /\ new.gbw = g /\ new.cancel = old.cancel /\ new.st = st
    BY <1>4, <1>5, <1>6 DEF StageRecord
  <1> QED BY <1>2, <1>3, <1>4, <1>6, <1>7

LEMMA SameRecord ==
  ASSUME NEW a \in StageRecord, NEW b \in StageRecord, a.st = b.st, a.job = b.job,
         a.cancel = b.cancel, a.gbw = b.gbw
  PROVE  a = b
  <1>1. \A r \in StageRecord : r = [st |-> r.st, job |-> r.job, cancel |-> r.cancel, gbw |-> r.gbw]
    BY DEF StageRecord
  <1>2. /\ a = [st |-> a.st, job |-> a.job, cancel |-> a.cancel, gbw |-> a.gbw]
        /\ b = [st |-> b.st, job |-> b.job, cancel |-> b.cancel, gbw |-> b.gbw]
    BY <1>1
  <1> QED BY <1>2, Zenon

\* An accepted record says of its job what an assessment says again.
LEMMA AssessedAgain ==
  ASSUME NEW old \in StageRecord, NEW s \in Stages, NEW j \in DOMAIN Left, old.st = "SUCCEEDED",
         Proof[s] \subseteq Left[j], old.gbw = (s = "opt" /\ "gbw" \in Left[j])
  PROVE  Assessed(old, s, Left[j]) = old
  <1>1. PICK new : new = Assessed(old, s, Left[j])
    OBVIOUS
  <1>2. ~(s = "opt" /\ "limit" \in Left[j])
    BY DEF Left, Proof
  <1>3. /\ new \in StageRecord /\ new.job = old.job /\ new.cancel = old.cancel
        /\ new.gbw = old.gbw /\ new.st = old.st
    BY <1>1, <1>2, AssessedFields
  <1>4. new = old
    BY <1>3, SameRecord
  <1> QED BY <1>1, <1>4

LEMMA RecoverInv ==
  ASSUME Inv, NEW c \in Clients, Recover(c)
  PROVE  Inv'
  <1>1. PICK x \in Operations : x = op[c] /\ OpTrue(x) /\ KnowsStage(x)
    BY Known
  <1>2. PICK s : s = x.stage
    OBVIOUS
  <1>3. PICK v : v = x.view
    OBVIOUS
  <1>4. PICK e : e = Evidence(v, s)
    OBVIOUS
  <1>5. PICK r : r = Assessed(v[s], s, e)
    OBVIOUS
  <1>6. PICK m : m = WithStage(v, s, r)
    OBVIOUS
  <1>7. /\ x.pc = "recover" /\ UNCHANGED Remote
        /\ (Works /\ WillSave(c, m, "idle")) \/ (Breaks /\ End(c))
    BY <1>1, <1>2, <1>3, <1>4, <1>5, <1>6 DEF Recover, At, Remote
  <1>8. /\ v \in Manifests /\ s \in Stages /\ CopyTrue(v) /\ StageTrue(v, s) /\ v[s] \in StageRecord
        /\ v["opt"] = v.opt /\ v["freq"] = v.freq
    BY <1>1, <1>2, <1>3, StageKnown
  <1>9. /\ v[s].st \in {"SUCCEEDED", "SCHEDULER_COMPLETED"}
        /\ s = "opt" => v.wbl.st = "ABSENT"
    BY <1>1, <1>2, <1>3, <1>7 DEF KnowsStage
  <1>10. r \in StageRecord /\ r.job = v[s].job
         /\ r.st \in {"SUCCEEDED", "SCHEDULER_COMPLETED", "FAILED"}
    BY <1>5, <1>8, AssessedFields
  <1>11. /\ m \in Manifests /\ m.rev = v.rev /\ m.import = v.import /\ m.wbl = v.wbl
         /\ m[s] = r
         /\ s = "opt" => m.opt = r /\ m.freq = v.freq
         /\ s = "freq" => m.freq = r /\ m.opt = v.opt
    BY <1>6, <1>8, <1>10, WithStageFields
  <1>12. StageTrue(m, s) /\ (~(s = "opt" /\ v.import # "none") /\ v[s].st = "SUCCEEDED" => r = v[s])
    <2>1. CASE s = "opt" /\ v.import # "none"
      BY <1>8, <1>10, <1>11, <2>1 DEF StageTrue
    <2>2. CASE ~(s = "opt" /\ v.import # "none")
      <3>1. v[s].job = s /\ jobs[s] \in DOMAIN Left
        BY <1>8, <1>9, <2>2 DEF StageTrue
      <3>2. e = Left[jobs[s]]
        BY <1>4, <2>2, <3>1 DEF Evidence
      <3>3. v[s].st = "SUCCEEDED" => r = v[s]
        BY <1>5, <1>8, <2>2, <3>1, <3>2, AssessedAgain DEF StageTrue
      <3>4. /\ r.gbw = (s = "opt" /\ "gbw" \in e)
            /\ s = "opt" /\ "limit" \in e => r.st = "FAILED"
            /\ ~(s = "opt" /\ "limit" \in e) /\ Proof[s] \subseteq e => r.st = "SUCCEEDED"
            /\ ~(s = "opt" /\ "limit" \in e) /\ ~(Proof[s] \subseteq e) => r.st = "SCHEDULER_COMPLETED"
        BY <1>5, <1>8, AssessedFields
      <3>5. "limit" \in e => jobs[s] = "nonconverged"
        BY <3>1, <3>2 DEF Left
      <3>6. /\ m[s].job = s /\ m[s].st = r.st /\ m[s].gbw = r.gbw /\ m.import = v.import
            /\ r.st = "SUCCEEDED" => Proof[s] \subseteq Left[jobs[s]]
            /\ r.st = "FAILED" => jobs[s] = "nonconverged"
        BY <1>10, <1>11, <3>1, <3>2, <3>4, <3>5
      <3>7. StageTrue(m, s)
        BY <1>8, <1>10, <3>1, <3>2, <3>4, <3>6, LeftStates DEF StageTrue, NoJob, Stages
      <3> QED BY <3>3, <3>7
    <2> QED BY <2>1, <2>2
  <1>13. CopyTrue(m)
    BY <1>6, <1>8, <1>9, <1>10, <1>12, CopyWithStage
  <1>14. CASE Breaks /\ End(c)
    BY <1>7, <1>14, EndLocal
  <1>15. CASE Works /\ WillSave(c, m, "idle")
    <2>1. PICK o \in Operations :
           /\ op' = [op EXCEPT ![c] = o] /\ o.pc = "save" /\ o.cand = m /\ o.then = "idle"
           /\ o.view = v /\ o.stage = s /\ o.run = x.run
      <3>1. "idle" \in PCs
        BY DEF PCs
      <3> QED BY <1>1, <1>2, <1>3, <1>11, <1>15, <3>1, WillSaveFields DEF Inv
    <2>2. CreatesAlone(o) /\ ViewDated(o) /\ KnowsStage(o) /\ KnowsResult(o)
      BY <1>1, <1>3, <1>7, <1>13, <2>1, SaveTrue DEF CreatingPCs, WblPCs, LockedPCs, BeforePCs, AfterPCs
    <2>3. SavesOneStage(o)
      <3>1. r.st # "ABSENT"
        BY <1>10
      <3> QED BY <1>8, <1>11, <1>12, <2>1, <3>1 DEF SavesOneStage, Stages
    <2>4. op[c] # Idle /\ o.run = op[c].run
      BY <1>1, <1>7, <2>1 DEF Idle
    <2> QED BY <1>7, <1>15, <2>1, <2>2, <2>3, <2>4, LocalStep DEF OpTrue
  <1> QED BY <1>7, <1>14, <1>15

----------------------------------------------------------------------------
(* An import, before it is registered; the phases of a run of WBL that look. *)

LEMMA WblFailsInv ==
  ASSUME Inv, NEW c \in Clients, WblFails(c)
  PROVE  Inv'
  <1>1. PICK x \in Operations : x = op[c] /\ OpTrue(x) /\ KnowsResult(x)
    BY Known
  <1>2. x.pc = "wbl_convert" /\ UNCHANGED Remote /\ Works
    BY <1>1 DEF WblFails, At, Remote, Local, Works
  <1>3. PICK o \in Operations :
          /\ op' = [op EXCEPT ![c] = o] /\ o.pc = "wbl_check" /\ o.view = x.view /\ o.cand = x.cand
          /\ o.run = x.run /\ o.prev = x.prev
    <2>1. "wbl_check" \in PCs /\ Goto(c, "wbl_check")
      BY DEF PCs, WblFails
    <2> QED BY <1>1, <2>1, GotoFields DEF Inv
  <1>4. KnowsResult(o)
    BY <1>1, <1>2, <1>3 DEF KnowsResult, WblPCs, LockedPCs, BeforePCs, AfterPCs, Undoable, Untouched
  <1>5. OpTrue(o)
    BY <1>1, <1>2, <1>3, <1>4, WblGoto DEF WblPCs, LockedPCs, BeforePCs
  <1>6. op[c] # Idle
    BY <1>1, <1>2 DEF Idle
  <1> QED BY <1>1, <1>2, <1>3, <1>5, <1>6, LocalStep

LEMMA RecheckInv ==
  ASSUME Inv, NEW c \in Clients, Recheck(c)
  PROVE  Inv'
  <1>1. PICK x \in Operations : x = op[c] /\ OpTrue(x) /\ KnowsResult(x)
    BY Known
  <1>2. /\ x.pc = "wbl_recheck" /\ UNCHANGED Remote /\ (Breaks \/ Works)
        /\ \E l \in {"wbl_publish", "wbl_aside", "wbl_check"} :
             Goto(c, l) /\ (l = "wbl_publish" => x.prev = NoResult)
    BY <1>1 DEF Recheck, At, Remote
  <1>3. PICK l \in {"wbl_publish", "wbl_aside", "wbl_check"} :
             Goto(c, l) /\ (l = "wbl_publish" => x.prev = NoResult)
    BY <1>2
  <1>4. PICK o \in Operations :
          /\ op' = [op EXCEPT ![c] = o] /\ o.pc = l /\ o.view = x.view /\ o.cand = x.cand
          /\ o.run = x.run /\ o.prev = x.prev
    <2>1. l \in PCs
      BY <1>3 DEF PCs
    <2> QED BY <1>1, <1>3, <2>1, GotoFields DEF Inv
  <1>5. KnowsResult(o)
    BY <1>1, <1>2, <1>3, <1>4
       DEF KnowsResult, WblPCs, LockedPCs, BeforePCs, AfterPCs, Undoable, Untouched, MovedAside
  <1>6. OpTrue(o)
    BY <1>1, <1>2, <1>3, <1>4, <1>5, WblGoto DEF WblPCs, LockedPCs, BeforePCs
  <1>7. op[c] # Idle /\ o.pc # "dispatch"
    BY <1>1, <1>2, <1>3, <1>4 DEF Idle
  <1> QED BY <1>1, <1>2, <1>4, <1>6, <1>7, LocalStep

LEMMA CheckFailureInv ==
  ASSUME Inv, NEW c \in Clients, CheckFailure(c)
  PROVE  Inv'
  <1>1. PICK x \in Operations : x = op[c] /\ OpTrue(x) /\ KnowsResult(x)
    BY Known
  <1>2. /\ x.pc = "wbl_check" /\ UNCHANGED Remote /\ (Breaks \/ Works)
        /\ (man = x.view /\ Goto(c, "wbl_rollback")) \/ End(c)
    BY <1>1 DEF CheckFailure, StillOurs, At, Remote
  <1>3. CASE End(c)
    BY <1>2, <1>3, EndLocal
  <1>4. CASE man = x.view /\ Goto(c, "wbl_rollback")
    <2>1. PICK o \in Operations :
            /\ op' = [op EXCEPT ![c] = o] /\ o.pc = "wbl_rollback" /\ o.view = x.view
            /\ o.cand = x.cand /\ o.run = x.run /\ o.prev = x.prev
      <3>1. "wbl_rollback" \in PCs
        BY DEF PCs
      <3> QED BY <1>1, <1>4, <3>1, GotoFields DEF Inv
    <2>2. KnowsResult(o)
      BY <1>1, <1>2, <1>4, <2>1
         DEF KnowsResult, WblPCs, LockedPCs, BeforePCs, AfterPCs, Undoable, Untouched, MovedAside,
             MovedIn
    <2>3. OpTrue(o)
      BY <1>1, <1>2, <2>1, <2>2, WblGoto DEF WblPCs, LockedPCs
    <2>4. op[c] # Idle
      BY <1>1, <1>2 DEF Idle
    <2> QED BY <1>1, <1>2, <2>1, <2>3, <2>4, LocalStep
  <1> QED BY <1>2, <1>3, <1>4

\* Nothing of this run's is in place: what rollback does next.
LEMMA RollbackGoes ==
  ASSUME Inv, NEW c \in Clients, NEW x \in Operations, x = op[c], OpTrue(x), x.pc = "wbl_rollback",
         NEW l \in {"wbl_restore", "wbl_undo"}, Goto(c, l), UNCHANGED Remote, Works,
         l = "wbl_restore" => MovedAside(x), l = "wbl_undo" => final = x.prev
  PROVE  Inv'
  <1>1. PICK o \in Operations :
          /\ op' = [op EXCEPT ![c] = o] /\ o.pc = l /\ o.view = x.view
          /\ o.cand = x.cand /\ o.run = x.run /\ o.prev = x.prev
    <2>1. l \in PCs
      BY DEF PCs
    <2> QED BY <2>1, GotoFields DEF Inv
  <1>2. KnowsResult(o)
    BY <1>1 DEF OpTrue, KnowsResult, WblPCs, LockedPCs, BeforePCs, AfterPCs, MovedAside
  <1>3. OpTrue(o)
    BY <1>1, <1>2, WblGoto DEF WblPCs, LockedPCs
  <1>4. op[c] # Idle
    BY DEF Idle
  <1> QED BY <1>1, <1>3, <1>4, LocalStep

LEMMA RecordDigestsInv ==
  ASSUME Inv, NEW c \in Clients, RecordDigests(c)
  PROVE  Inv'
  <1>1. PICK x \in Operations : x = op[c] /\ OpTrue(x) /\ KnowsResult(x)
    BY Known
  <1>2. PICK o : o = [x EXCEPT !.pc = "import_shown", !.sums = source]
    OBVIOUS
  <1>3. /\ x.pc = "import_digest" /\ UNCHANGED Remote
        /\ (op' = [op EXCEPT ![c] = o] /\ Works) \/ (End(c) /\ Breaks)
    BY <1>1, <1>2 DEF RecordDigests, At, Remote
  <1>4. CASE End(c) /\ Breaks
    BY <1>3, <1>4, EndLocal
  <1>5. CASE op' = [op EXCEPT ![c] = o] /\ Works
    <2>1. /\ o \in Operations /\ o.pc = "import_shown" /\ o.view = x.view /\ o.cand = x.cand
          /\ o.run = x.run
      <3>1. source \in Versions
        BY DEF Inv, TypeOK
      <3>2. o \in Operations
        BY <1>2, <3>1 DEF Operations, PCs
      <3> QED BY <1>2, <3>2 DEF Operations
    <2>2. OpTrue(o)
      BY <1>1, <1>3, <2>1, NoRun, NoStage
         DEF OpTrue, CreatesAlone, CreatingPCs, ViewDated, SavesOneStage, KnowsResult, WblPCs,
             LockedPCs, BeforePCs, AfterPCs
    <2>3. op[c] # Idle
      BY <1>1, <1>3 DEF Idle
    <2> QED BY <1>1, <1>3, <1>5, <2>1, <2>2, <2>3, LocalStep
  <1> QED BY <1>3, <1>4, <1>5

LEMMA ImportLocalInv ==
  ASSUME Inv, NEW c \in Clients, Import(c) \/ ImportSeen(c)
  PROVE  Inv'
  <1>1. PICK x \in Operations : x = op[c] /\ OpTrue(x) /\ KnowsResult(x)
    BY Known
  <1>2. /\ UNCHANGED Remote /\ (Breaks \/ Works)
        /\ \/ End(c)
           \/ x.pc = "import_shown" /\ Goto(c, "import_copy")
           \/ x.pc = "import_seen" /\ Goto(c, "import_discard")
    BY <1>1 DEF Import, ImportSeen, At, Remote, Local, Works
  <1>3. CASE End(c)
    BY <1>2, <1>3, EndLocal
  <1>4. ASSUME NEW l \in {"import_copy", "import_discard"}, Goto(c, l),
               \/ x.pc = "import_shown" /\ l = "import_copy"
               \/ x.pc = "import_seen" /\ l = "import_discard"
        PROVE  Inv'
    <2>1. PICK o \in Operations :
            /\ op' = [op EXCEPT ![c] = o] /\ o.pc = l /\ o.view = x.view
            /\ o.cand = x.cand /\ o.run = x.run
      <3>1. l \in PCs
        BY <1>4 DEF PCs
      <3> QED BY <1>1, <1>4, <3>1, GotoFields DEF Inv
    <2>2. OpTrue(o)
      BY <1>1, <1>4, <2>1, NoRun, NoStage
         DEF OpTrue, CreatesAlone, CreatingPCs, ViewDated, SavesOneStage, KnowsResult, WblPCs,
             LockedPCs, BeforePCs, AfterPCs
    <2>3. op[c] # Idle /\ o.pc # "dispatch"
      BY <1>1, <1>4, <2>1 DEF Idle
    <2> QED BY <1>1, <1>2, <2>1, <2>2, <2>3, LocalStep
  <1> QED BY <1>2, <1>3, <1>4

----------------------------------------------------------------------------
(* Steps that change the jobs, their cancellations or an import's files.   *)

LEMMA SideStep ==
  ASSUME Inv, NEW c \in Clients, NEW o \in Operations, op' = [op EXCEPT ![c] = o],
         UNCHANGED <<man, source, wblVars>>, Breaks \/ Works, op[c].pc # "idle",
         files' \in Versions \cup {"none"}, jobs' \in [Jobs -> JobStates],
         killed \subseteq killed', killed' \subseteq Jobs, JobsForward,
         \A s \in Stages : jobs[s] = "none" /\ jobs'[s] # "none" =>
           op[c].pc = "dispatch" /\ op[c].stage = s,
         man.import # "none" => files' \in {man.import, "none"},
         o = Idle \/ OpTrue(o)', o.pc # "dispatch", o.run \in {op[c].run, NoResult}
  PROVE  Inv'
  <1>1. /\ UNCHANGED <<man, source, final, staging, backup, snapshot>>
        /\ faults' \in 0..MaxFaults /\ op' \in [Clients -> Operations]
    BY FaultsType, OpTypes DEF Inv, wblVars
  <1>2. TypeOK'
    BY <1>1 DEF Inv, TypeOK, WblTypeOK
  <1>3. RemoteTrue'
    <2>1. CopyTrue(man)'
      <3>1. PICK m : m = man
        OBVIOUS
      <3>2. CopyTrue(m)'
        BY <3>1, CopyStays DEF Inv, RemoteTrue
      <3> QED BY <1>1, <3>1, <3>2 DEF CopyTrue, StageTrue
    <2>2. PICK x \in Operations : x = op[c] /\ CreatesAlone(x) /\ KnowsStage(x)
      BY Known
    <2>3. /\ x.pc = "dispatch" => man # NoProject
          /\ x.pc = "dispatch" /\ x.stage = "freq" => man.freq.st # "ABSENT"
      BY <2>2 DEF CreatesAlone, CreatingPCs, KnowsStage
    <2>4. /\ man = NoProject => jobs'["opt"] = "none"
          /\ man.freq.st = "ABSENT" => jobs'["freq"] = "none"
      BY <2>2, <2>3 DEF Inv, RemoteTrue, Stages
    <2> QED BY <1>1, <2>1, <2>4 DEF Inv, RemoteTrue
  <1>4. ResultInPlace'
    BY <1>1 DEF Inv, ResultInPlace, WblResultKept
  <1>5. OpTrue(o)'
    <2>1. CASE o = Idle
      <3>1. OpTrue(Idle)'
        BY <1>2, <1>3, IdleTrue
      <3> QED BY <2>1, <3>1
    <2> QED BY <2>1
  <1>6. Advance(c, o)
    <2>1. op[c] # Idle
      BY DEF Idle
    <2> QED BY <1>1, <2>1 DEF Advance
  <1> QED BY <1>2, <1>3, <1>4, <1>5, <1>6, StepTrue

LEMMA SideView ==
  ASSUME JobsForward, man' = man, NEW o, ViewDated(o)
  PROVE  ViewDated(o)'
  BY CopyStays DEF ViewDated

LEMMA ImportDiscardInv ==
  ASSUME Inv, NEW c \in Clients, ImportDiscard(c)
  PROVE  Inv'
  <1>1. /\ op' = [op EXCEPT ![c] = Idle] /\ UNCHANGED <<man, source, jobs, killed, wblVars>>
        /\ op[c].pc = "import_discard" /\ files' \in {files, "none"} /\ (Breaks \/ Works)
    BY DEF ImportDiscard, End, At
  <1>2. JobsForward
    BY <1>1 DEF JobsForward
  <1>3. /\ files' \in Versions \cup {"none"} /\ jobs' \in [Jobs -> JobStates] /\ killed' \subseteq Jobs
        /\ man.import # "none" => files' \in {man.import, "none"}
    BY <1>1 DEF Inv, TypeOK, RemoteTrue
  <1>4. Idle.pc # "dispatch" /\ Idle.run = NoResult
    BY DEF Idle
  <1> QED BY <1>1, <1>2, <1>3, <1>4, IdleType, SideStep

LEMMA ImportCopyInv ==
  ASSUME Inv, NEW c \in Clients, ImportCopy(c)
  PROVE  Inv'
  <1>1. PICK x \in Operations : x = op[c] /\ OpTrue(x) /\ CreatesAlone(x) /\ ViewDated(x) /\ KnowsResult(x)
    BY Known
  <1>2. /\ UNCHANGED <<man, source, jobs, killed, wblVars>> /\ (Breaks \/ Works)
        /\ x.pc = "import_copy" /\ files' = source
        /\ \E l \in {"import_register", "import_discard"} :
             Goto(c, l) /\ (l = "import_register" => source = x.sums)
    BY <1>1 DEF ImportCopy, At, CopyVerified
  <1>3. PICK l \in {"import_register", "import_discard"} :
             Goto(c, l) /\ (l = "import_register" => source = x.sums)
    BY <1>2
  <1>4. PICK o \in Operations :
          /\ op' = [op EXCEPT ![c] = o] /\ o.pc = l /\ o.view = x.view
          /\ o.cand = x.cand /\ o.run = x.run /\ o.sums = x.sums
    <2>1. l \in PCs
      BY <1>3 DEF PCs
    <2> QED BY <1>1, <1>3, <2>1, GotoFields DEF Inv
  <1>5. JobsForward
    BY <1>2 DEF JobsForward
  <1>6. ViewDated(o)'
    <2>1. ViewDated(o)
      BY <1>1, <1>4 DEF ViewDated
    <2> QED BY <1>2, <1>5, <2>1, SideView
  <1>7. man = NoProject /\ man.import = "none"
    BY <1>1, <1>2 DEF CreatesAlone, CreatingPCs, NoProject
  <1>8. CreatesAlone(o)'
    BY <1>2, <1>3, <1>4, <1>7 DEF CreatesAlone, CreatingPCs
  <1>9. KnowsResult(o)' /\ KnowsStage(o)' /\ SavesOneStage(o)'
    BY <1>1, <1>2, <1>3, <1>4
       DEF KnowsResult, WblPCs, LockedPCs, BeforePCs, AfterPCs, KnowsStage, SavesOneStage
  <1>10. OpTrue(o)'
    BY <1>6, <1>8, <1>9 DEF OpTrue
  <1>11. /\ files' \in Versions \cup {"none"} /\ jobs' \in [Jobs -> JobStates] /\ killed' \subseteq Jobs
    BY <1>2 DEF Inv, TypeOK
  <1> QED BY <1>1, <1>2, <1>3, <1>4, <1>5, <1>7, <1>10, <1>11, SideStep

----------------------------------------------------------------------------
(* Cancellation.                                                           *)

\* The record of a cancellation, in a copy.
LEMMA CancelCopy ==
  ASSUME NEW m \in Manifests, CopyTrue(m), NEW s \in Stages, m[s].job # NoJob,
         m[s].st \notin {"SUCCEEDED", "SCHEDULER_COMPLETED"}, s = "opt" => m.wbl.st = "ABSENT",
         NEW x, x = CancelRequested(m, s)
  PROVE  /\ x \in Manifests /\ CopyTrue(x) /\ x.rev = m.rev /\ x.import = m.import /\ x.wbl = m.wbl
         /\ x[s].job = s /\ m[s].job = s /\ jobs[s] # "none"
         /\ m.opt.st = "SUCCEEDED" => x.opt = m.opt
         /\ m.freq.st = "SUCCEEDED" => x.freq = m.freq
         /\ x.freq.st = "ABSENT" => m.freq.st = "ABSENT"
  <1>1. PICK r : r = [m[s] EXCEPT !.st = "UNKNOWN", !.cancel = TRUE]
    OBVIOUS
  <1>2. m["opt"] = m.opt /\ m["freq"] = m.freq /\ m[s] \in StageRecord /\ StageTrue(m, s)
    BY ManifestFields DEF Stages, CopyTrue
  <1>3. r \in StageRecord /\ r.st = "UNKNOWN" /\ r.job = m[s].job /\ m[s].job = s /\ jobs[s] # "none"
    <2>1. r \in StageRecord /\ r.st = "UNKNOWN" /\ r.job = m[s].job
      BY <1>1, <1>2 DEF StageRecord, StageStates
    <2>2. m[s].job = s /\ jobs[s] # "none"
      BY <1>2 DEF StageTrue
    <2> QED BY <2>1, <2>2
  <1>4. x = WithStage(m, s, r)
    BY <1>1 DEF CancelRequested
  <1>5. /\ x \in Manifests /\ x.rev = m.rev /\ x.import = m.import /\ x.wbl = m.wbl /\ x[s] = r
        /\ s = "opt" => x.opt = r /\ x.freq = m.freq
        /\ s = "freq" => x.freq = r /\ x.opt = m.opt
    BY <1>3, <1>4, WithStageFields
  <1>6. StageTrue(x, s)
    BY <1>2, <1>3, <1>5 DEF StageTrue
  <1>7. CopyTrue(x)
    BY <1>3, <1>4, <1>6, CopyWithStage
  <1> QED BY <1>2, <1>3, <1>5, <1>7 DEF Stages

\* A request that is refused, or whose answer comes too late, ends the operation.
LEMMA KilledEnds ==
  ASSUME Inv, NEW c \in Clients, op[c].pc # "idle", NEW j \in Jobs,
         killed' \in {killed, killed \cup {j}}, Breaks \/ Works, End(c),
         UNCHANGED <<man, files, source, jobs, wblVars>>
  PROVE  Inv'
  <1>1. op' = [op EXCEPT ![c] = Idle]
    BY DEF End
  <1>2. JobsForward
    BY DEF JobsForward
  <1>3. /\ files' \in Versions \cup {"none"} /\ jobs' \in [Jobs -> JobStates]
        /\ killed \subseteq killed' /\ killed' \subseteq Jobs
        /\ man.import # "none" => files' \in {man.import, "none"}
    BY DEF Inv, TypeOK, RemoteTrue
  <1>4. Idle.pc # "dispatch" /\ Idle.run = NoResult
    BY DEF Idle
  <1> QED BY <1>1, <1>2, <1>3, <1>4, IdleType, SideStep

\* A request that is taken: the operation goes on to record it.
LEMMA KilledSaves ==
  ASSUME Inv, NEW c \in Clients, op[c].pc # "idle", NEW s \in Stages, NEW o \in Operations,
         op' = [op EXCEPT ![c] = o], killed' = killed \cup {s}, Works,
         UNCHANGED <<man, files, source, jobs, wblVars>>,
         o.pc = "save", o.then \in {"idle", "replace"}, o.run = NoResult, o.stage = s \/ o.then = "idle",
         man # NoProject, ViewDated(o), o.view \in Manifests,
         o.view[s].job # NoJob, o.view[s].st \notin {"SUCCEEDED", "SCHEDULER_COMPLETED"},
         s = "opt" => o.view.wbl.st = "ABSENT", o.cand = CancelRequested(o.view, s)
  PROVE  Inv'
  <1>1. PICK v : v = o.view
    OBVIOUS
  <1>2. PICK x : x = o.cand
    OBVIOUS
  <1>3. /\ x \in Manifests /\ CopyTrue(x) /\ x.rev = v.rev /\ x.import = v.import /\ x.wbl = v.wbl
        /\ x[s].job = s /\ v[s].job = s /\ jobs[s] # "none"
        /\ v.opt.st = "SUCCEEDED" => x.opt = v.opt
        /\ v.freq.st = "SUCCEEDED" => x.freq = v.freq
        /\ x.freq.st = "ABSENT" => v.freq.st = "ABSENT"
    BY <1>1, <1>2, CancelCopy DEF ViewDated
  <1>4. JobsForward
    BY DEF JobsForward
  <1>5. ViewDated(o)'
    BY <1>4, SideView
  <1>6. CreatesAlone(o)' /\ KnowsStage(o)' /\ KnowsResult(o)'
    BY DEF CreatesAlone, CreatingPCs, KnowsStage, KnowsResult, WblPCs, LockedPCs, BeforePCs, AfterPCs
  <1>7. SavesOneStage(o)'
    BY <1>1, <1>2, <1>3 DEF SavesOneStage
  <1>8. OpTrue(o)'
    BY <1>5, <1>6, <1>7 DEF OpTrue
  <1>9. /\ files' \in Versions \cup {"none"} /\ jobs' \in [Jobs -> JobStates]
        /\ killed \subseteq killed' /\ killed' \subseteq Jobs
        /\ man.import # "none" => files' \in {man.import, "none"}
    BY DEF Inv, TypeOK, RemoteTrue, Jobs, Stages
  <1> QED BY <1>4, <1>8, <1>9, SideStep

LEMMA CancelActiveInv ==
  ASSUME Inv, NEW c \in Clients, CancelActive(c)
  PROVE  Inv'
  <1>1. PICK s : s = Active(man)
    OBVIOUS
  <1>2. PICK m : m = CancelRequested(man, s)
    OBVIOUS
  <1>3. PICK o : o = [Loaded EXCEPT !.pc = "save", !.cand = m]
    OBVIOUS
  <1>4. /\ op[c].pc = "asked" /\ s # "wbl" /\ man[s].st \in Unfinished /\ man[s].job # NoJob
        /\ Scancel(c, man[s].job, op' = [op EXCEPT ![c] = o])
        /\ UNCHANGED <<man, files, source, jobs, wblVars>>
    BY <1>1, <1>2, <1>3 DEF CancelActive, At
  <1>5. s \in Stages /\ (s = "opt" => man.wbl.st = "ABSENT")
    BY <1>1, <1>4 DEF Active, Stages
  <1>6. /\ man \in Manifests /\ man["opt"] = man.opt /\ man["freq"] = man.freq
        /\ man.opt \in StageRecord /\ man.freq \in StageRecord /\ CopyTrue(man)
    BY OpTypes, ManifestFields DEF Inv, RemoteTrue
  <1>7. man[s].st \notin {"SUCCEEDED", "SCHEDULER_COMPLETED"} /\ man # NoProject
    BY <1>4, <1>5 DEF Unfinished, NoProject, Absent, Stage, Stages
  <1>8. m \in Manifests /\ CopyTrue(m) /\ man[s].job = s /\ s \in Jobs
    BY <1>2, <1>4, <1>5, <1>6, <1>7, CancelCopy DEF Stages, Jobs
  <1>9. /\ o \in Operations /\ o.pc = "save" /\ o.cand = m /\ o.view = man /\ o.then = "idle"
        /\ o.run = NoResult
    <2>1. o \in Operations
      BY <1>3, <1>6, <1>8, IdleType DEF Loaded, Operations, PCs
    <2> QED BY <1>3, <2>1 DEF Loaded, Idle
  <1>10. ViewDated(o)
    BY <1>8, <1>9, LoadedView
  <1>11. CASE killed' = killed \cup {s} /\ Works /\ op' = [op EXCEPT ![c] = o]
    BY <1>2, <1>4, <1>5, <1>6, <1>7, <1>9, <1>10, <1>11, KilledSaves
  <1>12. CASE killed' \in {killed, killed \cup {s}} /\ Breaks /\ End(c)
    BY <1>4, <1>8, <1>12, KilledEnds
  <1> QED BY <1>4, <1>8, <1>11, <1>12 DEF Scancel

LEMMA ResolvePriorInv ==
  ASSUME Inv, NEW c \in Clients, ResolvePrior(c)
  PROVE  Inv'
  <1>1. PICK x \in Operations : x = op[c] /\ OpTrue(x) /\ CreatesAlone(x) /\ ViewDated(x)
                                  /\ KnowsStage(x) /\ KnowsResult(x)
    BY Known
  <1>2. PICK s : s = x.stage
    OBVIOUS
  <1>3. PICK m : m = CancelRequested(x.view, s)
    OBVIOUS
  <1>4. x.pc = "scancel" /\ UNCHANGED <<man, files, source, jobs, wblVars>>
    BY <1>1 DEF ResolvePrior, At
  <1>5. /\ x.view \in Manifests /\ s \in Stages /\ CopyTrue(x.view)
        /\ x.view[s].job # NoJob /\ x.view[s].st \notin {"SUCCEEDED", "SCHEDULER_COMPLETED"}
        /\ s = "opt" => x.view.wbl.st = "ABSENT"
    BY <1>1, <1>2, <1>4, StageKnown DEF KnowsStage
  <1>6. m \in Manifests /\ CopyTrue(m) /\ x.view[s].job = s /\ jobs[s] # "none" /\ s \in Jobs
    BY <1>3, <1>5, CancelCopy DEF Stages, Jobs
  <1>7. /\ x.run = NoResult /\ man # NoProject
    BY <1>1, <1>4 DEF KnowsResult, WblPCs, LockedPCs, BeforePCs, AfterPCs, CreatesAlone, CreatingPCs
  <1>8. PICK status \in Reported(s) :
         \/ /\ PriorEnded(x.view, s, status)
            /\ Goto(c, "replace") /\ Works /\ UNCHANGED killed
         \/ /\ status = "QUEUED"
            /\ Scancel(c, s, WillSave(c, m, "replace"))
         \/ End(c) /\ Works /\ UNCHANGED killed
    BY <1>1, <1>2, <1>3, <1>6 DEF ResolvePrior
  <1>9. CASE End(c) /\ Works /\ UNCHANGED killed
    BY <1>4, <1>6, <1>1, <1>9, KilledEnds
  <1>10. CASE killed' \in {killed, killed \cup {s}} /\ Breaks /\ End(c)
    BY <1>4, <1>6, <1>1, <1>10, KilledEnds
  <1>11. CASE killed' = killed \cup {s} /\ Works /\ WillSave(c, m, "replace")
    <2>1. PICK o \in Operations :
           /\ op' = [op EXCEPT ![c] = o] /\ o.pc = "save" /\ o.cand = m /\ o.then = "replace"
           /\ o.view = x.view /\ o.stage = s /\ o.run = x.run
      <3>1. "replace" \in PCs
        BY DEF PCs
      <3> QED BY <1>1, <1>2, <1>6, <1>11, <3>1, WillSaveFields DEF Inv
    <2>2. ViewDated(o)
      BY <1>1, <1>6, <2>1 DEF ViewDated
    <2> QED BY <1>1, <1>3, <1>4, <1>5, <1>7, <1>11, <2>1, <2>2, KilledSaves
  <1>12. CASE PriorEnded(x.view, s, status) /\ Goto(c, "replace") /\ Works /\ UNCHANGED killed
    <2>1. jobs[s] # "live"
      BY <1>5, <1>6, <1>8, <1>12, ReportedOf, LeftStates DEF PriorEnded
    <2>2. PICK o \in Operations :
            /\ op' = [op EXCEPT ![c] = o] /\ o.pc = "replace" /\ o.view = x.view
            /\ o.cand = x.cand /\ o.run = x.run /\ o.stage = s
      <3>1. "replace" \in PCs
        BY DEF PCs
      <3> QED BY <1>1, <1>2, <1>12, <3>1, GotoFields DEF Inv
    <2>3. OpTrue(o)
      BY <1>1, <1>7, <2>1, <2>2, NoRun
         DEF OpTrue, CreatesAlone, CreatingPCs, ViewDated, SavesOneStage, KnowsStage, WblPCs,
             LockedPCs, BeforePCs, AfterPCs
    <2>4. op[c] # Idle /\ UNCHANGED Remote
      BY <1>1, <1>4, <1>12 DEF Idle, Remote
    <2> QED BY <1>7, <1>1, <1>12, <2>2, <2>3, <2>4, LocalStep
  <1> QED BY <1>8, <1>9, <1>10, <1>11, <1>12 DEF Scancel

----------------------------------------------------------------------------
(* The scheduler's jobs.                                                   *)

\* CopyWithStage, of the next state.
LEMMA CopyWithStageNext ==
  ASSUME NEW m \in Manifests, CopyTrue(m)', NEW s \in Stages, NEW r \in StageRecord,
         NEW x, x = WithStage(m, s, r), StageTrue(x, s)',
         s = "opt" /\ m.wbl.st # "ABSENT" => r.st = "SUCCEEDED"
  PROVE  CopyTrue(x)'
  <1>1. /\ x \in Manifests /\ x.import = m.import /\ x.wbl = m.wbl
        /\ s = "opt" => x.opt = r /\ x.freq = m.freq
        /\ s = "freq" => x.freq = r /\ x.opt = m.opt
    BY WithStageFields
  <1>2. x["opt"] = x.opt /\ x["freq"] = x.freq /\ m["opt"] = m.opt /\ m["freq"] = m.freq
    BY <1>1, ManifestFields
  <1>3. CASE s = "opt"
    <2>1. x["freq"] = m["freq"]
      BY <1>1, <1>2, <1>3
    <2>2. StageTrue(x, "freq")'
      BY <2>1, <1>1 DEF CopyTrue, StageTrue
    <2> QED BY <1>1, <1>3, <2>2 DEF CopyTrue
  <1>4. CASE s = "freq"
    <2>1. x["opt"] = m["opt"]
      BY <1>1, <1>2, <1>4
    <2>2. StageTrue(x, "opt")'
      BY <2>1, <1>1 DEF CopyTrue, StageTrue
    <2> QED BY <1>1, <1>4, <2>2 DEF CopyTrue
  <1> QED BY <1>3, <1>4 DEF Stages

\* The answer to sbatch, in the copy it was dispatched from.
LEMMA DispatchSaves ==
  ASSUME Inv, NEW c \in Clients, NEW x \in Operations, x = op[c], OpTrue(x), x.pc = "dispatch",
         NEW s \in Stages, s = x.stage, NEW st, NEW j,
         \/ st = "QUEUED" /\ j = s /\ jobs' = [jobs EXCEPT ![s] = "live"]
         \/ st \in {"UNKNOWN", "FAILED"} /\ j = NoJob /\ jobs' \in {jobs, [jobs EXCEPT ![s] = "live"]},
         WillSave(c, WithStage(x.view, s, Stage(st, j)), "idle"),
         UNCHANGED <<man, files, source, killed, wblVars>>, Breaks \/ Works
  PROVE  Inv'
  <1>1. PICK v : v = x.view
    OBVIOUS
  <1>2. PICK r : r = Stage(st, j)
    OBVIOUS
  <1>3. PICK m : m = WithStage(v, s, r)
    OBVIOUS
  <1>4. /\ v \in Manifests /\ CopyTrue(v) /\ v["opt"] = v.opt /\ v["freq"] = v.freq
        /\ ViewDated(x)
    BY <1>1, StageKnown DEF OpTrue
  <1>5. /\ v[s].st = "NOT_STARTED" /\ jobs[s] = "none" /\ (s = "opt" => v.wbl.st = "ABSENT")
        /\ s \in Jobs
    BY <1>1 DEF OpTrue, KnowsStage, Jobs, Stages
  <1>6. r \in StageRecord /\ r.st = st /\ r.job = j
    <2>1. st \in StageStates /\ j \in Jobs \cup {NoJob}
      BY <1>5 DEF StageStates
    <2> QED BY <1>2, <2>1, StageFields
  <1>7. /\ m \in Manifests /\ m.rev = v.rev /\ m.import = v.import /\ m.wbl = v.wbl /\ m[s] = r
        /\ s = "opt" => m.opt = r /\ m.freq = v.freq
        /\ s = "freq" => m.freq = r /\ m.opt = v.opt
    BY <1>3, <1>4, <1>6, WithStageFields
  <1>8. jobs \in [Jobs -> JobStates] /\ jobs' \in [Jobs -> JobStates]
    BY <1>5 DEF Inv, TypeOK, JobStates
  <1>9. JobsForward /\ \A t \in Stages : jobs[t] = "none" /\ jobs'[t] # "none" => t = s
    BY <1>5, <1>8 DEF JobsForward, Jobs, Stages
  <1>10. CopyTrue(v)'
    BY <1>4, <1>9, CopyStays
  <1>11. StageTrue(m, s)'
    <2>1. j = s => jobs'[s] = "live"
      BY <1>5, <1>8 DEF NoJob, Stages, Jobs
    <2>2. st \in {"QUEUED", "UNKNOWN", "FAILED"} /\ j \in {s, NoJob} /\ (st = "FAILED" => j = NoJob)
      OBVIOUS
    <2>3. m[s].st = st /\ m[s].job = j
      BY <1>6, <1>7
    <2> QED BY <2>1, <2>2, <2>3 DEF StageTrue
  <1>12. CopyTrue(m)'
    BY <1>3, <1>4, <1>5, <1>6, <1>10, <1>11, CopyWithStageNext
  <1>13. PICK o \in Operations :
           /\ op' = [op EXCEPT ![c] = o] /\ o.pc = "save" /\ o.cand = m /\ o.then = "idle"
           /\ o.view = v /\ o.stage = s /\ o.run = x.run
    <2>1. "idle" \in PCs /\ WillSave(c, m, "idle")
      BY <1>1, <1>2, <1>3 DEF PCs
    <2> QED BY <1>1, <1>7, <2>1, WillSaveFields DEF Inv
  <1>14. ViewDated(o)'
    <2>1. ViewDated(x)'
      BY <1>4, <1>9, SideView
    <2> QED BY <1>1, <1>12, <1>13, <2>1 DEF ViewDated
  <1>15. SavesOneStage(o)'
    <2>1. r.st # "ABSENT"
      BY <1>6
    <2> QED BY <1>4, <1>5, <1>7, <1>13, <2>1 DEF SavesOneStage, Stages
  <1>16. CreatesAlone(o)' /\ KnowsStage(o)' /\ KnowsResult(o)'
    BY <1>13 DEF OpTrue, CreatesAlone, CreatingPCs, KnowsStage, KnowsResult, WblPCs, LockedPCs,
                 BeforePCs, AfterPCs
  <1>17. OpTrue(o)'
    BY <1>14, <1>15, <1>16 DEF OpTrue
  <1>18. /\ files' \in Versions \cup {"none"} /\ killed' \subseteq Jobs
         /\ man.import # "none" => files' \in {man.import, "none"}
    BY DEF Inv, TypeOK, RemoteTrue
  <1> QED BY <1>8, <1>9, <1>13, <1>17, <1>18, SideStep

LEMMA DispatchInv ==
  ASSUME Inv, NEW c \in Clients, Dispatch(c)
  PROVE  Inv'
  <1>1. PICK x \in Operations : x = op[c] /\ OpTrue(x) /\ KnowsStage(x)
    BY Known
  <1>2. PICK s : s = x.stage
    OBVIOUS
  <1>3. s \in Stages
    BY <1>1, <1>2, StageKnown
  <1>4. x.pc = "dispatch" /\ UNCHANGED <<man, files, source, killed, wblVars>>
    BY <1>1 DEF Dispatch, At
  <1>5. CASE /\ jobs' = [jobs EXCEPT ![s] = "live"] /\ Works
             /\ WillSave(c, WithStage(x.view, s, Stage("QUEUED", s)), "idle")
    BY <1>1, <1>2, <1>3, <1>4, <1>5, DispatchSaves
  <1>6. CASE /\ jobs' \in {jobs, [jobs EXCEPT ![s] = "live"]} /\ Breaks
             /\ WillSave(c, WithStage(x.view, s, Stage("UNKNOWN", NoJob)), "idle")
    BY <1>1, <1>2, <1>3, <1>4, <1>6, DispatchSaves
  <1>7. CASE /\ UNCHANGED jobs /\ Works
             /\ WillSave(c, WithStage(x.view, s, Stage("FAILED", NoJob)), "idle")
    BY <1>1, <1>2, <1>3, <1>4, <1>7, DispatchSaves
  <1>8. CASE UNCHANGED jobs /\ Breaks /\ End(c)
    BY <1>4, <1>8, EndLocal DEF Remote
  <1> QED BY <1>1, <1>2, <1>5, <1>6, <1>7, <1>8 DEF Dispatch

\* What an operation knows survives the end of a job.
LEMMA QuietTrue ==
  ASSUME Inv, JobsForward, \A s \in Stages : jobs[s] = "none" => jobs'[s] = "none",
         UNCHANGED <<man, files, killed, wblVars>>, NEW x \in Operations, OpTrue(x)
  PROVE  OpTrue(x)'
  <1>1. ViewDated(x)'
    BY SideView DEF OpTrue
  <1>2. x.stage \in Stages /\ StageTrue(x.view, x.stage)
    BY StageKnown
  <1>3. KnowsStage(x)'
    BY <1>2 DEF OpTrue, KnowsStage, JobsForward, StageTrue
  <1>4. CreatesAlone(x)' /\ SavesOneStage(x)' /\ KnowsResult(x)'
    BY DEF OpTrue, CreatesAlone, SavesOneStage, KnowsResult, wblVars, Untouched, MovedAside, MovedIn,
           Undoable
  <1> QED BY <1>1, <1>3, <1>4 DEF OpTrue

\* A step of no client that ends a job or changes nothing.
LEMMA QuietStep ==
  ASSUME Inv, JobsForward, \A s \in Stages : jobs[s] = "none" => jobs'[s] = "none",
         jobs' \in [Jobs -> JobStates], source' \in Versions,
         UNCHANGED <<man, files, killed, op, faults, wblVars>>
  PROVE  Inv'
  <1>1. UNCHANGED <<final, staging, backup, snapshot>>
    BY DEF wblVars
  <1>2. TypeOK' /\ ResultInPlace'
    BY <1>1 DEF Inv, TypeOK, WblTypeOK, ResultInPlace, WblResultKept
  <1>3. RemoteTrue'
    <2>1. CopyTrue(man)'
      <3>1. PICK m : m = man
        OBVIOUS
      <3>2. CopyTrue(m)'
        BY <3>1, CopyStays DEF Inv, RemoteTrue
      <3> QED BY <3>1, <3>2 DEF CopyTrue, StageTrue
    <2> QED BY <2>1 DEF Inv, RemoteTrue, Stages
  <1>4. ASSUME NEW d \in Clients PROVE OpTrue(op[d])'
    <2>1. PICK x \in Operations : x = op[d] /\ OpTrue(x)
      BY Known
    <2>2. OpTrue(x)'
      BY <2>1, QuietTrue
    <2> QED BY <2>1, <2>2 DEF OpTrue, CreatesAlone, ViewDated, SavesOneStage, KnowsStage,
               KnowsResult, Untouched, MovedAside, MovedIn, Undoable
  <1>5. \A d, e \in Clients : d # e => Apart(d, e)'
    BY DEF Inv, Apart, At
  <1> QED BY <1>2, <1>3, <1>4, <1>5 DEF Inv

LEMMA OwnersInv ==
  ASSUME Inv, (\E j \in Jobs : JobEnds(j)) \/ SourceChanges \/ UNCHANGED vars
  PROVE  Inv'
  <1>1. CASE \E j \in Jobs : JobEnds(j)
    <2>1. PICK j \in Jobs : JobEnds(j)
      BY <1>1
    <2>2. PICK end \in JobStates \ {"none", "live"} : jobs' = [jobs EXCEPT ![j] = end]
      BY <2>1 DEF JobEnds
    <2>3. /\ jobs \in [Jobs -> JobStates] /\ jobs[j] = "live" /\ source \in Versions
          /\ UNCHANGED <<man, files, source, killed, op, faults, wblVars>>
      BY <2>1 DEF JobEnds, Inv, TypeOK
    <2>4. JobsForward /\ \A s \in Stages : jobs[s] = "none" => jobs'[s] = "none"
      BY <2>2, <2>3 DEF JobsForward, Jobs, Stages
    <2>5. jobs' \in [Jobs -> JobStates]
      BY <2>2, <2>3
    <2> QED BY <2>3, <2>4, <2>5, QuietStep
  <1>2. CASE SourceChanges \/ UNCHANGED vars
    <2>1. source' \in Versions /\ UNCHANGED <<man, files, jobs, killed, op, faults, wblVars>>
      BY <1>2 DEF SourceChanges, vars, Inv, TypeOK, Versions
    <2>2. jobs' \in [Jobs -> JobStates]
      BY <2>1 DEF Inv, TypeOK
    <2> QED BY <2>1, <2>2, QuietStep DEF JobsForward
  <1> QED BY <1>1, <1>2

----------------------------------------------------------------------------
(* Steps that write the manifest.                                          *)

\* A true manifest with a new revision.
LEMMA WriteStep ==
  ASSUME Inv, NEW c \in Clients, NEW o \in Operations, op' = [op EXCEPT ![c] = o],
         UNCHANGED <<files, source, jobs, killed, wblVars>>, Breaks \/ Works,
         op[c].pc # "idle", NEW m \in Manifests, man' = m, m.rev > man.rev, CopyTrue(m),
         m.import # "none" => files \in {m.import, "none"},
         m.freq.st = "ABSENT" => man.freq.st = "ABSENT",
         man.wbl.st = "RUNNING" /\ man.wbl.run # op[c].run => m.wbl = man.wbl,
         m.wbl.st = "RUNNING" => m.wbl = man.wbl \/ m.wbl.run = op[c].run,
         ResultInPlace', o = Idle \/ OpTrue(o)', o.run \in {op[c].run, NoResult},
         o.pc = "dispatch" => man = NoProject \/ (o.stage = "freq" /\ man.freq.st = "ABSENT")
  PROVE  Inv'
  <1>1. /\ UNCHANGED <<files, source, jobs, killed, final, staging, backup, snapshot>>
        /\ faults' \in 0..MaxFaults /\ op' \in [Clients -> Operations]
    BY FaultsType, OpTypes DEF Inv, wblVars
  <1>2. TypeOK'
    BY <1>1 DEF Inv, TypeOK, WblTypeOK
  <1>3. RemoteTrue'
    <2>1. CopyTrue(man)'
      <3>1. CopyTrue(m)'
        BY <1>1 DEF CopyTrue, StageTrue
      <3> QED BY <3>1 DEF CopyTrue, StageTrue
    <2>2. m.rev \in Nat /\ m.rev # 0 /\ m # NoProject
      BY IdleType, ManifestFields, OpTypes DEF Inv
    <2> QED BY <1>1, <2>1, <2>2 DEF Inv, RemoteTrue
  <1>4. OpTrue(o)'
    <2>1. CASE o = Idle
      <3>1. OpTrue(Idle)'
        BY <1>2, <1>3, IdleTrue
      <3> QED BY <2>1, <3>1
    <2> QED BY <2>1
  <1>5. Advance(c, o)
    <2>1. op[c] # Idle
      BY DEF Idle
    <2> QED BY <1>1, <2>1 DEF Advance, JobsForward
  <1> QED BY <1>2, <1>3, <1>4, <1>5, StepTrue

\* The stage of WBL stays as it was.
LEMMA ResultKept ==
  ASSUME Inv, man'.wbl = man.wbl, UNCHANGED wblVars
  PROVE  ResultInPlace'
  BY DEF Inv, ResultInPlace, WblResultKept, wblVars

\* The next revision of a true copy.
LEMMA BumpedTrue ==
  ASSUME NEW m \in Manifests, CopyTrue(m), NEW x, x = Bumped(m)
  PROVE  /\ CopyTrue(x) /\ x \in Manifests /\ x.rev = m.rev + 1 /\ x.import = m.import
         /\ x.wbl = m.wbl /\ x.opt = m.opt /\ x.freq = m.freq
         /\ x["opt"] = m["opt"] /\ x["freq"] = m["freq"]
  <1>1. /\ x \in Manifests /\ x.rev = m.rev + 1 /\ x.import = m.import
        /\ x.wbl = m.wbl /\ x.opt = m.opt /\ x.freq = m.freq
    BY BumpedFields
  <1>2. x["opt"] = m["opt"] /\ x["freq"] = m["freq"]
    BY <1>1, ManifestFields
  <1>3. CopyTrue(x)
    BY <1>1, <1>2 DEF CopyTrue, StageTrue
  <1> QED BY <1>1, <1>2, <1>3

LEMMA WriteInitialInv ==
  ASSUME Inv, NEW c \in Clients, WriteInitial(c)
  PROVE  Inv'
  <1>1. PICK x \in Operations : x = op[c] /\ OpTrue(x) /\ CreatesAlone(x) /\ ViewDated(x) /\ KnowsResult(x)
    BY Known
  <1>2. PICK first : first = [NoProject EXCEPT !.rev = 1, !.opt = Stage("NOT_STARTED", NoJob)]
    OBVIOUS
  <1>3. PICK o : o = [x EXCEPT !.pc = "dispatch", !.view = first, !.stage = "opt"]
    OBVIOUS
  <1>4. /\ x.pc = "write_initial" /\ UNCHANGED <<files, source, jobs, killed, wblVars>>
        /\ \/ man' = first /\ Works /\ op' = [op EXCEPT ![c] = o]
           \/ man' \in {man, first} /\ Breaks /\ End(c)
    BY <1>1, <1>2, <1>3 DEF WriteInitial, At
  <1>5. /\ first \in Manifests /\ first.rev = 1 /\ first.import = "none" /\ first.wbl = NoProject.wbl
        /\ first.opt = Stage("NOT_STARTED", NoJob) /\ first.freq = NoProject.freq
        /\ first["opt"] = first.opt /\ first["freq"] = first.freq
    <2>1. Stage("NOT_STARTED", NoJob) \in StageRecord
      BY StageFields DEF StageStates
    <2>2. first \in Manifests
      BY <1>2, <2>1, IdleType DEF Manifests
    <2> QED BY <1>2, <2>2, ManifestFields DEF NoProject
  <1>6. CopyTrue(first)
    BY <1>5 DEF CopyTrue, StageTrue, NoProject, Absent, Stage, NoJob
  <1>7. man = NoProject /\ man.rev = 0 /\ x.run = NoResult
    BY <1>1, <1>4, IdleType
       DEF CreatesAlone, CreatingPCs, KnowsResult, WblPCs, LockedPCs, BeforePCs, AfterPCs
  <1>8. man' = first => ResultInPlace'
    BY <1>4, <1>5, <1>7, ResultKept
  <1>9. NoProject.wbl.st = "ABSENT" /\ NoProject.freq.st = "ABSENT"
    BY DEF NoProject, Absent, Stage
  <1>10. CASE man' = first /\ Works /\ op' = [op EXCEPT ![c] = o]
    <2>1. /\ o \in Operations /\ o.pc = "dispatch" /\ o.view = first /\ o.stage = "opt"
          /\ o.cand = x.cand /\ o.run = NoResult
      <3>1. o \in Operations
        BY <1>3, <1>5 DEF Operations, PCs, Jobs
      <3> QED BY <1>3, <1>7, <3>1 DEF Operations
    <2>2. ViewDated(o)'
      <3>1. CopyTrue(first)' /\ CopyTrue(x.cand)'
        BY <1>1, <1>4, <1>6 DEF ViewDated, CopyTrue, StageTrue
      <3> QED BY <1>10, <1>5, <2>1, <3>1 DEF ViewDated
    <2>3. first.opt.st = "NOT_STARTED" /\ jobs["opt"] = "none"
      BY <1>5, <1>7 DEF Inv, RemoteTrue, Stage
    <2>4. CreatesAlone(o)' /\ KnowsStage(o)' /\ KnowsResult(o)' /\ SavesOneStage(o)'
      <3>1. man' # NoProject
        BY <1>5, <1>7, <1>10
      <3> QED BY <1>4, <1>5, <1>9, <2>1, <2>3, <3>1
              DEF CreatesAlone, CreatingPCs, KnowsStage, KnowsResult, WblPCs, LockedPCs, BeforePCs,
                  AfterPCs, SavesOneStage
    <2>5. OpTrue(o)'
      BY <2>2, <2>4 DEF OpTrue
    <2>6. /\ op[c].pc # "idle" /\ o.run \in {op[c].run, NoResult} /\ first.rev > man.rev
          /\ first.import = "none" /\ first.wbl = man.wbl
          /\ first.freq.st = "ABSENT" => man.freq.st = "ABSENT"
      BY <1>1, <1>4, <1>5, <1>7, <1>9, <2>1
    <2> QED BY <1>4, <1>5, <1>6, <1>7, <1>8, <1>10, <2>1, <2>5, <2>6, WriteStep
  <1>11. CASE man' = first /\ Breaks /\ End(c)
    <2>1. Idle.pc = "idle" /\ Idle.run = NoResult /\ op' = [op EXCEPT ![c] = Idle]
      BY <1>11 DEF Idle, End
    <2>2. /\ op[c].pc # "idle" /\ first.rev > man.rev
          /\ first.import = "none" /\ first.wbl = man.wbl
          /\ first.freq.st = "ABSENT" => man.freq.st = "ABSENT"
      BY <1>1, <1>4, <1>5, <1>7, <1>9
    <2> QED BY <1>4, <1>5, <1>6, <1>8, <1>11, <2>1, <2>2, IdleType, WriteStep
  <1>12. CASE man' = man /\ Breaks /\ End(c)
    BY <1>4, <1>12, EndLocal DEF Remote
  <1> QED BY <1>4, <1>10, <1>11, <1>12

LEMMA ImportRegisterInv ==
  ASSUME Inv, NEW c \in Clients, ImportRegister(c)
  PROVE  Inv'
  <1>1. PICK x \in Operations : x = op[c] /\ OpTrue(x) /\ CreatesAlone(x) /\ ViewDated(x) /\ KnowsResult(x)
    BY Known
  <1>2. PICK m : m = Imported(x.sums)
    OBVIOUS
  <1>3. /\ x.pc = "import_register" /\ UNCHANGED <<files, source, jobs, killed, wblVars>>
        /\ (Breaks \/ Works) /\ man' \in {man, m}
        /\ \E l \in {"import_seen", "import_discard"} :
             Goto(c, l) /\ (l = "import_seen" => man' = m)
    BY <1>1, <1>2 DEF ImportRegister, At
  <1>4. PICK l \in {"import_seen", "import_discard"} :
             Goto(c, l) /\ (l = "import_seen" => man' = m)
    BY <1>3
  <1>5. PICK o \in Operations :
          /\ op' = [op EXCEPT ![c] = o] /\ o.pc = l /\ o.view = x.view
          /\ o.cand = x.cand /\ o.run = x.run
    <2>1. l \in PCs
      BY <1>4 DEF PCs
    <2> QED BY <1>1, <1>4, <2>1, GotoFields DEF Inv
  <1>6. man = NoProject /\ man.rev = 0 /\ files = x.sums /\ x.run = NoResult /\ x.view.rev = 0
    <2>1. man = NoProject /\ files = x.sums /\ x.run = NoResult /\ x.view.rev <= man.rev
      BY <1>1, <1>3
         DEF CreatesAlone, CreatingPCs, KnowsResult, WblPCs, LockedPCs, BeforePCs, AfterPCs, ViewDated
    <2>2. x.view.rev \in Nat
      BY OperationFields, ManifestFields
    <2> QED BY <2>1, <2>2, IdleType
  <1>7. PICK r : r = [Stage("SUCCEEDED", NoJob) EXCEPT !.gbw = TRUE]
    OBVIOUS
  <1>8. r \in StageRecord /\ r.st = "SUCCEEDED" /\ r.job = NoJob
    <2>1. Stage("SUCCEEDED", NoJob) \in StageRecord /\ Stage("SUCCEEDED", NoJob).st = "SUCCEEDED"
          /\ Stage("SUCCEEDED", NoJob).job = NoJob
      BY StageFields DEF StageStates
    <2> QED BY <1>7, <2>1 DEF StageRecord
  <1>9. /\ m \in Manifests /\ m.rev = 1 /\ m.import = x.sums /\ m.wbl = NoProject.wbl
        /\ m.opt = r /\ m.freq = NoProject.freq
        /\ m["opt"] = m.opt /\ m["freq"] = m.freq
    <2>1. x.sums \in Versions
      BY OperationFields
    <2>2. m = [NoProject EXCEPT !.rev = 1, !.import = x.sums, !.opt = r]
      BY <1>2, <1>7 DEF Imported
    <2>3. m \in Manifests
      BY <1>8, <2>1, <2>2, IdleType DEF Manifests
    <2> QED BY <2>2, <2>3, ManifestFields DEF NoProject
  <1>10. NoProject.wbl.st = "ABSENT" /\ NoProject.freq.st = "ABSENT" /\ NoProject.freq.job = NoJob
    BY DEF NoProject, Absent, Stage
  <1>11. CopyTrue(m)
    <2>1. m.import # "none"
      BY <1>9, OperationFields DEF Versions
    <2>2. StageTrue(m, "opt")
      BY <1>8, <1>9, <2>1 DEF StageTrue
    <2>3. StageTrue(m, "freq")
      BY <1>9, <1>10 DEF StageTrue
    <2> QED BY <1>9, <1>10, <2>2, <2>3 DEF CopyTrue
  <1>12. CASE man' = m
    <2>1. ResultInPlace'
      BY <1>3, <1>6, <1>9, <1>12, ResultKept
    <2>2. ViewDated(o)'
      <3>1. CopyTrue(x.view)' /\ CopyTrue(x.cand)'
        BY <1>1, <1>3 DEF ViewDated, CopyTrue, StageTrue
      <3> QED BY <1>5, <1>6, <1>9, <1>12, <3>1 DEF ViewDated
    <2>3. man' # NoProject
      BY <1>6, <1>9, <1>12
    <2>4. CreatesAlone(o)' /\ KnowsStage(o)' /\ KnowsResult(o)' /\ SavesOneStage(o)'
      BY <1>4, <1>5, <1>6, <2>3
         DEF CreatesAlone, CreatingPCs, KnowsStage, KnowsResult, WblPCs, LockedPCs, BeforePCs,
             AfterPCs, SavesOneStage
    <2>5. OpTrue(o)'
      BY <2>2, <2>4 DEF OpTrue
    <2>6. op[c].pc # "idle" /\ o.pc # "dispatch" /\ o.run = op[c].run
      BY <1>1, <1>3, <1>4, <1>5
    <2>7. /\ m.rev > man.rev /\ (m.import # "none" => files \in {m.import, "none"})
          /\ m.wbl = man.wbl /\ (m.freq.st = "ABSENT" => man.freq.st = "ABSENT")
      BY <1>6, <1>9
    <2> QED BY <1>3, <1>5, <1>9, <1>11, <1>12, <2>1, <2>5, <2>6, <2>7, WriteStep
  <1>13. CASE man' = man
    <2>1. l = "import_discard"
      BY <1>4, <1>6, <1>9, <1>13
    <2>2. OpTrue(o)
      BY <1>1, <1>5, <1>6, <2>1, NoRun, NoStage
         DEF OpTrue, CreatesAlone, CreatingPCs, ViewDated, SavesOneStage, WblPCs, LockedPCs,
             BeforePCs, AfterPCs
    <2>3. op[c] # Idle /\ UNCHANGED Remote /\ o.pc # "dispatch" /\ o.run = op[c].run
      BY <1>1, <1>3, <1>5, <1>13, <2>1 DEF Idle, Remote
    <2> QED BY <1>3, <1>5, <2>2, <2>3, LocalStep
  <1> QED BY <1>3, <1>12, <1>13

\* What was saved is the copy the operation goes on with (Resume).
LEMMA Resumes ==
  ASSUME TypeOK, NEW c \in Clients, NEW x \in Operations, x = op[c], NEW w \in Manifests, Resume(c, w)
  PROVE  \E o \in Operations :
           /\ op' = [op EXCEPT ![c] = o]
           /\ x.then = "idle" => o = Idle
           /\ x.then # "idle" =>
                o.pc = x.then /\ o.view = w /\ o.cand = NoProject /\ o.then = "idle"
                  /\ o.stage = x.stage /\ o.run = x.run
  <1>1. CASE x.then = "idle"
    BY <1>1, IdleType DEF Resume
  <1>2. CASE x.then # "idle"
    <2>1. PICK o : o = [x EXCEPT !.pc = x.then, !.view = w, !.cand = NoProject, !.then = "idle"]
      OBVIOUS
    <2>2. o \in Operations
      BY <2>1, IdleType DEF Operations, PCs
    <2>3. op' = [op EXCEPT ![c] = o]
      BY <1>2, <2>1 DEF Resume
    <2> QED BY <1>2, <2>1, <2>2, <2>3 DEF Operations
  <1> QED BY <1>1, <1>2

\* What the operation knows of its stage when its record is saved.
LEMMA ResumeKnows ==
  ASSUME Inv, NEW x \in Operations, OpTrue(x), x.pc = "save", x.then # "idle", NEW w,
         w["opt"] = x.cand["opt"], w["freq"] = x.cand["freq"], w.wbl = x.cand.wbl,
         w.freq = x.cand.freq, NEW o, o.pc = x.then, o.view = w, o.stage = x.stage, o.run = x.run
  PROVE  /\ o.pc \in {"dispatch", "recover", "replace"} /\ o.run = NoResult
         /\ o.pc = "dispatch" =>
              o.stage = "freq" /\ w["freq"].st = "NOT_STARTED" /\ x.view.freq.st = "ABSENT"
         /\ o.pc # "dispatch" => KnowsStage(o)
  <1>1. SavesOneStage(x) /\ KnowsResult(x) /\ x.cand \in Manifests /\ CopyTrue(x.cand)
        /\ x.stage \in Stages /\ x.cand["freq"] = x.cand.freq
    BY OperationFields, ManifestFields DEF OpTrue, ViewDated, Stages
  <1>2. w[x.stage] = x.cand[x.stage] /\ StageTrue(x.cand, x.stage)
    BY <1>1 DEF Stages, CopyTrue
  <1>3. NoJob \notin killed
    BY DEF Inv, TypeOK, Jobs, NoJob
  <1>4. o.run = NoResult
    BY <1>1 DEF KnowsResult, WblPCs, LockedPCs, BeforePCs, AfterPCs
  <1>5. o.pc = "replace" => o.stage \in killed
    BY <1>1, <1>2, <1>3 DEF SavesOneStage, StageTrue
  <1> QED BY <1>1, <1>2, <1>4, <1>5 DEF SavesOneStage, KnowsStage

LEMMA SavesInv ==
  ASSUME Inv, NEW c \in Clients, Saves(c)
  PROVE  Inv'
  <1>1. PICK x \in Operations : x = op[c] /\ OpTrue(x) /\ CreatesAlone(x) /\ ViewDated(x)
                                  /\ SavesOneStage(x) /\ KnowsResult(x)
    BY Known
  <1>2. PICK w : w = Bumped(x.cand)
    OBVIOUS
  <1>3. /\ x.pc = "save" /\ UNCHANGED <<files, source, jobs, killed, wblVars>>
        /\ \/ x.cand = x.view /\ Resume(c, x.view) /\ Works /\ man' = man
           \/ /\ man.rev = x.view.rev /\ man' = w
              /\ (Resume(c, w) /\ Works) \/ (End(c) /\ Breaks)
           \/ man' = man /\ End(c) /\ (Breaks \/ Works)
    BY <1>1, <1>2 DEF Saves, At, Current
  <1>4. /\ x.view \in Manifests /\ x.cand \in Manifests /\ CopyTrue(x.cand) /\ man # NoProject
        /\ x.run = NoResult
    BY <1>1, <1>3, OperationFields
       DEF ViewDated, CreatesAlone, CreatingPCs, KnowsResult, WblPCs, LockedPCs, BeforePCs, AfterPCs
  <1>5. CASE man' = man /\ End(c) /\ (Breaks \/ Works)
    BY <1>3, <1>5, EndLocal DEF Remote
  <1>6. CASE x.cand = x.view /\ Resume(c, x.view) /\ Works /\ man' = man
    <2>1. PICK o \in Operations :
           /\ op' = [op EXCEPT ![c] = o]
           /\ x.then = "idle" => o = Idle
           /\ x.then # "idle" =>
                o.pc = x.then /\ o.view = x.view /\ o.cand = NoProject /\ o.then = "idle"
                  /\ o.stage = x.stage /\ o.run = x.run
      BY <1>1, <1>4, <1>6, Resumes DEF Inv
    <2>2. CASE x.then = "idle"
      BY <1>3, <1>6, <2>1, <2>2, EndLocal DEF Remote, End
    <2>3. CASE x.then # "idle"
      <3>1. /\ o.pc \in {"dispatch", "recover", "replace"} /\ o.run = NoResult
            /\ o.pc = "dispatch" => x.view["freq"].st = "NOT_STARTED" /\ x.view.freq.st = "ABSENT"
            /\ o.pc # "dispatch" => KnowsStage(o)
        BY <1>1, <1>3, <1>6, <2>1, <2>3, ResumeKnows
      <3>2. o.pc \in {"recover", "replace"} /\ KnowsStage(o)
        BY <1>4, <3>1, ManifestFields
      <3>3. CopyTrue(NoProject)
        BY DEF CopyTrue, StageTrue, NoProject, Absent, Stage, NoJob
      <3>4. OpTrue(o)
        BY <1>1, <1>4, <2>1, <2>3, <3>1, <3>2, <3>3, NoRun
           DEF OpTrue, CreatesAlone, CreatingPCs, ViewDated, SavesOneStage, WblPCs, LockedPCs,
               BeforePCs, AfterPCs
      <3>5. op[c] # Idle /\ UNCHANGED Remote /\ o.pc # "dispatch"
        BY <1>1, <1>3, <1>6, <3>2 DEF Idle, Remote
      <3> QED BY <1>6, <2>1, <3>1, <3>4, <3>5, LocalStep
    <2> QED BY <2>2, <2>3
  <1>7. ASSUME man.rev = x.view.rev, man' = w, (Resume(c, w) /\ Works) \/ (End(c) /\ Breaks)
        PROVE  Inv'
    <2>1. x.view = man
      BY <1>1, <1>7 DEF ViewDated
    <2>2. /\ CopyTrue(w) /\ w \in Manifests /\ w.rev = x.cand.rev + 1 /\ w.import = x.cand.import
          /\ w.wbl = x.cand.wbl /\ w.opt = x.cand.opt /\ w.freq = x.cand.freq
          /\ w["opt"] = x.cand["opt"] /\ w["freq"] = x.cand["freq"]
      BY <1>2, <1>4, BumpedTrue
    <2>3. /\ w.rev = man.rev + 1 /\ w.import = man.import /\ w.wbl = man.wbl
          /\ w.freq.st = "ABSENT" => man.freq.st = "ABSENT"
      BY <1>1, <1>3, <2>1, <2>2 DEF SavesOneStage
    <2>4. man.rev \in Nat /\ w.rev > man.rev
      BY <2>3, OpTypes DEF Inv
    <2>5. w.import # "none" => files \in {w.import, "none"}
      BY <2>3 DEF Inv, RemoteTrue
    <2>6. ResultInPlace'
      BY <1>3, <1>7, <2>3, ResultKept
    <2>7. op[c].pc # "idle"
      BY <1>1, <1>3
    <2>8. CASE op' = [op EXCEPT ![c] = Idle]
      <3>1. Idle.run = NoResult /\ Idle.pc # "dispatch"
        BY DEF Idle
      <3> QED BY <1>3, <1>7, <2>2, <2>3, <2>4, <2>5, <2>6, <2>7, <2>8, <3>1, IdleType, WriteStep
    <2>9. CASE Resume(c, w) /\ Works
      <3>1. PICK o \in Operations :
             /\ op' = [op EXCEPT ![c] = o]
             /\ x.then = "idle" => o = Idle
             /\ x.then # "idle" =>
                  o.pc = x.then /\ o.view = w /\ o.cand = NoProject /\ o.then = "idle"
                    /\ o.stage = x.stage /\ o.run = x.run
        BY <1>1, <2>2, <2>9, Resumes DEF Inv
      <3>2. CASE x.then = "idle"
        BY <2>8, <3>1, <3>2
      <3>3. CASE x.then # "idle"
        <4>1. /\ o.pc \in {"dispatch", "recover", "replace"} /\ o.run = NoResult
              /\ o.pc = "dispatch" =>
                   o.stage = "freq" /\ w["freq"].st = "NOT_STARTED" /\ x.view.freq.st = "ABSENT"
              /\ o.pc # "dispatch" => KnowsStage(o)
          BY <1>1, <1>3, <2>2, <3>1, <3>3, ResumeKnows
        <4>2. w.freq = w["freq"]
          BY <2>2, ManifestFields
        <4>3. o.view = w /\ o.cand = NoProject
          BY <3>1, <3>3
        <4>4. KnowsStage(o)'
          <5>1. CASE o.pc = "dispatch"
            <6>1. jobs["freq"] = "none"
              BY <2>1, <4>1, <5>1 DEF Inv, RemoteTrue
            <6>2. man'.freq.st # "ABSENT"
              BY <1>7, <4>1, <4>2, <5>1
            <6> QED BY <1>3, <4>1, <4>3, <5>1, <6>1, <6>2 DEF KnowsStage
          <5>2. CASE o.pc # "dispatch"
            BY <1>3, <4>1, <5>2 DEF KnowsStage
          <5> QED BY <5>1, <5>2
        <4>5. ViewDated(o)'
          <5>1. CopyTrue(w)' /\ CopyTrue(NoProject)'
            BY <1>3, <2>2 DEF CopyTrue, StageTrue, NoProject, Absent, Stage, NoJob
          <5> QED BY <1>7, <2>3, <2>4, <4>3, <5>1 DEF ViewDated
        <4>6. man' # NoProject
          BY <1>7, <2>3, <2>4, IdleType
        <4>7. CreatesAlone(o)' /\ SavesOneStage(o)' /\ KnowsResult(o)'
          BY <4>1, <4>6 DEF CreatesAlone, CreatingPCs, SavesOneStage, KnowsResult, WblPCs,
             LockedPCs, BeforePCs, AfterPCs
        <4>8. OpTrue(o)'
          BY <4>4, <4>5, <4>7 DEF OpTrue
        <4>9. o.pc = "dispatch" => o.stage = "freq" /\ man.freq.st = "ABSENT"
          BY <2>1, <4>1
        <4> QED BY <1>3, <1>7, <2>2, <2>3, <2>4, <2>5, <2>6, <2>7, <3>1, <4>1, <4>8, <4>9, WriteStep
      <3> QED BY <3>2, <3>3
    <2> QED BY <1>7, <2>8, <2>9 DEF End
  <1> QED BY <1>3, <1>5, <1>6, <1>7

----------------------------------------------------------------------------
(* The WBL stage is written.                                               *)

\* A record of the WBL stage in the stored manifest.
LEMMA WblWritten ==
  ASSUME Inv, NEW x \in Operations, OpTrue(x), x.view.opt.st = "SUCCEEDED", man.rev = x.view.rev,
         NEW st \in {"RUNNING", "SUCCEEDED", "FAILED"}, NEW r \in Results,
         NEW w, w = Bumped(WithWbl(x.view, st, r))
  PROVE  /\ x.view = man /\ w \in Manifests /\ CopyTrue(w) /\ w.rev = man.rev + 1 /\ w.rev > man.rev
         /\ man.rev \in Nat
         /\ w.opt = man.opt /\ w.freq = man.freq /\ w.import = man.import
         /\ w.wbl = [st |-> st, run |-> r]
         /\ w.import # "none" => files \in {w.import, "none"}
  <1>1. x.view = man /\ CopyTrue(man) /\ man \in Manifests /\ man.rev \in Nat
    BY OpTypes DEF OpTrue, ViewDated, Inv, RemoteTrue
  <1>2. PICK m : m = WithWbl(man, st, r)
    OBVIOUS
  <1>3. /\ m \in Manifests /\ m.rev = man.rev /\ m.import = man.import
        /\ m.wbl = [st |-> st, run |-> r] /\ m.opt = man.opt /\ m.freq = man.freq
    BY <1>1, <1>2, WithWblFields
  <1>4. m["opt"] = man["opt"] /\ m["freq"] = man["freq"]
    BY <1>1, <1>3, ManifestFields
  <1>5. CopyTrue(m)
    BY <1>1, <1>3, <1>4 DEF CopyTrue, StageTrue
  <1>6. w = Bumped(m)
    BY <1>1, <1>2
  <1>7. /\ CopyTrue(w) /\ w \in Manifests /\ w.rev = m.rev + 1 /\ w.import = m.import
        /\ w.wbl = m.wbl /\ w.opt = m.opt /\ w.freq = m.freq
    BY <1>3, <1>5, <1>6, BumpedTrue
  <1> QED BY <1>1, <1>3, <1>7 DEF Inv, RemoteTrue

\* Whatever the operation goes on to after the record is written.
LEMMA WblWrites ==
  ASSUME Inv, NEW c \in Clients, NEW x \in Operations, x = op[c], OpTrue(x),
         x.pc \in {"wbl_begin", "wbl_commit", "wbl_undo"}, man.rev = x.view.rev,
         NEW st \in {"RUNNING", "SUCCEEDED", "FAILED"}, NEW r \in Results,
         NEW w, w = Bumped(WithWbl(x.view, st, r)), man' = w,
         st = "RUNNING" => r = x.run, x.view.opt.st = "SUCCEEDED",
         UNCHANGED <<files, source, jobs, killed, wblVars>>, Breaks \/ Works, ResultInPlace',
         NEW o \in Operations, op' = [op EXCEPT ![c] = o],
         \/ o = Idle
         \/ /\ o.pc \in WblPCs /\ o.run = x.run /\ o.view \in {x.view, w} /\ o.cand = x.cand
            /\ KnowsResult(o)'
  PROVE  Inv'
  <1>1. /\ x.view = man /\ w \in Manifests /\ CopyTrue(w) /\ w.rev = man.rev + 1 /\ w.rev > man.rev
        /\ man.rev \in Nat
        /\ w.opt = man.opt /\ w.freq = man.freq /\ w.import = man.import
        /\ w.wbl.st = st /\ w.wbl.run = r
        /\ w.import # "none" => files \in {w.import, "none"}
    <2>1. [st |-> st, run |-> r].st = st /\ [st |-> st, run |-> r].run = r
      OBVIOUS
    <2>2. /\ x.view = man /\ w \in Manifests /\ CopyTrue(w) /\ w.rev = man.rev + 1 /\ w.rev > man.rev
          /\ man.rev \in Nat
          /\ w.opt = man.opt /\ w.freq = man.freq /\ w.import = man.import
          /\ w.wbl = [st |-> st, run |-> r]
          /\ w.import # "none" => files \in {w.import, "none"}
      BY WblWritten
    <2> QED BY <2>1, <2>2
  <1>2. /\ x.pc = "wbl_begin" => man.wbl.st # "RUNNING"
        /\ x.pc # "wbl_begin" => man.wbl.run = x.run
    BY <1>1 DEF OpTrue, KnowsResult, LockedPCs, BeforePCs, Running
  <1>3. CASE o = Idle
    <2>1. Idle.run = NoResult /\ Idle.pc # "dispatch" /\ op[c].pc # "idle"
      BY DEF Idle
    <2>2. /\ man.wbl.st = "RUNNING" /\ man.wbl.run # op[c].run => w.wbl = man.wbl
          /\ w.wbl.st = "RUNNING" => w.wbl = man.wbl \/ w.wbl.run = op[c].run
          /\ w.freq.st = "ABSENT" => man.freq.st = "ABSENT"
      BY <1>1, <1>2
    <2> QED BY <1>1, <1>3, <2>1, <2>2, IdleType, WriteStep
  <1>4. CASE /\ o.pc \in WblPCs /\ o.run = x.run /\ o.view \in {x.view, w} /\ o.cand = x.cand
             /\ KnowsResult(o)'
    <2>1. ViewDated(o)'
      <3>1. CopyTrue(w)' /\ CopyTrue(x.view)' /\ CopyTrue(x.cand)'
        BY <1>1 DEF OpTrue, ViewDated, CopyTrue, StageTrue
      <3> QED BY <1>1, <1>4, <3>1 DEF ViewDated
    <2>2. man' # NoProject
      BY <1>1, IdleType
    <2>3. CreatesAlone(o)' /\ SavesOneStage(o)' /\ KnowsStage(o)'
      BY <1>4, <2>2 DEF CreatesAlone, CreatingPCs, SavesOneStage, KnowsStage, WblPCs, LockedPCs,
                        BeforePCs, AfterPCs
    <2>4. OpTrue(o)'
      BY <1>4, <2>1, <2>3 DEF OpTrue
    <2>5. o.pc # "dispatch" /\ o.run = op[c].run /\ op[c].pc # "idle"
      BY <1>4 DEF WblPCs, LockedPCs, BeforePCs, AfterPCs
    <2> QED BY <1>1, <1>2, <2>4, <2>5, WriteStep
  <1> QED BY <1>3, <1>4

LEMMA RecordRunningInv ==
  ASSUME Inv, NEW c \in Clients, RecordRunning(c)
  PROVE  Inv'
  <1>1. PICK x \in Operations : x = op[c] /\ OpTrue(x) /\ KnowsResult(x)
    BY Known
  <1>2. PICK w : w = Bumped(WithWbl(x.view, "RUNNING", x.run))
    OBVIOUS
  <1>3. /\ x.pc = "wbl_begin" /\ UNCHANGED <<files, source, jobs, killed, wblVars>>
        /\ (Breaks \/ Works)
        /\ \/ /\ man.rev = x.view.rev /\ man' = w
              /\ op' = [op EXCEPT ![c].pc = "wbl_convert", ![c].view = w] \/ End(c)
           \/ man' = man /\ End(c)
    BY <1>1, <1>2 DEF RecordRunning, Commits, At, Current
  <1>4. /\ x.view.opt.st = "SUCCEEDED" /\ x.run \in Results /\ x.run # NoResult
        /\ x.view.wbl.st # "RUNNING" /\ x.prev = Accepted(x.view)
        /\ backup[x.run] = NoResult /\ snapshot[x.run] = x.prev
    BY <1>1, <1>3, OperationFields DEF KnowsResult, WblPCs
  <1>5. CASE man' = man /\ End(c)
    BY <1>3, <1>5, EndLocal DEF Remote
  <1>6. ASSUME man.rev = x.view.rev, man' = w,
               op' = [op EXCEPT ![c].pc = "wbl_convert", ![c].view = w] \/ End(c)
        PROVE  Inv'
    <2>1. /\ x.view = man /\ w \in Manifests /\ w.wbl = Running(x.run) /\ w.opt = man.opt
          /\ man \in Manifests
      BY <1>1, <1>2, <1>4, <1>6, WblWritten, OpTypes DEF Running, Inv
    <2>2. final = x.prev
      <3>1. man.wbl.st \in {"ABSENT", "RUNNING", "SUCCEEDED", "FAILED"}
        BY <2>1, ManifestFields
      <3> QED BY <1>4, <2>1, <3>1 DEF Accepted, Inv, ResultInPlace, WblResultKept
    <2>3. ResultInPlace'
      <3>1. Running(x.run).st = "RUNNING" /\ Running(x.run).run = x.run
            /\ \A r : man'.wbl = [st |-> "RUNNING", run |-> r] => r = x.run
        BY <1>6, <2>1 DEF Running
      <3> QED BY <1>3, <1>4, <1>6, <2>1, <2>2, <3>1 DEF ResultInPlace, WblResultKept, wblVars
    <2>4. CASE End(c)
      BY <1>1, <1>2, <1>3, <1>4, <1>6, <2>3, <2>4, IdleType, WblWrites DEF End
    <2>5. CASE op' = [op EXCEPT ![c].pc = "wbl_convert", ![c].view = w]
      <3>1. PICK o \in Operations :
              /\ op' = [op EXCEPT ![c] = o] /\ o.pc = "wbl_convert" /\ o.view = w
              /\ o.cand = x.cand /\ o.run = x.run /\ o.prev = x.prev
        <4>1. PICK o : o = [x EXCEPT !.pc = "wbl_convert", !.view = w]
          OBVIOUS
        <4>2. op' = [op EXCEPT ![c] = o]
          BY <1>1, <2>5, <4>1
        <4>3. "wbl_convert" \in PCs
          BY DEF PCs
        <4>4. /\ o \in Operations /\ o.pc = "wbl_convert" /\ o.view = w
              /\ o.cand = x.cand /\ o.run = x.run /\ o.prev = x.prev
          <5>1. o \in Operations
            BY <2>1, <4>1, <4>3 DEF Operations
          <5> QED BY <4>1, <5>1 DEF Operations
        <4> QED BY <4>2, <4>4
      <3>2. KnowsResult(o)'
        BY <1>3, <1>4, <1>6, <2>1, <2>2, <3>1
           DEF KnowsResult, WblPCs, LockedPCs, BeforePCs, AfterPCs, Untouched, wblVars
      <3>3. o.pc \in WblPCs
        BY <3>1 DEF WblPCs, LockedPCs, BeforePCs
      <3> QED BY <1>1, <1>2, <1>3, <1>4, <1>6, <2>3, <3>1, <3>2, <3>3, WblWrites
    <2> QED BY <1>6, <2>4, <2>5
  <1> QED BY <1>3, <1>5, <1>6

\* A failure, whatever the manifest is, of a run with its results where it may undo.
LEMMA WblCheckKnows ==
  ASSUME Inv, NEW x \in Operations, OpTrue(x), x.pc \in LockedPCs,
         Undoable(x)', snapshot'[x.run] = x.prev,
         NEW o, o.pc = "wbl_check", o.view = x.view, o.run = x.run, o.prev = x.prev
  PROVE  KnowsResult(o)'
  BY DEF OpTrue, KnowsResult, WblPCs, LockedPCs, BeforePCs, AfterPCs, Undoable, Untouched, MovedAside,
         MovedIn

LEMMA CommitInv ==
  ASSUME Inv, NEW c \in Clients, Commit(c)
  PROVE  Inv'
  <1>1. PICK x \in Operations : x = op[c] /\ OpTrue(x) /\ KnowsResult(x)
    BY Known
  <1>2. PICK w : w = Bumped(WithWbl(x.view, "SUCCEEDED", x.run))
    OBVIOUS
  <1>3. /\ x.pc = "wbl_commit" /\ UNCHANGED <<files, source, jobs, killed, wblVars>>
        /\ (Breaks \/ Works)
        /\ \/ /\ man.rev = x.view.rev /\ man' = w
              /\ \/ op' = [op EXCEPT ![c].pc = "wbl_tidy", ![c].view = w]
                 \/ Goto(c, "wbl_check")
           \/ man' = man /\ Goto(c, "wbl_check")
    BY <1>1, <1>2 DEF Commit, Commits, At, Current
  <1>4. /\ x.view.opt.st = "SUCCEEDED" /\ x.run \in Results /\ x.run # NoResult
        /\ snapshot[x.run] = x.prev /\ MovedIn(x) /\ Undoable(x)
    BY <1>1, <1>3, OperationFields DEF KnowsResult, WblPCs, LockedPCs, Undoable
  <1>5. ASSUME Goto(c, "wbl_check")
        PROVE  \E o \in Operations :
                 /\ op' = [op EXCEPT ![c] = o] /\ o.pc = "wbl_check" /\ o.view = x.view
                 /\ o.cand = x.cand /\ o.run = x.run /\ o.prev = x.prev /\ KnowsResult(o)'
    <2>1. PICK o \in Operations :
                 /\ op' = [op EXCEPT ![c] = o] /\ o.pc = "wbl_check" /\ o.view = x.view
                 /\ o.cand = x.cand /\ o.run = x.run /\ o.prev = x.prev
      <3>1. "wbl_check" \in PCs
        BY DEF PCs
      <3> QED BY <1>1, <1>5, <3>1, GotoFields DEF Inv
    <2>2. Undoable(x)' /\ snapshot'[x.run] = x.prev
      BY <1>3, <1>4 DEF Undoable, Untouched, MovedAside, MovedIn, wblVars
    <2>3. KnowsResult(o)'
      BY <1>1, <1>3, <2>1, <2>2, WblCheckKnows DEF LockedPCs
    <2> QED BY <2>1, <2>3
  <1>6. CASE man' = man /\ Goto(c, "wbl_check")
    <2>1. PICK o \in Operations :
                 /\ op' = [op EXCEPT ![c] = o] /\ o.pc = "wbl_check" /\ o.view = x.view
                 /\ o.cand = x.cand /\ o.run = x.run /\ o.prev = x.prev /\ KnowsResult(o)'
      BY <1>5, <1>6
    <2>2. KnowsResult(o)
      BY <1>3, <1>6, <2>1 DEF KnowsResult, Untouched, MovedAside, MovedIn, Undoable, wblVars
    <2>3. OpTrue(o)
      BY <1>1, <1>3, <2>1, <2>2, WblGoto DEF WblPCs, LockedPCs
    <2>4. op[c] # Idle /\ UNCHANGED Remote /\ o.pc # "dispatch"
      BY <1>1, <1>3, <1>6, <2>1 DEF Idle, Remote
    <2> QED BY <1>1, <1>3, <2>1, <2>3, <2>4, LocalStep
  <1>7. ASSUME man.rev = x.view.rev, man' = w,
               op' = [op EXCEPT ![c].pc = "wbl_tidy", ![c].view = w] \/ Goto(c, "wbl_check")
        PROVE  Inv'
    <2>1. /\ x.view = man /\ w \in Manifests /\ w.opt = man.opt
          /\ w.wbl = [st |-> "SUCCEEDED", run |-> x.run]
      BY <1>1, <1>2, <1>4, <1>7, WblWritten
    <2>2. w.wbl.st = "SUCCEEDED" /\ w.wbl.run = x.run
      BY <2>1
    <2>3. ResultInPlace' /\ \A r : man'.wbl # Running(r)
      <3>1. \A r : [st |-> "RUNNING", run |-> r].st = "RUNNING"
        OBVIOUS
      <3>2. final' = x.run
        BY <1>3, <1>4 DEF MovedIn, wblVars
      <3> QED BY <1>7, <2>2, <3>1, <3>2 DEF ResultInPlace, WblResultKept, Running
    <2>4. \E o \in Operations :
            /\ op' = [op EXCEPT ![c] = o] /\ o.pc \in WblPCs /\ o.view \in {x.view, w}
            /\ o.cand = x.cand /\ o.run = x.run /\ KnowsResult(o)'
      <3>1. CASE Goto(c, "wbl_check")
        BY <1>5, <3>1 DEF WblPCs
      <3>2. CASE op' = [op EXCEPT ![c].pc = "wbl_tidy", ![c].view = w]
        <4>1. PICK o \in Operations :
                /\ op' = [op EXCEPT ![c] = o] /\ o.pc = "wbl_tidy" /\ o.view = w
                /\ o.cand = x.cand /\ o.run = x.run /\ o.prev = x.prev
          <5>1. PICK o : o = [x EXCEPT !.pc = "wbl_tidy", !.view = w]
            OBVIOUS
          <5>2. op' = [op EXCEPT ![c] = o]
            BY <1>1, <3>2, <5>1
          <5>3. "wbl_tidy" \in PCs
            BY DEF PCs
          <5>4. /\ o \in Operations /\ o.pc = "wbl_tidy" /\ o.view = w
                /\ o.cand = x.cand /\ o.run = x.run /\ o.prev = x.prev
            <6>1. o \in Operations
              BY <2>1, <5>1, <5>3 DEF Operations
            <6> QED BY <5>1, <6>1 DEF Operations
          <5> QED BY <5>2, <5>4
        <4>2. KnowsResult(o)'
          BY <1>4, <2>3, <4>1 DEF KnowsResult, WblPCs, LockedPCs, BeforePCs, AfterPCs
        <4> QED BY <4>1, <4>2 DEF WblPCs, AfterPCs
      <3> QED BY <1>7, <3>1, <3>2
    <2>5. PICK o \in Operations :
            /\ op' = [op EXCEPT ![c] = o] /\ o.pc \in WblPCs /\ o.view \in {x.view, w}
            /\ o.cand = x.cand /\ o.run = x.run /\ KnowsResult(o)'
      BY <2>4
    <2> QED BY <1>1, <1>2, <1>3, <1>4, <1>7, <2>3, <2>5, WblWrites
  <1> QED BY <1>3, <1>6, <1>7

LEMMA UndoInv ==
  ASSUME Inv, NEW c \in Clients, Undo(c)
  PROVE  Inv'
  <1>1. PICK x \in Operations : x = op[c] /\ OpTrue(x) /\ KnowsResult(x)
    BY Known
  <1>2. PICK st \in {"SUCCEEDED", "FAILED"} :
           \E r \in Results : /\ Undone(c) = WithWbl(x.view, st, r)
                              /\ st = "SUCCEEDED" => r = x.prev
                              /\ st = "FAILED" => x.prev = NoResult
    <2>1. x.prev \in Results /\ x.run \in Results
      BY OperationFields
    <2> QED BY <1>1, <2>1 DEF Undone
  <1>3. PICK r \in Results : /\ Undone(c) = WithWbl(x.view, st, r)
                             /\ st = "SUCCEEDED" => r = x.prev
                             /\ st = "FAILED" => x.prev = NoResult
    BY <1>2
  <1>4. PICK w : w = Bumped(WithWbl(x.view, st, r))
    OBVIOUS
  <1>5. /\ x.pc = "wbl_undo" /\ UNCHANGED <<files, source, jobs, killed, wblVars>>
        /\ (Breaks \/ Works)
        /\ \/ man.rev = x.view.rev /\ man' = w /\ Goto(c, "wbl_clean")
           \/ man.rev = x.view.rev /\ man' = w /\ End(c)
           \/ man' = man /\ End(c)
    BY <1>1, <1>3, <1>4 DEF Undo, At, Current
  <1>6. x.view.opt.st = "SUCCEEDED" /\ x.run # NoResult /\ final = x.prev
    BY <1>1, <1>5 DEF KnowsResult, WblPCs, LockedPCs
  <1>7. CASE man' = man /\ End(c)
    BY <1>5, <1>7, EndLocal DEF Remote
  <1>8. ASSUME man.rev = x.view.rev, man' = w, Goto(c, "wbl_clean") \/ End(c)
        PROVE  Inv'
    <2>1. /\ x.view = man /\ w \in Manifests /\ w.wbl = [st |-> st, run |-> r]
      BY <1>1, <1>4, <1>6, <1>8, WblWritten
    <2>2. w.wbl.st = st /\ w.wbl.run = r
      BY <2>1
    <2>3. ResultInPlace' /\ \A q : man'.wbl # Running(q)
      <3>1. \A q : [st |-> "RUNNING", run |-> q].st = "RUNNING"
        OBVIOUS
      <3>2. final' = x.prev
        BY <1>5, <1>6 DEF wblVars
      <3> QED BY <1>3, <1>8, <2>2, <3>1, <3>2 DEF ResultInPlace, WblResultKept, Running
    <2>4. CASE End(c)
      BY <1>1, <1>4, <1>5, <1>6, <1>8, <2>3, <2>4, IdleType, WblWrites DEF End
    <2>5. CASE Goto(c, "wbl_clean")
      <3>1. PICK o \in Operations :
              /\ op' = [op EXCEPT ![c] = o] /\ o.pc = "wbl_clean" /\ o.view = x.view
              /\ o.cand = x.cand /\ o.run = x.run /\ o.prev = x.prev
        <4>1. "wbl_clean" \in PCs
          BY DEF PCs
        <4> QED BY <1>1, <2>5, <4>1, GotoFields DEF Inv
      <3>2. KnowsResult(o)'
        BY <1>6, <2>3, <3>1 DEF KnowsResult, WblPCs, LockedPCs, BeforePCs, AfterPCs
      <3>3. o.pc \in WblPCs
        BY <3>1 DEF WblPCs, AfterPCs
      <3> QED BY <1>1, <1>4, <1>5, <1>6, <1>8, <2>3, <3>1, <3>2, <3>3, WblWrites
    <2> QED BY <1>8, <2>4, <2>5
  <1> QED BY <1>5, <1>7, <1>8

----------------------------------------------------------------------------
(* Steps in the directories of the WBL result.                             *)

\* A step in the directories of the operation's own run.
LEMMA DirStep ==
  ASSUME Inv, NEW c \in Clients, NEW x \in Operations, x = op[c], OpTrue(x), x.pc \in WblPCs,
         NEW o \in Operations, op' = [op EXCEPT ![c] = o],
         UNCHANGED <<man, files, source, jobs, killed>>, Breaks \/ Works, WblTypeOK',
         final' = final \/ man.wbl = Running(x.run),
         \A r \in Runs \ {x.run} : backup'[r] = backup[r] /\ snapshot'[r] = snapshot[r],
         man.wbl = Running(x.run) => snapshot'[x.run] \in {NoResult, final', backup'[x.run]},
         \/ o = Idle
         \/ /\ o.pc \in WblPCs /\ o.run = x.run /\ o.view = x.view /\ o.cand = x.cand
            /\ KnowsResult(o)'
  PROVE  Inv'
  <1>1. faults' \in 0..MaxFaults /\ op' \in [Clients -> Operations]
    BY FaultsType, OpTypes DEF Inv
  <1>2. TypeOK'
    BY <1>1 DEF Inv, TypeOK
  <1>3. RemoteTrue'
    BY DEF Inv, RemoteTrue, CopyTrue, StageTrue
  <1>4. Running(x.run).st = "RUNNING" /\ Running(x.run).run = x.run
    BY DEF Running
  <1>5. ResultInPlace'
    <2>1. ASSUME NEW r \in Runs, man.wbl = [st |-> "RUNNING", run |-> r], snapshot'[r] # NoResult
          PROVE  snapshot'[r] \in {final', backup'[r]}
      <3>1. man.wbl.run = r
        BY <2>1
      <3>2. CASE r = x.run
        BY <2>1, <3>2 DEF Running
      <3>3. CASE r # x.run
        BY <1>4, <2>1, <3>1, <3>3 DEF Inv, ResultInPlace, WblResultKept
      <3> QED BY <3>2, <3>3
    <2> QED BY <1>4, <2>1 DEF Inv, ResultInPlace, WblResultKept
  <1>6. OpTrue(o)'
    <2>1. CASE o = Idle
      <3>1. OpTrue(Idle)'
        BY <1>2, <1>3, IdleTrue
      <3> QED BY <2>1, <3>1
    <2>2. CASE /\ o.pc \in WblPCs /\ o.run = x.run /\ o.view = x.view /\ o.cand = x.cand
               /\ KnowsResult(o)'
      <3>1. ViewDated(o)'
        BY <2>2 DEF OpTrue, ViewDated, CopyTrue, StageTrue
      <3>2. man # NoProject
        BY DEF OpTrue, CreatesAlone, CreatingPCs, WblPCs, LockedPCs, BeforePCs, AfterPCs
      <3>3. CreatesAlone(o)' /\ SavesOneStage(o)' /\ KnowsStage(o)'
        BY <2>2, <3>2 DEF CreatesAlone, CreatingPCs, SavesOneStage, KnowsStage, WblPCs, LockedPCs,
                          BeforePCs, AfterPCs
      <3> QED BY <2>2, <3>1, <3>3 DEF OpTrue
    <2> QED BY <2>1, <2>2
  <1>7. o.run \in {x.run, NoResult} /\ o.pc # "dispatch"
    <2>1. Idle.run = NoResult /\ Idle.pc # "dispatch"
      BY DEF Idle
    <2> QED BY <2>1 DEF WblPCs, LockedPCs, BeforePCs, AfterPCs
  <1>8. op[c] # Idle /\ x.pc # "idle"
    BY DEF Idle, WblPCs, LockedPCs, BeforePCs, AfterPCs
  <1>9. Advance(c, o)
    <2>1. \A r \in Runs \ {op[c].run, o.run} : backup'[r] = backup[r] /\ snapshot'[r] = snapshot[r]
      OBVIOUS
    <2>2. man.wbl.st = "RUNNING" /\ man.wbl.run # op[c].run => final' = final
      BY <1>4
    <2> QED BY <1>7, <1>8, <2>1, <2>2 DEF Advance, JobsForward
  <1> QED BY <1>2, <1>3, <1>5, <1>6, <1>9, StepTrue

\* What the next phase l of a run knows, the directories having changed only where
\* nothing is known of them.
LEMMA PhaseKnows ==
  ASSUME NEW x \in Operations, OpTrue(x), x.pc \in LockedPCs, man' = man,
         snapshot'[x.run] = x.prev, NEW o, o.view = x.view, o.run = x.run, o.prev = x.prev,
         o.pc \in LockedPCs \cup {"wbl_check"},
         o.pc \in BeforePCs => Untouched(x)',
         o.pc \in {"wbl_publish", "wbl_restore"} => MovedAside(x)',
         o.pc = "wbl_commit" => MovedIn(x)',
         o.pc \in {"wbl_check", "wbl_rollback"} => Undoable(x)',
         o.pc = "wbl_undo" => final' = x.prev
  PROVE  KnowsResult(o)' /\ o.pc \in WblPCs
  BY DEF OpTrue, KnowsResult, WblPCs, LockedPCs, BeforePCs, AfterPCs, Undoable, Untouched, MovedAside,
         MovedIn

\* What a run that works on its result knows.
LEMMA RunKnown ==
  ASSUME Inv, NEW x \in Operations, OpTrue(x), x.pc \in LockedPCs
  PROVE  /\ x.run \in Runs /\ x.run # NoResult /\ x.prev \in Results
         /\ man.wbl = Running(x.run) /\ snapshot[x.run] = x.prev /\ x.pc \in WblPCs
         /\ final \in Results /\ staging \in [Runs -> {"absent", "partial", "complete"}]
         /\ backup \in [Runs -> Results] /\ snapshot \in [Runs -> Results]
         /\ KnowsResult(x)
  BY OperationFields DEF OpTrue, KnowsResult, WblPCs, Results, Inv, TypeOK, WblTypeOK

\* SetStaging keeps the results where they are.
LEMMA StagingStep ==
  ASSUME Inv, NEW c \in Clients, NEW x \in Operations, x = op[c], OpTrue(x),
         x.pc \in {"wbl_convert", "wbl_stage"}, NEW content \in {"absent", "partial", "complete"},
         SetStaging(x.run, content) \/ UNCHANGED wblVars, NEW o \in Operations,
         op' = [op EXCEPT ![c] = o], o.pc \in {"wbl_stage", "wbl_recheck", "wbl_check"},
         o.view = x.view, o.cand = x.cand, o.run = x.run, o.prev = x.prev,
         UNCHANGED <<man, files, source, jobs, killed>>, Breaks \/ Works
  PROVE  Inv'
  <1>1. /\ x.run \in Runs /\ man.wbl = Running(x.run) /\ snapshot[x.run] = x.prev /\ x.pc \in WblPCs
        /\ final \in Results /\ staging \in [Runs -> {"absent", "partial", "complete"}]
        /\ backup \in [Runs -> Results] /\ snapshot \in [Runs -> Results]
        /\ KnowsResult(x) /\ x.pc \in LockedPCs /\ x.pc \in BeforePCs
    BY RunKnown DEF LockedPCs, BeforePCs
  <1>2. UNCHANGED <<final, backup, snapshot>>
    BY DEF SetStaging, wblVars
  <1>3. WblTypeOK'
    <2>1. staging' \in [Runs -> {"absent", "partial", "complete"}]
      BY <1>1 DEF SetStaging, wblVars
    <2> QED BY <1>1, <1>2, <2>1 DEF WblTypeOK
  <1>4. Untouched(x)' /\ Undoable(x)' /\ snapshot'[x.run] = x.prev
    BY <1>1, <1>2 DEF KnowsResult, Untouched, Undoable
  <1>5. KnowsResult(o)' /\ o.pc \in WblPCs
    BY <1>1, <1>4, PhaseKnows DEF LockedPCs, BeforePCs
  <1>6. snapshot'[x.run] \in {final', backup'[x.run]}
    BY <1>4 DEF Untouched
  <1> QED BY <1>1, <1>2, <1>3, <1>5, <1>6, DirStep

LEMMA MakeStagingInv ==
  ASSUME Inv, NEW c \in Clients, MakeStaging(c)
  PROVE  Inv'
  <1>1. PICK x \in Operations : x = op[c] /\ OpTrue(x)
    BY Known
  <1>2. /\ x.pc = "wbl_convert" /\ UNCHANGED <<man, files, source, jobs, killed>>
        /\ (Breaks \/ Works) /\ (SetStaging(x.run, "partial") \/ UNCHANGED wblVars)
        /\ \/ op' = [op EXCEPT ![c].pc = "wbl_stage", ![c].made = TRUE]
           \/ Goto(c, "wbl_check")
    BY <1>1 DEF MakeStaging, At
  <1>3. CASE Goto(c, "wbl_check")
    <2>1. PICK o \in Operations :
            /\ op' = [op EXCEPT ![c] = o] /\ o.pc = "wbl_check" /\ o.view = x.view
            /\ o.cand = x.cand /\ o.run = x.run /\ o.prev = x.prev
      <3>1. "wbl_check" \in PCs
        BY DEF PCs
      <3> QED BY <1>1, <1>3, <3>1, GotoFields DEF Inv
    <2> QED BY <1>1, <1>2, <2>1, StagingStep
  <1>4. CASE op' = [op EXCEPT ![c].pc = "wbl_stage", ![c].made = TRUE]
    <2>1. PICK o : o = [x EXCEPT !.pc = "wbl_stage", !.made = TRUE]
      OBVIOUS
    <2>2. op' = [op EXCEPT ![c] = o]
      BY <1>1, <1>4, <2>1
    <2>3. o \in Operations
      BY <2>1 DEF Operations, PCs
    <2>4. /\ o.pc = "wbl_stage" /\ o.view = x.view /\ o.cand = x.cand /\ o.run = x.run
          /\ o.prev = x.prev
      BY <2>1, <2>3 DEF Operations
    <2> QED BY <1>1, <1>2, <2>2, <2>3, <2>4, StagingStep
  <1> QED BY <1>2, <1>3, <1>4

LEMMA FillStagingInv ==
  ASSUME Inv, NEW c \in Clients, FillStaging(c)
  PROVE  Inv'
  <1>1. PICK x \in Operations : x = op[c] /\ OpTrue(x)
    BY Known
  <1>2. /\ x.pc = "wbl_stage" /\ UNCHANGED <<man, files, source, jobs, killed>>
        /\ (Breaks \/ Works) /\ (SetStaging(x.run, "complete") \/ UNCHANGED wblVars)
        /\ \E l \in {"wbl_recheck", "wbl_check"} : Goto(c, l)
    BY <1>1 DEF FillStaging, At
  <1>3. PICK l \in {"wbl_recheck", "wbl_check"} : Goto(c, l)
    BY <1>2
  <1>4. PICK o \in Operations :
          /\ op' = [op EXCEPT ![c] = o] /\ o.pc = l /\ o.view = x.view
          /\ o.cand = x.cand /\ o.run = x.run /\ o.prev = x.prev
    <2>1. l \in PCs
      BY <1>3 DEF PCs
    <2> QED BY <1>1, <1>3, <2>1, GotoFields DEF Inv
  <1>5. o.pc \in {"wbl_stage", "wbl_recheck", "wbl_check"}
    BY <1>3, <1>4
  <1> QED BY <1>1, <1>2, <1>4, <1>5, StagingStep

----------------------------------------------------------------------------
(* The two renames of publish, and those that undo them.                   *)

\* A move, made or not, after which the run goes on or its failure is handled.
LEMMA MoveStep ==
  ASSUME Inv, NEW c \in Clients, NEW x \in Operations, x = op[c], OpTrue(x), x.pc \in LockedPCs,
         UNCHANGED <<man, files, source, jobs, killed>>, Breaks \/ Works, WblTypeOK',
         snapshot' = snapshot, \A r \in Runs \ {x.run} : backup'[r] = backup[r],
         Undoable(x)' \/ final' = x.prev,
         NEW l \in LockedPCs \cup {"idle", "wbl_check"}, IF l = "idle" THEN End(c) ELSE Goto(c, l),
         l \notin BeforePCs,
         l \in {"wbl_publish", "wbl_restore"} => MovedAside(x)',
         l = "wbl_commit" => MovedIn(x)',
         l \in {"wbl_check", "wbl_rollback"} => Undoable(x)',
         l = "wbl_undo" => final' = x.prev
  PROVE  Inv'
  <1>1. /\ x.run \in Runs /\ man.wbl = Running(x.run) /\ snapshot[x.run] = x.prev /\ x.pc \in WblPCs
    BY RunKnown
  <1>2. snapshot'[x.run] = x.prev /\ x.prev \in {final', backup'[x.run]}
    BY <1>1 DEF Undoable, Untouched, MovedAside, MovedIn
  <1>3. CASE l = "idle"
    <2>1. op' = [op EXCEPT ![c] = Idle]
      BY <1>3 DEF End
    <2> QED BY <1>1, <1>2, <2>1, IdleType, DirStep
  <1>4. CASE l # "idle"
    <2>1. PICK o \in Operations :
            /\ op' = [op EXCEPT ![c] = o] /\ o.pc = l /\ o.view = x.view
            /\ o.cand = x.cand /\ o.run = x.run /\ o.prev = x.prev
      <3>1. l \in PCs
        BY DEF PCs, LockedPCs, BeforePCs
      <3> QED BY <1>4, <3>1, GotoFields DEF Inv
    <2>2. KnowsResult(o)' /\ o.pc \in WblPCs
      BY <1>2, <1>4, <2>1, PhaseKnows
    <2> QED BY <1>1, <1>2, <2>1, <2>2, DirStep
  <1> QED BY <1>3, <1>4

LEMMA PublishAsideInv ==
  ASSUME Inv, NEW c \in Clients, PublishAside(c)
  PROVE  Inv'
  <1>1. PICK x \in Operations : x = op[c] /\ OpTrue(x)
    BY Known
  <1>2. /\ x.pc = "wbl_aside" /\ UNCHANGED <<man, files, source, jobs, killed>>
        /\ (Breaks \/ Works)
        /\ \/ SetAside(x.run, x.prev) /\ (Goto(c, "wbl_publish") \/ Goto(c, "wbl_check"))
           \/ UNCHANGED wblVars /\ Goto(c, "wbl_check")
    BY <1>1 DEF PublishAside, Moves, At
  <1>3. x.pc \in LockedPCs /\ x.pc \in BeforePCs
    BY <1>2 DEF LockedPCs, BeforePCs
  <1>4. /\ x.run \in Runs /\ x.prev \in Results
        /\ final \in Results /\ staging \in [Runs -> {"absent", "partial", "complete"}]
        /\ backup \in [Runs -> Results] /\ snapshot \in [Runs -> Results] /\ KnowsResult(x)
    BY <1>1, <1>3, RunKnown
  <1>5. Untouched(x)
    BY <1>3, <1>4 DEF KnowsResult
  <1>6. CASE SetAside(x.run, x.prev) /\ (Goto(c, "wbl_publish") \/ Goto(c, "wbl_check"))
    <2>1. /\ final' = NoResult /\ backup' = [backup EXCEPT ![x.run] = x.prev]
          /\ UNCHANGED <<staging, snapshot>>
      BY <1>6 DEF SetAside
    <2>2. MovedAside(x)' /\ Undoable(x)' /\ \A r \in Runs \ {x.run} : backup'[r] = backup[r]
      BY <1>4, <2>1 DEF MovedAside, Undoable
    <2>3. WblTypeOK'
      BY <1>4, <2>1 DEF WblTypeOK, Results
    <2>4. PICK l \in {"wbl_publish", "wbl_check"} : Goto(c, l)
      BY <1>6
    <2>5. l \in LockedPCs \cup {"idle", "wbl_check"} /\ l \notin BeforePCs
      BY <2>4 DEF LockedPCs, BeforePCs
    <2> QED BY <1>1, <1>2, <1>3, <2>1, <2>2, <2>3, <2>4, <2>5, MoveStep
  <1>7. CASE UNCHANGED wblVars /\ Goto(c, "wbl_check")
    <2>1. UNCHANGED <<final, staging, backup, snapshot>>
      BY <1>7 DEF wblVars
    <2>2. WblTypeOK' /\ Undoable(x)'
      BY <1>4, <1>5, <2>1 DEF WblTypeOK, Undoable, Untouched
    <2>3. "wbl_check" \notin BeforePCs
      BY DEF BeforePCs
    <2> QED BY <1>1, <1>2, <1>3, <1>7, <2>1, <2>2, <2>3, MoveStep
  <1> QED BY <1>2, <1>6, <1>7

LEMMA PublishNewInv ==
  ASSUME Inv, NEW c \in Clients, PublishNew(c)
  PROVE  Inv'
  <1>1. PICK x \in Operations : x = op[c] /\ OpTrue(x)
    BY Known
  <1>2. /\ x.pc = "wbl_publish" /\ UNCHANGED <<man, files, source, jobs, killed>>
        /\ (Breaks \/ Works)
        /\ \/ MoveIn(x.run) /\ (Goto(c, "wbl_commit") \/ Goto(c, "wbl_check"))
           \/ UNCHANGED wblVars /\ Goto(c, "wbl_check")
    BY <1>1 DEF PublishNew, Moves, At
  <1>3. x.pc \in LockedPCs
    BY <1>2 DEF LockedPCs, BeforePCs
  <1>4. /\ x.run \in Runs /\ x.prev \in Results
        /\ final \in Results /\ staging \in [Runs -> {"absent", "partial", "complete"}]
        /\ backup \in [Runs -> Results] /\ snapshot \in [Runs -> Results] /\ KnowsResult(x)
    BY <1>1, <1>3, RunKnown
  <1>5. MovedAside(x)
    BY <1>2, <1>4 DEF KnowsResult
  <1>6. CASE MoveIn(x.run) /\ (Goto(c, "wbl_commit") \/ Goto(c, "wbl_check"))
    <2>1. /\ final' = x.run /\ staging' = [staging EXCEPT ![x.run] = "absent"]
          /\ UNCHANGED <<backup, snapshot>>
      BY <1>6 DEF MoveIn
    <2>2. MovedIn(x)' /\ Undoable(x)'
      BY <1>5, <2>1 DEF MovedAside, MovedIn, Undoable
    <2>3. WblTypeOK'
      BY <1>4, <2>1 DEF WblTypeOK, Results
    <2>4. PICK l \in {"wbl_commit", "wbl_check"} : Goto(c, l)
      BY <1>6
    <2>5. l \in LockedPCs \cup {"idle", "wbl_check"} /\ l \notin BeforePCs
      BY <2>4 DEF LockedPCs, BeforePCs
    <2> QED BY <1>1, <1>2, <1>3, <2>1, <2>2, <2>3, <2>4, <2>5, MoveStep
  <1>7. CASE UNCHANGED wblVars /\ Goto(c, "wbl_check")
    <2>1. UNCHANGED <<final, staging, backup, snapshot>>
      BY <1>7 DEF wblVars
    <2>2. WblTypeOK' /\ Undoable(x)'
      BY <1>4, <1>5, <2>1 DEF WblTypeOK, Undoable, MovedAside
    <2>3. "wbl_check" \notin BeforePCs
      BY DEF BeforePCs
    <2> QED BY <1>1, <1>2, <1>3, <1>7, <2>1, <2>2, <2>3, MoveStep
  <1> QED BY <1>2, <1>6, <1>7

LEMMA RollbackInv ==
  ASSUME Inv, NEW c \in Clients, Rollback(c)
  PROVE  Inv'
  <1>1. PICK x \in Operations : x = op[c] /\ OpTrue(x)
    BY Known
  <1>2. PICK next : next = IF backup[x.run] # NoResult THEN "wbl_restore" ELSE "wbl_undo"
    OBVIOUS
  <1>3. /\ x.pc = "wbl_rollback"
        /\ \/ NothingToUndo(x.run, x.prev) /\ Goto(c, next) /\ UNCHANGED Remote /\ Works
           \/ End(c) /\ UNCHANGED Remote /\ Works
           \/ /\ ~NothingToUndo(x.run, x.prev) /\ (Breaks \/ Works)
              /\ UNCHANGED <<man, files, source, jobs, killed>> /\ final = x.run
              /\ \/ MoveOut(x.run) /\ (Goto(c, next) \/ End(c))
                 \/ UNCHANGED wblVars /\ End(c)
    BY <1>1, <1>2 DEF Rollback, Moves, At, Local, Remote, Works
  <1>4. x.pc \in LockedPCs
    BY <1>3 DEF LockedPCs, BeforePCs
  <1>5. /\ x.run \in Runs /\ x.run # NoResult /\ x.prev \in Results
        /\ final \in Results /\ staging \in [Runs -> {"absent", "partial", "complete"}]
        /\ backup \in [Runs -> Results] /\ snapshot \in [Runs -> Results] /\ KnowsResult(x)
    BY <1>1, <1>4, RunKnown
  <1>6. Undoable(x) /\ next \in {"wbl_restore", "wbl_undo"}
    BY <1>2, <1>3, <1>5 DEF KnowsResult
  <1>7. CASE NothingToUndo(x.run, x.prev) /\ Goto(c, next) /\ UNCHANGED Remote /\ Works
    <2>1. /\ next = "wbl_restore" => MovedAside(x)
          /\ next = "wbl_undo" => final = x.prev
      BY <1>2, <1>5, <1>6, <1>7 DEF NothingToUndo, Undoable, Untouched, MovedAside, MovedIn
    <2> QED BY <1>1, <1>3, <1>6, <1>7, <2>1, RollbackGoes
  <1>8. CASE End(c) /\ UNCHANGED Remote /\ (Breaks \/ Works)
    BY <1>8, EndLocal
  <1>9. CASE /\ ~NothingToUndo(x.run, x.prev) /\ (Breaks \/ Works)
             /\ UNCHANGED <<man, files, source, jobs, killed>> /\ final = x.run
             /\ MoveOut(x.run) /\ (Goto(c, next) \/ End(c))
    <2>1. MovedIn(x)
      BY <1>5, <1>6, <1>9 DEF NothingToUndo, Undoable, Untouched, MovedAside
    <2>2. /\ final' = NoResult /\ staging' = [staging EXCEPT ![x.run] = "complete"]
          /\ UNCHANGED <<backup, snapshot>>
      BY <1>9 DEF MoveOut
    <2>3. MovedAside(x)' /\ Undoable(x)' /\ (next = "wbl_undo" => final' = x.prev)
      BY <1>2, <2>1, <2>2 DEF MovedIn, MovedAside, Undoable
    <2>4. WblTypeOK'
      BY <1>5, <2>2 DEF WblTypeOK, Results
    <2>5. PICK l \in {"wbl_restore", "wbl_undo", "idle"} :
             (IF l = "idle" THEN End(c) ELSE Goto(c, l)) /\ (l = "wbl_undo" => final' = x.prev)
      BY <1>6, <1>9, <2>3
    <2>6. l \in LockedPCs \cup {"idle", "wbl_check"} /\ l \notin BeforePCs
      BY <2>5 DEF LockedPCs, BeforePCs
    <2> QED BY <1>1, <1>4, <1>9, <2>2, <2>3, <2>4, <2>5, <2>6, MoveStep
  <1> QED BY <1>3, <1>7, <1>8, <1>9 DEF Remote

LEMMA RestorePreviousInv ==
  ASSUME Inv, NEW c \in Clients, RestorePrevious(c)
  PROVE  Inv'
  <1>1. PICK x \in Operations : x = op[c] /\ OpTrue(x)
    BY Known
  <1>2. /\ x.pc = "wbl_restore" /\ UNCHANGED <<man, files, source, jobs, killed>>
        /\ (Breaks \/ Works)
        /\ \/ Restore(x.run, x.prev) /\ (Goto(c, "wbl_undo") \/ End(c))
           \/ UNCHANGED wblVars /\ End(c)
    BY <1>1 DEF RestorePrevious, Moves, At
  <1>3. x.pc \in LockedPCs
    BY <1>2 DEF LockedPCs, BeforePCs
  <1>4. /\ x.run \in Runs /\ x.prev \in Results
        /\ final \in Results /\ staging \in [Runs -> {"absent", "partial", "complete"}]
        /\ backup \in [Runs -> Results] /\ snapshot \in [Runs -> Results]
    BY <1>1, <1>3, RunKnown
  <1>5. CASE UNCHANGED wblVars /\ End(c)
    BY <1>2, <1>5, EndLocal DEF Remote
  <1>6. CASE Restore(x.run, x.prev) /\ (Goto(c, "wbl_undo") \/ End(c))
    <2>1. /\ final' = x.prev /\ backup' = [backup EXCEPT ![x.run] = NoResult]
          /\ UNCHANGED <<staging, snapshot>>
      BY <1>6 DEF Restore
    <2>2. WblTypeOK' /\ \A r \in Runs \ {x.run} : backup'[r] = backup[r]
      BY <1>4, <2>1 DEF WblTypeOK, Results
    <2>3. PICK l \in {"wbl_undo", "idle"} : IF l = "idle" THEN End(c) ELSE Goto(c, l)
      BY <1>6
    <2>4. l \in LockedPCs \cup {"idle", "wbl_check"} /\ l \notin BeforePCs
      BY <2>3 DEF LockedPCs, BeforePCs
    <2> QED BY <1>1, <1>2, <1>3, <2>1, <2>2, <2>3, <2>4, MoveStep
  <1> QED BY <1>2, <1>5, <1>6

\* Clean-up, once the manifest records the run no more.
LEMMA CleanupInv ==
  ASSUME Inv, NEW c \in Clients, Tidy(c) \/ Clean(c)
  PROVE  Inv'
  <1>1. PICK x \in Operations : x = op[c] /\ OpTrue(x) /\ KnowsResult(x)
    BY Known
  <1>2. /\ x.pc \in {"wbl_tidy", "wbl_clean"} /\ UNCHANGED <<man, files, source, jobs, killed>>
        /\ (Breaks \/ Works) /\ End(c)
        /\ DiscardBackup(x.run, x.prev) \/ DiscardStaging(x.run, x.made) \/ UNCHANGED wblVars
    BY <1>1 DEF Tidy, Clean, At
  <1>3. x.pc \in WblPCs /\ x.pc \in AfterPCs
    BY <1>2 DEF WblPCs, AfterPCs
  <1>4. x.run \in Runs /\ man.wbl # Running(x.run)
    BY <1>1, <1>3, OperationFields DEF KnowsResult, Results
  <1>5. /\ final \in Results /\ staging \in [Runs -> {"absent", "partial", "complete"}]
        /\ backup \in [Runs -> Results] /\ snapshot \in [Runs -> Results]
    BY DEF Inv, TypeOK, WblTypeOK
  <1>6. /\ final' = final /\ WblTypeOK'
        /\ \A r \in Runs \ {x.run} : backup'[r] = backup[r] /\ snapshot'[r] = snapshot[r]
    <2>1. CASE UNCHANGED wblVars
      BY <1>5, <2>1 DEF wblVars, WblTypeOK
    <2>2. CASE DiscardBackup(x.run, x.prev)
      BY <1>5, <2>2 DEF DiscardBackup, WblTypeOK, Results
    <2>3. CASE DiscardStaging(x.run, x.made)
      <3>1. CASE UNCHANGED wblVars
        BY <2>1, <3>1
      <3>2. CASE /\ staging' = [staging EXCEPT ![x.run] = IF x.made THEN "absent" ELSE @]
                 /\ snapshot' = [snapshot EXCEPT ![x.run] = NoResult]
                 /\ UNCHANGED <<final, backup>>
        <4>1. staging' \in [Runs -> {"absent", "partial", "complete"}]
          BY <1>4, <1>5, <3>2
        <4> QED BY <1>5, <3>2, <4>1 DEF WblTypeOK, Results
      <3> QED BY <2>3, <3>1, <3>2 DEF DiscardStaging
    <2> QED BY <1>2, <2>1, <2>2, <2>3
  <1> QED BY <1>1, <1>2, <1>3, <1>4, <1>6, IdleType, DirStep DEF End

LEMMA BeginWblInv ==
  ASSUME Inv, NEW c \in Clients, NEW r \in Runs, BeginWbl(c, r)
  PROVE  Inv'
  <1>1. PICK prev : prev = Accepted(man)
    OBVIOUS
  <1>2. PICK o : o = [Loaded EXCEPT !.pc = "wbl_begin", !.run = r, !.prev = prev]
    OBVIOUS
  <1>3. /\ op[c] = Idle /\ man.wbl.run # r /\ (\A d \in Clients : op[d].run # r)
        /\ WblMayStart(man) /\ Preflight(r, prev)
        /\ UNCHANGED <<man, files, source, jobs, killed>> /\ (Breaks \/ Works)
        /\ \/ PreserveManifest(r, prev) /\ (op' = [op EXCEPT ![c] = o] \/ End(c))
           \/ UNCHANGED wblVars /\ End(c)
    BY <1>1, <1>2 DEF BeginWbl
  <1>4. /\ final \in Results /\ staging \in [Runs -> {"absent", "partial", "complete"}]
        /\ backup \in [Runs -> Results] /\ snapshot \in [Runs -> Results]
        /\ man \in Manifests /\ prev \in Results
    <2>1. man \in Manifests /\ man.wbl.run \in Results
      BY OpTypes, ManifestFields DEF Inv
    <2> QED BY <1>1, <2>1 DEF Inv, TypeOK, WblTypeOK, Accepted, Results
  <1>5. r # NoResult /\ r \in Results /\ man # NoProject
    BY <1>3, NoResultAssumption DEF Results, WblMayStart, NoProject, Absent, Stage
  <1>6. /\ o \in Operations /\ o.pc = "wbl_begin" /\ o.view = man /\ o.cand = NoProject
        /\ o.run = r /\ o.prev = prev
    <2>1. o \in Operations
      BY <1>2, <1>4, <1>5, IdleType DEF Loaded, Operations, PCs
    <2> QED BY <1>2, <2>1 DEF Loaded, Idle
  <1>7. CASE UNCHANGED wblVars /\ End(c)
    BY <1>3, <1>7, EndLocal DEF Remote
  <1>8. ASSUME PreserveManifest(r, prev), NEW q \in {o, Idle}, op' = [op EXCEPT ![c] = q]
        PROVE  Inv'
    <2>1. snapshot' = [snapshot EXCEPT ![r] = prev] /\ UNCHANGED <<final, staging, backup>>
      BY <1>8 DEF PreserveManifest
    <2>2. TypeOK'
      <3>1. faults' \in 0..MaxFaults /\ op' \in [Clients -> Operations]
        BY <1>3, <1>6, <1>8, IdleType, FaultsType, OpTypes DEF Inv
      <3>2. snapshot' \in [Runs -> Results]
        BY <1>4, <2>1
      <3> QED BY <1>3, <2>1, <3>1, <3>2 DEF Inv, TypeOK, WblTypeOK
    <2>3. RemoteTrue'
      BY <1>3 DEF Inv, RemoteTrue, CopyTrue, StageTrue
    <2>4. \A t \in Runs : man.wbl = Running(t) => t # r
      BY <1>3 DEF Running
    <2>5. ResultInPlace'
      BY <1>3, <1>4, <2>1, <2>4 DEF Inv, ResultInPlace, WblResultKept, Running
    <2>6. OpTrue(Idle)'
      BY <2>2, <2>3, IdleTrue
    <2>7. OpTrue(o)'
      <3>1. ViewDated(o)
        BY <1>6, LoadedView
      <3>2. ViewDated(o)'
        BY <1>3, <3>1 DEF ViewDated, CopyTrue, StageTrue
      <3>3. man.wbl # Running(r)
        BY <2>4
      <3>4. KnowsResult(o)'
        BY <1>1, <1>3, <1>4, <1>5, <1>6, <2>1, <3>3
           DEF KnowsResult, WblPCs, LockedPCs, BeforePCs, AfterPCs, WblMayStart, Preflight
      <3>5. CreatesAlone(o)' /\ SavesOneStage(o)' /\ KnowsStage(o)'
        BY <1>3, <1>5, <1>6 DEF CreatesAlone, CreatingPCs, SavesOneStage, KnowsStage
      <3> QED BY <3>2, <3>4, <3>5 DEF OpTrue
    <2>8. /\ q \in Operations /\ OpTrue(q)' /\ q.pc # "dispatch"
          /\ q.run \in {r, NoResult}
      <3>1. Idle.pc = "idle" /\ Idle.run = NoResult
        BY DEF Idle
      <3>2. CASE q = Idle
        BY <2>6, <3>1, <3>2, IdleType
      <3>3. CASE q = o
        BY <1>6, <2>7, <3>3
      <3> QED BY <1>8, <3>2, <3>3
    <2>9. Advance(c, q)
      <3>1. \A t \in Runs \ {op[c].run, q.run} :
              \/ backup'[t] = backup[t] /\ snapshot'[t] = snapshot[t]
              \/ \A d \in Clients : op[d].run # t
        BY <1>3, <1>4, <2>1
      <3>2. q.run \in {op[c].run, NoResult} \/ \A d \in Clients : op[d].run # q.run
        BY <1>3, <2>8
      <3> QED BY <1>3, <1>5, <1>8, <2>1, <2>8, <3>1, <3>2 DEF Advance, JobsForward
    <2> QED BY <2>2, <2>3, <2>5, <2>8, <2>9, StepTrue
  <1> QED BY <1>3, <1>7, <1>8 DEF End

----------------------------------------------------------------------------
(* The invariant.                                                          *)

LEMMA InitInv ==
  ASSUME Init
  PROVE  Inv
  <1>1. /\ man = NoProject /\ files = "none" /\ source = "first" /\ killed = {} /\ faults = 0
        /\ jobs = [j \in Jobs |-> "none"] /\ op = [c \in Clients |-> Idle]
        /\ final = NoResult /\ staging = [r \in Runs |-> "absent"]
        /\ backup = [r \in Runs |-> NoResult] /\ snapshot = [r \in Runs |-> NoResult]
    BY DEF Init, WblInit
  <1>2. TypeOK
    <2>1. faults \in 0..MaxFaults
      BY <1>1, MaxFaultsAssumption
    <2>2. op \in [Clients -> Operations]
      BY <1>1, IdleType
    <2> QED BY <1>1, <2>1, <2>2, IdleType DEF TypeOK, WblTypeOK, Versions, JobStates, Results
  <1>3. /\ NoProject.wbl.st = "ABSENT" /\ NoProject.import = "none"
        /\ CopyTrue(NoProject)
    BY DEF NoProject, CopyTrue, StageTrue, Absent, Stage, NoJob
  <1>4. RemoteTrue
    BY <1>1, <1>3 DEF RemoteTrue, Jobs
  <1>5. ResultInPlace
    <2>1. \A r : NoProject.wbl # [st |-> "RUNNING", run |-> r]
      BY DEF NoProject
    <2> QED BY <1>1, <1>3, <2>1 DEF ResultInPlace, WblResultKept
  <1>6. OpTrue(Idle)
    <2>1. /\ Idle.pc = "idle" /\ Idle.view = NoProject /\ Idle.cand = NoProject
          /\ Idle.run = NoResult
      BY DEF Idle
    <2> QED BY <1>1, <1>3, <2>1, IdleType
            DEF OpTrue, CreatesAlone, CreatingPCs, ViewDated, SavesOneStage, KnowsStage,
                KnowsResult, WblPCs, LockedPCs, BeforePCs, AfterPCs
  <1>7. \A c, d \in Clients : c # d => Apart(c, d)
    <2>1. Idle.run = NoResult /\ Idle.pc = "idle"
      BY DEF Idle
    <2> QED BY <1>1, <2>1 DEF Apart, At
  <1> QED BY <1>1, <1>2, <1>4, <1>5, <1>6, <1>7 DEF Inv

LEMMA NextInv ==
  ASSUME Inv, [Next]_vars
  PROVE  Inv'
  <1>1. CASE (\E j \in Jobs : JobEnds(j)) \/ SourceChanges \/ UNCHANGED vars
    BY <1>1, OwnersInv
  <1>2. ASSUME NEW c \in Clients, Saves(c) \/ Crash(c) PROVE Inv'
    <2>1. CASE Crash(c)
      BY <2>1, EndLocal DEF Crash, Remote
    <2> QED BY <1>2, <2>1, SavesInv
  <1>3. ASSUME NEW c \in Clients, Submission(c) PROVE Inv'
    <2>1. CASE DismissCancel(c) \/ DispatchSuccessor(c)
      BY <2>1, EndLocal DEF DismissCancel, DispatchSuccessor, Local, Remote, Works
    <2> QED BY <1>3, <2>1, CreateInv, WriteInitialInv, DispatchInv, SubmitFrequencyInv,
               AskCancelInv, CancelActiveInv, ResubmitInv, ResolvePriorInv DEF Submission
  <1>4. ASSUME NEW c \in Clients, Importing(c) PROVE Inv'
    <2>1. CASE DiscardValidation(c)
      BY <2>1, EndLocal DEF DiscardValidation, Local, Remote, Works
    <2> QED BY <1>4, <2>1, ValidateInv, RecordDigestsInv, ImportLocalInv, ImportCopyInv,
               ImportRegisterInv, ImportDiscardInv DEF Importing
  <1>5. ASSUME NEW c \in Clients, WblRun(c) PROVE Inv'
    BY <1>5, BeginWblInv, RecordRunningInv, WblFailsInv, MakeStagingInv, FillStagingInv,
       RecheckInv, PublishAsideInv, PublishNewInv, CommitInv, CleanupInv, CheckFailureInv,
       RollbackInv, RestorePreviousInv, UndoInv DEF WblRun
  <1>6. ASSUME NEW c \in Clients, Refreshing(c) PROVE Inv'
    BY <1>6, RefreshInv, QueryInv, RecoverInv DEF Refreshing
  <1> QED BY <1>1, <1>2, <1>3, <1>4, <1>5, <1>6 DEF Next

\* Inv holds in every state: the copies, the jobs and the results agree.
THEOREM Invariance == Spec => []Inv
  <1>1. Init => Inv
    BY InitInv
  <1>2. Inv /\ [Next]_vars => Inv'
    BY NextInv
  <1> QED BY <1>1, <1>2, PTL DEF Spec

----------------------------------------------------------------------------
(* What follows from it.                                                   *)

\* Every variable keeps its type, for any number of clients, runs and faults.
THEOREM TypeCorrect == Spec => []TypeOK
  <1>1. Inv => TypeOK
    BY DEF Inv
  <1> QED BY <1>1, Invariance, PTL

\* remote/wbl_results.py: whatever fails, and however many clients calculate, what
\* the manifest says of the WBL result fits what lies in the directories, and the
\* result a run replaces can be recovered until the run's manifest is committed.
THEOREM ResultTheorem == Spec => []WblResultKept
  <1>1. Inv => WblResultKept
    BY DEF Inv, ResultInPlace
  <1> QED BY <1>1, Invariance, PTL

\* _reconcile_orca, cancel_active_job, import_optimization: no manifest records an
\* end that the stage's job, or the copied files, have not reached.
THEOREM EndTheorem == Spec => []EndIsReal
  <1>1. ASSUME Inv PROVE EndIsReal
    <2>1. /\ StageTrue(man, "opt") /\ StageTrue(man, "freq")
          /\ man.import # "none" => files \in {man.import, "none"}
      BY <1>1 DEF Inv, RemoteTrue, CopyTrue
    <2>2. ASSUME NEW s \in {"opt", "freq"}, ~(s = "opt" /\ man.import # "none")
          PROVE  /\ man[s].st \in {"SUCCEEDED", "SCHEDULER_COMPLETED"} =>
                      man[s].job # NoJob /\ jobs[man[s].job] \in DOMAIN Left
                 /\ man[s].st = "SUCCEEDED" => Proof[s] \subseteq Left[jobs[man[s].job]]
                 /\ man[s].st = "FAILED" /\ man[s].job # NoJob =>
                      jobs[man[s].job] \in {"failed", "nonconverged"}
      <3>1. StageTrue(man, s) /\ s # NoJob
        BY <2>1 DEF NoJob
      <3> QED BY <2>2, <3>1 DEF StageTrue
    <2> QED BY <2>1, <2>2 DEF EndIsReal
  <1> QED BY <1>1, Invariance, PTL

\* _cancel_resubmission_source: a replacement is dispatched only when the job its
\* source was waiting for has ended or its cancellation was accepted.
THEOREM SuccessorTheorem == Spec => []SuccessorWaits
  <1>1. ASSUME Inv PROVE SuccessorWaits
    <2>1. ASSUME NEW c \in Clients, op[c].pc = "replace", op[c].view[op[c].stage].job # NoJob
          PROVE  LET record == op[c].view[op[c].stage] IN
                   jobs[record.job] # "live" \/ record.job \in killed
      <3>1. PICK x \in Operations : x = op[c] /\ OpTrue(x) /\ KnowsStage(x)
        BY <1>1, Known
      <3>2. x.stage \in Stages /\ StageTrue(x.view, x.stage)
        BY <3>1, StageKnown
      <3>3. x.view[x.stage].job = x.stage
        BY <2>1, <3>1, <3>2 DEF StageTrue
      <3> QED BY <2>1, <3>1, <3>3 DEF KnowsStage
    <2> QED BY <2>1 DEF SuccessorWaits, At
  <1> QED BY <1>1, Invariance, PTL

\* A step keeps what has been accepted of the two stages that run jobs.
LEMMA FinalStep ==
  ASSUME Inv, [Next]_vars
  PROVE  /\ man.opt.st = "SUCCEEDED" /\ man.import = "none" => man'.opt = man.opt
         /\ man.freq.st = "SUCCEEDED" => man'.freq = man.freq
  <1> DEFINE Kept == /\ man.opt.st = "SUCCEEDED" /\ man.import = "none" => man'.opt = man.opt
                     /\ man.freq.st = "SUCCEEDED" => man'.freq = man.freq
  <1>1. CASE man' = man
    BY <1>1
  <1>2. CASE man = NoProject
    BY <1>2 DEF NoProject, Absent, Stage
  <1>3. ASSUME NEW c \in Clients, Saves(c) PROVE Kept
    <2>1. PICK x \in Operations : x = op[c] /\ OpTrue(x)
      BY Known
    <2>2. x.cand \in Manifests /\ SavesOneStage(x) /\ ViewDated(x)
      BY <2>1, OperationFields DEF OpTrue
    <2>3. CASE man' = Bumped(x.cand) /\ man.rev = x.view.rev
      <3>1. man'.opt = x.cand.opt /\ man'.freq = x.cand.freq /\ x.view = man
        BY <2>2, <2>3, BumpedFields DEF ViewDated
      <3>2. x.pc = "save"
        BY <1>3, <2>1 DEF Saves, At
      <3> QED BY <2>2, <3>1, <3>2 DEF SavesOneStage
    <2> QED BY <1>1, <1>3, <2>1, <2>3 DEF Saves, Current
  <1>4. ASSUME NEW c \in Clients, WriteInitial(c) \/ ImportRegister(c) PROVE Kept
    <2>1. PICK x \in Operations : x = op[c] /\ CreatesAlone(x)
      BY Known
    <2>2. man = NoProject
      BY <1>4, <2>1 DEF CreatesAlone, CreatingPCs, WriteInitial, ImportRegister, At
    <2> QED BY <1>2, <2>2
  <1>5. ASSUME NEW c \in Clients, RecordRunning(c) \/ Commit(c) \/ Undo(c) PROVE Kept
    <2>1. PICK x \in Operations : x = op[c] /\ OpTrue(x) /\ ViewDated(x) /\ KnowsResult(x)
      BY Known
    <2>2. /\ x.run \in Results /\ x.prev \in Results
          /\ x.view.opt.st = "SUCCEEDED"
      BY <1>5, <2>1, OperationFields
         DEF KnowsResult, LockedPCs, RecordRunning, Commit, Undo, At
    <2>3. \/ man' = man
          \/ /\ man.rev = x.view.rev
             /\ \E st \in {"RUNNING", "SUCCEEDED", "FAILED"}, r \in Results :
                  man' = Bumped(WithWbl(x.view, st, r))
      BY <1>5, <2>1, <2>2 DEF RecordRunning, Commit, Undo, Undone, Commits, Current
    <2>4. ASSUME man.rev = x.view.rev, NEW st \in {"RUNNING", "SUCCEEDED", "FAILED"},
                 NEW r \in Results, man' = Bumped(WithWbl(x.view, st, r))
          PROVE  Kept
      <3>1. PICK w : w = man'
        OBVIOUS
      <3>2. w = Bumped(WithWbl(x.view, st, r)) /\ man.rev = x.view.rev
        BY <2>4, <3>1
      <3>3. /\ x.view = man /\ w \in Manifests /\ CopyTrue(w) /\ w.rev = man.rev + 1
            /\ w.rev > man.rev /\ man.rev \in Nat
            /\ w.opt = man.opt /\ w.freq = man.freq /\ w.import = man.import
            /\ w.wbl = [st |-> st, run |-> r]
            /\ w.import # "none" => files \in {w.import, "none"}
        BY <2>1, <2>2, <2>4, <3>2, WblWritten
      <3> QED BY <3>1, <3>3
    <2> QED BY <1>1, <2>3, <2>4
  <1>6. ASSUME NEW c \in Clients,
               \/ Crash(c) \/ Create(c) \/ Dispatch(c) \/ SubmitFrequency(c) \/ AskCancel(c)
               \/ DismissCancel(c) \/ CancelActive(c) \/ Resubmit(c) \/ ResolvePrior(c)
               \/ DispatchSuccessor(c) \/ Validate(c) \/ RecordDigests(c) \/ DiscardValidation(c)
               \/ Import(c) \/ ImportCopy(c) \/ ImportSeen(c) \/ ImportDiscard(c) \/ Refreshing(c)
        PROVE  man' = man
    BY <1>6 DEF Crash, Create, Dispatch, SubmitFrequency, AskCancel, DismissCancel, CancelActive,
       Resubmit, ResolvePrior, DispatchSuccessor, Validate, RecordDigests, DiscardValidation,
       Import, ImportCopy, ImportSeen, ImportDiscard, Refreshing, Refresh, Query, Recover, Local
  <1>7. ASSUME NEW c \in Clients,
               \/ \E r \in Runs : BeginWbl(c, r)
               \/ WblFails(c) \/ MakeStaging(c) \/ FillStaging(c) \/ Recheck(c)
               \/ PublishAside(c) \/ PublishNew(c) \/ Tidy(c) \/ CheckFailure(c) \/ Rollback(c)
               \/ RestorePrevious(c) \/ Clean(c)
        PROVE  man' = man
    BY <1>7 DEF BeginWbl, WblFails, MakeStaging, FillStaging, Recheck, PublishAside, PublishNew,
       Tidy, CheckFailure, Rollback, RestorePrevious, Clean, Moves, Local
  <1>8. (\E j \in Jobs : JobEnds(j)) \/ SourceChanges \/ UNCHANGED vars => man' = man
    BY DEF JobEnds, SourceChanges, vars
  <1>9. ASSUME NEW c \in Clients, Submission(c) \/ Importing(c) \/ WblRun(c) PROVE Kept
    BY <1>1, <1>4, <1>5, <1>6, <1>7, <1>9 DEF Submission, Importing, WblRun
  <1> QED BY <1>1, <1>3, <1>6, <1>8, <1>9 DEF Next

\* docs/WORKFLOW.md: once accepted, the record of an optimization or of a frequency
\* job is never changed again, by no stage, no installation and no failure.
THEOREM FinalTheorem == Spec => OptimizationIsFinal
  <1>1. Inv /\ [Next]_vars =>
          [/\ man.opt.st = "SUCCEEDED" /\ man.import = "none" => man'.opt = man.opt
           /\ man.freq.st = "SUCCEEDED" => man'.freq = man.freq]_vars
    BY FinalStep
  <1> QED BY <1>1, Invariance, PTL DEF Spec, OptimizationIsFinal
=============================================================================

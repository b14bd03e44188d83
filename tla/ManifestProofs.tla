--------------------------- MODULE ManifestProofs ---------------------------
(***************************************************************************)
(* Proofs about ManifestClients: when no two clients are in the write      *)
(* window together, persist_update is an atomic compare-and-swap, for any  *)
(* number of clients and any contents.                                     *)
(***************************************************************************)
EXTENDS ManifestClients, TLAPS

\* The inductive invariant.  CheckedIsCurrent alone is not inductive: a rename
\* of one client would make the comparison of another in the window stale, and
\* Serialized says that there is no such other client.
Inv == TypeOK /\ Serialized /\ CheckedIsCurrent

\* A new project satisfies the invariant: every client is idle.
LEMMA InitInv == Init => Inv
<1> SUFFICES ASSUME Init PROVE Inv
  OBVIOUS
<1>1. TypeOK
  BY DEF Init, TypeOK, Manifests
<1>2. Serialized /\ CheckedIsCurrent
  BY DEF Init, Serialized, CheckedIsCurrent, InWindow
<1> QED
  BY <1>1, <1>2 DEF Inv

\* Every serialized step, and every stuttering step, preserves the invariant.
LEMMA StepInv == Inv /\ [SerialNext]_storeVars => Inv'
<1> SUFFICES ASSUME Inv, [SerialNext]_storeVars PROVE Inv'
  OBVIOUS
<1> USE DEF Inv
<1>1. CASE UNCHANGED storeVars
  BY <1>1 DEF storeVars, TypeOK, Serialized, CheckedIsCurrent, InWindow
<1>2. ASSUME Serialized', NEW c \in Clients, ClientStep(c) PROVE Inv'
  <2>1. CASE BeginUpdate(c)
    BY <1>2, <2>1 DEF BeginUpdate, Load, TypeOK, CheckedIsCurrent, InWindow
  <2>2. CASE Compute(c)
    <3>1. PICK content \in Contents : Prepare(c, content)
      BY <2>2 DEF Compute
    <3> QED
      BY <1>2, <3>1 DEF Prepare, TypeOK, CheckedIsCurrent, InWindow
  <2>3. CASE Check(c)
    BY <1>2, <2>3 DEF Check, SameRevision, TypeOK, CheckedIsCurrent, InWindow
  <2>4. CASE CheckFails(c)
    BY <1>2, <2>4 DEF CheckFails, TypeOK, CheckedIsCurrent, InWindow
  <2>5. CASE Rename(c)
    <3>1. \A d \in Clients : ~InWindow(d)'
      BY <2>5 DEF Rename, TypeOK, Serialized, InWindow
    <3>2. TypeOK'
      BY <2>5 DEF Rename, Successor, TypeOK, Manifests
    <3> QED
      BY <1>2, <3>1, <3>2 DEF CheckedIsCurrent
  <2>6. CASE Fail(c)
    BY <1>2, <2>6 DEF Fail, TypeOK, CheckedIsCurrent, InWindow
  <2> QED
    BY <1>2, <2>1, <2>2, <2>3, <2>4, <2>5, <2>6 DEF ClientStep
<1> QED
  BY <1>1, <1>2 DEF SerialNext, Next

\* Every reachable state of the serialized schedules satisfies the invariant.
THEOREM SerialInvariant == SerialSpec => []Inv
<1> QED
  BY InitInv, StepInv, PTL DEF SerialSpec

\* remote/project_repository.py: a client between the comparison and the rename
\* still holds the stored revision.
THEOREM CheckedIsCurrentTheorem == SerialSpec => []CheckedIsCurrent
<1>1. Inv => CheckedIsCurrent
  BY DEF Inv
<1> QED
  BY <1>1, SerialInvariant, PTL

\* What a step does to the manifest: nothing, or it installs the successor.
LEMMA StepIsUpdate ==
    ASSUME Inv, [SerialNext]_storeVars
    PROVE  \/ UNCHANGED manifest
           \/ /\ manifest'.rev = manifest.rev + 1
              /\ manifest' \in [rev : {manifest.rev + 1}, steps : Contents]
<1>1. CASE UNCHANGED storeVars
  BY <1>1 DEF storeVars
<1>2. ASSUME NEW c \in Clients, ClientStep(c), ~Rename(c) PROVE UNCHANGED manifest
  BY <1>2 DEF ClientStep, BeginUpdate, Load, Compute, Prepare, Check, CheckFails, Fail
<1>3. ASSUME NEW c \in Clients, Rename(c)
      PROVE  manifest' = [rev |-> manifest.rev + 1, steps |-> cand[c]] /\ cand[c] \in Contents
  <2>1. view[c].rev = manifest.rev
    BY <1>3 DEF Inv, CheckedIsCurrent, Rename, InWindow
  <2> QED
    BY <1>3, <2>1 DEF Rename, Successor, Inv, TypeOK
<1> QED
  BY <1>1, <1>2, <1>3 DEF SerialNext, Next

\* docs/ARCHITECTURE.md:121 "atomic revision-checked writes", for schedules in
\* which the write windows do not overlap.
THEOREM RevisionCheckedTheorem == SerialSpec => RevisionChecked
<1>1. Inv /\ [SerialNext]_storeVars =>
        [manifest' # manifest => manifest'.rev = manifest.rev + 1]_storeVars
  BY StepIsUpdate
<1> QED
  BY <1>1, SerialInvariant, PTL DEF SerialSpec, RevisionChecked

\* The clients implement the register of AtomicManifest under the same
\* schedules.
THEOREM RegisterTheorem == SerialSpec => RegisterSpec
<1>1. Init => Register!Init
  BY DEF Init, Register!Init
<1>2. Inv /\ [SerialNext]_storeVars => [Register!Next]_manifest
  BY StepIsUpdate DEF Register!Next
<1> QED
  BY <1>1, <1>2, SerialInvariant, PTL DEF SerialSpec, RegisterSpec, Register!Spec
=============================================================================

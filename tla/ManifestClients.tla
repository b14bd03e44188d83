--------------------------- MODULE ManifestClients ---------------------------
(***************************************************************************)
(* Clients that do nothing but load project.json, compute some new record  *)
(* and persist it: the repository protocol by itself, for any use of it.   *)
(***************************************************************************)
EXTENDS ManifestStore

CONSTANT
    MaxRev       \* bound: no update starts from a revision at or above it

ASSUME MaxRevAssumption == MaxRev \in Nat

\* write_initial has run: it writes revision 1 into a directory the creator
\* has just made exclusively, so no other client takes part in it.
Init ==
    /\ manifest \in [rev : {1}, steps : Contents]
    /\ pc = [c \in Clients |-> "idle"]
    /\ view = [c \in Clients |-> manifest]
    /\ cand = [c \in Clients |-> manifest.steps]

BeginUpdate(c) ==
    /\ pc[c] = "idle"
    /\ manifest.rev < MaxRev
    /\ Load(c, "loaded")

Compute(c) ==
    /\ pc[c] = "loaded"
    /\ \E content \in Contents \ {view[c].steps} : Prepare(c, content)

ClientStep(c) ==
    BeginUpdate(c) \/ Compute(c) \/ Check(c) \/ CheckFails(c) \/ Rename(c) \/ Fail(c)

Next == \E c \in Clients : ClientStep(c)

Spec == Init /\ [][Next]_storeVars

\* The same clients when no two of them are in the write window together.
SerialNext == Next /\ Serialized'

SerialSpec == Init /\ [][SerialNext]_storeVars

----------------------------------------------------------------------------
TypeOK ==
    /\ manifest \in Manifests
    /\ pc \in [Clients -> {"idle", "loaded", "persist", "rename"}]
    /\ view \in [Clients -> Manifests]
    /\ cand \in [Clients -> Contents]

\* A client that passed the comparison still holds the stored revision when it
\* renames (persist_update compares before _atomic_write and not after).
CheckedIsCurrent == \A c \in Clients : InWindow(c) => view[c].rev = manifest.rev

\* docs/ARCHITECTURE.md:121 "atomic revision-checked writes": every write
\* installs the successor of the revision it replaces, so that no update of
\* another client is overwritten unseen.
RevisionChecked ==
    [][manifest' # manifest => manifest'.rev = manifest.rev + 1]_storeVars

\* The register the callers of the repository rely on.
Register == INSTANCE AtomicManifest
RegisterSpec == Register!Spec
=============================================================================

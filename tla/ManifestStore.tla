---------------------------- MODULE ManifestStore ----------------------------
(***************************************************************************)
(* remote/project_repository.py: several clients (desktop installations)   *)
(* update one remote project.json over SFTP.  persist_update is three      *)
(* remote steps - read and compare the revision, write a temporary file,   *)
(* rename it over the manifest - and nothing locks the file between them.  *)
(* A temporary file has a fresh name and is never read, so it has no state *)
(* of its own here.                                                        *)
(***************************************************************************)
EXTENDS Naturals

CONSTANTS
    Clients,     \* desktop installations that share the remote project
    Contents     \* the workflow records a manifest may hold

VARIABLES
    manifest,    \* the remote file: its revision and its workflow record
    pc,          \* pc[c]: where client c is in its current operation
    view,        \* view[c]: the manifest c loaded for this operation
    cand         \* cand[c]: the workflow record c is about to persist

storeVars == <<manifest, pc, view, cand>>

Manifests == [rev : Nat, steps : Contents]

----------------------------------------------------------------------------
\* load: the operation's authoritative copy; after it the client continues at l.
Load(c, l) ==
    /\ view' = [view EXCEPT ![c] = manifest]
    /\ pc' = [pc EXCEPT ![c] = l]
    /\ UNCHANGED <<manifest, cand>>

\* The caller has computed the record it wants to persist.
Prepare(c, content) ==
    /\ cand' = [cand EXCEPT ![c] = content]
    /\ pc' = [pc EXCEPT ![c] = "persist"]
    /\ UNCHANGED <<manifest, view>>

\* Mutant: the comparison accepts a manifest that was updated meanwhile.
SameRevision_Newer(c) == manifest.rev >= view[c].rev

\* The revision comparison of persist_update.
SameRevision(c) == manifest.rev = view[c].rev

\* persist_update, first half: reload the manifest and compare the revision.
Check(c) ==
    /\ pc[c] = "persist"
    /\ SameRevision(c)
    /\ pc' = [pc EXCEPT ![c] = "rename"]
    /\ UNCHANGED <<manifest, view, cand>>

\* "remote project revision changed before update": nothing is written.
CheckFails(c) ==
    /\ pc[c] = "persist"
    /\ ~SameRevision(c)
    /\ pc' = [pc EXCEPT ![c] = "idle"]
    /\ UNCHANGED <<manifest, view, cand>>

\* The record persist_update writes: the caller's, one revision further.
Successor(m, content) == [rev |-> m.rev + 1, steps |-> content]

\* _atomic_write: the rename installs the candidate, whatever is there by now.
Rename(c) ==
    /\ pc[c] = "rename"
    /\ manifest' = Successor(view[c], cand[c])
    /\ pc' = [pc EXCEPT ![c] = "idle"]
    /\ UNCHANGED <<view, cand>>

\* Transport loss, a failed rename, or the end of the process.
Fail(c) ==
    /\ pc[c] # "idle"
    /\ pc' = [pc EXCEPT ![c] = "idle"]
    /\ UNCHANGED <<manifest, view, cand>>

----------------------------------------------------------------------------
\* The window in which a client has compared the revision and not yet renamed.
InWindow(c) == pc[c] = "rename"

\* A schedule in which the windows of two clients never overlap.  The code does
\* not enforce it; it is the assumption under which its check is a real
\* compare-and-swap.
Serialized == \A c, d \in Clients : InWindow(c) /\ InWindow(d) => c = d
=============================================================================

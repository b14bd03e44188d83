------------------------------ MODULE WblResult ------------------------------
(***************************************************************************)
(* The remote directories of one project's wide-band-limit result          *)
(* (remote/wbl_results.py, WblResultPublication).                          *)
(*                                                                         *)
(* A run works under a token of its own: it fills .wbl.tmp-<token>, moves  *)
(* the result "wbl" aside to .wbl.previous-<token>, moves its own in, and  *)
(* keeps the manifest it replaces in wbl-previous-<token>.project.json.    *)
(* A directory is known by the run whose verified artifacts it holds; the  *)
(* token, the file list and the checksums are that run.                    *)
(*                                                                         *)
(* Each action is the remote command that changes something, with the      *)
(* verifications the code makes just before it as its guard.               *)
(***************************************************************************)
EXTENDS Naturals

CONSTANTS Runs, NoResult

ASSUME NoResultAssumption == NoResult \notin Runs

VARIABLES
    final,      \* the run whose artifacts the directory wbl holds
    staging,    \* staging[r]: the staging directory of run r
    backup,     \* backup[r]: the result run r has moved aside
    snapshot    \* snapshot[r]: the result recorded in the manifest run r saved

wblVars == <<final, staging, backup, snapshot>>

Results == Runs \cup {NoResult}

WblTypeOK ==
    /\ final \in Results
    /\ staging \in [Runs -> {"absent", "partial", "complete"}]
    /\ backup \in [Runs -> Results]
    /\ snapshot \in [Runs -> Results]

WblInit ==
    /\ final = NoResult
    /\ staging = [r \in Runs |-> "absent"]
    /\ backup = [r \in Runs |-> NoResult]
    /\ snapshot = [r \in Runs |-> NoResult]

----------------------------------------------------------------------------
(* Before anything is moved.                                               *)

\* The token is new, and the result is the recorded one, or absent.
Preflight(r, prev) ==
    /\ staging[r] = "absent"
    /\ backup[r] = NoResult
    /\ snapshot[r] = NoResult
    /\ final = prev

\* Does nothing when there is no previous result.
PreserveManifest(r, prev) ==
    /\ snapshot' = [snapshot EXCEPT ![r] = prev]
    /\ UNCHANGED <<final, staging, backup>>

SetStaging(r, content) ==
    /\ staging' = [staging EXCEPT ![r] = content]
    /\ UNCHANGED <<final, backup, snapshot>>

----------------------------------------------------------------------------
(* publish: two renames, each of which may have happened unreported.       *)

\* Mutant: the previous result is removed instead of being moved aside.
SetAside_Removed(r, prev) ==
    /\ final = prev
    /\ staging[r] = "complete"
    /\ final' = NoResult
    /\ UNCHANGED <<staging, backup, snapshot>>

SetAside(r, prev) ==
    /\ staging[r] = "complete"
    /\ final = prev
    /\ backup[r] = NoResult
    /\ final' = NoResult
    /\ backup' = [backup EXCEPT ![r] = prev]
    /\ UNCHANGED <<staging, snapshot>>

MoveIn(r) ==
    /\ staging[r] = "complete"
    /\ final = NoResult
    /\ final' = r
    /\ staging' = [staging EXCEPT ![r] = "absent"]
    /\ UNCHANGED <<backup, snapshot>>

----------------------------------------------------------------------------
(* rollback, from the directories as they are found.                       *)

\* This run's artifacts are not in place: a previous result was not moved, or it
\* only has to be put back.
NothingToUndo(r, prev) ==
    \/ final = NoResult
    \/ prev # NoResult /\ backup[r] = NoResult /\ final = prev

MoveOut(r) ==
    /\ final = r
    /\ staging[r] = "absent"
    /\ final' = NoResult
    /\ staging' = [staging EXCEPT ![r] = "complete"]
    /\ UNCHANGED <<backup, snapshot>>

Restore(r, prev) ==
    /\ backup[r] = prev
    /\ final = NoResult
    /\ final' = prev
    /\ backup' = [backup EXCEPT ![r] = NoResult]
    /\ UNCHANGED <<staging, snapshot>>

----------------------------------------------------------------------------
(* Clean-up, after the manifest has been committed or put back.            *)

\* discard_backup, then discard_previous_manifest.
DiscardBackup(r, prev) ==
    /\ backup[r] = prev
    /\ backup' = [backup EXCEPT ![r] = NoResult]
    /\ snapshot' = [snapshot EXCEPT ![r] = NoResult]
    /\ UNCHANGED <<final, staging>>

\* discard_staging keeps a directory this run did not make and files that do not
\* verify; the saved manifest goes only after the staging directory.
DiscardStaging(r, made) ==
    \/ /\ made => staging[r] # "partial"
       /\ staging' = [staging EXCEPT ![r] = IF made THEN "absent" ELSE @]
       /\ snapshot' = [snapshot EXCEPT ![r] = NoResult]
       /\ UNCHANGED <<final, backup>>
    \/ made /\ staging[r] = "partial" /\ UNCHANGED wblVars
=============================================================================

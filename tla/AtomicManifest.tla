--------------------------- MODULE AtomicManifest ---------------------------
(***************************************************************************)
(* What the project repository promises to its callers: project.json is a  *)
(* register with a revision, and every update installs the successor of    *)
(* the revision it replaces, as one step.                                  *)
(***************************************************************************)
EXTENDS Naturals

CONSTANT Contents

VARIABLE manifest

Init == manifest \in [rev : {0, 1}, steps : Contents]

\* A compare-and-swap that succeeded: the successor of the stored revision.
Next == manifest' \in [rev : {manifest.rev + 1}, steps : Contents]

Spec == Init /\ [][Next]_manifest
=============================================================================

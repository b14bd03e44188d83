------------------------ MODULE MCTransportAttempts ------------------------
(***************************************************************************)
(* Small instances of TransportAttempts for TLC.                           *)
(***************************************************************************)
EXTENDS TransportAttempts, TLC

Symmetry == Permutations(Settings)

\* The locals of an operation end with it, and what is on screen matters only to
\* a client that submits.
LiveState ==
    <<manifest, pc, [c \in Submitters |-> seen[c]], files, logs, matrices, te, jobs,
      [c \in Clients |-> IF pc[c] = "idle" THEN Submitted ELSE view[c]],
      [c \in Clients |-> IF pc[c] \in {"persist", "rename"} THEN cand[c] ELSE Submitted.steps],
      [c \in Clients |-> IF pc[c] \in {"idle", "persist", "rename"} THEN Idle ELSE op[c]]>>
=============================================================================

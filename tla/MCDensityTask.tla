---------------------------- MODULE MCDensityTask ----------------------------
(***************************************************************************)
(* Small instances of DensityTask for TLC.                                 *)
(***************************************************************************)
EXTENDS DensityTask, TLC

CONSTANTS i1, i2, w1, w2

\* Two installations: one does everything but cancel, the other refreshes and
\* retries.
TwoHomes == [w \in {w1, w2} |-> IF w = w1 THEN i1 ELSE i2]
TwoRoles == [w \in {w1, w2} |-> IF w = w1 THEN Operations \ {"cancel"} ELSE {"refresh", "retry"}]

\* One installation with one operation at a time.
OneHome == [w \in {w1} |-> i1]
OneRole == [w \in {w1} |-> Operations]

\* Identifiers are handed out in any order.
Symmetry == Permutations(Jobs)

\* What is still read: of a local copy only the receipt and what it is compared
\* with; the loaded record until the save begins to write; the record to save
\* only while it is saved.
LiveState ==
    <<manifest, dirs, cluster, pc, history,
      [i \in Installations |-> IF cache[i].job = NoJob THEN NoTask
                               ELSE [cache[i] EXCEPT !.state = "QUEUED", !.flag = FALSE]],
      [w \in Workers |->
         LET saving == pc[w] \in {"check", "rename", "verify"} IN
         <<IF pc[w] \in {"rename", "verify"} THEN NoTask ELSE view[w],
           IF saving THEN <<cand[w], after[w]>> ELSE <<NoTask, "idle">>,
           IF pc[w] = "refresh" \/ (saving /\ after[w] = "refresh") THEN op[w] ELSE "refresh">>]>>
=============================================================================

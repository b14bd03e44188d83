------------------------- MODULE MCProjectsDesktop -------------------------
(* ProjectsDesktop for TLC: refresh sessions are interchangeable.          *)
EXTENDS ProjectsDesktop, TLC

SessionSymmetry == Permutations(Sessions)

\* Safety needs no fairness, and symmetry must not be used with it.
SafetySpec == Init /\ [][Next]_vars

\* Bound: two refresh threads run at once only as long as nothing has been submitted and the
\* last revision is not reached.
RefreshBound ==
    (\A s \in Sessions : threads[s].pc # "off") =>
        /\ submission.pc = "off"
        /\ \A p \in Projects :
            /\ remote[p].try = 0 /\ remote[p].rev < MaxRev
            /\ \A n \in Tries : jobs[p][n] = "none"
=============================================================================

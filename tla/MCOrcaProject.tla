---------------------------- MODULE MCOrcaProject ----------------------------
(***************************************************************************)
(* Small instances of OrcaProject for TLC.                                 *)
(***************************************************************************)
EXTENDS OrcaProject, TLC

\* Clients are interchangeable, and so are the tokens of runs.
Symmetry == Permutations(Clients) \cup Permutations(Runs)

\* Revision numbers are only ever compared for equality with the stored one, and
\* a copy that is out of date stays so.  Where an operation will only find out
\* that it is out of date, what its copy says does not matter either.
Dated(m) == [m EXCEPT !.rev = IF @ = man.rev THEN 1 ELSE 0]

Refused(o) ==
    /\ o.view.rev # man.rev
    /\ o.run # NoResult \/ o.pc \in {"dispatch", "save", "query", "recover"}

Currency ==
    <<[man EXCEPT !.rev = 1], files, source, jobs, killed, faults, wblVars,
      [c \in Clients |->
         IF Refused(op[c]) THEN [op[c] EXCEPT !.view = NoProject, !.cand = Imported("first")]
         ELSE [op[c] EXCEPT !.view = Dated(@), !.cand = Dated(@)]]>>
=============================================================================

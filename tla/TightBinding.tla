----------------------------- MODULE TightBinding -----------------------------
(***************************************************************************)
(* A tight-binding window (gui/tight_binding_workspace.py) and its model   *)
(* (app/tight_binding.py).  The user edits the parameters of a molecule:   *)
(* energies per element and couplings per element pair, exact overrides of *)
(* single atoms and bonds, two contacts and the energy grid.  Every edit   *)
(* resolves the model again; once a first calculation has been asked for,  *)
(* a timer recalculates, in one worker at a time, with the eigenpairs of   *)
(* the last Hamiltonian kept for the next calculation.                     *)
(*                                                                         *)
(* A text is a number: a positive one is a value, Blank an empty field and *)
(* Malformed a text that is not a number or out of its range.  The grid    *)
(* field stands for both broadenings and the four fields of the grid.      *)
(***************************************************************************)
EXTENDS Naturals, Integers, Sequences, FiniteSets, FiniteSetsExt, Functions

CONSTANTS
    None,
    Molecule,        \* [atom -> its element]
    Bonds,           \* sets of two atoms
    LinkAtoms,       \* atoms that link to an electrode
    Offered,         \* the texts typed into each kind of field
    Divergent,       \* onsite values for which the eigensolver does not converge
    Singular,        \* grid values for which the transmission is not finite
    MaxEdits         \* bound on the user's gestures

Blank == 0
Malformed == -1
Atoms == DOMAIN Molecule
PairOf(bond) == {Molecule[a] : a \in bond}
Kinds == {"onsite", "hopping", "atom", "bond", "grid"}

\* What a field holds, and what a worker is started with; None is none of these.
FieldTexts == Nat \cup {Malformed}
Models ==
    [h : [onsite : [Atoms -> FieldTexts], hopping : [Bonds -> FieldTexts]],
     left : Atoms, right : Atoms, grid : FieldTexts]
Requests == [gen : Nat, model : Models]

TightBindingAssumption ==
    /\ IsFiniteSet(Atoms) /\ Atoms \subseteq Nat \ {0} /\ LinkAtoms \subseteq Atoms
    /\ Bonds \subseteq SUBSET Atoms /\ \A bond \in Bonds : Cardinality(bond) = 2
    /\ Offered \in [Kinds -> SUBSET FieldTexts]
    /\ None \notin Requests

VARIABLES
    form,      \* the texts of the fields
    cursor,    \* the selected atom and bond, and the contact being picked
    work,      \* the calculations: generation, model, timer, worker, queue
    cache,     \* the Hamiltonian whose eigenpairs the calculator holds
    shown,     \* status line, matrix and plot
    posted,    \* signals of the worker still to be delivered
    gestures   \* how many gestures the user has made

vars == <<form, cursor, work, cache, shown, posted, gestures>>

----------------------------------------------------------------------------
(* The parameters and the model they resolve to. *)

\* An exact override of an atom or bond takes precedence over its type's value.
Onsite(f, a) == IF f.atom[a] # Blank THEN f.atom[a] ELSE f.onsite[Molecule[a]]
Hopping(f, b) == IF f.bond[b] # Blank THEN f.bond[b] ELSE f.hopping[PairOf(b)]

\* What the matrix shows: the values already given, each entry on its own.
Number(text) == IF text > 0 THEN text ELSE None
PartialValues(f) ==
    [onsite |-> [a \in Atoms |-> Number(Onsite(f, a))],
     hopping |-> [b \in Bonds |-> Number(Hopping(f, b))]]

\* A malformed text anywhere, even one that no atom or bond uses, refuses the model.
Texts(f) ==
    {f.grid} \cup Range(f.onsite) \cup Range(f.hopping) \cup Range(f.atom) \cup Range(f.bond)

Hamiltonian(f) ==
    [onsite |-> [a \in Atoms |-> Onsite(f, a)], hopping |-> [b \in Bonds |-> Hopping(f, b)]]

Missing(f) ==
    \/ \E a \in Atoms : Onsite(f, a) = Blank
    \/ \E b \in Bonds : Hopping(f, b) = Blank
    \/ Blank \in {f.left, f.right, f.grid}

\* What the record of a model accepts; a grid out of its range is Malformed.
Valid(f) == f.left # f.right /\ f.grid # Malformed

Resolved(f) ==
    IF Malformed \notin Texts(f) /\ ~Missing(f) /\ Valid(f)
    THEN [h |-> Hamiltonian(f), left |-> f.left, right |-> f.right, grid |-> f.grid]
    ELSE None

\* What a calculation of the model returns with those eigenpairs.
Transmission(model, eigen) ==
    [eigen |-> eigen, left |-> model.left, right |-> model.right, grid |-> model.grid]

Converges(h) == \A a \in Atoms : h.onsite[a] \notin Divergent
Finite(model) == model.grid \notin Singular

\* Eigenpairs are used again for the Hamiltonian they were computed for.
Eigenpairs(h) == IF cache = h THEN cache ELSE h

----------------------------------------------------------------------------
(* An edit. *)

\* _parameters_changed, after the fields have changed.
Changed(f) ==
    LET model == Resolved(f) IN
    /\ form' = f
    /\ work' = [work EXCEPT !.gen = @ + 1, !.model = model, !.pending = None,
                            !.timer = IF model = None THEN @ ELSE @ \/ work.started]
    /\ shown' = [shown EXCEPT !.matrix = PartialValues(f),
                              !.status = IF model = None THEN "invalid" ELSE "ready"]
    /\ UNCHANGED <<cache, posted>>

\* A field reports a change only when its content changes.
ChangedTo(f) == IF f = form THEN UNCHANGED <<form, work, shown, cache, posted>> ELSE Changed(f)

Gesture ==
    /\ ~work.closed /\ gestures < MaxEdits
    /\ gestures' = gestures + 1

TypeOnsite(element, text) ==
    Gesture /\ ChangedTo([form EXCEPT !.onsite[element] = text]) /\ UNCHANGED cursor

TypeHopping(pair, text) ==
    Gesture /\ ChangedTo([form EXCEPT !.hopping[pair] = text]) /\ UNCHANGED cursor

TypeGrid(text) ==
    Gesture /\ ChangedTo([form EXCEPT !.grid = text]) /\ UNCHANGED cursor

\* An override field edits the atom or bond that is selected.
TypeAtom(text) ==
    /\ cursor.atom # None
    /\ Gesture /\ ChangedTo([form EXCEPT !.atom[cursor.atom] = text]) /\ UNCHANGED cursor

TypeBond(text) ==
    /\ cursor.bond # None
    /\ Gesture /\ ChangedTo([form EXCEPT !.bond[cursor.bond] = text]) /\ UNCHANGED cursor

Contact(side, atom) == [form EXCEPT ![side] = atom]

SelectContact(side, atom) ==
    Gesture /\ ChangedTo(Contact(side, atom)) /\ UNCHANGED cursor

UseCandidate(side, atom) ==
    /\ atom \in LinkAtoms
    /\ SelectContact(side, atom)

\* A pick button is pressed, which releases the other one, or released.
PickContact(side) ==
    /\ Gesture
    /\ LET on == cursor.pick # side IN
        /\ cursor' = [cursor EXCEPT !.pick = IF on THEN side ELSE None]
        /\ shown' = IF on THEN [shown EXCEPT !.status = "pick"] ELSE shown
    /\ UNCHANGED <<form, work, cache, posted>>

\* A click on an atom is the contact waited for, or selects the atom whose override
\* is edited (on the page of the atoms' energies).
AtomPicked(atom) ==
    /\ Gesture
    /\ \/ /\ cursor.pick # None
          /\ ChangedTo(Contact(cursor.pick, atom))
          /\ cursor' = [cursor EXCEPT !.pick = None]
       \/ /\ cursor.pick = None
          /\ cursor' = [cursor EXCEPT !.atom = atom]
          /\ UNCHANGED <<form, work, cache, shown, posted>>

BondPicked(bond) ==
    /\ Gesture
    /\ cursor' = [cursor EXCEPT !.bond = bond]
    /\ UNCHANGED <<form, work, cache, shown, posted>>

----------------------------------------------------------------------------
(* Calculations. *)

\* _start_or_queue_calculation: one worker at a time; the last request waits.
StartOrQueue(w, gen, model) ==
    IF w.running # None
    THEN /\ work' = [w EXCEPT !.pending = [gen |-> gen, model |-> model]]
         /\ shown' = [shown EXCEPT !.status = "queued"]
    ELSE /\ work' = [w EXCEPT !.running = [gen |-> gen, model |-> model]]
         /\ shown' = [shown EXCEPT !.status = "calculating"]

\* Calculate is enabled while the model resolves.
Calculate ==
    /\ Gesture
    /\ work.model # None
    /\ StartOrQueue([work EXCEPT !.started = TRUE], work.gen, work.model)
    /\ UNCHANGED <<form, cursor, cache, posted>>

\* The timer of _parameters_changed has run out.
Recalculate ==
    /\ work.timer
    /\ LET fired == [work EXCEPT !.timer = FALSE] IN
        IF work.model = None THEN work' = fired /\ UNCHANGED shown
                             ELSE StartOrQueue(fired, work.gen, work.model)
    /\ UNCHANGED <<form, cursor, cache, posted, gestures>>

\* The worker's thread computes and posts its outcome and its end.  The eigenpairs are
\* kept once they are complete, whatever becomes of the transmission.
Compute ==
    LET model == work.running.model
        eigen == Eigenpairs(model.h)
        outcome == IF Converges(model.h) /\ Finite(model)
                   THEN [kind |-> "succeeded", result |-> Transmission(model, eigen)]
                   ELSE [kind |-> "failed", result |-> None] IN
    /\ work.running # None /\ posted = <<>> /\ ~work.computed
    /\ cache' = IF Converges(model.h) THEN eigen ELSE cache
    /\ posted' = <<outcome, [kind |-> "finished", result |-> None]>>
    /\ work' = [work EXCEPT !.computed = TRUE]
    /\ UNCHANGED <<form, cursor, shown, gestures>>

\* An outcome of an earlier generation, or for a closed window, is dropped.
Outcome ==
    LET current == ~work.closed /\ work.running.gen = work.gen
        event == Head(posted) IN
    /\ posted # <<>> /\ event.kind # "finished"
    /\ posted' = Tail(posted)
    /\ shown' = IF ~current THEN shown
                ELSE IF event.kind = "failed" THEN [shown EXCEPT !.status = "failed"]
                ELSE [shown EXCEPT !.status = "calculated", !.plot = event.result]
    /\ UNCHANGED <<form, cursor, work, cache, gestures>>

\* A plausible mistake in the code: the request that waited is forgotten.
Finished_Forgets ==
    /\ posted # <<>> /\ Head(posted).kind = "finished"
    /\ posted' = Tail(posted)
    /\ work' = [work EXCEPT !.running = None, !.computed = FALSE, !.pending = None]
    /\ UNCHANGED <<form, cursor, cache, shown, gestures>>

\* The request that waited is started if it is still of the current generation.
Finished ==
    LET idle == [work EXCEPT !.running = None, !.computed = FALSE, !.pending = None]
        next == work.pending IN
    /\ posted # <<>> /\ Head(posted).kind = "finished"
    /\ posted' = Tail(posted)
    /\ IF ~work.closed /\ next # None /\ next.gen = work.gen
       THEN StartOrQueue(idle, next.gen, next.model)
       ELSE work' = idle /\ UNCHANGED shown
    /\ UNCHANGED <<form, cursor, cache, gestures>>

Close ==
    /\ ~work.closed
    /\ work' = [work EXCEPT !.closed = TRUE, !.timer = FALSE, !.pending = None]
    /\ UNCHANGED <<form, cursor, cache, shown, posted, gestures>>

----------------------------------------------------------------------------
(* Behaviours. *)

Sides == {"left", "right"}

\* The fields of a new window are blank; two candidates alone become the contacts.
Empty ==
    [onsite |-> [e \in {Molecule[a] : a \in Atoms} |-> Blank],
     hopping |-> [p \in {PairOf(b) : b \in Bonds} |-> Blank],
     atom |-> [a \in Atoms |-> Blank], bond |-> [b \in Bonds |-> Blank],
     left |-> IF Cardinality(LinkAtoms) = 2 THEN Min(LinkAtoms) ELSE Blank,
     right |-> IF Cardinality(LinkAtoms) = 2 THEN Max(LinkAtoms) ELSE Blank,
     grid |-> Blank]

\* A window is new, or its types and grid have been filled in.
Filled(o, h, g) ==
    [Empty EXCEPT !.onsite = [e \in DOMAIN @ |-> o], !.hopping = [p \in DOMAIN @ |-> h], !.grid = g]
Entered ==
    {Filled(o, h, g) : o \in Offered["onsite"] \ {Malformed}, h \in Offered["hopping"] \ {Malformed},
        g \in Offered["grid"] \ {Malformed}}

Init ==
    /\ form \in {Empty} \cup Entered
    /\ cursor = [atom |-> None, bond |-> None, pick |-> None]
    /\ work = [gen |-> 0, model |-> Resolved(form), started |-> FALSE, timer |-> FALSE,
               running |-> None, computed |-> FALSE, pending |-> None, closed |-> FALSE]
    /\ cache = None
    /\ shown = [status |-> IF Resolved(form) = None THEN "invalid" ELSE "ready",
                matrix |-> PartialValues(form), plot |-> None]
    /\ posted = <<>>
    /\ gestures = 0

Edits ==
    \/ \E e \in DOMAIN form.onsite, text \in Offered["onsite"] : TypeOnsite(e, text)
    \/ \E p \in DOMAIN form.hopping, text \in Offered["hopping"] : TypeHopping(p, text)
    \/ \E text \in Offered["grid"] : TypeGrid(text)
    \/ \E text \in Offered["atom"] : TypeAtom(text)
    \/ \E text \in Offered["bond"] : TypeBond(text)
    \/ \E side \in Sides, atom \in Atoms \cup {Blank} : SelectContact(side, atom)
    \/ \E side \in Sides, atom \in Atoms : UseCandidate(side, atom)

Picks ==
    \/ \E side \in Sides : PickContact(side)
    \/ \E atom \in Atoms : AtomPicked(atom)
    \/ \E bond \in Bonds : BondPicked(bond)

Calculations == Calculate \/ Recalculate \/ Compute \/ Outcome \/ Finished

Next == Edits \/ Picks \/ Calculations \/ Close

Spec == Init /\ [][Next]_vars

----------------------------------------------------------------------------
(* Properties. *)

Quiet == ~work.timer /\ work.running = None /\ posted = <<>> /\ ~work.closed

\* "Calculated from the current model" is true when it is said, and once nothing is
\* left to wait for, the plot is that of the parameters in the fields, with the
\* eigenpairs of their Hamiltonian, unless that model cannot be evaluated: no change
\* is lost between the timer, the running worker and the one request that waits.
PlotIsCurrent ==
    LET now == Transmission(work.model, work.model.h) IN
    /\ shown.status = "calculated" => shown.plot = now
    /\ Quiet /\ work.started /\ work.model # None =>
           \/ ~Converges(work.model.h) \/ ~Finite(work.model)
           \/ shown.plot = now

\* The matrix beside the fields is the Hamiltonian that would be calculated, although
\* it is put together entry by entry and the model as a whole.
MatrixIsModel == work.model # None => shown.matrix = work.model.h

Shown == PlotIsCurrent /\ MatrixIsModel

=============================================================================

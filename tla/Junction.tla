-------------------------------- MODULE Junction --------------------------------
(***************************************************************************)
(* The contact Au atoms put on the anchor groups of a molecule.              *)
(*                                                                           *)
(* A placement removes the terminal hydrogens of the chosen groups, numbers   *)
(* the other atoms anew and appends one Au per group (apply_au_placements).   *)
(* Afterwards the anchors are found again, and what is found decides which    *)
(* step of the workflow may start.  Where an Au comes to lie, and whether     *)
(* there is room for it, is left out.                                         *)
(***************************************************************************)
EXTENDS Anchors

CONSTANTS
    Structures,  \* the structures a session may start from
    None

VARIABLES
    mol,     \* the structure of the workspace
    placed   \* the latest placement: [source, anchors, number], or None

vars == <<mol, placed>>

----------------------------------------------------------------------------
(* A proposal: the atoms its angle refers to, and the hydrogen that makes room. *)

InGroup(s, a, element) == {k \in Neighbours(s, a.binding) \cap a.atoms : s.el[k] = element}
Backbone(s, a) == {k \in Structural(s, a.binding) \ a.atoms : s.el[k] # "H"}

AngleReferences(s, a) ==
    CASE a.kind \in {"NCS", "SMe", "Alkynyl-C", "Cyano-N", "Pyridine-N"} -> InGroup(s, a, "C")
      [] a.kind \in {"NH2", "SH"} -> Backbone(s, a)
      [] a.kind = "Dicyano-C" -> IF a.binding \in Groups(s) THEN Reference(s, a.binding) ELSE {}

Removed(s, a) == IF a.kind \in {"SH", "Alkynyl-C"} THEN InGroup(s, a, "H") ELSE {}

\* _build_constraint: a free site with its reference atoms and its hydrogen.
Proposable(s, a) ==
    /\ a.au = {}
    /\ Cardinality(AngleReferences(s, a)) = IF a.kind = "Pyridine-N" THEN 2 ELSE 1
    /\ a.kind \in {"SH", "Alkynyl-C"} => Cardinality(Removed(s, a)) = 1

----------------------------------------------------------------------------
(* apply_au_placements. *)

\* _validate_terminal_hydrogen_removal, _validate_cross_proposal_removals.
Applicable(s, anchors) ==
    LET removals == UNION {Removed(s, a) : a \in anchors} IN
    /\ Cardinality(anchors) \in {1, 2}
    /\ \A a \in anchors :
          /\ Proposable(s, a)
          /\ a.binding \notin removals
          /\ \A b \in anchors \ {a} :
                /\ a.binding # b.binding
                /\ Removed(s, a) \cap (Removed(s, b) \cup b.atoms \cup b.au) = {}

\* The number an atom of the source has in the result.
NewNumber(s, anchors) ==
    LET kept == Atoms(s) \ UNION {Removed(s, a) : a \in anchors} IN
    [i \in kept |-> Cardinality({k \in kept : k <= i})]

\* The contact Au atoms follow the others, in the order of their binding atoms.
Applied(s, anchors) ==
    LET number == NewNumber(s, anchors)
        last == Cardinality(DOMAIN number)
        survivor(n) == CHOOSE i \in DOMAIN number : number[i] = n
        contact(a) == last + Cardinality({b \in anchors : b.binding <= a.binding}) IN
    [el |-> [n \in 1..(last + Cardinality(anchors)) |-> IF n <= last THEN s.el[survivor(n)] ELSE "Au"],
     bonds |-> {{number[i] : i \in b} : b \in {c \in s.bonds : c \subseteq DOMAIN number}}
                  \cup {{number[a.binding], contact(a)} : a \in anchors}]

----------------------------------------------------------------------------
(* What may be done with the structure. *)

\* eligible_electrode_contact_sites: one Au each, and no Au that serves two anchors.
ContactSites(s) == {a \in Anchors(s) : Cardinality(a.au) = 1}
SitesAreEligible(s) == \A a, b \in ContactSites(s) : a # b => a.au \cap b.au = {}

\* imported_contact_au_context, ImportedContactAuContext: electrodes may be added directly.
ContactsImported(s) ==
    /\ Cardinality(Anchors(s)) = 2 /\ ContactSites(s) = Anchors(s) /\ SitesAreEligible(s)
    /\ Of(s, "Au") = UNION {a.au : a \in Anchors(s)}

\* recommend_start_step.
Advice(s) ==
    LET occupied == {a \in Anchors(s) : a.au # {}}
        contacts == UNION {a.au : a \in occupied} IN
    IF Anchors(s) = {} THEN "ambiguous"
    ELSE IF contacts = {} THEN "step1"
    ELSE IF Of(s, "Au") # contacts THEN "ambiguous"
    ELSE IF Cardinality(occupied) = 2 /\ Cardinality(contacts) = 2 THEN "step2" ELSE "ambiguous"

----------------------------------------------------------------------------
Init == mol \in Structures /\ placed = None

\* One or two of the anchors found are given their contact Au.
Place(anchors) ==
    /\ Applicable(mol, anchors)
    /\ mol' = Applied(mol, anchors)
    /\ placed' = [source |-> mol, anchors |-> anchors, number |-> NewNumber(mol, anchors)]

Next == \E anchors \in SUBSET Anchors(mol) : Place(anchors)

Spec == Init /\ [][Next]_vars

----------------------------------------------------------------------------
(* Properties. *)

\* Detection never produces what AnchorCandidate refuses, and an atom binds for one group
\* only: a placement is looked up by its binding atom.
AnchorsAreSound ==
    \A a \in Anchors(mol) :
        /\ IsCandidate(a)
        /\ \A b \in Anchors(mol) : a.binding = b.binding => a = b

\* After a placement every chosen group is found again, of the same kind and with the new
\* Au only, and every group no atom was taken from is found as it was.  A thiol on a carbon
\* with nothing but a nitrogen beside it (its other bond missed by the detection) is taken
\* for an isothiocyanate once its hydrogen is gone.
ContactsAreRecognised ==
    placed # None =>
        LET found(a, contacts) ==
                \E b \in Anchors(mol) :
                    /\ b.binding = placed.number[a.binding] /\ Cardinality(b.au) = contacts
                    /\ (b.kind = a.kind \/ (a.kind = "SH" /\ b.kind = "NCS"))
            taken == UNION {Removed(placed.source, a) : a \in placed.anchors} IN
        /\ \A a \in placed.anchors : found(a, 1)
        /\ \A a \in Anchors(placed.source) \ placed.anchors :
              a.atoms \cap taken = {} => found(a, Cardinality(a.au))

\* Two contacts that can be placed together can be placed one after the other, in either
\* order, and the structure is the same.
JointIsSequential ==
    \A a, b \in Anchors(mol) :
        a.binding < b.binding /\ Applicable(mol, {a, b}) =>
            LET then(first, second) ==
                    {Applied(Applied(mol, {first}), {c}) :
                        c \in {d \in Anchors(Applied(mol, {first})) :
                                 /\ d.binding = NewNumber(mol, {first})[second.binding]
                                 /\ Applicable(Applied(mol, {first}), {d})}} IN
            then(a, b) = {Applied(mol, {a, b})} /\ then(b, a) # {}

\* A structure that may be given its electrodes at once is never advised to start with the
\* molecule, and two placements on the two groups of a bare molecule lead there, unless a
\* hydrogen that was taken had a second bond and hid another group.
StartIsAdvised ==
    LET bare == Of(placed.source, "Au") = {} /\ Anchors(placed.source) = placed.anchors
        apart == \A a \in placed.anchors : \A h \in Removed(placed.source, a) :
                    Cardinality(Neighbours(placed.source, h)) = 1 IN
    /\ ContactsImported(mol) => Advice(mol) = "step2"
    /\ (placed # None /\ bare /\ apart /\ Cardinality(placed.anchors) = 2) => ContactsImported(mol)
=============================================================================

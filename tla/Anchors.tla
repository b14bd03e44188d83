-------------------------------- MODULE Anchors --------------------------------
(***************************************************************************)
(* The anchor groups of a molecule, found from its bonds alone               *)
(* (detect_anchors).                                                         *)
(*                                                                           *)
(* A structure is [el, bonds]: its elements in order and its bonds as pairs   *)
(* of positions.  Each detector is one operator; the walk that looks for a    *)
(* six-membered ring is the set of the walks it makes.                        *)
(***************************************************************************)
EXTENDS Integers, FiniteSets, Sequences, FiniteSetsExt, SequencesExt

----------------------------------------------------------------------------
(* The graph. *)

Atoms(s) == DOMAIN s.el
Of(s, element) == {i \in Atoms(s) : s.el[i] = element}
Neighbours(s, i) == {j \in Atoms(s) : {i, j} \in s.bonds}

\* The neighbours of a binding atom: those of the molecule, and its contact Au.
\* Mutant: a contact Au counts as a part of the molecule.
Structural_WithGold(s, i) == Neighbours(s, i)
Structural(s, i) == {j \in Neighbours(s, i) : s.el[j] # "Au"}
AttachedAu(s, i) == {j \in Neighbours(s, i) : s.el[j] = "Au"}
Hydrogens(s, i) == {j \in Structural(s, i) : s.el[j] = "H"}

Anchor(s, kind, binding, atoms) ==
    [kind |-> kind, binding |-> binding, atoms |-> atoms, au |-> AttachedAu(s, binding)]

----------------------------------------------------------------------------
(* The groups, one operator per detector. *)

\* R-N=C=S, bound through the terminal sulfur.
IsNcs(s, sulfur, carbon, nitrogen) ==
    /\ Structural(s, sulfur) = {carbon} /\ Cardinality(Neighbours(s, carbon)) = 2
    /\ {k \in Neighbours(s, carbon) \ {sulfur} : s.el[k] = "N"} = {nitrogen}
    /\ Cardinality(Neighbours(s, nitrogen)) = 2
    /\ \A k \in Neighbours(s, nitrogen) \ {carbon} : k # sulfur /\ s.el[k] # "H"
Ncs(s) ==
    {Anchor(s, "NCS", t[1], {t[1], t[2], t[3]}) :
        t \in {u \in Of(s, "S") \X Of(s, "C") \X Of(s, "N") : IsNcs(s, u[1], u[2], u[3])}}

Nh2(s) ==
    {Anchor(s, "NH2", i, {i} \cup Hydrogens(s, i)) :
        i \in {k \in Of(s, "N") : Cardinality(Structural(s, k)) = 3 /\ Cardinality(Hydrogens(s, k)) = 2}}

\* The walks over carbon that end, after four bonds, at the other neighbour.
Lengthened(s, walks, end) ==
    UNION {{Append(w, k) : k \in (Neighbours(s, Last(w)) \cap Of(s, "C")) \ ToSet(w)} :
              w \in {v \in walks : Last(v) # end}}
FourEdgePaths(s, start, end) ==
    LET longer(walks) == Lengthened(s, walks, end) IN
    {w \in longer(longer(longer(longer({<<start>>})))) : Last(w) = end}

\* The six-membered rings through a nitrogen; the first in order of their atoms is taken.
Rings(s, i) ==
    {{i} \cup ToSet(w) : w \in FourEdgePaths(s, Min(Structural(s, i)), Max(Structural(s, i)))}
PyridineN(s) ==
    {Anchor(s, "Pyridine-N", i,
            CHOOSE r \in Rings(s, i) : \A q \in Rings(s, i) : q # r => Min(SymDiff(q, r)) \in r) :
        i \in {k \in Of(s, "N") : /\ Cardinality(Structural(s, k)) = 2
                                  /\ Structural(s, k) \subseteq Of(s, "C") /\ Rings(s, k) # {}}}

IsMethyl(s, carbon, sulfur) ==
    /\ s.el[carbon] = "C" /\ Cardinality(Neighbours(s, carbon)) = 4
    /\ \A k \in Neighbours(s, carbon) \ {sulfur} : s.el[k] = "H"
Methyls(s, sulfur) == {k \in Structural(s, sulfur) : IsMethyl(s, k, sulfur)}
SMe(s) ==
    {Anchor(s, "SMe", i, {i} \cup UNION {{m} \cup (Neighbours(s, m) \cap Of(s, "H")) : m \in Methyls(s, i)}) :
        i \in {k \in Of(s, "S") :
                  /\ Cardinality(Structural(s, k)) = 2 /\ Cardinality(Methyls(s, k)) = 1
                  /\ Hydrogens(s, k) = {}}}

\* With its hydrogen, or with an Au in its place and not the end of an NCS group.
Sh(s) ==
    LET ends == {a.binding : a \in Ncs(s)}
        free(i) == Cardinality(Structural(s, i)) = 2 /\ Cardinality(Hydrogens(s, i)) = 1
        bound(i) == /\ AttachedAu(s, i) # {} /\ Cardinality(Structural(s, i)) = 1
                    /\ Hydrogens(s, i) = {} /\ i \notin ends IN
    {Anchor(s, "SH", i, {i} \cup Hydrogens(s, i)) : i \in {k \in Of(s, "S") : free(k) \/ bound(k)}}

AlkynylC(s) ==
    LET carbons(i) == {j \in Structural(s, i) : s.el[j] = "C"}
        free(i) == /\ AttachedAu(s, i) = {} /\ Cardinality(Structural(s, i)) = 2
                   /\ Cardinality(Hydrogens(s, i)) = 1
        bound(i) == AttachedAu(s, i) # {} /\ Cardinality(Structural(s, i)) = 1
        linked(i) == \E c \in carbons(i) : \E k \in Neighbours(s, c) \ {i} : s.el[k] \notin {"H", "Au"} IN
    {Anchor(s, "Alkynyl-C", i, {i} \cup carbons(i) \cup Hydrogens(s, i)) :
        i \in {k \in Of(s, "C") : /\ Cardinality(carbons(k)) = 1 /\ (free(k) \/ bound(k)) /\ linked(k)}}

IsCyano(s, nitrogen, carbon) ==
    /\ Structural(s, nitrogen) = {carbon} /\ Cardinality(Structural(s, carbon)) = 2
    /\ Hydrogens(s, carbon) = {}
CyanoN(s) ==
    {Anchor(s, "Cyano-N", t[1], {t[1], t[2]}) :
        t \in {u \in Of(s, "N") \X Of(s, "C") : IsCyano(s, u[1], u[2])}}

----------------------------------------------------------------------------
(* R-C(CN)2, which counts only when a structure has exactly two of them. *)

\* The cyano arms of a carbon, each as <<carbon, nitrogen>>.
Arms(s, center) ==
    {t \in (Structural(s, center) \cap Of(s, "C")) \X Of(s, "N") :
        /\ Structural(s, t[1]) = {center, t[2]} /\ Structural(s, t[2]) = {t[1]}}
Reference(s, center) == Structural(s, center) \ {t[1] : t \in Arms(s, center)}
Groups(s) ==
    LET centers == {i \in Of(s, "C") :
                      /\ Cardinality(Structural(s, i)) = 3 /\ Cardinality(Arms(s, i)) = 2
                      /\ \A k \in Reference(s, i) : s.el[k] # "H"} IN
    IF Cardinality(centers) = 2 THEN centers ELSE {}
DicyanoC(s) ==
    {Anchor(s, "Dicyano-C", i, {i} \cup UNION {{t[1], t[2]} : t \in Arms(s, i)}) : i \in Groups(s)}

Anchors(s) ==
    Ncs(s) \cup Nh2(s) \cup PyridineN(s) \cup SMe(s) \cup AlkynylC(s) \cup CyanoN(s)
        \cup DicyanoC(s) \cup Sh(s)

\* AnchorCandidate.__post_init__: what every anchor must be.
IsCandidate(a) == a.binding \in a.atoms /\ a.atoms \cap a.au = {}
=============================================================================

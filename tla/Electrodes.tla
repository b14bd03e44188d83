------------------------------- MODULE Electrodes -------------------------------
(***************************************************************************)
(* The two gold electrodes of a junction, from the pyramids that are put on  *)
(* the contact atoms to the interface AITRANSS is given: the lattice, its     *)
(* extension by single atoms, the provenance that Step 3 records, the         *)
(* electrodes that are recovered from it in the submitted geometry, the form   *)
(* for tcontrol, and the explicit self-energy of the overlap retry.           *)
(*                                                                           *)
(* The lattice is exact: a site is a side and three integers, and distances   *)
(* within a side are a quadratic form of these. What coordinates decide        *)
(* between the sides and to the molecule is given by a crowd, the pairs of     *)
(* sites that are too near each other and the sites too near another element,  *)
(* which a turn around a bond replaces by another. The bonds of the added       *)
(* atoms and the undo history are in GeometryEditor.                          *)
(***************************************************************************)
EXTENDS Integers, Sequences, FiniteSets, SequencesExt, TLC

CONSTANTS
    Placements, \* molecules to start with: elements, the contact of each side, layers, and the crowd at Done
    Crowds,     \* [clash: sets of two sites, walls: sites]
    Room,       \* [layers -> [added: bound on the added atoms, entries: atoms that are entered for a corner]]
    MaxEdits,   \* bound on the edits of the forms
    None

VARIABLES
    placement, \* what was accepted with Done
    applied,   \* the added atoms in the order they were appended: [side, key, index]
    atoms,     \* the geometry of the workspace: [el, site]
    crowd,     \* what is too near in it
    step3,     \* the submitted job: [atoms, crowd, records, resolved: its surfaces], or None
    form,      \* the open form of Step 4, or None
    step4,     \* the accepted tcontrol, or None
    plan,      \* the interface of the retry, empty when it is refused, or None
    edits      \* edits of the forms so far

vars == <<placement, applied, atoms, crowd, step3, form, step4, plan, edits>>

Sides == <<"LEFT", "RIGHT">>
Apex == <<0, 0, 0>>
Site(side, key) == [side |-> side, key |-> key]

----------------------------------------------------------------------------
(* The lattice. *)

Layer(key) == key[1] + key[2] + key[3]
Corners(layers) == <<<<layers - 1, 0, 0>>, <<0, layers - 1, 0>>, <<0, 0, layers - 1>>>>

Lower(p, q) == p[1] < q[1] \/ (p[1] = q[1] /\ (p[2] < q[2] \/ (p[2] = q[2] /\ p[3] < q[3])))
Precedes(p, q) == Layer(p) < Layer(q) \/ (Layer(p) = Layer(q) /\ Lower(p, q))

\* generate_au_pyramid: the keys of a pyramid in their local order.
Pyramid(layers) ==
    LET keys == {k \in (0..layers - 1) \X (0..layers - 1) \X (0..layers - 1) : Layer(k) < layers} IN
    [n \in 1..Cardinality(keys) |-> CHOOSE k \in keys : Cardinality({l \in keys : Precedes(l, k)}) = n - 1]

\* lattice_distance_squared, in units of the spacing.
Apart(p, q) ==
    LET d == [i \in 1..3 |-> p[i] - q[i]] IN
    d[1] * d[1] + d[2] * d[2] + d[3] * d[3] + d[1] * d[2] + d[1] * d[3] + d[2] * d[3]

Around(key) ==
    {[i \in 1..3 |-> key[i] + d[i]] :
        d \in {<<1, -1, 0>>, <<-1, 1, 0>>, <<1, 0, -1>>, <<-1, 0, 1>>, <<0, 1, -1>>, <<0, -1, 1>>}}
Thirds(p, q) == Around(p) \cap Around(q)

\* raw_extension_candidate_keys: around the apex, beside the first edge, or across an
\* edge that belongs to one occupied triangle.
RawKeys(occupied) ==
    CASE Cardinality(occupied) = 1 -> UNION {Around(k) : k \in occupied}
      [] Cardinality(occupied) = 2 -> {k \in UNION {Around(p) : p \in occupied} : \A p \in occupied : Apart(k, p) = 1}
      [] OTHER ->
            UNION {LET thirds == Thirds(e[1], e[2]) IN
                   IF Cardinality(thirds \cap occupied) = 1 THEN thirds \ occupied ELSE {} :
                e \in UNION {{p} \X (Around(p) \cap occupied) : p \in occupied}}

\* has_au_lattice_clearance: two sites of one side are a spacing apart or the same.
IsClear(site, others, c) == site \notin others /\ \A t \in others : {site, t} \notin c.clash

----------------------------------------------------------------------------
(* Pyramids and added atoms. *)

\* propose_electrode_placement: the apex is the contact, the others follow the molecule,
\* those of the left side first.
Mapping(p, side) ==
    LET count == Len(p.keys) - 1
        before == Len(p.elements) + (IF side = "LEFT" THEN 0 ELSE count) IN
    <<p.contact[side]>> \o [n \in 1..count |-> before + n]

\* apply_electrode_placement.
Placed(p) ==
    LET Of(i) == {side \in ToSet(Sides) : p.contact[side] = i}
        molecule == [i \in 1..Len(p.elements) |->
            [el |-> p.elements[i], site |-> IF Of(i) = {} THEN None ELSE Site(CHOOSE s \in Of(i) : TRUE, Apex)]]
        Behind(side) == [n \in 1..Len(p.keys) - 1 |-> [el |-> "Au", site |-> Site(side, p.keys[n + 1])]] IN
    molecule \o Behind("LEFT") \o Behind("RIGHT")

Gold(geometry) == {i \in DOMAIN geometry : geometry[i].el = "Au"}
GoldSites(geometry) == {geometry[i].site : i \in Gold(geometry)}
Occupied(p, extensions, side, layer) ==
    {k \in ToSet(p.keys) : Layer(k) = layer}
        \cup {e.key : e \in {x \in extensions : x.side = side /\ Layer(x.key) = layer}}

\* enumerate_lattice_extension_candidates: in the geometry as it was at Done.
Candidates ==
    {s \in UNION {{Site(side, k) : k \in RawKeys(Occupied(placement, ToSet(applied), side, layer))} :
            side \in ToSet(Sides), layer \in 0..placement.layers - 1} :
        IsClear(s, GoldSites(atoms), placement.crowd)}

\* _interaction_candidate: and as it is now, with the molecule.
Available == {s \in Candidates : IsClear(s, GoldSites(atoms), crowd) /\ s \notin crowd.walls}

----------------------------------------------------------------------------
(* The provenance of a project. *)

\* provenance_from_applied_electrodes.
Provenance(side) ==
    [side |-> side, layers |-> placement.layers, keys |-> placement.keys,
     mapping |-> Mapping(placement, side), apex |-> Apex, corners |-> Corners(placement.layers),
     added |-> SelectSeq(applied, LAMBDA e : e.side = side)]
Records == [n \in 1..2 |-> Provenance(Sides[n])]

AddedIndices(r) == {r.added[n].index : n \in DOMAIN r.added}
Members(r) == ToSet(r.mapping) \cup AddedIndices(r)

\* ProjectElectrodeClusterProvenance.__post_init__.
RecordIsValid(r) ==
    /\ Len(r.mapping) = Len(r.keys) /\ IsInjective(r.mapping)
    /\ r.keys = Pyramid(r.layers) /\ r.apex = Apex /\ r.corners = Corners(r.layers)
    /\ Cardinality(ToSet(r.corners)) = 3
    /\ \A n \in DOMAIN r.added : Layer(r.added[n].key) \in 0..r.layers - 1
    /\ \A m, n \in DOMAIN r.added : m < n => r.added[m].key # r.added[n].key /\ r.added[m].index < r.added[n].index
    /\ \A n \in DOMAIN r.added : r.added[n].key \notin ToSet(r.keys)
    /\ ToSet(r.mapping) \cap AddedIndices(r) = {}

\* CalculationProject.__post_init__.
ProjectIsRefused(records) ==
    \/ Len(records) # 2 \/ \E n \in 1..2 : ~RecordIsValid(records[n]) \/ records[n].side # Sides[n]
    \/ records[1].layers # records[2].layers \/ records[1].mapping[1] = records[2].mapping[1]
    \/ Members(records[1]) \cap Members(records[2]) # {}

----------------------------------------------------------------------------
(* The electrodes of a submitted geometry. *)

Sources(records, geometry) ==
    Len(geometry) - (Cardinality(Members(records[1])) - 1) - (Cardinality(Members(records[2])) - 1)

\* _validate_record_against_structure: distances between the atoms that are mapped.
Misplaced(r, geometry) ==
    {e \in (DOMAIN r.keys) \X (DOMAIN r.keys) :
        LET p == geometry[r.mapping[e[1]]].site
            q == geometry[r.mapping[e[2]]].site IN
        p = None \/ q = None \/ p.side # q.side \/ Apart(p.key, q.key) # Apart(r.keys[e[1]], r.keys[e[2]])}
RecordFits(r, geometry) == Members(r) \subseteq Gold(geometry) /\ Misplaced(r, geometry) = {}

\* validate_persisted_lattice_extensions: the added atoms again, in the order they were
\* appended to both sides, among the gold before them.
Replayed(records, geometry, c) ==
    LET added == ToSet(records[1].added) \cup ToSet(records[2].added)
        first == Len(geometry) - Cardinality(added) + 1
        Before(index) == {geometry[i].site : i \in Gold(geometry) \cap 1..index - 1}
        Earlier(e) == {x \in added : x.index < e.index} IN
    /\ {e.index : e \in added} = first..Len(geometry)
    /\ \A e \in added :
        /\ e.key \in RawKeys({k \in ToSet(records[1].keys) : Layer(k) = Layer(e.key)}
                        \cup {x.key : x \in {y \in Earlier(e) : y.side = e.side /\ Layer(y.key) = Layer(e.key)}})
        /\ geometry[e.index] = [el |-> "Au", site |-> Site(e.side, e.key)]
        /\ IsClear(Site(e.side, e.key), Before(e.index), c)

\* propose_electrode_surfaces.
Resolves(records, geometry, c) ==
    LET sources == Sources(records, geometry) IN
    /\ sources > 0 /\ ~ProjectIsRefused(records)
    /\ \A n \in 1..2 : records[n].mapping[1] <= sources /\ RecordFits(records[n], geometry)
    /\ UNION {Members(records[n]) \ {records[n].mapping[1]} : n \in 1..2} = sources + 1..Len(geometry)
    /\ Replayed(records, geometry, c)

\* _corner_global_indices.
Surface(r) == [n \in 1..3 |-> r.mapping[CHOOSE m \in DOMAIN r.keys : r.keys[m] = r.corners[n]]]

----------------------------------------------------------------------------
(* tcontrol. *)

\* _REVIEWED_INITIAL_VALUES: 0 where none has been reviewed.
ReviewedLayers(layers) ==
    CASE layers = 4 -> [value |-> 2, source |-> "aims"]
      [] layers = 5 -> [value |-> 3, source |-> "aims"]
      [] layers = 6 -> [value |-> 4, source |-> "user"]
      [] OTHER -> [value |-> 0, source |-> None]

\* Orbitals that Step 3 has reported.
Orbitals == 1

\* TControlProposal.from_evidence, AitranssStep4Dialog.__init__.
Proposed(job) ==
    LET reviewed == ReviewedLayers(job.records[1].layers) IN
    [natoms |-> Len(job.atoms), nsaos |-> Orbitals,
     surface |-> [LEFT |-> Surface(job.records[1]), RIGHT |-> Surface(job.records[2])],
     nlayers |-> reviewed.value, energies |-> "ordered", selfEnergy |-> FALSE,
     source |-> reviewed.source, touched |-> FALSE]
Settings(f) ==
    [natoms |-> f.natoms, nsaos |-> f.nsaos, surface |-> f.surface, nlayers |-> f.nlayers,
     energies |-> f.energies, selfEnergy |-> f.selfEnergy]

\* _validate_non_collinear, in the plane of three sites of one side.
InLine(p, q, r) ==
    \A i, j \in 1..3 : (q[i] - p[i]) * (r[j] - p[j]) = (q[j] - p[j]) * (r[i] - p[i])
Collinear(indices, geometry) ==
    LET s == [n \in 1..3 |-> geometry[indices[n]].site] IN
    s[1].side = s[2].side /\ s[2].side = s[3].side /\ InLine(s[1].key, s[2].key, s[3].key)

\* TControlSettings, validate_tcontrol_settings.
TControlIsValid(t, geometry) ==
    /\ t.natoms > 0 /\ t.nsaos > 0 /\ t.nlayers > 0
    /\ \A n \in 1..2 :
        LET surface == t.surface[Sides[n]] IN
        /\ Cardinality(ToSet(surface)) = 3
        /\ \A i \in ToSet(surface) : i <= t.natoms /\ i \in Gold(geometry)
        /\ ~Collinear(surface, geometry)
    /\ ToSet(t.surface["LEFT"]) \cap ToSet(t.surface["RIGHT"]) = {}
    /\ t.energies = "ordered"

\* parse_tcontrol.
Parses(t, geometry) == t.natoms = Len(geometry) /\ TControlIsValid(t, geometry)

----------------------------------------------------------------------------
(* The interface. *)

\* select_interface_layers: the planes of a side, by their distance from its surface.
Distance_FromApex(r, i, geometry) == Layer(geometry[i].site.key)
Distance(r, i, geometry) ==
    LET d == Layer(geometry[Surface(r)[1]].site.key) - Layer(geometry[i].site.key) IN IF d < 0 THEN -d ELSE d
Distances(r, geometry) == {Distance(r, i, geometry) : i \in Members(r)}
Plane(r, i, geometry) ==
    Cardinality({d \in Distances(r, geometry) : d <= Distance(r, i, geometry)})
HasPlanes(r, n, geometry) == Cardinality(Distances(r, geometry)) >= n

\* PartitionedSelfEnergyPlan.atom_assignments: s1i, s2i, and s3i from the third plane on.
Free == [owner |-> None, plane |-> 0, leakage |-> 0]
Assigned(records, i, n, geometry) ==
    LET owners == {r \in ToSet(records) : i \in Members(r) /\ Plane(r, i, geometry) <= n} IN
    IF owners = {} THEN Free
    ELSE LET r == CHOOSE x \in owners : TRUE
             plane == Plane(r, i, geometry) IN
         [owner |-> r.side, plane |-> plane, leakage |-> IF plane < 3 THEN plane ELSE 3]
Interface(records, n, geometry) == [i \in DOMAIN geometry |-> Assigned(records, i, n, geometry)]

Unavailable == <<>>

\* _aitranss_failure after an overlap of the interfaces; the form does not protect what
\* Step 3 has reported.
Prepared(job, t) ==
    IF /\ job.resolved /\ Parses(t, job.atoms) /\ ~t.selfEnergy
       /\ t.nsaos = Orbitals
       /\ \A n \in 1..2 : HasPlanes(job.records[n], t.nlayers, job.atoms)
    THEN Interface(job.records, t.nlayers, job.atoms)
    ELSE Unavailable

----------------------------------------------------------------------------
Init ==
    /\ \E p \in Placements : placement = p @@ [keys |-> Pyramid(p.layers)]
    /\ crowd = placement.crowd
    /\ applied = <<>> /\ atoms = Placed(placement)
    /\ step3 = None /\ form = None /\ step4 = None /\ plan = None /\ edits = 0

\* add_lattice_extension_to_working_geometry.
Extend(site) ==
    /\ step3 = None /\ Len(applied) < Room[placement.layers].added
    /\ site \in Available
    /\ applied' = Append(applied, [side |-> site.side, key |-> site.key, index |-> Len(atoms) + 1])
    /\ atoms' = Append(atoms, [el |-> "Au", site |-> site])
    /\ UNCHANGED <<placement, crowd, step3, form, step4, plan, edits>>

\* A turn around a bond, before the submission or in the draft of a restart.
Turn(c) ==
    /\ form = None /\ c # crowd /\ crowd' = c
    /\ UNCHANGED <<placement, applied, atoms, step3, form, step4, plan, edits>>

\* TransportConvergenceContext: coordinates may have changed since Done.
Submit ==
    /\ step3 = None /\ ~ProjectIsRefused(Records)
    /\ step3' = [atoms |-> atoms, crowd |-> crowd, records |-> Records, resolved |-> Resolves(Records, atoms, crowd)]
    /\ UNCHANGED <<placement, applied, atoms, crowd, form, step4, plan, edits>>

\* _submit_restart: the draft of Step 3 or 4, with its coordinates changed.
Restart ==
    /\ step3 # None /\ form = None /\ crowd # step3.crowd
    /\ step3.resolved
    /\ step3' = [step3 EXCEPT !.crowd = crowd, !.resolved = Resolves(step3.records, step3.atoms, crowd)]
    /\ step3'.resolved
    /\ step4' = None /\ plan' = None
    /\ UNCHANGED <<placement, applied, atoms, crowd, form, edits>>

\* Step 4 is offered when the surfaces have been recovered.
OpenForm ==
    /\ step3 # None /\ step4 = None /\ form = None /\ crowd = step3.crowd
    /\ step3.resolved
    /\ form' = Proposed(step3)
    /\ UNCHANGED <<placement, applied, atoms, crowd, step3, step4, plan, edits>>

\* _submit_restart_step4: after a cancellation, on the settings that were submitted.
Reopen ==
    /\ step4 # None /\ form = None /\ crowd = step3.crowd
    /\ step3.resolved /\ Parses(step4, step3.atoms)
    /\ form' = step4 @@ [source |-> "user", touched |-> FALSE]
    /\ UNCHANGED <<placement, applied, atoms, crowd, step3, step4, plan, edits>>

Edit(changed) ==
    /\ form # None /\ edits < MaxEdits /\ changed # form
    /\ form' = [changed EXCEPT !.touched = TRUE] /\ edits' = edits + 1
    /\ UNCHANGED <<placement, applied, atoms, crowd, step3, step4, plan>>

\* _nlayers_changed.
EditLayers(n) ==
    Edit([form EXCEPT !.nlayers = n, !.source = IF n = form.nlayers THEN @ ELSE IF n > 0 THEN "user" ELSE None])
EditSurface(side, n, i) == Edit([form EXCEPT !.surface[side][n] = i])
EditNumbers ==
    \/ Edit([form EXCEPT !.natoms = Len(step3.atoms) + 1]) \/ Edit([form EXCEPT !.natoms = Len(step3.atoms) - 1])
    \/ Edit([form EXCEPT !.nsaos = Orbitals + 1]) \/ Edit([form EXCEPT !.energies = "reversed"])

\* _accept_submission.
Accept ==
    /\ form # None /\ TControlIsValid(form, step3.atoms)
    /\ step4' = Settings(form) /\ form' = None /\ plan' = None
    /\ UNCHANGED <<placement, applied, atoms, crowd, step3, edits>>

\* The job has failed because the interfaces overlap.
Prepare ==
    /\ step4 # None /\ ~step4.selfEnergy /\ form = None /\ plan = None /\ crowd = step3.crowd
    /\ plan' = Prepared(step3, step4)
    /\ UNCHANGED <<placement, applied, atoms, crowd, step3, form, step4, edits>>

\* retry_step4_with_explicit_self_energy, render_tcontrol_with_self_energy.
Retry ==
    /\ plan # None /\ plan # Unavailable /\ form = None /\ ~step4.selfEnergy
    /\ step4' = [step4 EXCEPT !.selfEnergy = TRUE]
    /\ UNCHANGED <<placement, applied, atoms, crowd, step3, form, plan, edits>>

Next ==
    \/ \E site \in Available : Extend(site)
    \/ \E c \in Crowds : Turn(c)
    \/ Submit \/ Restart \/ OpenForm \/ Reopen \/ Accept \/ Prepare \/ Retry
    \/ form # None /\ (\/ \E n \in 0..placement.layers + 1 : EditLayers(n)
                       \/ \E side \in ToSet(Sides), n \in 1..3, i \in Room[placement.layers].entries : EditSurface(side, n, i)
                       \/ EditNumbers)

----------------------------------------------------------------------------
\* An added atom touches its layer, from the third atom of it on in two places. What Step 3
\* records can be read back: each identity is the very site the atom occupies
\* in the submitted geometry, the surfaces are the corners of their own side, and Step 4
\* is refused exactly when an added atom has been turned too near to other gold.
ElectrodesAreRecovered ==
    /\ step3 = None => ~ProjectIsRefused(Records)
    /\ \A n \in DOMAIN applied :
        LET e == applied[n]
            own == Occupied(placement, {applied[m] : m \in 1..n - 1}, e.side, Layer(e.key)) IN
        Cardinality({k \in own : Apart(k, e.key) = 1}) >= IF Cardinality(own) = 1 THEN 1 ELSE 2
    /\ step3 # None =>
        /\ \A r \in ToSet(step3.records) :
            /\ \A n \in DOMAIN r.keys : step3.atoms[r.mapping[n]].site = Site(r.side, r.keys[n])
            /\ Members(r) = {i \in DOMAIN step3.atoms : step3.atoms[i].site # None /\ step3.atoms[i].site.side = r.side}
            /\ \A n \in 1..3 : step3.atoms[Surface(r)[n]].site = Site(r.side, r.corners[n])
        /\ step3.resolved <=>
            \A e \in ToSet(applied), t \in GoldSites(step3.atoms) : {Site(e.side, e.key), t} \notin step3.crowd.clash

\* The interface of a retry: plane n of a side is its lattice layer n from the base, with
\* the added atoms, and nothing else; it is refused only for what the user has changed.
InterfaceIsOwn ==
    plan # None =>
        /\ plan = Unavailable <=>
            step4.natoms # Len(step3.atoms) \/ step4.nsaos # Orbitals \/ step4.nlayers > placement.layers
        /\ plan # Unavailable => \A i \in DOMAIN plan :
            LET at == step3.atoms[i].site
                plane == IF at = None THEN 0 ELSE placement.layers - Layer(at.key) IN
            plan[i] = IF plane \in 1..step4.nlayers
                      THEN [owner |-> at.side, plane |-> plane, leakage |-> IF plane > 2 THEN 3 ELSE plane]
                      ELSE Free

\* A value is shown as recommended by AIMS only while it is the reviewed one, an untouched
\* form is what Step 3 or the last submission says, and what is accepted is a surface of
\* gold on which a plane is defined.
FormIsTrue ==
    /\ form # None =>
        /\ form.source = "aims" =>
            ReviewedLayers(placement.layers).source = "aims" /\ form.nlayers = ReviewedLayers(placement.layers).value
        /\ form.source = None <=> form.nlayers = 0
        /\ ~form.touched => IF step4 = None THEN Settings(form) = Settings(Proposed(step3)) ELSE Settings(form) = step4
    /\ step4 # None => \A n \in 1..2 : ~Collinear(step4.surface[Sides[n]], step3.atoms)
=============================================================================

------------------------------- MODULE JobInputs -------------------------------
(***************************************************************************)
(* The input files of an FHI-aims job: rendered from the settings and the     *)
(* species definitions of the server, and read back from the files alone when *)
(* a job is restarted (parse_generated_optimization_inputs for Steps 1 and 2,  *)
(* parse_generated_transport_convergence_inputs for Steps 3 and 4).            *)
(*                                                                           *)
(* A settings record serves both kinds; what a kind does not have is None.     *)
(* A number stands for a value that has been entered, 0 for zero or for a text  *)
(* that cannot be read.  A definition is a sequence of lines.                  *)
(***************************************************************************)
EXTENDS Integers, FiniteSets, SequencesExt

CONSTANT None

Accuracies == {"light", "tight", "really_tight"}
Hybrids == {"pbe0"}

----------------------------------------------------------------------------
(* Settings. *)

\* SpinSettings.__post_init__.
SpinIsValid(spin) ==
    IF spin.enabled
    THEN \/ spin.mode = "per_atom" /\ spin.uniform = None
         \/ spin.mode = "uniform" /\ spin.uniform \notin {None, 0}
    ELSE spin.mode = None /\ spin.uniform = None /\ spin.fixed = None

\* OrbitalCubeOutputSettings.__post_init__.
CubesAreValid(cubes) ==
    /\ 0 \notin cubes.states
    /\ cubes.spacing # None => cubes.spacing > 0 /\ (cubes.frontier # {} \/ cubes.states # {})

\* AtomAimsSettings.__post_init__.
OverrideIsValid(atom) == atom.accuracy # None \/ atom.moment # None \/ atom.charge # None

\* AimsOptimizationSettings.__post_init__, TransportConvergenceSettings.__post_init__.
OptimizationIsValid(s) ==
    LET moments == {s.atoms[i].moment : i \in DOMAIN s.atoms} \ {None} IN
    /\ \A i \in DOMAIN s.atoms : OverrideIsValid(s.atoms[i])
    /\ ~s.spin.enabled => moments = {}
    /\ s.spin.mode = "per_atom" => moments \ {0} # {}
ConvergenceIsValid(s) ==
    s.spin.mode # "per_atom" /\ s.spin.fixed = None /\ s.cubes.frontier = {}
SettingsAreValid(s) ==
    /\ SpinIsValid(s.spin) /\ CubesAreValid(s.cubes) /\ s.numbers > 0
    /\ IF s.kind = "optimization" THEN OptimizationIsValid(s) ELSE ConvergenceIsValid(s)

----------------------------------------------------------------------------
(* Species definitions. *)

Line(kind, element, accuracy) == [kind |-> kind, element |-> element, accuracy |-> accuracy]
Blank == Line("blank", None, None)
Name(element, accuracy) == [element |-> element, accuracy |-> accuracy]

Declarations(lines) == {k \in DOMAIN lines : lines[k].kind = "species"}
Declared(lines, k) == Name(lines[k].element, lines[k].accuracy)

\* species_default_block_from_text: one declaration, of the element; renamed.
Block(lines, element, name) ==
    IF Cardinality(Declarations(lines)) # 1 THEN None
    ELSE LET k == CHOOSE k \in Declarations(lines) : TRUE IN
         IF Declared(lines, k) # Name(element, None) THEN None
         ELSE [lines EXCEPT ![k].element = name.element, ![k].accuracy = name.accuracy]

\* InMemorySpeciesLibrary.load.
Load(library, element, accuracy, name) ==
    IF <<element, accuracy>> \in DOMAIN library THEN Block(library[<<element, accuracy>>], element, name) ELSE None

Distinct(sequence) ==
    FoldLeft(LAMBDA found, x : IF Contains(found, x) THEN found ELSE Append(found, x), <<>>, sequence)

WithoutBlanks(lines) == SubSeq(lines, 1, Max({0} \cup {k \in DOMAIN lines : lines[k] # Blank}))

----------------------------------------------------------------------------
(* Rendering. *)

AccuracyOf(s, i) ==
    IF i \in DOMAIN s.atoms /\ s.atoms[i].accuracy # None THEN s.atoms[i].accuracy ELSE s.accuracy

\* _species_name: an alias where the accuracy is not that of the other atoms.
SpeciesNames(elements, s) ==
    [i \in DOMAIN elements |->
        Name(elements[i], IF AccuracyOf(s, i) = s.accuracy THEN None ELSE AccuracyOf(s, i))]

\* render_geometry_in.
Geometry(elements, s) ==
    [i \in DOMAIN elements |->
        [name |-> SpeciesNames(elements, s)[i],
         moment |-> IF i \in DOMAIN s.atoms THEN s.atoms[i].moment ELSE None,
         charge |-> IF i \in DOMAIN s.atoms THEN s.atoms[i].charge ELSE None]]

\* render_orbital_cube_directives: each request repeats the grid.
CubeDirectives(cubes) ==
    [frontier |-> [orbital \in cubes.frontier |-> cubes.spacing], states |-> [n \in cubes.states |-> cubes.spacing]]

\* The directives of render_control_in and render_transport_convergence_control_in.
Directives(s) ==
    LET always == [xc |-> s.xc, spin |-> IF s.spin.enabled THEN "collinear" ELSE "none", charge |-> s.charge,
                   numbers |-> s.numbers, cube |-> CubeDirectives(s.cubes)]
        moment == IF s.spin.mode = "uniform" THEN [default_initial_moment |-> s.spin.uniform] ELSE <<>>
        fixed == IF s.spin.fixed # None THEN [fixed_spin_moment |-> s.spin.fixed] ELSE <<>>
        hybrid == IF s.xc \in Hybrids THEN [RI_method |-> "LVL_fast"] ELSE <<>>
        vdw == IF s.vdw # "none" THEN [vdw |-> s.vdw] ELSE <<>>
        dipole == IF s.dipole THEN [output_dipole |-> TRUE] ELSE <<>> IN
    IF s.kind = "optimization"
    THEN always @@ [relativistic |-> s.relativity] @@ moment @@ fixed @@ hybrid @@ vdw @@ dipole
    ELSE always @@ moment @@ [relativistic |-> "atomic_zora scalar", output |-> "aitranss"]

\* The definitions one below the other: those of Step 3 are kept as they are, with an empty
\* line between them, those of an optimization lose the empty lines they end with.
Body(blocks, kind) ==
    FoldLeft(LAMBDA body, block :
                 IF kind = "optimization" THEN body \o WithoutBlanks(block)
                 ELSE IF body = <<>> THEN block ELSE body \o <<Blank>> \o block,
             <<>>, blocks)

\* build_aims_optimization_inputs, build_transport_convergence_aims_inputs; None when a
\* definition cannot be used.
Inputs(elements, s, library) ==
    LET names == Distinct(SpeciesNames(elements, s))
        blocks == [k \in DOMAIN names |->
                      Load(library, names[k].element,
                           IF names[k].accuracy = None THEN s.accuracy ELSE names[k].accuracy, names[k])] IN
    IF elements = <<>> \/ None \in ToSet(blocks) THEN None
    ELSE [kind |-> s.kind, geometry |-> Geometry(elements, s), directives |-> Directives(s),
          accuracy |-> s.accuracy, body |-> Body(blocks, s.kind)]

----------------------------------------------------------------------------
(* Reading the files back. *)

Sorted(places) == SetToSortSeq(places, <)
Section(lines, places, j) ==
    SubSeq(lines, places[j], IF j = Len(places) THEN Len(lines) ELSE places[j + 1] - 1)

\* parse_control_species_elements: each species has one nucleus; None when one has not.
SpeciesElements(body) ==
    LET places == Sorted(Declarations(body))
        nuclei(j) == SelectSeq(Section(body, places, j), LAMBDA line : line.kind = "nucleus") IN
    IF places = <<>> \/ \E j \in DOMAIN places : Len(nuclei(j)) # 1 THEN None
    ELSE [name \in {Declared(body, places[j]) : j \in DOMAIN places} |->
             nuclei(CHOOSE j \in DOMAIN places : Declared(body, places[j]) = name)[1].element]

\* _embedded_species_library: the last separator above a declaration ends the block before;
\* the final line end of a block is not counted as a line.
Boundary(body, places, j, kind) ==
    LET above == {k \in (places[j - 1] + 1)..(places[j] - 1) : body[k] = Blank} IN
    IF kind = "optimization" THEN [last |-> places[j] - 1, next |-> places[j]]
    ELSE IF above = {} THEN None
    ELSE [last |-> Max(above) - 1, next |-> Max(above) + 1]
EmbeddedBlocks(body, kind) ==
    LET places == Sorted(Declarations(body))
        boundaries == [j \in 2..Len(places) |-> Boundary(body, places, j, kind)]
        block(j) == SubSeq(body, IF j = 1 THEN 1 ELSE boundaries[j].next,
                           IF j = Len(places) THEN Len(body) ELSE boundaries[j + 1].last)
        unended(lines) == IF lines # <<>> /\ Last(lines) = Blank THEN Front(lines) ELSE lines IN
    IF \E j \in DOMAIN boundaries : boundaries[j] = None THEN None
    ELSE [j \in DOMAIN places |-> unended(block(j))]

\* _legacy_species_accuracy_hints: what the comments above a declaration suggest.
Suggested(body, j) ==
    LET places == Sorted(Declarations(body))
        header == (IF j = 1 THEN 1 ELSE places[j - 1])..places[j] IN
    {body[k].accuracy : k \in {m \in header : body[m].kind = "hint"}}

\* _embedded_species_library for the candidate accuracy; None when it is refused.
EmbeddedLibrary(files, accuracy) ==
    LET body == files.body
        names == Distinct([i \in DOMAIN files.geometry |-> files.geometry[i].name])
        blocks == EmbeddedBlocks(body, files.kind)
        accuracyOf(name) == IF name.accuracy = None THEN accuracy ELSE name.accuracy
        plain(lines) == [k \in DOMAIN lines |->
                            IF lines[k].kind = "species" THEN [lines[k] EXCEPT !.accuracy = None] ELSE lines[k]] IN
    IF \/ blocks = None \/ \E j \in DOMAIN names : Cardinality(Suggested(body, j)) > 1
       \/ files.accuracy = None
          /\ \E j \in DOMAIN names : ~Suggested(body, j) \subseteq {accuracyOf(names[j])} THEN None
    ELSE [key \in {<<names[j].element, accuracyOf(names[j])>> : j \in DOMAIN names} |->
             plain(blocks[CHOOSE j \in DOMAIN names : key = <<names[j].element, accuracyOf(names[j])>>])]

\* _optimization_spin, and the spin of Step 3.
SpinOf(d) ==
    LET uniform == "default_initial_moment" \in DOMAIN d IN
    IF d.spin = "none" THEN [enabled |-> FALSE, mode |-> None, uniform |-> None, fixed |-> None]
    ELSE [enabled |-> TRUE, mode |-> IF uniform THEN "uniform" ELSE "per_atom",
          uniform |-> IF uniform THEN d.default_initial_moment ELSE None,
          fixed |-> IF "fixed_spin_moment" \in DOMAIN d THEN d.fixed_spin_moment ELSE None]

\* parse_generated_orbital_cube_directives.
CubesOf(d) ==
    LET spacings == {d.cube.frontier[o] : o \in DOMAIN d.cube.frontier}
                        \cup {d.cube.states[n] : n \in DOMAIN d.cube.states} IN
    [frontier |-> DOMAIN d.cube.frontier, states |-> DOMAIN d.cube.states,
     spacing |-> IF spacings = {} THEN None ELSE CHOOSE x \in spacings : TRUE]

\* _optimization_atom_settings.
OverridesOf(geometry) ==
    [i \in {k \in DOMAIN geometry : OverrideIsValid([accuracy |-> geometry[k].name.accuracy,
                                                   moment |-> geometry[k].moment, charge |-> geometry[k].charge])} |->
        [accuracy |-> geometry[i].name.accuracy, moment |-> geometry[i].moment, charge |-> geometry[i].charge]]

Candidate(files, accuracy) ==
    LET d == files.directives
        optimization == files.kind = "optimization" IN
    [kind |-> files.kind, xc |-> d.xc, accuracy |-> accuracy, numbers |-> d.numbers, charge |-> d.charge,
     spin |-> SpinOf(d), cubes |-> CubesOf(d),
     relativity |-> IF optimization THEN d.relativistic ELSE None,
     vdw |-> IF ~optimization \/ "vdw" \notin DOMAIN d THEN "none" ELSE d.vdw,
     dipole |-> "output_dipole" \in DOMAIN d,
     atoms |-> IF optimization THEN OverridesOf(files.geometry) ELSE <<>>]

\* _control_round_trip_matches: a file of an earlier release has no line with the accuracy.
SameFiles(rendered, files) ==
    rendered # None /\ [rendered EXCEPT !.accuracy = files.accuracy] = files

\* The settings that render these very files, when there are just one; else None.
Recovered(files) ==
    LET elements == SpeciesElements(files.body)
        geometry == files.geometry
        names == Distinct([i \in DOMAIN geometry |-> geometry[i].name])
        places == Sorted(Declarations(files.body))
        accuracies == IF files.accuracy = None THEN Accuracies ELSE {files.accuracy}
        structure == [i \in DOMAIN geometry |-> elements[geometry[i].name]]
        renders(accuracy) ==
            LET library == EmbeddedLibrary(files, accuracy)
                s == Candidate(files, accuracy) IN
            /\ \A i \in DOMAIN geometry : geometry[i].name.accuracy # accuracy
            /\ SettingsAreValid(s) /\ library # None
            /\ SameFiles(Inputs(structure, s, library), files)
        found == {accuracy \in accuracies : renders(accuracy)} IN
    IF \/ elements = None \/ [j \in DOMAIN places |-> Declared(files.body, places[j])] # names
       \/ Cardinality(found) # 1 THEN None
    ELSE [structure |-> structure, settings |-> Candidate(files, CHOOSE accuracy \in found : TRUE)]
=============================================================================

---------------------------- MODULE MCDensityWindow ----------------------------
(***************************************************************************)
(* A small instance for TLC of the places that show density tasks: one task *)
(* of two atoms, that another installation may retry.                       *)
(***************************************************************************)
EXTENDS DensityWindow

MCPreset == [s \in Servers |-> 1]
MCSelections == {{1}, {2}, {1, 2}}
=============================================================================

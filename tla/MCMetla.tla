------------------------------- MODULE MCMetla ------------------------------
(* Instances of Metla for TLC. *)
EXTENDS Metla, TLC

Symmetry == Permutations(Cells) \cup Permutations(Registers)
=============================================================================

------------------------------ MODULE MCUnits ------------------------------
(* Instances of Units for TLC, and the mutants of its definitions. *)
EXTENDS Units, TLC

Tiles == Permutations(Forest)
=============================================================================

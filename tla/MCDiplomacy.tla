---------------------------- MODULE MCDiplomacy ----------------------------
(* Two players, the second of whom has the city. *)
EXTENDS Diplomacy
=============================================================================

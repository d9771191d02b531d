------------------------------ MODULE MCBattle ------------------------------
(* An instance of Battle: a raider of side 1 against a guard and a villager *)
(* of side 2.                                                               *)
EXTENDS Battle, TLC

Sides == {1, 2}
Owners == (1 :> 1) @@ (2 :> 2) @@ (3 :> 2)
Starts == (1 :> 1) @@ (2 :> 5) @@ (3 :> 3)
Centers == (1 :> 0) @@ (2 :> 6)
Depots == (1 :> 1) @@ (2 :> 5)
Houses == (1 :> 0) @@ (2 :> 7)
=============================================================================

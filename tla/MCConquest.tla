----------------------------- MODULE MCConquest -----------------------------
(* Conquest for TLC: two players with a warrior each and two territories.  *)
(* p1 has a city outside both; the second is the capital of p2, who founds *)
(* his city during the run or has it from the start.                       *)
EXTENDS Conquest

CONSTANTS p1, p2, p3, u1, u2

MCUnitOwner == [u \in Unit |-> IF u = u1 THEN p1 ELSE p2]
MCHome == [p \in Player |-> IF p = p1 THEN None ELSE 2]
MCHomeOfThird == [p \in Player |-> IF p \in {p1, p2} THEN None ELSE 1]
FreeLand == [t \in Territory |-> None]
MCOwned == [t \in Territory |-> IF t = 1 THEN p1 ELSE p2]
=============================================================================

----------------------------- MODULE MCPresence -----------------------------
(* Presence for TLC: a player with two sessions, another with one.         *)
EXTENDS Presence

CONSTANTS p1, p2, s1, s2, s3

MCOwner == [s \in Session |-> IF s = s3 THEN p2 ELSE p1]
=============================================================================

----------------------------- MODULE MCGateway -----------------------------
(* Connections that may be exchanged. *)
EXTENDS Gateway, TLC

Exchange == Permutations(Session)
=============================================================================

------------------------------ MODULE MCWorks ------------------------------
(* An instance of Works: one city, small eras, a villager to begin with.    *)
EXTENDS Works
=============================================================================

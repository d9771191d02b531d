----------------------------- MODULE MCSessions -----------------------------
(* Sessions for TLC: two chunks, areas of one or both.                     *)
EXTENDS Sessions

CONSTANTS s1, s2

MCArea == {{1}, {2}, {1, 2}}
MCHomeArea == {1}
=============================================================================

---------------------------- MODULE MCWriteQueue ----------------------------
(* WriteQueue for TLC: two keys in two partitions and a third that collides *)
(* with the first; trades in both directions among single-key jobs.         *)
EXTENDS WriteQueue

CONSTANTS a, b, a2, ab, ba, ja, jb, ja2, jx

MCKeyName == {a, b, a2}
MCHashOf == [k \in MCKeyName |-> IF k = b THEN 1 ELSE 0]
MCKey == [j \in Job |-> CASE j \in {ab, ja} -> a [] j \in {ba, jb} -> b
                          [] j = ja2 -> a2 [] OTHER -> NoKey]
MCKey2 == [j \in Job |-> CASE j = ab -> b [] j = ba -> a [] j = ja2 -> a [] OTHER -> NoKey]
=============================================================================

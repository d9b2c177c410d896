----------------------------- MODULE MCKeyIndex -----------------------------
(***************************************************************************)
(* KeyIndexTable on a small instance: k1 and k2 collide at every capacity, *)
(* k3's home slot is the next one.  k2's string does not fill its cell.    *)
(***************************************************************************)
EXTENDS Kitt

CONSTANTS k1, k2, k3

MCKeys == {k1, k2, k3}
MCKLen == [k \in MCKeys |-> IF k = k2 THEN 1 ELSE 3]
MCHash == [k \in MCKeys |-> CASE k = k1 -> 7 [] k = k2 -> 15 [] k = k3 -> 8]
=============================================================================

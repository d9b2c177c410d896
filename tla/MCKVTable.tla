----------------------------- MODULE MCKVTable ------------------------------
(***************************************************************************)
(* KVTable on a small instance.  k1 and k2 collide at every capacity; k3's *)
(* home slot is theirs at capacity 2 and the next one at capacity 4.  v0   *)
(* is empty, v1 fills one aligned cell with its NUL, v2 outgrows the       *)
(* smallest arena even after one doubling.                                 *)
(***************************************************************************)
EXTENDS KVTableProps

CONSTANTS k1, k2, k3, v0, v1, v2

MCKeys == {k1, k2, k3}
MCVals == {v0, v1, v2}
MCKLen == [k \in MCKeys |-> IF k = k1 THEN 3 ELSE 1]
MCVLen == [v \in MCVals |-> CASE v = v0 -> 0 [] v = v1 -> 3 [] v = v2 -> 13]
MCHash == [k \in MCKeys |-> CASE k = k1 -> 3 [] k = k2 -> 7 [] k = k3 -> 1]

(***************************************************************************)
(* "table will automatically resize when out of mem and capacity"          *)
(* (kvtable.h:12, and :16): as long as malloc does not fail, no insertion  *)
(* of a valid pair runs out of arena memory.                               *)
(***************************************************************************)
ResizesWhenOutOfMem == phase # "aborted"
=============================================================================

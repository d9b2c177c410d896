----------------------------- MODULE MCStaticKV -----------------------------
(***************************************************************************)
(* StaticKVTable on a small instance: three keys, two of which collide,    *)
(* two values, and arenas for a table of two entries and for one of eight: *)
(* a dead entry is revived only among three or more, which two or four      *)
(* do not allow.                                                           *)
(***************************************************************************)
EXTENDS StaticKVProps

CONSTANTS k1, k2, k3, v1, v2

MCHash == [k \in Keys |-> CASE k = k1 -> 7 [] k = k2 -> 15 [] k = k3 -> 8]

(***************************************************************************)
(* "deletion is logical and dead entries are NOT reused" (kvtable.h:11).   *)
(***************************************************************************)
DeadStayDead ==
  [][phase = "ready" /\ phase' = "ready" =>
       \A j \in SDead : kvt'.ents[j].stat = "DELETED"]_svars
=============================================================================

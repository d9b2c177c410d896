--------------------------- MODULE StaticKVProps ----------------------------
(***************************************************************************)
(* What must hold of StaticKVTable.                                        *)
(***************************************************************************)
EXTENDS StaticKVTable, FiniteSets

SEntries == 0..kvt.cnt-1
SLive == {j \in SEntries : kvt.ents[j].stat = "INUSE"}
SDead == {j \in SEntries : kvt.ents[j].stat = "DELETED"}

(***************************************************************************)
(* A rebuild is never late: a dead entry the index forgets is one it may   *)
(* forget, and while the index remembers one no second entry of that key   *)
(* exists (kvtable_priv.h 142-209).  So a revived entry is the only live   *)
(* one of its key.                                                         *)
(***************************************************************************)
OneEntryRemembered ==
  /\ kvt \in KeyIndexOf(kvt.cap) /\ vals \in [0..kvt.cap-1 -> Vals \cup {NoVal}]
  /\ \A j \in SLive : Find(kvt, kvt.ents[j].key) = j
  /\ kvt.dead >= Cardinality(SDead)
  /\ \A s, u \in DOMAIN kvt.idx :
       kvt.idx[s] >= 0 /\ kvt.idx[u] >= 0
         /\ kvt.ents[kvt.idx[s]].key = kvt.ents[kvt.idx[u]].key => s = u

(***************************************************************************)
(* The arrays are the arena's: whatever order tables are made and given up *)
(* in, a table that exists has all five inside the block, and what a failed*)
(* or finished one took is free again (kvtable_priv.h 30-34, 53-81).       *)
(***************************************************************************)
ArenaHoldsArrays ==
  /\ mem.cur <= mem.size
  /\ phase = "ready" => mem = AllocArrays([mem EXCEPT !.cur = mark], kvt.cap).mem
  /\ phase = "none" => mem.cur = mark

(***************************************************************************)
(* The table implements the map of KVMap.  Values are read off the array,  *)
(* lookups go through the index.  A remove of a key that is already dead   *)
(* succeeds without effect, which for the map is a Compact.                *)
(***************************************************************************)
MapOf ==
  [k \in Keys |-> IF \E j \in SLive : kvt.ents[j].key = k
                  THEN vals[CHOOSE j \in SLive : kvt.ents[j].key = k] ELSE NoVal]

Abs == INSTANCE KVMap WITH map <- MapOf

\* Each call is the operation it is named for, and not one that happens to
\* have the same effect: an insertion that stored nothing would be a Compact.
SCallsMean ==
  \A k \in Keys :
    /\ \A v \in Vals : SInsert(k, v) => Abs!Put(k, v)
    /\ SLookupKey(k) => Abs!Get(k)
    /\ SRemove(k) => \/ Abs!Remove(k)
                     \/ MapOf[k] = NoVal /\ (Abs!Refuse \/ Abs!Compact)

RefinesMap == Abs!Spec /\ [][SCallsMean]_svars
=============================================================================

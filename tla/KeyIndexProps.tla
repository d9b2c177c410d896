--------------------------- MODULE KeyIndexProps ----------------------------
(***************************************************************************)
(* What must hold of KeyIndexTable.                                        *)
(***************************************************************************)
EXTENDS KeyIndexTable, FiniteSets

Entries == 0..kit.cnt-1
Live == {j \in Entries : kit.ents[j].stat = "INUSE"}
Dead == {j \in Entries : kit.ents[j].stat = "DELETED"}
Used == {s \in DOMAIN kit.idx : kit.idx[s] # HT_KIDX_SLOT_EMPTY}

KTypeOK ==
  /\ phase \in {"none", "ready", "aborted"}
  /\ kit \in KeyIndexOf(kit.cap) /\ koff \in [0..kit.cap-1 -> Nat]
  /\ mem \in Arena /\ mark \in Nat /\ ret \in -1..kit.cap

(***************************************************************************)
(* The table after any mixture of insertions, removals, revivals and       *)
(* rebuilds (kidxtbl_priv.h 115-206): its entries and its index stay in    *)
(* their arrays; no two slots name entries of one key, so that what a      *)
(* lookup finds does not depend on the order of the slots; and the probe   *)
(* for every live key gets to its entry.                                   *)
(***************************************************************************)
IndexHolds ==
  /\ KTypeOK
  /\ \A s \in Used : kit.idx[s] \in Entries
  /\ \A s, u \in Used : kit.ents[kit.idx[s]].key = kit.ents[kit.idx[u]].key => s = u
  /\ \A j \in Live : Find(kit, kit.ents[j].key) = j

(***************************************************************************)
(* deleted_cnt is never below the number of dead entries, so a table half  *)
(* dead is always rebuilt before an insertion; and, being decremented only *)
(* for a dead entry, it does not wrap (kidxtbl_priv.h 119-122, 192, 206).  *)
(***************************************************************************)
DeadCounted == kit.dead >= Cardinality(Dead)

(***************************************************************************)
(* The strings lie in the order of the entries behind the two arrays, each *)
(* with its NUL, without overlap and below the cursor (140-190): key_off,  *)
(* counted back from the cursor, is where the string was allocated.        *)
(***************************************************************************)
StringsApart ==
  phase = "ready" =>
    /\ mem.cur <= mem.size
    /\ \A j \in Entries :
         /\ koff[j] % ALLOC_ALIGN = 0
         /\ koff[j] >= mark + kit.cap * (SizeofEntry + SizeofSlot)
         /\ koff[j] + KLen[kit.ents[j].key] + 1 <= IF j + 1 < kit.cnt THEN koff[j+1] ELSE mem.cur

(***************************************************************************)
(* Enumerating 0..size-1 with KeyIndexTable_get_key shows the keys that    *)
(* are in the table and no other (kidxtbl.c 46-56).  It may show one twice:*)
(* a dead entry whose key was given a new entry answers for that one.      *)
(***************************************************************************)
EnumerationShowsLive ==
  {GetKey(kit, j) : j \in Entries} \ {NoKey} = {kit.ents[j].key : j \in Live}

(***************************************************************************)
(* The table implements the registry: a key keeps its number as long as it *)
(* stays, and a number is never given to a second key, whatever the index  *)
(* forgets in a rebuild.  Numbers are read off the array, lookups go       *)
(* through the index.                                                      *)
(***************************************************************************)
NumberOf(k) ==
  IF \E j \in Live : kit.ents[j].key = k
  THEN CHOOSE j \in Live : kit.ents[j].key = k ELSE -1

\* The numbers any table these clients make can give.
Numbers == UNION {0..RoundUp(n)-1 : n \in InitCaps}

Registry == INSTANCE KeyIndexMap WITH
  number <- [k \in Keys |-> NumberOf(k)],
  owner  <- [n \in Numbers |-> IF n \in Entries THEN kit.ents[n].key ELSE NoKey]

\* Each call is the operation it is named for.
CallsMean ==
  \A k \in Keys :
    /\ LookupKey(k) => Registry!Lookup(k)
    /\ Insert(k) => Registry!Refuse \/ Registry!Reset \/ \E n \in Numbers : Registry!Insert(k, n)
    /\ Remove(k) => Registry!Remove(k) \/ (NumberOf(k) = -1 /\ Registry!Refuse)

RefinesRegistry == Registry!Spec /\ [][CallsMean]_vars
=============================================================================

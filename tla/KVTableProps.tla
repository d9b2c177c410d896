---------------------------- MODULE KVTableProps ----------------------------
(***************************************************************************)
(* What must hold of KVTable.  Every property but the last two is about    *)
(* both tables a call may be working on: the handle's and the one it fills.*)
(***************************************************************************)
EXTENDS KVTable, FiniteSets

Entries(t) == 0..t.cnt-1
Used(t) == {s \in DOMAIN t.idx : t.idx[s] # HT_KIDX_SLOT_EMPTY}
Live(t) == {j \in Entries(t) : t.ents[j].stat = "INUSE"}

(***************************************************************************)
(* The hash index and the entries agree (hash_index.h, kv.c): a slot is    *)
(* free or names an entry, no two slots name the same one, and the probe   *)
(* for an entry's key gets to its slot, with no free slot on the way.      *)
(* Without the last part a key that is in the table would not be found.    *)
(***************************************************************************)
Reachable(t, j) ==
  \E n \in 0..t.cap-1 :
    LET h == Hash[t.ents[j].key] IN
      t.idx[Slot(h, n, t.cap)] = j /\ ProbeReaches(t.idx, t.cap, h, n)

IndexAgrees(t) ==
  /\ \A s \in Used(t) : t.idx[s] \in Entries(t)
  /\ \A s, u \in Used(t) : t.idx[s] = t.idx[u] => s = u
  /\ \A j \in Entries(t) : Reachable(t, j)

IndexOK == IndexAgrees(tbl) /\ IndexAgrees(new)

(***************************************************************************)
(* A key has at most one live entry (KVTable_insert removes the old one    *)
(* before it appends): lookup and enumeration agree on its value.          *)
(***************************************************************************)
UniqueKeys(t) ==
  \A j, m \in Live(t) : t.ents[j].key = t.ents[m].key => j = m

OneLivePerKey == UniqueKeys(tbl) /\ UniqueKeys(new)

(***************************************************************************)
(* The bytes of the entries, dead ones included, lie in the arena in the   *)
(* order of the entries, aligned, without overlap and below the cursor,    *)
(* each with its final NUL (_KVTable_insert, mem_arena_alloc).             *)
(***************************************************************************)
KeyEnd(e) == e.koff + KLen[e.key] + 1
ValEnd(e) == e.voff + VLen[e.val] + 1

Layout(t) ==
  /\ t.mem.cur <= t.mem.size
  /\ \A j \in Entries(t) :
       LET e == t.ents[j] IN
         /\ e.koff % KVTBL_MEM_ALIGN = 0 /\ e.voff % KVTBL_MEM_ALIGN = 0
         /\ KeyEnd(e) <= e.voff
         /\ ValEnd(e) <= IF j + 1 < t.cnt THEN t.ents[j+1].koff ELSE t.mem.cur

LayoutOK == Layout(tbl) /\ Layout(new)

(***************************************************************************)
(* While _KVTable_copy runs, the new table holds exactly the live entries  *)
(* before the loop index, in their order: compaction and resize lose no    *)
(* pair, revive none and keep the order clients enumerate.                 *)
(***************************************************************************)
LiveBefore(t, n) == {j \in Live(t) : j < n}

CopyInOrder ==
  phase = "copy" =>
    /\ new.cnt = Cardinality(LiveBefore(tbl, i))
    /\ \A j \in LiveBefore(tbl, i) :
         LET e == new.ents[Cardinality(LiveBefore(tbl, j))] IN
           e.stat = "INUSE" /\ e.key = tbl.ents[j].key /\ e.val = tbl.ents[j].val

(***************************************************************************)
(* The entry array is append-only (kvtable.h: "dead entries are NOT        *)
(* reused"): as long as the table is not replaced by a larger or compacted *)
(* one, failed attempts at that included, no call moves an entry's bytes,  *)
(* changes its pair or brings it back to life, and none disappears: what   *)
(* lookup and enumeration have pointed a client at stays (kv.c 107, 189).  *)
(***************************************************************************)
AppendOnly ==
  [][phase' = "ready" /\ (phase = "ready" \/ (phase = "copy" /\ ret' = "fail")) =>
       /\ tbl.cnt <= tbl'.cnt
       /\ \A j \in Entries(tbl) :
            tbl'.ents[j] \in {tbl.ents[j], [tbl.ents[j] EXCEPT !.stat = "DELETED"]}]_vars

(***************************************************************************)
(* A call kills the process, or loses the table, only when it inserts a    *)
(* pair that would not fit an empty arena of the present size: compaction  *)
(* never does, copying never does, and a pair of ordinary size never does, *)
(* however full of dead bytes the arena is (kv.c 68-97, 174-191).          *)
(***************************************************************************)
PairBytes(k, v) == KLen[k] + VLen[v] + 2 * KVTBL_MEM_ALIGN

OnlyOversizedPairKills ==
  [][phase' \in {"aborted", "dangling"} /\ phase' # phase =>
       call.op = "insert" /\ PairBytes(call.key, call.val) > tbl.mem.size]_vars

(***************************************************************************)
(* A call that copies returns, one way or another.                         *)
(***************************************************************************)
CallReturns == phase = "copy" ~> phase # "copy"

(***************************************************************************)
(* The table implements the map.  The map is read off the live entries of  *)
(* the array, lookups go through the hash index, so the two must agree;    *)
(* until a copying call returns, the client's map is the old table's.      *)
(***************************************************************************)
MapOf(t) ==
  [k \in Keys |-> IF \E j \in Live(t) : t.ents[j].key = k
                  THEN t.ents[CHOOSE j \in Live(t) : t.ents[j].key = k].val
                  ELSE NoVal]

Abs == INSTANCE KVMap WITH
         map   <- MapOf(tbl),
         phase <- IF phase = "copy" THEN "ready" ELSE phase

\* Each call is the operation it is named for, and not one that happens to
\* have the same effect: an insertion that stored nothing would be a Compact.
InsertReturns(k, v) ==
  InsertInPlace(k, v) \/ (InsertResized /\ call.key = k /\ call.val = v)

CallsMean ==
  \A k \in Keys :
    /\ LookupKey(k) => Abs!Get(k)
    /\ Remove(k) => Abs!Remove(k) \/ (MapOf(tbl)[k] = NoVal /\ Abs!Refuse)
    /\ \A v \in Vals : InsertReturns(k, v) => Abs!Put(k, v) \/ Abs!Gone(phase')

Refines == Abs!Spec /\ [][CallsMean]_vars
=============================================================================

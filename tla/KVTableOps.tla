----------------------------- MODULE KVTableOps -----------------------------
(***************************************************************************)
(* The table object of kv/kvtable: kvtable_priv.h and the helpers of kv.c  *)
(* that work on one table.  A table is an append-only array of entries, a  *)
(* hash index over it and an arena that holds the bytes of keys and values.*)
(*                                                                         *)
(* Keys and values are abstract: what the code looks at is their length    *)
(* and, for keys, the 32-bit hash.  The bytes an entry points at are kept  *)
(* in the entry; that no two entries share bytes is an invariant, LayoutOK.*)
(***************************************************************************)
EXTENDS ArenaOps, HashIndex

CONSTANTS
  Keys, Vals,         \* the byte strings a caller passes in
  NoKey, NoVal,       \* what a zeroed entry holds; NoVal: "not found"
  KLen, VLen,         \* their lengths in bytes
  Hash                \* ht_ops.hash32 of a key

ASSUME DataAssumption ==
  /\ NoKey \notin Keys /\ NoVal \notin Vals
  /\ KLen \in [Keys -> Nat] /\ VLen \in [Vals -> Nat] /\ Hash \in [Keys -> Nat]

KVTBL_MEM_ALIGN == 4

EntryStat == {"EMPTY", "INUSE", "DELETED"}

KVEntry == [key  : Keys \cup {NoKey}, val  : Vals \cup {NoVal},
            koff : Nat, voff : Nat, stat : EntryStat]

NoEntry == [key |-> NoKey, val |-> NoVal, koff |-> 0, voff |-> 0, stat |-> "EMPTY"]

TableOf(cap) ==
  [cap : {cap}, cnt : 0..cap,
   ents : [0..cap-1 -> KVEntry],
   idx  : [0..cap-1 -> {HT_KIDX_SLOT_EMPTY} \cup 0..cap-1],
   mem  : Arena]

-----------------------------------------------------------------------------
\* A fresh table, as KVTable_init leaves it.
NewTable(cap, size) ==
  [cap |-> cap, cnt |-> 0, ents |-> [j \in 0..cap-1 |-> NoEntry],
   idx |-> HashIndexInit(cap), mem |-> ArenaInit(size)]

\* No table: a NULL handle, or the zeroed object KVTable_deinit leaves behind.
\* _KVTable_validate refuses both.
NULL == NewTable(0, 0)

ValidTable(t) == t.cap > 0 /\ t.cnt <= t.cap

\* KVTable_init's checks of its arguments.
ValidCreateArgs(cap, size) == size # 0 /\ IsPowerOf2(cap)

-----------------------------------------------------------------------------
\* Entry kidx is the live entry of key k: state, hash, length and bytes agree.
LiveMatch(t, kidx, k) == t.ents[kidx].stat = "INUSE" /\ t.ents[kidx].key = k

\* Mutant: the probe ends at the end of the array.
M_MatchSteps(t, k) ==
  {n \in 0..t.cap-1 : /\ (Hash[k] % t.cap) + n < t.cap
                      /\ ProbeReaches(t.idx, t.cap, Hash[k], n)
                      /\ LiveMatch(t, t.idx[Slot(Hash[k], n, t.cap)], k)}

\* The steps at which a probe for k stands on a match; the probe stops at the
\* first free slot and after cap steps.
MatchSteps(t, k) ==
  {n \in 0..t.cap-1 : /\ ProbeReaches(t.idx, t.cap, Hash[k], n)
                      /\ LiveMatch(t, t.idx[Slot(Hash[k], n, t.cap)], k)}

KVSTAT_KEY_NOT_FOUND == -11

Lookup(t, k) ==
  IF MatchSteps(t, k) = {} THEN KVSTAT_KEY_NOT_FOUND
  ELSE t.idx[Slot(Hash[k], Min(MatchSteps(t, k)), t.cap)]

\* What KVTable_lookup hands its caller.
LookupVal(t, k) == IF Lookup(t, k) < 0 THEN NoVal ELSE t.ents[Lookup(t, k)].val

\* Mutant: the slot is freed as well, which cuts the probes that pass it.
M_RemoveKey(t, k) ==
  IF Lookup(t, k) < 0 THEN t
  ELSE [t EXCEPT !.ents[Lookup(t, k)].stat = "DELETED",
                 !.idx = [s \in 0..t.cap-1 |-> IF t.idx[s] = Lookup(t, k)
                                               THEN HT_KIDX_SLOT_EMPTY ELSE t.idx[s]]]

\* Mutant: the last entry is dropped when it dies.
M_RemoveLast(t, k) ==
  IF Lookup(t, k) < 0 THEN t
  ELSE IF Lookup(t, k) = t.cnt - 1 THEN [t EXCEPT !.cnt = t.cnt - 1]
  ELSE [t EXCEPT !.ents[Lookup(t, k)].stat = "DELETED"]

\* KVTable_remove: the entry is marked, its slot and its bytes stay.
RemoveKey(t, k) ==
  IF Lookup(t, k) < 0 THEN t ELSE [t EXCEPT !.ents[Lookup(t, k)].stat = "DELETED"]

-----------------------------------------------------------------------------
\* The two allocations of _KVTable_insert, each with room for a final NUL.
\* Without assertions the second is tried even when the first has failed.
AllocKey(m, k) == ArenaAlloc(m, KLen[k] + 1, KVTBL_MEM_ALIGN)
M_AllocVal(m, k, v) == ArenaAlloc(AllocKey(m, k).mem, VLen[v], KVTBL_MEM_ALIGN)   \* mutant: no NUL
AllocVal(m, k, v) == ArenaAlloc(AllocKey(m, k).mem, VLen[v] + 1, KVTBL_MEM_ALIGN)

PairFits(m, k, v) ==
  AllocKey(m, k).off # NULL_OFF /\ AllocVal(m, k, v).off # NULL_OFF

\* _KVTable_insert: append a live entry and index it, or put the cursor back.
AppendEntry(t, k, v) ==
  IF PairFits(t.mem, k, v)
  THEN [t EXCEPT
          !.ents[t.cnt] = [key |-> k, val |-> v, koff |-> AllocKey(t.mem, k).off,
                           voff |-> AllocVal(t.mem, k, v).off, stat |-> "INUSE"],
          !.idx = HashIndexInsert(t.idx, t.cap, Hash[k], t.cnt),
          !.cnt = t.cnt + 1,
          !.mem = AllocVal(t.mem, k, v).mem]
  ELSE [t EXCEPT !.mem = ArenaSetCur(AllocVal(t.mem, k, v).mem, t.mem.cur)]

-----------------------------------------------------------------------------
\* When KVTable_insert moves to a larger table first.
M_CapShouldResize(t) == t.cnt > t.cap                          \* mutant: off by one
CapShouldResize(t) == t.cnt + 1 > t.cap
M_MemShouldResize(t, k, v) == t.mem.cur + KLen[k] + VLen[v] > t.mem.size   \* mutant
MemShouldResize(t, k, v) ==
  t.mem.cur + KLen[k] + VLen[v] + 2 * KVTBL_MEM_ALIGN > t.mem.size
ShouldResize(t, k, v) == CapShouldResize(t) \/ MemShouldResize(t, k, v)

\* Each of the two limits that is too small is doubled, once.
ResizeCap(t) == IF CapShouldResize(t) THEN t.cap * 2 ELSE t.cap
ResizeMem(t, k, v) == IF MemShouldResize(t, k, v) THEN t.mem.size * 2 ELSE t.mem.size

\* _KVEntry_valid_lpbuf: empty buffers are refused.
ValidPair(k, v) == KLen[k] # 0 /\ VLen[v] # 0
=============================================================================

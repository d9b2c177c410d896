--------------------------- MODULE KeyIndexTable ----------------------------
(***************************************************************************)
(* kv/key_index_table: a table of C strings in an arena its client owns,   *)
(* and the client.  Every call is one step.                                *)
(*                                                                         *)
(* The client creates the table, remembers the arena's cursor from before  *)
(* and gives everything allocated since back when it is done, as kitt.c    *)
(* does.                                                                   *)
(***************************************************************************)
EXTENDS KeyIndexClient

CONSTANT KLen         \* the length of a key in bytes

ASSUME TableAssumption == KLen \in [Keys -> Nat]

VARIABLES
  kit,      \* the table
  koff      \* key_off of each of its entries

vars == <<phase, kit, koff, mem, mark, ret, ndebug>>

SizeofEntry == 12       \* KeyIndexEntry: three 32-bit words

Init == NoClient /\ kit = NoTable /\ koff = [j \in {} |-> 0] /\ ret = -1

-----------------------------------------------------------------------------
Returns(r) == ret' = r

\* An allocation fails: its assertion ends the process, or else the caller
\* puts the cursor back.
Fails(pos, p, t, offs) ==
  /\ phase' = IF ndebug THEN p ELSE "aborted"
  /\ kit' = IF ndebug THEN t ELSE NoTable
  /\ koff' = IF ndebug THEN offs ELSE [j \in {} |-> 0]
  /\ mem' = pos /\ Returns(-1)

\* _KeyIndexTable_init.  Both arrays are asked for before either is tested.
InitTable(n) ==
  /\ phase = "none"
  /\ LET cap == RoundUp(n)
         ents == ArenaAlloc(mem, cap * SizeofEntry, ALLOC_ALIGN)
         idx == ArenaAlloc(ents.mem, cap * SizeofSlot, ALLOC_ALIGN)
     IN  /\ mark' = mem.cur
         /\ IF ents.off # NULL_OFF /\ idx.off # NULL_OFF
            THEN /\ phase' = "ready" /\ kit' = NewKeyIndex(cap)
                 /\ koff' = [j \in 0..cap-1 |-> 0] /\ mem' = idx.mem /\ Returns(0)
            ELSE Fails(ArenaSetCur(idx.mem, mem.cur), "none", NoTable, koff)

Deinit ==
  /\ phase = "ready"
  /\ phase' = "none" /\ kit' = NoTable /\ koff' = [j \in {} |-> 0]
  /\ mem' = ArenaSetCur(mem, mark) /\ Returns(-1) /\ UNCHANGED mark

InsertRefused(k) ==
  /\ phase = "ready" /\ Full(kit)
  /\ Returns(-1) /\ UNCHANGED <<phase, kit, koff, mem, mark>>

\* The key has an entry the index knows of: it is that entry's key again.
InsertKnown(k) ==
  /\ phase = "ready" /\ ~Full(kit)
  /\ LET t == Prepared(kit) IN
       /\ Find(t, k) >= 0
       /\ kit' = Revived(t, Find(t, k)) /\ Returns(Find(t, k))
  /\ UNCHANGED <<phase, koff, mem, mark>>

\* It has none: its string is allocated and it gets the next entry.  The
\* offset is counted back from the cursor, past the alignment.
M_KeyOff(m, k) == m.cur                                  \* mutant: from the old cursor
KeyOff(m, k) == ArenaAlloc(m, KLen[k] + 1, ALLOC_ALIGN).mem.cur - (KLen[k] + 1)

InsertNew(k) ==
  /\ phase = "ready" /\ ~Full(kit)
  /\ LET t == Prepared(kit)
         str == ArenaAlloc(mem, KLen[k] + 1, ALLOC_ALIGN)
     IN  /\ Find(t, k) < 0
         /\ IF str.off = NULL_OFF
            THEN Fails(str.mem, "ready", t, koff)
            ELSE /\ kit' = Appended(t, k) /\ koff' = [koff EXCEPT ![t.cnt] = KeyOff(mem, k)]
                 /\ mem' = str.mem /\ Returns(t.cnt) /\ UNCHANGED phase
  /\ UNCHANGED mark

Insert(k) == InsertRefused(k) \/ InsertKnown(k) \/ InsertNew(k)

Remove(k) ==
  /\ phase = "ready" /\ kit.dead < MaxDead
  /\ kit' = Removed(kit, k)
  /\ Returns(IF Find(kit, k) < 0 THEN -1 ELSE Find(kit, k))
  /\ UNCHANGED <<phase, koff, mem, mark>>

LookupKey(k) ==
  /\ phase = "ready"
  /\ Returns(IF FindLive(kit, k) < 0 THEN -1 ELSE FindLive(kit, k))
  /\ UNCHANGED <<phase, kit, koff, mem, mark>>

\* KeyIndexTable_get_key: entry n's string, if a lookup of that string finds
\* a live entry, whichever that is.  Mutant: whatever it finds.
M_GetKey(t, n) == IF Find(t, t.ents[n].key) < 0 THEN NoKey ELSE t.ents[n].key
GetKey(t, n) == IF FindLive(t, t.ents[n].key) < 0 THEN NoKey ELSE t.ents[n].key

Restart ==
  /\ phase = "aborted"
  /\ phase' = "none" /\ mem' = ArenaSetCur(mem, 0) /\ mark' = 0 /\ Returns(-1)
  /\ UNCHANGED <<kit, koff>>

Calls ==
  \/ \E n \in InitCaps : InitTable(n)
  \/ Deinit \/ Restart
  \/ \E k \in Keys : Insert(k) \/ Remove(k) \/ LookupKey(k)

Next == Calls /\ UNCHANGED ndebug

Spec == Init /\ [][Next]_vars
=============================================================================

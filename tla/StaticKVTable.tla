--------------------------- MODULE StaticKVTable ----------------------------
(***************************************************************************)
(* kv/kvtable_static: a key-value table of fixed-size keys and values in   *)
(* five arrays of an arena its client owns, and the client.  The index is  *)
(* that of KeyIndexOps; the values lie beside it, one per entry.           *)
(***************************************************************************)
EXTENDS KeyIndexClient

CONSTANTS
  Vals, NoVal,
  KeySize, ValSize    \* key_size and val_size, of every key and value

ASSUME StaticAssumption ==
  NoVal \notin Vals /\ KeySize \in Nat \ {0} /\ ValSize \in Nat \ {0}

VARIABLES
  kvt,      \* the table
  vals      \* its values, one per entry

svars == <<phase, kvt, vals, mem, mark, ret, ndebug>>

SizeofStat == 1
SizeofHash == 4

NoVals == [j \in {} |-> NoVal]

SInit == NoClient /\ kvt = NoTable /\ vals = NoVals /\ ret = "ok"

-----------------------------------------------------------------------------
\* The five arrays, asked for one after the other whatever became of the ones
\* before; those that do not fit leave the cursor alone.
Arrays(cap) ==
  <<cap * SizeofStat, cap * SizeofHash, cap * SizeofSlot, cap * KeySize, cap * ValSize>>

AllocArrays(m, cap) ==
  LET f[n \in 0..5] ==
        IF n = 0 THEN [mem |-> m, ok |-> TRUE]
        ELSE LET a == ArenaAlloc(f[n-1].mem, Arrays(cap)[n], ALLOC_ALIGN) IN
               [mem |-> a.mem, ok |-> f[n-1].ok /\ a.off # NULL_OFF]
  IN  f[5]

\* Mutant: a table that cannot be made leaves its part of the arena taken.
M_SInitTable(n) ==
  /\ phase = "none"
  /\ LET cap == RoundUp(n)
         a == AllocArrays(mem, cap)
     IN  /\ mark' = mem.cur /\ mem' = a.mem
         /\ IF a.ok
            THEN /\ phase' = "ready" /\ kvt' = NewKeyIndex(cap)
                 /\ vals' = [j \in 0..cap-1 |-> NoVal] /\ ret' = "ok"
            ELSE /\ phase' = (IF ndebug THEN "none" ELSE "aborted")
                 /\ ret' = "fail" /\ UNCHANGED <<kvt, vals>>

\* _KVTable_init.
SInitTable(n) ==
  /\ phase = "none"
  /\ LET cap == RoundUp(n)
         a == AllocArrays(mem, cap)
     IN  /\ mark' = mem.cur
         /\ IF a.ok
            THEN /\ phase' = "ready" /\ kvt' = NewKeyIndex(cap)
                 /\ vals' = [j \in 0..cap-1 |-> NoVal] /\ mem' = a.mem /\ ret' = "ok"
            ELSE /\ phase' = (IF ndebug THEN "none" ELSE "aborted")
                 /\ mem' = (IF ndebug THEN ArenaSetCur(a.mem, mem.cur) ELSE a.mem)
                 /\ ret' = "fail" /\ UNCHANGED <<kvt, vals>>

SDeinit ==
  /\ phase = "ready"
  /\ phase' = "none" /\ kvt' = NoTable /\ vals' = NoVals
  /\ mem' = ArenaSetCur(mem, mark) /\ ret' = "ok" /\ UNCHANGED mark

SInsertRefused ==
  /\ phase = "ready" /\ Full(kvt)
  /\ ret' = "fail" /\ UNCHANGED <<phase, kvt, vals, mem, mark>>

\* Mutant: the value is stored only with a new entry.
M_SInsert(k, v) ==
  /\ phase = "ready" /\ ~Full(kvt)
  /\ LET t == Prepared(kvt)
         n == Find(t, k)
     IN  IF n < 0
         THEN kvt' = Appended(t, k) /\ vals' = [vals EXCEPT ![t.cnt] = v]
         ELSE kvt' = Revived(t, n) /\ UNCHANGED vals
  /\ ret' = "ok" /\ UNCHANGED <<phase, mem, mark>>

\* Insert or overwrite, after a rebuild if half the entries are dead.
SInsert(k, v) ==
  /\ phase = "ready" /\ ~Full(kvt)
  /\ LET t == Prepared(kvt)
         n == Find(t, k)
     IN  IF n < 0
         THEN kvt' = Appended(t, k) /\ vals' = [vals EXCEPT ![t.cnt] = v]
         ELSE kvt' = Revived(t, n) /\ vals' = [vals EXCEPT ![n] = v]
  /\ ret' = "ok" /\ UNCHANGED <<phase, mem, mark>>

\* Removing a key that was removed before is answered with its entry, too,
\* until a rebuild drops it from the index.
SRemove(k) ==
  /\ phase = "ready" /\ kvt.dead < MaxDead
  /\ kvt' = Removed(kvt, k)
  /\ ret' = (IF Find(kvt, k) < 0 THEN "fail" ELSE "ok")
  /\ UNCHANGED <<phase, vals, mem, mark>>

SLookupKey(k) ==
  /\ phase = "ready"
  /\ ret' = (IF FindLive(kvt, k) < 0 THEN NoVal ELSE vals[FindLive(kvt, k)])
  /\ UNCHANGED <<phase, kvt, vals, mem, mark>>

SRestart ==
  /\ phase = "aborted"
  /\ phase' = "none" /\ mem' = ArenaSetCur(mem, 0) /\ mark' = 0 /\ ret' = "ok"
  /\ UNCHANGED <<kvt, vals>>

SCalls ==
  \/ \E n \in InitCaps : SInitTable(n)
  \/ SDeinit \/ SRestart \/ SInsertRefused
  \/ \E k \in Keys : SRemove(k) \/ SLookupKey(k) \/ \E v \in Vals : SInsert(k, v)

SNext == SCalls /\ UNCHANGED ndebug

SSpec == SInit /\ [][SNext]_svars
=============================================================================

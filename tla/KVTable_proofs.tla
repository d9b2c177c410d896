--------------------------- MODULE KVTable_proofs ---------------------------
(***************************************************************************)
(* Theorems about KVTable, for every set of keys and values, every hash    *)
(* function, all lengths, and all bounds.  In four parts, each on the ones *)
(* before it: types; where the bytes of entries lie in an arena, and which *)
(* calls an arena can kill; that the table finds its keys and no operation *)
(* loses, doubles or revives an entry; that the table is the map its       *)
(* clients are promised, through every resize, compaction and failure.     *)
(***************************************************************************)
EXTENDS KVTableProps, HashIndex_proofs

-----------------------------------------------------------------------------
(***************************************************************************)
(* The operators on one table: what they do to each of its fields.         *)
(***************************************************************************)
EntryFor(t, k, v) ==
  [key |-> k, val |-> v, koff |-> AllocKey(t.mem, k).off,
   voff |-> AllocVal(t.mem, k, v).off, stat |-> "INUSE"]

LEMMA AppendFields ==
  ASSUME NEW cap \in Nat, NEW t \in TableOf(cap), NEW k, NEW v, PairFits(t.mem, k, v)
  PROVE  AppendEntry(t, k, v) =
           [cap |-> t.cap, cnt |-> t.cnt + 1,
            ents |-> [t.ents EXCEPT ![t.cnt] = EntryFor(t, k, v)],
            idx |-> HashIndexInsert(t.idx, t.cap, Hash[k], t.cnt),
            mem |-> AllocVal(t.mem, k, v).mem]
BY DEF AppendEntry, TableOf, EntryFor

LEMMA RemoveFields ==
  ASSUME NEW cap \in Nat, NEW t \in TableOf(cap), NEW k, ~(Lookup(t, k) < 0)
  PROVE  RemoveKey(t, k) =
           [cap |-> t.cap, cnt |-> t.cnt,
            ents |-> [t.ents EXCEPT ![Lookup(t, k)] =
                        [t.ents[Lookup(t, k)] EXCEPT !.stat = "DELETED"]],
            idx |-> t.idx, mem |-> t.mem]
BY DEF RemoveKey, TableOf

LEMMA NewTableType ==
  ASSUME NEW cap \in Nat, NEW size \in Nat
  PROVE  NewTable(cap, size) \in TableOf(cap)
BY DEF NewTable, TableOf, KVEntry, NoEntry, EntryStat, Arena, ArenaInit, HashIndexInit

(***************************************************************************)
(* The entries that are counted hold a key and a value.                    *)
(***************************************************************************)
Filled(t) ==
  \A j \in 0..t.cnt-1 :
    /\ t.ents[j].key \in Keys /\ t.ents[j].val \in Vals
    /\ t.ents[j].stat \in {"INUSE", "DELETED"}

LEMMA AllocTypes ==
  ASSUME NEW m \in Arena, NEW k \in Keys, NEW v \in Vals
  PROVE  /\ AllocKey(m, k).mem \in Arena /\ AllocVal(m, k, v).mem \in Arena
         /\ m.cur <= AllocVal(m, k, v).mem.cur
         /\ AllocVal(m, k, v).mem.size = m.size
         /\ PairFits(m, k, v) =>
              AllocKey(m, k).off \in Nat /\ AllocVal(m, k, v).off \in Nat
<1>1. KLen[k] + 1 \in Nat /\ VLen[v] + 1 \in Nat
  BY DataAssumption
<1>2. /\ AllocKey(m, k).mem \in Arena
      /\ AllocKey(m, k).off # NULL_OFF => AllocKey(m, k).off \in Nat
      /\ m.cur <= AllocKey(m, k).mem.cur /\ AllocKey(m, k).mem.size = m.size
  BY <1>1, ArenaAllocType DEF AllocKey, KVTBL_MEM_ALIGN
<1>3. /\ AllocVal(m, k, v).mem \in Arena
      /\ AllocVal(m, k, v).off # NULL_OFF => AllocVal(m, k, v).off \in Nat
      /\ AllocKey(m, k).mem.cur <= AllocVal(m, k, v).mem.cur
      /\ AllocVal(m, k, v).mem.size = AllocKey(m, k).mem.size
  BY <1>1, <1>2, ArenaAllocType DEF AllocVal, KVTBL_MEM_ALIGN
<1>4. m.cur <= AllocVal(m, k, v).mem.cur
  <2>1. m.cur \in Nat /\ AllocKey(m, k).mem.cur \in Nat /\ AllocVal(m, k, v).mem.cur \in Nat
    BY <1>2, <1>3 DEF Arena
  <2> QED BY <1>2, <1>3, <2>1
<1> QED BY <1>2, <1>3, <1>4 DEF PairFits

(***************************************************************************)
(* A pair that does not fit leaves the table as it was: the rollback puts  *)
(* the cursor back where it stood.                                         *)
(***************************************************************************)
LEMMA FailedAppend ==
  ASSUME NEW cap \in Nat, NEW t \in TableOf(cap), NEW k \in Keys, NEW v \in Vals,
         ~PairFits(t.mem, k, v)
  PROVE  AppendEntry(t, k, v) = t
<1> DEFINE m == AllocVal(t.mem, k, v).mem
<1>1. t.mem \in Arena /\ t.mem.cur \in Nat
  BY DEF TableOf, Arena
<1>2. m \in Arena /\ t.mem.cur <= m.cur /\ m.size = t.mem.size
  BY <1>1, AllocTypes
<1> HIDE DEF m
<1>3. ArenaSetCur(m, t.mem.cur) = t.mem
  BY <1>1, <1>2 DEF ArenaSetCur, Arena
<1> QED BY <1>3 DEF AppendEntry, TableOf, m

(***************************************************************************)
(* Appending to a table that is not full, and removing, give a table.      *)
(***************************************************************************)
LEMMA AppendType ==
  ASSUME NEW cap \in Nat, NEW t \in TableOf(cap), Filled(t), t.cnt < cap,
         NEW k \in Keys, NEW v \in Vals, PairFits(t.mem, k, v)
  PROVE  /\ AppendEntry(t, k, v) \in TableOf(cap)
         /\ Filled(AppendEntry(t, k, v))
         /\ AppendEntry(t, k, v).cnt = t.cnt + 1
<1> DEFINE r == AppendEntry(t, k, v)
           e == EntryFor(t, k, v)
<1>1. /\ t.cap = cap /\ t.cnt \in 0..cap-1 /\ t.ents \in [0..cap-1 -> KVEntry]
      /\ t.idx \in [0..cap-1 -> {HT_KIDX_SLOT_EMPTY} \cup 0..cap-1] /\ t.mem \in Arena
  BY DEF TableOf
<1>2. /\ r.cap = t.cap /\ r.cnt = t.cnt + 1 /\ r.ents = [t.ents EXCEPT ![t.cnt] = e]
      /\ r = [cap |-> t.cap, cnt |-> t.cnt + 1, ents |-> r.ents, idx |-> r.idx, mem |-> r.mem]
      /\ r.idx = HashIndexInsert(t.idx, t.cap, Hash[k], t.cnt)
      /\ r.mem = AllocVal(t.mem, k, v).mem
  BY AppendFields
<1>3. e \in KVEntry
  BY <1>1, AllocTypes DEF KVEntry, EntryStat, EntryFor
<1>4. r.ents \in [0..cap-1 -> KVEntry]
  BY <1>1, <1>2, <1>3
<1>5. r.idx \in [0..cap-1 -> {HT_KIDX_SLOT_EMPTY} \cup 0..cap-1]
  <2> DEFINE V == {HT_KIDX_SLOT_EMPTY} \cup 0..cap-1
  <2>1. t.cnt \in V /\ t.idx \in [0..cap-1 -> V]
    BY <1>1
  <2> HIDE DEF V
  <2>2. HashIndexInsert(t.idx, cap, Hash[k], t.cnt) \in [0..cap-1 -> V]
    BY <2>1, HashIndexInsertType
  <2> QED BY <2>2, <1>1, <1>2 DEF V
<1>6. r.mem \in Arena
  BY <1>1, <1>2, AllocTypes
<1>7. r \in TableOf(cap)
  <2> HIDE DEF r
  <2>1. t.cnt + 1 \in 0..cap
    BY <1>1
  <2> QED BY <1>1, <1>2, <1>4, <1>5, <1>6, <2>1 DEF TableOf
<1>8. Filled(r)
  <2> SUFFICES ASSUME NEW j \in 0..t.cnt
               PROVE  /\ r.ents[j].key \in Keys /\ r.ents[j].val \in Vals
                      /\ r.ents[j].stat \in {"INUSE", "DELETED"}
    BY <1>1, <1>2 DEF Filled
  <2>1. CASE j = t.cnt
    BY <2>1, <1>1, <1>2 DEF EntryFor
  <2>2. CASE j # t.cnt
    <3>1. j \in 0..t.cnt-1 /\ r.ents[j] = t.ents[j]
      BY <2>2, <1>1, <1>2
    <3> QED BY <3>1 DEF Filled
  <2> QED BY <2>1, <2>2
<1> QED BY <1>2, <1>7, <1>8

\* An entry that dies stays an entry.
LEMMA DeadEntryType ==
  ASSUME NEW e \in KVEntry
  PROVE  [e EXCEPT !.stat = "DELETED"] \in KVEntry
BY DEF KVEntry, EntryStat

LEMMA RemoveType ==
  ASSUME NEW cap \in Nat, NEW t \in TableOf(cap), Filled(t), NEW k
  PROVE  /\ RemoveKey(t, k) \in TableOf(cap) /\ Filled(RemoveKey(t, k))
         /\ RemoveKey(t, k).cnt = t.cnt /\ RemoveKey(t, k).mem = t.mem
<1>1. CASE Lookup(t, k) < 0
  BY <1>1 DEF RemoveKey
<1>2. CASE ~(Lookup(t, k) < 0)
  <2> DEFINE n == Lookup(t, k)
             d == [t.ents[n] EXCEPT !.stat = "DELETED"]
             r == RemoveKey(t, k)
  <2>1. /\ r.ents = [t.ents EXCEPT ![n] = d] /\ r.cnt = t.cnt
        /\ r = [cap |-> t.cap, cnt |-> t.cnt, ents |-> r.ents, idx |-> t.idx, mem |-> t.mem]
    BY <1>2, RemoveFields
  <2>2. ASSUME n \in 0..cap-1 PROVE d \in KVEntry
    <3>1. t.ents[n] \in KVEntry
      BY <2>2 DEF TableOf
    <3> HIDE DEF n
    <3> QED BY <3>1, DeadEntryType
  <2>3. r.ents \in [0..cap-1 -> KVEntry]
    <3> HIDE DEF d, n, r
    <3> QED BY <2>1, <2>2 DEF TableOf
  <2>4. r \in TableOf(cap)
    BY <2>1, <2>3 DEF TableOf
  <2>5. Filled(r)
    <3> SUFFICES ASSUME NEW j \in 0..t.cnt-1
                 PROVE  /\ r.ents[j].key \in Keys /\ r.ents[j].val \in Vals
                        /\ r.ents[j].stat \in {"INUSE", "DELETED"}
      BY <2>1 DEF Filled
    <3>1. t.ents[j] \in KVEntry /\ j \in DOMAIN t.ents
      BY DEF TableOf
    <3>2. r.ents[j] = t.ents[j] \/ r.ents[j] = [t.ents[j] EXCEPT !.stat = "DELETED"]
      BY <2>1, <3>1
    <3> QED BY <3>1, <3>2 DEF Filled, KVEntry
  <2> QED BY <2>1, <2>4, <2>5
<1> QED BY <1>1, <1>2

-----------------------------------------------------------------------------
(***************************************************************************)
(* The inductive invariant of type correctness.  TypeOK alone is not: that *)
(* an append stays inside the entry array depends on the new table of a    *)
(* copy being large enough for the entries still to come and, if the call  *)
(* is an insertion, for one more.                                          *)
(***************************************************************************)
CopyRoom ==
  phase = "copy" =>
    /\ call.op \in {"compact", "insert"}
    /\ new.cnt <= i /\ i <= tbl.cnt /\ tbl.cap <= new.cap
    /\ call.op = "insert" =>
         call.key \in Keys /\ call.val \in Vals /\ tbl.cnt < new.cap

TypeInv == TypeOK /\ Filled(tbl) /\ Filled(new) /\ CopyRoom

\* What is known of one table.
GoodType(t) == IsTable(t) /\ Filled(t)

LEMMA GoodTypeFields ==
  ASSUME NEW t, IsTable(t)
  PROVE  /\ t \in TableOf(t.cap) /\ t.cap \in 0..MaxCap /\ t.cap \in Nat
         /\ t.cnt \in 0..t.cap /\ t.cnt \in 0..MaxCap /\ t.mem \in Arena
         /\ t.ents \in [0..t.cap-1 -> KVEntry]
         /\ t.idx \in [0..t.cap-1 -> {HT_KIDX_SLOT_EMPTY} \cup 0..t.cap-1]
<1>1. PICK cap \in 0..MaxCap : t \in TableOf(cap)
  BY DEF IsTable
<1>2. t.cap = cap
  BY <1>1 DEF TableOf
<1>3. MaxCap \in Nat
  BY BoundAssumption
<1> QED BY <1>1, <1>2, <1>3 DEF TableOf

LEMMA NewGood ==
  ASSUME NEW cap \in 0..MaxCap, NEW size \in Nat
  PROVE  /\ GoodType(NewTable(cap, size))
         /\ NewTable(cap, size).cnt = 0 /\ NewTable(cap, size).cap = cap
<1>1. cap \in Nat
  BY BoundAssumption
<1>2. NewTable(cap, size) \in TableOf(cap)
  BY <1>1, NewTableType
<1> QED BY <1>1, <1>2 DEF GoodType, IsTable, Filled, NewTable

LEMMA NullGood == GoodType(NULL) /\ NULL.cnt = 0 /\ NULL.cap = 0
BY NewGood, BoundAssumption DEF NULL

LEMMA CreateGood ==
  ASSUME NEW cap \in Nat, NEW size \in Nat, NEW t \in CreateResults(cap, size)
  PROVE  GoodType(t) /\ t.cnt = 0 /\ (ValidTable(t) => t.cap = cap)
<1>1. CASE t = NULL
  BY <1>1, NullGood DEF ValidTable
<1>2. CASE t = NewTable(cap, size) /\ cap <= MaxCap
  <2>1. cap \in 0..MaxCap
    BY <1>2, BoundAssumption
  <2> QED BY <1>2, <2>1, NewGood
<1> QED BY <1>1, <1>2 DEF CreateResults

(***************************************************************************)
(* The end of an insertion, into a table that has a free entry.            *)
(***************************************************************************)
LEMMA InsertIntoGood ==
  ASSUME NEW t, GoodType(t), t.cnt < t.cap, NEW k \in Keys, NEW v \in Vals,
         InsertInto(t, k, v)
  PROVE  /\ GoodType(tbl') /\ new' = NULL /\ call' = NoCall /\ i' = 0
         /\ ret' \in {"ok", "fail"}
         /\ phase' \in {"ready", "aborted", "dangling"}
<1> DEFINE t1 == RemoveKey(t, k)
           t2 == AppendEntry(t1, k, v)
<1>1. t \in TableOf(t.cap) /\ t.cap \in Nat /\ t.cap \in 0..MaxCap
  BY GoodTypeFields DEF GoodType
<1>2. t1 \in TableOf(t.cap) /\ Filled(t1) /\ t1.cnt < t.cap
  BY <1>1, RemoveType DEF GoodType
<1>3. GoodType(t2)
  <2>1. CASE PairFits(t1.mem, k, v)
    <3>1. t2 \in TableOf(t.cap) /\ Filled(t2)
      BY <1>1, <1>2, <2>1, AppendType
    <3> QED BY <1>1, <3>1 DEF GoodType, IsTable
  <2>2. CASE ~PairFits(t1.mem, k, v)
    <3> DEFINE m == ArenaSetCur(AllocVal(t1.mem, k, v).mem, t1.mem.cur)
    <3>1. t1.mem \in Arena
      BY <1>2 DEF TableOf
    <3>2. m \in Arena
      BY <3>1, AllocTypes DEF ArenaSetCur, Arena
    <3>3. t2 = [t1 EXCEPT !.mem = m]
      BY <2>2 DEF AppendEntry
    <3>4. t2 \in TableOf(t.cap) /\ t2.cnt = t1.cnt /\ t2.ents = t1.ents
      <4> HIDE DEF m, t1, t2
      <4> QED BY <1>2, <3>2, <3>3 DEF TableOf
    <3>5. Filled(t2)
      BY <1>2, <3>4 DEF Filled
    <3> QED BY <1>1, <3>4, <3>5 DEF GoodType, IsTable
  <2> QED BY <2>1, <2>2
<1>4. CASE PairFits(t1.mem, k, v)
  BY <1>3, <1>4 DEF InsertInto, Returns
<1>5. CASE ~PairFits(t1.mem, k, v)
  BY <1>3, <1>5, NullGood DEF InsertInto, Returns, Aborts
<1> QED BY <1>4, <1>5

(***************************************************************************)
(* A state without a copy in progress whose tables are well-formed.        *)
(***************************************************************************)
LEMMA TypeInvAtReturn ==
  ASSUME GoodType(tbl'), new' = NULL, call' = NoCall, i' = 0,
         ret' \in {"ok", "fail"} \cup Vals \cup {NoVal},
         phase' \in {"none", "ready", "aborted", "dangling"}, ndebug' \in Builds
  PROVE  TypeInv'
<1>1. GoodType(NULL) /\ 0 \in 0..MaxCap
  BY NullGood, BoundAssumption
<1>2. IsTable(new') /\ Filled(new') /\ IsTable(tbl') /\ Filled(tbl')
  BY <1>1 DEF GoodType
<1>3. TypeOK'
  BY <1>1, <1>2 DEF TypeOK, IsTable, Call, NoCall
<1> QED BY <1>2, <1>3 DEF TypeInv, CopyRoom, Filled

LEMMA TypeInvInit == Init => TypeInv
<1> SUFFICES ASSUME Init PROVE TypeInv
  OBVIOUS
<1>1. GoodType(NULL) /\ 0 \in 0..MaxCap
  BY NullGood, BoundAssumption
<1> QED BY <1>1 DEF Init, TypeInv, TypeOK, CopyRoom, GoodType, Call, NoCall

\* A copy that starts in a large enough new table.
LEMMA TypeInvStartCopy ==
  ASSUME TypeInv, phase = "ready", NEW c \in Call, NEW cap \in Nat, NEW size \in Nat,
         StartCopy(c, cap, size), tbl.cap <= cap, ndebug' \in Builds,
         c.op \in {"compact", "insert"},
         c.op = "insert" => c.key \in Keys /\ c.val \in Vals /\ tbl.cnt < cap
  PROVE  TypeInv'
<1>1. PICK t \in CreateResults(cap, size) :
        IF ValidTable(t)
        THEN phase' = "copy" /\ new' = t /\ call' = c /\ i' = 0 /\ UNCHANGED <<tbl, ret>>
        ELSE Refuses
  BY DEF StartCopy
<1>2. GoodType(t) /\ t.cnt = 0 /\ (ValidTable(t) => t.cap = cap)
  BY CreateGood
<1>3. CASE ~ValidTable(t)
  BY <1>1, <1>3, TypeInvAtReturn DEF Refuses, Returns, TypeInv, TypeOK, GoodType
<1>4. CASE ValidTable(t)
  <2>1. tbl.cnt \in Nat /\ 0 \in 0..MaxCap
    BY GoodTypeFields, BoundAssumption DEF TypeInv, TypeOK
  <2>2. TypeOK'
    BY <1>1, <1>2, <1>4, <2>1 DEF TypeInv, TypeOK, GoodType, IsTable
  <2>3. Filled(tbl') /\ Filled(new')
    BY <1>1, <1>2, <1>4 DEF TypeInv, GoodType
  <2>4. CopyRoom'
    BY <1>1, <1>2, <1>4, <2>1 DEF CopyRoom
  <2> QED BY <2>2, <2>3, <2>4 DEF TypeInv, Filled
<1> QED BY <1>3, <1>4

LEMMA TypeInvStep == TypeInv /\ [Next]_vars => TypeInv'
<1> SUFFICES ASSUME TypeInv, [Next]_vars PROVE TypeInv'
  OBVIOUS
<1> USE DEF TypeInv
<1>1. /\ GoodType(tbl) /\ GoodType(new) /\ GoodType(NULL)
      /\ tbl.cap \in Nat /\ tbl.cnt \in 0..tbl.cap /\ tbl.mem \in Arena
      /\ tbl \in TableOf(tbl.cap) /\ tbl.cap \in 0..MaxCap
      /\ new.cap \in Nat /\ new.cnt \in 0..new.cap /\ new.mem \in Arena
      /\ new \in TableOf(new.cap) /\ new.cap \in 0..MaxCap
      /\ ndebug' \in Builds
  BY GoodTypeFields, NullGood DEF TypeOK, GoodType, Next, vars
<1>2. ASSUME NEW cap \in CreateCaps, NEW size \in CreateSizes, Create(cap, size)
      PROVE  TypeInv'
  <2>1. cap \in Nat /\ size \in Nat
    BY BoundAssumption
  <2>2. PICK t \in CreateResults(cap, size) :
          IF ValidTable(t) THEN phase' = "ready" /\ tbl' = t /\ Returns("ok")
                           ELSE Refuses
    BY <1>2 DEF Create
  <2>3. GoodType(t)
    BY <2>1, CreateGood
  <2> QED BY <1>1, <1>2, <2>2, <2>3, TypeInvAtReturn DEF Create, Refuses, Returns
<1>3. CASE Destroy
  BY <1>1, <1>3, TypeInvAtReturn DEF Destroy, Returns
<1>4. ASSUME NEW k \in Keys, LookupKey(k) PROVE TypeInv'
  <2>1. LookupVal(tbl, k) \in Vals \cup {NoVal}
    <3>1. CASE Lookup(tbl, k) < 0
      BY <3>1 DEF LookupVal
    <3>2. CASE ~(Lookup(tbl, k) < 0)
      <4> DEFINE S == MatchSteps(tbl, k)
      <4>1. S # {} /\ S \subseteq 0..tbl.cap-1
        BY <3>2 DEF Lookup, MatchSteps, KVSTAT_KEY_NOT_FOUND
      <4>2. Min(S) \in 0..tbl.cap-1
        BY <4>1, <1>1, MinOfSteps
      <4>3. Slot(Hash[k], Min(S), tbl.cap) \in 0..tbl.cap-1
        BY <4>2, <1>1, DataAssumption DEF Slot
      <4>4. Lookup(tbl, k) \in {HT_KIDX_SLOT_EMPTY} \cup 0..tbl.cap-1
        BY <4>1, <4>3, <1>1 DEF Lookup, TableOf
      <4>5. Lookup(tbl, k) \in 0..tbl.cap-1
        BY <4>4, <3>2 DEF HT_KIDX_SLOT_EMPTY
      <4>6. tbl.ents[Lookup(tbl, k)] \in KVEntry
        BY <4>5, <1>1 DEF TableOf
      <4> QED BY <3>2, <4>6 DEF LookupVal, KVEntry
    <3> QED BY <3>1, <3>2
  <2> QED BY <1>1, <1>4, <2>1, TypeInvAtReturn DEF LookupKey, Returns
<1>5. ASSUME NEW k \in Keys, Remove(k) PROVE TypeInv'
  <2>1. GoodType(RemoveKey(tbl, k))
    BY <1>1, RemoveType DEF GoodType, IsTable
  <2> QED BY <1>1, <1>5, <2>1, TypeInvAtReturn DEF Remove, Returns
<1>6. ASSUME NEW k \in Keys, NEW v \in Vals, InsertRefused(k, v) PROVE TypeInv'
  BY <1>1, <1>6, TypeInvAtReturn DEF InsertRefused, Refuses, Returns
<1>7. ASSUME NEW k \in Keys, NEW v \in Vals, InsertInPlace(k, v) PROVE TypeInv'
  <2>1. tbl.cnt < tbl.cap
    BY <1>1, <1>7 DEF InsertInPlace, ShouldResize, CapShouldResize
  <2> QED BY <1>1, <1>7, <2>1, InsertIntoGood, TypeInvAtReturn DEF InsertInPlace
<1>8. ASSUME NEW k \in Keys, NEW v \in Vals, InsertResize(k, v) PROVE TypeInv'
  <2>1. InsertCall(k, v) \in Call
    BY DEF InsertCall, Call
  <2>2. /\ ResizeCap(tbl) \in Nat /\ ResizeMem(tbl, k, v) \in Nat
        /\ tbl.cap <= ResizeCap(tbl)
    BY <1>1 DEF ResizeCap, ResizeMem, Arena
  <2>3. StartCopy(InsertCall(k, v), ResizeCap(tbl), ResizeMem(tbl, k, v)) /\ phase = "ready"
    BY <1>8 DEF InsertResize
  <2>4. tbl.cap > 0 => tbl.cnt < ResizeCap(tbl)
    BY <1>1 DEF ResizeCap, CapShouldResize
  <2>5. CASE tbl.cap > 0
    BY <1>1, <2>1, <2>2, <2>3, <2>4, <2>5, TypeInvStartCopy DEF InsertCall
  <2>6. CASE tbl.cap = 0
    <3>1. ResizeCap(tbl) = 0
      BY <2>6, <1>1 DEF ResizeCap
    <3>2. ~IsPowerOf2(0)
      BY DEF IsPowerOf2
    <3> QED BY <1>1, <1>8, <2>3, <3>1, <3>2, TypeInvAtReturn, NullGood
            DEF StartCopy, CreateResults, ValidCreateArgs, Refuses, Returns, ValidTable, TypeOK
  <2> QED BY <1>1, <2>5, <2>6
<1>9. CASE Compact
  <2>1. CompactCall \in Call /\ tbl.mem.size \in Nat
    BY <1>1 DEF CompactCall, Call, Arena
  <2> QED BY <1>1, <1>9, <2>1, TypeInvStartCopy DEF Compact, CompactCall
<1>10. CASE SkipDeleted
  <2>1. /\ i' = i + 1 /\ i < tbl.cnt /\ phase = "copy"
        /\ UNCHANGED <<phase, tbl, new, call, ret>>
    BY <1>10 DEF SkipDeleted, Copying
  <2>2. i + 1 \in 0..MaxCap /\ i + 1 <= tbl.cnt
    BY <1>1, <2>1, BoundAssumption DEF TypeOK
  <2>3. TypeOK'
    BY <1>1, <2>1, <2>2 DEF TypeOK, IsTable
  <2>4. CopyRoom'
    BY <1>1, <2>1, <2>2 DEF CopyRoom, TypeOK
  <2> QED BY <2>1, <2>3, <2>4 DEF Filled
<1>11. CASE CopyEntry
  <2> DEFINE e == tbl.ents[i]
  <2>1. e.key \in Keys /\ e.val \in Vals /\ i \in 0..tbl.cnt-1 /\ i + 1 \in 0..MaxCap
    BY <1>1, <1>11, BoundAssumption DEF CopyEntry, Copying, Filled, TypeOK
  <2>2. new.cnt < new.cap /\ phase = "copy"
    BY <1>1, <1>11, <2>1 DEF CopyEntry, Copying, CopyRoom
  <2>3. CASE PairFits(new.mem, e.key, e.val)
    <3>1. /\ new' = AppendEntry(new, e.key, e.val) /\ i' = i + 1
          /\ UNCHANGED <<phase, tbl, call, ret>>
      BY <1>11, <2>3 DEF CopyEntry
    <3>2. /\ new' \in TableOf(new.cap) /\ Filled(new') /\ new'.cnt = new.cnt + 1
      BY <1>1, <2>1, <2>2, <2>3, <3>1, AppendType DEF GoodType
    <3>3. new'.cap = new.cap
      BY <3>2 DEF TableOf
    <3>4. TypeOK'
      BY <1>1, <2>1, <3>1, <3>2 DEF TypeOK, IsTable
    <3>5. CopyRoom'
      BY <1>1, <2>1, <3>1, <3>2, <3>3 DEF CopyRoom
    <3> QED BY <3>1, <3>2, <3>4, <3>5 DEF Filled
  <2>4. CASE ~PairFits(new.mem, e.key, e.val)
    BY <1>1, <1>11, <2>4, TypeInvAtReturn DEF CopyEntry, Returns, Aborts
  <2> QED BY <2>3, <2>4
<1>12. CASE CompactDone
  BY <1>1, <1>12, TypeInvAtReturn DEF CompactDone, Returns
<1>13. CASE InsertResized
  <2>1. call.key \in Keys /\ call.val \in Vals /\ new.cnt < new.cap
    BY <1>1, <1>13 DEF InsertResized, CopyDone, CopyRoom, TypeOK
  <2> QED BY <1>1, <1>13, <2>1, InsertIntoGood, TypeInvAtReturn DEF InsertResized
<1>14. CASE Restart
  BY <1>1, <1>14, TypeInvAtReturn DEF Restart, Returns
<1>15. CASE UNCHANGED vars
  BY <1>15 DEF vars, TypeOK, IsTable, Filled, CopyRoom
<1> QED
  BY <1>2, <1>3, <1>4, <1>5, <1>6, <1>7, <1>8, <1>9, <1>10, <1>11, <1>12, <1>13,
     <1>14, <1>15 DEF Next, Calls, CopyStep

(***************************************************************************)
(* TypeOK holds in every reachable state: no append or index insertion     *)
(* writes outside its array, in kv.c's insert, resize and compaction.      *)
(***************************************************************************)
THEOREM TypeCorrect == Spec => []TypeOK
<1>1. TypeInv => TypeOK
  BY DEF TypeInv
<1> QED BY TypeInvInit, TypeInvStep, <1>1, PTL DEF Spec

-----------------------------------------------------------------------------
(***************************************************************************)
(* The two blocks of a pair: the first aligned place at or after the       *)
(* cursor, and the first at or after the key's end.                        *)
(***************************************************************************)
KeyAt(m) == AlignOffset(m.cur, 4)
ValAt(m, k) == AlignOffset(KeyAt(m) + KLen[k] + 1, 4)
PairEnd(m, k, v) == ValAt(m, k) + VLen[v] + 1

LEMMA PairPlaces ==
  ASSUME NEW m \in Arena, NEW k \in Keys, NEW v \in Vals
  PROVE  /\ KeyAt(m) \in Nat /\ ValAt(m, k) \in Nat /\ PairEnd(m, k, v) \in Nat
         /\ KLen[k] \in Nat /\ VLen[v] \in Nat
         /\ m.cur <= KeyAt(m) /\ KeyAt(m) % 4 = 0 /\ KeyAt(m) <= m.cur + 3
         /\ KeyAt(m) + KLen[k] + 1 <= ValAt(m, k) /\ ValAt(m, k) % 4 = 0
         /\ ValAt(m, k) <= KeyAt(m) + KLen[k] + 4
         /\ ValAt(m, k) < PairEnd(m, k, v)
<1>1. m.cur \in Nat /\ KLen[k] \in Nat /\ VLen[v] \in Nat
  BY DataAssumption DEF Arena
<1>2. /\ KeyAt(m) \in Nat /\ m.cur <= KeyAt(m) /\ KeyAt(m) <= m.cur + 3
      /\ KeyAt(m) % 4 = 0
  BY <1>1, AlignOffset4 DEF KeyAt
<1>3. KeyAt(m) + KLen[k] + 1 \in Nat
  BY <1>1, <1>2
<1>4. /\ ValAt(m, k) \in Nat /\ KeyAt(m) + KLen[k] + 1 <= ValAt(m, k)
      /\ ValAt(m, k) <= KeyAt(m) + KLen[k] + 1 + 3 /\ ValAt(m, k) % 4 = 0
  BY <1>3, AlignOffset4 DEF ValAt
<1> QED BY <1>1, <1>2, <1>4 DEF PairEnd

(***************************************************************************)
(* A pair fits exactly if its end is inside the arena, and then it lies    *)
(* there.                                                                  *)
(***************************************************************************)
LEMMA PairFitsIff ==
  ASSUME NEW m \in Arena, NEW k \in Keys, NEW v \in Vals
  PROVE  /\ PairFits(m, k, v) <=> PairEnd(m, k, v) <= m.size
         /\ PairFits(m, k, v) =>
              /\ AllocKey(m, k).off = KeyAt(m) /\ AllocVal(m, k, v).off = ValAt(m, k)
              /\ AllocVal(m, k, v).mem = [cur |-> PairEnd(m, k, v), size |-> m.size]
<1> DEFINE a == AllocKey(m, k)
           b == AllocVal(m, k, v)
<1>1. /\ KeyAt(m) \in Nat /\ ValAt(m, k) \in Nat /\ PairEnd(m, k, v) \in Nat
      /\ KLen[k] \in Nat /\ VLen[v] \in Nat /\ KeyAt(m) + KLen[k] + 1 <= ValAt(m, k)
      /\ ValAt(m, k) < PairEnd(m, k, v) /\ m.size \in Nat /\ m.cur \in Nat
      /\ m = [cur |-> m.cur, size |-> m.size]
  BY PairPlaces DEF Arena
<1>2. ~(KeyAt(m) = NULL_OFF) /\ ~(ValAt(m, k) = NULL_OFF)
  BY <1>1 DEF NULL_OFF
<1>3. CASE KeyAt(m) + KLen[k] + 1 <= m.size
  <2>1. /\ a.off = KeyAt(m)
        /\ a.mem = [cur |-> KeyAt(m) + KLen[k] + 1, size |-> m.size]
    <3>1. KeyAt(m) + (KLen[k] + 1) = KeyAt(m) + KLen[k] + 1
      BY <1>1
    <3> QED BY <1>1, <1>3, <3>1
            DEF AllocKey, ArenaAlloc, ArenaFits, KeyAt, KVTBL_MEM_ALIGN
  <2>2. AlignOffset(a.mem.cur, 4) = ValAt(m, k) /\ a.mem.size = m.size
    BY <2>1 DEF ValAt
  <2>3. ValAt(m, k) + (VLen[v] + 1) = PairEnd(m, k, v)
    BY <1>1 DEF PairEnd
  <2> HIDE DEF a
  <2>4. b = IF PairEnd(m, k, v) <= m.size
            THEN [mem |-> [a.mem EXCEPT !.cur = PairEnd(m, k, v)], off |-> ValAt(m, k)]
            ELSE [mem |-> a.mem, off |-> NULL_OFF]
    BY <2>2, <2>3 DEF AllocVal, ArenaAlloc, ArenaFits, KVTBL_MEM_ALIGN, a
  <2> QED BY <1>2, <2>1, <2>4 DEF PairFits, a
<1>4. CASE ~(KeyAt(m) + KLen[k] + 1 <= m.size)
  <2>1. a.off = NULL_OFF
    <3>1. KeyAt(m) + (KLen[k] + 1) = KeyAt(m) + KLen[k] + 1
      BY <1>1
    <3> QED BY <1>4, <3>1 DEF AllocKey, ArenaAlloc, ArenaFits, KeyAt, KVTBL_MEM_ALIGN
  <2>2. ~(PairEnd(m, k, v) <= m.size)
    BY <1>1, <1>4
  <2> QED BY <2>1, <2>2 DEF PairFits
<1> QED BY <1>3, <1>4

-----------------------------------------------------------------------------
(***************************************************************************)
(* Layout survives every operation on one table.                           *)
(***************************************************************************)
LEMMA FilledKeys ==
  ASSUME NEW cap \in Nat, NEW t \in TableOf(cap), Filled(t), NEW j \in Entries(t)
  PROVE  /\ t.ents[j].key \in Keys /\ t.ents[j].val \in Vals
         /\ t.ents[j].koff \in Nat /\ t.ents[j].voff \in Nat
         /\ KeyEnd(t.ents[j]) \in Nat /\ ValEnd(t.ents[j]) \in Nat
<1>1. t.ents[j] \in KVEntry
  BY DEF TableOf, Entries
<1>2. t.ents[j].key \in Keys /\ t.ents[j].val \in Vals
  BY DEF Filled, Entries
<1>3. KLen[t.ents[j].key] \in Nat /\ VLen[t.ents[j].val] \in Nat
  BY <1>2, DataAssumption
<1> QED BY <1>1, <1>2, <1>3 DEF KVEntry, KeyEnd, ValEnd

LEMMA NewLayout == ASSUME NEW cap, NEW size \in Nat PROVE Layout(NewTable(cap, size))
BY DEF Layout, NewTable, ArenaInit, Entries

LEMMA RemoveLayout ==
  ASSUME NEW cap \in Nat, NEW t \in TableOf(cap), Filled(t), Layout(t), NEW k
  PROVE  Layout(RemoveKey(t, k))
<1>1. CASE Lookup(t, k) < 0
  BY <1>1 DEF RemoveKey
<1>2. CASE ~(Lookup(t, k) < 0)
  <2> DEFINE r == RemoveKey(t, k)
             n == Lookup(t, k)
  <2>1. /\ r.cnt = t.cnt /\ r.mem = t.mem
        /\ r.ents = [t.ents EXCEPT ![n] = [t.ents[n] EXCEPT !.stat = "DELETED"]]
    BY <1>2, RemoveFields
  <2> HIDE DEF r, n
  <2>2. \A j \in Entries(t) :
          /\ r.ents[j].koff = t.ents[j].koff /\ r.ents[j].voff = t.ents[j].voff
          /\ KeyEnd(r.ents[j]) = KeyEnd(t.ents[j]) /\ ValEnd(r.ents[j]) = ValEnd(t.ents[j])
    <3> SUFFICES ASSUME NEW j \in Entries(t)
                 PROVE  /\ r.ents[j].koff = t.ents[j].koff /\ r.ents[j].voff = t.ents[j].voff
                        /\ r.ents[j].key = t.ents[j].key /\ r.ents[j].val = t.ents[j].val
      BY DEF KeyEnd, ValEnd
    <3>1. t.ents[j] \in KVEntry /\ j \in DOMAIN t.ents
      BY DEF TableOf, Entries
    <3>2. r.ents[j] = t.ents[j] \/ r.ents[j] = [t.ents[j] EXCEPT !.stat = "DELETED"]
      BY <2>1, <3>1
    <3> QED BY <3>1, <3>2 DEF KVEntry
  <2>3. Entries(r) = Entries(t)
    BY <2>1 DEF Entries
  <2>4. ASSUME NEW j \in Entries(t), j + 1 < t.cnt PROVE j + 1 \in Entries(t)
    BY <2>4 DEF Entries, TableOf
  <2>5. Layout(r)
    BY <2>1, <2>2, <2>3, <2>4 DEF Layout
  <2> QED BY <2>5 DEF r
<1> QED BY <1>1, <1>2

LEMMA AppendLayout ==
  ASSUME NEW cap \in Nat, NEW t \in TableOf(cap), Filled(t), Layout(t), t.cnt < cap,
         NEW k \in Keys, NEW v \in Vals
  PROVE  Layout(AppendEntry(t, k, v))
<1>1. CASE ~PairFits(t.mem, k, v)
  BY <1>1, FailedAppend
<1>2. CASE PairFits(t.mem, k, v)
  <2> DEFINE r == AppendEntry(t, k, v)
             e == EntryFor(t, k, v)
  <2>1. t.mem \in Arena /\ t.cnt \in 0..cap-1 /\ t.ents \in [0..cap-1 -> KVEntry]
    BY DEF TableOf
  <2>2. /\ KeyAt(t.mem) \in Nat /\ ValAt(t.mem, k) \in Nat /\ PairEnd(t.mem, k, v) \in Nat
        /\ t.mem.cur <= KeyAt(t.mem) /\ KeyAt(t.mem) % 4 = 0
        /\ KeyAt(t.mem) + KLen[k] + 1 <= ValAt(t.mem, k) /\ ValAt(t.mem, k) % 4 = 0
        /\ t.mem.cur \in Nat /\ t.mem.size \in Nat
    BY <2>1, PairPlaces DEF Arena
  <2>3. /\ AllocKey(t.mem, k).off = KeyAt(t.mem) /\ AllocVal(t.mem, k, v).off = ValAt(t.mem, k)
        /\ AllocVal(t.mem, k, v).mem = [cur |-> PairEnd(t.mem, k, v), size |-> t.mem.size]
        /\ PairEnd(t.mem, k, v) <= t.mem.size
    BY <1>2, <2>1, PairFitsIff
  <2>4. /\ r.cnt = t.cnt + 1 /\ r.ents = [t.ents EXCEPT ![t.cnt] = e]
        /\ r.mem = [cur |-> PairEnd(t.mem, k, v), size |-> t.mem.size]
    BY <1>2, <2>3, AppendFields
  <2>5. /\ e.koff = KeyAt(t.mem) /\ e.voff = ValAt(t.mem, k)
        /\ KeyEnd(e) = KeyAt(t.mem) + KLen[k] + 1 /\ ValEnd(e) = PairEnd(t.mem, k, v)
    BY <2>3 DEF EntryFor, KeyEnd, ValEnd, PairEnd
  <2> HIDE DEF r, e
  <2>6. r.ents[t.cnt] = e /\ \A j \in 0..t.cnt-1 : r.ents[j] = t.ents[j]
    BY <2>1, <2>4
  <2>7. r.mem.cur <= r.mem.size
    BY <2>3, <2>4
  <2>8. ASSUME NEW j \in 0..t.cnt
        PROVE  /\ r.ents[j].koff % 4 = 0 /\ r.ents[j].voff % 4 = 0
               /\ KeyEnd(r.ents[j]) <= r.ents[j].voff
               /\ ValEnd(r.ents[j]) <= IF j + 1 < r.cnt THEN r.ents[j+1].koff ELSE r.mem.cur
    <3>1. CASE j = t.cnt
      BY <3>1, <2>1, <2>2, <2>4, <2>5, <2>6
    <3>2. CASE j # t.cnt
      <4>1. /\ j \in Entries(t) /\ r.ents[j] = t.ents[j] /\ j + 1 < r.cnt
        BY <3>2, <2>1, <2>4, <2>6 DEF Entries
      <4>2. /\ t.ents[j].koff % 4 = 0 /\ t.ents[j].voff % 4 = 0
            /\ KeyEnd(t.ents[j]) <= t.ents[j].voff
            /\ ValEnd(t.ents[j]) <= IF j + 1 < t.cnt THEN t.ents[j+1].koff ELSE t.mem.cur
        BY <4>1 DEF Layout, KVTBL_MEM_ALIGN
      <4>3. CASE j + 1 < t.cnt
        <5>1. r.ents[j+1] = t.ents[j+1]
          BY <4>1, <4>3, <2>1, <2>6
        <5> QED BY <4>1, <4>2, <4>3, <5>1
      <4>4. CASE ~(j + 1 < t.cnt)
        <5>1. j + 1 = t.cnt
          BY <4>4, <3>2, <2>1
        <5>2. ValEnd(t.ents[j]) <= t.mem.cur /\ ValEnd(t.ents[j]) \in Nat
          BY <4>1, <4>2, <4>4, FilledKeys
        <5>3. ValEnd(t.ents[j]) <= e.koff
          BY <5>2, <2>2, <2>5
        <5> QED BY <4>1, <4>2, <5>1, <5>3, <2>6
      <4> QED BY <4>3, <4>4
    <3> QED BY <3>1, <3>2
  <2>9. Layout(r)
    <3>1. Entries(r) = 0..t.cnt
      BY <2>1, <2>4 DEF Entries
    <3> QED BY <3>1, <2>7, <2>8 DEF Layout, KVTBL_MEM_ALIGN
  <2> QED BY <2>9 DEF r
<1> QED BY <1>1, <1>2

-----------------------------------------------------------------------------
(***************************************************************************)
(* While a table is copied, what is in the new one takes no more than the  *)
(* entries it was copied from took in the old one, so that the next fits;  *)
(* and unless the pair to be inserted is larger than the old arena, there  *)
(* is room for it behind them.                                             *)
(***************************************************************************)
NextAt(t, n) == IF n < t.cnt THEN t.ents[n].koff ELSE t.mem.cur

CopyFits ==
  phase = "copy" =>
    /\ new.mem.cur <= NextAt(tbl, i)
    /\ tbl.mem.size <= new.mem.size
    /\ call.op = "insert" /\ PairBytes(call.key, call.val) <= tbl.mem.size =>
         tbl.mem.cur + PairBytes(call.key, call.val) <= new.mem.size

(***************************************************************************)
(* Each value ends below the cursor: that this follows from Layout needs   *)
(* an induction over the entries, so it is carried along.                  *)
(***************************************************************************)
BelowCursor(t) == \A j \in Entries(t) : ValEnd(t.ents[j]) <= t.mem.cur

LayoutInv ==
  Layout(tbl) /\ Layout(new) /\ BelowCursor(tbl) /\ BelowCursor(new) /\ CopyFits

LEMMA AlignBelow ==
  ASSUME NEW x \in Nat, NEW y \in Nat, x <= y, y % 4 = 0
  PROVE  AlignOffset(x, 4) <= y
BY DEF AlignOffset

LEMMA EntryInside ==
  ASSUME NEW cap \in Nat, NEW t \in TableOf(cap), Filled(t), Layout(t), BelowCursor(t),
         NEW j \in Entries(t)
  PROVE  /\ t.ents[j].koff <= ValEnd(t.ents[j])
         /\ ValEnd(t.ents[j]) <= NextAt(t, j + 1)
         /\ ValEnd(t.ents[j]) <= t.mem.size
         /\ NextAt(t, j + 1) \in Nat
<1>1. /\ t.ents[j].key \in Keys /\ t.ents[j].val \in Vals
      /\ t.ents[j].koff \in Nat /\ t.ents[j].voff \in Nat
      /\ KLen[t.ents[j].key] \in Nat /\ VLen[t.ents[j].val] \in Nat
      /\ KeyEnd(t.ents[j]) \in Nat /\ ValEnd(t.ents[j]) \in Nat
  BY FilledKeys, DataAssumption
<1>2. /\ KeyEnd(t.ents[j]) <= t.ents[j].voff
      /\ ValEnd(t.ents[j]) <= NextAt(t, j + 1)
  BY DEF Layout, NextAt
<1>3. t.ents[j].koff <= ValEnd(t.ents[j])
  BY <1>1, <1>2 DEF KeyEnd, ValEnd
<1>4. t.mem.cur <= t.mem.size /\ t.mem.cur \in Nat /\ t.mem.size \in Nat
  BY DEF Layout, TableOf, Arena
<1>5. NextAt(t, j + 1) \in Nat
  <2>1. CASE j + 1 < t.cnt
    <3>1. j + 1 \in Entries(t)
      BY <2>1 DEF Entries, TableOf
    <3> QED BY <2>1, <3>1, FilledKeys DEF NextAt
  <2>2. CASE ~(j + 1 < t.cnt)
    BY <2>2, <1>4 DEF NextAt
  <2> QED BY <2>1, <2>2
<1>6. ValEnd(t.ents[j]) <= t.mem.cur
  BY DEF BelowCursor
<1> QED BY <1>1, <1>2, <1>3, <1>4, <1>5, <1>6

LEMMA NewBelow == ASSUME NEW cap, NEW size PROVE BelowCursor(NewTable(cap, size))
BY DEF BelowCursor, NewTable, Entries

LEMMA RemoveBelow ==
  ASSUME NEW cap \in Nat, NEW t \in TableOf(cap), BelowCursor(t), NEW k
  PROVE  BelowCursor(RemoveKey(t, k))
<1>1. CASE Lookup(t, k) < 0
  BY <1>1 DEF RemoveKey
<1>2. CASE ~(Lookup(t, k) < 0)
  <2> DEFINE r == RemoveKey(t, k)
             n == Lookup(t, k)
  <2>1. /\ r.cnt = t.cnt /\ r.mem = t.mem
        /\ r.ents = [t.ents EXCEPT ![n] = [t.ents[n] EXCEPT !.stat = "DELETED"]]
    BY <1>2, RemoveFields
  <2> HIDE DEF r, n
  <2>2. ASSUME NEW j \in Entries(r)
        PROVE  ValEnd(r.ents[j]) <= r.mem.cur
    <3>1. j \in Entries(t) /\ t.ents[j] \in KVEntry /\ j \in DOMAIN t.ents
      BY <2>1 DEF TableOf, Entries
    <3>2. r.ents[j] = t.ents[j] \/ r.ents[j] = [t.ents[j] EXCEPT !.stat = "DELETED"]
      BY <2>1, <3>1
    <3>3. r.ents[j].voff = t.ents[j].voff /\ r.ents[j].val = t.ents[j].val
      BY <3>1, <3>2 DEF KVEntry
    <3>4. ValEnd(r.ents[j]) = ValEnd(t.ents[j])
      BY <3>3 DEF ValEnd
    <3> QED BY <2>1, <3>1, <3>4 DEF BelowCursor
  <2> QED BY <2>2 DEF BelowCursor, r
<1> QED BY <1>1, <1>2

LEMMA AppendBelow ==
  ASSUME NEW cap \in Nat, NEW t \in TableOf(cap), Filled(t), BelowCursor(t), t.cnt < cap,
         NEW k \in Keys, NEW v \in Vals
  PROVE  BelowCursor(AppendEntry(t, k, v))
<1>1. CASE ~PairFits(t.mem, k, v)
  BY <1>1, FailedAppend
<1>2. CASE PairFits(t.mem, k, v)
  <2> DEFINE r == AppendEntry(t, k, v)
             e == EntryFor(t, k, v)
             end == PairEnd(t.mem, k, v)
  <2>1. t.mem \in Arena /\ t.cnt \in 0..cap-1 /\ t.ents \in [0..cap-1 -> KVEntry]
    BY DEF TableOf
  <2>2. end \in Nat /\ t.mem.cur <= end /\ t.mem.cur \in Nat
    <3>1. /\ end \in Nat /\ KeyAt(t.mem) \in Nat /\ ValAt(t.mem, k) \in Nat /\ KLen[k] \in Nat
          /\ t.mem.cur <= KeyAt(t.mem) /\ KeyAt(t.mem) + KLen[k] + 1 <= ValAt(t.mem, k)
          /\ ValAt(t.mem, k) < end
      BY <2>1, PairPlaces
    <3>2. t.mem.cur \in Nat
      BY <2>1 DEF Arena
    <3> HIDE DEF end
    <3> QED BY <3>1, <3>2
  <2>3. /\ r.cnt = t.cnt + 1 /\ r.ents = [t.ents EXCEPT ![t.cnt] = e] /\ r.mem.cur = end
        /\ ValEnd(e) = end
    <3>1. /\ AllocVal(t.mem, k, v).off = ValAt(t.mem, k)
          /\ AllocVal(t.mem, k, v).mem = [cur |-> end, size |-> t.mem.size]
      BY <1>2, <2>1, PairFitsIff
    <3>2. ValEnd(e) = end
      BY <3>1 DEF EntryFor, ValEnd, PairEnd
    <3> QED BY <1>2, <3>1, <3>2, AppendFields
  <2> HIDE DEF r, e, end
  <2>4. ASSUME NEW j \in Entries(r)
        PROVE  ValEnd(r.ents[j]) <= r.mem.cur
    <3>1. CASE j = t.cnt
      BY <3>1, <2>1, <2>2, <2>3
    <3>2. CASE j # t.cnt
      <4>1. j \in Entries(t) /\ r.ents[j] = t.ents[j]
        BY <3>2, <2>1, <2>3 DEF Entries
      <4>2. ValEnd(t.ents[j]) <= t.mem.cur /\ ValEnd(t.ents[j]) \in Nat
        BY <4>1, FilledKeys DEF BelowCursor
      <4> QED BY <4>1, <4>2, <2>2, <2>3
    <3> QED BY <3>1, <3>2
  <2> QED BY <2>4 DEF BelowCursor, r
<1> QED BY <1>1, <1>2

-----------------------------------------------------------------------------
(***************************************************************************)
(* Both facts about one table.                                             *)
(***************************************************************************)
GoodLayout(t) == Layout(t) /\ BelowCursor(t)

LEMMA NullLayout == GoodLayout(NULL)
BY NewLayout, NewBelow DEF GoodLayout, NULL

LEMMA CreateLayout ==
  ASSUME NEW cap, NEW size \in Nat, NEW t \in CreateResults(cap, size)
  PROVE  /\ GoodLayout(t)
         /\ ValidTable(t) => t.mem = [cur |-> 0, size |-> size]
<1>1. CASE t = NULL
  BY <1>1, NullLayout DEF ValidTable, NULL, NewTable
<1>2. CASE t = NewTable(cap, size)
  BY <1>2, NewLayout, NewBelow DEF GoodLayout, NewTable, ArenaInit
<1> QED BY <1>1, <1>2 DEF CreateResults

LEMMA InsertIntoLayout ==
  ASSUME NEW t, GoodType(t), GoodLayout(t), t.cnt < t.cap, NEW k \in Keys, NEW v \in Vals,
         InsertInto(t, k, v)
  PROVE  GoodLayout(tbl')
<1> DEFINE t1 == RemoveKey(t, k)
           t2 == AppendEntry(t1, k, v)
<1>1. t \in TableOf(t.cap) /\ t.cap \in Nat
  BY GoodTypeFields DEF GoodType
<1>2. t1 \in TableOf(t.cap) /\ Filled(t1) /\ t1.cnt < t.cap /\ GoodLayout(t1)
  BY <1>1, RemoveType, RemoveLayout, RemoveBelow DEF GoodType, GoodLayout
<1>3. GoodLayout(t2)
  BY <1>1, <1>2, AppendLayout, AppendBelow DEF GoodLayout
<1>4. tbl' = t2 \/ tbl' = NULL
  BY DEF InsertInto, Aborts
<1> QED BY <1>3, <1>4, NullLayout

LEMMA LayoutAtReturn ==
  ASSUME GoodLayout(tbl'), new' = NULL, phase' # "copy"
  PROVE  LayoutInv'
BY NullLayout DEF LayoutInv, GoodLayout, CopyFits, Layout, BelowCursor, Entries

LEMMA LayoutInvInit == Init => LayoutInv
BY NullLayout DEF Init, LayoutInv, GoodLayout, CopyFits

(***************************************************************************)
(* The next entry of a copy always fits, and ends below the one after it.  *)
(***************************************************************************)
LEMMA CopiedEntryFits ==
  ASSUME NEW t, GoodType(t), GoodLayout(t), NEW m \in Arena, NEW j \in Entries(t),
         m.cur <= t.ents[j].koff, t.mem.size <= m.size
  PROVE  /\ PairEnd(m, t.ents[j].key, t.ents[j].val) <= NextAt(t, j + 1)
         /\ PairFits(m, t.ents[j].key, t.ents[j].val)
<1> DEFINE e == t.ents[j]
<1>1. t \in TableOf(t.cap) /\ t.cap \in Nat /\ Filled(t)
  BY GoodTypeFields DEF GoodType
<1>2. /\ e.key \in Keys /\ e.val \in Vals /\ e.koff \in Nat /\ e.voff \in Nat
      /\ KeyEnd(e) \in Nat /\ ValEnd(e) \in Nat
  BY <1>1, FilledKeys
<1>3. /\ e.koff % 4 = 0 /\ e.voff % 4 = 0 /\ KeyEnd(e) <= e.voff
  BY DEF GoodLayout, Layout, KVTBL_MEM_ALIGN
<1>4. /\ ValEnd(e) <= NextAt(t, j + 1) /\ ValEnd(e) <= t.mem.size /\ NextAt(t, j + 1) \in Nat
  BY <1>1, EntryInside DEF GoodLayout
<1>5. /\ KeyAt(m) \in Nat /\ ValAt(m, e.key) \in Nat /\ PairEnd(m, e.key, e.val) \in Nat
      /\ KLen[e.key] \in Nat /\ VLen[e.val] \in Nat
  BY <1>2, PairPlaces
<1>6. m.cur \in Nat /\ m.size \in Nat /\ t.mem.size \in Nat
  BY <1>1 DEF Arena, TableOf
<1> HIDE DEF e
<1>7. KeyAt(m) <= e.koff
  BY <1>2, <1>3, <1>6, AlignBelow DEF KeyAt, e
<1>8. ValAt(m, e.key) <= e.voff
  <2>1. KeyAt(m) + KLen[e.key] + 1 \in Nat /\ KeyAt(m) + KLen[e.key] + 1 <= e.voff
    BY <1>2, <1>3, <1>5, <1>7 DEF KeyEnd
  <2> QED BY <2>1, <1>2, <1>3, AlignBelow DEF ValAt
<1>9. PairEnd(m, e.key, e.val) <= ValEnd(e)
  BY <1>2, <1>5, <1>8 DEF PairEnd, ValEnd
<1>10. PairEnd(m, e.key, e.val) <= NextAt(t, j + 1) /\ PairEnd(m, e.key, e.val) <= m.size
  BY <1>2, <1>4, <1>5, <1>6, <1>9
<1> QED BY <1>2, <1>10, PairFitsIff DEF e

(***************************************************************************)
(* A pair that has PairBytes of room behind the cursor fits.               *)
(***************************************************************************)
LEMMA RoomyPairFits ==
  ASSUME NEW m \in Arena, NEW k \in Keys, NEW v \in Vals,
         m.cur + PairBytes(k, v) <= m.size
  PROVE  PairFits(m, k, v)
<1>1. /\ KeyAt(m) \in Nat /\ ValAt(m, k) \in Nat /\ PairEnd(m, k, v) \in Nat
      /\ KLen[k] \in Nat /\ VLen[v] \in Nat
      /\ KeyAt(m) <= m.cur + 3 /\ ValAt(m, k) <= KeyAt(m) + KLen[k] + 4
  BY PairPlaces
<1>2. m.cur \in Nat /\ m.size \in Nat
  BY DEF Arena
<1>3. PairEnd(m, k, v) <= m.cur + PairBytes(k, v)
  BY <1>1, <1>2 DEF PairEnd, PairBytes, KVTBL_MEM_ALIGN
<1>4. PairBytes(k, v) \in Nat
  BY <1>1 DEF PairBytes, KVTBL_MEM_ALIGN
<1>5. PairEnd(m, k, v) <= m.size
  BY <1>1, <1>2, <1>3, <1>4
<1> QED BY <1>5, PairFitsIff

(***************************************************************************)
(* A copy that starts: nothing is in the new table yet, and its arena is   *)
(* the old one's or twice as large.                                        *)
(***************************************************************************)
LEMMA LayoutStartCopy ==
  ASSUME TypeInv, LayoutInv, phase = "ready",
         NEW c \in Call, NEW cap, NEW size \in Nat, StartCopy(c, cap, size),
         tbl.mem.size <= size,
         c.op = "insert" /\ PairBytes(c.key, c.val) <= tbl.mem.size =>
           tbl.mem.cur + PairBytes(c.key, c.val) <= size
  PROVE  LayoutInv'
<1>1. PICK t \in CreateResults(cap, size) :
        IF ValidTable(t)
        THEN phase' = "copy" /\ new' = t /\ call' = c /\ i' = 0 /\ UNCHANGED <<tbl, ret>>
        ELSE Refuses
  BY DEF StartCopy
<1>2. GoodLayout(t) /\ (ValidTable(t) => t.mem = [cur |-> 0, size |-> size])
  BY CreateLayout
<1>3. CASE ~ValidTable(t)
  BY <1>1, <1>3, LayoutAtReturn DEF Refuses, Returns, LayoutInv, GoodLayout
<1>4. CASE ValidTable(t)
  <2>1. NextAt(tbl, 0) \in Nat
    <3>1. tbl \in TableOf(tbl.cap) /\ tbl.cap \in Nat /\ Filled(tbl) /\ tbl.cnt \in Nat
      BY GoodTypeFields DEF TypeInv, TypeOK
    <3>2. CASE 0 < tbl.cnt
      <4>1. 0 \in Entries(tbl)
        BY <3>1, <3>2 DEF Entries
      <4> QED BY <3>1, <3>2, <4>1, FilledKeys DEF NextAt
    <3>3. CASE ~(0 < tbl.cnt)
      BY <3>1, <3>3 DEF NextAt, TableOf, Arena
    <3> QED BY <3>2, <3>3
  <2>2. /\ phase' = "copy" /\ new' = t /\ call' = c /\ i' = 0 /\ tbl' = tbl
        /\ t.mem.cur = 0 /\ t.mem.size = size
    BY <1>1, <1>2, <1>4
  <2>3. 0 <= NextAt(tbl, 0)
    BY <2>1
  <2>4. CopyFits'
    BY <2>2, <2>3 DEF CopyFits
  <2> QED BY <1>2, <2>2, <2>4 DEF LayoutInv, GoodLayout
<1> QED BY <1>3, <1>4

LEMMA LayoutInvStep == TypeInv /\ LayoutInv /\ [Next]_vars => LayoutInv'
<1> SUFFICES ASSUME TypeInv, LayoutInv, [Next]_vars PROVE LayoutInv'
  OBVIOUS
<1>1. /\ GoodType(tbl) /\ GoodType(new) /\ GoodLayout(tbl) /\ GoodLayout(new)
      /\ tbl.cap \in Nat /\ tbl.cnt \in 0..tbl.cap /\ tbl.mem \in Arena
      /\ tbl \in TableOf(tbl.cap) /\ new \in TableOf(new.cap) /\ new.cap \in Nat
      /\ new.cnt \in 0..new.cap /\ new.mem \in Arena
      /\ tbl.mem.cur \in Nat /\ tbl.mem.size \in Nat /\ tbl.mem.cur <= tbl.mem.size
  BY GoodTypeFields DEF TypeInv, TypeOK, GoodType, LayoutInv, GoodLayout, Layout, Arena
<1>2. ASSUME NEW cap \in CreateCaps, NEW size \in CreateSizes, Create(cap, size)
      PROVE  LayoutInv'
  <2>1. size \in Nat
    BY BoundAssumption
  <2>2. PICK t \in CreateResults(cap, size) :
          IF ValidTable(t) THEN phase' = "ready" /\ tbl' = t /\ Returns("ok")
                           ELSE Refuses
    BY <1>2 DEF Create
  <2>3. GoodLayout(t)
    BY <2>1, CreateLayout
  <2> QED BY <1>1, <1>2, <2>2, <2>3, LayoutAtReturn DEF Create, Refuses, Returns
<1>3. CASE Destroy
  BY <1>3, NullLayout, LayoutAtReturn DEF Destroy, Returns
<1>4. ASSUME NEW k \in Keys, LookupKey(k) PROVE LayoutInv'
  BY <1>1, <1>4, LayoutAtReturn DEF LookupKey, Returns
<1>5. ASSUME NEW k \in Keys, Remove(k) PROVE LayoutInv'
  <2>1. GoodLayout(RemoveKey(tbl, k))
    BY <1>1, RemoveLayout, RemoveBelow DEF GoodType, GoodLayout
  <2> QED BY <1>5, <2>1, LayoutAtReturn DEF Remove, Returns
<1>6. ASSUME NEW k \in Keys, NEW v \in Vals, InsertRefused(k, v) PROVE LayoutInv'
  BY <1>1, <1>6, LayoutAtReturn DEF InsertRefused, Refuses, Returns
<1>7. ASSUME NEW k \in Keys, NEW v \in Vals, InsertInPlace(k, v) PROVE LayoutInv'
  <2>1. tbl.cnt < tbl.cap
    BY <1>1, <1>7 DEF InsertInPlace, ShouldResize, CapShouldResize
  <2>2. InsertInto(tbl, k, v) /\ GoodLayout(tbl')
    BY <1>1, <1>7, <2>1, InsertIntoLayout DEF InsertInPlace
  <2>3. new' = NULL /\ phase' # "copy"
    BY <1>1, <2>1, <2>2, InsertIntoGood
  <2> QED BY <2>2, <2>3, LayoutAtReturn
<1>8. ASSUME NEW k \in Keys, NEW v \in Vals, InsertResize(k, v) PROVE LayoutInv'
  <2> DEFINE c == InsertCall(k, v)
             size == ResizeMem(tbl, k, v)
  <2>1. c \in Call /\ c.op = "insert" /\ c.key = k /\ c.val = v
    BY DEF InsertCall, Call
  <2>2. KLen[k] \in Nat /\ VLen[v] \in Nat
    BY DataAssumption
  <2>3. /\ size \in Nat /\ tbl.mem.size <= size
        /\ PairBytes(k, v) <= tbl.mem.size => tbl.mem.cur + PairBytes(k, v) <= size
    <3>1. CASE MemShouldResize(tbl, k, v)
      BY <1>1, <2>2, <3>1 DEF ResizeMem, PairBytes, KVTBL_MEM_ALIGN
    <3>2. CASE ~MemShouldResize(tbl, k, v)
      BY <1>1, <2>2, <3>2 DEF ResizeMem, MemShouldResize, PairBytes, KVTBL_MEM_ALIGN
    <3> QED BY <3>1, <3>2
  <2>4. StartCopy(c, ResizeCap(tbl), size) /\ phase = "ready"
    BY <1>8 DEF InsertResize
  <2> HIDE DEF c, size
  <2> QED BY <2>1, <2>3, <2>4, LayoutStartCopy
<1>9. CASE Compact
  <2>1. CompactCall \in Call /\ CompactCall.op = "compact"
    BY DEF CompactCall, Call
  <2> QED BY <1>1, <1>9, <2>1, LayoutStartCopy DEF Compact
<1>10. ASSUME Copying
       PROVE  /\ i \in Entries(tbl) /\ new.mem.cur <= tbl.ents[i].koff
              /\ tbl.mem.size <= new.mem.size
  BY <1>1, <1>10 DEF Copying, LayoutInv, CopyFits, NextAt, Entries, TypeInv, TypeOK
<1>11. CASE SkipDeleted
  <2>1. /\ i' = i + 1 /\ UNCHANGED <<phase, tbl, new, call, ret>> /\ Copying
    BY <1>11 DEF SkipDeleted
  <2>2. new.mem.cur <= NextAt(tbl, i + 1)
    <3>1. /\ tbl.ents[i].koff \in Nat /\ ValEnd(tbl.ents[i]) \in Nat
          /\ tbl.ents[i].koff <= ValEnd(tbl.ents[i])
          /\ ValEnd(tbl.ents[i]) <= NextAt(tbl, i + 1) /\ NextAt(tbl, i + 1) \in Nat
      BY <1>1, <1>10, <2>1, FilledKeys, EntryInside DEF GoodType, GoodLayout
    <3>2. new.mem.cur \in Nat /\ new.mem.cur <= tbl.ents[i].koff
      BY <1>1, <1>10, <2>1 DEF Arena
    <3> QED BY <3>1, <3>2
  <2>3. CopyFits'
    BY <2>1, <2>2 DEF LayoutInv, CopyFits, Copying
  <2> QED BY <2>1, <2>3 DEF LayoutInv
<1>12. CASE CopyEntry
  <2> DEFINE e == tbl.ents[i]
  <2>1. Copying /\ i \in Entries(tbl) /\ e.key \in Keys /\ e.val \in Vals
    BY <1>1, <1>10, <1>12, FilledKeys DEF CopyEntry, GoodType
  <2>2. PairEnd(new.mem, e.key, e.val) <= NextAt(tbl, i + 1) /\ PairFits(new.mem, e.key, e.val)
    BY <1>1, <1>10, <2>1, CopiedEntryFits
  <2>3. /\ new' = AppendEntry(new, e.key, e.val) /\ i' = i + 1
        /\ UNCHANGED <<phase, tbl, call, ret>>
    BY <1>12, <2>2 DEF CopyEntry
  <2>4. new.cnt < new.cap
    BY <1>1, <2>1 DEF Copying, TypeInv, CopyRoom, Entries
  <2> HIDE DEF e
  <2>5. GoodLayout(new')
    BY <1>1, <2>1, <2>3, <2>4, AppendLayout, AppendBelow DEF GoodType, GoodLayout
  <2>6. new'.mem = [cur |-> PairEnd(new.mem, e.key, e.val), size |-> new.mem.size]
    <3>1. AllocVal(new.mem, e.key, e.val).mem =
            [cur |-> PairEnd(new.mem, e.key, e.val), size |-> new.mem.size]
      BY <1>1, <2>1, <2>2, PairFitsIff
    <3> QED BY <1>1, <2>2, <2>3, <3>1, AppendFields
  <2>7. CopyFits'
    BY <2>1, <2>2, <2>3, <2>6 DEF LayoutInv, CopyFits, Copying
  <2> QED BY <1>1, <2>3, <2>5, <2>7 DEF LayoutInv, GoodLayout
<1>13. CASE CompactDone
  BY <1>1, <1>13, LayoutAtReturn DEF CompactDone, Returns
<1>14. CASE InsertResized
  <2>1. call.key \in Keys /\ call.val \in Vals /\ new.cnt < new.cap
    BY <1>1, <1>14 DEF InsertResized, CopyDone, TypeInv, CopyRoom, TypeOK
  <2>2. InsertInto(new, call.key, call.val) /\ GoodLayout(tbl')
    BY <1>1, <1>14, <2>1, InsertIntoLayout DEF InsertResized
  <2>3. new' = NULL /\ phase' # "copy"
    BY <1>1, <2>1, <2>2, InsertIntoGood
  <2> QED BY <2>2, <2>3, LayoutAtReturn
<1>15. CASE Restart
  BY <1>1, <1>15, LayoutAtReturn DEF Restart, Returns
<1>16. CASE UNCHANGED vars
  BY <1>16 DEF vars, LayoutInv, Layout, BelowCursor, CopyFits
<1> QED
  BY <1>2, <1>3, <1>4, <1>5, <1>6, <1>7, <1>8, <1>9, <1>11, <1>12, <1>13, <1>14,
     <1>15, <1>16 DEF Next, Calls, CopyStep

-----------------------------------------------------------------------------
(***************************************************************************)
(* LayoutOK holds in every reachable state: no two blocks of an arena      *)
(* overlap, so an entry's bytes stay what they were written as.            *)
(***************************************************************************)
THEOREM BlocksApart == Spec => []LayoutOK
<1>1. LayoutInv => LayoutOK
  BY DEF LayoutInv, LayoutOK
<1> QED BY TypeInvInit, TypeInvStep, LayoutInvInit, LayoutInvStep, <1>1, PTL DEF Spec

(***************************************************************************)
(* A step that ends the process or loses the table.                        *)
(***************************************************************************)
KillsRightly ==
  phase' \in {"aborted", "dangling"} /\ phase' # phase =>
    call.op = "insert" /\ PairBytes(call.key, call.val) > tbl.mem.size

\* An insertion into t that finds room for its pair returns.
LEMMA RoomyInsertReturns ==
  ASSUME NEW t, GoodType(t), NEW k \in Keys, NEW v \in Vals, InsertInto(t, k, v),
         t.mem.cur + PairBytes(k, v) <= t.mem.size
  PROVE  phase' = "ready"
<1>1. t \in TableOf(t.cap) /\ t.cap \in Nat /\ t.mem \in Arena
  BY GoodTypeFields DEF GoodType
<1>2. RemoveKey(t, k).mem = t.mem
  BY <1>1, RemoveType DEF GoodType
<1>3. PairFits(RemoveKey(t, k).mem, k, v)
  BY <1>1, <1>2, RoomyPairFits
<1> QED BY <1>3 DEF InsertInto

LEMMA KillStep == TypeInv /\ LayoutInv /\ [Next]_vars => KillsRightly
<1> SUFFICES ASSUME TypeInv, LayoutInv, [Next]_vars,
                    phase' \in {"aborted", "dangling"}, phase' # phase
             PROVE  call.op = "insert" /\ PairBytes(call.key, call.val) > tbl.mem.size
  BY DEF KillsRightly
<1>1. /\ GoodType(tbl) /\ GoodType(new) /\ GoodLayout(tbl)
      /\ tbl.mem \in Arena /\ tbl.mem.cur \in Nat /\ tbl.mem.size \in Nat
      /\ new.mem \in Arena /\ new.mem.cur \in Nat /\ new.mem.size \in Nat
      /\ tbl \in TableOf(tbl.cap) /\ tbl.cap \in Nat /\ tbl.cnt \in 0..tbl.cap
  BY GoodTypeFields DEF TypeInv, TypeOK, GoodType, LayoutInv, GoodLayout, Arena
<1>2. ASSUME NEW k \in Keys, NEW v \in Vals, InsertInPlace(k, v) PROVE FALSE
  <2>1. KLen[k] \in Nat /\ VLen[v] \in Nat
    BY DataAssumption
  <2>2. tbl.mem.cur + PairBytes(k, v) <= tbl.mem.size
    BY <1>1, <1>2, <2>1
       DEF InsertInPlace, ShouldResize, MemShouldResize, PairBytes, KVTBL_MEM_ALIGN
  <2> QED BY <1>1, <1>2, <2>2, RoomyInsertReturns DEF InsertInPlace
<1>3. ~CopyEntry
  <2> SUFFICES ASSUME CopyEntry PROVE FALSE
    OBVIOUS
  <2>1. i \in Entries(tbl) /\ new.mem.cur <= tbl.ents[i].koff /\ tbl.mem.size <= new.mem.size
    BY <1>1 DEF CopyEntry, Copying, LayoutInv, CopyFits, NextAt, Entries, TypeInv, TypeOK
  <2>2. PairFits(new.mem, tbl.ents[i].key, tbl.ents[i].val)
    BY <1>1, <2>1, CopiedEntryFits
  <2> QED BY <2>2 DEF CopyEntry
<1>4. CASE InsertResized
  <2>1. /\ call.key \in Keys /\ call.val \in Vals /\ call.op = "insert" /\ phase = "copy"
        /\ InsertInto(new, call.key, call.val) /\ NextAt(tbl, i) = tbl.mem.cur
    BY <1>1, <1>4 DEF InsertResized, CopyDone, TypeInv, CopyRoom, NextAt, TypeOK
  <2>2. SUFFICES ASSUME ~(PairBytes(call.key, call.val) > tbl.mem.size) PROVE FALSE
    BY <2>1
  <2>3. PairBytes(call.key, call.val) \in Nat
    <3>1. KLen[call.key] \in Nat /\ VLen[call.val] \in Nat
      BY <2>1, DataAssumption
    <3> QED BY <3>1 DEF PairBytes, KVTBL_MEM_ALIGN
  <2>4. /\ new.mem.cur <= tbl.mem.cur
        /\ tbl.mem.cur + PairBytes(call.key, call.val) <= new.mem.size
    BY <1>1, <2>1, <2>2, <2>3 DEF LayoutInv, CopyFits
  <2>5. new.mem.cur + PairBytes(call.key, call.val) <= new.mem.size
    BY <1>1, <2>3, <2>4
  <2> QED BY <1>1, <2>1, <2>5, RoomyInsertReturns
<1>5. ASSUME NEW k \in Keys, NEW v \in Vals
      PROVE  ~InsertRefused(k, v) /\ ~InsertResize(k, v)
  BY DEF InsertRefused, InsertResize, StartCopy, Refuses
<1>6. \A cap, size : ~Create(cap, size)
  BY DEF Create, Refuses
<1>7. ~Destroy /\ ~Compact /\ ~SkipDeleted /\ ~CompactDone /\ ~Restart /\ ~UNCHANGED vars
  BY DEF Destroy, Compact, StartCopy, Refuses, SkipDeleted, CompactDone, Restart, vars
<1>8. \A k \in Keys : ~LookupKey(k) /\ ~Remove(k)
  BY DEF LookupKey, Remove
<1> QED
  BY <1>2, <1>3, <1>4, <1>5, <1>6, <1>7, <1>8 DEF Next, Calls, CopyStep

(***************************************************************************)
(* Only the insertion of a pair larger than the present arena ends the     *)
(* process or loses the table: no compaction does, no copying, and no pair *)
(* of ordinary size, whatever the lengths and capacities (kv.c 68-97).     *)
(***************************************************************************)
THEOREM OversizedPairKills == Spec => OnlyOversizedPairKills
<1>1. KillsRightly <=>
        (phase' \in {"aborted", "dangling"} /\ phase' # phase =>
           call.op = "insert" /\ PairBytes(call.key, call.val) > tbl.mem.size)
  BY DEF KillsRightly
<1>2. TypeInv /\ LayoutInv /\ [Next]_vars => [KillsRightly]_vars
  BY KillStep
<1> QED
  BY TypeInvInit, TypeInvStep, LayoutInvInit, LayoutInvStep, <1>1, <1>2, PTL
     DEF Spec, OnlyOversizedPairKills

-----------------------------------------------------------------------------
(***************************************************************************)
(* An index in which no two slots name the same entry has a free slot as   *)
(* long as the table has a free entry.                                     *)
(***************************************************************************)
LEMMA FreeSlotExists ==
  ASSUME NEW cap \in Nat, NEW t \in TableOf(cap), IndexAgrees(t), t.cnt < cap
  PROVE  \E s \in 0..cap-1 : t.idx[s] = HT_KIDX_SLOT_EMPTY
<1>1. t.cnt \in 0..cap-1 /\ DOMAIN t.idx = 0..cap-1
  BY DEF TableOf
<1>2. \A s \in 0..cap-1 : t.idx[s] # HT_KIDX_SLOT_EMPTY => t.idx[s] \in 0..t.cnt-1
  BY <1>1 DEF IndexAgrees, Used, Entries
<1>3. \A s, u \in 0..cap-1 : t.idx[s] # HT_KIDX_SLOT_EMPTY /\ t.idx[s] = t.idx[u] => s = u
  BY <1>1 DEF IndexAgrees, Used
<1> QED BY <1>1, <1>2, <1>3, SlotLeftFree

-----------------------------------------------------------------------------
(***************************************************************************)
(* The index survives every operation on one table.                        *)
(***************************************************************************)
LEMMA NewIndexAgrees == ASSUME NEW cap \in Nat, NEW size PROVE IndexAgrees(NewTable(cap, size))
BY DEF IndexAgrees, NewTable, Used, Entries, HashIndexInit

LEMMA RemoveIndexAgrees ==
  ASSUME NEW cap \in Nat, NEW t \in TableOf(cap), IndexAgrees(t), NEW k
  PROVE  IndexAgrees(RemoveKey(t, k))
<1>1. CASE Lookup(t, k) < 0
  BY <1>1 DEF RemoveKey
<1>2. CASE ~(Lookup(t, k) < 0)
  <2> DEFINE r == RemoveKey(t, k)
             n == Lookup(t, k)
  <2>1. /\ r.cnt = t.cnt /\ r.idx = t.idx /\ r.cap = t.cap
        /\ r.ents = [t.ents EXCEPT ![n] = [t.ents[n] EXCEPT !.stat = "DELETED"]]
    BY <1>2, RemoveFields
  <2> HIDE DEF r, n
  <2>2. Entries(r) = Entries(t) /\ Used(r) = Used(t)
    BY <2>1 DEF Entries, Used
  <2>3. ASSUME NEW j \in Entries(t) PROVE r.ents[j].key = t.ents[j].key
    <3>1. t.ents[j] \in KVEntry /\ j \in DOMAIN t.ents
      BY DEF TableOf, Entries
    <3>2. r.ents[j] = t.ents[j] \/ r.ents[j] = [t.ents[j] EXCEPT !.stat = "DELETED"]
      BY <2>1, <3>1
    <3> QED BY <3>1, <3>2 DEF KVEntry
  <2>4. \A j \in Entries(t) : Reachable(r, j) <=> Reachable(t, j)
    BY <2>1, <2>3 DEF Reachable
  <2>5. IndexAgrees(r)
    BY <2>1, <2>2, <2>4 DEF IndexAgrees
  <2> QED BY <2>5 DEF r
<1> QED BY <1>1, <1>2

\* An entry of key k is put behind the others and indexed.
LEMMA ExtendedIndexAgrees ==
  ASSUME NEW cap \in Nat, NEW t \in TableOf(cap), IndexAgrees(t), t.cnt < cap,
         NEW k \in Keys, NEW e, e.key = k, NEW r,
         r.cap = cap, r.cnt = t.cnt + 1, r.ents = [t.ents EXCEPT ![t.cnt] = e],
         r.idx = HashIndexInsert(t.idx, cap, Hash[k], t.cnt)
  PROVE  IndexAgrees(r)
<1>1. /\ t.cap = cap /\ t.cnt \in 0..cap-1 /\ t.ents \in [0..cap-1 -> KVEntry]
      /\ t.idx \in [0..cap-1 -> {HT_KIDX_SLOT_EMPTY} \cup 0..cap-1]
  BY DEF TableOf
<1>2. /\ r.cap = cap /\ r.cnt = t.cnt + 1
      /\ r.ents = [t.ents EXCEPT ![t.cnt] = e]
      /\ r.idx = HashIndexInsert(t.idx, cap, Hash[k], t.cnt)
  OBVIOUS
<1>3. e.key = k
  OBVIOUS
<1>4. PICK n0 \in 0..cap-1 :
        /\ Slot(Hash[k], n0, cap) \in 0..cap-1
        /\ t.idx[Slot(Hash[k], n0, cap)] = HT_KIDX_SLOT_EMPTY
        /\ \A m \in 0..n0 : m # n0 => t.idx[Slot(Hash[k], m, cap)] # HT_KIDX_SLOT_EMPTY
        /\ r.idx = [t.idx EXCEPT ![Slot(Hash[k], n0, cap)] = t.cnt]
  <2>1. Hash[k] \in Nat
    BY DataAssumption
  <2>2. \E s \in 0..cap-1 : t.idx[s] = HT_KIDX_SLOT_EMPTY
    BY FreeSlotExists
  <2>3. \E n \in 0..cap-1 : Lands(t.idx, r.idx, cap, Hash[k], t.cnt, n)
    BY <1>2, <2>1, <2>2, IndexInsertPlaces
  <2> QED BY <2>3 DEF Lands
<1> DEFINE s0 == Slot(Hash[k], n0, cap)
<1>5. /\ s0 \in 0..cap-1 /\ t.idx[s0] = HT_KIDX_SLOT_EMPTY /\ r.idx[s0] = t.cnt
      /\ \A s \in 0..cap-1 : s # s0 => r.idx[s] = t.idx[s]
      /\ DOMAIN r.idx = 0..cap-1 /\ DOMAIN t.idx = 0..cap-1
      /\ t.cnt # HT_KIDX_SLOT_EMPTY
  BY <1>1, <1>4 DEF HT_KIDX_SLOT_EMPTY
<1>6. Entries(r) = 0..t.cnt /\ Entries(t) = 0..t.cnt-1 /\ t.cnt \notin Entries(t)
  <2> DEFINE c == t.cnt
  <2>1. c \in Nat /\ r.cnt - 1 = c
    BY <1>1, <1>2
  <2>2. Entries(r) = 0..c
    BY <2>1 DEF Entries
  <2>3. c \notin 0..c-1
    BY <2>1
  <2> QED BY <2>2, <2>3 DEF Entries
<1>7. Used(r) = Used(t) \cup {s0} /\ s0 \notin Used(t)
  <2> HIDE DEF s0
  <2> QED BY <1>5 DEF Used
<1>8. \A s \in Used(r) : r.idx[s] \in Entries(r)
  <2> SUFFICES ASSUME NEW s \in Used(r) PROVE r.idx[s] \in Entries(r)
    OBVIOUS
  <2>1. CASE s = s0
    BY <2>1, <1>1, <1>5, <1>6
  <2>2. CASE s # s0
    <3>1. s \in Used(t) /\ s \in 0..cap-1
      BY <2>2, <1>5, <1>7 DEF Used
    <3>2. r.idx[s] = t.idx[s] /\ t.idx[s] \in Entries(t)
      BY <2>2, <3>1, <1>5 DEF IndexAgrees
    <3> QED BY <3>2, <1>1, <1>6
  <2> QED BY <2>1, <2>2
<1>9. \A s, u \in Used(r) : r.idx[s] = r.idx[u] => s = u
  <2>1. ASSUME NEW s \in Used(t) PROVE r.idx[s] = t.idx[s] /\ t.idx[s] \in Entries(t)
    BY <1>5, <1>7 DEF IndexAgrees, Used
  <2> HIDE DEF s0
  <2> QED BY <2>1, <1>5, <1>6, <1>7 DEF IndexAgrees
<1>10. ASSUME NEW j \in Entries(r) PROVE Reachable(r, j)
  <2>1. CASE j = t.cnt
    <3>1. r.ents[j].key = k
      BY <2>1, <1>1, <1>2, <1>3
    <3>2. r.idx[Slot(Hash[k], n0, cap)] = j
      BY <2>1, <1>5
    <3>3. ASSUME NEW m \in 0..n0 PROVE r.idx[Slot(Hash[k], m, cap)] # HT_KIDX_SLOT_EMPTY
      <4>1. CASE m = n0
        BY <4>1, <1>5
      <4>2. CASE m # n0
        <5>1. Slot(Hash[k], m, cap) \in 0..cap-1
          <6>1. m \in Nat /\ Hash[k] \in Nat /\ cap \in Nat \ {0}
            BY DataAssumption
          <6> QED BY <6>1 DEF Slot
        <5>2. t.idx[Slot(Hash[k], m, cap)] # HT_KIDX_SLOT_EMPTY
          BY <4>2, <1>4
        <5> QED BY <5>1, <5>2, <1>5
      <4> QED BY <4>1, <4>2
    <3> QED BY <3>1, <3>2, <3>3, <1>2 DEF Reachable, ProbeReaches
  <2>2. CASE j # t.cnt
    <3>1. j \in Entries(t) /\ r.ents[j] = t.ents[j]
      BY <2>2, <1>1, <1>2, <1>6
    <3> DEFINE h == Hash[t.ents[j].key]
    <3>2. PICK n \in 0..cap-1 : t.idx[Slot(h, n, cap)] = j /\ ProbeReaches(t.idx, cap, h, n)
      BY <3>1, <1>1 DEF IndexAgrees, Reachable
    <3> HIDE DEF h
    <3>3. ASSUME NEW m \in 0..n
          PROVE  r.idx[Slot(h, m, cap)] = t.idx[Slot(h, m, cap)]
      <4>1. t.idx[Slot(h, m, cap)] # HT_KIDX_SLOT_EMPTY
        BY <3>2 DEF ProbeReaches
      <4> QED BY <4>1, <1>1, <1>4, <1>5
    <3>4. n \in 0..n
      BY <3>2
    <3>5. r.idx[Slot(h, n, cap)] = j /\ ProbeReaches(r.idx, cap, h, n)
      BY <3>2, <3>3, <3>4 DEF ProbeReaches
    <3> QED BY <3>1, <3>5, <1>2 DEF Reachable, h
  <2> QED BY <2>1, <2>2
<1> QED BY <1>8, <1>9, <1>10 DEF IndexAgrees

LEMMA AppendIndexAgrees ==
  ASSUME NEW cap \in Nat, NEW t \in TableOf(cap), IndexAgrees(t), t.cnt < cap,
         NEW k \in Keys, NEW v \in Vals, PairFits(t.mem, k, v)
  PROVE  IndexAgrees(AppendEntry(t, k, v))
<1> DEFINE r == AppendEntry(t, k, v)
           e == EntryFor(t, k, v)
<1>1. /\ r.cap = cap /\ r.cnt = t.cnt + 1 /\ r.ents = [t.ents EXCEPT ![t.cnt] = e]
      /\ r.idx = HashIndexInsert(t.idx, cap, Hash[k], t.cnt)
  <2>1. t.cap = cap
    BY DEF TableOf
  <2> QED BY <2>1, AppendFields
<1>2. e.key = k
  BY DEF EntryFor
<1> HIDE DEF r, e
<1>3. IndexAgrees(r)
  BY <1>1, <1>2, ExtendedIndexAgrees
<1> QED BY <1>3 DEF r

-----------------------------------------------------------------------------
(***************************************************************************)
(* Lookup finds a live entry of the key exactly if there is one.           *)
(***************************************************************************)
LEMMA LookupSound ==
  ASSUME NEW cap \in Nat, NEW t \in TableOf(cap), IndexAgrees(t), NEW k \in Keys,
         ~(Lookup(t, k) < 0)
  PROVE  Lookup(t, k) \in Live(t) /\ t.ents[Lookup(t, k)].key = k
<1> DEFINE S == MatchSteps(t, k)
           n == Min(S)
           s == Slot(Hash[k], n, cap)
<1>1. t.cap = cap /\ DOMAIN t.idx = 0..cap-1
  BY DEF TableOf
<1>2. S # {} /\ S \subseteq 0..cap-1 /\ Lookup(t, k) = t.idx[s]
  BY <1>1 DEF Lookup, MatchSteps, KVSTAT_KEY_NOT_FOUND
<1>3. n \in S
  <2> HIDE DEF S
  <2> QED BY <1>2, MinOfSteps
<1> HIDE DEF n
<1>4. /\ n \in 0..cap-1 /\ ProbeReaches(t.idx, cap, Hash[k], n)
      /\ LiveMatch(t, t.idx[s], k)
  BY <1>1, <1>3 DEF MatchSteps
<1>5. s \in 0..cap-1 /\ n \in 0..n
  BY <1>4, DataAssumption DEF Slot
<1>6. t.idx[s] # HT_KIDX_SLOT_EMPTY
  BY <1>4, <1>5 DEF ProbeReaches
<1>7. t.idx[s] \in Entries(t)
  BY <1>1, <1>5, <1>6 DEF IndexAgrees, Used
<1> QED BY <1>2, <1>4, <1>7 DEF LiveMatch, Live

LEMMA LookupComplete ==
  ASSUME NEW cap \in Nat, NEW t \in TableOf(cap), IndexAgrees(t), NEW k \in Keys,
         NEW j \in Live(t), t.ents[j].key = k
  PROVE  ~(Lookup(t, k) < 0)
<1> DEFINE S == MatchSteps(t, k)
<1>1. t.cap = cap /\ DOMAIN t.idx = 0..cap-1 /\ t.cnt \in 0..cap
  BY DEF TableOf
<1>2. j \in Entries(t) /\ t.ents[j].stat = "INUSE"
  BY DEF Live
<1>3. PICK n \in 0..cap-1 :
        t.idx[Slot(Hash[k], n, cap)] = j /\ ProbeReaches(t.idx, cap, Hash[k], n)
  BY <1>1, <1>2 DEF IndexAgrees, Reachable
<1>4. n \in S
  BY <1>1, <1>2, <1>3 DEF MatchSteps, LiveMatch
<1>5. S # {} /\ S \subseteq 0..cap-1
  BY <1>1, <1>4 DEF MatchSteps
<1>6. Min(S) \in S
  <2> HIDE DEF S
  <2> QED BY <1>5, MinOfSteps
<1> DEFINE m == Min(S)
           s == Slot(Hash[k], m, cap)
<1>7. Lookup(t, k) = t.idx[s]
  BY <1>1, <1>5 DEF Lookup
<1> HIDE DEF m
<1>8. m \in 0..cap-1 /\ ProbeReaches(t.idx, cap, Hash[k], m)
  BY <1>1, <1>6 DEF MatchSteps, m
<1>9. s \in 0..cap-1 /\ m \in 0..m
  BY <1>8, DataAssumption DEF Slot
<1>10. t.idx[s] \in Entries(t)
  BY <1>1, <1>8, <1>9 DEF ProbeReaches, IndexAgrees, Used
<1> QED BY <1>1, <1>7, <1>10 DEF Entries

-----------------------------------------------------------------------------
(***************************************************************************)
(* What the operations on one table do to its live entries.                *)
(***************************************************************************)
GoodMap(t) == IndexAgrees(t) /\ UniqueKeys(t)

NoLive(t, k) == \A j \in Live(t) : t.ents[j].key # k

LEMMA RemoveView ==
  ASSUME NEW cap \in Nat, NEW t \in TableOf(cap), GoodMap(t), NEW k \in Keys
  PROVE  /\ RemoveKey(t, k).cnt = t.cnt
         /\ Live(RemoveKey(t, k)) = {j \in Live(t) : t.ents[j].key # k}
         /\ \A j \in Entries(t) :
              /\ RemoveKey(t, k).ents[j] \in {t.ents[j], [t.ents[j] EXCEPT !.stat = "DELETED"]}
              /\ RemoveKey(t, k).ents[j].key = t.ents[j].key
              /\ RemoveKey(t, k).ents[j].val = t.ents[j].val
<1>1. CASE Lookup(t, k) < 0
  <2>1. \A j \in Live(t) : t.ents[j].key # k
    BY <1>1, LookupComplete DEF GoodMap
  <2> QED BY <1>1, <2>1 DEF RemoveKey
<1>2. CASE ~(Lookup(t, k) < 0)
  <2> DEFINE r == RemoveKey(t, k)
             n == Lookup(t, k)
  <2>1. r.cnt = t.cnt /\ r.ents = [t.ents EXCEPT ![n] = [t.ents[n] EXCEPT !.stat = "DELETED"]]
    BY <1>2, RemoveFields
  <2>2. n \in Live(t) /\ t.ents[n].key = k
    BY <1>2, LookupSound DEF GoodMap
  <2> HIDE DEF r, n
  <2>3. \A j \in Entries(t) : t.ents[j] \in KVEntry /\ j \in DOMAIN t.ents
    BY DEF TableOf, Entries
  <2>4. /\ n \in Entries(t) /\ r.ents[n] = [t.ents[n] EXCEPT !.stat = "DELETED"]
        /\ \A j \in Entries(t) : j # n => r.ents[j] = t.ents[j]
    BY <2>1, <2>2, <2>3 DEF Live
  <2>5. \A j \in Entries(t) :
          /\ r.ents[j].key = t.ents[j].key /\ r.ents[j].val = t.ents[j].val
          /\ r.ents[j].stat = IF j = n THEN "DELETED" ELSE t.ents[j].stat
    BY <2>3, <2>4 DEF KVEntry
  <2>6. Live(r) = {j \in Live(t) : j # n}
    BY <2>1, <2>5 DEF Live, Entries
  <2>7. \A j \in Live(t) : j # n <=> t.ents[j].key # k
    BY <2>2 DEF GoodMap, UniqueKeys
  <2>8. Live(r) = {j \in Live(t) : t.ents[j].key # k}
    BY <2>6, <2>7
  <2> QED BY <2>1, <2>4, <2>5, <2>8 DEF r
<1> QED BY <1>1, <1>2

LEMMA AppendView ==
  ASSUME NEW cap \in Nat, NEW t \in TableOf(cap), t.cnt < cap,
         NEW k \in Keys, NEW v \in Vals, PairFits(t.mem, k, v)
  PROVE  /\ AppendEntry(t, k, v).cnt = t.cnt + 1
         /\ Live(AppendEntry(t, k, v)) = Live(t) \cup {t.cnt}
         /\ \A j \in Entries(t) : AppendEntry(t, k, v).ents[j] = t.ents[j]
         /\ AppendEntry(t, k, v).ents[t.cnt].key = k
         /\ AppendEntry(t, k, v).ents[t.cnt].val = v
         /\ AppendEntry(t, k, v).ents[t.cnt].stat = "INUSE"
<1> DEFINE r == AppendEntry(t, k, v)
           e == EntryFor(t, k, v)
<1>1. t.cnt \in 0..cap-1 /\ t.ents \in [0..cap-1 -> KVEntry]
  BY DEF TableOf
<1>2. r.cnt = t.cnt + 1 /\ r.ents = [t.ents EXCEPT ![t.cnt] = e]
  BY AppendFields
<1>3. e.key = k /\ e.val = v /\ e.stat = "INUSE"
  BY DEF EntryFor
<1> HIDE DEF r, e
<1>4. r.ents[t.cnt] = e /\ \A j \in Entries(t) : r.ents[j] = t.ents[j]
  BY <1>1, <1>2 DEF Entries
<1>5. Entries(r) = Entries(t) \cup {t.cnt}
  BY <1>1, <1>2 DEF Entries
<1>6. Live(r) = Live(t) \cup {t.cnt}
  BY <1>3, <1>4, <1>5 DEF Live
<1> QED BY <1>2, <1>3, <1>4, <1>6 DEF r

LEMMA RemoveGoodMap ==
  ASSUME NEW cap \in Nat, NEW t \in TableOf(cap), GoodMap(t), NEW k \in Keys
  PROVE  GoodMap(RemoveKey(t, k)) /\ NoLive(RemoveKey(t, k), k)
<1> DEFINE r == RemoveKey(t, k)
<1>1. IndexAgrees(r)
  BY RemoveIndexAgrees DEF GoodMap
<1>2. /\ Live(r) = {j \in Live(t) : t.ents[j].key # k}
      /\ \A j \in Entries(t) : r.ents[j].key = t.ents[j].key
  BY RemoveView
<1> HIDE DEF r
<1>3. UniqueKeys(r) /\ NoLive(r, k)
  BY <1>2 DEF GoodMap, UniqueKeys, NoLive, Live
<1> QED BY <1>1, <1>3 DEF GoodMap, r

LEMMA AppendGoodMap ==
  ASSUME NEW cap \in Nat, NEW t \in TableOf(cap), GoodMap(t), t.cnt < cap,
         NEW k \in Keys, NEW v \in Vals, PairFits(t.mem, k, v), NoLive(t, k)
  PROVE  GoodMap(AppendEntry(t, k, v))
<1> DEFINE r == AppendEntry(t, k, v)
<1>1. IndexAgrees(r)
  BY AppendIndexAgrees DEF GoodMap
<1>2. /\ Live(r) = Live(t) \cup {t.cnt} /\ r.ents[t.cnt].key = k
      /\ \A j \in Entries(t) : r.ents[j] = t.ents[j]
  BY AppendView
<1> HIDE DEF r
<1>3. Live(t) \subseteq Entries(t)
  BY DEF Live
<1>4. \A j \in Live(t) : r.ents[j].key = t.ents[j].key /\ r.ents[j].key # k
  BY <1>2, <1>3 DEF NoLive
<1>5. UniqueKeys(r)
  BY <1>2, <1>4 DEF GoodMap, UniqueKeys
<1> QED BY <1>1, <1>5 DEF GoodMap, r

LEMMA NewGoodMap ==
  ASSUME NEW cap \in Nat, NEW size
  PROVE  GoodMap(NewTable(cap, size)) /\ Live(NewTable(cap, size)) = {}
<1>1. Live(NewTable(cap, size)) = {}
  BY DEF Live, Entries, NewTable
<1> QED BY <1>1, NewIndexAgrees DEF GoodMap, UniqueKeys

LEMMA NullGoodMap == GoodMap(NULL) /\ Live(NULL) = {}
BY NewGoodMap DEF NULL

LEMMA CreateGoodMap ==
  ASSUME NEW cap \in Nat, NEW size, NEW t \in CreateResults(cap, size)
  PROVE  GoodMap(t) /\ Live(t) = {}
BY NewGoodMap, NullGoodMap DEF CreateResults

LEMMA InsertIntoGoodMap ==
  ASSUME NEW t, GoodType(t), GoodMap(t), t.cnt < t.cap, NEW k \in Keys, NEW v \in Vals,
         InsertInto(t, k, v)
  PROVE  GoodMap(tbl')
<1> DEFINE t1 == RemoveKey(t, k)
           t2 == AppendEntry(t1, k, v)
<1>1. t \in TableOf(t.cap) /\ t.cap \in Nat
  BY GoodTypeFields DEF GoodType
<1>2. t1 \in TableOf(t.cap) /\ t1.cnt < t.cap /\ GoodMap(t1) /\ NoLive(t1, k)
  BY <1>1, RemoveType, RemoveGoodMap DEF GoodType
<1>3. GoodMap(t2)
  <2> HIDE DEF t1
  <2> QED BY <1>1, <1>2, AppendGoodMap, FailedAppend
<1>4. tbl' = t2 \/ tbl' = NULL
  BY DEF InsertInto, Aborts
<1> QED BY <1>3, <1>4, NullGoodMap

-----------------------------------------------------------------------------
(***************************************************************************)
(* A copy: the number of live entries before one is its place in the new   *)
(* table.                                                                  *)
(***************************************************************************)
Rank(t, j) == Cardinality(LiveBefore(t, j))

CopyOrder ==
  phase = "copy" =>
    /\ new.cnt = Rank(tbl, i)
    /\ \A j \in LiveBefore(tbl, i) :
         /\ Rank(tbl, j) \in Entries(new)
         /\ new.ents[Rank(tbl, j)].stat = "INUSE"
         /\ new.ents[Rank(tbl, j)].key = tbl.ents[j].key
         /\ new.ents[Rank(tbl, j)].val = tbl.ents[j].val
    /\ \A m \in Entries(new) : \E j \in LiveBefore(tbl, i) : m = Rank(tbl, j)

(***************************************************************************)
(* The invariant: both tables find their keys and hold each once.  That    *)
(* the new table holds none twice depends on its entries being the old     *)
(* one's; that it gets all of them, on nothing else being in it.           *)
(***************************************************************************)
MapInv == GoodMap(tbl) /\ GoodMap(new) /\ CopyOrder

LEMMA RankFacts ==
  ASSUME NEW t, t.cnt \in Nat, NEW n \in Nat
  PROVE  /\ LiveBefore(t, 0) = {}
         /\ IsFiniteSet(LiveBefore(t, n)) /\ Rank(t, n) \in Nat
         /\ n \in Live(t) => /\ LiveBefore(t, n + 1) = LiveBefore(t, n) \cup {n}
                             /\ Rank(t, n + 1) = Rank(t, n) + 1
         /\ n \notin Live(t) => LiveBefore(t, n + 1) = LiveBefore(t, n)
<1>1. \A m \in Nat : LiveBefore(t, m) \subseteq 0..t.cnt-1
  BY DEF LiveBefore, Live, Entries
<1>2. \A j \in 0..t.cnt-1 : j \in Nat
  OBVIOUS
<1>3. IsFiniteSet(LiveBefore(t, n))
  BY <1>1, InitialCount, FS_Subset
<1>4. Rank(t, n) \in Nat
  BY <1>3, FS_CardinalityType DEF Rank
<1>5. LiveBefore(t, 0) = {}
  BY <1>1, <1>2 DEF LiveBefore
<1>6. LiveBefore(t, n + 1) = {j \in Live(t) : j < n \/ j = n}
  BY DEF LiveBefore, Live, Entries
<1>7. ASSUME n \in Live(t)
      PROVE  LiveBefore(t, n + 1) = LiveBefore(t, n) \cup {n} /\ Rank(t, n + 1) = Rank(t, n) + 1
  <2>1. LiveBefore(t, n + 1) = LiveBefore(t, n) \cup {n}
    BY <1>6, <1>7 DEF LiveBefore
  <2>2. n \notin LiveBefore(t, n)
    BY DEF LiveBefore
  <2> QED BY <1>3, <2>1, <2>2, FS_AddElement DEF Rank
<1>8. n \notin Live(t) => LiveBefore(t, n + 1) = LiveBefore(t, n)
  BY <1>6 DEF LiveBefore
<1> QED BY <1>3, <1>4, <1>5, <1>7, <1>8

LEMMA MapAtReturn ==
  ASSUME GoodMap(tbl'), new' = NULL, phase' # "copy"
  PROVE  MapInv'
BY NullGoodMap DEF MapInv, GoodMap, CopyOrder, IndexAgrees, UniqueKeys,
                       Used, Entries, Live, Reachable

LEMMA MapInvInit == Init => MapInv
BY NullGoodMap DEF Init, MapInv, CopyOrder

LEMMA MapStartCopy ==
  ASSUME TypeInv, MapInv, NEW c, NEW cap \in Nat, NEW size, StartCopy(c, cap, size),
         phase = "ready"
  PROVE  MapInv'
<1>1. PICK t \in CreateResults(cap, size) :
        IF ValidTable(t)
        THEN phase' = "copy" /\ new' = t /\ call' = c /\ i' = 0 /\ UNCHANGED <<tbl, ret>>
        ELSE Refuses
  BY DEF StartCopy
<1>2. GoodMap(t) /\ t.cnt = 0
  BY CreateGoodMap, NewTableType DEF CreateResults, NULL, NewTable
<1>3. CASE ~ValidTable(t)
  BY <1>1, <1>3, MapAtReturn DEF Refuses, Returns, MapInv
<1>4. CASE ValidTable(t)
  <2>1. phase' = "copy" /\ new' = t /\ i' = 0 /\ tbl' = tbl
    BY <1>1, <1>4
  <2>2. LiveBefore(tbl, 0) = {} /\ Rank(tbl, 0) = 0
    <3>1. tbl.cnt \in Nat
      BY GoodTypeFields DEF TypeInv, TypeOK
    <3>2. LiveBefore(tbl, 0) = {}
      BY <3>1, RankFacts
    <3> QED BY <3>2, FS_EmptySet DEF Rank
  <2>3. Entries(t) = {}
    BY <1>2 DEF Entries
  <2>4. CopyOrder'
    BY <1>2, <2>1, <2>2, <2>3 DEF CopyOrder
  <2> QED BY <1>2, <2>1, <2>4 DEF MapInv
<1> QED BY <1>3, <1>4

(***************************************************************************)
(* A live entry is copied to the end of the new table.                     *)
(***************************************************************************)
LEMMA MapCopyEntry ==
  ASSUME TypeInv, MapInv, CopyEntry, PairFits(new.mem, tbl.ents[i].key, tbl.ents[i].val)
  PROVE  MapInv'
<1> DEFINE e == tbl.ents[i]
<1>1. /\ GoodType(tbl) /\ GoodType(new)
      /\ tbl \in TableOf(tbl.cap) /\ new \in TableOf(new.cap) /\ new.cap \in Nat
      /\ tbl.cap \in Nat /\ tbl.cnt \in Nat /\ new.cnt \in Nat /\ new.mem \in Arena
      /\ i \in Nat
  BY GoodTypeFields DEF TypeInv, TypeOK, GoodType
<1>2. phase = "copy" /\ i \in Entries(tbl) /\ e.stat # "DELETED" /\ new.cnt < new.cap
  <2>1. phase = "copy" /\ i < tbl.cnt /\ e.stat # "DELETED"
    BY DEF CopyEntry, Copying
  <2>2. new.cnt < new.cap
    <3>1. /\ new.cnt <= i /\ tbl.cap <= new.cap /\ tbl.cnt <= tbl.cap
      BY <2>1, GoodTypeFields DEF TypeInv, TypeOK, CopyRoom
    <3> QED BY <1>1, <2>1, <3>1
  <2> QED BY <1>1, <2>1, <2>2 DEF Entries
<1>3. e.key \in Keys /\ e.val \in Vals /\ i \in Live(tbl)
  BY <1>1, <1>2 DEF GoodType, Filled, Entries, Live
<1>4. PairFits(new.mem, e.key, e.val)
  OBVIOUS
<1>5. /\ new' = AppendEntry(new, e.key, e.val) /\ i' = i + 1
      /\ phase' = phase /\ tbl' = tbl
  BY <1>4 DEF CopyEntry
<1>6. CopyOrder
  BY DEF MapInv
<1>7. NoLive(new, e.key)
  <2> SUFFICES ASSUME NEW m \in Live(new), new.ents[m].key = e.key PROVE FALSE
    BY DEF NoLive
  <2>1. PICK j \in LiveBefore(tbl, i) : m = Rank(tbl, j)
    BY <1>2, <1>6 DEF CopyOrder, Live
  <2>2. tbl.ents[j].key = e.key
    BY <1>2, <1>6, <2>1 DEF CopyOrder
  <2>3. j \in Live(tbl) /\ j < i /\ j \in Nat
    BY <2>1 DEF LiveBefore, Live, Entries
  <2>4. j = i
    BY <1>3, <2>2, <2>3 DEF MapInv, GoodMap, UniqueKeys
  <2> QED BY <1>1, <2>3, <2>4
<1>8. GoodMap(new')
  <2> HIDE DEF e
  <2> QED BY <1>1, <1>2, <1>3, <1>4, <1>5, <1>7, AppendGoodMap DEF MapInv
<1>9. /\ new'.cnt = new.cnt + 1
      /\ \A m \in Entries(new) : new'.ents[m] = new.ents[m]
      /\ new'.ents[new.cnt].key = e.key /\ new'.ents[new.cnt].val = e.val
      /\ new'.ents[new.cnt].stat = "INUSE"
  <2> HIDE DEF e
  <2> QED BY <1>1, <1>2, <1>3, <1>4, <1>5, AppendView
<1>10. /\ LiveBefore(tbl, i + 1) = LiveBefore(tbl, i) \cup {i}
       /\ Rank(tbl, i + 1) = Rank(tbl, i) + 1 /\ Rank(tbl, i) = new.cnt
  BY <1>1, <1>2, <1>3, <1>6, RankFacts DEF CopyOrder
<1>11. Entries(new') = Entries(new) \cup {new.cnt}
  BY <1>1, <1>9 DEF Entries
<1> HIDE DEF e
<1>12. ASSUME NEW j \in LiveBefore(tbl, i + 1)
       PROVE  /\ Rank(tbl, j) \in Entries(new')
              /\ new'.ents[Rank(tbl, j)].stat = "INUSE"
              /\ new'.ents[Rank(tbl, j)].key = tbl.ents[j].key
              /\ new'.ents[Rank(tbl, j)].val = tbl.ents[j].val
  <2>1. CASE j = i
    BY <2>1, <1>9, <1>10, <1>11 DEF e
  <2>2. CASE j # i
    <3>1. j \in LiveBefore(tbl, i)
      BY <2>2, <1>10
    <3>2. /\ Rank(tbl, j) \in Entries(new)
          /\ new.ents[Rank(tbl, j)].stat = "INUSE"
          /\ new.ents[Rank(tbl, j)].key = tbl.ents[j].key
          /\ new.ents[Rank(tbl, j)].val = tbl.ents[j].val
      BY <3>1, <1>2, <1>6 DEF CopyOrder
    <3> QED BY <3>2, <1>9, <1>11
  <2> QED BY <2>1, <2>2
<1>13. ASSUME NEW m \in Entries(new')
       PROVE  \E j \in LiveBefore(tbl, i + 1) : m = Rank(tbl, j)
  <2>1. CASE m = new.cnt
    BY <2>1, <1>10
  <2>2. CASE m # new.cnt
    <3>1. m \in Entries(new)
      BY <2>2, <1>11
    <3> QED BY <3>1, <1>2, <1>6, <1>10 DEF CopyOrder
  <2> QED BY <2>1, <2>2
<1>14. CopyOrder'
  <2>1. new'.cnt = Rank(tbl, i + 1)
    BY <1>9, <1>10
  <2> QED BY <1>5, <1>12, <1>13, <2>1 DEF CopyOrder, Rank
<1> QED BY <1>5, <1>8, <1>14 DEF MapInv

LEMMA MapInvStep == TypeInv /\ MapInv /\ [Next]_vars => MapInv'
<1> SUFFICES ASSUME TypeInv, MapInv, [Next]_vars PROVE MapInv'
  OBVIOUS
<1>1. /\ GoodType(tbl) /\ GoodType(new) /\ GoodMap(tbl) /\ GoodMap(new) /\ GoodMap(NULL)
      /\ tbl.cap \in Nat /\ tbl.cnt \in 0..tbl.cap /\ tbl.mem \in Arena /\ tbl.cnt \in Nat
      /\ tbl \in TableOf(tbl.cap) /\ tbl.mem.size \in Nat
  BY GoodTypeFields, NullGoodMap DEF TypeInv, TypeOK, GoodType, MapInv, Arena
<1>2. ASSUME NEW cap \in CreateCaps, NEW size \in CreateSizes, Create(cap, size)
      PROVE  MapInv'
  <2>1. cap \in Nat
    BY BoundAssumption
  <2> QED BY <1>1, <1>2, <2>1, CreateGoodMap, MapAtReturn DEF Create, Refuses, Returns
<1>3. CASE Destroy
  BY <1>1, <1>3, MapAtReturn DEF Destroy, Returns
<1>4. ASSUME NEW k \in Keys, LookupKey(k) PROVE MapInv'
  BY <1>1, <1>4, MapAtReturn DEF LookupKey, Returns
<1>5. ASSUME NEW k \in Keys, Remove(k) PROVE MapInv'
  <2>1. GoodMap(RemoveKey(tbl, k))
    BY <1>1, RemoveGoodMap
  <2> QED BY <1>5, <2>1, MapAtReturn DEF Remove, Returns
<1>6. ASSUME NEW k \in Keys, NEW v \in Vals, InsertRefused(k, v) PROVE MapInv'
  BY <1>1, <1>6, MapAtReturn DEF InsertRefused, Refuses, Returns
<1>7. ASSUME NEW k \in Keys, NEW v \in Vals, InsertInPlace(k, v) PROVE MapInv'
  <2>1. tbl.cnt < tbl.cap
    BY <1>1, <1>7 DEF InsertInPlace, ShouldResize, CapShouldResize
  <2>2. InsertInto(tbl, k, v) /\ GoodMap(tbl')
    BY <1>1, <1>7, <2>1, InsertIntoGoodMap DEF InsertInPlace
  <2>3. new' = NULL /\ phase' # "copy"
    BY <1>1, <2>1, <2>2, InsertIntoGood
  <2> QED BY <2>2, <2>3, MapAtReturn
<1>8. ASSUME NEW k \in Keys, NEW v \in Vals, InsertResize(k, v) PROVE MapInv'
  <2>1. ResizeCap(tbl) \in Nat
    BY <1>1 DEF ResizeCap
  <2> QED BY <1>8, <2>1, MapStartCopy DEF InsertResize
<1>9. CASE Compact
  BY <1>1, <1>9, MapStartCopy DEF Compact
<1>10. CASE SkipDeleted
  <2>1. /\ i' = i + 1 /\ UNCHANGED <<phase, tbl, new>> /\ i \in Nat /\ i \notin Live(tbl)
    BY <1>10 DEF SkipDeleted, TypeInv, TypeOK, Live
  <2>2. LiveBefore(tbl, i + 1) = LiveBefore(tbl, i)
    BY <1>1, <2>1, RankFacts
  <2>3. CopyOrder'
    BY <2>1, <2>2 DEF MapInv, CopyOrder, Rank
  <2> QED BY <1>1, <2>1, <2>3 DEF MapInv
<1>11. CASE CopyEntry
  <2>1. CASE PairFits(new.mem, tbl.ents[i].key, tbl.ents[i].val)
    BY <1>11, <2>1, MapCopyEntry
  <2>2. CASE ~PairFits(new.mem, tbl.ents[i].key, tbl.ents[i].val)
    BY <1>1, <1>11, <2>2, MapAtReturn DEF CopyEntry, Returns, Aborts
  <2> QED BY <2>1, <2>2
<1>12. CASE CompactDone
  BY <1>1, <1>12, MapAtReturn DEF CompactDone, Returns
<1>13. CASE InsertResized
  <2>1. call.key \in Keys /\ call.val \in Vals /\ new.cnt < new.cap
    <3>1. new.cnt \in Nat /\ i \in Nat /\ new.cap \in Nat
      BY GoodTypeFields DEF TypeInv, TypeOK
    <3> QED BY <1>1, <1>13, <3>1 DEF InsertResized, CopyDone, TypeInv, CopyRoom
  <2>2. InsertInto(new, call.key, call.val) /\ GoodMap(tbl')
    BY <1>1, <1>13, <2>1, InsertIntoGoodMap DEF InsertResized
  <2>3. new' = NULL /\ phase' # "copy"
    BY <1>1, <2>1, <2>2, InsertIntoGood
  <2> QED BY <2>2, <2>3, MapAtReturn
<1>14. CASE Restart
  BY <1>1, <1>14, MapAtReturn DEF Restart, Returns
<1>15. CASE UNCHANGED vars
  <2>1. tbl' = tbl /\ new' = new /\ phase' = phase /\ i' = i
    BY <1>15 DEF vars
  <2>2. CopyOrder
    BY DEF MapInv
  <2>3. CopyOrder'
    BY <2>1, <2>2 DEF CopyOrder
  <2> QED BY <1>1, <2>1, <2>3 DEF MapInv
<1> QED
  BY <1>2, <1>3, <1>4, <1>5, <1>6, <1>7, <1>8, <1>9, <1>10, <1>11, <1>12, <1>13,
     <1>14, <1>15 DEF Next, Calls, CopyStep

-----------------------------------------------------------------------------
(***************************************************************************)
(* IndexOK holds in every reachable state: whatever the keys hash to, a    *)
(* probe finds every entry, and no probe runs into a slot that names none  *)
(* (hash_index.h, kv.c's insertion, copy and resize).                      *)
(***************************************************************************)
THEOREM EveryEntryFound == Spec => []IndexOK
<1>1. MapInv => IndexOK
  BY DEF MapInv, GoodMap, IndexOK
<1> QED
  BY TypeInvInit, TypeInvStep, MapInvInit, MapInvStep, <1>1, PTL DEF Spec

(***************************************************************************)
(* OneLivePerKey holds in every reachable state: an insertion kills the    *)
(* key's old entry before it appends, and a copy doubles nothing.          *)
(***************************************************************************)
THEOREM KeysUnique == Spec => []OneLivePerKey
<1>1. MapInv => OneLivePerKey
  BY DEF MapInv, GoodMap, OneLivePerKey
<1> QED
  BY TypeInvInit, TypeInvStep, MapInvInit, MapInvStep, <1>1, PTL DEF Spec

(***************************************************************************)
(* CopyInOrder holds in every reachable state: _KVTable_copy loses no live *)
(* entry, revives none and keeps their order, for tables of any size.      *)
(***************************************************************************)
THEOREM CopyLosesNothing == Spec => []CopyInOrder
<1>1. MapInv => CopyInOrder
  BY DEF MapInv, CopyOrder, CopyInOrder, Rank
<1> QED
  BY TypeInvInit, TypeInvStep, MapInvInit, MapInvStep, <1>1, PTL DEF Spec

-----------------------------------------------------------------------------
(***************************************************************************)
(* The entries of t are those of r: none has moved, changed or come back.  *)
(***************************************************************************)
Keeps(t, r) ==
  /\ t.cnt <= r.cnt
  /\ \A j \in Entries(t) : r.ents[j] \in {t.ents[j], [t.ents[j] EXCEPT !.stat = "DELETED"]}

LEMMA InsertKeeps ==
  ASSUME NEW t, GoodType(t), GoodMap(t), t.cnt < t.cap, NEW k \in Keys, NEW v \in Vals
  PROVE  Keeps(t, AppendEntry(RemoveKey(t, k), k, v))
<1> DEFINE t1 == RemoveKey(t, k)
           t2 == AppendEntry(t1, k, v)
<1>1. t \in TableOf(t.cap) /\ t.cap \in Nat /\ t.cnt \in Nat
  BY GoodTypeFields DEF GoodType
<1>2. /\ t1 \in TableOf(t.cap) /\ t1.cnt = t.cnt
      /\ \A j \in Entries(t) :
           t1.ents[j] \in {t.ents[j], [t.ents[j] EXCEPT !.stat = "DELETED"]}
  BY <1>1, RemoveType, RemoveView DEF GoodType
<1>3. Entries(t1) = Entries(t)
  BY <1>2 DEF Entries
<1> HIDE DEF t1
<1>4. t.cnt <= t2.cnt /\ \A j \in Entries(t) : t2.ents[j] = t1.ents[j]
  <2>1. CASE PairFits(t1.mem, k, v)
    <3>1. t2.cnt = t1.cnt + 1 /\ \A j \in Entries(t1) : t2.ents[j] = t1.ents[j]
      BY <1>1, <1>2, <2>1, AppendView
    <3> HIDE DEF t2
    <3> QED BY <3>1, <1>1, <1>2, <1>3
  <2>2. CASE ~PairFits(t1.mem, k, v)
    <3>1. t2 = t1
      BY <1>1, <1>2, <2>2, FailedAppend
    <3> HIDE DEF t2
    <3> QED BY <3>1, <1>1, <1>2
  <2> QED BY <2>1, <2>2
<1> HIDE DEF t2
<1>5. Keeps(t, t2)
  BY <1>2, <1>4 DEF Keeps
<1> QED BY <1>5 DEF t1, t2

LEMMA KeepsStep ==
  ASSUME TypeInv, MapInv, [Next]_vars, phase' = "ready",
         phase = "ready" \/ (phase = "copy" /\ ret' = "fail")
  PROVE  Keeps(tbl, tbl')
<1>1. /\ GoodType(tbl) /\ GoodMap(tbl) /\ tbl.cap \in Nat /\ tbl.cnt \in 0..tbl.cap
      /\ tbl \in TableOf(tbl.cap)
  BY GoodTypeFields DEF TypeInv, TypeOK, GoodType, MapInv
<1>2. CASE tbl' = tbl
  BY <1>1, <1>2 DEF Keeps
<1>3. ASSUME NEW k \in Keys, Remove(k) PROVE Keeps(tbl, tbl')
  BY <1>1, <1>3, RemoveView DEF Remove, Keeps
<1>4. ASSUME NEW k \in Keys, NEW v \in Vals, InsertInPlace(k, v) PROVE Keeps(tbl, tbl')
  <2>1. tbl.cnt < tbl.cap
    BY <1>1, <1>4 DEF InsertInPlace, ShouldResize, CapShouldResize
  <2>2. tbl' = AppendEntry(RemoveKey(tbl, k), k, v)
    BY <1>4 DEF InsertInPlace, InsertInto, Aborts
  <2> QED BY <1>1, <2>1, <2>2, InsertKeeps
<1>5. ~CompactDone /\ ~InsertResized
  BY DEF CompactDone, InsertResized, CopyDone, Returns, InsertInto, Aborts
<1>6. SkipDeleted \/ CopyEntry => tbl' = tbl
  BY DEF SkipDeleted, CopyEntry, Copying, Aborts
<1>7. ASSUME NEW k \in Keys, NEW v \in Vals, InsertRefused(k, v) \/ InsertResize(k, v)
      PROVE  tbl' = tbl
  BY <1>7 DEF InsertRefused, InsertResize, StartCopy, Refuses
<1>8. Compact \/ Restart \/ (\E k \in Keys : LookupKey(k)) \/ UNCHANGED vars => tbl' = tbl
  BY DEF Compact, StartCopy, Refuses, Restart, LookupKey, vars
<1>9. ~Destroy /\ \A cap, size : ~Create(cap, size)
  BY DEF Destroy, Create
<1> QED
  BY <1>2, <1>3, <1>4, <1>5, <1>6, <1>7, <1>8, <1>9 DEF Next, Calls, CopyStep

(***************************************************************************)
(* AppendOnly: no call that leaves its table in place, a failed compaction *)
(* or resize included, moves, changes or revives an entry.                 *)
(***************************************************************************)
THEOREM EntriesStay == Spec => AppendOnly
<1> DEFINE A == phase' = "ready" /\ (phase = "ready" \/ (phase = "copy" /\ ret' = "fail")) =>
                  /\ tbl.cnt <= tbl'.cnt
                  /\ \A j \in Entries(tbl) :
                       tbl'.ents[j] \in {tbl.ents[j], [tbl.ents[j] EXCEPT !.stat = "DELETED"]}
<1>1. TypeInv /\ MapInv /\ [Next]_vars => [A]_vars
  BY KeepsStep DEF Keeps
<1> QED
  BY TypeInvInit, TypeInvStep, MapInvInit, MapInvStep, <1>1, PTL DEF Spec, AppendOnly

-----------------------------------------------------------------------------
(***************************************************************************)
(* What MapOf reads off a table.                                           *)
(***************************************************************************)
LEMMA MapOfLive ==
  ASSUME NEW t, UniqueKeys(t), NEW j \in Live(t), t.ents[j].key \in Keys
  PROVE  MapOf(t)[t.ents[j].key] = t.ents[j].val
<1> DEFINE k == t.ents[j].key
           m == CHOOSE n \in Live(t) : t.ents[n].key = k
<1>1. m \in Live(t) /\ t.ents[m].key = k
  OBVIOUS
<1>2. m = j
  <2> HIDE DEF m
  <2> QED BY <1>1 DEF UniqueKeys
<1> QED BY <1>2 DEF MapOf

LEMMA MapOfNone ==
  ASSUME NEW t, NEW k \in Keys, NoLive(t, k)
  PROVE  MapOf(t)[k] = NoVal
BY DEF MapOf, NoLive

(***************************************************************************)
(* A function is MapOf(t) if it has the value of every live entry, and     *)
(* NoVal for every other key.                                              *)
(***************************************************************************)
LEMMA MapOfIs ==
  ASSUME NEW t, UniqueKeys(t), NEW f, f = [k \in Keys |-> f[k]],
         \A j \in Live(t) : t.ents[j].key \in Keys /\ f[t.ents[j].key] = t.ents[j].val,
         \A k \in Keys : NoLive(t, k) => f[k] = NoVal
  PROVE  MapOf(t) = f
<1>1. ASSUME NEW k \in Keys PROVE MapOf(t)[k] = f[k]
  <2>1. CASE NoLive(t, k)
    BY <2>1, MapOfNone
  <2>2. CASE ~NoLive(t, k)
    <3>1. PICK j \in Live(t) : t.ents[j].key = k
      BY <2>2 DEF NoLive
    <3> QED BY <3>1, MapOfLive
  <2> QED BY <2>1, <2>2
<1>2. MapOf(t) = [k \in Keys |-> MapOf(t)[k]]
  BY DEF MapOf
<1> HIDE DEF MapOf
<1> QED BY <1>1, <1>2

LEMMA MapOfNull == MapOf(NULL) = [k \in Keys |-> NoVal]
BY NullGoodMap DEF MapOf

LEMMA MapOfEmpty ==
  ASSUME NEW t, Live(t) = {}
  PROVE  MapOf(t) = MapOf(NULL)
BY NullGoodMap DEF MapOf

LEMMA LiveTypes ==
  ASSUME NEW t, GoodType(t), NEW j \in Live(t)
  PROVE  /\ j \in Entries(t) /\ t.ents[j].key \in Keys /\ t.ents[j].val \in Vals
         /\ t.ents[j].val # NoVal
BY DataAssumption DEF GoodType, Filled, Live, Entries

(***************************************************************************)
(* A lookup answers what the map has.                                      *)
(***************************************************************************)
LEMMA LookupIsMap ==
  ASSUME NEW t, GoodType(t), GoodMap(t), NEW k \in Keys
  PROVE  /\ LookupVal(t, k) = MapOf(t)[k]
         /\ Lookup(t, k) < 0 <=> MapOf(t)[k] = NoVal
<1>1. t \in TableOf(t.cap) /\ t.cap \in Nat /\ IndexAgrees(t) /\ UniqueKeys(t)
  BY GoodTypeFields DEF GoodType, GoodMap
<1>2. CASE Lookup(t, k) < 0
  <2>1. NoLive(t, k)
    BY <1>1, <1>2, LookupComplete DEF NoLive
  <2> QED BY <1>2, <2>1, MapOfNone DEF LookupVal
<1>3. CASE ~(Lookup(t, k) < 0)
  <2> DEFINE j == Lookup(t, k)
  <2>1. j \in Live(t) /\ t.ents[j].key = k
    BY <1>1, <1>3, LookupSound
  <2>2. LookupVal(t, k) = t.ents[j].val
    BY <1>3 DEF LookupVal
  <2> HIDE DEF j
  <2>3. MapOf(t)[k] = t.ents[j].val /\ t.ents[j].val # NoVal
    BY <1>1, <2>1, MapOfLive, LiveTypes
  <2> QED BY <1>3, <2>2, <2>3
<1> QED BY <1>2, <1>3

LEMMA RemoveIsMap ==
  ASSUME NEW t, GoodType(t), GoodMap(t), NEW k \in Keys
  PROVE  MapOf(RemoveKey(t, k)) = [MapOf(t) EXCEPT ![k] = NoVal]
<1> DEFINE r == RemoveKey(t, k)
           f == [MapOf(t) EXCEPT ![k] = NoVal]
<1>1. t \in TableOf(t.cap) /\ t.cap \in Nat /\ UniqueKeys(t)
  BY GoodTypeFields DEF GoodType, GoodMap
<1>2. /\ Live(r) = {j \in Live(t) : t.ents[j].key # k}
      /\ \A j \in Entries(t) : r.ents[j].key = t.ents[j].key /\ r.ents[j].val = t.ents[j].val
      /\ UniqueKeys(r)
  BY <1>1, RemoveView, RemoveGoodMap DEF GoodMap
<1>3. f = [n \in Keys |-> f[n]] /\ \A n \in Keys : f[n] = IF n = k THEN NoVal ELSE MapOf(t)[n]
  BY DEF MapOf
<1> HIDE DEF r, f
<1>4. ASSUME NEW j \in Live(r)
      PROVE  r.ents[j].key \in Keys /\ f[r.ents[j].key] = r.ents[j].val
  <2>1. /\ j \in Live(t) /\ t.ents[j].key # k /\ t.ents[j].key \in Keys
        /\ r.ents[j].key = t.ents[j].key /\ r.ents[j].val = t.ents[j].val
    BY <1>2, LiveTypes
  <2>2. MapOf(t)[t.ents[j].key] = t.ents[j].val
    BY <1>1, <2>1, MapOfLive
  <2> QED BY <1>3, <2>1, <2>2
<1>5. ASSUME NEW n \in Keys, NoLive(r, n) PROVE f[n] = NoVal
  <2>1. CASE n = k
    BY <2>1, <1>3
  <2>2. CASE n # k
    <3>1. NoLive(t, n)
      <4> SUFFICES ASSUME NEW j \in Live(t), t.ents[j].key = n PROVE FALSE
        BY DEF NoLive
      <4>1. j \in Live(r) /\ r.ents[j].key = n
        BY <1>2, <2>2, LiveTypes
      <4> QED BY <4>1, <1>5 DEF NoLive
    <3> QED BY <2>2, <3>1, <1>3, MapOfNone
  <2> QED BY <2>1, <2>2
<1>6. MapOf(r) = f
  BY <1>2, <1>3, <1>4, <1>5, MapOfIs
<1> QED BY <1>6 DEF r, f

LEMMA AppendIsMap ==
  ASSUME NEW t, GoodType(t), GoodMap(t), t.cnt < t.cap, NEW k \in Keys, NEW v \in Vals,
         PairFits(t.mem, k, v), NoLive(t, k)
  PROVE  MapOf(AppendEntry(t, k, v)) = [MapOf(t) EXCEPT ![k] = v]
<1> DEFINE r == AppendEntry(t, k, v)
           f == [MapOf(t) EXCEPT ![k] = v]
<1>1. t \in TableOf(t.cap) /\ t.cap \in Nat /\ UniqueKeys(t)
  BY GoodTypeFields DEF GoodType, GoodMap
<1>2. /\ Live(r) = Live(t) \cup {t.cnt} /\ UniqueKeys(r)
      /\ \A j \in Entries(t) : r.ents[j] = t.ents[j]
      /\ r.ents[t.cnt].key = k /\ r.ents[t.cnt].val = v
  BY <1>1, AppendView, AppendGoodMap DEF GoodMap
<1>3. f = [n \in Keys |-> f[n]] /\ \A n \in Keys : f[n] = IF n = k THEN v ELSE MapOf(t)[n]
  BY DEF MapOf
<1> HIDE DEF r, f
<1>4. ASSUME NEW j \in Live(r)
      PROVE  r.ents[j].key \in Keys /\ f[r.ents[j].key] = r.ents[j].val
  <2>1. CASE j \in Live(t)
    <3>1. /\ t.ents[j].key # k /\ t.ents[j].key \in Keys /\ r.ents[j] = t.ents[j]
      BY <1>2, <2>1, LiveTypes DEF NoLive
    <3>2. MapOf(t)[t.ents[j].key] = t.ents[j].val
      BY <1>1, <2>1, <3>1, MapOfLive
    <3> QED BY <1>3, <3>1, <3>2
  <2>2. CASE j = t.cnt
    BY <1>2, <1>3, <2>2
  <2> QED BY <1>2, <2>1, <2>2
<1>5. ASSUME NEW n \in Keys, NoLive(r, n) PROVE f[n] = NoVal
  <2>1. n # k
    BY <1>2, <1>5 DEF NoLive
  <2>2. NoLive(t, n)
    BY <1>2, <1>5, LiveTypes DEF NoLive
  <2> QED BY <1>3, <2>1, <2>2, MapOfNone
<1>6. MapOf(r) = f
  BY <1>2, <1>3, <1>4, <1>5, MapOfIs
<1> QED BY <1>6 DEF r, f

(***************************************************************************)
(* An insertion that finds room binds the key to the value.                *)
(***************************************************************************)
LEMMA InsertIsMap ==
  ASSUME NEW t, GoodType(t), GoodMap(t), t.cnt < t.cap, NEW k \in Keys, NEW v \in Vals,
         PairFits(RemoveKey(t, k).mem, k, v)
  PROVE  MapOf(AppendEntry(RemoveKey(t, k), k, v)) = [MapOf(t) EXCEPT ![k] = v]
<1> DEFINE r == RemoveKey(t, k)
<1>1. t \in TableOf(t.cap) /\ t.cap \in Nat
  BY GoodTypeFields DEF GoodType
<1>2. /\ r \in TableOf(t.cap) /\ Filled(r) /\ r.cnt = t.cnt /\ GoodMap(r) /\ NoLive(r, k)
      /\ MapOf(r) = [MapOf(t) EXCEPT ![k] = NoVal]
  BY <1>1, RemoveType, RemoveGoodMap, RemoveIsMap DEF GoodType
<1>3. PairFits(r.mem, k, v)
  OBVIOUS
<1> HIDE DEF r
<1>4. GoodType(r) /\ r.cnt < r.cap
  BY <1>1, <1>2, GoodTypeFields DEF GoodType, IsTable, TableOf
<1>5. MapOf(AppendEntry(r, k, v)) = [MapOf(r) EXCEPT ![k] = v]
  <2>1. GoodMap(r) /\ NoLive(r, k)
    BY <1>2
  <2> QED BY <1>3, <1>4, <2>1, AppendIsMap, Zenon
<1>6. [[MapOf(t) EXCEPT ![k] = NoVal] EXCEPT ![k] = v] = [MapOf(t) EXCEPT ![k] = v]
  OBVIOUS
<1> QED BY <1>2, <1>5, <1>6 DEF r

(***************************************************************************)
(* A table that has been copied to the end is the same map.                *)
(***************************************************************************)
LEMMA CopyIsMap ==
  ASSUME TypeInv, MapInv, CopyDone
  PROVE  MapOf(new) = MapOf(tbl)
<1>1. /\ GoodType(tbl) /\ GoodType(new) /\ UniqueKeys(tbl) /\ UniqueKeys(new)
      /\ phase = "copy" /\ i = tbl.cnt /\ CopyOrder
  BY DEF TypeInv, TypeOK, GoodType, MapInv, GoodMap, CopyDone
<1>2. LiveBefore(tbl, i) = Live(tbl)
  <2>1. tbl.cnt \in Nat
    BY <1>1, GoodTypeFields DEF GoodType
  <2>2. \A j \in Live(tbl) : j < tbl.cnt
    BY <2>1 DEF Live, Entries
  <2> QED BY <1>1, <2>2 DEF LiveBefore
<1>3. \A j \in Live(tbl) :
        /\ Rank(tbl, j) \in Live(new)
        /\ new.ents[Rank(tbl, j)].key = tbl.ents[j].key
        /\ new.ents[Rank(tbl, j)].val = tbl.ents[j].val
  BY <1>1, <1>2 DEF CopyOrder, Live
<1>4. \A m \in Live(new) : \E j \in Live(tbl) : m = Rank(tbl, j)
  BY <1>1, <1>2 DEF CopyOrder, Live
<1> DEFINE f == MapOf(tbl)
<1>5. f = [k \in Keys |-> f[k]]
  BY DEF MapOf
<1>6. ASSUME NEW m \in Live(new)
      PROVE  new.ents[m].key \in Keys /\ f[new.ents[m].key] = new.ents[m].val
  <2>1. PICK j \in Live(tbl) : m = Rank(tbl, j)
    BY <1>4
  <2>2. tbl.ents[j].key \in Keys /\ f[tbl.ents[j].key] = tbl.ents[j].val
    BY <1>1, <2>1, LiveTypes, MapOfLive
  <2> QED BY <1>3, <2>1, <2>2
<1>7. ASSUME NEW k \in Keys, NoLive(new, k) PROVE f[k] = NoVal
  <2>1. NoLive(tbl, k)
    BY <1>3, <1>7 DEF NoLive
  <2> QED BY <2>1, MapOfNone
<1> HIDE DEF f
<1>8. MapOf(new) = f
  BY <1>1, <1>5, <1>6, <1>7, MapOfIs
<1> QED BY <1>8 DEF f

-----------------------------------------------------------------------------
(***************************************************************************)
(* The refinement.  Without a table the handle is NULL; while a call       *)
(* copies, the client's table is the old one and nothing has happened yet. *)
(***************************************************************************)
NoTable == phase \in {"none", "aborted", "dangling"} => tbl = NULL

AbsPhase == IF phase = "copy" THEN "ready" ELSE phase

RefInv == TypeInv /\ LayoutInv /\ MapInv /\ NoTable

LEMMA RefInvInit == Init => RefInv
BY TypeInvInit, LayoutInvInit, MapInvInit DEF RefInv, NoTable, Init

LEMMA NoTableStep == NoTable /\ [Next]_vars => NoTable'
<1> SUFFICES ASSUME NoTable, [Next]_vars PROVE NoTable'
  OBVIOUS
<1>1. ASSUME NEW cap, NEW size, Create(cap, size) PROVE NoTable'
  BY <1>1 DEF NoTable, Create, Refuses
<1>2. ASSUME NEW c, NEW cap, NEW size, StartCopy(c, cap, size), phase = "ready" PROVE NoTable'
  BY <1>2 DEF NoTable, StartCopy, Refuses
<1>3. ASSUME NEW t, NEW k, NEW v, InsertInto(t, k, v) PROVE NoTable'
  BY <1>3 DEF NoTable, InsertInto, Aborts
<1>4. CASE CopyEntry
  BY <1>4 DEF NoTable, CopyEntry, Copying, Aborts
<1>5. ASSUME NEW k \in Keys, NEW v \in Vals,
             InsertRefused(k, v) \/ InsertInPlace(k, v) \/ InsertResize(k, v)
      PROVE  NoTable'
  BY <1>2, <1>3, <1>5
     DEF NoTable, InsertRefused, InsertInPlace, InsertResize, Refuses
<1>6. CASE Compact \/ InsertResized
  BY <1>2, <1>3, <1>6 DEF Compact, InsertResized
<1>7. ASSUME NEW k \in Keys, LookupKey(k) \/ Remove(k) PROVE NoTable'
  BY <1>7 DEF NoTable, LookupKey, Remove
<1>8. CASE Destroy \/ SkipDeleted \/ CompactDone \/ Restart \/ UNCHANGED vars
  BY <1>8 DEF NoTable, Destroy, SkipDeleted, Copying, CompactDone, Restart, vars
<1> QED
  BY <1>1, <1>4, <1>5, <1>6, <1>7, <1>8 DEF Next, Calls, CopyStep

LEMMA RefInvStep == RefInv /\ [Next]_vars => RefInv'
BY TypeInvStep, LayoutInvStep, MapInvStep, NoTableStep DEF RefInv

(***************************************************************************)
(* Each call that returns is the map's operation of that name.             *)
(***************************************************************************)
LEMMA LookupMeans ==
  ASSUME RefInv, NEW k \in Keys, LookupKey(k)
  PROVE  Abs!Get(k)
<1>1. GoodType(tbl) /\ GoodMap(tbl)
  BY DEF RefInv, TypeInv, TypeOK, GoodType, MapInv
<1>2. phase = "ready" /\ phase' = "ready" /\ tbl' = tbl /\ ret' = LookupVal(tbl, k)
  BY DEF LookupKey, Returns
<1>3. ret' = MapOf(tbl)[k] /\ MapOf(tbl)' = MapOf(tbl)
  BY <1>1, <1>2, LookupIsMap
<1> QED BY <1>2, <1>3 DEF Abs!Get

LEMMA RemoveMeans ==
  ASSUME RefInv, NEW k \in Keys, Remove(k)
  PROVE  Abs!Remove(k) \/ (MapOf(tbl)[k] = NoVal /\ Abs!Refuse)
<1>1. GoodType(tbl) /\ GoodMap(tbl)
  BY DEF RefInv, TypeInv, TypeOK, GoodType, MapInv
<1>2. /\ phase = "ready" /\ phase' = "ready" /\ tbl' = RemoveKey(tbl, k)
      /\ ret' = IF Lookup(tbl, k) < 0 THEN "fail" ELSE "ok"
  BY DEF Remove, Returns
<1>3. CASE Lookup(tbl, k) < 0
  <2>1. MapOf(tbl)[k] = NoVal /\ tbl' = tbl /\ ret' = "fail"
    BY <1>1, <1>2, <1>3, LookupIsMap DEF RemoveKey
  <2> QED BY <1>2, <2>1 DEF Abs!Refuse
<1>4. CASE ~(Lookup(tbl, k) < 0)
  <2>1. MapOf(tbl)[k] # NoVal /\ ret' = "ok" /\ MapOf(tbl)' = [MapOf(tbl) EXCEPT ![k] = NoVal]
    BY <1>1, <1>2, <1>4, LookupIsMap, RemoveIsMap
  <2> QED BY <1>2, <2>1 DEF Abs!Remove
<1> QED BY <1>3, <1>4

LEMMA InPlaceMeans ==
  ASSUME RefInv, NEW k \in Keys, NEW v \in Vals, InsertInPlace(k, v)
  PROVE  Abs!Put(k, v)
<1>1. /\ GoodType(tbl) /\ GoodMap(tbl) /\ tbl \in TableOf(tbl.cap) /\ tbl.cap \in Nat
      /\ tbl.mem \in Arena /\ tbl.cnt \in 0..tbl.cap
  BY GoodTypeFields DEF RefInv, TypeInv, TypeOK, GoodType, MapInv
<1>2. phase = "ready" /\ InsertInto(tbl, k, v) /\ tbl.cnt < tbl.cap
  BY <1>1 DEF InsertInPlace, ShouldResize, CapShouldResize
<1>3. tbl.mem.cur + PairBytes(k, v) <= tbl.mem.size
  <2>1. KLen[k] \in Nat /\ VLen[v] \in Nat /\ tbl.mem.cur \in Nat /\ tbl.mem.size \in Nat
    BY <1>1, DataAssumption DEF Arena
  <2> QED BY <2>1
          DEF InsertInPlace, ShouldResize, MemShouldResize, PairBytes, KVTBL_MEM_ALIGN
<1>4. PairFits(RemoveKey(tbl, k).mem, k, v)
  BY <1>1, <1>3, RemoveType, RoomyPairFits DEF GoodType
<1>5. phase' = "ready" /\ ret' = "ok" /\ tbl' = AppendEntry(RemoveKey(tbl, k), k, v)
  BY <1>2, <1>4 DEF InsertInto, Returns
<1>6. MapOf(tbl)' = [MapOf(tbl) EXCEPT ![k] = v]
  BY <1>1, <1>2, <1>4, <1>5, InsertIsMap
<1> QED BY <1>2, <1>5, <1>6 DEF Abs!Put

LEMMA ResizedMeans ==
  ASSUME RefInv, InsertResized
  PROVE  /\ call.key \in Keys /\ call.val \in Vals
         /\ \/ Abs!Put(call.key, call.val)
            \/ phase' \in {"aborted", "dangling"} /\ Abs!Gone(phase')
<1>1. /\ GoodType(tbl) /\ GoodType(new) /\ GoodMap(new) /\ new.cnt \in Nat /\ new.cap \in Nat
      /\ i \in Nat
  BY GoodTypeFields DEF RefInv, TypeInv, TypeOK, GoodType, MapInv
<1>2. /\ call.key \in Keys /\ call.val \in Vals /\ new.cnt < new.cap /\ phase = "copy"
      /\ InsertInto(new, call.key, call.val) /\ MapOf(new) = MapOf(tbl)
  BY <1>1, CopyIsMap DEF InsertResized, CopyDone, RefInv, TypeInv, CopyRoom
<1>3. CASE PairFits(RemoveKey(new, call.key).mem, call.key, call.val)
  <2>1. /\ phase' = "ready" /\ ret' = "ok"
        /\ tbl' = AppendEntry(RemoveKey(new, call.key), call.key, call.val)
    BY <1>2, <1>3 DEF InsertInto, Returns
  <2>2. MapOf(tbl)' = [MapOf(tbl) EXCEPT ![call.key] = call.val]
    BY <1>1, <1>2, <1>3, <2>1, InsertIsMap
  <2> QED BY <1>2, <2>1, <2>2 DEF Abs!Put
<1>4. CASE ~PairFits(RemoveKey(new, call.key).mem, call.key, call.val)
  <2>1. phase' \in {"aborted", "dangling"} /\ ret' = "fail" /\ tbl' = NULL
    BY <1>2, <1>4 DEF InsertInto, Aborts, Returns
  <2>2. MapOf(tbl)' = [n \in Keys |-> NoVal]
    BY <2>1, MapOfNull
  <2> QED BY <1>2, <2>1, <2>2 DEF Abs!Gone, Abs!EmptyMap
<1> QED BY <1>2, <1>3, <1>4

-----------------------------------------------------------------------------
(***************************************************************************)
(* Every step is an operation of the map or leaves it alone.               *)
(***************************************************************************)
LEMMA RefinesInit == Init => Abs!Init
BY MapOfNull DEF Init, Abs!Init, Abs!EmptyMap

LEMMA StartCopyMeans ==
  ASSUME phase = "ready", NEW c, NEW cap, NEW size, StartCopy(c, cap, size)
  PROVE  Abs!Refuse \/ UNCHANGED <<MapOf(tbl), AbsPhase, ret>>
<1>1. \/ phase' = "copy" /\ tbl' = tbl /\ ret' = ret
      \/ phase' = "ready" /\ tbl' = tbl /\ ret' = "fail"
  BY DEF StartCopy, Refuses, Returns
<1> QED BY <1>1 DEF Abs!Refuse, AbsPhase

LEMMA CreateMeans ==
  ASSUME RefInv, NEW cap \in CreateCaps, NEW size \in CreateSizes, Create(cap, size)
  PROVE  Abs!Create \/ Abs!Refuse
<1>1. cap \in Nat
  BY BoundAssumption
<1>2. PICK t \in CreateResults(cap, size) :
        IF ValidTable(t) THEN phase' = "ready" /\ tbl' = t /\ Returns("ok")
                         ELSE Refuses
  BY DEF Create
<1>3. phase = "none" /\ tbl = NULL
  BY DEF Create, RefInv, NoTable
<1>4. CASE ValidTable(t)
  <2>1. MapOf(t) = MapOf(tbl)
    BY <1>1, <1>3, CreateGoodMap, MapOfEmpty
  <2> QED BY <1>2, <1>3, <1>4, <2>1 DEF Abs!Create, Returns
<1>5. CASE ~ValidTable(t)
  BY <1>2, <1>3, <1>5 DEF Abs!Refuse, Refuses, Returns
<1> QED BY <1>4, <1>5

LEMMA CopyEntryMeans ==
  ASSUME RefInv, CopyEntry
  PROVE  UNCHANGED <<MapOf(tbl), AbsPhase, ret>>
<1>1. /\ GoodType(tbl) /\ GoodLayout(tbl) /\ tbl.cnt \in Nat /\ i \in Nat /\ new.mem \in Arena
  BY GoodTypeFields DEF RefInv, TypeInv, TypeOK, GoodType, LayoutInv, GoodLayout
<1>2. phase = "copy" /\ i \in Entries(tbl)
  BY <1>1 DEF CopyEntry, Copying, Entries
<1>3. new.mem.cur <= tbl.ents[i].koff /\ tbl.mem.size <= new.mem.size
  BY <1>1, <1>2 DEF RefInv, LayoutInv, CopyFits, NextAt, CopyEntry, Copying
<1>4. PairFits(new.mem, tbl.ents[i].key, tbl.ents[i].val)
  BY <1>1, <1>2, <1>3, CopiedEntryFits
<1> QED BY <1>4 DEF CopyEntry, AbsPhase

LEMMA RefinesStep == RefInv /\ [Next]_vars => [Abs!Next]_(Abs!vars)
<1> SUFFICES ASSUME RefInv, [Next]_vars
             PROVE  Abs!Next \/ UNCHANGED <<MapOf(tbl), AbsPhase, ret>>
  BY DEF Abs!vars, AbsPhase
<1>1. ASSUME NEW cap \in CreateCaps, NEW size \in CreateSizes, Create(cap, size)
      PROVE  Abs!Next
  BY <1>1, CreateMeans DEF Abs!Next
<1>2. CASE Destroy
  <2>1. phase = "ready" /\ phase' = "none" /\ tbl' = NULL /\ ret' = "ok"
    BY <1>2 DEF Destroy, Returns
  <2>2. MapOf(tbl)' = [n \in Keys |-> NoVal]
    BY <2>1, MapOfNull
  <2>3. Abs!Gone("none")
    BY <2>1, <2>2 DEF Abs!Gone, Abs!EmptyMap
  <2> QED BY <2>3 DEF Abs!Next
<1>3. ASSUME NEW k \in Keys, LookupKey(k) PROVE Abs!Next
  BY <1>3, LookupMeans DEF Abs!Next
<1>4. ASSUME NEW k \in Keys, Remove(k) PROVE Abs!Next
  BY <1>4, RemoveMeans DEF Abs!Next
<1>5. ASSUME NEW k \in Keys, NEW v \in Vals, InsertRefused(k, v) PROVE Abs!Next
  BY <1>5 DEF InsertRefused, Refuses, Returns, Abs!Refuse, Abs!Next
<1>6. ASSUME NEW k \in Keys, NEW v \in Vals, InsertInPlace(k, v) PROVE Abs!Next
  BY <1>6, InPlaceMeans DEF Abs!Next
<1>7. ASSUME NEW k \in Keys, NEW v \in Vals, InsertResize(k, v)
      PROVE  Abs!Next \/ UNCHANGED <<MapOf(tbl), AbsPhase, ret>>
  BY <1>7, StartCopyMeans DEF InsertResize, Abs!Next
<1>8. CASE Compact
  BY <1>8, StartCopyMeans DEF Compact, Abs!Next
<1>9. CASE SkipDeleted
  BY <1>9 DEF SkipDeleted, AbsPhase
<1>10. CASE CopyEntry
  BY <1>10, CopyEntryMeans
<1>11. CASE CompactDone
  <2>1. phase = "copy" /\ phase' = "ready" /\ tbl' = new /\ ret' = "ok"
    BY <1>11 DEF CompactDone, CopyDone, Returns
  <2>2. MapOf(tbl)' = MapOf(tbl)
    BY <1>11, <2>1, CopyIsMap DEF RefInv, CompactDone
  <2> QED BY <2>1, <2>2 DEF Abs!Compact, Abs!Next
<1>12. CASE InsertResized
  <2>1. CASE Abs!Put(call.key, call.val)
    BY <1>12, <2>1, ResizedMeans DEF Abs!Next
  <2>2. CASE phase' \in {"aborted", "dangling"} /\ Abs!Gone(phase')
    BY <2>2 DEF Abs!Next
  <2> QED BY <1>12, <2>1, <2>2, ResizedMeans
<1>13. CASE Restart
  BY <1>13 DEF Restart, Returns, Abs!Restart, Abs!Next
<1>14. CASE UNCHANGED vars
  BY <1>14 DEF vars, AbsPhase
<1> QED
  BY <1>1, <1>2, <1>3, <1>4, <1>5, <1>6, <1>7, <1>8, <1>9, <1>10, <1>11, <1>12,
     <1>13, <1>14 DEF Next, Calls, CopyStep

LEMMA CallsMeanStep == RefInv => CallsMean
BY LookupMeans, RemoveMeans, InPlaceMeans, ResizedMeans DEF CallsMean, InsertReturns

(***************************************************************************)
(* The table implements the map (Refines): as long as there is a table, a  *)
(* lookup returns what was last put under its key, a removal takes away    *)
(* that key alone, a refused call and one that copies change nothing, and  *)
(* nothing is lost but with the whole table.                               *)
(***************************************************************************)
THEOREM TableIsMap == Spec => Refines
<1>1. RefInv /\ [Next]_vars => [CallsMean]_vars
  BY CallsMeanStep
<1> QED
  BY RefInvInit, RefInvStep, RefinesInit, RefinesStep, <1>1, PTL
     DEF Spec, Refines, Abs!Spec
=============================================================================

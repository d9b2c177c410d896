--------------------------- MODULE KVFile_proofs ----------------------------
(***************************************************************************)
(* Theorems about KVFile, for every set of keys and values, every hash,    *)
(* all lengths, key lengths beyond the file's words included, all bounds   *)
(* and with or without power losses: no load brings back a mixture, a save *)
(* that returned 0 is what the next load returns, and a table from a file  *)
(* is a table; what the last NUL costs that a save leaves out.  And about  *)
(* the programs: they are clients of the table and its file, so that all   *)
(* this holds of them; none loses its table; and what they show is what    *)
(* was typed.                                                              *)
(***************************************************************************)
EXTENDS KVPrograms, KVTable_proofs

-----------------------------------------------------------------------------
(***************************************************************************)
(* Where values end.  A table that came from a file lacks the last NUL, so *)
(* that Layout does not hold of it; what does is that the values end in    *)
(* the order of the entries and below the cursor, each without its NUL.    *)
(***************************************************************************)
EndOf(e) == e.voff + VLen[e.val]

Ends(t) ==
  /\ t.mem.cur <= t.mem.size
  /\ \A j \in Entries(t) : EndOf(t.ents[j]) <= t.mem.cur
  /\ \A j, m \in Entries(t) : j < m => EndOf(t.ents[j]) <= EndOf(t.ents[m])

LEMMA FilledEnds ==
  ASSUME NEW cap \in Nat, NEW t \in TableOf(cap), Filled(t), NEW j \in Entries(t)
  PROVE  EndOf(t.ents[j]) \in Nat
<1>1. t.ents[j].val \in Vals /\ t.ents[j].voff \in Nat
  BY FilledKeys
<1>2. VLen[t.ents[j].val] \in Nat
  BY <1>1, DataAssumption
<1> QED BY <1>1, <1>2 DEF EndOf

LEMMA NewEnds == ASSUME NEW cap, NEW size \in Nat PROVE Ends(NewTable(cap, size))
BY DEF Ends, NewTable, ArenaInit, Entries

LEMMA RemoveEnds ==
  ASSUME NEW cap \in Nat, NEW t \in TableOf(cap), Ends(t), NEW k
  PROVE  Ends(RemoveKey(t, k))
<1>1. CASE Lookup(t, k) < 0
  BY <1>1 DEF RemoveKey
<1>2. CASE ~(Lookup(t, k) < 0)
  <2> DEFINE r == RemoveKey(t, k)
             n == Lookup(t, k)
  <2>1. /\ r.cnt = t.cnt /\ r.mem = t.mem
        /\ r.ents = [t.ents EXCEPT ![n] = [t.ents[n] EXCEPT !.stat = "DELETED"]]
    BY <1>2, RemoveFields
  <2> HIDE DEF r, n
  <2>2. Entries(r) = Entries(t)
    BY <2>1 DEF Entries
  <2>3. ASSUME NEW j \in Entries(t) PROVE EndOf(r.ents[j]) = EndOf(t.ents[j])
    <3>1. t.ents[j] \in KVEntry /\ j \in DOMAIN t.ents
      BY DEF TableOf, Entries
    <3>2. r.ents[j] = t.ents[j] \/ r.ents[j] = [t.ents[j] EXCEPT !.stat = "DELETED"]
      BY <2>1, <3>1
    <3>3. r.ents[j].voff = t.ents[j].voff /\ r.ents[j].val = t.ents[j].val
      BY <3>1, <3>2 DEF KVEntry
    <3> QED BY <3>3 DEF EndOf
  <2>4. Ends(r)
    BY <2>1, <2>2, <2>3 DEF Ends
  <2> QED BY <2>4 DEF r
<1> QED BY <1>1, <1>2

LEMMA AppendEnds ==
  ASSUME NEW cap \in Nat, NEW t \in TableOf(cap), Filled(t), Ends(t), t.cnt < cap,
         NEW k \in Keys, NEW v \in Vals
  PROVE  Ends(AppendEntry(t, k, v))
<1>1. CASE ~PairFits(t.mem, k, v)
  BY <1>1, FailedAppend
<1>2. CASE PairFits(t.mem, k, v)
  <2> DEFINE r == AppendEntry(t, k, v)
             e == EntryFor(t, k, v)
             end == PairEnd(t.mem, k, v)
  <2>1. t.mem \in Arena /\ t.cnt \in 0..cap-1 /\ t.ents \in [0..cap-1 -> KVEntry]
    BY DEF TableOf
  <2>2. /\ end \in Nat /\ ValAt(t.mem, k) \in Nat /\ VLen[v] \in Nat /\ t.mem.cur \in Nat
        /\ t.mem.cur <= ValAt(t.mem, k) /\ end = ValAt(t.mem, k) + VLen[v] + 1
    <3>1. /\ end \in Nat /\ KeyAt(t.mem) \in Nat /\ ValAt(t.mem, k) \in Nat /\ KLen[k] \in Nat
          /\ t.mem.cur <= KeyAt(t.mem) /\ KeyAt(t.mem) + KLen[k] + 1 <= ValAt(t.mem, k)
          /\ VLen[v] \in Nat
      BY <2>1, PairPlaces
    <3>2. t.mem.cur \in Nat
      BY <2>1 DEF Arena
    <3>3. end = ValAt(t.mem, k) + VLen[v] + 1
      BY DEF PairEnd
    <3> HIDE DEF end
    <3> QED BY <3>1, <3>2, <3>3
  <2>3. /\ r.cnt = t.cnt + 1 /\ r.ents = [t.ents EXCEPT ![t.cnt] = e]
        /\ r.mem = [cur |-> end, size |-> t.mem.size] /\ end <= t.mem.size
        /\ EndOf(e) = ValAt(t.mem, k) + VLen[v]
    <3>1. /\ AllocVal(t.mem, k, v).off = ValAt(t.mem, k) /\ end <= t.mem.size
          /\ AllocVal(t.mem, k, v).mem = [cur |-> end, size |-> t.mem.size]
      BY <1>2, <2>1, PairFitsIff
    <3>2. EndOf(e) = ValAt(t.mem, k) + VLen[v]
      BY <3>1 DEF EntryFor, EndOf
    <3> QED BY <1>2, <3>1, <3>2, AppendFields
  <2> HIDE DEF r, e, end
  <2>4. Entries(r) = Entries(t) \cup {t.cnt} /\ t.cnt \notin Entries(t)
    BY <2>1, <2>3 DEF Entries
  <2>5. /\ EndOf(r.ents[t.cnt]) = EndOf(e) /\ t.mem.cur <= EndOf(e) /\ EndOf(e) <= end
        /\ EndOf(e) \in Nat
    <3>1. r.ents[t.cnt] = e
      BY <2>1, <2>3
    <3>2. t.mem.cur <= EndOf(e) /\ EndOf(e) <= end /\ EndOf(e) \in Nat
      BY <2>2, <2>3
    <3> QED BY <3>1, <3>2
  <2>6. \A j \in Entries(t) :
          /\ EndOf(r.ents[j]) = EndOf(t.ents[j]) /\ EndOf(t.ents[j]) <= t.mem.cur
          /\ EndOf(t.ents[j]) \in Nat /\ j < t.cnt /\ j \in Nat
    <3> SUFFICES ASSUME NEW j \in Entries(t)
                 PROVE  /\ r.ents[j] = t.ents[j] /\ EndOf(t.ents[j]) <= t.mem.cur
                        /\ EndOf(t.ents[j]) \in Nat /\ j < t.cnt /\ j \in Nat
      OBVIOUS
    <3>1. j \in 0..cap-1 /\ j # t.cnt /\ j < t.cnt /\ j \in Nat
      BY <2>1 DEF Entries
    <3> QED BY <2>1, <2>3, <3>1, FilledEnds DEF Ends
  <2>7. r.mem.cur = end /\ r.mem.size = t.mem.size /\ end \in Nat /\ t.mem.cur \in Nat
    BY <2>2, <2>3
  <2>8. \A j \in Entries(r) : EndOf(r.ents[j]) <= r.mem.cur
    BY <2>2, <2>4, <2>5, <2>6, <2>7
  <2>9. ASSUME NEW j \in Entries(r), NEW m \in Entries(r), j < m
        PROVE  EndOf(r.ents[j]) <= EndOf(r.ents[m])
    <3>1. CASE j \in Entries(t) /\ m \in Entries(t)
      BY <2>6, <2>9, <3>1 DEF Ends
    <3>2. CASE j \in Entries(t) /\ m = t.cnt
      BY <2>5, <2>6, <2>7, <3>2
    <3>3. CASE j = t.cnt
      BY <2>1, <2>4, <2>6, <2>9, <3>3
    <3> QED BY <2>4, <3>1, <3>2, <3>3
  <2>10. Ends(r)
    BY <2>3, <2>7, <2>8, <2>9 DEF Ends
  <2> QED BY <2>10 DEF r
<1> QED BY <1>1, <1>2

-----------------------------------------------------------------------------
(***************************************************************************)
(* What a call of the table makes its two tables of: a fresh table, or one *)
(* of the two, with a key removed, a pair inserted or an entry copied.     *)
(***************************************************************************)
Derived(t) ==
  \/ t \in {tbl, new}
  \/ \E cap \in Nat, size \in Nat : t \in CreateResults(cap, size)
  \/ \E k \in Keys : t = RemoveKey(tbl, k)
  \/ \E s \in {tbl, new}, k \in Keys, v \in Vals :
       s.cnt < s.cap /\ t = AppendEntry(RemoveKey(s, k), k, v)
  \/ \E k \in Keys, v \in Vals :
       new.cnt < new.cap /\ PairFits(new.mem, k, v) /\ t = AppendEntry(new, k, v)

LEMMA NullDerived == Derived(NULL)
<1>1. NULL \in CreateResults(0, 0)
  BY DEF CreateResults
<1> QED BY <1>1 DEF Derived

LEMMA InsertIntoDerived ==
  ASSUME NEW t \in {tbl, new}, t.cnt < t.cap, NEW k \in Keys, NEW v \in Vals,
         InsertInto(t, k, v)
  PROVE  Derived(tbl') /\ Derived(new')
<1>1. tbl' = AppendEntry(RemoveKey(t, k), k, v) \/ tbl' = NULL
  BY DEF InsertInto, Aborts
<1>2. new' = NULL
  BY DEF InsertInto, Aborts, Returns
<1>3. Derived(AppendEntry(RemoveKey(t, k), k, v))
  BY DEF Derived
<1> QED BY <1>1, <1>2, <1>3, NullDerived

LEMMA StartCopyDerived ==
  ASSUME NEW c, NEW cap \in Nat, NEW size \in Nat, StartCopy(c, cap, size)
  PROVE  Derived(tbl') /\ Derived(new')
<1>1. PICK t \in CreateResults(cap, size) : (new' = t \/ new' = NULL) /\ tbl' = tbl
  BY DEF StartCopy, Refuses, Returns
<1>2. Derived(t) /\ Derived(tbl)
  BY DEF Derived
<1> QED BY <1>1, <1>2, NullDerived

LEMMA DerivedStep ==
  ASSUME TypeInv, [Next]_vars
  PROVE  Derived(tbl') /\ Derived(new')
<1>1. /\ GoodType(tbl) /\ GoodType(new) /\ tbl.cap \in Nat /\ tbl.cnt \in 0..tbl.cap
      /\ tbl.mem \in Arena /\ new.cap \in Nat /\ new.cnt \in 0..new.cap /\ i \in Nat
      /\ tbl.mem.size \in Nat
  BY GoodTypeFields DEF TypeInv, TypeOK, GoodType, Arena
<1>2. Derived(NULL) /\ Derived(tbl) /\ Derived(new)
  BY NullDerived DEF Derived
<1>3. ASSUME NEW cap \in CreateCaps, NEW size \in CreateSizes, Create(cap, size)
      PROVE  Derived(tbl') /\ Derived(new')
  <2>1. PICK t \in CreateResults(cap, size) : (tbl' = t \/ tbl' = tbl) /\ new' = NULL
    BY <1>3 DEF Create, Refuses, Returns
  <2>2. cap \in Nat /\ size \in Nat
    BY BoundAssumption
  <2>3. Derived(t)
    BY <2>2 DEF Derived
  <2> QED BY <1>2, <2>1, <2>3
<1>4. ASSUME NEW k \in Keys, Remove(k) PROVE Derived(tbl') /\ Derived(new')
  <2>1. tbl' = RemoveKey(tbl, k) /\ new' = NULL
    BY <1>4 DEF Remove, Returns
  <2>2. Derived(RemoveKey(tbl, k))
    BY DEF Derived
  <2> QED BY <1>2, <2>1, <2>2
<1>5. ASSUME NEW k \in Keys, NEW v \in Vals, InsertInPlace(k, v)
      PROVE  Derived(tbl') /\ Derived(new')
  <2>1. tbl.cnt < tbl.cap /\ InsertInto(tbl, k, v)
    BY <1>1, <1>5 DEF InsertInPlace, ShouldResize, CapShouldResize
  <2> QED BY <2>1, InsertIntoDerived
<1>6. ASSUME NEW k \in Keys, NEW v \in Vals, InsertResize(k, v)
      PROVE  Derived(tbl') /\ Derived(new')
  <2>1. ResizeCap(tbl) \in Nat /\ ResizeMem(tbl, k, v) \in Nat
    BY <1>1 DEF ResizeCap, ResizeMem, Arena
  <2> QED BY <1>6, <2>1, StartCopyDerived DEF InsertResize
<1>7. CASE Compact
  BY <1>1, <1>7, StartCopyDerived DEF Compact
<1>8. CASE CopyEntry
  <2> DEFINE e == tbl.ents[i]
  <2>1. e.key \in Keys /\ e.val \in Vals /\ new.cnt < new.cap
    <3>1. phase = "copy" /\ i \in 0..tbl.cnt-1
      BY <1>1, <1>8 DEF CopyEntry, Copying
    <3>2. new.cnt <= i /\ tbl.cap <= new.cap
      BY <3>1 DEF TypeInv, CopyRoom
    <3> QED BY <1>1, <3>1, <3>2 DEF GoodType, Filled
  <2>2. PairFits(new.mem, e.key, e.val) => Derived(AppendEntry(new, e.key, e.val))
    BY <2>1 DEF Derived
  <2>3. \/ PairFits(new.mem, e.key, e.val) /\ new' = AppendEntry(new, e.key, e.val) /\ tbl' = tbl
        \/ new' = NULL /\ tbl' \in {tbl, NULL}
    BY <1>8 DEF CopyEntry, Aborts, Returns
  <2> QED BY <1>2, <2>2, <2>3
<1>9. CASE InsertResized
  <2>1. call.key \in Keys /\ call.val \in Vals /\ new.cnt < new.cap
    BY <1>1, <1>9 DEF InsertResized, CopyDone, TypeInv, CopyRoom
  <2>2. InsertInto(new, call.key, call.val)
    BY <1>9 DEF InsertResized
  <2> QED BY <2>1, <2>2, InsertIntoDerived
<1>10. CASE Destroy \/ (\E k \in Keys : LookupKey(k)) \/ SkipDeleted \/ CompactDone \/ Restart
            \/ UNCHANGED vars
  BY <1>2, <1>10 DEF Destroy, LookupKey, SkipDeleted, CompactDone, Restart, vars, Returns
<1>11. ASSUME NEW k \in Keys, NEW v \in Vals, InsertRefused(k, v)
       PROVE  Derived(tbl') /\ Derived(new')
  BY <1>2, <1>11 DEF InsertRefused, Refuses, Returns
<1> QED
  BY <1>3, <1>4, <1>5, <1>6, <1>7, <1>8, <1>9, <1>10, <1>11 DEF Next, Calls, CopyStep

\* Such a table finds its entries and has its values in order if both did.
LEMMA DerivedSound ==
  ASSUME TypeInv, IndexOK, Ends(tbl), Ends(new), NEW t, Derived(t)
  PROVE  IndexAgrees(t) /\ Ends(t)
<1>1. /\ GoodType(tbl) /\ GoodType(new) /\ tbl.cap \in Nat /\ new.cap \in Nat
      /\ tbl \in TableOf(tbl.cap) /\ new \in TableOf(new.cap)
      /\ IndexAgrees(tbl) /\ IndexAgrees(new)
  BY GoodTypeFields DEF TypeInv, TypeOK, GoodType, IndexOK
<1>2. ASSUME NEW cap \in Nat, NEW size \in Nat, t \in CreateResults(cap, size)
      PROVE  IndexAgrees(t) /\ Ends(t)
  BY <1>2, NewIndexAgrees, NewEnds DEF CreateResults, NULL
<1>3. ASSUME NEW k \in Keys, t = RemoveKey(tbl, k) PROVE IndexAgrees(t) /\ Ends(t)
  BY <1>1, <1>3, RemoveIndexAgrees, RemoveEnds
<1>4. ASSUME NEW s \in {tbl, new}, NEW k \in Keys, NEW v \in Vals,
             s.cnt < s.cap, t = AppendEntry(RemoveKey(s, k), k, v)
      PROVE  IndexAgrees(t) /\ Ends(t)
  <2> DEFINE r == RemoveKey(s, k)
  <2>1. s \in TableOf(s.cap) /\ s.cap \in Nat /\ Filled(s) /\ IndexAgrees(s) /\ Ends(s)
    BY <1>1 DEF GoodType
  <2>2. r \in TableOf(s.cap) /\ Filled(r) /\ IndexAgrees(r) /\ Ends(r) /\ r.cnt < s.cap
    BY <1>4, <2>1, RemoveType, RemoveIndexAgrees, RemoveEnds
  <2> HIDE DEF r
  <2>3. IndexAgrees(AppendEntry(r, k, v))
    BY <2>1, <2>2, AppendIndexAgrees, FailedAppend
  <2>4. Ends(AppendEntry(r, k, v))
    BY <2>1, <2>2, AppendEnds
  <2> QED BY <1>4, <2>3, <2>4 DEF r
<1>5. ASSUME NEW k \in Keys, NEW v \in Vals,
             new.cnt < new.cap, PairFits(new.mem, k, v), t = AppendEntry(new, k, v)
      PROVE  IndexAgrees(t) /\ Ends(t)
  BY <1>1, <1>5, AppendIndexAgrees, AppendEnds DEF GoodType
<1> QED BY <1>1, <1>2, <1>3, <1>4, <1>5 DEF Derived

-----------------------------------------------------------------------------
(***************************************************************************)
(* Images: what a save is given, and the checksum of the file it makes of  *)
(* it.  A sum is taken from one image only, so a file whose footer has the *)
(* sum of an image, and whose contents have the footer's, is that image's. *)
(***************************************************************************)
IsImageOf(img, cnt) ==
  /\ img \in [0..cnt-1 -> KVEntry]
  /\ \A j \in 0..cnt-1 :
       /\ img[j].key \in Keys /\ img[j].val \in Vals /\ img[j].stat \in {"INUSE", "DELETED"}
  /\ \A j, m \in 0..cnt-1 : j < m => EndOf(img[j]) <= EndOf(img[m])

DatOff(cnt) == TocOff + AlignOffset(cnt * FENTRY_SIZE, KVTBL_MEM_ALIGN)
DatSize(img, cnt) == AlignOffset(EndOf(img[cnt - 1]), KVTBL_MEM_ALIGN)

ImageHeader(img, cnt) ==
  [magic |-> TRUE, kvcnt |-> cnt, kvdatoff |-> DatOff(cnt),
   fftroff |-> DatOff(cnt) + DatSize(img, cnt)]
ImageToc(img, cnt) == [j \in 0..cnt-1 |->
  [flags |-> img[j].stat, klen |-> KLen[img[j].key] % WordMod,
   koff |-> img[j].koff, voff |-> img[j].voff]]
ImageData(img, cnt) == [j \in 0..cnt-1 |-> [key |-> img[j].key, val |-> img[j].val]]

SumOf(img, cnt) == <<ImageHeader(img, cnt), ImageToc(img, cnt), ImageData(img, cnt)>>

IsSum(c, img) == \E cnt \in 1..MaxCap : IsImageOf(img, cnt) /\ c = SumOf(img, cnt)

LEMMA SumUnique ==
  ASSUME NEW c, NEW a, NEW b, IsSum(c, a), IsSum(c, b)
  PROVE  a = b
<1>1. PICK cnt \in 1..MaxCap : IsImageOf(a, cnt) /\ c = SumOf(a, cnt)
  BY DEF IsSum
<1>2. PICK n \in 1..MaxCap : IsImageOf(b, n) /\ c = SumOf(b, n)
  BY DEF IsSum
<1>3. ImageHeader(a, cnt) = ImageHeader(b, n) /\ ImageToc(a, cnt) = ImageToc(b, n)
      /\ ImageData(a, cnt) = ImageData(b, n)
  BY <1>1, <1>2 DEF SumOf
<1>4. n = cnt
  <2>1. ImageHeader(a, cnt).kvcnt = cnt /\ ImageHeader(b, n).kvcnt = n
    BY DEF ImageHeader
  <2> QED BY <1>3, <2>1
<1>5. ASSUME NEW j \in 0..cnt-1 PROVE a[j] = b[j]
  <2>1. a[j] \in KVEntry /\ b[j] \in KVEntry
    BY <1>1, <1>2, <1>4 DEF IsImageOf
  <2>2. ImageToc(a, cnt)[j] = ImageToc(b, cnt)[j] /\ ImageData(a, cnt)[j] = ImageData(b, cnt)[j]
    BY <1>3, <1>4
  <2>3. a[j].stat = b[j].stat /\ a[j].koff = b[j].koff /\ a[j].voff = b[j].voff
    BY <2>2 DEF ImageToc
  <2>4. a[j].key = b[j].key /\ a[j].val = b[j].val
    BY <2>2 DEF ImageData
  <2> QED BY <2>1, <2>3, <2>4 DEF KVEntry
<1> QED BY <1>1, <1>2, <1>4, <1>5 DEF IsImageOf

LEMMA AlignedStays ==
  ASSUME NEW n \in Nat
  PROVE  AlignOffset(n * FENTRY_SIZE, KVTBL_MEM_ALIGN) = n * FENTRY_SIZE
<1>1. ((n * 16 + 4 - 1) \div 4) = n * 4
  OBVIOUS
<1> QED BY <1>1 DEF AlignOffset, FENTRY_SIZE, KVTBL_MEM_ALIGN

\* The numbers of an image's header, and what a load makes of them.
LEMMA ImageNumbers ==
  ASSUME NEW img, NEW cnt \in 1..MaxCap, IsImageOf(img, cnt)
  PROVE  /\ cnt \in Nat /\ cnt \in 0..MaxCap
         /\ DatOff(cnt) \in Nat /\ DatSize(img, cnt) \in Nat
         /\ DatOff(cnt) - TocOff = cnt * FENTRY_SIZE
         /\ (DatOff(cnt) + DatSize(img, cnt)) - DatOff(cnt) = DatSize(img, cnt)
         /\ \A j \in 0..cnt-1 : EndOf(img[j]) \in Nat /\ EndOf(img[j]) <= DatSize(img, cnt)
<1>1. cnt \in Nat /\ cnt \in 0..MaxCap /\ cnt - 1 \in 0..cnt-1
  BY BoundAssumption
<1>2. ASSUME NEW j \in 0..cnt-1 PROVE EndOf(img[j]) \in Nat
  <2>1. img[j] \in KVEntry /\ img[j].val \in Vals
    BY DEF IsImageOf
  <2>2. img[j].voff \in Nat /\ VLen[img[j].val] \in Nat
    BY <2>1, DataAssumption DEF KVEntry
  <2> QED BY <2>2 DEF EndOf
<1>3. TocOff \in Nat
  BY DEF TocOff, AlignOffset, FHDR_SIZE, KVTBL_MEM_ALIGN
<1>4. cnt * FENTRY_SIZE \in Nat
  BY <1>1 DEF FENTRY_SIZE
<1>5. DatOff(cnt) = TocOff + cnt * FENTRY_SIZE
  BY <1>1, AlignedStays DEF DatOff
<1>6. DatSize(img, cnt) \in Nat /\ EndOf(img[cnt - 1]) <= DatSize(img, cnt)
  BY <1>1, <1>2, AlignOffset4 DEF DatSize, KVTBL_MEM_ALIGN
<1>7. ASSUME NEW j \in 0..cnt-1 PROVE EndOf(img[j]) <= DatSize(img, cnt)
  <2>1. EndOf(img[j]) <= EndOf(img[cnt - 1])
    <3>1. j = cnt - 1 \/ j < cnt - 1
      BY <1>1
    <3> QED BY <1>1, <1>2, <3>1 DEF IsImageOf
  <2> QED BY <1>1, <1>2, <1>6, <2>1
<1> QED BY <1>1, <1>2, <1>3, <1>4, <1>5, <1>6, <1>7

\* The three chunks a save writes are the sum of the table's image.
LEMMA SumOfTable ==
  ASSUME NEW t, GoodType(t), Ends(t), t.cnt > 0
  PROVE  /\ IsImageOf(Image(t), t.cnt) /\ t.cnt \in 1..MaxCap
         /\ <<HeaderOf(t), TocOf(t), DataOf(t)>> = SumOf(Image(t), t.cnt)
         /\ IsSum(<<HeaderOf(t), TocOf(t), DataOf(t)>>, Image(t))
         /\ FftrOff(t) = DatOff(t.cnt) + DatSize(Image(t), t.cnt)
<1>1. /\ t.cnt \in 1..MaxCap /\ t.cnt \in 0..t.cap /\ t.ents \in [0..t.cap-1 -> KVEntry]
      /\ t.cap \in Nat /\ t.cnt \in Nat /\ MaxCap \in Nat
  BY GoodTypeFields, BoundAssumption DEF GoodType
<1>2. Entries(t) = 0..t.cnt-1 /\ t.cnt - 1 \in 0..t.cnt-1
  BY <1>1 DEF Entries
<1>3. \A j \in 0..t.cnt-1 : Image(t)[j] = t.ents[j] /\ t.ents[j] \in KVEntry
  BY <1>1, <1>2 DEF Image
<1>4. IsImageOf(Image(t), t.cnt)
  <2>1. Image(t) \in [0..t.cnt-1 -> KVEntry]
    BY <1>2, <1>3 DEF Image
  <2> QED BY <1>2, <1>3, <2>1 DEF IsImageOf, GoodType, Filled, Ends
<1>5. EndCur(t) = EndOf(Image(t)[t.cnt - 1])
  BY <1>2, <1>3 DEF EndCur, EndOf
<1>6. KvDatOff(t) = DatOff(t.cnt)
  BY DEF KvDatOff, DatOff
<1>7. FftrOff(t) = DatOff(t.cnt) + DatSize(Image(t), t.cnt)
  BY <1>5, <1>6 DEF FftrOff, DatSize
<1>8. HeaderOf(t) = ImageHeader(Image(t), t.cnt)
  BY <1>6, <1>7 DEF HeaderOf, ImageHeader
<1>9. TocOf(t) = ImageToc(Image(t), t.cnt)
  BY <1>2, <1>3 DEF TocOf, ImageToc
<1>10. DataOf(t) = ImageData(Image(t), t.cnt)
  BY <1>2, <1>3 DEF DataOf, ImageData
<1>11. <<HeaderOf(t), TocOf(t), DataOf(t)>> = SumOf(Image(t), t.cnt)
  BY <1>8, <1>9, <1>10 DEF SumOf
<1> QED BY <1>1, <1>4, <1>7, <1>11 DEF IsSum

-----------------------------------------------------------------------------
(***************************************************************************)
(* A table being loaded.  While it holds the first entries of an image as  *)
(* the file gives them back, its values end where the image's do; and if   *)
(* no key of the image was cut, its live keys are the image's.             *)
(***************************************************************************)
UniqueImage(img) ==
  \A j, m \in DOMAIN img :
    img[j].stat = "INUSE" /\ img[m].stat = "INUSE" /\ img[j].key = img[m].key => j = m

NoneCut(img) == \A j \in DOMAIN img : KLen[img[j].key] < WordMod

HoldsStart(t, img) == \A j \in 0..t.cnt-1 : t.ents[j] = AsFiled(img)[j]

LEMMA CutKeyFacts ==
  ASSUME NEW k \in Keys
  PROVE  /\ CutKey(k) \in Keys /\ KeyOfLen(k, KLen[k] % WordMod) = CutKey(k)
         /\ KLen[k] < WordMod => CutKey(k) = k
<1>1. KLen[k] \in Nat /\ WordMod \in Nat /\ WordMod > 0 /\ Prefix[k] \in Keys
  BY DataAssumption, FileAssumption
<1>2. KLen[k] < WordMod => KLen[k] % WordMod = KLen[k]
  BY <1>1
<1>3. ~(KLen[k] < WordMod) => KLen[k] % WordMod # KLen[k]
  BY <1>1
<1> QED BY <1>1, <1>2, <1>3 DEF CutKey, KeyOfLen

LEMMA FiledEntry ==
  ASSUME NEW img, NEW cnt \in 1..MaxCap, IsImageOf(img, cnt), NEW j \in 0..cnt-1
  PROVE  /\ img[j] \in KVEntry /\ img[j].key \in Keys /\ img[j].val \in Vals
         /\ AsFiled(img)[j] = [key |-> CutKey(img[j].key), val |-> img[j].val,
                               koff |-> img[j].koff, voff |-> img[j].voff, stat |-> img[j].stat]
         /\ AsFiled(img)[j] \in KVEntry
         /\ AsFiled(img)[j].key \in Keys /\ AsFiled(img)[j].stat \in {"INUSE", "DELETED"}
         /\ DOMAIN AsFiled(img) = 0..cnt-1 /\ DOMAIN img = 0..cnt-1
<1>1. /\ img[j] \in KVEntry /\ img[j].key \in Keys /\ img[j].val \in Vals
      /\ DOMAIN img = 0..cnt-1 /\ img[j].stat \in {"INUSE", "DELETED"}
  BY DEF IsImageOf
<1>2. CutKey(img[j].key) \in Keys
  BY <1>1, CutKeyFacts
<1>3. DOMAIN AsFiled(img) = 0..cnt-1 /\ AsFiled(img)[j] = [img[j] EXCEPT !.key = CutKey(img[j].key)]
  BY <1>1 DEF AsFiled
<1>4. [img[j] EXCEPT !.key = CutKey(img[j].key)] =
        [key |-> CutKey(img[j].key), val |-> img[j].val,
         koff |-> img[j].koff, voff |-> img[j].voff, stat |-> img[j].stat]
  BY <1>1 DEF KVEntry
<1>5. AsFiled(img)[j] \in KVEntry
  BY <1>1, <1>2, <1>3, <1>4 DEF KVEntry
<1>6. AsFiled(img)[j].key \in Keys /\ AsFiled(img)[j].stat \in {"INUSE", "DELETED"}
  BY <1>1, <1>2, <1>3, <1>4
<1> QED BY <1>1, <1>3, <1>4, <1>5, <1>6

LEMMA StartOfImage ==
  ASSUME NEW img, NEW cnt \in 1..MaxCap, IsImageOf(img, cnt),
         NEW t, t.cnt \in 0..cnt, HoldsStart(t, img),
         t.mem = [cur |-> DatSize(img, cnt), size |-> DatSize(img, cnt)]
  PROVE  /\ Ends(t) /\ Filled(t)
         /\ UniqueImage(img) /\ NoneCut(img) => UniqueKeys(t)
<1>1. /\ cnt \in Nat /\ DatSize(img, cnt) \in Nat
      /\ \A j \in 0..cnt-1 : EndOf(img[j]) \in Nat /\ EndOf(img[j]) <= DatSize(img, cnt)
  BY ImageNumbers
<1>2. ASSUME NEW j \in 0..t.cnt-1
      PROVE  /\ j \in 0..cnt-1 /\ EndOf(t.ents[j]) = EndOf(img[j])
             /\ t.ents[j].key = CutKey(img[j].key) /\ t.ents[j].stat = img[j].stat
             /\ t.ents[j].key \in Keys /\ t.ents[j].val \in Vals
             /\ t.ents[j].stat \in {"INUSE", "DELETED"}
  <2>1. j \in 0..cnt-1 /\ t.ents[j] = AsFiled(img)[j]
    BY <1>1 DEF HoldsStart
  <2>2. t.ents[j] = [key |-> CutKey(img[j].key), val |-> img[j].val,
                     koff |-> img[j].koff, voff |-> img[j].voff, stat |-> img[j].stat]
    BY <2>1, FiledEntry
  <2>3. EndOf(t.ents[j]) = EndOf(img[j])
    BY <2>2 DEF EndOf
  <2>4. t.ents[j].key \in Keys /\ t.ents[j].val \in Vals /\ t.ents[j].stat \in {"INUSE", "DELETED"}
    BY <2>1, <2>2, FiledEntry
  <2> QED BY <2>1, <2>2, <2>3, <2>4
<1>3. Filled(t)
  BY <1>2 DEF Filled
<1>4. Ends(t)
  <2>1. \A j \in 0..t.cnt-1 : EndOf(t.ents[j]) <= DatSize(img, cnt)
    BY <1>1, <1>2
  <2>2. \A j, m \in 0..t.cnt-1 : j < m => EndOf(t.ents[j]) <= EndOf(t.ents[m])
    BY <1>2 DEF IsImageOf
  <2>3. DatSize(img, cnt) <= DatSize(img, cnt)
    BY <1>1
  <2> QED BY <2>1, <2>2, <2>3 DEF Ends, Entries
<1>5. ASSUME UniqueImage(img), NoneCut(img) PROVE UniqueKeys(t)
  <2>1. ASSUME NEW j \in 0..t.cnt-1 PROVE t.ents[j].key = img[j].key /\ j \in DOMAIN img
    <3>1. j \in 0..cnt-1 /\ t.ents[j].key = CutKey(img[j].key)
      BY <1>2
    <3>2. img[j].key \in Keys /\ j \in DOMAIN img
      BY <3>1, FiledEntry
    <3> QED BY <1>5, <3>1, <3>2, CutKeyFacts DEF NoneCut
  <2>2. ASSUME NEW j \in Live(t), NEW m \in Live(t), t.ents[j].key = t.ents[m].key
        PROVE  j = m
    <3>1. j \in 0..t.cnt-1 /\ m \in 0..t.cnt-1 /\ t.ents[j].stat = "INUSE" /\ t.ents[m].stat = "INUSE"
      BY DEF Live, Entries
    <3>2. /\ img[j].stat = "INUSE" /\ img[m].stat = "INUSE" /\ img[j].key = img[m].key
          /\ j \in DOMAIN img /\ m \in DOMAIN img
      BY <1>2, <2>1, <2>2, <3>1
    <3> QED BY <1>5, <3>2 DEF UniqueImage
  <2> QED BY <2>2 DEF UniqueKeys
<1> QED BY <1>3, <1>4, <1>5

\* One entry more, from a file whose contents are an image's.
GoesOn(t, r, cap, img) ==
  /\ r \in TableOf(cap) /\ IndexAgrees(r) /\ r.cnt = t.cnt + 1 /\ r.mem = t.mem
  /\ r.ents = [t.ents EXCEPT ![t.cnt] = AsFiled(img)[t.cnt]]
  /\ DOMAIN t.ents = 0..cap-1 /\ t.cnt \in 0..cap-1

LEMMA LoadedNext ==
  ASSUME NEW f, NEW img, NEW cnt \in 1..MaxCap, IsImageOf(img, cnt), Crc(f) = SumOf(img, cnt),
         NEW cap \in Nat, NEW t \in TableOf(cap), IndexAgrees(t), cnt <= cap, t.cnt < cnt
  PROVE  GoesOn(t, Loaded(t, f, t.cnt), cap, img)
<1> DEFINE n == t.cnt
           k == CutKey(img[n].key)
           r == Loaded(t, f, n)
           e == [key |-> k, val |-> img[n].val, koff |-> img[n].koff,
                 voff |-> img[n].voff, stat |-> img[n].stat]
<1>1. /\ cnt \in Nat /\ n \in 0..cnt-1 /\ n \in 0..cap-1 /\ t.cap = cap /\ n \in Nat
      /\ t.ents \in [0..cap-1 -> KVEntry] /\ n + 1 \in 0..cap /\ t.mem \in Arena
      /\ t.idx \in [0..cap-1 -> {HT_KIDX_SLOT_EMPTY} \cup 0..cap-1]
      /\ t = [cap |-> cap, cnt |-> n, ents |-> t.ents, idx |-> t.idx, mem |-> t.mem]
  BY BoundAssumption DEF TableOf
<1>2. f.toc = ImageToc(img, cnt) /\ f.dat = ImageData(img, cnt)
  BY DEF Crc, SumOf
<1>3. /\ DataAt(f, n) = [key |-> img[n].key, val |-> img[n].val]
      /\ f.toc[n] = [flags |-> img[n].stat, klen |-> KLen[img[n].key] % WordMod,
                     koff |-> img[n].koff, voff |-> img[n].voff]
  BY <1>1, <1>2 DEF DataAt, ImageToc, ImageData
<1>4. /\ img[n].key \in Keys /\ k \in Keys /\ AsFiled(img)[n] = e /\ e \in KVEntry
      /\ KeyOfLen(img[n].key, KLen[img[n].key] % WordMod) = k
  <2>1. img[n].key \in Keys /\ AsFiled(img)[n] = e /\ AsFiled(img)[n] \in KVEntry
    <3>1. n \in 0..cnt-1
      BY <1>1
    <3> HIDE DEF n
    <3> QED BY <3>1, FiledEntry
  <2>2. k \in Keys /\ KeyOfLen(img[n].key, KLen[img[n].key] % WordMod) = k
    BY <2>1, CutKeyFacts
  <2> HIDE DEF k, e
  <2> QED BY <2>1, <2>2
<1>5. HashOf(k) = Hash[k]
  BY <1>4 DEF HashOf
<1>6. r = [cap |-> cap, cnt |-> n + 1, ents |-> [t.ents EXCEPT ![n] = e],
           idx |-> HashIndexInsert(t.idx, cap, Hash[k], n), mem |-> t.mem]
  <2> DEFINE K == KeyOfLen(DataAt(f, n).key, f.toc[n].klen)
             E == [key |-> K, val |-> DataAt(f, n).val, koff |-> f.toc[n].koff,
                   voff |-> f.toc[n].voff, stat |-> f.toc[n].flags]
  <2>1. r = [t EXCEPT !.ents[n] = E, !.cnt = n + 1,
                      !.idx = HashIndexInsert(t.idx, t.cap, HashOf(K), n)]
    BY DEF Loaded
  <2>2. K = k
    <3> HIDE DEF k
    <3> QED BY <1>3, <1>4
  <2>3. E = e
    <3> HIDE DEF k, K
    <3> QED BY <1>3, <2>2
  <2> HIDE DEF r, e, E, k, K
  <2>4. r = [t EXCEPT !.ents = [t.ents EXCEPT ![n] = e], !.cnt = n + 1,
                      !.idx = HashIndexInsert(t.idx, t.cap, Hash[k], n)]
    BY <1>5, <2>1, <2>2, <2>3
  <2> QED BY <1>1, <2>4
<1> HIDE DEF r, e, k
<1>7. e.key = k
  BY DEF e
<1>8. IndexAgrees(r)
  <2>1. /\ r.cap = cap /\ r.cnt = t.cnt + 1 /\ r.ents = [t.ents EXCEPT ![t.cnt] = e]
        /\ r.idx = HashIndexInsert(t.idx, cap, Hash[k], t.cnt) /\ t.cnt < cap
    BY <1>1, <1>6
  <2> QED BY <1>4, <1>7, <2>1, ExtendedIndexAgrees
<1>9. HashIndexInsert(t.idx, cap, Hash[k], n) \in [0..cap-1 -> {HT_KIDX_SLOT_EMPTY} \cup 0..cap-1]
  <2> DEFINE V == {HT_KIDX_SLOT_EMPTY} \cup 0..cap-1
  <2>1. n \in V /\ t.idx \in [0..cap-1 -> V]
    BY <1>1
  <2> HIDE DEF V
  <2>2. HashIndexInsert(t.idx, cap, Hash[k], n) \in [0..cap-1 -> V]
    BY <2>1, HashIndexInsertType
  <2> QED BY <2>2 DEF V
<1>10. r \in TableOf(cap)
  <2>1. [t.ents EXCEPT ![n] = e] \in [0..cap-1 -> KVEntry]
    BY <1>1, <1>4
  <2> QED BY <1>1, <1>6, <1>9, <2>1 DEF TableOf
<1> QED BY <1>1, <1>4, <1>6, <1>8, <1>10 DEF r, GoesOn

-----------------------------------------------------------------------------
(***************************************************************************)
(* The invariant.  Of the tables: beside their types, that they find their *)
(* entries and their values are in order; and MapInv, as long as no key    *)
(* was cut.                                                                *)
(***************************************************************************)
TablesTyped ==
  /\ GoodType(tbl) /\ GoodType(new) /\ call \in Call /\ i \in 0..MaxCap
  /\ ret \in {"ok", "fail"} \cup Vals \cup {NoVal} /\ ndebug \in Builds
  /\ CopyRoom

TablesInv ==
  /\ IndexOK /\ Ends(tbl) /\ Ends(new)
  /\ MapInv \/ KeyWasCut

(***************************************************************************)
(* Of the files: types; that a footer with its magic number holds the sum  *)
(* of some image that was saved, whatever the other chunks are by now; and *)
(* that those images have one live entry per key.                          *)
(***************************************************************************)
Images == UNION {[0..n-1 -> KVEntry] : n \in 1..MaxCap}

WholeFile(f) ==
  /\ f = [size |-> f.size, hdr |-> f.hdr, toc |-> f.toc, dat |-> f.dat, ftr |-> f.ftr]
  /\ IsFile(f)

FilesInv ==
  /\ phase \in {"none", "ready", "copy", "save", "load", "aborted", "dangling"}
  /\ ser \in {"idle", "size", "hdr", "toc", "dat", "ftr"}
  /\ (ser # "idle") <=> (phase = "save")
  /\ WholeFile(file) /\ WholeFile(disk)
  /\ saves \in Seq(Images) /\ Len(saves) <= MaxSaves /\ held \in 0..Len(saves)

SumInv(f) == f.ftr.magic => \E n \in DOMAIN saves : IsSum(f.ftr.crc, saves[n])

SavesInv == KeyWasCut \/ \A n \in DOMAIN saves : UniqueImage(saves[n])

(***************************************************************************)
(* During a save the chunks before its next step are the table's; the file *)
(* that is held passes a load's checks with the sum of its own save; and   *)
(* during a load the file keeps passing them, and the table holds the      *)
(* start of the image whose sum the file has.                              *)
(***************************************************************************)
SaveInv ==
  phase = "save" =>
    /\ tbl.cnt > 0 /\ saves # <<>> /\ saves[Len(saves)] = Image(tbl)
    /\ ser \in {"hdr", "toc", "dat", "ftr"} => held = 0 /\ file.size = FftrOff(tbl) + FFTR_SIZE
    /\ ser \in {"toc", "dat", "ftr"} => file.hdr = HeaderOf(tbl)
    /\ ser \in {"dat", "ftr"} => file.toc = TocOf(tbl)
    /\ ser = "ftr" => file.dat = DataOf(tbl)

HeldInv == held # 0 => LoadAccepts(file) /\ IsSum(Crc(file), saves[held])

LoadInv ==
  phase = "load" =>
    /\ LoadAccepts(file)
    /\ i <= file.hdr.kvcnt /\ file.hdr.kvcnt <= new.cap /\ new.cnt = i
    /\ new.mem = [cur |-> LoadMemSize(file), size |-> LoadMemSize(file)]
    /\ \A n \in DOMAIN saves : IsSum(Crc(file), saves[n]) => HoldsStart(new, saves[n])

FInv ==
  /\ TablesTyped /\ TablesInv /\ FilesInv
  /\ SumInv(file) /\ SumInv(disk) /\ SavesInv
  /\ SaveInv /\ HeldInv /\ LoadInv

-----------------------------------------------------------------------------
\* Between the steps of a call, and when no call changes the tables.
LEMMA TypeInvIs ==
  phase \in {"none", "ready", "copy", "aborted", "dangling"} => (TypeInv <=> TablesTyped)
BY DEF TypeInv, TypeOK, TablesTyped, GoodType

LEMMA NullEnds == Ends(NULL)
BY NewEnds DEF NULL

LEMMA TablesKept ==
  ASSUME TablesTyped, TablesInv, tbl' \in {tbl, new, NULL}, new' \in {new, NULL},
         phase' # "copy", call' \in {call, NoCall}, i' \in 0..MaxCap,
         ret' \in {ret, "ok", "fail"}, ndebug' = ndebug, KeyWasCut => KeyWasCut'
  PROVE  TablesTyped' /\ TablesInv'
<1>1. GoodType(NULL) /\ GoodMap(NULL) /\ Ends(NULL) /\ IndexAgrees(NULL)
  BY NullGood, NullGoodMap, NullEnds DEF GoodMap
<1>2. GoodType(tbl') /\ GoodType(new')
  BY <1>1 DEF TablesTyped
<1>3. call' \in Call /\ ret' \in {"ok", "fail"} \cup Vals \cup {NoVal}
  BY DEF TablesTyped, Call, NoCall
<1>4. TablesTyped'
  <2>1. GoodType(tbl)' /\ GoodType(new)'
    BY <1>2 DEF GoodType, IsTable, Filled
  <2> QED BY <1>3, <2>1 DEF TablesTyped, CopyRoom
<1>5. Ends(tbl') /\ Ends(new') /\ IndexAgrees(tbl') /\ IndexAgrees(new')
  BY <1>1 DEF TablesInv, IndexOK
<1>6. MapInv \/ KeyWasCut'
  BY DEF TablesInv
<1>7. MapInv => MapInv'
  <2>1. ASSUME MapInv PROVE GoodMap(tbl') /\ GoodMap(new')
    BY <1>1, <2>1 DEF MapInv
  <2> QED BY <2>1 DEF MapInv, CopyOrder, GoodMap, IndexAgrees, Reachable, UniqueKeys,
                      Live, Used, Entries
<1>8. TablesInv'
  <2>1. IndexOK' /\ Ends(tbl)' /\ Ends(new)'
    BY <1>5 DEF IndexOK, Ends, IndexAgrees, Reachable, Used, Entries
  <2> QED BY <1>6, <1>7, <2>1 DEF TablesInv
<1> QED BY <1>4, <1>8

LEMMA TablesUnchanged ==
  ASSUME TablesTyped, TablesInv, UNCHANGED vars, KeyWasCut => KeyWasCut'
  PROVE  TablesTyped' /\ TablesInv'
<1>1. phase' = phase /\ tbl' = tbl /\ new' = new /\ call' = call /\ i' = i /\ ret' = ret
      /\ ndebug' = ndebug
  BY DEF vars
<1>2. TablesTyped'
  BY <1>1 DEF TablesTyped, GoodType, IsTable, Filled, CopyRoom
<1>3. IndexOK' /\ Ends(tbl)' /\ Ends(new)'
  BY <1>1 DEF TablesInv, IndexOK, IndexAgrees, Reachable, Used, Entries, Ends
<1>4. MapInv => MapInv'
  BY <1>1 DEF MapInv, CopyOrder, GoodMap, IndexAgrees, Reachable, UniqueKeys,
              Live, Used, Entries, LiveBefore, Rank
<1> QED BY <1>2, <1>3, <1>4 DEF TablesInv

\* A call of the table alone.
LEMMA NextKeepsFiles ==
  ASSUME FInv, Next, UNCHANGED fileVars
  PROVE  FInv'
<1>1. phase \in {"none", "ready", "copy", "aborted", "dangling"}
  BY DEF Next, Calls, Create, Destroy, LookupKey, Remove, InsertRefused, InsertInPlace,
         InsertResize, Compact, CopyStep, SkipDeleted, CopyEntry, CompactDone, InsertResized,
         Copying, CopyDone, Restart
<1>2. TypeInv /\ TablesTyped /\ TablesInv
  BY <1>1, TypeInvIs DEF FInv
<1>3. TypeInv'
  BY <1>2, TypeInvStep
<1>4. /\ phase' \in {"none", "ready", "copy", "aborted", "dangling"} /\ TablesTyped'
  BY <1>3 DEF TypeInv, TypeOK, TablesTyped, GoodType
<1>5. /\ file' = file /\ disk' = disk /\ ser' = ser /\ saves' = saves /\ held' = held
  BY DEF fileVars
<1>6. TablesInv'
  <2>1. Derived(tbl') /\ Derived(new')
    BY <1>2, DerivedStep
  <2>2. /\ IndexAgrees(tbl') /\ Ends(tbl') /\ IndexAgrees(new') /\ Ends(new')
    BY <1>2, <2>1, DerivedSound DEF TablesInv
  <2>3. IndexOK' /\ Ends(tbl)' /\ Ends(new)'
    BY <2>2 DEF IndexOK, Ends, IndexAgrees, Reachable, Used, Entries
  <2>4. KeyWasCut => KeyWasCut'
    BY <1>5 DEF KeyWasCut
  <2>5. MapInv => MapInv'
    BY <1>2, MapInvStep
  <2> QED BY <1>2, <2>3, <2>4, <2>5 DEF TablesInv
<1>7. FilesInv'
  BY <1>1, <1>4, <1>5 DEF FInv, FilesInv, WholeFile, IsFile
<1>8. SumInv(file)' /\ SumInv(disk)' /\ SavesInv'
  BY <1>5 DEF FInv, SumInv, SavesInv, KeyWasCut
<1>9. SaveInv' /\ LoadInv'
  BY <1>4 DEF SaveInv, LoadInv
<1>10. HeldInv'
  BY <1>5 DEF FInv, HeldInv, LoadAccepts, Crc
<1> QED BY <1>4, <1>6, <1>7, <1>8, <1>9, <1>10 DEF FInv

-----------------------------------------------------------------------------
(***************************************************************************)
(* The steps of a save.                                                    *)
(***************************************************************************)
LEMMA AppendFacts ==
  ASSUME NEW S, NEW s \in Seq(S), NEW x \in S
  PROVE  /\ Append(s, x) \in Seq(S) /\ Len(Append(s, x)) = Len(s) + 1 /\ Len(s) \in Nat
         /\ Append(s, x)[Len(s) + 1] = x /\ Append(s, x) # <<>>
         /\ DOMAIN Append(s, x) = DOMAIN s \cup {Len(s) + 1}
         /\ \A n \in DOMAIN s : Append(s, x)[n] = s[n]
OBVIOUS

SavesStay == \A n \in DOMAIN saves : n \in DOMAIN saves' /\ saves'[n] = saves[n]

LEMMA SumKept ==
  ASSUME SumInv(file), SumInv(disk), SavesStay, NEW f, f.ftr \in {NoFooter, file.ftr, disk.ftr}
  PROVE  f.ftr.magic => \E n \in DOMAIN saves' : IsSum(f.ftr.crc, saves'[n])
<1>1. ~NoFooter.magic
  BY DEF NoFooter
<1> QED BY <1>1 DEF SumInv, SavesStay

LEMMA CutStays == SavesStay => (KeyWasCut => KeyWasCut')
BY DEF SavesStay, KeyWasCut

LEMMA EmptyWhole == WholeFile(EmptyFile) /\ EmptyFile.ftr = NoFooter
<1>1. 0 \in 0..MaxCap /\ 0 \in Nat
  BY BoundAssumption
<1> QED BY <1>1 DEF WholeFile, IsFile, EmptyFile, NoHeader, NoFooter

\* A save that fails, or one that ends: it changes no table.
LEMMA SaveReturnsKeeps ==
  ASSUME FInv, phase \in {"ready", "save"}, NEW r \in {"ok", "fail"}, SaveReturns(r), UNCHANGED <<saves, ndebug>>
  PROVE  /\ TablesTyped' /\ TablesInv' /\ SavesInv' /\ SaveInv' /\ LoadInv' /\ SavesStay
         /\ phase' = "ready" /\ ser' = "idle" /\ saves' = saves
<1>1. /\ phase' = "ready" /\ ser' = "idle" /\ ret' = r /\ tbl' = tbl /\ new' = new
      /\ call' = call /\ i' = i /\ saves' = saves /\ ndebug' = ndebug
  BY DEF SaveReturns
<1>2. SavesStay /\ (KeyWasCut => KeyWasCut') /\ i' \in 0..MaxCap
  BY <1>1, CutStays DEF SavesStay, FInv, TablesTyped
<1>3. TablesTyped' /\ TablesInv'
  <2>1. TablesTyped /\ TablesInv
    BY DEF FInv
  <2> QED BY <1>1, <1>2, <2>1, TablesKept
<1>4. SavesInv' /\ SaveInv' /\ LoadInv'
  BY <1>1 DEF FInv, SavesInv, KeyWasCut, SaveInv, LoadInv
<1> QED BY <1>1, <1>2, <1>3, <1>4

LEMMA SaveStep ==
  ASSUME FInv, NEW truncate \in BOOLEAN, Save(truncate), UNCHANGED ndebug
  PROVE  FInv'
<1>1. /\ TablesTyped /\ TablesInv /\ FilesInv /\ SumInv(file) /\ SumInv(disk) /\ SavesInv
      /\ HeldInv
  BY DEF FInv
<1>2. /\ phase = "ready" /\ Len(saves) < MaxSaves /\ ser = "idle"
      /\ file' \in {file, EmptyFile} /\ disk' = disk
      /\ (file' = file /\ held' = held) \/ held' = 0
      /\ ndebug' = ndebug
  BY <1>1 DEF Save, FilesInv
<1>3. WholeFile(file') /\ WholeFile(disk') /\ file'.ftr \in {NoFooter, file.ftr}
  BY <1>1, <1>2, EmptyWhole DEF FilesInv
<1>4. CASE tbl.cnt = 0
  <2>1. SaveReturns("fail") /\ UNCHANGED <<saves, ndebug>>
    BY <1>2, <1>4 DEF Save
  <2>2. /\ TablesTyped' /\ TablesInv' /\ SavesInv' /\ SaveInv' /\ LoadInv' /\ SavesStay
        /\ phase' = "ready" /\ ser' = "idle" /\ saves' = saves
    BY <1>2, <2>1, SaveReturnsKeeps
  <2>3. held' \in 0..Len(saves')
    BY <1>1, <1>2, <2>2 DEF FilesInv
  <2>4. FilesInv'
    <3>1. saves' \in Seq(Images) /\ Len(saves') <= MaxSaves
      BY <1>1, <2>2 DEF FilesInv
    <3> QED BY <1>3, <2>2, <2>3, <3>1 DEF FilesInv, WholeFile, IsFile
  <2>5. SumInv(file)' /\ SumInv(disk)'
    BY <1>1, <1>2, <1>3, <2>2, SumKept DEF SumInv
  <2>6. HeldInv'
    BY <1>1, <1>2, <2>2 DEF HeldInv, LoadAccepts, Crc
  <2> QED BY <2>2, <2>4, <2>5, <2>6 DEF FInv
<1>5. CASE tbl.cnt # 0
  <2>1. /\ phase' = "save" /\ ser' = "size" /\ saves' = Append(saves, Image(tbl))
        /\ tbl' = tbl /\ new' = new /\ call' = call /\ i' = i /\ ret' = ret
    BY <1>5 DEF Save, Image
  <2>2. tbl.cnt > 0 /\ GoodType(tbl) /\ tbl.cnt \in 1..MaxCap /\ Image(tbl) \in [0..tbl.cnt-1 -> KVEntry]
        /\ Image(tbl) \in Images
    <3>1. GoodType(tbl) /\ tbl.cnt \in 0..MaxCap
      BY <1>1, GoodTypeFields DEF TablesTyped, GoodType
    <3>2. tbl.cnt > 0
      BY <1>5, <3>1, BoundAssumption
    <3>3. IsImageOf(Image(tbl), tbl.cnt) /\ tbl.cnt \in 1..MaxCap
      BY <1>1, <3>1, <3>2, SumOfTable DEF TablesInv
    <3> QED BY <3>1, <3>2, <3>3 DEF IsImageOf, Images
  <2>3. /\ saves' \in Seq(Images) /\ Len(saves') = Len(saves) + 1 /\ Len(saves) \in Nat
        /\ saves'[Len(saves')] = Image(tbl) /\ saves' # <<>>
        /\ DOMAIN saves' = DOMAIN saves \cup {Len(saves')}
        /\ \A n \in DOMAIN saves : saves'[n] = saves[n]
    <3>1. saves \in Seq(Images)
      BY <1>1 DEF FilesInv
    <3> HIDE DEF Images
    <3> QED BY <2>1, <2>2, <3>1, AppendFacts
  <2>4. SavesStay
    BY <2>3 DEF SavesStay
  <2>5. TablesTyped' /\ TablesInv'
    <3>1. i' \in 0..MaxCap
      BY <1>1, <2>1 DEF TablesTyped
    <3>2. TablesTyped /\ TablesInv /\ (KeyWasCut => KeyWasCut') /\ ndebug' = ndebug
      BY <1>1, <1>2, <2>4, CutStays
    <3>3. /\ tbl' \in {tbl, new, NULL} /\ new' \in {new, NULL} /\ phase' # "copy"
          /\ call' \in {call, NoCall} /\ ret' \in {ret, "ok", "fail"}
      BY <2>1
    <3> QED BY <3>1, <3>2, <3>3, TablesKept
  <2>6. Len(saves') <= MaxSaves /\ held' \in 0..Len(saves')
    BY <1>1, <1>2, <2>3, FileAssumption DEF FilesInv
  <2>7. FilesInv'
    BY <1>3, <2>1, <2>3, <2>6 DEF FilesInv, WholeFile, IsFile
  <2>8. SumInv(file)' /\ SumInv(disk)'
    BY <1>1, <1>2, <1>3, <2>4, SumKept DEF SumInv
  <2>9. SavesInv'
    <3>1. CASE KeyWasCut
      BY <2>4, <3>1, CutStays DEF SavesInv
    <3>2. CASE ~KeyWasCut
      <4>1. UniqueKeys(tbl) /\ \A n \in DOMAIN saves : UniqueImage(saves[n])
        BY <1>1, <3>2 DEF TablesInv, MapInv, GoodMap, SavesInv
      <4>2. UniqueImage(Image(tbl))
        BY <4>1 DEF UniqueKeys, UniqueImage, Image, Live
      <4>3. \A n \in DOMAIN saves' : UniqueImage(saves'[n])
        BY <2>3, <4>1, <4>2
      <4> QED BY <4>3 DEF SavesInv
    <3> QED BY <3>1, <3>2
  <2>10. SaveInv'
    <3>1. Image(tbl)' = Image(tbl)
      BY <2>1 DEF Image, Entries
    <3> QED BY <2>1, <2>2, <2>3, <3>1 DEF SaveInv
  <2>11. LoadInv'
    BY <2>1 DEF LoadInv
  <2>12. HeldInv'
    <3>1. CASE held' = 0
      BY <3>1 DEF HeldInv
    <3>2. CASE held' # 0
      <4>1. file' = file /\ held' = held /\ held \in 0..Len(saves)
        BY <1>1, <1>2, <3>2 DEF FilesInv
      <4>2. held \in DOMAIN saves
        BY <1>1, <3>2, <4>1 DEF FilesInv
      <4>3. LoadAccepts(file) /\ IsSum(Crc(file), saves[held])
        BY <1>1, <3>2, <4>1 DEF HeldInv
      <4> QED BY <2>3, <4>1, <4>2, <4>3 DEF HeldInv, LoadAccepts, Crc
    <3> QED BY <3>1, <3>2
  <2> QED BY <2>5, <2>7, <2>8, <2>9, <2>10, <2>11, <2>12 DEF FInv
<1> QED BY <1>4, <1>5

\* Without a table only the file is touched.
LEMMA SaveNoTableStep ==
  ASSUME FInv, SaveNoTable, UNCHANGED ndebug
  PROVE  FInv'
<1>1. /\ TablesTyped /\ TablesInv /\ FilesInv /\ SumInv(file) /\ SumInv(disk) /\ SavesInv
  BY DEF FInv
<1>2. /\ phase = "none" /\ phase' = "none" /\ file' = EmptyFile /\ held' = 0
      /\ ret' = "fail" /\ tbl' = tbl /\ new' = new /\ call' = call /\ i' = i
      /\ disk' = disk /\ ser' = ser /\ saves' = saves /\ ndebug' = ndebug
  BY DEF SaveNoTable
<1>3. SavesStay /\ (KeyWasCut => KeyWasCut') /\ i' \in 0..MaxCap
  BY <1>1, <1>2, CutStays DEF SavesStay, TablesTyped
<1>4. TablesTyped' /\ TablesInv'
  BY <1>1, <1>2, <1>3, TablesKept
<1>5. WholeFile(file') /\ file'.ftr = NoFooter
  BY <1>2, EmptyWhole
<1>6. FilesInv'
  <2>1. held' \in 0..Len(saves')
    BY <1>1, <1>2 DEF FilesInv
  <2> QED BY <1>1, <1>2, <1>5, <2>1 DEF FilesInv, WholeFile, IsFile
<1>7. SumInv(file)' /\ SumInv(disk)'
  BY <1>1, <1>2, <1>3, <1>5, SumKept DEF SumInv
<1>8. SavesInv' /\ SaveInv' /\ LoadInv' /\ HeldInv'
  BY <1>1, <1>2 DEF SavesInv, KeyWasCut, SaveInv, LoadInv, HeldInv
<1> QED BY <1>4, <1>6, <1>7, <1>8 DEF FInv

\* A step that only writes to the file and goes on to the next chunk.
LEMMA WritingKeeps ==
  ASSUME FInv, phase = "save", UNCHANGED vars, UNCHANGED <<disk, saves>>
  PROVE  /\ TablesTyped' /\ TablesInv' /\ SavesInv' /\ LoadInv' /\ SavesStay
         /\ phase' = "save" /\ tbl' = tbl /\ saves' = saves /\ disk' = disk
<1>1. phase' = "save" /\ tbl' = tbl /\ saves' = saves /\ disk' = disk
  BY DEF vars
<1>2. SavesStay /\ (KeyWasCut => KeyWasCut')
  BY <1>1, CutStays DEF SavesStay
<1>3. TablesTyped' /\ TablesInv'
  BY <1>2, TablesUnchanged DEF FInv
<1>4. SavesInv' /\ LoadInv'
  BY <1>1 DEF FInv, SavesInv, KeyWasCut, LoadInv
<1> QED BY <1>1, <1>2, <1>3, <1>4

\* The table being saved, and the numbers of its file.
LEMMA SavedTable ==
  ASSUME FInv, phase = "save"
  PROVE  /\ GoodType(tbl) /\ Ends(tbl) /\ tbl.cnt \in 1..MaxCap /\ tbl.cnt \in 0..MaxCap
         /\ KvDatOff(tbl) \in Nat /\ FftrOff(tbl) \in Nat
         /\ KvDatOff(tbl) - TocOff = tbl.cnt * FENTRY_SIZE
         /\ IsSum(<<HeaderOf(tbl), TocOf(tbl), DataOf(tbl)>>, Image(tbl))
<1>1. GoodType(tbl) /\ Ends(tbl) /\ tbl.cnt > 0
  BY DEF FInv, TablesTyped, TablesInv, SaveInv
<1>2. /\ IsImageOf(Image(tbl), tbl.cnt) /\ tbl.cnt \in 1..MaxCap
      /\ IsSum(<<HeaderOf(tbl), TocOf(tbl), DataOf(tbl)>>, Image(tbl))
      /\ FftrOff(tbl) = DatOff(tbl.cnt) + DatSize(Image(tbl), tbl.cnt)
  BY <1>1, SumOfTable
<1>3. /\ tbl.cnt \in 0..MaxCap /\ DatOff(tbl.cnt) \in Nat /\ DatSize(Image(tbl), tbl.cnt) \in Nat
      /\ DatOff(tbl.cnt) - TocOff = tbl.cnt * FENTRY_SIZE
  BY <1>2, ImageNumbers
<1>4. KvDatOff(tbl) = DatOff(tbl.cnt)
  BY DEF KvDatOff, DatOff
<1> QED BY <1>1, <1>2, <1>3, <1>4

LEMMA SaveSizeStep ==
  ASSUME FInv, SaveSize, UNCHANGED ndebug
  PROVE  FInv'
<1> DEFINE n == FftrOff(tbl) + FFTR_SIZE
           cut == [file EXCEPT !.size = n,
                    !.ftr = IF file.ftr.off + FFTR_SIZE <= n THEN file.ftr ELSE NoFooter]
<1>1. /\ FilesInv /\ SumInv(file) /\ SumInv(disk) /\ HeldInv /\ phase = "save" /\ ser = "size"
      /\ SaveInv
  BY DEF FInv, SaveSize, Saving
<1>2. /\ file' \in {file, cut} /\ disk' = disk /\ saves' = saves
      /\ \/ SaveReturns("fail") /\ held' = IF file' = file THEN held ELSE 0
         \/ file' = cut /\ ser' = "hdr" /\ held' = 0 /\ UNCHANGED vars
  BY DEF SaveSize
<1>3. n \in Nat
  BY <1>1, SavedTable DEF FFTR_SIZE
<1>4. WholeFile(cut) /\ cut.ftr \in {NoFooter, file.ftr} /\ cut.size = n
  <2> HIDE DEF n
  <2> DEFINE g == IF file.ftr.off + FFTR_SIZE <= n THEN file.ftr ELSE NoFooter
  <2>0. /\ g \in {NoFooter, file.ftr}
        /\ file = [size |-> file.size, hdr |-> file.hdr, toc |-> file.toc,
                   dat |-> file.dat, ftr |-> file.ftr]
    BY <1>1 DEF FilesInv, WholeFile
  <2>1. cut = [size |-> n, hdr |-> file.hdr, toc |-> file.toc, dat |-> file.dat, ftr |-> g]
    <3> HIDE DEF g
    <3>1. cut = [file EXCEPT !.size = n, !.ftr = g]
      BY DEF g
    <3> HIDE DEF cut
    <3> QED BY <2>0, <3>1
  <2> HIDE DEF cut, g
  <2>2. cut.size = n /\ cut.hdr = file.hdr /\ cut.ftr \in {NoFooter, file.ftr}
    BY <2>0, <2>1
  <2>3. NoFooter.magic \in BOOLEAN /\ NoFooter.off \in Nat
    BY DEF NoFooter
  <2>4. IsFile(cut)
    <3>1. DOMAIN cut = DOMAIN EmptyFile
      BY <2>1 DEF EmptyFile
    <3> QED BY <1>1, <1>3, <2>2, <2>3, <3>1 DEF FilesInv, WholeFile, IsFile
  <2> QED BY <2>1, <2>2, <2>4 DEF WholeFile
<1> HIDE DEF n, cut
<1>5. WholeFile(file') /\ file'.ftr \in {NoFooter, file.ftr} /\ WholeFile(disk')
  BY <1>1, <1>2, <1>4 DEF FilesInv
<1>6. CASE SaveReturns("fail") /\ held' = IF file' = file THEN held ELSE 0
  <2>1. /\ TablesTyped' /\ TablesInv' /\ SavesInv' /\ SaveInv' /\ LoadInv' /\ SavesStay
        /\ phase' = "ready" /\ ser' = "idle" /\ saves' = saves
    BY <1>1, <1>2, <1>6, SaveReturnsKeeps
  <2>2. SumInv(file)' /\ SumInv(disk)'
    BY <1>1, <1>2, <1>5, <2>1, SumKept DEF SumInv
  <2>3. FilesInv'
    BY <1>1, <1>5, <1>6, <2>1 DEF FilesInv, WholeFile, IsFile
  <2>4. HeldInv'
    BY <1>1, <1>6, <2>1 DEF HeldInv, LoadAccepts, Crc
  <2> QED BY <2>1, <2>2, <2>3, <2>4 DEF FInv
<1>7. CASE file' = cut /\ ser' = "hdr" /\ held' = 0 /\ UNCHANGED vars
  <2>1. /\ TablesTyped' /\ TablesInv' /\ SavesInv' /\ LoadInv' /\ SavesStay
        /\ phase' = "save" /\ tbl' = tbl /\ saves' = saves /\ disk' = disk
    BY <1>1, <1>2, <1>7, WritingKeeps
  <2>2. SumInv(file)' /\ SumInv(disk)'
    BY <1>1, <1>2, <1>5, <2>1, SumKept DEF SumInv
  <2>3. FilesInv'
    BY <1>1, <1>5, <1>7, <2>1 DEF FilesInv, WholeFile, IsFile
  <2>4. HeldInv'
    BY <1>7 DEF HeldInv
  <2>5. SaveInv'
    <3>1. Image(tbl)' = Image(tbl) /\ FftrOff(tbl)' = FftrOff(tbl)
      BY <2>1 DEF Image, Entries, FftrOff, KvDatOff, EndCur
    <3> QED BY <1>1, <1>4, <1>7, <2>1, <3>1 DEF SaveInv, n
  <2> QED BY <2>1, <2>2, <2>3, <2>4, <2>5 DEF FInv
<1> QED BY <1>2, <1>6, <1>7

\* The header, the table of contents or the data.
LEMMA ChunkStep ==
  ASSUME FInv, SaveHeader \/ SaveToc \/ SaveData, UNCHANGED ndebug
  PROVE  FInv'
<1>1. /\ FilesInv /\ SumInv(file) /\ SumInv(disk) /\ SaveInv /\ phase = "save"
      /\ ser \in {"hdr", "toc", "dat"} /\ held = 0 /\ held' = 0
      /\ UNCHANGED vars /\ disk' = disk /\ saves' = saves
  BY DEF FInv, SaveInv, SaveHeader, SaveToc, SaveData, WriteChunk, Saving
<1>2. /\ TablesTyped' /\ TablesInv' /\ SavesInv' /\ LoadInv' /\ SavesStay
      /\ phase' = "save" /\ tbl' = tbl /\ saves' = saves /\ disk' = disk
  BY <1>1, WritingKeeps
<1>3. \/ ser = "hdr" /\ ser' = "toc" /\ file' = [file EXCEPT !.hdr = HeaderOf(tbl)]
      \/ ser = "toc" /\ ser' = "dat" /\ file' = [file EXCEPT !.toc = TocOf(tbl)]
      \/ ser = "dat" /\ ser' = "ftr" /\ file' = [file EXCEPT !.dat = DataOf(tbl)]
  BY DEF SaveHeader, SaveToc, SaveData, WriteChunk, Saving
<1>4. \/ /\ ser = "hdr" /\ ser' = "toc"
         /\ file' = [size |-> file.size, hdr |-> HeaderOf(tbl), toc |-> file.toc,
                     dat |-> file.dat, ftr |-> file.ftr]
      \/ /\ ser = "toc" /\ ser' = "dat"
         /\ file' = [size |-> file.size, hdr |-> file.hdr, toc |-> TocOf(tbl),
                     dat |-> file.dat, ftr |-> file.ftr]
      \/ /\ ser = "dat" /\ ser' = "ftr"
         /\ file' = [size |-> file.size, hdr |-> file.hdr, toc |-> file.toc,
                     dat |-> DataOf(tbl), ftr |-> file.ftr]
  BY <1>1, <1>3 DEF FilesInv, WholeFile
<1>5. HeaderOf(tbl) \in [magic : BOOLEAN, kvcnt : 0..MaxCap, kvdatoff : Nat, fftroff : Nat]
  BY <1>1, SavedTable DEF HeaderOf
<1>6. WholeFile(file') /\ file'.ftr = file.ftr /\ file'.size = file.size
  <2>1. /\ file'.ftr = file.ftr /\ file'.size = file.size /\ file'.hdr \in {file.hdr, HeaderOf(tbl)}
        /\ file' = [size |-> file'.size, hdr |-> file'.hdr, toc |-> file'.toc,
                    dat |-> file'.dat, ftr |-> file'.ftr]
    BY <1>4
  <2>2. DOMAIN file' = DOMAIN EmptyFile
    BY <2>1 DEF EmptyFile
  <2>3. IsFile(file')
    BY <1>1, <1>5, <2>1, <2>2 DEF FilesInv, WholeFile, IsFile
  <2> QED BY <2>1, <2>3 DEF WholeFile
<1>7. FilesInv'
  BY <1>1, <1>2, <1>3, <1>6 DEF FilesInv, WholeFile, IsFile
<1>8. SumInv(file)' /\ SumInv(disk)'
  BY <1>1, <1>2, <1>6, SumKept DEF SumInv
<1>9. HeldInv'
  BY <1>1 DEF HeldInv
<1>10. SaveInv'
  <2>1. /\ Image(tbl)' = Image(tbl) /\ FftrOff(tbl)' = FftrOff(tbl)
        /\ HeaderOf(tbl)' = HeaderOf(tbl) /\ TocOf(tbl)' = TocOf(tbl)
        /\ DataOf(tbl)' = DataOf(tbl)
    BY <1>2 DEF Image, Entries, FftrOff, KvDatOff, EndCur, HeaderOf, TocOf, DataOf
  <2>2. tbl'.cnt > 0 /\ saves' # <<>> /\ saves'[Len(saves')] = Image(tbl)
        /\ file'.size = FftrOff(tbl) + FFTR_SIZE
    BY <1>1, <1>2, <1>6 DEF SaveInv
  <2>3. /\ ser' \in {"toc", "dat", "ftr"} => file'.hdr = HeaderOf(tbl)
        /\ ser' \in {"dat", "ftr"} => file'.toc = TocOf(tbl)
        /\ ser' = "ftr" => file'.dat = DataOf(tbl)
    BY <1>1, <1>4 DEF SaveInv
  <2> QED BY <1>1, <2>1, <2>2, <2>3 DEF SaveInv
<1> QED BY <1>2, <1>7, <1>8, <1>9, <1>10 DEF FInv

LEMMA SaveFooterStep ==
  ASSUME FInv, SaveFooter, UNCHANGED ndebug
  PROVE  FInv'
<1> DEFINE ftr == [magic |-> TRUE, off |-> FftrOff(tbl), crc |-> Crc(file)]
           last == Len(saves)
<1>1. /\ FilesInv /\ SumInv(disk) /\ SaveInv /\ phase = "save" /\ ser = "ftr"
      /\ SaveReturns("ok") /\ disk' = disk /\ saves' = saves /\ held' = last
      /\ file' = [file EXCEPT !.ftr = ftr]
  BY DEF FInv, SaveFooter, Saving
<1>2. /\ TablesTyped' /\ TablesInv' /\ SavesInv' /\ SaveInv' /\ LoadInv' /\ SavesStay
      /\ phase' = "ready" /\ ser' = "idle" /\ saves' = saves
  BY <1>1, SaveReturnsKeeps
<1>3. /\ tbl.cnt \in 1..MaxCap /\ KvDatOff(tbl) \in Nat /\ FftrOff(tbl) \in Nat
      /\ KvDatOff(tbl) - TocOff = tbl.cnt * FENTRY_SIZE
      /\ IsSum(<<HeaderOf(tbl), TocOf(tbl), DataOf(tbl)>>, Image(tbl))
  BY <1>1, SavedTable
<1>4. /\ file.size = FftrOff(tbl) + FFTR_SIZE /\ file.hdr = HeaderOf(tbl)
      /\ file.toc = TocOf(tbl) /\ file.dat = DataOf(tbl)
      /\ saves # <<>> /\ saves[last] = Image(tbl)
  BY <1>1 DEF SaveInv
<1>5. IsSum(Crc(file), saves[last]) /\ last \in DOMAIN saves
  BY <1>1, <1>3, <1>4 DEF Crc, FilesInv
<1>6. file' = [size |-> file.size, hdr |-> file.hdr, toc |-> file.toc, dat |-> file.dat,
               ftr |-> ftr]
  BY <1>1 DEF FilesInv, WholeFile
<1>7. ftr.magic = TRUE /\ ftr.off = FftrOff(tbl) /\ ftr.crc = Crc(file)
  OBVIOUS
<1> HIDE DEF ftr
<1>8. /\ file'.size = file.size /\ file'.hdr = file.hdr /\ file'.toc = file.toc
      /\ file'.dat = file.dat /\ file'.ftr = ftr /\ Crc(file') = Crc(file)
  BY <1>6 DEF Crc
<1>9. WholeFile(file') /\ WholeFile(disk')
  <2>1. DOMAIN file' = DOMAIN EmptyFile
    BY <1>6 DEF EmptyFile
  <2>2. ftr.magic \in BOOLEAN /\ ftr.off \in Nat
    BY <1>3, <1>7
  <2>3. IsFile(file)
    BY <1>1 DEF FilesInv, WholeFile
  <2>4. IsFile(file')
    BY <1>8, <2>1, <2>2, <2>3 DEF IsFile
  <2> QED BY <1>1, <1>6, <1>8, <2>4 DEF WholeFile, FilesInv
<1>10. FilesInv'
  <2>1. last \in 0..Len(saves)
    BY <1>1 DEF FilesInv
  <2> QED BY <1>1, <1>2, <1>9, <2>1 DEF FilesInv, WholeFile, IsFile
<1>11. SumInv(file)' /\ SumInv(disk)'
  BY <1>1, <1>2, <1>5, <1>7, <1>8 DEF SumInv
<1>12. LoadAccepts(file')
  <2>1. /\ file.hdr.magic = TRUE /\ file.hdr.kvcnt = tbl.cnt /\ file.hdr.kvdatoff = KvDatOff(tbl)
        /\ file.hdr.fftroff = FftrOff(tbl)
    BY <1>4 DEF HeaderOf
  <2>2. file.size > 0 /\ FftrOff(tbl) + FFTR_SIZE <= file.size
    BY <1>3, <1>4 DEF FFTR_SIZE
  <2> QED BY <1>3, <1>7, <1>8, <2>1, <2>2 DEF LoadAccepts
<1>13. HeldInv'
  <2>1. IsSum(Crc(file'), saves'[held'])
    BY <1>1, <1>5, <1>8
  <2> QED BY <1>12, <2>1 DEF HeldInv, LoadAccepts, Crc
<1> QED BY <1>2, <1>10, <1>11, <1>13 DEF FInv

-----------------------------------------------------------------------------
(***************************************************************************)
(* The steps of a load.                                                    *)
(***************************************************************************)
\* A call that ends with one of the tables there were, or none.
LEMMA CallEnds ==
  ASSUME FInv, tbl' \in {tbl, new, NULL}, NEW r \in {"ok", "fail"}, Returns(r),
         phase' \in {"none", "ready", "dangling"}, UNCHANGED <<saves, ndebug>>
  PROVE  TablesTyped' /\ TablesInv' /\ SavesInv' /\ SaveInv' /\ LoadInv'
<1>1. /\ ret' = r /\ new' = NULL /\ call' = NoCall /\ i' = 0 /\ 0 \in 0..MaxCap
      /\ saves' = saves /\ ndebug' = ndebug
  BY BoundAssumption DEF Returns
<1>2. KeyWasCut => KeyWasCut'
  BY <1>1 DEF KeyWasCut
<1>3. TablesTyped' /\ TablesInv'
  BY <1>1, <1>2, TablesKept DEF FInv
<1>4. SavesInv' /\ SaveInv' /\ LoadInv'
  BY <1>1 DEF FInv, SavesInv, KeyWasCut, SaveInv, LoadInv
<1> QED BY <1>3, <1>4

LEMMA FilesKept ==
  ASSUME FInv, UNCHANGED <<file, disk, saves, held>>,
         phase' \in {"none", "ready", "copy", "load", "aborted", "dangling"}, ser' = "idle"
  PROVE  FilesInv' /\ SumInv(file)' /\ SumInv(disk)' /\ HeldInv'
<1>1. file' = file /\ disk' = disk /\ saves' = saves /\ held' = held
  OBVIOUS
<1>2. FilesInv'
  BY <1>1 DEF FInv, FilesInv, WholeFile, IsFile
<1>3. SumInv(file)' /\ SumInv(disk)'
  BY <1>1 DEF FInv, SumInv
<1>4. HeldInv'
  BY <1>1 DEF FInv, HeldInv, LoadAccepts, Crc
<1> QED BY <1>2, <1>3, <1>4

\* A file that passes the checks is one image's, and no other's.
LEMMA LoadSource ==
  ASSUME FInv, LoadAccepts(file)
  PROVE  \E n \in DOMAIN saves, cnt \in 1..MaxCap :
           /\ IsImageOf(saves[n], cnt) /\ Crc(file) = SumOf(saves[n], cnt)
           /\ IsSum(Crc(file), saves[n])
           /\ file.hdr.kvcnt = cnt /\ LoadMemSize(file) = DatSize(saves[n], cnt)
           /\ KeyWasCut \/ (UniqueImage(saves[n]) /\ NoneCut(saves[n]))
           /\ \A m \in DOMAIN saves : IsSum(Crc(file), saves[m]) => saves[m] = saves[n]
<1>1. file.ftr.magic /\ file.ftr.crc = Crc(file) /\ SumInv(file) /\ SavesInv
      /\ saves \in Seq(Images)
  BY DEF LoadAccepts, FInv, FilesInv
<1>2. PICK n \in DOMAIN saves : IsSum(Crc(file), saves[n])
  BY <1>1 DEF SumInv
<1>3. PICK cnt \in 1..MaxCap : IsImageOf(saves[n], cnt) /\ Crc(file) = SumOf(saves[n], cnt)
  BY <1>2 DEF IsSum
<1>4. /\ file.hdr.kvcnt = cnt /\ file.hdr.kvdatoff = DatOff(cnt)
      /\ file.hdr.fftroff = DatOff(cnt) + DatSize(saves[n], cnt)
  <2>1. file.hdr = ImageHeader(saves[n], cnt)
    BY <1>3 DEF Crc, SumOf
  <2> QED BY <2>1 DEF ImageHeader
<1>5. LoadMemSize(file) = DatSize(saves[n], cnt)
  <2>1. (DatOff(cnt) + DatSize(saves[n], cnt)) - DatOff(cnt) = DatSize(saves[n], cnt)
    BY <1>3, ImageNumbers
  <2> QED BY <1>4, <2>1 DEF LoadMemSize
<1>6. KeyWasCut \/ (UniqueImage(saves[n]) /\ NoneCut(saves[n]))
  <2>1. ASSUME ~KeyWasCut PROVE NoneCut(saves[n])
    <3>1. ASSUME NEW j \in DOMAIN saves[n] PROVE KLen[saves[n][j].key] < WordMod
      <4>1. j \in 0..cnt-1
        BY <1>3 DEF IsImageOf
      <4>2. saves[n][j].key \in Keys
        BY <1>3, <4>1 DEF IsImageOf
      <4>3. KLen[saves[n][j].key] \in Nat /\ WordMod \in Nat
        BY <4>2, DataAssumption, FileAssumption
      <4>4. ~(KLen[saves[n][j].key] >= WordMod)
        BY <1>2, <2>1 DEF KeyWasCut
      <4> QED BY <4>3, <4>4
    <3> QED BY <3>1 DEF NoneCut
  <2> QED BY <1>1, <2>1 DEF SavesInv
<1>7. \A m \in DOMAIN saves : IsSum(Crc(file), saves[m]) => saves[m] = saves[n]
  BY <1>2, SumUnique
<1> QED BY <1>2, <1>3, <1>4, <1>5, <1>6, <1>7

\* The table of a load under way.
LEMMA LoadingTable ==
  ASSUME TablesTyped, TablesInv, tbl' \in {tbl, NULL}, phase' = "load",
         GoodType(new'), IndexAgrees(new'), Ends(new'), UniqueKeys(new') \/ KeyWasCut',
         i' \in 0..MaxCap, UNCHANGED <<call, ret, ndebug>>, KeyWasCut => KeyWasCut'
  PROVE  TablesTyped' /\ TablesInv'
<1>1. GoodType(NULL) /\ GoodMap(NULL) /\ Ends(NULL) /\ IndexAgrees(NULL)
  BY NullGood, NullGoodMap, NullEnds DEF GoodMap
<1>2. GoodType(tbl)' /\ GoodType(new)'
  BY <1>1 DEF TablesTyped, GoodType, IsTable, Filled
<1>3. TablesTyped'
  BY <1>2 DEF TablesTyped, CopyRoom
<1>4. Ends(tbl') /\ IndexAgrees(tbl')
  BY <1>1 DEF TablesInv, IndexOK
<1>5. IndexOK' /\ Ends(tbl)' /\ Ends(new)'
  BY <1>4 DEF IndexOK, Ends, IndexAgrees, Reachable, Used, Entries
<1>6. MapInv' \/ KeyWasCut'
  <2>1. CASE KeyWasCut \/ KeyWasCut'
    BY <2>1
  <2>2. CASE ~KeyWasCut /\ ~KeyWasCut'
    <3>1. GoodMap(tbl') /\ GoodMap(new')
      BY <1>1, <2>2 DEF TablesInv, MapInv, GoodMap
    <3>2. GoodMap(tbl)' /\ GoodMap(new)'
      BY <3>1 DEF GoodMap, IndexAgrees, Reachable, UniqueKeys, Live, Used, Entries
    <3> QED BY <3>2 DEF MapInv, CopyOrder
  <2> QED BY <2>1, <2>2
<1> QED BY <1>3, <1>5, <1>6 DEF TablesInv

LEMMA LoadStep ==
  ASSUME FInv, Load, UNCHANGED ndebug
  PROVE  FInv'
<1>1. /\ phase \in {"none", "ready"} /\ ser = "idle" /\ ser' = "idle" /\ file' = file
      /\ disk' = disk /\ saves' = saves /\ held' = held /\ tbl' = NULL /\ ndebug' = ndebug
  BY DEF FInv, FilesInv, Load, fileVars
<1>2. CASE phase' \in {"none", "dangling"} /\ Returns("fail")
  <2>1. TablesTyped' /\ TablesInv' /\ SavesInv' /\ SaveInv' /\ LoadInv'
    BY <1>1, <1>2, CallEnds
  <2>2. FilesInv' /\ SumInv(file)' /\ SumInv(disk)' /\ HeldInv'
    BY <1>1, <1>2, FilesKept
  <2> QED BY <2>1, <2>2 DEF FInv
<1>3. ASSUME LoadAccepts(file), NEW cap \in NextPow2(file.hdr.kvcnt),
             NEW t \in CreateResults(cap, LoadMemSize(file)) \ {NULL},
             new' = [t EXCEPT !.mem.cur = LoadMemSize(file)],
             phase' = "load", i' = 0, UNCHANGED <<call, ret>>
      PROVE  FInv'
  <2> DEFINE size == LoadMemSize(file)
  <2>1. PICK n \in DOMAIN saves, cnt \in 1..MaxCap :
          /\ IsImageOf(saves[n], cnt) /\ file.hdr.kvcnt = cnt /\ size = DatSize(saves[n], cnt)
    BY <1>3, LoadSource
  <2>2. /\ cnt \in Nat /\ size \in Nat /\ cap \in 1..MaxCap /\ cnt <= cap /\ cap \in Nat
        /\ cap \in 0..MaxCap /\ 0 \in 0..MaxCap
    <3>1. cnt \in Nat /\ size \in Nat
      BY <2>1, ImageNumbers
    <3>2. cap \in 1..MaxCap /\ (cnt # 1 => cap >= cnt)
      BY <1>3, <2>1 DEF NextPow2
    <3>3. MaxCap \in Nat
      BY BoundAssumption
    <3> QED BY <3>1, <3>2, <3>3
  <2>3. t = NewTable(cap, size)
    BY <1>3 DEF CreateResults
  <2> HIDE DEF size
  <2>4. new' = [cap |-> cap, cnt |-> 0, ents |-> [j \in 0..cap-1 |-> NoEntry],
                idx |-> HashIndexInit(cap), mem |-> [cur |-> size, size |-> size]]
    <3>1. new' = [t EXCEPT !.mem = [cur |-> size, size |-> size]]
      <4>1. t.mem = [cur |-> 0, size |-> size]
        BY <2>3 DEF NewTable, ArenaInit
      <4>2. [t.mem EXCEPT !.cur = size] = [cur |-> size, size |-> size]
        BY <4>1
      <4>3. new' = [t EXCEPT !.mem = [t.mem EXCEPT !.cur = size]]
        BY <1>3 DEF size
      <4> QED BY <4>2, <4>3
    <3> QED BY <2>3, <3>1 DEF NewTable
  <2>5. /\ NewTable(cap, size) \in TableOf(cap) /\ IndexAgrees(NewTable(cap, size))
    BY <2>2, NewTableType, NewIndexAgrees
  <2>6. GoodType(new')
    <3>1. new' \in TableOf(cap)
      BY <2>2, <2>4, <2>5 DEF TableOf, NewTable, Arena
    <3>2. Filled(new')
      BY <2>4 DEF Filled
    <3> QED BY <2>2, <3>1, <3>2 DEF GoodType, IsTable
  <2>7. IndexAgrees(new')
    <3>1. /\ NewTable(cap, size).cap = new'.cap /\ NewTable(cap, size).cnt = new'.cnt
          /\ NewTable(cap, size).ents = new'.ents /\ NewTable(cap, size).idx = new'.idx
      BY <2>4 DEF NewTable
    <3> QED BY <2>5, <3>1 DEF IndexAgrees, Used, Entries, Reachable
  <2>8. Ends(new') /\ UniqueKeys(new')
    BY <2>2, <2>4 DEF Ends, Entries, UniqueKeys, Live
  <2>9. TablesTyped' /\ TablesInv'
    <3>1. i' \in 0..MaxCap
      BY <1>3, <2>2
    <3>2. KeyWasCut => KeyWasCut'
      BY <1>1 DEF KeyWasCut
    <3>3. TablesTyped /\ TablesInv
      BY DEF FInv
    <3>4. UNCHANGED <<call, ret, ndebug>> /\ tbl' \in {tbl, NULL} /\ phase' = "load"
      BY <1>1, <1>3
    <3> QED BY <2>6, <2>7, <2>8, <3>1, <3>2, <3>3, <3>4, LoadingTable
  <2>10. FilesInv' /\ SumInv(file)' /\ SumInv(disk)' /\ HeldInv'
    BY <1>1, <1>3, FilesKept
  <2>11. LoadInv'
    <3>1. LoadAccepts(file)' /\ LoadMemSize(file)' = size /\ file'.hdr.kvcnt = cnt
      BY <1>1, <1>3, <2>1 DEF LoadAccepts, Crc, LoadMemSize, size
    <3>2. new'.cap = cap /\ new'.cnt = 0 /\ new'.mem = [cur |-> size, size |-> size]
      BY <2>4
    <3>3. \A m \in DOMAIN saves' : HoldsStart(new', saves'[m])
      BY <3>2 DEF HoldsStart
    <3> QED BY <1>3, <2>2, <3>1, <3>2, <3>3 DEF LoadInv, HoldsStart
  <2>12. SavesInv' /\ SaveInv'
    BY <1>1, <1>3 DEF FInv, SavesInv, KeyWasCut, SaveInv
  <2> QED BY <2>9, <2>10, <2>11, <2>12 DEF FInv
<1>4. \/ phase' \in {"none", "dangling"} /\ Returns("fail")
      \/ /\ LoadAccepts(file)
         /\ \E cap \in NextPow2(file.hdr.kvcnt) :
            \E t \in CreateResults(cap, LoadMemSize(file)) \ {NULL} :
              new' = [t EXCEPT !.mem.cur = LoadMemSize(file)]
         /\ phase' = "load" /\ i' = 0 /\ UNCHANGED <<call, ret>>
  BY DEF Load
<1> QED BY <1>2, <1>3, <1>4

LEMMA LoadEntryStep ==
  ASSUME FInv, LoadEntry, UNCHANGED ndebug
  PROVE  FInv'
<1>1. /\ phase = "load" /\ i < file.hdr.kvcnt /\ new' = Loaded(new, file, i) /\ i' = i + 1
      /\ phase' = "load" /\ tbl' = tbl /\ UNCHANGED <<call, ret, ndebug>>
      /\ file' = file /\ disk' = disk /\ ser' = ser /\ saves' = saves /\ held' = held
      /\ ser = "idle"
  BY DEF LoadEntry, fileVars, FInv, FilesInv
<1>2. /\ LoadAccepts(file) /\ file.hdr.kvcnt <= new.cap /\ new.cnt = i
      /\ new.mem = [cur |-> LoadMemSize(file), size |-> LoadMemSize(file)]
      /\ \A m \in DOMAIN saves : IsSum(Crc(file), saves[m]) => HoldsStart(new, saves[m])
  BY <1>1 DEF FInv, LoadInv
<1>3. PICK n \in DOMAIN saves, cnt \in 1..MaxCap :
        /\ IsImageOf(saves[n], cnt) /\ Crc(file) = SumOf(saves[n], cnt)
        /\ IsSum(Crc(file), saves[n])
        /\ file.hdr.kvcnt = cnt /\ LoadMemSize(file) = DatSize(saves[n], cnt)
        /\ KeyWasCut \/ (UniqueImage(saves[n]) /\ NoneCut(saves[n]))
        /\ \A m \in DOMAIN saves : IsSum(Crc(file), saves[m]) => saves[m] = saves[n]
  BY <1>2, LoadSource
<1> DEFINE img == saves[n]
<1>4. /\ new \in TableOf(new.cap) /\ new.cap \in Nat /\ new.cap \in 0..MaxCap /\ IndexAgrees(new)
      /\ cnt <= new.cap /\ i < cnt /\ i \in Nat /\ cnt \in Nat /\ MaxCap \in Nat
  BY <1>1, <1>2, <1>3, GoodTypeFields, BoundAssumption
     DEF FInv, TablesTyped, GoodType, TablesInv, IndexOK
<1>5. /\ new' \in TableOf(new.cap) /\ IndexAgrees(new') /\ new'.cnt = i + 1
      /\ new'.mem = new.mem /\ new'.ents = [new.ents EXCEPT ![i] = AsFiled(img)[i]]
      /\ DOMAIN new.ents = 0..new.cap-1 /\ i \in 0..new.cap-1
  <2> DEFINE img0 == saves[n]
  <2>1. IsImageOf(img0, cnt) /\ Crc(file) = SumOf(img0, cnt) /\ new.cnt < cnt /\ new.cnt = i
    BY <1>2, <1>3, <1>4
  <2> HIDE DEF img0
  <2>2. IndexAgrees(new) /\ new \in TableOf(new.cap) /\ new.cap \in Nat /\ cnt <= new.cap
    BY <1>4
  <2>3. GoesOn(new, Loaded(new, file, new.cnt), new.cap, img0)
    BY <2>1, <2>2, LoadedNext
  <2>4. GoesOn(new, new', new.cap, img0)
    BY <1>1, <1>2, <2>3
  <2> QED BY <2>1, <2>4 DEF img0, GoesOn
<1>6. HoldsStart(new', img)
  <2>1. HoldsStart(new, img)
    BY <1>2, <1>3
  <2>2. ASSUME NEW j \in 0..i PROVE new'.ents[j] = AsFiled(img)[j]
    <3>1. CASE j = i
      BY <1>5, <3>1
    <3>2. CASE j # i
      <4>1. j \in 0..i-1
        BY <1>4, <3>2
      <4>2. new.ents[j] = AsFiled(img)[j]
        BY <1>2, <2>1, <4>1 DEF HoldsStart
      <4> QED BY <1>5, <3>2, <4>1, <4>2
    <3> QED BY <3>1, <3>2
  <2>3. 0..new'.cnt-1 = 0..i
    BY <1>4, <1>5
  <2> QED BY <2>2, <2>3 DEF HoldsStart
<1>7. Ends(new') /\ Filled(new') /\ (UniqueImage(img) /\ NoneCut(img) => UniqueKeys(new'))
  <2>1. new'.cnt \in 0..cnt /\ new'.mem = [cur |-> DatSize(img, cnt), size |-> DatSize(img, cnt)]
    BY <1>2, <1>3, <1>4, <1>5
  <2> HIDE DEF img
  <2>2. IsImageOf(img, cnt)
    BY <1>3 DEF img
  <2> QED BY <1>6, <2>1, <2>2, StartOfImage
<1>8. GoodType(new')
  BY <1>4, <1>5, <1>7 DEF GoodType, IsTable
<1>9. TablesTyped' /\ TablesInv'
  <2>1. i' \in 0..MaxCap
    BY <1>1, <1>4
  <2>2. KeyWasCut => KeyWasCut'
    BY <1>1 DEF KeyWasCut
  <2>3. UniqueKeys(new') \/ KeyWasCut'
    BY <1>3, <1>7, <2>2
  <2>4. TablesTyped /\ TablesInv
    BY DEF FInv
  <2> QED BY <1>1, <1>5, <1>7, <1>8, <2>1, <2>2, <2>3, <2>4, LoadingTable
<1>10. FilesInv' /\ SumInv(file)' /\ SumInv(disk)' /\ HeldInv'
  BY <1>1, FilesKept
<1>11. LoadInv'
  <2>1. LoadAccepts(file)' /\ LoadMemSize(file)' = LoadMemSize(file) /\ file'.hdr.kvcnt = cnt
    BY <1>1, <1>2, <1>3 DEF LoadAccepts, Crc, LoadMemSize
  <2>2. i' <= cnt /\ cnt <= new'.cap /\ new'.cnt = i'
    <3>1. new'.cap = new.cap
      BY <1>5 DEF TableOf
    <3> QED BY <1>1, <1>4, <1>5, <3>1
  <2>3. \A m \in DOMAIN saves : IsSum(Crc(file), saves[m]) => HoldsStart(new', saves[m])
    BY <1>3, <1>6
  <2>4. Crc(file)' = Crc(file) /\ saves' = saves
    BY <1>1 DEF Crc
  <2>5. ASSUME NEW m \in DOMAIN saves', IsSum(Crc(file)', saves'[m])
        PROVE  HoldsStart(new', saves'[m])
    BY <2>3, <2>4, <2>5
  <2> QED BY <1>2, <1>5, <2>1, <2>2, <2>5 DEF LoadInv, HoldsStart
<1>12. SavesInv' /\ SaveInv'
  BY <1>1 DEF FInv, SavesInv, KeyWasCut, SaveInv
<1> QED BY <1>9, <1>10, <1>11, <1>12 DEF FInv

LEMMA LoadDoneStep ==
  ASSUME FInv, LoadDone, UNCHANGED ndebug
  PROVE  FInv'
<1>1. /\ phase' = "ready" /\ tbl' = new /\ Returns("ok") /\ ser' = "idle" /\ saves' = saves
      /\ UNCHANGED <<file, disk, saves, held>>
  BY DEF FInv, FilesInv, LoadDone, fileVars
<1>2. TablesTyped' /\ TablesInv' /\ SavesInv' /\ SaveInv' /\ LoadInv'
  BY <1>1, CallEnds
<1>3. FilesInv' /\ SumInv(file)' /\ SumInv(disk)' /\ HeldInv'
  BY <1>1, FilesKept
<1> QED BY <1>2, <1>3 DEF FInv

-----------------------------------------------------------------------------
(***************************************************************************)
(* Killed processes, chunks written back and lost power.                   *)
(***************************************************************************)
LEMMA KilledStep ==
  ASSUME FInv, Kill, UNCHANGED ndebug
  PROVE  FInv'
<1>1. /\ phase' = "none" /\ tbl' = NULL /\ Returns("fail") /\ ser' = "idle"
      /\ UNCHANGED <<file, disk, saves, held>>
  BY DEF Kill
<1>2. TablesTyped' /\ TablesInv' /\ SavesInv' /\ SaveInv' /\ LoadInv'
  BY <1>1, CallEnds
<1>3. FilesInv' /\ SumInv(file)' /\ SumInv(disk)' /\ HeldInv'
  BY <1>1, FilesKept
<1> QED BY <1>2, <1>3 DEF FInv

LEMMA PowerLossStep ==
  ASSUME FInv, PowerLoss, UNCHANGED ndebug
  PROVE  FInv'
<1>1. /\ phase' = "none" /\ tbl' = NULL /\ Returns("fail") /\ ser' = "idle"
      /\ file' = disk /\ disk' = disk /\ saves' = saves
      /\ held' = IF disk = file THEN held ELSE 0
  BY DEF PowerLoss
<1>2. TablesTyped' /\ TablesInv' /\ SavesInv' /\ SaveInv' /\ LoadInv'
  BY <1>1, CallEnds
<1>3. FilesInv'
  BY <1>1 DEF FInv, FilesInv, WholeFile, IsFile
<1>4. SumInv(file)' /\ SumInv(disk)'
  BY <1>1 DEF FInv, SumInv
<1>5. HeldInv'
  BY <1>1 DEF FInv, HeldInv, LoadAccepts, Crc
<1> QED BY <1>2, <1>3, <1>4, <1>5 DEF FInv

LEMMA WritebackStep ==
  ASSUME FInv, NEW chunk \in DOMAIN file, Writeback(chunk), UNCHANGED ndebug
  PROVE  FInv'
<1>1. /\ UNCHANGED vars /\ file' = file /\ ser' = ser /\ saves' = saves /\ held' = held
      /\ disk' = [disk EXCEPT ![chunk] = file[chunk]]
  BY DEF Writeback
<1>2. /\ phase' = phase /\ tbl' = tbl /\ new' = new /\ i' = i
  BY <1>1 DEF vars
<1>3. TablesTyped' /\ TablesInv'
  <2>1. KeyWasCut => KeyWasCut'
    BY <1>1 DEF KeyWasCut
  <2> QED BY <1>1, <2>1, TablesUnchanged DEF FInv
<1>4. WholeFile(file) /\ WholeFile(disk)
  BY DEF FInv, FilesInv
<1>5. chunk \in {"size", "hdr", "toc", "dat", "ftr"}
  <2>1. DOMAIN file = {"size", "hdr", "toc", "dat", "ftr"}
    BY <1>4 DEF WholeFile, IsFile, EmptyFile
  <2> QED BY <2>1
<1>6. /\ disk' = [size |-> disk'.size, hdr |-> disk'.hdr, toc |-> disk'.toc,
                  dat |-> disk'.dat, ftr |-> disk'.ftr]
      /\ disk'.size \in {file.size, disk.size} /\ disk'.hdr \in {file.hdr, disk.hdr}
      /\ disk'.ftr \in {file.ftr, disk.ftr}
  <2>1. /\ disk = [size |-> disk.size, hdr |-> disk.hdr, toc |-> disk.toc,
                   dat |-> disk.dat, ftr |-> disk.ftr]
        /\ file = [size |-> file.size, hdr |-> file.hdr, toc |-> file.toc,
                   dat |-> file.dat, ftr |-> file.ftr]
    BY <1>4 DEF WholeFile
  <2>2. CASE chunk = "size"
    BY <1>1, <2>1, <2>2
  <2>3. CASE chunk = "hdr"
    BY <1>1, <2>1, <2>3
  <2>4. CASE chunk = "toc"
    BY <1>1, <2>1, <2>4
  <2>5. CASE chunk = "dat"
    BY <1>1, <2>1, <2>5
  <2>6. CASE chunk = "ftr"
    BY <1>1, <2>1, <2>6
  <2> QED BY <1>5, <2>2, <2>3, <2>4, <2>5, <2>6
<1>7. WholeFile(disk')
  <2>1. DOMAIN disk' = DOMAIN EmptyFile
    BY <1>6 DEF EmptyFile
  <2>2. IsFile(disk')
    BY <1>4, <1>6, <2>1 DEF WholeFile, IsFile
  <2> QED BY <1>6, <2>2 DEF WholeFile
<1>8. FilesInv'
  BY <1>1, <1>2, <1>4, <1>7 DEF FInv, FilesInv, WholeFile, IsFile
<1>9. SavesStay /\ SumInv(file) /\ SumInv(disk)
  BY <1>1 DEF SavesStay, FInv
<1>10. SumInv(file)' /\ SumInv(disk)'
  BY <1>1, <1>6, <1>9, SumKept DEF SumInv
<1>11. SavesInv' /\ HeldInv'
  BY <1>1 DEF FInv, SavesInv, KeyWasCut, HeldInv, LoadAccepts, Crc
<1>12. SaveInv'
  BY <1>1, <1>2 DEF FInv, SaveInv, Image, Entries, FftrOff, KvDatOff, EndCur, HeaderOf, TocOf, DataOf
<1>13. LoadInv'
  BY <1>1, <1>2 DEF FInv, LoadInv, LoadAccepts, Crc, LoadMemSize, HoldsStart
<1> QED BY <1>3, <1>8, <1>10, <1>11, <1>12, <1>13 DEF FInv

-----------------------------------------------------------------------------
LEMMA FInvInit == FInit => FInv
<1> SUFFICES ASSUME FInit PROVE FInv
  OBVIOUS
<1>1. /\ phase = "none" /\ tbl = NULL /\ new = NULL /\ Init
      /\ file = EmptyFile /\ disk = EmptyFile /\ ser = "idle" /\ saves = <<>> /\ held = 0
  BY DEF FInit, Init
<1>2. TablesTyped
  BY <1>1, TypeInvInit, TypeInvIs
<1>3. TablesInv
  <2>1. MapInv
    BY <1>1, MapInvInit
  <2> QED BY <1>1, <2>1, NullEnds DEF TablesInv, MapInv, GoodMap, IndexOK
<1>4. FilesInv
  <2>1. <<>> \in Seq(Images) /\ Len(<<>>) = 0 /\ 0 <= MaxSaves
    BY FileAssumption
  <2> QED BY <1>1, <2>1, EmptyWhole DEF FilesInv
<1>5. SumInv(file) /\ SumInv(disk) /\ SavesInv
  BY <1>1, EmptyWhole DEF SumInv, SavesInv, NoFooter
<1> QED BY <1>1, <1>2, <1>3, <1>4, <1>5 DEF FInv, SaveInv, HeldInv, LoadInv

LEMMA FInvStep == FInv /\ [FNext]_allVars => FInv'
<1> SUFFICES ASSUME FInv, [FNext]_allVars PROVE FInv'
  OBVIOUS
<1>1. CASE Next /\ UNCHANGED fileVars
  BY <1>1, NextKeepsFiles
<1>2. ASSUME NEW truncate \in BOOLEAN, Save(truncate), UNCHANGED ndebug PROVE FInv'
  BY <1>2, SaveStep
<1>3. CASE SaveSize /\ UNCHANGED ndebug
  BY <1>3, SaveSizeStep
<1>4. CASE (SaveHeader \/ SaveToc \/ SaveData) /\ UNCHANGED ndebug
  BY <1>4, ChunkStep
<1>5. CASE SaveFooter /\ UNCHANGED ndebug
  BY <1>5, SaveFooterStep
<1>6. CASE Load /\ UNCHANGED ndebug
  BY <1>6, LoadStep
<1>7. CASE LoadEntry /\ UNCHANGED ndebug
  BY <1>7, LoadEntryStep
<1>8. CASE LoadDone /\ UNCHANGED ndebug
  BY <1>8, LoadDoneStep
<1>9. CASE Kill /\ UNCHANGED ndebug
  BY <1>9, KilledStep
<1>10. CASE PowerLoss /\ UNCHANGED ndebug
  BY <1>10, PowerLossStep
<1>11. ASSUME NEW chunk \in DOMAIN file, Writeback(chunk), UNCHANGED ndebug PROVE FInv'
  BY <1>11, WritebackStep
<1>12. CASE SaveNoTable /\ UNCHANGED ndebug
  BY <1>12, SaveNoTableStep
<1>13. CASE UNCHANGED allVars
  <2>1. /\ UNCHANGED vars /\ file' = file /\ disk' = disk /\ ser' = ser /\ saves' = saves
        /\ held' = held /\ phase' = phase /\ tbl' = tbl /\ new' = new /\ i' = i
    BY <1>13 DEF allVars, vars, fileVars
  <2>2. TablesTyped' /\ TablesInv'
    BY <2>1, TablesUnchanged DEF FInv, KeyWasCut
  <2>3. FilesInv' /\ SumInv(file)' /\ SumInv(disk)'
    BY <2>1 DEF FInv, FilesInv, WholeFile, IsFile, SumInv
  <2>4. SavesInv' /\ HeldInv'
    BY <2>1 DEF FInv, SavesInv, KeyWasCut, HeldInv, LoadAccepts, Crc
  <2>5. SaveInv'
    BY <2>1 DEF FInv, SaveInv, Image, Entries, FftrOff, KvDatOff, EndCur, HeaderOf, TocOf, DataOf
  <2>6. LoadInv'
    BY <2>1 DEF FInv, LoadInv, LoadAccepts, Crc, LoadMemSize, HoldsStart
  <2> QED BY <2>2, <2>3, <2>4, <2>5, <2>6 DEF FInv
<1> QED
  BY <1>1, <1>2, <1>3, <1>4, <1>5, <1>6, <1>7, <1>8, <1>9, <1>10, <1>11, <1>12, <1>13
     DEF FNext, FileCalls

LEMMA FInvHolds == FSpec => []FInv
BY FInvInit, FInvStep, PTL DEF FSpec

-----------------------------------------------------------------------------
\* Only the end of a load goes from "load" to "ready".
LEMMA OnlyLoadDone ==
  ASSUME [FNext]_allVars, phase = "load", phase' = "ready"
  PROVE  LoadDone
<1>1. ~Next
  BY DEF Next, Calls, Create, Destroy, LookupKey, Remove, InsertRefused, InsertInPlace,
         InsertResize, Compact, CopyStep, SkipDeleted, CopyEntry, CompactDone, InsertResized,
         Copying, CopyDone, Restart
<1>2. ~UNCHANGED allVars
  BY DEF allVars, vars
<1>3. FileCalls
  BY <1>1, <1>2 DEF FNext
<1>4. ~UNCHANGED vars
  BY DEF vars
<1> QED BY <1>3, <1>4 DEF FileCalls, Save, SaveNoTable, SaveSize, SaveHeader, SaveToc, SaveData,
           SaveFooter, WriteChunk, Saving, Load, LoadEntry, Kill, PowerLoss, Writeback

\* Then the whole image whose sum the file has has been read.
LEMMA LoadedWhole ==
  ASSUME FInv, LoadDone, NEW n \in DOMAIN saves, IsSum(Crc(file), saves[n])
  PROVE  Image(tbl') = AsFiled(saves[n])
<1>1. /\ tbl' = new /\ new.cnt = file.hdr.kvcnt /\ LoadAccepts(file)
      /\ HoldsStart(new, saves[n])
  BY DEF FInv, LoadInv, LoadDone
<1>2. PICK cnt \in 1..MaxCap : IsImageOf(saves[n], cnt) /\ Crc(file) = SumOf(saves[n], cnt)
  BY DEF IsSum
<1>3. file.hdr.kvcnt = cnt
  BY <1>2 DEF Crc, SumOf, ImageHeader
<1>4. DOMAIN saves[n] = 0..cnt-1 /\ Entries(new) = 0..cnt-1
  BY <1>1, <1>2, <1>3 DEF IsImageOf, Entries
<1>5. \A j \in 0..cnt-1 : new.ents[j] = AsFiled(saves[n])[j]
  BY <1>1, <1>3 DEF HoldsStart
<1>6. AsFiled(saves[n]) = [j \in 0..cnt-1 |-> AsFiled(saves[n])[j]]
  BY <1>4 DEF AsFiled
<1> QED BY <1>1, <1>4, <1>5, <1>6 DEF Image

LoadsWhole ==
  phase = "load" /\ phase' = "ready" =>
    \E n \in DOMAIN saves : Image(tbl') = AsFiled(saves[n])

LEMMA LoadsWholeStep == FInv /\ [FNext]_allVars => LoadsWhole
<1> SUFFICES ASSUME FInv, [FNext]_allVars, phase = "load", phase' = "ready"
             PROVE  \E n \in DOMAIN saves : Image(tbl') = AsFiled(saves[n])
  BY DEF LoadsWhole
<1>1. LoadDone
  BY OnlyLoadDone
<1>2. LoadAccepts(file)
  BY DEF FInv, LoadInv
<1>3. PICK n \in DOMAIN saves : IsSum(Crc(file), saves[n])
  BY <1>2, LoadSource
<1> QED BY <1>1, <1>3, LoadedWhole

(***************************************************************************)
(* NeverLoadsTornFile holds of every behaviour: kills, saves over older    *)
(* files, chunks written back in any order and power losses cannot make    *)
(* kv_ser.c's load return anything but one whole table that was saved.     *)
(***************************************************************************)
THEOREM NoTornLoad == FSpec => NeverLoadsTornFile
<1>1. FSpec => [][LoadsWhole]_allVars
  BY FInvHolds, LoadsWholeStep, PTL DEF FSpec
<1> QED BY <1>1, PTL DEF NeverLoadsTornFile, LoadsWhole

HeldLoads ==
  /\ held' # 0 => LoadAccepts(file')
  /\ phase = "load" /\ phase' = "ready" /\ held # 0 => Image(tbl') = AsFiled(saves[held])

LEMMA HeldLoadsStep == FInv /\ FInv' /\ [FNext]_allVars => HeldLoads
<1> SUFFICES ASSUME FInv, FInv', [FNext]_allVars PROVE HeldLoads
  OBVIOUS
<1>1. held' # 0 => LoadAccepts(file')
  BY DEF FInv, HeldInv, LoadAccepts, Crc
<1>2. ASSUME phase = "load", phase' = "ready", held # 0
      PROVE  Image(tbl') = AsFiled(saves[held])
  <2>1. LoadDone
    BY <1>2, OnlyLoadDone
  <2>2. IsSum(Crc(file), saves[held]) /\ held \in DOMAIN saves
    BY <1>2 DEF FInv, HeldInv, FilesInv
  <2> QED BY <2>1, <2>2, LoadedWhole
<1> QED BY <1>1, <1>2 DEF HeldLoads

(***************************************************************************)
(* RoundTrip holds of every behaviour: as long as nobody touches the file  *)
(* of a save that returned 0, it passes every check of a load, and the     *)
(* load returns what was saved, keys too long for key_len cut short.       *)
(***************************************************************************)
THEOREM SavesComeBack == FSpec => RoundTrip
<1>1. FSpec => [][HeldLoads]_allVars
  BY FInvHolds, HeldLoadsStep, PTL DEF FSpec
<1> QED BY <1>1, PTL DEF RoundTrip, HeldLoads

(***************************************************************************)
(* LoadedTableSound holds in every reachable state: types of tables and    *)
(* files; every entry of a table is found through its index, whether it    *)
(* was inserted, copied or loaded; and no key has two live entries unless  *)
(* one that was saved was too long for the file.                           *)
(***************************************************************************)
THEOREM LoadedTablesSound == FSpec => []LoadedTableSound
<1>1. FInv => LoadedTableSound
  <2> SUFFICES ASSUME FInv PROVE LoadedTableSound
    OBVIOUS
  <2>1. FTypeOK
    <3>1. /\ IsTable(tbl) /\ IsTable(new) /\ call \in Call /\ i \in 0..MaxCap
          /\ IsFile(file) /\ IsFile(disk) /\ saves \in Seq(Images)
      BY DEF FInv, TablesTyped, GoodType, FilesInv, WholeFile
    <3>2. ASSUME NEW n \in DOMAIN saves PROVE IsImage(saves[n])
      <4>1. saves[n] \in Images
        BY <3>1
      <4>2. PICK cnt \in 1..MaxCap : saves[n] \in [0..cnt-1 -> KVEntry]
        BY <4>1 DEF Images
      <4>3. DOMAIN saves[n] = 0..cnt-1 /\ cnt \in 0..MaxCap
        BY <4>2, BoundAssumption
      <4> QED BY <4>2, <4>3 DEF IsImage
    <3> QED BY <3>1, <3>2 DEF FInv, FilesInv, FTypeOK
  <2>2. IndexOK
    BY DEF FInv, TablesInv
  <2>3. OneLivePerKey \/ KeyWasCut
    BY DEF FInv, TablesInv, MapInv, GoodMap, OneLivePerKey
  <2>4. ValuesInside(tbl)
    <3>1. /\ Ends(tbl) /\ tbl \in TableOf(tbl.cap) /\ tbl.cap \in Nat /\ Filled(tbl)
          /\ tbl.mem.cur \in Nat /\ tbl.mem.size \in Nat
      BY GoodTypeFields DEF FInv, TablesInv, TablesTyped, GoodType, Arena
    <3>2. ASSUME NEW j \in Entries(tbl) PROVE EndOf(tbl.ents[j]) <= tbl.mem.size
      <4>1. EndOf(tbl.ents[j]) \in Nat
        BY <3>1, FilledEnds
      <4>2. EndOf(tbl.ents[j]) <= tbl.mem.cur /\ tbl.mem.cur <= tbl.mem.size
        BY <3>1 DEF Ends
      <4> QED BY <3>1, <4>1, <4>2
    <3> QED BY <3>2 DEF ValuesInside, EndOf
  <2> QED BY <2>1, <2>2, <2>3, <2>4 DEF LoadedTableSound
<1> QED BY FInvHolds, <1>1, PTL

-----------------------------------------------------------------------------
(***************************************************************************)
(* What the file leaving out the last NUL costs.  The entries of a table,  *)
(* or of an image, are packed if Layout holds of them but for the end of   *)
(* the last value; a table from a file is loose: packed, its cursor at the *)
(* end of its arena, and its last value without a NUL, perhaps, behind it. *)
(***************************************************************************)
PackedImage(img) ==
  \A j \in DOMAIN img :
    /\ img[j].koff % 4 = 0 /\ img[j].voff % 4 = 0 /\ KeyEnd(img[j]) <= img[j].voff
    /\ \A m \in DOMAIN img : m = j + 1 => ValEnd(img[j]) <= img[m].koff

Loose(t) == t.mem.cur = t.mem.size /\ PackedImage(Image(t))

\* Where entry n would begin: the one behind the last, after a last NUL.
Limit(t, n) == IF n < t.cnt THEN t.ents[n].koff ELSE t.mem.size + 1

LEMMA ImageEntry ==
  ASSUME NEW t, NEW j \in Entries(t)
  PROVE  Image(t)[j] = t.ents[j] /\ DOMAIN Image(t) = Entries(t)
BY DEF Image

LEMMA LayoutPacked ==
  ASSUME NEW t, Layout(t), t.cnt \in Nat
  PROVE  PackedImage(Image(t))
<1>1. ASSUME NEW j \in Entries(t)
      PROVE  /\ t.ents[j].koff % 4 = 0 /\ t.ents[j].voff % 4 = 0
             /\ KeyEnd(t.ents[j]) <= t.ents[j].voff
             /\ \A m \in Entries(t) : m = j + 1 => ValEnd(t.ents[j]) <= t.ents[m].koff
  <2>1. /\ t.ents[j].koff % 4 = 0 /\ t.ents[j].voff % 4 = 0
        /\ KeyEnd(t.ents[j]) <= t.ents[j].voff
        /\ ValEnd(t.ents[j]) <= IF j + 1 < t.cnt THEN t.ents[j+1].koff ELSE t.mem.cur
    BY DEF Layout, KVTBL_MEM_ALIGN
  <2>2. \A m \in Entries(t) : m < t.cnt
    BY DEF Entries
  <2> QED BY <2>1, <2>2
<1> QED BY <1>1, ImageEntry DEF PackedImage, Image

\* An image stays packed when the file cuts its keys.
LEMMA FiledPacked ==
  ASSUME NEW img, NEW cnt \in 1..MaxCap, IsImageOf(img, cnt), PackedImage(img)
  PROVE  PackedImage(AsFiled(img))
<1> DEFINE f == AsFiled(img)
<1>1. DOMAIN img = 0..cnt-1 /\ DOMAIN f = 0..cnt-1
  BY DEF IsImageOf, AsFiled
<1>2. ASSUME NEW j \in 0..cnt-1
      PROVE  /\ f[j].koff = img[j].koff /\ f[j].voff = img[j].voff
             /\ KeyEnd(f[j]) <= KeyEnd(img[j]) /\ ValEnd(f[j]) = ValEnd(img[j])
             /\ KeyEnd(f[j]) \in Nat /\ KeyEnd(img[j]) \in Nat /\ img[j].voff \in Nat
  <2>1. /\ img[j] \in KVEntry /\ img[j].key \in Keys
        /\ f[j] = [key |-> CutKey(img[j].key), val |-> img[j].val,
                   koff |-> img[j].koff, voff |-> img[j].voff, stat |-> img[j].stat]
    BY FiledEntry
  <2> HIDE DEF f
  <2>2. f[j].koff = img[j].koff /\ f[j].voff = img[j].voff /\ f[j].val = img[j].val
        /\ f[j].key = CutKey(img[j].key) /\ img[j].koff \in Nat /\ img[j].voff \in Nat
    BY <2>1 DEF KVEntry
  <2>3. KLen[img[j].key] \in Nat /\ KLen[CutKey(img[j].key)] \in Nat
        /\ KLen[CutKey(img[j].key)] <= KLen[img[j].key]
    <3>1. CutKey(img[j].key) \in Keys /\ KLen[img[j].key] \in Nat
      BY <2>1, CutKeyFacts, DataAssumption
    <3> QED BY <2>1, <3>1, DataAssumption, FileAssumption DEF CutKey
  <2> QED BY <2>2, <2>3 DEF KeyEnd, ValEnd
<1> HIDE DEF f
<1>3. ASSUME NEW j \in 0..cnt-1
      PROVE  /\ f[j].koff % 4 = 0 /\ f[j].voff % 4 = 0 /\ KeyEnd(f[j]) <= f[j].voff
             /\ \A m \in 0..cnt-1 : m = j + 1 => ValEnd(f[j]) <= f[m].koff
  <2>1. /\ img[j].koff % 4 = 0 /\ img[j].voff % 4 = 0 /\ KeyEnd(img[j]) <= img[j].voff
        /\ \A m \in 0..cnt-1 : m = j + 1 => ValEnd(img[j]) <= img[m].koff
    BY <1>1 DEF PackedImage
  <2> QED BY <1>2, <2>1
<1>4. PackedImage(f)
  BY <1>1, <1>3 DEF PackedImage
<1> QED BY <1>4 DEF f

\* An entry of a loose table lies before the next, four bytes at least.
LEMMA LooseEntry ==
  ASSUME NEW t, GoodType(t), Ends(t), Loose(t), NEW j \in Entries(t)
  PROVE  /\ t.ents[j].key \in Keys /\ t.ents[j].val \in Vals
         /\ t.ents[j].koff \in Nat /\ t.ents[j].voff \in Nat
         /\ t.ents[j].koff % 4 = 0 /\ t.ents[j].voff % 4 = 0
         /\ KeyEnd(t.ents[j]) \in Nat /\ KeyEnd(t.ents[j]) <= t.ents[j].voff
         /\ ValEnd(t.ents[j]) \in Nat /\ ValEnd(t.ents[j]) <= Limit(t, j + 1)
         /\ Limit(t, j + 1) \in Nat /\ t.ents[j].koff <= Limit(t, j + 1)
         /\ j + 1 < t.cnt => t.ents[j].koff + 4 <= Limit(t, j + 1) /\ Limit(t, j + 1) <= t.mem.size
         /\ t.mem.size \in Nat /\ t.mem.size > 0 /\ j \in Nat /\ t.cnt \in Nat
<1>1. /\ t \in TableOf(t.cap) /\ t.cap \in Nat /\ Filled(t) /\ t.cnt \in 0..t.cap
      /\ t.cnt \in Nat /\ t.mem.size \in Nat /\ t.mem.cur = t.mem.size /\ j \in Nat /\ j < t.cnt
  BY GoodTypeFields DEF GoodType, Arena, Loose, Entries
<1>2. ASSUME NEW m \in Entries(t)
      PROVE  /\ t.ents[m].key \in Keys /\ t.ents[m].val \in Vals
             /\ t.ents[m].koff \in Nat /\ t.ents[m].voff \in Nat
             /\ KLen[t.ents[m].key] \in Nat /\ VLen[t.ents[m].val] \in Nat
             /\ KeyEnd(t.ents[m]) \in Nat /\ ValEnd(t.ents[m]) \in Nat
             /\ EndOf(t.ents[m]) \in Nat /\ EndOf(t.ents[m]) <= t.mem.size
             /\ t.ents[m].koff % 4 = 0 /\ t.ents[m].voff % 4 = 0
             /\ KeyEnd(t.ents[m]) <= t.ents[m].voff
  <2>1. /\ t.ents[m].key \in Keys /\ t.ents[m].val \in Vals
        /\ t.ents[m].koff \in Nat /\ t.ents[m].voff \in Nat
        /\ KeyEnd(t.ents[m]) \in Nat /\ ValEnd(t.ents[m]) \in Nat
        /\ EndOf(t.ents[m]) \in Nat
    BY <1>1, FilledKeys, FilledEnds
  <2>2. KLen[t.ents[m].key] \in Nat /\ VLen[t.ents[m].val] \in Nat
    BY <2>1, DataAssumption
  <2>3. EndOf(t.ents[m]) <= t.mem.size
    BY <1>1 DEF Ends
  <2>4. /\ t.ents[m].koff % 4 = 0 /\ t.ents[m].voff % 4 = 0 /\ KeyEnd(t.ents[m]) <= t.ents[m].voff
    BY ImageEntry DEF Loose, PackedImage
  <2> QED BY <2>1, <2>2, <2>3, <2>4
<1> DEFINE e == t.ents[j]
<1>3. /\ e.koff + 1 <= e.voff /\ ValEnd(e) = EndOf(e) + 1 /\ e.voff + 1 <= ValEnd(e)
      /\ e.voff <= EndOf(e)
  BY <1>2 DEF KeyEnd, ValEnd, EndOf
<1>4. t.mem.size > 0
  BY <1>1, <1>2, <1>3
<1>5. CASE j + 1 < t.cnt
  <2>1. j + 1 \in Entries(t) /\ Limit(t, j + 1) = t.ents[j + 1].koff
    BY <1>1, <1>5 DEF Entries, Limit
  <2>2. ValEnd(e) <= t.ents[j + 1].koff
    BY <2>1, ImageEntry DEF Loose, PackedImage
  <2>3. e.koff + 4 <= t.ents[j + 1].koff
    <3>1. /\ e.koff \in Nat /\ e.koff % 4 = 0 /\ t.ents[j + 1].koff \in Nat
          /\ t.ents[j + 1].koff % 4 = 0 /\ e.koff < t.ents[j + 1].koff
      BY <1>2, <1>3, <2>1, <2>2
    <3> HIDE DEF e
    <3>2. ASSUME NEW a \in Nat, NEW b \in Nat, a % 4 = 0, b % 4 = 0, a < b PROVE a + 4 <= b
      BY <3>2
    <3> QED BY <3>1, <3>2
  <2>4. t.ents[j + 1].koff <= t.mem.size
    <3>1. t.ents[j + 1].koff + 1 <= t.ents[j + 1].voff
          /\ t.ents[j + 1].voff <= EndOf(t.ents[j + 1])
      BY <1>2, <2>1 DEF KeyEnd, EndOf
    <3> QED BY <1>1, <1>2, <2>1, <3>1
  <2> HIDE DEF e
  <2>5. e.koff <= t.ents[j + 1].koff /\ t.ents[j + 1].koff \in Nat
    BY <1>2, <2>1, <2>3 DEF e
  <2> QED BY <1>1, <1>2, <1>4, <2>1, <2>2, <2>3, <2>4, <2>5 DEF e
<1>6. CASE ~(j + 1 < t.cnt)
  <2>1. Limit(t, j + 1) = t.mem.size + 1
    BY <1>6 DEF Limit
  <2>2. ValEnd(e) <= t.mem.size + 1 /\ e.koff <= t.mem.size + 1
    BY <1>1, <1>2, <1>3
  <2> QED BY <1>1, <1>2, <1>4, <1>6, <2>1, <2>2
<1> QED BY <1>5, <1>6

\* A copied entry ends no later than it did, and d bytes earlier if there
\* were d to spare before it.
LEMMA LooseCopied ==
  ASSUME NEW t, GoodType(t), Ends(t), Loose(t), NEW m \in Arena, NEW j \in Entries(t),
         NEW d \in {0, 4}, m.cur + d <= t.ents[j].koff
  PROVE  /\ PairEnd(m, t.ents[j].key, t.ents[j].val) \in Nat
         /\ PairEnd(m, t.ents[j].key, t.ents[j].val) + d <= ValEnd(t.ents[j])
         /\ PairEnd(m, t.ents[j].key, t.ents[j].val) + d <= Limit(t, j + 1)
<1> DEFINE e == t.ents[j]
<1>1. /\ e.key \in Keys /\ e.val \in Vals /\ e.koff \in Nat /\ e.voff \in Nat
      /\ e.koff % 4 = 0 /\ e.voff % 4 = 0 /\ KeyEnd(e) \in Nat /\ KeyEnd(e) <= e.voff
      /\ ValEnd(e) \in Nat /\ ValEnd(e) <= Limit(t, j + 1) /\ Limit(t, j + 1) \in Nat
  BY LooseEntry
<1>2. m.cur + d <= e.koff
  OBVIOUS
<1> HIDE DEF e
<1>3. /\ KeyAt(m) \in Nat /\ ValAt(m, e.key) \in Nat /\ PairEnd(m, e.key, e.val) \in Nat
      /\ KLen[e.key] \in Nat /\ VLen[e.val] \in Nat /\ m.cur \in Nat
  BY <1>1, PairPlaces DEF Arena
<1>4. KeyAt(m) + d <= e.koff
  <2>1. /\ e.koff - d \in Nat /\ m.cur <= e.koff - d /\ (e.koff - d) % 4 = 0
    BY <1>1, <1>2, <1>3
  <2>2. KeyAt(m) <= e.koff - d
    BY <1>3, <2>1, AlignBelow DEF KeyAt
  <2> QED BY <1>1, <1>3, <2>1, <2>2
<1>5. ValAt(m, e.key) + d <= e.voff
  <2>1. KeyAt(m) + KLen[e.key] + 1 \in Nat /\ KeyAt(m) + KLen[e.key] + 1 + d <= e.voff
    BY <1>1, <1>3, <1>4 DEF KeyEnd
  <2>2. e.voff - d \in Nat /\ KeyAt(m) + KLen[e.key] + 1 <= e.voff - d /\ (e.voff - d) % 4 = 0
    BY <1>1, <1>3, <2>1
  <2>3. ValAt(m, e.key) <= e.voff - d
    BY <2>1, <2>2, AlignBelow DEF ValAt
  <2> QED BY <1>1, <1>3, <2>2, <2>3
<1>6. PairEnd(m, e.key, e.val) + d <= ValEnd(e)
  BY <1>1, <1>3, <1>5 DEF PairEnd, ValEnd
<1>7. PairEnd(m, e.key, e.val) + d <= Limit(t, j + 1)
  BY <1>1, <1>3, <1>6
<1> QED BY <1>3, <1>6, <1>7 DEF e

LEMMA RemoveLoose ==
  ASSUME NEW t, GoodType(t), Loose(t), NEW k
  PROVE  Loose(RemoveKey(t, k)) /\ RemoveKey(t, k).cnt = t.cnt
<1>1. CASE Lookup(t, k) < 0
  BY <1>1 DEF RemoveKey
<1>2. CASE ~(Lookup(t, k) < 0)
  <2> DEFINE r == RemoveKey(t, k)
             n == Lookup(t, k)
  <2>1. /\ t \in TableOf(t.cap) /\ t.ents \in [0..t.cap-1 -> KVEntry] /\ t.cnt \in 0..t.cap
        /\ t.cap \in Nat
    BY GoodTypeFields DEF GoodType
  <2>2. /\ r.cnt = t.cnt /\ r.mem = t.mem
        /\ r.ents = [t.ents EXCEPT ![n] = [t.ents[n] EXCEPT !.stat = "DELETED"]]
    BY <1>2, <2>1, RemoveFields
  <2> HIDE DEF r, n
  <2>3. Entries(r) = Entries(t)
    BY <2>2 DEF Entries
  <2>4. \A j \in Entries(t) :
          /\ r.ents[j].koff = t.ents[j].koff /\ r.ents[j].voff = t.ents[j].voff
          /\ KeyEnd(r.ents[j]) = KeyEnd(t.ents[j]) /\ ValEnd(r.ents[j]) = ValEnd(t.ents[j])
    <3> SUFFICES ASSUME NEW j \in Entries(t)
                 PROVE  /\ r.ents[j].koff = t.ents[j].koff /\ r.ents[j].voff = t.ents[j].voff
                        /\ r.ents[j].key = t.ents[j].key /\ r.ents[j].val = t.ents[j].val
      BY DEF KeyEnd, ValEnd
    <3>1. t.ents[j] \in KVEntry /\ j \in DOMAIN t.ents
      BY <2>1 DEF Entries
    <3>2. r.ents[j] = t.ents[j] \/ r.ents[j] = [t.ents[j] EXCEPT !.stat = "DELETED"]
      BY <2>2, <3>1
    <3> QED BY <3>1, <3>2 DEF KVEntry
  <2>5. \A j \in Entries(t) : Image(t)[j] = t.ents[j] /\ Image(r)[j] = r.ents[j]
    BY <2>3 DEF Image
  <2>6. DOMAIN Image(t) = Entries(t) /\ DOMAIN Image(r) = Entries(t)
    BY <2>3 DEF Image
  <2>7. PackedImage(Image(r))
    BY <2>4, <2>5, <2>6 DEF Loose, PackedImage
  <2> QED BY <2>2, <2>7 DEF Loose, r
<1> QED BY <1>1, <1>2

(***************************************************************************)
(* A loose table's copy.  No entry takes more bytes in the new arena than  *)
(* it took in the old one, up to the last NUL; and a dead one before the   *)
(* last leaves four to spare.                                              *)
(***************************************************************************)
DeadBefore(t, n) == \E j \in Entries(t) : j < n /\ t.ents[j].stat = "DELETED"

LooseCopy ==
  /\ GoodLayout(new)
  /\ new.mem.size = IF call.op = "compact" THEN tbl.mem.size ELSE tbl.mem.size * 2
  /\ new.mem.cur <= Limit(tbl, i)
  /\ i < tbl.cnt /\ DeadBefore(tbl, i) => new.mem.cur + 4 <= Limit(tbl, i)

LooseInv ==
  /\ phase \in {"ready", "copy", "save"} /\ tbl.cnt > 0 /\ Loose(tbl)
  /\ phase = "copy" => LooseCopy

NulInv ==
  /\ \A n \in DOMAIN saves : PackedImage(saves[n])
  /\ phase # "load" => LayoutInv \/ LooseInv

LEMMA LooseAtReturn ==
  ASSUME Loose(tbl'), tbl'.cnt > 0, phase' \in {"ready", "save"}
  PROVE  LooseInv'
<1>1. Loose(tbl)'
  BY DEF Loose, PackedImage, Image, Entries
<1> QED BY <1>1 DEF LooseInv

\* What is known of a loose table and its copy.
LEMMA LooseFacts ==
  ASSUME TablesTyped, Ends(tbl), LooseInv
  PROVE  /\ GoodType(tbl) /\ GoodType(new) /\ Loose(tbl)
         /\ tbl \in TableOf(tbl.cap) /\ tbl.cap \in Nat /\ tbl.cnt \in 0..tbl.cap /\ tbl.cnt \in Nat
         /\ tbl.mem \in Arena /\ tbl.mem.size \in Nat /\ tbl.mem.size > 0
         /\ tbl.mem.cur = tbl.mem.size /\ 0 \in Entries(tbl)
         /\ new \in TableOf(new.cap) /\ new.cap \in Nat /\ new.cnt \in 0..new.cap
         /\ new.mem \in Arena /\ new.mem.cur \in Nat /\ new.mem.size \in Nat /\ i \in Nat
         /\ Limit(tbl, 0) \in Nat
<1>1. /\ GoodType(tbl) /\ GoodType(new) /\ Loose(tbl)
      /\ tbl \in TableOf(tbl.cap) /\ tbl.cap \in Nat /\ tbl.cnt \in 0..tbl.cap /\ tbl.cnt \in Nat
      /\ tbl.mem \in Arena /\ tbl.mem.size \in Nat /\ tbl.mem.cur = tbl.mem.size
      /\ new \in TableOf(new.cap) /\ new.cap \in Nat /\ new.cnt \in 0..new.cap
      /\ new.mem \in Arena /\ new.mem.cur \in Nat /\ new.mem.size \in Nat /\ i \in Nat
  BY GoodTypeFields DEF TablesTyped, GoodType, Arena, LooseInv, Loose
<1>2. 0 \in Entries(tbl)
  BY <1>1 DEF LooseInv, Entries
<1>3. tbl.mem.size > 0 /\ tbl.ents[0].koff \in Nat
  BY <1>1, <1>2, LooseEntry
<1>4. Limit(tbl, 0) \in Nat
  BY <1>1, <1>3 DEF Limit
<1> QED BY <1>1, <1>2, <1>3, <1>4

LEMMA LayoutCarried ==
  ASSUME LayoutInv, tbl' = tbl, new' = new, phase' # "copy"
  PROVE  LayoutInv'
BY DEF LayoutInv, Layout, BelowCursor, CopyFits, Entries

LEMMA LayoutGone ==
  ASSUME tbl' = NULL, new' = NULL, phase' # "copy"
  PROVE  LayoutInv'
BY NullLayout, LayoutAtReturn

LEMMA LooseStartCopy ==
  ASSUME TablesTyped, Ends(tbl), LooseInv, phase = "ready",
         NEW c, NEW cap, NEW size \in Nat, StartCopy(c, cap, size),
         size = IF c.op = "compact" THEN tbl.mem.size ELSE tbl.mem.size * 2
  PROVE  LooseInv'
<1>1. Loose(tbl) /\ tbl.cnt > 0 /\ Limit(tbl, 0) \in Nat
  BY LooseFacts DEF LooseInv
<1>2. PICK t \in CreateResults(cap, size) :
        IF ValidTable(t)
        THEN phase' = "copy" /\ new' = t /\ call' = c /\ i' = 0 /\ UNCHANGED <<tbl, ret>>
        ELSE Refuses
  BY DEF StartCopy
<1>3. GoodLayout(t) /\ (ValidTable(t) => t.mem = [cur |-> 0, size |-> size])
  BY CreateLayout
<1>4. CASE ~ValidTable(t)
  BY <1>1, <1>2, <1>4, LooseAtReturn DEF Refuses
<1>5. CASE ValidTable(t)
  <2>1. /\ phase' = "copy" /\ new' = t /\ call' = c /\ i' = 0 /\ tbl' = tbl
        /\ t.mem.cur = 0 /\ t.mem.size = size
    BY <1>2, <1>3, <1>5
  <2>2. Loose(tbl)'
    <3>1. tbl' = tbl /\ Loose(tbl)
      BY <1>1, <2>1
    <3> QED BY ONLY <3>1 DEF Loose, PackedImage, Image, Entries
  <2>3. GoodLayout(new)'
    BY <1>3, <2>1 DEF GoodLayout, Layout, BelowCursor, Entries
  <2>4. ~DeadBefore(tbl, 0)'
    BY DEF DeadBefore, Entries
  <2>5. 0 <= Limit(tbl, 0)
    BY <1>1
  <2>6. LooseCopy'
    BY <2>1, <2>3, <2>4, <2>5 DEF LooseCopy, Limit, DeadBefore
  <2> QED BY <1>1, <2>1, <2>2, <2>6 DEF LooseInv
<1> QED BY <1>4, <1>5

\* The i-th entry of a loose table, while it is being copied.
LEMMA LooseTurn ==
  ASSUME TablesTyped, Ends(tbl), LooseInv, Copying
  PROVE  /\ i \in Entries(tbl) /\ phase = "copy" /\ i \in Nat /\ i + 1 \in Nat /\ i < tbl.cnt
         /\ new.mem.cur <= tbl.ents[i].koff
         /\ DeadBefore(tbl, i) => new.mem.cur + 4 <= tbl.ents[i].koff
         /\ DeadBefore(tbl, i + 1) <=> DeadBefore(tbl, i) \/ tbl.ents[i].stat = "DELETED"
         /\ new.cnt < new.cap
<1>1. i < tbl.cnt /\ phase = "copy" /\ i \in Nat /\ tbl.cnt \in Nat /\ new.cnt \in 0..new.cap
      /\ new.cap \in Nat /\ tbl.cap \in Nat /\ tbl.cnt \in 0..tbl.cap
  BY LooseFacts DEF Copying
<1>2. i \in Entries(tbl) /\ Limit(tbl, i) = tbl.ents[i].koff
  BY <1>1 DEF Entries, Limit
<1>3. \A j \in Entries(tbl) : j < i + 1 <=> j < i \/ j = i
  BY <1>1 DEF Entries
<1>4. new.cnt < new.cap
  BY <1>1 DEF TablesTyped, CopyRoom
<1> QED BY <1>1, <1>2, <1>3, <1>4 DEF LooseInv, LooseCopy, DeadBefore

\* The copy goes on with the next entry.
LEMMA LooseGoesOn ==
  ASSUME Loose(tbl), tbl.cnt > 0, phase' = "copy", UNCHANGED <<tbl, call>>, i' = i + 1,
         GoodLayout(new'), new'.mem.size = new.mem.size, LooseCopy,
         new'.mem.cur <= Limit(tbl, i + 1),
         i + 1 < tbl.cnt /\ DeadBefore(tbl, i + 1) => new'.mem.cur + 4 <= Limit(tbl, i + 1)
  PROVE  LooseInv'
<1>1. Loose(tbl)'
  BY DEF Loose, PackedImage, Image, Entries
<1>2. GoodLayout(new)'
  BY DEF GoodLayout, Layout, BelowCursor, Entries
<1>3. LooseCopy'
  BY <1>2 DEF LooseCopy, Limit, DeadBefore, Entries
<1> QED BY <1>1, <1>3 DEF LooseInv

LEMMA LooseSkips ==
  ASSUME TablesTyped, Ends(tbl), LooseInv, SkipDeleted
  PROVE  LooseInv'
<1>1. Copying /\ tbl.ents[i].stat = "DELETED" /\ i' = i + 1 /\ UNCHANGED <<phase, tbl, new, call, ret>>
  BY DEF SkipDeleted
<1>2. /\ i \in Entries(tbl) /\ phase = "copy" /\ i \in Nat
      /\ new.mem.cur <= tbl.ents[i].koff
  BY <1>1, LooseTurn
<1>3. Loose(tbl) /\ GoodType(tbl) /\ new.mem.cur \in Nat
  BY LooseFacts
<1>4. /\ tbl.ents[i].koff \in Nat /\ Limit(tbl, i + 1) \in Nat
      /\ tbl.ents[i].koff <= Limit(tbl, i + 1)
      /\ i + 1 < tbl.cnt => tbl.ents[i].koff + 4 <= Limit(tbl, i + 1)
  BY <1>2, <1>3, LooseEntry
<1>5. /\ new.mem.cur <= Limit(tbl, i + 1)
      /\ i + 1 < tbl.cnt => new.mem.cur + 4 <= Limit(tbl, i + 1)
  BY <1>2, <1>3, <1>4
<1>6. tbl.cnt > 0 /\ LooseCopy /\ GoodLayout(new)
  BY <1>2 DEF LooseInv, LooseCopy
<1> QED BY <1>1, <1>2, <1>3, <1>5, <1>6, LooseGoesOn

LEMMA LooseCopies ==
  ASSUME TablesTyped, Ends(tbl), LooseInv, CopyEntry
  PROVE  LayoutInv' \/ LooseInv'
<1> DEFINE e == tbl.ents[i]
           end == PairEnd(new.mem, e.key, e.val)
<1>1. /\ Copying /\ i \in Entries(tbl) /\ phase = "copy" /\ i \in Nat /\ new.cnt < new.cap
      /\ new.mem.cur <= e.koff /\ (DeadBefore(tbl, i) => new.mem.cur + 4 <= e.koff)
      /\ DeadBefore(tbl, i + 1) <=> DeadBefore(tbl, i)
  BY LooseTurn DEF CopyEntry
<1>2. /\ Loose(tbl) /\ GoodType(tbl) /\ GoodType(new) /\ new.mem \in Arena
      /\ new \in TableOf(new.cap) /\ new.cap \in Nat /\ new.mem.cur \in Nat
  BY LooseFacts
<1>3. e.key \in Keys /\ e.val \in Vals /\ e.koff \in Nat
  BY <1>1, <1>2, LooseEntry
<1>4. tbl.cnt > 0 /\ LooseCopy /\ GoodLayout(new)
  BY <1>1 DEF LooseInv, LooseCopy
<1>5. CASE ~PairFits(new.mem, e.key, e.val)
  <2>1. \/ Returns("fail") /\ phase' = "ready" /\ tbl' = tbl
        \/ Aborts
    BY <1>5 DEF CopyEntry
  <2>2. CASE Aborts
    BY <2>2, LayoutGone DEF Aborts, Returns
  <2>3. CASE Returns("fail") /\ phase' = "ready" /\ tbl' = tbl
    BY <1>2, <1>4, <2>3, LooseAtReturn
  <2> QED BY <2>1, <2>2, <2>3
<1>6. CASE PairFits(new.mem, e.key, e.val)
  <2>1. /\ new' = AppendEntry(new, e.key, e.val) /\ i' = i + 1
        /\ UNCHANGED <<phase, tbl, call, ret>>
    BY <1>6 DEF CopyEntry
  <2>2. end \in Nat /\ end + 0 <= Limit(tbl, i + 1)
    <3>1. new.mem.cur + 0 <= e.koff
      BY <1>1, <1>2
    <3> QED BY <1>1, <1>2, <3>1, LooseCopied
  <2>3. DeadBefore(tbl, i + 1) => end + 4 <= Limit(tbl, i + 1)
    BY <1>1, <1>2, LooseCopied
  <2>4. new'.mem = [cur |-> end, size |-> new.mem.size]
    <3>1. AllocVal(new.mem, e.key, e.val).mem = [cur |-> end, size |-> new.mem.size]
      BY <1>2, <1>3, <1>6, PairFitsIff
    <3> QED BY <1>2, <1>6, <2>1, <3>1, AppendFields
  <2> HIDE DEF end, e
  <2>5. GoodLayout(new')
    BY <1>1, <1>2, <1>3, <1>4, <2>1, AppendLayout, AppendBelow DEF GoodType, GoodLayout
  <2>6. /\ new'.mem.size = new.mem.size /\ new'.mem.cur <= Limit(tbl, i + 1)
        /\ DeadBefore(tbl, i + 1) => new'.mem.cur + 4 <= Limit(tbl, i + 1)
    BY <2>2, <2>3, <2>4
  <2> QED BY <1>1, <1>2, <1>4, <2>1, <2>5, <2>6, LooseGoesOn
<1> QED BY <1>5, <1>6

\* A loose table has no room: an insertion moves to a larger arena first.
LEMMA LooseIsFull ==
  ASSUME TablesTyped, Ends(tbl), LooseInv, NEW k \in Keys, NEW v \in Vals
  PROVE  MemShouldResize(tbl, k, v)
<1>1. tbl.mem.size \in Nat /\ tbl.mem.cur = tbl.mem.size
  BY LooseFacts
<1>2. KLen[k] \in Nat /\ VLen[v] \in Nat
  BY DataAssumption
<1> QED BY <1>1, <1>2 DEF MemShouldResize, KVTBL_MEM_ALIGN

LEMMA LooseStep ==
  ASSUME FInv, LooseInv, Next
  PROVE  LayoutInv' \/ LooseInv'
<1>1. TablesTyped /\ Ends(tbl) /\ CopyRoom
  BY DEF FInv, TablesInv, TablesTyped
<1>2. /\ GoodType(tbl) /\ Loose(tbl) /\ tbl.cnt > 0 /\ GoodType(new)
      /\ tbl.mem.size \in Nat /\ phase \in {"ready", "copy", "save"}
      /\ phase = "copy" => GoodLayout(new)
  BY <1>1, LooseFacts DEF LooseInv, LooseCopy
<1>3. ~Restart /\ \A cap, size : ~Create(cap, size)
  BY <1>2 DEF Restart, Create
<1>4. CASE Destroy
  BY <1>4, LayoutGone DEF Destroy, Returns
<1>5. ASSUME NEW k \in Keys, LookupKey(k) PROVE LooseInv'
  BY <1>2, <1>5, LooseAtReturn DEF LookupKey
<1>6. ASSUME NEW k \in Keys, Remove(k) PROVE LooseInv'
  BY <1>2, <1>6, RemoveLoose, LooseAtReturn DEF Remove
<1>7. ASSUME NEW k \in Keys, NEW v \in Vals, InsertRefused(k, v) PROVE LooseInv'
  BY <1>2, <1>7, LooseAtReturn DEF InsertRefused, Refuses
<1>8. ASSUME NEW k \in Keys, NEW v \in Vals PROVE ~InsertInPlace(k, v)
  BY <1>1, LooseIsFull DEF InsertInPlace, ShouldResize
<1>9. ASSUME NEW k \in Keys, NEW v \in Vals, InsertResize(k, v) PROVE LooseInv'
  <2> DEFINE c == InsertCall(k, v)
             size == tbl.mem.size * 2
  <2>1. ResizeMem(tbl, k, v) = size
    BY <1>1, LooseIsFull DEF ResizeMem
  <2>2. phase = "ready" /\ StartCopy(c, ResizeCap(tbl), size)
    BY <1>9, <2>1 DEF InsertResize
  <2>3. size \in Nat /\ size = IF c.op = "compact" THEN tbl.mem.size ELSE tbl.mem.size * 2
    BY <1>2 DEF InsertCall
  <2> HIDE DEF c, size
  <2> QED BY <1>1, <2>2, <2>3, LooseStartCopy
<1>10. CASE Compact
  <2>1. CompactCall.op = "compact"
    BY DEF CompactCall
  <2> QED BY <1>1, <1>2, <1>10, <2>1, LooseStartCopy DEF Compact
<1>11. CASE SkipDeleted
  BY <1>1, <1>11, LooseSkips
<1>12. CASE CopyEntry
  BY <1>1, <1>12, LooseCopies
<1>13. CASE CompactDone
  BY <1>2, <1>13, LayoutAtReturn DEF CompactDone, CopyDone, Returns
<1>14. CASE InsertResized
  <2>1. /\ call.key \in Keys /\ call.val \in Vals /\ new.cnt < new.cap /\ GoodLayout(new)
        /\ InsertInto(new, call.key, call.val)
    <3>1. call.key \in Keys /\ call.val \in Vals /\ tbl.cnt < new.cap /\ new.cnt <= tbl.cnt
      BY <1>1, <1>14 DEF CopyRoom, InsertResized, CopyDone
    <3>2. tbl.cnt \in Nat /\ new.cap \in Nat /\ new.cnt \in 0..new.cap
      BY <1>1, LooseFacts
    <3> QED BY <1>2, <1>14, <3>1, <3>2 DEF InsertResized, CopyDone
  <2>2. GoodLayout(tbl')
    BY <1>2, <2>1, InsertIntoLayout
  <2>3. new' = NULL /\ phase' # "copy"
    BY <1>2, <2>1, InsertIntoGood
  <2> QED BY <2>2, <2>3, LayoutAtReturn
<1> QED
  BY <1>3, <1>4, <1>5, <1>6, <1>7, <1>8, <1>9, <1>10, <1>11, <1>12, <1>13, <1>14
     DEF Next, Calls, CopyStep

(***************************************************************************)
(* NulInv is an invariant: a table is laid out well or loose, and what was *)
(* saved of it is packed.                                                  *)
(***************************************************************************)
LEMMA NulCarried ==
  ASSUME NulInv, phase \in {"ready", "save"}, phase' \in {"ready", "save"}, UNCHANGED <<tbl, new>>
  PROVE  LayoutInv' \/ LooseInv'
<1>1. CASE LayoutInv
  BY <1>1, LayoutCarried
<1>2. CASE LooseInv
  BY <1>2, LooseAtReturn DEF LooseInv
<1> QED BY <1>1, <1>2 DEF NulInv

LEMMA NulUnchanged ==
  ASSUME NulInv, UNCHANGED vars, saves' = saves
  PROVE  NulInv'
<1>1. /\ phase' = phase /\ tbl' = tbl /\ new' = new /\ call' = call /\ i' = i
  BY DEF vars
<1>2. LayoutInv => LayoutInv'
  BY <1>1 DEF LayoutInv, Layout, BelowCursor, CopyFits
<1>3. LooseInv => LooseInv'
  BY <1>1 DEF LooseInv, Loose, PackedImage, Image, Entries, LooseCopy, GoodLayout,
              Layout, BelowCursor, Limit, DeadBefore
<1> QED BY <1>1, <1>2, <1>3 DEF NulInv

\* A save takes down a packed image.
LEMMA NulSave ==
  ASSUME FInv, NulInv, NEW truncate \in BOOLEAN, Save(truncate)
  PROVE  NulInv'
<1>1. /\ phase = "ready" /\ phase' \in {"ready", "save"} /\ UNCHANGED <<tbl, new>>
      /\ saves' \in {saves, Append(saves, Image(tbl))}
  BY DEF Save, SaveReturns, Image
<1>2. LayoutInv' \/ LooseInv'
  BY <1>1, NulCarried
<1>3. PackedImage(Image(tbl))
  <2>1. tbl.cnt \in Nat
    BY GoodTypeFields DEF FInv, TablesTyped, GoodType
  <2> QED BY <1>1, <2>1, LayoutPacked DEF NulInv, LayoutInv, LooseInv, Loose
<1>4. \A n \in DOMAIN saves' : PackedImage(saves'[n])
  <2>1. saves \in Seq(Images)
    BY DEF FInv, FilesInv
  <2>2. /\ DOMAIN saves = 1..Len(saves) /\ Len(saves) \in Nat
        /\ DOMAIN Append(saves, Image(tbl)) = 1..Len(saves) + 1
        /\ \A n \in 1..Len(saves) : Append(saves, Image(tbl))[n] = saves[n]
        /\ Append(saves, Image(tbl))[Len(saves) + 1] = Image(tbl)
    BY <2>1
  <2> QED BY <1>1, <1>3, <2>2 DEF NulInv
<1> QED BY <1>2, <1>4 DEF NulInv

\* What a load returns is loose.
LEMMA NulLoadDone ==
  ASSUME FInv, NulInv, LoadDone
  PROVE  LooseInv'
<1>1. /\ phase' = "ready" /\ tbl' = new /\ phase = "load" /\ LoadAccepts(file)
      /\ new.mem = [cur |-> LoadMemSize(file), size |-> LoadMemSize(file)]
      /\ new.cnt = file.hdr.kvcnt
  BY DEF FInv, LoadInv, LoadDone
<1>2. PICK n \in DOMAIN saves, cnt \in 1..MaxCap :
        IsImageOf(saves[n], cnt) /\ IsSum(Crc(file), saves[n]) /\ file.hdr.kvcnt = cnt
  BY <1>1, LoadSource
<1>3. Image(tbl') = AsFiled(saves[n])
  BY <1>2, LoadedWhole
<1>4. PackedImage(AsFiled(saves[n]))
  BY <1>2, FiledPacked DEF NulInv
<1>5. Loose(tbl')
  BY <1>1, <1>3, <1>4 DEF Loose
<1>6. tbl'.cnt > 0
  BY <1>1, <1>2, BoundAssumption
<1> QED BY <1>1, <1>5, <1>6, LooseAtReturn

LEMMA NulInvStep == FInv /\ NulInv /\ [FNext]_allVars => NulInv'
<1> SUFFICES ASSUME FInv, NulInv, [FNext]_allVars PROVE NulInv'
  OBVIOUS
<1>1. CASE Next /\ UNCHANGED fileVars
  <2>1. saves' = saves
    BY <1>1 DEF fileVars
  <2>2. phase \in {"none", "ready", "copy", "aborted", "dangling"}
    BY <1>1 DEF Next, Calls, Create, Destroy, LookupKey, Remove, InsertRefused, InsertInPlace,
         InsertResize, Compact, CopyStep, SkipDeleted, CopyEntry, CompactDone, InsertResized,
         Copying, CopyDone, Restart
  <2>3. CASE LayoutInv
    <3>1. TypeInv
      BY <2>2, TypeInvIs DEF FInv
    <3>2. LayoutInv'
      BY <1>1, <2>3, <3>1, LayoutInvStep
    <3> QED BY <2>1, <3>2 DEF NulInv
  <2>4. CASE LooseInv
    <3>1. LayoutInv' \/ LooseInv'
      BY <1>1, <2>4, LooseStep
    <3> QED BY <2>1, <3>1 DEF NulInv
  <2> QED BY <2>2, <2>3, <2>4 DEF NulInv
<1>2. ASSUME NEW truncate \in BOOLEAN, Save(truncate) PROVE NulInv'
  BY <1>2, NulSave
<1>3. CASE SaveSize \/ SaveFooter
  <2>1. /\ phase = "save" /\ phase' \in {"ready", "save"} /\ UNCHANGED <<tbl, new>> /\ saves' = saves
    BY <1>3 DEF SaveSize, SaveFooter, Saving, SaveReturns, vars
  <2>2. LayoutInv' \/ LooseInv'
    BY <2>1, NulCarried
  <2> QED BY <2>1, <2>2 DEF NulInv
<1>4. CASE SaveHeader \/ SaveToc \/ SaveData
  BY <1>4, NulUnchanged DEF SaveHeader, SaveToc, SaveData, WriteChunk
<1>5. CASE Load
  <2>1. saves' = saves /\ tbl' = NULL /\ (phase' = "load" \/ (new' = NULL /\ phase' \in {"none", "dangling"}))
    BY <1>5 DEF Load, Returns, fileVars
  <2>2. phase' # "load" => LayoutInv'
    BY <2>1, LayoutGone
  <2> QED BY <2>1, <2>2 DEF NulInv
<1>6. CASE LoadEntry
  BY <1>6 DEF LoadEntry, fileVars, NulInv
<1>7. CASE LoadDone
  <2>1. saves' = saves /\ LooseInv'
    BY <1>7, NulLoadDone DEF LoadDone, fileVars
  <2> QED BY <2>1 DEF NulInv
<1>8. CASE Kill \/ PowerLoss
  <2>1. saves' = saves /\ tbl' = NULL /\ new' = NULL /\ phase' = "none"
    BY <1>8 DEF Kill, PowerLoss, Returns
  <2> QED BY <2>1, LayoutGone DEF NulInv
<1>9. ASSUME NEW chunk \in DOMAIN file, Writeback(chunk) PROVE NulInv'
  BY <1>9, NulUnchanged DEF Writeback
<1>10. CASE SaveNoTable
  <2>1. /\ phase = "none" /\ UNCHANGED <<phase, tbl, new, call, i, saves>>
    BY <1>10 DEF SaveNoTable
  <2>2. LayoutInv => LayoutInv'
    BY <2>1 DEF LayoutInv, Layout, BelowCursor, CopyFits
  <2>3. LooseInv => LooseInv'
    BY <2>1 DEF LooseInv, Loose, PackedImage, Image, Entries, LooseCopy, GoodLayout,
                Layout, BelowCursor, Limit, DeadBefore
  <2> QED BY <2>1, <2>2, <2>3 DEF NulInv
<1>11. CASE UNCHANGED allVars
  BY <1>11, NulUnchanged DEF allVars, fileVars
<1> QED
  BY <1>1, <1>2, <1>3, <1>4, <1>5, <1>6, <1>7, <1>8, <1>9, <1>10, <1>11 DEF FNext, FileCalls

LEMMA NulInvInit == FInit => NulInv
BY LayoutInvInit DEF FInit, NulInv

-----------------------------------------------------------------------------
(***************************************************************************)
(* What kills the process while the table is loose.                        *)
(***************************************************************************)
NulKills ==
  phase' = "aborted" /\ phase # "aborted" =>
    \/ call.op = "insert" /\ PairBytes(call.key, call.val) >= tbl.mem.size
    \/ /\ call.op = "compact" /\ i = tbl.cnt - 1
       /\ Live(tbl) = Entries(tbl)
       /\ ValEnd(tbl.ents[i]) > tbl.mem.size

\* An entry that does not fit is the last of a compaction's, none is dead.
LEMMA LooseCopyKills ==
  ASSUME TablesTyped, Ends(tbl), LooseInv, CopyEntry, phase' = "aborted"
  PROVE  /\ call.op = "compact" /\ i = tbl.cnt - 1 /\ Live(tbl) = Entries(tbl)
         /\ ValEnd(tbl.ents[i]) > tbl.mem.size
<1> DEFINE e == tbl.ents[i]
           end == PairEnd(new.mem, e.key, e.val)
<1>1. /\ i \in Entries(tbl) /\ phase = "copy" /\ i \in Nat /\ i < tbl.cnt
      /\ new.mem.cur <= e.koff /\ (DeadBefore(tbl, i) => new.mem.cur + 4 <= e.koff)
      /\ e.stat # "DELETED"
  BY LooseTurn DEF CopyEntry
<1>2. /\ Loose(tbl) /\ GoodType(tbl) /\ new.mem \in Arena /\ new.mem.cur \in Nat
      /\ new.mem.size \in Nat /\ tbl.mem.size \in Nat /\ tbl.mem.size > 0 /\ tbl.cnt \in Nat
  BY LooseFacts
<1>3. /\ e.key \in Keys /\ e.val \in Vals /\ e.koff \in Nat /\ ValEnd(e) \in Nat
      /\ Limit(tbl, i + 1) \in Nat /\ ValEnd(e) <= Limit(tbl, i + 1)
      /\ i + 1 < tbl.cnt => Limit(tbl, i + 1) <= tbl.mem.size
  BY <1>1, <1>2, LooseEntry
<1>4. new.mem.size = IF call.op = "compact" THEN tbl.mem.size ELSE tbl.mem.size * 2
  BY <1>1 DEF LooseInv, LooseCopy
<1>5. ~(end <= new.mem.size)
  <2>1. ~PairFits(new.mem, e.key, e.val)
    <3>1. CASE PairFits(new.mem, e.key, e.val)
      BY <1>1, <3>1 DEF CopyEntry
    <3> QED BY <3>1
  <2> QED BY <1>2, <1>3, <2>1, PairFitsIff
<1>6. end \in Nat /\ end + 0 <= ValEnd(e)
  <2>1. new.mem.cur + 0 <= e.koff
    BY <1>1, <1>2
  <2> QED BY <1>1, <1>2, <2>1, LooseCopied
<1>7. DeadBefore(tbl, i) => end + 4 <= ValEnd(e)
  BY <1>1, <1>2, LooseCopied
<1> HIDE DEF end
<1>8. tbl.mem.size <= new.mem.size
  BY <1>2, <1>4
<1>9. ValEnd(e) > tbl.mem.size
  BY <1>2, <1>3, <1>5, <1>6, <1>8
<1>10. i + 1 = tbl.cnt /\ i = tbl.cnt - 1 /\ ValEnd(e) <= tbl.mem.size + 1
  <2>1. ~(i + 1 < tbl.cnt)
    BY <1>2, <1>3, <1>9
  <2>2. i + 1 = tbl.cnt /\ i = tbl.cnt - 1
    BY <1>1, <1>2, <2>1
  <2>3. Limit(tbl, i + 1) = tbl.mem.size + 1
    BY <2>1 DEF Limit
  <2> QED BY <1>3, <2>2, <2>3
<1>11. call.op = "compact"
  <2>1. CASE call.op # "compact"
    <3>1. new.mem.size = tbl.mem.size * 2
      BY <1>4, <2>1
    <3> QED BY <1>2, <1>3, <1>5, <1>6, <1>10, <3>1
  <2> QED BY <2>1
<1>12. ~DeadBefore(tbl, i)
  BY <1>2, <1>3, <1>5, <1>6, <1>7, <1>8, <1>10
<1>13. Live(tbl) = Entries(tbl)
  <2>1. ASSUME NEW j \in Entries(tbl) PROVE tbl.ents[j].stat = "INUSE"
    <3>1. tbl.ents[j].stat \in {"INUSE", "DELETED"}
      BY <1>2 DEF GoodType, Filled, Entries
    <3>2. j < i \/ j = i
      BY <1>2, <1>10 DEF Entries
    <3> QED BY <1>1, <1>12, <3>1, <3>2 DEF DeadBefore
  <2> QED BY <2>1 DEF Live
<1> QED BY <1>9, <1>10, <1>11, <1>13

\* The pair of an insertion that kills had at most a byte to spare.
LEMMA LooseInsertKills ==
  ASSUME TablesTyped, Ends(tbl), LooseInv, InsertResized, phase' = "aborted"
  PROVE  call.op = "insert" /\ PairBytes(call.key, call.val) >= tbl.mem.size
<1>1. /\ phase = "copy" /\ i = tbl.cnt /\ call.op = "insert"
      /\ InsertInto(new, call.key, call.val)
      /\ call.key \in Keys /\ call.val \in Vals
  BY DEF InsertResized, CopyDone, TablesTyped, CopyRoom
<1>2. /\ GoodType(new) /\ new.mem.cur \in Nat /\ tbl.mem.size \in Nat /\ tbl.cnt \in Nat
  BY LooseFacts
<1>3. new.mem.size = tbl.mem.size * 2 /\ new.mem.cur <= tbl.mem.size + 1
  <2>1. LooseCopy /\ call.op # "compact"
    BY <1>1 DEF LooseInv
  <2>2. Limit(tbl, i) = tbl.mem.size + 1
    BY <1>1, <1>2 DEF Limit
  <2> QED BY <2>1, <2>2 DEF LooseCopy
<1>4. PairBytes(call.key, call.val) \in Nat
  <2>1. KLen[call.key] \in Nat /\ VLen[call.val] \in Nat
    BY <1>1, DataAssumption
  <2> QED BY <2>1 DEF PairBytes, KVTBL_MEM_ALIGN
<1>5. ASSUME ~(PairBytes(call.key, call.val) >= tbl.mem.size) PROVE FALSE
  <2>1. new.mem.cur + PairBytes(call.key, call.val) <= new.mem.size
    BY <1>2, <1>3, <1>4, <1>5
  <2> QED BY <1>1, <1>2, <2>1, RoomyInsertReturns
<1> QED BY <1>1, <1>5

LEMMA NulKillsStep == FInv /\ NulInv /\ [FNext]_allVars => NulKills
<1> SUFFICES ASSUME FInv, NulInv, [FNext]_allVars, phase' = "aborted", phase # "aborted"
             PROVE  \/ call.op = "insert" /\ PairBytes(call.key, call.val) >= tbl.mem.size
                    \/ /\ call.op = "compact" /\ i = tbl.cnt - 1
                       /\ Live(tbl) = Entries(tbl)
                       /\ ValEnd(tbl.ents[i]) > tbl.mem.size
  BY DEF NulKills
<1>1. ~UNCHANGED vars /\ ~UNCHANGED allVars
  BY DEF vars, allVars
<1>2. ~FileCalls
  BY <1>1 DEF FileCalls, Save, SaveNoTable, SaveReturns, SaveSize, SaveHeader, SaveToc,
              SaveData, SaveFooter, WriteChunk, Saving, Load, LoadEntry, LoadDone, Kill, PowerLoss, Writeback
<1>3. Next
  BY <1>1, <1>2 DEF FNext
<1>4. phase \in {"none", "ready", "copy", "aborted", "dangling"}
  BY <1>3 DEF Next, Calls, Create, Destroy, LookupKey, Remove, InsertRefused, InsertInPlace,
         InsertResize, Compact, CopyStep, SkipDeleted, CopyEntry, CompactDone, InsertResized,
         Copying, CopyDone, Restart
<1>5. TablesTyped /\ Ends(tbl) /\ TypeInv
  BY <1>4, TypeInvIs DEF FInv, TablesInv
<1>6. ASSUME NEW k \in Keys, NEW v \in Vals, InsertInPlace(k, v) PROVE FALSE
  <2>1. GoodType(tbl) /\ tbl.mem.cur \in Nat /\ tbl.mem.size \in Nat
    BY <1>5, GoodTypeFields DEF TablesTyped, GoodType, Arena
  <2>2. KLen[k] \in Nat /\ VLen[v] \in Nat
    BY DataAssumption
  <2>3. tbl.mem.cur + PairBytes(k, v) <= tbl.mem.size
    BY <1>6, <2>1, <2>2
       DEF InsertInPlace, ShouldResize, MemShouldResize, PairBytes, KVTBL_MEM_ALIGN
  <2> QED BY <1>6, <2>1, <2>3, RoomyInsertReturns DEF InsertInPlace
<1>7. CopyEntry \/ InsertResized
  <2>1. \A k \in Keys, v \in Vals :
          ~InsertInPlace(k, v) /\ ~InsertRefused(k, v) /\ ~InsertResize(k, v)
    BY <1>6 DEF InsertRefused, InsertResize, StartCopy, Refuses
  <2>2. \A k \in Keys : ~LookupKey(k) /\ ~Remove(k)
    BY DEF LookupKey, Remove
  <2>3. /\ \A cap, size : ~Create(cap, size)
        /\ ~Destroy /\ ~Compact /\ ~SkipDeleted /\ ~CompactDone /\ ~Restart
    BY DEF Create, Destroy, Compact, StartCopy, Refuses, SkipDeleted, CompactDone, Restart
  <2> QED BY <1>3, <2>1, <2>2, <2>3 DEF Next, Calls, CopyStep
<1>8. CASE LayoutInv
  <2>1. call.op = "insert" /\ PairBytes(call.key, call.val) > tbl.mem.size
    BY <1>3, <1>5, <1>8, KillStep DEF KillsRightly
  <2>2. call.key \in Keys /\ call.val \in Vals
    BY <1>5, <1>7, <2>1 DEF TablesTyped, CopyRoom, CopyEntry, Copying, InsertResized, CopyDone
  <2>3. KLen[call.key] \in Nat /\ VLen[call.val] \in Nat /\ tbl.mem.size \in Nat
    BY <1>5, <2>2, DataAssumption, GoodTypeFields DEF TablesTyped, GoodType, Arena
  <2>4. PairBytes(call.key, call.val) \in Nat
    BY <2>3 DEF PairBytes, KVTBL_MEM_ALIGN
  <2> QED BY <2>1, <2>3, <2>4
<1>9. CASE LooseInv
  BY <1>5, <1>7, <1>9, LooseCopyKills, LooseInsertKills
<1> QED BY <1>4, <1>8, <1>9 DEF NulInv

(***************************************************************************)
(* KillsOnlyWithoutLastNul holds of every behaviour: beyond a pair larger  *)
(* than the present arena, only a pair one byte below that, and the        *)
(* compaction of a table from a file with no dead entry, end the process   *)
(* (kv_ser.c 18-28, 219-233, kv.c 68-97).                                  *)
(***************************************************************************)
THEOREM OnlyTheLastNul == FSpec => KillsOnlyWithoutLastNul
<1>1. FSpec => [][NulKills]_allVars
  BY FInvHolds, NulInvInit, NulInvStep, NulKillsStep, PTL DEF FSpec
<1> QED BY <1>1, PTL DEF KillsOnlyWithoutLastNul, NulKills

-----------------------------------------------------------------------------
(***************************************************************************)
(* The programs.  Where each of them is while which call is under way, and *)
(* what it has in its variables.                                           *)
(***************************************************************************)
Lines == Vals \cup {NoVal}

RunType ==
  [prog : {"none", "main", "mkkvdat", "rdkvdat"},
   at : {"start", "read", "insert", "inserting", "save", "saving", "end", "show"},
   n : Nat, max : Nat, typed : Seq(Lines), vals : Seq(Lines),
   pair : (Keys \cup {NoKey}) \X Lines, told : Seq(Keys \X Lines), exact : BOOLEAN]

Writes == run.prog \in {"main", "mkkvdat"}

Stages ==
  \/ run = NoRun /\ phase = "none"
  \/ run.prog = "main" /\ run.at \in {"read", "show"} /\ phase = "ready"
  \/ run.prog = "mkkvdat" /\ run.at = "end" /\ phase = "ready"
  \/ Writes /\ run.at \in {"insert", "save"} /\ phase = "ready"
  \/ Writes /\ run.at = "inserting" /\ phase \in {"ready", "copy"}
  \/ Writes /\ run.at = "saving" /\ phase \in {"ready", "save"}
  \/ run.prog = "rdkvdat" /\ run.at = "show" /\ phase \in {"ready", "load"}

Turns ==
  /\ run.at \in {"read", "insert", "inserting"} => run.n < run.max
  /\ run.prog = "main" => run.max = Len(MainKeys)
  /\ run.at = "inserting" => run.pair[1] \in KeyLines

(***************************************************************************)
(* The table of a program that writes was made by itself: it is laid out   *)
(* as KVTable's are, and its arena has room for every pair of lines.       *)
(***************************************************************************)
Rooms ==
  run.prog # "rdkvdat" =>
    /\ LayoutInv
    /\ phase \in {"ready", "copy", "save"} => tbl.mem.size >= MEM_SIZE
    /\ phase = "copy" => call.op = "insert" /\ call.key = run.pair[1] /\ call.val = run.pair[2]

ProgInv ==
  client = "programs" => ~ndebug /\ run \in RunType /\ Stages /\ Turns /\ Rooms

LEMMA ProgramFacts ==
  /\ MEM_SIZE \in Nat /\ MEM_SIZE \in CreateSizes /\ MainCap \in CreateCaps
  /\ KvCaps \subseteq CreateCaps /\ KvCaps \subseteq Nat
  /\ Len(MainKeys) \in Nat /\ Len(MainKeys) > 0
  /\ \A m \in 1..Len(MainKeys) : MainKeys[m] \in KeyLines
<1>1. MainKeys \in Seq({k \in Keys : KLen[k] < WordMod}) /\ MainKeys # <<>>
  BY ProgramAssumption
<1>2. Len(MainKeys) \in Nat /\ Len(MainKeys) > 0
  BY <1>1
<1>3. \A m \in 1..Len(MainKeys) : MainKeys[m] \in KeyLines
  BY <1>1 DEF KeyLines
<1> QED BY <1>2, <1>3, ProgramAssumption, BoundAssumption

LEMMA NoRunTyped == NoRun \in RunType
BY DEF NoRun, RunType, NoPair, Lines

\* A process that ends by its own assertion is one that is killed; one that
\* has no table yet is one that loaded nothing.
LEMMA AbortIsStep ==
  ASSUME FInv, MainAborts, UNCHANGED ndebug, phase \in {"none", "ready"}
  PROVE  FNext
<1>1. /\ phase' = "none" /\ tbl' = NULL /\ Returns("fail") /\ UNCHANGED fileVars
      /\ UNCHANGED <<file, disk, ser, saves, held>>
  BY DEF MainAborts, fileVars
<1>2. CASE phase = "none"
  BY <1>1, <1>2 DEF Load, FNext, FileCalls
<1>3. CASE phase = "ready"
  <2>1. ser = "idle"
    BY <1>3 DEF FInv, FilesInv
  <2> QED BY <1>1, <1>3, <2>1 DEF Kill, FNext, FileCalls
<1> QED BY <1>2, <1>3

\* The call of an insertion, refused if there is no value.
LEMMA InsertIsStep ==
  ASSUME NEW k \in KeyLines, NEW v \in Lines, CallInsert(k, v), UNCHANGED ndebug
  PROVE  FNext
<1>1. phase = "ready" /\ k \in Keys /\ k # NoKey /\ UNCHANGED fileVars
  BY DataAssumption DEF CallInsert, KeyLines
<1>2. CASE v = NoVal
  <2>1. Refuses
    BY <1>2 DEF CallInsert
  <2>2. NULL \in CreateResults(tbl.cap, tbl.mem.size) /\ ~ValidTable(NULL)
    BY DEF CreateResults, ValidTable, NULL, NewTable
  <2>3. Compact
    BY <1>1, <2>1, <2>2 DEF Compact, StartCopy
  <2> QED BY <1>1, <2>3 DEF FNext, Next, Calls
<1>3. CASE v # NoVal
  <2>1. v \in Vals /\ (InsertRefused(k, v) \/ InsertInPlace(k, v) \/ InsertResize(k, v))
    BY <1>1, <1>3 DEF CallInsert, Lines
  <2> QED BY <1>1, <2>1 DEF FNext, Next, Calls
<1> QED BY <1>2, <1>3

\* What main inserts, in the turn it is in.
LEMMA MainPair ==
  ASSUME run \in RunType, Turns, At("main", "insert"), NEW v \in ValueAt(run.n)
  PROVE  MainKeys[run.n + 1] \in KeyLines /\ v \in Lines
<1>1. run.n \in Nat /\ run.n < Len(MainKeys) /\ run.vals \in Seq(Lines)
  BY DEF At, Turns, RunType
<1>2. MainKeys[run.n + 1] \in KeyLines
  BY <1>1, ProgramFacts
<1>3. v \in Lines
  <2>1. CASE run.n < Len(run.vals)
    <3>1. run.n + 1 \in 1..Len(run.vals)
      BY <1>1, <2>1
    <3>2. v = run.vals[run.n + 1]
      BY <2>1 DEF ValueAt
    <3> QED BY <1>1, <3>1, <3>2
  <2>2. CASE ~(run.n < Len(run.vals))
    BY <2>2 DEF ValueAt, ValLines, Lines
  <2> QED BY <2>1, <2>2
<1> QED BY <1>2, <1>3

LEMMA ProgramStep ==
  ASSUME FInv, ProgInv, client = "programs", Programs, UNCHANGED <<client, ndebug>>
  PROVE  [FNext]_allVars
<1> USE DEF ProgInv
<1>1. CASE MainStart
  <2>1. CASE MainAborts
    BY <1>1, <2>1, AbortIsStep DEF MainStart
  <2>2. CASE Create(MainCap, MEM_SIZE) /\ UNCHANGED fileVars
    BY <2>2, ProgramFacts DEF FNext, Next, Calls
  <2> QED BY <1>1, <2>1, <2>2 DEF MainStart
<1>2. CASE MainRead \/ MainReadEnds \/ InsertReturned \/ MkSkip
  <2>1. UNCHANGED <<vars, fileVars>>
    <3>1. CASE MainRead
      BY ONLY <3>1, Zenon DEF MainRead
    <3>2. CASE MainReadEnds \/ InsertReturned \/ MkSkip
      BY <3>2, Zenon DEF MainReadEnds, InsertReturned, MkSkip
    <3> QED BY <1>2, <3>1, <3>2
  <2> QED BY <2>1 DEF allVars
<1>3. CASE MainInsert
  <2>1. PICK v \in ValueAt(run.n) : CallInsert(MainKeys[run.n + 1], v)
    BY <1>3 DEF MainInsert
  <2>2. MainKeys[run.n + 1] \in KeyLines /\ v \in Lines
    BY <1>3, MainPair DEF MainInsert
  <2> QED BY <2>1, <2>2, InsertIsStep
<1>4. CASE MainStrays
  <2>1. phase = "ready" /\ MainAborts
    BY <1>4 DEF MainStrays, PastEnd, At, Stages, Writes, NoRun
  <2> QED BY <2>1, AbortIsStep
<1>5. CASE MainSave
  <2>1. phase = "ready"
    BY <1>5 DEF MainSave, At, Stages, Writes, NoRun
  <2>2. CASE MainAborts
    BY <2>1, <2>2, AbortIsStep
  <2>3. CASE CallSave(FALSE)
    BY <2>3 DEF CallSave, FNext, FileCalls
  <2> QED BY <1>5, <2>2, <2>3 DEF MainSave
<1>6. CASE MainSaved
  <2>1. phase = "ready"
    BY <1>6 DEF MainSaved
  <2>2. CASE MainAborts
    BY <2>1, <2>2, AbortIsStep
  <2>3. CASE UNCHANGED <<vars, fileVars>>
    BY <2>3 DEF allVars
  <2> QED BY <1>6, <2>2, <2>3 DEF MainSaved
<1>7. CASE MkStart
  <2>1. PICK kvcap \in KvCaps : Create(kvcap, MEM_SIZE)
    BY <1>7 DEF MkStart
  <2> QED BY <1>7, <2>1, ProgramFacts DEF MkStart, FNext, Next, Calls
<1>8. CASE MkInsert
  <2>1. PICK k \in KeyLines, v \in Vals : CallInsert(k, v)
    BY <1>8 DEF MkInsert
  <2> QED BY <2>1, InsertIsStep DEF Lines
<1>9. CASE MkSave
  <2>1. CASE CallSave(TRUE)
    BY <2>1 DEF CallSave, FNext, FileCalls
  <2>2. CASE UNCHANGED <<vars, fileVars>>
    BY <2>2 DEF allVars
  <2> QED BY <1>9, <2>1, <2>2 DEF MkSave
<1>10. CASE MkEnd \/ ShowEnd
  <2>1. Destroy /\ UNCHANGED fileVars
    BY <1>10 DEF MkEnd, ShowEnd, End
  <2> QED BY <2>1 DEF FNext, Next, Calls
<1>11. CASE RdStart
  BY <1>11 DEF RdStart, FNext, FileCalls
<1>12. CASE Answer
  <2>1. PICK k \in KeyLines : LookupKey(k)
    BY <1>12 DEF Answer
  <2> QED BY <1>12, <2>1 DEF Answer, KeyLines, FNext, Next, Calls
<1>13. CASE RunOn
  <2>1. CASE CopyStep /\ UNCHANGED fileVars
    BY <2>1 DEF FNext, Next, Calls
  <2>2. CASE ~(CopyStep /\ UNCHANGED fileVars)
    BY <1>13, <2>2 DEF RunOn, FNext, FileCalls
  <2> QED BY <2>1, <2>2
<1>14. CASE Stopped
  BY <1>14 DEF Stopped, FNext, FileCalls
<1> QED
  BY <1>1, <1>2, <1>3, <1>4, <1>5, <1>6, <1>7, <1>8, <1>9, <1>10, <1>11, <1>12, <1>13,
     <1>14 DEF Programs

-----------------------------------------------------------------------------
(***************************************************************************)
(* No program is left without its table: the calls of the writers, of      *)
(* which every pair fits.                                                  *)
(***************************************************************************)
LEMMA ShortPair ==
  ASSUME NEW k \in KeyLines, NEW v \in Vals
  PROVE  k \in Keys /\ PairBytes(k, v) \in Nat /\ PairBytes(k, v) <= MEM_SIZE
<1>1. k \in Keys /\ KLen[k] < WordMod
  BY DEF KeyLines
<1>2. KLen[k] \in Nat /\ VLen[v] \in Nat
  BY <1>1, DataAssumption
<1>3. PairBytes(k, v) \in Nat
  BY <1>2 DEF PairBytes, KVTBL_MEM_ALIGN
<1> QED BY <1>1, <1>3, ProgramAssumption

\* An insertion that returns with a table leaves its arena as large as it was.
LEMMA InsertIntoSize ==
  ASSUME NEW t, GoodType(t), t.cnt < t.cap, NEW k \in Keys, NEW v \in Vals,
         InsertInto(t, k, v), PairFits(RemoveKey(t, k).mem, k, v)
  PROVE  /\ phase' = "ready" /\ tbl'.mem.size = t.mem.size
         /\ tbl' = AppendEntry(RemoveKey(t, k), k, v) /\ ret' = "ok"
<1> DEFINE t1 == RemoveKey(t, k)
<1>1. t \in TableOf(t.cap) /\ t.cap \in Nat
  BY GoodTypeFields DEF GoodType
<1>2. t1 \in TableOf(t.cap) /\ t1.mem = t.mem /\ t1.mem \in Arena
  BY <1>1, RemoveType DEF GoodType, TableOf
<1>3. phase' = "ready" /\ tbl' = AppendEntry(t1, k, v) /\ ret' = "ok" /\ PairFits(t1.mem, k, v)
  BY DEF InsertInto, Returns
<1> HIDE DEF t1
<1>4. tbl'.mem = [cur |-> PairEnd(t1.mem, k, v), size |-> t1.mem.size]
  BY <1>1, <1>2, <1>3, AppendFields, PairFitsIff
<1> QED BY <1>2, <1>3, <1>4 DEF t1

LEMMA RoomyInsertFits ==
  ASSUME NEW t, GoodType(t), NEW k \in Keys, NEW v \in Vals,
         t.mem.cur + PairBytes(k, v) <= t.mem.size
  PROVE  PairFits(RemoveKey(t, k).mem, k, v)
<1>1. t \in TableOf(t.cap) /\ t.cap \in Nat /\ t.mem \in Arena
  BY GoodTypeFields DEF GoodType
<1>2. RemoveKey(t, k).mem = t.mem
  BY <1>1, RemoveType DEF GoodType
<1> QED BY <1>1, <1>2, RoomyPairFits

\* What LayoutInv and FInv say of the tables of a writer.
LEMMA WriterTables ==
  ASSUME FInv, LayoutInv
  PROVE  /\ GoodType(tbl) /\ GoodType(new) /\ GoodLayout(tbl) /\ GoodLayout(new) /\ CopyRoom
         /\ tbl \in TableOf(tbl.cap) /\ tbl.cap \in Nat /\ tbl.cnt \in 0..tbl.cap
         /\ tbl.mem \in Arena /\ tbl.mem.cur \in Nat /\ tbl.mem.size \in Nat
         /\ new \in TableOf(new.cap) /\ new.cap \in Nat /\ new.cnt \in 0..new.cap
         /\ new.mem \in Arena /\ new.mem.cur \in Nat /\ new.mem.size \in Nat /\ i \in Nat
BY GoodTypeFields, BoundAssumption
   DEF FInv, TablesTyped, GoodType, LayoutInv, GoodLayout, Arena

\* What an insertion called by a program comes to.
CalledInsert(k, v) ==
  \/ phase' = "ready" /\ ret' = "fail" /\ tbl' = tbl
  \/ /\ v \in Vals /\ phase' = "ready" /\ ret' = "ok"
     /\ tbl.cnt < tbl.cap /\ PairFits(RemoveKey(tbl, k).mem, k, v)
     /\ tbl' = AppendEntry(RemoveKey(tbl, k), k, v) /\ tbl'.mem.size = tbl.mem.size
  \/ /\ v \in Vals /\ phase' = "copy" /\ tbl' = tbl /\ new'.cnt = 0 /\ i' = 0
     /\ call' = InsertCall(k, v)

LEMMA CallInsertDoes ==
  ASSUME FInv, LayoutInv, NEW k \in KeyLines, NEW v \in Lines, CallInsert(k, v)
  PROVE  CalledInsert(k, v) /\ phase = "ready"
<1>1. phase = "ready" /\ k \in Keys /\ k # NoKey
  BY DataAssumption DEF CallInsert, KeyLines
<1>2. CASE Refuses
  BY <1>1, <1>2 DEF Refuses, Returns, CalledInsert
<1>3. CASE v # NoVal
  <2>1. v \in Vals /\ (InsertRefused(k, v) \/ InsertInPlace(k, v) \/ InsertResize(k, v))
    BY <1>1, <1>3 DEF CallInsert, Lines
  <2>2. CASE InsertRefused(k, v)
    BY <1>2, <2>2 DEF InsertRefused
  <2>3. CASE InsertInPlace(k, v)
    <3>1. tbl.cnt < tbl.cap /\ tbl.mem.cur + PairBytes(k, v) <= tbl.mem.size
      <4>1. ~ShouldResize(tbl, k, v) /\ KLen[k] \in Nat /\ VLen[v] \in Nat
        BY <1>1, <2>1, <2>3, DataAssumption DEF InsertInPlace
      <4> QED BY <4>1, WriterTables
              DEF ShouldResize, CapShouldResize, MemShouldResize, PairBytes, KVTBL_MEM_ALIGN
    <3>2. PairFits(RemoveKey(tbl, k).mem, k, v)
      BY <1>1, <2>1, <3>1, WriterTables, RoomyInsertFits
    <3> QED BY <1>1, <2>1, <2>3, <3>1, <3>2, WriterTables, InsertIntoSize
            DEF InsertInPlace, CalledInsert
  <2>4. CASE InsertResize(k, v)
    <3>1. PICK t \in CreateResults(ResizeCap(tbl), ResizeMem(tbl, k, v)) :
            IF ValidTable(t)
            THEN /\ phase' = "copy" /\ new' = t /\ call' = InsertCall(k, v) /\ i' = 0
                 /\ UNCHANGED <<tbl, ret>>
            ELSE Refuses
      BY <2>4 DEF InsertResize, StartCopy
    <3>2. CASE ~ValidTable(t)
      BY <1>2, <3>1, <3>2
    <3>3. CASE ValidTable(t)
      <4>1. t.cnt = 0
        BY <3>3 DEF CreateResults, NULL, NewTable
      <4>2. /\ phase' = "copy" /\ new' = t /\ call' = InsertCall(k, v) /\ i' = 0
            /\ tbl' = tbl
        BY <3>1, <3>3
      <4>3. new'.cnt = 0
        BY <4>1, <4>2
      <4> QED BY <1>1, <2>1, <4>2, <4>3 DEF CalledInsert
    <3> QED BY <3>2, <3>3
  <2> QED BY <2>1, <2>2, <2>3, <2>4
<1> QED BY <1>1, <1>2, <1>3 DEF CallInsert

\* And what a step of the copying that it began comes to.
Copied ==
  \/ /\ phase' = "copy" /\ i' = i + 1 /\ Copying /\ tbl.ents[i].stat = "DELETED"
     /\ UNCHANGED <<tbl, new, call, ret>>
  \/ /\ phase' = "copy" /\ i' = i + 1 /\ Copying /\ tbl.ents[i].stat # "DELETED"
     /\ PairFits(new.mem, tbl.ents[i].key, tbl.ents[i].val)
     /\ new' = AppendEntry(new, tbl.ents[i].key, tbl.ents[i].val)
     /\ UNCHANGED <<tbl, call, ret>>
  \/ /\ phase' = "ready" /\ ret' = "ok" /\ CopyDone
     /\ call.key \in Keys /\ call.val \in Vals /\ new.cnt < new.cap
     /\ PairFits(RemoveKey(new, call.key).mem, call.key, call.val)
     /\ tbl' = AppendEntry(RemoveKey(new, call.key), call.key, call.val)
     /\ tbl'.mem.size \in Nat /\ tbl'.mem.size >= tbl.mem.size

LEMMA CopyStepDoes ==
  ASSUME FInv, LayoutInv, ~ndebug, CopyStep,
         call.op = "insert", PairBytes(call.key, call.val) <= tbl.mem.size
  PROVE  Copied
<1>1. /\ phase = "copy" /\ call.key \in Keys /\ call.val \in Vals /\ tbl.cnt < new.cap
      /\ new.cnt <= i /\ i <= tbl.cnt
  BY WriterTables DEF CopyStep, SkipDeleted, CopyEntry, CompactDone, InsertResized, Copying,
                      CopyDone, CopyRoom
<1>2. ~CompactDone
  BY DEF CompactDone
<1>3. CASE SkipDeleted
  BY <1>1, <1>3 DEF SkipDeleted, Copied
<1>4. CASE CopyEntry
  <2>1. i \in Entries(tbl) /\ new.mem.cur <= tbl.ents[i].koff /\ tbl.mem.size <= new.mem.size
    BY <1>1, <1>4, WriterTables DEF CopyEntry, Copying, LayoutInv, CopyFits, NextAt, Entries
  <2>2. PairFits(new.mem, tbl.ents[i].key, tbl.ents[i].val)
    BY <2>1, WriterTables, CopiedEntryFits
  <2> QED BY <1>1, <1>4, <2>2 DEF CopyEntry, Copied
<1>5. CASE InsertResized
  <2>1. CopyDone /\ InsertInto(new, call.key, call.val) /\ NextAt(tbl, i) = tbl.mem.cur
        /\ new.cnt < new.cap
    BY <1>1, <1>5, WriterTables DEF InsertResized, CopyDone, NextAt
  <2>2. PairBytes(call.key, call.val) \in Nat
    <3>1. KLen[call.key] \in Nat /\ VLen[call.val] \in Nat
      BY <1>1, DataAssumption
    <3> QED BY <3>1 DEF PairBytes, KVTBL_MEM_ALIGN
  <2>3. /\ new.mem.cur <= tbl.mem.cur /\ tbl.mem.size <= new.mem.size
        /\ tbl.mem.cur + PairBytes(call.key, call.val) <= new.mem.size
    BY <1>1, <2>1 DEF LayoutInv, CopyFits
  <2>4. new.mem.cur + PairBytes(call.key, call.val) <= new.mem.size
    BY <2>2, <2>3, WriterTables
  <2>5. PairFits(RemoveKey(new, call.key).mem, call.key, call.val)
    BY <1>1, <2>4, WriterTables, RoomyInsertFits
  <2>6. /\ phase' = "ready" /\ tbl'.mem.size = new.mem.size /\ ret' = "ok"
        /\ tbl' = AppendEntry(RemoveKey(new, call.key), call.key, call.val)
    BY <1>1, <2>1, <2>5, WriterTables, InsertIntoSize
  <2>7. tbl'.mem.size \in Nat /\ tbl'.mem.size >= tbl.mem.size
    BY <2>3, <2>6, WriterTables
  <2> QED BY <1>1, <2>1, <2>5, <2>6, <2>7 DEF Copied
<1> QED BY <1>2, <1>3, <1>4, <1>5 DEF CopyStep

-----------------------------------------------------------------------------
\* ProgInv, step by step: first the tables.
LEMMA LayoutKept ==
  ASSUME FInv, LayoutInv, [Next]_vars, phase \in {"none", "ready", "copy"}
  PROVE  LayoutInv'
<1>1. TypeInv
  BY TypeInvIs DEF FInv
<1> QED BY <1>1, LayoutInvStep

\* What has to be shown of a step of the programs.
Runs == run \in RunType /\ Stages /\ Turns /\ Rooms

LEMMA ProcessEnds ==
  ASSUME run' = NoRun, phase' = "none", LayoutInv'
  PROVE  Runs'
<1>1. NoRun.prog = "none" /\ NoRun.at = "start"
  BY DEF NoRun
<1>2. run' \in RunType /\ Stages'
  BY NoRunTyped DEF Stages
<1>3. Turns' /\ Rooms'
  BY <1>1 DEF Turns, Rooms
<1> QED BY <1>2, <1>3 DEF Runs

LEMMA AbortEnds ==
  ASSUME MainAborts
  PROVE  Runs'
<1>1. run' = NoRun /\ phase' = "none" /\ tbl' = NULL /\ new' = NULL
  BY DEF MainAborts, Returns
<1> QED BY <1>1, LayoutGone, ProcessEnds

LEMMA DestroyEnds ==
  ASSUME End
  PROVE  Runs'
<1>1. run' = NoRun /\ phase' = "none" /\ tbl' = NULL /\ new' = NULL
  BY DEF End, Destroy, Returns
<1> QED BY <1>1, LayoutGone, ProcessEnds

LEMMA StoppedEnds ==
  ASSUME Stopped
  PROVE  Runs'
<1>1. run' = NoRun /\ phase' = "none" /\ tbl' = NULL /\ new' = NULL
  BY DEF Stopped, Kill, PowerLoss, Returns
<1> QED BY <1>1, LayoutGone, ProcessEnds

\* A table the programs have created.
LEMMA CreatedTable ==
  ASSUME NEW cap, Create(cap, MEM_SIZE)
  PROVE  \/ phase' = "ready" /\ tbl' = NewTable(cap, MEM_SIZE) /\ tbl'.mem.size = MEM_SIZE /\ new' = NULL
            /\ LayoutInv' /\ cap # 0
         \/ phase' = "none" /\ tbl' = tbl /\ new' = NULL
<1>1. PICK t \in CreateResults(cap, MEM_SIZE) :
        IF ValidTable(t) THEN phase' = "ready" /\ tbl' = t /\ Returns("ok") ELSE Refuses
  BY DEF Create
<1>2. phase = "none"
  BY DEF Create
<1>3. CASE ValidTable(t)
  <2>1. t # NULL /\ phase' = "ready" /\ tbl' = t /\ new' = NULL
    BY <1>1, <1>3 DEF ValidTable, NULL, NewTable, Returns
  <2>2. t = NewTable(cap, MEM_SIZE) /\ GoodLayout(t) /\ t.mem = [cur |-> 0, size |-> MEM_SIZE]
    BY <1>3, <2>1, ProgramFacts, CreateLayout DEF CreateResults
  <2>3. LayoutInv'
    BY <2>1, <2>2, LayoutAtReturn
  <2>4. cap # 0
    BY <1>3, <2>2 DEF ValidTable, NewTable
  <2> QED BY <2>1, <2>2, <2>3, <2>4
<1>4. CASE ~ValidTable(t)
  BY <1>1, <1>2, <1>4 DEF Refuses, Returns
<1> QED BY <1>3, <1>4

LEMMA MainStartKeeps ==
  ASSUME FInv, Runs, MainStart
  PROVE  Runs'
<1>1. CASE MainAborts
  BY <1>1, AbortEnds
<1>2. CASE /\ Create(MainCap, MEM_SIZE) /\ phase' = "ready"
           /\ run' = [NoRun EXCEPT !.prog = "main", !.at = "read", !.max = Len(MainKeys)]
  <2>1. tbl'.mem.size = MEM_SIZE /\ LayoutInv' /\ phase' = "ready"
    BY <1>2, CreatedTable
  <2>2. run' \in RunType /\ run'.prog = "main" /\ run'.at = "read" /\ run'.n = 0
        /\ run'.max = Len(MainKeys)
    BY <1>2, NoRunTyped, ProgramFacts DEF RunType, NoRun
  <2>3. Stages' /\ Turns'
    BY <2>1, <2>2, ProgramFacts DEF Stages, Turns
  <2>4. Rooms'
    BY <2>1, <2>2, ProgramFacts DEF Rooms
  <2> QED BY <2>2, <2>3, <2>4 DEF Runs
<1> QED BY <1>1, <1>2 DEF MainStart

LEMMA MkStartKeeps ==
  ASSUME FInv, Runs, MkStart
  PROVE  Runs'
<1>1. PICK kvcap \in KvCaps :
        /\ Create(kvcap, MEM_SIZE)
        /\ run' = IF phase' = "ready"
                  THEN [NoRun EXCEPT !.prog = "mkkvdat", !.at = "insert", !.max = kvcap]
                  ELSE NoRun
  BY ONLY MkStart, Zenon DEF MkStart
<1>2. run = NoRun /\ phase = "none" /\ LayoutInv
  BY <1>1 DEF MkStart, Runs, Rooms, Create, NoRun
<1>3. CASE phase' = "ready"
  <2>1. tbl'.mem.size = MEM_SIZE /\ LayoutInv' /\ kvcap # 0
    BY <1>1, <1>3, CreatedTable
  <2>2. kvcap \in Nat /\ 0 < kvcap
    BY <2>1, ProgramFacts
  <2>3. run' \in RunType /\ run'.prog = "mkkvdat" /\ run'.at = "insert" /\ run'.n = 0
        /\ run'.max = kvcap
    BY <1>1, <1>3, <2>2, NoRunTyped DEF RunType, NoRun
  <2>4. Stages' /\ Turns'
    BY <1>3, <2>2, <2>3 DEF Stages, Turns, Writes
  <2>5. Rooms'
    BY <1>3, <2>1, <2>3, ProgramFacts DEF Rooms
  <2> QED BY <2>3, <2>4, <2>5 DEF Runs
<1>4. CASE phase' # "ready"
  <2>1. phase' = "none" /\ tbl' = tbl /\ new' = NULL /\ run' = NoRun
    BY <1>1, <1>4, CreatedTable
  <2>2. LayoutInv'
    BY <1>2, <2>1, LayoutAtReturn DEF LayoutInv, GoodLayout
  <2> QED BY <2>1, <2>2, ProcessEnds
<1> QED BY <1>3, <1>4

\* A step that reads lines or counts turns, and calls nothing.
LEMMA LinesKeep ==
  ASSUME Runs, MainRead
  PROVE  Runs'
<1>1. PICK line \in ValLines, val \in ValLines, ok \in BOOLEAN :
        run' = [run EXCEPT
            !.typed = Append(@, line),
            !.vals  = IF ok THEN Pushed(@, val) ELSE @,
            !.exact = @ /\ ok,
            !.at    = IF (ok /\ line = NoVal) \/ Len(run.typed) + 1 = run.max
                      THEN "insert" ELSE "read"]
  BY ONLY MainRead, Zenon DEF MainRead
<1>2. UNCHANGED <<phase, tbl, new, call, i>> /\ run.prog = "main" /\ run.at = "read"
  BY DEF MainRead, vars, At
<1>3. run \in RunType /\ line \in Lines /\ val \in Lines
  BY DEF Runs, ValLines, Lines
<1>4. Append(run.typed, line) \in Seq(Lines) /\ Append(run.vals, val) \in Seq(Lines)
  BY <1>3 DEF RunType
<1>5. /\ run' \in RunType /\ run'.prog = "main" /\ run'.at \in {"read", "insert"}
      /\ run'.n = run.n /\ run'.max = run.max /\ run'.pair = run.pair
  BY <1>1, <1>2, <1>3, <1>4 DEF RunType, Pushed
<1>6. phase = "ready"
  BY <1>2 DEF Runs, Stages, Writes, NoRun
<1>7. Stages' /\ Turns'
  BY <1>2, <1>5, <1>6 DEF Runs, Stages, Turns, Writes
<1>8. Rooms'
  BY <1>2, <1>5, <1>6, LayoutCarried DEF Runs, Rooms
<1> QED BY <1>5, <1>7, <1>8 DEF Runs

\* The other steps that call nothing go to some other place of the program.
LEMMA MovesKeep ==
  ASSUME Runs, UNCHANGED <<phase, tbl, new, call, i>>, phase = "ready",
         run' \in RunType, run'.prog = run.prog, run'.max = run.max, Writes,
         \/ run.prog = "main" /\ run'.at = "show"
         \/ run.prog = "mkkvdat" /\ run'.at = "end"
         \/ run'.at = "save"
         \/ run'.at = "insert" /\ run'.n < run.max
  PROVE  Runs'
<1>1. Stages' /\ Turns'
  BY DEF Runs, Stages, Turns, Writes
<1>2. Rooms'
  BY LayoutCarried DEF Runs, Rooms, Writes
<1> QED BY <1>1, <1>2 DEF Runs

LEMMA CountsKeep ==
  ASSUME Runs, MainReadEnds \/ InsertReturned \/ MkSkip
  PROVE  Runs'
<1>1. UNCHANGED <<phase, tbl, new, call, i>>
  BY DEF MainReadEnds, InsertReturned, MkSkip, vars
<1>2. run \in RunType
  BY DEF Runs
<1>3. CASE MainReadEnds
  <2>1. /\ run' = [run EXCEPT !.at = "insert"] /\ run.prog = "main" /\ run.at = "read"
    BY <1>3 DEF MainReadEnds, GoTo, At
  <2>2. phase = "ready" /\ run.n < run.max
    BY <2>1 DEF Runs, Stages, Turns, Writes, NoRun
  <2>3. run' \in RunType /\ run'.prog = run.prog /\ run'.max = run.max /\ run'.at = "insert"
        /\ run'.n = run.n
    BY <1>2, <2>1 DEF RunType
  <2> QED BY <1>1, <2>1, <2>2, <2>3, MovesKeep DEF Writes
<1>4. CASE InsertReturned
  <2>1. run.at = "inserting" /\ phase = "ready"
    BY <1>4 DEF InsertReturned
  <2>2. Writes /\ run.pair[1] \in KeyLines /\ run.n < run.max
    BY <2>1 DEF Runs, Stages, Turns, NoRun
  <2>3. <<run.pair[1], Typed>> \in Keys \X Lines
    <3>1. run.pair[2] \in Lines /\ run.typed \in Seq(Lines) /\ run.n \in Nat
      BY <1>2 DEF RunType
    <3>2. Typed \in Lines
      BY <3>1 DEF Typed
    <3> QED BY <2>2, <3>2 DEF KeyLines
  <2>4. /\ run' \in RunType /\ run'.prog = run.prog /\ run'.max = run.max /\ run'.n = run.n + 1
        /\ run'.at = (IF run.n + 1 = run.max \/ (ret = "fail" /\ run.prog = "main")
                      THEN "save" ELSE "insert")
    <3>1. Append(run.told, <<run.pair[1], Typed>>) \in Seq(Keys \X Lines)
      BY <1>2, <2>3 DEF RunType
    <3> DEFINE told == IF ret = "ok" THEN Append(run.told, <<run.pair[1], Typed>>) ELSE run.told
               exact == run.exact /\ ~(ret = "ok" /\ run.prog = "main" /\ run.n >= Len(run.vals))
               at == IF run.n + 1 = run.max \/ (ret = "fail" /\ run.prog = "main")
                     THEN "save" ELSE "insert"
    <3>2. run' = [run EXCEPT !.n = run.n + 1, !.told = told, !.exact = exact, !.at = at]
      BY <1>4 DEF InsertReturned
    <3>3. told \in Seq(Keys \X Lines) /\ exact \in BOOLEAN /\ at \in {"save", "insert"}
      BY <1>2, <3>1 DEF RunType
    <3>4. run.n + 1 \in Nat
      BY <1>2 DEF RunType
    <3> HIDE DEF told, exact, at
    <3>5. /\ run' \in RunType /\ run'.prog = run.prog /\ run'.max = run.max
          /\ run'.n = run.n + 1 /\ run'.at = at
      BY <1>2, <3>2, <3>3, <3>4 DEF RunType
    <3> QED BY <3>5 DEF at
  <2>5. run'.at = "save" \/ (run'.at = "insert" /\ run'.n < run.max)
    <3>1. run.n \in Nat /\ run.max \in Nat
      BY <1>2 DEF RunType
    <3> QED BY <2>2, <2>4, <3>1
  <2> QED BY <1>1, <2>1, <2>2, <2>4, <2>5, MovesKeep
<1>5. CASE MkSkip
  <2>1. run.prog = "mkkvdat" /\ run.at = "insert"
    BY <1>5 DEF MkSkip, At
  <2>2. phase = "ready" /\ run.n < run.max /\ Writes /\ run.n \in Nat /\ run.max \in Nat
    BY <2>1 DEF Runs, Stages, Turns, Writes, NoRun, RunType
  <2>3. /\ run' = [run EXCEPT !.n = run.n + 1,
                              !.at = IF run.n + 1 = run.max THEN "save" ELSE "insert"]
    BY <1>5 DEF MkSkip
  <2>4. /\ run' \in RunType /\ run'.prog = run.prog /\ run'.max = run.max /\ run'.n = run.n + 1
        /\ run'.at = (IF run.n + 1 = run.max THEN "save" ELSE "insert")
    <3> DEFINE at == IF run.n + 1 = run.max THEN "save" ELSE "insert"
    <3>1. at \in {"save", "insert"} /\ run' = [run EXCEPT !.n = run.n + 1, !.at = at]
          /\ run.n + 1 \in Nat
      BY <2>2, <2>3
    <3> HIDE DEF at
    <3>2. /\ run' \in RunType /\ run'.prog = run.prog /\ run'.max = run.max
          /\ run'.n = run.n + 1 /\ run'.at = at
      BY <1>2, <3>1 DEF RunType
    <3> QED BY <3>2 DEF at
  <2>5. run'.at = "save" \/ (run'.at = "insert" /\ run'.n < run.max)
    BY <2>2, <2>4
  <2> QED BY <1>1, <2>2, <2>4, <2>5, MovesKeep
<1> QED BY <1>3, <1>4, <1>5

\* The writers' insertions.
LEMMA InsertsKeep ==
  ASSUME FInv, Runs, Writes, run.at = "insert", NEW k \in KeyLines, NEW v \in Lines,
         CallInsert(k, v), UNCHANGED ndebug,
         run' = [run EXCEPT !.at = "inserting", !.pair = <<k, v>>]
  PROVE  Runs'
<1>1. run \in RunType /\ LayoutInv /\ run.n < run.max /\ phase = "ready" /\ tbl.mem.size >= MEM_SIZE
  BY DEF Runs, Rooms, Turns, Stages, Writes, NoRun
<1>2. /\ run' \in RunType /\ run'.prog = run.prog /\ run'.at = "inserting" /\ run'.n = run.n
      /\ run'.max = run.max /\ run'.pair[1] = k /\ run'.pair[2] = v
  <2>1. <<k, v>> \in (Keys \cup {NoKey}) \X Lines
    BY DEF KeyLines
  <2> QED BY <1>1, <2>1 DEF RunType
<1>3. CalledInsert(k, v)
  BY <1>1, CallInsertDoes
<1>4. phase' \in {"ready", "copy"}
  BY <1>3 DEF CalledInsert
<1>5. Stages' /\ Turns'
  BY <1>1, <1>2, <1>4 DEF Runs, Stages, Turns, Writes
<1>6. LayoutInv'
  <2>1. FNext
    BY InsertIsStep
  <2>2. CASE Next
    BY <1>1, <2>2, LayoutKept
  <2>3. CASE v = NoVal
    BY <1>1, <2>3, LayoutAtReturn DEF CallInsert, Refuses, Returns, LayoutInv, GoodLayout
  <2>4. CASE v # NoVal
    <3>1. v \in Vals /\ k \in Keys /\ (InsertRefused(k, v) \/ InsertInPlace(k, v) \/ InsertResize(k, v))
      BY <2>4, DataAssumption DEF CallInsert, KeyLines, Lines
    <3>2. Next
      BY <3>1 DEF Next, Calls
    <3> QED BY <2>2, <3>2
  <2> QED BY <2>3, <2>4
<1>7. tbl'.mem.size >= MEM_SIZE
  BY <1>1, <1>3, WriterTables DEF CalledInsert
<1>8. phase' = "copy" => call'.op = "insert" /\ call'.key = k /\ call'.val = v
  BY <1>3 DEF CalledInsert, InsertCall
<1>9. Rooms'
  BY <1>2, <1>6, <1>7, <1>8 DEF Rooms
<1> QED BY <1>2, <1>5, <1>9 DEF Runs

\* A save is called, fails at once or begins; or cannot even be called.
LEMMA SavesKeep ==
  ASSUME Runs, Writes, run.at = "save", NEW truncate, CallSave(truncate)
  PROVE  Runs'
<1>1. run \in RunType /\ phase = "ready"
  BY DEF Runs, Stages, Writes, NoRun
<1>2. run' \in RunType /\ run'.prog = run.prog /\ run'.at = "saving" /\ run'.max = run.max
  BY <1>1 DEF RunType, CallSave, GoTo
<1>3. /\ phase' \in {"ready", "save"} /\ tbl' = tbl /\ new' = new
  BY DEF CallSave, Save, SaveReturns
<1>4. Stages' /\ Turns'
  BY <1>2, <1>3 DEF Runs, Stages, Turns, Writes
<1>5. Rooms'
  BY <1>1, <1>2, <1>3, LayoutCarried DEF Runs, Rooms, Writes
<1> QED BY <1>2, <1>4, <1>5 DEF Runs

LEMMA GoneTo ==
  ASSUME Runs, NEW at \in {"end", "show"}, GoTo(at)
  PROVE  run' \in RunType /\ run'.prog = run.prog /\ run'.at = at /\ run'.max = run.max
BY DEF Runs, RunType, GoTo

LEMMA SaveCallsKeep ==
  ASSUME Runs, MainSave \/ MkSave \/ MainSaved
  PROVE  Runs'
<1>1. CASE MainSave
  <2>1. run.prog = "main" /\ run.at = "save"
    BY <1>1 DEF MainSave, At
  <2> QED BY <1>1, <2>1, SavesKeep, AbortEnds DEF MainSave, Writes
<1>2. CASE MkSave
  <2>1. run.prog = "mkkvdat" /\ run.at = "save" /\ Writes
    BY <1>2 DEF MkSave, At, Writes
  <2>2. CASE CallSave(TRUE)
    BY <2>1, <2>2, SavesKeep
  <2>3. CASE GoTo("end") /\ UNCHANGED <<vars, fileVars, runs>>
    <3>1. UNCHANGED <<phase, tbl, new, call, i>> /\ phase = "ready"
      BY <2>1, <2>3 DEF vars, Runs, Stages, Writes, NoRun
    <3>2. run' \in RunType /\ run'.prog = run.prog /\ run'.at = "end" /\ run'.max = run.max
      BY <2>3, GoneTo
    <3> QED BY <2>1, <3>1, <3>2, MovesKeep
  <2>4. CallSave(TRUE) \/ (GoTo("end") /\ UNCHANGED <<vars, fileVars, runs>>)
    BY <1>2, Zenon DEF MkSave
  <2> QED BY <2>2, <2>3, <2>4, Zenon
<1>3. CASE MainSaved
  <2>1. run.prog = "main" /\ run.at = "saving" /\ phase = "ready" /\ Writes
    BY <1>3 DEF MainSaved, At, Writes
  <2>2. CASE MainAborts
    BY <2>2, AbortEnds
  <2>3. CASE GoTo("show") /\ UNCHANGED <<vars, fileVars, runs>>
    <3>1. UNCHANGED <<phase, tbl, new, call, i>>
      BY <2>3 DEF vars
    <3>2. run' \in RunType /\ run'.prog = run.prog /\ run'.at = "show" /\ run'.max = run.max
      BY <2>3, GoneTo
    <3> QED BY <2>1, <3>1, <3>2, MovesKeep
  <2> QED BY <1>3, <2>2, <2>3 DEF MainSaved
<1> QED BY <1>1, <1>2, <1>3

\* rdkvdat starts, and lookups.
LEMMA ShowsKeep ==
  ASSUME Runs, RdStart \/ Answer
  PROVE  Runs'
<1>1. CASE RdStart
  <2>1. Load /\ phase = "none"
    BY <1>1 DEF RdStart
  <2>2. CASE phase' = "load"
    <3>1. run' = [NoRun EXCEPT !.prog = "rdkvdat", !.at = "show"]
      BY <1>1, <2>2 DEF RdStart
    <3>2. run' \in RunType /\ run'.prog = "rdkvdat" /\ run'.at = "show"
      BY <3>1, NoRunTyped DEF RunType, NoRun
    <3> QED BY <2>2, <3>2 DEF Runs, Stages, Turns, Rooms
  <2>3. CASE phase' # "load"
    <3>1. run' = NoRun /\ phase' = "none" /\ tbl' = NULL /\ new' = NULL
      BY <1>1, <2>1, <2>3 DEF RdStart, Load, Returns
    <3> QED BY <3>1, LayoutGone, ProcessEnds
  <2> QED BY <2>2, <2>3
<1>2. CASE Answer
  <2>1. run.at = "show" /\ phase = "ready" /\ phase' = phase /\ tbl' = tbl /\ new' = NULL /\ run' = run
    BY <1>2 DEF Answer, LookupKey, Returns
  <2>2. run.prog \in {"main", "rdkvdat"}
    BY <2>1 DEF Runs, Stages, Writes, NoRun
  <2>3. Stages' /\ Turns'
    BY <2>1 DEF Runs, Stages, Turns, Writes
  <2>4. run.prog = "main" => LayoutInv'
    BY <2>1, LayoutAtReturn DEF Runs, Rooms, LayoutInv, GoodLayout
  <2>5. Rooms'
    BY <2>1, <2>2, <2>4 DEF Runs, Rooms
  <2> QED BY <2>1, <2>3, <2>5 DEF Runs
<1> QED BY <1>1, <1>2

\* A call of the library runs on.
LEMMA RunsOn ==
  ASSUME FInv, Runs, ~ndebug, UNCHANGED ndebug, RunOn
  PROVE  Runs'
<1>1. run' = run /\ run \in RunType
  BY DEF RunOn, Runs
<1>2. Turns'
  BY <1>1 DEF Runs, Turns
<1>3. CASE CopyStep
  <2>1. phase = "copy"
    BY <1>3 DEF CopyStep, SkipDeleted, CopyEntry, CompactDone, InsertResized, Copying, CopyDone
  <2>2. Writes /\ run.at = "inserting" /\ LayoutInv /\ tbl.mem.size >= MEM_SIZE
        /\ call.op = "insert" /\ call.key = run.pair[1] /\ call.val = run.pair[2]
        /\ call.key \in KeyLines
    BY <2>1 DEF Runs, Stages, Rooms, Turns, Writes, NoRun
  <2>3. call.val \in Vals /\ PairBytes(call.key, call.val) <= tbl.mem.size
    <3>1. call.val \in Vals
      BY <2>1, <2>2, WriterTables DEF CopyRoom
    <3>2. PairBytes(call.key, call.val) \in Nat /\ PairBytes(call.key, call.val) <= MEM_SIZE
      BY <2>2, <3>1, ShortPair
    <3>3. tbl.mem.size \in Nat /\ MEM_SIZE \in Nat /\ MEM_SIZE <= tbl.mem.size
      BY <2>2, WriterTables, ProgramFacts
    <3> QED BY <3>1, <3>2, <3>3
  <2>4. Copied
    BY <1>3, <2>2, <2>3, CopyStepDoes
  <2>5. phase' \in {"ready", "copy"}
    BY <2>4 DEF Copied
  <2>6. LayoutInv'
    <3>1. Next
      BY <1>3 DEF Next, Calls
    <3> QED BY <2>1, <2>2, <3>1, LayoutKept
  <2>7. tbl'.mem.size >= MEM_SIZE /\ (phase' = "copy" => call' = call)
    <3>1. /\ tbl' = tbl \/ (tbl'.mem.size \in Nat /\ tbl'.mem.size >= tbl.mem.size)
          /\ tbl.mem.size \in Nat /\ MEM_SIZE \in Nat
      BY <2>2, <2>4, WriterTables, ProgramFacts DEF Copied
    <3>2. phase' = "copy" => call' = call
      BY <2>4 DEF Copied
    <3>3. tbl'.mem.size >= MEM_SIZE
      BY <2>2, <3>1
    <3> QED BY <3>2, <3>3
  <2>8. Stages' /\ Rooms'
    BY <1>1, <2>2, <2>5, <2>6, <2>7 DEF Stages, Rooms, Writes
  <2> QED BY <1>1, <1>2, <2>8 DEF Runs
<1>4. CASE SaveSize \/ SaveHeader \/ SaveToc \/ SaveData \/ SaveFooter
  <2>1. phase = "save" /\ phase' \in {"save", "ready"} /\ tbl' = tbl /\ new' = new
    BY <1>4 DEF SaveSize, SaveHeader, SaveToc, SaveData, SaveFooter, WriteChunk, Saving,
                SaveReturns, vars
  <2>2. Writes /\ run.at = "saving"
    BY <2>1 DEF Runs, Stages, Writes, NoRun
  <2>3. Stages' /\ Rooms'
    BY <1>1, <2>1, <2>2, LayoutCarried DEF Runs, Stages, Rooms, Writes
  <2> QED BY <1>1, <1>2, <2>3 DEF Runs
<1>5. CASE LoadEntry \/ LoadDone
  <2>1. phase = "load" /\ phase' \in {"load", "ready"}
    BY <1>5 DEF LoadEntry, LoadDone
  <2>2. run.prog = "rdkvdat" /\ run.at = "show"
    BY <2>1 DEF Runs, Stages, Writes, NoRun
  <2>3. Stages' /\ Rooms'
    BY <1>1, <2>1, <2>2 DEF Stages, Rooms
  <2> QED BY <1>1, <1>2, <2>3 DEF Runs
<1>6. ASSUME NEW chunk, Writeback(chunk) PROVE Runs'
  <2>1. UNCHANGED <<phase, tbl, new, call, i, ret, ndebug>>
    BY <1>6 DEF Writeback, vars
  <2>2. Stages' /\ Rooms'
    BY <1>1, <2>1 DEF Runs, Stages, Rooms, LayoutInv, Layout, BelowCursor, CopyFits, Entries, NextAt, Writes
  <2> QED BY <1>1, <1>2, <2>2 DEF Runs
<1> QED BY <1>3, <1>4, <1>5, <1>6 DEF RunOn

LEMMA RunsKeep ==
  ASSUME FInv, Runs, ~ndebug, Programs, UNCHANGED ndebug
  PROVE  Runs'
<1>1. CASE MainInsert
  <2>1. PICK v \in ValueAt(run.n) :
          /\ CallInsert(MainKeys[run.n + 1], v)
          /\ run' = [run EXCEPT !.at = "inserting", !.pair = <<MainKeys[run.n + 1], v>>]
    BY <1>1 DEF MainInsert
  <2>2. MainKeys[run.n + 1] \in KeyLines /\ v \in Lines /\ Writes /\ run.at = "insert"
    BY <1>1, MainPair DEF MainInsert, Runs, Writes, At
  <2> QED BY <2>1, <2>2, InsertsKeep
<1>2. CASE MkInsert
  <2>1. PICK k \in KeyLines, v \in Vals :
          CallInsert(k, v) /\ run' = [run EXCEPT !.at = "inserting", !.pair = <<k, v>>]
    BY <1>2 DEF MkInsert
  <2>2. v \in Lines /\ Writes /\ run.at = "insert"
    BY <1>2 DEF MkInsert, Lines, Writes, At
  <2> QED BY <2>1, <2>2, InsertsKeep
<1>3. CASE MainStrays
  BY <1>3, AbortEnds DEF MainStrays
<1>4. CASE MkEnd \/ ShowEnd
  BY <1>4, DestroyEnds DEF MkEnd, ShowEnd
<1> QED
  BY <1>1, <1>2, <1>3, <1>4, MainStartKeeps, MkStartKeeps, LinesKeep, CountsKeep,
     SaveCallsKeep, ShowsKeep, RunsOn, StoppedEnds DEF Programs

LEMMA ProgInvInit == PInit => ProgInv
<1> SUFFICES ASSUME PInit, client = "programs" PROVE ~ndebug /\ Runs
  BY DEF ProgInv, Runs
<1>1. run = NoRun /\ phase = "none" /\ ~ndebug /\ LayoutInv
  BY LayoutInvInit DEF PInit, FInit, Init
<1>2. NoRun.prog = "none" /\ NoRun.at = "start"
  BY DEF NoRun
<1> QED BY <1>1, <1>2, NoRunTyped DEF Runs, Stages, Turns, Rooms

LEMMA ProgInvStep == FInv /\ ProgInv /\ [PNext]_progVars => ProgInv'
<1> SUFFICES ASSUME FInv, ProgInv, [PNext]_progVars, client' = "programs"
             PROVE  ~ndebug' /\ Runs'
  BY DEF ProgInv, Runs
<1>1. CASE PNext
  <2>1. client = "programs" /\ Programs /\ UNCHANGED <<client, ndebug>>
    BY <1>1 DEF PNext
  <2> QED BY <2>1, RunsKeep DEF ProgInv, Runs
<1>2. CASE UNCHANGED progVars
  <2>1. /\ UNCHANGED <<phase, tbl, new, call, i, ret, ndebug, client, run>>
    BY <1>2 DEF progVars, allVars, vars
  <2>2. ~ndebug /\ Runs
    BY <2>1 DEF ProgInv, Runs
  <2> QED BY <2>1, <2>2 DEF Runs, Stages, Turns, Rooms, Writes, LayoutInv, Layout, BelowCursor,
                         CopyFits, NextAt, Entries
<1> QED BY <1>1, <1>2

LEMMA ClientStep == FInv /\ ProgInv /\ [PNext]_progVars => [FNext]_allVars
<1> SUFFICES ASSUME FInv, ProgInv, [PNext]_progVars PROVE [FNext]_allVars
  OBVIOUS
<1>1. CASE PNext
  BY <1>1, ProgramStep DEF PNext
<1>2. CASE UNCHANGED progVars
  BY <1>2 DEF progVars
<1> QED BY <1>1, <1>2

LEMMA ProgramsHold == PSpec => [](FInv /\ ProgInv)
<1>1. PInit => FInv /\ ProgInv
  BY FInvInit, ProgInvInit DEF PInit
<1>2. FInv /\ ProgInv /\ [PNext]_progVars => (FInv /\ ProgInv)'
  BY FInvStep, ProgInvStep, ClientStep
<1> QED BY <1>1, <1>2, PTL DEF PSpec

(***************************************************************************)
(* The programs are clients of the table and its file as any other, so     *)
(* that every theorem about KVFile holds of what they do.                  *)
(***************************************************************************)
THEOREM ProgramsAreClients == PSpec => FSpec
<1>1. PInit => FInit
  BY DEF PInit
<1> QED BY <1>1, ProgramsHold, ClientStep, PTL DEF PSpec, FSpec

(***************************************************************************)
(* ProgramsKeepTheirTable holds in every reachable state, for all lines    *)
(* that fit the arena, however often they are typed: no program goes on    *)
(* with a table that is gone, and none dies in the allocator.              *)
(***************************************************************************)
THEOREM ProgramsGoOn == PSpec => []ProgramsKeepTheirTable
<1>1. ProgInv => ProgramsKeepTheirTable
  BY DEF ProgInv, Stages, ProgramsKeepTheirTable
<1> QED BY <1>1, ProgramsHold, PTL

-----------------------------------------------------------------------------
(***************************************************************************)
(* What the programs show.  First Holds, through the operations of the     *)
(* table.                                                                  *)
(***************************************************************************)
\* Of a sequence of pairs, the last one of a key.
LEMMA LastExists ==
  ASSUME NEW len \in Nat, NEW S, S \subseteq 1..len, S # {}
  PROVE  \E m \in S : \A o \in S : o <= m
<1> DEFINE T == {len - m : m \in S}
<1>1. \A m \in S : m \in 1..len /\ len - m \in 0..len
  <2>1. ASSUME NEW m \in 1..len PROVE len - m \in 0..len
    OBVIOUS
  <2> QED BY <2>1
<1>2. IsFiniteSet(T) /\ T \subseteq Nat /\ T # {}
  <2>1. IsFiniteSet(0..len)
    BY FS_Interval
  <2>2. T \subseteq 0..len /\ T # {}
    BY <1>1
  <2>3. 0..len \subseteq Nat
    OBVIOUS
  <2> HIDE DEF T
  <2> QED BY <2>1, <2>2, <2>3, FS_Subset
<1>3. \E x \in T : \A y \in T : x <= y
  <2> HIDE DEF T
  <2> QED BY <1>2, LeastExists
<1>4. PICK m \in S : \A o \in S : len - m <= len - o
  BY <1>3
<1>5. \A o \in S : o <= m
  BY <1>1, <1>4
<1> QED BY <1>5

ToldTurns(told, k) == {m \in DOMAIN told : told[m][1] = k}
LastTurn(told, k) == CHOOSE m \in ToldTurns(told, k) : \A o \in ToldTurns(told, k) : o <= m

LEMMA LastToldOf ==
  ASSUME NEW told, NEW k \in Keys
  PROVE  LastTold(told)[k] = IF ToldTurns(told, k) = {} THEN NoVal ELSE told[LastTurn(told, k)][2]
BY DEF LastTold, ToldTurns, LastTurn

LEMMA LastTurnOf ==
  ASSUME NEW told \in Seq(Keys \X Lines), NEW k, ToldTurns(told, k) # {}
  PROVE  LastTurn(told, k) \in ToldTurns(told, k) /\ LastTurn(told, k) \in 1..Len(told)
<1>1. ToldTurns(told, k) \subseteq 1..Len(told) /\ Len(told) \in Nat
  BY DEF ToldTurns
<1>2. \E m \in ToldTurns(told, k) : \A o \in ToldTurns(told, k) : o <= m
  BY <1>1, LastExists
<1> QED BY <1>1, <1>2 DEF LastTurn

LEMMA ToldNext ==
  ASSUME NEW told \in Seq(Keys \X Lines), NEW k \in Keys, NEW v \in Lines
  PROVE  LastTold(Append(told, <<k, v>>)) = [LastTold(told) EXCEPT ![k] = v]
<1> DEFINE more == Append(told, <<k, v>>)
           len == Len(told) + 1
<1>1. /\ DOMAIN told = 1..Len(told) /\ DOMAIN more = 1..len /\ more[len] = <<k, v>>
      /\ len \in Nat /\ \A m \in 1..Len(told) : more[m] = told[m] /\ m < len
  BY DEF Lines
<1> HIDE DEF more, len
<1>2. ASSUME NEW n \in Keys, n # k
      PROVE  LastTold(more)[n] = LastTold(told)[n]
  <2>1. ToldTurns(more, n) = ToldTurns(told, n)
    <3>1. len \notin ToldTurns(more, n)
      BY <1>1, <1>2 DEF ToldTurns
    <3>2. \A m \in 1..Len(told) : m \in ToldTurns(more, n) <=> m \in ToldTurns(told, n)
      BY <1>1 DEF ToldTurns, len
    <3>3. 1..len = 1..Len(told) \cup {len}
      BY DEF len
    <3> QED BY <1>1, <3>1, <3>2, <3>3 DEF ToldTurns
  <2>2. LastTurn(more, n) = LastTurn(told, n)
    BY <2>1 DEF LastTurn
  <2>3. CASE ToldTurns(told, n) = {}
    BY <2>1, <2>3, LastToldOf
  <2>4. CASE ToldTurns(told, n) # {}
    <3>1. LastTurn(told, n) \in 1..Len(told)
      BY <2>4, LastTurnOf
    <3>2. more[LastTurn(more, n)] = told[LastTurn(told, n)]
      BY <1>1, <2>2, <3>1
    <3> QED BY <2>1, <2>4, <3>2, LastToldOf
  <2> QED BY <2>3, <2>4
<1>3. LastTold(more)[k] = v
  <2>1. len \in ToldTurns(more, k) /\ \A o \in ToldTurns(more, k) : o <= len /\ o \in 1..len
    BY <1>1 DEF ToldTurns, len
  <2>2. LastTurn(more, k) = len
    <3>1. /\ LastTurn(more, k) \in ToldTurns(more, k)
          /\ \A o \in ToldTurns(more, k) : o <= LastTurn(more, k)
      BY <2>1 DEF LastTurn
    <3>2. len <= LastTurn(more, k) /\ LastTurn(more, k) <= len /\ LastTurn(more, k) \in 1..len
      BY <2>1, <3>1
    <3> QED BY <1>1, <3>2
  <2>3. ToldTurns(more, k) # {}
    BY <2>1
  <2>4. LastTold(more)[k] = more[len][2]
    BY <2>2, <2>3, LastToldOf
  <2> QED BY <1>1, <2>4
<1>4. /\ LastTold(more) = [n \in Keys |-> LastTold(more)[n]]
      /\ LastTold(told) = [n \in Keys |-> LastTold(told)[n]]
  BY DEF LastTold
<1>5. LastTold(more) = [LastTold(told) EXCEPT ![k] = v]
  <2> DEFINE f == LastTold(more)
             g == LastTold(told)
  <2> HIDE DEF f, g
  <2>1. f = [n \in Keys |-> f[n]] /\ g = [n \in Keys |-> g[n]] /\ f[k] = v
        /\ \A n \in Keys : n # k => f[n] = g[n]
    BY <1>2, <1>3, <1>4 DEF f, g
  <2>2. f = [g EXCEPT ![k] = v]
    BY <2>1
  <2> QED BY <2>2 DEF f, g
<1> QED BY <1>5 DEF more

\* A fresh table, and one with the entries of another.
LEMMA FreshHolds ==
  ASSUME NEW cap \in Nat, NEW size
  PROVE  Holds(NewTable(cap, size), <<>>)
<1> DEFINE t == NewTable(cap, size)
<1>1. Live(t) = {} /\ Entries(t) = {}
  BY DEF Live, Entries, NewTable
<1>2. MapOf(t) = [k \in Keys |-> NoVal] /\ LastTold(<<>>) = [k \in Keys |-> NoVal]
  BY <1>1 DEF MapOf, LastTold
<1>3. DOMAIN Shown(t) = {}
  BY <1>1 DEF Shown
<1>4. InOrder(Shown(t), <<>>)
  <2> DEFINE at == [j \in {} |-> j]
  <2>1. at \in [DOMAIN Shown(t) -> DOMAIN <<>>]
    BY <1>3
  <2> QED BY <1>3, <2>1 DEF InOrder
<1> QED BY <1>2, <1>4 DEF Holds

LEMMA SameImageHolds ==
  ASSUME NEW s, NEW t, s.cnt \in Nat, t.cnt \in Nat, Image(s) = Image(t), NEW told,
         Holds(s, told)
  PROVE  Holds(t, told) /\ Entries(s) = Entries(t)
<1>1. Entries(s) = Entries(t)
  BY DEF Image
<1>2. \A j \in Entries(t) : s.ents[j] = t.ents[j]
  <2>1. \A j \in Entries(t) : Image(s)[j] = s.ents[j] /\ Image(t)[j] = t.ents[j]
    BY <1>1 DEF Image
  <2> QED BY <2>1
<1>3. Live(s) = Live(t) /\ \A j \in Live(t) : j \in Entries(t) /\ s.ents[j] = t.ents[j]
  BY <1>1, <1>2 DEF Live
<1>4. MapOf(s) = MapOf(t)
  <2>1. ASSUME NEW k \in Keys
        PROVE  (CHOOSE j \in Live(s) : s.ents[j].key = k) = (CHOOSE j \in Live(t) : t.ents[j].key = k)
    <3>1. \A j : (j \in Live(s) /\ s.ents[j].key = k) <=> (j \in Live(t) /\ t.ents[j].key = k)
      BY <1>3
    <3> QED BY <3>1
  <2>2. ASSUME NEW k \in Keys PROVE MapOf(s)[k] = MapOf(t)[k]
    <3>1. CASE \E j \in Live(t) : t.ents[j].key = k
      <4> DEFINE c == CHOOSE j \in Live(t) : t.ents[j].key = k
      <4>1. c \in Live(t)
        BY <3>1
      <4> HIDE DEF c
      <4>2. s.ents[c].val = t.ents[c].val
        BY <1>3, <4>1
      <4>3. (\E j \in Live(s) : s.ents[j].key = k) /\ (CHOOSE j \in Live(s) : s.ents[j].key = k) = c
        BY <1>3, <2>1, <3>1 DEF c
      <4> QED BY <3>1, <4>2, <4>3 DEF MapOf, c
    <3>2. CASE ~\E j \in Live(t) : t.ents[j].key = k
      <4>1. ~\E j \in Live(s) : s.ents[j].key = k
        BY <1>3, <3>2
      <4> QED BY <3>2, <4>1 DEF MapOf
    <3> QED BY <3>1, <3>2
  <2>3. MapOf(s) = [k \in Keys |-> MapOf(s)[k]] /\ MapOf(t) = [k \in Keys |-> MapOf(t)[k]]
    BY DEF MapOf
  <2> HIDE DEF MapOf
  <2> QED BY <2>2, <2>3
<1>5. Shown(s) = Shown(t)
  BY <1>1, <1>2 DEF Shown
<1> QED BY <1>1, <1>4, <1>5 DEF Holds

\* An insertion, as one that was told: the pair is the last of its key, and
\* the last to be shown.
LEMMA InsertHolds ==
  ASSUME NEW t, GoodType(t), GoodMap(t), t.cnt < t.cap, NEW k \in Keys, NEW v \in Vals,
         PairFits(RemoveKey(t, k).mem, k, v),
         NEW told \in Seq(Keys \X Lines), Holds(t, told)
  PROVE  Holds(AppendEntry(RemoveKey(t, k), k, v), Append(told, <<k, v>>))
<1> DEFINE r == RemoveKey(t, k)
           u == AppendEntry(r, k, v)
           more == Append(told, <<k, v>>)
<1>1. t \in TableOf(t.cap) /\ t.cap \in Nat /\ t.cnt \in Nat
  BY GoodTypeFields DEF GoodType
<1>2. /\ r \in TableOf(t.cap) /\ r.cnt = t.cnt
      /\ \A j \in Entries(t) : r.ents[j].key = t.ents[j].key /\ r.ents[j].val = t.ents[j].val
  <2>1. r \in TableOf(t.cap)
    BY <1>1, RemoveType DEF GoodType
  <2> QED BY <1>1, <2>1, RemoveView
<1>3. /\ u.cnt = t.cnt + 1 /\ u.ents[t.cnt].key = k /\ u.ents[t.cnt].val = v
      /\ \A j \in Entries(t) : u.ents[j].key = t.ents[j].key /\ u.ents[j].val = t.ents[j].val
  <2>1. PairFits(r.mem, k, v)
    OBVIOUS
  <2> HIDE DEF r
  <2>2. /\ u.cnt = r.cnt + 1 /\ u.ents[r.cnt].key = k /\ u.ents[r.cnt].val = v
        /\ \A j \in Entries(r) : u.ents[j] = r.ents[j]
    BY <1>1, <1>2, <2>1, AppendView
  <2>3. Entries(r) = Entries(t)
    BY <1>2 DEF Entries
  <2> HIDE DEF u
  <2> QED BY <1>2, <2>2, <2>3
<1>4. MapOf(u) = LastTold(more)
  <2>1. MapOf(u) = [MapOf(t) EXCEPT ![k] = v]
    BY InsertIsMap
  <2>2. LastTold(more) = [LastTold(told) EXCEPT ![k] = v]
    BY ToldNext DEF Lines
  <2> QED BY <2>1, <2>2 DEF Holds
<1> HIDE DEF r, u
<1>5. Entries(u) = Entries(t) \cup {t.cnt} /\ t.cnt \notin Entries(t)
      /\ \A j \in Entries(t) : j < t.cnt /\ j \in Nat
  BY <1>1, <1>3 DEF Entries
<1>6. PICK at \in [DOMAIN Shown(t) -> DOMAIN told] :
        /\ \A j, m \in DOMAIN Shown(t) : j < m => at[j] < at[m]
        /\ \A j \in DOMAIN Shown(t) : Shown(t)[j] = told[at[j]]
  BY DEF Holds, InOrder
<1>7. /\ DOMAIN Shown(t) = Entries(t) /\ DOMAIN Shown(u) = Entries(u)
      /\ \A j \in Entries(t) : Shown(u)[j] = Shown(t)[j]
      /\ Shown(u)[t.cnt] = <<k, v>>
  BY <1>3, <1>5 DEF Shown
<1>8. /\ DOMAIN told = 1..Len(told) /\ Len(told) \in Nat /\ DOMAIN more = 1..Len(told) + 1
      /\ more[Len(told) + 1] = <<k, v>> /\ \A m \in 1..Len(told) : more[m] = told[m]
  BY DEF Lines
<1> HIDE DEF more
<1>9. InOrder(Shown(u), more)
  <2> DEFINE now == [j \in Entries(u) |-> IF j = t.cnt THEN Len(told) + 1 ELSE at[j]]
  <2>1. \A j \in Entries(t) : at[j] \in 1..Len(told) /\ now[j] = at[j]
    BY <1>5, <1>6, <1>7, <1>8
  <2>2. now[t.cnt] = Len(told) + 1 /\ DOMAIN now = Entries(u)
    BY <1>5
  <2>3. now \in [DOMAIN Shown(u) -> DOMAIN more]
    <3> DEFINE len == Len(told)
    <3>1. 1..len \subseteq 1..len + 1 /\ len + 1 \in 1..len + 1
      <4>1. len \in Nat
        BY <1>8
      <4> HIDE DEF len
      <4> QED BY <4>1
    <3>2. \A j \in Entries(t) : at[j] \in DOMAIN more
      BY <1>8, <2>1, <3>1
    <3> QED BY <1>5, <1>7, <1>8, <3>1, <3>2
  <2> HIDE DEF now
  <2>4. ASSUME NEW j \in Entries(u), NEW m \in Entries(u), j < m PROVE now[j] < now[m]
    <3>1. CASE j \in Entries(t) /\ m \in Entries(t)
      BY <1>6, <1>7, <2>1, <2>4, <3>1
    <3>2. CASE j \in Entries(t) /\ m = t.cnt
      <4>1. at[j] \in 1..Len(told) /\ now[j] = at[j]
        BY <2>1, <3>2
      <4> QED BY <1>8, <2>2, <3>2, <4>1
    <3>3. CASE j = t.cnt
      <4>1. m \in Entries(t) \/ m = t.cnt
        BY <1>5
      <4> QED BY <1>1, <1>5, <2>4, <3>3, <4>1
    <3> QED BY <1>5, <3>1, <3>2, <3>3
  <2>5. \A j \in Entries(u) : Shown(u)[j] = more[now[j]]
    <3>1. \A j \in Entries(t) : Shown(u)[j] = more[now[j]]
      BY <1>6, <1>7, <1>8, <2>1
    <3>2. Shown(u)[t.cnt] = more[now[t.cnt]]
      BY <1>7, <1>8, <2>2
    <3> QED BY <1>5, <3>1, <3>2
  <2> QED BY <1>7, <2>3, <2>4, <2>5 DEF InOrder
<1>10. Holds(u, more)
  BY <1>4, <1>9 DEF Holds
<1> QED BY <1>10 DEF r, u, more

\* A table that has been copied to the end shows no less than is live, in
\* the same order.
LEMMA RankOrder ==
  ASSUME NEW t, t.cnt \in Nat, NEW j \in Nat, NEW m \in Nat, Rank(t, j) < Rank(t, m)
  PROVE  j < m
<1> SUFFICES ASSUME m <= j PROVE FALSE
  OBVIOUS
<1>1. LiveBefore(t, m) \subseteq LiveBefore(t, j)
  <2>1. \A n \in Live(t) : n \in Nat
    BY DEF Live, Entries
  <2> QED BY <2>1 DEF LiveBefore
<1>2. IsFiniteSet(LiveBefore(t, j)) /\ Rank(t, j) \in Nat /\ Rank(t, m) \in Nat
  BY RankFacts
<1>3. Rank(t, m) <= Rank(t, j)
  BY <1>1, <1>2, FS_Subset DEF Rank
<1> QED BY <1>2, <1>3

LEMMA CopyHolds ==
  ASSUME TypeInv, MapInv, CopyDone, NEW told, Holds(tbl, told)
  PROVE  Holds(new, told)
<1>1. /\ phase = "copy" /\ i = tbl.cnt /\ tbl.cnt \in Nat /\ new.cnt \in Nat /\ CopyOrder
      /\ GoodType(tbl)
  BY GoodTypeFields DEF TypeInv, TypeOK, GoodType, MapInv, CopyDone
<1>2. \A j \in LiveBefore(tbl, i) : j \in Live(tbl) /\ j \in Entries(tbl) /\ j \in Nat
  BY DEF LiveBefore, Live, Entries
<1> DEFINE src(m) == CHOOSE j \in LiveBefore(tbl, i) : m = Rank(tbl, j)
<1>3. ASSUME NEW m \in Entries(new)
      PROVE  /\ src(m) \in Entries(tbl) /\ src(m) \in Nat /\ m = Rank(tbl, src(m))
             /\ new.ents[m].key = tbl.ents[src(m)].key /\ new.ents[m].val = tbl.ents[src(m)].val
  <2>1. src(m) \in LiveBefore(tbl, i) /\ m = Rank(tbl, src(m))
    BY <1>1 DEF CopyOrder
  <2> HIDE DEF src
  <2> QED BY <1>1, <1>2, <2>1 DEF CopyOrder
<1> HIDE DEF src
<1>4. PICK at \in [DOMAIN Shown(tbl) -> DOMAIN told] :
        /\ \A j, m \in DOMAIN Shown(tbl) : j < m => at[j] < at[m]
        /\ \A j \in DOMAIN Shown(tbl) : Shown(tbl)[j] = told[at[j]]
  BY DEF Holds, InOrder
<1>5. /\ DOMAIN Shown(tbl) = Entries(tbl) /\ DOMAIN Shown(new) = Entries(new)
      /\ \A m \in Entries(new) : Shown(new)[m] = Shown(tbl)[src(m)]
  BY <1>3 DEF Shown
<1>6. InOrder(Shown(new), told)
  <2> DEFINE now == [m \in Entries(new) |-> at[src(m)]]
  <2>1. now \in [DOMAIN Shown(new) -> DOMAIN told]
    BY <1>3, <1>5
  <2>2. \A m \in Entries(new) : now[m] = at[src(m)]
    OBVIOUS
  <2> HIDE DEF now
  <2>3. ASSUME NEW j \in Entries(new), NEW m \in Entries(new), j < m PROVE now[j] < now[m]
    <3>1. src(j) < src(m)
      BY <1>1, <1>3, <2>3, RankOrder
    <3> QED BY <1>3, <1>4, <1>5, <2>2, <3>1
  <2>4. \A j \in Entries(new) : Shown(new)[j] = told[now[j]]
    BY <1>3, <1>4, <1>5, <2>2
  <2> QED BY <1>5, <2>1, <2>3, <2>4 DEF InOrder
<1>7. MapOf(new) = LastTold(told)
  BY CopyIsMap DEF Holds
<1> QED BY <1>6, <1>7 DEF Holds

-----------------------------------------------------------------------------
(***************************************************************************)
(* The invariant.  Of the writers: their keys are short; the values main   *)
(* has are those that were typed, or NULL; and the table holds what it was *)
(* told so far, the insertion that has just returned included.             *)
(***************************************************************************)
ShortImage(img) == \A j \in DOMAIN img : img[j].key \in KeyLines
ShortKeys(t) == \A j \in Entries(t) : t.ents[j].key \in KeyLines

Returned == run.at = "inserting" /\ phase = "ready" /\ ret = "ok"

ToldSoFar == IF Returned THEN Append(run.told, run.pair) ELSE run.told

ValuesRead ==
  run.prog = "main" /\ run.exact =>
    /\ Len(run.vals) = Len(run.typed)
    /\ \A m \in 1..Len(run.typed) : run.vals[m] \in {run.typed[m], NoVal}
    /\ run.at = "inserting" /\ run.n < Len(run.vals) => run.pair[2] = run.vals[run.n + 1]

TableTold ==
  Writes =>
    /\ ShortKeys(tbl) /\ ValuesRead
    /\ Returned => run.pair[2] \in Vals
    /\ run.exact => Holds(tbl, ToldSoFar)

(***************************************************************************)
(* Of the saves: no key of theirs is cut, and any table that has a save's  *)
(* entries holds what the run that saved them was told.  Of the reader:    *)
(* the table it loaded is one of them.                                     *)
(***************************************************************************)
RunSaved == [told : Seq(Keys \X Lines), exact : BOOLEAN]

Recalls(img, r) ==
  r.exact => \A t : t.cnt \in Nat /\ Image(t) = img => Holds(t, r.told)

SavesTold ==
  /\ runs \in Seq(RunSaved) /\ Len(runs) = Len(saves)
  /\ \A m \in DOMAIN saves : ShortImage(saves[m]) /\ Recalls(saves[m], runs[m])

FileShown ==
  run.prog = "rdkvdat" /\ phase = "ready" =>
    \E m \in DOMAIN saves : Image(tbl) = AsFiled(saves[m])

Told == TableTold /\ SavesTold /\ FileShown

ToldInv == client = "programs" => Told

LEMMA NoCut ==
  ASSUME SavesTold, saves \in Seq(Images)
  PROVE  ~KeyWasCut /\ \A m \in DOMAIN saves : AsFiled(saves[m]) = saves[m]
<1>1. ASSUME NEW n \in DOMAIN saves, NEW j \in DOMAIN saves[n]
      PROVE  ~(KLen[saves[n][j].key] >= WordMod) /\ CutKey(saves[n][j].key) = saves[n][j].key
  <2> DEFINE k == saves[n][j].key
  <2>1. k \in Keys /\ KLen[k] < WordMod
    BY DEF SavesTold, ShortImage, KeyLines
  <2> HIDE DEF k
  <2>2. KLen[k] \in Nat /\ WordMod \in Nat
    BY <2>1, DataAssumption, FileAssumption
  <2>3. ~(KLen[k] >= WordMod) /\ CutKey(k) = k
    BY <2>1, <2>2 DEF CutKey
  <2> QED BY <2>3 DEF k
<1>2. ASSUME NEW n \in DOMAIN saves PROVE AsFiled(saves[n]) = saves[n]
  <2>1. PICK cnt \in 1..MaxCap : saves[n] \in [0..cnt-1 -> KVEntry]
    <3>1. saves[n] \in Images
      OBVIOUS
    <3> QED BY <3>1 DEF Images
  <2>2. \A j \in 0..cnt-1 : [saves[n][j] EXCEPT !.key = CutKey(saves[n][j].key)] = saves[n][j]
    <3> SUFFICES ASSUME NEW j \in 0..cnt-1
                 PROVE  [saves[n][j] EXCEPT !.key = CutKey(saves[n][j].key)] = saves[n][j]
      OBVIOUS
    <3>1. saves[n][j] \in KVEntry /\ CutKey(saves[n][j].key) = saves[n][j].key
      BY <1>1, <2>1
    <3> QED BY <3>1 DEF KVEntry
  <2>3. AsFiled(saves[n]) = [j \in 0..cnt-1 |-> [saves[n][j] EXCEPT !.key = CutKey(saves[n][j].key)]]
    BY <2>1 DEF AsFiled
  <2> QED BY <2>1, <2>2, <2>3
<1> QED BY <1>1, <1>2 DEF KeyWasCut

\* The writers' tables find their keys, so that what holds of maps holds of them.
LEMMA WriterMaps ==
  ASSUME FInv, SavesTold, phase \in {"ready", "copy"}
  PROVE  TypeInv /\ MapInv /\ GoodMap(tbl) /\ GoodMap(new) /\ GoodType(tbl) /\ GoodType(new)
<1>1. TypeInv
  BY TypeInvIs DEF FInv
<1>2. MapInv
  BY NoCut DEF FInv, FilesInv, TablesInv
<1> QED BY <1>1, <1>2 DEF MapInv, FInv, TablesTyped

\* No step but the call of a save adds a save; then nothing is forgotten.
LEMMA SavesToldKept ==
  ASSUME SavesTold, UNCHANGED <<saves, runs>>
  PROVE  SavesTold'
BY DEF SavesTold, ShortImage, Recalls

\* A process ends.
LEMMA EndsTold ==
  ASSUME SavesTold, run' = NoRun, UNCHANGED <<saves, runs>>
  PROVE  Told'
<1>1. NoRun.prog = "none"
  BY DEF NoRun
<1>2. TableTold' /\ FileShown'
  BY <1>1 DEF TableTold, FileShown, Writes
<1> QED BY <1>2, SavesToldKept DEF Told

\* A writer has a fresh table.
LEMMA StartTold ==
  ASSUME SavesTold, NEW cap \in Nat, tbl' = NewTable(cap, MEM_SIZE), UNCHANGED <<saves, runs>>,
         run'.prog \in {"main", "mkkvdat"}, run'.at \in {"read", "insert"},
         run'.typed = <<>>, run'.vals = <<>>, run'.told = <<>>
  PROVE  Told'
<1>1. Holds(tbl', <<>>)
  BY FreshHolds
<1>2. ShortKeys(tbl)'
  BY DEF ShortKeys, Entries, NewTable
<1>3. ToldSoFar' = <<>> /\ ~Returned'
  BY DEF ToldSoFar, Returned
<1>4. ValuesRead'
  BY DEF ValuesRead
<1>5. Holds(tbl, ToldSoFar)'
  <2>1. Holds(tbl', ToldSoFar')
    BY <1>1, <1>3
  <2> QED BY <2>1 DEF Holds, MapOf, Shown, Entries, Live
<1>6. TableTold'
  BY <1>2, <1>3, <1>4, <1>5 DEF TableTold
<1>7. FileShown'
  BY DEF FileShown
<1> QED BY <1>6, <1>7, SavesToldKept DEF Told

LEMMA StartsTold ==
  ASSUME FInv, Runs, Told, MainStart \/ MkStart
  PROVE  Told'
<1>1. run = NoRun /\ phase = "none" /\ UNCHANGED <<saves, runs>>
  BY DEF MainStart, MkStart, MainAborts, fileVars, Create
<1>2. CASE run' = NoRun
  BY <1>1, <1>2, EndsTold DEF Told
<1>3. CASE run' # NoRun
  <2>1. PICK cap \in CreateCaps : Create(cap, MEM_SIZE) /\ phase' = "ready"
    <3>1. CASE MainStart
      BY <1>3, <3>1, ProgramFacts DEF MainStart, MainAborts
    <3>2. CASE MkStart
      <4>1. PICK kvcap \in KvCaps :
              /\ Create(kvcap, MEM_SIZE)
              /\ run' = IF phase' = "ready"
                        THEN [NoRun EXCEPT !.prog = "mkkvdat", !.at = "insert", !.max = kvcap]
                        ELSE NoRun
        BY ONLY MkStart, <3>2, Zenon DEF MkStart
      <4> QED BY <1>3, <4>1, ProgramFacts
    <3> QED BY <3>1, <3>2
  <2>2. tbl' = NewTable(cap, MEM_SIZE) /\ cap \in Nat
    BY <2>1, CreatedTable, BoundAssumption
  <2>3. /\ run'.prog \in {"main", "mkkvdat"} /\ run'.at \in {"read", "insert"}
        /\ run'.typed = <<>> /\ run'.vals = <<>> /\ run'.told = <<>>
    <3>1. \/ run' = [NoRun EXCEPT !.prog = "main", !.at = "read", !.max = Len(MainKeys)]
          \/ \E kvcap \in KvCaps :
               run' = [NoRun EXCEPT !.prog = "mkkvdat", !.at = "insert", !.max = kvcap]
      <4>1. CASE MainStart
        BY <1>3, <4>1 DEF MainStart, MainAborts
      <4>2. CASE MkStart
        <5>1. PICK kvcap \in KvCaps :
                run' = IF phase' = "ready"
                       THEN [NoRun EXCEPT !.prog = "mkkvdat", !.at = "insert", !.max = kvcap]
                       ELSE NoRun
          BY ONLY MkStart, <4>2, Zenon DEF MkStart
        <5> QED BY <2>1, <5>1
      <4> QED BY <4>1, <4>2
    <3> QED BY <3>1 DEF NoRun
  <2> QED BY <1>1, <2>2, <2>3, StartTold DEF Told
<1> QED BY <1>2, <1>3

\* A writer goes on with its table as it is, between insertions.
LEMMA TableGoesOn ==
  ASSUME Told, Writes, run'.prog = run.prog, run.at # "inserting", run'.at # "inserting",
         tbl' = tbl, run'.told = run.told, run'.exact => run.exact,
         ValuesRead'
  PROVE  TableTold' /\ FileShown'
<1>1. ToldSoFar = run.told /\ ToldSoFar' = run.told /\ ~Returned'
  BY DEF ToldSoFar, Returned
<1>2. ShortKeys(tbl)'
  BY DEF Told, TableTold, ShortKeys, Entries
<1>3. run'.exact => Holds(tbl, ToldSoFar)'
  <2>1. run'.exact => Holds(tbl', ToldSoFar')
    BY <1>1 DEF Told, TableTold
  <2> QED BY <2>1 DEF Holds, MapOf, Shown, Entries, Live
<1>4. TableTold'
  BY <1>1, <1>2, <1>3 DEF TableTold
<1> QED BY <1>4 DEF FileShown, Writes

\* main reads a value.
LEMMA ReadTold ==
  ASSUME Runs, Told, MainRead
  PROVE  Told'
<1>1. PICK line \in ValLines, val \in ValLines, ok \in BOOLEAN :
        /\ val \in {line, NoVal}
        /\ run' = [run EXCEPT
            !.typed = Append(@, line),
            !.vals  = IF ok THEN Pushed(@, val) ELSE @,
            !.exact = @ /\ ok,
            !.at    = IF (ok /\ line = NoVal) \/ Len(run.typed) + 1 = run.max
                      THEN "insert" ELSE "read"]
  BY ONLY MainRead, Zenon DEF MainRead
<1>2. UNCHANGED <<tbl, saves, runs>> /\ run.prog = "main" /\ run.at = "read" /\ Writes
  BY DEF MainRead, vars, fileVars, At, Writes
<1>3. run \in RunType /\ line \in Lines /\ val \in Lines
  BY DEF Runs, ValLines, Lines
<1>4. /\ run'.prog = run.prog /\ run'.at # "inserting" /\ run'.told = run.told
      /\ run'.exact = (run.exact /\ ok) /\ run'.typed = Append(run.typed, line)
      /\ run'.vals = IF ok THEN Append(run.vals, val) ELSE run.vals
  BY <1>1, <1>3 DEF RunType, Pushed
<1>5. ValuesRead'
  <2> SUFFICES ASSUME run.exact, ok
               PROVE  /\ Len(run'.vals) = Len(run'.typed)
                      /\ \A m \in 1..Len(run'.typed) : run'.vals[m] \in {run'.typed[m], NoVal}
    BY <1>4 DEF ValuesRead
  <2>1. /\ Len(run.vals) = Len(run.typed)
        /\ \A m \in 1..Len(run.typed) : run.vals[m] \in {run.typed[m], NoVal}
    BY <1>2 DEF Told, TableTold, ValuesRead
  <2>2. run.vals \in Seq(Lines) /\ run.typed \in Seq(Lines)
    BY <1>3 DEF RunType
  <2> DEFINE len == Len(run.typed)
  <2>3. /\ len \in Nat /\ Len(run'.typed) = len + 1 /\ Len(run'.vals) = len + 1
        /\ run'.typed[len + 1] = line /\ run'.vals[len + 1] = val
        /\ \A m \in 1..len : run'.typed[m] = run.typed[m] /\ run'.vals[m] = run.vals[m]
    BY <1>3, <1>4, <2>1, <2>2
  <2> HIDE DEF len
  <2>4. 1..len + 1 = 1..len \cup {len + 1}
    BY <2>3
  <2>5. \A m \in 1..len : run.vals[m] \in {run.typed[m], NoVal}
    BY <2>1 DEF len
  <2> QED BY <1>1, <2>3, <2>4, <2>5
<1>6. TableTold' /\ FileShown'
  BY <1>2, <1>4, <1>5, TableGoesOn
<1> QED BY <1>2, <1>6, SavesToldKept DEF Told

\* A writer moves on without a call, or its call of a save returns.
LEMMA MoveTold ==
  ASSUME Told, Writes,
         run'.prog = run.prog, run.at # "inserting", run'.at # "inserting",
         UNCHANGED <<tbl, saves, runs>>, run'.told = run.told, run'.exact = run.exact,
         run'.vals = run.vals, run'.typed = run.typed
  PROVE  Told'
<1>1. ValuesRead'
  BY DEF Told, TableTold, ValuesRead
<1>2. TableTold' /\ FileShown'
  BY <1>1, TableGoesOn
<1> QED BY <1>2, SavesToldKept DEF Told

\* The calls of an insertion, and what the copying it may begin comes to.
LEMMA InsertKeepsShort ==
  ASSUME NEW t, GoodType(t), GoodMap(t), t.cnt < t.cap, ShortKeys(t),
         NEW k \in KeyLines, NEW v \in Vals, PairFits(RemoveKey(t, k).mem, k, v)
  PROVE  ShortKeys(AppendEntry(RemoveKey(t, k), k, v))
<1> DEFINE r == RemoveKey(t, k)
           u == AppendEntry(r, k, v)
<1>1. t \in TableOf(t.cap) /\ t.cap \in Nat /\ t.cnt \in Nat /\ k \in Keys
  BY GoodTypeFields DEF GoodType, KeyLines
<1>2. r \in TableOf(t.cap) /\ PairFits(r.mem, k, v)
  BY <1>1, RemoveType DEF GoodType
<1>3. r.cnt = t.cnt /\ \A j \in Entries(t) : r.ents[j].key = t.ents[j].key
  BY <1>1, <1>2, RemoveView
<1> HIDE DEF r
<1>4. /\ u.cnt = r.cnt + 1 /\ u.ents[r.cnt].key = k
      /\ \A j \in Entries(r) : u.ents[j] = r.ents[j]
  BY <1>1, <1>2, <1>3, AppendView
<1> HIDE DEF u
<1>5. Entries(u) = Entries(t) \cup {t.cnt} /\ Entries(r) = Entries(t)
  BY <1>1, <1>3, <1>4 DEF Entries
<1>6. ShortKeys(u)
  BY <1>3, <1>4, <1>5 DEF ShortKeys
<1> QED BY <1>6 DEF r, u

\* A table that was inserted into, and what it was told with the insertion.
LEMMA InsertedTold ==
  ASSUME NEW t, GoodType(t), GoodMap(t), t.cnt < t.cap, ShortKeys(t),
         run.told \in Seq(Keys \X Lines), run.exact => Holds(t, run.told),
         NEW k \in KeyLines, NEW v \in Vals, PairFits(RemoveKey(t, k).mem, k, v),
         tbl' = AppendEntry(RemoveKey(t, k), k, v), phase' = "ready", ret' = "ok",
         run'.at = "inserting", run'.pair = <<k, v>>, run'.told = run.told,
         run'.exact = run.exact, ValuesRead', Writes', UNCHANGED <<saves, runs>>, SavesTold
  PROVE  Told'
<1>1. k \in Keys
  BY DEF KeyLines
<1>2. ShortKeys(tbl') /\ (run.exact => Holds(tbl', Append(run.told, <<k, v>>)))
  BY <1>1, InsertKeepsShort, InsertHolds
<1>3. Returned' /\ ToldSoFar' = Append(run.told, <<k, v>>) /\ run'.pair[2] = v
  BY DEF Returned, ToldSoFar
<1>4. ShortKeys(tbl)'
  BY <1>2 DEF ShortKeys, Entries
<1>5. (run.exact => Holds(tbl, ToldSoFar))'
  <2>1. run'.exact => Holds(tbl', ToldSoFar')
    BY <1>2, <1>3
  <2> QED BY <2>1 DEF Holds, MapOf, Shown, Entries, Live
<1>6. TableTold'
  BY <1>3, <1>4, <1>5 DEF TableTold
<1> QED BY <1>6, SavesToldKept DEF Told, FileShown, Writes

\* A table that is as it was, while its insertion copies or has failed.
LEMMA WaitingTold ==
  ASSUME TableTold, SavesTold, Writes, Writes', tbl' = tbl, ToldSoFar = run.told, ~Returned',
         run'.told = run.told, run'.exact = run.exact, ValuesRead', UNCHANGED <<saves, runs>>
  PROVE  Told'
<1>1. ToldSoFar' = run.told
  BY DEF ToldSoFar
<1>2. ShortKeys(tbl)'
  BY DEF TableTold, ShortKeys, Entries
<1>3. (run.exact => Holds(tbl, ToldSoFar))'
  <2>1. run'.exact => Holds(tbl', ToldSoFar')
    BY <1>1 DEF TableTold
  <2> QED BY <2>1 DEF Holds, MapOf, Shown, Entries, Live
<1>4. TableTold'
  BY <1>2, <1>3 DEF TableTold
<1> QED BY <1>4, SavesToldKept DEF Told, FileShown, Writes

LEMMA InsertsTold ==
  ASSUME FInv, Runs, Told, Writes, run.at = "insert", NEW k \in KeyLines, NEW v \in Lines,
         CallInsert(k, v), UNCHANGED runs,
         run' = [run EXCEPT !.at = "inserting", !.pair = <<k, v>>],
         run.prog = "main" /\ run.n < Len(run.vals) => v = run.vals[run.n + 1]
  PROVE  Told'
<1>1. run \in RunType /\ LayoutInv /\ phase = "ready" /\ UNCHANGED saves
  BY DEF Runs, Rooms, Stages, Writes, NoRun, CallInsert, fileVars
<1>2. /\ run'.prog = run.prog /\ run'.at = "inserting" /\ run'.n = run.n
      /\ run'.pair = <<k, v>> /\ run'.told = run.told /\ run'.exact = run.exact
      /\ run'.vals = run.vals /\ run'.typed = run.typed /\ run.told \in Seq(Keys \X Lines)
  <2>1. <<k, v>> \in (Keys \cup {NoKey}) \X Lines
    BY DEF KeyLines
  <2> QED BY <1>1, <2>1 DEF RunType
<1>3. ValuesRead' /\ Writes'
  BY <1>2 DEF Told, TableTold, ValuesRead, Writes
<1>4. ToldSoFar = run.told
  BY DEF ToldSoFar, Returned
<1>5. CalledInsert(k, v)
  BY <1>1, CallInsertDoes
<1>6. CASE phase' = "copy" \/ ret' = "fail"
  <2>1. tbl' = tbl /\ ~Returned'
    <3>1. "fail" # "ok" /\ "copy" # "ready"
      OBVIOUS
    <3> QED BY <1>5, <1>6, <3>1 DEF CalledInsert, Returned
  <2> QED BY <1>1, <1>2, <1>3, <1>4, <2>1, WaitingTold DEF Told
<1>7. CASE /\ v \in Vals /\ phase' = "ready" /\ ret' = "ok"
           /\ tbl.cnt < tbl.cap /\ PairFits(RemoveKey(tbl, k).mem, k, v)
           /\ tbl' = AppendEntry(RemoveKey(tbl, k), k, v)
  <2>1. GoodType(tbl) /\ GoodMap(tbl)
    BY <1>1, WriterMaps DEF Told
  <2>2. ShortKeys(tbl) /\ (run.exact => Holds(tbl, run.told))
    BY <1>4 DEF Told, TableTold
  <2> QED BY <1>1, <1>2, <1>3, <1>7, <2>1, <2>2, InsertedTold DEF Told
<1> QED BY <1>5, <1>6, <1>7 DEF CalledInsert

\* main counts a pair with the value that was typed, which is the one it has.
LEMMA ReturnsTold ==
  ASSUME FInv, Runs, Told, InsertReturned
  PROVE  Told'
<1>1. /\ run.at = "inserting" /\ phase = "ready" /\ UNCHANGED <<tbl, saves, runs>>
      /\ run \in RunType
  BY DEF InsertReturned, Runs, vars, fileVars
<1>2. Writes /\ run.n \in Nat /\ run.pair[1] \in Keys
  BY <1>1 DEF Runs, Stages, Turns, NoRun, RunType, KeyLines
<1> DEFINE told == IF ret = "ok" THEN Append(run.told, <<run.pair[1], Typed>>) ELSE run.told
           exact == run.exact /\ ~(ret = "ok" /\ run.prog = "main" /\ run.n >= Len(run.vals))
           at == IF run.n + 1 = run.max \/ (ret = "fail" /\ run.prog = "main")
                 THEN "save" ELSE "insert"
<1>3. run' = [run EXCEPT !.n = run.n + 1, !.told = told, !.exact = exact, !.at = at]
  BY DEF InsertReturned
<1>4. exact \in BOOLEAN /\ at \in {"save", "insert"}
  BY <1>1 DEF RunType
<1>5. exact => run.exact /\ (ret = "ok" /\ run.prog = "main" => run.n < Len(run.vals))
  <2>1. Len(run.vals) \in Nat
    BY <1>1 DEF RunType
  <2> QED BY <1>2, <2>1
<1>6. exact => told = ToldSoFar
  <2> SUFFICES ASSUME exact, ret = "ok" PROVE Typed = run.pair[2]
    <3>1. run.pair \in (Keys \cup {NoKey}) \X Lines
      BY <1>1 DEF RunType
    <3>2. run.pair = <<run.pair[1], run.pair[2]>>
      BY <3>1
    <3> HIDE DEF exact
    <3> QED BY <1>1, <3>2 DEF ToldSoFar, Returned
  <2>1. CASE run.prog # "main"
    BY <2>1 DEF Typed
  <2>2. CASE run.prog = "main"
    <3>1. run.exact /\ run.n < Len(run.vals)
      BY <1>5, <2>2
    <3>2. /\ Len(run.vals) = Len(run.typed) /\ run.pair[2] = run.vals[run.n + 1]
          /\ \A m \in 1..Len(run.typed) : run.vals[m] \in {run.typed[m], NoVal}
          /\ run.pair[2] \in Vals
      BY <1>1, <1>2, <2>2, <3>1 DEF Told, TableTold, ValuesRead, Returned
    <3>3. run.n + 1 \in 1..Len(run.typed)
      <4>1. Len(run.typed) \in Nat
        BY <1>1 DEF RunType
      <4> QED BY <1>2, <3>1, <3>2, <4>1
    <3>4. run.pair[2] = run.typed[run.n + 1]
      BY <3>2, <3>3, DataAssumption
    <3> QED BY <2>2, <3>1, <3>2, <3>4 DEF Typed
  <2> QED BY <2>1, <2>2
<1> HIDE DEF told, exact, at
<1>7. /\ run'.prog = run.prog /\ run'.told = told /\ run'.exact = exact /\ run'.at = at
      /\ run'.vals = run.vals /\ run'.typed = run.typed
  BY <1>1, <1>3 DEF RunType
<1>8. Writes' /\ ~Returned' /\ ValuesRead'
  BY <1>2, <1>4, <1>5, <1>7 DEF Writes, Returned, Told, TableTold, ValuesRead
<1>9. ToldSoFar' = told
  BY <1>7, <1>8 DEF ToldSoFar
<1>10. (run.exact => Holds(tbl, ToldSoFar))'
  <2>1. run'.exact => Holds(tbl, ToldSoFar')
    BY <1>2, <1>5, <1>6, <1>7, <1>9 DEF Told, TableTold
  <2>2. tbl' = tbl
    BY <1>1
  <2> QED BY <2>1, <2>2 DEF Holds, MapOf, Shown, Entries, Live
<1>11. ShortKeys(tbl)'
  BY <1>1, <1>2 DEF Told, TableTold, ShortKeys, Entries
<1>12. TableTold'
  BY <1>8, <1>10, <1>11 DEF TableTold
<1> QED BY <1>1, <1>8, <1>12, SavesToldKept DEF Told, FileShown, Writes

\* The call of a save: what the table holds is what the history has.
LEMMA SaveBeginsTold ==
  ASSUME FInv, Runs, Told, Writes, run.at = "save", NEW truncate, CallSave(truncate)
  PROVE  Told'
<1>1. /\ run \in RunType /\ tbl' = tbl /\ tbl.cnt \in Nat
      /\ run.told \in Seq(Keys \X Lines) /\ run.exact \in BOOLEAN
  <2>1. tbl' = tbl
    BY DEF CallSave, Save, SaveReturns
  <2>2. tbl.cnt \in Nat
    BY GoodTypeFields DEF FInv, TablesTyped, GoodType
  <2> QED BY <2>1, <2>2 DEF Runs, RunType
<1>2. /\ run'.prog = run.prog /\ run'.at = "saving" /\ run'.told = run.told
      /\ run'.exact = run.exact /\ run'.vals = run.vals /\ run'.typed = run.typed
  BY <1>1 DEF RunType, CallSave, GoTo
<1>3. ValuesRead'
  BY <1>2 DEF Told, TableTold, ValuesRead
<1>4. TableTold' /\ FileShown'
  BY <1>1, <1>2, <1>3, TableGoesOn
<1>5. SavesTold'
  <2>1. CASE saves' = saves
    <3>1. runs' = runs
      BY <2>1 DEF CallSave
    <3> QED BY <2>1, <3>1, SavesToldKept DEF Told
  <2>2. CASE saves' # saves
    <3> DEFINE r == [told |-> run.told, exact |-> run.exact]
    <3>1. saves' = Append(saves, Image(tbl)) /\ runs' = Append(runs, r)
      BY <2>2 DEF CallSave, Save, SaveReturns, Image
    <3>2. r \in RunSaved /\ r.told = run.told /\ r.exact = run.exact
      BY <1>1 DEF RunSaved
    <3> HIDE DEF r
    <3>3. /\ runs \in Seq(RunSaved) /\ Len(runs) = Len(saves) /\ saves \in Seq(Images)
          /\ Image(tbl) \in Images
      <4>1. tbl.cnt > 0
        BY <1>1, <2>2 DEF CallSave, Save, SaveReturns
      <4>2. Image(tbl) \in Images
        <5>1. tbl.cnt \in 1..MaxCap /\ tbl \in TableOf(tbl.cap) /\ tbl.cap \in Nat
          BY <1>1, <4>1, GoodTypeFields, BoundAssumption
             DEF FInv, TablesTyped, GoodType, IsTable, TableOf
        <5>2. Image(tbl) \in [0..tbl.cnt-1 -> KVEntry]
          BY <1>1, <5>1 DEF Image, Entries, TableOf
        <5> QED BY <5>1, <5>2 DEF Images
      <4> QED BY <4>2 DEF Told, SavesTold, FInv, FilesInv
    <3>4. /\ runs' \in Seq(RunSaved) /\ Len(runs') = Len(saves') /\ Len(saves) \in Nat
          /\ saves'[Len(saves) + 1] = Image(tbl) /\ runs'[Len(saves) + 1] = r
          /\ DOMAIN saves' = DOMAIN saves \cup {Len(saves) + 1}
          /\ \A m \in DOMAIN saves : saves'[m] = saves[m] /\ runs'[m] = runs[m]
      <4>1. DOMAIN saves = DOMAIN runs
        BY <3>3
      <4>2. /\ runs' \in Seq(RunSaved) /\ Len(runs') = Len(runs) + 1
            /\ runs'[Len(runs) + 1] = r /\ \A m \in DOMAIN runs : runs'[m] = runs[m]
        BY <3>1, <3>2, <3>3, AppendFacts
      <4>3. /\ Len(saves') = Len(saves) + 1 /\ Len(saves) \in Nat
            /\ saves'[Len(saves) + 1] = Image(tbl)
            /\ DOMAIN saves' = DOMAIN saves \cup {Len(saves) + 1}
            /\ \A m \in DOMAIN saves : saves'[m] = saves[m]
        BY <3>1, <3>3, AppendFacts
      <4> QED BY <3>3, <4>1, <4>2, <4>3
    <3>5. ShortImage(Image(tbl))
      BY DEF Told, TableTold, ShortKeys, ShortImage, Image
    <3>6. Recalls(Image(tbl), r)
      <4>1. ToldSoFar = run.told
        BY DEF ToldSoFar, Returned
      <4>2. run.exact => Holds(tbl, run.told)
        BY <4>1 DEF Told, TableTold
      <4>3. ASSUME r.exact, NEW t, t.cnt \in Nat, Image(t) = Image(tbl) PROVE Holds(t, r.told)
        BY <1>1, <3>2, <4>2, <4>3, SameImageHolds
      <4> QED BY <4>3 DEF Recalls
    <3>7. ASSUME NEW m \in DOMAIN saves'
          PROVE  ShortImage(saves'[m]) /\ Recalls(saves'[m], runs'[m])
      <4>1. CASE m \in DOMAIN saves
        BY <3>4, <4>1 DEF Told, SavesTold
      <4>2. CASE m = Len(saves) + 1
        BY <3>4, <3>5, <3>6, <4>2
      <4> QED BY <3>4, <4>1, <4>2
    <3>8. \A m \in DOMAIN saves' : ShortImage(saves[m])' /\ Recalls(saves[m], runs[m])'
      BY <3>7 DEF ShortImage, Recalls
    <3> QED BY <3>4, <3>8 DEF SavesTold
  <2> QED BY <2>1, <2>2
<1> QED BY <1>4, <1>5 DEF Told

LEMMA SaveCallsTold ==
  ASSUME FInv, Runs, Told, MainSave \/ MkSave \/ MainSaved \/ MainReadEnds \/ MkSkip
  PROVE  Told'
<1>1. ASSUME MainAborts PROVE Told'
  BY <1>1, EndsTold DEF MainAborts, Told, fileVars
<1>2. ASSUME Writes, run.at # "inserting", NEW at, at # "inserting", GoTo(at),
             UNCHANGED <<vars, fileVars, runs>>
      PROVE  Told'
  <2>1. /\ run'.prog = run.prog /\ run'.at = at /\ run'.told = run.told
        /\ run'.exact = run.exact /\ run'.vals = run.vals /\ run'.typed = run.typed
    BY <1>2 DEF Runs, RunType, GoTo
  <2>2. UNCHANGED <<tbl, saves, runs>>
    BY <1>2 DEF vars, fileVars
  <2> QED BY <1>2, <2>1, <2>2, MoveTold
<1>3. CASE MainSave
  <2>1. run.prog = "main" /\ run.at = "save" /\ Writes
    BY <1>3 DEF MainSave, At, Writes
  <2> QED BY <1>1, <1>3, <2>1, SaveBeginsTold DEF MainSave
<1>4. CASE MkSave
  <2>1. run.at = "save" /\ Writes
    BY <1>4 DEF MkSave, At, Writes
  <2>2. CallSave(TRUE) \/ (GoTo("end") /\ UNCHANGED <<vars, fileVars, runs>>)
    BY <1>4, Zenon DEF MkSave
  <2>3. CASE CallSave(TRUE)
    BY <2>1, <2>3, SaveBeginsTold
  <2>4. CASE GoTo("end") /\ UNCHANGED <<vars, fileVars, runs>>
    BY <1>2, <2>1, <2>4
  <2> QED BY <2>2, <2>3, <2>4, Zenon
<1>5. CASE MainSaved
  <2>1. run.at = "saving" /\ Writes
    BY <1>5 DEF MainSaved, At, Writes
  <2>2. CASE GoTo("show") /\ UNCHANGED <<vars, fileVars, runs>>
    BY <1>2, <2>1, <2>2
  <2> QED BY <1>1, <1>5, <2>2 DEF MainSaved
<1>6. CASE MainReadEnds
  <2>1. run.at = "read" /\ Writes /\ GoTo("insert") /\ UNCHANGED <<vars, fileVars, runs>>
    BY <1>6 DEF MainReadEnds, At, Writes
  <2> QED BY <1>2, <2>1
<1>7. CASE MkSkip
  <2>1. run.at = "insert" /\ Writes /\ UNCHANGED <<tbl, saves, runs>>
    BY <1>7 DEF MkSkip, At, Writes, vars, fileVars
  <2> DEFINE at == IF run.n + 1 = run.max THEN "save" ELSE "insert"
  <2>2. run' = [run EXCEPT !.n = run.n + 1, !.at = at] /\ at # "inserting"
    BY <1>7 DEF MkSkip
  <2> HIDE DEF at
  <2>3. /\ run'.prog = run.prog /\ run'.at = at /\ run'.told = run.told
        /\ run'.exact = run.exact /\ run'.vals = run.vals /\ run'.typed = run.typed
    BY <2>2 DEF Runs, RunType
  <2> QED BY <2>1, <2>2, <2>3, MoveTold
<1> QED BY <1>3, <1>4, <1>5, <1>6, <1>7

\* What has been copied has the keys of the table that was copied.
LEMMA CopiedShort ==
  ASSUME TypeInv, MapInv, CopyDone, ShortKeys(tbl)
  PROVE  ShortKeys(new)
<1>1. \A m \in Entries(new) :
        \E j \in LiveBefore(tbl, i) : m = Rank(tbl, j)
  BY DEF MapInv, CopyOrder, CopyDone
<1>2. \A j \in LiveBefore(tbl, i) :
        new.ents[Rank(tbl, j)].key = tbl.ents[j].key /\ j \in Entries(tbl)
  BY DEF MapInv, CopyOrder, CopyDone, LiveBefore, Live
<1> QED BY <1>1, <1>2 DEF ShortKeys

LEMMA SameTold ==
  ASSUME Told, UNCHANGED <<phase, tbl, ret, run, saves, runs>>
  PROVE  Told'
<1>1. TableTold'
  <2> SUFFICES ASSUME Writes PROVE TableTold'
    BY DEF TableTold, Writes
  <2>1. Returned' = Returned /\ ToldSoFar' = ToldSoFar
    BY DEF Returned, ToldSoFar
  <2>2. ValuesRead' /\ ShortKeys(tbl)'
    BY DEF ValuesRead, Told, TableTold, ShortKeys, Entries
  <2>3. (run.exact => Holds(tbl, ToldSoFar))'
    <3>1. run'.exact => Holds(tbl', ToldSoFar')
      BY <2>1 DEF Told, TableTold
    <3> QED BY <3>1 DEF Holds, MapOf, Shown, Entries, Live
  <2> QED BY <2>1, <2>2, <2>3 DEF Told, TableTold
<1>2. FileShown'
  BY DEF Told, FileShown, Image, Entries, AsFiled
<1> QED BY <1>1, <1>2, SavesToldKept DEF Told

\* rdkvdat shows what it loaded; lookups change nothing.
LEMMA ShowsTold ==
  ASSUME Runs, Told, RdStart \/ Answer
  PROVE  Told'
<1>1. CASE RdStart
  <2>1. Load /\ UNCHANGED runs /\ phase = "none"
    BY <1>1 DEF RdStart
  <2>2. UNCHANGED saves
    BY <2>1 DEF Load, fileVars
  <2>3. CASE phase' = "load"
    <3>1. run' = [NoRun EXCEPT !.prog = "rdkvdat", !.at = "show"]
      BY <1>1, <2>3 DEF RdStart
    <3>2. run'.prog = "rdkvdat"
      BY <3>1 DEF NoRun
    <3>3. TableTold' /\ FileShown'
      BY <2>3, <3>2 DEF TableTold, FileShown, Writes
    <3> QED BY <2>1, <2>2, <3>3, SavesToldKept DEF Told
  <2>4. CASE phase' # "load"
    <3>1. run' = NoRun
      BY <1>1, <2>4 DEF RdStart
    <3> QED BY <2>1, <2>2, <3>1, EndsTold DEF Told
  <2> QED BY <2>3, <2>4
<1>2. CASE Answer
  <2>1. /\ run.at = "show" /\ phase' = phase /\ tbl' = tbl /\ run' = run
        /\ UNCHANGED <<saves, runs>>
    BY <1>2 DEF Answer, LookupKey, fileVars
  <2>2. ValuesRead'
    BY <2>1 DEF Told, TableTold, ValuesRead, Runs, Stages, Writes, NoRun
  <2>3. CASE Writes
    BY <2>1, <2>3, MoveTold
  <2>4. CASE ~Writes
    <3>1. FileShown'
      BY <2>1 DEF Told, FileShown, Image, Entries, AsFiled
    <3> QED BY <2>1, <2>4, <3>1, SavesToldKept DEF Told, TableTold, Writes
  <2> QED BY <2>3, <2>4
<1> QED BY <1>1, <1>2

\* A call of the library runs on.
LEMMA RunOnTold ==
  ASSUME FInv, Runs, Told, ~ndebug, UNCHANGED ndebug, RunOn
  PROVE  Told'
<1>1. run' = run /\ run \in RunType /\ UNCHANGED <<saves, runs>>
  <2>1. UNCHANGED fileVars => saves' = saves
    BY DEF fileVars
  <2>2. SaveSize \/ SaveHeader \/ SaveToc \/ SaveData \/ SaveFooter => saves' = saves
    BY DEF SaveSize, SaveHeader, SaveToc, SaveData, SaveFooter, WriteChunk
  <2>3. LoadEntry \/ LoadDone => saves' = saves
    BY <2>1 DEF LoadEntry, LoadDone
  <2>4. \A chunk \in DOMAIN file : Writeback(chunk) => saves' = saves
    BY DEF Writeback
  <2> QED BY <2>1, <2>2, <2>3, <2>4 DEF RunOn, Runs
<1>2. ValuesRead' <=> ValuesRead
  BY <1>1 DEF ValuesRead
<1>3. CASE CopyStep
  <2>1. phase = "copy"
    BY <1>3 DEF CopyStep, SkipDeleted, CopyEntry, CompactDone, InsertResized, Copying, CopyDone
  <2>2. Writes /\ run.at = "inserting" /\ LayoutInv /\ tbl.mem.size >= MEM_SIZE
        /\ call.op = "insert" /\ call.key = run.pair[1] /\ call.val = run.pair[2]
        /\ call.key \in KeyLines
    BY <2>1 DEF Runs, Stages, Rooms, Turns, Writes, NoRun
  <2>3. call.val \in Vals /\ PairBytes(call.key, call.val) <= tbl.mem.size
    <3>1. call.val \in Vals
      BY <2>1, <2>2, WriterTables DEF CopyRoom
    <3>2. PairBytes(call.key, call.val) \in Nat /\ PairBytes(call.key, call.val) <= MEM_SIZE
      BY <2>2, <3>1, ShortPair
    <3>3. tbl.mem.size \in Nat /\ MEM_SIZE \in Nat /\ MEM_SIZE <= tbl.mem.size
      BY <2>2, WriterTables, ProgramFacts
    <3> QED BY <3>1, <3>2, <3>3
  <2>4. Copied
    BY <1>3, <2>2, <2>3, CopyStepDoes
  <2>5. ToldSoFar = run.told /\ TypeInv /\ MapInv /\ GoodType(new) /\ GoodMap(new)
    BY <2>1, WriterMaps DEF ToldSoFar, Returned, Told
  <2>6. CASE phase' = "copy"
    <3>1. tbl' = tbl /\ ~Returned'
      BY <2>4, <2>6 DEF Copied, Returned
    <3> QED BY <1>1, <1>2, <2>2, <2>5, <3>1, WaitingTold DEF Told, TableTold, Writes
  <2>7. CASE /\ phase' = "ready" /\ ret' = "ok" /\ CopyDone /\ new.cnt < new.cap
             /\ PairFits(RemoveKey(new, call.key).mem, call.key, call.val)
             /\ tbl' = AppendEntry(RemoveKey(new, call.key), call.key, call.val)
    <3>1. run.exact => Holds(new, run.told)
      BY <2>2, <2>5, <2>7, CopyHolds DEF Told, TableTold
    <3>2. ShortKeys(new)
      BY <2>2, <2>5, <2>7, CopiedShort DEF Told, TableTold
    <3>3. run'.pair = <<call.key, call.val>> /\ run.told \in Seq(Keys \X Lines)
      <4>1. run.pair \in (Keys \cup {NoKey}) \X Lines /\ run.told \in Seq(Keys \X Lines)
        BY <1>1 DEF RunType
      <4> QED BY <1>1, <2>2, <4>1
    <3>4. Writes' /\ ValuesRead' /\ run'.at = "inserting"
      BY <1>1, <1>2, <2>2 DEF Writes, Told, TableTold
    <3> QED BY <1>1, <2>2, <2>3, <2>5, <2>7, <3>1, <3>2, <3>3, <3>4, InsertedTold DEF Told
  <2> QED BY <2>4, <2>6, <2>7 DEF Copied
<1>4. CASE SaveSize \/ SaveHeader \/ SaveToc \/ SaveData \/ SaveFooter
  <2>1. phase = "save" /\ tbl' = tbl
    BY <1>4 DEF SaveSize, SaveHeader, SaveToc, SaveData, SaveFooter, WriteChunk, Saving,
                SaveReturns, vars
  <2>2. Writes /\ run.at = "saving"
    BY <2>1 DEF Runs, Stages, Writes, NoRun
  <2> QED BY <1>1, <2>1, <2>2, MoveTold
<1>5. CASE LoadEntry \/ LoadDone
  <2>1. phase = "load"
    BY <1>5 DEF LoadEntry, LoadDone
  <2>2. run.prog = "rdkvdat"
    BY <2>1 DEF Runs, Stages, Writes, NoRun
  <2>3. FileShown'
    <3>1. CASE LoadEntry
      BY <2>1, <3>1 DEF LoadEntry, FileShown
    <3>2. CASE LoadDone
      <4>1. LoadAccepts(file)
        BY <2>1 DEF FInv, LoadInv
      <4>2. PICK m \in DOMAIN saves : IsSum(Crc(file), saves[m])
        BY <4>1, LoadSource
      <4>3. Image(tbl') = AsFiled(saves[m])
        BY <3>2, <4>2, LoadedWhole
      <4>4. m \in DOMAIN saves' /\ Image(tbl') = AsFiled(saves'[m])
        BY <1>1, <4>3
      <4> QED BY <4>4 DEF FileShown, Image, Entries, AsFiled
    <3> QED BY <1>5, <3>1, <3>2
  <2>4. TableTold'
    BY <1>1, <2>2 DEF TableTold, Writes
  <2> QED BY <1>1, <2>3, <2>4, SavesToldKept DEF Told
<1>6. ASSUME NEW chunk, Writeback(chunk) PROVE Told'
  BY <1>1, <1>6, SameTold DEF Writeback, vars
<1> QED BY <1>3, <1>4, <1>5, <1>6 DEF RunOn

LEMMA ToldKept ==
  ASSUME FInv, Runs, Told, ~ndebug, Programs, UNCHANGED ndebug
  PROVE  Told'
<1>1. CASE MainInsert
  <2>1. PICK v \in ValueAt(run.n) :
          /\ CallInsert(MainKeys[run.n + 1], v)
          /\ run' = [run EXCEPT !.at = "inserting", !.pair = <<MainKeys[run.n + 1], v>>]
    BY <1>1 DEF MainInsert
  <2>2. MainKeys[run.n + 1] \in KeyLines /\ v \in Lines
    BY <1>1, MainPair DEF MainInsert, Runs
  <2>3. Writes /\ run.at = "insert" /\ UNCHANGED runs
    BY <1>1 DEF MainInsert, Writes, At
  <2>4. run.n < Len(run.vals) => v = run.vals[run.n + 1]
    BY <2>1 DEF ValueAt
  <2> QED BY <2>1, <2>2, <2>3, <2>4, InsertsTold
<1>2. CASE MkInsert
  <2>1. PICK k \in KeyLines, v \in Vals :
          CallInsert(k, v) /\ run' = [run EXCEPT !.at = "inserting", !.pair = <<k, v>>]
    BY <1>2 DEF MkInsert
  <2>2. v \in Lines /\ Writes /\ run.at = "insert" /\ UNCHANGED runs /\ run.prog # "main"
    BY <1>2 DEF MkInsert, Lines, Writes, At
  <2> QED BY <2>1, <2>2, InsertsTold
<1>3. CASE MainStrays \/ MkEnd \/ ShowEnd \/ Stopped
  <2>1. run' = NoRun /\ UNCHANGED <<saves, runs>>
    BY <1>3 DEF MainStrays, MainAborts, MkEnd, ShowEnd, End, Stopped, Kill, PowerLoss, fileVars
  <2> QED BY <2>1, EndsTold DEF Told
<1>4. CASE MainStart \/ MkStart
  BY <1>4, StartsTold
<1>5. CASE MainSave \/ MkSave \/ MainSaved \/ MainReadEnds \/ MkSkip
  BY <1>5, SaveCallsTold
<1>6. CASE MainRead \/ InsertReturned
  BY <1>6, ReadTold, ReturnsTold
<1>7. CASE RdStart \/ Answer \/ RunOn
  BY <1>7, ShowsTold, RunOnTold
<1> QED
  BY <1>1, <1>2, <1>3, <1>4, <1>5, <1>6, <1>7 DEF Programs

LEMMA ToldInvInit == PInit => ToldInv
<1> SUFFICES ASSUME PInit PROVE Told
  BY DEF ToldInv
<1>1. run.prog = "none" /\ saves = <<>> /\ runs = <<>>
  BY DEF PInit, FInit, NoRun
<1>2. SavesTold
  BY <1>1 DEF SavesTold
<1> QED BY <1>1, <1>2 DEF Told, TableTold, FileShown, Writes

LEMMA ToldInvStep == FInv /\ ProgInv /\ ToldInv /\ [PNext]_progVars => ToldInv'
<1> SUFFICES ASSUME FInv, ProgInv, ToldInv, [PNext]_progVars, client' = "programs"
             PROVE  Told'
  BY DEF ToldInv
<1>1. CASE PNext
  <2>1. client = "programs" /\ Programs /\ UNCHANGED <<client, ndebug>>
    BY <1>1 DEF PNext
  <2> QED BY <2>1, ToldKept DEF ProgInv, Runs, ToldInv
<1>2. CASE UNCHANGED progVars
  BY <1>2, SameTold DEF progVars, allVars, vars, fileVars, ToldInv
<1> QED BY <1>1, <1>2

(***************************************************************************)
(* ShowsWhatWasTold holds in every reachable state: whatever was typed, in *)
(* any number of runs killed at any point and saved over one another, main *)
(* and rdkvdat show and answer what one run was told, in its order, values *)
(* replaced since left out or not.                                         *)
(***************************************************************************)
THEOREM TypedIsShown == PSpec => []ShowsWhatWasTold
<1>1. ProgInv /\ ToldInv /\ FInv => ShowsWhatWasTold
  <2> SUFFICES ASSUME ProgInv, ToldInv, FInv, client = "programs", run.at = "show",
                      phase = "ready"
               PROVE  \/ run.prog = "main" /\ (run.exact => Holds(tbl, run.told))
                      \/ run.prog = "rdkvdat" /\ \E m \in DOMAIN runs :
                           /\ Image(tbl) = AsFiled(saves[m])
                           /\ runs[m].exact => Holds(tbl, runs[m].told)
    BY DEF ShowsWhatWasTold
  <2>1. Told /\ run.prog \in {"main", "rdkvdat"}
    BY DEF ToldInv, ProgInv, Stages, Writes, NoRun
  <2>2. CASE run.prog = "main"
    <3>1. ToldSoFar = run.told
      BY DEF ToldSoFar, Returned
    <3> QED BY <2>1, <2>2, <3>1 DEF Told, TableTold, Writes
  <2>3. CASE run.prog = "rdkvdat"
    <3>1. PICK m \in DOMAIN saves : Image(tbl) = AsFiled(saves[m])
      BY <2>1, <2>3 DEF Told, FileShown
    <3>2. Image(tbl) = saves[m] /\ tbl.cnt \in Nat
      BY <2>1, <3>1, NoCut, GoodTypeFields
         DEF Told, FInv, FilesInv, TablesTyped, GoodType
    <3>3. m \in DOMAIN runs
      BY <2>1 DEF Told, SavesTold, FInv, FilesInv
    <3>4. runs[m].exact => Holds(tbl, runs[m].told)
      BY <2>1, <3>2 DEF Told, SavesTold, Recalls
    <3> QED BY <2>3, <3>1, <3>3, <3>4
  <2> QED BY <2>1, <2>2, <2>3
<1>2. PSpec => []ToldInv
  BY ToldInvInit, ToldInvStep, ProgramsHold, PTL DEF PSpec
<1> QED BY <1>1, <1>2, ProgramsHold, PTL
=============================================================================

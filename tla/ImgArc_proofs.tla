--------------------------- MODULE ImgArc_proofs ----------------------------
(***************************************************************************)
(* Proofs about ImgArc: where the entries of an archive are, that they     *)
(* read back, what a flush leaves, and what bipf-rd gets from bipf-wr.     *)
(***************************************************************************)
EXTENDS ImgArcProps, FiniteSetTheorems, TLAPS

-----------------------------------------------------------------------------
(***************************************************************************)
(* Sizes and alignment.                                                    *)
(***************************************************************************)
LEMMA DivMod ==
  ASSUME NEW x \in Nat, NEW m \in Nat \ {0}
  PROVE  /\ x \div m \in Nat /\ x % m \in 0..m-1
         /\ x = m * (x \div m) + (x % m)
OBVIOUS

LEMMA MultipleMod ==
  ASSUME NEW q \in Nat, NEW m \in Nat \ {0}, NEW r \in 0..m-1
  PROVE  (q * m + r) % m = r /\ (q * m + r) \div m = q
OBVIOUS

LEMMA Multiple ==
  ASSUME NEW q \in Nat, NEW m \in Nat \ {0}
  PROVE  q * m \in Nat /\ (q * m) % m = 0
OBVIOUS

LEMMA AlignUp ==
  ASSUME NEW x \in Nat
  PROVE  /\ AlignOffset(x) \in Nat /\ x <= AlignOffset(x)
         /\ AlignOffset(x) % ALIGN_SIZE = 0
<1> DEFINE y == x + ALIGN_SIZE - 1
           q == y \div ALIGN_SIZE
<1>1. y \in Nat /\ q \in Nat /\ y = ALIGN_SIZE * q + (y % ALIGN_SIZE)
      /\ y % ALIGN_SIZE \in 0..ALIGN_SIZE-1
  <2>1. y \in Nat /\ ALIGN_SIZE \in Nat \ {0}
    BY SizeAssumption
  <2> HIDE DEF y
  <2> QED
    BY <2>1, DivMod
<1>2. AlignOffset(x) = q * ALIGN_SIZE
  BY DEF AlignOffset
<1> HIDE DEF q
<1>3. q * ALIGN_SIZE \in Nat /\ (q * ALIGN_SIZE) % ALIGN_SIZE = 0
  BY <1>1, Multiple, SizeAssumption
<1>4. x <= q * ALIGN_SIZE
  BY <1>1, SizeAssumption
<1> QED
  BY <1>1, <1>2, <1>3, <1>4

LEMMA DataOff ==
  ASSUME NEW cnt \in Nat
  PROVE  /\ IMG_DATA_OFF(cnt) \in Nat /\ HDR_SIZE <= IMG_DATA_OFF(cnt)
         /\ IMG_DATA_OFF(cnt) % ALIGN_SIZE = 0
<1> DEFINE h == HDR_SIZE \div ALIGN_SIZE
           t == TOC_ENTRY_SIZE \div ALIGN_SIZE
<1>1. h \in Nat /\ t \in Nat /\ HDR_SIZE = ALIGN_SIZE * h /\ TOC_ENTRY_SIZE = ALIGN_SIZE * t
  BY DivMod, SizeAssumption
<1> HIDE DEF h, t
<1> USE SizeAssumption
<1>2. cnt * TOC_ENTRY_SIZE \in Nat
  OBVIOUS
<1>3. IMG_DATA_OFF(cnt) = (h + cnt * t) * ALIGN_SIZE /\ h + cnt * t \in Nat
  BY <1>1 DEF IMG_DATA_OFF
<1>4. IMG_DATA_OFF(cnt) % ALIGN_SIZE = 0
  BY <1>3, Multiple
<1> QED
  BY <1>2, <1>4 DEF IMG_DATA_OFF

\* Byte k of entry j of the TOC is in front of the data.
LEMMA TocPlace ==
  ASSUME NEW cnt \in Nat, NEW j \in 0..cnt-1, NEW k \in 0..TOC_ENTRY_SIZE-1
  PROVE  (HDR_SIZE + j * TOC_ENTRY_SIZE) + k < IMG_DATA_OFF(cnt)
<1> USE SizeAssumption
<1>1. j * TOC_ENTRY_SIZE + TOC_ENTRY_SIZE = (j + 1) * TOC_ENTRY_SIZE
  OBVIOUS
<1>2. (j + 1) * TOC_ENTRY_SIZE <= cnt * TOC_ENTRY_SIZE
  OBVIOUS
<1>3. j * TOC_ENTRY_SIZE \in Nat /\ cnt * TOC_ENTRY_SIZE \in Nat
  OBVIOUS
<1> QED
  BY <1>1, <1>2, <1>3 DEF IMG_DATA_OFF

-----------------------------------------------------------------------------
(***************************************************************************)
(* What a write does to a file: bytes written are there, the others are as *)
(* they were, and a gap reads as 0.                                        *)
(***************************************************************************)
LEMMA OverwrittenBytes ==
  ASSUME NEW f, f.size \in Nat, NEW at \in Nat, NEW n \in Nat, NEW w, DOMAIN w = 0..n-1
  PROVE  /\ Overwritten(f, at, w).size \in Nat /\ f.size <= Overwritten(f, at, w).size
         /\ n = 0 => Overwritten(f, at, w) = f
         /\ n > 0 => at + n <= Overwritten(f, at, w).size
         /\ \A k \in 0..n-1 : Overwritten(f, at, w).bytes[at + k] = w[k]
         /\ \A o \in 0..f.size-1 :
              o \notin at..at+n-1 => Overwritten(f, at, w).bytes[o] = f.bytes[o]
         /\ \A o \in 0..Overwritten(f, at, w).size-1 :
              o >= f.size /\ o \notin at..at+n-1 => Overwritten(f, at, w).bytes[o] = Zero
<1>1. Cardinality(DOMAIN w) = n
  BY FS_Interval
<1>2. CASE n = 0
  BY <1>1, <1>2 DEF Overwritten
<1>3. CASE n > 0
  <2> DEFINE card == Cardinality(DOMAIN w)
             size == CHOOSE s \in {f.size, at + card} : s >= f.size /\ s >= at + card
  <2>0. card = n
    BY <1>1
  <2>1. \E s \in {f.size, at + n} : s >= f.size /\ s >= at + n
    OBVIOUS
  <2>2. size \in {f.size, at + n} /\ size >= f.size /\ size >= at + n
    <3>1. \E s \in {f.size, at + card} : s >= f.size /\ s >= at + card
      BY <2>0, <2>1
    <3>2. size \in {f.size, at + card} /\ size >= f.size /\ size >= at + card
      BY <3>1, Zenon
    <3> HIDE DEF size, card
    <3> QED
      BY <3>2, <2>0
  <2>3. Overwritten(f, at, w) =
          [size |-> size,
           bytes |-> [o \in 0..size-1 |-> IF o \in at..at+card-1 THEN w[o - at]
                                          ELSE IF o < f.size THEN f.bytes[o] ELSE Zero]]
    <3>1. card # 0
      BY <1>3, <2>0
    <3> QED
      BY <3>1, Zenon DEF Overwritten
  <2> HIDE DEF size, card
  <2>4. Overwritten(f, at, w) =
          [size |-> size,
           bytes |-> [o \in 0..size-1 |-> IF o \in at..at+n-1 THEN w[o - at]
                                          ELSE IF o < f.size THEN f.bytes[o] ELSE Zero]]
    BY <2>0, <2>3, Zenon
  <2>5. \A k \in 0..n-1 : at + k \in 0..size-1 /\ (at + k) - at = k /\ at + k \in at..at+n-1
    BY <2>2
  <2> DEFINE g == Overwritten(f, at, w)
  <2>6. g.size = size /\ \A o \in 0..size-1 :
          g.bytes[o] = IF o \in at..at+n-1 THEN w[o - at]
                       ELSE IF o < f.size THEN f.bytes[o] ELSE Zero
    BY <2>4
  <2> HIDE DEF g
  <2>7. \A k \in 0..n-1 : g.bytes[at + k] = w[k]
    BY <2>5, <2>6
  <2>8. \A o \in 0..f.size-1 : o \notin at..at+n-1 => g.bytes[o] = f.bytes[o]
    BY <2>2, <2>6
  <2>9. \A o \in 0..g.size-1 : o >= f.size /\ o \notin at..at+n-1 => g.bytes[o] = Zero
    BY <2>2, <2>6
  <2>10. g.size \in Nat /\ f.size <= g.size /\ at + n <= g.size /\ n # 0
    BY <1>3, <2>2, <2>6
  <2>11. /\ g.size \in Nat /\ f.size <= g.size
         /\ n = 0 => g = f
         /\ n > 0 => at + n <= g.size
    BY <2>10, Zenon
  <2> QED
    BY <2>7, <2>8, <2>9, <2>11 DEF g
<1> QED
  BY <1>2, <1>3

LEMMA HoldsWritten ==
  ASSUME NEW f, f.size \in Nat, NEW at \in Nat, NEW n \in Nat, NEW w, DOMAIN w = 0..n-1
  PROVE  Holds(Overwritten(f, at, w), at, w)
<1>1. CASE n = 0
  BY <1>1 DEF Holds
<1>2. CASE n > 0
  <2> DEFINE g == Overwritten(f, at, w)
  <2>1. g.size \in Nat /\ at + n <= g.size /\ \A k \in 0..n-1 : g.bytes[at + k] = w[k]
    BY <1>2, OverwrittenBytes
  <2> HIDE DEF g
  <2>2. Holds(g, at, w)
    BY <2>1 DEF Holds
  <2> QED
    BY <2>2 DEF g
<1> QED
  BY <1>1, <1>2

\* What lies beside a write is still there.
LEMMA HoldsKept ==
  ASSUME NEW f, f.size \in Nat, NEW at \in Nat, NEW n \in Nat, NEW w, DOMAIN w = 0..n-1,
         NEW off \in Nat, NEW m \in Nat, NEW s, DOMAIN s = 0..m-1,
         Holds(f, off, s), off + m <= at \/ at + n <= off
  PROVE  Holds(Overwritten(f, at, w), off, s)
<1> SUFFICES ASSUME NEW k \in 0..m-1
             PROVE  /\ off + k < Overwritten(f, at, w).size
                    /\ Overwritten(f, at, w).bytes[off + k] = s[k]
  BY DEF Holds
<1>1. off + k < f.size /\ f.bytes[off + k] = s[k]
  BY DEF Holds
<1> DEFINE g == Overwritten(f, at, w)
<1>2. /\ f.size <= g.size /\ g.size \in Nat
      /\ \A o \in 0..f.size-1 : o \notin at..at+n-1 => g.bytes[o] = f.bytes[o]
  <2> HIDE DEF g
  <2> SUFFICES g = Overwritten(f, at, w)
    BY OverwrittenBytes
  <2> QED
    BY DEF g
<1> HIDE DEF g
<1>3. off + k \in 0..f.size-1 /\ off + k \notin at..at+n-1
  BY <1>1
<1>4. off + k < g.size /\ g.bytes[off + k] = s[k]
  BY <1>1, <1>2, <1>3
<1> QED
  BY <1>4 DEF g

LEMMA DataDomain ==
  ASSUME NEW b, NEW n \in Nat
  PROVE  DOMAIN Data(b, n) = 0..n-1
BY DEF Data

\* A byte of the file among what is held.
LEMMA HeldByte ==
  ASSUME NEW f, NEW s, Holds(f, 0, s), NEW k \in DOMAIN s, k \in Nat
  PROVE  k < f.size /\ f.bytes[k] = s[k]
BY DEF Holds

-----------------------------------------------------------------------------
(***************************************************************************)
(* The inductive invariant.                                                *)
(***************************************************************************)
Opened == obj.desc = 3

ObjInv ==
  /\ client \in {"wr", "any"} /\ made \in {"none", "whole", "part"}
  /\ stray \in {"no", "lost", "yes"} /\ slips \in Nat /\ pos \in Nat /\ file.size \in Nat
  /\ obj \in [desc : {-1, 3}, room : Nat, cur : Nat, cnt : Nat, written : Nat]
  /\ obj.written <= obj.cnt
  /\ ~Opened => obj.cnt = 0
  /\ Opened => /\ obj.cur % ALIGN_SIZE = 0
              /\ IMG_DATA_OFF(obj.cnt) <= obj.cur /\ IMG_DATA_OFF(obj.cnt) <= obj.room

\* An entry of the TOC is that of a buffer, and lies behind the earlier ones.
EntryOK(j) ==
  LET e == mem.toc[j] IN
    /\ wrote[j] \in Bufs \ ZeroSum
    /\ e.id = j /\ e.size = BufLen[wrote[j]] /\ e.off \in Nat /\ e.off % ALIGN_SIZE = 0
    /\ IMG_DATA_OFF(obj.cnt) <= e.off /\ e.off + e.size <= obj.cur
    /\ \A k \in 0..j-1 : mem.toc[k].off + mem.toc[k].size <= e.off

TocInv ==
  /\ mem = [hdr |-> mem.hdr, toc |-> mem.toc]
  /\ mem.hdr = [entrycount |-> obj.cnt, filesize |-> mem.hdr.filesize,
                hsum |-> mem.hdr.hsum, tsum |-> mem.hdr.tsum]
  /\ DOMAIN mem.toc = 0..obj.cnt-1
  /\ mem.toc = [j \in 0..obj.cnt-1 |-> mem.toc[j]]
  /\ \A j \in Entries : EntryOK(j)

\* The descriptor is at the cursor unless it is lost.
PosInv == Opened /\ stray = "no" => pos = obj.cur

\* What bipf-wr may find when it flushes, and what it leaves.
ProgInv ==
  /\ made = "none" => ReaderRefuses(file) /\ (Opened => HDR_SIZE <= pos)
  /\ client = "wr" /\ Opened => /\ obj.room = IMG_DATA_OFF(obj.cnt)
                               /\ (slips = 0 => stray = "no")
  /\ client = "wr" /\ made = "whole" /\ Opened /\ obj.cnt > 0 =>
       obj.written = obj.cnt /\ slips > 0

Inv == ObjInv /\ TocInv /\ PosInv /\ ProgInv /\ EntriesReadBack /\ ProgramArchiveReads

-----------------------------------------------------------------------------
LEMMA InvFacts ==
  ASSUME Inv
  PROVE  /\ obj.room \in Nat /\ obj.cur \in Nat /\ obj.cnt \in Nat /\ obj.written \in Nat
         /\ obj.written <= obj.cnt /\ pos \in Nat /\ file.size \in Nat /\ slips \in Nat
         /\ Valid <=> Opened
BY DEF Inv, ObjInv, Opened, Valid

\* An entry of the invariant, with its buffer's length.
LEMMA EntryFacts ==
  ASSUME Inv, NEW j \in Entries
  PROVE  /\ j \in Nat /\ j < obj.cnt /\ wrote[j] \in Bufs /\ wrote[j] \notin ZeroSum
         /\ BufLen[wrote[j]] \in Nat /\ BufLen[wrote[j]] > 0
         /\ mem.toc[j].size = BufLen[wrote[j]] /\ mem.toc[j].off \in Nat
         /\ IMG_DATA_OFF(obj.cnt) <= mem.toc[j].off
         /\ mem.toc[j].off + BufLen[wrote[j]] <= obj.cur
<1>1. j \in Nat /\ j < obj.cnt
  BY InvFacts DEF Entries
<1>2. EntryOK(j)
  BY DEF Inv, TocInv
<1>3. wrote[j] \in Bufs /\ wrote[j] \notin ZeroSum /\ BufLen[wrote[j]] \in Nat
      /\ BufLen[wrote[j]] > 0
  BY <1>2, BufAssumption DEF EntryOK
<1> QED
  BY <1>1, <1>2, <1>3 DEF EntryOK

\* A write that leaves alone what is between header, TOC and cursor, or that
\* lies in header and TOC, leaves the entries.
LEMMA EntriesKept ==
  ASSUME Inv, NEW at \in Nat, NEW n \in Nat, NEW w, DOMAIN w = 0..n-1,
         obj.cur <= at \/ at + n <= IMG_DATA_OFF(obj.cnt),
         NEW j \in Entries, EntryIs(file, mem.toc[j], wrote[j])
  PROVE  EntryIs(Overwritten(file, at, w), mem.toc[j], wrote[j])
<1> DEFINE b == wrote[j]
           off == mem.toc[j].off
           m == mem.toc[j].size
<1>1. m \in Nat /\ off \in Nat /\ IMG_DATA_OFF(obj.cnt) <= off /\ off + m <= obj.cur
  BY EntryFacts
<1>2. off + m <= at \/ at + n <= off
  <2>1. IMG_DATA_OFF(obj.cnt) \in Nat /\ obj.cur \in Nat
    BY InvFacts, DataOff
  <2> HIDE DEF off, m
  <2> QED
    BY <1>1, <2>1
<1>3. Holds(file, off, Data(b, m)) /\ m = BufLen[b]
  BY DEF EntryIs
<1>4. file.size \in Nat
  BY InvFacts
<1>5. DOMAIN Data(b, m) = 0..m-1
  BY <1>1, DataDomain
<1> HIDE DEF b, off, m
<1>6. Holds(Overwritten(file, at, w), off, Data(b, m))
  BY <1>1, <1>2, <1>3, <1>4, <1>5, HoldsKept
<1> QED
  BY <1>3, <1>6 DEF EntryIs, b, off, m

(***************************************************************************)
(* Until the first flush, zeros are where the header goes.                 *)
(***************************************************************************)
LEMMA RefusedKept ==
  ASSUME NEW f, f.size \in Nat, ReaderRefuses(f),
         NEW at \in Nat, HDR_SIZE <= at, NEW n \in Nat, NEW w, DOMAIN w = 0..n-1
  PROVE  ReaderRefuses(Overwritten(f, at, w))
<1> DEFINE g == Overwritten(f, at, w)
           z == [k \in 0..HDR_SIZE-1 |-> Zero]
<1>1. HDR_SIZE \in Nat /\ DOMAIN z = 0..HDR_SIZE-1
  BY SizeAssumption
<1>2. CASE n = 0
  BY <1>2, OverwrittenBytes
<1>3. CASE n > 0 /\ f.size = 0
  <2>1. \A k \in 0..HDR_SIZE-1 : k < g.size /\ g.bytes[k] = Zero
    <3> SUFFICES ASSUME NEW k \in 0..HDR_SIZE-1  PROVE k < g.size /\ g.bytes[k] = Zero
      OBVIOUS
    <3>1. g.size \in Nat /\ at + n <= g.size
      BY <1>3, OverwrittenBytes
    <3>2. k \in 0..g.size-1 /\ k >= f.size /\ k \notin at..at+n-1
      BY <1>1, <1>3, <3>1
    <3> QED
      BY <3>1, <3>2, OverwrittenBytes
  <2> HIDE DEF g
  <2>2. Holds(g, 0, z)
    BY <2>1 DEF Holds
  <2> QED
    BY <2>2 DEF ReaderRefuses, g
<1>4. CASE f.size # 0
  <2>1. Holds(f, 0, z)
    BY <1>4 DEF ReaderRefuses
  <2> HIDE DEF z
  <2>2. Holds(g, 0, z)
    BY <1>1, <2>1, HoldsKept
  <2> QED
    BY <2>2 DEF ReaderRefuses, z
<1> QED
  BY <1>2, <1>3, <1>4

LEMMA RefusedTruncated ==
  ASSUME NEW f, f.size \in Nat, ReaderRefuses(f), NEW n \in Nat, HDR_SIZE <= n
  PROVE  ReaderRefuses(Truncated(f, n))
<1>1. HDR_SIZE \in Nat
  BY SizeAssumption
<1>2. \A k \in 0..HDR_SIZE-1 : k < Truncated(f, n).size /\ Truncated(f, n).bytes[k] = Zero
  <2> SUFFICES ASSUME NEW k \in 0..HDR_SIZE-1
               PROVE  k < Truncated(f, n).size /\ Truncated(f, n).bytes[k] = Zero
    OBVIOUS
  <2>1. k \in 0..n-1
    BY <1>1
  <2>2. Truncated(f, n).size = n
        /\ Truncated(f, n).bytes[k] = IF k < f.size THEN f.bytes[k] ELSE Zero
    BY <2>1 DEF Truncated
  <2>3. CASE f.size = 0
    BY <2>1, <2>2, <2>3
  <2>4. CASE Holds(f, 0, [i \in 0..HDR_SIZE-1 |-> Zero])
    <3>1. f.bytes[0 + k] = Zero
      BY <2>4 DEF Holds
    <3> QED
      BY <2>1, <2>2, <3>1
  <2> QED
    BY <2>3, <2>4 DEF ReaderRefuses
<1>3. Holds(Truncated(f, n), 0, [k \in 0..HDR_SIZE-1 |-> Zero])
  BY <1>2 DEF Holds
<1> QED
  BY <1>3 DEF ReaderRefuses

-----------------------------------------------------------------------------
LEMMA ImgInit == Init => Inv
<1> SUFFICES ASSUME Init  PROVE Inv
  OBVIOUS
<1>1. obj.desc = -1 /\ obj.cnt = 0 /\ obj.written = 0 /\ file.size = 0 /\ made = "none"
  BY DEF Init, NoObject, EmptyFile
<1>2. ObjInv
  BY DEF Init, NoObject, EmptyFile, ObjInv, Opened
<1>3. TocInv
  <2>1. DOMAIN mem.toc = 0..obj.cnt-1 /\ mem.toc = [j \in 0..obj.cnt-1 |-> mem.toc[j]]
    BY DEF Init, NoMem, NoObject
  <2>2. Entries = {}
    BY <1>1 DEF Entries
  <2> QED
    BY <1>1, <2>1, <2>2 DEF Init, NoMem, TocInv
<1>4. PosInv /\ ProgInv
  BY <1>1 DEF PosInv, ProgInv, Opened, ReaderRefuses
<1>5. EntriesReadBack /\ ProgramArchiveReads
  BY <1>1 DEF EntriesReadBack, ProgramArchiveReads, Entries, ReaderRefuses
<1> QED
  BY <1>2, <1>3, <1>4, <1>5 DEF Inv

\* The last answer is no part of the invariant.
LEMMA ImgStutter ==
  ASSUME Inv, UNCHANGED <<client, obj, mem, file, pos, wrote, slips, stray, made>>
  PROVE  Inv'
<1>1. ObjInv'
  BY DEF Inv, ObjInv, Opened
<1>2. TocInv' /\ Entries' = Entries
  BY DEF Inv, TocInv, Entries, EntryOK
<1>3. PosInv' /\ ProgInv'
  BY DEF Inv, PosInv, ProgInv, Opened
<1>4. EntriesReadBack'
  BY <1>2 DEF Inv, EntriesReadBack
<1>5. ProgramArchiveReads'
  BY <1>2 DEF Inv, ProgramArchiveReads, Valid
<1> QED
  BY <1>1, <1>2, <1>3, <1>4, <1>5 DEF Inv

(***************************************************************************)
(* Archives are opened and closed.                                         *)
(***************************************************************************)
LEMMA Started ==
  ASSUME Inv, NEW cnt \in Nat, NEW room \in Nat, IMG_DATA_OFF(cnt) <= room,
         ObjectInit(cnt, room), file'.size \in Nat, UNCHANGED client,
         made' \in {"none", "part"}, made' = "none" => ReaderRefuses(file'),
         client = "wr" => room = IMG_DATA_OFF(cnt)
  PROVE  Inv'
<1>1. /\ obj' = [desc |-> 3, room |-> room, cur |-> IMG_DATA_OFF(cnt), cnt |-> cnt,
                 written |-> 0]
      /\ pos' = IMG_DATA_OFF(cnt) /\ slips' = 0 /\ stray' = "no"
  BY DEF ObjectInit, StartPos
<1>2. IMG_DATA_OFF(cnt) \in Nat /\ HDR_SIZE <= IMG_DATA_OFF(cnt)
      /\ IMG_DATA_OFF(cnt) % ALIGN_SIZE = 0
  BY DataOff
<1>3. obj'.desc = 3 /\ obj'.cnt = cnt /\ obj'.written = 0 /\ obj'.cur = IMG_DATA_OFF(cnt)
      /\ obj'.room = room
  BY <1>1
<1>4. ObjInv'
  <2>1. obj' \in [desc : {-1, 3}, room : Nat, cur : Nat, cnt : Nat, written : Nat]
    BY <1>1, <1>2
  <2>2. client' \in {"wr", "any"}
    BY DEF Inv, ObjInv
  <2> QED
    BY <1>1, <1>2, <1>3, <2>1, <2>2 DEF ObjInv, Opened
<1>5. Entries' = {}
  BY <1>3 DEF Entries
<1>6. TocInv'
  BY <1>3, <1>5 DEF ObjectInit, TocInv
<1>7. PosInv' /\ ProgInv'
  BY <1>1, <1>2, <1>3 DEF PosInv, ProgInv, Opened
<1>8. EntriesReadBack' /\ ProgramArchiveReads'
  BY <1>5 DEF EntriesReadBack, ProgramArchiveReads
<1> QED
  BY <1>4, <1>6, <1>7, <1>8 DEF Inv

LEMMA OpenStep ==
  ASSUME Inv, NEW cnt \in EntryCounts, NEW room \in Int, Open(cnt, room), client = "any"
  PROVE  Inv'
<1>1. file' = EmptyFile /\ made' = "none" /\ UNCHANGED client /\ ~Opened
  BY InvFacts DEF Open
<1>2. file'.size = 0 /\ ReaderRefuses(file')
  BY <1>1 DEF EmptyFile, ReaderRefuses
<1>3. cnt \in Nat /\ IMG_DATA_OFF(cnt) \in Nat
  BY WriterAssumption, DataOff
<1>4. CASE room < IMG_DATA_OFF(cnt)
  <2>1. UNCHANGED <<obj, mem, pos, wrote, slips, stray>>
    BY <1>4 DEF Open
  <2>2. ObjInv'
    BY <1>1, <1>2, <2>1 DEF Inv, ObjInv, Opened
  <2>3. obj.written = 0 /\ obj.cnt = 0
    BY <1>1, InvFacts DEF Inv, ObjInv
  <2>4. Entries' = {} /\ TocInv'
    BY <2>1, <2>3 DEF Inv, TocInv, Entries
  <2>5. PosInv' /\ ProgInv'
    BY <1>1, <1>2, <2>1 DEF PosInv, ProgInv, Opened
  <2>6. EntriesReadBack' /\ ProgramArchiveReads'
    BY <1>1, <1>2, <2>4 DEF EntriesReadBack, ProgramArchiveReads
  <2> QED
    BY <2>2, <2>4, <2>5, <2>6 DEF Inv
<1>5. CASE ~(room < IMG_DATA_OFF(cnt))
  <2>1. ObjectInit(cnt, room) /\ room \in Nat /\ IMG_DATA_OFF(cnt) <= room
    BY <1>3, <1>5 DEF Open
  <2> QED
    BY <1>1, <1>2, <1>3, <2>1, Started
<1> QED
  BY <1>4, <1>5

LEMMA OpenWrStep ==
  ASSUME Inv, NEW cnt \in EntryCounts, OpenWr(cnt)
  PROVE  Inv'
<1>1. cnt \in Nat /\ IMG_DATA_OFF(cnt) \in Nat /\ HDR_SIZE <= IMG_DATA_OFF(cnt)
  BY WriterAssumption, DataOff
<1>2. file' = Truncated(file, IMG_DATA_OFF(cnt)) /\ file'.size \in Nat
  BY <1>1 DEF OpenWr, Truncated
<1>3. made' \in {"none", "part"} /\ (made' = "none" => made = "none")
  BY DEF OpenWr
<1>4. made = "none" => ReaderRefuses(file')
  BY <1>1, <1>2, InvFacts, RefusedTruncated DEF Inv, ProgInv
<1> QED
  BY <1>1, <1>2, <1>3, <1>4, Started DEF OpenWr

LEMMA CloseStep ==
  ASSUME Inv, Close
  PROVE  Inv'
<1>1. obj'.desc = -1 /\ obj'.cnt = 0 /\ obj'.written = 0
  BY DEF Close, NoObject
<1>2. ObjInv'
  <2>1. obj' \in [desc : {-1, 3}, room : Nat, cur : Nat, cnt : Nat, written : Nat]
    BY DEF Close, NoObject
  <2> QED
    BY <1>1, <2>1 DEF Close, Inv, ObjInv, Opened
<1>3. Entries' = {}
  BY <1>1 DEF Entries
<1>4. TocInv'
  <2>1. mem'.toc = <<>> /\ 0..obj'.cnt-1 = {}
    BY <1>1 DEF Close, NoMem
  <2> QED
    BY <1>1, <1>3, <2>1 DEF Close, NoMem, TocInv
<1>5. PosInv' /\ ProgInv'
  BY <1>1 DEF Close, PosInv, Inv, ProgInv, Opened
<1>6. EntriesReadBack' /\ ProgramArchiveReads'
  BY <1>1, <1>3 DEF Close, Inv, ProgInv, EntriesReadBack, ProgramArchiveReads, Valid
<1> QED
  BY <1>2, <1>4, <1>5, <1>6 DEF Inv

-----------------------------------------------------------------------------
(***************************************************************************)
(* A write of data that stops part-way.                                    *)
(***************************************************************************)
Touched == made' = IF made = "none" THEN "none" ELSE "part"

LEMMA DataFailsStep ==
  ASSUME Inv, Opened, NEW b \in Bufs, NEW n \in Nat, DataWriteFails(b, n), Touched,
         UNCHANGED client
  PROVE  Inv'
<1>1. /\ file' = Overwritten(file, pos, Data(b, n)) /\ pos' = pos + n /\ slips' = slips + 1
      /\ stray' = IF n = 0 THEN stray ELSE IF stray = "no" THEN "lost" ELSE "yes"
      /\ UNCHANGED <<obj, mem, wrote>>
  BY DEF DataWriteFails
<1>2. DOMAIN Data(b, n) = 0..n-1
  BY DataDomain
<1>3. file'.size \in Nat /\ (n = 0 => file' = file)
  BY <1>1, <1>2, InvFacts, OverwrittenBytes
<1>4. ObjInv'
  BY <1>1, <1>3, InvFacts DEF Inv, ObjInv, Opened, Touched
<1>5. TocInv' /\ Entries' = Entries
  BY <1>1 DEF Inv, TocInv, Entries, EntryOK
<1>6. PosInv'
  BY <1>1, InvFacts DEF Inv, PosInv, Opened
<1>7. EntriesReadBack'
  <2> SUFFICES ASSUME stray' # "yes", NEW j \in Entries
               PROVE  EntryIs(file', mem.toc[j], wrote[j])
    BY <1>1, <1>5 DEF EntriesReadBack
  <2>1. stray # "yes"
    BY <1>1
  <2>2. EntryIs(file, mem.toc[j], wrote[j])
    BY <2>1 DEF Inv, EntriesReadBack
  <2>3. CASE n = 0
    BY <1>3, <2>2, <2>3
  <2>4. CASE n # 0
    <3>1. pos = obj.cur
      BY <1>1, <2>4 DEF Inv, PosInv
    <3>2. obj.cur <= pos /\ pos \in Nat
      BY <3>1, InvFacts
    <3> QED
      BY <1>1, <1>2, <2>2, <3>2, EntriesKept
  <2> QED
    BY <2>3, <2>4
<1>8. made' = "none" => ReaderRefuses(file') /\ HDR_SIZE <= pos'
  <2> SUFFICES ASSUME made' = "none"  PROVE ReaderRefuses(file') /\ HDR_SIZE <= pos'
    OBVIOUS
  <2>1. ReaderRefuses(file) /\ HDR_SIZE <= pos
    BY DEF Touched, Inv, ProgInv
  <2>2. ReaderRefuses(file')
    BY <1>1, <1>2, <2>1, InvFacts, RefusedKept
  <2>3. HDR_SIZE <= pos'
    BY <1>1, <2>1, InvFacts, SizeAssumption
  <2> QED
    BY <2>2, <2>3
<1>9. made' # "whole"
  BY DEF Touched
<1>10. ProgInv' /\ ProgramArchiveReads'
  BY <1>1, <1>8, <1>9, InvFacts DEF Inv, ProgInv, ProgramArchiveReads, Opened
<1> QED
  BY <1>4, <1>5, <1>6, <1>7, <1>10 DEF Inv

(***************************************************************************)
(* The data are written, and the TOC may know of them.                     *)
(***************************************************************************)
LEMMA NextCurFacts ==
  ASSUME Inv, Opened, NEW b \in Bufs
  PROVE  /\ NextCur(b) \in Nat /\ NextCur(b) % ALIGN_SIZE = 0
         /\ obj.cur + BufLen[b] <= NextCur(b) /\ BufLen[b] \in Nat /\ obj.cur \in Nat
         /\ IMG_DATA_OFF(obj.cnt) \in Nat /\ HDR_SIZE <= IMG_DATA_OFF(obj.cnt)
         /\ IMG_DATA_OFF(obj.cnt) <= obj.cur /\ obj.cur % ALIGN_SIZE = 0
<1>1. BufLen[b] \in Nat /\ obj.cur \in Nat
  BY InvFacts, BufAssumption
<1>2. NextCur(b) \in Nat /\ NextCur(b) % ALIGN_SIZE = 0 /\ obj.cur + BufLen[b] <= NextCur(b)
  BY <1>1, AlignUp DEF NextCur
<1>3. IMG_DATA_OFF(obj.cnt) <= obj.cur /\ obj.cur % ALIGN_SIZE = 0
  BY DEF Inv, ObjInv
<1> QED
  BY <1>1, <1>2, <1>3, InvFacts, DataOff

\* What the data's arrival leaves alone, whether or not the TOC is told.
LEMMA DataArrived ==
  ASSUME Inv, Opened, NEW b \in Bufs, DataWritten(b)
  PROVE  /\ file' = Overwritten(file, pos, Data(b, BufLen[b])) /\ file'.size \in Nat
         /\ pos' = NextCur(b) /\ UNCHANGED slips
         /\ stray' = IF stray = "no" THEN "no" ELSE "yes"
         /\ stray' # "yes" => /\ pos = obj.cur
                              /\ Holds(file', obj.cur, Data(b, BufLen[b]))
                              /\ \A j \in Entries : EntryIs(file', mem.toc[j], wrote[j])
         /\ made = "none" => ReaderRefuses(file') /\ HDR_SIZE <= pos'
<1>1. /\ file' = Overwritten(file, pos, Data(b, BufLen[b]))
      /\ pos' = NextCur(b) /\ UNCHANGED slips
      /\ stray' = IF stray = "no" THEN "no" ELSE "yes"
  BY DEF DataWritten, EntryWritten
<1> DEFINE w == Data(b, BufLen[b])
           n == BufLen[b]
<1>2. n \in Nat /\ DOMAIN w = 0..n-1 /\ pos \in Nat /\ file.size \in Nat
  BY NextCurFacts, DataDomain, InvFacts
<1> HIDE DEF w, n
<1>3. file' = Overwritten(file, pos, w)
  BY <1>1 DEF w, n
<1>4. file'.size \in Nat
  BY <1>2, <1>3, OverwrittenBytes
<1>5. ASSUME stray' # "yes"
      PROVE  /\ pos = obj.cur /\ Holds(file', obj.cur, w)
             /\ \A j \in Entries : EntryIs(file', mem.toc[j], wrote[j])
  <2>1. stray = "no"
    BY <1>1, <1>5
  <2>2. pos = obj.cur
    BY <2>1 DEF Inv, PosInv
  <2>3. Holds(file', obj.cur, w)
    BY <1>2, <1>3, <2>2, HoldsWritten
  <2>4. ASSUME NEW j \in Entries  PROVE EntryIs(file', mem.toc[j], wrote[j])
    <3>1. EntryIs(file, mem.toc[j], wrote[j])
      BY <2>1 DEF Inv, EntriesReadBack
    <3>2. obj.cur <= pos
      BY <1>2, <2>2
    <3> QED
      BY <1>2, <1>3, <3>1, <3>2, EntriesKept
  <2> QED
    BY <2>2, <2>3, <2>4
<1>6. ASSUME made = "none"  PROVE ReaderRefuses(file') /\ HDR_SIZE <= pos'
  <2>1. ReaderRefuses(file) /\ HDR_SIZE <= pos
    BY <1>6 DEF Inv, ProgInv
  <2>2. ReaderRefuses(file')
    BY <1>2, <1>3, <2>1, RefusedKept
  <2>3. HDR_SIZE <= pos'
    BY <1>1, NextCurFacts, SizeAssumption
  <2> QED
    BY <2>2, <2>3
<1> QED
  BY <1>1, <1>4, <1>5, <1>6 DEF w, n

LEMMA UntoldStep ==
  ASSUME Inv, Opened, NEW b \in Bufs, b \in ZeroSum, DataWritten(b), Touched,
         UNCHANGED client
  PROVE  Inv'
<1>1. obj' = [obj EXCEPT !.cur = NextCur(b)] /\ UNCHANGED <<mem, wrote>>
  BY DEF DataWritten, EntryWritten
<1>2. obj' = [desc |-> obj.desc, room |-> obj.room, cur |-> NextCur(b), cnt |-> obj.cnt,
              written |-> obj.written]
  BY <1>1 DEF Inv, ObjInv
<1>3. obj'.desc = 3 /\ obj'.room = obj.room /\ obj'.cnt = obj.cnt /\ obj'.cur = NextCur(b)
      /\ obj'.written = obj.written
  BY <1>2 DEF Opened
<1>4. ObjInv'
  <2>1. obj' \in [desc : {-1, 3}, room : Nat, cur : Nat, cnt : Nat, written : Nat]
    BY <1>2, <1>3, NextCurFacts, InvFacts
  <2>2. IMG_DATA_OFF(obj'.cnt) <= obj'.cur /\ IMG_DATA_OFF(obj'.cnt) <= obj'.room
    <3>1. IMG_DATA_OFF(obj.cnt) <= NextCur(b)
      BY NextCurFacts
    <3>2. IMG_DATA_OFF(obj.cnt) <= obj.room
      BY DEF Inv, ObjInv
    <3> QED
      BY <1>3, <3>1, <3>2
  <2>3. stray' \in {"no", "lost", "yes"} /\ slips' \in Nat /\ pos' \in Nat /\ file'.size \in Nat
    BY DataArrived, NextCurFacts, InvFacts
  <2> QED
    <3>1. obj'.cur % ALIGN_SIZE = 0 /\ obj'.written <= obj'.cnt
      BY <1>3, NextCurFacts, InvFacts
    <3>2. client' \in {"wr", "any"} /\ made' \in {"none", "whole", "part"}
      BY DEF Inv, ObjInv, Touched
    <3> QED
      BY <1>3, <2>1, <2>2, <2>3, <3>1, <3>2 DEF ObjInv, Opened
<1>5. TocInv' /\ Entries' = Entries
  <2>1. Entries' = Entries
    BY <1>3 DEF Entries
  <2>2. ASSUME NEW j \in Entries  PROVE EntryOK(j)'
    <3>1. EntryOK(j)
      BY DEF Inv, TocInv
    <3>2. mem.toc[j].off + mem.toc[j].size <= NextCur(b)
      BY EntryFacts, NextCurFacts
    <3> QED
      BY <1>1, <1>3, <3>1, <3>2 DEF EntryOK
  <2> QED
    BY <1>1, <1>3, <2>1, <2>2 DEF Inv, TocInv
<1>6. PosInv'
  BY <1>3, DataArrived DEF PosInv
<1>7. EntriesReadBack'
  BY <1>1, <1>5, DataArrived DEF EntriesReadBack
<1>8. made' # "whole" /\ (made' = "none" => made = "none")
  BY DEF Touched
<1>9. ProgInv' /\ ProgramArchiveReads'
  BY <1>3, <1>8, DataArrived DEF Inv, ProgInv, ProgramArchiveReads, Opened
<1> QED
  BY <1>4, <1>5, <1>6, <1>7, <1>9 DEF Inv

LEMMA ToldStep ==
  ASSUME Inv, Opened, ~Full, NEW b \in Bufs, b \notin ZeroSum, DataWritten(b), Touched,
         UNCHANGED client
  PROVE  Inv'
<1> DEFINE k == obj.written
           te == TocEntry(k, b, obj.cur)
<1>1. /\ obj' = [obj EXCEPT !.cur = NextCur(b), !.written = obj.written + 1]
      /\ mem' = [mem EXCEPT !.toc[k] = te]
      /\ wrote' = [j \in 0..k |-> IF j < k THEN wrote[j] ELSE b]
  BY DEF DataWritten, EntryWritten
<1>2. obj' = [desc |-> obj.desc, room |-> obj.room, cur |-> NextCur(b), cnt |-> obj.cnt,
              written |-> obj.written + 1]
  BY <1>1 DEF Inv, ObjInv
<1>3. obj'.desc = 3 /\ obj'.room = obj.room /\ obj'.cnt = obj.cnt /\ obj'.cur = NextCur(b)
      /\ obj'.written = k + 1
  BY <1>2 DEF Opened
<1>4. k \in Nat /\ k < obj.cnt /\ obj.cnt \in Nat
  BY InvFacts DEF Full
<1>5. ObjInv'
  <2>1. obj' \in [desc : {-1, 3}, room : Nat, cur : Nat, cnt : Nat, written : Nat]
    BY <1>2, <1>3, <1>4, NextCurFacts, InvFacts
  <2>2. IMG_DATA_OFF(obj'.cnt) <= obj'.cur /\ IMG_DATA_OFF(obj'.cnt) <= obj'.room
    <3>1. IMG_DATA_OFF(obj.cnt) <= NextCur(b)
      BY NextCurFacts
    <3>2. IMG_DATA_OFF(obj.cnt) <= obj.room
      BY DEF Inv, ObjInv
    <3> QED
      BY <1>3, <3>1, <3>2
  <2>3. stray' \in {"no", "lost", "yes"} /\ slips' \in Nat /\ pos' \in Nat /\ file'.size \in Nat
    BY DataArrived, NextCurFacts, InvFacts
  <2>4. obj'.cur % ALIGN_SIZE = 0 /\ obj'.written <= obj'.cnt
    BY <1>3, <1>4, NextCurFacts
  <2>5. client' \in {"wr", "any"} /\ made' \in {"none", "whole", "part"}
    BY DEF Inv, ObjInv, Touched
  <2> QED
    BY <1>3, <2>1, <2>2, <2>3, <2>4, <2>5 DEF ObjInv, Opened
<1>6. /\ mem' = [hdr |-> mem.hdr, toc |-> [mem.toc EXCEPT ![k] = te]]
      /\ DOMAIN mem.toc = 0..obj.cnt-1
  <2>1. mem' = [mem EXCEPT !.toc = [mem.toc EXCEPT ![k] = te]]
    BY <1>1
  <2>2. mem = [hdr |-> mem.hdr, toc |-> mem.toc] /\ DOMAIN mem.toc = 0..obj.cnt-1
    BY DEF Inv, TocInv
  <2> HIDE DEF te, k
  <2> QED
    BY <2>1, <2>2
<1>7. /\ mem'.hdr = mem.hdr
      /\ mem'.toc = [j \in 0..obj.cnt-1 |-> IF j = k THEN te ELSE mem.toc[j]]
  <2>1. mem.toc = [j \in 0..obj.cnt-1 |-> mem.toc[j]]
    BY DEF Inv, TocInv
  <2> HIDE DEF te, k
  <2>2. mem'.toc = [mem.toc EXCEPT ![k] = te] /\ mem'.hdr = mem.hdr
    BY <1>6
  <2> QED
    BY <1>6, <2>1, <2>2
<1>8. /\ mem'.toc[k] = te /\ \A j \in 0..k-1 : mem'.toc[j] = mem.toc[j]
      /\ wrote'[k] = b /\ \A j \in 0..k-1 : wrote'[j] = wrote[j]
  <2> HIDE DEF te, k
  <2> QED
    BY <1>1, <1>4, <1>7
<1>9. te.id = k /\ te.size = BufLen[b] /\ te.off = obj.cur
  BY DEF TocEntry
<1>10. Entries' = 0..k /\ Entries = 0..k-1
  BY <1>3, <1>4 DEF Entries
<1> HIDE DEF k, te
<1>11. ASSUME NEW j \in 0..k  PROVE EntryOK(j)'
  <2>1. CASE j < k
    <3>1. j \in Entries
      BY <1>4, <1>10, <2>1
    <3>2. EntryOK(j)
      BY <3>1 DEF Inv, TocInv
    <3>3. mem.toc[j].off + mem.toc[j].size <= NextCur(b)
      BY <3>1, EntryFacts, NextCurFacts
    <3>4. mem'.toc[j] = mem.toc[j] /\ wrote'[j] = wrote[j]
          /\ \A i \in 0..j-1 : mem'.toc[i] = mem.toc[i]
      BY <1>4, <1>8, <2>1
    <3> QED
      BY <1>3, <3>2, <3>3, <3>4 DEF EntryOK
  <2>2. CASE j = k
    <3>1. ASSUME NEW i \in 0..k-1  PROVE mem'.toc[i].off + mem'.toc[i].size <= obj.cur
      <4>1. i \in Entries
        BY <1>10
      <4>2. mem.toc[i].off + mem.toc[i].size <= obj.cur
        BY <4>1, EntryFacts
      <4> QED
        BY <1>8, <4>2
    <3> QED
      BY <1>3, <1>8, <1>9, <2>2, <3>1, NextCurFacts DEF EntryOK
  <2> QED
    BY <1>4, <2>1, <2>2
<1>12. TocInv'
  <2>1. mem' = [hdr |-> mem'.hdr, toc |-> mem'.toc]
    BY <1>6
  <2>2. DOMAIN mem'.toc = 0..obj'.cnt-1 /\ mem'.toc = [j \in 0..obj'.cnt-1 |-> mem'.toc[j]]
    BY <1>3, <1>7
  <2>3. mem'.hdr = [entrycount |-> obj'.cnt, filesize |-> mem'.hdr.filesize,
                    hsum |-> mem'.hdr.hsum, tsum |-> mem'.hdr.tsum]
    BY <1>3, <1>7 DEF Inv, TocInv
  <2> QED
    BY <1>10, <1>11, <2>1, <2>2, <2>3 DEF TocInv
<1>13. PosInv'
  BY <1>3, DataArrived DEF PosInv
<1>14. EntriesReadBack'
  <2> SUFFICES ASSUME stray' # "yes", NEW j \in 0..k
               PROVE  EntryIs(file', mem'.toc[j], wrote'[j])
    BY <1>10 DEF EntriesReadBack
  <2>1. CASE j < k
    <3>1. j \in Entries /\ j \in 0..k-1
      BY <1>4, <1>10, <2>1
    <3> QED
      BY <1>8, <3>1, DataArrived
  <2>2. CASE j = k
    <3>1. Holds(file', obj.cur, Data(b, BufLen[b]))
      BY DataArrived
    <3> QED
      BY <1>8, <1>9, <2>2, <3>1 DEF EntryIs
  <2> QED
    BY <1>4, <2>1, <2>2
<1>15. made' # "whole" /\ (made' = "none" => made = "none")
  BY DEF Touched
<1>16. ProgInv' /\ ProgramArchiveReads'
  BY <1>3, <1>15, DataArrived DEF Inv, ProgInv, ProgramArchiveReads, Opened
<1> QED
  BY <1>5, <1>12, <1>13, <1>14, <1>16 DEF Inv

LEMMA WriteStep ==
  ASSUME Inv, NEW b \in Bufs, WriteEntry(b)
  PROVE  Inv'
<1>1. Opened /\ Touched /\ UNCHANGED client
  BY InvFacts DEF WriteEntry, Touched
<1>2. made' # "whole" /\ (made' = "none" => made = "none") /\ made' \in {"none", "part"}
  BY <1>1 DEF Touched
<1>3. CASE Full
  <2>1. UNCHANGED <<obj, mem, file, pos, wrote, slips, stray, client>>
    BY <1>1, <1>3 DEF WriteEntry
  <2>2. ObjInv' /\ TocInv' /\ PosInv' /\ EntriesReadBack'
    BY <1>2, <2>1 DEF Inv, ObjInv, TocInv, PosInv, EntriesReadBack, Opened, Entries, EntryOK
  <2>3. ProgInv' /\ ProgramArchiveReads'
    BY <1>2, <2>1 DEF Inv, ProgInv, ProgramArchiveReads, Opened
  <2> QED
    BY <2>2, <2>3 DEF Inv
<1>4. CASE ~Full
  <2>1. CASE DataWritten(b)
    BY <1>1, <1>2, <1>4, <2>1, UntoldStep, ToldStep
  <2>2. CASE \E n \in 0..BufLen[b] : DataWriteFails(b, n)
    BY <1>1, <2>2, DataFailsStep
  <2> QED
    BY <1>4, <2>1, <2>2 DEF WriteEntry
<1> QED
  BY <1>3, <1>4

-----------------------------------------------------------------------------
(***************************************************************************)
(* What a flush that gets as far as the TOC's end leaves in the file: the  *)
(* header, and each entry of the TOC at its place.                         *)
(***************************************************************************)
LEMMA FlushedBytes ==
  ASSUME Inv, NEW n \in Nat, IMG_DATA_OFF(obj.cnt) <= n, MemWritten(n)
  PROVE  /\ HasHeader(file', FlushedHdr)
         /\ \A j \in 0..obj.cnt-1 : HasEntry(file', j, mem.toc[j])
         /\ n <= file'.size
<1> DEFINE w == [o \in 0..n-1 |-> MemByte(FlushedHdr, o)]
<1>1. DOMAIN w = 0..n-1 /\ \A o \in 0..n-1 : w[o] = MemByte(FlushedHdr, o)
  OBVIOUS
<1>2. file' = Overwritten(file, 0, w)
  BY DEF MemWritten
<1> HIDE DEF w
<1>3. file.size \in Nat /\ obj.cnt \in Nat /\ HDR_SIZE \in Nat \ {0}
      /\ TOC_ENTRY_SIZE \in Nat \ {0}
      /\ IMG_DATA_OFF(obj.cnt) \in Nat /\ HDR_SIZE <= IMG_DATA_OFF(obj.cnt)
  BY InvFacts, SizeAssumption, DataOff
<1>4. Holds(file', 0, w)
  <2>1. 0 \in Nat
    OBVIOUS
  <2> QED
    BY <1>1, <1>2, <1>3, <2>1, HoldsWritten
<1>5. \A o \in 0..n-1 : o < file'.size /\ file'.bytes[o] = MemByte(FlushedHdr, o)
  BY <1>1, <1>4, HeldByte
<1>6. HasHeader(file', FlushedHdr)
  <2> SUFFICES ASSUME NEW k \in 0..HDR_SIZE-1
               PROVE  0 + k < file'.size /\ file'.bytes[0 + k] = HdrByte(FlushedHdr, k)
    BY DEF HasHeader, Holds
  <2>1. k \in 0..n-1 /\ k < HDR_SIZE
    BY <1>3
  <2> QED
    BY <1>5, <2>1 DEF MemByte
<1>7. ASSUME NEW j \in 0..obj.cnt-1  PROVE HasEntry(file', j, mem.toc[j])
  <2> SUFFICES ASSUME NEW k \in 0..TOC_ENTRY_SIZE-1
               PROVE  /\ (HDR_SIZE + j * TOC_ENTRY_SIZE) + k < file'.size
                      /\ file'.bytes[(HDR_SIZE + j * TOC_ENTRY_SIZE) + k]
                           = TocByte(mem.toc[j], k)
    BY DEF HasEntry, Holds
  <2> DEFINE p == j * TOC_ENTRY_SIZE
             o == (HDR_SIZE + p) + k
  <2>0. j \in Nat
    BY <1>3
  <2>1. p \in Nat /\ o < IMG_DATA_OFF(obj.cnt)
    BY <2>0, <1>3, TocPlace, Multiple
  <2>2. (p + k) % TOC_ENTRY_SIZE = k /\ (p + k) \div TOC_ENTRY_SIZE = j
    BY <2>0, <1>3, MultipleMod
  <2> HIDE DEF p
  <2>3. o \in 0..n-1 /\ ~(o < HDR_SIZE) /\ ~(o >= IMG_DATA_OFF(obj.cnt)) /\ o - HDR_SIZE = p + k
    BY <1>3, <2>1
  <2> HIDE DEF o
  <2>4. MemByte(FlushedHdr, o) = TocByte(mem.toc[j], k)
    BY <2>2, <2>3 DEF MemByte
  <2>5. o < file'.size /\ file'.bytes[o] = TocByte(mem.toc[j], k)
    BY <1>5, <2>3, <2>4
  <2> QED
    BY <2>5 DEF o, p
<1>8. n <= file'.size
  BY <1>1, <1>2, <1>3, OverwrittenBytes
<1> QED
  BY <1>6, <1>7, <1>8

LEMMA FlushedHdrIs ==
  ASSUME Inv
  PROVE  FlushedHdr = [entrycount |-> obj.cnt, filesize |-> obj.cur,
                       hsum |-> <<obj.cnt, mem.hdr.filesize>>, tsum |-> mem.toc]
<1>1. mem.hdr = [entrycount |-> obj.cnt, filesize |-> mem.hdr.filesize,
                 hsum |-> mem.hdr.hsum, tsum |-> mem.hdr.tsum]
  BY DEF Inv, TocInv
<1> DEFINE fs == mem.hdr.filesize
           hs == mem.hdr.hsum
           ts == mem.hdr.tsum
           sums == <<mem.hdr.entrycount, mem.hdr.filesize>>
<1>2. FlushedHdr = [mem.hdr EXCEPT !.filesize = obj.cur, !.hsum = sums, !.tsum = mem.toc]
  BY DEF FlushedHdr
<1>3. mem.hdr = [entrycount |-> obj.cnt, filesize |-> fs, hsum |-> hs, tsum |-> ts]
  BY <1>1
<1>4. sums = <<obj.cnt, mem.hdr.filesize>>
  <2>1. mem.hdr.entrycount = obj.cnt
    BY <1>1
  <2> QED
    BY <2>1
<1> HIDE DEF sums
<1>5. [[entrycount |-> obj.cnt, filesize |-> fs, hsum |-> hs, tsum |-> ts]
         EXCEPT !.filesize = obj.cur, !.hsum = sums, !.tsum = mem.toc]
        = [entrycount |-> obj.cnt, filesize |-> obj.cur, hsum |-> sums, tsum |-> mem.toc]
  <2> DEFINE h0 == [entrycount |-> obj.cnt, filesize |-> fs, hsum |-> hs, tsum |-> ts]
             h1 == [h0 EXCEPT !.filesize = obj.cur]
             h2 == [h1 EXCEPT !.hsum = sums]
             h3 == [h2 EXCEPT !.tsum = mem.toc]
  <2> HIDE DEF fs, hs, ts
  <2>1. h1 = [entrycount |-> obj.cnt, filesize |-> obj.cur, hsum |-> hs, tsum |-> ts]
    OBVIOUS
  <2> HIDE DEF h1
  <2>2. h2 = [entrycount |-> obj.cnt, filesize |-> obj.cur, hsum |-> sums, tsum |-> ts]
    BY <2>1
  <2> HIDE DEF h2
  <2>3. h3 = [entrycount |-> obj.cnt, filesize |-> obj.cur, hsum |-> sums, tsum |-> mem.toc]
    BY <2>2
  <2> QED
    BY <2>3 DEF h2, h1
<1> QED
  BY <1>2, <1>3, <1>4, <1>5

\* A flush writes part of the buffer, and is finished if it wrote it all.
Flushes(n) ==
  /\ obj.cnt > 0 /\ n \in 0..obj.room /\ MemWritten(n)
  /\ mem' = [mem EXCEPT !.hdr = FlushedHdr] /\ slips' = slips + 1
  /\ made' \in {"whole", "part"} /\ (made' = "whole" => n = obj.room)
  /\ stray' = IF stray = "yes" \/ pos' > IMG_DATA_OFF(obj.cnt) THEN "yes"
              ELSE IF pos' = obj.cur THEN "no" ELSE "lost"
  /\ UNCHANGED <<client, obj, wrote>>

LEMMA FlushIs ==
  ASSUME Inv, Flush
  PROVE  /\ Opened
         /\ \/ UNCHANGED <<client, obj, mem, file, pos, wrote, slips, stray, made>>
            \/ \E n \in Nat : Flushes(n)
<1>1. Opened /\ obj.cnt \in Nat /\ obj.room \in Nat
  BY InvFacts DEF Flush
<1>2. CASE UNCHANGED <<mem, file, pos, slips, stray, made>>
  BY <1>1, <1>2 DEF Flush
<1>3. CASE ~UNCHANGED <<mem, file, pos, slips, stray, made>>
  <2>1. /\ obj.cnt # 0 /\ mem' = [mem EXCEPT !.hdr = FlushedHdr] /\ slips' = slips + 1
        /\ stray' = IF stray = "yes" \/ pos' > IMG_DATA_OFF(obj.cnt) THEN "yes"
                    ELSE IF pos' = obj.cur THEN "no" ELSE "lost"
        /\ UNCHANGED <<client, obj, wrote>>
    BY <1>3 DEF Flush
  <2>2. \/ MemWritten(obj.room) /\ made' = "whole"
        \/ \E n \in 0..obj.room-1 : MemWritten(n) /\ made' = "part"
    BY <1>3 DEF Flush
  <2>3. CASE MemWritten(obj.room) /\ made' = "whole"
    <3>1. Flushes(obj.room)
      BY <1>1, <2>1, <2>3 DEF Flushes
    <3> QED
      BY <1>1, <3>1
  <2>4. CASE \E n \in 0..obj.room-1 : MemWritten(n) /\ made' = "part"
    <3>1. PICK n \in 0..obj.room-1 : MemWritten(n) /\ made' = "part"
      BY <2>4
    <3>2. n \in Nat /\ n \in 0..obj.room /\ obj.cnt > 0
        BY <1>1, <2>1
    <3>3. Flushes(n)
      BY <2>1, <3>1, <3>2 DEF Flushes
    <3> QED
      BY <1>1, <3>2, <3>3
  <2> QED
    BY <2>2, <2>3, <2>4
<1> QED
  BY <1>2, <1>3

(***************************************************************************)
(* bipf-rd gets the first entry of a file that was flushed whole.          *)
(***************************************************************************)
LEMMA Extracted ==
  ASSUME Inv, NEW n \in Nat, IMG_DATA_OFF(obj.cnt) <= n, MemWritten(n), obj.cnt > 0,
         obj.written = obj.cnt, EntryIs(file', mem.toc[0], wrote[0])
  PROVE  ReaderExtracts(file', wrote[0])
<1> DEFINE h == FlushedHdr
           e == mem.toc[0]
<1>1. 0 \in Entries /\ 0 \in 0..obj.cnt-1 /\ obj.cnt \in Nat
  BY InvFacts DEF Entries
<1>2. e.size \in Nat /\ e.size > 0 /\ e.off \in Nat /\ e.size = BufLen[wrote[0]]
  BY <1>1, EntryFacts
<1>3. HasHeader(file', h) /\ HasEntry(file', 0, e) /\ n <= file'.size
  BY <1>1, FlushedBytes
<1>4. HDR_SIZE \in Nat \ {0} /\ TOC_ENTRY_SIZE \in Nat \ {0}
  BY SizeAssumption
<1>5. h.entrycount > 0
  BY FlushedHdrIs
<1>6. file'.size \in Nat
  <2>1. DOMAIN [o \in 0..n-1 |-> MemByte(FlushedHdr, o)] = 0..n-1
    OBVIOUS
  <2> QED
    BY <2>1, InvFacts, OverwrittenBytes DEF MemWritten
<1> HIDE DEF h, e
<1>7. file'.bytes[0] = <<"hdr", 0, h>>
  <2>1. 0 \in 0..HDR_SIZE-1
    BY <1>4
  <2>2. file'.bytes[0 + 0] = HdrByte(h, 0)
    BY <1>3, <2>1 DEF HasHeader, Holds
  <2> QED
    BY <2>2 DEF HdrByte
<1>8. file'.bytes[HDR_SIZE] = <<"toc", 0, e>>
  <2>1. 0 \in 0..TOC_ENTRY_SIZE-1 /\ (HDR_SIZE + 0 * TOC_ENTRY_SIZE) + 0 = HDR_SIZE
    BY <1>4
  <2>2. file'.bytes[(HDR_SIZE + 0 * TOC_ENTRY_SIZE) + 0] = TocByte(e, 0)
    BY <1>3, <2>1 DEF HasEntry, Holds
  <2> QED
    BY <1>2, <2>1, <2>2 DEF TocByte
<1>9. file'.size >= IMG_DATA_OFF(1)
  <2>1. IMG_DATA_OFF(1) = HDR_SIZE + TOC_ENTRY_SIZE
    BY <1>4 DEF IMG_DATA_OFF
  <2>2. (HDR_SIZE + 0 * TOC_ENTRY_SIZE) + (TOC_ENTRY_SIZE - 1) < IMG_DATA_OFF(obj.cnt)
    <3>1. TOC_ENTRY_SIZE - 1 \in 0..TOC_ENTRY_SIZE-1
      BY <1>4
    <3> QED
      BY <1>1, <3>1, TocPlace
  <2>3. IMG_DATA_OFF(obj.cnt) \in Nat
    BY <1>1, DataOff
  <2> QED
    BY <1>3, <1>4, <1>6, <2>1, <2>2, <2>3
<1>10. EntryIs(file', e, wrote[0])
  BY DEF e
<1>11. e.off + e.size <= file'.size
  <2>1. e.size - 1 \in 0..e.size-1
    BY <1>2
  <2>2. e.size - 1 \in DOMAIN Data(wrote[0], e.size)
    BY <1>2, <2>1, DataDomain
  <2>3. e.off + (e.size - 1) < file'.size
    BY <1>10, <2>2 DEF EntryIs, Holds
  <2> QED
    BY <1>2, <1>6, <2>3
<1>12. file'.bytes[0][1] = "hdr" /\ file'.bytes[0][3] = h
       /\ file'.bytes[HDR_SIZE][1] = "toc" /\ file'.bytes[HDR_SIZE][3] = e
  BY <1>7, <1>8
<1> QED
  BY <1>3, <1>5, <1>9, <1>10, <1>11, <1>12 DEF ReaderExtracts

(***************************************************************************)
(* The flush.  The entries stay if it stops at the TOC's end or before.    *)
(***************************************************************************)
LEMMA FlushKeeps ==
  ASSUME Inv, Opened, NEW n \in Nat, Flushes(n), stray' # "yes"
  PROVE  /\ stray # "yes" /\ n <= IMG_DATA_OFF(obj.cnt)
         /\ \A j \in Entries : EntryIs(file', mem.toc[j], wrote[j])
<1> DEFINE w == [o \in 0..n-1 |-> MemByte(FlushedHdr, o)]
<1>1. DOMAIN w = 0..n-1
  OBVIOUS
<1>2. file' = Overwritten(file, 0, w) /\ pos' = n
  BY DEF Flushes, MemWritten
<1> HIDE DEF w
<1>3. stray # "yes" /\ n <= IMG_DATA_OFF(obj.cnt) /\ IMG_DATA_OFF(obj.cnt) \in Nat
  BY <1>2, InvFacts, DataOff DEF Flushes
<1>4. ASSUME NEW j \in Entries  PROVE EntryIs(file', mem.toc[j], wrote[j])
  <2>1. EntryIs(file, mem.toc[j], wrote[j])
    BY <1>3 DEF Inv, EntriesReadBack
  <2>2. 0 \in Nat /\ 0 + n <= IMG_DATA_OFF(obj.cnt)
    BY <1>3
  <2> QED
    BY <1>1, <1>2, <2>1, <2>2, EntriesKept
<1> QED
  BY <1>3, <1>4

LEMMA FlushStep ==
  ASSUME Inv, Opened, NEW n \in Nat, Flushes(n),
         client = "wr" => obj.written = obj.cnt /\ slips = 0
  PROVE  Inv'
<1>1. pos' = n /\ slips' = slips + 1 /\ UNCHANGED <<client, obj, wrote>>
      /\ mem' = [mem EXCEPT !.hdr = FlushedHdr]
  BY DEF Flushes, MemWritten
<1>2. file'.size \in Nat
  <2>1. DOMAIN [o \in 0..n-1 |-> MemByte(FlushedHdr, o)] = 0..n-1 /\ 0 \in Nat
    OBVIOUS
  <2> QED
    BY <2>1, InvFacts, OverwrittenBytes DEF Flushes, MemWritten
<1>3. mem' = [hdr |-> FlushedHdr, toc |-> mem.toc]
  BY <1>1 DEF Inv, TocInv
<1>4. mem'.hdr = FlushedHdr /\ mem'.toc = mem.toc /\ Entries' = Entries
  BY <1>1, <1>3 DEF Entries
<1>5. ObjInv'
  <2>1. stray' \in {"no", "lost", "yes"} /\ made' \in {"none", "whole", "part"}
    BY DEF Flushes
  <2> QED
    BY <1>1, <1>2, <2>1 DEF Inv, ObjInv, Opened
<1>6. TocInv'
  <2>1. ASSUME NEW j \in Entries  PROVE EntryOK(j)'
    BY <1>1, <1>4 DEF Inv, TocInv, EntryOK
  <2>2. mem'.hdr = [entrycount |-> obj.cnt, filesize |-> mem'.hdr.filesize,
                    hsum |-> mem'.hdr.hsum, tsum |-> mem'.hdr.tsum]
    <3> DEFINE sums == <<obj.cnt, mem.hdr.filesize>>
    <3>1. FlushedHdr = [entrycount |-> obj.cnt, filesize |-> obj.cur, hsum |-> sums,
                        tsum |-> mem.toc]
      BY FlushedHdrIs
    <3> HIDE DEF sums
    <3> QED
      BY <1>4, <3>1
  <2> QED
    BY <1>1, <1>3, <1>4, <2>1, <2>2 DEF Inv, TocInv
<1>7. PosInv'
  BY <1>1 DEF Flushes, PosInv
<1>8. EntriesReadBack'
  BY <1>1, <1>4, FlushKeeps DEF EntriesReadBack
<1>9. made' \in {"whole", "part"} /\ obj.cnt > 0
  BY DEF Flushes
<1>10. ProgInv'
  <2>1. slips' \in Nat /\ slips' > 0
    BY <1>1, InvFacts
  <2> QED
    BY <1>1, <1>9, <2>1 DEF Inv, ProgInv, Opened
<1>11. ProgramArchiveReads'
  <2> SUFFICES ASSUME client = "wr", made' = "whole"
               PROVE  /\ ReaderExtracts(file', wrote[0])
                      /\ \A j \in Entries : EntryIs(file', mem.toc[j], wrote[j])
    BY <1>1, <1>4, <1>9 DEF ProgramArchiveReads
  <2>1. obj.written = obj.cnt /\ stray = "no" /\ n = IMG_DATA_OFF(obj.cnt)
    BY DEF Flushes, Inv, ProgInv
  <2>2. stray' # "yes"
    BY <1>1, <2>1, InvFacts, DataOff DEF Flushes
  <2>3. \A j \in Entries : EntryIs(file', mem.toc[j], wrote[j])
    BY <2>2, FlushKeeps
  <2>4. 0 \in Entries
    BY <1>9, <2>1, InvFacts DEF Entries
  <2>5. MemWritten(n) /\ IMG_DATA_OFF(obj.cnt) <= n
    BY <2>1, InvFacts, DataOff DEF Flushes
  <2> QED
    BY <1>9, <2>1, <2>3, <2>4, <2>5, Extracted
<1> QED
  BY <1>5, <1>6, <1>7, <1>8, <1>10, <1>11 DEF Inv

LEMMA FlushAnyStep ==
  ASSUME Inv, Flush, client = "wr" => obj.written = obj.cnt /\ slips = 0
  PROVE  Inv'
<1>1. CASE UNCHANGED <<client, obj, mem, file, pos, wrote, slips, stray, made>>
  BY <1>1, ImgStutter
<1>2. CASE \E n \in Nat : Flushes(n)
  BY <1>2, FlushIs, FlushStep
<1> QED
  BY <1>1, <1>2, FlushIs

-----------------------------------------------------------------------------
LEMMA ImgStep == Inv /\ [Next]_vars => Inv'
<1> SUFFICES ASSUME Inv, Next  PROVE Inv'
  BY ImgStutter DEF vars
<1>1. CASE client = "wr" /\ WrNext
  <2>1. ASSUME NEW cnt \in EntryCounts, OpenWr(cnt)  PROVE Inv'
    BY <2>1, OpenWrStep
  <2>2. ASSUME NEW b \in Bufs, WriteEntry(b)  PROVE Inv'
    BY <2>2, WriteStep
  <2>3. CASE ret = "ok" /\ obj.written = obj.cnt /\ slips = 0 /\ Flush
    BY <2>3, FlushAnyStep
  <2>4. CASE Close
    BY <2>4, CloseStep
  <2> QED
    BY <1>1, <2>1, <2>2, <2>3, <2>4 DEF WrNext
<1>2. CASE client = "any" /\ AnyNext
  <2>1. ASSUME NEW cnt \in EntryCounts, NEW extra \in {-1, 0, ALIGN_SIZE},
               Open(cnt, IMG_DATA_OFF(cnt) + extra)
        PROVE  Inv'
    <3>1. IMG_DATA_OFF(cnt) + extra \in Int
      BY WriterAssumption, SizeAssumption, DataOff
    <3> QED
      BY <1>2, <2>1, <3>1, OpenStep
  <2>2. ASSUME NEW b \in Bufs, WriteEntry(b)  PROVE Inv'
    BY <2>2, WriteStep
  <2>3. CASE Flush
    BY <1>2, <2>3, FlushAnyStep
  <2>4. CASE Close
    BY <2>4, CloseStep
  <2> QED
    BY <1>2, <2>1, <2>2, <2>3, <2>4 DEF AnyNext
<1> QED
  BY <1>1, <1>2 DEF Next

LEMMA ImgInvariant == Spec => []Inv
BY ImgInit, ImgStep, PTL DEF Spec

(***************************************************************************)
(* For all entries, sizes and alignments: the entries of an archive lie    *)
(* apart, aligned, behind the TOC and before the cursor.                   *)
(***************************************************************************)
THEOREM ArchiveEntriesApart == Spec => []EntriesApart
<1>1. Inv => EntriesApart
  <2> SUFFICES ASSUME Inv  PROVE EntriesApart
    OBVIOUS
  <2>1. obj.written <= obj.cnt /\ DOMAIN mem.toc = 0..obj.cnt-1
    BY InvFacts DEF Inv, TocInv
  <2>2. \A j \in Entries : EntryOK(j)
    BY DEF Inv, TocInv
  <2> QED
    BY <2>1, <2>2 DEF EntriesApart, EntryOK
<1> QED
  BY <1>1, ImgInvariant, PTL

(***************************************************************************)
(* Every entry reads back, unless something was written with the           *)
(* descriptor off the cursor or from too large a buffer.                   *)
(***************************************************************************)
THEOREM ArchiveReadsBack == Spec => []EntriesReadBack
<1>1. Inv => EntriesReadBack
  BY DEF Inv
<1> QED
  BY <1>1, ImgInvariant, PTL

(***************************************************************************)
(* bipf-rd refuses what was never flushed, and extracts the first entry of *)
(* what bipf-wr has finished.                                              *)
(***************************************************************************)
THEOREM ProgramsAgree == Spec => []ProgramArchiveReads
<1>1. Inv => ProgramArchiveReads
  BY DEF Inv
<1> QED
  BY <1>1, ImgInvariant, PTL

\* SumsOfFlush, of one step.
FlushSumsStep ==
  (made' = "whole" /\ file' # file) =>
    TocVerifies(file') /\ (HdrVerifies(file') <=> mem.hdr.filesize = obj.cur)

LEMMA SumsWritten ==
  ASSUME Inv, NEW n \in Nat, Flushes(n), made' = "whole", Opened
  PROVE  TocVerifies(file') /\ (HdrVerifies(file') <=> mem.hdr.filesize = obj.cur)
<1>1. MemWritten(n) /\ IMG_DATA_OFF(obj.cnt) <= n
  BY DEF Flushes, Inv, ObjInv
<1>2. HasHeader(file', FlushedHdr) /\ \A j \in 0..obj.cnt-1 : HasEntry(file', j, mem.toc[j])
  BY <1>1, FlushedBytes
<1>3. FileHdr(file') = FlushedHdr
  <2>1. 0 \in 0..HDR_SIZE-1
    BY SizeAssumption
  <2> DEFINE hh == FlushedHdr
  <2>2. Holds(file', 0, [k \in 0..HDR_SIZE-1 |-> HdrByte(hh, k)])
    BY <1>2 DEF HasHeader
  <2> HIDE DEF hh
  <2>3. file'.bytes[0 + 0] = HdrByte(hh, 0)
    BY <2>1, <2>2 DEF Holds
  <2>4. file'.bytes[0] = <<"hdr", 0, hh>>
    BY <2>3 DEF HdrByte
  <2>5. file'.bytes[0][3] = hh
    BY <2>4
  <2> QED
    BY <2>5 DEF FileHdr, hh
<1>4. DOMAIN mem.toc = 0..obj.cnt-1
  BY DEF Inv, TocInv
<1> DEFINE sums == <<obj.cnt, mem.hdr.filesize>>
           toc == mem.toc
           cur == obj.cur
           cnt == obj.cnt
<1>5. FlushedHdr = [entrycount |-> cnt, filesize |-> cur, hsum |-> sums, tsum |-> toc]
  BY FlushedHdrIs
<1>6. FlushedHdr.entrycount = cnt /\ FlushedHdr.filesize = cur /\ FlushedHdr.hsum = sums
      /\ FlushedHdr.tsum = toc
  <2> HIDE DEF sums, toc, cur, cnt
  <2> QED
    BY <1>5
<1>7. TocVerifies(file')
  BY <1>2, <1>3, <1>4, <1>6 DEF TocVerifies
<1>8. HdrVerifies(file') <=> mem.hdr.filesize = obj.cur
  <2>1. HdrVerifies(file') <=> sums = <<cnt, cur>>
    BY <1>3, <1>6 DEF HdrVerifies
  <2> QED
    BY <2>1
<1> QED
  BY <1>7, <1>8

LEMMA OnlyFlushMakesWhole ==
  ASSUME Inv, [Next]_vars, made' = "whole", file' # file
  PROVE  Flush
<1>1. Next
  BY DEF vars
<1>2. ASSUME NEW b \in Bufs, WriteEntry(b)  PROVE FALSE
  BY <1>2 DEF WriteEntry
<1>3. ~Close
  BY DEF Close
<1>4. ASSUME NEW c \in Nat, OpenWr(c)  PROVE FALSE
  BY <1>4 DEF OpenWr
<1>5. ASSUME NEW c \in Nat, NEW r, Open(c, r)  PROVE FALSE
  BY <1>5 DEF Open
<1> QED
  BY <1>1, <1>2, <1>3, <1>4, <1>5, WriterAssumption DEF Next, WrNext, AnyNext

(***************************************************************************)
(* After a flush that finished, the TOC in the file verifies; the header   *)
(* does so only if the file size was the same at the flush before.         *)
(***************************************************************************)
THEOREM FlushesVerify == Spec => SumsOfFlush
<1>1. Inv /\ [Next]_vars => [FlushSumsStep]_vars
  <2> SUFFICES ASSUME Inv, [Next]_vars, made' = "whole", file' # file
               PROVE  TocVerifies(file') /\ (HdrVerifies(file') <=> mem.hdr.filesize = obj.cur)
    BY DEF FlushSumsStep
  <2>1. Flush
    BY OnlyFlushMakesWhole
  <2> QED
    BY <2>1, FlushIs, SumsWritten
<1>2. Spec => [][FlushSumsStep]_vars
  BY <1>1, ImgInvariant, PTL DEF Spec
<1> QED
  BY <1>2 DEF SumsOfFlush, FlushSumsStep
=============================================================================

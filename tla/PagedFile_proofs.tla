-------------------------- MODULE PagedFile_proofs --------------------------
(***************************************************************************)
(* Which accesses leave the mapping, for every size of a page and of its   *)
(* structures, every width of the offsets, and every mapping.              *)
(***************************************************************************)
EXTENDS PagedFileProps, FiniteSetTheorems, TLAPS

-----------------------------------------------------------------------------
(***************************************************************************)
(* The object's numbers, whatever its caller told it.                      *)
(***************************************************************************)
ObjectInv ==
  obj \in [mapped : BOOLEAN, size : Nat, cnt : Nat, idx : Nat, cur : 0..OffMod-1]

LEMMA PageConstants ==
  /\ PAGE_SIZE \in Nat \ {0} /\ OffMod \in Nat \ {0} /\ FHDR_SIZE \in Nat
  /\ CUR_AT \in Nat /\ page_count \in Nat
  /\ FHDR_SIZE \in 0..OffMod-1 /\ CUR_AT < PAGE_SIZE
<1>1. /\ {PAGE_SIZE, FHDR_SIZE, PHDR_SIZE, FTR_SIZE, CUR_AT, OffMod, page_count} \subseteq Nat \ {0}
      /\ CUR_AT + 1 < PHDR_SIZE /\ PHDR_SIZE <= FHDR_SIZE
      /\ FHDR_SIZE + FTR_SIZE <= PAGE_SIZE /\ PAGE_SIZE < OffMod
  BY PageAssumption
<1> QED BY <1>1

LEMMA BaseType == ASSUME NEW p \in Nat PROVE Base(p) \in Nat
BY PageConstants DEF Base

(***************************************************************************)
(* If the mapping ends with a page, a page whose first byte is in it is.   *)
(***************************************************************************)
LEMMA WholePageInside ==
  ASSUME NEW size \in Nat, size % PAGE_SIZE = 0, NEW p \in Nat, Base(p) < size
  PROVE  Base(p) + PAGE_SIZE <= size
<1> DEFINE S == PAGE_SIZE
           k == size \div S
<1>1. S \in Nat \ {0}
  BY PageConstants
<1> HIDE DEF S
<1>2. k \in Nat /\ size = k * S
  <2>1. size % S = 0
    BY DEF S
  <2> QED BY <1>1, <2>1
<1> HIDE DEF k
<1>3. p * S < k * S
  BY <1>2 DEF Base, S
<1>4. p + 1 <= k
  <2> SUFFICES ASSUME k <= p PROVE FALSE
    BY <1>2
  <2>1. k * S <= p * S
    BY <1>1, <1>2
  <2> QED BY <1>1, <1>2, <1>3, <2>1
<1>5. (p + 1) * S <= k * S
  BY <1>1, <1>2, <1>4
<1> QED BY <1>1, <1>2, <1>5 DEF Base, S

(***************************************************************************)
(* An access the checks let through stays inside such a mapping, unless    *)
(* its length reaches up to the width of an offset.                        *)
(***************************************************************************)
LEMMA AcceptedInside ==
  ASSUME ObjectInv, obj.size % PAGE_SIZE = 0,
         NEW p \in Nat, NEW c \in 0..OffMod-1, NEW n \in Nat,
         n + PAGE_SIZE <= OffMod, Accepts(p, c, n)
  PROVE  Inside(Base(p) + c, n) /\ Base(p) + CUR_AT < obj.size
<1>1. Base(p) + PAGE_SIZE <= obj.size /\ Base(p) \in Nat /\ obj.size \in Nat
  BY WholePageInside, BaseType DEF Accepts, ValidPage, ObjectInv
<1>2. c < PAGE_SIZE
  <2>1. c % OffMod = c
    BY PageConstants
  <2> QED BY <2>1 DEF Accepts, ValidCur
<1>3. c + n < PAGE_SIZE
  <2>1. c + n \in 0..OffMod-1
    BY <1>2, PageConstants
  <2>2. (c + n) % OffMod = c + n
    BY <2>1, PageConstants
  <2> QED BY <2>2 DEF Accepts, ValidCur
<1> QED BY <1>1, <1>3, PageConstants DEF Inside

-----------------------------------------------------------------------------
LEMMA ObjectInvInit == Init => ObjectInv
<1>1. 0 \in 0..OffMod-1
  BY PageConstants
<1> QED BY <1>1 DEF Init, ObjectInv, NoObject

LEMMA NewObjectInv ==
  ASSUME \/ obj' = NoObject
         \/ \E size \in Nat, cnt \in Nat : obj' = Object(size, cnt)
         \/ UNCHANGED obj /\ ObjectInv
  PROVE  ObjectInv'
<1>1. 0 \in 0..OffMod-1 /\ FHDR_SIZE \in 0..OffMod-1
  BY PageConstants
<1>2. CASE obj' = NoObject
  BY <1>1, <1>2 DEF ObjectInv, NoObject
<1>3. ASSUME NEW size \in Nat, NEW cnt \in Nat, obj' = Object(size, cnt)
      PROVE  ObjectInv'
  BY <1>1, <1>3 DEF ObjectInv, Object
<1>4. CASE UNCHANGED obj /\ ObjectInv
  BY <1>4 DEF ObjectInv
<1> QED BY <1>2, <1>3, <1>4

LEMMA MovedObjectInv ==
  ASSUME ObjectInv, NEW p \in Nat, NEW c \in 0..OffMod-1,
         obj' = [obj EXCEPT !.idx = p, !.cur = c]
  PROVE  ObjectInv'
BY DEF ObjectInv

LEMMA AdvanceInv ==
  ASSUME ObjectInv, NEW n \in Nat, Advance(n)
  PROVE  ObjectInv'
<1> DEFINE c == (obj.cur + n) % OffMod
<1>1. c \in 0..OffMod-1
  BY PageConstants DEF ObjectInv
<1>2. obj' = [obj EXCEPT !.cur = c]
  BY DEF Advance
<1> HIDE DEF c
<1> QED BY <1>1, <1>2 DEF ObjectInv

LEMMA AccessInv ==
  ASSUME ObjectInv, NEW n \in Nat, AccessOf(n)
  PROVE  ObjectInv'
<1>1. CASE PageRead(n)
  BY <1>1, AdvanceInv, NewObjectInv DEF PageRead, Fails, Strays
<1>2. CASE PageWrite(n)
  BY <1>2, AdvanceInv, NewObjectInv DEF PageWrite, Fails, Strays
<1>3. CASE Fails
  BY <1>3, NewObjectInv DEF Fails
<1>4. ASSUME NEW p \in 0..page_count, NEW c \in Curs, RawRead(p, c, n) \/ RawWrite(p, c, n)
      PROVE  ObjectInv'
  BY <1>4, NewObjectInv DEF RawRead, RawWrite, Fails, Strays
<1> QED BY <1>1, <1>2, <1>3, <1>4 DEF AccessOf

LEMMA ObjectInvStep == ObjectInv /\ [Next]_vars => ObjectInv'
<1> SUFFICES ASSUME ObjectInv, [Next]_vars PROVE ObjectInv'
  OBVIOUS
<1>1. ASSUME NEW args \in MapArgs, Map(args[1], args[2]) PROVE ObjectInv'
  <2>1. args[1] \in Nat /\ args[2] \in Nat
    BY PageAssumption
  <2> QED BY <1>1, <2>1, NewObjectInv DEF Map
<1>2. CASE Unmap
  BY <1>2, NewObjectInv DEF Unmap
<1>3. ASSUME NEW p \in 0..page_count, Goto(p) PROVE ObjectInv'
  <2>1. CASE ~(obj.mapped /\ ValidPage(p))
    BY <1>3, <2>1, NewObjectInv DEF Goto, Fails
  <2>2. CASE obj.mapped /\ ValidPage(p)
    <3>1. p \in Nat /\ CursorOn(p) \in 0..OffMod-1
      BY PageConstants DEF CursorOn, ObjectInv
    <3>2. obj' = [obj EXCEPT !.idx = p, !.cur = CursorOn(p)]
      BY <1>3, <2>2 DEF Goto
    <3> QED BY <3>1, <3>2, MovedObjectInv
  <2> QED BY <2>1, <2>2
<1>4. ASSUME NEW n \in Lens, AccessOf(n) PROVE ObjectInv'
  BY <1>4, AccessInv, PageAssumption
<1>5. CASE Format
  <2>1. Base(page_count) \in Nat /\ page_count \in Nat
    BY BaseType, PageConstants
  <2> QED BY <1>5, <2>1, NewObjectInv DEF Format
<1>6. CASE FormatStep
  BY <1>6, NewObjectInv
     DEF FormatStep, FillPageHeader, FillPageFooter, FillFileHeader, SumFileHeader, Stores
<1>7. CASE Kill
  BY <1>7, NewObjectInv DEF Kill
<1>8. CASE UNCHANGED vars
  BY <1>8, NewObjectInv DEF vars
<1> QED BY <1>1, <1>2, <1>3, <1>4, <1>5, <1>6, <1>7, <1>8 DEF Next

-----------------------------------------------------------------------------
(***************************************************************************)
(* An access of n cells that leaves the mapping.                           *)
(***************************************************************************)
StraysRightly(n) ==
  obj.mapped /\ ret' = "stray" /\ AccessOf(n) =>
    obj.size % PAGE_SIZE # 0 \/ n + PAGE_SIZE > OffMod

LEMMA StrayStep ==
  ASSUME ObjectInv, NEW n \in Lens
  PROVE  StraysRightly(n)
<1> SUFFICES ASSUME obj.size % PAGE_SIZE = 0, n + PAGE_SIZE <= OffMod,
                    ret' = "stray", AccessOf(n)
             PROVE  FALSE
  <2>1. n \in Nat
    BY PageAssumption
  <2> QED BY <2>1, PageConstants DEF StraysRightly
<1>1. n \in Nat /\ obj.idx \in Nat /\ obj.cur \in 0..OffMod-1
  BY PageAssumption DEF ObjectInv
<1>2. ~Fails
  BY DEF Fails
<1>3. ~Succeeds
  BY DEF Succeeds
<1>4. CASE PageRead(n) \/ PageWrite(n)
  <2>1. Accepts(obj.idx, obj.cur, n)
    BY <1>2, <1>4 DEF PageRead, PageWrite
  <2>2. PageInside(n)
    BY <1>1, <2>1, AcceptedInside DEF PageInside
  <2>3. ~Advance(n)
    BY <1>3 DEF Advance
  <2> QED BY <1>4, <2>1, <2>2, <2>3 DEF PageRead, PageWrite
<1>5. ASSUME NEW p \in 0..page_count, NEW c \in Curs, RawRead(p, c, n) \/ RawWrite(p, c, n)
      PROVE  FALSE
  <2>1. Accepts(p, c, n)
    BY <1>2, <1>5 DEF RawRead, RawWrite
  <2>2. p \in Nat /\ c \in 0..OffMod-1
    BY PageConstants, PageAssumption
  <2>3. Inside(Base(p) + c, n)
    BY <1>1, <2>1, <2>2, AcceptedInside
  <2> QED BY <1>3, <1>5, <2>1, <2>3 DEF RawRead, RawWrite
<1> QED BY <1>2, <1>4, <1>5 DEF AccessOf

(***************************************************************************)
(* No access leaves a mapping that ends with a page, unless its length is  *)
(* within a page of 2^32 (page.c 36-44, 126, 152).                         *)
(***************************************************************************)
THEOREM StraysFromPartialOrHuge == Spec => StraysOnlyPartialOrHuge
<1>1. ObjectInv /\ [Next]_vars => [\A n \in Lens : StraysRightly(n)]_vars
  BY StrayStep
<1>2. (\A n \in Lens : StraysRightly(n)) <=>
      \A n \in Lens : obj.mapped /\ ret' = "stray" /\ AccessOf(n) =>
         obj.size % PAGE_SIZE # 0 \/ n + PAGE_SIZE > OffMod
  BY DEF StraysRightly
<1> QED BY ObjectInvInit, ObjectInvStep, <1>1, <1>2, PTL DEF Spec, StraysOnlyPartialOrHuge
-----------------------------------------------------------------------------
(***************************************************************************)
(* The file and what is written in it.  An offset wraps only in a file of  *)
(* 2^32 bytes or more, and for a length of that order: then a read or a    *)
(* write at the cursor may run over the pages behind it, or bring the      *)
(* cursor back.                                                            *)
(***************************************************************************)
NoWrap == Base(page_count) < OffMod \/ \A n \in Lens : n + PAGE_SIZE <= OffMod

FullFile == DOMAIN file = 0..Base(page_count)-1

MappingInv ==
  /\ ObjectInv
  /\ DOMAIN file = {} \/ FullFile
  /\ obj.mapped => /\ FullFile /\ obj.size <= Base(page_count)
                   /\ obj.idx \in Pages /\ obj.cur \in FHDR_SIZE..PAGE_SIZE-1
  /\ step \in {"idle", "header", "footer", "fileheader", "filesum"}
  /\ step # "idle" => obj.mapped /\ page \in Pages
  /\ step \in {"fileheader", "filesum"} => page = 0
  /\ moved \in [Pages -> Nat] /\ raw \subseteq Int

(***************************************************************************)
(* What was written at the cursor lies below the cursor in its page, on    *)
(* whatever page it was written: the one cursor only goes up until page 0  *)
(* is entered.                                                             *)
(***************************************************************************)
PutInv ==
  /\ ~obj.mapped \/ step # "idle" => DOMAIN put = {}
  /\ \A a \in DOMAIN put :
       /\ \E p \in Pages, c \in FHDR_SIZE..obj.cur-1 : a = Base(p) + c
       /\ file[a] = Byte(put[a])

(***************************************************************************)
(* The structures of page p, cell by cell, after m cells were read or      *)
(* written through its cursor.                                             *)
(***************************************************************************)
HeaderCells(p, m) ==
  \A c \in 0..PHDR_SIZE-2 :
    file[Base(p) + c] = IF c = CUR_AT THEN Num(PHDR_SIZE + m) ELSE Field("phdr", c, p)

FileHeaderCells(m) ==
  \A c \in 0..FHDR_SIZE-2 :
    file[c] = IF c = CUR_AT THEN Num(page_count * HalfMod + m) ELSE Field("fhdr", c, 0)

HeaderSum(p) == file[Base(p) + PHDR_SIZE - 1] = Sum(Cells(file, Base(p), PHDR_SIZE - 1))
FooterSum(p) ==
  /\ file[FooterSumAt(p)] = Sum(Cells(file, Base(p), PAGE_SIZE - FTR_SIZE))
  /\ file[FooterSumAt(p) + 1] = FooterMagic

\* Page 0's footer is summed over the page header that was there.
StaleFooter ==
  file[FooterSumAt(0)][1] = "crc" /\ file[FooterSumAt(0)][3][0] = Field("phdr", 0, 0)

\* Page p was formatted and not touched since.
Fresh(p) ==
  /\ moved[p] = 0 /\ p \notin PagesOf(raw)
  /\ IF p = 0 THEN StaleFooter ELSE HeaderCells(p, 0) /\ HeaderSum(p) /\ FooterSum(p)

\* Page p was formatted, and touched through the cursor only, if at all.
Kept(p) ==
  p \notin PagesOf(raw) =>
    IF p = 0 THEN FileHeaderCells(moved[0]) /\ (moved[0] = 0 => StaleFooter)
    ELSE HeaderCells(p, moved[p]) /\ (moved[p] = 0 => HeaderSum(p) /\ FooterSum(p))

(***************************************************************************)
(* A file header begins the file only when all pages were formatted after  *)
(* it was written, if not before: formatting begins with page 0, whose     *)
(* page header takes its place, and ends with it.                          *)
(***************************************************************************)
InUse == FullFile /\ file[0] = Field("fhdr", 0, 0)

FormatInv ==
  /\ InUse => step \in {"idle", "filesum"} \/ (step = "header" /\ page = 0)
  /\ InUse => \A p \in Pages : Kept(p)
  /\ step \in {"header", "footer"} => \A p \in 0..page-1 : Fresh(p)
  /\ step = "footer" => HeaderCells(page, 0) /\ HeaderSum(page)
  /\ step \in {"fileheader", "filesum"} => \A p \in Pages : Fresh(p)
  /\ step = "filesum" => FileHeaderCells(0)

-----------------------------------------------------------------------------
(***************************************************************************)
(* Pages and places.                                                       *)
(***************************************************************************)
LEMMA Sizes ==
  /\ PAGE_SIZE \in Nat \ {0} /\ FHDR_SIZE \in Nat \ {0} /\ PHDR_SIZE \in Nat \ {0}
  /\ FTR_SIZE \in Nat \ {0} /\ CUR_AT \in Nat \ {0} /\ HalfMod \in Nat \ {0}
  /\ OffMod \in Nat \ {0} /\ page_count \in Nat \ {0}
  /\ CUR_AT + 1 < PHDR_SIZE /\ PHDR_SIZE <= FHDR_SIZE /\ 2 <= FTR_SIZE
  /\ FHDR_SIZE + FTR_SIZE <= PAGE_SIZE /\ PAGE_SIZE < OffMod
BY PageAssumption

LEMMA BaseNext ==
  ASSUME NEW p \in Nat
  PROVE  Base(p) \in Nat /\ Base(p + 1) = Base(p) + PAGE_SIZE /\ Base(0) = 0
BY Sizes DEF Base

LEMMA BaseApart ==
  ASSUME NEW p \in Nat, NEW q \in Nat, p < q
  PROVE  Base(p) + PAGE_SIZE <= Base(q)
<1> DEFINE S == PAGE_SIZE
<1>1. S \in Nat
  BY Sizes
<1> HIDE DEF S
<1>2. (p + 1) * S <= q * S
  BY <1>1
<1>3. (p + 1) * S = p * S + S
  BY <1>1
<1> QED BY <1>2, <1>3 DEF Base, S

LEMMA PageBelow ==
  ASSUME NEW p \in Pages
  PROVE  p \in Nat /\ Base(p) \in Nat /\ Base(page_count) \in Nat
         /\ Base(p) + PAGE_SIZE <= Base(page_count)
<1>1. p \in Nat /\ page_count \in Nat /\ p < page_count
  BY Sizes DEF Pages
<1> QED BY <1>1, BaseApart, BaseNext

LEMMA OnePage ==
  ASSUME NEW p \in Nat, NEW q \in Nat, NEW c \in 0..PAGE_SIZE-1, NEW d \in 0..PAGE_SIZE-1,
         Base(p) + c = Base(q) + d
  PROVE  p = q /\ c = d
<1>1. Base(p) \in Nat /\ Base(q) \in Nat /\ PAGE_SIZE \in Nat
  BY BaseNext, Sizes
<1>2. ~(p < q)
  BY <1>1, BaseApart
<1>3. ~(q < p)
  BY <1>1, BaseApart
<1>4. p = q
  BY <1>2, <1>3
<1> QED BY <1>1, <1>4

LEMMA InPagesOf ==
  ASSUME NEW p \in Pages, NEW w, w \subseteq Int
  PROVE  p \in PagesOf(w) <=> \E c \in 0..PAGE_SIZE-1 : Base(p) + c \in w
<1>1. Base(p) \in Nat /\ Base(p + 1) = Base(p) + PAGE_SIZE /\ PAGE_SIZE \in Nat
  BY BaseNext, Sizes, PageBelow
<1>2. ASSUME p \in PagesOf(w) PROVE \E c \in 0..PAGE_SIZE-1 : Base(p) + c \in w
  <2>1. PICK a \in w : Base(p) <= a /\ a < Base(p + 1)
    BY <1>2 DEF PagesOf
  <2>2. a - Base(p) \in 0..PAGE_SIZE-1 /\ Base(p) + (a - Base(p)) = a
    BY <1>1, <2>1
  <2> QED BY <2>1, <2>2
<1>3. ASSUME NEW c \in 0..PAGE_SIZE-1, Base(p) + c \in w PROVE p \in PagesOf(w)
  BY <1>1, <1>3 DEF PagesOf
<1> QED BY <1>2, <1>3

-----------------------------------------------------------------------------
(***************************************************************************)
(* What a step that writes in one page leaves alone.                       *)
(***************************************************************************)
Touches(Q, S) ==
  /\ FullFile /\ DOMAIN file' = DOMAIN file
  /\ \A p \in Pages, c \in 0..PAGE_SIZE-1 :
       p \notin Q \/ c \notin S => file'[Base(p) + c] = file[Base(p) + c]

LEMMA FullFileKept == ASSUME NEW Q, NEW S, Touches(Q, S) PROVE FullFile'
BY DEF Touches, FullFile

LEMMA CellsKept ==
  ASSUME NEW Q, NEW S, Touches(Q, S), NEW p \in Pages, NEW n \in 0..PAGE_SIZE,
         p \notin Q \/ S \cap 0..n-1 = {}
  PROVE  Cells(file', Base(p), n) = Cells(file, Base(p), n)
<1>1. \A c \in 0..n-1 : c \in 0..PAGE_SIZE-1 /\ (p \notin Q \/ c \notin S)
  BY Sizes
<1>2. \A c \in 0..n-1 : file'[Base(p) + c] = file[Base(p) + c]
  BY <1>1 DEF Touches
<1> QED BY <1>2 DEF Cells

LEMMA HeaderKept ==
  ASSUME NEW Q, NEW S, Touches(Q, S), NEW p \in Pages, NEW m,
         p \notin Q \/ S \cap 0..PHDR_SIZE-2 = {}, HeaderCells(p, m)
  PROVE  \A c \in 0..PHDR_SIZE-2 :
           file'[Base(p) + c] = IF c = CUR_AT THEN Num(PHDR_SIZE + m) ELSE Field("phdr", c, p)
<1>1. \A c \in 0..PHDR_SIZE-2 : c \in 0..PAGE_SIZE-1 /\ (p \notin Q \/ c \notin S)
  BY Sizes
<1> QED BY <1>1 DEF Touches, HeaderCells

LEMMA FileHeaderKept ==
  ASSUME NEW Q, NEW S, Touches(Q, S), NEW m,
         0 \notin Q \/ S \cap 0..FHDR_SIZE-2 = {}, FileHeaderCells(m)
  PROVE  \A c \in 0..FHDR_SIZE-2 :
           file'[c] = IF c = CUR_AT THEN Num(page_count * HalfMod + m) ELSE Field("fhdr", c, 0)
<1>1. \A c \in 0..FHDR_SIZE-2 :
        c \in 0..PAGE_SIZE-1 /\ (0 \notin Q \/ c \notin S) /\ Base(0) + c = c
  BY Sizes, BaseNext
<1>2. 0 \in Pages
  BY Sizes DEF Pages
<1>3. \A c \in 0..FHDR_SIZE-2 : file'[c] = file[c]
  BY <1>1, <1>2 DEF Touches
<1> QED BY <1>3 DEF FileHeaderCells

LEMMA HeaderSumKept ==
  ASSUME NEW Q, NEW S, Touches(Q, S), NEW p \in Pages,
         p \notin Q \/ S \cap 0..PHDR_SIZE-1 = {}, HeaderSum(p)
  PROVE  HeaderSum(p)'
<1>1. PHDR_SIZE - 1 \in 0..PAGE_SIZE-1 /\ PHDR_SIZE - 1 \in 0..PAGE_SIZE
  BY Sizes
<1>2. Base(p) + PHDR_SIZE - 1 = Base(p) + (PHDR_SIZE - 1)
  BY Sizes, PageBelow
<1>3. p \notin Q \/ (S \cap 0..PHDR_SIZE-1-1 = {} /\ PHDR_SIZE - 1 \notin S)
  BY Sizes
<1>4. file'[Base(p) + PHDR_SIZE - 1] = file[Base(p) + PHDR_SIZE - 1]
  BY <1>1, <1>2, <1>3 DEF Touches
<1>5. Cells(file', Base(p), PHDR_SIZE - 1) = Cells(file, Base(p), PHDR_SIZE - 1)
  BY <1>1, <1>3, CellsKept
<1> QED BY <1>4, <1>5 DEF HeaderSum

LEMMA FooterPlace ==
  ASSUME NEW p \in Pages
  PROVE  /\ PAGE_SIZE - FTR_SIZE \in 0..PAGE_SIZE-1 /\ PAGE_SIZE - FTR_SIZE + 1 \in 0..PAGE_SIZE-1
         /\ FooterSumAt(p) = Base(p) + (PAGE_SIZE - FTR_SIZE)
         /\ FooterSumAt(p) + 1 = Base(p) + (PAGE_SIZE - FTR_SIZE + 1)
         /\ FooterSumAt(p) \in 0..Base(page_count)-1
         /\ FooterSumAt(p) + 1 \in 0..Base(page_count)-1
BY Sizes, PageBelow, BaseNext DEF FooterSumAt

LEMMA FooterSumKept ==
  ASSUME NEW Q, NEW S, Touches(Q, S), NEW p \in Pages,
         p \notin Q \/ S = {}, FooterSum(p)
  PROVE  FooterSum(p)'
<1>1. /\ file'[FooterSumAt(p)] = file[FooterSumAt(p)]
      /\ file'[FooterSumAt(p) + 1] = file[FooterSumAt(p) + 1]
  BY FooterPlace DEF Touches
<1>2. Cells(file', Base(p), PAGE_SIZE - FTR_SIZE) = Cells(file, Base(p), PAGE_SIZE - FTR_SIZE)
  <2>1. PAGE_SIZE - FTR_SIZE \in 0..PAGE_SIZE
    BY Sizes
  <2>2. p \notin Q \/ S \cap 0..PAGE_SIZE-FTR_SIZE-1 = {}
    OBVIOUS
  <2> QED BY <2>1, <2>2, CellsKept
<1> QED BY <1>1, <1>2 DEF FooterSum

LEMMA StaleFooterKept ==
  ASSUME NEW Q, NEW S, Touches(Q, S), StaleFooter,
         0 \notin Q \/ PAGE_SIZE - FTR_SIZE \notin S
  PROVE  StaleFooter'
<1>1. 0 \in Pages
  BY Sizes DEF Pages
<1>2. file'[FooterSumAt(0)] = file[FooterSumAt(0)]
  BY <1>1, FooterPlace DEF Touches
<1> QED BY <1>2 DEF StaleFooter

(***************************************************************************)
(* The other pages stay as they were.                                      *)
(***************************************************************************)
LEMMA OtherPageKept ==
  ASSUME NEW Q, NEW S, Touches(Q, S), NEW p \in Pages, p \notin Q, moved'[p] = moved[p],
         p \notin PagesOf(raw') => p \notin PagesOf(raw), Kept(p)
  PROVE  Kept(p)'
<1> SUFFICES ASSUME p \notin PagesOf(raw')
             PROVE  (IF p = 0 THEN FileHeaderCells(moved[0]) /\ (moved[0] = 0 => StaleFooter)
                     ELSE HeaderCells(p, moved[p]) /\ (moved[p] = 0 => HeaderSum(p) /\ FooterSum(p)))'
  BY DEF Kept, PagesOf
<1>1. CASE p = 0
  <2>1. FileHeaderCells(moved[0]) /\ (moved[0] = 0 => StaleFooter)
    BY <1>1 DEF Kept
  <2>2. FileHeaderCells(moved[0])'
    BY <1>1, <2>1, FileHeaderKept DEF FileHeaderCells
  <2>3. moved'[0] = 0 => StaleFooter'
    BY <1>1, <2>1, StaleFooterKept
  <2> QED BY <1>1, <2>2, <2>3
<1>2. CASE p # 0
  <2>1. HeaderCells(p, moved[p]) /\ (moved[p] = 0 => HeaderSum(p) /\ FooterSum(p))
    BY <1>2 DEF Kept
  <2>2. HeaderCells(p, moved[p])'
    BY <2>1, HeaderKept DEF HeaderCells
  <2>3. moved'[p] = 0 => HeaderSum(p)' /\ FooterSum(p)'
    BY <2>1, HeaderSumKept, FooterSumKept
  <2> QED BY <1>2, <2>2, <2>3
<1> QED BY <1>1, <1>2

LEMMA OtherPageFresh ==
  ASSUME NEW Q, NEW S, Touches(Q, S), NEW p \in Pages, p \notin Q, moved'[p] = moved[p],
         p \notin PagesOf(raw) => p \notin PagesOf(raw'), Fresh(p)
  PROVE  Fresh(p)'
<1>1. moved'[p] = 0 /\ p \notin PagesOf(raw')
  BY DEF Fresh
<1>2. CASE p = 0
  BY <1>1, <1>2, StaleFooterKept DEF Fresh, PagesOf
<1>3. CASE p # 0
  <2>1. HeaderCells(p, 0) /\ HeaderSum(p) /\ FooterSum(p)
    BY <1>3 DEF Fresh
  <2>2. HeaderCells(p, 0)'
    BY <2>1, HeaderKept DEF HeaderCells
  <2>3. HeaderSum(p)' /\ FooterSum(p)'
    BY <2>1, HeaderSumKept, FooterSumKept
  <2> QED BY <1>1, <1>3, <2>2, <2>3 DEF Fresh, PagesOf
<1> QED BY <1>2, <1>3

-----------------------------------------------------------------------------
(***************************************************************************)
(* Where accesses go.                                                      *)
(***************************************************************************)
LEMMA AccessInPage ==
  ASSUME MappingInv, NoWrap, NEW n \in Lens, NEW p \in Nat, NEW c \in 0..OffMod-1,
         Accepts(p, c, n), GoesOn(p, c, n)
  PROVE  n \in Nat /\ p \in Pages /\ c < PAGE_SIZE /\ c + n < PAGE_SIZE
<1>1. n \in Nat
  BY PageAssumption
<1>2. obj.mapped /\ obj.size <= Base(page_count) /\ Base(p) < obj.size /\ obj.size \in Nat
  BY DEF Accepts, ValidPage, MappingInv, ObjectInv
<1>3. p \in Pages
  <2>1. SUFFICES ASSUME page_count <= p PROVE FALSE
    BY Sizes DEF Pages
  <2>2. Base(page_count) <= Base(p) /\ Base(p) \in Nat /\ Base(page_count) \in Nat
    <3>1. page_count \in Nat /\ PAGE_SIZE \in Nat /\ Base(p) \in Nat /\ Base(page_count) \in Nat
      BY Sizes, BaseNext
    <3>2. CASE page_count < p
      BY <3>1, <3>2, BaseApart
    <3>3. CASE page_count = p
      BY <3>1, <3>3
    <3> QED BY <2>1, <3>1, <3>2, <3>3
  <2> QED BY <1>2, <2>2
<1>4. c % OffMod = c
  BY Sizes
<1>5. c < PAGE_SIZE
  BY <1>4 DEF Accepts, ValidCur
<1>6. c + n < OffMod
  <2>1. CASE Base(page_count) < OffMod
    <3>1. CASE n = 0
      BY <3>1, Sizes
    <3>2. CASE n # 0
      <4>1. /\ Base(p) \in Nat /\ Base(page_count) \in Nat /\ OffMod \in Nat
            /\ FullFile
        BY <1>2, <1>3, PageBelow, Sizes DEF MappingInv
      <4> DEFINE b == Base(p)
                 last == b + c + n - 1
      <4>2. last \in b + c..b + c + n - 1
        BY <1>1, <3>2, <4>1
      <4>3. last \in 0..Base(page_count)-1
        BY <4>1, <4>2 DEF GoesOn, Places, FullFile
      <4> HIDE DEF b
      <4> QED BY <1>1, <2>1, <4>1, <4>3 DEF b
    <3> QED BY <3>1, <3>2
  <2>2. CASE n + PAGE_SIZE <= OffMod
    BY <1>1, <1>5, <2>2, Sizes
  <2> QED BY <2>1, <2>2 DEF NoWrap
<1>7. (c + n) % OffMod = c + n
  BY <1>1, <1>6, Sizes
<1>8. c + n < PAGE_SIZE
  BY <1>7 DEF Accepts, ValidCur
<1> QED BY <1>1, <1>3, <1>5, <1>8

\* An access at the cursor that succeeds.
LEMMA AtCursor ==
  ASSUME MappingInv, NoWrap, NEW n \in Lens,
         Accepts(obj.idx, obj.cur, n), GoesOn(obj.idx, obj.cur, n), Advance(n)
  PROVE  /\ n \in Nat /\ FullFile /\ obj.idx \in Pages /\ obj.cur \in FHDR_SIZE..PAGE_SIZE-1
         /\ obj.cur + n \in FHDR_SIZE..PAGE_SIZE-1
         /\ obj'.mapped /\ obj'.size = obj.size /\ obj'.idx = obj.idx
         /\ obj'.cur = obj.cur + n
         /\ moved' = [moved EXCEPT ![obj.idx] = @ + n]
<1>1. obj \in [mapped : BOOLEAN, size : Nat, cnt : Nat, idx : Nat, cur : 0..OffMod-1]
  BY DEF MappingInv, ObjectInv
<1>2. obj.mapped
  BY DEF Accepts
<1>3. FullFile /\ obj.idx \in Pages /\ obj.cur \in FHDR_SIZE..PAGE_SIZE-1
  BY <1>2 DEF MappingInv
<1>4. n \in Nat /\ obj.cur + n < PAGE_SIZE
  BY <1>1, AccessInPage
<1>5. (obj.cur + n) % OffMod = obj.cur + n
  BY <1>3, <1>4, Sizes
<1>6. obj' = [obj EXCEPT !.cur = obj.cur + n]
  BY <1>5 DEF Advance
<1> QED BY <1>1, <1>2, <1>3, <1>4, <1>6, Sizes DEF Advance

LEMMA BumpedCells ==
  ASSUME NEW f, NEW p, NEW n
  PROVE  /\ DOMAIN Bumped(f, p, n) = DOMAIN f
         /\ \A a \in DOMAIN f \ {Base(p) + CUR_AT} : Bumped(f, p, n)[a] = f[a]
         /\ Base(p) + CUR_AT \in DOMAIN f /\ f[Base(p) + CUR_AT][1] = "num" =>
              Bumped(f, p, n)[Base(p) + CUR_AT] = Num(f[Base(p) + CUR_AT][2] + n)
<1> DEFINE x == Base(p) + CUR_AT
           e == IF f[x][1] = "num" THEN Num(f[x][2] + n) ELSE Garbage
<1>1. Bumped(f, p, n) = [f EXCEPT ![x] = e]
  BY DEF Bumped
<1>2. f[x][1] = "num" => e = Num(f[x][2] + n)
  OBVIOUS
<1> HIDE DEF x, e
<1>3. /\ DOMAIN Bumped(f, p, n) = DOMAIN f
      /\ \A a \in DOMAIN f \ {x} : Bumped(f, p, n)[a] = f[a]
      /\ x \in DOMAIN f => Bumped(f, p, n)[x] = e
  BY <1>1
<1> QED BY <1>2, <1>3 DEF x

\* Reading or writing at the cursor moves the page's stored one.
LEMMA ReadTouches ==
  ASSUME MappingInv, NoWrap, NEW n \in Lens,
         Accepts(obj.idx, obj.cur, n), GoesOn(obj.idx, obj.cur, n), Advance(n), file' = Bumped(file, obj.idx, n)
  PROVE  Touches({obj.idx}, {CUR_AT})
<1>1. FullFile /\ obj.idx \in Nat
  BY AtCursor, PageBelow
<1>2. ASSUME NEW p \in Pages, NEW c \in 0..PAGE_SIZE-1, p # obj.idx \/ c # CUR_AT
      PROVE  file'[Base(p) + c] = file[Base(p) + c]
  <2>1. CUR_AT \in 0..PAGE_SIZE-1
    BY Sizes
  <2>2. Base(p) + c # Base(obj.idx) + CUR_AT
    BY <1>1, <1>2, <2>1, OnePage, PageBelow
  <2>3. Base(p) + c \in DOMAIN file
    BY <1>1, PageBelow, Sizes DEF FullFile
  <2> QED BY <2>2, <2>3, BumpedCells
<1>3. DOMAIN file' = DOMAIN file
  BY BumpedCells
<1> QED BY <1>1, <1>2, <1>3 DEF Touches

LEMMA WrittenCells ==
  ASSUME FullFile, NEW q \in Nat, NEW d \in Nat, NEW n \in Nat, d + n <= PAGE_SIZE,
         NEW p \in Pages, NEW c \in 0..PAGE_SIZE-1
  PROVE  /\ DOMAIN Written(Places(q, d, n)) = DOMAIN file
         /\ Base(p) + c \in DOMAIN file
         /\ p # q \/ c \notin d..d+n-1 =>
              Written(Places(q, d, n))[Base(p) + c] = file[Base(p) + c]
<1> DEFINE w == Places(q, d, n)
<1>1. Base(p) + c \in DOMAIN file
  BY PageBelow, Sizes DEF FullFile
<1>2. ASSUME p # q \/ c \notin d..d+n-1 PROVE Base(p) + c \notin w
  <2> SUFFICES ASSUME Base(p) + c \in w PROVE FALSE
    OBVIOUS
  <2>1. Base(q) \in Nat /\ Base(p) \in Nat
    BY BaseNext, PageBelow
  <2> DEFINE e == Base(p) + c - Base(q)
  <2>2. e \in d..d+n-1 /\ Base(q) + e = Base(p) + c
    BY <2>1 DEF Places
  <2>3. e \in 0..PAGE_SIZE-1 /\ p \in Nat
    BY <2>2, Sizes, PageBelow
  <2> HIDE DEF e
  <2>4. p = q /\ c = e
    BY <2>2, <2>3, OnePage
  <2> QED BY <1>2, <2>2, <2>4
<1> HIDE DEF w
<1>3. /\ DOMAIN Written(w) = DOMAIN file
      /\ p # q \/ c \notin d..d+n-1 => Written(w)[Base(p) + c] = file[Base(p) + c]
  BY <1>1, <1>2 DEF Written
<1> QED BY <1>1, <1>3 DEF w

LEMMA WriteTouches ==
  ASSUME MappingInv, NoWrap, NEW n \in Lens,
         Accepts(obj.idx, obj.cur, n), GoesOn(obj.idx, obj.cur, n), Advance(n),
         file' = Bumped(Written(Places(obj.idx, obj.cur, n)), obj.idx, n)
  PROVE  Touches({obj.idx}, {CUR_AT} \cup obj.cur..obj.cur+n-1)
<1> DEFINE w == Places(obj.idx, obj.cur, n)
<1>1. /\ FullFile /\ obj.idx \in Nat /\ n \in Nat /\ obj.cur \in Nat
      /\ obj.cur + n <= PAGE_SIZE
  BY AtCursor, PageBelow, Sizes
<1> HIDE DEF w
<1>2. ASSUME NEW p \in Pages, NEW c \in 0..PAGE_SIZE-1,
             p # obj.idx \/ c \notin {CUR_AT} \cup obj.cur..obj.cur+n-1
      PROVE  file'[Base(p) + c] = file[Base(p) + c] /\ DOMAIN file' = DOMAIN file
  <2>1. CUR_AT \in 0..PAGE_SIZE-1
    BY Sizes
  <2>2. Base(p) + c # Base(obj.idx) + CUR_AT
    BY <1>1, <1>2, <2>1, OnePage, PageBelow
  <2>3. /\ DOMAIN Written(w) = DOMAIN file /\ Base(p) + c \in DOMAIN file
        /\ Written(w)[Base(p) + c] = file[Base(p) + c]
    BY <1>1, <1>2, WrittenCells DEF w
  <2>4. file' = Bumped(Written(w), obj.idx, n)
    BY DEF w
  <2> QED BY <2>2, <2>3, <2>4, BumpedCells
<1>3. DOMAIN file' = DOMAIN file
  BY BumpedCells DEF Written
<1> QED BY <1>1, <1>2, <1>3 DEF Touches

LEMMA WrittenTouches ==
  ASSUME FullFile, NEW w \in SUBSET Int, file' = Written(w)
  PROVE  Touches(PagesOf(w), 0..PAGE_SIZE-1)
<1>1. DOMAIN file' = DOMAIN file
  BY DEF Written
<1>2. ASSUME NEW p \in Pages, NEW c \in 0..PAGE_SIZE-1, p \notin PagesOf(w)
      PROVE  file'[Base(p) + c] = file[Base(p) + c]
  <2>1. Base(p) + c \notin w
    BY <1>2, InPagesOf
  <2>2. Base(p) + c \in 0..Base(page_count)-1
    BY PageBelow, Sizes
  <2> QED BY <2>1, <2>2 DEF Written, FullFile
<1> QED BY <1>1, <1>2 DEF Touches

(***************************************************************************)
(* What an access does: nothing, or it strays, or it goes on at the cursor *)
(* or as a raw write.                                                      *)
(***************************************************************************)
LetsBe == UNCHANGED <<file, obj, put, moved, raw>>

AtTheCursor(n) ==
  Accepts(obj.idx, obj.cur, n) /\ GoesOn(obj.idx, obj.cur, n) /\ Advance(n) /\ UNCHANGED raw
ReadsOn(n) == AtTheCursor(n) /\ file' = Bumped(file, obj.idx, n) /\ UNCHANGED put
WritesOn(n) ==
  LET w == Places(obj.idx, obj.cur, n) IN
    /\ AtTheCursor(n)
    /\ file' = Bumped(Written(w), obj.idx, n)
    /\ put' = [a \in DOMAIN put \cup w |-> IF a \in DOMAIN put THEN put[a] ELSE calls + 1]

WritesRaw(w) ==
  /\ obj.mapped /\ file' = Written(w) /\ raw' = raw \cup w
  /\ put' = [a \in DOMAIN put \ w |-> put[a]] /\ UNCHANGED <<obj, moved>>

LEMMA AccessIs ==
  ASSUME NEW n, AccessOf(n)
  PROVE  \/ LetsBe
         \/ \E w \in SUBSET Int : obj.mapped /\ Strays(w)
         \/ ReadsOn(n) \/ WritesOn(n)
         \/ \E w \in SUBSET Int : WritesRaw(w)
<1>0. \A p, c : Places(p, c, n) \in SUBSET Int
  BY DEF Places
<1>00. {} \in SUBSET Int /\ \A p, c, part : Places(p, c, n) \cap part \in SUBSET Int
  BY <1>0
<1>1. CASE PageRead(n)
  BY <1>1, <1>00 DEF PageRead, Accepts, Fails, LetsBe, ReadsOn, AtTheCursor
<1>2. CASE PageWrite(n)
  BY <1>2, <1>00 DEF PageWrite, Accepts, Fails, LetsBe, WritesOn, AtTheCursor
<1>3. CASE Fails
  BY <1>3 DEF Fails, LetsBe
<1>4. ASSUME NEW p, NEW c, RawRead(p, c, n)
      PROVE  LetsBe \/ \E w \in SUBSET Int : obj.mapped /\ Strays(w)
  BY <1>4, <1>00 DEF RawRead, Accepts, Fails, LetsBe
<1>5. ASSUME NEW p, NEW c, RawWrite(p, c, n)
      PROVE  LetsBe \/ (\E w \in SUBSET Int : obj.mapped /\ Strays(w))
             \/ \E w \in SUBSET Int : WritesRaw(w)
  BY <1>5, <1>0, <1>00 DEF RawWrite, Accepts, Fails, LetsBe, WritesRaw
<1> QED BY <1>1, <1>2, <1>3, <1>4, <1>5 DEF AccessOf

-----------------------------------------------------------------------------
(***************************************************************************)
(* The file, the mapping and the object.                                   *)
(***************************************************************************)
LEMMA MappingInit == Init => MappingInv
<1> SUFFICES ASSUME Init PROVE MappingInv
  OBVIOUS
<1>1. DOMAIN file = {}
  BY DEF Init, NoFile
<1>2. ~obj.mapped /\ step = "idle" /\ raw = {}
  BY DEF Init, NoObject
<1>3. moved \in [Pages -> Nat]
  BY DEF Init, Pages
<1> QED BY <1>1, <1>2, <1>3, ObjectInvInit DEF MappingInv

\* The object and the history after a step that leaves the program alone.
MappedOK ==
  obj.mapped => /\ FullFile /\ obj.size <= Base(page_count)
                /\ obj.idx \in Pages /\ obj.cur \in FHDR_SIZE..PAGE_SIZE-1

LEMMA ClientMapping ==
  ASSUME MappingInv, ObjectInv', UNCHANGED <<step, page>>, step = "idle",
         DOMAIN file' = DOMAIN file, MappedOK', moved' \in [Pages -> Nat], raw' \subseteq Int
  PROVE  MappingInv'
BY DEF MappingInv, MappedOK, FullFile

LEMMA AccessMapping ==
  ASSUME MappingInv, NoWrap, NEW n \in Lens, AccessOf(n), UNCHANGED <<step, page>>, step = "idle"
  PROVE  MappingInv'
<1>1. ObjectInv' /\ moved \in [Pages -> Nat] /\ raw \subseteq Int /\ MappedOK
  BY AccessInv, PageAssumption DEF MappingInv, MappedOK
<1>2. CASE LetsBe
  <2>1. MappedOK'
    BY <1>1, <1>2 DEF LetsBe, MappedOK, FullFile
  <2> QED BY <1>1, <1>2, <2>1, ClientMapping DEF LetsBe
<1>3. ASSUME NEW w \in SUBSET Int, Strays(w) PROVE MappingInv'
  <2>1. MappedOK' /\ moved' = moved
    BY <1>3 DEF Strays, NoObject, MappedOK
  <2>2. DOMAIN file' = DOMAIN file /\ raw' \subseteq Int
    BY <1>1, <1>3 DEF Strays, Written
  <2> QED BY <1>1, <2>1, <2>2, ClientMapping
<1>4. ASSUME Accepts(obj.idx, obj.cur, n), GoesOn(obj.idx, obj.cur, n), Advance(n), DOMAIN file' = DOMAIN file,
             UNCHANGED raw
      PROVE  MappingInv'
  <2>1. MappedOK'
    <3>1. FullFile' /\ obj.size <= Base(page_count) /\ obj.mapped
      <4>1. obj.mapped
        BY <1>4 DEF Accepts
      <4> QED BY <1>1, <1>4, <4>1 DEF MappedOK, FullFile
    <3>2. /\ obj.idx \in Pages /\ obj.cur + n \in FHDR_SIZE..PAGE_SIZE-1
          /\ obj'.mapped /\ obj'.size = obj.size /\ obj'.idx = obj.idx
          /\ obj'.cur = obj.cur + n
      BY <1>4, AtCursor
    <3> QED BY <3>1, <3>2 DEF MappedOK
  <2>2. moved' \in [Pages -> Nat]
    <3>1. n \in Nat /\ obj.idx \in Pages /\ moved' = [moved EXCEPT ![obj.idx] = @ + n]
      BY <1>4, AtCursor
    <3> QED BY <1>1, <3>1
  <2> QED BY <1>1, <1>4, <2>1, <2>2, ClientMapping
<1>5. CASE ReadsOn(n)
  BY <1>4, <1>5, BumpedCells DEF ReadsOn, AtTheCursor
<1>6. CASE WritesOn(n)
  <2>1. DOMAIN file' = DOMAIN file
    BY <1>6, BumpedCells DEF WritesOn, Written
  <2> QED BY <1>4, <1>6, <2>1 DEF WritesOn, AtTheCursor
<1>7. ASSUME NEW w \in SUBSET Int, WritesRaw(w) PROVE MappingInv'
  <2>1. UNCHANGED <<obj, moved>> /\ DOMAIN file' = DOMAIN file /\ raw' \subseteq Int
    BY <1>1, <1>7 DEF WritesRaw, Written
  <2>2. MappedOK'
    BY <1>1, <2>1 DEF MappedOK, FullFile
  <2> QED BY <1>1, <2>1, <2>2, ClientMapping
<1> QED BY <1>2, <1>3, <1>5, <1>6, <1>7, AccessIs

\* Every page the program is at is one of the file's.
LEMMA MappingStep == NoWrap /\ MappingInv /\ [Next]_vars => MappingInv'
<1> SUFFICES ASSUME NoWrap, MappingInv, [Next]_vars PROVE MappingInv'
  OBVIOUS
<1>0. ObjectInv' /\ moved \in [Pages -> Nat] /\ raw \subseteq Int /\ MappedOK /\ 0 \in Pages
      /\ FHDR_SIZE \in FHDR_SIZE..PAGE_SIZE-1 /\ page_count \in Nat /\ Base(page_count) \in Nat
  <2>1. page_count \in Nat /\ 0 \in Pages /\ FHDR_SIZE \in FHDR_SIZE..PAGE_SIZE-1
    BY Sizes DEF Pages
  <2>2. ObjectInv'
    BY ObjectInvStep DEF MappingInv
  <2> QED BY <2>1, <2>2, BaseNext DEF MappingInv, MappedOK
<1>1. ASSUME NEW args \in MapArgs, Map(args[1], args[2]) PROVE MappingInv'
  <2>1. /\ UNCHANGED <<file, step, page, moved, raw>> /\ step = "idle"
        /\ 0 < args[1] /\ args[1] <= Cardinality(DOMAIN file) /\ args[1] \in Nat
        /\ obj' = Object(args[1], args[2])
    BY <1>1, PageAssumption DEF Map, Idle
  <2>2. FullFile
    <3>1. DOMAIN file # {}
      BY <2>1, FS_EmptySet
    <3> QED BY <3>1 DEF MappingInv
  <2>3. args[1] <= Base(page_count)
    <3> DEFINE b == Base(page_count) - 1
    <3>1. b \in Int /\ Base(page_count) = b + 1 /\ 0 <= b + 1
      BY <1>0
    <3> HIDE DEF b
    <3>2. Cardinality(0..b) = b + 1
      BY <3>1, FS_Interval
    <3>3. Cardinality(0..Base(page_count)-1) = Base(page_count)
      BY <3>1, <3>2 DEF b
    <3> QED BY <2>1, <2>2, <3>3 DEF FullFile
  <2>4. MappedOK'
    BY <1>0, <2>1, <2>2, <2>3 DEF MappedOK, Object, FullFile
  <2> QED BY <1>0, <2>1, <2>4, ClientMapping
<1>2. CASE Unmap
  <2>1. MappedOK'
    BY <1>2 DEF Unmap, NoObject, MappedOK
  <2> QED BY <1>0, <1>2, <2>1, ClientMapping DEF Unmap, Idle
<1>3. ASSUME NEW p \in 0..page_count, Goto(p), Idle, UNCHANGED <<step, page>> PROVE MappingInv'
  <2>1. CASE Fails
    BY <1>0, <1>3, <2>1, ClientMapping DEF Fails, MappedOK, FullFile, Idle
  <2>2. CASE obj.mapped /\ ValidPage(p)
    <3>1. obj' = [obj EXCEPT !.idx = p, !.cur = CursorOn(p)] /\ UNCHANGED <<file, moved, raw>>
      BY <1>3, <2>2 DEF Goto
    <3>2. p \in Pages
      <4>1. p # page_count
        <5>1. obj.size <= Base(page_count) /\ Base(p) < obj.size /\ obj.size \in Nat
          BY <1>0, <2>2 DEF MappedOK, ValidPage, MappingInv, ObjectInv
        <5> QED BY <1>0, <5>1
      <4> QED BY <1>0, <4>1 DEF Pages
    <3>3. MappedOK'
      <4>1. obj \in [mapped : BOOLEAN, size : Nat, cnt : Nat, idx : Nat, cur : 0..OffMod-1]
        BY DEF MappingInv, ObjectInv
      <4> DEFINE d == CursorOn(p)
      <4>2. d \in FHDR_SIZE..PAGE_SIZE-1
        BY <1>0, <2>2 DEF CursorOn, MappedOK
      <4>3. obj' = [obj EXCEPT !.idx = p, !.cur = d]
        BY <3>1
      <4> HIDE DEF d
      <4>4. obj'.idx = p /\ obj'.cur = d /\ obj'.size = obj.size /\ obj'.mapped
        BY <2>2, <4>1, <4>3
      <4> QED BY <1>0, <2>2, <3>1, <3>2, <4>2, <4>4 DEF MappedOK, FullFile
    <3> QED BY <1>0, <1>3, <3>1, <3>3, ClientMapping DEF Idle
  <2> QED BY <1>3, <2>1, <2>2 DEF Goto
<1>4. ASSUME NEW n \in Lens, AccessOf(n), Idle, UNCHANGED <<step, page>> PROVE MappingInv'
  BY <1>4, AccessMapping DEF Idle
<1>5. CASE Format
  <2>1. DOMAIN Resized = 0..Base(page_count)-1
    BY DEF Resized
  <2>2. DOMAIN file' = {} \/ FullFile'
    BY <2>1, <1>5 DEF Format, MappingInv, FullFile
  <2>3. CASE ret' = "error" /\ file' \in {file, Resized} /\ UNCHANGED <<obj, step, page, put>>
    <3>1. ~obj.mapped /\ step = "idle" /\ UNCHANGED <<moved, raw>>
      BY <1>5 DEF Format, Idle
    <3> QED BY <1>0, <2>2, <2>3, <3>1 DEF MappingInv
  <2>4. CASE file' = Resized /\ obj' = Object(Base(page_count), page_count)
             /\ step' = "header" /\ page' = 0
    <3>1. FullFile' /\ UNCHANGED <<moved, raw>>
      BY <1>5, <2>1, <2>4 DEF FullFile, Format
    <3> QED BY <1>0, <2>4, <3>1 DEF MappingInv, Object
  <2> QED BY <1>5, <2>3, <2>4 DEF Format
<1>6. CASE FormatStep
  <2>1. DOMAIN file' = DOMAIN file
    BY <1>6 DEF FormatStep, FillPageHeader, FillPageFooter, FillFileHeader, SumFileHeader,
                Stores, Summed, Stored
  <2>2. step # "idle" /\ obj.mapped /\ page \in Pages
    BY <1>6 DEF FormatStep, FillPageHeader, FillPageFooter, FillFileHeader, SumFileHeader,
                Stores, MappingInv
  <2>3. raw' \subseteq Int
    BY <1>0, <1>6 DEF FormatStep, FillPageHeader, FillPageFooter, FillFileHeader, SumFileHeader
  <2>4. moved' \in [Pages -> Nat]
    BY <1>0, <1>6 DEF FormatStep, FillPageHeader, FillPageFooter, FillFileHeader, SumFileHeader
  <2>5. MappedOK'
    BY <1>0, <1>6, <2>1 DEF FormatStep, FillPageHeader, FillPageFooter, FillFileHeader,
                            SumFileHeader, Stores, MappedOK, FullFile, NoObject
  <2>6. /\ step' \in {"idle", "header", "footer", "fileheader", "filesum"}
        /\ step' # "idle" => obj'.mapped /\ page' \in Pages
        /\ step' \in {"fileheader", "filesum"} => page' = 0
    <3>1. CASE FillPageHeader
      BY <2>2, <3>1 DEF FillPageHeader, Stores
    <3>2. CASE FillPageFooter
      <4>1. page # LastPage => page + 1 \in Pages
        BY <1>0, <2>2 DEF LastPage, Pages
      <4> QED BY <1>0, <2>2, <3>2, <4>1 DEF FillPageFooter, Stores
    <3>3. CASE FillFileHeader
      BY <1>0, <2>2, <3>3 DEF FillFileHeader, Stores
    <3>4. CASE SumFileHeader
      BY <3>4 DEF SumFileHeader
    <3> QED BY <1>6, <3>1, <3>2, <3>3, <3>4 DEF FormatStep
  <2> QED BY <1>0, <2>1, <2>3, <2>4, <2>5, <2>6 DEF MappingInv, MappedOK, FullFile
<1>7. CASE Kill
  BY <1>0, <1>7 DEF Kill, NoObject, MappingInv, FullFile
<1>8. CASE UNCHANGED vars
  BY <1>0, <1>8 DEF vars, MappingInv, FullFile
<1> QED BY <1>1, <1>2, <1>3, <1>4, <1>5, <1>6, <1>7, <1>8 DEF Next

-----------------------------------------------------------------------------
(***************************************************************************)
(* What was written at the cursor.                                         *)
(***************************************************************************)
PutAt(a) ==
  /\ \E p \in Pages, c \in FHDR_SIZE..obj.cur-1 : a = Base(p) + c
  /\ file[a] = Byte(put[a])

LEMMA PutNothing == ASSUME put' = Nothing PROVE PutInv'
<1>1. DOMAIN put' = {}
  BY DEF Nothing
<1> QED BY <1>1 DEF PutInv

LEMMA PutEmptyKept == ASSUME DOMAIN put = {}, put' = put PROVE PutInv'
BY DEF PutInv

LEMMA PutInit == Init => PutInv
<1> SUFFICES ASSUME Init PROVE PutInv
  OBVIOUS
<1>1. DOMAIN put = {}
  BY DEF Init, Nothing
<1> QED BY <1>1 DEF PutInv

\* A step that touches one page's header, or its cells at the cursor.
LEMMA PutKept ==
  ASSUME MappingInv, PutInv, NEW Q, NEW n \in Nat, NEW a \in DOMAIN put,
         obj.cur \in FHDR_SIZE..PAGE_SIZE-1, obj'.cur \in Int, obj.cur <= obj'.cur,
         Touches(Q, {CUR_AT}) \/ Touches(Q, {CUR_AT} \cup obj.cur..obj.cur+n-1),
         a \in DOMAIN put', put'[a] = put[a]
  PROVE  PutAt(a)'
<1>1. PICK p \in Pages, c \in FHDR_SIZE..obj.cur-1 : a = Base(p) + c
  BY DEF PutInv
<1>2. file[a] = Byte(put[a])
  BY DEF PutInv
<1>3. c \in 0..PAGE_SIZE-1 /\ c \notin {CUR_AT} \cup obj.cur..obj.cur+n-1
      /\ c \in FHDR_SIZE..obj'.cur-1
  BY Sizes
<1>4. file'[a] = file[a]
  BY <1>1, <1>3 DEF Touches
<1> QED BY <1>1, <1>2, <1>3, <1>4 DEF PutAt

LEMMA AccessPut ==
  ASSUME MappingInv, NoWrap, PutInv, NEW n \in Lens, AccessOf(n),
         UNCHANGED <<step, page>>, step = "idle"
  PROVE  PutInv'
<1>1. CASE LetsBe
  BY <1>1 DEF LetsBe, PutInv
<1>2. ASSUME NEW w, Strays(w) PROVE PutInv'
  BY <1>2, PutNothing DEF Strays
<1>3. ASSUME Accepts(obj.idx, obj.cur, n), GoesOn(obj.idx, obj.cur, n), Advance(n)
      PROVE  /\ n \in Nat /\ FullFile /\ obj.idx \in Pages /\ obj.cur \in FHDR_SIZE..PAGE_SIZE-1
             /\ obj'.mapped /\ obj'.cur = obj.cur + n /\ obj.cur <= obj'.cur /\ obj'.cur \in Int
  BY <1>3, AtCursor, Sizes
<1>4. CASE ReadsOn(n)
  <2>1. /\ Accepts(obj.idx, obj.cur, n) /\ GoesOn(obj.idx, obj.cur, n) /\ Advance(n)
        /\ file' = Bumped(file, obj.idx, n) /\ UNCHANGED put
    BY <1>4 DEF ReadsOn, AtTheCursor
  <2>2. Touches({obj.idx}, {CUR_AT})
    BY <2>1, ReadTouches
  <2>3. ASSUME NEW a \in DOMAIN put' PROVE PutAt(a)'
    BY <1>3, <2>1, <2>2, <2>3, PutKept
  <2> QED BY <1>3, <2>1, <2>3 DEF PutInv, PutAt
<1>5. CASE WritesOn(n)
  <2> DEFINE w == Places(obj.idx, obj.cur, n)
  <2>1. /\ Accepts(obj.idx, obj.cur, n) /\ GoesOn(obj.idx, obj.cur, n) /\ Advance(n)
        /\ file' = Bumped(Written(w), obj.idx, n)
        /\ put' = [a \in DOMAIN put \cup w |-> IF a \in DOMAIN put THEN put[a] ELSE calls + 1]
    BY <1>5 DEF WritesOn, AtTheCursor
  <2>2. Touches({obj.idx}, {CUR_AT} \cup obj.cur..obj.cur+n-1)
    BY <2>1, WriteTouches
  <2>3. ASSUME NEW a \in DOMAIN put PROVE PutAt(a)'
    BY <1>3, <2>1, <2>2, <2>3, PutKept
  <2>4. ASSUME NEW a \in w \ DOMAIN put PROVE PutAt(a)'
    <3> DEFINE c == a - Base(obj.idx)
    <3>0. /\ n \in Nat /\ FullFile /\ obj.idx \in Pages /\ obj.cur \in FHDR_SIZE..PAGE_SIZE-1
          /\ obj.cur + n \in FHDR_SIZE..PAGE_SIZE-1 /\ obj'.cur = obj.cur + n
      BY <2>1, AtCursor
    <3>1. Base(obj.idx) \in Nat /\ obj.idx \in Nat
      BY <3>0, PageBelow
    <3>2. a = Base(obj.idx) + c /\ c \in obj.cur..obj.cur+n-1 /\ a \in Int
      <4>1. a \in Base(obj.idx)+obj.cur..Base(obj.idx)+obj.cur+n-1
        BY DEF Places
      <4>2. obj.cur \in Int /\ n \in Int
        BY <3>0, Sizes
      <4> QED BY <3>1, <4>1, <4>2
    <3>3. c \in FHDR_SIZE..obj'.cur-1 /\ c \in 0..PAGE_SIZE-1 /\ c # CUR_AT
          /\ CUR_AT \in 0..PAGE_SIZE-1
      <4> HIDE DEF c
      <4> QED BY <3>0, <3>2, Sizes
    <3> HIDE DEF c, w
    <3>4. a \in DOMAIN file
      <4>1. Base(obj.idx) + PAGE_SIZE <= Base(page_count) /\ Base(page_count) \in Nat
        BY <3>0, PageBelow
      <4>2. PAGE_SIZE \in Nat /\ c \in 0..PAGE_SIZE-1
        BY <3>3, Sizes
      <4>3. a \in 0..Base(page_count)-1
        BY <3>1, <3>2, <4>1, <4>2
      <4> QED BY <3>0, <4>3 DEF FullFile
    <3>5. a # Base(obj.idx) + CUR_AT
      BY <3>1, <3>2, <3>3
    <3>6. file'[a] = Written(w)[a] /\ Written(w)[a] = Byte(calls + 1)
      <4>1. DOMAIN Written(w) = DOMAIN file /\ Written(w)[a] = Byte(calls + 1)
        BY <2>4, <3>4 DEF Written
      <4> QED BY <2>1, <3>4, <3>5, <4>1, BumpedCells
    <3>7. put'[a] = calls + 1
      BY <2>1, <2>4
    <3> QED BY <1>3, <2>1, <3>2, <3>3, <3>6, <3>7 DEF PutAt
  <2>5. DOMAIN put' = DOMAIN put \cup w
    BY <2>1
  <2> HIDE DEF w
  <2> QED BY <1>3, <2>1, <2>3, <2>4, <2>5 DEF PutInv, PutAt
<1>6. ASSUME NEW w \in SUBSET Int, WritesRaw(w) PROVE PutInv'
  <2>1. file' = Written(w) /\ UNCHANGED obj /\ put' = [a \in DOMAIN put \ w |-> put[a]]
    BY <1>6 DEF WritesRaw
  <2>2. FullFile /\ obj.cur \in FHDR_SIZE..PAGE_SIZE-1 /\ obj.mapped
    BY <1>6 DEF WritesRaw, MappingInv
  <2>3. ASSUME NEW a \in DOMAIN put \ w PROVE PutAt(a)'
    <3>1. PICK q \in Pages, d \in FHDR_SIZE..obj.cur-1 : a = Base(q) + d
      BY DEF PutInv
    <3>2. a \in DOMAIN file
      <4>1. d \in 0..PAGE_SIZE-1
        BY <2>2, Sizes
      <4> QED BY <2>2, <3>1, <4>1, PageBelow, Sizes DEF FullFile
    <3>3. file'[a] = file[a] /\ put'[a] = put[a]
      BY <2>1, <2>3, <3>2 DEF Written
    <3>4. file[a] = Byte(put[a])
      BY DEF PutInv
    <3> QED BY <2>1, <3>1, <3>3, <3>4 DEF PutAt
  <2> QED BY <2>1, <2>2, <2>3 DEF PutInv, PutAt
<1> QED BY <1>1, <1>2, <1>4, <1>5, <1>6, AccessIs

LEMMA PutStep == NoWrap /\ MappingInv /\ PutInv /\ [Next]_vars => PutInv'
<1> SUFFICES ASSUME NoWrap, MappingInv, PutInv, [Next]_vars PROVE PutInv'
  OBVIOUS
<1>1. ASSUME NEW args \in MapArgs, Map(args[1], args[2]) PROVE PutInv'
  BY <1>1, PutNothing DEF Map
<1>2. CASE Unmap \/ Kill
  BY <1>2, PutNothing DEF Unmap, Kill
<1>3. ASSUME NEW p \in 0..page_count, Goto(p), Idle, UNCHANGED <<step, page>> PROVE PutInv'
  <2>1. CASE Fails
    BY <1>3, <2>1 DEF Fails, PutInv
  <2>2. CASE obj.mapped /\ ValidPage(p)
    <3>1. CASE p = 0
      BY <1>3, <2>2, <3>1, PutNothing DEF Goto
    <3>2. CASE p # 0
      <4>1. obj' = [obj EXCEPT !.idx = p, !.cur = obj.cur] /\ UNCHANGED <<file, put>>
        BY <1>3, <2>2, <3>2 DEF Goto, CursorOn
      <4>2. obj'.cur = obj.cur /\ obj'.mapped
        BY <2>2, <4>1 DEF MappingInv, ObjectInv
      <4> QED BY <1>3, <4>1, <4>2 DEF PutInv, Idle
    <3> QED BY <3>1, <3>2
  <2> QED BY <1>3, <2>1, <2>2 DEF Goto
<1>4. ASSUME NEW n \in Lens, AccessOf(n), Idle, UNCHANGED <<step, page>> PROVE PutInv'
  BY <1>4, AccessPut DEF Idle
<1>5. CASE Format
  <2>1. ~obj.mapped /\ DOMAIN put = {}
    BY <1>5 DEF Format, PutInv
  <2> QED BY <1>5, <2>1, PutNothing, PutEmptyKept DEF Format
<1>6. CASE FormatStep
  <2>1. step # "idle" /\ put' = put
    BY <1>6 DEF FormatStep, FillPageHeader, FillPageFooter, FillFileHeader, SumFileHeader, Stores
  <2> QED BY <2>1, PutEmptyKept DEF PutInv
<1>7. CASE UNCHANGED vars
  BY <1>7 DEF vars, PutInv
<1> QED BY <1>1, <1>2, <1>3, <1>4, <1>5, <1>6, <1>7 DEF Next

-----------------------------------------------------------------------------
(***************************************************************************)
(* What the headers vouch for.                                             *)
(***************************************************************************)
LEMMA FirstPlace == 0 \in Pages /\ 0 \in 0..PAGE_SIZE-1 /\ Base(0) + 0 = 0
BY Sizes, BaseNext DEF Pages

LEMMA Structures ==
  /\ Field("fhdr", 0, 0) # Field("phdr", 0, 0)
  /\ \A n : Byte(n) # Field("fhdr", 0, 0)
  /\ Zero # Field("fhdr", 0, 0)
BY DEF Field, Byte, Zero

LEMMA FirstPlaceKept ==
  ASSUME NEW Q, NEW S, Touches(Q, S), 0 \notin Q \/ 0 \notin S
  PROVE  file'[0] = file[0] /\ (InUse' => InUse)
<1>1. file'[0] = file[0]
  BY FirstPlace DEF Touches
<1> QED BY <1>1 DEF InUse, Touches

LEMMA PlacesUntouched ==
  ASSUME NEW Q, Touches(Q, {})
  PROVE  Touches({}, {})
BY DEF Touches

LEMMA AllKept ==
  ASSUME Touches({}, {}), UNCHANGED <<moved, raw>>, InUse => \A p \in Pages : Kept(p)
  PROVE  InUse' => \A p \in Pages : Kept(p)'
<1> SUFFICES ASSUME InUse', NEW p \in Pages PROVE Kept(p)'
  OBVIOUS
<1>1. Kept(p)
  BY FirstPlaceKept
<1> QED BY <1>1, OtherPageKept

LEMMA FormatUnchanged ==
  ASSUME FormatInv, UNCHANGED <<file, step, page, moved, raw>>
  PROVE  FormatInv'
BY DEF FormatInv, InUse, FullFile, Kept, Fresh, HeaderCells, FileHeaderCells, HeaderSum,
       FooterSum, StaleFooter, PagesOf

\* In the states where no formatting is going on.
LEMMA IdleFormat ==
  ASSUME step' = "idle" \/ (step' = "header" /\ page' = 0), InUse' => \A p \in Pages : Kept(p)'
  PROVE  FormatInv'
BY DEF FormatInv

(***************************************************************************)
(* An access at the cursor counts in the header, and changes nothing else  *)
(* there.                                                                  *)
(***************************************************************************)
LEMMA CursorCell ==
  ASSUME MappingInv, NoWrap, NEW n \in Lens,
         Accepts(obj.idx, obj.cur, n), GoesOn(obj.idx, obj.cur, n), Advance(n),
         \/ file' = Bumped(file, obj.idx, n)
         \/ file' = Bumped(Written(Places(obj.idx, obj.cur, n)), obj.idx, n),
         NEW m, file[Base(obj.idx) + CUR_AT] = Num(m)
  PROVE  file'[Base(obj.idx) + CUR_AT] = Num(m + n)
<1> DEFINE x == Base(obj.idx) + CUR_AT
<1>1. Num(m)[1] = "num" /\ Num(m)[2] = m
  BY DEF Num
<1>2. /\ FullFile /\ obj.idx \in Pages /\ n \in Nat /\ obj.cur \in FHDR_SIZE..PAGE_SIZE-1
      /\ obj.cur + n \in FHDR_SIZE..PAGE_SIZE-1
  BY AtCursor
<1>3. CUR_AT \in 0..PAGE_SIZE-1 /\ CUR_AT \notin obj.cur..obj.cur+n-1
  BY <1>2, Sizes
<1>4. /\ x \in DOMAIN file
      /\ DOMAIN Written(Places(obj.idx, obj.cur, n)) = DOMAIN file
      /\ Written(Places(obj.idx, obj.cur, n))[x] = file[x]
  <2>1. obj.idx \in Nat /\ obj.cur \in Nat /\ obj.cur + n <= PAGE_SIZE
    BY <1>2, Sizes, PageBelow
  <2> QED BY <1>2, <1>3, <2>1, WrittenCells
<1> QED BY <1>1, <1>4, BumpedCells

LEMMA CursorKept ==
  ASSUME MappingInv, NoWrap, NEW n \in Lens,
         Accepts(obj.idx, obj.cur, n), GoesOn(obj.idx, obj.cur, n), Advance(n), UNCHANGED raw,
         \/ file' = Bumped(file, obj.idx, n)
         \/ file' = Bumped(Written(Places(obj.idx, obj.cur, n)), obj.idx, n),
         NEW q, q = obj.idx, Kept(q)
  PROVE  Kept(q)'
<1> DEFINE S == {CUR_AT} \cup obj.cur..obj.cur+n-1
<1>1. /\ n \in Nat /\ q \in Pages /\ obj.cur \in FHDR_SIZE..PAGE_SIZE-1 
      /\ moved' = [moved EXCEPT ![q] = @ + n]
  BY AtCursor
<1>2. Touches({q}, S)
  <2>1. Touches({q}, {CUR_AT}) \/ Touches({q}, S)
    BY ReadTouches, WriteTouches
  <2> QED BY <2>1 DEF Touches
<1>3. moved[q] \in Nat /\ moved'[q] = moved[q] + n
  BY <1>1 DEF MappingInv
<1>4. \A m : file[Base(q) + CUR_AT] = Num(m) => file'[Base(q) + CUR_AT] = Num(m + n)
  BY CursorCell
<1>5. \A c \in 0..FHDR_SIZE-1 : c # CUR_AT => c \in 0..PAGE_SIZE-1 /\ c \notin S
  BY <1>1, Sizes
<1>6. \A c \in 0..FHDR_SIZE-1 : c # CUR_AT => file'[Base(q) + c] = file[Base(q) + c]
  BY <1>1, <1>2, <1>5 DEF Touches
<1> HIDE DEF S
<1> SUFFICES ASSUME q \notin PagesOf(raw)
             PROVE  (IF q = 0 THEN FileHeaderCells(moved[0]) /\ (moved[0] = 0 => StaleFooter)
                     ELSE HeaderCells(q, moved[q]) /\ (moved[q] = 0 => HeaderSum(q) /\ FooterSum(q)))'
  BY DEF Kept, PagesOf
\* If nothing was read or written, nothing has changed.
<1>7. ASSUME n = 0, file[Base(q) + CUR_AT][1] = "num",
             file[Base(q) + CUR_AT] = Num(file[Base(q) + CUR_AT][2]),
             file[Base(q) + CUR_AT][2] \in Nat
      PROVE  Touches({}, {})
  <2>1. file'[Base(q) + CUR_AT] = file[Base(q) + CUR_AT]
    BY <1>4, <1>7
  <2>2. S = {CUR_AT}
    BY <1>1, <1>7, Sizes DEF S
  <2>3. Touches({q}, {})
    BY <1>2, <2>1, <2>2 DEF Touches
  <2> QED BY <2>3, PlacesUntouched
<1>8. CASE q = 0
  <2>1. FileHeaderCells(moved[0]) /\ (moved[0] = 0 => StaleFooter)
    BY <1>8 DEF Kept
  <2> DEFINE m == page_count * HalfMod
  <2>2. m \in Nat
    BY Sizes
  <2>3. file[Base(q) + CUR_AT] = Num(m + moved[0]) /\ Base(q) = 0
    <3>1. CUR_AT \in 0..FHDR_SIZE-2 /\ Base(q) = 0 /\ Base(q) + CUR_AT = CUR_AT
      BY <1>8, Sizes, BaseNext
    <3> QED BY <2>1, <3>1 DEF FileHeaderCells
  <2> HIDE DEF m
  <2>4. file'[Base(q) + CUR_AT] = Num(m + moved'[0])
    <3>1. m + moved[0] + n = m + moved'[0]
      BY <1>1, <1>3, <1>8, <2>2
    <3> QED BY <1>4, <2>3, <3>1
  <2>5. FileHeaderCells(moved[0])'
    <3>1. \A c \in 0..FHDR_SIZE-2 : c # CUR_AT => file'[c] = file[c]
      <4>1. \A c \in 0..FHDR_SIZE-2 : Base(q) + c = c /\ c \in 0..FHDR_SIZE-1
        BY <2>3, Sizes
      <4>2. \A c \in 0..FHDR_SIZE-2 : c # CUR_AT => file'[Base(q) + c] = file[Base(q) + c]
        BY <1>6, <4>1
      <4> QED BY <4>1, <4>2
    <3>2. file'[CUR_AT] = Num(page_count * HalfMod + moved'[0])
      BY <2>3, <2>4, Sizes DEF m
    <3> QED BY <2>1, <3>1, <3>2 DEF FileHeaderCells
  <2>6. ASSUME moved'[0] = 0 PROVE StaleFooter'
    <3>1. n = 0 /\ moved[0] = 0
      BY <1>1, <1>3, <1>8, <2>6
    <3>2. Num(m + moved[0])[1] = "num" /\ Num(m + moved[0])[2] = m + moved[0]
      BY DEF Num
    <3>3. Touches({}, {})
      BY <1>3, <1>7, <1>8, <2>2, <2>3, <3>1, <3>2
    <3> QED BY <2>1, <3>1, <3>3, StaleFooterKept
  <2> QED BY <1>8, <2>5, <2>6
<1>9. CASE q # 0
  <2>1. HeaderCells(q, moved[q]) /\ (moved[q] = 0 => HeaderSum(q) /\ FooterSum(q))
    BY <1>9 DEF Kept
  <2>2. file[Base(q) + CUR_AT] = Num(PHDR_SIZE + moved[q])
    <3>1. CUR_AT \in 0..PHDR_SIZE-2
      BY Sizes
    <3> QED BY <2>1, <3>1 DEF HeaderCells
  <2>3. file'[Base(q) + CUR_AT] = Num(PHDR_SIZE + moved'[q])
    BY <1>1, <1>3, <1>4, <2>2, Sizes
  <2>4. HeaderCells(q, moved[q])'
    <3>1. \A c \in 0..PHDR_SIZE-2 : c # CUR_AT => file'[Base(q) + c] = file[Base(q) + c]
      BY <1>6, Sizes
    <3> QED BY <2>1, <2>3, <3>1, <1>1 DEF HeaderCells
  <2>5. ASSUME moved'[q] = 0 PROVE HeaderSum(q)' /\ FooterSum(q)'
    <3>1. n = 0 /\ moved[q] = 0
      BY <1>1, <1>3, <2>5
    <3>2. Num(PHDR_SIZE + moved[q])[1] = "num"
          /\ Num(PHDR_SIZE + moved[q])[2] = PHDR_SIZE + moved[q] /\ PHDR_SIZE + moved[q] \in Nat
      BY <1>3, Sizes DEF Num
    <3>3. Touches({}, {})
      BY <1>7, <2>2, <3>1, <3>2
    <3>4. HeaderSum(q) /\ FooterSum(q)
      BY <2>1, <3>1
    <3> QED BY <1>1, <3>3, <3>4, HeaderSumKept, FooterSumKept
  <2> QED BY <1>9, <2>4, <2>5
<1> QED BY <1>8, <1>9

LEMMA AccessFormat ==
  ASSUME MappingInv, NoWrap, FormatInv, NEW n \in Lens, AccessOf(n),
         UNCHANGED <<step, page>>, step = "idle"
  PROVE  FormatInv'
<1>1. CASE UNCHANGED <<file, moved, raw>>
  BY <1>1, FormatUnchanged
<1>2. ASSUME Accepts(obj.idx, obj.cur, n), GoesOn(obj.idx, obj.cur, n), Advance(n), UNCHANGED raw,
             \/ file' = Bumped(file, obj.idx, n)
             \/ file' = Bumped(Written(Places(obj.idx, obj.cur, n)), obj.idx, n)
      PROVE  FormatInv'
  <2> DEFINE S == {CUR_AT} \cup obj.cur..obj.cur+n-1
  <2>1. /\ n \in Nat /\ obj.idx \in Pages /\ obj.cur \in FHDR_SIZE..PAGE_SIZE-1
        /\ moved' = [moved EXCEPT ![obj.idx] = @ + n] /\ moved \in [Pages -> Nat]
    BY <1>2, AtCursor DEF MappingInv
  <2>2. Touches({obj.idx}, S)
    <3>1. Touches({obj.idx}, {CUR_AT}) \/ Touches({obj.idx}, S)
      BY <1>2, ReadTouches, WriteTouches
    <3> QED BY <3>1 DEF Touches
  <2>3. 0 \notin S
    BY <2>1, Sizes
  <2> HIDE DEF S
  <2>4. InUse' => \A p \in Pages : Kept(p)'
    <3> SUFFICES ASSUME InUse', NEW p \in Pages PROVE Kept(p)'
      OBVIOUS
    <3>1. Kept(p)
      BY <2>2, <2>3, FirstPlaceKept DEF FormatInv
    <3>2. CASE p = obj.idx
      BY <1>2, <3>1, <3>2, CursorKept
    <3>3. CASE p # obj.idx
      <4>1. moved'[p] = moved[p]
        BY <2>1, <3>3
      <4> QED BY <1>2, <2>2, <3>1, <3>3, <4>1, OtherPageKept
    <3> QED BY <3>2, <3>3
  <2> QED BY <2>4, IdleFormat
<1>3. ASSUME NEW w \in SUBSET Int, obj.mapped, file' = Written(w), raw' = raw \cup w, UNCHANGED moved
      PROVE  FormatInv'
  <2>1. FullFile /\ raw \subseteq Int /\ raw' \subseteq Int
    BY <1>3 DEF MappingInv
  <2>2. Touches(PagesOf(w), 0..PAGE_SIZE-1)
    BY <1>3, <2>1, WrittenTouches
  <2>3. InUse' => InUse
    <3>1. 0 \in DOMAIN file
      BY <2>1, FirstPlace, PageBelow, Sizes DEF FullFile
    <3>2. file'[0] = Byte(calls + 1) \/ file'[0] = file[0]
      BY <1>3, <3>1 DEF Written
    <3> QED BY <2>1, <3>2, Structures DEF InUse
  <2>4. InUse' => \A q \in Pages : Kept(q)'
    <3> SUFFICES ASSUME InUse', NEW q \in Pages PROVE Kept(q)'
      OBVIOUS
    <3>1. Kept(q) /\ (q \notin PagesOf(raw') => q \notin PagesOf(raw) /\ q \notin PagesOf(w))
      BY <1>3, <2>3 DEF FormatInv, PagesOf
    <3>2. CASE q \notin PagesOf(w)
      BY <1>3, <2>2, <3>1, <3>2, OtherPageKept
    <3>3. CASE q \in PagesOf(w)
      BY <3>1, <3>3 DEF Kept, PagesOf
    <3> QED BY <3>2, <3>3
  <2> QED BY <2>4, IdleFormat
<1>4. CASE LetsBe
  BY <1>1, <1>4 DEF LetsBe
<1>5. CASE ReadsOn(n) \/ WritesOn(n)
  BY <1>2, <1>5 DEF ReadsOn, WritesOn, AtTheCursor
<1>6. ASSUME NEW w \in SUBSET Int, obj.mapped, Strays(w) PROVE FormatInv'
  BY <1>3, <1>6 DEF Strays
<1>7. ASSUME NEW w \in SUBSET Int, WritesRaw(w) PROVE FormatInv'
  BY <1>3, <1>7 DEF WritesRaw
<1> QED BY <1>4, <1>5, <1>6, <1>7, AccessIs

-----------------------------------------------------------------------------
(***************************************************************************)
(* The program's stores.                                                   *)
(***************************************************************************)
LEMMA FreshIsKept ==
  ASSUME NEW p \in Pages, Fresh(p), p = 0 => FileHeaderCells(0)
  PROVE  Kept(p)
BY DEF Fresh, Kept

LEMMA PageHeaderStored ==
  ASSUME MappingInv, FullFile, NEW p \in Pages,
         file' = Summed(Stored(file, Base(p), PageHeader(p)), Base(p), PHDR_SIZE - 1)
  PROVE  Touches({p}, 0..PHDR_SIZE-1) /\ HeaderCells(p, 0)' /\ HeaderSum(p)'
<1> DEFINE b == Base(p)
           hdr == PageHeader(p)
           g == Stored(file, b, hdr)
           s == Sum(Cells(g, b, PHDR_SIZE - 1))
<1>1. /\ b \in Nat /\ b + PAGE_SIZE <= Base(page_count) /\ Base(page_count) \in Nat /\ p \in Nat
  BY PageBelow
<1>2. DOMAIN g = DOMAIN file /\ file' = [g EXCEPT ![b + (PHDR_SIZE - 1)] = s]
  BY DEF Stored, Summed
<1>3. DOMAIN hdr = 0..PHDR_SIZE-2
  BY DEF PageHeader
<1>4. \A c \in 0..PHDR_SIZE-2 :
        hdr[c] = IF c = CUR_AT THEN Num(PHDR_SIZE) ELSE Field("phdr", c, p)
  BY DEF PageHeader
<1>5. \A a \in DOMAIN file : g[a] = IF a - b \in 0..PHDR_SIZE-2 THEN hdr[a - b] ELSE file[a]
  BY <1>3 DEF Stored
<1> HIDE DEF b, hdr, g, s
<1>6. \A q \in Pages, c \in 0..PAGE_SIZE-1 : Base(q) + c \in 0..Base(page_count)-1
  BY PageBelow, Sizes
<1>7. ASSUME NEW q \in Pages, NEW c \in 0..PAGE_SIZE-1, p # q \/ c \notin 0..PHDR_SIZE-1
      PROVE  file'[Base(q) + c] = file[Base(q) + c]
  <2> DEFINE a == Base(q) + c
             d == a - b
  <2>1. a \in DOMAIN file /\ a \in Nat /\ q \in Nat /\ Base(q) \in Nat
    <3>1. a \in 0..Base(page_count)-1
      BY <1>6
    <3> QED BY <1>1, <3>1, PageBelow DEF FullFile
  <2>2. d \notin 0..PHDR_SIZE-1
    <3> SUFFICES ASSUME d \in 0..PHDR_SIZE-1 PROVE FALSE
      OBVIOUS
    <3>1. d \in 0..PAGE_SIZE-1 /\ Base(p) + d = Base(q) + c
      BY <1>1, <2>1, Sizes DEF b
    <3> HIDE DEF d
    <3>2. p = q /\ d = c
      BY <1>1, <2>1, <3>1, OnePage
    <3> QED BY <1>7, <3>2
  <2>3. d \notin 0..PHDR_SIZE-2 /\ a # b + (PHDR_SIZE - 1)
    BY <1>1, <2>1, <2>2, Sizes
  <2> HIDE DEF a
  <2>4. g[a] = file[a]
    BY <1>5, <2>1, <2>3
  <2> QED BY <1>2, <2>1, <2>3, <2>4 DEF a
<1>8. \A c \in 0..PHDR_SIZE-2 : g[b + c] = hdr[c] /\ file'[b + c] = hdr[c]
  <2> SUFFICES ASSUME NEW c \in 0..PHDR_SIZE-2 PROVE g[b + c] = hdr[c] /\ file'[b + c] = hdr[c]
    OBVIOUS
  <2>1. b + c \in DOMAIN file /\ (b + c) - b = c /\ b + c # b + (PHDR_SIZE - 1)
    <3>1. c \in 0..PAGE_SIZE-1
      BY Sizes
    <3>2. b + c \in DOMAIN file
      BY <1>6, <3>1 DEF FullFile, b
    <3> QED BY <1>1, <3>2, Sizes
  <2> QED BY <1>2, <1>5, <2>1
<1>9. Cells(file', b, PHDR_SIZE - 1) = Cells(g, b, PHDR_SIZE - 1)
  <2>1. \A c \in 0..PHDR_SIZE-1-1 : file'[b + c] = g[b + c]
    BY <1>8, Sizes
  <2> QED BY <2>1 DEF Cells
<1>10. file'[b + PHDR_SIZE - 1] = s
  <2>1. b + (PHDR_SIZE - 1) \in DOMAIN file /\ b + (PHDR_SIZE - 1) = b + PHDR_SIZE - 1
    <3>1. PHDR_SIZE - 1 \in 0..PAGE_SIZE-1
      BY Sizes
    <3> QED BY <1>1, <1>6, <3>1, Sizes DEF b, FullFile
  <2> QED BY <1>2, <2>1
<1>11. HeaderCells(p, 0)'
  <2>1. PHDR_SIZE + 0 = PHDR_SIZE
    BY Sizes
  <2> QED BY <1>4, <1>8, <2>1 DEF HeaderCells, b
<1>12. HeaderSum(p)'
  BY <1>9, <1>10 DEF HeaderSum, s, b
<1>13. Touches({p}, 0..PHDR_SIZE-1)
  BY <1>2, <1>7 DEF Touches
<1> QED BY <1>11, <1>12, <1>13

LEMMA FooterStored ==
  ASSUME MappingInv, FullFile, NEW p \in Pages,
         file' = [file EXCEPT ![FooterSumAt(p)] = Sum(Cells(file, Base(p), PAGE_SIZE - FTR_SIZE)),
                              ![FooterSumAt(p) + 1] = FooterMagic]
  PROVE  /\ Touches({p}, PAGE_SIZE-FTR_SIZE..PAGE_SIZE-FTR_SIZE+1)
         /\ file'[FooterSumAt(p)] = Sum(Cells(file, Base(p), PAGE_SIZE - FTR_SIZE))
         /\ FooterSum(p)'
<1> DEFINE x == FooterSumAt(p)
           t == PAGE_SIZE - FTR_SIZE
           s == Sum(Cells(file, Base(p), t))
<1>1. /\ t \in 0..PAGE_SIZE-1 /\ t + 1 \in 0..PAGE_SIZE-1 /\ x = Base(p) + t
      /\ x + 1 = Base(p) + (t + 1) /\ x \in DOMAIN file /\ x + 1 \in DOMAIN file /\ x \in Nat
      /\ t \in 0..PAGE_SIZE
  <2>1. /\ t \in 0..PAGE_SIZE-1 /\ t + 1 \in 0..PAGE_SIZE-1 /\ x = Base(p) + t
        /\ x + 1 = Base(p) + (t + 1)
        /\ x \in 0..Base(page_count)-1 /\ x + 1 \in 0..Base(page_count)-1
    BY FooterPlace
  <2> HIDE DEF x, t
  <2>2. t \in 0..PAGE_SIZE
    BY <2>1, Sizes
  <2>3. x \in Nat
    BY <2>1, PageBelow
  <2> QED BY <2>1, <2>2, <2>3 DEF FullFile
<1>2. file' = [file EXCEPT ![x] = s, ![x + 1] = FooterMagic]
  OBVIOUS
<1> HIDE DEF x, t, s
<1>3. /\ DOMAIN file' = DOMAIN file /\ file'[x] = s /\ file'[x + 1] = FooterMagic
      /\ \A a \in DOMAIN file : a # x /\ a # x + 1 => file'[a] = file[a]
  BY <1>1, <1>2
<1>4. ASSUME NEW q \in Pages, NEW c \in 0..PAGE_SIZE-1, q # p \/ c \notin t..t+1
      PROVE  file'[Base(q) + c] = file[Base(q) + c]
  <2>1. q \in Nat /\ p \in Nat /\ t \in t..t+1 /\ t + 1 \in t..t+1
    BY <1>1, PageBelow
  <2>2. Base(q) + c # Base(p) + t /\ Base(q) + c # Base(p) + (t + 1)
    BY <1>1, <1>4, <2>1, OnePage
  <2>3. Base(q) + c \in 0..Base(page_count)-1
    BY PageBelow, Sizes
  <2> QED BY <1>1, <1>3, <2>2, <2>3 DEF FullFile
<1>5. Touches({p}, t..t+1)
  BY <1>3, <1>4 DEF Touches
<1>6. Cells(file', Base(p), t) = Cells(file, Base(p), t)
  <2>1. \A c \in 0..t-1 : c \in 0..PAGE_SIZE-1 /\ c \notin t..t+1
    BY <1>1, Sizes
  <2>2. \A c \in 0..t-1 : file'[Base(p) + c] = file[Base(p) + c]
    BY <1>4, <2>1
  <2> QED BY <2>2 DEF Cells
<1>7. FooterSum(p)'
  BY <1>3, <1>6 DEF FooterSum, x, s, t
<1> QED BY <1>3, <1>5, <1>7 DEF x, s, t

LEMMA FileHeaderStored ==
  ASSUME MappingInv, FullFile, file' = Stored(file, 0, FileHeader(page_count))
  PROVE  Touches({0}, 0..FHDR_SIZE-2) /\ FileHeaderCells(0)'
<1> DEFINE hdr == FileHeader(page_count)
<1>1. DOMAIN hdr = 0..FHDR_SIZE-2
  BY DEF FileHeader
<1>2. \A c \in 0..FHDR_SIZE-2 :
        hdr[c] = IF c = CUR_AT THEN Num(page_count * HalfMod) ELSE Field("fhdr", c, 0)
  BY DEF FileHeader
<1> HIDE DEF hdr
<1>3. DOMAIN file' = DOMAIN file /\ file' = Stored(file, 0, hdr)
  BY DEF Stored, hdr
<1>4. \A a \in DOMAIN file : file'[a] = IF a - 0 \in 0..FHDR_SIZE-2 THEN hdr[a - 0] ELSE file[a]
  BY <1>1, <1>3 DEF Stored
<1>5. \A a \in DOMAIN file : file'[a] = IF a \in 0..FHDR_SIZE-2 THEN hdr[a] ELSE file[a]
  <2>1. \A a \in DOMAIN file : a - 0 = a
    BY PageBelow, FirstPlace DEF FullFile
  <2> QED BY <1>4, <2>1
<1>6. ASSUME NEW q \in Pages, NEW c \in 0..PAGE_SIZE-1, q # 0 \/ c \notin 0..FHDR_SIZE-2
      PROVE  file'[Base(q) + c] = file[Base(q) + c]
  <2> DEFINE a == Base(q) + c
  <2>1. a \in DOMAIN file /\ a \in Nat
    <3>1. a \in 0..Base(page_count)-1
      BY PageBelow, Sizes
    <3> QED BY <3>1, PageBelow DEF FullFile
  <2>2. a \notin 0..FHDR_SIZE-2
    <3> SUFFICES ASSUME a \in 0..FHDR_SIZE-2 PROVE FALSE
      OBVIOUS
    <3>1. a \in 0..PAGE_SIZE-1 /\ Base(0) + a = Base(q) + c /\ q \in Nat
      BY <2>1, FirstPlace, PageBelow, Sizes
    <3> HIDE DEF a
    <3>2. 0 = q /\ a = c
      BY <3>1, OnePage
    <3> QED BY <1>6, <3>2
  <2> HIDE DEF a
  <2>3. file'[a] = file[a]
    BY <1>5, <2>1, <2>2
  <2> QED BY <2>3 DEF a
<1>7. \A c \in 0..FHDR_SIZE-2 : c \in DOMAIN file
  BY FirstPlace, PageBelow, Sizes DEF FullFile
<1>8. FileHeaderCells(0)'
  <2>1. page_count * HalfMod + 0 = page_count * HalfMod
    <3> DEFINE m == page_count * HalfMod
    <3>1. m \in Nat
      BY Sizes
    <3> HIDE DEF m
    <3>2. m + 0 = m
      BY <3>1
    <3> QED BY <3>2 DEF m
  <2> QED BY <1>2, <1>5, <1>7, <2>1 DEF FileHeaderCells
<1> QED BY <1>3, <1>6, <1>8 DEF Touches

LEMMA FileSumStored ==
  ASSUME MappingInv, FullFile, file' = Summed(file, 0, FHDR_SIZE - 1)
  PROVE  Touches({0}, {FHDR_SIZE - 1})
<1> DEFINE s == Sum(Cells(file, 0, FHDR_SIZE - 1))
<1>1. file' = [file EXCEPT ![0 + (FHDR_SIZE - 1)] = s]
  BY DEF Summed
<1> HIDE DEF s
<1>2. ASSUME NEW q \in Pages, NEW c \in 0..PAGE_SIZE-1, q # 0 \/ c \notin {FHDR_SIZE - 1}
      PROVE  file'[Base(q) + c] = file[Base(q) + c]
  <2>1. FHDR_SIZE - 1 \in 0..PAGE_SIZE-1 /\ Base(0) + (FHDR_SIZE - 1) = 0 + (FHDR_SIZE - 1)
        /\ q \in Nat
    BY FirstPlace, PageBelow, Sizes
  <2>2. Base(q) + c # Base(0) + (FHDR_SIZE - 1)
    BY <1>2, <2>1, OnePage
  <2>3. Base(q) + c \in DOMAIN file
    <3>1. Base(q) + c \in 0..Base(page_count)-1
      BY PageBelow, Sizes
    <3> QED BY <3>1 DEF FullFile
  <2> QED BY <1>1, <2>1, <2>2, <2>3
<1> QED BY <1>1, <1>2 DEF Touches

LEMMA FormatStepInv ==
  ASSUME MappingInv, MappingInv', FormatInv, FormatStep
  PROVE  FormatInv'
<1>1. step # "idle" /\ FullFile /\ page \in Pages /\ page \in Nat
  <2>1. step # "idle"
    BY DEF FormatStep, FillPageHeader, FillPageFooter, FillFileHeader, SumFileHeader, Stores
  <2> QED BY <2>1, PageBelow DEF MappingInv
<1>2. CASE FillPageHeader
  <2>1. /\ step = "header" /\ step' = "footer" /\ page' = page /\ UNCHANGED <<moved, raw>>
        /\ file' = Summed(Stored(file, Base(page), PageHeader(page)), Base(page), PHDR_SIZE - 1)
    BY <1>2 DEF FillPageHeader, Stores
  <2> DEFINE p == page
  <2>2. Touches({p}, 0..PHDR_SIZE-1) /\ HeaderCells(page, 0)' /\ HeaderSum(page)'
    <3>1. \A q \in Pages : q = page =>
            Touches({q}, 0..PHDR_SIZE-1) /\ HeaderCells(q, 0)' /\ HeaderSum(q)'
      BY <1>1, <2>1, PageHeaderStored
    <3> QED BY <1>1, <2>1, <3>1 DEF HeaderCells, HeaderSum
  <2>3. \A q \in 0..page'-1 : Fresh(q)'
    <3> SUFFICES ASSUME NEW q \in 0..page-1 PROVE Fresh(q)'
      BY <2>1
    <3>1. q \in Pages /\ q # page
      BY <1>1, Sizes DEF Pages
    <3>2. Fresh(q)
      BY <2>1 DEF FormatInv
    <3> QED BY <2>1, <2>2, <3>1, <3>2, OtherPageFresh
  <2>4. ~InUse'
    <3>1. CASE page = 0
      <4>1. 0 \in 0..PHDR_SIZE-2 /\ 0 # CUR_AT
        BY Sizes
      <4>2. file'[Base(0) + 0] = Field("phdr", 0, 0)
        BY <2>1, <2>2, <3>1, <4>1 DEF HeaderCells
      <4> QED BY <4>2, FirstPlace, Structures DEF InUse
    <3>2. CASE page # 0
      <4>1. ~InUse
        BY <2>1, <3>2 DEF FormatInv
      <4> QED BY <2>2, <3>2, <4>1, FirstPlaceKept
    <3> QED BY <3>1, <3>2
  <2> QED BY <2>1, <2>2, <2>3, <2>4 DEF FormatInv
<1>3. CASE FillPageFooter
  <2> DEFINE p == page
             S == PAGE_SIZE-FTR_SIZE..PAGE_SIZE-FTR_SIZE+1
  <2>1. /\ step = "footer"
        /\ file' = [file EXCEPT ![FooterSumAt(p)] = Sum(Cells(file, Base(p), PAGE_SIZE - FTR_SIZE)),
                                ![FooterSumAt(p) + 1] = FooterMagic]
        /\ moved' = [moved EXCEPT ![p] = 0] /\ raw' = raw \ Places(p, 0, PAGE_SIZE)
        /\ IF p = LastPage THEN step' = "fileheader" /\ page' = 0
           ELSE step' = "header" /\ page' = p + 1
    BY <1>3 DEF FillPageFooter, Stores
  <2>2. HeaderCells(p, 0) /\ HeaderSum(p) /\ \A q \in 0..p-1 : Fresh(q)
    BY <2>1 DEF FormatInv
  <2>3. /\ Touches({p}, S)
        /\ file'[FooterSumAt(p)] = Sum(Cells(file, Base(p), PAGE_SIZE - FTR_SIZE))
        /\ \A q \in Pages : q = p => FooterSum(q)'
    BY <1>1, <2>1, FooterStored
  <2>4. moved \in [Pages -> Nat] /\ raw \subseteq Int
    BY DEF MappingInv
  <2>5. S \cap 0..PHDR_SIZE-1 = {} /\ S \cap 0..PHDR_SIZE-2 = {} /\ 0 \notin S
    BY Sizes
  <2>6. \A q \in Pages : q = p => Fresh(q)'
    <3> SUFFICES ASSUME NEW q \in Pages, q = p PROVE Fresh(q)'
      OBVIOUS
    <3>1. moved'[q] = 0
      BY <2>1, <2>4
    <3>2. q \notin PagesOf(raw')
      <4>1. \A c \in 0..PAGE_SIZE-1 : Base(q) + c \in Places(p, 0, PAGE_SIZE)
        BY PageBelow, Sizes DEF Places
      <4>2. \A c \in 0..PAGE_SIZE-1 : Base(q) + c \notin raw'
        BY <2>1, <4>1
      <4>3. raw' \subseteq Int
        BY <2>1, <2>4
      <4> QED BY <4>2, <4>3, InPagesOf
    <3>3. HeaderCells(q, 0)' /\ HeaderSum(q)'
      <4>1. HeaderSum(q)'
        BY <2>2, <2>3, <2>5, HeaderSumKept
      <4>2. HeaderCells(q, 0)'
        <5>1. HeaderCells(q, 0) /\ Touches({q}, S)
          BY <2>2, <2>3
        <5> HIDE DEF S
        <5>2. \A c \in 0..PHDR_SIZE-2 :
                file'[Base(q) + c] = IF c = CUR_AT THEN Num(PHDR_SIZE + 0) ELSE Field("phdr", c, q)
          BY <2>5, <5>1, HeaderKept
        <5> QED BY <5>2 DEF HeaderCells
      <4> QED BY <4>1, <4>2
    <3>4. ASSUME q = 0 PROVE StaleFooter'
      <4> DEFINE cells == Cells(file, Base(p), PAGE_SIZE - FTR_SIZE)
      <4>1. 0 \in 0..PAGE_SIZE-FTR_SIZE-1 /\ 0 \in 0..PHDR_SIZE-2 /\ 0 # CUR_AT
        BY Sizes
      <4>2. cells[0] = Field("phdr", 0, 0)
        BY <2>2, <3>4, <4>1 DEF Cells, HeaderCells
      <4> HIDE DEF cells
      <4>3. file'[FooterSumAt(0)] = Sum(cells)
        BY <2>3, <3>4 DEF cells
      <4>4. Sum(cells)[1] = "crc" /\ Sum(cells)[3] = cells
        BY DEF Sum
      <4> QED BY <4>2, <4>3, <4>4 DEF StaleFooter
    <3>5. FooterSum(q)'
      BY <2>3
    <3> QED BY <3>1, <3>2, <3>3, <3>4, <3>5 DEF Fresh, PagesOf
  <2>7. \A q \in 0..p-1 : Fresh(q)'
    <3> SUFFICES ASSUME NEW q \in 0..p-1 PROVE Fresh(q)'
      OBVIOUS
    <3>1. q \in Pages /\ q # p /\ Fresh(q)
      BY <1>1, <2>2, Sizes DEF Pages
    <3>2. moved'[q] = moved[q]
      BY <2>1, <2>4, <3>1
    <3>3. q \notin PagesOf(raw) => q \notin PagesOf(raw')
      BY <2>1 DEF PagesOf
    <3> QED BY <2>3, <3>1, <3>2, <3>3, OtherPageFresh
  <2>8. ~InUse'
    <3>1. ~InUse
      BY <2>1 DEF FormatInv
    <3> QED BY <2>3, <2>5, <3>1, FirstPlaceKept
  <2>9. CASE p = LastPage
    <3>1. \A q \in Pages : q = p \/ q \in 0..p-1
      BY <1>1, <2>9, Sizes DEF LastPage, Pages
    <3>2. \A q \in Pages : Fresh(q)'
      BY <2>6, <2>7, <3>1
    <3> QED BY <2>1, <2>8, <2>9, <3>2 DEF FormatInv
  <2>10. CASE p # LastPage
    <3>1. \A q \in 0..page'-1 : q = p \/ q \in 0..p-1
      BY <1>1, <2>1, <2>10
    <3>2. \A q \in 0..page'-1 : Fresh(q)'
      BY <1>1, <2>6, <2>7, <3>1
    <3> QED BY <2>1, <2>8, <2>10, <3>2 DEF FormatInv
  <2> QED BY <2>9, <2>10
<1>4. ASSUME \A p \in Pages : Fresh(p), UNCHANGED <<moved, raw>>, FileHeaderCells(0)',
             NEW S, Touches({0}, S), PAGE_SIZE - FTR_SIZE \notin S
      PROVE  \A p \in Pages : Fresh(p)' /\ Kept(p)'
  <2> SUFFICES ASSUME NEW p \in Pages PROVE Fresh(p)' /\ Kept(p)'
    OBVIOUS
  <2>1. Fresh(p)'
    <3>1. CASE p # 0
      BY <1>4, <3>1, OtherPageFresh
    <3>2. CASE p = 0
      <4>1. StaleFooter'
        BY <1>4, <3>2, StaleFooterKept DEF Fresh
      <4> QED BY <1>4, <3>2, <4>1 DEF Fresh, PagesOf
    <3> QED BY <3>1, <3>2
  <2>2. Kept(p)'
    <3>1. p = 0 => FileHeaderCells(0)'
      BY <1>4
    <3> QED BY <2>1, <3>1 DEF Fresh, Kept
  <2> QED BY <2>1, <2>2
<1>5. CASE FillFileHeader
  <2>1. /\ step = "fileheader" /\ step' = "filesum" /\ UNCHANGED <<moved, raw>>
        /\ file' = Stored(file, 0, FileHeader(page_count))
    BY <1>5 DEF FillFileHeader, Stores
  <2>2. \A p \in Pages : Fresh(p)
    BY <2>1 DEF FormatInv
  <2>3. Touches({0}, 0..FHDR_SIZE-2) /\ FileHeaderCells(0)'
    BY <1>1, <2>1, FileHeaderStored
  <2>4. PAGE_SIZE - FTR_SIZE \notin 0..FHDR_SIZE-2
    BY Sizes
  <2>5. \A p \in Pages : Fresh(p)' /\ Kept(p)'
    BY <1>4, <2>1, <2>2, <2>3, <2>4
  <2> QED BY <2>1, <2>3, <2>5 DEF FormatInv
<1>6. CASE SumFileHeader
  <2>1. /\ step = "filesum" /\ step' = "idle" /\ UNCHANGED <<moved, raw>>
        /\ file' = Summed(file, 0, FHDR_SIZE - 1)
    BY <1>6 DEF SumFileHeader
  <2>2. (\A p \in Pages : Fresh(p)) /\ FileHeaderCells(0)
    BY <2>1 DEF FormatInv
  <2>3. Touches({0}, {FHDR_SIZE - 1})
    BY <1>1, <2>1, FileSumStored
  <2>4. PAGE_SIZE - FTR_SIZE \notin {FHDR_SIZE - 1}
    BY Sizes
  <2>5. FileHeaderCells(0)'
    <3>1. {FHDR_SIZE - 1} \cap 0..FHDR_SIZE-2 = {}
      BY Sizes
    <3> QED BY <2>2, <2>3, <3>1, FileHeaderKept DEF FileHeaderCells
  <2>6. \A p \in Pages : Kept(p)'
    BY <1>4, <2>1, <2>2, <2>3, <2>4, <2>5
  <2> QED BY <2>1, <2>6, IdleFormat
<1> QED BY <1>2, <1>3, <1>5, <1>6 DEF FormatStep

LEMMA ResizedKept ==
  ASSUME MappingInv, FormatInv, file' = Resized, UNCHANGED <<moved, raw>>
  PROVE  InUse' => \A p \in Pages : Kept(p)'
<1>1. CASE FullFile
  <2>1. DOMAIN file' = DOMAIN file /\ \A a \in DOMAIN file : file'[a] = file[a]
    BY <1>1 DEF Resized, FullFile
  <2>2. \A p \in Pages, c \in 0..PAGE_SIZE-1 : Base(p) + c \in DOMAIN file
    <3> SUFFICES ASSUME NEW p \in Pages, NEW c \in 0..PAGE_SIZE-1 PROVE Base(p) + c \in DOMAIN file
      OBVIOUS
    <3>1. Base(p) + c \in 0..Base(page_count)-1
      BY PageBelow, Sizes
    <3> QED BY <1>1, <3>1 DEF FullFile
  <2>3. Touches({}, {})
    BY <1>1, <2>1, <2>2 DEF Touches
  <2>4. InUse => \A p \in Pages : Kept(p)
    BY DEF FormatInv
  <2> QED BY <2>3, <2>4, AllKept
<1>2. CASE DOMAIN file = {}
  <2>1. 0 \in 0..Base(page_count)-1
    BY FirstPlace, PageBelow, Sizes
  <2>2. file'[0] = Zero
    BY <1>2, <2>1 DEF Resized
  <2> QED BY <2>2, Structures DEF InUse
<1> QED BY <1>1, <1>2 DEF MappingInv

LEMMA FormatInit == Init => FormatInv
<1> SUFFICES ASSUME Init PROVE FormatInv
  OBVIOUS
<1>1. DOMAIN file = {} /\ step = "idle"
  BY DEF Init, NoFile
<1>2. 0 \in 0..Base(page_count)-1
  BY FirstPlace, PageBelow, Sizes
<1>3. ~InUse
  BY <1>1, <1>2 DEF InUse, FullFile
<1> QED BY <1>1, <1>3 DEF FormatInv

LEMMA FormatInvStep == NoWrap /\ MappingInv /\ FormatInv /\ [Next]_vars => FormatInv'
<1> SUFFICES ASSUME NoWrap, MappingInv, FormatInv, [Next]_vars PROVE FormatInv'
  OBVIOUS
<1>1. MappingInv'
  BY MappingStep
<1>2. CASE UNCHANGED vars
  BY <1>2, FormatUnchanged DEF vars
<1>3. ASSUME NEW args \in MapArgs, Map(args[1], args[2]) PROVE FormatInv'
  BY <1>3, FormatUnchanged DEF Map
<1>4. CASE Unmap
  BY <1>4, FormatUnchanged DEF Unmap
<1>5. ASSUME NEW p \in 0..page_count, Goto(p), UNCHANGED <<step, page>> PROVE FormatInv'
  BY <1>5, FormatUnchanged DEF Goto, Fails
<1>6. ASSUME NEW n \in Lens, AccessOf(n), Idle, UNCHANGED <<step, page>> PROVE FormatInv'
  BY <1>6, AccessFormat DEF Idle
<1>7. CASE Format
  <2>1. UNCHANGED <<moved, raw>> /\ step = "idle"
    BY <1>7 DEF Format, Idle
  <2>2. CASE UNCHANGED <<file, step, page>>
    BY <2>1, <2>2, FormatUnchanged
  <2>3. CASE file' = Resized /\ (UNCHANGED step \/ (step' = "header" /\ page' = 0))
    <3>1. InUse' => \A p \in Pages : Kept(p)'
      BY <2>1, <2>3, ResizedKept
    <3> QED BY <2>1, <2>3, <3>1, IdleFormat
  <2> QED BY <1>7, <2>2, <2>3 DEF Format
<1>8. CASE FormatStep
  BY <1>1, <1>8, FormatStepInv
<1>9. CASE Kill
  <2>1. step' = "idle" /\ UNCHANGED <<file, moved, raw>>
    BY <1>9 DEF Kill
  <2>2. InUse => \A p \in Pages : Kept(p)
    BY DEF FormatInv
  <2>3. InUse' => \A p \in Pages : Kept(p)'
    BY <2>1, <2>2 DEF InUse, FullFile, Kept, HeaderCells, FileHeaderCells, HeaderSum,
                      FooterSum, StaleFooter, PagesOf
  <2> QED BY <2>1, <2>3, IdleFormat
<1> QED BY <1>2, <1>3, <1>4, <1>5, <1>6, <1>7, <1>8, <1>9 DEF Next

(***************************************************************************)
(* A file without cells is the file there was at first.                    *)
(***************************************************************************)
EmptyInv == DOMAIN file = {} => file = NoFile

LEMMA EmptyStep == MappingInv /\ EmptyInv /\ [Next]_vars => EmptyInv'
<1> SUFFICES ASSUME MappingInv, EmptyInv, [Next]_vars PROVE EmptyInv'
  OBVIOUS
<1>1. 0 \in 0..Base(page_count)-1
  BY FirstPlace, PageBelow, Sizes
<1>2. CASE UNCHANGED file
  BY <1>2 DEF EmptyInv
<1>3. CASE file' = Resized
  BY <1>1, <1>3 DEF Resized, EmptyInv
<1>4. CASE obj.mapped /\ DOMAIN file' = DOMAIN file
  BY <1>1, <1>4 DEF MappingInv, FullFile, EmptyInv
<1>5. ASSUME NEW n \in Lens, AccessOf(n) PROVE EmptyInv'
  <2>1. CASE ReadsOn(n) \/ WritesOn(n)
    BY <2>1, <1>4 DEF ReadsOn, WritesOn, AtTheCursor, Bumped, Accepts, Written
  <2>2. ASSUME NEW w, (obj.mapped /\ Strays(w)) \/ WritesRaw(w) PROVE EmptyInv'
    BY <2>2, <1>4 DEF Strays, WritesRaw, Written
  <2> QED BY <1>2, <1>5, <2>1, <2>2, AccessIs DEF LetsBe
<1>6. CASE FormatStep
  <2>1. obj.mapped
    BY <1>6 DEF FormatStep, FillPageHeader, FillPageFooter, FillFileHeader, SumFileHeader,
                Stores, MappingInv
  <2>2. DOMAIN file' = DOMAIN file
    BY <1>6 DEF FormatStep, FillPageHeader, FillPageFooter, FillFileHeader, SumFileHeader,
                Stores, Stored, Summed
  <2> QED BY <1>4, <2>1, <2>2
<1>7. CASE Format
  BY <1>2, <1>3, <1>7 DEF Format
<1>8. ASSUME NEW args \in MapArgs, Map(args[1], args[2]) PROVE EmptyInv'
  BY <1>2, <1>8 DEF Map
<1>9. ASSUME NEW p \in 0..page_count, Goto(p) PROVE EmptyInv'
  BY <1>2, <1>9 DEF Goto, Fails
<1>10. CASE Unmap \/ Kill \/ UNCHANGED vars
  BY <1>2, <1>10 DEF Unmap, Kill, vars
<1> QED BY <1>5, <1>6, <1>7, <1>8, <1>9, <1>10 DEF Next

-----------------------------------------------------------------------------
LEMMA PageInvs ==
  ASSUME NoWrap
  PROVE  Spec => [](MappingInv /\ PutInv /\ FormatInv /\ EmptyInv)
<1>1. Init => MappingInv /\ PutInv /\ FormatInv /\ EmptyInv
  BY MappingInit, PutInit, FormatInit DEF Init, EmptyInv
<1>2. MappingInv /\ PutInv /\ FormatInv /\ EmptyInv /\ [Next]_vars
        => (MappingInv /\ PutInv /\ FormatInv /\ EmptyInv)'
  BY MappingStep, PutStep, FormatInvStep, EmptyStep
<1> QED BY <1>1, <1>2, PTL DEF Spec

(***************************************************************************)
(* What was written at the cursor stays where it was written until page 0  *)
(* is entered again (page.c 105-109), for files and lengths whose offsets  *)
(* do not wrap.                                                            *)
(***************************************************************************)
THEOREM CursorDataStays == ASSUME NoWrap PROVE Spec => []CursorDataKept
<1>1. PutInv => CursorDataKept
  BY DEF PutInv, CursorDataKept
<1> QED BY <1>1, PageInvs, PTL

LEMMA HeadersCount ==
  ASSUME MappingInv, FormatInv, EmptyInv PROVE HeadersCountMoves
<1> SUFFICES ASSUME Formatted PROVE
      /\ 0 \notin PagesOf(raw) =>
           Holds(0, [FileHeader(page_count) EXCEPT ![CUR_AT] = Num(@[2] + moved[0])])
      /\ \A p \in Pages \ {0} : p \notin PagesOf(raw) =>
           Holds(Base(p), [PageHeader(p) EXCEPT ![CUR_AT] = Num(@[2] + moved[p])])
  BY DEF HeadersCountMoves
<1>1. FullFile /\ \A p \in Pages : Kept(p)
  BY DEF Formatted, MappingInv, EmptyInv, InUse, FormatInv
<1>2. ASSUME 0 \notin PagesOf(raw)
      PROVE  Holds(0, [FileHeader(page_count) EXCEPT ![CUR_AT] = Num(@[2] + moved[0])])
  <2> DEFINE hdr == FileHeader(page_count)
             cells == [hdr EXCEPT ![CUR_AT] = Num(@[2] + moved[0])]
  <2>1. FileHeaderCells(moved[0])
    BY <1>1, <1>2, FirstPlace DEF Kept
  <2>2. CUR_AT \in 0..FHDR_SIZE-2
    BY Sizes
  <2>3. /\ DOMAIN hdr = 0..FHDR_SIZE-2 /\ hdr[CUR_AT] = Num(page_count * HalfMod)
        /\ \A c \in 0..FHDR_SIZE-2 : c # CUR_AT => hdr[c] = Field("fhdr", c, 0)
    BY <2>2 DEF FileHeader
  <2>4. hdr[CUR_AT][2] = page_count * HalfMod
    BY <2>3 DEF Num
  <2> HIDE DEF hdr
  <2>5. DOMAIN cells = 0..FHDR_SIZE-2
    BY <2>3
  <2>6. \A c \in 0..FHDR_SIZE-2 :
          cells[c] = IF c = CUR_AT THEN Num(page_count * HalfMod + moved[0]) ELSE Field("fhdr", c, 0)
    BY <2>3, <2>4
  <2> HIDE DEF cells
  <2>7. \A c \in 0..FHDR_SIZE-2 : 0 + c \in DOMAIN file /\ 0 + c = c
    <3>1. Base(page_count) \in Nat /\ Base(0) + PAGE_SIZE <= Base(page_count) /\ Base(0) = 0
      BY FirstPlace, PageBelow, Sizes
    <3> QED BY <1>1, <3>1, Sizes DEF FullFile
  <2>8. Holds(0, cells)
    BY <2>1, <2>5, <2>6, <2>7 DEF Holds, FileHeaderCells
  <2> QED BY <2>8 DEF cells, hdr
<1>3. ASSUME NEW p \in Pages \ {0}, p \notin PagesOf(raw)
      PROVE  Holds(Base(p), [PageHeader(p) EXCEPT ![CUR_AT] = Num(@[2] + moved[p])])
  <2> DEFINE hdr == PageHeader(p)
             cells == [hdr EXCEPT ![CUR_AT] = Num(@[2] + moved[p])]
  <2>1. HeaderCells(p, moved[p])
    BY <1>1, <1>3 DEF Kept
  <2>2. CUR_AT \in 0..PHDR_SIZE-2
    BY Sizes
  <2>3. /\ DOMAIN hdr = 0..PHDR_SIZE-2 /\ hdr[CUR_AT] = Num(PHDR_SIZE)
        /\ \A c \in 0..PHDR_SIZE-2 : c # CUR_AT => hdr[c] = Field("phdr", c, p)
    BY <2>2 DEF PageHeader
  <2>4. hdr[CUR_AT][2] = PHDR_SIZE
    BY <2>3 DEF Num
  <2> HIDE DEF hdr
  <2>5. DOMAIN cells = 0..PHDR_SIZE-2
    BY <2>3
  <2>6. \A c \in 0..PHDR_SIZE-2 :
          cells[c] = IF c = CUR_AT THEN Num(PHDR_SIZE + moved[p]) ELSE Field("phdr", c, p)
    BY <2>3, <2>4
  <2> HIDE DEF cells
  <2>7. \A c \in 0..PHDR_SIZE-2 : Base(p) + c \in DOMAIN file
    <3>1. \A c \in 0..PHDR_SIZE-2 : Base(p) + c \in 0..Base(page_count)-1
      BY PageBelow, Sizes
    <3> QED BY <1>1, <3>1 DEF FullFile
  <2>8. Holds(Base(p), cells)
    BY <2>1, <2>5, <2>6, <2>7 DEF Holds, HeaderCells
  <2> QED BY <2>8 DEF cells, hdr
<1> QED BY <1>2, <1>3

(***************************************************************************)
(* Outside of formatting the headers count what was moved through the      *)
(* cursor, and are otherwise what the program stored (page.h 255, 276),    *)
(* for files and lengths whose offsets do not wrap.                        *)
(***************************************************************************)
THEOREM HeadersOnlyCount == ASSUME NoWrap PROVE Spec => []HeadersCountMoves
BY HeadersCount, PageInvs, PTL

LEMMA Vouches ==
  ASSUME MappingInv, FormatInv PROVE HeaderVouches
<1> SUFFICES ASSUME FileHeaderVerifies
             PROVE  /\ \A p \in Pages \ {0} : Untouched(p) => HeaderVerifies(p) /\ FooterVerifies(p)
                    /\ Untouched(0) => ~FooterVerifies(0)
  BY DEF HeaderVouches
<1>1. InUse
  <2> DEFINE hdr == FileHeader(page_count)
  <2>1. 0 \in 0..FHDR_SIZE-2 /\ 0 # CUR_AT
    BY Sizes
  <2>2. 0 \in DOMAIN hdr /\ hdr[0] = Field("fhdr", 0, 0)
    BY <2>1 DEF FileHeader
  <2>3. Holds(0, hdr)
    BY DEF FileHeaderVerifies
  <2> HIDE DEF hdr
  <2>4. 0 \in DOMAIN file /\ file[0] = Field("fhdr", 0, 0)
    <3>1. 0 + 0 = 0
      OBVIOUS
    <3> QED BY <2>2, <2>3, <3>1 DEF Holds
  <2> QED BY <2>4 DEF MappingInv, InUse
<1>2. FullFile /\ \A p \in Pages : Kept(p)
  BY <1>1 DEF InUse, FormatInv
<1>3. ASSUME NEW p \in Pages \ {0}, Untouched(p) PROVE HeaderVerifies(p) /\ FooterVerifies(p)
  <2>1. HeaderCells(p, 0) /\ HeaderSum(p) /\ FooterSum(p)
    BY <1>2, <1>3 DEF Untouched, Kept
  <2>2. \A c \in 0..PAGE_SIZE-1 : Base(p) + c \in DOMAIN file
    <3>1. \A c \in 0..PAGE_SIZE-1 : Base(p) + c \in 0..Base(page_count)-1
      BY PageBelow, Sizes
    <3> QED BY <1>2, <3>1 DEF FullFile
  <2>3. Holds(Base(p), PageHeader(p))
    <3> DEFINE hdr == PageHeader(p)
    <3>1. PHDR_SIZE + 0 = PHDR_SIZE
      BY Sizes
    <3>2. /\ DOMAIN hdr = 0..PHDR_SIZE-2
          /\ \A c \in 0..PHDR_SIZE-2 :
               hdr[c] = IF c = CUR_AT THEN Num(PHDR_SIZE) ELSE Field("phdr", c, p)
      BY DEF PageHeader
    <3> HIDE DEF hdr
    <3>3. \A c \in 0..PHDR_SIZE-2 : c \in 0..PAGE_SIZE-1
      BY Sizes
    <3>4. Holds(Base(p), hdr)
      BY <2>1, <2>2, <3>1, <3>2, <3>3 DEF Holds, HeaderCells
    <3> QED BY <3>4 DEF hdr
  <2>4. SumAt(Base(p) + PHDR_SIZE - 1, Base(p), PHDR_SIZE - 1)
    <3>1. PHDR_SIZE - 1 \in 0..PAGE_SIZE-1 /\ Base(p) + PHDR_SIZE - 1 = Base(p) + (PHDR_SIZE - 1)
      BY Sizes, PageBelow
    <3> QED BY <2>1, <2>2, <3>1 DEF SumAt, HeaderSum
  <2>5. FooterVerifies(p)
    <3>1. FooterSumAt(p) \in DOMAIN file /\ FooterSumAt(p) + 1 \in DOMAIN file
      BY <1>2, FooterPlace DEF FullFile
    <3>2. FooterSumAt(p) + 1 + 0 = FooterSumAt(p) + 1
      <4>1. FooterSumAt(p) \in Int
        BY FooterPlace, PageBelow
      <4> QED BY <4>1
    <3>3. Holds(FooterSumAt(p) + 1, [c \in {0} |-> FooterMagic])
      BY <2>1, <3>1, <3>2 DEF Holds, FooterSum
    <3> QED BY <2>1, <3>1, <3>3 DEF FooterVerifies, SumAt, FooterSum
  <2> QED BY <2>3, <2>4, <2>5 DEF HeaderVerifies
<1>4. ASSUME Untouched(0), FooterVerifies(0) PROVE FALSE
  <2>1. FileHeaderCells(0) /\ StaleFooter
    BY <1>2, <1>4, FirstPlace DEF Untouched, Kept
  <2> DEFINE cells == Cells(file, Base(0), PAGE_SIZE - FTR_SIZE)
  <2>2. file[FooterSumAt(0)] = Sum(cells)
    BY <1>4 DEF FooterVerifies, SumAt
  <2>3. cells[0] = Field("fhdr", 0, 0)
    <3>1. 0 \in 0..PAGE_SIZE-FTR_SIZE-1
      BY Sizes
    <3> QED BY <1>1, <3>1, FirstPlace DEF Cells, InUse
  <2> HIDE DEF cells
  <2>4. Sum(cells)[3] = cells
    BY DEF Sum
  <2> QED BY <2>1, <2>2, <2>3, <2>4, Structures DEF StaleFooter
<1> QED BY <1>3, <1>4

(***************************************************************************)
(* A file header that verifies vouches for the pages, wherever the program *)
(* was killed ("read original.c" 61-71), for files and lengths whose       *)
(* offsets do not wrap.                                                    *)
(***************************************************************************)
THEOREM HeaderVouchesForPages == ASSUME NoWrap PROVE Spec => []HeaderVouches
BY Vouches, PageInvs, PTL
=============================================================================

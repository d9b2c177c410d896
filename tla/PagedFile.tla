------------------------------ MODULE PagedFile ------------------------------
(***************************************************************************)
(* The paged file (old_stuff): a mapped file of pages, each with a header  *)
(* and a footer, the object that reads and writes them at a cursor, and    *)
(* the program that formats such a file.                                   *)
(*                                                                         *)
(* The file is a function from places to cells.  A cell is a field of one  *)
(* of the structures, a number, a checksum with what it was computed over, *)
(* or part of what a client's n-th access wrote; sizes count cells.  The   *)
(* mapping is shared: what is stored is in the file, and a killed process  *)
(* leaves it there.                                                        *)
(***************************************************************************)
EXTENDS Integers, FiniteSets

CONSTANTS
  PAGE_SIZE, FHDR_SIZE, PHDR_SIZE, FTR_SIZE,   \* sizes of a page and its structures
  CUR_AT,         \* where in a page header ph_page_cur is
  HalfMod,        \* 2^16: the file header has half of pfh_page_size and half of
                  \* pfh_page_count in that place
  OffMod,         \* 2^32: the width of uoff32_t
  page_count,     \* of the file the program makes
  Lens, Curs,     \* the lengths and offsets they ask for
  MapArgs,        \* the sizes and page counts they map the file with
  Parts,          \* what of the file a write that leaves the mapping may get to
  MaxCalls        \* bound: accesses per behaviour

ASSUME PageAssumption ==
  /\ {PAGE_SIZE, FHDR_SIZE, PHDR_SIZE, FTR_SIZE, CUR_AT, HalfMod, OffMod, page_count} \subseteq Nat \ {0}
  /\ CUR_AT + 1 < PHDR_SIZE /\ PHDR_SIZE <= FHDR_SIZE
  /\ 2 <= FTR_SIZE /\ FHDR_SIZE + FTR_SIZE <= PAGE_SIZE /\ PAGE_SIZE < OffMod
  /\ Lens \subseteq Nat /\ Curs \subseteq 0..OffMod-1 /\ MaxCalls \in Nat
  /\ MapArgs \subseteq Nat \X Nat /\ Parts \subseteq SUBSET Int

VARIABLES
  file,     \* the cells of the file
  obj,      \* the PAGE_FILE_OBJECT
  step,     \* the next step of the formatting program, "idle" if it is not running
  page,     \* the page it is at
  ret,      \* the answer of the last call
  calls,    \* accesses so far that succeeded or left the mapping
  put,      \* history: which access first wrote a place at the cursor, since
            \* page 0 was last entered; raw writes take places out of it
  moved,    \* history: what was read or written at the cursor, for each page
  raw       \* history: the places raw writes went to since the file was formatted,
            \* and writes of which the process died

vars == <<file, obj, step, page, ret, calls, put, moved, raw>>

-----------------------------------------------------------------------------
Zero == <<"num", 0, 0>>
Num(n) == <<"num", n, 0>>
Field(struct, n, p) == <<struct, n, p>>
Sum(cells) == <<"crc", 0, cells>>
Byte(n) == <<"byte", n, 0>>
FooterMagic == <<"magic", 0, 0>>
Garbage == <<"other", 0, 0>>

Base(p) == p * PAGE_SIZE

\* The n cells from place o on.
Cells(f, o, n) == [c \in 0..n-1 |-> f[o + c]]
Stored(f, o, cells) ==
  [a \in DOMAIN f |-> IF a - o \in DOMAIN cells THEN cells[a - o] ELSE f[a]]

\* A header without its checksum, which is its last cell.
FileHeader(cnt) ==
  [c \in 0..FHDR_SIZE-2 |-> IF c = CUR_AT THEN Num(cnt * HalfMod) ELSE Field("fhdr", c, 0)]
PageHeader(p) ==
  [c \in 0..PHDR_SIZE-2 |-> IF c = CUR_AT THEN Num(PHDR_SIZE) ELSE Field("phdr", c, p)]

FooterSumAt(p) == Base(p + 1) - FTR_SIZE

-----------------------------------------------------------------------------
\* What PAGE_FILE_OBJECT_deinit leaves, and a killed process.
NoObject == [mapped |-> FALSE, size |-> 0, cnt |-> 0, idx |-> 0, cur |-> 0]

M_Object(size, cnt) ==                          \* mutant: the cursor starts at 0
  [mapped |-> TRUE, size |-> size, cnt |-> cnt, idx |-> 0, cur |-> 0]
Object(size, cnt) ==
  [mapped |-> TRUE, size |-> size, cnt |-> cnt, idx |-> 0, cur |-> FHDR_SIZE]

NoFile == [a \in {} |-> Zero]
Nothing == [a \in {} |-> 0]

Init ==
  /\ file = NoFile /\ obj = NoObject /\ step = "idle" /\ page = 0
  /\ ret = "ok" /\ calls = 0
  /\ put = Nothing /\ moved = [p \in 0..page_count-1 |-> 0] /\ raw = {}

Idle == step = "idle"

\* mmap, PAGE_FILE_OBJECT_init.  The object believes what it is told of the
\* size and the number of pages.
Map(size, cnt) ==
  /\ Idle /\ ~obj.mapped /\ 0 < size /\ size <= Cardinality(DOMAIN file)
  /\ obj' = Object(size, cnt) /\ ret' = "ok" /\ put' = Nothing
  /\ UNCHANGED <<file, step, page, calls, moved, raw>>

Unmap ==
  /\ Idle /\ obj.mapped
  /\ obj' = NoObject /\ ret' = "ok" /\ put' = Nothing
  /\ UNCHANGED <<file, step, page, calls, moved, raw>>

-----------------------------------------------------------------------------
M_ValidPage(p) == p < obj.cnt                  \* mutant: the file's size is not looked at
ValidPage(p) == p < obj.cnt /\ Base(p) < obj.size

\* The offset is a uoff32_t, and the sum of offset and length becomes one.
ValidCur(c) == c % OffMod < PAGE_SIZE

\* The checks of an access to n cells from offset c of page p.
Accepts(p, c, n) == obj.mapped /\ ValidPage(p) /\ ValidCur(c) /\ ValidCur(c + n)

\* A call fails.  Which of the checks failed is kept in the object for the
\* caller, and not looked at again.
Fails == ret' = "error" /\ UNCHANGED <<file, obj, calls, put, moved, raw>>

\* Mutant: every page is entered behind its header.
M_CursorOn(p) == FHDR_SIZE
CursorOn(p) == IF p # 0 THEN obj.cur ELSE FHDR_SIZE

\* PAGE_FILE_goto_page.  The cursor stays where it was on the page before.
Goto(p) ==
  IF ~(obj.mapped /\ ValidPage(p)) THEN Fails
  ELSE /\ obj' = [obj EXCEPT !.idx = p, !.cur = CursorOn(p)] /\ ret' = "ok"
       /\ put' = IF p = 0 THEN Nothing ELSE put
       /\ UNCHANGED <<file, calls, moved, raw>>

\* The n places from a on are in the mapping; so is the current page's cursor.
Inside(a, n) == n = 0 \/ a + n <= obj.size
PageInside(n) ==
  Inside(Base(obj.idx) + obj.cur, n) /\ Base(obj.idx) + CUR_AT < obj.size

\* An access succeeds.
Succeeds == ret' = "ok" /\ calls < MaxCalls /\ calls' = calls + 1

\* The n places from offset c of page p on, and the file with them written.
Places(p, c, n) == Base(p)+c..Base(p)+c+n-1
Written(w) == [a \in DOMAIN file |-> IF a \in w THEN Byte(calls + 1) ELSE file[a]]

\* An access outside the mapping is undefined.  The process may die of it,
\* with any of the places stored that are in the file.  Or it may go on like
\* another: mmap maps whole pages, so the rest of the file's last page is
\* there although the mapping ends before it.
Strays(stored) ==
  /\ file' = Written(stored) /\ raw' = raw \cup stored
  /\ obj' = NoObject /\ ret' = "stray" /\ put' = Nothing
  /\ calls < MaxCalls /\ calls' = calls + 1 /\ UNCHANGED moved

GoesOn(p, c, n) == Places(p, c, n) \subseteq DOMAIN file

\* PAGE_FILE_page_read_buffer_raw and PAGE_FILE_page_write_buffer_raw.
RawRead(p, c, n) ==
  IF ~Accepts(p, c, n) THEN Fails
  ELSE \/ ~Inside(Base(p) + c, n) /\ Strays({})
       \/ GoesOn(p, c, n) /\ Succeeds /\ UNCHANGED <<file, obj, put, moved, raw>>

RawWrite(p, c, n) ==
  IF ~Accepts(p, c, n) THEN Fails
  ELSE LET w == Places(p, c, n) IN
         \/ ~Inside(Base(p) + c, n) /\ \E part \in Parts : Strays(w \cap part)
         \/ /\ GoesOn(p, c, n)
            /\ file' = Written(w)
            /\ raw' = raw \cup w
            /\ put' = [a \in DOMAIN put \ w |-> put[a]]
            /\ Succeeds /\ UNCHANGED <<obj, moved>>

\* The page's stored cursor, moved on.  In page 0 it is the file header that
\* has this place.
Bumped(f, p, n) ==
  [f EXCEPT ![Base(p) + CUR_AT] = IF @[1] = "num" THEN Num(@[2] + n) ELSE Garbage]

Advance(n) ==
  /\ obj' = [obj EXCEPT !.cur = (obj.cur + n) % OffMod]
  /\ moved' = [moved EXCEPT ![obj.idx] = @ + n]
  /\ Succeeds

\* PAGE_FILE_page_read and PAGE_FILE_page_write, at the cursor.
PageRead(n) ==
  IF ~Accepts(obj.idx, obj.cur, n) THEN Fails
  ELSE \/ ~PageInside(n) /\ Strays({})
       \/ /\ GoesOn(obj.idx, obj.cur, n)
          /\ Advance(n) /\ file' = Bumped(file, obj.idx, n) /\ UNCHANGED <<put, raw>>

PageWrite(n) ==
  IF ~Accepts(obj.idx, obj.cur, n) THEN Fails
  ELSE LET w == Places(obj.idx, obj.cur, n) IN
         \/ ~PageInside(n) /\ \E part \in Parts : Strays(w \cap part)
         \/ /\ GoesOn(obj.idx, obj.cur, n)
            /\ Advance(n) /\ file' = Bumped(Written(w), obj.idx, n)
            /\ put' = [a \in DOMAIN put \cup w |-> IF a \in DOMAIN put THEN put[a] ELSE calls + 1]
            /\ UNCHANGED raw

\* An access to n cells; without a buffer to read into or write from it fails.
AccessOf(n) ==
  \/ PageRead(n) \/ PageWrite(n) \/ Fails
  \/ \E p \in 0..page_count, c \in Curs : RawRead(p, c, n) \/ RawWrite(p, c, n)

-----------------------------------------------------------------------------
\* The program cuts or extends the file, with zeros, maps it and makes an
\* object; a call of the system may fail before or after the file is resized.
Resized == [a \in 0..Base(page_count)-1 |-> IF a \in DOMAIN file THEN file[a] ELSE Zero]

M_LastPage == IF page_count > 1 THEN page_count - 2 ELSE 0      \* mutant: off by one
LastPage == page_count - 1

Format ==
  /\ Idle /\ ~obj.mapped
  /\ \/ ret' = "error" /\ file' \in {file, Resized}
        /\ UNCHANGED <<obj, step, page, put>>
     \/ /\ file' = Resized /\ obj' = Object(Base(page_count), page_count)
        /\ step' = "header" /\ page' = 0
        /\ ret' = "ok" /\ put' = Nothing
  /\ UNCHANGED <<calls, moved, raw>>

Stores(at, f, next, p) ==
  /\ step = at /\ file' = f /\ step' = next /\ page' = p
  /\ UNCHANGED <<obj, ret, calls, put>>

\* The header of n cells at place o, and its checksum.
Summed(f, o, n) == [f EXCEPT ![o + n] = Sum(Cells(f, o, n))]

\* page_fill_pageheader and page_fill_pagefooter, on one page after another.
FillPageHeader ==
  /\ Stores("header", Summed(Stored(file, Base(page), PageHeader(page)), Base(page), PHDR_SIZE - 1),
            "footer", page)
  /\ UNCHANGED <<moved, raw>>

FillPageFooter ==
  LET last == page = LastPage IN
    /\ Stores("footer",
              [file EXCEPT ![FooterSumAt(page)] = Sum(Cells(file, Base(page), PAGE_SIZE - FTR_SIZE)),
                           ![FooterSumAt(page) + 1] = FooterMagic],
              IF last THEN "fileheader" ELSE "header", IF last THEN 0 ELSE page + 1)
    /\ moved' = [moved EXCEPT ![page] = 0]
    /\ raw' = raw \ Places(page, 0, PAGE_SIZE)

\* page_fill_fileheader, over the header of page 0; then the object goes.
FillFileHeader ==
  /\ Stores("fileheader", Stored(file, 0, FileHeader(page_count)), "filesum", 0)
  /\ UNCHANGED <<moved, raw>>
SumFileHeader ==
  /\ step = "filesum"
  /\ file' = Summed(file, 0, FHDR_SIZE - 1)
  /\ step' = "idle" /\ obj' = NoObject
  /\ UNCHANGED <<page, ret, calls, put, moved, raw>>

FormatStep ==
  \/ FillPageHeader \/ FillPageFooter \/ FillFileHeader \/ SumFileHeader

Kill ==
  /\ obj.mapped
  /\ obj' = NoObject /\ step' = "idle" /\ page' = 0 /\ ret' = "ok" /\ put' = Nothing
  /\ UNCHANGED <<file, calls, moved, raw>>

-----------------------------------------------------------------------------
Next ==
  \/ \E args \in MapArgs : Map(args[1], args[2])
  \/ Unmap
  \/ /\ Idle
     /\ (\E p \in 0..page_count : Goto(p)) \/ (\E n \in Lens : AccessOf(n))
     /\ UNCHANGED <<step, page>>
  \/ Format \/ FormatStep \/ Kill

Spec == Init /\ [][Next]_vars
=============================================================================

------------------------------ MODULE ImgFile -------------------------------
(***************************************************************************)
(* The file of a binary image archive (bipf/img_arc.h): a header, a table  *)
(* of contents (TOC) and the entries' data, as bytes that know what they   *)
(* are part of, and what the program bipf-rd gets out of it.               *)
(***************************************************************************)
EXTENDS Integers, FiniteSets

CONSTANTS
  Bufs, BufLen,                        \* what entries hold, and how long it is
  ZeroSum,                             \* the buffers whose crc32 is 0
  HDR_SIZE, TOC_ENTRY_SIZE, ALIGN_SIZE \* sizeof IMG_FILE_HEADER, IMG_TOC_ENTRY

ASSUME BufAssumption ==
  /\ BufLen \in [Bufs -> Nat] /\ ZeroSum \subseteq Bufs
  /\ \A b \in Bufs : BufLen[b] = 0 => b \in ZeroSum
ASSUME SizeAssumption ==
  /\ ALIGN_SIZE \in Nat \ {0} /\ HDR_SIZE \in Nat \ {0} /\ TOC_ENTRY_SIZE \in Nat \ {0}
  /\ HDR_SIZE % ALIGN_SIZE = 0 /\ TOC_ENTRY_SIZE % ALIGN_SIZE = 0

AlignOffset(off) == ((off + ALIGN_SIZE - 1) \div ALIGN_SIZE) * ALIGN_SIZE

IMG_DATA_OFF(entrycnt) == HDR_SIZE + entrycnt * TOC_ENTRY_SIZE

-----------------------------------------------------------------------------
\* A byte: what it is part of, which byte of that, and its contents.
Zero == <<"zero", 0, 0>>
Junk == <<"junk", 0, 0>>
DataByte(b, n) == <<"data", n, b>>
Data(b, n) == [k \in 0..n-1 |-> DataByte(b, k)]
HdrByte(h, n) == <<"hdr", n, h>>
TocByte(e, n) == IF e.size < 0 THEN Junk ELSE <<"toc", n, e>>

\* An entry of the TOC nobody has filled in.
NoEntry == [id |-> 0, size |-> -1, off |-> 0, sum |-> 0]

\* The file after bytes, counted from 0, were written at pos; a gap before
\* them reads as 0.
Overwritten(f, pos, written) ==
  LET n == Cardinality(DOMAIN written)
      size == CHOOSE s \in {f.size, pos + n} : s >= f.size /\ s >= pos + n
  IN  IF n = 0 THEN f
      ELSE [size |-> size,
            bytes |-> [o \in 0..size-1 |-> IF o \in pos..pos+n-1 THEN written[o - pos]
                                           ELSE IF o < f.size THEN f.bytes[o] ELSE Zero]]

Truncated(f, n) ==
  [size |-> n, bytes |-> [o \in 0..n-1 |-> IF o < f.size THEN f.bytes[o] ELSE Zero]]

-----------------------------------------------------------------------------
Holds(f, off, bytes) ==
  \A k \in DOMAIN bytes : off + k < f.size /\ f.bytes[off+k] = bytes[k]

\* The file holds buffer b where entry e says.
EntryIs(f, e, b) == e.size = BufLen[b] /\ Holds(f, e.off, Data(b, e.size))

\* bipf-rd looks at the first entry.  It takes it if the header says there is
\* one and its data end inside the file; nothing else is checked.
HasHeader(f, h) == Holds(f, 0, [k \in 0..HDR_SIZE-1 |-> HdrByte(h, k)])
HasEntry(f, j, e) ==
  Holds(f, HDR_SIZE + j * TOC_ENTRY_SIZE, [k \in 0..TOC_ENTRY_SIZE-1 |-> TocByte(e, k)])

ReaderRefuses(f) == f.size = 0 \/ Holds(f, 0, [k \in 0..HDR_SIZE-1 |-> Zero])

ReaderExtracts(f, b) ==
  /\ f.size >= IMG_DATA_OFF(1) /\ f.bytes[0][1] = "hdr" /\ f.bytes[HDR_SIZE][1] = "toc"
  /\ LET h == f.bytes[0][3]
         e == f.bytes[HDR_SIZE][3]
     IN  /\ HasHeader(f, h) /\ h.entrycount > 0
         /\ HasEntry(f, 0, e) /\ e.off + e.size <= f.size
         /\ EntryIs(f, e, b)
=============================================================================

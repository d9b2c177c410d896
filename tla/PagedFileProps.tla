--------------------------- MODULE PagedFileProps ----------------------------
(***************************************************************************)
(* What must hold of PagedFile.                                            *)
(***************************************************************************)
EXTENDS PagedFile

Pages == 0..page_count-1
PagesOf(places) == {p \in Pages : \E a \in places : Base(p) <= a /\ a < Base(p + 1)}

Holds(o, cells) == \A c \in DOMAIN cells : o + c \in DOMAIN file /\ file[o + c] = cells[c]
SumAt(o, from, n) == o \in DOMAIN file /\ file[o] = Sum(Cells(file, from, n))

FileHeaderVerifies ==
  Holds(0, FileHeader(page_count)) /\ SumAt(FHDR_SIZE - 1, 0, FHDR_SIZE - 1)
HeaderVerifies(p) ==
  Holds(Base(p), PageHeader(p)) /\ SumAt(Base(p) + PHDR_SIZE - 1, Base(p), PHDR_SIZE - 1)
FooterVerifies(p) ==
  /\ SumAt(FooterSumAt(p), Base(p), PAGE_SIZE - FTR_SIZE)
  /\ Holds(FooterSumAt(p) + 1, [c \in {0} |-> FooterMagic])

\* No client has touched page p since it was formatted.
Untouched(p) == moved[p] = 0 /\ p \notin PagesOf(raw)

(***************************************************************************)
(* The file header vouches for the pages: wherever the formatting program  *)
(* was killed, over a new file or over one in use, a file header that      *)
(* verifies means that every page was formatted and, until a client        *)
(* touches it, that its header and footer verify ("read original.c" 61-71).*)
(* Page 0 is the exception: the file header lies where its page header was *)
(* and its footer's checksum is of the page before that.                   *)
(***************************************************************************)
HeaderVouches ==
  FileHeaderVerifies =>
    /\ \A p \in Pages \ {0} : Untouched(p) => HeaderVerifies(p) /\ FooterVerifies(p)
    /\ Untouched(0) => ~FooterVerifies(0)

(***************************************************************************)
(* Outside of formatting, the headers are the clients' only at one place:  *)
(* the cursor page p stores counts what was read and written through it,   *)
(* reads included, and nothing written at the cursor gets into a header.   *)
(* In page 0 the count goes into the file header's page_size and           *)
(* page_count, which then verifies no more (page.h 255, 276).              *)
(***************************************************************************)
Formatted == step = "idle" /\ file # NoFile /\ file[0] = Field("fhdr", 0, 0)

HeadersCountMoves ==
  Formatted =>
    /\ 0 \notin PagesOf(raw) =>
         Holds(0, [FileHeader(page_count) EXCEPT ![CUR_AT] = Num(@[2] + moved[0])])
    /\ \A p \in Pages \ {0} : p \notin PagesOf(raw) =>
         Holds(Base(p), [PageHeader(p) EXCEPT ![CUR_AT] = Num(@[2] + moved[p])])

(***************************************************************************)
(* What was written at the cursor stays where it was written until page 0  *)
(* is entered again: although the cursor of one page is carried over to    *)
(* the next, and the one the page stores is never looked at, going back to *)
(* a page never writes over what was written there (page.c 105-109).       *)
(***************************************************************************)
CursorDataKept ==
  obj.mapped => \A a \in DOMAIN put : file[a] = Byte(put[a])

(***************************************************************************)
(* No access leaves the mapping if the mapping ends with a page and the    *)
(* length fits a uoff32_t: the page check asks for the page's first byte   *)
(* only (page.c 37-38), and the sum of offset and length is cut to 32 bits *)
(* before it is compared (page.c 126, 152).  Each that leaves it is one    *)
(* the process may die of.                                                 *)
(***************************************************************************)
StraysOnlyPartialOrHuge ==
  [][\A n \in Lens :
       obj.mapped /\ ret' = "stray" /\ AccessOf(n) =>
         obj.size % PAGE_SIZE # 0 \/ n + PAGE_SIZE > OffMod]_vars
=============================================================================

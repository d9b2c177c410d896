---------------------------- MODULE ImgArcProps -----------------------------
(***************************************************************************)
(* What must hold of ImgArc.                                               *)
(***************************************************************************)
EXTENDS ImgArc

Entries == 0..obj.written-1

(***************************************************************************)
(* The entries are no more than the TOC has room for, and lie apart,       *)
(* aligned, behind the TOC and before the cursor, whatever failed in       *)
(* between (img_arc.h 226-253, 286-310).                                   *)
(***************************************************************************)
EntriesApart ==
  /\ obj.written <= obj.cnt /\ DOMAIN mem.toc = 0..obj.cnt-1
  /\ \A j \in Entries :
       LET e == mem.toc[j] IN
         /\ e.id = j /\ e.off % ALIGN_SIZE = 0
         /\ IMG_DATA_OFF(obj.cnt) <= e.off /\ e.off + e.size <= obj.cur
         /\ \A k \in 0..j-1 : mem.toc[k].off + mem.toc[k].size <= e.off

(***************************************************************************)
(* The file holds every entry where the TOC says, through refused          *)
(* checksums, writes that fail part-way and flushes that do, unless an     *)
(* entry was written with the descriptor elsewhere than at the cursor,     *)
(* where a failed write and every flush leave it, or a flush of a buffer   *)
(* longer than header and TOC ran on into the entries (img_arc.h 245-250,  *)
(* 298-299, 335-340).                                                      *)
(***************************************************************************)
EntriesReadBack ==
  stray # "yes" => \A j \in Entries : EntryIs(file, mem.toc[j], wrote[j])

(***************************************************************************)
(* bipf-rd gets whole archives: it refuses a first one given up before its *)
(* flush, by the program, which puts zeros where the header goes, or by    *)
(* any client, and from one that bipf-wr has finished it extracts the      *)
(* first entry; the others are where the TOC says (bipf-wr.c 29-33, 53-96, *)
(* bipf-rd.c 36-63).                                                       *)
(***************************************************************************)
ProgramArchiveReads ==
  /\ made = "none" => ReaderRefuses(file)
  /\ (client = "wr" /\ made = "whole" /\ Valid /\ obj.cnt > 0) =>
       /\ ReaderExtracts(file, wrote[0])
       /\ \A j \in Entries : EntryIs(file, mem.toc[j], wrote[j])

(***************************************************************************)
(* A finished flush leaves a TOC in the file that verifies against its     *)
(* checksum; the header verifies only if the flush before it wrote the     *)
(* same file size (img_arc.h 315-333).                                     *)
(***************************************************************************)
FileHdr(f) == f.bytes[0][3]

TocVerifies(f) ==
  /\ DOMAIN FileHdr(f).tsum = 0..FileHdr(f).entrycount-1
  /\ \A j \in DOMAIN FileHdr(f).tsum :
       HasEntry(f, j, FileHdr(f).tsum[j])

HdrVerifies(f) == FileHdr(f).hsum = <<FileHdr(f).entrycount, FileHdr(f).filesize>>

SumsOfFlush ==
  [][(made' = "whole" /\ file' # file) =>
       TocVerifies(file') /\ (HdrVerifies(file') <=> mem.hdr.filesize = obj.cur)]_vars
=============================================================================

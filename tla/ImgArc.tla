------------------------------- MODULE ImgArc -------------------------------
(***************************************************************************)
(* The writer of binary image archives (bipf/img_arc.h).  Entries are      *)
(* written one behind the other; header and TOC are kept in a buffer of    *)
(* the client and written last, by the flush.  Its client is the program   *)
(* bipf-wr, or any other.                                                  *)
(***************************************************************************)
EXTENDS ImgFile

CONSTANTS
  EntryCounts,        \* the numbers of entries archives are made for
  MaxFile,            \* bound on the cursor
  MaxSlips            \* bound on slips, for each object

ASSUME WriterAssumption == EntryCounts \subseteq Nat /\ MaxFile \in Nat /\ MaxSlips \in Nat

VARIABLES
  client,     \* "wr": bipf-wr; "any": any client of the header
  obj,        \* the IMG_FILE_OBJECT
  mem,        \* header and TOC in the client's buffer
  file,       \* the file
  pos,        \* the descriptor's position in it
  ret,        \* the answer of the last call
  wrote,      \* history: the buffers of the entries, by their number
  slips,      \* history: how often a write has failed or a flush been tried
  stray,      \* history: "lost": a failed write or a flush left the descriptor
              \* elsewhere than at the cursor; "yes": it was written to there,
              \* or a flush was longer than header and TOC; else "no"
  made        \* history: "none": no flush ever began; "whole": the last one
              \* finished and nobody has touched the file since; "part"

vars == <<client, obj, mem, file, pos, ret, wrote, slips, stray, made>>

EmptyFile == [size |-> 0, bytes |-> <<>>]
NoObject == [desc |-> -1, room |-> 0, cur |-> 0, cnt |-> 0, written |-> 0]
NoMem == [hdr |-> [entrycount |-> 0, filesize |-> 0, hsum |-> <<>>, tsum |-> <<>>], toc |-> <<>>]

Init ==
  /\ client \in {"wr", "any"} /\ obj = NoObject /\ mem = NoMem
  /\ file = EmptyFile /\ pos = 0 /\ ret = "ok"
  /\ wrote = <<>> /\ slips = 0 /\ stray = "no" /\ made = "none"

Valid == obj.desc >= 0 /\ obj.written <= obj.cnt

-----------------------------------------------------------------------------
StartPos(cnt) == IMG_DATA_OFF(cnt)

\* IMG_FILE_OBJECT_init, with a buffer of room bytes.
ObjectInit(cnt, room) ==
  /\ obj' = [desc |-> 3, room |-> room, cur |-> IMG_DATA_OFF(cnt), cnt |-> cnt, written |-> 0]
  /\ mem' = [hdr |-> [entrycount |-> cnt, filesize |-> 0, hsum |-> <<>>, tsum |-> <<>>],
             toc |-> [j \in 0..cnt-1 |-> NoEntry]]
  /\ pos' = StartPos(cnt)
  /\ ret' = "ok" /\ wrote' = <<>> /\ slips' = 0 /\ stray' = "no"

\* A client begins with an empty file; a buffer too small is refused.
Open(cnt, room) ==
  /\ ~Valid
  /\ IF room < IMG_DATA_OFF(cnt)
     THEN ret' = "fail" /\ UNCHANGED <<obj, mem, pos, wrote, slips, stray>>
     ELSE ObjectInit(cnt, room)
  /\ file' = EmptyFile /\ made' = "none"
  /\ UNCHANGED client

\* bipf-wr cuts the file to header and TOC first.
OpenWr(cnt) ==
  /\ ~Valid
  /\ ObjectInit(cnt, IMG_DATA_OFF(cnt))
  /\ file' = Truncated(file, IMG_DATA_OFF(cnt))
  /\ made' = (IF made = "none" THEN "none" ELSE "part")
  /\ UNCHANGED client

-----------------------------------------------------------------------------
\* _IMG_FILE_write_entry_data_seqio failed after n bytes: the descriptor has
\* moved, the cursor has not.
DataWriteFails(b, n) ==
  /\ n < BufLen[b] /\ slips < MaxSlips
  /\ file' = Overwritten(file, pos, Data(b, n))
  /\ pos' = pos + n /\ ret' = "fail" /\ slips' = slips + 1
  /\ stray' = IF n = 0 THEN stray ELSE IF stray = "no" THEN "lost" ELSE "yes"
  /\ UNCHANGED <<obj, mem, wrote>>

TocEntry(idx, b, off) == [id |-> idx, size |-> BufLen[b], off |-> off, sum |-> b]

M_NextCur(b) == obj.cur + BufLen[b]                    \* mutant: not aligned
NextCur(b) == AlignOffset(obj.cur + BufLen[b])

\* The data are in the file, the cursor has moved on and the descriptor is at
\* newpos.  A checksum of 0 is taken for a failure: the data stay, and the
\* TOC knows nothing of them.
EntryWritten(b, off, newpos) ==
  /\ file' = Overwritten(file, pos, Data(b, BufLen[b]))
  /\ pos' = newpos
  /\ IF b \in ZeroSum
     THEN ret' = "fail" /\ obj' = [obj EXCEPT !.cur = NextCur(b)] /\ UNCHANGED <<mem, wrote>>
     ELSE /\ ret' = "ok"
          /\ obj' = [obj EXCEPT !.cur = NextCur(b), !.written = obj.written + 1]
          /\ mem' = [mem EXCEPT !.toc[obj.written] = TocEntry(obj.written, b, off)]
          /\ wrote' = [j \in 0..obj.written |-> IF j < obj.written THEN wrote[j] ELSE b]
  /\ stray' = (IF stray = "no" THEN "no" ELSE "yes")
  /\ UNCHANGED slips

\* Mutants: the entry is said to start at the cursor it ends at; the
\* descriptor stays where the data ended.
M_DataWritten(b) == EntryWritten(b, NextCur(b), NextCur(b))
M_DataWrittenNoSeek(b) == EntryWritten(b, obj.cur, pos + BufLen[b])
DataWritten(b) == EntryWritten(b, obj.cur, NextCur(b))

Full == obj.written >= obj.cnt

\* IMG_FILE_write_entry_seqio.
WriteEntry(b) ==
  /\ Valid
  /\ IF Full
     THEN ret' = "fail" /\ UNCHANGED <<obj, mem, file, pos, wrote, slips, stray>>
     ELSE /\ NextCur(b) <= MaxFile
          /\ DataWritten(b) \/ \E n \in 0..BufLen[b] : DataWriteFails(b, n)
  /\ made' = (IF made = "none" THEN "none" ELSE "part")
  /\ UNCHANGED client

-----------------------------------------------------------------------------
\* The checksums of the flush; the header's is that of the header as it was
\* before the flush filled in the file's size.
M_FlushedHdr ==                                        \* mutant: the TOC in the file is summed
  [mem.hdr EXCEPT !.filesize = obj.cur,
                  !.hsum = <<mem.hdr.entrycount, mem.hdr.filesize>>,
                  !.tsum = [j \in 0..obj.written-1 |-> mem.toc[j]]]
FlushedHdr ==
  [mem.hdr EXCEPT !.filesize = obj.cur,
                  !.hsum = <<mem.hdr.entrycount, mem.hdr.filesize>>,
                  !.tsum = mem.toc]

\* The buffer's bytes: the header, the TOC, and what is behind them.
MemByte(h, o) ==
  IF o < HDR_SIZE THEN HdrByte(h, o)
  ELSE IF o >= IMG_DATA_OFF(obj.cnt) THEN Junk
  ELSE TocByte(mem.toc[(o - HDR_SIZE) \div TOC_ENTRY_SIZE], (o - HDR_SIZE) % TOC_ENTRY_SIZE)

\* write_full got n bytes of the buffer into the file.
MemWritten(n) ==
  /\ file' = Overwritten(file, 0, [o \in 0..n-1 |-> MemByte(FlushedHdr, o)])
  /\ pos' = n

\* IMG_FILE_flush_seqio.  A checksum of 0 is taken for a failure: an empty
\* TOC's is 0, and that of a header or of any other TOC may be.
Flush ==
  /\ Valid
  /\ \/ ret' = "fail" /\ UNCHANGED <<mem, file, pos, slips, stray, made>>
     \/ /\ obj.cnt # 0 /\ slips < MaxSlips
        /\ mem' = [mem EXCEPT !.hdr = FlushedHdr] /\ slips' = slips + 1
        /\ \/ MemWritten(obj.room) /\ ret' = "ok" /\ made' = "whole"
           \/ \E n \in 0..obj.room-1 : MemWritten(n) /\ ret' = "fail" /\ made' = "part"
        /\ stray' = IF stray = "yes" \/ pos' > IMG_DATA_OFF(obj.cnt) THEN "yes"
                    ELSE IF pos' = obj.cur THEN "no" ELSE "lost"
  /\ UNCHANGED <<client, obj, wrote>>

\* IMG_FILE_OBJECT_deinit and close, or the end of the process.
Close ==
  /\ Valid
  /\ obj' = NoObject /\ mem' = NoMem /\ ret' = "ok" /\ pos' = 0 /\ wrote' = <<>>
  /\ slips' = 0 /\ stray' = "no"
  /\ UNCHANGED <<client, file, made>>

-----------------------------------------------------------------------------
\* bipf-wr stops at the first call that fails and flushes once, at its end.
WrNext ==
  \/ \E cnt \in EntryCounts : OpenWr(cnt)
  \/ ret = "ok" /\ obj.written < obj.cnt /\ \E b \in Bufs : WriteEntry(b)
  \/ ret = "ok" /\ obj.written = obj.cnt /\ slips = 0 /\ Flush
  \/ Close

AnyNext ==
  \/ \E cnt \in EntryCounts, extra \in {-1, 0, ALIGN_SIZE} : Open(cnt, IMG_DATA_OFF(cnt) + extra)
  \/ \E b \in Bufs : WriteEntry(b)
  \/ Flush \/ Close

Next == (client = "wr" /\ WrNext) \/ (client = "any" /\ AnyNext)

Spec == Init /\ [][Next]_vars
=============================================================================

------------------------------- MODULE KVFile -------------------------------
(***************************************************************************)
(* The file of a key-value table: KVTable_serialise and                    *)
(* KVTable_create_load_from_file of kv_ser.c, and the wrapper's calls of   *)
(* them in kvtable.hpp, beside every operation of KVTable.                 *)
(*                                                                         *)
(* A file is four chunks and its size: header, table of contents, data and *)
(* footer.  The save writes them through a shared mapping, one after the   *)
(* other, and syncs nothing: the kernel writes each to disk when it likes, *)
(* and only what is on disk outlives a power loss.  A killed process       *)
(* leaves what it has written.                                             *)
(***************************************************************************)
EXTENDS KVTableProps, Sequences

CONSTANTS
  WordMod,       \* 2^16: the width of key_len in the file
  Prefix,        \* a key cut to the length the file keeps of it
  MaxSaves,      \* bound: saves per behaviour
  PowerFails     \* does this instance lose power?

ASSUME FileAssumption ==
  /\ WordMod \in Nat \ {0} /\ MaxSaves \in Nat /\ PowerFails \in BOOLEAN
  /\ Prefix \in [Keys -> Keys]
  /\ \A k \in Keys : /\ KLen[k] < WordMod => Prefix[k] = k
                     /\ KLen[Prefix[k]] <= KLen[k]

VARIABLES
  file,       \* the file as every process sees it
  disk,       \* what of it would be there after a power loss
  ser,        \* the next step of a save, "idle" if none is under way
  saves,      \* history: the entries of every table whose save began
  held        \* history: the save whose whole result the file is, 0 for none

fileVars == <<file, disk, ser, saves, held>>
allVars == <<vars, fileVars>>

-----------------------------------------------------------------------------
\* Sizes and alignment of the file's structures, kv_ser_priv.h.
FHDR_SIZE == 32
FFTR_SIZE == 8
FENTRY_SIZE == 16

\* Zero-filled chunks: no magic number, no contents.
NoHeader == [magic |-> FALSE, kvcnt |-> 0, kvdatoff |-> 0, fftroff |-> 0]
NoFooter == [magic |-> FALSE, off |-> 0, crc |-> <<NoHeader, <<>>, <<>> >>]
EmptyFile == [size |-> 0, hdr |-> NoHeader, toc |-> <<>>, dat |-> <<>>, ftr |-> NoFooter]

\* The data ends with the last value, without its final NUL.
EndCur(t) == LET e == t.ents[t.cnt - 1] IN e.voff + VLen[e.val]

TocOff == AlignOffset(FHDR_SIZE, KVTBL_MEM_ALIGN)
M_KvDatOff(t) == TocOff + AlignOffset(t.cap * FENTRY_SIZE, KVTBL_MEM_ALIGN)  \* mutant
KvDatOff(t) == TocOff + AlignOffset(t.cnt * FENTRY_SIZE, KVTBL_MEM_ALIGN)
FftrOff(t) == KvDatOff(t) + AlignOffset(EndCur(t), KVTBL_MEM_ALIGN)

HeaderOf(t) == [magic |-> TRUE, kvcnt |-> t.cnt, kvdatoff |-> KvDatOff(t),
                fftroff |-> FftrOff(t)]

\* An entry of the table of contents; key_len is a 16-bit word.
TocOf(t) == [j \in Entries(t) |->
  [flags |-> t.ents[j].stat, klen |-> KLen[t.ents[j].key] % WordMod,
   koff |-> t.ents[j].koff, voff |-> t.ents[j].voff]]

\* The arena's bytes, as the key and the value found at each entry's offsets.
DataOf(t) == [j \in Entries(t) |-> [key |-> t.ents[j].key, val |-> t.ents[j].val]]

\* The checksum is taken to tell any two contents apart.
Crc(f) == <<f.hdr, f.toc, f.dat>>

-----------------------------------------------------------------------------
FInit ==
  /\ Init
  /\ file = EmptyFile /\ disk = EmptyFile
  /\ ser = "idle" /\ saves = <<>> /\ held = 0

SaveReturns(r) ==
  /\ phase' = "ready" /\ ser' = "idle" /\ ret' = r
  /\ UNCHANGED <<tbl, new, call, i>>

\* The wrapper truncates an existing file first, a C client may not.  An
\* empty table is then refused; by that time the file's contents are gone.
Save(truncate) ==
  /\ phase = "ready" /\ Len(saves) < MaxSaves
  /\ file' = IF truncate THEN EmptyFile ELSE file
  /\ held' = IF truncate THEN 0 ELSE held
  /\ IF tbl.cnt = 0
     THEN SaveReturns("fail") /\ UNCHANGED saves
     ELSE /\ phase' = "save" /\ ser' = "size"
          /\ saves' = Append(saves, [j \in Entries(tbl) |-> tbl.ents[j]])
          /\ UNCHANGED <<tbl, new, call, i, ret>>
  /\ UNCHANGED disk

\* After a load that failed the wrapper has no handle.  A save cuts the file
\* all the same, before KVTable_serialise refuses NULL.
SaveNoTable ==
  /\ phase = "none"
  /\ file' = EmptyFile /\ held' = 0 /\ ret' = "fail"
  /\ UNCHANGED <<phase, tbl, new, call, i, disk, ser, saves>>

Saving(step) == phase = "save" /\ ser = step

\* ftruncate, then mmap; either may fail.  A footer beyond the end is cut off.
SaveSize ==
  /\ Saving("size")
  /\ LET n == FftrOff(tbl) + FFTR_SIZE
         sized == [file EXCEPT !.size = n,
                     !.ftr = IF file.ftr.off + FFTR_SIZE <= n THEN file.ftr ELSE NoFooter] IN
       \/ /\ file' \in {file, sized}
          /\ held' = IF file' = file THEN held ELSE 0
          /\ SaveReturns("fail")
       \/ /\ file' = sized
          /\ ser' = "hdr" /\ held' = 0 /\ UNCHANGED vars
  /\ UNCHANGED <<disk, saves>>

WriteChunk(step, f, next) ==
  /\ Saving(step)
  /\ file' = f /\ ser' = next
  /\ UNCHANGED <<vars, disk, saves, held>>

SaveHeader == WriteChunk("hdr", [file EXCEPT !.hdr = HeaderOf(tbl)], "toc")
SaveToc    == WriteChunk("toc", [file EXCEPT !.toc = TocOf(tbl)], "dat")
SaveData   == WriteChunk("dat", [file EXCEPT !.dat = DataOf(tbl)], "ftr")

SaveFooter ==
  /\ Saving("ftr")
  /\ file' = [file EXCEPT !.ftr = [magic |-> TRUE, off |-> FftrOff(tbl), crc |-> Crc(file)]]
  /\ held' = Len(saves)
  /\ SaveReturns("ok")
  /\ UNCHANGED <<disk, saves>>

-----------------------------------------------------------------------------
\* Mutant: the checksum does not cover the data.
M_LoadAccepts(f) ==
  /\ f.size > 0 /\ f.hdr.magic
  /\ f.hdr.kvdatoff - TocOff = f.hdr.kvcnt * FENTRY_SIZE
  /\ f.hdr.fftroff + FFTR_SIZE <= f.size
  /\ f.ftr.magic /\ f.ftr.off = f.hdr.fftroff
  /\ SubSeq(f.ftr.crc, 1, 2) = SubSeq(Crc(f), 1, 2)

\* The checks of a load, in the file as it is mapped.
LoadAccepts(f) ==
  /\ f.size > 0                                        \* else mmap fails
  /\ f.hdr.magic
  /\ f.hdr.kvdatoff - TocOff = f.hdr.kvcnt * FENTRY_SIZE
  /\ f.hdr.fftroff + FFTR_SIZE <= f.size
  /\ f.ftr.magic /\ f.ftr.off = f.hdr.fftroff
  /\ f.ftr.crc = Crc(f)

\* dword_next_pow2.  For 1 it takes __builtin_clz(0), which is undefined; a
\* shift of 1u by whatever comes out is some power of two.
NextPow2(n) ==
  {c \in 1..MaxCap : /\ IsPowerOf2(c)
                     /\ n # 1 => c >= n /\ \A d \in n..c-1 : ~IsPowerOf2(d)}

LoadMemSize(f) == f.hdr.fftroff - f.hdr.kvdatoff

\* The wrapper destroys its table before it opens the file.  If the open
\* fails it keeps the handle; if the load fails it stores NULL.
Load ==
  /\ phase \in {"none", "ready"}
  /\ \/ /\ phase' = IF phase = "ready" THEN "dangling" ELSE "none"
        /\ tbl' = NULL /\ Returns("fail")
     \/ /\ phase' = "none" /\ tbl' = NULL /\ Returns("fail")
     \/ /\ LoadAccepts(file)
        /\ \E cap \in NextPow2(file.hdr.kvcnt) :
           \E t \in CreateResults(cap, LoadMemSize(file)) \ {NULL} :
             new' = [t EXCEPT !.mem.cur = LoadMemSize(file)]
        /\ phase' = "load" /\ tbl' = NULL /\ i' = 0 /\ UNCHANGED <<call, ret>>
  /\ UNCHANGED fileVars

\* The bytes at entry j's offsets: zeros where no data were ever written.
DataAt(f, j) == IF j \in DOMAIN f.dat THEN f.dat[j] ELSE [key |-> NoKey, val |-> NoVal]

\* The key of klen bytes at the start of key's, and its hash.
KeyOfLen(key, klen) ==
  IF key \in Keys /\ klen # KLen[key] THEN Prefix[key] ELSE key
HashOf(key) == IF key \in Keys THEN Hash[key] ELSE 0

\* Mutant: the whole key is hashed, not what the file keeps of it.
M_Loaded(t, f, n) ==
  LET e == f.toc[n] IN
    [t EXCEPT
       !.ents[n] = [key |-> KeyOfLen(DataAt(f, n).key, e.klen), val |-> DataAt(f, n).val,
                    koff |-> e.koff, voff |-> e.voff, stat |-> e.flags],
       !.cnt = t.cnt + 1,
       !.idx = HashIndexInsert(t.idx, t.cap, HashOf(DataAt(f, n).key), n)]

\* The table with the i-th entry read, its key hashed and indexed by what
\* the file says of its length.
Loaded(t, f, n) ==
  LET e == f.toc[n]
      k == KeyOfLen(DataAt(f, n).key, e.klen)
  IN  [t EXCEPT
         !.ents[n] = [key |-> k, val |-> DataAt(f, n).val, koff |-> e.koff,
                      voff |-> e.voff, stat |-> e.flags],
         !.cnt = t.cnt + 1,
         !.idx = HashIndexInsert(t.idx, t.cap, HashOf(k), n)]

\* Every entry comes along, dead ones too.
LoadEntry ==
  /\ phase = "load" /\ i < file.hdr.kvcnt
  /\ new' = Loaded(new, file, i)
  /\ i' = i + 1
  /\ UNCHANGED <<phase, tbl, call, ret, fileVars>>

LoadDone ==
  /\ phase = "load" /\ i = file.hdr.kvcnt
  /\ phase' = "ready" /\ tbl' = new /\ Returns("ok")
  /\ UNCHANGED fileVars

-----------------------------------------------------------------------------
\* The process is killed, in the middle of anything.
Kill ==
  /\ phase \in {"ready", "copy", "save", "load"}
  /\ phase' = "none" /\ tbl' = NULL /\ Returns("fail")
  /\ ser' = "idle" /\ UNCHANGED <<file, disk, saves, held>>

\* The kernel writes one chunk back.
Writeback(chunk) ==
  /\ PowerFails /\ disk[chunk] # file[chunk]
  /\ disk' = [disk EXCEPT ![chunk] = file[chunk]]
  /\ UNCHANGED <<vars, file, ser, saves, held>>

PowerLoss ==
  /\ PowerFails
  /\ file' = disk /\ held' = IF disk = file THEN held ELSE 0
  /\ phase' = "none" /\ tbl' = NULL /\ Returns("fail")
  /\ ser' = "idle" /\ UNCHANGED <<disk, saves>>

FileCalls ==
  \/ \E truncate \in BOOLEAN : Save(truncate)
  \/ SaveNoTable
  \/ SaveSize \/ SaveHeader \/ SaveToc \/ SaveData \/ SaveFooter
  \/ Load \/ LoadEntry \/ LoadDone
  \/ Kill \/ PowerLoss
  \/ \E chunk \in DOMAIN file : Writeback(chunk)

FNext ==
  \/ Next /\ UNCHANGED fileVars
  \/ FileCalls /\ UNCHANGED ndebug

FSpec == FInit /\ [][FNext]_allVars
=============================================================================

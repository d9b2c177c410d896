---------------------------- MODULE KVFileProps -----------------------------
(***************************************************************************)
(* What must hold of KVFile, beside what KVTableProps says of any table.   *)
(***************************************************************************)
EXTENDS KVFile

IsImage(s) == DOMAIN s \in {0..n-1 : n \in 0..MaxCap} /\ \A j \in DOMAIN s : s[j] \in KVEntry

IsFile(f) ==
  /\ DOMAIN f = DOMAIN EmptyFile /\ f.size \in Nat
  /\ f.hdr \in [magic : BOOLEAN, kvcnt : 0..MaxCap, kvdatoff : Nat, fftroff : Nat]
  /\ f.ftr.magic \in BOOLEAN /\ f.ftr.off \in Nat

FTypeOK ==
  /\ phase \in {"none", "ready", "copy", "save", "load", "aborted", "dangling"}
  /\ IsTable(tbl) /\ IsTable(new) /\ call \in Call /\ i \in 0..MaxCap
  /\ IsFile(file) /\ IsFile(disk)
  /\ ser \in {"idle", "size", "hdr", "toc", "dat", "ftr"}
  /\ (ser # "idle") <=> (phase = "save")
  /\ Len(saves) <= MaxSaves /\ held \in 0..Len(saves) /\ \A n \in DOMAIN saves : IsImage(saves[n])

(***************************************************************************)
(* What a file can say of a table: its entries, in their places, with dead *)
(* ones still dead; but key_len is a 16-bit word there (kv_ser_priv.h:46), *)
(* so a key of 65536 bytes or more comes back cut short.                   *)
(***************************************************************************)
CutKey(k) == IF KLen[k] < WordMod THEN k ELSE Prefix[k]

AsFiled(img) == [j \in DOMAIN img |-> [img[j] EXCEPT !.key = CutKey(@)]]

Image(t) == [j \in Entries(t) |-> t.ents[j]]

(***************************************************************************)
(* A load never brings back a mixture of two saves, nor part of one: what  *)
(* the checks and the checksum let through is a table some save was given, *)
(* entry for entry, whatever a kill, an overwritten older file or a power  *)
(* loss left behind (kv_ser.c 12-83 and 195-217).                          *)
(***************************************************************************)
NeverLoadsTornFile ==
  [][(phase = "load" /\ phase' = "ready") =>
       \E n \in DOMAIN saves : Image(tbl') = AsFiled(saves[n])]_allVars

(***************************************************************************)
(* A save that has returned 0 is what the next load returns: the load does *)
(* accept the file, and the table has the same entries in the same places, *)
(* the dead ones still dead, as long as the file was not touched since.    *)
(***************************************************************************)
RoundTrip ==
  [][/\ held' # 0 => LoadAccepts(file')
     /\ phase = "load" /\ phase' = "ready" /\ held # 0 =>
          Image(tbl') = AsFiled(saves[held])]_allVars

(***************************************************************************)
(* A table that came from a file is as good as one built by insertions     *)
(* (kv_ser.c 18-20, 61-74, 219-268): typed; every entry, dead or live, is  *)
(* found through its index; a key has one live entry, unless the table     *)
(* saved had a key too long for the file, which cut short may equal        *)
(* another; and every value lies inside an arena that is only as large as  *)
(* the data without their last NUL.                                        *)
(***************************************************************************)
KeyWasCut == \E n \in DOMAIN saves : \E j \in DOMAIN saves[n] : KLen[saves[n][j].key] >= WordMod

ValuesInside(t) == \A j \in Entries(t) : t.ents[j].voff + VLen[t.ents[j].val] <= t.mem.size

LoadedTableSound ==
  /\ FTypeOK
  /\ IndexOK
  /\ OneLivePerKey \/ KeyWasCut
  /\ phase = "ready" => ValuesInside(tbl)

(***************************************************************************)
(* Beyond what OnlyOversizedPairKills allows, a table that came from a     *)
(* file can kill the process in two corners: compacted with no dead entry  *)
(* while its last value has no NUL, and given a pair one byte below the    *)
(* limit.  Both come from the file leaving out the last NUL.               *)
(***************************************************************************)
KillsOnlyWithoutLastNul ==
  [][phase' = "aborted" /\ phase # "aborted" =>
       \/ call.op = "insert" /\ PairBytes(call.key, call.val) >= tbl.mem.size
       \/ /\ call.op = "compact" /\ i = tbl.cnt - 1
          /\ Live(tbl) = Entries(tbl)
          /\ ValEnd(tbl.ents[i]) > tbl.mem.size]_allVars
=============================================================================

------------------------------ MODULE MCKVFile ------------------------------
(***************************************************************************)
(* KVFile on a small instance.  k1 and k2 share every home slot. kl is     *)
(* longer than the file's key_len can say and comes back as its prefix k1. *)
(* v1 fills its aligned cell only with its NUL; v2 fills it without.       *)
(***************************************************************************)
EXTENDS KVFileProps

CONSTANTS k1, k2, kl, v1, v2

MCWordMod == 8
MCVLen == [v \in Vals |-> IF v = v1 THEN 3 ELSE 4]
MCKLen == [k \in Keys |-> IF k = kl THEN 9 ELSE 1]
MCHash == [k \in Keys |-> CASE k = k1 -> 3 [] k = k2 -> 5 [] k = kl -> 4]
MCPrefix == [k \in Keys |-> IF k = kl THEN k1 ELSE k]

(***************************************************************************)
(* assert(_mem_arena_get_next_alloc_memcur(_this, size) >= 0)              *)
(* (mem_arena.c:50): the assertion never fails in a compaction, which      *)
(* moves the pairs to an arena as large as the one they are in.            *)
(***************************************************************************)
CompactionKeepsAssertion ==
  [][call.op = "compact" => phase' # "aborted"]_allVars
=============================================================================

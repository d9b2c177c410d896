----------------------------- MODULE HashIndex ------------------------------
(***************************************************************************)
(* The hash index of kv/kvtable/hash_index.h: open addressing with linear  *)
(* probing over a power-of-two array of entry numbers.  It holds no keys   *)
(* and is never deleted from: removing a key leaves its slot in place, so  *)
(* every slot is EMPTY or names an entry of the table for ever.            *)
(***************************************************************************)
EXTENDS Integers, FiniteSetsExt

HT_KIDX_SLOT_EMPTY == -1

IsPowerOf2(n) == \E e \in 0..n : n = 2^e

HashIndexInit(cap) == [s \in 0..cap-1 |-> HT_KIDX_SLOT_EMPTY]

\* The slot after n steps of a probe that starts at the hash's home slot:
\* the code masks with cap-1, and cap is a power of two.
Slot(hash, n, cap) == (hash + n) % cap

\* The steps at which a probe for this hash meets a free slot.
FreeSteps(idx, cap, hash) ==
  {n \in 0..cap-1 : idx[Slot(hash, n, cap)] = HT_KIDX_SLOT_EMPTY}

\* The first free slot takes the entry.  A probe that finds none returns the
\* home slot's number, which every caller takes for success: nothing changes.
HashIndexInsert(idx, cap, hash, kidx) ==
  IF FreeSteps(idx, cap, hash) = {} THEN idx
  ELSE [idx EXCEPT ![Slot(hash, Min(FreeSteps(idx, cap, hash)), cap)] = kidx]

\* A probe for this hash gets as far as step n: no free slot stops it earlier.
ProbeReaches(idx, cap, hash, n) ==
  \A m \in 0..n : idx[Slot(hash, m, cap)] # HT_KIDX_SLOT_EMPTY
=============================================================================

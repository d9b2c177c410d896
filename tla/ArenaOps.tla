------------------------------ MODULE ArenaOps ------------------------------
(***************************************************************************)
(* The bump allocator of include/mem/mem_arena.c: one block of memory and  *)
(* a cursor that only moves forward, except when a client rolls it back.   *)
(*                                                                         *)
(* An arena is the record of its two fields that decide anything: the      *)
(* cursor and the size.  mem_alloc_cnt is counted and never read, and      *)
(* mem_buf only turns offsets into addresses.  The alignment is passed in  *)
(* because each client fixes its own.                                      *)
(***************************************************************************)
EXTENDS Integers

Arena == [cur : Nat, size : Nat]

ArenaInit(size) == [cur |-> 0, size |-> size]

\* ALIGN_OFFSET: the next multiple of a at or after off.
AlignOffset(off, a) == ((off + a - 1) \div a) * a

\* A failed allocation answers NULL, here an offset no block can have.
NULL_OFF == -1

ArenaFits(m, n, a) == AlignOffset(m.cur, a) + n <= m.size

\* One allocation of n > 0 bytes: the new arena and the offset handed out.
ArenaAlloc(m, n, a) ==
  IF ArenaFits(m, n, a)
  THEN [mem |-> [m EXCEPT !.cur = AlignOffset(m.cur, a) + n],
        off |-> AlignOffset(m.cur, a)]
  ELSE [mem |-> m, off |-> NULL_OFF]

\* The cursor moves back to a mark, never forward.
ArenaSetCur(m, pos) == IF pos > m.cur THEN m ELSE [m EXCEPT !.cur = pos]
=============================================================================

---------------------------- MODULE MCSortSearch ----------------------------
(***************************************************************************)
(* SortSearch on all arrays of up to four of the ints -1, 0, 1 and 2, with *)
(* a size_t of five bits and an int of four.                               *)
(***************************************************************************)
EXTENDS SortSearch

MCInts == -1..2
=============================================================================

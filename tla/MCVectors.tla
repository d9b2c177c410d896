----------------------------- MODULE MCVectors ------------------------------
(***************************************************************************)
(* The vectors on a small instance: two elements, capacities up to four.   *)
(* The default capacity, 16 in the code, is 2 here.                        *)
(***************************************************************************)
EXTENDS Vectors

CONSTANTS a, b

MCLiterals == {<<>>, <<a>>, <<b, a>>}
=============================================================================

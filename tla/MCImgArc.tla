------------------------------ MODULE MCImgArc ------------------------------
(***************************************************************************)
(* ImgArc on archives of none to two entries: one that needs padding, one  *)
(* that does not, one whose checksum happens to be 0, and an empty one.    *)
(***************************************************************************)
EXTENDS ImgArcProps

CONSTANTS short, long, unlucky, empty

MCBufLen == [b \in Bufs |-> CASE b = short -> 1 [] b = long -> 2 [] b = unlucky -> 1 [] b = empty -> 0]
=============================================================================

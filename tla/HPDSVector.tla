----------------------------- MODULE HPDSVector -----------------------------
(***************************************************************************)
(* vector.h: a vector that is a pointer to its first element, with a       *)
(* header in front.  The push macro copies the element first and passes    *)
(* the client's variable by reference, so that it follows the buffer.      *)
(***************************************************************************)
EXTENDS VectorBase

MIN_VECTOR_CAP == 1

HCreate == Make(MIN_VECTOR_CAP)

HDestroy == ~vec.null /\ Unmake(1)

\* Vector_push and HPDSVector_push.
HPush(x) ==
  /\ ~vec.null
  /\ PushOf(x, vec.size >= vec.cap, vec.cap * 2, TRUE)

\* HPDSVector_pop answers nothing.
M_HPop == ~vec.null /\ DropLast                          \* mutant: no test for an empty vector
HPop ==
  /\ ~vec.null
  /\ IF vec.size > 0 THEN DropLast ELSE ret' = "ok" /\ UNCHANGED <<vec, bufs, ref>>

\* Vector_begin and Vector_end bound what the client steps through.
HStep(i) == ~vec.null /\ i < vec.size /\ PointAt(i)

HNext ==
  \/ \E x \in Pushable : HPush(x)
  \/ HCreate \/ HDestroy \/ HPop
  \/ \E i \in 0..MaxCap : HStep(i)
=============================================================================

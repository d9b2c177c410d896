----------------------------- MODULE ObjVector ------------------------------
(***************************************************************************)
(* vector/c_oop_vector: a vector with a table of methods.  The push macro  *)
(* copies the element before it calls the method.                          *)
(***************************************************************************)
EXTENDS VectorBase

\* Vector_create refuses a vector without room.
OCreate(c) == IF c = 0 THEN vec.null /\ Refuse ELSE Make(c)

ODestroy == ~vec.null /\ Unmake(1)

\* Vector_push and Vector_push_raw, with _Vector_resize_raw.
M_OPush(x) ==                                  \* mutant: no copy in the macro
  IF vec.null THEN Refuse ELSE PushOf(x, vec.size >= vec.cap, vec.cap * 2, FALSE)
OPush(x) ==
  IF vec.null THEN Refuse ELSE PushOf(x, vec.size >= vec.cap, vec.cap * 2, TRUE)

OPop == IF ~vec.null /\ vec.size > 0 THEN DropLast ELSE Refuse

OAt(i) == IF ~vec.null /\ vec.size > 0 /\ i < vec.size THEN PointAt(i) ELSE Refuse

ONext ==
  \/ \E c \in InitCaps : OCreate(c)
  \/ \E x \in Pushable : OPush(x)
  \/ ODestroy \/ OPop
  \/ \E i \in 0..MaxCap : OAt(i)
=============================================================================

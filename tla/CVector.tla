------------------------------ MODULE CVector -------------------------------
(***************************************************************************)
(* vector/c_std_vector: a vector whose capacity the client may reserve.    *)
(* _c_vector_push takes the element by reference and copies it after it    *)
(* has made room.                                                          *)
(***************************************************************************)
EXTENDS VectorBase

CONSTANTS
  MinDefaultCapacity, \* C_VECTOR_MIN_DEFAULT_CAPACITY
  Literals            \* the sequences vectors are made from

IsValid(v) == ~v.null /\ v.size <= v.cap

IsFull(v) == v.size >= v.cap

\* _c_vector_create: capacity 0 means the default.
Create(c) == Make(IF c = 0 THEN MinDefaultCapacity ELSE c)

\* _c_vector_init_assign on storage of the client.  If malloc fails the size
\* stands, and no data; a vector of nothing gets a buffer or NULL.
InitAssign(s) ==
  /\ vec.null /\ ref' = NoRef
  /\ \/ /\ vec' = [null |-> FALSE, size |-> Len(s), cap |-> Len(s), cells |-> s]
        /\ bufs' = bufs + 1 /\ ret' = "ok"
     \/ /\ vec' = [NULL EXCEPT !.size = Len(s), !.cap = Len(s)]
        /\ UNCHANGED bufs /\ ret' = "fail"

\* _c_vector_deinit refuses a vector that never got its data; the client
\* gives that up as it is.
M_Deinit == Unmake(0)                                    \* mutant: data not freed
Deinit == Unmake(IF IsValid(vec) THEN 1 ELSE 0)

\* _c_vector_push.
Push(x) ==
  IF ~IsValid(vec) THEN Refuse
  ELSE PushOf(x, IsFull(vec), IF vec.cap = 0 THEN MinDefaultCapacity ELSE vec.cap * 2, FALSE)

Pop == IF IsValid(vec) /\ vec.size > 0 THEN DropLast ELSE Refuse

Clear ==
  /\ vec' = (IF IsValid(vec) THEN [vec EXCEPT !.size = 0] ELSE vec)
  /\ ret' = "ok" /\ UNCHANGED <<bufs, ref>>

M_Enough(n) == vec.cap = n                               \* mutant: shrinks, too
Enough(n) == vec.cap >= n

\* _c_vector_reserve.
Reserve(n) ==
  \/ (~IsValid(vec) /\ Refuse) \/ (IsValid(vec) /\ GrowFails(~Enough(n), n))
  \/ /\ IsValid(vec) /\ n <= MaxCap
     /\ \E g \in GrowResults(~Enough(n), n) : vec' = g.v /\ ref' = Asked(g.r, n)
     /\ ret' = "ok" /\ UNCHANGED bufs

\* _c_vector_at, the access with a bound check.
At(i) == IF IsValid(vec) /\ i < vec.size THEN PointAt(i) ELSE Refuse

CNext ==
  \/ \E c \in InitCaps : Create(c)
  \/ \E s \in Literals : InitAssign(s)
  \/ \E x \in Pushable : Push(x)
  \/ Deinit \/ Pop \/ Clear
  \/ \E n \in 0..MaxCap : Reserve(n) \/ At(n)
=============================================================================

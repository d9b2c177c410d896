----------------------------- MODULE VectorBase -----------------------------
(***************************************************************************)
(* What the repository's three vectors share: a buffer of cap cells, of    *)
(* which the first size hold the elements, and a client that keeps one     *)
(* pointer into it.                                                        *)
(***************************************************************************)
EXTENDS Integers, Sequences

CONSTANTS
  Elems, Junk,        \* Junk: what nobody wrote, and what freed memory reads as
  InitCaps,           \* the capacities clients ask for
  MaxCap              \* bound on the capacity: no call asks for more

ASSUME VectorAssumption ==
  /\ Junk \notin Elems /\ "pointee" \notin Elems
  /\ InitCaps \subseteq Nat /\ MaxCap \in Nat

VARIABLES
  vec,      \* the vector
  bufs,     \* the buffers malloc gave and free did not take back
  ref,      \* the client's pointer to one element
  ret       \* the answer of the last call

vars == <<vec, bufs, ref, ret>>

NULL == [null |-> TRUE, size |-> 0, cap |-> 0, cells |-> <<>>]

\* at: the element; ok: its buffer is still there; upto: the capacity when
\* the pointer was taken; asked: the largest size any call asked for since.
NoRef == [at |-> 0, ok |-> FALSE, upto |-> 0, asked |-> 0]

NoVector == vec = NULL /\ bufs = 0 /\ ref = NoRef /\ ret = "ok"

-----------------------------------------------------------------------------
Contents(v) == IF v.null THEN <<>> ELSE SubSeq(v.cells, 1, v.size)

NewVec(cap) == [null |-> FALSE, size |-> 0, cap |-> cap, cells |-> [i \in 1..cap |-> Junk]]

\* realloc to n cells keeps what fits, in place or elsewhere.
Resized(v, n) ==
  [v EXCEPT !.cap = n,
            !.cells = [i \in 1..n |-> IF i <= Len(v.cells) THEN v.cells[i] ELSE Junk]]

ReallocResults == {"inPlace", "moved"}

Asked(r, n) == [r EXCEPT !.asked = IF n > r.asked THEN n ELSE r.asked]
After(r, how) == [r EXCEPT !.ok = r.ok /\ how = "inPlace"]

\* memcpy to the first free cell.
Stored(v, e) == [v EXCEPT !.cells[v.size + 1] = e, !.size = v.size + 1]

-----------------------------------------------------------------------------
\* A vector of capacity cap is made, or malloc has nothing for it.
Make(cap) ==
  /\ vec.null /\ ref' = NoRef
  /\ \/ vec' = NewVec(cap) /\ bufs' = bufs + 1 /\ ret' = "ok"
     \/ vec' = NULL /\ UNCHANGED bufs /\ ret' = "fail"

Unmake(freed) ==
  /\ vec' = NULL /\ bufs' = bufs - freed /\ ref' = NoRef /\ ret' = "ok"

Refuse == ret' = "fail" /\ UNCHANGED <<vec, bufs, ref>>

\* The vector and the client's pointer after a realloc to n cells, or as they
\* are if the vector need not grow.
GrowResults(needed, n) ==
  IF ~needed THEN {[v |-> vec, r |-> ref]}
  ELSE {[v |-> Resized(vec, n), r |-> After(ref, how)] : how \in ReallocResults}

GrowFails(needed, n) == needed /\ n <= MaxCap /\ Refuse

\* What the client pushes: a value of its own, or the element it points at;
\* and what is read if its pointer is r by then.
Pushable ==
  Elems \cup IF ref.at \in 1..vec.size THEN {"pointee"} ELSE {}

Read(x, r) == IF x # "pointee" THEN x ELSE IF r.ok THEN vec.cells[r.at] ELSE Junk

\* A push of x, read after the vector has grown to newcap, or early, before
\* the call.
PushOf(x, full, newcap, early) ==
  \/ GrowFails(full, newcap)
  \/ /\ full => newcap <= MaxCap
     /\ \E g \in GrowResults(full, newcap) :
          /\ vec' = Stored(g.v, Read(x, IF early THEN ref ELSE g.r))
          /\ ref' = Asked(g.r, vec.size + 1)
     /\ ret' = "pushed" /\ UNCHANGED bufs

DropLast == vec' = [vec EXCEPT !.size = vec.size - 1] /\ ret' = "popped" /\ UNCHANGED <<bufs, ref>>

PointAt(i) ==
  /\ ref' = [at |-> i + 1, ok |-> TRUE, upto |-> vec.cap, asked |-> 0]
  /\ ret' = "ok" /\ UNCHANGED <<vec, bufs>>
=============================================================================

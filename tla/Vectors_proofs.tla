--------------------------- MODULE Vectors_proofs ---------------------------
(***************************************************************************)
(* Proofs about Vectors: one buffer, the pointers that stay good, what a   *)
(* vector pushed into itself reads, and the sequence all three implement.  *)
(***************************************************************************)
EXTENDS Vectors, SequenceTheorems, TLAPS

USE VectorAssumption, CVectorAssumption

Cell == Elems \cup {Junk}

VecRecord == [null : BOOLEAN, size : Nat, cap : Nat, cells : Seq(Cell)]

RefRecord == [at : Nat, ok : BOOLEAN, upto : Nat, asked : Nat]

Sound(v) == v.size \in 0..v.cap /\ v.cells \in [1..v.cap -> Cell]

VecInv ==
  /\ vec \in VecRecord /\ bufs \in Nat
  /\ OneBuffer
  /\ ~vec.null /\ kind # "c_std" => vec.cap > 0

\* A pointer that is good points into the buffer as it was when it was taken,
\* and the buffer does not get smaller while the vector lives.
RefInv ==
  /\ ref \in RefRecord
  /\ ref.upto <= vec.cap
  /\ ref.ok => ref.at \in 1..ref.upto
  /\ PointersKeptWithinCapacity

VectorsInv == VecInv /\ RefInv

-----------------------------------------------------------------------------
(***************************************************************************)
(* A function on 1..n into the cells is a sequence of length n.            *)
(***************************************************************************)
LEMMA CellsAreSeq ==
  ASSUME NEW n \in Nat, NEW s \in [1..n -> Cell]
  PROVE  s \in Seq(Cell) /\ Len(s) = n
<1>1. s \in Seq(Cell)
  BY IsASeq
<1>2. DOMAIN s = 1..Len(s) /\ DOMAIN s = 1..n /\ Len(s) \in Nat
  BY <1>1
<1> QED
  BY <1>1, <1>2

(***************************************************************************)
(* A reallocated buffer has the new size and keeps what it had.            *)
(***************************************************************************)
LEMMA ResizedFields ==
  ASSUME NEW v \in VecRecord, Sound(v), NEW n \in Nat, v.cap <= n
  PROVE  /\ Resized(v, n) \in VecRecord /\ Sound(Resized(v, n))
         /\ Resized(v, n).null = v.null /\ Resized(v, n).size = v.size
         /\ Resized(v, n).cap = n
         /\ \A i \in 1..v.size : Resized(v, n).cells[i] = v.cells[i]
<1> DEFINE c == [i \in 1..n |-> IF i <= Len(v.cells) THEN v.cells[i] ELSE Junk]
<1>1. Len(v.cells) = v.cap /\ v.size <= v.cap /\ v.cap \in Nat /\ v.size \in Nat
  BY CellsAreSeq DEF Sound, VecRecord
<1>2. c \in [1..n -> Cell]
  <2>1. ASSUME NEW i \in 1..n  PROVE  (IF i <= Len(v.cells) THEN v.cells[i] ELSE Junk) \in Cell
    BY <1>1 DEF Sound, Cell
  <2> QED
    BY <2>1
<1>3. c \in Seq(Cell)
  BY <1>2, CellsAreSeq
<1>4. \A i \in 1..v.size : c[i] = v.cells[i]
  BY <1>1
<1> HIDE DEF c
<1>5. Resized(v, n) = [v EXCEPT !.cap = n, !.cells = c]
  BY DEF Resized, c
<1>6. Resized(v, n) = [null |-> v.null, size |-> v.size, cap |-> n, cells |-> c]
  BY <1>5 DEF VecRecord
<1> QED
  BY <1>1, <1>2, <1>3, <1>4, <1>6 DEF VecRecord, Sound

(***************************************************************************)
(* A stored element is the last, behind those there were.                  *)
(***************************************************************************)
LEMMA StoredFields ==
  ASSUME NEW v \in VecRecord, Sound(v), ~v.null, v.size < v.cap, NEW e \in Cell
  PROVE  /\ Stored(v, e) \in VecRecord /\ Sound(Stored(v, e)) /\ ~Stored(v, e).null
         /\ Stored(v, e).size = v.size + 1 /\ Stored(v, e).cap = v.cap
         /\ Stored(v, e).cells[v.size + 1] = e
         /\ \A i \in 1..v.size : Stored(v, e).cells[i] = v.cells[i]
<1> DEFINE c == [v.cells EXCEPT ![v.size + 1] = e]
<1>1. v.size \in Nat /\ v.cap \in Nat /\ v.cells \in [1..v.cap -> Cell]
  BY DEF Sound, VecRecord
<1>2. c \in [1..v.cap -> Cell] /\ c[v.size + 1] = e /\ \A i \in 1..v.size : c[i] = v.cells[i]
  BY <1>1
<1>3. c \in Seq(Cell)
  BY <1>1, <1>2, CellsAreSeq
<1>4. Stored(v, e) = [v EXCEPT !.cells = c, !.size = v.size + 1]
  BY DEF Stored
<1> HIDE DEF c
<1>5. Stored(v, e) = [null |-> v.null, size |-> v.size + 1, cap |-> v.cap, cells |-> c]
  BY <1>4 DEF VecRecord
<1> QED
  BY <1>1, <1>2, <1>3, <1>5 DEF VecRecord, Sound

-----------------------------------------------------------------------------
(***************************************************************************)
(* What a client sees of a vector that has data.                           *)
(***************************************************************************)
LEMMA ContentsOf ==
  ASSUME NEW v \in VecRecord, Sound(v), ~v.null
  PROVE  /\ Contents(v) \in Seq(Cell) /\ Len(Contents(v)) = v.size
         /\ \A i \in 1..v.size : Contents(v)[i] = v.cells[i]
<1>1. v.cells \in Seq(Cell) /\ Len(v.cells) = v.cap /\ v.size \in Nat /\ v.cap \in Nat
      /\ v.size <= v.cap
  BY CellsAreSeq DEF VecRecord, Sound
<1>2. Contents(v) = SubSeq(v.cells, 1, v.size)
  BY DEF Contents
<1>3. \A i \in 1..v.size : v.cells[i] \in Cell
  BY <1>1 DEF Sound
<1>4. CASE v.size = 0
  BY <1>1, <1>2, <1>4
<1>5. CASE v.size > 0
  BY <1>1, <1>2, <1>3, <1>5
<1> QED
  BY <1>1, <1>4, <1>5

\* Two vectors show the same if their elements are the same.
LEMMA SameContents ==
  ASSUME NEW v \in VecRecord, Sound(v), ~v.null,
         NEW w \in VecRecord, Sound(w), ~w.null,
         w.size = v.size, \A i \in 1..v.size : w.cells[i] = v.cells[i]
  PROVE  Contents(w) = Contents(v)
<1>1. Contents(v) \in Seq(Cell) /\ Contents(w) \in Seq(Cell)
      /\ Len(Contents(w)) = Len(Contents(v))
  BY ContentsOf
<1>2. \A i \in 1..Len(Contents(v)) : Contents(w)[i] = Contents(v)[i]
  BY ContentsOf
<1> QED
  BY <1>1, <1>2, SeqEqual

\* One more at the end, one less at the end.
LEMMA ContentsAppend ==
  ASSUME NEW v \in VecRecord, Sound(v), ~v.null,
         NEW w \in VecRecord, Sound(w), ~w.null, NEW e \in Cell,
         w.size = v.size + 1, w.cells[v.size + 1] = e,
         \A i \in 1..v.size : w.cells[i] = v.cells[i]
  PROVE  Contents(w) = Append(Contents(v), e)
<1> DEFINE s == Contents(v)
           t == Contents(w)
<1>1. s \in Seq(Cell) /\ t \in Seq(Cell) /\ Len(s) = v.size /\ Len(t) = v.size + 1
      /\ v.size \in Nat
  BY ContentsOf DEF VecRecord
<1>2. \A i \in 1..v.size : t[i] = s[i]
  BY <1>1, ContentsOf
<1>3. t[v.size + 1] = e
  BY <1>1, ContentsOf
<1> HIDE DEF s, t
<1>4. Append(s, e) \in Seq(Cell) /\ Len(Append(s, e)) = v.size + 1
      /\ (\A i \in 1..v.size : Append(s, e)[i] = s[i]) /\ Append(s, e)[v.size + 1] = e
  BY <1>1, AppendProperties
<1>5. \A i \in 1..(v.size + 1) : t[i] = Append(s, e)[i]
  BY <1>1, <1>2, <1>3, <1>4
<1>6. t = Append(s, e)
  BY <1>1, <1>4, <1>5, SeqEqual
<1> QED
  BY <1>6 DEF s, t

LEMMA ContentsFront ==
  ASSUME NEW v \in VecRecord, Sound(v), ~v.null, v.size > 0,
         NEW w \in VecRecord, Sound(w), ~w.null,
         w.size = v.size - 1, w.cells = v.cells
  PROVE  /\ Contents(v) # <<>>
         /\ Contents(w) = SubSeq(Contents(v), 1, Len(Contents(v)) - 1)
<1> DEFINE s == Contents(v)
           t == Contents(w)
<1>1. s \in Seq(Cell) /\ t \in Seq(Cell) /\ Len(s) = v.size /\ Len(t) = v.size - 1
      /\ v.size \in Nat
  BY ContentsOf DEF VecRecord
<1>2. \A i \in 1..(v.size - 1) : t[i] = s[i]
  BY <1>1, ContentsOf
<1> HIDE DEF s, t
<1>3. s # <<>>
  BY <1>1
<1>4. SubSeq(s, 1, Len(s) - 1) \in Seq(Cell) /\ Len(SubSeq(s, 1, Len(s) - 1)) = v.size - 1
      /\ \A i \in 1..(v.size - 1) : SubSeq(s, 1, Len(s) - 1)[i] = s[i]
  BY <1>1
<1>5. t = SubSeq(s, 1, Len(s) - 1)
  BY <1>1, <1>2, <1>4, SeqEqual
<1> QED
  BY <1>3, <1>5 DEF s, t

-----------------------------------------------------------------------------
(***************************************************************************)
(* The steps the three vectors have in common: each keeps the invariant    *)
(* and is an operation on the sequence.                                    *)
(***************************************************************************)
LEMMA VecFacts ==
  ASSUME VectorsInv, ~vec.null
  PROVE  vec \in VecRecord /\ Sound(vec) /\ bufs = 1 /\ Contents(vec) \in Seq(Cell)
<1>1. vec \in VecRecord /\ Sound(vec) /\ bufs = 1
  BY DEF VectorsInv, VecInv, OneBuffer, Sound, Cell
<1> QED
  BY <1>1, ContentsOf

LEMMA NullFacts ==
  /\ NULL \in VecRecord /\ NULL.null /\ NULL.cap = 0 /\ Contents(NULL) = <<>>
  /\ NoRef \in RefRecord /\ ~NoRef.ok /\ NoRef.upto = 0
BY DEF NULL, NoRef, VecRecord, RefRecord, Contents

LEMMA NoRefKept ==
  ASSUME ref' = NoRef, vec'.cap \in Nat
  PROVE  RefInv'
BY NullFacts DEF RefInv, PointersKeptWithinCapacity

LEMMA RefuseStep ==
  ASSUME VectorsInv, Refuse, UNCHANGED kind
  PROVE  VectorsInv' /\ Abs!Keep
<1>1. VectorsInv'
  BY DEF VectorsInv, VecInv, RefInv, OneBuffer, PointersKeptWithinCapacity, Refuse
<1>2. Contents(vec)' = Contents(vec)
  BY DEF Refuse, Contents
<1> QED
  BY <1>1, <1>2 DEF Abs!Keep, Refuse

LEMMA NewVecFields ==
  ASSUME NEW n \in Nat
  PROVE  /\ NewVec(n) \in VecRecord /\ Sound(NewVec(n)) /\ ~NewVec(n).null
         /\ NewVec(n).cap = n /\ Contents(NewVec(n)) = <<>>
<1> DEFINE c == [i \in 1..n |-> Junk]
<1>1. c \in [1..n -> Cell]
  BY DEF Cell
<1>2. c \in Seq(Cell)
  BY <1>1, CellsAreSeq
<1> HIDE DEF c
<1>3. NewVec(n) = [null |-> FALSE, size |-> 0, cap |-> n, cells |-> c]
  BY DEF NewVec, c
<1>4. NewVec(n) \in VecRecord /\ Sound(NewVec(n)) /\ ~NewVec(n).null /\ NewVec(n).cap = n
      /\ NewVec(n).size = 0
  BY <1>1, <1>2, <1>3 DEF VecRecord, Sound
<1> QED
  BY <1>4, ContentsOf

LEMMA MakeStep ==
  ASSUME VectorsInv, NEW n \in Nat, kind # "c_std" => n > 0, Make(n), UNCHANGED kind
  PROVE  VectorsInv' /\ Abs!Empty
<1>1. CASE vec' = NewVec(n) /\ bufs' = bufs + 1 /\ ret' = "ok"
  <2>1. VecInv'
    <3>1. bufs' = 1
      BY <1>1 DEF Make, VectorsInv, VecInv, OneBuffer
    <3> QED
      BY <1>1, <3>1, NewVecFields DEF VecInv, OneBuffer, Sound, Cell
  <2>2. vec'.cap \in Nat
    BY <1>1, NewVecFields
  <2> QED
    BY <1>1, <2>1, <2>2, NoRefKept, NewVecFields DEF Make, VectorsInv, Abs!Empty
<1>2. CASE vec' = NULL /\ UNCHANGED bufs /\ ret' = "fail"
  <2>1. VecInv'
    BY <1>2, NullFacts DEF Make, VectorsInv, VecInv, OneBuffer
  <2> QED
    BY <1>2, <2>1, NoRefKept, NullFacts DEF Make, VectorsInv, Abs!Empty
<1> QED
  BY <1>1, <1>2 DEF Make

LEMMA UnmakeStep ==
  ASSUME VectorsInv, NEW freed \in Nat, freed = bufs, Unmake(freed), UNCHANGED kind
  PROVE  VectorsInv' /\ Abs!Empty
<1>1. VecInv'
  BY NullFacts DEF Unmake, VectorsInv, VecInv, OneBuffer
<1> QED
  BY <1>1, NoRefKept, NullFacts DEF Unmake, VectorsInv, Abs!Empty

LEMMA DropStep ==
  ASSUME VectorsInv, ~vec.null, vec.size > 0, DropLast, UNCHANGED kind
  PROVE  VectorsInv' /\ Abs!Pop
<1>1. vec \in VecRecord /\ Sound(vec)
  BY VecFacts
<1>2. vec' = [null |-> vec.null, size |-> vec.size - 1, cap |-> vec.cap, cells |-> vec.cells]
  BY <1>1 DEF DropLast, VecRecord
<1>3. vec' \in VecRecord /\ Sound(vec')
  BY <1>1, <1>2 DEF VecRecord, Sound
<1>4. Contents(vec) # <<>> /\ Contents(vec') = SubSeq(Contents(vec), 1, Len(Contents(vec)) - 1)
  BY <1>1, <1>2, <1>3, ContentsFront
<1>5. VecInv'
  BY <1>2, <1>3 DEF VectorsInv, VecInv, OneBuffer, DropLast, Sound, Cell
<1>6. RefInv'
  BY <1>2 DEF VectorsInv, RefInv, PointersKeptWithinCapacity, DropLast
<1> QED
  BY <1>4, <1>5, <1>6 DEF VectorsInv, DropLast, Abs!Pop

LEMMA PointStep ==
  ASSUME VectorsInv, ~vec.null, NEW i \in Nat, i < vec.size, PointAt(i), UNCHANGED kind
  PROVE  VectorsInv' /\ Abs!Keep
<1>1. vec \in VecRecord /\ Sound(vec)
  BY VecFacts
<1>2. VecInv'
  BY DEF VectorsInv, VecInv, OneBuffer, PointAt
<1>3. RefInv'
  BY <1>1 DEF RefInv, RefRecord, PointersKeptWithinCapacity, PointAt, VecRecord, Sound
<1>4. Contents(vec)' = Contents(vec)
  BY DEF PointAt, Contents
<1> QED
  BY <1>2, <1>3, <1>4 DEF VectorsInv, PointAt, Abs!Keep

(***************************************************************************)
(* What growing leaves: the elements, at least the capacity asked for, and *)
(* a pointer that is as good as before unless the buffer went elsewhere.   *)
(***************************************************************************)
LEMMA GrownFields ==
  ASSUME VectorsInv, ~vec.null, NEW needed \in BOOLEAN, NEW n \in Nat,
         needed => vec.cap <= n, NEW g \in GrowResults(needed, n)
  PROVE  /\ g.v \in VecRecord /\ Sound(g.v) /\ ~g.v.null
         /\ g.v.size = vec.size /\ g.v.cap = IF needed THEN n ELSE vec.cap
         /\ \A i \in 1..vec.size : g.v.cells[i] = vec.cells[i]
         /\ g.r \in RefRecord /\ g.r.at = ref.at /\ g.r.upto = ref.upto
         /\ g.r.asked = ref.asked /\ (g.r.ok => ref.ok) /\ (~needed => g.r = ref)
<1>1. vec \in VecRecord /\ Sound(vec) /\ ref \in RefRecord
  BY VecFacts DEF VectorsInv, RefInv
<1>2. CASE ~needed
  BY <1>1, <1>2 DEF GrowResults
<1>3. CASE needed
  <2>1. PICK how \in ReallocResults : g = [v |-> Resized(vec, n), r |-> After(ref, how)]
    BY <1>3 DEF GrowResults
  <2>2. After(ref, how) = [at |-> ref.at, ok |-> ref.ok /\ how = "inPlace",
                           upto |-> ref.upto, asked |-> ref.asked]
    BY <1>1 DEF After, RefRecord
  <2>3. g.v = Resized(vec, n) /\ g.r = After(ref, how)
    BY <2>1
  <2>4. g.r \in RefRecord /\ g.r.at = ref.at /\ g.r.upto = ref.upto
        /\ g.r.asked = ref.asked /\ (g.r.ok => ref.ok)
    BY <1>1, <2>2, <2>3 DEF RefRecord
  <2> QED
    BY <1>1, <1>3, <2>3, <2>4, ResizedFields
<1> QED
  BY <1>2, <1>3

\* The client's pointer after a call that asked for n elements, and grew the
\* vector if there was less room.
LEMMA RefAfterGrowth ==
  ASSUME VectorsInv, ~vec.null, NEW n \in Nat, NEW r \in RefRecord,
         r.at = ref.at, r.upto = ref.upto, r.asked = ref.asked, r.ok => ref.ok,
         n <= vec.cap => r = ref,
         ref' = Asked(r, n), vec'.cap \in Nat, vec.cap <= vec'.cap
  PROVE  /\ RefInv'
         /\ ref'.ok = r.ok /\ ref'.at = r.at /\ ref'.upto = r.upto /\ ref'.asked \in Nat
         /\ n <= ref'.asked
<1>1. ref \in RefRecord /\ ref.upto <= vec.cap /\ (ref.ok => ref.at \in 1..ref.upto)
      /\ PointersKeptWithinCapacity /\ vec.cap \in Nat
  BY VecFacts DEF VectorsInv, RefInv, VecRecord
<1>2. ref' = [at |-> r.at, ok |-> r.ok, upto |-> r.upto,
              asked |-> IF n > r.asked THEN n ELSE r.asked]
  BY DEF Asked, RefRecord
<1>3. ref' \in RefRecord /\ n <= ref'.asked /\ r.asked <= ref'.asked
      /\ ref'.ok = r.ok /\ ref'.upto = r.upto /\ ref'.at = r.at
  BY <1>2 DEF RefRecord
<1>4. ref' # NoRef /\ ref'.asked <= ref'.upto => ref'.ok
  <2> SUFFICES ASSUME ref' # NoRef, ref'.asked <= ref'.upto  PROVE ref'.ok
    OBVIOUS
  <2>1. n <= vec.cap /\ ref.asked <= ref.upto
    BY <1>1, <1>3 DEF RefRecord
  <2>2. r = ref
    BY <2>1
  <2>3. CASE ref = NoRef
    <3>1. ref'.asked = 0 /\ ref'.upto = 0
      BY <1>3, <2>2, <2>3 DEF NoRef, RefRecord
    <3>2. ref'.at = 0 /\ ref'.ok = FALSE
      BY <1>3, <2>2, <2>3 DEF NoRef
    <3>3. ref' = [at |-> 0, ok |-> FALSE, upto |-> 0, asked |-> 0]
      BY <1>3, <3>1, <3>2 DEF RefRecord
    <3> QED
      BY <3>3 DEF NoRef
  <2>4. CASE ref # NoRef
    BY <1>1, <1>3, <2>1, <2>2, <2>4 DEF PointersKeptWithinCapacity
  <2> QED
    BY <2>3, <2>4
<1> QED
  BY <1>1, <1>3, <1>4 DEF RefInv, PointersKeptWithinCapacity, RefRecord

LEMMA ReserveStep ==
  ASSUME VectorsInv, ~vec.null, NEW n \in Nat,
         NEW g \in GrowResults(~(vec.cap >= n), n),
         vec' = g.v, ref' = Asked(g.r, n), ret' = "ok", UNCHANGED <<bufs, kind>>
  PROVE  VectorsInv' /\ Abs!Keep
<1>1. vec \in VecRecord /\ Sound(vec) /\ bufs = 1 /\ vec.cap \in Nat
  BY VecFacts DEF VecRecord
<1> DEFINE needed == ~(vec.cap >= n)
<1>2. needed \in BOOLEAN /\ (needed => vec.cap <= n) /\ (~needed <=> n <= vec.cap)
      /\ g \in GrowResults(needed, n)
  BY <1>1
<1> HIDE DEF needed
<1>3. /\ g.v \in VecRecord /\ Sound(g.v) /\ ~g.v.null
      /\ g.v.size = vec.size /\ g.v.cap = IF needed THEN n ELSE vec.cap
      /\ \A i \in 1..vec.size : g.v.cells[i] = vec.cells[i]
      /\ g.r \in RefRecord /\ g.r.at = ref.at /\ g.r.upto = ref.upto
      /\ g.r.asked = ref.asked /\ (g.r.ok => ref.ok) /\ (~needed => g.r = ref)
  BY <1>2, GrownFields
<1>4. vec'.cap \in Nat /\ vec.cap <= vec'.cap
  BY <1>1, <1>2, <1>3
<1>5. RefInv'
  BY <1>2, <1>3, <1>4, RefAfterGrowth
<1>6. VecInv'
  BY <1>1, <1>3, <1>4 DEF VectorsInv, VecInv, OneBuffer, Sound, Cell
<1>7. Contents(vec') = Contents(vec)
  BY <1>1, <1>3, SameContents
<1> QED
  BY <1>5, <1>6, <1>7 DEF VectorsInv, Abs!Keep

LEMMA ReadType ==
  ASSUME VectorsInv, ~vec.null, NEW x \in Pushable, NEW r \in RefRecord,
         r.at = ref.at, r.ok => ref.ok
  PROVE  /\ Read(x, r) \in Cell
         /\ Read(x, r) = Junk /\ (\A m \in 1..vec.size : vec.cells[m] # Junk)
              => ~r.ok /\ r.at > 0
<1>1. vec \in VecRecord /\ Sound(vec)
  BY VecFacts
<1>2. CASE x # "pointee"
  <2>1. x \in Elems
    BY <1>2 DEF Pushable
  <2> QED
    BY <1>2, <2>1 DEF Read, Cell
<1>3. CASE x = "pointee"
  <2>1. r.at \in 1..vec.size
    BY <1>3 DEF Pushable
  <2>2. vec.cells[r.at] \in Cell
    BY <1>1, <2>1 DEF Sound, VecRecord
  <2> QED
    BY <1>3, <2>1, <2>2 DEF Read, Cell
<1> QED
  BY <1>2, <1>3

\* A push: where its element was read, and what the vector shows after it.
PushedFrom(r) ==
  /\ ret' = "pushed"
  /\ vec'.cells[vec'.size] = Junk /\ (\A m \in 1..vec.size : vec.cells[m] # Junk)
       => ~r.ok /\ r.at > 0

LEMMA PushStep ==
  ASSUME VectorsInv, ~vec.null, NEW x \in Pushable, NEW n \in Nat, NEW early \in BOOLEAN,
         vec.size >= vec.cap => vec.cap < n,
         PushOf(x, vec.size >= vec.cap, n, early), UNCHANGED kind
  PROVE  /\ VectorsInv'
         /\ (Abs!Keep /\ ret' = "fail") \/ \E e \in Cell : Abs!Push(e)
         /\ ret' = "pushed" => PushedFrom(IF early THEN ref ELSE ref')
<1>1. vec \in VecRecord /\ Sound(vec) /\ bufs = 1 /\ vec.cap \in Nat /\ vec.size \in Nat
      /\ vec.size <= vec.cap /\ ref \in RefRecord
  BY VecFacts DEF VecRecord, Sound, VectorsInv, RefInv
<1> DEFINE full == vec.size >= vec.cap
<1>2. full \in BOOLEAN /\ (full => vec.cap <= n) /\ (~full <=> vec.size + 1 <= vec.cap)
  BY <1>1
<1>3. CASE GrowFails(full, n)
  BY <1>3, RefuseStep DEF GrowFails, Refuse
<1>4. ASSUME NEW g \in GrowResults(full, n),
             vec' = Stored(g.v, Read(x, IF early THEN ref ELSE g.r)),
             ref' = Asked(g.r, vec.size + 1), ret' = "pushed", UNCHANGED bufs
      PROVE  /\ VectorsInv' /\ (\E e \in Cell : Abs!Push(e))
             /\ PushedFrom(IF early THEN ref ELSE ref')
  <2> HIDE DEF full
  <2> DEFINE rr == IF early THEN ref ELSE g.r
             e == Read(x, rr)
  <2>1. /\ g.v \in VecRecord /\ Sound(g.v) /\ ~g.v.null
        /\ g.v.size = vec.size /\ g.v.cap = IF full THEN n ELSE vec.cap
        /\ \A i \in 1..vec.size : g.v.cells[i] = vec.cells[i]
        /\ g.r \in RefRecord /\ g.r.at = ref.at /\ g.r.upto = ref.upto
        /\ g.r.asked = ref.asked /\ (g.r.ok => ref.ok) /\ (~full => g.r = ref)
    BY <1>2, <1>4, GrownFields
  <2>2. g.v.size < g.v.cap
    BY <1>1, <1>2, <2>1 DEF full
  <2>3. rr \in RefRecord /\ rr.at = ref.at /\ (rr.ok => ref.ok)
    BY <1>1, <2>1
  <2>4. e \in Cell /\ (e = Junk /\ (\A m \in 1..vec.size : vec.cells[m] # Junk)
                        => ~rr.ok /\ rr.at > 0)
    BY <2>3, ReadType
  <2>5. vec' = Stored(g.v, e)
    BY <1>4
  <2> HIDE DEF e, rr
  <2>6. /\ vec' \in VecRecord /\ Sound(vec') /\ ~vec'.null
        /\ vec'.size = vec.size + 1 /\ vec'.cap = g.v.cap
        /\ vec'.cells[vec.size + 1] = e
        /\ \A i \in 1..vec.size : vec'.cells[i] = vec.cells[i]
    BY <2>1, <2>2, <2>4, <2>5, StoredFields
  <2>7. vec'.cap \in Nat /\ vec.cap <= vec'.cap /\ vec'.cap > 0
    BY <1>1, <1>2, <2>1, <2>2, <2>6 DEF VecRecord
  <2>8. RefInv' /\ ref'.ok = g.r.ok /\ ref'.at = g.r.at
    BY <1>1, <1>2, <1>4, <2>1, <2>7, RefAfterGrowth
  <2>9. VecInv'
    BY <1>1, <1>4, <2>6, <2>7 DEF VectorsInv, VecInv, OneBuffer, Sound, Cell
  <2>10. Contents(vec') = Append(Contents(vec), e)
    BY <1>1, <2>4, <2>6, ContentsAppend
  <2>11. Abs!Push(e)
    BY <1>4, <2>10 DEF Abs!Push
  <2>12. PushedFrom(IF early THEN ref ELSE ref')
    BY <1>4, <2>4, <2>6, <2>8 DEF PushedFrom, rr
  <2> QED
    BY <2>4, <2>8, <2>9, <2>11, <2>12 DEF VectorsInv
<1> QED
  BY <1>3, <1>4 DEF PushOf, GrowFails, Refuse

-----------------------------------------------------------------------------
(***************************************************************************)
(* Each vector has its own copy of VectorBase: the copies mean the same.   *)
(***************************************************************************)
LEMMA CVectorBase ==
  /\ \A n : C!Make(n) <=> Make(n)
  /\ \A n : C!Unmake(n) <=> Unmake(n)
  /\ \A i : C!PointAt(i) <=> PointAt(i)
  /\ C!Refuse <=> Refuse
  /\ C!DropLast <=> DropLast
  /\ C!Pushable = Pushable
  /\ \A b, n : C!GrowResults(b, n) = GrowResults(b, n)
  /\ \A b, n : C!GrowFails(b, n) <=> GrowFails(b, n)
  /\ \A x, b, n, early : C!PushOf(x, b, n, early) <=> PushOf(x, b, n, early)
  /\ \A r, n : C!Asked(r, n) = Asked(r, n)
BY DEF NULL, NoRef, NewVec, Make, Unmake, Refuse, DropLast, PointAt, Pushable, GrowResults, GrowFails, PushOf, Read, Resized, ReallocResults, Asked, After, Stored,
       C!NULL, C!NoRef, C!NewVec, C!Make, C!Unmake, C!Refuse, C!DropLast, C!PointAt, C!Pushable, C!GrowResults, C!GrowFails, C!PushOf, C!Read, C!Resized, C!ReallocResults, C!Asked, C!After, C!Stored

LEMMA ObjVectorBase ==
  /\ \A n : O!Make(n) <=> Make(n)
  /\ \A n : O!Unmake(n) <=> Unmake(n)
  /\ \A i : O!PointAt(i) <=> PointAt(i)
  /\ O!Refuse <=> Refuse
  /\ O!DropLast <=> DropLast
  /\ O!Pushable = Pushable
  /\ \A b, n : O!GrowResults(b, n) = GrowResults(b, n)
  /\ \A b, n : O!GrowFails(b, n) <=> GrowFails(b, n)
  /\ \A x, b, n, early : O!PushOf(x, b, n, early) <=> PushOf(x, b, n, early)
  /\ \A r, n : O!Asked(r, n) = Asked(r, n)
BY DEF NULL, NoRef, NewVec, Make, Unmake, Refuse, DropLast, PointAt, Pushable, GrowResults, GrowFails, PushOf, Read, Resized, ReallocResults, Asked, After, Stored,
       O!NULL, O!NoRef, O!NewVec, O!Make, O!Unmake, O!Refuse, O!DropLast, O!PointAt, O!Pushable, O!GrowResults, O!GrowFails, O!PushOf, O!Read, O!Resized, O!ReallocResults, O!Asked, O!After, O!Stored

LEMMA HPDSVectorBase ==
  /\ \A n : H!Make(n) <=> Make(n)
  /\ \A n : H!Unmake(n) <=> Unmake(n)
  /\ \A i : H!PointAt(i) <=> PointAt(i)
  /\ H!Refuse <=> Refuse
  /\ H!DropLast <=> DropLast
  /\ H!Pushable = Pushable
  /\ \A b, n : H!GrowResults(b, n) = GrowResults(b, n)
  /\ \A b, n : H!GrowFails(b, n) <=> GrowFails(b, n)
  /\ \A x, b, n, early : H!PushOf(x, b, n, early) <=> PushOf(x, b, n, early)
  /\ \A r, n : H!Asked(r, n) = Asked(r, n)
BY DEF NULL, NoRef, NewVec, Make, Unmake, Refuse, DropLast, PointAt, Pushable, GrowResults, GrowFails, PushOf, Read, Resized, ReallocResults, Asked, After, Stored,
       H!NULL, H!NoRef, H!NewVec, H!Make, H!Unmake, H!Refuse, H!DropLast, H!PointAt, H!Pushable, H!GrowResults, H!GrowFails, H!PushOf, H!Read, H!Resized, H!ReallocResults, H!Asked, H!After, H!Stored
-----------------------------------------------------------------------------
(***************************************************************************)
(* One step of any of the three.                                           *)
(***************************************************************************)
SeqStep == [Abs!Next]_(Abs!vars)

ReadWell ==
  ret' = "pushed" => PushedFrom(IF kind = "c_std" THEN ref' ELSE ref)

Good == VectorsInv' /\ SeqStep /\ ReadWell

LEMMA AbstractSteps ==
  ASSUME \/ Abs!Keep \/ Abs!Empty \/ Abs!Pop \/ Abs!Assign
  PROVE  SeqStep /\ ReadWell
BY DEF SeqStep, ReadWell, Abs!Next, Abs!Keep, Abs!Empty, Abs!Pop, Abs!Assign

\* A vector made from a literal, whether or not malloc had a buffer for it.
LEMMA AssignStep ==
  ASSUME VectorsInv, NEW s \in Literals, kind = "c_std", C!InitAssign(s), UNCHANGED kind
  PROVE  Good
<1>1. s \in Seq(Elems) /\ Len(s) \in Nat /\ vec.null /\ ref' = NoRef
  BY DEF C!InitAssign, NoRef, C!NoRef
<1>2. s \in Seq(Cell) /\ s \in [1..Len(s) -> Cell]
  BY <1>1 DEF Cell
<1>3. CASE vec' = [null |-> FALSE, size |-> Len(s), cap |-> Len(s), cells |-> s]
           /\ bufs' = bufs + 1 /\ ret' = "ok"
  <2>1. vec' \in VecRecord /\ Sound(vec') /\ ~vec'.null /\ vec'.size = Len(s) /\ vec'.cells = s
        /\ vec'.cap \in Nat
    BY <1>1, <1>2, <1>3 DEF VecRecord, Sound
  <2>2. bufs' = 1
    BY <1>1, <1>3 DEF VectorsInv, VecInv, OneBuffer
  <2>3. VecInv'
    BY <2>1, <2>2 DEF VecInv, OneBuffer, Sound, Cell
  <2>4. Contents(vec) = <<>> /\ Contents(vec') \in Seq(Cell)
    BY <1>1, <2>1, ContentsOf DEF Contents
  <2>5. Abs!Assign
    BY <1>3, <2>4 DEF Abs!Assign, Cell
  <2> QED
    BY <1>1, <2>1, <2>3, <2>5, NoRefKept, AbstractSteps DEF Good, VectorsInv
<1>4. CASE vec' = [NULL EXCEPT !.size = Len(s), !.cap = Len(s)] /\ UNCHANGED bufs /\ ret' = "fail"
  <2>1. vec' = [null |-> TRUE, size |-> Len(s), cap |-> Len(s), cells |-> <<>>]
    BY <1>4 DEF NULL
  <2>2. vec' \in VecRecord /\ vec'.null /\ vec'.cap \in Nat
    BY <1>1, <2>1 DEF VecRecord
  <2>3. VecInv'
    BY <1>1, <1>4, <2>2 DEF VectorsInv, VecInv, OneBuffer
  <2>4. Abs!Empty
    BY <1>4, <2>2 DEF Abs!Empty, Contents
  <2> QED
    BY <1>1, <2>2, <2>3, <2>4, NoRefKept, AbstractSteps DEF Good, VectorsInv
<1> QED
  BY <1>3, <1>4 DEF C!InitAssign, C!NULL, NULL

LEMMA ClearStep ==
  ASSUME VectorsInv, C!Clear, UNCHANGED kind
  PROVE  Good
<1>1. CASE ~C!IsValid(vec)
  BY <1>1, AbstractSteps
     DEF C!Clear, Good, VectorsInv, VecInv, RefInv, OneBuffer, PointersKeptWithinCapacity,
         Abs!Keep, Contents
<1>2. CASE C!IsValid(vec)
  <2>1. ~vec.null
    BY <1>2 DEF C!IsValid
  <2>2. vec \in VecRecord /\ Sound(vec)
    BY <2>1, VecFacts
  <2>3. vec' = [null |-> vec.null, size |-> 0, cap |-> vec.cap, cells |-> vec.cells]
    BY <1>2, <2>2 DEF C!Clear, VecRecord
  <2>4. vec' \in VecRecord /\ Sound(vec') /\ vec'.size = 0 /\ vec'.cap = vec.cap
        /\ vec'.null = vec.null
    BY <2>2, <2>3 DEF VecRecord, Sound
  <2>5. VecInv'
    BY <2>4 DEF C!Clear, VectorsInv, VecInv, OneBuffer, Sound, Cell
  <2>6. RefInv'
    BY <2>4 DEF C!Clear, VectorsInv, RefInv, PointersKeptWithinCapacity
  <2>7. Contents(vec') = <<>>
    BY <2>1, <2>4, ContentsOf
  <2>8. Abs!Empty
    BY <2>7 DEF C!Clear, Abs!Empty
  <2> QED
    BY <2>5, <2>6, <2>8, AbstractSteps DEF Good, VectorsInv
<1> QED
  BY <1>1, <1>2

\* A push into a vector that doubles its capacity, or takes the default first.
LEMMA PushGood ==
  ASSUME VectorsInv, ~vec.null, NEW x \in Pushable, NEW n \in Nat,
         NEW early \in BOOLEAN, early <=> kind # "c_std",
         vec.size >= vec.cap => vec.cap < n,
         PushOf(x, vec.size >= vec.cap, n, early), UNCHANGED kind
  PROVE  Good
<1>1. /\ VectorsInv'
      /\ Abs!Keep \/ \E e \in Cell : Abs!Push(e)
      /\ ret' = "pushed" => PushedFrom(IF early THEN ref ELSE ref')
  BY PushStep
<1>2. SeqStep
  BY <1>1 DEF SeqStep, Abs!Next, Cell
<1> QED
  BY <1>1, <1>2 DEF Good, ReadWell

LEMMA RefuseGood ==
  ASSUME VectorsInv, Refuse, UNCHANGED kind
  PROVE  Good
BY RefuseStep, AbstractSteps DEF Good

LEMMA CVectorStep ==
  ASSUME VectorsInv, kind = "c_std", C!CNext, UNCHANGED kind
  PROVE  Good
<1>1. ASSUME NEW c \in InitCaps, C!Create(c)  PROVE Good
  <2>1. Make(IF c = 0 THEN MinDefaultCapacity ELSE c)
    BY <1>1, CVectorBase DEF C!Create
  <2>2. (IF c = 0 THEN MinDefaultCapacity ELSE c) \in Nat
    OBVIOUS
  <2> QED
    BY <2>1, <2>2, MakeStep, AbstractSteps DEF Good
<1>2. ASSUME NEW s \in Literals, C!InitAssign(s)  PROVE Good
  BY <1>2, AssignStep
<1>3. ASSUME NEW x \in C!Pushable, C!Push(x)  PROVE Good
  <2>1. x \in Pushable
    BY <1>3, CVectorBase
  <2>2. CASE ~C!IsValid(vec)
    BY <1>3, <2>2, CVectorBase, RefuseGood DEF C!Push
  <2>3. CASE C!IsValid(vec)
    <3> DEFINE n == IF vec.cap = 0 THEN MinDefaultCapacity ELSE vec.cap * 2
    <3>1. ~vec.null /\ vec \in VecRecord
      BY <2>3, VecFacts DEF C!IsValid
    <3>2. n \in Nat /\ vec.cap < n
      BY <3>1 DEF VecRecord
    <3> HIDE DEF n
    <3>3. PushOf(x, vec.size >= vec.cap, n, FALSE)
      BY <1>3, <2>3, CVectorBase DEF C!Push, C!IsFull, n
    <3> QED
      BY <2>1, <3>1, <3>2, <3>3, PushGood
  <2> QED
    BY <2>2, <2>3
<1>4. CASE C!Deinit
  <2>1. (IF C!IsValid(vec) THEN 1 ELSE 0) = bufs
    <3>1. CASE vec.null
      BY <3>1 DEF VectorsInv, VecInv, OneBuffer, C!IsValid
    <3>2. CASE ~vec.null
      BY <3>2, VecFacts DEF C!IsValid, Sound, VecRecord
    <3> QED
      BY <3>1, <3>2
  <2>2. Unmake(bufs) /\ bufs \in Nat
    BY <1>4, <2>1, CVectorBase DEF C!Deinit, VectorsInv, VecInv
  <2> QED
    BY <2>2, UnmakeStep, AbstractSteps DEF Good
<1>5. CASE C!Pop
  <2>1. CASE C!IsValid(vec) /\ vec.size > 0
    BY <1>5, <2>1, CVectorBase, DropStep, AbstractSteps DEF C!Pop, C!IsValid, Good
  <2>2. CASE ~(C!IsValid(vec) /\ vec.size > 0)
    BY <1>5, <2>2, CVectorBase, RefuseGood DEF C!Pop
  <2> QED
    BY <2>1, <2>2
<1>6. CASE C!Clear
  BY <1>6, ClearStep
<1>7. ASSUME NEW n \in 0..MaxCap, C!Reserve(n)  PROVE Good
  <2>1. CASE C!Refuse
    BY <2>1, CVectorBase, RefuseGood
  <2>2. CASE C!IsValid(vec) /\ \E g \in C!GrowResults(~C!Enough(n), n) :
                                 vec' = g.v /\ ref' = C!Asked(g.r, n)
             /\ ret' = "ok" /\ UNCHANGED bufs
    <3>1. PICK g \in GrowResults(~(vec.cap >= n), n) : vec' = g.v /\ ref' = Asked(g.r, n)
      BY <2>2, CVectorBase DEF C!Enough
    <3>2. ~vec.null /\ n \in Nat
      BY <2>2 DEF C!IsValid
    <3> QED
      BY <2>2, <3>1, <3>2, ReserveStep, AbstractSteps DEF Good
  <2> QED
    BY <1>7, <2>1, <2>2 DEF C!Reserve, C!GrowFails
<1>8. ASSUME NEW n \in 0..MaxCap, C!At(n)  PROVE Good
  <2>1. CASE C!IsValid(vec) /\ n < vec.size
    BY <1>8, <2>1, CVectorBase, PointStep, AbstractSteps DEF C!At, C!IsValid, Good
  <2>2. CASE ~(C!IsValid(vec) /\ n < vec.size)
    BY <1>8, <2>2, CVectorBase, RefuseGood DEF C!At
  <2> QED
    BY <2>1, <2>2
<1> QED
  BY <1>1, <1>2, <1>3, <1>4, <1>5, <1>6, <1>7, <1>8 DEF C!CNext

LEMMA ObjVectorStep ==
  ASSUME VectorsInv, kind = "c_oop", O!ONext, UNCHANGED kind
  PROVE  Good
<1>1. ASSUME NEW c \in InitCaps, O!OCreate(c)  PROVE Good
  <2>1. CASE c = 0
    BY <1>1, <2>1, ObjVectorBase, RefuseGood DEF O!OCreate
  <2>2. CASE c # 0
    <3>1. Make(c) /\ c \in Nat
      BY <1>1, <2>2, ObjVectorBase DEF O!OCreate
    <3> QED
      BY <2>2, <3>1, MakeStep, AbstractSteps DEF Good
  <2> QED
    BY <2>1, <2>2
<1>2. ASSUME NEW x \in O!Pushable, O!OPush(x)  PROVE Good
  <2>1. x \in Pushable
    BY <1>2, ObjVectorBase
  <2>2. CASE vec.null
    BY <1>2, <2>2, ObjVectorBase, RefuseGood DEF O!OPush
  <2>3. CASE ~vec.null
    <3>1. vec.cap \in Nat /\ vec.cap > 0
      BY <2>3, VecFacts DEF VecRecord, VectorsInv, VecInv
    <3>2. vec.cap * 2 \in Nat /\ vec.cap < vec.cap * 2
      BY <3>1
    <3>3. PushOf(x, vec.size >= vec.cap, vec.cap * 2, TRUE)
      BY <1>2, <2>3, ObjVectorBase DEF O!OPush
    <3> QED
      BY <2>1, <2>3, <3>2, <3>3, PushGood
  <2> QED
    BY <2>2, <2>3
<1>3. CASE O!ODestroy
  <2>1. bufs = 1
    BY <1>3, VecFacts DEF O!ODestroy
  <2>2. Unmake(1)
    BY <1>3, ObjVectorBase DEF O!ODestroy
  <2> QED
    BY <2>1, <2>2, UnmakeStep, AbstractSteps DEF Good
<1>4. CASE O!OPop
  <2>1. CASE ~vec.null /\ vec.size > 0
    BY <1>4, <2>1, ObjVectorBase, DropStep, AbstractSteps DEF O!OPop, Good
  <2>2. CASE ~(~vec.null /\ vec.size > 0)
    BY <1>4, <2>2, ObjVectorBase, RefuseGood DEF O!OPop
  <2> QED
    BY <2>1, <2>2
<1>5. ASSUME NEW i \in 0..MaxCap, O!OAt(i)  PROVE Good
  <2>1. CASE ~vec.null /\ vec.size > 0 /\ i < vec.size
    BY <1>5, <2>1, ObjVectorBase, PointStep, AbstractSteps DEF O!OAt, Good
  <2>2. CASE ~(~vec.null /\ vec.size > 0 /\ i < vec.size)
    BY <1>5, <2>2, ObjVectorBase, RefuseGood DEF O!OAt
  <2> QED
    BY <2>1, <2>2
<1> QED
  BY <1>1, <1>2, <1>3, <1>4, <1>5 DEF O!ONext

LEMMA HPDSVectorStep ==
  ASSUME VectorsInv, kind = "hpds", H!HNext, UNCHANGED kind
  PROVE  Good
<1>1. ASSUME NEW x \in H!Pushable, H!HPush(x)  PROVE Good
  <2>1. x \in Pushable /\ ~vec.null
    BY <1>1, HPDSVectorBase DEF H!HPush
  <2>2. vec.cap \in Nat /\ vec.cap > 0
    BY <2>1, VecFacts DEF VecRecord, VectorsInv, VecInv
  <2>3. vec.cap * 2 \in Nat /\ vec.cap < vec.cap * 2
    BY <2>2
  <2>4. PushOf(x, vec.size >= vec.cap, vec.cap * 2, TRUE)
    BY <1>1, HPDSVectorBase DEF H!HPush
  <2> QED
    BY <2>1, <2>3, <2>4, PushGood
<1>2. CASE H!HCreate
  <2>1. Make(1)
    BY <1>2, HPDSVectorBase DEF H!HCreate, H!MIN_VECTOR_CAP
  <2> QED
    BY <2>1, MakeStep, AbstractSteps DEF Good
<1>3. CASE H!HDestroy
  <2>1. bufs = 1
    BY <1>3, VecFacts DEF H!HDestroy
  <2>2. Unmake(1)
    BY <1>3, HPDSVectorBase DEF H!HDestroy
  <2> QED
    BY <2>1, <2>2, UnmakeStep, AbstractSteps DEF Good
<1>4. CASE H!HPop
  <2>1. CASE vec.size > 0
    BY <1>4, <2>1, HPDSVectorBase, DropStep, AbstractSteps DEF H!HPop, Good
  <2>2. CASE ~(vec.size > 0)
    <3>1. ret' = "ok" /\ UNCHANGED <<vec, bufs, ref>>
      BY <1>4, <2>2 DEF H!HPop
    <3>2. VectorsInv'
      BY <3>1 DEF VectorsInv, VecInv, RefInv, OneBuffer, PointersKeptWithinCapacity
    <3>3. Abs!Keep
      BY <3>1 DEF Abs!Keep, Contents
    <3> QED
      BY <3>2, <3>3, AbstractSteps DEF Good
  <2> QED
    BY <2>1, <2>2
<1>5. ASSUME NEW i \in 0..MaxCap, H!HStep(i)  PROVE Good
  BY <1>5, HPDSVectorBase, PointStep, AbstractSteps DEF H!HStep, Good
<1> QED
  BY <1>1, <1>2, <1>3, <1>4, <1>5 DEF H!HNext

-----------------------------------------------------------------------------
LEMMA VectorsInit == VInit => VectorsInv /\ Abs!Init
<1> SUFFICES ASSUME VInit  PROVE VectorsInv /\ Abs!Init
  OBVIOUS
<1>1. vec = NULL /\ bufs = 0 /\ ref = NoRef /\ ret = "ok"
  BY DEF VInit, NoVector
<1>2. VecInv
  BY <1>1, NullFacts DEF VecInv, OneBuffer
<1>3. RefInv
  BY <1>1, NullFacts DEF RefInv, PointersKeptWithinCapacity
<1> QED
  BY <1>1, <1>2, <1>3, NullFacts DEF VectorsInv, Abs!Init

LEMMA VectorsStep == VectorsInv /\ [VNext]_<<vars, kind>> => VectorsInv' /\ SeqStep
<1> SUFFICES ASSUME VectorsInv, [VNext]_<<vars, kind>>  PROVE VectorsInv' /\ SeqStep
  OBVIOUS
<1>1. CASE VNext
  BY <1>1, CVectorStep, ObjVectorStep, HPDSVectorStep DEF VNext, Good
<1>2. CASE UNCHANGED <<vars, kind>>
  <2>1. VectorsInv'
    BY <1>2 DEF vars, VectorsInv, VecInv, RefInv, OneBuffer, PointersKeptWithinCapacity
  <2>2. UNCHANGED Abs!vars
    BY <1>2 DEF vars, Abs!vars, Contents
  <2> QED
    BY <2>1, <2>2 DEF SeqStep
<1> QED
  BY <1>1, <1>2

LEMMA VectorsInvariant == VSpec => []VectorsInv
<1>1. VInit => VectorsInv
  BY VectorsInit
<1>2. VectorsInv /\ [VNext]_<<vars, kind>> => VectorsInv'
  BY VectorsStep
<1> QED
  BY <1>1, <1>2, PTL DEF VSpec

(***************************************************************************)
(* For every set of elements, capacities and default capacity, each of the *)
(* three vectors owns one buffer while it has data and none while it has   *)
(* not, and its elements are inside it.                                    *)
(***************************************************************************)
THEOREM NoLeakNoDoubleFree == VSpec => []OneBuffer
<1>1. VectorsInv => OneBuffer
  BY DEF VectorsInv, VecInv
<1> QED
  BY <1>1, VectorsInvariant, PTL

(***************************************************************************)
(* A pointer into a vector is good as long as no call asked for more room  *)
(* than there was when it was taken.                                       *)
(***************************************************************************)
THEOREM PointersStay == VSpec => []PointersKeptWithinCapacity
<1>1. VectorsInv => PointersKeptWithinCapacity
  BY DEF VectorsInv, RefInv
<1> QED
  BY <1>1, VectorsInvariant, PTL

\* SelfPushReadsElement, of one step.
SelfPushStep ==
  (/\ ret' = "pushed" /\ vec'.cells[vec'.size] = Junk
   /\ \A n \in 1..vec.size : vec.cells[n] # Junk)
    => IF kind = "c_std" THEN ref'.asked > ref'.upto ELSE ref.asked > ref.upto

LEMMA StaleWhenJunk ==
  ASSUME VectorsInv, [VNext]_<<vars, kind>>
  PROVE  [SelfPushStep]_vars
<1>1. CASE UNCHANGED <<vars, kind>>
  BY <1>1 DEF vars
<1>2. CASE VNext
  <2>1. Good /\ UNCHANGED kind
    BY <1>2, CVectorStep, ObjVectorStep, HPDSVectorStep DEF VNext
  <2> SUFFICES ASSUME ret' = "pushed", vec'.cells[vec'.size] = Junk,
                      \A n \in 1..vec.size : vec.cells[n] # Junk
               PROVE  IF kind = "c_std" THEN ref'.asked > ref'.upto ELSE ref.asked > ref.upto
    BY DEF SelfPushStep
  <2>2. CASE kind = "c_std"
    <3>1. ~ref'.ok /\ ref'.at > 0
      BY <2>1, <2>2 DEF Good, ReadWell, PushedFrom
    <3>2. ref' \in RefRecord /\ (ref' # NoRef /\ ref'.asked <= ref'.upto => ref'.ok)
      BY <2>1 DEF Good, VectorsInv, RefInv, PointersKeptWithinCapacity
    <3>3. ref' # NoRef
      BY <3>1 DEF NoRef
    <3> QED
      BY <2>2, <3>1, <3>2, <3>3 DEF RefRecord
  <2>3. CASE kind # "c_std"
    <3>1. ~ref.ok /\ ref.at > 0
      BY <2>1, <2>3 DEF Good, ReadWell, PushedFrom
    <3>2. ref \in RefRecord /\ (ref # NoRef /\ ref.asked <= ref.upto => ref.ok)
      BY DEF VectorsInv, RefInv, PointersKeptWithinCapacity
    <3>3. ref # NoRef
      BY <3>1 DEF NoRef
    <3> QED
      BY <2>3, <3>1, <3>2, <3>3 DEF RefRecord
  <2> QED
    BY <2>2, <2>3
<1> QED
  BY <1>1, <1>2

(***************************************************************************)
(* A push reads freed memory only in the vector that does not copy its     *)
(* element, when it grows, or through a pointer that was stale before.     *)
(***************************************************************************)
THEOREM SelfPushReads == VSpec => SelfPushReadsElement
<1>1. VectorsInv /\ [VNext]_<<vars, kind>> => [SelfPushStep]_vars
  BY StaleWhenJunk
<1>2. VSpec => [][SelfPushStep]_vars
  BY <1>1, VectorsInvariant, PTL DEF VSpec
<1> QED
  BY <1>2 DEF SelfPushReadsElement, SelfPushStep

(***************************************************************************)
(* Each of the three vectors implements the sequence.                      *)
(***************************************************************************)
THEOREM VectorsAreSequences == VSpec => RefinesSeq
<1>1. VInit => Abs!Init
  BY VectorsInit
<1>2. VectorsInv /\ [VNext]_<<vars, kind>> => [Abs!Next]_(Abs!vars)
  BY VectorsStep DEF SeqStep
<1> QED
  BY <1>1, <1>2, VectorsInvariant, PTL DEF VSpec, RefinesSeq, Abs!Spec
=============================================================================

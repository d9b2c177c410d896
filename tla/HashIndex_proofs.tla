-------------------------- MODULE HashIndex_proofs --------------------------
(***************************************************************************)
(* Facts about the arena and the hash index, for all arguments.            *)
(***************************************************************************)
EXTENDS ArenaOps, HashIndex, FiniteSetTheorems, WellFoundedInduction, TLAPS

(***************************************************************************)
(* Every non-empty finite set of numbers has a least element, so the first *)
(* free slot and the first match of a probe exist.  Among the sets of      *)
(* numbers below a member of S, a minimal one is that of the least member. *)
(***************************************************************************)
LEMMA LeastExists ==
  ASSUME NEW S, S \subseteq Nat, S # {}, IsFiniteSet(S)
  PROVE  \E x \in S : \A y \in S : x <= y
<1> DEFINE Below(x) == {y \in S : y < x}
           F == {Below(x) : x \in S}
           R == StrictSubsetOrdering(S)
<1>1. IsWellFoundedOn(R, SUBSET S)
  BY FS_StrictSubsetOrderingWellFounded, FS_FiniteSubsetsOfFinite
<1>2. F \subseteq SUBSET S /\ F # {}
  OBVIOUS
<1>3. \E T \in F : \A U \in F : ~ (<<U, T>> \in R)
  <2> HIDE DEF R, F
  <2> QED BY <1>1, <1>2, WFMin
<1>4. PICK x \in S : \A y \in S : ~ (<<Below(y), Below(x)>> \in R)
  <2>1. PICK T \in F : \A U \in F : ~ (<<U, T>> \in R)
    BY <1>3
  <2>2. PICK x \in S : T = Below(x)
    BY <2>1
  <2> QED BY <2>1, <2>2
<1>5. ASSUME NEW y \in S PROVE x <= y
  <2>1. SUFFICES ASSUME y < x PROVE FALSE
    OBVIOUS
  <2>2. \A z \in S : z < y => z < x
    BY <2>1
  <2>3. Below(y) \subseteq Below(x)
    BY <2>2
  <2>4. y \in Below(x)
    BY <2>1
  <2>5. y \notin Below(y)
    BY y \in Nat, ~(y < y)
  <2>6. Below(y) \in SUBSET S /\ Below(x) \in SUBSET S
    OBVIOUS
  <2>7. <<Below(y), Below(x)>> \in R
    <3> HIDE DEF Below
    <3> QED BY <2>3, <2>4, <2>5, <2>6 DEF StrictSubsetOrdering
  <2> QED BY <2>7, <1>4
<1> QED BY <1>5

(***************************************************************************)
(* Min, as the probes use it.                                              *)
(***************************************************************************)
LEMMA MinOfSteps ==
  ASSUME NEW n \in Nat, NEW S, S \subseteq 0..n-1, S # {}
  PROVE  Min(S) \in S /\ \A y \in S : Min(S) <= y
<1>1. IsFiniteSet(S)
  <2>1. IsFiniteSet(0..n-1)
    BY FS_Interval
  <2> QED BY <2>1, FS_Subset
<1>2. \E x \in S : \A y \in S : x <= y
  <2>1. S \subseteq Nat
    OBVIOUS
  <2> QED BY <2>1, <1>1, LeastExists
<1> QED BY <1>2 DEF Min

-----------------------------------------------------------------------------
(***************************************************************************)
(* ALIGN_OFFSET, at the table's alignment, rounds up to a multiple of 4.   *)
(***************************************************************************)
LEMMA AlignOffset4 ==
  ASSUME NEW x \in Nat
  PROVE  /\ AlignOffset(x, 4) \in Nat
         /\ x <= AlignOffset(x, 4) /\ AlignOffset(x, 4) <= x + 3
         /\ AlignOffset(x, 4) % 4 = 0
BY DEF AlignOffset

(***************************************************************************)
(* An allocation leaves an arena, and its answer is an offset or NULL.     *)
(***************************************************************************)
LEMMA ArenaAllocType ==
  ASSUME NEW m \in Arena, NEW n \in Nat
  PROVE  /\ ArenaAlloc(m, n, 4).mem \in Arena
         /\ ArenaAlloc(m, n, 4).off # NULL_OFF => ArenaAlloc(m, n, 4).off \in Nat
         /\ m.cur <= ArenaAlloc(m, n, 4).mem.cur
         /\ ArenaAlloc(m, n, 4).mem.size = m.size
<1>1. AlignOffset(m.cur, 4) \in Nat /\ m.cur <= AlignOffset(m.cur, 4)
  BY AlignOffset4 DEF Arena
<1> QED BY <1>1 DEF ArenaAlloc, Arena

(***************************************************************************)
(* Inserting into the index keeps it an index.                             *)
(***************************************************************************)
LEMMA HashIndexInsertType ==
  ASSUME NEW cap \in Nat, NEW V, NEW idx \in [0..cap-1 -> V],
         NEW hash, NEW kidx \in V
  PROVE  HashIndexInsert(idx, cap, hash, kidx) \in [0..cap-1 -> V]
BY DEF HashIndexInsert

-----------------------------------------------------------------------------
(***************************************************************************)
(* A probe of cap steps visits every slot.                                 *)
(***************************************************************************)
LEMMA RemainderOf ==
  ASSUME NEW cap \in Nat \ {0}, NEW q \in Nat, NEW s \in 0..cap-1
  PROVE  (q * cap + s) % cap = s
OBVIOUS

LEMMA ProbeVisits ==
  ASSUME NEW cap \in Nat \ {0}, NEW h \in Nat, NEW s \in 0..cap-1
  PROVE  \E n \in 0..cap-1 : Slot(h, n, cap) = s
<1> DEFINE q == h \div cap
           r == h % cap
<1>1. q \in Nat /\ r \in 0..cap-1 /\ h = q * cap + r
  OBVIOUS
<1> HIDE DEF q, r
<1>2. CASE r <= s
  <2>1. s - r \in 0..cap-1 /\ h + (s - r) = q * cap + s
    BY <1>1, <1>2
  <2>2. (h + (s - r)) % cap = s
    BY <1>1, <2>1, RemainderOf
  <2> QED BY <2>1, <2>2 DEF Slot
<1>3. CASE ~(r <= s)
  <2> DEFINE n == cap + s - r
  <2>1. n \in 0..cap-1
    BY <1>1, <1>3
  <2>2. h + n = (q + 1) * cap + s
    BY <1>1
  <2>3. ((q + 1) * cap + s) % cap = s
    BY <1>1, RemainderOf
  <2> HIDE DEF n
  <2> QED BY <2>1, <2>2, <2>3 DEF Slot
<1> QED BY <1>2, <1>3

LEMMA InitialCount ==
  ASSUME NEW n \in Nat
  PROVE  IsFiniteSet(0..n-1) /\ Cardinality(0..n-1) = n
<1>1. 0 \in Int /\ n - 1 \in Int
  OBVIOUS
<1>2. /\ IsFiniteSet(0..n-1)
      /\ Cardinality(0..n-1) = IF 0 > n-1 THEN 0 ELSE (n-1)-0+1
  BY <1>1, FS_Interval
<1>3. (IF 0 > n-1 THEN 0 ELSE (n-1)-0+1) = n
  OBVIOUS
<1> QED BY <1>2, <1>3

(***************************************************************************)
(* An index whose slots name some of n entries, each at most once, has a   *)
(* free slot if it has more than n slots.                                  *)
(***************************************************************************)
LEMMA SlotLeftFree ==
  ASSUME NEW cap \in Nat, NEW n \in 0..cap-1, NEW idx, DOMAIN idx = 0..cap-1,
         \A s \in 0..cap-1 : idx[s] # HT_KIDX_SLOT_EMPTY => idx[s] \in 0..n-1,
         \A s, u \in 0..cap-1 : idx[s] # HT_KIDX_SLOT_EMPTY /\ idx[s] = idx[u] => s = u
  PROVE  \E s \in 0..cap-1 : idx[s] = HT_KIDX_SLOT_EMPTY
<1> SUFFICES ASSUME \A s \in 0..cap-1 : idx[s] # HT_KIDX_SLOT_EMPTY PROVE FALSE
  OBVIOUS
<1> DEFINE S == 0..cap-1
           T == 0..n-1
           f == [s \in S |-> idx[s]]
<1>1. /\ IsFiniteSet(S) /\ Cardinality(S) = cap
      /\ IsFiniteSet(T) /\ Cardinality(T) = n
  BY InitialCount
<1>2. f \in [S -> T] /\ Cardinality(T) < Cardinality(S)
  BY <1>1
<1>3. \E s, u \in S : s # u /\ f[s] = f[u]
  <2> HIDE DEF S, T, f
  <2> QED BY <1>1, <1>2, FS_PigeonHole
<1> QED BY <1>3

(***************************************************************************)
(* Where an insertion into the index puts the entry: into a free slot that *)
(* a probe for the hash gets to before any other.                          *)
(***************************************************************************)
Lands(idx, new_idx, cap, h, kidx, n) ==
  /\ Slot(h, n, cap) \in 0..cap-1
  /\ idx[Slot(h, n, cap)] = HT_KIDX_SLOT_EMPTY
  /\ \A m \in 0..n : m # n => idx[Slot(h, m, cap)] # HT_KIDX_SLOT_EMPTY
  /\ new_idx = [idx EXCEPT ![Slot(h, n, cap)] = kidx]

LEMMA IndexInsertPlaces ==
  ASSUME NEW cap \in Nat, NEW idx, NEW h \in Nat, NEW kidx,
         \E s \in 0..cap-1 : idx[s] = HT_KIDX_SLOT_EMPTY
  PROVE  \E n \in 0..cap-1 : Lands(idx, HashIndexInsert(idx, cap, h, kidx), cap, h, kidx, n)
<1> DEFINE F == FreeSteps(idx, cap, h)
<1>1. PICK s \in 0..cap-1 : idx[s] = HT_KIDX_SLOT_EMPTY
  OBVIOUS
<1>2. cap \in Nat \ {0}
  BY <1>1
<1>3. F # {} /\ F \subseteq 0..cap-1
  <2>1. PICK n \in 0..cap-1 : Slot(h, n, cap) = s
    BY <1>2, ProbeVisits
  <2>2. n \in F
    BY <1>1, <2>1 DEF FreeSteps
  <2> QED BY <2>2 DEF FreeSteps
<1>4. Min(F) \in F /\ \A n \in F : Min(F) <= n
  <2> HIDE DEF F
  <2> QED BY <1>3, MinOfSteps
<1> DEFINE n == Min(F)
<1>5. n \in 0..cap-1 /\ idx[Slot(h, n, cap)] = HT_KIDX_SLOT_EMPTY
  <2> HIDE DEF n
  <2> QED BY <1>4 DEF FreeSteps, n
<1>6. ASSUME NEW m \in 0..n, m # n PROVE idx[Slot(h, m, cap)] # HT_KIDX_SLOT_EMPTY
  <2>1. m \in 0..cap-1 /\ m < n
    BY <1>5, <1>6
  <2>2. m \notin F
    BY <1>4, <1>5, <2>1
  <2> QED BY <2>1, <2>2 DEF FreeSteps
<1>7. Slot(h, n, cap) \in 0..cap-1
  BY <1>2, <1>5 DEF Slot
<1>8. HashIndexInsert(idx, cap, h, kidx) = [idx EXCEPT ![Slot(h, n, cap)] = kidx]
  BY <1>3 DEF HashIndexInsert
<1> HIDE DEF n, F
<1> QED BY <1>5, <1>6, <1>7, <1>8 DEF Lands
=============================================================================

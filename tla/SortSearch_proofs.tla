------------------------- MODULE SortSearch_proofs --------------------------
(***************************************************************************)
(* That insertion_sort orders every array, and that binary_search answers  *)
(* rightly and reads inside it, for every length and every width of int    *)
(* and size_t the assumption allows.                                       *)
(***************************************************************************)
EXTENDS SortSearch, FiniteSetTheorems, TLAPS

TypeInv ==
  /\ len \in 0..MaxLen /\ arr \in [0..len-1 -> Ints] /\ key \in Ints
  /\ pc \in {"sort", "shift", "search", "done"}
  /\ i \in Nat \ {0} /\ j \in Nat
  /\ begin_idx \in Int /\ end_idx \in Int /\ idx \in Int

LoopBounds ==
  /\ pc = "sort" => i <= len \/ i = 1
  /\ pc = "shift" => i < len /\ j <= i

\* The key can only be in the part between begin_idx and end_idx.
Narrow ==
  /\ begin_idx \in 0..len /\ end_idx \in 0..len-1
  /\ \A p \in 0..begin_idx-1 : arr[p] < key
  /\ \A p \in end_idx+1..len-1 : arr[p] > key

\* The key is below every element, and end_idx has been lowered below zero.
Below ==
  /\ begin_idx = 0 /\ end_idx \in {SizeMod - 1, SizeMod - 2}
  /\ \A p \in 0..len-1 : arr[p] > key

SearchInv == pc = "search" => len > 0 /\ idx = -1 /\ (Narrow \/ Below)

Inv == TypeInv /\ LoopBounds /\ InOrder /\ SearchInv /\ SearchRight

\* orig is an array of this length, and its elements are still held.
KeepsInv == orig \in [0..len-1 -> Ints] /\ KeepsElements

-----------------------------------------------------------------------------
LEMMA ModSmall == ASSUME NEW m \in Nat \ {0}, NEW n \in 0..m-1 PROVE n % m = n
  OBVIOUS

LEMMA ModBelowZero ==
  ASSUME NEW m \in Nat, m > 1 PROVE (-1) % m = m - 1 /\ (-2) % m = m - 2
  OBVIOUS

LEMMA ModTop == ASSUME NEW m \in Nat \ {0}, NEW c \in Nat \ {0} PROVE (c * m - 1) % m = m - 1
  OBVIOUS

\* Indices of the array are the same in every width.
LEMMA IndexWidths ==
  ASSUME TypeInv, NEW p \in 0..len
  PROVE  ToSize(p) = p /\ ToInt(p) = p
<1>1. p \in 0..SizeMod-1 /\ p \in 0..IntMod-1 /\ 2 * p < IntMod
  BY WidthAssumption DEF TypeInv
<1>2. p % SizeMod = p /\ p % IntMod = p
  BY <1>1, ModSmall, WidthAssumption
<1> QED BY <1>1, <1>2 DEF ToSize, ToInt

\* While the search is inside the array, so is the element it looks at.
LEMMA NarrowPivot ==
  ASSUME TypeInv, Narrow, begin_idx <= end_idx
  PROVE  Pivot \in begin_idx..end_idx
<1> DEFINE p == begin_idx + (end_idx - begin_idx) \div 2
<1>1. p \in begin_idx..end_idx /\ p \in 0..len
  BY DEF TypeInv, Narrow
<1>2. ToSize(p) = p /\ ToInt(p) = p
  BY <1>1, IndexWidths
<1> QED BY <1>1, <1>2 DEF Pivot

\* Below zero it looks at the place in front of the array, again and again.
LEMMA BelowPivot ==
  ASSUME TypeInv, len > 0, Below
  PROVE  Pivot = -1
<1>1. PICK c \in Nat \ {0} : SizeMod = 2 * (c * IntMod)
  BY WidthAssumption
<1>2. begin_idx + (end_idx - begin_idx) \div 2 = c * IntMod - 1
  BY <1>1, WidthAssumption DEF Below
<1> DEFINE top == c * IntMod - 1
<1>3. top \in 0..SizeMod-1
  BY <1>1, WidthAssumption
<1>4. ToSize(top) = top
  BY <1>3, ModSmall, WidthAssumption DEF ToSize
<1>5. top % IntMod = IntMod - 1
  BY ModTop, WidthAssumption
<1>6. IntMod \in Nat /\ IntMod > 2
  BY WidthAssumption DEF TypeInv
<1>7. ToInt(top) = -1
  BY <1>5, <1>6 DEF ToInt
<1> QED BY <1>2, <1>4, <1>7 DEF Pivot

-----------------------------------------------------------------------------
LEMMA InvInit == Init => Inv
<1> SUFFICES ASSUME Init PROVE Inv
  OBVIOUS
<1>1. TypeInv /\ LoopBounds
  BY DEF Init, TypeInv, LoopBounds
<1>2. Ordered(arr, 0, (IF i < len THEN i ELSE len) - 1)
  <2>1. \A p \in 0..len-1 : arr[p] \in Int
    BY <1>1, WidthAssumption DEF TypeInv
  <2>2. (IF i < len THEN i ELSE len) - 1 <= 0 /\ (IF i < len THEN i ELSE len) - 1 \in -1..len-1
    BY <1>1 DEF Init, TypeInv
  <2> QED BY <2>1, <2>2 DEF Ordered
<1> QED BY <1>1, <1>2 DEF Init, Inv, InOrder, SearchInv, SearchRight

\* The element after the ordered part is taken out.
LEMMA TakeKeyStep == ASSUME Inv, TakeKey PROVE Inv'
<1> USE DEF Inv, TypeInv, LoopBounds, TakeKey, searchVars
<1>1. TypeInv' /\ LoopBounds'
  OBVIOUS
<1>2. InOrder'
  BY DEF InOrder, Ordered
<1> QED BY <1>1, <1>2 DEF SearchInv, SearchRight

\* A larger element moves one place up; its place becomes the free one.
LEMMA ShiftStep == ASSUME Inv, Shift PROVE Inv'
<1> USE DEF Inv, TypeInv, LoopBounds, Shift, ShiftFurther, searchVars
<1>1. TypeInv' /\ LoopBounds'
  OBVIOUS
<1>2. InOrder'
  BY DEF InOrder
<1> QED BY <1>1, <1>2 DEF SearchInv, SearchRight

\* The element is put where those before are no larger and those behind are.
LEMMA PlaceStep == ASSUME Inv, Place PROVE Inv'
<1> USE DEF Inv, TypeInv, LoopBounds, Place, ShiftFurther, searchVars
<1>1. TypeInv' /\ LoopBounds'
  OBVIOUS
<1>2. InOrder'
  <2> DEFINE new == [arr EXCEPT ![j] = key]
  <2>1. key \in Int /\ i \in 0..len-1 /\ j \in 0..i /\ \A p \in 0..i : arr[p] \in Int
    <3>1. i \in 0..len-1 /\ j \in 0..i /\ Ints \subseteq Int
      BY WidthAssumption
    <3>2. \A p \in 0..i : arr[p] \in Ints
      BY <3>1
    <3> QED BY <3>1, <3>2
  <2>2. /\ \A p, q \in (0..i) \ {j} : p <= q => arr[p] <= arr[q]
        /\ \A p \in j+1..i : key <= arr[p]
    BY <2>1 DEF InOrder
  <2>3. \A p \in 0..j-1 : arr[p] <= key
    <3> SUFFICES ASSUME NEW p \in 0..j-1 PROVE arr[p] <= key
      OBVIOUS
    <3>1. arr[p] <= arr[j-1] /\ arr[j-1] \in Int /\ arr[p] \in Int
      BY <2>1, <2>2
    <3>2. arr[j-1] <= key
      BY <2>1
    <3> QED BY <2>1, <3>1, <3>2
  <2>4. /\ new[j] = key /\ \A p \in (0..i) \ {j} : new[p] = arr[p]
        /\ arr' = new
    BY <2>1
  <2>5. \A p, q \in 0..i : p <= q => new[p] <= new[q]
    <3> SUFFICES ASSUME NEW p \in 0..i, NEW q \in 0..i, p <= q PROVE new[p] <= new[q]
      OBVIOUS
    <3> HIDE DEF new
    <3>1. CASE p = j
      BY <2>1, <2>2, <2>4, <3>1
    <3>2. CASE p # j /\ q = j
      BY <2>1, <2>3, <2>4, <3>2
    <3>3. CASE p # j /\ q # j
      BY <2>1, <2>2, <2>4, <3>3
    <3> QED BY <3>1, <3>2, <3>3
  <2>6. i' <= len /\ i' - 1 = i /\ len' = len /\ pc' = "sort" /\ i \in Nat
    BY <2>1
  <2>7. Ordered(arr', 0, i' - 1)
    BY <2>4, <2>5, <2>6 DEF Ordered
  <2> QED BY <2>6, <2>7 DEF InOrder
<1> QED BY <1>1, <1>2 DEF SearchInv, SearchRight

\* The search begins with the whole array.
LEMMA StartSearchStep == ASSUME Inv, NEW k \in Ints, StartSearch(k) PROVE Inv'
<1> USE DEF Inv, TypeInv, LoopBounds, StartSearch, sortVars, Sorted
<1>1. TypeInv' /\ LoopBounds'
  OBVIOUS
<1>2. InOrder'
  BY DEF InOrder, Ordered
<1>3. SearchInv'
  BY DEF SearchInv, Narrow
<1> QED BY <1>1, <1>2, <1>3 DEF SearchRight

\* A search step keeps the key between the bounds, or finds it, or goes below
\* zero, and that only if the key is below every element.
LEMMA ProbeStep == ASSUME Inv, Probe PROVE Inv'
<1> USE DEF Inv, TypeInv
<1>1. /\ pc = "search" /\ len > 0 /\ idx = -1 /\ len \in Nat
      /\ Narrow \/ Below
      /\ Ordered(arr, 0, len - 1)
  BY DEF Probe, SearchInv, InOrder
<1>2. UNCHANGED <<arr, len, i, j, key>> /\ pivot_idx' = Pivot
  BY DEF Probe, sortVars
<1>3. InOrder' /\ LoopBounds'
  BY <1>1, <1>2 DEF Probe, InOrder, LoopBounds, Ordered
<1>4. key \in Int /\ \A p \in 0..len-1 : arr[p] \in Int
  BY WidthAssumption
<1>5. CASE Narrow
  <2> DEFINE p == Pivot
  <2>1. p \in begin_idx..end_idx /\ p \in 0..len-1 /\ begin_idx \in 0..len /\ end_idx \in 0..len-1
    BY <1>5, NarrowPivot DEF Probe, Narrow
  <2>2. ElementAt(p) = arr[p]
    BY <2>1 DEF ElementAt
  <2>3. CASE arr[p] = key
    <3>1. idx' = p /\ pc' = "done" /\ UNCHANGED <<begin_idx, end_idx>>
      BY <2>2, <2>3 DEF Probe
    <3> QED BY <1>1, <1>2, <1>3, <2>1, <2>3, <3>1 DEF SearchInv, SearchRight
  <2>4. CASE arr[p] < key
    <3>1. begin_idx' = p + 1 /\ UNCHANGED <<end_idx, idx, pc>>
      <4>1. ToSize(p + 1) = p + 1
        BY <1>1, <2>1, IndexWidths
      <4> QED BY <1>4, <2>1, <2>2, <2>4, <4>1 DEF Probe, Halve
    <3>2. \A n \in 0..p : arr[n] < key
      BY <1>1, <1>4, <2>1, <2>4 DEF Ordered
    <3>3. Narrow'
      BY <1>1, <1>2, <1>5, <2>1, <3>1, <3>2 DEF Narrow
    <3> QED BY <1>1, <1>2, <1>3, <2>1, <3>1, <3>3 DEF SearchInv, SearchRight
  <2>5. CASE arr[p] > key
    <3>1. end_idx' = ToSize(p - 1) /\ UNCHANGED <<begin_idx, idx, pc>>
      BY <1>4, <2>1, <2>2, <2>5 DEF Probe, Halve
    <3>2. \A n \in p..len-1 : arr[n] > key
      BY <1>1, <1>4, <2>1, <2>5 DEF Ordered
    <3>3. CASE p > 0
      <4>1. ToSize(p - 1) = p - 1
        BY <1>1, <2>1, <3>3, IndexWidths
      <4>2. Narrow'
        BY <1>1, <1>2, <1>5, <2>1, <3>1, <3>2, <3>3, <4>1 DEF Narrow
      <4> QED BY <1>1, <1>2, <1>3, <2>1, <3>1, <4>1, <4>2 DEF SearchInv, SearchRight
    <3>4. CASE p = 0
      <4>1. ToSize(p - 1) = SizeMod - 1
        <5>1. SizeMod \in Nat /\ SizeMod > 1
          BY <1>1, WidthAssumption
        <5>2. (-1) % SizeMod = SizeMod - 1
          BY <5>1, ModBelowZero
        <5> QED BY <3>4, <5>2 DEF ToSize
      <4>2. Below'
        BY <1>2, <2>1, <3>1, <3>2, <3>4, <4>1 DEF Below
      <4> QED BY <1>1, <1>2, <1>3, <3>1, <4>1, <4>2, WidthAssumption DEF SearchInv, SearchRight
    <3> QED BY <2>1, <3>3, <3>4
  <2> QED BY <1>4, <2>1, <2>3, <2>4, <2>5
<1>6. CASE Below
  <2>1. Pivot = -1
    BY <1>1, <1>6, BelowPivot
  <2>2. ElementAt(Pivot) = 0
    BY <2>1 DEF ElementAt
  <2>3. \A n \in 0..len-1 : arr[n] > key /\ arr[n] # key
    BY <1>4, <1>6 DEF Below
  <2>4. CASE key = 0
    <3>1. idx' = -1 /\ pc' = "done" /\ UNCHANGED <<begin_idx, end_idx>>
      BY <2>1, <2>2, <2>4 DEF Probe
    <3> QED BY <1>1, <1>2, <1>3, <2>3, <3>1 DEF SearchInv, SearchRight
  <2>5. CASE key # 0
    <3>1. /\ begin_idx' = 0 /\ end_idx' \in {SizeMod - 1, SizeMod - 2}
          /\ UNCHANGED <<idx, pc>>
      <4>1. ToSize(0) = 0
        BY <1>1, IndexWidths
      <4>2. ToSize(-1 - 1) = SizeMod - 2
        <5>1. SizeMod \in Nat /\ SizeMod > 1 /\ -1 - 1 = -2
          BY <1>1, WidthAssumption
        <5>2. (-2) % SizeMod = SizeMod - 2
          BY <5>1, ModBelowZero
        <5> QED BY <5>1, <5>2 DEF ToSize
      <4>3. begin_idx = 0 /\ end_idx \in {SizeMod - 1, SizeMod - 2}
        BY <1>6 DEF Below
      <4> QED BY <2>1, <2>2, <2>5, <4>1, <4>2, <4>3 DEF Probe, Halve
    <3>2. Below'
      BY <1>2, <1>6, <3>1 DEF Below
    <3> QED BY <1>1, <1>2, <1>3, <3>1, <3>2, WidthAssumption DEF SearchInv, SearchRight
  <2> QED BY <2>4, <2>5
<1> QED BY <1>1, <1>5, <1>6

LEMMA NotFoundStep == ASSUME Inv, NotFound PROVE Inv'
<1> USE DEF Inv, TypeInv, NotFound, sortVars, searchVars
<1>1. Narrow
  BY WidthAssumption DEF SearchInv, Below
<1>2. SearchRight'
  BY <1>1, WidthAssumption DEF SearchInv, SearchRight, Narrow
<1> QED BY <1>2 DEF LoopBounds, InOrder, SearchInv

LEMMA InvStep == Inv /\ [Next]_vars => Inv'
<1> SUFFICES ASSUME Inv, [Next]_vars PROVE Inv'
  OBVIOUS
<1>1. CASE TakeKey
  BY <1>1, TakeKeyStep
<1>2. CASE Shift
  BY <1>2, ShiftStep
<1>3. CASE Place
  BY <1>3, PlaceStep
<1>4. CASE Probe
  BY <1>4, ProbeStep
<1>5. CASE NotFound
  BY <1>5, NotFoundStep
<1>6. CASE \E k \in Ints : StartSearch(k)
  BY <1>6, StartSearchStep
<1>7. CASE UNCHANGED vars
  BY <1>7 DEF Inv, TypeInv, LoopBounds, InOrder, Ordered, SearchInv, Narrow, Below, SearchRight,
              vars
<1> QED BY <1>1, <1>2, <1>3, <1>4, <1>5, <1>6, <1>7 DEF Next, Loop

LEMMA Invariance == Spec => []Inv
  BY InvInit, InvStep, PTL DEF Spec

-----------------------------------------------------------------------------
\* How often v is among the first n elements of a.
Count(a, n, v) == Cardinality({p \in 0..n-1 : a[p] = v})

\* Two elements that change places leave each value as often.
LEMMA SwapKeepsCount ==
  ASSUME NEW n \in Nat, NEW a, NEW b, NEW v, NEW x \in 0..n-1, NEW y \in 0..n-1,
         b[x] = a[y], b[y] = a[x],
         \A p \in (0..n-1) \ {x, y} : b[p] = a[p]
  PROVE  Count(b, n, v) = Count(a, n, v)
<1> DEFINE A == {p \in 0..n-1 : a[p] = v}
           B == {p \in 0..n-1 : b[p] = v}
           f == [p \in A |-> IF p = x THEN y ELSE IF p = y THEN x ELSE p]
<1>1. IsFiniteSet(A)
  <2>1. IsFiniteSet(0..n-1) /\ A \in SUBSET (0..n-1)
    BY FS_Interval
  <2> HIDE DEF A
  <2> QED BY <2>1, FS_Subset
<1>2. f \in [A -> B]
  OBVIOUS
<1>3. \A p, q \in A : f[p] = f[q] => p = q
  OBVIOUS
<1>4. \A q \in B : \E p \in A : f[p] = q
  <2> TAKE q \in B
  <2> DEFINE p == IF q = x THEN y ELSE IF q = y THEN x ELSE q
  <2>1. p \in A /\ f[p] = q
    OBVIOUS
  <2> QED BY <2>1
<1>5. ExistsBijection(A, B)
  <2> HIDE DEF f
  <2> QED BY <1>2, <1>3, <1>4 DEF ExistsBijection, Bijection, Injection, Surjection, IsInjective
<1> QED BY <1>1, <1>5, FS_Bijection DEF Count

LEMMA KeepsInit == Init => KeepsInv
  BY DEF Init, KeepsInv, KeepsElements, Places, Held

\* Shifting swaps the free place with the one before; the other steps leave
\* alone what is held.
LEMMA KeepsStep == Inv /\ KeepsInv /\ [Next]_vars => KeepsInv'
<1> SUFFICES ASSUME Inv, KeepsInv, [Next]_vars PROVE KeepsInv'
  OBVIOUS
<1> USE DEF Inv, TypeInv, LoopBounds, KeepsInv
<1>1. CASE Shift
  <2>1. /\ len \in Nat /\ j \in 1..len-1 /\ j - 1 \in 0..len-1
        /\ UNCHANGED <<len, pc, key, orig>>
    BY <1>1, WidthAssumption DEF Shift, ShiftFurther
  <2>2. /\ Held'[j] = Held[j-1] /\ Held'[j-1] = Held[j]
        /\ \A p \in (0..len-1) \ {j, j-1} : Held'[p] = Held[p]
    BY <1>1, <2>1 DEF Shift, Held
  <2>3. ASSUME NEW v \in Ints PROVE Count(Held', len, v) = Count(Held, len, v)
    BY <2>1, <2>2, SwapKeepsCount
  <2>4. ASSUME NEW v \in Ints
        PROVE  Cardinality({p \in 0..len-1 : Held'[p] = v})
                 = Cardinality({p \in 0..len-1 : orig[p] = v})
    BY <2>3 DEF KeepsElements, Places, Count
  <2> QED BY <2>1, <2>4 DEF KeepsElements, Places
<1>2. CASE UNCHANGED <<len, orig, Held>>
  BY <1>2 DEF KeepsElements, Places
<1>3. CASE TakeKey
  BY <1>2, <1>3 DEF TakeKey, Held
<1>4. CASE Place
  BY <1>2, <1>4 DEF Place, Held
<1>5. CASE Probe
  BY <1>2, <1>5 DEF Probe, Held
<1>6. CASE NotFound
  BY <1>2, <1>6 DEF NotFound, Held
<1>7. CASE \E k \in Ints : StartSearch(k)
  BY <1>2, <1>7 DEF StartSearch, Sorted, Held
<1>8. CASE UNCHANGED vars
  BY <1>2, <1>8 DEF vars, Held
<1> QED BY <1>1, <1>3, <1>4, <1>5, <1>6, <1>7, <1>8 DEF Next, Loop

-----------------------------------------------------------------------------
(***************************************************************************)
(* insertion_sort (algo.h 10-22) leaves every array, however long, in      *)
(* order, with each value as often as before; and at every turn the part   *)
(* before i is in order.                                                   *)
(***************************************************************************)
THEOREM SortsEveryArray == Spec => []Sorts
<1>1. Spec => []KeepsInv
  BY Invariance, KeepsInit, KeepsStep, PTL DEF Spec
<1>2. Inv /\ KeepsInv => Sorts
  BY DEF Inv, KeepsInv, Sorts
<1> QED BY <1>1, <1>2, Invariance, PTL

(***************************************************************************)
(* What binary_search (algo.h 25-49) answers is right for every array and  *)
(* key, whatever the widths of int and size_t.                             *)
(***************************************************************************)
THEOREM SearchAnswers == Spec => []SearchRight
<1>1. Inv => SearchRight
  BY DEF Inv
<1> QED BY <1>1, Invariance, PTL

(***************************************************************************)
(* And it reads inside the array unless the key is below every element.    *)
(***************************************************************************)
THEOREM SearchReads == Spec => []ReadsInside
<1>1. Inv => ReadsInside
  <2> SUFFICES ASSUME Inv, pc = "search", begin_idx <= end_idx, arr[0] <= key
               PROVE  Pivot \in 0..len-1
    BY DEF ReadsInside
  <2>1. Narrow
    <3>1. 0 \in 0..len-1 /\ (Narrow \/ Below)
      BY DEF Inv, TypeInv, SearchInv
    <3>2. arr[0] \in Int /\ key \in Int
      BY <3>1, WidthAssumption DEF Inv, TypeInv
    <3> QED BY <3>1, <3>2 DEF Below
  <2> QED BY <2>1, NarrowPivot DEF Inv, TypeInv, Narrow
<1> QED BY <1>1, Invariance, PTL
=============================================================================

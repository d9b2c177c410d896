----------------------------- MODULE SortSearch -----------------------------
(***************************************************************************)
(* The macros insertion_sort and binary_search of vector/algo.h, and the   *)
(* program test.c around them: an array of ints is sorted in place, then   *)
(* searched, any number of times.  One step is one turn of a loop.         *)
(***************************************************************************)
EXTENDS Integers, FiniteSets

CONSTANTS
  Ints,               \* the values elements take
  MaxLen,             \* bound on the length of the array
  SizeMod,            \* 2^64: one more than the largest size_t
  IntMod              \* 2^32: the number of values of an int

ASSUME WidthAssumption ==
  /\ Ints \subseteq Int /\ MaxLen \in Nat
  /\ IntMod \in Nat \ {0} /\ 2 * MaxLen < IntMod
  /\ SizeMod \in Nat /\ SizeMod > IntMod /\ SizeMod % (2 * IntMod) = 0

VARIABLES
  arr, len,     \* the array, from 0
  pc,           \* "sort": at the head of the outer loop, "shift": in the inner
                \* one, "search": at the head of the search loop, "done"
  i, j,         \* insertion_sort's
  key,          \* insertion_sort's, or the key searched for
  begin_idx, end_idx, pivot_idx, idx,  \* binary_search's
  orig          \* history: the array before it was sorted

sortVars == <<i, j>>
searchVars == <<begin_idx, end_idx, pivot_idx, idx>>
vars == <<arr, len, pc, i, j, key, begin_idx, end_idx, pivot_idx, idx, orig>>

\* Conversions between size_t and int.
ToSize(n) == n % SizeMod
ToInt(n) == LET r == n % IntMod IN IF 2 * r < IntMod THEN r ELSE r - IntMod

Init ==
  /\ len \in 0..MaxLen /\ arr \in [0..len-1 -> Ints] /\ orig = arr
  /\ key \in Ints
  /\ pc = "sort" /\ i = 1 /\ j = 0
  /\ begin_idx = 0 /\ end_idx = 0 /\ pivot_idx = 0 /\ idx = -1

-----------------------------------------------------------------------------
\* The next element is taken out.
TakeKey ==
  /\ pc = "sort" /\ i < len
  /\ key' = arr[i] /\ j' = i /\ pc' = "shift"
  /\ UNCHANGED <<arr, len, i, searchVars, orig>>

\* Mutant: the first element is left alone.
M_ShiftFurther == j > 1 /\ arr[j-1] > key
ShiftFurther == j > 0 /\ arr[j-1] > key

Shift ==
  /\ pc = "shift" /\ ShiftFurther
  /\ arr' = [arr EXCEPT ![j] = arr[j-1]] /\ j' = j - 1
  /\ UNCHANGED <<len, pc, i, key, searchVars, orig>>

Place ==
  /\ pc = "shift" /\ ~ShiftFurther
  /\ arr' = [arr EXCEPT ![j] = key] /\ i' = i + 1 /\ pc' = "sort"
  /\ UNCHANGED <<len, j, key, searchVars, orig>>

Sorted == pc = "sort" /\ i >= len

\* Mutant: one place too far to the right.
M_StartSearch(k) ==
  /\ Sorted \/ pc = "done"
  /\ key' = k /\ idx' = -1
  /\ begin_idx' = 0 /\ end_idx' = len /\ pivot_idx' = 0
  /\ pc' = (IF len = 0 THEN "done" ELSE "search")
  /\ UNCHANGED <<arr, len, sortVars, orig>>

\* An empty array is not searched.
StartSearch(k) ==
  /\ Sorted \/ pc = "done"
  /\ key' = k /\ idx' = -1
  /\ begin_idx' = 0 /\ end_idx' = (IF len = 0 THEN 0 ELSE len - 1) /\ pivot_idx' = 0
  /\ pc' = (IF len = 0 THEN "done" ELSE "search")
  /\ UNCHANGED <<arr, len, sortVars, orig>>

Pivot == ToInt(ToSize(begin_idx + (end_idx - begin_idx) \div 2))

\* The array is a vector of vector.h: arr[-1] is the upper half of capacity.
ElementAt(n) == IF n \in 0..len-1 THEN arr[n] ELSE 0

\* Mutants: the element looked at is kept; the half without the key is kept.
M_HalveNoStep(p) ==
  IF ElementAt(p) < key
  THEN begin_idx' = ToSize(p) /\ UNCHANGED end_idx
  ELSE end_idx' = ToSize(p - 1) /\ UNCHANGED begin_idx
M_Halve(p) ==
  IF ElementAt(p) > key
  THEN begin_idx' = ToSize(p + 1) /\ UNCHANGED end_idx
  ELSE end_idx' = ToSize(p - 1) /\ UNCHANGED begin_idx
Halve(p) ==
  IF ElementAt(p) < key
  THEN begin_idx' = ToSize(p + 1) /\ UNCHANGED end_idx
  ELSE end_idx' = ToSize(p - 1) /\ UNCHANGED begin_idx

Probe ==
  /\ pc = "search" /\ begin_idx <= end_idx
  /\ pivot_idx' = Pivot
  /\ IF ElementAt(Pivot) = key
     THEN idx' = Pivot /\ pc' = "done" /\ UNCHANGED <<begin_idx, end_idx>>
     ELSE Halve(Pivot) /\ UNCHANGED <<idx, pc>>
  /\ UNCHANGED <<arr, len, sortVars, key, orig>>

NotFound ==
  /\ pc = "search" /\ begin_idx > end_idx
  /\ pc' = "done"
  /\ UNCHANGED <<arr, len, sortVars, key, searchVars, orig>>

Loop == TakeKey \/ Shift \/ Place \/ Probe \/ NotFound

Next == Loop \/ \E k \in Ints : StartSearch(k)

\* A loop that has begun runs on.
Spec == Init /\ [][Next]_vars /\ WF_vars(Loop)
-----------------------------------------------------------------------------
Ordered(a, m, n) == \A p, q \in m..n : p <= q => a[p] <= a[q]

(***************************************************************************)
(* insertion_sort puts the array in order and keeps what it held, each     *)
(* value as often: at every turn the part before i is in order, in the     *)
(* inner loop the value of one place is in key, and the elements moved     *)
(* aside are larger than it (algo.h 10-22).                                *)
(***************************************************************************)
InOrder ==
  /\ pc = "sort" => Ordered(arr, 0, (IF i < len THEN i ELSE len) - 1)
  /\ pc = "shift" =>
       /\ \A p, q \in (0..i) \ {j} : p <= q => arr[p] <= arr[q]
       /\ \A p \in j+1..i : arr[p] > key
  /\ pc \in {"search", "done"} => Ordered(arr, 0, len - 1)

Held == IF pc = "shift" THEN [arr EXCEPT ![j] = key] ELSE arr

Places(a, v) == {p \in 0..len-1 : a[p] = v}

KeepsElements ==
  \A v \in Ints : Cardinality(Places(Held, v)) = Cardinality(Places(orig, v))

Sorts == InOrder /\ KeepsElements

(***************************************************************************)
(* The search answers a place where the key is, or -1 if it is nowhere     *)
(* (algo.h 25-49), even after it has read in front of the array.            *)
(***************************************************************************)
SearchRight ==
  pc = "done" => IF idx = -1 THEN \A p \in 0..len-1 : arr[p] # key
                             ELSE idx \in 0..len-1 /\ arr[idx] = key

(***************************************************************************)
(* It reads outside the array only if the key is below every element: then *)
(* end_idx is lowered below zero (algo.h 36-44).                           *)
(***************************************************************************)
ReadsInside ==
  pc = "search" /\ begin_idx <= end_idx /\ arr[0] <= key => Pivot \in 0..len-1

(***************************************************************************)
(* And unless the key is below every element, the search ends.             *)
(***************************************************************************)
SearchEnds == (pc = "search" /\ arr[0] <= key) ~> pc = "done"
=============================================================================

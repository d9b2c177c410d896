-------------------------- MODULE KeyIndex_proofs ---------------------------
(***************************************************************************)
(* Theorems about the key index table, the program kitt.c and the static   *)
(* table, for every set of keys, lengths and hashes, for arenas of every   *)
(* size and any sequence of calls.                                         *)
(***************************************************************************)
EXTENDS Kitt, StaticKVProps, HashIndex_proofs

(***************************************************************************)
(* An index over entries of which the first n may be in it: its used slots *)
(* name such entries, no two of one key, and the probe for the key of a    *)
(* slot's entry gets to that slot.                                         *)
(***************************************************************************)
UsedSlots(idx) == {s \in DOMAIN idx : idx[s] # HT_KIDX_SLOT_EMPTY}

SlotReached(idx, cap, h, s) ==
  \E n \in 0..cap-1 : Slot(h, n, cap) = s /\ ProbeReaches(idx, cap, h, n)

IndexWithin(idx, cap, ents, n) ==
  /\ idx \in [0..cap-1 -> {HT_KIDX_SLOT_EMPTY} \cup 0..cap-1]
  /\ \A s \in UsedSlots(idx) :
       /\ idx[s] \in 0..n-1 /\ ents[idx[s]].key \in Keys
       /\ SlotReached(idx, cap, Hash[ents[idx[s]].key], s)
  /\ \A s, u \in UsedSlots(idx) : ents[idx[s]].key = ents[idx[u]].key => s = u

Names(idx, j) == \E s \in UsedSlots(idx) : idx[s] = j

\* No entry of k is in the index.
Unnamed(idx, ents, k) == \A s \in UsedSlots(idx) : ents[idx[s]].key # k

(***************************************************************************)
(* The index of an empty array names nothing.                              *)
(***************************************************************************)
LEMMA EmptyIndex ==
  ASSUME NEW cap \in Nat, NEW ents, NEW n
  PROVE  /\ IndexWithin(HashIndexInit(cap), cap, ents, n)
         /\ UsedSlots(HashIndexInit(cap)) = {}
<1>1. UsedSlots(HashIndexInit(cap)) = {}
  BY DEF UsedSlots, HashIndexInit
<1> QED BY <1>1 DEF IndexWithin, HashIndexInit

(***************************************************************************)
(* An index is one of every array with the same keys.                      *)
(***************************************************************************)
LEMMA SameKeysIndex ==
  ASSUME NEW idx, NEW cap \in Nat, NEW n \in Nat, NEW ents, NEW ents2,
         IndexWithin(idx, cap, ents, n), \A j \in 0..n-1 : ents2[j].key = ents[j].key
  PROVE  IndexWithin(idx, cap, ents2, n)
<1>1. ASSUME NEW s \in UsedSlots(idx) PROVE ents2[idx[s]].key = ents[idx[s]].key
  BY DEF IndexWithin
<1> QED BY <1>1 DEF IndexWithin

(***************************************************************************)
(* HashIndexInsert adds entry n, of a key the index does not have, and     *)
(* keeps everything that was there: it takes a slot no probe passes.       *)
(***************************************************************************)
LEMMA InsertNames ==
  ASSUME NEW idx, NEW cap \in Nat, NEW n \in 0..cap-1, NEW ents,
         IndexWithin(idx, cap, ents, n), ents[n].key \in Keys,
         Unnamed(idx, ents, ents[n].key),
         NEW new, new = HashIndexInsert(idx, cap, Hash[ents[n].key], n)
  PROVE  /\ IndexWithin(new, cap, ents, n + 1)
         /\ \A j : Names(new, j) <=> Names(idx, j) \/ j = n
<1> DEFINE h == Hash[ents[n].key]
<1>1. h \in Nat /\ DOMAIN idx = 0..cap-1
  BY KeyAssumption DEF IndexWithin
<1> HIDE DEF h
<1>2. \E s \in 0..cap-1 : idx[s] = HT_KIDX_SLOT_EMPTY
  <2>1. \A s \in 0..cap-1 : idx[s] # HT_KIDX_SLOT_EMPTY => idx[s] \in 0..n-1
    BY <1>1 DEF IndexWithin, UsedSlots
  <2>2. \A s, u \in 0..cap-1 : idx[s] # HT_KIDX_SLOT_EMPTY /\ idx[s] = idx[u] => s = u
    BY <1>1 DEF IndexWithin, UsedSlots
  <2> QED BY <1>1, <2>1, <2>2, SlotLeftFree
<1>3. PICK n0 \in 0..cap-1 : Lands(idx, new, cap, h, n, n0)
  BY <1>1, <1>2, IndexInsertPlaces DEF h
<1> DEFINE s0 == Slot(h, n0, cap)
<1>4. /\ s0 \in 0..cap-1 /\ idx[s0] = HT_KIDX_SLOT_EMPTY /\ new[s0] = n
      /\ \A s \in 0..cap-1 : s # s0 => new[s] = idx[s]
      /\ DOMAIN new = 0..cap-1 /\ n # HT_KIDX_SLOT_EMPTY
      /\ new \in [0..cap-1 -> {HT_KIDX_SLOT_EMPTY} \cup 0..cap-1]
  BY <1>1, <1>3 DEF Lands, HT_KIDX_SLOT_EMPTY, IndexWithin
<1>5. UsedSlots(new) = UsedSlots(idx) \cup {s0} /\ s0 \notin UsedSlots(idx)
  <2> HIDE DEF s0
  <2> QED BY <1>1, <1>4 DEF UsedSlots
<1>6. ASSUME NEW s \in UsedSlots(idx) PROVE new[s] = idx[s] /\ idx[s] \in 0..n-1
  BY <1>1, <1>4, <1>5 DEF IndexWithin, UsedSlots
<1>7. ASSUME NEW g \in Nat, NEW m \in 0..cap-1, ProbeReaches(idx, cap, g, m)
      PROVE  ProbeReaches(new, cap, g, m) /\ new[Slot(g, m, cap)] = idx[Slot(g, m, cap)]
  <2>1. ASSUME NEW i \in 0..m PROVE new[Slot(g, i, cap)] = idx[Slot(g, i, cap)]
    <3>1. Slot(g, i, cap) \in 0..cap-1
      BY DEF Slot
    <3>2. idx[Slot(g, i, cap)] # HT_KIDX_SLOT_EMPTY
      BY <1>7 DEF ProbeReaches
    <3> QED BY <3>1, <3>2, <1>4
  <2>2. m \in 0..m
    OBVIOUS
  <2> QED BY <1>7, <2>1, <2>2 DEF ProbeReaches
<1>8. SlotReached(new, cap, h, s0)
  <2>1. ASSUME NEW i \in 0..n0 PROVE new[Slot(h, i, cap)] # HT_KIDX_SLOT_EMPTY
    <3>1. CASE i = n0
      BY <3>1, <1>4
    <3>2. CASE i # n0
      <4>1. idx[Slot(h, i, cap)] # HT_KIDX_SLOT_EMPTY
        BY <3>2, <1>3 DEF Lands
      <4>2. Slot(h, i, cap) \in 0..cap-1
        BY <1>1 DEF Slot
      <4> QED BY <4>1, <4>2, <1>4
    <3> QED BY <3>1, <3>2
  <2> QED BY <2>1 DEF SlotReached, ProbeReaches
<1>9. ASSUME NEW s \in UsedSlots(new)
      PROVE  /\ new[s] \in 0..n /\ ents[new[s]].key \in Keys
             /\ SlotReached(new, cap, Hash[ents[new[s]].key], s)
  <2>1. CASE s = s0
    BY <2>1, <1>4, <1>8 DEF h
  <2>2. CASE s # s0
    <3>1. s \in UsedSlots(idx) /\ new[s] = idx[s] /\ idx[s] \in 0..n-1
      BY <2>2, <1>5, <1>6
    <3> DEFINE g == Hash[ents[idx[s]].key]
    <3>2. SlotReached(idx, cap, g, s) /\ g \in Nat /\ ents[idx[s]].key \in Keys
      BY <3>1, KeyAssumption DEF IndexWithin
    <3> HIDE DEF g
    <3>3. PICK m \in 0..cap-1 : Slot(g, m, cap) = s /\ ProbeReaches(idx, cap, g, m)
      BY <3>2 DEF SlotReached
    <3>4. SlotReached(new, cap, g, s)
      BY <3>2, <3>3, <1>7 DEF SlotReached
    <3> QED BY <3>1, <3>2, <3>4 DEF g
  <2> QED BY <2>1, <2>2
<1> HIDE DEF s0
<1>10. ASSUME NEW s \in UsedSlots(new), NEW u \in UsedSlots(new),
              ents[new[s]].key = ents[new[u]].key
       PROVE  s = u
  <2>1. ASSUME NEW x \in UsedSlots(idx) PROVE ents[new[x]].key # ents[n].key
    BY <1>6 DEF Unnamed
  <2>2. CASE s = s0 \/ u = s0
    <3>1. ents[new[s0]].key = ents[n].key
      BY <1>4
    <3> QED BY <2>1, <2>2, <3>1, <1>5, <1>10
  <2>3. CASE s # s0 /\ u # s0
    <3>1. s \in UsedSlots(idx) /\ u \in UsedSlots(idx)
      BY <2>3, <1>5
    <3>2. new[s] = idx[s] /\ new[u] = idx[u]
      BY <3>1, <1>6
    <3>3. ents[idx[s]].key = ents[idx[u]].key
      BY <3>2, <1>10
    <3> QED BY <3>1, <3>3 DEF IndexWithin
  <2> QED BY <2>2, <2>3
<1>11. IndexWithin(new, cap, ents, n + 1)
  <2>1. (n + 1) - 1 = n
    OBVIOUS
  <2>2. \A s \in UsedSlots(new) :
          /\ new[s] \in 0..(n + 1)-1 /\ ents[new[s]].key \in Keys
          /\ SlotReached(new, cap, Hash[ents[new[s]].key], s)
    BY <2>1, <1>9
  <2>3. new \in [0..cap-1 -> {HT_KIDX_SLOT_EMPTY} \cup 0..cap-1]
    BY <1>4
  <2>4. \A s, u \in UsedSlots(new) : ents[new[s]].key = ents[new[u]].key => s = u
    BY <1>10
  <2> QED BY <2>2, <2>3, <2>4 DEF IndexWithin
<1>12. ASSUME NEW j PROVE Names(new, j) <=> Names(idx, j) \/ j = n
  BY <1>4, <1>5, <1>6 DEF Names
<1> QED BY <1>11, <1>12

-----------------------------------------------------------------------------
(***************************************************************************)
(* A table between two calls.  What the index names may be dead, and a     *)
(* dead entry may be missing from it; a live one may not.                  *)
(***************************************************************************)
Indexed(t) ==
  /\ t.cap \in Nat /\ t \in KeyIndexOf(t.cap)
  /\ IndexWithin(t.idx, t.cap, t.ents, t.cnt)
  /\ \A j \in 0..t.cnt-1 : t.ents[j].key \in Keys /\ t.ents[j].stat \in {"INUSE", "DELETED"}
  /\ \A j \in 0..t.cnt-1 : t.ents[j].stat = "INUSE" => Names(t.idx, j)

LEMMA IndexedTypes ==
  ASSUME NEW t, Indexed(t)
  PROVE  /\ t.cap \in Nat /\ t.cnt \in 0..t.cap /\ t.cnt \in Nat /\ t.dead \in Nat
         /\ t.ents \in [0..t.cap-1 -> KeyEntry]
         /\ t.idx \in [0..t.cap-1 -> {HT_KIDX_SLOT_EMPTY} \cup 0..t.cap-1]
         /\ DOMAIN t.idx = 0..t.cap-1
BY DEF Indexed, KeyIndexOf

(***************************************************************************)
(* The private lookup finds the entry of the key the index names, dead or  *)
(* alive, and nothing if it names none.                                    *)
(***************************************************************************)
LEMMA FindNamed ==
  ASSUME NEW t, Indexed(t), NEW k \in Keys, NEW j, Names(t.idx, j), t.ents[j].key = k
  PROVE  Find(t, k) = j /\ j \in 0..t.cnt-1 /\ ~(Find(t, k) < 0)
<1> DEFINE S == MatchSteps(t, k)
           h == Hash[k]
<1>1. /\ t.cap \in Nat /\ t.cnt \in 0..t.cap /\ t.ents \in [0..t.cap-1 -> KeyEntry]
      /\ t.idx \in [0..t.cap-1 -> {HT_KIDX_SLOT_EMPTY} \cup 0..t.cap-1]
      /\ DOMAIN t.idx = 0..t.cap-1 /\ h \in Nat
  BY IndexedTypes, KeyAssumption
<1> HIDE DEF h
<1>2. PICK s \in UsedSlots(t.idx) : t.idx[s] = j
  BY DEF Names
<1>3. /\ j \in 0..t.cnt-1 /\ j >= 0 /\ t.ents[j].stat # "EMPTY"
      /\ SlotReached(t.idx, t.cap, h, s)
  <2>1. j \in 0..t.cnt-1 /\ SlotReached(t.idx, t.cap, h, s)
    BY <1>2 DEF Indexed, IndexWithin, h
  <2>2. t.ents[j].stat \in {"INUSE", "DELETED"}
    BY <2>1 DEF Indexed
  <2>3. j >= 0
    BY <2>1, <1>1
  <2> QED BY <2>1, <2>2, <2>3
<1>4. PICK n \in 0..t.cap-1 : Slot(h, n, t.cap) = s /\ ProbeReaches(t.idx, t.cap, h, n)
  BY <1>3 DEF SlotReached
<1>5. n \in S
  BY <1>2, <1>3, <1>4 DEF MatchSteps, h
<1>6. S # {} /\ S \subseteq 0..t.cap-1
  BY <1>5 DEF MatchSteps
<1>7. Min(S) \in S
  <2> HIDE DEF S
  <2> QED BY <1>1, <1>6, MinOfSteps
<1> DEFINE u == Slot(h, Min(S), t.cap)
<1>8. Find(t, k) = t.idx[u]
  BY <1>6 DEF Find, h
<1>9. /\ u \in 0..t.cap-1 /\ t.idx[u] >= 0 /\ t.ents[t.idx[u]].key = k
  <2> DEFINE m == Min(S)
  <2>1. m \in S
    BY <1>7
  <2> HIDE DEF m
  <2>2. /\ m \in 0..t.cap-1 /\ t.idx[Slot(h, m, t.cap)] >= 0
        /\ t.ents[t.idx[Slot(h, m, t.cap)]].key = k
    BY <2>1 DEF MatchSteps, h
  <2>3. Slot(h, m, t.cap) \in 0..t.cap-1
    BY <1>1, <2>2 DEF Slot
  <2> QED BY <2>2, <2>3 DEF m
<1> HIDE DEF u
<1>10. u \in UsedSlots(t.idx)
  BY <1>1, <1>9 DEF UsedSlots, HT_KIDX_SLOT_EMPTY
<1>11. u = s
  BY <1>2, <1>9, <1>10 DEF Indexed, IndexWithin
<1> QED BY <1>2, <1>3, <1>8, <1>11

LEMMA FindNone ==
  ASSUME NEW t, Indexed(t), NEW k \in Keys, Find(t, k) < 0
  PROVE  Unnamed(t.idx, t.ents, k)
<1>1. ASSUME NEW s \in UsedSlots(t.idx), t.ents[t.idx[s]].key = k PROVE FALSE
  <2>1. Names(t.idx, t.idx[s])
    BY DEF Names
  <2> QED BY <1>1, <2>1, FindNamed
<1> QED BY <1>1 DEF Unnamed

LEMMA FindFound ==
  ASSUME NEW t, Indexed(t), NEW k \in Keys, ~(Find(t, k) < 0)
  PROVE  /\ Find(t, k) \in 0..t.cnt-1 /\ t.ents[Find(t, k)].key = k
         /\ Names(t.idx, Find(t, k)) /\ Find(t, k) \in Nat
<1> DEFINE S == MatchSteps(t, k)
           h == Hash[k]
<1>1. /\ t.cap \in Nat /\ DOMAIN t.idx = 0..t.cap-1 /\ h \in Nat
  BY IndexedTypes, KeyAssumption
<1> HIDE DEF h
<1>2. S # {} /\ S \subseteq 0..t.cap-1
  <2>1. S = {} => Find(t, k) = -11
    BY DEF Find, KEY_NOT_FOUND
  <2> QED BY <2>1 DEF MatchSteps
<1>3. Min(S) \in S
  <2> HIDE DEF S
  <2> QED BY <1>1, <1>2, MinOfSteps
<1> DEFINE m == Min(S)
           u == Slot(h, m, t.cap)
<1>4. Find(t, k) = t.idx[u]
  BY <1>2 DEF Find, h
<1>5. m \in S
  BY <1>3
<1> HIDE DEF m
<1>6. /\ m \in 0..t.cap-1 /\ t.idx[u] >= 0 /\ t.ents[t.idx[u]].key = k
  BY <1>5 DEF MatchSteps, h
<1>7. u \in 0..t.cap-1
  BY <1>1, <1>6 DEF Slot
<1> HIDE DEF u
<1>8. u \in UsedSlots(t.idx)
  BY <1>1, <1>6, <1>7 DEF UsedSlots, HT_KIDX_SLOT_EMPTY
<1>9. t.idx[u] \in 0..t.cnt-1 /\ t.cnt \in Nat
  BY <1>8, IndexedTypes DEF Indexed, IndexWithin
<1> QED BY <1>4, <1>6, <1>8, <1>9 DEF Names

LEMMA FindType ==
  ASSUME NEW t, Indexed(t), NEW k \in Keys
  PROVE  Find(t, k) \in Int
<1> DEFINE S == MatchSteps(t, k)
           u == Slot(Hash[k], Min(S), t.cap)
<1>1. /\ t.cap \in Nat /\ Hash[k] \in Nat
      /\ t.idx \in [0..t.cap-1 -> {HT_KIDX_SLOT_EMPTY} \cup 0..t.cap-1]
  BY IndexedTypes, KeyAssumption
<1>2. CASE S = {}
  <2>1. Find(t, k) = -11
    BY <1>2 DEF Find, KEY_NOT_FOUND
  <2> QED BY <2>1
<1>3. CASE S # {}
  <2>1. Find(t, k) = t.idx[u] /\ S \subseteq 0..t.cap-1
    BY <1>3 DEF Find, MatchSteps
  <2>2. Min(S) \in 0..t.cap-1
    <3> HIDE DEF S
    <3> QED BY <1>1, <1>3, <2>1, MinOfSteps
  <2>3. u \in 0..t.cap-1
    <3> DEFINE m == Min(S)
    <3>1. m \in 0..t.cap-1
      BY <2>2
    <3> HIDE DEF m
    <3>2. Slot(Hash[k], m, t.cap) \in 0..t.cap-1
      BY <1>1, <3>1 DEF Slot
    <3> QED BY <3>2 DEF m
  <2> HIDE DEF u
  <2> QED BY <1>1, <2>1, <2>3 DEF HT_KIDX_SLOT_EMPTY
<1> QED BY <1>2, <1>3

-----------------------------------------------------------------------------
(***************************************************************************)
(* Changing the state of an entry the index names: its key and its place   *)
(* stay.                                                                   *)
(***************************************************************************)
DeadOf(t) == {j \in 0..t.cnt-1 : t.ents[j].stat = "DELETED"}

Counted(t) == t.dead >= Cardinality(DeadOf(t))

\* r is t with entry n in state st.
Restated(t, r, n, st) ==
  /\ r.cap = t.cap /\ r.cnt = t.cnt /\ r.idx = t.idx
  /\ r.ents = [t.ents EXCEPT ![n] = [key |-> t.ents[n].key, stat |-> st]]

LEMMA RestatedIndexed ==
  ASSUME NEW t, Indexed(t), NEW n \in 0..t.cnt-1, Names(t.idx, n),
         NEW st \in {"INUSE", "DELETED"}, NEW r, Restated(t, r, n, st),
         r \in KeyIndexOf(t.cap)
  PROVE  Indexed(r)
<1>1. /\ t.cap \in Nat /\ t.cnt \in 0..t.cap /\ t.ents \in [0..t.cap-1 -> KeyEntry]
      /\ r.cap = t.cap /\ r.cnt = t.cnt /\ r.idx = t.idx
      /\ r.ents = [t.ents EXCEPT ![n] = [key |-> t.ents[n].key, stat |-> st]]
  BY IndexedTypes DEF Restated
<1>2. ASSUME NEW j \in 0..t.cnt-1
      PROVE  /\ r.ents[j].key = t.ents[j].key
             /\ r.ents[j].stat = IF j = n THEN st ELSE t.ents[j].stat
  BY <1>1
<1>3. IndexWithin(r.idx, r.cap, r.ents, r.cnt)
  <2>1. IndexWithin(t.idx, t.cap, t.ents, t.cnt)
    BY DEF Indexed
  <2>2. \A j \in 0..t.cnt-1 : r.ents[j].key = t.ents[j].key
    BY <1>2
  <2>3. t.cnt \in Nat
    BY <1>1
  <2>4. IndexWithin(t.idx, t.cap, r.ents, t.cnt)
    BY <1>1, <2>1, <2>2, <2>3, SameKeysIndex
  <2> QED BY <1>1, <2>4
<1>4. ASSUME NEW j \in 0..r.cnt-1
      PROVE  /\ r.ents[j].key \in Keys /\ r.ents[j].stat \in {"INUSE", "DELETED"}
             /\ r.ents[j].stat = "INUSE" => Names(r.idx, j)
  <2>1. j \in 0..t.cnt-1
    BY <1>1
  <2>2. CASE j = n
    BY <1>1, <1>2, <2>1, <2>2 DEF Indexed
  <2>3. CASE j # n
    BY <1>1, <1>2, <2>1, <2>3 DEF Indexed
  <2> QED BY <2>2, <2>3
<1> QED BY <1>1, <1>3, <1>4 DEF Indexed

LEMMA DeadFinite ==
  ASSUME NEW t, t.cnt \in Nat
  PROVE  IsFiniteSet(DeadOf(t)) /\ Cardinality(DeadOf(t)) \in Nat
<1>1. IsFiniteSet(0..t.cnt-1)
  BY InitialCount
<1>2. DeadOf(t) \subseteq 0..t.cnt-1
  BY DEF DeadOf
<1>3. IsFiniteSet(DeadOf(t))
  BY <1>1, <1>2, FS_Subset
<1> QED BY <1>3, FS_CardinalityType

LEMMA RestatedDead ==
  ASSUME NEW t, Indexed(t), NEW n \in 0..t.cnt-1, NEW st \in {"INUSE", "DELETED"},
         NEW r, Restated(t, r, n, st)
  PROVE  DeadOf(r) = IF st = "DELETED" THEN DeadOf(t) \cup {n} ELSE DeadOf(t) \ {n}
<1>1. /\ t.cnt \in 0..t.cap /\ t.cap \in Nat /\ t.ents \in [0..t.cap-1 -> KeyEntry] /\ r.cnt = t.cnt
      /\ r.ents = [t.ents EXCEPT ![n] = [key |-> t.ents[n].key, stat |-> st]]
  BY IndexedTypes DEF Restated
<1>2. ASSUME NEW j \in 0..t.cnt-1
      PROVE  r.ents[j].stat = IF j = n THEN st ELSE t.ents[j].stat
  BY <1>1
<1>3. DeadOf(r) = {j \in 0..t.cnt-1 : r.ents[j].stat = "DELETED"}
  BY <1>1 DEF DeadOf
<1>4. CASE st = "DELETED"
  BY <1>2, <1>3, <1>4 DEF DeadOf
<1>5. CASE st = "INUSE"
  BY <1>2, <1>3, <1>5 DEF DeadOf
<1> QED BY <1>4, <1>5

(***************************************************************************)
(* Reviving an entry lowers the count only if the entry was dead: then the *)
(* count was not 0, and it stays at or above the number of the dead.       *)
(***************************************************************************)
LEMMA RevivedIndexed ==
  ASSUME NEW t, Indexed(t), Counted(t), NEW n \in 0..t.cnt-1, Names(t.idx, n)
  PROVE  /\ Indexed(Revived(t, n)) /\ Counted(Revived(t, n))
         /\ Restated(t, Revived(t, n), n, "INUSE")
<1> DEFINE r == Revived(t, n)
           d == IF t.ents[n].stat = "DELETED" THEN t.dead - 1 ELSE t.dead
<1>1. /\ t.cap \in Nat /\ t.cnt \in 0..t.cap /\ t.cnt \in Nat /\ t.dead \in Nat
      /\ t.ents \in [0..t.cap-1 -> KeyEntry] /\ t \in KeyIndexOf(t.cap) /\ n \in 0..t.cap-1
  BY IndexedTypes DEF Indexed
<1>2. t.ents[n] \in KeyEntry
  BY <1>1
<1>3. [t.ents[n] EXCEPT !.stat = "INUSE"] = [key |-> t.ents[n].key, stat |-> "INUSE"]
  BY <1>2 DEF KeyEntry
<1>4. r = [t EXCEPT !.ents = [t.ents EXCEPT ![n] = [t.ents[n] EXCEPT !.stat = "INUSE"]],
                    !.dead = d]
  BY <1>1 DEF Revived, KeyIndexOf
<1> HIDE DEF r
<1>5. Restated(t, r, n, "INUSE") /\ r.dead = d
  BY <1>1, <1>3, <1>4 DEF Restated, KeyIndexOf
<1>6. n \in DeadOf(t) <=> t.ents[n].stat = "DELETED"
  BY DEF DeadOf
<1>7. DeadOf(r) = DeadOf(t) \ {n}
  BY <1>5, RestatedDead
<1>8. /\ IsFiniteSet(DeadOf(t)) /\ Cardinality(DeadOf(t)) \in Nat
      /\ n \in DeadOf(t) => Cardinality(DeadOf(t)) # 0
  BY <1>1, DeadFinite, FS_EmptySet
<1>9. Cardinality(DeadOf(r)) = IF n \in DeadOf(t) THEN Cardinality(DeadOf(t)) - 1
                               ELSE Cardinality(DeadOf(t))
  BY <1>7, <1>8, FS_RemoveElement
<1>10. d \in Nat /\ d >= Cardinality(DeadOf(r))
  <2> DEFINE c == Cardinality(DeadOf(t))
  <2>1. c \in Nat /\ t.dead >= c /\ (n \in DeadOf(t) => c # 0)
    BY <1>8 DEF Counted
  <2>2. CASE n \in DeadOf(t)
    <3>1. d = t.dead - 1 /\ Cardinality(DeadOf(r)) = c - 1
      BY <2>2, <1>6, <1>9
    <3>2. c \in Nat /\ t.dead \in Nat /\ t.dead >= c /\ c # 0
      BY <2>1, <2>2, <1>1
    <3> HIDE DEF c, d
    <3> QED BY <3>1, <3>2
  <2>3. CASE n \notin DeadOf(t)
    <3>1. d = t.dead /\ Cardinality(DeadOf(r)) = c
      BY <2>3, <1>6, <1>9
    <3> HIDE DEF c, d
    <3> QED BY <3>1, <2>1, <1>1
  <2> QED BY <2>2, <2>3
<1> HIDE DEF d
<1>11. r \in KeyIndexOf(t.cap)
  <2>1. [key |-> t.ents[n].key, stat |-> "INUSE"] \in KeyEntry
    BY <1>2 DEF KeyEntry, EntryStat
  <2>2. [t.ents EXCEPT ![n] = [key |-> t.ents[n].key, stat |-> "INUSE"]] \in [0..t.cap-1 -> KeyEntry]
    BY <2>1, <1>1
  <2> QED BY <1>1, <1>3, <1>4, <1>10, <2>2 DEF KeyIndexOf
<1>12. Indexed(r)
  BY <1>5, <1>11, RestatedIndexed
<1>13. Counted(r)
  BY <1>5, <1>10 DEF Counted
<1> QED BY <1>5, <1>12, <1>13 DEF r

(***************************************************************************)
(* Removing counts the entry, again if it was dead already.                *)
(***************************************************************************)
LEMMA RemovedIndexed ==
  ASSUME NEW t, Indexed(t), Counted(t), NEW k \in Keys
  PROVE  /\ Indexed(Removed(t, k)) /\ Counted(Removed(t, k))
         /\ ~(Find(t, k) < 0) => Restated(t, Removed(t, k), Find(t, k), "DELETED")
<1>1. CASE Find(t, k) < 0
  BY <1>1 DEF Removed
<1>2. CASE ~(Find(t, k) < 0)
  <2> DEFINE n == Find(t, k)
             r == Removed(t, k)
  <2>0. /\ n \in 0..t.cnt-1 /\ Names(t.idx, n)
        /\ r = [t EXCEPT !.ents[n].stat = "DELETED", !.dead = t.dead + 1]
    BY <1>2, FindFound DEF Removed
  <2> HIDE DEF n, r
  <2>1. /\ t.cap \in Nat /\ t.cnt \in 0..t.cap /\ t.cnt \in Nat /\ t.dead \in Nat
        /\ t.ents \in [0..t.cap-1 -> KeyEntry] /\ t \in KeyIndexOf(t.cap) /\ n \in 0..t.cap-1
    BY <2>0, IndexedTypes DEF Indexed
  <2>2. t.ents[n] \in KeyEntry
    BY <2>1
  <2>3. [t.ents[n] EXCEPT !.stat = "DELETED"] = [key |-> t.ents[n].key, stat |-> "DELETED"]
    BY <2>2 DEF KeyEntry
  <2>4. r = [t EXCEPT !.ents = [t.ents EXCEPT ![n] = [t.ents[n] EXCEPT !.stat = "DELETED"]],
                      !.dead = t.dead + 1]
    BY <2>0, <2>1 DEF KeyIndexOf
  <2>5. Restated(t, r, n, "DELETED") /\ r.dead = t.dead + 1
    BY <2>1, <2>3, <2>4 DEF Restated, KeyIndexOf
  <2>6. DeadOf(r) = DeadOf(t) \cup {n}
    BY <2>0, <2>5, RestatedDead
  <2>7. IsFiniteSet(DeadOf(t)) /\ Cardinality(DeadOf(t)) \in Nat
    BY <2>1, DeadFinite
  <2>8. Cardinality(DeadOf(r)) <= Cardinality(DeadOf(t)) + 1 /\ Cardinality(DeadOf(r)) \in Nat
    <3> DEFINE D == DeadOf(t)
    <3>1. IsFiniteSet(D) /\ Cardinality(D) \in Nat
      BY <2>7
    <3> HIDE DEF D
    <3>2. Cardinality(D \cup {n}) = IF n \in D THEN Cardinality(D) ELSE Cardinality(D) + 1
      BY <3>1, FS_AddElement
    <3> QED BY <2>6, <3>1, <3>2 DEF D
  <2>9. Counted(r)
    BY <2>1, <2>5, <2>7, <2>8 DEF Counted
  <2>10. r \in KeyIndexOf(t.cap)
    <3>1. [key |-> t.ents[n].key, stat |-> "DELETED"] \in KeyEntry
      BY <2>2 DEF KeyEntry, EntryStat
    <3>2. [t.ents EXCEPT ![n] = [key |-> t.ents[n].key, stat |-> "DELETED"]] \in [0..t.cap-1 -> KeyEntry]
      BY <3>1, <2>1
    <3>3. t.dead + 1 \in Nat
      BY <2>1
    <3> QED BY <2>1, <2>3, <2>4, <3>2, <3>3 DEF KeyIndexOf
  <2>11. Indexed(r)
    BY <2>0, <2>5, <2>10, RestatedIndexed
  <2> QED BY <1>2, <2>5, <2>9, <2>11 DEF n, r
<1> QED BY <1>1, <1>2

-----------------------------------------------------------------------------
(***************************************************************************)
(* A new entry.  That an insertion is refused at three quarters leaves     *)
(* room for it in both arrays.                                             *)
(***************************************************************************)
LEMMA RoomLeft ==
  ASSUME NEW t, Indexed(t), ~Full(t)
  PROVE  t.cnt \in 0..t.cap-1 /\ t.cnt + 1 \in 0..t.cap
BY IndexedTypes DEF Full

NewEntry(k) == [key |-> k, stat |-> "INUSE"]

LEMMA AppendedIndexed ==
  ASSUME NEW t, Indexed(t), Counted(t), t.cnt \in 0..t.cap-1, NEW k \in Keys, Find(t, k) < 0
  PROVE  /\ Indexed(Appended(t, k)) /\ Counted(Appended(t, k))
         /\ Appended(t, k).cap = t.cap /\ Appended(t, k).cnt = t.cnt + 1
         /\ Appended(t, k).ents = [t.ents EXCEPT ![t.cnt] = NewEntry(k)]
<1> DEFINE r == Appended(t, k)
           n == t.cnt
<1>1. /\ t.cap \in Nat /\ n \in 0..t.cap-1 /\ n \in Nat /\ t.dead \in Nat
      /\ t.ents \in [0..t.cap-1 -> KeyEntry] /\ t \in KeyIndexOf(t.cap)
  BY IndexedTypes DEF Indexed
<1>2. /\ r.cap = t.cap /\ r.cnt = n + 1 /\ r.dead = t.dead
      /\ r.ents = [t.ents EXCEPT ![n] = NewEntry(k)]
      /\ r.idx = HashIndexInsert(t.idx, t.cap, Hash[k], n)
      /\ r = [cap |-> r.cap, cnt |-> r.cnt, dead |-> r.dead, ents |-> r.ents, idx |-> r.idx]
  <2>1. t = [cap |-> t.cap, cnt |-> n, dead |-> t.dead, ents |-> t.ents, idx |-> t.idx]
    BY <1>1 DEF KeyIndexOf
  <2> DEFINE e == [t.ents EXCEPT ![n] = NewEntry(k)]
             i == HashIndexInsert(t.idx, t.cap, Hash[k], n)
  <2>2. r = [t EXCEPT !.ents = e, !.idx = i, !.cnt = n + 1]
    BY <2>1 DEF Appended, NewEntry
  <2> HIDE DEF e, i, r
  <2>3. r = [cap |-> t.cap, cnt |-> n + 1, dead |-> t.dead, ents |-> e, idx |-> i]
    BY <2>1, <2>2
  <2>4. r.cap = t.cap /\ r.cnt = n + 1 /\ r.dead = t.dead /\ r.ents = e /\ r.idx = i
    BY <2>3
  <2> QED BY <2>3, <2>4 DEF e, i
<1> HIDE DEF r
<1>3. NewEntry(k) \in KeyEntry /\ NewEntry(k).key = k /\ NewEntry(k).stat = "INUSE"
  BY DEF NewEntry, KeyEntry, EntryStat
<1>4. /\ r.ents \in [0..t.cap-1 -> KeyEntry] /\ r.ents[n] = NewEntry(k)
      /\ \A j \in 0..n-1 : r.ents[j] = t.ents[j]
  BY <1>1, <1>2, <1>3
<1>5. IndexWithin(t.idx, t.cap, r.ents, n)
  <2>1. IndexWithin(t.idx, t.cap, t.ents, n)
    BY DEF Indexed
  <2> QED BY <1>1, <1>4, <2>1, SameKeysIndex
<1>6. Unnamed(t.idx, r.ents, r.ents[n].key)
  <2>1. Unnamed(t.idx, t.ents, k)
    BY FindNone
  <2>2. ASSUME NEW s \in UsedSlots(t.idx) PROVE t.idx[s] \in 0..n-1
    BY <1>5 DEF IndexWithin
  <2> QED BY <1>3, <1>4, <2>1, <2>2 DEF Unnamed
<1>7. /\ IndexWithin(r.idx, t.cap, r.ents, n + 1)
      /\ \A j : Names(r.idx, j) <=> Names(t.idx, j) \/ j = n
  <2>1. r.ents[n].key \in Keys /\ r.idx = HashIndexInsert(t.idx, t.cap, Hash[r.ents[n].key], n)
    BY <1>2, <1>3, <1>4
  <2> HIDE DEF n
  <2> QED BY <1>1, <1>5, <1>6, <2>1, InsertNames
<1>8. r \in KeyIndexOf(t.cap)
  <2>1. r.idx \in [0..t.cap-1 -> {HT_KIDX_SLOT_EMPTY} \cup 0..t.cap-1]
    BY <1>7 DEF IndexWithin
  <2>2. n + 1 \in 0..t.cap
    BY <1>1
  <2> QED BY <1>1, <1>2, <1>4, <2>1, <2>2 DEF KeyIndexOf
<1>9. ASSUME NEW j \in 0..r.cnt-1
      PROVE  /\ r.ents[j].key \in Keys /\ r.ents[j].stat \in {"INUSE", "DELETED"}
             /\ r.ents[j].stat = "INUSE" => Names(r.idx, j)
  <2>1. CASE j = n
    BY <1>3, <1>4, <1>7, <2>1
  <2>2. CASE j # n
    <3>1. j \in 0..n-1
      BY <2>2, <1>1, <1>2
    <3>2. r.ents[j] = t.ents[j]
      BY <3>1, <1>4
    <3> QED BY <3>1, <3>2, <1>7 DEF Indexed
  <2> QED BY <2>1, <2>2
<1>10. Indexed(r)
  BY <1>1, <1>2, <1>7, <1>8, <1>9 DEF Indexed
<1>11. DeadOf(r) = DeadOf(t)
  <2>1. ASSUME NEW j PROVE j \in DeadOf(r) <=> j \in DeadOf(t)
    <3>1. j \in 0..r.cnt-1 <=> j \in 0..n-1 \/ j = n
      BY <1>1, <1>2
    <3>2. r.ents[n].stat # "DELETED" /\ n \notin 0..n-1
      BY <1>3, <1>4, <1>1
    <3> QED BY <3>1, <3>2, <1>4 DEF DeadOf
  <2> QED BY <2>1
<1>12. Counted(r)
  BY <1>2, <1>11 DEF Counted
<1> QED BY <1>2, <1>10, <1>12 DEF r

-----------------------------------------------------------------------------
(***************************************************************************)
(* The rebuild.  Its index is the last of a sequence of indices, one for   *)
(* each number of entries gone through.                                    *)
(***************************************************************************)
RebuildStep(t, n, idx) ==
  IF t.ents[n-1].stat = "INUSE"
  THEN HashIndexInsert(idx, t.cap, Hash[t.ents[n-1].key], n-1) ELSE idx

RebuildBody(t, m, g) ==
  [n \in 0..m |-> IF n = 0 THEN HashIndexInit(t.cap) ELSE RebuildStep(t, n, g[n-1])]

LEMMA LeastOf ==
  ASSUME NEW n \in Nat, NEW S, S \subseteq 0..n, S # {}
  PROVE  \E x \in S : \A y \in S : x <= y
<1>1. n + 1 \in Nat /\ (n + 1) - 1 = n
  OBVIOUS
<1>2. S \subseteq 0..(n + 1)-1
  BY <1>1
<1>3. Min(S) \in S /\ \A y \in S : Min(S) <= y
  BY <1>1, <1>2, MinOfSteps
<1> QED BY <1>3

LEMMA RebuildExists ==
  ASSUME NEW t, t.cnt \in Nat
  PROVE  \E g : g = RebuildBody(t, t.cnt, g)
<1> DEFINE B == {m \in 0..t.cnt : ~ \E g : g = RebuildBody(t, m, g)}
<1>1. SUFFICES ASSUME t.cnt \in B PROVE FALSE
  BY DEF B
<1>2. PICK m \in B : \A y \in B : m <= y
  <2>1. B \subseteq 0..t.cnt /\ B # {}
    BY <1>1
  <2> HIDE DEF B
  <2> QED BY <2>1, LeastOf
<1>3. m \in 0..t.cnt /\ m \in Nat /\ ~ \E g : g = RebuildBody(t, m, g)
  OBVIOUS
<1>4. m # 0
  <2>1. ASSUME m = 0 PROVE FALSE
    <3> DEFINE g == [n \in 0..0 |-> HashIndexInit(t.cap)]
    <3>1. RebuildBody(t, 0, g) = [n \in 0..0 |-> HashIndexInit(t.cap)]
      BY DEF RebuildBody
    <3> QED BY <2>1, <3>1, <1>3
  <2> QED BY <2>1
<1>5. m-1 \in 0..t.cnt /\ m-1 \notin B
  BY <1>2, <1>3, <1>4
<1>6. PICK g : g = RebuildBody(t, m-1, g)
  BY <1>5
<1> HIDE DEF B
<1> DEFINE h == [n \in 0..m |-> IF n = m THEN RebuildStep(t, m, g[m-1]) ELSE g[n]]
<1>7. ASSUME NEW n \in 0..m
      PROVE  h[n] = IF n = 0 THEN HashIndexInit(t.cap) ELSE RebuildStep(t, n, h[n-1])
  <2>1. CASE n = m
    <3>1. h[n] = RebuildStep(t, m, g[m-1])
      BY <2>1
    <3>2. m-1 \in 0..m /\ m-1 # m
      BY <1>3, <1>4
    <3>3. h[m-1] = g[m-1]
      BY <3>2
    <3> HIDE DEF h
    <3> QED BY <2>1, <3>1, <3>3, <1>4
  <2>2. CASE n # m
    <3>1. n \in 0..m-1
      BY <2>2, <1>3
    <3>2. h[n] = g[n]
      BY <2>2
    <3>3. g[n] = IF n = 0 THEN HashIndexInit(t.cap) ELSE RebuildStep(t, n, g[n-1])
      BY <1>6, <3>1 DEF RebuildBody
    <3>4. CASE n = 0
      BY <3>2, <3>3, <3>4
    <3>5. CASE n # 0
      <4>1. n-1 \in 0..m /\ n-1 # m
        BY <3>1, <3>5, <1>3
      <4>2. h[n-1] = g[n-1]
        BY <4>1
      <4> HIDE DEF h
      <4> QED BY <3>2, <3>3, <3>5, <4>2
    <3> QED BY <3>4, <3>5
  <2> QED BY <2>1, <2>2
<1>8. h = RebuildBody(t, m, h)
  <2>1. DOMAIN h = 0..m /\ h = [n \in 0..m |-> h[n]]
    OBVIOUS
  <2> HIDE DEF h
  <2> QED BY <1>7, <2>1 DEF RebuildBody
<1> QED BY <1>3, <1>8

(***************************************************************************)
(* What a rebuild makes: an index that names the live entries and no other.*)
(* While it goes through them it only meets keys it does not have, because *)
(* the old index named each live entry and no two of one key.              *)
(***************************************************************************)
SameButIndex(t, r) ==
  r.cap = t.cap /\ r.cnt = t.cnt /\ r.dead = t.dead /\ r.ents = t.ents

LEMMA LiveKeysApart ==
  ASSUME NEW t, Indexed(t), NEW i \in 0..t.cnt-1, NEW j \in 0..t.cnt-1,
         t.ents[i].stat = "INUSE", t.ents[j].stat = "INUSE", t.ents[i].key = t.ents[j].key
  PROVE  i = j
<1>1. PICK s \in UsedSlots(t.idx) : t.idx[s] = i
  BY DEF Indexed, Names
<1>2. PICK u \in UsedSlots(t.idx) : t.idx[u] = j
  BY DEF Indexed, Names
<1>3. s = u
  BY <1>1, <1>2 DEF Indexed, IndexWithin
<1> QED BY <1>1, <1>2, <1>3

RebuiltSoFar(t, n, idx) ==
  /\ IndexWithin(idx, t.cap, t.ents, n)
  /\ \A j : Names(idx, j) <=> j \in 0..n-1 /\ t.ents[j].stat = "INUSE"

LEMMA RebuildOneMore ==
  ASSUME NEW t, Indexed(t), NEW n \in 1..t.cnt, NEW idx, RebuiltSoFar(t, n-1, idx)
  PROVE  RebuiltSoFar(t, n, RebuildStep(t, n, idx))
<1> DEFINE i == n - 1
<1>1. /\ t.cap \in Nat /\ t.cnt \in 0..t.cap /\ i \in 0..t.cap-1 /\ i \in 0..t.cnt-1
      /\ i + 1 = n /\ i \in Nat /\ n \in Nat
  BY IndexedTypes
<1>2. /\ IndexWithin(idx, t.cap, t.ents, i)
      /\ \A j : Names(idx, j) <=> j \in 0..i-1 /\ t.ents[j].stat = "INUSE"
  BY DEF RebuiltSoFar
<1>3. \A j : j \in 0..n-1 <=> j \in 0..i-1 \/ j = i
  BY <1>1
<1>4. CASE t.ents[i].stat = "INUSE"
  <2> DEFINE new == RebuildStep(t, n, idx)
  <2>1. new = HashIndexInsert(idx, t.cap, Hash[t.ents[i].key], i)
    BY <1>4 DEF RebuildStep
  <2>2. t.ents[i].key \in Keys
    BY <1>1 DEF Indexed
  <2>3. Unnamed(idx, t.ents, t.ents[i].key)
    <3>1. ASSUME NEW s \in UsedSlots(idx), t.ents[idx[s]].key = t.ents[i].key PROVE FALSE
      <4>1. Names(idx, idx[s])
        BY DEF Names
      <4>2. idx[s] \in 0..i-1 /\ t.ents[idx[s]].stat = "INUSE"
        BY <4>1, <1>2
      <4>3. idx[s] \in 0..t.cnt-1 /\ idx[s] # i
        BY <4>2, <1>1
      <4> QED BY <4>2, <4>3, <3>1, <1>1, <1>4, LiveKeysApart
    <3> QED BY <3>1 DEF Unnamed
  <2> HIDE DEF i, new
  <2>4. /\ IndexWithin(new, t.cap, t.ents, i + 1)
        /\ \A j : Names(new, j) <=> Names(idx, j) \/ j = i
    BY <1>1, <1>2, <2>1, <2>2, <2>3, InsertNames
  <2>5. IndexWithin(new, t.cap, t.ents, n)
    BY <2>4, <1>1
  <2>6. ASSUME NEW j PROVE Names(new, j) <=> j \in 0..n-1 /\ t.ents[j].stat = "INUSE"
    BY <2>4, <1>2, <1>3, <1>4
  <2>7. RebuiltSoFar(t, n, new)
    BY <2>5, <2>6 DEF RebuiltSoFar
  <2> QED BY <2>7 DEF new
<1>5. CASE t.ents[i].stat # "INUSE"
  <2>1. RebuildStep(t, n, idx) = idx
    BY <1>5 DEF RebuildStep
  <2> HIDE DEF i
  <2>2. IndexWithin(idx, t.cap, t.ents, n)
    <3>1. \A j \in 0..i-1 : j \in 0..n-1
      BY <1>1
    <3> QED BY <3>1, <1>2 DEF IndexWithin
  <2>3. ASSUME NEW j PROVE Names(idx, j) <=> j \in 0..n-1 /\ t.ents[j].stat = "INUSE"
    BY <1>2, <1>3, <1>5
  <2> QED BY <2>1, <2>2, <2>3 DEF RebuiltSoFar
<1> QED BY <1>4, <1>5

LEMMA RebuiltIndexed ==
  ASSUME NEW t, Indexed(t), Counted(t)
  PROVE  /\ Indexed(Rebuilt(t)) /\ Counted(Rebuilt(t)) /\ SameButIndex(t, Rebuilt(t))
         /\ \A j : Names(Rebuilt(t).idx, j) <=> j \in 0..t.cnt-1 /\ t.ents[j].stat = "INUSE"
<1> DEFINE f == CHOOSE g : g = RebuildBody(t, t.cnt, g)
           r == Rebuilt(t)
<1>1. /\ t.cap \in Nat /\ t.cnt \in 0..t.cap /\ t.cnt \in Nat /\ t \in KeyIndexOf(t.cap)
  BY IndexedTypes DEF Indexed
<1>2. r = [t EXCEPT !.idx = f[t.cnt]]
  BY DEF Rebuilt, RebuildBody, RebuildStep
<1>3. f = RebuildBody(t, t.cnt, f)
  BY <1>1, RebuildExists
<1> HIDE DEF f, r
<1>4. \A n \in 0..t.cnt : f[n] = IF n = 0 THEN HashIndexInit(t.cap) ELSE RebuildStep(t, n, f[n-1])
  BY <1>3 DEF RebuildBody
<1>5. RebuiltSoFar(t, t.cnt, f[t.cnt])
  <2> DEFINE B == {n \in 0..t.cnt : ~RebuiltSoFar(t, n, f[n])}
  <2>1. SUFFICES ASSUME t.cnt \in B PROVE FALSE
    BY <1>1
  <2>2. PICK m \in B : \A y \in B : m <= y
    <3>1. B \subseteq 0..t.cnt /\ B # {}
      BY <2>1
    <3> HIDE DEF B
    <3> QED BY <3>1, <1>1, LeastOf
  <2>3. m \in 0..t.cnt /\ ~RebuiltSoFar(t, m, f[m])
    OBVIOUS
  <2>4. m # 0
    <3>1. RebuiltSoFar(t, 0, HashIndexInit(t.cap))
      <4>1. IndexWithin(HashIndexInit(t.cap), t.cap, t.ents, 0) /\ UsedSlots(HashIndexInit(t.cap)) = {}
        BY <1>1, EmptyIndex
      <4> QED BY <4>1 DEF RebuiltSoFar, Names
    <3>2. f[0] = HashIndexInit(t.cap)
      BY <1>1, <1>4
    <3> QED BY <2>3, <3>1, <3>2
  <2>5. m-1 \in 0..t.cnt /\ m-1 \notin B /\ m \in 1..t.cnt
    BY <2>2, <2>3, <2>4, <1>1
  <2>6. RebuiltSoFar(t, m-1, f[m-1])
    BY <2>5
  <2>7. f[m] = RebuildStep(t, m, f[m-1])
    BY <2>3, <2>4, <1>4
  <2> HIDE DEF B
  <2>8. RebuiltSoFar(t, m, RebuildStep(t, m, f[m-1]))
    BY <2>5, <2>6, RebuildOneMore
  <2> QED BY <2>3, <2>7, <2>8
<1>6. SameButIndex(t, r) /\ r.idx = f[t.cnt]
  BY <1>1, <1>2 DEF SameButIndex, KeyIndexOf
<1>7. /\ IndexWithin(r.idx, t.cap, t.ents, t.cnt)
      /\ \A j : Names(r.idx, j) <=> j \in 0..t.cnt-1 /\ t.ents[j].stat = "INUSE"
  BY <1>5, <1>6 DEF RebuiltSoFar
<1>8. r \in KeyIndexOf(t.cap)
  <2>1. r.idx \in [0..t.cap-1 -> {HT_KIDX_SLOT_EMPTY} \cup 0..t.cap-1]
    BY <1>7 DEF IndexWithin
  <2> QED BY <1>1, <1>2, <1>6, <2>1 DEF KeyIndexOf
<1>9. Indexed(r)
  BY <1>1, <1>6, <1>7, <1>8 DEF Indexed, SameButIndex
<1>10. Counted(r)
  BY <1>6 DEF Counted, DeadOf, SameButIndex
<1> QED BY <1>6, <1>7, <1>9, <1>10 DEF r

LEMMA PreparedIndexed ==
  ASSUME NEW t, Indexed(t), Counted(t)
  PROVE  Indexed(Prepared(t)) /\ Counted(Prepared(t)) /\ SameButIndex(t, Prepared(t))
BY RebuiltIndexed DEF Prepared, SameButIndex

-----------------------------------------------------------------------------
(***************************************************************************)
(* dword_next_pow2 finds a capacity.                                       *)
(***************************************************************************)
Doubled(n, m, g) == [c \in m..2*n+1 |-> IF c >= n THEN c ELSE g[2*c]]

LEMMA DoublingExists ==
  ASSUME NEW n \in Nat
  PROVE  \E g : g = Doubled(n, 1, g)
<1> DEFINE t == 2*n+1
           B == {d \in 0..2*n : ~ \E g : g = Doubled(n, t - d, g)}
<1>1. t \in Nat /\ t >= 1 /\ t = 2*n+1 /\ t - 2*n = 1 /\ 2*n \in Nat
  OBVIOUS
<1>2. SUFFICES ASSUME 2*n \in B PROVE FALSE
  BY <1>1
<1>3. PICK d \in B : \A y \in B : d <= y
  <2>1. B \subseteq 0..2*n /\ B # {}
    BY <1>2
  <2> HIDE DEF B
  <2> QED BY <2>1, <1>1, LeastOf
<1>4. d \in 0..2*n /\ ~ \E g : g = Doubled(n, t - d, g)
  OBVIOUS
<1> DEFINE m == t - d
<1>5. m \in 1..t
  BY <1>1, <1>4
<1>6. d - 1 \in Int /\ (d # 0 => d - 1 \in 0..2*n /\ d - 1 \notin B /\ t - (d - 1) = m + 1)
  BY <1>1, <1>3, <1>4
<1>7. \E g : d # 0 => g = Doubled(n, m + 1, g)
  BY <1>6
<1>8. PICK g : d # 0 => g = Doubled(n, m + 1, g)
  BY <1>7
<1> HIDE DEF B
<1> DEFINE h == [c \in m..t |-> IF c # m THEN g[c] ELSE IF m >= n THEN m ELSE g[2*m]]
<1>9. ASSUME NEW c \in m..t PROVE h[c] = IF c >= n THEN c ELSE h[2*c]
  <2>1. c \in Nat /\ c >= 1
    BY <1>5
  <2>2. ~(c >= n) => 2*c \in m..t /\ 2*c # m
    BY <1>1, <1>5, <2>1
  <2>3. ~(c >= n) => h[2*c] = g[2*c]
    BY <2>2
  <2>4. CASE c = m
    <3>1. h[c] = IF m >= n THEN m ELSE g[2*m]
      BY <2>4
    <3> HIDE DEF h
    <3> QED BY <2>3, <2>4, <3>1
  <2>5. CASE c # m
    <3>1. h[c] = g[c]
      BY <2>5
    <3>2. c \in m+1..t /\ d # 0
      BY <2>5, <1>1, <1>4, <1>5
    <3>3. g[c] = IF c >= n THEN c ELSE g[2*c]
      BY <1>8, <3>2 DEF Doubled
    <3> HIDE DEF h
    <3> QED BY <2>3, <3>1, <3>3
  <2> QED BY <2>4, <2>5
<1>10. h = Doubled(n, m, h)
  <2>1. h = [c \in m..2*n+1 |-> h[c]]
    BY <1>1
  <2>2. \A c \in m..2*n+1 : h[c] = IF c >= n THEN c ELSE h[2*c]
    BY <1>1, <1>9
  <2> HIDE DEF h, m
  <2> QED BY <2>1, <2>2 DEF Doubled
<1> QED BY <1>4, <1>10

LEMMA RoundUpType ==
  ASSUME NEW n \in Nat
  PROVE  RoundUp(n) \in Nat
<1> DEFINE f == CHOOSE g : g = Doubled(n, 1, g)
           t == 2*n+1
           B == {d \in 0..2*n : f[t - d] \notin Nat}
<1>1. RoundUp(n) = f[1]
  BY DEF RoundUp, Doubled
<1>2. f = Doubled(n, 1, f)
  BY DoublingExists
<1> HIDE DEF f
<1>3. t \in Nat /\ 2*n \in Nat /\ t = 2*n+1 /\ t - 2*n = 1
  OBVIOUS
<1>4. \A c \in 1..t : f[c] = IF c >= n THEN c ELSE f[2*c]
  BY <1>2 DEF Doubled
<1>5. SUFFICES ASSUME 2*n \in B PROVE FALSE
  BY <1>1, <1>3
<1>6. PICK d \in B : \A y \in B : d <= y
  <2>1. B \subseteq 0..2*n /\ B # {}
    BY <1>5
  <2> HIDE DEF B
  <2> QED BY <2>1, <1>3, LeastOf
<1> DEFINE c == t - d
<1>7. d \in 0..2*n /\ c \in 1..t /\ f[c] \notin Nat
  BY <1>3
<1>8. ~(c >= n)
  BY <1>4, <1>7
<1>9. f[2*c] \notin Nat
  BY <1>4, <1>7, <1>8
<1>10. t - 2*c \in 0..2*n /\ t - 2*c < d /\ t - (t - 2*c) = 2*c
  BY <1>3, <1>7, <1>8
<1>11. t - 2*c \in B
  BY <1>9, <1>10
<1> HIDE DEF B, c
<1> QED BY <1>6, <1>7, <1>10, <1>11, <1>3

-----------------------------------------------------------------------------
(***************************************************************************)
(* The invariants of the component: the table and its index; the strings   *)
(* in the arena, behind the two arrays.                                    *)
(***************************************************************************)
NoOffs == [j \in {} |-> 0]

TableInv ==
  /\ phase \in {"none", "ready", "aborted"}
  /\ Indexed(kit) /\ Counted(kit)
  /\ koff \in [0..kit.cap-1 -> Nat]
  /\ mem \in Arena /\ mark \in Nat /\ ret \in -1..kit.cap
  /\ phase # "ready" => kit = NoTable /\ koff = NoOffs
  /\ phase = "ready" => \E n \in InitCaps : kit.cap = RoundUp(n)

StringInv ==
  /\ mem.cur <= mem.size
  /\ phase = "ready" => mark + kit.cap * (SizeofEntry + SizeofSlot) <= mem.cur
  /\ StringsApart

LEMMA NewIndexed ==
  ASSUME NEW cap \in Nat
  PROVE  /\ Indexed(NewKeyIndex(cap)) /\ Counted(NewKeyIndex(cap))
         /\ NewKeyIndex(cap).cap = cap /\ NewKeyIndex(cap).cnt = 0
<1> DEFINE r == NewKeyIndex(cap)
<1>1. /\ r.cap = cap /\ r.cnt = 0 /\ r.dead = 0 /\ r.idx = HashIndexInit(cap)
      /\ r.ents = [j \in 0..cap-1 |-> [key |-> NoKey, stat |-> "EMPTY"]]
      /\ r = [cap |-> r.cap, cnt |-> r.cnt, dead |-> r.dead, ents |-> r.ents, idx |-> r.idx]
  BY DEF NewKeyIndex
<1> HIDE DEF r
<1>2. IndexWithin(r.idx, r.cap, r.ents, r.cnt)
  BY <1>1, EmptyIndex
<1>3. r \in KeyIndexOf(cap)
  <2>1. r.ents \in [0..cap-1 -> KeyEntry]
    BY <1>1 DEF KeyEntry, EntryStat
  <2>2. r.idx \in [0..cap-1 -> {HT_KIDX_SLOT_EMPTY} \cup 0..cap-1]
    BY <1>1 DEF HashIndexInit
  <2> QED BY <1>1, <2>1, <2>2 DEF KeyIndexOf
<1>4. 0..r.cnt-1 = {}
  BY <1>1
<1>5. Indexed(r)
  BY <1>1, <1>2, <1>3, <1>4 DEF Indexed
<1>6. Counted(r)
  <2>1. DeadOf(r) = {}
    BY <1>4 DEF DeadOf
  <2> QED BY <1>1, <2>1, FS_EmptySet DEF Counted
<1> QED BY <1>1, <1>5, <1>6 DEF r

LEMMA NoTableIndexed ==
  /\ Indexed(NoTable) /\ Counted(NoTable) /\ NoTable.cap = 0 /\ NoTable.cnt = 0
  /\ NoOffs \in [0..NoTable.cap-1 -> Nat] /\ -1 \in -1..NoTable.cap /\ 0 \in -1..NoTable.cap
<1>1. Indexed(NoTable) /\ Counted(NoTable) /\ NoTable.cap = 0 /\ NoTable.cnt = 0
  BY NewIndexed DEF NoTable
<1>2. 0..NoTable.cap-1 = {}
  BY <1>1
<1> QED BY <1>1, <1>2 DEF NoOffs

(***************************************************************************)
(* With no table, the invariant is about the arena alone.                  *)
(***************************************************************************)
LEMMA NoTableInv ==
  ASSUME kit' = NoTable, koff' = NoOffs, phase' \in {"none", "aborted"},
         mem' \in Arena, mark' \in Nat, ret' \in {-1, 0}
  PROVE  TableInv'
BY NoTableIndexed DEF TableInv

LEMMA NoStringInv ==
  ASSUME phase' # "ready", mem'.cur <= mem'.size
  PROVE  StringInv'
BY DEF StringInv, StringsApart

LEMMA SetCurType ==
  ASSUME NEW m \in Arena, NEW pos \in Nat, m.cur <= m.size
  PROVE  /\ ArenaSetCur(m, pos) \in Arena /\ ArenaSetCur(m, pos).size = m.size
         /\ ArenaSetCur(m, pos).cur <= m.size
BY DEF ArenaSetCur, Arena

(***************************************************************************)
(* One allocation: an answer is an aligned offset behind the cursor, and   *)
(* the cursor is then behind the block.                                    *)
(***************************************************************************)
LEMMA AllocPlaces ==
  ASSUME NEW m \in Arena, NEW n \in Nat, m.cur <= m.size
  PROVE  /\ ArenaAlloc(m, n, ALLOC_ALIGN).mem \in Arena
         /\ ArenaAlloc(m, n, ALLOC_ALIGN).mem.size = m.size
         /\ ArenaAlloc(m, n, ALLOC_ALIGN).mem.cur <= m.size
         /\ m.cur <= ArenaAlloc(m, n, ALLOC_ALIGN).mem.cur
         /\ ArenaAlloc(m, n, ALLOC_ALIGN).off = NULL_OFF =>
              ArenaAlloc(m, n, ALLOC_ALIGN).mem = m
         /\ ArenaAlloc(m, n, ALLOC_ALIGN).off # NULL_OFF =>
              /\ ArenaAlloc(m, n, ALLOC_ALIGN).mem.cur - n \in Nat
              /\ m.cur <= ArenaAlloc(m, n, ALLOC_ALIGN).mem.cur - n
              /\ (ArenaAlloc(m, n, ALLOC_ALIGN).mem.cur - n) % ALLOC_ALIGN = 0
<1> DEFINE a == AlignOffset(m.cur, 4)
           r == ArenaAlloc(m, n, ALLOC_ALIGN)
<1>1. m.cur \in Nat /\ m.size \in Nat /\ m = [cur |-> m.cur, size |-> m.size]
  BY DEF Arena
<1>2. a \in Nat /\ m.cur <= a /\ a % 4 = 0
  BY <1>1, AlignOffset4
<1>3. ALLOC_ALIGN = 4
  BY DEF ALLOC_ALIGN
<1>4. CASE ArenaFits(m, n, ALLOC_ALIGN)
  <2>1. r.mem = [m EXCEPT !.cur = a + n] /\ a + n <= m.size
    BY <1>3, <1>4 DEF ArenaAlloc, ArenaFits
  <2> HIDE DEF a, r
  <2>2. r.mem = [cur |-> a + n, size |-> m.size]
    BY <1>1, <2>1
  <2>3. (a + n) - n = a /\ a + n \in Nat /\ m.cur <= a + n
    BY <1>1, <1>2
  <2>4. r.off = NULL_OFF => r.mem = m
    BY <1>2, <1>3, <1>4 DEF ArenaAlloc, NULL_OFF, a, r
  <2>5. r.mem.cur = a + n /\ r.mem.size = m.size /\ r.mem \in Arena
    BY <1>1, <2>2, <2>3 DEF Arena
  <2>6. r.mem.cur - n = a
    BY <2>3, <2>5
  <2> QED BY <1>2, <1>3, <2>1, <2>3, <2>4, <2>5, <2>6 DEF r
<1>5. CASE ~ArenaFits(m, n, ALLOC_ALIGN)
  <2>1. r.mem = m /\ r.off = NULL_OFF
    BY <1>5 DEF ArenaAlloc
  <2> QED BY <1>1, <2>1
<1> QED BY <1>4, <1>5

-----------------------------------------------------------------------------
(***************************************************************************)
(* Each call keeps the invariants.                                         *)
(***************************************************************************)
LEMMA KInvInit == Init => TableInv /\ StringInv
<1> SUFFICES ASSUME Init PROVE TableInv /\ StringInv
  OBVIOUS
<1>1. PICK size \in ArenaSizes : mem = ArenaInit(size)
  BY DEF Init, NoClient
<1>2. size \in Nat
  BY <1>1, ClientAssumption
<1>3. mem \in Arena /\ mem.cur = 0 /\ mem.size = size
  BY <1>1, <1>2 DEF ArenaInit, Arena
<1>4. /\ phase = "none" /\ kit = NoTable /\ koff = NoOffs /\ mark = 0 /\ ret = -1
  BY DEF Init, NoClient, NoOffs
<1>5. TableInv
  BY <1>3, <1>4, NoTableIndexed DEF TableInv
<1>6. StringInv
  BY <1>2, <1>3, <1>4 DEF StringInv, StringsApart
<1> QED BY <1>5, <1>6

LEMMA TableFacts ==
  ASSUME TableInv
  PROVE  /\ kit.cap \in Nat /\ kit.cnt \in 0..kit.cap /\ kit.cnt \in Nat
         /\ Indexed(kit) /\ Counted(kit) /\ koff \in [0..kit.cap-1 -> Nat]
         /\ mem \in Arena /\ mark \in Nat /\ mem.cur \in Nat /\ mem.size \in Nat
         /\ ret \in -1..kit.cap
         /\ phase # "ready" => kit = NoTable /\ koff = NoOffs
         /\ phase = "ready" => \E n \in InitCaps : kit.cap = RoundUp(n)
BY IndexedTypes DEF TableInv, Arena

LEMMA InitTableStep ==
  ASSUME TableInv, StringInv, NEW n \in InitCaps, InitTable(n)
  PROVE  TableInv' /\ StringInv'
<1> DEFINE cap == RoundUp(n)
           ents == ArenaAlloc(mem, cap * SizeofEntry, ALLOC_ALIGN)
           idx == ArenaAlloc(ents.mem, cap * SizeofSlot, ALLOC_ALIGN)
           ok == ents.off # NULL_OFF /\ idx.off # NULL_OFF
<1>1. cap \in Nat
  BY RoundUpType, ClientAssumption
<1>2. /\ mem \in Arena /\ mark \in Nat /\ mem.cur \in Nat /\ mem.cur <= mem.size
      /\ phase = "none" /\ kit = NoTable /\ koff = NoOffs
  BY TableFacts DEF StringInv, InitTable
<1>3. /\ mark' = mem.cur
      /\ ok => /\ phase' = "ready" /\ kit' = NewKeyIndex(cap)
               /\ koff' = [j \in 0..cap-1 |-> 0] /\ mem' = idx.mem /\ ret' = 0
      /\ ~ok => Fails(ArenaSetCur(idx.mem, mem.cur), "none", NoTable, koff)
  BY DEF InitTable, Returns
<1>4. cap * SizeofEntry \in Nat /\ cap * SizeofSlot \in Nat
  BY <1>1 DEF SizeofEntry, SizeofSlot
<1> HIDE DEF cap
<1>5. /\ ents.mem \in Arena /\ ents.mem.size = mem.size /\ ents.mem.cur <= mem.size
      /\ mem.cur <= ents.mem.cur
      /\ ents.off # NULL_OFF => mem.cur <= ents.mem.cur - cap * SizeofEntry
  BY <1>2, <1>4, AllocPlaces
<1> HIDE DEF ents
<1>6. /\ idx.mem \in Arena /\ idx.mem.size = mem.size /\ idx.mem.cur <= mem.size
      /\ ents.mem.cur <= idx.mem.cur
      /\ idx.off # NULL_OFF => ents.mem.cur <= idx.mem.cur - cap * SizeofSlot
  BY <1>4, <1>5, AllocPlaces
<1> HIDE DEF idx
<1>7. CASE ok
  <2>1. /\ phase' = "ready" /\ kit' = NewKeyIndex(cap) /\ mark' = mem.cur
        /\ koff' = [j \in 0..cap-1 |-> 0] /\ mem' = idx.mem /\ ret' = 0
    BY <1>3, <1>7
  <2>2. Indexed(kit') /\ Counted(kit') /\ kit'.cap = cap /\ kit'.cnt = 0
    BY <1>1, <2>1, NewIndexed
  <2>3. TableInv'
    <3>1. koff' \in [0..cap-1 -> Nat] /\ 0 \in -1..cap
      BY <1>1, <2>1
    <3>2. \E m \in InitCaps : kit'.cap = RoundUp(m)
      BY <2>2 DEF cap
    <3> QED BY <1>2, <1>6, <2>1, <2>2, <3>1, <3>2 DEF TableInv
  <2>4. mark' + cap * (SizeofEntry + SizeofSlot) <= mem'.cur
    <3>1. mem.cur <= ents.mem.cur - cap * 12 /\ ents.mem.cur <= idx.mem.cur - cap * 4
      BY <1>5, <1>6, <1>7 DEF SizeofEntry, SizeofSlot
    <3>2. ents.mem.cur \in Nat /\ idx.mem.cur \in Nat
      BY <1>5, <1>6 DEF Arena
    <3>3. mem.cur + cap * (12 + 4) <= idx.mem.cur
      BY <1>1, <1>2, <3>1, <3>2
    <3> QED BY <2>1, <3>3 DEF SizeofEntry, SizeofSlot
  <2>5. Entries' = {}
    BY <2>2 DEF Entries
  <2>6. mem'.cur <= mem'.size
    BY <1>6, <2>1
  <2> QED BY <2>2, <2>3, <2>4, <2>5, <2>6 DEF StringInv, StringsApart
<1>8. CASE ~ok
  <2>1. Fails(ArenaSetCur(idx.mem, mem.cur), "none", NoTable, NoOffs)
    BY <1>2, <1>3, <1>8
  <2>2. /\ phase' \in {"none", "aborted"} /\ kit' = NoTable /\ koff' = NoOffs
        /\ mem' = ArenaSetCur(idx.mem, mem.cur) /\ ret' = -1
    BY <2>1 DEF Fails, Returns, NoOffs
  <2>3. mem' \in Arena /\ mem'.cur <= mem'.size
    BY <1>2, <1>6, <2>2, SetCurType
  <2>4. mark' \in Nat
    BY <1>2, <1>3
  <2> QED BY <2>2, <2>3, <2>4, NoTableInv, NoStringInv
<1> QED BY <1>7, <1>8

LEMMA DeinitStep ==
  ASSUME TableInv, StringInv, Deinit
  PROVE  TableInv' /\ StringInv'
<1>1. mem \in Arena /\ mark \in Nat /\ mem.cur <= mem.size
  BY TableFacts DEF StringInv
<1>2. /\ phase' = "none" /\ kit' = NoTable /\ koff' = NoOffs /\ mem' = ArenaSetCur(mem, mark)
      /\ ret' = -1 /\ mark' = mark
  BY DEF Deinit, Returns, NoOffs
<1>3. mem' \in Arena /\ mem'.cur <= mem'.size
  BY <1>1, <1>2, SetCurType
<1> QED BY <1>1, <1>2, <1>3, NoTableInv, NoStringInv

LEMMA RestartStep ==
  ASSUME TableInv, StringInv, Restart
  PROVE  TableInv' /\ StringInv'
<1>1. mem \in Arena /\ mem.cur <= mem.size /\ kit = NoTable /\ koff = NoOffs
  BY TableFacts DEF StringInv, Restart
<1>2. /\ phase' = "none" /\ kit' = NoTable /\ koff' = NoOffs /\ mem' = ArenaSetCur(mem, 0)
      /\ ret' = -1 /\ mark' = 0
  BY <1>1 DEF Restart, Returns
<1>3. mem' \in Arena /\ mem'.cur <= mem'.size
  BY <1>1, <1>2, SetCurType
<1> QED BY <1>2, <1>3, NoTableInv, NoStringInv

(***************************************************************************)
(* A call that gives no string out leaves the strings where they are.      *)
(***************************************************************************)
LEMMA SameStrings ==
  ASSUME StringInv, phase = "ready", phase' = phase, koff' = koff, mem' = mem, mark' = mark,
         kit'.cap = kit.cap, kit'.cnt = kit.cnt,
         \A j \in Entries : kit'.ents[j].key = kit.ents[j].key
  PROVE  StringInv'
<1>1. Entries' = Entries
  BY DEF Entries
<1>2. ASSUME NEW j \in Entries
      PROVE  /\ koff'[j] % ALLOC_ALIGN = 0
             /\ koff'[j] >= mark' + kit'.cap * (SizeofEntry + SizeofSlot)
             /\ koff'[j] + KLen[kit'.ents[j].key] + 1
                  <= IF j + 1 < kit'.cnt THEN koff'[j+1] ELSE mem'.cur
  BY DEF StringInv, StringsApart
<1>3. mem'.cur <= mem'.size /\ mark' + kit'.cap * (SizeofEntry + SizeofSlot) <= mem'.cur
  BY DEF StringInv
<1> QED BY <1>1, <1>2, <1>3 DEF StringInv, StringsApart

LEMMA SameTableInv ==
  ASSUME TableInv, phase' = phase, koff' = koff, mem' = mem, mark' = mark,
         phase = "ready", Indexed(kit'), Counted(kit'), kit'.cap = kit.cap,
         ret' \in -1..kit.cap
  PROVE  TableInv'
BY DEF TableInv

LEMMA LookupStep ==
  ASSUME TableInv, StringInv, NEW k \in Keys, LookupKey(k)
  PROVE  TableInv' /\ StringInv'
<1>1. /\ phase = "ready" /\ UNCHANGED <<phase, kit, koff, mem, mark>>
      /\ ret' = IF FindLive(kit, k) < 0 THEN -1 ELSE FindLive(kit, k)
  BY DEF LookupKey, Returns
<1>2. ret' \in -1..kit.cap
  <2>1. Indexed(kit) /\ kit.cap \in Nat /\ kit.cnt \in 0..kit.cap
    BY TableFacts
  <2>2. CASE FindLive(kit, k) < 0
    BY <1>1, <2>1, <2>2
  <2>3. CASE ~(FindLive(kit, k) < 0)
    <3>1. ~(Find(kit, k) < 0) /\ FindLive(kit, k) = Find(kit, k)
      BY <2>3 DEF FindLive, KEY_NOT_FOUND
    <3>2. Find(kit, k) \in 0..kit.cnt-1
      BY <2>1, <3>1, FindFound
    <3> QED BY <1>1, <2>1, <2>3, <3>1, <3>2
  <2> QED BY <2>2, <2>3
<1>3. Indexed(kit') /\ Counted(kit') /\ kit'.cap = kit.cap /\ kit'.cnt = kit.cnt
  BY <1>1, TableFacts
<1>4. TableInv'
  BY <1>1, <1>2, <1>3, SameTableInv
<1>5. StringInv'
  BY <1>1, <1>3, SameStrings
<1> QED BY <1>4, <1>5

\* A table with the keys of another.
SameKeys(t, r) ==
  r.cap = t.cap /\ r.cnt = t.cnt /\ \A j \in 0..t.cnt-1 : r.ents[j].key = t.ents[j].key

LEMMA RestatedKeys ==
  ASSUME NEW t, Indexed(t), NEW n \in 0..t.cnt-1, NEW st, NEW r, Restated(t, r, n, st)
  PROVE  SameKeys(t, r)
<1>1. t.ents \in [0..t.cap-1 -> KeyEntry] /\ t.cnt \in 0..t.cap /\ t.cap \in Nat
  BY IndexedTypes
<1> QED BY <1>1 DEF Restated, SameKeys

LEMMA RemoveStep ==
  ASSUME TableInv, StringInv, NEW k \in Keys, Remove(k)
  PROVE  TableInv' /\ StringInv'
<1>1. /\ phase = "ready" /\ UNCHANGED <<phase, koff, mem, mark>> /\ kit' = Removed(kit, k)
      /\ ret' = IF Find(kit, k) < 0 THEN -1 ELSE Find(kit, k)
  BY DEF Remove, Returns
<1>2. Indexed(kit) /\ Counted(kit) /\ kit.cap \in Nat /\ kit.cnt \in 0..kit.cap
  BY TableFacts
<1>3. Indexed(kit') /\ Counted(kit')
  BY <1>1, <1>2, RemovedIndexed
<1>4. SameKeys(kit, kit') /\ ret' \in -1..kit.cap
  <2>1. CASE Find(kit, k) < 0
    BY <1>1, <1>2, <2>1 DEF Removed, SameKeys
  <2>2. CASE ~(Find(kit, k) < 0)
    <3>1. Find(kit, k) \in 0..kit.cnt-1
      BY <1>2, <2>2, FindFound
    <3>2. Restated(kit, kit', Find(kit, k), "DELETED")
      BY <1>1, <1>2, <2>2, RemovedIndexed
    <3> QED BY <1>1, <1>2, <2>2, <3>1, <3>2, RestatedKeys
  <2> QED BY <2>1, <2>2
<1>5. TableInv'
  BY <1>1, <1>3, <1>4, SameTableInv DEF SameKeys
<1>6. StringInv'
  BY <1>1, <1>4, SameStrings DEF SameKeys, Entries
<1> QED BY <1>5, <1>6

(***************************************************************************)
(* What an insertion begins with: the table, perhaps with a new index.     *)
(***************************************************************************)
LEMMA PreparedFacts ==
  ASSUME TableInv
  PROVE  /\ Indexed(Prepared(kit)) /\ Counted(Prepared(kit))
         /\ Prepared(kit).cap = kit.cap /\ Prepared(kit).cnt = kit.cnt
         /\ Prepared(kit).ents = kit.ents /\ SameKeys(kit, Prepared(kit))
<1>1. Indexed(Prepared(kit)) /\ Counted(Prepared(kit)) /\ SameButIndex(kit, Prepared(kit))
  BY TableFacts, PreparedIndexed
<1> QED BY <1>1 DEF SameButIndex, SameKeys

LEMMA InsertRefusedStep ==
  ASSUME TableInv, StringInv, NEW k \in Keys, InsertRefused(k)
  PROVE  TableInv' /\ StringInv'
<1>1. phase = "ready" /\ UNCHANGED <<phase, kit, koff, mem, mark>> /\ ret' = -1
  BY DEF InsertRefused, Returns
<1>2. Indexed(kit') /\ Counted(kit') /\ kit'.cap = kit.cap /\ kit'.cnt = kit.cnt
      /\ -1 \in -1..kit.cap
  BY <1>1, TableFacts
<1>3. TableInv'
  BY <1>1, <1>2, SameTableInv
<1>4. StringInv'
  BY <1>1, <1>2, SameStrings
<1> QED BY <1>3, <1>4

LEMMA InsertKnownStep ==
  ASSUME TableInv, StringInv, NEW k \in Keys, InsertKnown(k)
  PROVE  TableInv' /\ StringInv'
<1> DEFINE t == Prepared(kit)
           n == Find(t, k)
<1>1. /\ phase = "ready" /\ UNCHANGED <<phase, koff, mem, mark>>
      /\ n >= 0 /\ kit' = Revived(t, n) /\ ret' = n
  BY DEF InsertKnown, Returns
<1>2. /\ Indexed(t) /\ Counted(t) /\ t.cap = kit.cap /\ t.cnt = kit.cnt
      /\ SameKeys(kit, t) /\ kit.cap \in Nat /\ kit.cnt \in 0..kit.cap
  BY PreparedFacts, TableFacts
<1> HIDE DEF t
<1>3. n \in 0..t.cnt-1 /\ Names(t.idx, n)
  <2>1. ~(Find(t, k) < 0)
    <3>1. Find(t, k) \in Int
      BY <1>2, FindType
    <3> QED BY <1>1, <3>1
  <2> QED BY <2>1, <1>2, FindFound
<1> HIDE DEF n
<1>4. Indexed(kit') /\ Counted(kit') /\ Restated(t, kit', n, "INUSE")
  BY <1>1, <1>2, <1>3, RevivedIndexed
<1>5. SameKeys(t, kit') /\ SameKeys(kit, kit')
  <2>1. SameKeys(t, kit')
    BY <1>2, <1>3, <1>4, RestatedKeys
  <2> QED BY <1>2, <2>1 DEF SameKeys
<1>6. ret' \in -1..kit.cap
  BY <1>1, <1>2, <1>3
<1>7. TableInv'
  BY <1>1, <1>4, <1>5, <1>6, SameTableInv DEF SameKeys
<1>8. StringInv'
  BY <1>1, <1>5, SameStrings DEF SameKeys, Entries
<1> QED BY <1>7, <1>8

(***************************************************************************)
(* A new entry's string begins where the cursor was, aligned, and ends at  *)
(* the new cursor: key_off, counted back from there, is its beginning.     *)
(***************************************************************************)
LEMMA NewString ==
  ASSUME TableInv, StringInv, phase = "ready", NEW k \in Keys,
         ArenaAlloc(mem, KLen[k] + 1, ALLOC_ALIGN).off # NULL_OFF
  PROVE  /\ KeyOff(mem, k) \in Nat /\ mem.cur <= KeyOff(mem, k)
         /\ KeyOff(mem, k) % ALLOC_ALIGN = 0
         /\ KeyOff(mem, k) + KLen[k] + 1 = ArenaAlloc(mem, KLen[k] + 1, ALLOC_ALIGN).mem.cur
<1> DEFINE c == ArenaAlloc(mem, KLen[k] + 1, ALLOC_ALIGN).mem.cur
           l == KLen[k] + 1
<1>1. mem \in Arena /\ mem.cur <= mem.size /\ mem.cur \in Nat /\ KLen[k] \in Nat /\ l \in Nat
  BY TableFacts, TableAssumption DEF StringInv
<1>2. /\ c - l \in Nat /\ mem.cur <= c - l /\ (c - l) % ALLOC_ALIGN = 0
      /\ ArenaAlloc(mem, KLen[k] + 1, ALLOC_ALIGN).mem \in Arena
  <2> HIDE DEF c, l
  <2>1. ArenaAlloc(mem, l, ALLOC_ALIGN).off # NULL_OFF /\ c = ArenaAlloc(mem, l, ALLOC_ALIGN).mem.cur
        /\ l = KLen[k] + 1
    BY DEF c, l
  <2> QED BY <1>1, <2>1, AllocPlaces
<1>3. c \in Nat
  BY <1>2 DEF Arena
<1>4. KeyOff(mem, k) = c - (KLen[k] + 1)
  BY DEF KeyOff
<1> HIDE DEF c
<1>5. ((c - (KLen[k] + 1)) + KLen[k]) + 1 = c
  BY <1>1, <1>3
<1> QED BY <1>2, <1>4, <1>5 DEF c

LEMMA InsertNewStep ==
  ASSUME TableInv, StringInv, NEW k \in Keys, InsertNew(k)
  PROVE  TableInv' /\ StringInv'
<1> DEFINE t == Prepared(kit)
           str == ArenaAlloc(mem, KLen[k] + 1, ALLOC_ALIGN)
           c == kit.cnt
<1>1. /\ phase = "ready" /\ ~Full(kit) /\ Find(t, k) < 0 /\ mark' = mark
      /\ str.off = NULL_OFF => Fails(str.mem, "ready", t, koff)
      /\ str.off # NULL_OFF => /\ kit' = Appended(t, k) /\ koff' = [koff EXCEPT ![t.cnt] = KeyOff(mem, k)]
                               /\ mem' = str.mem /\ ret' = t.cnt /\ phase' = phase
  BY DEF InsertNew, Returns
<1>2. /\ Indexed(t) /\ Counted(t) /\ t.cap = kit.cap /\ t.cnt = c /\ t.ents = kit.ents
      /\ SameKeys(kit, t) /\ kit.cap \in Nat /\ c \in 0..kit.cap /\ c \in Nat
      /\ mark \in Nat /\ mem \in Arena /\ mem.cur <= mem.size /\ mem.cur \in Nat
      /\ koff \in [0..kit.cap-1 -> Nat] /\ Indexed(kit)
  BY PreparedFacts, TableFacts DEF StringInv
<1> HIDE DEF t
<1>3. KLen[k] \in Nat /\ KLen[k] + 1 \in Nat
  BY TableAssumption
<1>4. /\ str.mem \in Arena /\ str.mem.size = mem.size /\ str.mem.cur <= mem.size
      /\ mem.cur <= str.mem.cur /\ (str.off = NULL_OFF => str.mem = mem)
  BY <1>2, <1>3, AllocPlaces
<1>5. CASE str.off = NULL_OFF
  <2>1. /\ phase' = IF ndebug THEN "ready" ELSE "aborted"
        /\ kit' = IF ndebug THEN t ELSE NoTable
        /\ koff' = IF ndebug THEN koff ELSE NoOffs
        /\ mem' = mem /\ ret' = -1
    BY <1>1, <1>4, <1>5 DEF Fails, Returns, NoOffs
  <2>2. CASE ndebug
    <3>1. phase' = phase /\ kit' = t /\ koff' = koff /\ mem' = mem /\ ret' = -1
      BY <2>1, <2>2, <1>1
    <3>2. TableInv'
      <4>1. ret' \in -1..kit.cap
        BY <3>1, <1>2
      <4> QED BY <3>1, <4>1, <1>1, <1>2, SameTableInv
    <3>3. StringInv'
      BY <3>1, <1>1, <1>2, SameStrings DEF SameKeys, Entries
    <3> QED BY <3>2, <3>3
  <2>3. CASE ~ndebug
    <3>1. phase' = "aborted" /\ kit' = NoTable /\ koff' = NoOffs /\ mem' = mem /\ ret' = -1
      BY <2>1, <2>3
    <3> QED BY <3>1, <1>1, <1>2, NoTableInv, NoStringInv
  <2> QED BY <2>2, <2>3
<1>6. CASE str.off # NULL_OFF
  <2> DEFINE off == KeyOff(mem, k)
  <2>1. /\ phase' = "ready" /\ kit' = Appended(t, k) /\ koff' = [koff EXCEPT ![c] = off]
        /\ mem' = str.mem /\ ret' = c /\ mark' = mark
    BY <1>1, <1>2, <1>6
  <2>2. c \in 0..kit.cap-1 /\ c + 1 \in 0..kit.cap
    BY <1>1, <1>2, RoomLeft
  <2>3. /\ Indexed(kit') /\ Counted(kit') /\ kit'.cap = kit.cap /\ kit'.cnt = c + 1
        /\ kit'.ents = [kit.ents EXCEPT ![c] = NewEntry(k)]
    <3>1. Indexed(t) /\ Counted(t) /\ t.cnt \in 0..t.cap-1 /\ Find(t, k) < 0
      BY <1>1, <1>2, <2>2
    <3>2. /\ Indexed(Appended(t, k)) /\ Counted(Appended(t, k))
          /\ Appended(t, k).cap = t.cap /\ Appended(t, k).cnt = t.cnt + 1
          /\ Appended(t, k).ents = [t.ents EXCEPT ![t.cnt] = NewEntry(k)]
      BY <3>1, AppendedIndexed
    <3> QED BY <3>2, <1>2, <2>1
  <2>4. /\ off \in Nat /\ mem.cur <= off /\ off % ALLOC_ALIGN = 0
        /\ off + KLen[k] + 1 = mem'.cur
    BY <1>1, <1>6, <2>1, NewString
  <2> HIDE DEF off, str
  <2>5. TableInv'
    <3>1. koff' \in [0..kit.cap-1 -> Nat] /\ ret' \in -1..kit.cap
      BY <1>2, <2>1, <2>2, <2>4
    <3>2. \E n \in InitCaps : kit'.cap = RoundUp(n)
      BY <1>1, <2>3, TableFacts
    <3>3. mem' \in Arena /\ mark' \in Nat
      BY <1>2, <1>4, <2>1 DEF str
    <3> QED BY <2>1, <2>3, <3>1, <3>2, <3>3 DEF TableInv
  <2>6. StringInv'
    <3>1. /\ mem'.cur <= mem'.size /\ mem.cur <= mem'.cur
          /\ mark + kit.cap * (SizeofEntry + SizeofSlot) <= mem.cur
      BY <1>1, <1>4, <2>1 DEF StringInv
    <3> DEFINE low == mark + kit.cap * (SizeofEntry + SizeofSlot)
    <3>2. low \in Nat /\ mem'.cur \in Nat
      <4>1. mem'.cur \in Nat
        BY <1>4, <2>1 DEF Arena
      <4>2. low \in Nat
        BY <1>2 DEF SizeofEntry, SizeofSlot
      <4> QED BY <4>1, <4>2
    <3>3. ASSUME NEW j \in 0..c-1
          PROVE  /\ koff[j] % ALLOC_ALIGN = 0 /\ koff[j] >= low
                 /\ koff[j] + KLen[kit.ents[j].key] + 1
                      <= IF j + 1 < c THEN koff[j+1] ELSE mem.cur
      BY <1>1 DEF StringInv, StringsApart, Entries
    <3>4. ASSUME NEW j \in 0..c
          PROVE  /\ koff'[j] % ALLOC_ALIGN = 0 /\ koff'[j] >= low
                 /\ koff'[j] + KLen[kit'.ents[j].key] + 1
                      <= IF j + 1 < c + 1 THEN koff'[j+1] ELSE mem'.cur
      <4>1. CASE j = c
        <5>1. koff'[j] = off /\ kit'.ents[j].key = k
          <6>1. kit.ents \in [0..kit.cap-1 -> KeyEntry] /\ koff'[c] = off
            BY <1>2, <2>1, <2>2, IndexedTypes
          <6>2. kit'.ents[c] = NewEntry(k) /\ NewEntry(k).key = k
            BY <6>1, <2>2, <2>3 DEF NewEntry
          <6> QED BY <4>1, <6>1, <6>2
        <5>2. off >= low
          BY <3>1, <3>2, <2>4, <1>2
        <5>3. ~(j + 1 < c + 1)
          BY <4>1, <1>2
        <5>4. off + KLen[k] + 1 <= mem'.cur
          BY <2>4, <3>2
        <5> QED BY <5>1, <5>2, <5>3, <5>4, <2>4
      <4>2. CASE j # c
        <5>1. j \in 0..c-1 /\ j + 1 \in 0..c /\ j + 1 < c + 1 /\ j \in Nat
          BY <4>2, <1>2
        <5>2. koff'[j] = koff[j] /\ kit'.ents[j].key = kit.ents[j].key
          <6>1. kit.ents \in [0..kit.cap-1 -> KeyEntry] /\ j \in 0..kit.cap-1
            BY <1>2, <2>2, <5>1, IndexedTypes
          <6> QED BY <6>1, <4>2, <1>2, <2>1, <2>3
        <5>3. koff[j] + KLen[kit.ents[j].key] + 1 <= koff'[j+1]
          <6>1. CASE j + 1 < c
            <7>1. koff'[j+1] = koff[j+1]
              BY <6>1, <5>1, <1>2, <2>1, <2>2
            <7> QED BY <7>1, <6>1, <5>1, <3>3
          <6>2. CASE ~(j + 1 < c)
            <7>1. j + 1 = c
              BY <6>2, <5>1, <1>2
            <7>2. koff'[j+1] = off
              BY <7>1, <1>2, <2>1, <2>2
            <7>3. koff[j] + KLen[kit.ents[j].key] + 1 <= mem.cur
              BY <6>2, <5>1, <3>3
            <7>4. koff[j] + KLen[kit.ents[j].key] + 1 \in Nat
              <8>1. koff[j] \in Nat
                <9>1. koff \in [0..kit.cap-1 -> Nat]
                  BY <1>2
                <9>2. j \in 0..kit.cap-1
                  BY <1>2, <2>2, <5>1
                <9> QED BY <9>1, <9>2
              <8>2. kit.ents[j].key \in Keys
                BY <5>1, <1>2 DEF Indexed
              <8> QED BY <8>1, <8>2, TableAssumption
            <7> QED BY <7>2, <7>3, <7>4, <2>4, <1>2
          <6> QED BY <6>1, <6>2
        <5> QED BY <5>1, <5>2, <5>3, <3>3
      <4> QED BY <4>1, <4>2
    <3> HIDE DEF low
    <3>5. Entries' = 0..c
      <4>1. (c + 1) - 1 = c
        BY <1>2
      <4> QED BY <2>3, <4>1 DEF Entries
    <3>6. low' = low /\ low <= mem'.cur
      <4>1. low' = low
        BY <2>1, <2>3 DEF low
      <4> QED BY <4>1, <3>1, <3>2, <1>2 DEF low
    <3>7. \A j \in Entries' :
            /\ koff'[j] % ALLOC_ALIGN = 0
            /\ koff'[j] >= mark' + kit'.cap * (SizeofEntry + SizeofSlot)
            /\ koff'[j] + KLen[kit'.ents[j].key] + 1
                 <= IF j + 1 < kit'.cnt THEN koff'[j+1] ELSE mem'.cur
      BY <3>4, <3>5, <3>6, <2>3 DEF low
    <3>8. mark' + kit'.cap * (SizeofEntry + SizeofSlot) <= mem'.cur
      BY <3>6 DEF low
    <3> QED BY <3>1, <3>7, <3>8 DEF StringInv, StringsApart
  <2> QED BY <2>5, <2>6
<1> QED BY <1>5, <1>6

-----------------------------------------------------------------------------
(***************************************************************************)
(* One step of any client.                                                 *)
(***************************************************************************)
LEMMA KInvStep == TableInv /\ StringInv /\ [Next]_vars => TableInv' /\ StringInv'
<1> SUFFICES ASSUME TableInv, StringInv, [Next]_vars PROVE TableInv' /\ StringInv'
  OBVIOUS
<1>1. ASSUME NEW n \in InitCaps, InitTable(n) PROVE TableInv' /\ StringInv'
  BY <1>1, InitTableStep
<1>2. CASE Deinit
  BY <1>2, DeinitStep
<1>3. CASE Restart
  BY <1>3, RestartStep
<1>4. ASSUME NEW k \in Keys, Insert(k) PROVE TableInv' /\ StringInv'
  <2>1. CASE InsertRefused(k)
    BY <2>1, InsertRefusedStep
  <2>2. CASE InsertKnown(k)
    BY <2>2, InsertKnownStep
  <2>3. CASE InsertNew(k)
    BY <2>3, InsertNewStep
  <2> QED BY <1>4, <2>1, <2>2, <2>3 DEF Insert
<1>5. ASSUME NEW k \in Keys, Remove(k) PROVE TableInv' /\ StringInv'
  BY <1>5, RemoveStep
<1>6. ASSUME NEW k \in Keys, LookupKey(k) PROVE TableInv' /\ StringInv'
  BY <1>6, LookupStep
<1>7. CASE UNCHANGED vars
  <2>1. /\ phase' = phase /\ kit' = kit /\ koff' = koff /\ mem' = mem /\ mark' = mark
        /\ ret' = ret
    BY <1>7 DEF vars
  <2>2. TableInv'
    BY <2>1 DEF TableInv
  <2>3. StringInv'
    BY <2>1 DEF StringInv, StringsApart, Entries
  <2> QED BY <2>2, <2>3
<1>8. CASE Calls
  BY <1>1, <1>2, <1>3, <1>4, <1>5, <1>6, <1>8 DEF Calls
<1> QED BY <1>7, <1>8 DEF Next

LEMMA KInvHolds == Spec => [](TableInv /\ StringInv)
BY KInvInit, KInvStep, PTL DEF Spec

(***************************************************************************)
(* What the properties say follows from the invariants.                    *)
(***************************************************************************)
LEMMA LiveFound ==
  ASSUME TableInv, NEW j \in Live
  PROVE  kit.ents[j].key \in Keys /\ Find(kit, kit.ents[j].key) = j /\ j \in 0..kit.cnt-1
         /\ kit.ents[j].stat = "INUSE" /\ j \in Nat
<1>1. j \in 0..kit.cnt-1 /\ kit.ents[j].stat = "INUSE" /\ Indexed(kit) /\ kit.cnt \in Nat
  BY TableFacts DEF Live, Entries
<1>2. kit.ents[j].key \in Keys /\ Names(kit.idx, j)
  BY <1>1 DEF Indexed
<1>3. Find(kit, kit.ents[j].key) = j
  BY <1>1, <1>2, FindNamed
<1> QED BY <1>1, <1>2, <1>3

LEMMA IndexHoldsThen == TableInv => IndexHolds
<1> SUFFICES ASSUME TableInv PROVE IndexHolds
  OBVIOUS
<1>1. KTypeOK
  BY TableFacts DEF TableInv, KTypeOK, Indexed
<1>2. Used = UsedSlots(kit.idx) /\ Entries = 0..kit.cnt-1
  BY DEF Used, UsedSlots, Entries
<1>3. IndexWithin(kit.idx, kit.cap, kit.ents, kit.cnt)
  BY TableFacts DEF Indexed
<1>4. \A s \in Used : kit.idx[s] \in Entries
  BY <1>2, <1>3 DEF IndexWithin
<1>5. \A s, u \in Used : kit.ents[kit.idx[s]].key = kit.ents[kit.idx[u]].key => s = u
  BY <1>2, <1>3 DEF IndexWithin
<1>6. \A j \in Live : Find(kit, kit.ents[j].key) = j
  BY LiveFound
<1> QED BY <1>1, <1>4, <1>5, <1>6 DEF IndexHolds

LEMMA DeadCountedThen == TableInv => DeadCounted
<1>1. Dead = DeadOf(kit)
  BY DEF Dead, DeadOf, Entries
<1> QED BY <1>1 DEF TableInv, DeadCounted, Counted

LEMMA EnumerationThen == TableInv => EnumerationShowsLive
<1> SUFFICES ASSUME TableInv PROVE EnumerationShowsLive
  OBVIOUS
<1> DEFINE E == {GetKey(kit, j) : j \in Entries} \ {NoKey}
           L == {kit.ents[j].key : j \in Live}
<1>1. Indexed(kit) /\ kit.cnt \in Nat
  BY TableFacts
<1>2. ASSUME NEW x \in E PROVE x \in L
  <2>1. PICK j \in Entries : x = GetKey(kit, j) /\ x # NoKey
    OBVIOUS
  <2> DEFINE k == kit.ents[j].key
  <2>2. k \in Keys
    BY <1>1 DEF Indexed, Entries
  <2> HIDE DEF k
  <2>3. x = k /\ ~(FindLive(kit, k) < 0)
    BY <2>1 DEF GetKey, k
  <2>4. ~(Find(kit, k) < 0) /\ kit.ents[Find(kit, k)].stat = "INUSE"
    <3>1. KEY_NOT_FOUND < 0
      BY DEF KEY_NOT_FOUND
    <3> QED BY <2>3, <3>1 DEF FindLive
  <2>5. Find(kit, k) \in 0..kit.cnt-1 /\ kit.ents[Find(kit, k)].key = k
    BY <1>1, <2>2, <2>4, FindFound
  <2>6. Find(kit, k) \in Live
    BY <2>4, <2>5 DEF Live, Entries
  <2> QED BY <2>3, <2>5, <2>6
<1>3. ASSUME NEW x \in L PROVE x \in E
  <2>1. PICK j \in Live : x = kit.ents[j].key
    OBVIOUS
  <2>2. /\ x \in Keys /\ Find(kit, x) = j /\ kit.ents[j].stat = "INUSE" /\ j \in Nat
        /\ j \in Entries
    BY <2>1, LiveFound DEF Entries
  <2>3. FindLive(kit, x) = j /\ ~(j < 0)
    BY <2>2 DEF FindLive
  <2>4. GetKey(kit, j) = x
    BY <2>1, <2>3 DEF GetKey
  <2>5. x # NoKey
    BY <2>2, KeyAssumption
  <2> QED BY <2>2, <2>4, <2>5
<1>4. E = L
  <2> HIDE DEF E, L
  <2> QED BY <1>2, <1>3
<1> QED BY <1>4 DEF EnumerationShowsLive

(***************************************************************************)
(* The index is sound after any calls: lookups find each live key's entry, *)
(* and nothing is named twice (kidxtbl_priv.h 115-206).                    *)
(***************************************************************************)
THEOREM IndexSound == Spec => []IndexHolds
BY KInvHolds, IndexHoldsThen, PTL

(***************************************************************************)
(* deleted_cnt never falls below the number of dead entries (119-122, 192).*)
(***************************************************************************)
THEOREM DeadAreCounted == Spec => []DeadCounted
BY KInvHolds, DeadCountedThen, PTL

(***************************************************************************)
(* No two strings share a byte, and none lies in an array (140-190).       *)
(***************************************************************************)
THEOREM StringsStayApart == Spec => []StringsApart
<1>1. StringInv => StringsApart
  BY DEF StringInv
<1> QED BY <1>1, KInvHolds, PTL

(***************************************************************************)
(* An enumeration shows exactly the keys in the table (kidxtbl.c 46-56).   *)
(***************************************************************************)
THEOREM EnumerationComplete == Spec => []EnumerationShowsLive
BY KInvHolds, EnumerationThen, PTL

-----------------------------------------------------------------------------
(***************************************************************************)
(* The registry a table stands for, as a function of the table.            *)
(***************************************************************************)
LiveOf(t) == {j \in 0..t.cnt-1 : t.ents[j].stat = "INUSE"}

NumberIn(t, k) ==
  IF \E j \in LiveOf(t) : t.ents[j].key = k
  THEN CHOOSE j \in LiveOf(t) : t.ents[j].key = k ELSE -1

NumbersIn(t) == [k \in Keys |-> NumberIn(t, k)]
OwnersIn(t) == [n \in Numbers |-> IF n \in 0..t.cnt-1 THEN t.ents[n].key ELSE NoKey]

LEMMA NumberIs ==
  ASSUME NEW t, Indexed(t), NEW k, NEW j \in LiveOf(t), t.ents[j].key = k
  PROVE  NumberIn(t, k) = j
<1> DEFINE i == CHOOSE i \in LiveOf(t) : t.ents[i].key = k
<1>1. i \in LiveOf(t) /\ t.ents[i].key = k
  OBVIOUS
<1>2. NumberIn(t, k) = i
  BY DEF NumberIn
<1> HIDE DEF i
<1>3. i = j
  BY <1>1, LiveKeysApart DEF LiveOf
<1> QED BY <1>2, <1>3

LEMMA NumberNone ==
  ASSUME NEW t, NEW k, \A j \in LiveOf(t) : t.ents[j].key # k
  PROVE  NumberIn(t, k) = -1
BY DEF NumberIn

LEMMA NumberCases ==
  ASSUME NEW t, Indexed(t), NEW k
  PROVE  \/ NumberIn(t, k) = -1 /\ \A j \in LiveOf(t) : t.ents[j].key # k
         \/ NumberIn(t, k) \in LiveOf(t) /\ t.ents[NumberIn(t, k)].key = k
            /\ NumberIn(t, k) # -1
<1>1. CASE \A j \in LiveOf(t) : t.ents[j].key # k
  BY <1>1, NumberNone
<1>2. ASSUME NEW j \in LiveOf(t), t.ents[j].key = k
      PROVE  NumberIn(t, k) = j /\ j # -1
  <2>1. t.cnt \in Nat
    BY IndexedTypes
  <2> QED BY <1>2, <2>1, NumberIs DEF LiveOf
<1> QED BY <1>1, <1>2

LEMMA SameRegistry ==
  ASSUME NEW t, NEW r, r.cnt = t.cnt, r.ents = t.ents
  PROVE  NumbersIn(r) = NumbersIn(t) /\ OwnersIn(r) = OwnersIn(t)
BY DEF NumbersIn, OwnersIn, NumberIn, LiveOf

LEMMA FindLiveNumber ==
  ASSUME NEW t, Indexed(t), NEW k \in Keys
  PROVE  NumberIn(t, k) = IF FindLive(t, k) < 0 THEN -1 ELSE FindLive(t, k)
<1>1. t.cnt \in Nat
  BY IndexedTypes
<1>2. CASE ~(Find(t, k) < 0) /\ t.ents[Find(t, k)].stat = "INUSE"
  <2>1. Find(t, k) \in LiveOf(t) /\ t.ents[Find(t, k)].key = k
    BY <1>2, FindFound DEF LiveOf
  <2>2. FindLive(t, k) = Find(t, k)
    BY <1>2 DEF FindLive
  <2> QED BY <1>2, <2>1, <2>2, NumberIs
<1>3. CASE (Find(t, k) < 0) \/ t.ents[Find(t, k)].stat # "INUSE"
  <2>1. FindLive(t, k) < 0
    <3>1. KEY_NOT_FOUND < 0
      BY DEF KEY_NOT_FOUND
    <3> QED BY <1>3, <3>1 DEF FindLive
  <2>2. ASSUME NEW j \in LiveOf(t), t.ents[j].key = k PROVE FALSE
    <3>1. Names(t.idx, j)
      BY DEF LiveOf, Indexed
    <3>2. Find(t, k) = j /\ ~(Find(t, k) < 0)
      BY <2>2, <3>1, FindNamed
    <3> QED BY <1>3, <3>2 DEF LiveOf
  <2>3. NumberIn(t, k) = -1
    BY <2>2, NumberNone
  <2> QED BY <2>1, <2>3
<1> QED BY <1>2, <1>3

(***************************************************************************)
(* The state of an entry decides the number of its key, and no other's.    *)
(***************************************************************************)
LEMMA RestatedRegistry ==
  ASSUME NEW t, Indexed(t), NEW n \in 0..t.cnt-1, Names(t.idx, n),
         NEW st \in {"INUSE", "DELETED"}, NEW r, Indexed(r), Restated(t, r, n, st)
  PROVE  /\ NumbersIn(r) = [NumbersIn(t) EXCEPT
                              ![t.ents[n].key] = IF st = "INUSE" THEN n ELSE -1]
         /\ OwnersIn(r) = OwnersIn(t)
<1> DEFINE k == t.ents[n].key
<1>1. /\ t.cnt \in 0..t.cap /\ t.cap \in Nat /\ t.ents \in [0..t.cap-1 -> KeyEntry] /\ r.cnt = t.cnt
      /\ r.ents = [t.ents EXCEPT ![n] = [key |-> t.ents[n].key, stat |-> st]]
  BY IndexedTypes DEF Restated
<1>2. ASSUME NEW j \in 0..t.cnt-1
      PROVE  /\ r.ents[j].key = t.ents[j].key
             /\ r.ents[j].stat = IF j = n THEN st ELSE t.ents[j].stat
  BY <1>1
<1>3. LiveOf(r) = {j \in 0..t.cnt-1 : r.ents[j].stat = "INUSE"}
  BY <1>1 DEF LiveOf
<1>4. OwnersIn(r) = OwnersIn(t)
  BY <1>1, <1>2 DEF OwnersIn
<1>5. k \in Keys
  BY DEF Indexed
<1>6. NumberIn(r, k) = IF st = "INUSE" THEN n ELSE -1
  <2>1. CASE st = "INUSE"
    <3>1. n \in LiveOf(r) /\ r.ents[n].key = k
      BY <1>2, <1>3, <2>1
    <3> QED BY <2>1, <3>1, NumberIs
  <2>2. CASE st # "INUSE"
    <3>1. ASSUME NEW j \in LiveOf(r), r.ents[j].key = k PROVE FALSE
      <4>1. j \in 0..t.cnt-1 /\ j # n /\ t.ents[j].stat = "INUSE" /\ t.ents[j].key = k
        BY <1>2, <1>3, <2>2, <3>1
      <4>2. Names(t.idx, j)
        BY <4>1 DEF Indexed
      <4>3. PICK s \in UsedSlots(t.idx) : t.idx[s] = j
        BY <4>2 DEF Names
      <4>4. PICK u \in UsedSlots(t.idx) : t.idx[u] = n
        BY DEF Names
      <4>5. s = u
        BY <4>1, <4>3, <4>4 DEF Indexed, IndexWithin
      <4> QED BY <4>1, <4>3, <4>4, <4>5
    <3>2. NumberIn(r, k) = -1
      BY <3>1, NumberNone
    <3> QED BY <2>2, <3>2
  <2> QED BY <2>1, <2>2
<1>7. ASSUME NEW x \in Keys, x # k PROVE NumberIn(r, x) = NumberIn(t, x)
  <2>1. \A j : j \in LiveOf(r) /\ r.ents[j].key = x <=> j \in LiveOf(t) /\ t.ents[j].key = x
    <3>1. ASSUME NEW j
          PROVE  j \in LiveOf(r) /\ r.ents[j].key = x <=> j \in LiveOf(t) /\ t.ents[j].key = x
      <4>1. CASE j \in 0..t.cnt-1
        BY <4>1, <1>2, <1>3, <1>7 DEF LiveOf
      <4>2. CASE j \notin 0..t.cnt-1
        BY <4>2, <1>3 DEF LiveOf
      <4> QED BY <4>1, <4>2
    <3> QED BY <3>1
  <2>2. CASE \E j \in LiveOf(t) : t.ents[j].key = x
    <3>1. PICK j \in LiveOf(t) : t.ents[j].key = x
      BY <2>2
    <3> QED BY <2>1, <3>1, NumberIs
  <2>3. CASE ~ \E j \in LiveOf(t) : t.ents[j].key = x
    <3>1. NumberIn(t, x) = -1
      BY <2>3, NumberNone
    <3>2. NumberIn(r, x) = -1
      BY <2>1, <2>3, NumberNone
    <3> QED BY <3>1, <3>2
  <2> QED BY <2>2, <2>3
<1>8. NumbersIn(r) = [NumbersIn(t) EXCEPT ![k] = IF st = "INUSE" THEN n ELSE -1]
  <2> HIDE DEF k
  <2>1. NumbersIn(r) = [x \in Keys |-> NumberIn(r, x)] /\ NumbersIn(t) = [x \in Keys |-> NumberIn(t, x)]
    BY DEF NumbersIn
  <2> QED BY <1>5, <1>6, <1>7, <2>1
<1> QED BY <1>4, <1>8

\* r is t with a new entry of k behind the others.
OneMore(t, r, k) == r.cnt = t.cnt + 1 /\ r.ents = [t.ents EXCEPT ![t.cnt] = NewEntry(k)]

(***************************************************************************)
(* A key with no entry in the index has no number, and the next entry      *)
(* becomes its number.                                                     *)
(***************************************************************************)
LEMMA AppendedRegistry ==
  ASSUME NEW t, Indexed(t), NEW k \in Keys, Find(t, k) < 0,
         t.cnt \in 0..t.cap-1, t.cnt \in Numbers,
         NEW r, Indexed(r), OneMore(t, r, k)
  PROVE  /\ NumbersIn(t)[k] = -1 /\ OwnersIn(t)[t.cnt] = NoKey
         /\ NumbersIn(r) = [NumbersIn(t) EXCEPT ![k] = t.cnt]
         /\ OwnersIn(r) = [OwnersIn(t) EXCEPT ![t.cnt] = k]
<1> DEFINE n == t.cnt
<1>1. /\ t.cap \in Nat /\ n \in Nat /\ n \in 0..t.cap-1 /\ t.ents \in [0..t.cap-1 -> KeyEntry]
      /\ r.cnt = n + 1 /\ 0..r.cnt-1 = 0..n /\ n \notin 0..n-1
      /\ r.ents = [t.ents EXCEPT ![n] = NewEntry(k)]
  BY IndexedTypes DEF OneMore
<1>2. r.ents[n].key = k /\ r.ents[n].stat = "INUSE"
  BY <1>1 DEF NewEntry
<1>3. ASSUME NEW j \in 0..n-1 PROVE r.ents[j] = t.ents[j] /\ j \in 0..n /\ j # n
  BY <1>1
<1>4. \A j \in LiveOf(t) : t.ents[j].key # k
  <2>1. Unnamed(t.idx, t.ents, k)
    BY FindNone
  <2>2. ASSUME NEW j \in LiveOf(t) PROVE Names(t.idx, j)
    BY DEF LiveOf, Indexed
  <2> QED BY <2>1, <2>2 DEF Unnamed, Names
<1>5. LiveOf(r) = LiveOf(t) \cup {n}
  <2>1. LiveOf(r) = {j \in 0..n : r.ents[j].stat = "INUSE"}
    BY <1>1 DEF LiveOf
  <2>2. 0..n = (0..n-1) \cup {n}
    BY <1>1
  <2>3. LiveOf(t) = {j \in 0..n-1 : t.ents[j].stat = "INUSE"}
    BY DEF LiveOf
  <2> HIDE DEF n
  <2> QED BY <1>2, <1>3, <2>1, <2>2, <2>3
<1>6. NumberIn(t, k) = -1
  BY <1>4, NumberNone
<1>7. NumberIn(r, k) = n
  BY <1>2, <1>5, NumberIs
<1>8. ASSUME NEW x \in Keys, x # k PROVE NumberIn(r, x) = NumberIn(t, x)
  <2>1. CASE \E j \in LiveOf(t) : t.ents[j].key = x
    <3>1. PICK j \in LiveOf(t) : t.ents[j].key = x
      BY <2>1
    <3>2. j \in LiveOf(r) /\ r.ents[j].key = x
      BY <1>3, <1>5, <3>1 DEF LiveOf
    <3> QED BY <3>1, <3>2, NumberIs
  <2>2. CASE ~ \E j \in LiveOf(t) : t.ents[j].key = x
    <3>1. \A j \in LiveOf(r) : r.ents[j].key # x
      BY <1>2, <1>3, <1>5, <1>8, <2>2 DEF LiveOf
    <3>2. NumberIn(t, x) = -1
      BY <2>2, NumberNone
    <3>3. NumberIn(r, x) = -1
      BY <3>1, NumberNone
    <3> QED BY <3>2, <3>3
  <2> QED BY <2>1, <2>2
<1>9. NumbersIn(t)[k] = -1
  BY <1>6 DEF NumbersIn
<1>10. OwnersIn(t)[n] = NoKey
  BY <1>1 DEF OwnersIn
<1>11. NumbersIn(r) = [NumbersIn(t) EXCEPT ![k] = n]
  <2>1. NumbersIn(r) = [x \in Keys |-> NumberIn(r, x)] /\ NumbersIn(t) = [x \in Keys |-> NumberIn(t, x)]
    BY DEF NumbersIn
  <2> HIDE DEF n
  <2> QED BY <1>7, <1>8, <2>1
<1>12. OwnersIn(r) = [OwnersIn(t) EXCEPT ![n] = k]
  <2>1. OwnersIn(r) = [x \in Numbers |-> IF x \in 0..n THEN r.ents[x].key ELSE NoKey]
    BY <1>1 DEF OwnersIn
  <2>2. OwnersIn(t) = [x \in Numbers |-> IF x \in 0..n-1 THEN t.ents[x].key ELSE NoKey]
    BY DEF OwnersIn
  <2>3. 0..n = (0..n-1) \cup {n} /\ n \in Numbers
    BY <1>1
  <2> HIDE DEF n
  <2> QED BY <1>2, <1>3, <2>1, <2>2, <2>3
<1> QED BY <1>9, <1>10, <1>11, <1>12

LEMMA EmptyRegistry ==
  ASSUME NEW t, t.cnt = 0
  PROVE  NumbersIn(t) = [k \in Keys |-> -1] /\ OwnersIn(t) = [n \in Numbers |-> NoKey]
<1>1. 0..t.cnt-1 = {}
  OBVIOUS
<1>2. LiveOf(t) = {}
  BY <1>1 DEF LiveOf
<1>3. \A k : NumberIn(t, k) = -1
  BY <1>2, NumberNone
<1> QED BY <1>1, <1>3 DEF NumbersIn, OwnersIn

(***************************************************************************)
(* Every entry of a table has a number of the registry.                    *)
(***************************************************************************)
LEMMA NumbersOfTable ==
  ASSUME TableInv, phase = "ready"
  PROVE  0..kit.cap-1 \subseteq Numbers
<1>1. PICK n \in InitCaps : kit.cap = RoundUp(n)
  BY TableFacts
<1> QED BY <1>1 DEF Numbers

-----------------------------------------------------------------------------
(***************************************************************************)
(* What each call does to the registry.                                    *)
(***************************************************************************)
LEMMA RegistryIs ==
  /\ [k \in Keys |-> NumberOf(k)] = NumbersIn(kit)
  /\ [n \in Numbers |-> IF n \in Entries THEN kit.ents[n].key ELSE NoKey] = OwnersIn(kit)
  /\ [k \in Keys |-> NumberOf(k)]' = NumbersIn(kit')
  /\ [n \in Numbers |-> IF n \in Entries THEN kit.ents[n].key ELSE NoKey]' = OwnersIn(kit')
<1>1. Live = LiveOf(kit) /\ Entries = 0..kit.cnt-1
  BY DEF Live, LiveOf, Entries
<1>2. Live' = LiveOf(kit') /\ Entries' = 0..kit'.cnt-1
  BY DEF Live, LiveOf, Entries
<1>3. [k \in Keys |-> NumberOf(k)] = NumbersIn(kit)
  BY <1>1 DEF NumberOf, NumbersIn, NumberIn
<1>4. [k \in Keys |-> NumberOf(k)]' = NumbersIn(kit')
  BY <1>2 DEF NumberOf, NumbersIn, NumberIn
<1>5. [n \in Numbers |-> IF n \in Entries THEN kit.ents[n].key ELSE NoKey] = OwnersIn(kit)
  BY <1>1 DEF OwnersIn
<1>6. [n \in Numbers |-> IF n \in Entries THEN kit.ents[n].key ELSE NoKey]' = OwnersIn(kit')
  BY <1>2 DEF OwnersIn
<1> QED BY <1>3, <1>4, <1>5, <1>6

RegistryRefuses ==
  ret' = -1 /\ NumbersIn(kit') = NumbersIn(kit) /\ OwnersIn(kit') = OwnersIn(kit)

RegistryResets ==
  /\ NumbersIn(kit') = [k \in Keys |-> -1] /\ OwnersIn(kit') = [n \in Numbers |-> NoKey]
  /\ ret' \in {-1, 0}

RegistryInserts(k, n) ==
  /\ IF NumbersIn(kit)[k] = -1 THEN OwnersIn(kit)[n] \in {NoKey, k} ELSE n = NumbersIn(kit)[k]
  /\ NumbersIn(kit') = [NumbersIn(kit) EXCEPT ![k] = n]
  /\ OwnersIn(kit') = [OwnersIn(kit) EXCEPT ![n] = k] /\ ret' = n

RegistryRemoves(k) ==
  /\ NumbersIn(kit') = [NumbersIn(kit) EXCEPT ![k] = -1] /\ OwnersIn(kit') = OwnersIn(kit)
  /\ ret' \in Numbers /\ OwnersIn(kit)[ret'] = k

LEMMA InstanceRefuses == RegistryRefuses <=> Registry!Refuse
BY RegistryIs DEF RegistryRefuses, Registry!Refuse, Registry!None

LEMMA InstanceResets == RegistryResets <=> Registry!Reset
BY RegistryIs DEF RegistryResets, Registry!Reset, Registry!None

LEMMA InstanceInserts ==
  ASSUME NEW k, NEW n
  PROVE  RegistryInserts(k, n) <=> Registry!Insert(k, n)
BY RegistryIs DEF RegistryInserts, Registry!Insert, Registry!None

LEMMA InstanceRemoves ==
  ASSUME NEW k
  PROVE  RegistryRemoves(k) <=> Registry!Remove(k)
BY RegistryIs DEF RegistryRemoves, Registry!Remove, Registry!None

LEMMA EmptiedRegistry ==
  ASSUME Indexed(kit'), kit'.cnt = 0, ret' \in {-1, 0}
  PROVE  RegistryResets
BY EmptyRegistry DEF RegistryResets

LEMMA InitTableResets ==
  ASSUME TableInv, NEW n \in InitCaps, InitTable(n)
  PROVE  RegistryResets
<1>1. RoundUp(n) \in Nat
  BY RoundUpType, ClientAssumption
<1>2. \/ kit' = NewKeyIndex(RoundUp(n)) /\ ret' = 0
      \/ kit' = NoTable /\ ret' = -1
  <2> DEFINE ents == ArenaAlloc(mem, RoundUp(n) * SizeofEntry, ALLOC_ALIGN)
             idx == ArenaAlloc(ents.mem, RoundUp(n) * SizeofSlot, ALLOC_ALIGN)
  <2>1. CASE ents.off # NULL_OFF /\ idx.off # NULL_OFF
    BY <2>1 DEF InitTable, Returns
  <2>2. CASE ~(ents.off # NULL_OFF /\ idx.off # NULL_OFF)
    <3>1. Fails(ArenaSetCur(idx.mem, mem.cur), "none", NoTable, koff)
      BY <2>2 DEF InitTable
    <3> QED BY <3>1 DEF Fails, Returns
  <2> QED BY <2>1, <2>2
<1>3. Indexed(kit') /\ kit'.cnt = 0
  BY <1>1, <1>2, NewIndexed, NoTableIndexed
<1> QED BY <1>2, <1>3, EmptiedRegistry

LEMMA EndResets ==
  ASSUME TableInv, Deinit \/ Restart
  PROVE  RegistryResets
<1>1. kit' = NoTable /\ ret' = -1
  BY TableFacts DEF Deinit, Restart, Returns
<1> QED BY <1>1, NoTableIndexed, EmptiedRegistry

LEMMA LookupAnswers ==
  ASSUME TableInv, NEW k \in Keys, LookupKey(k)
  PROVE  Registry!Lookup(k)
<1>1. kit' = kit /\ ret' = NumberIn(kit, k)
  BY TableFacts, FindLiveNumber DEF LookupKey, Returns
<1>2. NumberIn(kit, k) = NumbersIn(kit)[k]
  BY DEF NumbersIn
<1> QED BY <1>1, <1>2, RegistryIs DEF Registry!Lookup

LEMMA RemoveRemoves ==
  ASSUME TableInv, NEW k \in Keys, Remove(k)
  PROVE  RegistryRemoves(k) \/ (NumberOf(k) = -1 /\ RegistryRefuses)
<1>1. /\ phase = "ready" /\ kit' = Removed(kit, k)
      /\ ret' = IF Find(kit, k) < 0 THEN -1 ELSE Find(kit, k)
  BY DEF Remove, Returns
<1>2. /\ Indexed(kit) /\ Counted(kit) /\ kit.cnt \in 0..kit.cap /\ kit.cap \in Nat
  BY TableFacts
<1>3. CASE Find(kit, k) < 0
  <2>1. kit' = kit /\ ret' = -1
    BY <1>1, <1>3 DEF Removed
  <2>2. FindLive(kit, k) < 0
    <3>1. KEY_NOT_FOUND < 0
      BY DEF KEY_NOT_FOUND
    <3> QED BY <1>3, <3>1 DEF FindLive
  <2>3. NumberIn(kit, k) = -1
    BY <1>2, <2>2, FindLiveNumber
  <2>4. NumberOf(k) = NumbersIn(kit)[k]
    <3>1. [x \in Keys |-> NumberOf(x)][k] = NumbersIn(kit)[k]
      BY RegistryIs
    <3> QED BY <3>1
  <2>5. NumberOf(k) = -1
    BY <2>3, <2>4 DEF NumbersIn
  <2> QED BY <2>1, <2>5 DEF RegistryRefuses
<1>4. CASE ~(Find(kit, k) < 0)
  <2> DEFINE n == Find(kit, k)
  <2>1. /\ n \in 0..kit.cnt-1 /\ kit.ents[n].key = k /\ Names(kit.idx, n)
        /\ ret' = n
    BY <1>1, <1>2, <1>4, FindFound
  <2>2. Indexed(kit') /\ Restated(kit, kit', n, "DELETED")
    BY <1>1, <1>2, <1>4, RemovedIndexed
  <2> HIDE DEF n
  <2>3. /\ NumbersIn(kit') = [NumbersIn(kit) EXCEPT ![k] = -1]
        /\ OwnersIn(kit') = OwnersIn(kit)
    BY <1>2, <2>1, <2>2, RestatedRegistry
  <2>4. n \in Numbers
    BY <1>1, <1>2, <2>1, NumbersOfTable
  <2>5. OwnersIn(kit)[n] = k
    BY <2>1, <2>4 DEF OwnersIn
  <2> QED BY <2>1, <2>3, <2>4, <2>5 DEF RegistryRemoves
<1> QED BY <1>3, <1>4

LEMMA KnownInserts ==
  ASSUME TableInv, NEW k \in Keys, InsertKnown(k)
  PROVE  \E n \in Numbers : RegistryInserts(k, n)
<1> DEFINE t == Prepared(kit)
           n == Find(t, k)
<1>1. phase = "ready" /\ n >= 0 /\ kit' = Revived(t, n) /\ ret' = n
  BY DEF InsertKnown, Returns
<1>2. /\ Indexed(t) /\ Counted(t) /\ t.cap = kit.cap /\ t.cnt = kit.cnt /\ t.ents = kit.ents
      /\ kit.cap \in Nat /\ kit.cnt \in 0..kit.cap
  BY PreparedFacts, TableFacts
<1> HIDE DEF t
<1>3. n \in 0..t.cnt-1 /\ Names(t.idx, n) /\ t.ents[n].key = k
  <2>1. ~(Find(t, k) < 0)
    <3>1. Find(t, k) \in Int
      BY <1>2, FindType
    <3> QED BY <1>1, <3>1
  <2> QED BY <2>1, <1>2, FindFound
<1>4. NumberIn(t, k) = -1 \/ NumberIn(t, k) = n
  <2>1. CASE NumberIn(t, k) \in LiveOf(t) /\ t.ents[NumberIn(t, k)].key = k
    <3>1. Names(t.idx, NumberIn(t, k))
      BY <1>2, <2>1 DEF LiveOf, Indexed
    <3> QED BY <1>2, <2>1, <3>1, FindNamed
  <2> QED BY <2>1, <1>2, NumberCases
<1> HIDE DEF n
<1>5. Indexed(kit') /\ Restated(t, kit', n, "INUSE")
  BY <1>1, <1>2, <1>3, RevivedIndexed
<1>6. /\ NumbersIn(kit') = [NumbersIn(t) EXCEPT ![k] = n]
      /\ OwnersIn(kit') = OwnersIn(t)
  BY <1>2, <1>3, <1>5, RestatedRegistry
<1>7. NumbersIn(t) = NumbersIn(kit) /\ OwnersIn(t) = OwnersIn(kit)
  BY <1>2, SameRegistry
<1>8. n \in Numbers /\ OwnersIn(kit)[n] = k
  <2>1. n \in Numbers
    BY <1>1, <1>2, <1>3, NumbersOfTable
  <2>2. n \in 0..kit.cnt-1 /\ kit.ents[n].key = k
    BY <1>2, <1>3
  <2> QED BY <2>1, <2>2 DEF OwnersIn
<1>9. NumbersIn(kit)[k] = -1 \/ NumbersIn(kit)[k] = n
  BY <1>4, <1>7 DEF NumbersIn
<1>10. OwnersIn(kit') = [OwnersIn(kit) EXCEPT ![n] = k]
  <2>1. OwnersIn(kit) = [x \in Numbers |-> OwnersIn(kit)[x]]
    BY DEF OwnersIn
  <2> QED BY <1>6, <1>7, <1>8, <2>1
<1>11. RegistryInserts(k, n)
  BY <1>1, <1>6, <1>7, <1>8, <1>9, <1>10 DEF RegistryInserts
<1> QED BY <1>8, <1>11

LEMMA NewInserts ==
  ASSUME TableInv, NEW k \in Keys, InsertNew(k), TableInv'
  PROVE  RegistryRefuses \/ RegistryResets \/ \E n \in Numbers : RegistryInserts(k, n)
<1> DEFINE t == Prepared(kit)
           str == ArenaAlloc(mem, KLen[k] + 1, ALLOC_ALIGN)
           c == kit.cnt
<1>1. /\ phase = "ready" /\ ~Full(kit) /\ Find(t, k) < 0
      /\ str.off = NULL_OFF => Fails(str.mem, "ready", t, koff)
      /\ str.off # NULL_OFF => kit' = Appended(t, k) /\ ret' = t.cnt
  BY DEF InsertNew, Returns
<1>2. /\ Indexed(t) /\ Counted(t) /\ t.cap = kit.cap /\ t.cnt = c /\ t.ents = kit.ents
      /\ kit.cap \in Nat /\ c \in 0..kit.cap /\ c \in Nat /\ Indexed(kit) /\ Indexed(kit')
  BY PreparedFacts, TableFacts DEF TableInv
<1> HIDE DEF t
<1>3. NumbersIn(t) = NumbersIn(kit) /\ OwnersIn(t) = OwnersIn(kit)
  BY <1>2, SameRegistry
<1>4. CASE str.off = NULL_OFF
  <2>1. kit' = (IF ndebug THEN t ELSE NoTable) /\ ret' = -1
    BY <1>1, <1>4 DEF Fails, Returns
  <2>2. CASE ndebug
    BY <1>3, <2>1, <2>2 DEF RegistryRefuses
  <2>3. CASE ~ndebug
    BY <1>2, <2>1, <2>3, NoTableIndexed, EmptiedRegistry
  <2> QED BY <2>2, <2>3
<1>5. CASE str.off # NULL_OFF
  <2>1. kit' = Appended(t, k) /\ ret' = c
    BY <1>1, <1>2, <1>5
  <2>2. c \in 0..kit.cap-1
    BY <1>1, <1>2, RoomLeft
  <2>3. c \in Numbers
    BY <1>1, <2>2, NumbersOfTable
  <2>4. OneMore(t, kit', k)
    BY <1>1, <1>2, <2>1, <2>2, AppendedIndexed DEF OneMore
  <2>5. /\ NumbersIn(t)[k] = -1 /\ OwnersIn(t)[t.cnt] = NoKey
        /\ NumbersIn(kit') = [NumbersIn(t) EXCEPT ![k] = t.cnt]
        /\ OwnersIn(kit') = [OwnersIn(t) EXCEPT ![t.cnt] = k]
    <3>1. t.cnt \in 0..t.cap-1
      BY <1>2, <2>2
    <3>2. t.cnt \in Numbers
      BY <1>2, <2>3
    <3>3. Indexed(t) /\ Indexed(kit') /\ Find(t, k) < 0
      BY <1>1, <1>2
    <3> QED BY <3>1, <3>2, <3>3, <2>4, AppendedRegistry
  <2>6. RegistryInserts(k, c)
    BY <1>2, <1>3, <2>1, <2>5 DEF RegistryInserts
  <2> QED BY <2>3, <2>6
<1> QED BY <1>4, <1>5

(***************************************************************************)
(* An insertion gives the key the number it has, or the next one, or is    *)
(* refused, or ends the process.                                           *)
(***************************************************************************)
LEMMA InsertInserts ==
  ASSUME TableInv, StringInv, NEW k \in Keys, Insert(k)
  PROVE  Registry!Refuse \/ Registry!Reset \/ \E n \in Numbers : Registry!Insert(k, n)
<1>1. CASE InsertRefused(k)
  <2>1. kit' = kit /\ ret' = -1
    BY <1>1 DEF InsertRefused, Returns
  <2> QED BY <2>1, InstanceRefuses DEF RegistryRefuses
<1>2. CASE InsertKnown(k)
  BY <1>2, KnownInserts, InstanceInserts
<1>3. CASE InsertNew(k)
  <2>1. TableInv'
    BY <1>3, InsertNewStep
  <2> QED BY <1>3, <2>1, NewInserts, InstanceRefuses, InstanceResets, InstanceInserts
<1> QED BY <1>1, <1>2, <1>3 DEF Insert

LEMMA CallsMeanThen ==
  ASSUME TableInv, StringInv
  PROVE  CallsMean
<1>1. ASSUME NEW k \in Keys, LookupKey(k) PROVE Registry!Lookup(k)
  BY <1>1, LookupAnswers
<1>2. ASSUME NEW k \in Keys, Insert(k)
      PROVE  Registry!Refuse \/ Registry!Reset \/ \E n \in Numbers : Registry!Insert(k, n)
  BY <1>2, InsertInserts
<1>3. ASSUME NEW k \in Keys, Remove(k)
      PROVE  Registry!Remove(k) \/ (NumberOf(k) = -1 /\ Registry!Refuse)
  BY <1>3, RemoveRemoves, InstanceRemoves, InstanceRefuses
<1> QED BY <1>1, <1>2, <1>3 DEF CallsMean

LEMMA RegistryStep ==
  ASSUME TableInv, StringInv, [Next]_vars
  PROVE  [Registry!Next]_Registry!vars
<1>1. ASSUME NEW n \in InitCaps, InitTable(n) PROVE Registry!Next
  BY <1>1, InitTableResets, InstanceResets DEF Registry!Next
<1>2. CASE Deinit \/ Restart
  BY <1>2, EndResets, InstanceResets DEF Registry!Next
<1>3. ASSUME NEW k \in Keys, Insert(k) \/ Remove(k) \/ LookupKey(k) PROVE Registry!Next
  <2>1. \/ Registry!Refuse \/ Registry!Reset \/ Registry!Lookup(k) \/ Registry!Remove(k)
        \/ \E n \in Numbers : Registry!Insert(k, n)
    BY <1>3, CallsMeanThen DEF CallsMean
  <2> QED BY <2>1 DEF Registry!Next
<1>4. CASE UNCHANGED vars
  <2>1. kit' = kit /\ ret' = ret
    BY <1>4 DEF vars
  <2>2. /\ [k \in Keys |-> NumberOf(k)]' = [k \in Keys |-> NumberOf(k)]
        /\ [n \in Numbers |-> IF n \in Entries THEN kit.ents[n].key ELSE NoKey]'
             = [n \in Numbers |-> IF n \in Entries THEN kit.ents[n].key ELSE NoKey]
    BY <2>1, RegistryIs
  <2> QED BY <2>1, <2>2 DEF Registry!vars
<1>5. CASE Calls
  BY <1>1, <1>2, <1>3, <1>5 DEF Calls
<1> QED BY <1>4, <1>5 DEF Next

LEMMA RegistryInit == Init => Registry!Init
<1> SUFFICES ASSUME Init PROVE Registry!Init
  OBVIOUS
<1>1. kit = NoTable /\ ret = -1
  BY DEF Init
<1>2. NumbersIn(kit) = [k \in Keys |-> -1] /\ OwnersIn(kit) = [n \in Numbers |-> NoKey]
  BY <1>1, NoTableIndexed, EmptyRegistry
<1> QED BY <1>1, <1>2, RegistryIs DEF Registry!Init, Registry!None

(***************************************************************************)
(* The table implements the registry: a number, once a key's, is never     *)
(* another's, and each call is the operation it is named for, whatever a   *)
(* rebuild forgot (kidxtbl_priv.h 115-206).                                *)
(***************************************************************************)
THEOREM RegistryRefined == Spec => RefinesRegistry
<1>1. TableInv /\ StringInv /\ [Next]_vars => [Registry!Next]_Registry!vars
  BY RegistryStep
<1>2. TableInv /\ StringInv => [CallsMean]_vars
  BY CallsMeanThen
<1>3. Spec => Registry!Init /\ [][Registry!Next]_Registry!vars
  BY RegistryInit, KInvHolds, <1>1, PTL DEF Spec
<1>4. Spec => [][CallsMean]_vars
  BY KInvHolds, <1>2, PTL
<1> QED BY <1>3, <1>4, PTL DEF RefinesRegistry, Registry!Spec

-----------------------------------------------------------------------------
(***************************************************************************)
(* The program kitt.c is a client of the table, so all of this is true of  *)
(* it, too.  As long as there was memory for every key and every value,    *)
(* each entry lives and its number is its value's index: keys and values   *)
(* are appended in step until the table is full, and then it stays full.   *)
(***************************************************************************)
KittInv ==
  client = "kitt" /\ phase = "ready" /\ ~short =>
    /\ put \subseteq Keys /\ vec \in Seq(Keys)
    /\ \A j \in Entries : /\ kit.ents[j].stat = "INUSE" /\ kit.ents[j].key \in put
                          /\ j < Len(vec) /\ vec[j+1] = kit.ents[j].key
    /\ kit.cnt = Len(vec) \/ Full(kit)

LEMMA KittStepIsStep == [KNext]_kittVars => [Next]_vars
<1> SUFFICES ASSUME [KNext]_kittVars PROVE [Next]_vars
  OBVIOUS
<1>1. CASE UNCHANGED kittVars
  BY <1>1 DEF kittVars
<1>2. CASE KNext
  <2>1. ASSUME NEW n \in InitCaps, KStart(n) PROVE Calls
    BY <2>1 DEF KStart, Calls
  <2>2. ASSUME NEW k \in Keys, PutKv(k) \/ PrintPair(k) PROVE Calls
    BY <2>2 DEF PutKv, PrintPair, Calls
  <2>3. ASSUME KEnd PROVE Calls
    <3>1. Deinit \/ Restart
      BY <2>3 DEF KEnd
    <3> QED BY <3>1 DEF Calls
  <2>4. KittCalls => Calls
    BY <2>1, <2>2, <2>3 DEF KittCalls
  <2> QED BY <1>2, <2>4 DEF KNext, Next
<1> QED BY <1>1, <1>2

(***************************************************************************)
(* kitt.c calls the table as any client may.                               *)
(***************************************************************************)
THEOREM KittIsClient == KSpec => Spec
<1>1. KInit => Init
  BY DEF KInit
<1> QED BY <1>1, KittStepIsStep, PTL DEF KSpec, Spec

LEMMA PutKeepsStep ==
  ASSUME TableInv, StringInv, KittInv, client = "kitt", client' = client,
         NEW k \in Keys, PutKv(k)
  PROVE  KittInv'
<1> SUFFICES ASSUME phase' = "ready", ~short'
             PROVE  /\ put' \subseteq Keys /\ vec' \in Seq(Keys)
                    /\ \A j \in Entries' :
                         /\ kit'.ents[j].stat = "INUSE" /\ kit'.ents[j].key \in put'
                         /\ j < Len(vec') /\ vec'[j+1] = kit'.ents[j].key
                    /\ kit'.cnt = Len(vec') \/ Full(kit')
  BY DEF KittInv, Full
<1>1. /\ k \notin put /\ Insert(k) /\ vec' = Append(vec, k) /\ put' = put \cup {k}
      /\ ~short /\ (Full(kit) \/ ~(ret' < 0))
  <2>1. Pushed(k) => vec' = Append(vec, k) /\ short' = (short \/ (~Full(kit) /\ ret' < 0))
    BY DEF Pushed
  <2> QED BY <2>1 DEF PutKv, Pushed
<1>2. phase = "ready"
  BY <1>1 DEF Insert, InsertRefused, InsertKnown, InsertNew
<1>3. /\ put \subseteq Keys /\ vec \in Seq(Keys)
      /\ \A j \in 0..kit.cnt-1 : /\ kit.ents[j].stat = "INUSE" /\ kit.ents[j].key \in put
                                 /\ j < Len(vec) /\ vec[j+1] = kit.ents[j].key
      /\ kit.cnt = Len(vec) \/ Full(kit)
  BY <1>1, <1>2 DEF KittInv, Entries
<1>4. /\ put' \subseteq Keys /\ vec' \in Seq(Keys) /\ Len(vec') = Len(vec) + 1 /\ Len(vec) \in Nat
      /\ vec'[Len(vec) + 1] = k
      /\ \A i \in 1..Len(vec) : vec'[i] = vec[i]
  BY <1>1, <1>3
<1>5. /\ Indexed(kit) /\ kit.cnt \in Nat /\ kit.cap \in Nat /\ kit.cnt \in 0..kit.cap
      /\ kit.ents \in [0..kit.cap-1 -> KeyEntry]
  BY TableFacts, IndexedTypes
<1>6. CASE InsertRefused(k)
  <2>1. kit' = kit /\ Full(kit)
    BY <1>6 DEF InsertRefused
  <2>2. ASSUME NEW j \in 0..kit.cnt-1
        PROVE  /\ kit.ents[j].stat = "INUSE" /\ kit.ents[j].key \in put'
               /\ j < Len(vec') /\ vec'[j+1] = kit.ents[j].key
    <3>1. j \in Nat /\ j < Len(vec) /\ j + 1 \in 1..Len(vec)
      BY <1>3, <1>4, <1>5
    <3> QED BY <3>1, <1>1, <1>3, <1>4
  <2> QED BY <1>4, <2>1, <2>2 DEF Entries
<1>7. CASE InsertKnown(k)
  <2> DEFINE t == Prepared(kit)
  <2>1. Find(t, k) >= 0
    BY <1>7 DEF InsertKnown
  <2>2. Indexed(t) /\ t.cnt = kit.cnt /\ t.ents = kit.ents
    BY PreparedFacts
  <2> HIDE DEF t
  <2>3. ~(Find(t, k) < 0)
    <3>1. Find(t, k) \in Int
      BY <2>2, FindType
    <3> QED BY <2>1, <3>1
  <2>4. Find(t, k) \in 0..kit.cnt-1 /\ kit.ents[Find(t, k)].key = k
    BY <2>2, <2>3, FindFound
  <2> QED BY <1>1, <1>3, <2>4
<1>8. CASE InsertNew(k)
  <2> DEFINE t == Prepared(kit)
             c == kit.cnt
  <2>1. ~Full(kit) /\ c = Len(vec) /\ ~(ret' < 0) /\ Find(t, k) < 0
    BY <1>1, <1>3, <1>8 DEF InsertNew
  <2>2. kit' = Appended(t, k)
    <3>1. CASE ArenaAlloc(mem, KLen[k] + 1, ALLOC_ALIGN).off = NULL_OFF
      <4>1. ret' = -1
        BY <1>8, <3>1 DEF InsertNew, Fails, Returns
      <4> QED BY <2>1, <4>1
    <3>2. CASE ArenaAlloc(mem, KLen[k] + 1, ALLOC_ALIGN).off # NULL_OFF
      BY <1>8, <3>2 DEF InsertNew
    <3> QED BY <3>1, <3>2
  <2>3. /\ Indexed(t) /\ Counted(t) /\ t.cap = kit.cap /\ t.cnt = c /\ t.ents = kit.ents
    BY PreparedFacts
  <2> HIDE DEF t
  <2>4. c \in 0..kit.cap-1
    BY <2>1, <1>5, RoomLeft
  <2>5. kit'.cnt = c + 1 /\ kit'.ents = [kit.ents EXCEPT ![c] = NewEntry(k)]
    <3>1. t.cnt \in 0..t.cap-1
      BY <2>3, <2>4
    <3>2. Indexed(t) /\ Counted(t) /\ Find(t, k) < 0
      BY <2>1, <2>3
    <3>3. /\ Appended(t, k).cnt = t.cnt + 1
          /\ Appended(t, k).ents = [t.ents EXCEPT ![t.cnt] = NewEntry(k)]
      BY <3>1, <3>2, AppendedIndexed
    <3> QED BY <2>2, <2>3, <3>3
  <2>6. kit'.ents[c].stat = "INUSE" /\ kit'.ents[c].key = k
    BY <1>5, <2>4, <2>5 DEF NewEntry
  <2>7. ASSUME NEW j \in 0..c
        PROVE  /\ kit'.ents[j].stat = "INUSE" /\ kit'.ents[j].key \in put'
               /\ j < Len(vec') /\ vec'[j+1] = kit'.ents[j].key
    <3>1. CASE j = c
      BY <3>1, <2>1, <2>6, <1>1, <1>4
    <3>2. CASE j # c
      <4>1. j \in 0..c-1 /\ j \in Nat /\ j < Len(vec) /\ j + 1 \in 1..Len(vec)
        BY <3>2, <1>5, <2>1
      <4>2. kit'.ents[j] = kit.ents[j]
        BY <1>5, <2>4, <2>5, <3>2, <4>1
      <4> QED BY <4>1, <4>2, <1>1, <1>3, <1>4
    <3> QED BY <3>1, <3>2
  <2>8. kit'.cnt = Len(vec') /\ Entries' = 0..c
    BY <1>4, <1>5, <2>1, <2>5 DEF Entries
  <2> QED BY <1>4, <2>7, <2>8
<1> QED BY <1>1, <1>6, <1>7, <1>8 DEF Insert

LEMMA KittInvStep ==
  ASSUME TableInv, StringInv, KittInv, [KNext]_kittVars
  PROVE  KittInv'
<1>1. CASE client # "kitt"
  <2>1. client' = client
    BY DEF KNext, kittVars
  <2> QED BY <1>1, <2>1 DEF KittInv
<1>2. CASE UNCHANGED kittVars
  <2>1. /\ kit' = kit /\ phase' = phase /\ client' = client /\ vec' = vec /\ put' = put
        /\ short' = short
    BY <1>2 DEF kittVars, vars
  <2> QED BY <2>1 DEF KittInv, Entries, Full
<1>3. CASE KNext /\ client = "kitt"
  <2>1. client' = client /\ KittCalls
    BY <1>3 DEF KNext
  <2>2. ASSUME NEW n \in InitCaps, KStart(n) PROVE KittInv'
    <3>1. vec' = <<>> /\ put' = {} /\ InitTable(n)
      BY <2>2 DEF KStart
    <3>2. RoundUp(n) \in Nat
      BY RoundUpType, ClientAssumption
    <3>3. phase' = "ready" => kit' = NewKeyIndex(RoundUp(n))
      <4> DEFINE ents == ArenaAlloc(mem, RoundUp(n) * SizeofEntry, ALLOC_ALIGN)
                 idx == ArenaAlloc(ents.mem, RoundUp(n) * SizeofSlot, ALLOC_ALIGN)
      <4>1. CASE ents.off # NULL_OFF /\ idx.off # NULL_OFF
        BY <3>1, <4>1 DEF InitTable
      <4>2. CASE ~(ents.off # NULL_OFF /\ idx.off # NULL_OFF)
        <5>1. Fails(ArenaSetCur(idx.mem, mem.cur), "none", NoTable, koff)
          BY <3>1, <4>2 DEF InitTable
        <5> QED BY <5>1 DEF Fails
      <4> QED BY <4>1, <4>2
    <3>4. phase' = "ready" => kit'.cnt = 0
      BY <3>2, <3>3, NewIndexed
    <3>5. phase' = "ready" => Entries' = {} /\ kit'.cnt = Len(vec')
      BY <3>1, <3>4 DEF Entries
    <3>6. vec' \in Seq(Keys) /\ put' \subseteq Keys
      BY <3>1
    <3> QED BY <3>5, <3>6 DEF KittInv
  <2>3. ASSUME NEW k \in Keys, PutKv(k) PROVE KittInv'
    BY <1>3, <2>1, <2>3, PutKeepsStep
  <2>4. ASSUME NEW k \in Keys, PrintPair(k) PROVE KittInv'
    <3>1. /\ kit' = kit /\ phase' = phase /\ vec' = vec /\ put' = put /\ short' = short
      BY <2>4 DEF PrintPair, LookupKey
    <3> QED BY <2>1, <3>1 DEF KittInv, Entries, Full
  <2>5. CASE KEnd
    <3>1. phase' = "none"
      BY <2>5 DEF KEnd, Deinit, Restart
    <3> QED BY <3>1 DEF KittInv
  <2> QED BY <2>1, <2>2, <2>3, <2>4, <2>5 DEF KittCalls
<1> QED BY <1>1, <1>2, <1>3

(***************************************************************************)
(* The value kitt.c prints for a key is the one put with it, as long as    *)
(* the arena had room for every key before it (kitt.c 23-33).              *)
(***************************************************************************)
THEOREM PrintsWhatWasPut == KSpec => []PrintsItsOwnValue
<1>1. KInit => KittInv
  BY DEF KInit, Init, NoClient, KittInv
<1>2. TableInv /\ StringInv /\ KittInv /\ [KNext]_kittVars => KittInv'
  BY KittInvStep
<1>3. TableInv /\ KittInv => PrintsItsOwnValue
  <2> SUFFICES ASSUME TableInv, KittInv, NEW k \in Keys,
                      client = "kitt", phase = "ready", ~short, FindLive(kit, k) >= 0
               PROVE  FindLive(kit, k) < Len(vec) /\ vec[FindLive(kit, k) + 1] = k
    BY DEF PrintsItsOwnValue
  <2>1. ~(Find(kit, k) < 0) /\ FindLive(kit, k) = Find(kit, k)
    <3>1. ~(KEY_NOT_FOUND >= 0)
      BY DEF KEY_NOT_FOUND
    <3> QED BY <3>1 DEF FindLive
  <2>2. Find(kit, k) \in Entries /\ kit.ents[Find(kit, k)].key = k
    BY <2>1, TableFacts, FindFound DEF Entries
  <2> QED BY <2>1, <2>2 DEF KittInv
<1>4. KSpec => [](TableInv /\ StringInv)
  BY KittIsClient, KInvHolds, PTL
<1> QED BY <1>1, <1>2, <1>3, <1>4, PTL DEF KSpec

-----------------------------------------------------------------------------
(***************************************************************************)
(* The static table.  Its five arrays are asked for one after the other;   *)
(* the arena after n of them is the last of a sequence of arenas.          *)
(***************************************************************************)
ArrayStep(cap, n, r) ==
  LET a == ArenaAlloc(r.mem, Arrays(cap)[n], ALLOC_ALIGN) IN
    [mem |-> a.mem, ok |-> r.ok /\ a.off # NULL_OFF]

ArrayBody(m, cap, g) ==
  [n \in 0..5 |-> IF n = 0 THEN [mem |-> m, ok |-> TRUE] ELSE ArrayStep(cap, n, g[n-1])]

LEMMA ArraysExist ==
  ASSUME NEW m, NEW cap
  PROVE  \E g : g = ArrayBody(m, cap, g)
<1> DEFINE r0 == [mem |-> m, ok |-> TRUE]
           r1 == ArrayStep(cap, 1, r0)
           r2 == ArrayStep(cap, 2, r1)
           r3 == ArrayStep(cap, 3, r2)
           r4 == ArrayStep(cap, 4, r3)
           r5 == ArrayStep(cap, 5, r4)
           g == [n \in 0..5 |-> IF n = 0 THEN r0 ELSE IF n = 1 THEN r1 ELSE IF n = 2 THEN r2
                                ELSE IF n = 3 THEN r3 ELSE IF n = 4 THEN r4 ELSE r5]
<1>1. /\ g[0] = r0 /\ g[1] = r1 /\ g[2] = r2 /\ g[3] = r3 /\ g[4] = r4 /\ g[5] = r5
      /\ g = [n \in 0..5 |-> g[n]]
  <2> HIDE DEF r0, r1, r2, r3, r4, r5
  <2> QED OBVIOUS
<1>2. /\ r1 = ArrayStep(cap, 1, r0) /\ r2 = ArrayStep(cap, 2, r1) /\ r3 = ArrayStep(cap, 3, r2)
      /\ r4 = ArrayStep(cap, 4, r3) /\ r5 = ArrayStep(cap, 5, r4) /\ r0 = [mem |-> m, ok |-> TRUE]
  OBVIOUS
<1> HIDE DEF r0, r1, r2, r3, r4, r5, g
<1>3. ASSUME NEW n \in 0..5
      PROVE  g[n] = IF n = 0 THEN [mem |-> m, ok |-> TRUE] ELSE ArrayStep(cap, n, g[n-1])
  <2>1. n \in {0, 1, 2, 3, 4, 5}
    OBVIOUS
  <2>2. 1-1 = 0 /\ 2-1 = 1 /\ 3-1 = 2 /\ 4-1 = 3 /\ 5-1 = 4
    OBVIOUS
  <2>3. CASE n = 0
    BY <2>3, <1>1, <1>2
  <2>4. CASE n = 1
    BY <2>2, <2>4, <1>1, <1>2
  <2>5. CASE n = 2
    BY <2>2, <2>5, <1>1, <1>2
  <2>6. CASE n = 3
    BY <2>2, <2>6, <1>1, <1>2
  <2>7. CASE n = 4
    BY <2>2, <2>7, <1>1, <1>2
  <2>8. CASE n = 5
    BY <2>2, <2>8, <1>1, <1>2
  <2> QED BY <2>1, <2>3, <2>4, <2>5, <2>6, <2>7, <2>8
<1>4. g = ArrayBody(m, cap, g)
  BY <1>1, <1>3 DEF ArrayBody
<1> QED BY <1>4

(***************************************************************************)
(* Whatever fails, the cursor is at or behind where it was and inside.     *)
(***************************************************************************)
Grown(m, r) == r \in Arena /\ r.size = m.size /\ m.cur <= r.cur /\ r.cur <= r.size

LEMMA ArraysGrow ==
  ASSUME NEW m \in Arena, m.cur <= m.size, NEW cap \in Nat
  PROVE  Grown(m, AllocArrays(m, cap).mem)
<1> DEFINE f == CHOOSE g : g = ArrayBody(m, cap, g)
<1>1. AllocArrays(m, cap) = f[5]
  BY DEF AllocArrays, ArrayBody, ArrayStep
<1>2. f = ArrayBody(m, cap, f)
  BY ArraysExist
<1> HIDE DEF f
<1>3. \A n \in 0..5 : f[n] = IF n = 0 THEN [mem |-> m, ok |-> TRUE] ELSE ArrayStep(cap, n, f[n-1])
  BY <1>2 DEF ArrayBody
<1>4. Grown(m, f[0].mem)
  <2>1. f[0] = [mem |-> m, ok |-> TRUE]
    BY <1>3
  <2> QED BY <2>1 DEF Grown, Arena
<1>5. ASSUME NEW n \in 1..5, Grown(m, f[n-1].mem) PROVE Grown(m, f[n].mem)
  <2> DEFINE r == f[n-1].mem
             bytes == Arrays(cap)[n]
             a == ArenaAlloc(r, bytes, ALLOC_ALIGN).mem
  <2>1. bytes \in Nat
    <3>1. /\ cap * SizeofStat \in Nat /\ cap * SizeofHash \in Nat /\ cap * SizeofSlot \in Nat
          /\ cap * KeySize \in Nat /\ cap * ValSize \in Nat
      BY StaticAssumption DEF SizeofStat, SizeofHash, SizeofSlot
    <3>2. n \in {1, 2, 3, 4, 5}
      OBVIOUS
    <3> QED BY <3>1, <3>2 DEF Arrays
  <2>2. f[n].mem = a
    BY <1>3 DEF ArrayStep
  <2> HIDE DEF bytes
  <2>3. r \in Arena /\ r.size = m.size /\ m.cur <= r.cur /\ r.cur <= r.size
    BY <1>5 DEF Grown
  <2> HIDE DEF r
  <2>4. a \in Arena /\ a.size = r.size /\ a.cur <= r.size /\ r.cur <= a.cur
    BY <2>1, <2>3, AllocPlaces
  <2>5. m.cur \in Nat /\ r.cur \in Nat /\ a.cur \in Nat
    BY <2>3, <2>4 DEF Arena
  <2> HIDE DEF a
  <2> QED BY <2>2, <2>3, <2>4, <2>5 DEF Grown
<1>6. Grown(m, f[5].mem)
  <2>1. 1-1 = 0 /\ 2-1 = 1 /\ 3-1 = 2 /\ 4-1 = 3 /\ 5-1 = 4
    OBVIOUS
  <2>2. Grown(m, f[1].mem)
    BY <2>1, <1>4, <1>5
  <2>3. Grown(m, f[2].mem)
    BY <2>1, <2>2, <1>5
  <2>4. Grown(m, f[3].mem)
    BY <2>1, <2>3, <1>5
  <2>5. Grown(m, f[4].mem)
    BY <2>1, <2>4, <1>5
  <2> QED BY <2>1, <2>5, <1>5
<1> QED BY <1>1, <1>6

(***************************************************************************)
(* The invariants: the table, its index and the values beside it; and the  *)
(* arena, which holds what the table's arrays take and nothing else.       *)
(***************************************************************************)
StaticInv ==
  /\ phase \in {"none", "ready", "aborted"}
  /\ Indexed(kvt) /\ Counted(kvt)
  /\ vals \in [0..kvt.cap-1 -> Vals \cup {NoVal}]
  /\ \A j \in 0..kvt.cnt-1 : vals[j] \in Vals
  /\ phase # "ready" => kvt = NoTable
  /\ phase = "ready" => \E n \in InitCaps : kvt.cap = RoundUp(n)

ArenaInv ==
  /\ mem \in Arena /\ mark \in Nat /\ ArenaHoldsArrays
  /\ phase = "ready" => mark <= mem.cur

LEMMA StaticFacts ==
  ASSUME StaticInv
  PROVE  /\ Indexed(kvt) /\ Counted(kvt) /\ kvt.cap \in Nat /\ kvt.cnt \in 0..kvt.cap
         /\ kvt.cnt \in Nat /\ vals \in [0..kvt.cap-1 -> Vals \cup {NoVal}]
BY IndexedTypes DEF StaticInv

LEMMA NoStaticTable ==
  ASSUME kvt' = NoTable, vals' \in [0..kvt'.cap-1 -> Vals \cup {NoVal}],
         phase' \in {"none", "aborted"}
  PROVE  StaticInv'
<1>1. Indexed(NoTable) /\ Counted(NoTable) /\ 0..NoTable.cnt-1 = {}
  BY NoTableIndexed
<1> QED BY <1>1 DEF StaticInv

LEMMA StaticInitially == SInit => StaticInv /\ ArenaInv
<1> SUFFICES ASSUME SInit PROVE StaticInv /\ ArenaInv
  OBVIOUS
<1>1. PICK size \in ArenaSizes : mem = ArenaInit(size)
  BY DEF SInit, NoClient
<1>2. size \in Nat
  BY <1>1, ClientAssumption
<1>3. mem \in Arena /\ mem.cur = 0 /\ mem.size = size
  BY <1>1, <1>2 DEF ArenaInit, Arena
<1>4. phase = "none" /\ kvt = NoTable /\ vals = NoVals /\ mark = 0
  BY DEF SInit, NoClient
<1>5. Indexed(NoTable) /\ Counted(NoTable) /\ 0..NoTable.cnt-1 = {} /\ 0..NoTable.cap-1 = {}
  BY NoTableIndexed
<1>6. StaticInv
  BY <1>4, <1>5 DEF StaticInv, NoVals
<1>7. ArenaInv
  BY <1>2, <1>3, <1>4 DEF ArenaInv, ArenaHoldsArrays
<1> QED BY <1>6, <1>7

LEMMA MakeStaticStep ==
  ASSUME StaticInv, ArenaInv, NEW n \in InitCaps, SInitTable(n)
  PROVE  StaticInv' /\ ArenaInv'
<1> DEFINE cap == RoundUp(n)
           a == AllocArrays(mem, cap)
<1>1. cap \in Nat
  BY RoundUpType, ClientAssumption
<1>2. /\ phase = "none" /\ kvt = NoTable /\ vals \in [0..kvt.cap-1 -> Vals \cup {NoVal}]
      /\ mem \in Arena /\ mem.cur <= mem.size /\ mem.cur \in Nat /\ mem.size \in Nat
      /\ mem = [cur |-> mem.cur, size |-> mem.size]
  BY DEF SInitTable, StaticInv, ArenaInv, ArenaHoldsArrays, Arena
<1>3. a.mem \in Arena /\ a.mem.size = mem.size /\ mem.cur <= a.mem.cur /\ a.mem.cur <= a.mem.size
  BY <1>1, <1>2, ArraysGrow DEF Grown
<1>4. /\ mark' = mem.cur
      /\ a.ok => /\ phase' = "ready" /\ kvt' = NewKeyIndex(cap)
                 /\ vals' = [j \in 0..cap-1 |-> NoVal] /\ mem' = a.mem
      /\ ~a.ok => /\ phase' = (IF ndebug THEN "none" ELSE "aborted")
                  /\ mem' = (IF ndebug THEN ArenaSetCur(a.mem, mem.cur) ELSE a.mem)
                  /\ kvt' = kvt /\ vals' = vals
  BY DEF SInitTable
<1>5. CASE a.ok
  <2>1. Indexed(kvt') /\ Counted(kvt') /\ kvt'.cap = cap /\ kvt'.cnt = 0
    BY <1>1, <1>4, <1>5, NewIndexed
  <2>2. 0..kvt'.cnt-1 = {}
    BY <2>1
  <2>3. StaticInv'
    BY <1>4, <1>5, <2>1, <2>2 DEF StaticInv
  <2>4. [mem' EXCEPT !.cur = mark'] = mem
    BY <1>2, <1>3, <1>4, <1>5 DEF Arena
  <2>5. mem' = AllocArrays([mem' EXCEPT !.cur = mark'], kvt'.cap).mem
    BY <2>1, <2>4, <1>4, <1>5
  <2>6. mem' = a.mem /\ mark' = mem.cur /\ phase' = "ready"
    BY <1>4, <1>5
  <2> HIDE DEF a
  <2>7. ArenaInv'
    BY <1>2, <1>3, <2>5, <2>6 DEF ArenaInv, ArenaHoldsArrays
  <2> QED BY <2>3, <2>7
<1>6. CASE ~a.ok
  <2>1. phase' \in {"none", "aborted"} /\ (phase' = "none" => ndebug)
    BY <1>4, <1>6
  <2>2. StaticInv'
    BY <1>2, <1>4, <1>6, <2>1, NoStaticTable
  <2>3. mark' = mem.cur /\ mem' = (IF ndebug THEN ArenaSetCur(a.mem, mem.cur) ELSE a.mem)
    BY <1>4, <1>6
  <2> HIDE DEF a
  <2>4. ArenaSetCur(a.mem, mem.cur).cur = mem.cur
    BY <1>2, <1>3 DEF ArenaSetCur, Arena
  <2>5. mem' \in Arena /\ mem'.cur <= mem'.size
    <3>1. CASE ndebug
      BY <1>2, <1>3, <2>3, <3>1, SetCurType
    <3>2. CASE ~ndebug
      BY <1>3, <2>3, <3>2
    <3> QED BY <3>1, <3>2
  <2>6. ArenaInv'
    BY <1>2, <2>1, <2>3, <2>4, <2>5 DEF ArenaInv, ArenaHoldsArrays
  <2> QED BY <2>2, <2>6
<1> QED BY <1>5, <1>6

LEMMA EndStaticStep ==
  ASSUME StaticInv, ArenaInv, SDeinit \/ SRestart
  PROVE  StaticInv' /\ ArenaInv'
<1>1. /\ mem \in Arena /\ mark \in Nat /\ mem.cur <= mem.size /\ mem.cur \in Nat
      /\ phase = "ready" => mark <= mem.cur
  BY DEF ArenaInv, ArenaHoldsArrays, Arena
<1>2. kvt' = NoTable /\ phase' = "none" /\ vals' \in [0..kvt'.cap-1 -> Vals \cup {NoVal}]
  <2>1. CASE SDeinit
    BY <2>1, NoTableIndexed DEF SDeinit, NoVals
  <2>2. CASE SRestart
    BY <2>2 DEF SRestart, StaticInv
  <2> QED BY <2>1, <2>2
<1>3. StaticInv'
  BY <1>2, NoStaticTable
<1>4. mem' = ArenaSetCur(mem, mark') /\ mark' \in Nat /\ mark' <= mem.cur
  BY <1>1 DEF SDeinit, SRestart
<1>5. mem' \in Arena /\ mem'.cur <= mem'.size
  BY <1>1, <1>4, SetCurType
<1>6. mem'.cur = mark'
  BY <1>1, <1>4 DEF ArenaSetCur, Arena
<1>7. ArenaInv'
  BY <1>2, <1>4, <1>5, <1>6 DEF ArenaInv, ArenaHoldsArrays
<1> QED BY <1>3, <1>7

(***************************************************************************)
(* A call on the table leaves the arena alone.                             *)
(***************************************************************************)
LEMMA SameArena ==
  ASSUME ArenaInv, phase' = phase, mem' = mem, mark' = mark, kvt'.cap = kvt.cap
  PROVE  ArenaInv'
BY DEF ArenaInv, ArenaHoldsArrays

LEMMA SameStatic ==
  ASSUME StaticInv, phase = "ready", phase' = phase, Indexed(kvt'), Counted(kvt'),
         kvt'.cap = kvt.cap, vals' \in [0..kvt.cap-1 -> Vals \cup {NoVal}],
         \A j \in 0..kvt'.cnt-1 : vals'[j] \in Vals
  PROVE  StaticInv'
BY DEF StaticInv

(***************************************************************************)
(* The map a table and its values stand for.  Its keys are numbered by the *)
(* live entries, as in the registry.                                       *)
(***************************************************************************)
ValueIn(t, v, k) == IF NumberIn(t, k) = -1 THEN NoVal ELSE v[NumberIn(t, k)]

ValuesIn(t, v) == [k \in Keys |-> ValueIn(t, v, k)]

LiveValues(t, v) ==
  [k \in Keys |-> IF \E j \in LiveOf(t) : t.ents[j].key = k
                  THEN v[CHOOSE j \in LiveOf(t) : t.ents[j].key = k] ELSE NoVal]

LEMMA ValuesAre ==
  ASSUME NEW t, Indexed(t), NEW v
  PROVE  ValuesIn(t, v) = LiveValues(t, v)
<1>1. ASSUME NEW k \in Keys
      PROVE  ValueIn(t, v, k) = IF \E j \in LiveOf(t) : t.ents[j].key = k
                                THEN v[CHOOSE j \in LiveOf(t) : t.ents[j].key = k] ELSE NoVal
  <2>1. CASE \E j \in LiveOf(t) : t.ents[j].key = k
    <3> DEFINE i == CHOOSE j \in LiveOf(t) : t.ents[j].key = k
    <3>1. i \in LiveOf(t) /\ NumberIn(t, k) = i
      BY <2>1 DEF NumberIn
    <3> HIDE DEF i
    <3>2. i # -1
      BY <3>1, IndexedTypes DEF LiveOf
    <3>3. ValueIn(t, v, k) = v[i]
      BY <3>1, <3>2 DEF ValueIn
    <3> QED BY <2>1, <3>3 DEF i
  <2>2. CASE ~ \E j \in LiveOf(t) : t.ents[j].key = k
    <3>1. NumberIn(t, k) = -1
      BY <2>2, NumberNone
    <3> QED BY <2>2, <3>1 DEF ValueIn
  <2> QED BY <2>1, <2>2
<1> QED BY <1>1 DEF ValuesIn, LiveValues

LEMMA MapIs ==
  /\ StaticInv => MapOf = ValuesIn(kvt, vals)
  /\ StaticInv' => MapOf' = ValuesIn(kvt', vals')
<1>1. SLive = LiveOf(kvt) /\ SLive' = LiveOf(kvt')
  BY DEF SLive, SEntries, LiveOf
<1>2. MapOf = LiveValues(kvt, vals) /\ MapOf' = LiveValues(kvt', vals')
  BY <1>1 DEF MapOf, LiveValues
<1>3. (StaticInv => Indexed(kvt)) /\ (StaticInv' => Indexed(kvt'))
  BY DEF StaticInv
<1> QED BY <1>2, <1>3, ValuesAre

(***************************************************************************)
(* One entry n of k comes to live with the value x, or dies: the value of  *)
(* k changes and no other.                                                 *)
(***************************************************************************)
LEMMA ValuesChange ==
  ASSUME NEW t, Indexed(t), NEW r, NEW k \in Keys, NEW n \in Nat, NEW m \in {n, -1},
         NumbersIn(r) = [NumbersIn(t) EXCEPT ![k] = m],
         NEW v, NEW w, \A j \in LiveOf(t) : j # n => w[j] = v[j],
         \A x \in Keys : x # k => NumberIn(t, x) # n
  PROVE  ValuesIn(r, w) = [ValuesIn(t, v) EXCEPT ![k] = IF m = -1 THEN NoVal ELSE w[n]]
<1>1. ASSUME NEW x \in Keys
      PROVE  NumberIn(r, x) = IF x = k THEN m ELSE NumberIn(t, x)
  <2>1. NumbersIn(t) = [y \in Keys |-> NumberIn(t, y)] /\ NumbersIn(r)[x] = NumberIn(r, x)
    BY DEF NumbersIn
  <2> QED BY <2>1
<1>2. ASSUME NEW x \in Keys
      PROVE  ValueIn(r, w, x) = IF x = k THEN IF m = -1 THEN NoVal ELSE w[n]
                                ELSE ValueIn(t, v, x)
  <2>1. CASE x = k
    <3>1. NumberIn(r, x) = m
      BY <1>1, <2>1
    <3> QED BY <2>1, <3>1 DEF ValueIn
  <2>2. CASE x # k
    <3>1. NumberIn(r, x) = NumberIn(t, x) /\ NumberIn(t, x) # n
      BY <1>1, <2>2
    <3>2. NumberIn(t, x) = -1 \/ NumberIn(t, x) \in LiveOf(t)
      BY NumberCases
    <3>3. NumberIn(t, x) # -1 => w[NumberIn(t, x)] = v[NumberIn(t, x)]
      BY <3>1, <3>2
    <3> QED BY <2>2, <3>1, <3>3 DEF ValueIn
  <2> QED BY <2>1, <2>2
<1> QED BY <1>2 DEF ValuesIn

LEMMA SameValues ==
  ASSUME NEW t, NEW r, NEW v, NumbersIn(r) = NumbersIn(t)
  PROVE  ValuesIn(r, v) = ValuesIn(t, v)
<1>1. ASSUME NEW x \in Keys PROVE NumberIn(r, x) = NumberIn(t, x)
  <2>1. NumbersIn(t)[x] = NumberIn(t, x) /\ NumbersIn(r)[x] = NumberIn(r, x)
    BY DEF NumbersIn
  <2> QED BY <2>1
<1> QED BY <1>1 DEF ValuesIn, ValueIn

LEMMA NoValues ==
  ASSUME NEW t, t.cnt = 0, NEW v
  PROVE  ValuesIn(t, v) = Abs!EmptyMap
<1>1. NumbersIn(t) = [k \in Keys |-> -1]
  BY EmptyRegistry
<1>2. ASSUME NEW x \in Keys PROVE NumberIn(t, x) = -1
  <2>1. NumbersIn(t)[x] = NumberIn(t, x)
    BY DEF NumbersIn
  <2> QED BY <1>1, <2>1
<1> QED BY <1>2 DEF ValuesIn, ValueIn, Abs!EmptyMap

\* A number that is an entry of k is no other key's.
LEMMA OthersNumber ==
  ASSUME NEW t, Indexed(t), NEW n \in 0..t.cnt-1, NEW x, x # t.ents[n].key
  PROVE  NumberIn(t, x) # n
<1>1. n # -1
  BY IndexedTypes
<1> QED BY <1>1, NumberCases

-----------------------------------------------------------------------------
(***************************************************************************)
(* What each call on the static table does to it and to its map.           *)
(***************************************************************************)
LEMMA SRefusedStep ==
  ASSUME StaticInv, ArenaInv, SInsertRefused
  PROVE  StaticInv' /\ ArenaInv' /\ Abs!Refuse
<1>1. phase = "ready" /\ ret' = "fail" /\ UNCHANGED <<phase, kvt, vals, mem, mark>>
  BY DEF SInsertRefused
<1>2. StaticInv' /\ ArenaInv'
  BY <1>1, SameArena DEF StaticInv
<1>3. MapOf' = MapOf
  BY <1>1, <1>2, MapIs
<1> QED BY <1>1, <1>2, <1>3 DEF Abs!Refuse

LEMMA SLookupStep ==
  ASSUME StaticInv, ArenaInv, NEW k \in Keys, SLookupKey(k)
  PROVE  StaticInv' /\ ArenaInv' /\ Abs!Get(k)
<1>1. /\ phase = "ready" /\ UNCHANGED <<phase, kvt, vals, mem, mark>>
      /\ ret' = (IF FindLive(kvt, k) < 0 THEN NoVal ELSE vals[FindLive(kvt, k)])
  BY DEF SLookupKey
<1>2. StaticInv' /\ ArenaInv'
  BY <1>1, SameArena DEF StaticInv
<1>3. MapOf' = MapOf
  BY <1>1, <1>2, MapIs
<1>4. NumberIn(kvt, k) = IF FindLive(kvt, k) < 0 THEN -1 ELSE FindLive(kvt, k)
  BY StaticFacts, FindLiveNumber
<1>5. NumberIn(kvt, k) = -1 \/ (NumberIn(kvt, k) \in LiveOf(kvt) /\ NumberIn(kvt, k) # -1)
  BY StaticFacts, NumberCases
<1>6. ValueIn(kvt, vals, k) = ret'
  <2>1. CASE FindLive(kvt, k) < 0
    BY <1>1, <1>4, <2>1 DEF ValueIn
  <2>2. CASE ~(FindLive(kvt, k) < 0)
    <3>1. -1 < 0
      OBVIOUS
    <3>2. FindLive(kvt, k) # -1
      BY <2>2, <3>1
    <3> QED BY <1>1, <1>4, <2>2, <3>2 DEF ValueIn
  <2> QED BY <2>1, <2>2
<1>7. MapOf[k] = ret'
  BY <1>6, MapIs DEF ValuesIn
<1> QED BY <1>1, <1>2, <1>3, <1>7 DEF Abs!Get

LEMMA SRemoveStep ==
  ASSUME StaticInv, ArenaInv, NEW k \in Keys, SRemove(k)
  PROVE  /\ StaticInv' /\ ArenaInv'
         /\ Abs!Remove(k) \/ (MapOf[k] = NoVal /\ (Abs!Refuse \/ Abs!Compact))
<1> DEFINE n == Find(kvt, k)
<1>1. /\ phase = "ready" /\ UNCHANGED <<phase, vals, mem, mark>>
      /\ kvt' = Removed(kvt, k) /\ ret' = (IF n < 0 THEN "fail" ELSE "ok")
  BY DEF SRemove
<1>2. /\ Indexed(kvt) /\ Counted(kvt) /\ kvt.cap \in Nat /\ kvt.cnt \in 0..kvt.cap /\ kvt.cnt \in Nat
      /\ vals \in [0..kvt.cap-1 -> Vals \cup {NoVal}]
      /\ \A j \in 0..kvt.cnt-1 : vals[j] \in Vals
  BY StaticFacts DEF StaticInv
<1>3. CASE n < 0
  <2>1. kvt' = kvt /\ ret' = "fail"
    BY <1>1, <1>3 DEF Removed
  <2>2. StaticInv' /\ ArenaInv'
    BY <1>1, <2>1, SameArena DEF StaticInv
  <2>3. MapOf' = MapOf
    BY <1>1, <2>1, <2>2, MapIs
  <2>4. FindLive(kvt, k) < 0
    <3>1. KEY_NOT_FOUND < 0
      BY DEF KEY_NOT_FOUND
    <3> QED BY <1>3, <3>1 DEF FindLive
  <2>5. NumberIn(kvt, k) = -1
    BY <1>2, <2>4, FindLiveNumber
  <2>6. MapOf[k] = NoVal
    BY <2>5, MapIs DEF ValuesIn, ValueIn
  <2> QED BY <1>1, <2>1, <2>2, <2>3, <2>6 DEF Abs!Refuse
<1>4. CASE ~(n < 0)
  <2>1. n \in 0..kvt.cnt-1 /\ n \in Nat /\ kvt.ents[n].key = k /\ Names(kvt.idx, n) /\ ret' = "ok"
    BY <1>1, <1>2, <1>4, FindFound
  <2>2. Indexed(kvt') /\ Counted(kvt') /\ Restated(kvt, kvt', n, "DELETED")
    BY <1>1, <1>2, <1>4, RemovedIndexed
  <2> HIDE DEF n
  <2>3. kvt'.cap = kvt.cap /\ kvt'.cnt = kvt.cnt
    BY <2>2 DEF Restated
  <2>4. StaticInv' /\ ArenaInv'
    BY <1>1, <1>2, <2>2, <2>3, SameStatic, SameArena
  <2>5. NumbersIn(kvt') = [NumbersIn(kvt) EXCEPT ![k] = -1]
    BY <1>2, <2>1, <2>2, RestatedRegistry
  <2>6. \A x \in Keys : x # k => NumberIn(kvt, x) # n
    BY <1>2, <2>1, OthersNumber
  <2>7. ValuesIn(kvt', vals) = [ValuesIn(kvt, vals) EXCEPT ![k] = NoVal]
    <3> DEFINE m == -1
               w == vals
    <3>1. /\ m \in {n, -1} /\ NumbersIn(kvt') = [NumbersIn(kvt) EXCEPT ![k] = m]
          /\ \A j \in LiveOf(kvt) : j # n => w[j] = vals[j]
      BY <2>5
    <3>3. Indexed(kvt) /\ n \in Nat
      BY <1>2, <2>1
    <3> HIDE DEF m, w
    <3>2. ValuesIn(kvt', w) = [ValuesIn(kvt, vals) EXCEPT ![k] = IF m = -1 THEN NoVal ELSE w[n]]
      BY <2>6, <3>1, <3>3, ValuesChange
    <3> QED BY <3>2 DEF m, w
  <2>8. MapOf' = [MapOf EXCEPT ![k] = NoVal]
    BY <1>1, <2>4, <2>7, MapIs
  <2>9. CASE MapOf[k] # NoVal
    BY <1>1, <2>1, <2>4, <2>8, <2>9 DEF Abs!Remove
  <2>10. CASE MapOf[k] = NoVal
    <3>1. MapOf' = MapOf
      BY <2>8, <2>10 DEF MapOf
    <3> QED BY <1>1, <2>1, <2>4, <2>10, <3>1 DEF Abs!Compact
  <2> QED BY <2>9, <2>10
<1> QED BY <1>3, <1>4

(***************************************************************************)
(* What an insertion begins with: the table, perhaps with a new index, of  *)
(* the same numbers.                                                       *)
(***************************************************************************)
LEMMA SPrepared ==
  ASSUME StaticInv, NEW t, t = Prepared(kvt)
  PROVE  /\ Indexed(t) /\ Counted(t) /\ t.cap = kvt.cap /\ t.cnt = kvt.cnt /\ t.ents = kvt.ents
         /\ ValuesIn(t, vals) = ValuesIn(kvt, vals) /\ LiveOf(t) \subseteq 0..kvt.cnt-1
         /\ t.cap \in Nat /\ t.cnt \in Nat
         /\ vals \in [0..t.cap-1 -> Vals \cup {NoVal}]
         /\ \A j \in 0..t.cnt-1 : vals[j] \in Vals
<1>1. Indexed(t) /\ Counted(t) /\ t.cap = kvt.cap /\ t.cnt = kvt.cnt /\ t.ents = kvt.ents
  BY StaticFacts, PreparedIndexed DEF SameButIndex
<1>2. NumbersIn(t) = NumbersIn(kvt)
  BY <1>1, SameRegistry
<1>3. ValuesIn(t, vals) = ValuesIn(kvt, vals)
  BY <1>2, SameValues
<1> QED BY <1>1, <1>3, StaticFacts DEF LiveOf, StaticInv

\* The map with v for k, in a table that is in order.
LEMMA SPuts ==
  ASSUME StaticInv, ArenaInv, NEW k \in Keys, NEW v \in Vals, SInsert(k, v),
         Indexed(kvt'), Counted(kvt'), kvt'.cap = kvt.cap,
         vals' \in [0..kvt.cap-1 -> Vals \cup {NoVal}],
         \A j \in 0..kvt'.cnt-1 : vals'[j] \in Vals,
         ValuesIn(kvt', vals') = [ValuesIn(kvt, vals) EXCEPT ![k] = v]
  PROVE  StaticInv' /\ ArenaInv' /\ Abs!Put(k, v)
<1>1. phase = "ready" /\ ret' = "ok" /\ UNCHANGED <<phase, mem, mark>>
  BY DEF SInsert
<1>2. StaticInv' /\ ArenaInv'
  BY <1>1, SameStatic, SameArena
<1>3. MapOf' = [MapOf EXCEPT ![k] = v]
  BY <1>2, MapIs
<1> QED BY <1>1, <1>2, <1>3 DEF Abs!Put

LEMMA SInsertNewStep ==
  ASSUME StaticInv, ArenaInv, NEW k \in Keys, NEW v \in Vals, SInsert(k, v),
         Find(Prepared(kvt), k) < 0
  PROVE  StaticInv' /\ ArenaInv' /\ Abs!Put(k, v)
<1> DEFINE t == Prepared(kvt)
           c == t.cnt
<1>1. /\ phase = "ready" /\ ~Full(kvt) /\ Find(t, k) < 0
      /\ kvt' = Appended(t, k) /\ vals' = [vals EXCEPT ![c] = v]
  BY DEF SInsert
<1>2. /\ Indexed(t) /\ Counted(t) /\ t.cap = kvt.cap /\ c = kvt.cnt
      /\ ValuesIn(t, vals) = ValuesIn(kvt, vals) /\ LiveOf(t) \subseteq 0..c-1
      /\ t.cap \in Nat /\ c \in Nat /\ vals \in [0..t.cap-1 -> Vals \cup {NoVal}]
      /\ \A j \in 0..c-1 : vals[j] \in Vals
  BY SPrepared
<1>3. t.cnt \in 0..t.cap-1
  BY <1>1, <1>2, StaticFacts, RoomLeft
<1>4. t.cnt \in Numbers
  <2>1. PICK n \in InitCaps : kvt.cap = RoundUp(n)
    BY <1>1 DEF StaticInv
  <2> QED BY <1>2, <1>3, <2>1 DEF Numbers
<1> HIDE DEF t
<1>5. Indexed(kvt') /\ Counted(kvt') /\ kvt'.cap = t.cap /\ kvt'.cnt = c + 1
  BY <1>1, <1>2, <1>3, AppendedIndexed
<1>6. OneMore(t, kvt', k)
  BY <1>1, <1>2, <1>3, AppendedIndexed DEF OneMore
<1>7. NumbersIn(kvt') = [NumbersIn(t) EXCEPT ![k] = c]
  BY <1>1, <1>2, <1>3, <1>4, <1>5, <1>6, AppendedRegistry
<1>8. /\ vals' \in [0..kvt.cap-1 -> Vals \cup {NoVal}] /\ vals'[c] = v
      /\ \A j \in 0..c-1 : vals'[j] = vals[j]
  BY <1>1, <1>2, <1>3
<1>9. ASSUME NEW j \in 0..kvt'.cnt-1 PROVE vals'[j] \in Vals
  <2>1. j = c \/ j \in 0..c-1
    BY <1>2, <1>5
  <2> QED BY <2>1, <1>2, <1>8
<1>10. ValuesIn(kvt', vals') = [ValuesIn(kvt, vals) EXCEPT ![k] = v]
  <2>1. c # -1
    BY <1>2
  <2>2. \A j \in LiveOf(t) : j # c => vals'[j] = vals[j]
    BY <1>2, <1>8
  <2>3. ASSUME NEW x \in Keys, x # k PROVE NumberIn(t, x) # c
    <3>1. NumberIn(t, x) = -1 \/ NumberIn(t, x) \in 0..c-1
      BY <1>2, NumberCases
    <3> QED BY <3>1, <1>2
  <2> HIDE DEF c
  <2>4. ValuesIn(kvt', vals') = [ValuesIn(t, vals) EXCEPT ![k] = vals'[c]]
    <3> DEFINE m == c
               w == vals'
               r == kvt'
    <3>1. Indexed(t)
      BY <1>2
    <3>2. c \in Nat
      BY <1>2
    <3>3. m \in {c, -1}
      OBVIOUS
    <3>4. NumbersIn(r) = [NumbersIn(t) EXCEPT ![k] = m]
      BY <1>7
    <3>5. \A j \in LiveOf(t) : j # c => w[j] = vals[j]
      BY <2>2
    <3>7. m # -1 /\ w[c] = vals'[c]
      BY <2>1
    <3> HIDE DEF m, w, r
    <3>6. ValuesIn(r, w) = [ValuesIn(t, vals) EXCEPT ![k] = IF m = -1 THEN NoVal ELSE w[c]]
      BY <2>3, <3>1, <3>2, <3>3, <3>4, <3>5, ValuesChange
    <3>8. ValuesIn(r, w) = [ValuesIn(t, vals) EXCEPT ![k] = w[c]]
      BY <3>6, <3>7
    <3> QED BY <3>8 DEF r, w
  <2> QED BY <1>2, <1>8, <2>4
<1> QED BY <1>2, <1>5, <1>8, <1>9, <1>10, SPuts

LEMMA SInsertKnownStep ==
  ASSUME StaticInv, ArenaInv, NEW k \in Keys, NEW v \in Vals, SInsert(k, v),
         ~(Find(Prepared(kvt), k) < 0)
  PROVE  StaticInv' /\ ArenaInv' /\ Abs!Put(k, v)
<1> DEFINE t == Prepared(kvt)
           n == Find(t, k)
<1>1. /\ phase = "ready" /\ ~(Find(t, k) < 0)
      /\ kvt' = Revived(t, n) /\ vals' = [vals EXCEPT ![n] = v]
  BY DEF SInsert
<1>2. /\ Indexed(t) /\ Counted(t) /\ t.cap = kvt.cap /\ t.cnt = kvt.cnt
      /\ ValuesIn(t, vals) = ValuesIn(kvt, vals)
      /\ t.cap \in Nat /\ t.cnt \in 0..t.cap /\ vals \in [0..t.cap-1 -> Vals \cup {NoVal}]
      /\ \A j \in 0..t.cnt-1 : vals[j] \in Vals
  BY SPrepared, IndexedTypes
<1> HIDE DEF t
<1>3. n \in 0..t.cnt-1 /\ n \in Nat /\ t.ents[n].key = k /\ Names(t.idx, n)
  BY <1>1, <1>2, FindFound
<1> HIDE DEF n
<1>4. /\ Indexed(kvt') /\ Counted(kvt') /\ Restated(t, kvt', n, "INUSE")
  BY <1>1, <1>2, <1>3, RevivedIndexed
<1>5. kvt'.cap = t.cap /\ kvt'.cnt = t.cnt
  BY <1>4 DEF Restated
<1>6. NumbersIn(kvt') = [NumbersIn(t) EXCEPT ![k] = n]
  BY <1>2, <1>3, <1>4, RestatedRegistry
<1>7. /\ vals' \in [0..kvt.cap-1 -> Vals \cup {NoVal}] /\ vals'[n] = v
      /\ \A j \in 0..t.cnt-1 : j # n => vals'[j] = vals[j]
  BY <1>1, <1>2, <1>3
<1>8. \A j \in 0..kvt'.cnt-1 : vals'[j] \in Vals
  BY <1>2, <1>5, <1>7
<1>9. ValuesIn(kvt', vals') = [ValuesIn(kvt, vals) EXCEPT ![k] = v]
  <2>1. n # -1
    BY <1>3
  <2>2. \A j \in LiveOf(t) : j # n => vals'[j] = vals[j]
    BY <1>7 DEF LiveOf
  <2>3. \A x \in Keys : x # k => NumberIn(t, x) # n
    BY <1>2, <1>3, OthersNumber
  <2>4. ValuesIn(kvt', vals') = [ValuesIn(t, vals) EXCEPT ![k] = vals'[n]]
    <3> DEFINE m == n
               w == vals'
               r == kvt'
    <3>1. Indexed(t)
      BY <1>2
    <3>2. n \in Nat
      BY <1>2, <1>3
    <3>3. m \in {n, -1}
      OBVIOUS
    <3>4. NumbersIn(r) = [NumbersIn(t) EXCEPT ![k] = m]
      BY <1>6
    <3>5. \A j \in LiveOf(t) : j # n => w[j] = vals[j]
      BY <2>2
    <3>7. m # -1 /\ w[n] = vals'[n]
      BY <2>1
    <3> HIDE DEF m, w, r
    <3>6. ValuesIn(r, w) = [ValuesIn(t, vals) EXCEPT ![k] = IF m = -1 THEN NoVal ELSE w[n]]
      BY <2>3, <3>1, <3>2, <3>3, <3>4, <3>5, ValuesChange
    <3>8. ValuesIn(r, w) = [ValuesIn(t, vals) EXCEPT ![k] = w[n]]
      BY <3>6, <3>7
    <3> QED BY <3>8 DEF r, w
  <2> QED BY <1>2, <1>7, <2>4
<1> QED BY <1>2, <1>4, <1>5, <1>7, <1>8, <1>9, SPuts

LEMMA SInsertStep ==
  ASSUME StaticInv, ArenaInv, NEW k \in Keys, NEW v \in Vals, SInsert(k, v)
  PROVE  StaticInv' /\ ArenaInv' /\ Abs!Put(k, v)
BY SInsertNewStep, SInsertKnownStep

(***************************************************************************)
(* The calls that make and end a table.                                    *)
(***************************************************************************)
LEMMA MakeStaticMeans ==
  ASSUME StaticInv, ArenaInv, NEW n \in InitCaps, SInitTable(n)
  PROVE  Abs!Create \/ Abs!Refuse \/ Abs!Gone("aborted")
<1>1. StaticInv' /\ phase = "none"
  BY MakeStaticStep DEF SInitTable
<1>2. MapOf = Abs!EmptyMap
  BY <1>1, MapIs, NoValues, NoTableIndexed DEF StaticInv
<1>3. CASE AllocArrays(mem, RoundUp(n)).ok
  <2>1. phase' = "ready" /\ ret' = "ok" /\ kvt' = NewKeyIndex(RoundUp(n))
    BY <1>3 DEF SInitTable
  <2>2. kvt'.cnt = 0
    BY <2>1 DEF NewKeyIndex
  <2>3. MapOf' = Abs!EmptyMap
    BY <1>1, <2>2, MapIs, NoValues
  <2> QED BY <1>1, <1>2, <2>1, <2>3 DEF Abs!Create
<1>4. CASE ~AllocArrays(mem, RoundUp(n)).ok
  <2>1. /\ phase' = (IF ndebug THEN "none" ELSE "aborted") /\ ret' = "fail"
        /\ kvt' = kvt /\ vals' = vals
    BY <1>4 DEF SInitTable
  <2>2. MapOf' = Abs!EmptyMap
    BY <1>1, <1>2, <2>1, MapIs
  <2>3. CASE ndebug
    BY <1>1, <1>2, <2>1, <2>2, <2>3 DEF Abs!Refuse
  <2>4. CASE ~ndebug
    BY <1>1, <1>2, <2>1, <2>2, <2>4 DEF Abs!Gone
  <2> QED BY <2>3, <2>4
<1> QED BY <1>3, <1>4

LEMMA EndStaticMeans ==
  ASSUME StaticInv, ArenaInv
  PROVE  (SDeinit => Abs!Gone("none")) /\ (SRestart => Abs!Restart)
<1>1. ASSUME SDeinit PROVE Abs!Gone("none")
  <2>1. StaticInv' /\ kvt'.cnt = 0
    BY <1>1, EndStaticStep, NoTableIndexed DEF SDeinit
  <2>2. MapOf' = Abs!EmptyMap
    BY <2>1, MapIs, NoValues
  <2> QED BY <1>1, <2>2 DEF SDeinit, Abs!Gone
<1>2. ASSUME SRestart PROVE Abs!Restart
  <2>1. StaticInv' /\ kvt' = kvt /\ vals' = vals
    BY <1>2, EndStaticStep DEF SRestart
  <2>2. MapOf' = MapOf
    BY <2>1, MapIs
  <2> QED BY <1>2, <2>2 DEF SRestart, Abs!Restart
<1> QED BY <1>1, <1>2

-----------------------------------------------------------------------------
LEMMA StaticStep ==
  ASSUME StaticInv, ArenaInv, [SNext]_svars
  PROVE  StaticInv' /\ ArenaInv' /\ [Abs!Next]_Abs!vars
<1>1. ASSUME NEW n \in InitCaps, SInitTable(n)
      PROVE  StaticInv' /\ ArenaInv' /\ Abs!Next
  BY <1>1, MakeStaticStep, MakeStaticMeans DEF Abs!Next
<1>2. CASE SDeinit \/ SRestart
  BY <1>2, EndStaticStep, EndStaticMeans DEF Abs!Next
<1>3. CASE SInsertRefused
  BY <1>3, SRefusedStep DEF Abs!Next
<1>4. ASSUME NEW k \in Keys, SRemove(k) PROVE StaticInv' /\ ArenaInv' /\ Abs!Next
  BY <1>4, SRemoveStep DEF Abs!Next
<1>5. ASSUME NEW k \in Keys, SLookupKey(k) PROVE StaticInv' /\ ArenaInv' /\ Abs!Next
  BY <1>5, SLookupStep DEF Abs!Next
<1>6. ASSUME NEW k \in Keys, NEW v \in Vals, SInsert(k, v)
      PROVE  StaticInv' /\ ArenaInv' /\ Abs!Next
  BY <1>6, SInsertStep DEF Abs!Next
<1>7. CASE UNCHANGED svars
  <2>1. UNCHANGED <<phase, kvt, vals, mem, mark, ret>>
    BY <1>7 DEF svars
  <2>2. StaticInv' /\ ArenaInv'
    BY <2>1, SameArena DEF StaticInv
  <2>3. MapOf' = MapOf
    BY <2>1, <2>2, MapIs
  <2> QED BY <2>1, <2>2, <2>3 DEF Abs!vars
<1>8. CASE SCalls
  BY <1>1, <1>2, <1>3, <1>4, <1>5, <1>6, <1>8 DEF SCalls
<1> QED BY <1>7, <1>8 DEF SNext

LEMMA StaticHolds == SSpec => [](StaticInv /\ ArenaInv)
BY StaticInitially, StaticStep, PTL DEF SSpec

LEMMA OneEntryThen == StaticInv => OneEntryRemembered
<1> SUFFICES ASSUME StaticInv PROVE OneEntryRemembered
  OBVIOUS
<1>1. /\ Indexed(kvt) /\ kvt \in KeyIndexOf(kvt.cap)
      /\ vals \in [0..kvt.cap-1 -> Vals \cup {NoVal}]
  BY DEF StaticInv, Indexed
<1>2. ASSUME NEW j \in SLive PROVE Find(kvt, kvt.ents[j].key) = j
  <2>1. j \in 0..kvt.cnt-1 /\ kvt.ents[j].stat = "INUSE"
    BY DEF SLive, SEntries
  <2>2. kvt.ents[j].key \in Keys /\ Names(kvt.idx, j)
    BY <1>1, <2>1 DEF Indexed
  <2> QED BY <1>1, <2>2, FindNamed
<1>3. kvt.dead >= Cardinality(SDead)
  <2>1. SDead = DeadOf(kvt)
    BY DEF SDead, SEntries, DeadOf
  <2> QED BY <2>1 DEF StaticInv, Counted
<1>4. ASSUME NEW s \in DOMAIN kvt.idx, NEW u \in DOMAIN kvt.idx,
             kvt.idx[s] >= 0, kvt.idx[u] >= 0,
             kvt.ents[kvt.idx[s]].key = kvt.ents[kvt.idx[u]].key
      PROVE  s = u
  <2>1. s \in UsedSlots(kvt.idx) /\ u \in UsedSlots(kvt.idx)
    BY <1>4 DEF UsedSlots, HT_KIDX_SLOT_EMPTY
  <2> QED BY <1>1, <1>4, <2>1 DEF Indexed, IndexWithin
<1> QED BY <1>1, <1>2, <1>3, <1>4 DEF OneEntryRemembered

(***************************************************************************)
(* No second entry of a key the index remembers, and the probe for a live  *)
(* key gets to its entry: a revived one is the only one of its key         *)
(* (kvtable_priv.h 142-209).                                               *)
(***************************************************************************)
THEOREM RevivalIsSafe == SSpec => []OneEntryRemembered
BY StaticHolds, OneEntryThen, PTL

(***************************************************************************)
(* The arena holds the five arrays of the table and nothing else: a table  *)
(* that is given up, or could not be made, leaves no bytes taken (30-81).  *)
(***************************************************************************)
THEOREM ArenaGivenBack == SSpec => []ArenaHoldsArrays
<1>1. ArenaInv => ArenaHoldsArrays
  BY DEF ArenaInv
<1> QED BY <1>1, StaticHolds, PTL

LEMMA SCallsMeanThen == StaticInv /\ ArenaInv => SCallsMean
<1> SUFFICES ASSUME StaticInv, ArenaInv, NEW k \in Keys
             PROVE  /\ \A v \in Vals : SInsert(k, v) => Abs!Put(k, v)
                    /\ SLookupKey(k) => Abs!Get(k)
                    /\ SRemove(k) => \/ Abs!Remove(k)
                                     \/ MapOf[k] = NoVal /\ (Abs!Refuse \/ Abs!Compact)
  BY DEF SCallsMean
<1>1. ASSUME NEW v \in Vals, SInsert(k, v) PROVE Abs!Put(k, v)
  BY <1>1, SInsertStep
<1>2. ASSUME SLookupKey(k) PROVE Abs!Get(k)
  BY <1>2, SLookupStep
<1>3. ASSUME SRemove(k)
      PROVE  Abs!Remove(k) \/ (MapOf[k] = NoVal /\ (Abs!Refuse \/ Abs!Compact))
  BY <1>3, SRemoveStep
<1> QED BY <1>1, <1>2, <1>3

LEMMA StaticMapInit == SInit => Abs!Init
<1> SUFFICES ASSUME SInit PROVE Abs!Init
  OBVIOUS
<1>1. StaticInv /\ kvt.cnt = 0
  BY StaticInitially, NoTableIndexed DEF SInit
<1>2. MapOf = Abs!EmptyMap
  BY <1>1, MapIs, NoValues
<1> QED BY <1>2 DEF SInit, NoClient, Abs!Init

(***************************************************************************)
(* The static table implements the map, each call as the operation it is   *)
(* named for, whatever is revived or rebuilt (163-221).                    *)
(***************************************************************************)
THEOREM StaticTableIsMap == SSpec => RefinesMap
<1>1. StaticInv /\ ArenaInv /\ [SNext]_svars => [Abs!Next]_Abs!vars
  BY StaticStep
<1>2. StaticInv /\ ArenaInv => [SCallsMean]_svars
  BY SCallsMeanThen
<1>3. SSpec => Abs!Init /\ [][Abs!Next]_Abs!vars
  BY StaticMapInit, StaticHolds, <1>1, PTL DEF SSpec
<1>4. SSpec => [][SCallsMean]_svars
  BY StaticHolds, <1>2, PTL
<1> QED BY <1>3, <1>4, PTL DEF RefinesMap, Abs!Spec
=============================================================================

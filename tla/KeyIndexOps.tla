---------------------------- MODULE KeyIndexOps -----------------------------
(***************************************************************************)
(* The scheme kv/key_index_table and kv/kvtable_static share: an array of  *)
(* entries, each of one key and never reused for another, under a hash     *)
(* index.  Removing a key marks its entry dead and counts it; inserting it *)
(* again revives the entry, unless the index was rebuilt in between: a     *)
(* rebuild leaves the dead out, and then the key gets a new entry.         *)
(***************************************************************************)
EXTENDS HashIndex

CONSTANTS
  Keys, NoKey,        \* the keys clients use; what a zeroed entry holds
  Hash                \* ht_ops.hash32 of a key

ASSUME KeyAssumption == NoKey \notin Keys /\ Hash \in [Keys -> Nat]

EntryStat == {"EMPTY", "INUSE", "DELETED"}

KeyEntry == [key : Keys \cup {NoKey}, stat : EntryStat]

KeyIndexOf(cap) ==
  [cap : {cap}, cnt : 0..cap, dead : Nat,
   ents : [0..cap-1 -> KeyEntry],
   idx  : [0..cap-1 -> {HT_KIDX_SLOT_EMPTY} \cup 0..cap-1]]

NewKeyIndex(cap) ==
  [cap |-> cap, cnt |-> 0, dead |-> 0,
   ents |-> [j \in 0..cap-1 |-> [key |-> NoKey, stat |-> "EMPTY"]],
   idx |-> HashIndexInit(cap)]

\* A capacity that is no power of two is taken up to the next one.
RoundUp(n) ==
  LET double[c \in 1..2*n+1] == IF c >= n THEN c ELSE double[2*c]
  IN  double[1]

-----------------------------------------------------------------------------
KEY_NOT_FOUND == -11

\* The steps at which a probe for k stands on an entry of k, live or dead.
MatchSteps(t, k) ==
  {n \in 0..t.cap-1 :
     LET kidx == t.idx[Slot(Hash[k], n, t.cap)] IN
       /\ kidx >= 0 /\ t.ents[kidx].stat # "EMPTY" /\ t.ents[kidx].key = k
       /\ ProbeReaches(t.idx, t.cap, Hash[k], n)}

\* The private lookup, which finds dead entries too.
Find(t, k) ==
  LET steps == MatchSteps(t, k) IN
    IF steps = {} THEN KEY_NOT_FOUND ELSE t.idx[Slot(Hash[k], Min(steps), t.cap)]

\* The public lookup does not.  Mutant: it does.
M_FindLive(t, k) == Find(t, k)
FindLive(t, k) ==
  LET n == Find(t, k) IN
    IF n < 0 THEN KEY_NOT_FOUND
    ELSE IF t.ents[n].stat = "INUSE" THEN n ELSE KEY_NOT_FOUND

-----------------------------------------------------------------------------
\* Mutant: the limit is the whole array.
M_Full(t) == t.cnt > t.cap
Full(t) == t.cnt * 4 >= t.cap * 3

ShouldRebuild(t) == t.dead * 2 >= t.cnt

\* Mutant: the index is not emptied first.
M_Rebuilt(t) ==
  LET f[n \in 0..t.cnt] ==
        IF n = 0 THEN t.idx
        ELSE IF t.ents[n-1].stat = "INUSE"
             THEN HashIndexInsert(f[n-1], t.cap, Hash[t.ents[n-1].key], n-1)
             ELSE f[n-1]
  IN  [t EXCEPT !.idx = f[t.cnt]]

\* The index of the live entries alone, in their order.
Rebuilt(t) ==
  LET f[n \in 0..t.cnt] ==
        IF n = 0 THEN HashIndexInit(t.cap)
        ELSE IF t.ents[n-1].stat = "INUSE"
             THEN HashIndexInsert(f[n-1], t.cap, Hash[t.ents[n-1].key], n-1)
             ELSE f[n-1]
  IN  [t EXCEPT !.idx = f[t.cnt]]

\* Every insertion into a table half dead begins with a rebuild.
Prepared(t) == IF ShouldRebuild(t) THEN Rebuilt(t) ELSE t

\* A new entry for k at the end of the array.
Appended(t, k) ==
  [t EXCEPT !.ents[t.cnt] = [key |-> k, stat |-> "INUSE"],
            !.idx = HashIndexInsert(t.idx, t.cap, Hash[k], t.cnt),
            !.cnt = t.cnt + 1]

\* Mutant: the count of the dead is lowered for a live entry too.
M_Revived(t, n) == [t EXCEPT !.ents[n].stat = "INUSE", !.dead = t.dead - 1]

\* Entry n lives, and is no longer counted as dead if it was.
Revived(t, n) ==
  [t EXCEPT !.ents[n].stat = "INUSE",
            !.dead = IF t.ents[n].stat = "DELETED" THEN t.dead - 1 ELSE t.dead]

\* Removing counts the entry again if it was dead already.
Removed(t, k) ==
  LET n == Find(t, k) IN
    IF n < 0 THEN t ELSE [t EXCEPT !.ents[n].stat = "DELETED", !.dead = t.dead + 1]
=============================================================================

---------------------------- MODULE KeyIndexMap -----------------------------
(***************************************************************************)
(* What a client of the key index table is promised: each key it inserts   *)
(* gets a number, the same one as long as the key stays, and no number is  *)
(* ever given to two keys.  That is what lets a client keep the values in  *)
(* an array of its own, as kitt.c does.                                    *)
(***************************************************************************)
EXTENDS Integers

CONSTANTS Keys, NoKey, Numbers

VARIABLES
  number,   \* the number of each key, None if it is not in the table
  owner,    \* the key each number was given to, for good
  ret       \* the answer of the last operation

vars == <<number, owner, ret>>

None == -1

Init == number = [k \in Keys |-> None] /\ owner = [n \in Numbers |-> NoKey] /\ ret = None

Insert(k, n) ==
  /\ IF number[k] = None THEN owner[n] \in {NoKey, k} ELSE n = number[k]
  /\ number' = [number EXCEPT ![k] = n]
  /\ owner' = [owner EXCEPT ![n] = k]
  /\ ret' = n

Refuse == ret' = None /\ UNCHANGED <<number, owner>>

\* A key that is not there any more may be reported as removed again.
Remove(k) ==
  /\ number' = [number EXCEPT ![k] = None]
  /\ ret' \in Numbers /\ owner[ret'] = k
  /\ UNCHANGED owner

Lookup(k) == ret' = number[k] /\ UNCHANGED <<number, owner>>

\* The table is set up, given up, or lost with its process.
Reset == number' = [k \in Keys |-> None] /\ owner' = [n \in Numbers |-> NoKey] /\ ret' \in {None, 0}

Next ==
  \/ \E k \in Keys : Lookup(k) \/ Remove(k) \/ \E n \in Numbers : Insert(k, n)
  \/ Refuse \/ Reset

Spec == Init /\ [][Next]_vars
=============================================================================

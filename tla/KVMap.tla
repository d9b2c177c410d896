------------------------------- MODULE KVMap --------------------------------
(***************************************************************************)
(* What a client of the key-value table is promised: a map from keys to    *)
(* values behind one handle.  No hashes, entries, arena or copying.        *)
(*                                                                         *)
(* An operation may be refused and then changes nothing.  The process may  *)
(* die in one (a failed assertion), or the table may be lost in one and    *)
(* leave the caller a handle to freed memory.                              *)
(***************************************************************************)
CONSTANTS Keys, Vals, NoVal

VARIABLES
  map,      \* what each key is bound to, NoVal for nothing
  phase,    \* "none", "ready", "aborted" or "dangling"
  ret       \* the answer of the last operation

vars == <<map, phase, ret>>

EmptyMap == [k \in Keys |-> NoVal]

Phase == {"none", "ready", "aborted", "dangling"}
Result == {"ok", "fail"} \cup Vals \cup {NoVal}

TypeOK ==
  /\ map \in [Keys -> Vals \cup {NoVal}]
  /\ phase \in Phase
  /\ ret \in Result

Init == map = EmptyMap /\ phase = "none" /\ ret = "ok"

Create ==
  /\ phase = "none"
  /\ phase' = "ready"
  /\ ret' = "ok"
  /\ UNCHANGED map

\* A failed operation tells the caller so and has no other effect.
Refuse ==
  /\ phase \in {"none", "ready"}
  /\ ret' = "fail"
  /\ UNCHANGED <<map, phase>>

Put(k, v) ==
  /\ phase = "ready"
  /\ map' = [map EXCEPT ![k] = v]
  /\ ret' = "ok"
  /\ UNCHANGED phase

Get(k) ==
  /\ phase = "ready"
  /\ ret' = map[k]
  /\ UNCHANGED <<map, phase>>

Remove(k) ==
  /\ phase = "ready"
  /\ map[k] # NoVal
  /\ map' = [map EXCEPT ![k] = NoVal]
  /\ ret' = "ok"
  /\ UNCHANGED phase

Compact ==
  /\ phase = "ready"
  /\ ret' = "ok"
  /\ UNCHANGED <<map, phase>>

\* The table is gone: destroyed by its owner, or lost in a failed operation.
\* The process may die in the attempt to create one, too.
Gone(how) ==
  /\ phase = "ready" \/ (phase = "none" /\ how = "aborted")
  /\ phase' = how
  /\ map' = EmptyMap
  /\ ret' = IF how = "none" THEN "ok" ELSE "fail"

Restart ==
  /\ phase \in {"aborted", "dangling"}
  /\ phase' = "none"
  /\ ret' = "ok"
  /\ UNCHANGED map

Next ==
  \/ Create \/ Refuse \/ Compact \/ Restart
  \/ \E k \in Keys : Get(k) \/ Remove(k) \/ \E v \in Vals : Put(k, v)
  \/ \E how \in {"none", "aborted", "dangling"} : Gone(how)

Spec == Init /\ [][Next]_vars
=============================================================================

----------------------------- MODULE VectorSeq ------------------------------
(***************************************************************************)
(* What every vector of the repository promises: it is a finite sequence,  *)
(* a call either does what it is for or changes nothing, and its answer    *)
(* says which.                                                             *)
(***************************************************************************)
EXTENDS Sequences, Naturals

CONSTANT Elems

VARIABLES
  seq,      \* the elements
  ret       \* the answer of the last call

vars == <<seq, ret>>

Init == seq = <<>> /\ ret = "ok"

Push(e) == seq' = Append(seq, e) /\ ret' = "pushed"

Pop == seq # <<>> /\ seq' = SubSeq(seq, 1, Len(seq) - 1) /\ ret' = "popped"

\* Growth, reading and refusals leave the elements alone.
Keep == seq' = seq /\ ret' \in {"ok", "fail"}

Empty == seq' = <<>> /\ ret' \in {"ok", "fail"}

\* A vector made of given elements.
Assign == seq = <<>> /\ seq' \in Seq(Elems) /\ ret' = "ok"

Next ==
  \/ \E e \in Elems : Push(e)
  \/ Assign \/ Pop \/ Keep \/ Empty

Spec == Init /\ [][Next]_vars
=============================================================================

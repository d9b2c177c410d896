-------------------------------- MODULE Kitt --------------------------------
(***************************************************************************)
(* The program kitt.c: a key index table and, beside it, a vector of the   *)
(* values in which the table's numbers are the indices.  put_kv inserts    *)
(* the key and pushes the value, and looks at neither answer.  Any other   *)
(* client of the table is a behaviour of this module, too.                 *)
(***************************************************************************)
EXTENDS KeyIndexProps, Sequences

VARIABLES
  client,   \* "kitt", or "any" for a program that calls what it likes
  vec,      \* the keys of the values pushed; a value is known by its key
  put,      \* history: the keys put so far
  short     \* history: the arena refused a key that the table had room for, or
            \* realloc a value

kittVars == <<vars, client, vec, put, short>>

KInit == Init /\ client \in {"kitt", "any"} /\ vec = <<>> /\ put = {} /\ short = FALSE

\* main creates the table, and only then the vector.
KStart(n) == InitTable(n) /\ vec' = <<>> /\ put' = {} /\ short' = FALSE

\* HPDSVector_push found no cell free: the vector began with one cell, and
\* only ever doubled.
VecFull == \E e \in 0..Len(vec) : Len(vec) = 2^e

\* What put_kv does beside the insertion: the value is pushed, whatever became
\* of the key.  A full vector has to grow first, and realloc may refuse.
Pushed(k) ==
  /\ put' = put \cup {k}
  /\ \/ phase' = "ready" /\ vec' = Append(vec, k) /\ short' = (short \/ (~Full(kit) /\ ret' < 0))
     \/ phase' = "ready" /\ VecFull /\ vec' = vec /\ short' = TRUE
     \/ phase' # "ready" /\ vec' = <<>> /\ short' = short

\* Mutant: the same key may be put again.
M_PutKv(k) == Insert(k) /\ Pushed(k)

\* main puts each key once.
PutKv(k) == k \notin put /\ Insert(k) /\ Pushed(k)

PrintPair(k) == LookupKey(k) /\ UNCHANGED <<vec, put, short>>

KEnd == (Deinit \/ Restart) /\ vec' = <<>> /\ put' = {} /\ short' = FALSE

KittCalls ==
  \/ \E n \in InitCaps : KStart(n)
  \/ \E k \in Keys : PutKv(k) \/ PrintPair(k)
  \/ KEnd

KNext ==
  /\ \/ client = "kitt" /\ KittCalls
     \/ client = "any" /\ Calls /\ UNCHANGED <<vec, put, short>>
  /\ UNCHANGED <<client, ndebug>>

KSpec == KInit /\ [][KNext]_kittVars

(***************************************************************************)
(* The value printed for a key is the one put with it (kitt.c 23-33): the  *)
(* table's numbers and the vector's indices stay in step, a table that     *)
(* fills up included: once it refuses a key it refuses every later one.    *)
(* An arena does not: after a key that found no room a shorter one may,    *)
(* and its number is then below its value's index.  Nor does realloc: a    *)
(* value it refused leaves the later ones an index too low.                *)
(***************************************************************************)
PrintsItsOwnValue ==
  \A k \in Keys : LET n == FindLive(kit, k) IN
    client = "kitt" /\ phase = "ready" /\ ~short /\ n >= 0 => n < Len(vec) /\ vec[n + 1] = k
=============================================================================

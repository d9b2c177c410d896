--------------------------- MODULE KeyIndexClient ---------------------------
(***************************************************************************)
(* What the clients of KeyIndexTable and StaticKVTable have in common: one *)
(* table at a time, in an arena the client owns and whose cursor it        *)
(* remembers, built with assertions or without.                            *)
(***************************************************************************)
EXTENDS KeyIndexOps, ArenaOps

CONSTANTS
  InitCaps,           \* the capacities clients ask for
  ArenaSizes,
  Builds,             \* NDEBUG of each build of the program
  MaxDead             \* bound on deleted_cnt: no call of remove beyond it

ASSUME ClientAssumption ==
  /\ InitCaps \subseteq Nat /\ ArenaSizes \subseteq Nat
  /\ Builds \subseteq BOOLEAN /\ MaxDead \in Nat

VARIABLES
  phase,    \* "none": no table; "ready"; "aborted": an assertion failed
  mem,      \* the arena
  mark,     \* the cursor the client remembered
  ret,      \* the answer of the last call
  ndebug    \* is the program built without assertions?

ALLOC_ALIGN == 4
SizeofSlot == 4

NoTable == NewKeyIndex(0)

\* A client that has no table yet.
NoClient ==
  /\ phase = "none" /\ mark = 0 /\ ndebug \in Builds
  /\ mem \in {ArenaInit(size) : size \in ArenaSizes}
=============================================================================

------------------------------ MODULE KVTable -------------------------------
(***************************************************************************)
(* One table behind one handle, and its client: kv/kvtable/kv.c.           *)
(*                                                                         *)
(* Every call is one step, except that _KVTable_copy, the loop by which a  *)
(* compaction and a resize fill the new table, takes one step per entry.   *)
(* Nothing else runs in between: the code is single-threaded.              *)
(*                                                                         *)
(* Memory is finite: malloc may always fail, and does beyond MaxCap        *)
(* entries or MaxMem arena bytes.  The two bounds keep the model finite.   *)
(***************************************************************************)
EXTENDS KVTableOps

CONSTANTS
  Builds,             \* NDEBUG of each build of the program: the makefile keeps assertions
  CreateCaps, CreateSizes,  \* the arguments clients create tables with
  MaxCap, MaxMem

ASSUME BoundAssumption ==
  /\ Builds \subseteq BOOLEAN
  /\ CreateCaps \subseteq Nat /\ CreateSizes \subseteq Nat
  /\ MaxCap \in Nat /\ MaxMem \in Nat

VARIABLES
  phase,    \* "none": no handle; "ready": a table; "copy": in _KVTable_copy;
            \* "aborted": an assertion failed; "dangling": the handle's table
            \* was freed by a call that returned NULL
  tbl,      \* the handle's table, NULL if there is none
  new,      \* the table being filled, NULL outside "copy"
  call,     \* the call that is copying
  i,        \* _KVTable_copy's loop index
  ret,      \* the answer of the last call
  ndebug    \* is the program built without assertions?

vars == <<phase, tbl, new, call, i, ret, ndebug>>

NoCall == [op |-> "none", key |-> NoKey, val |-> NoVal]
CompactCall == [op |-> "compact", key |-> NoKey, val |-> NoVal]
InsertCall(k, v) == [op |-> "insert", key |-> k, val |-> v]

Call == [op : {"none", "compact", "insert"}, key : Keys \cup {NoKey},
         val : Vals \cup {NoVal}]

IsTable(t) == \E cap \in 0..MaxCap : t \in TableOf(cap)

TypeOK ==
  /\ phase \in {"none", "ready", "copy", "aborted", "dangling"}
  /\ IsTable(tbl) /\ IsTable(new)
  /\ call \in Call
  /\ i \in 0..MaxCap
  /\ ret \in {"ok", "fail"} \cup Vals \cup {NoVal} /\ ndebug \in Builds

Init ==
  /\ phase = "none" /\ tbl = NULL /\ new = NULL
  /\ call = NoCall /\ i = 0 /\ ret = "ok"
  /\ ndebug \in Builds

-----------------------------------------------------------------------------
\* What KVTable_create may return.
CreateResults(cap, size) ==
  {NULL} \cup IF ValidCreateArgs(cap, size) /\ cap <= MaxCap /\ size <= MaxMem
              THEN {NewTable(cap, size)} ELSE {}

\* A call has returned r; no copy is in progress.
Returns(r) == new' = NULL /\ call' = NoCall /\ i' = 0 /\ ret' = r

\* A call that changes nothing.
Refuses == Returns("fail") /\ UNCHANGED <<phase, tbl>>

\* An assertion fails: the process dies with its memory.
Aborts == phase' = "aborted" /\ tbl' = NULL /\ Returns("fail")

Create(cap, size) ==
  /\ phase = "none"
  /\ \E t \in CreateResults(cap, size) :
       IF ValidTable(t) THEN phase' = "ready" /\ tbl' = t /\ Returns("ok")
                        ELSE Refuses

Destroy ==
  /\ phase = "ready"
  /\ phase' = "none" /\ tbl' = NULL /\ Returns("ok")

LookupKey(k) ==
  /\ phase = "ready"
  /\ Returns(LookupVal(tbl, k))
  /\ UNCHANGED <<phase, tbl>>

Remove(k) ==
  /\ phase = "ready"
  /\ tbl' = RemoveKey(tbl, k)
  /\ Returns(IF Lookup(tbl, k) < 0 THEN "fail" ELSE "ok")
  /\ UNCHANGED phase

-----------------------------------------------------------------------------
\* The end of KVTable_insert: the key's old entry dies, then the pair is
\* appended to t.  Without assertions a pair that does not fit is reported;
\* if t is the new table of a resize, it leaks and the caller's is gone.
InsertInto(t, k, v) ==
  LET t1 == RemoveKey(t, k)
      t2 == AppendEntry(t1, k, v)
  IN  IF PairFits(t1.mem, k, v)
      THEN phase' = "ready" /\ tbl' = t2 /\ Returns("ok")
      ELSE IF ~ndebug THEN Aborts
      ELSE /\ Returns("fail")
           /\ phase' = IF phase = "copy" THEN "dangling" ELSE "ready"
           /\ tbl'   = IF phase = "copy" THEN NULL ELSE t2

InsertRefused(k, v) ==
  /\ phase = "ready" /\ ~ValidPair(k, v)
  /\ Refuses

InsertInPlace(k, v) ==
  /\ phase = "ready" /\ ValidPair(k, v)
  /\ ~ShouldResize(tbl, k, v)
  /\ InsertInto(tbl, k, v)

\* A call that needs a second table starts copying into it.
StartCopy(c, cap, size) ==
  \E t \in CreateResults(cap, size) :
    IF ValidTable(t)
    THEN phase' = "copy" /\ new' = t /\ call' = c /\ i' = 0 /\ UNCHANGED <<tbl, ret>>
    ELSE Refuses

\* Mutant: the key's old entry is removed before the new table is created.
M_InsertResize(k, v) ==
  /\ phase = "ready" /\ ValidPair(k, v)
  /\ ShouldResize(tbl, k, v)
  /\ \E t \in CreateResults(ResizeCap(tbl), ResizeMem(tbl, k, v)) :
       /\ tbl' = RemoveKey(tbl, k)
       /\ IF ValidTable(t)
          THEN phase' = "copy" /\ new' = t /\ call' = InsertCall(k, v) /\ i' = 0 /\ UNCHANGED ret
          ELSE Returns("fail") /\ UNCHANGED phase

InsertResize(k, v) ==
  /\ phase = "ready" /\ ValidPair(k, v)
  /\ ShouldResize(tbl, k, v)
  /\ StartCopy(InsertCall(k, v), ResizeCap(tbl), ResizeMem(tbl, k, v))

Compact ==
  /\ phase = "ready"
  /\ StartCopy(CompactCall, tbl.cap, tbl.mem.size)

-----------------------------------------------------------------------------
Copying == phase = "copy" /\ i < tbl.cnt

\* Mutant: the dead entry is skipped without moving on.
M_SkipDeleted ==
  /\ Copying /\ tbl.ents[i].stat = "DELETED"
  /\ UNCHANGED vars

SkipDeleted ==
  /\ Copying /\ tbl.ents[i].stat = "DELETED"
  /\ i' = i + 1
  /\ UNCHANGED <<phase, tbl, new, call, ret>>

\* Mutant: dead entries are copied like live ones.
M_CopyEntry ==
  /\ Copying
  /\ LET e == tbl.ents[i] IN
       IF PairFits(new.mem, e.key, e.val)
       THEN /\ new' = AppendEntry(new, e.key, e.val) /\ i' = i + 1
            /\ UNCHANGED <<phase, tbl, call, ret>>
       ELSE Aborts

\* One entry is appended to the new table.  If it does not fit, the process
\* dies, or, without assertions, the new table is destroyed.
CopyEntry ==
  /\ Copying /\ tbl.ents[i].stat # "DELETED"
  /\ LET e == tbl.ents[i] IN
       IF PairFits(new.mem, e.key, e.val)
       THEN /\ new' = AppendEntry(new, e.key, e.val) /\ i' = i + 1
            /\ UNCHANGED <<phase, tbl, call, ret>>
       ELSE IF ndebug THEN Returns("fail") /\ phase' = "ready" /\ UNCHANGED tbl
                      ELSE Aborts

CopyDone == phase = "copy" /\ i = tbl.cnt

\* The old table is destroyed and the new one is the handle's.
CompactDone ==
  /\ CopyDone /\ call.op = "compact"
  /\ phase' = "ready" /\ tbl' = new /\ Returns("ok")

InsertResized ==
  /\ CopyDone /\ call.op = "insert"
  /\ InsertInto(new, call.key, call.val)

-----------------------------------------------------------------------------
\* The next process, or a client that gives up its stale handle.
Restart ==
  /\ phase \in {"aborted", "dangling"}
  /\ phase' = "none" /\ Returns("ok") /\ UNCHANGED tbl

CopyStep ==
  /\ SkipDeleted \/ CopyEntry \/ CompactDone \/ InsertResized
  /\ UNCHANGED ndebug

Calls ==
  \/ \E cap \in CreateCaps, size \in CreateSizes : Create(cap, size)
  \/ Destroy
  \/ \E k \in Keys : LookupKey(k) \/ Remove(k)
  \/ \E k \in Keys, v \in Vals :
       InsertRefused(k, v) \/ InsertInPlace(k, v) \/ InsertResize(k, v)
  \/ Compact
  \/ CopyStep
  \/ Restart

Next == Calls /\ UNCHANGED ndebug

\* A call that has begun runs on: nothing in the code waits.
Spec == Init /\ [][Next]_vars /\ WF_vars(CopyStep)
=============================================================================

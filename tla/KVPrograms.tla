----------------------------- MODULE KVPrograms ------------------------------
(***************************************************************************)
(* The programs over the table and its file, each run after the other on   *)
(* one file: mkkvdat.cpp, which fills a table with pairs its user types    *)
(* and saves it, main.c, which does so for keys of its own and answers     *)
(* lookups, and rdkvdat.cpp, which loads a file, prints it and answers     *)
(* lookups.  They are built with assertions, as the makefile does.  Any    *)
(* other client of the table and the file is a behaviour of this module,   *)
(* too.                                                                    *)
(***************************************************************************)
EXTENDS KVFileProps

CONSTANTS
  MEM_SIZE,      \* the arena size they create tables with
  MainKeys,      \* the keys in main's vector
  MainCap,       \* the capacity main asks for
  KvCaps,        \* the capacities mkkvdat is told
  AnyKeys, AnySaves  \* bounds: the keys other clients insert, and their saves

\* The programs are clients of the table.  Lines, and main's own keys, are
\* short: a pair of them fits the arena and the file's key_len.
ASSUME ProgramAssumption ==
  /\ MEM_SIZE \in CreateSizes /\ {MainCap} \cup KvCaps \subseteq CreateCaps
  /\ MainKeys \in Seq({k \in Keys : KLen[k] < WordMod}) \ {<<>>}
  /\ AnyKeys \subseteq Keys /\ AnySaves \in Nat
  /\ \A k \in Keys, v \in Vals :
       KLen[k] < WordMod => PairBytes(k, v) <= MEM_SIZE

VARIABLES
  client,   \* "programs", or "any" for a program that calls what it likes
  run,      \* the program that runs and what it has in its variables
  runs      \* history: what each save was to hold, beside saves

progVars == <<allVars, client, run, runs>>

NoPair == <<NoKey, NoVal>>

\* prog and at: the program and where in it.  n of max: the turn of its loop.
\* typed and vals: main's input and its vector of values.  pair: what is being
\* inserted.  told: history, the pairs that were typed and whose insertion
\* succeeded.  exact: history, main inserted nothing else than was in its vector,
\* and the vector took every value.
NoRun == [prog |-> "none", at |-> "start", n |-> 0, max |-> 0, typed |-> <<>>,
          vals |-> <<>>, pair |-> NoPair, told |-> <<>>, exact |-> TRUE]

PInit ==
  /\ FInit /\ client \in {"programs", "any"} /\ run = NoRun /\ runs = <<>>
  /\ client = "programs" => ~ndebug

At(prog, at) == run.prog = prog /\ run.at = at
GoTo(at) == run' = [run EXCEPT !.at = at]

\* What can be typed as a key: a line has at most 4095 bytes.
KeyLines == {k \in Keys : KLen[k] < WordMod}
\* A blank line is no string: cstr_to_lpbuf makes NULL of it, which no
\* insertion takes.
ValLines == Vals \cup {NoVal}

-----------------------------------------------------------------------------
\* The part every writer has: a call of KVTable_insert, and what follows it.
CallInsert(k, v) ==
  /\ phase = "ready"
  /\ IF NoKey = k \/ NoVal = v THEN Refuses
     ELSE InsertRefused(k, v) \/ InsertInPlace(k, v) \/ InsertResize(k, v)
  /\ UNCHANGED fileVars

\* The user typed this value for the key that is being inserted.
Typed == IF run.prog = "main" /\ run.n < Len(run.typed) THEN run.typed[run.n + 1]
         ELSE run.pair[2]

\* main stops at the first insertion that fails, mkkvdat goes on.
InsertReturned ==
  /\ run.at = "inserting" /\ phase = "ready"
  /\ run' = [run EXCEPT
       !.n = @ + 1,
       !.told = IF ret = "ok" THEN Append(@, <<run.pair[1], Typed>>) ELSE @,
       !.exact = @ /\ ~(ret = "ok" /\ run.prog = "main" /\ run.n >= Len(run.vals)),
       !.at = IF run.n + 1 = run.max \/ (ret = "fail" /\ run.prog = "main")
              THEN "save" ELSE "insert"]
  /\ UNCHANGED <<vars, fileVars, runs>>

\* The table is saved; the history gets what it was to hold.
CallSave(truncate) ==
  /\ Save(truncate)
  /\ runs' = IF saves' = saves THEN runs
             ELSE Append(runs, [told |-> run.told, exact |-> run.exact])
  /\ GoTo("saving")

\* The destructor.
End == Destroy /\ run' = NoRun /\ UNCHANGED <<fileVars, runs>>

-----------------------------------------------------------------------------
\* main.c.  An assertion of its own fails: the process is gone.
MainAborts ==
  /\ phase' = "none" /\ tbl' = NULL /\ Returns("fail")
  /\ run' = NoRun /\ UNCHANGED <<runs, fileVars>>

MainStart ==
  /\ run = NoRun /\ phase = "none" /\ Len(saves) < MaxSaves
  /\ \/ MainAborts
     \/ /\ Create(MainCap, MEM_SIZE) /\ phase' = "ready"
        /\ run' = [NoRun EXCEPT !.prog = "main", !.at = "read", !.max = Len(MainKeys)]
        /\ UNCHANGED <<fileVars, runs>>

\* Mutant: as a comment in the code has it, NULL is not pushed.
M_Pushed(vals, val) == IF val = NoVal THEN vals ELSE Append(vals, val)
Pushed(vals, val) == Append(vals, val)

\* One value is read: the copy of a line may fail, and is NULL then; so may the
\* push, and then the values after it move up.  A blank line is the last one.
MainRead ==
  /\ At("main", "read")
  /\ \E line \in ValLines, val \in ValLines, ok \in BOOLEAN :
       /\ val \in {line, NoVal}
       /\ run' = [run EXCEPT
            !.typed = Append(@, line),
            !.vals  = IF ok THEN Pushed(@, val) ELSE @,
            !.exact = @ /\ ok,
            !.at    = IF (ok /\ line = NoVal) \/ Len(run.typed) + 1 = run.max
                      THEN "insert" ELSE "read"]
  /\ UNCHANGED <<vars, fileVars, runs>>

\* The input ends, or a line is too long: nothing marks the end of the values.
MainReadEnds == At("main", "read") /\ GoTo("insert") /\ UNCHANGED <<vars, fileVars, runs>>

\* Vector_get does not check its index: past the end it reads anything.
ValueAt(m) == IF m < Len(run.vals) THEN {run.vals[m + 1]} ELSE ValLines
PastEnd == At("main", "insert") /\ run.n >= Len(run.vals)

MainInsert ==
  /\ At("main", "insert")
  /\ \E v \in ValueAt(run.n) :
       /\ CallInsert(MainKeys[run.n + 1], v)
       /\ run' = [run EXCEPT !.at = "inserting", !.pair = <<MainKeys[run.n + 1], v>>]
  /\ UNCHANGED runs

\* Following what it read there kills the process.
MainStrays == PastEnd /\ MainAborts

\* The file is opened without cutting it.  If it cannot be opened, or saved,
\* an assertion fails.
MainSave == At("main", "save") /\ (CallSave(FALSE) \/ MainAborts)

MainSaved ==
  /\ At("main", "saving") /\ phase = "ready"
  /\ IF ret = "ok" THEN GoTo("show") /\ UNCHANGED <<vars, fileVars, runs>>
                   ELSE MainAborts

-----------------------------------------------------------------------------
\* mkkvdat.cpp.  The capacity is an argument; so many pairs are typed.
MkStart ==
  /\ run = NoRun /\ Len(saves) < MaxSaves
  /\ \E kvcap \in KvCaps :
       /\ Create(kvcap, MEM_SIZE)
       /\ run' = IF phase' = "ready"
                 THEN [NoRun EXCEPT !.prog = "mkkvdat", !.at = "insert", !.max = kvcap]
                 ELSE NoRun
  /\ UNCHANGED <<fileVars, runs>>

MkInsert ==
  /\ At("mkkvdat", "insert")
  /\ \E k \in KeyLines, v \in Vals :
       CallInsert(k, v) /\ run' = [run EXCEPT !.at = "inserting", !.pair = <<k, v>>]
  /\ UNCHANGED runs

\* A pair with a blank key or value is passed over.
MkSkip ==
  /\ At("mkkvdat", "insert")
  /\ run' = [run EXCEPT !.n = @ + 1,
                        !.at = IF run.n + 1 = run.max THEN "save" ELSE "insert"]
  /\ UNCHANGED <<vars, fileVars, runs>>

\* The wrapper cuts the file first; it may not open.
MkSave ==
  /\ At("mkkvdat", "save")
  /\ CallSave(TRUE) \/ (GoTo("end") /\ UNCHANGED <<vars, fileVars, runs>>)

\* Whether the save succeeded is only printed.
MkEnd ==
  /\ run.prog = "mkkvdat" /\ run.at \in {"saving", "end"}
  /\ End

-----------------------------------------------------------------------------
\* rdkvdat.cpp.  Its table is a fresh one; if nothing is loaded it ends.
RdStart ==
  /\ run = NoRun /\ phase = "none"
  /\ Load
  /\ run' = IF phase' = "load" THEN [NoRun EXCEPT !.prog = "rdkvdat", !.at = "show"] ELSE NoRun
  /\ UNCHANGED runs

\* KVTable_get, from the first entry to the last: the dead are shown, too.
Shown(t) == [j \in Entries(t) |-> <<t.ents[j].key, t.ents[j].val>>]

\* main and rdkvdat answer lookups until their user has enough.
Answer ==
  /\ run.at = "show"
  /\ \E k \in KeyLines : LookupKey(k)
  /\ UNCHANGED <<run, runs, fileVars>>
ShowEnd == run.at = "show" /\ End

-----------------------------------------------------------------------------
\* A call of the library runs on.
RunOn ==
  /\ \/ CopyStep /\ UNCHANGED fileVars
     \/ SaveSize \/ SaveHeader \/ SaveToc \/ SaveData \/ SaveFooter
     \/ LoadEntry \/ LoadDone
     \/ \E chunk \in DOMAIN file : Writeback(chunk)
  /\ UNCHANGED <<run, runs>>

Stopped ==
  /\ Kill \/ PowerLoss
  /\ run' = NoRun /\ UNCHANGED runs

Programs ==
  \/ MainStart \/ MainRead \/ MainReadEnds \/ MainInsert \/ MainStrays
  \/ MainSave \/ MainSaved
  \/ MkStart \/ MkInsert \/ MkSkip \/ MkSave \/ MkEnd
  \/ RdStart \/ InsertReturned \/ Answer \/ ShowEnd
  \/ RunOn \/ Stopped

KeysIn(t) == {t.ents[j].key : j \in Entries(t)}

PNext ==
  \/ client = "programs" /\ Programs /\ UNCHANGED <<client, ndebug>>
  \/ /\ client = "any" /\ FNext /\ UNCHANGED <<client, run, runs>>
     /\ call'.key \in AnyKeys \cup {NoKey} /\ KeysIn(tbl') \subseteq AnyKeys \cup {NoKey}
     /\ Len(saves') <= AnySaves

PSpec == PInit /\ [][PNext]_progVars

-----------------------------------------------------------------------------
\* The table has, for each key told, the last value, and shows what was told
\* in the order in which it was, leaving out nothing but values replaced.
LastTold(told) ==
  [k \in Keys |->
     LET ns == {m \in DOMAIN told : told[m][1] = k}
     IN  IF ns = {} THEN NoVal ELSE told[CHOOSE m \in ns : \A o \in ns : o <= m][2]]

InOrder(shown, told) ==
  \E at \in [DOMAIN shown -> DOMAIN told] :
    /\ \A j, m \in DOMAIN shown : j < m => at[j] < at[m]
    /\ \A j \in DOMAIN shown : shown[j] = told[at[j]]

Holds(t, told) == MapOf(t) = LastTold(told) /\ InOrder(Shown(t), told)

(***************************************************************************)
(* What rdkvdat prints and answers is what a user once told mkkvdat or     *)
(* main, over any number of programs killed in between and saves over      *)
(* saves; the same holds of main itself.  It does not hold of a run of     *)
(* main whose input ended early or whose vector did not grow: values are   *)
(* then another key's, or none that was typed (main.c 90-94, 110,          *)
(* mkkvdat.cpp 87-101, rdkvdat.cpp 45-79).                                 *)
(***************************************************************************)
ShowsWhatWasTold ==
  client = "programs" /\ run.at = "show" /\ phase = "ready" =>
    \/ run.prog = "main" /\ (run.exact => Holds(tbl, run.told))
    \/ run.prog = "rdkvdat" /\ \E m \in DOMAIN runs :
         Image(tbl) = AsFiled(saves[m]) /\ (runs[m].exact => Holds(tbl, runs[m].told))

(***************************************************************************)
(* No program is left with a handle to a table that is gone, which the     *)
(* wrapper and the insertion both allow a client (kvtable.hpp 61, kv.c     *)
(* 189-197), and none dies in the allocator (mem_arena.c 50): lines are    *)
(* short enough for every insertion to find room or be refused.            *)
(***************************************************************************)
ProgramsKeepTheirTable ==
  client = "programs" => phase \notin {"dangling", "aborted"}
=============================================================================

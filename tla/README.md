# A verification project for the C data structures repository

The repository holds C data structures and the file formats built on them: a
key-value table with its own arena and hash index, which can be saved to a file
and loaded again; two smaller tables in memory their caller owns; three vectors;
sorting and searching macros; a binary image archive and a paged file. This
directory holds TLA+ models of that code, the configurations that check them
with TLC, and theorems about them proved with TLAPS.

## Inventory

Component | State | Operations | What makes it correct
--- | --- | --- | ---
memory arena (`include/mem`) | one block, a cursor | alloc, setcur, getcur, reset | blocks aligned, disjoint, inside the block; setcur only backwards
hash index (`kv/kvtable/hash_index.h`, copies beside the other tables) | array of entry numbers | init, insert; lookups probe it | every entry is reached by its probe; a slot names one entry
key-value table (`kv/kvtable/kv.c`, `kvtable_priv.h`) | entry array, index, arena | create, destroy, insert (with resize), remove, lookup, compact, get | behaves as a map; append-only; a call fails without effect; only an oversized pair ends the process
key-value file (`kv_ser.c`) | header, contents table, data, footer with checksum | serialise, create_load_from_file | what is loaded is what was saved; never a mixture of two saves
C++ wrapper (`kvtable.hpp`) | a handle | the above, plus load_from_file | no program is left with a handle whose table is gone
key index table (`kv/key_index_table`) | entry array, index, external arena | insert, remove, lookup, get_key, deinit | one live entry per key; an index stays that of its key; deleted_cnt is never below the dead entries
its example (`kitt.c`) | the table and a vector beside it | put_kv, print_kv | the value printed for a key is the one put with it
static key-value table (`kv/kvtable_static`) | five arrays in caller memory | insert, remove, lookup, rebuild | behaves as a map; takes and returns exactly its arrays
vectors (`vector/c_std_vector`, `vector/c_oop_vector`, `vector.h`) | buffer, size, capacity | push, pop, reserve, at, clear | one buffer, however a call fails; growth keeps the elements; when a pointer into one stays good
sorting and searching (`vector/algo.h`) | locals of two macros | insertion_sort, binary_search | sorted permutation; finds the key iff present; ends
image archive (`bipf/img_arc.h`, `bipf-wr.c`, `bipf-rd.c`) | header and TOC in memory, cursor, descriptor, file | write_entry, flush, deinit | entries disjoint and where the TOC says; checksums cover what is in the file
programs (`main.c`, `mkkvdat.cpp`, `rdkvdat.cpp`) | lines typed, a vector of values, the table, its file | read input, fill, save, load, show, answer | what is shown is what was typed, whatever was killed in between
paged file (`old_stuff/page.c`, `page.h`, `read original.c`) | a mapping, its believed size and page count, one cursor | goto_page, read, write, the raw pair, the formatting program | a header that verifies vouches for the pages; the cursor never goes back over what it wrote; accesses stay in the mapping
helpers, headers | | | stateless

The components call one another directly: the table owns its arena and its
index, the smaller tables use an arena their caller shares with others, the file
format reads and rebuilds a table, `kitt.c` keeps a vector in step with a table.
There are no callbacks except the hash functions, no threads and no locks. What
is hard in this code is elsewhere: long legal call sequences that wear out an
append-only array, or an index that is never deleted from; resizes in the middle
of an insertion; calls of which one step fails after another has taken effect (a
table freed, a key removed, a file truncated, a write stopped part-way); sizes
at their limits (a full index, a full arena, the NUL after a value, 16-bit
lengths, a sum cut to 32 bits, a size_t lowered below zero); pointers that outlive a realloc; and
files written by a process that may be killed on a machine that may lose power.
`PROJECT.json` lists these hazards with their lines.

## Modules

Module | Models
--- | ---
`ArenaOps` | `mem_arena.c`: the arena record, `AlignOffset`, `ArenaAlloc`, `ArenaSetCur`
`HashIndex` | `hash_index.h`: `HashIndexInsert`, and the probe a lookup runs
`KVTableOps` | `kvtable_priv.h` and the helpers of `kv.c`, as operators on a table record
`KVTable` | `kv.c` as a state machine: the handle's table, the table being filled, the call in progress
`KVTableProps` | its properties, and the refinement to `KVMap`
`KVMap` | abstract: a map behind a handle, with operations that may be refused
`KVFile`, `KVFileProps` | `kv_ser.c` and the wrapper's save and load, beside every action of `KVTable`; their properties
`KVPrograms` | `main.c`, `mkkvdat.cpp`, `rdkvdat.cpp`, one after another on one file, composed of every action of `KVFile`; also any other client; their properties
`KeyIndexOps` | what the key index table and the static table share: find, append, revive, remove, rebuild
`KeyIndexClient` | what the clients of both tables share: the arena, the cursor they remember, the build
`KeyIndexTable`, `KeyIndexProps` | `kidxtbl.c` in a shared arena; its properties and the refinement to `KeyIndexMap`
`KeyIndexMap` | abstract: each key has a number as long as it stays, and no number is given to two keys
`Kitt` | `kitt.c`, composed of `KeyIndexTable` and a vector; also any other client
`StaticKVTable`, `StaticKVProps` | the static table (names with an `S`); its properties and the refinement to `KVMap`
`VectorBase` | what the three vectors share: buffer, growth, a client's pointer
`CVector`, `ObjVector`, `HPDSVector` | the operations of `c_std_vector`, `c_oop_vector` and `vector.h`
`Vectors` | any one of them with its client, and the properties of all
`VectorSeq` | abstract: a finite sequence
`SortSearch` | the two macros of `algo.h`, one step per turn of a loop
`ImgFile`, `ImgArc`, `ImgArcProps` | an archive's file and its reader; the writer and its client; the properties
`PagedFile`, `PagedFileProps` | the paged file, its object, the program that formats it; their properties
`HashIndex_proofs` | lemmas about the arena, a probe, and what an index insertion does
`KVTable_proofs` | theorems about `KVTable`, in four parts: types; the arena; the index and the entries; the map
`KVFile_proofs` | theorems about `KVFile` and `KVPrograms`, on those about `KVTable`
`Vectors_proofs`, `SortSearch_proofs` | theorems about the three vectors and the two macros
`ImgArc_proofs`, `PagedFile_proofs` | theorems about the image archive and the paged file
`KeyIndex_proofs` | theorems about the key index table, `kitt.c` and the static table
`MC*` | the instances TLC checks; they also state what is refuted

### State and code

**Key-value table.** A table is the record `[cap, cnt, ents, idx, mem]`: `kvcap`,
`kvcnt`, `kvtbl_p`, `h_idx_tbl_p` and `mem_arena`. An entry holds the key and the
value themselves beside their offsets: the bytes in the arena are abstracted, and
`LayoutOK` states what makes that right, that no two blocks overlap. Of a key the
model keeps its length and hash, of a value its length. `key_hash` is a function
of the key and is not stored. `mem_alloc_cnt` is written and never read. Each
client call is one action (`Create`, `Destroy`, `LookupKey`, `Remove`,
`InsertRefused`, `InsertInPlace`), except the two that copy: `Compact` and
`InsertResize` create the second table, then `SkipDeleted` and `CopyEntry` take
one round of `_KVTable_copy` each, then `CompactDone` or `InsertResized` destroys
the old table and finishes the call. `malloc` may fail at every `Create` and does
beyond `MaxCap` and `MaxMem`. The variable `ndebug`, which never changes, is the
build: with the assertions of `mem_arena.c` (the makefiles keep them) or with the
return codes behind them; `Builds` is the set of builds a run looks at.
`phase = "aborted"` is a failed assertion; `"dangling"` is a handle whose table
was freed by a call that answered NULL.

**Key-value file.** A file is its four chunks and its size. `Save(truncate)`
starts `KVTable_serialise`, with the wrapper's `ftruncate(fd, 0)` or without, as
`main.c` calls it; `SaveSize`, `SaveHeader`, `SaveToc`, `SaveData` and
`SaveFooter` follow its statements. `SaveNoTable` is the wrapper's save after a load
that failed: the file is cut, and then NULL refused. (With a `"dangling"` handle it
would read freed memory, which is left out.) `Load` makes the checks, creates the table,
and `LoadEntry` reads one entry each. `Kill` may come between any two steps. With
`PowerFails`, `Writeback` puts one chunk on the disk, in any order, and
`PowerLoss` leaves the disk's contents. `saves` and `held` are history: the
entries each save was given, and the save the file holds whole, if any. The
checksum is taken as free of collisions.

**Programs.** `run` is the program that runs, where it is, and its variables; a
program calls the table by taking one of `KVTable`'s or `KVFile`'s actions, and
`RunOn` lets the call it is in run on. `main` reads its values into a vector
first: a copy or a push may fail, the input may end early, and `Vector_get` past
the end may give anything or kill the process. `MainAborts` stands for main's own
assertions. `mkkvdat` inserts any typed pairs, passes over blank ones, goes on
after a failed insertion and saves through the wrapper; `rdkvdat` loads and shows.
`Stopped` kills any of them anywhere. `told`, `exact` and `runs` are history:
what the user typed whose insertion succeeded, whether main's vector holds
exactly what was typed, and what each save was to hold.

**Key index table and static table.** `NewKeyIndex` is the zeroed entry array with
its index and `deleted_cnt`. `Find` is the private lookup, which finds dead
entries, `FindLive` the public one. `Prepared` is the rebuild every insertion
begins with when half the entries are dead. The arena belongs to the client,
which remembers the cursor (`mark`) and gives everything back at the end. In
`KeyIndexTable` the key's string is allocated with the entry and `koff` is
`key_off`; in `StaticKVTable` the values lie in an array beside the entries.
`Kitt` adds the vector (`vec`), the keys put (`put`), and whether memory was short
(`short`): the arena had no room for a key, or the vector was full (`VecFull`) and
realloc gave it no more, so that the value was not pushed. `put_kv` notices neither.
The arena of `kitt.c` itself is large enough, a MiB for 64 entries; where one is not,
in a build without assertions, a shorter key that comes later gets a number below its
value's index, and after a failed push the later numbers are above it, so
`PrintsItsOwnValue` speaks of runs where memory was not short.

**Vectors.** A buffer is a sequence of cells, `Junk` where nobody wrote. `realloc`
fails, stays in place or moves. The client keeps one pointer to an element, `ref`,
and may push what it points at: the vectors differ in whether the element is read
before the buffer grows. `bufs` counts the buffers malloc gave and free did not
take back.

**Sorting and searching.** The variables are the macros' locals. `ToSize` and
`ToInt` are the conversions between `size_t` and `int` that `pivot_idx` goes
through. In front of the array of a vector of `vector.h` lies its header, so
`arr[-1]` reads the upper half of a capacity, which is 0.

**Image archive.** The file's bytes know what they are part of. The writer's
descriptor (`pos`) and its cursor (`obj.cur`) are different things, and several
failures move one without the other. `client = "wr"` is the program `bipf-wr`,
which cuts an existing file to header and TOC, stops at the first failing call,
flushes once, and may be killed (`Close`) anywhere; `client = "any"` may call
anything, but begins with an empty file. `DataWriteFails` and the last branch of
`Flush` are writes that stop part-way; the first branch of `Flush` is the refusal of a
checksum of 0, which any header or TOC may have and an empty TOC always has. `slips`, `made`, `wrote` and `stray` are
history; `stray` says whether the descriptor is off the cursor (`"lost"`) and
whether something was then written there (`"yes"`), which is when entries stop
being readable.

**Paged file.** A cell of the file is a field of a structure, a number, a checksum
with what it was computed over, or part of what one access wrote. `ph_page_cur`
lies where page 0's file header has half of its page size and half of its page
count, so `FileHeader` has the number `page_count * HalfMod` there and `Bumped`
adds to it. `Format` is the program up to its first store, which may fail before
or after the file is cut to size; then `FillPageHeader` and `FillPageFooter` take
turns, and `FillFileHeader` and `SumFileHeader` come last. `Kill` may come between
any two; the mapping is shared, so what is stored stays. An access outside the mapping
is undefined, and the model has two outcomes. The process dies of it (`Strays`), and a
write has then stored those of its places that are in one of `Parts`. Or, if all its
places are in the file, it goes on like any other (`GoesOn`), since mmap maps whole
pages. What it does to other memory of the process is left out. `put` (which access
first wrote a place at the cursor since page 0 was entered), `moved` (how far each
page's cursor went) and `raw` (where raw writes went, and writes of which the process
died) are history.

## Runs

Run | Shows | Result
--- | --- | ---
`kvtable` | all operations with collisions, resizes, malloc failures, both builds | all properties hold, the refinement included
`kvtable_oom` | `ResizesWhenOutOfMem` (kvtable.h:12) | violated
`kvfile` | any client with a key too long for the file: one save, kills, loads, then any table operation again; and the three programs on one file, two saves, kills | all properties hold
`kvfile_power` | two saves over each other, write-back in any order, power loss | no mixture is loaded
`kvfile_assert` | `CompactionKeepsAssertion` (mem_arena.c:50) | violated
`key_index` | insertions, removals, revivals, rebuilds, and the program `kitt.c` | all properties hold
`static_kv` | the same scheme with values, in a caller's arena | all properties hold
`static_dead_reused` | `DeadStayDead` (kvtable_static/kvtable.h:11) | violated
`vectors` | the three vectors, failing and moving reallocs, pushes of an element of the vector | all properties hold
`sort_search` | every array of up to four of four ints | all properties hold
`image_archive` | `bipf-wr`, killed and run again, `bipf-rd`, and any other client | all properties hold
`paged_file` | a file formatted, killed, formatted again, mapped whole, short by a place, or with a page too many, read and written | all properties hold

The properties, each with its comment in a `Props` module (or `Vectors`, `Kitt`, `KVPrograms`):

- `IndexOK`, `IndexHolds`: slots name distinct entries, and every entry's (every
  live entry's) probe gets to its slot.
- `OneLivePerKey`: lookup and enumeration agree.
- `LayoutOK`, `StringsApart`, `ArenaHoldsArrays`: what lies where in an arena.
- `CopyInOrder`: the table being filled holds exactly the live entries passed so far.
- `AppendOnly`: no call moves, changes or revives an entry, a call that copies the
  table and then fails included.
- `OnlyOversizedPairKills`: when a call may end the process or lose the table.
- `CallReturns`: a copying call comes to an end.
- `RoundTrip`, `NeverLoadsTornFile`: a save that succeeded loads, as it was; what
  any load returns is one save, whole.
- `LoadedTableSound`, `KillsOnlyWithoutLastNul`: a loaded table is as good as one
  built by insertions, but for keys cut to 16 bits and for the missing last NUL.
- `ShowsWhatWasTold`, `ProgramsKeepTheirTable`: what the programs show is what was
  typed; none uses a table that is gone, or dies in the allocator.
- `DeadCounted`: the count that decides about rebuilds is never too low.
- `EnumerationShowsLive`, `PrintsItsOwnValue`: what clients of the key index table see.
- `OneEntryRemembered`: a revived entry is the only one of its key.
- `OneBuffer`, `PointersKeptWithinCapacity`, `SelfPushReadsElement`: no leak, no
  double free; which pointers stay good; which vectors read freed memory, and when.
- `Sorts`, `SearchRight`, `ReadsInside`, `SearchEnds`: the macros do what they are for.
- `EntriesApart`, `EntriesReadBack`, `ProgramArchiveReads`, `SumsOfFlush`: where an archive's entries are, what reads back, what verifies.
- `HeaderVouches`, `HeadersCountMoves`, `CursorDataKept`: what a paged file's
  headers say of its pages, where clients change them, and that the cursor does
  not go back over what was written. `StraysOnlyPartialOrHuge`: when an access
  leaves the mapping.
- `Refines`, `RefinesMap`, `RefinesRegistry`, `RefinesSeq`: each implements its
  abstract specification. Lookups go through the index, the abstract map is read
  off the array, so the two must agree. For the tables the refinement also says
  which abstract operation each call is (`CallsMean`): an insertion that stored
  nothing must not pass as a compaction.
- `TypeOK`: types. The other modules' types are part of `LoadedTableSound` and
  `IndexHolds`.

### Bounds, and why they are enough

*Tables.* Capacities 1, 2 and 4 (and 3, which is refused) are the smallest that
show a full table, a resize, a collision, a probe that passes another key's slot
and one that wraps. Three keys: two that collide at every capacity and one whose
home slot lies in their way. Values: empty (refused), one that needs its NUL to
stay in its aligned cell, one that outgrows a doubled arena. Arenas of 8 to 40
bytes allow two doublings. The two smaller tables need capacity 8: an entry is
revived only in a table with fewer dead than half, so among three entries or
more. `MaxDead` bounds `deleted_cnt`, which otherwise grows with every repeated
removal; 2 and 3 are enough for the count to exceed the dead entries. Of the
arenas of `key_index`, 152 bytes are enough for three keys, 134 for one that is
short after one that is not, and 76 for no table of eight entries.

*Files.* One save is enough to round-trip and two to mix; the power run has one
key, since what matters there is which chunk belongs to which save. `WordMod` is
8 instead of 65536.

*Programs.* They have one arena size, capacities 2 and 3 (the second is refused),
keys that collide, and two saves, so that each saves over what another left.
`AnyKeys` and `AnySaves` keep the other clients to what is not covered by the
programs: a key too long for the file, and any order of calls around one save.

*Vectors.* Capacities to 4 with a default of 2 (16 in the code) allow two growths.

*Sorting and searching.* A `size_t` of 5 bits and an `int` of 4 keep what matters
of 64 and 32: the larger is a multiple of twice the smaller, and indices are far
from both limits.

*Image archive.* Header and TOC entry are one aligned cell each; two entries, and
data that fill a cell, half of one, nothing, or have checksum 0. `MaxFile` allows
two entries and their padding after a failed one; `MaxSlips` = 2 allows a failed
write and a flush, or two flushes.

*Paged file.* Two pages of ten cells, with a header of four, a file header of
five and a footer of two: page 0 differs from the others, and every structure has
an edge an access can end at. `OffMod` is 32, not 2^32: a length of `OffMod` is
cut to nothing. Three accesses are enough to go to a page, away and back. `Parts` has
one set, everything up to the middle of the second page's header, so that a write
that dies may leave that header half overwritten; the theorems hold for any parts.

### Fairness

`WF_vars(CopyStep)` in `KVTable` and `WF_vars(Loop)` in `SortSearch`: a call that
has begun runs on, since the code is sequential and waits for nothing. Nothing
obliges a client to call.

## What the violated properties say

- kvtable.h:12 says the table resizes when out of memory. It doubles the arena
  once; a pair that needs more ends the process in the allocator's assertion.
- The assertion at mem_arena.c:50 fails when a freshly loaded table is compacted
  with no dead entry: the file leaves out the last value's NUL, and the loaded
  table's arena has no room for it when that value's length is a multiple of 4.
- kvtable_static/kvtable.h:11 says dead entries are not reused. Inserting a
  removed key revives its entry, as long as the index was not rebuilt.

Other places where code and text, or code and expectation, differ. The models do
what the code does there, and no run is spent on them:

- kvtable_priv.h:243 terminates every value with a NUL; a loaded last value has none.
- kidxtbl_def.h:24 calls `deleted_cnt` the "deleted count"; removing a removed key
  counts it again (kidxtbl_priv.h:206).
- kvtable_static/kvtable.h:4 calls three quarters of the capacity "the hard upper
  limit"; tables of one or two entries fill up completely (kvtable_priv.h:137).
- binary_search with a key below every element lowers a `size_t` below zero, reads
  in front of the array, and does not end unless the key is 0 (algo.h:44). Hence
  the conditions in `ReadsInside` and `SearchEnds`.
- img_arc.h: the header's checksum is computed before the file size it covers is
  set (318, 328); the flush leaves the descriptor behind the TOC, writes as many
  bytes as the buffer has, and can never succeed for an archive without entries;
  an empty entry, or one whose checksum is 0, is refused after its data were
  written; a rewrite that is killed leaves the old TOC over new data.
- page.c: the page check asks for the page's first byte only (38), and the sum of
  offset and length is cut to 32 bits (126, 152), hence the conditions in
  `StraysOnlyPartialOrHuge`; a page's stored cursor is counted up by reads and
  writes and never read, and page 0 has none: there the count goes into the file
  header (page.h 255, 276). Page 0's footer is summed before the file header is
  written over its page header ("read original.c" 67, 70), so it never verifies.
- main.c: `Vector_get` (110) does not check its index; with input that ends early
  it reads past the values (hence `exact` in `ShowsWhatWasTold`).

## Proofs

`KVTable_proofs!TypeCorrect`: `Spec => []TypeOK`, for every value of the
constants that satisfies `DataAssumption` and `BoundAssumption`: no step indexes
an array outside its bounds.
`TypeOK` alone is not inductive: that `CopyEntry` writes inside the new table
needs that the copy has room for every entry that is left (`CopyRoom`:
`new.cnt <= i` and the new capacity is at least the old count), and that an
insertion in place has room needs the capacity test. `TypeInv` adds exactly
these. The lemmas give the fields of the table after each operation
(`AppendFields`, `RemoveFields`), the type of each operator's result
(`AllocTypes`, `AppendType`, `RemoveType`, and `HashIndexInsertType` and
`ArenaAllocType` in `HashIndex_proofs`), and the existence of the least step
`Min` chooses (`LeastExists`, `MinOfSteps`). `TypeInvStep` has one step per action.

The other theorems about `KVTable` need no further assumption; each builds on
the invariants before it.

- `KVTable_proofs!BlocksApart` (`LayoutOK`) and `OversizedPairKills`
  (`OnlyOversizedPairKills`). The invariant `LayoutInv` adds to `Layout` of both
  tables that every value ends below the cursor (from `Layout` this takes an
  induction over the entries), and `CopyFits`: the new arena's cursor is at or
  below the offset of the entry to be copied next, the new arena is no smaller, and
  it has room for the pair behind the old cursor unless the pair is larger than the
  old arena. `CopiedEntryFits`: alignment is monotonic, so an entry copied to a
  lower aligned place ends no later than it did, and the next fits. That
  `2 * KVTBL_MEM_ALIGN` covers two NULs and two alignments is `RoomyPairFits`.
- `KVTable_proofs!EveryEntryFound` (`IndexOK`), `KeysUnique` (`OneLivePerKey`),
  `CopyLosesNothing` (`CopyInOrder`) and `EntriesStay` (`AppendOnly`). An index in
  which no two slots name one entry has a free slot while the entry array has room
  (`FreeSlotExists`, the pigeonhole principle), and a probe of `cap` steps gets to it
  (`ProbeVisits`); without it `HashIndexInsert` would answer as if it had succeeded.
  A new entry takes a slot that was free, so no probe is cut (`AppendIndexAgrees`),
  and a removal leaves the slot (`RemoveIndexAgrees`). `CopyOrder` strengthens
  `CopyInOrder` by its converse, that nothing else is in the new table; only with it
  is a copied key new there.
- `KVTable_proofs!TableIsMap` (`Refines`): the initial state maps to an
  initial state of `KVMap` and every step to an operation or a stutter. `RefInv` adds
  that there is no table in the phases without one. `LookupIsMap` joins the two ways
  to read a table, through the index and off the entries; `CopyIsMap` shows that a
  copy that is done is the same map; one lemma per call says which operation it is.

`KVFile_proofs`, from `FileAssumption` and the table's two: `NoTornLoad`
(`NeverLoadsTornFile`), `SavesComeBack` (`RoundTrip`), `LoadedTablesSound`
(`LoadedTableSound`) and `OnlyTheLastNul` (`KillsOnlyWithoutLastNul`), with or
without power losses, for any number of saves. A call
of the table is a step of `KVTable`, so its invariants are used as they stand, but
for `LayoutInv`, which a loaded table does not have: `Ends` says what is left of it,
that the values end in the order of the entries and below the cursor, without their
NULs. `Derived` lists what a step makes its tables of, so that `IndexOK` and `Ends`
need one lemma per operator, not per action. Of the files, `SumInv` is the heart: a
footer with its magic number holds the sum of some image that was saved, whatever
happened to the other chunks; it speaks of one chunk only, so write-back in any order
keeps it on the disk as well. A load compares the footer's sum with the contents'; as
no two images have one sum (`SumUnique`), the contents are then that image's.
`SaveInv` says which chunks are already the table's before each step of a save,
`HeldInv` that the file a save left whole passes the checks, `LoadInv` that the table
being loaded is the start of the image (`HoldsStart`). `MapInv` is carried until a key
is cut (`KeyWasCut`), since two keys cut short may be one. Without the assumption that
checksums do not collide, which `Crc` builds in, none of this holds of the code.
`NulInv` says when the layout is lost and what of it stays: either `LayoutInv` holds,
as of a table built by insertions, or the table is `Loose`, as a load leaves it
(packed but for the last NUL, its cursor at the end of its arena), until a copy
replaces it. No insertion has room in a loose table, so the first one copies
(`LooseIsFull`); in a copy an entry takes no more bytes than it took
(`LooseCopied`), and a dead one before the last leaves the four that make up for the
missing NUL (`LooseCopy`). What is saved is packed in both cases, and stays so when
the file cuts its keys, which `FileAssumption` says makes none longer.

The programs are in the same module, from `ProgramAssumption` besides:
`ProgramsAreClients` (every step of the programs is a step of `KVFile`, so what is
proved of it holds of them), `ProgramsGoOn` (`ProgramsKeepTheirTable`) and
`TypedIsShown` (`ShowsWhatWasTold`). `ProgInv`
says which call may be under way at which line of which program (`Stages`), which
turn of its loop it is in (`Turns`), and that a program that writes keeps the layout
and a `MEM_SIZE` arena at least (`Rooms`), in which every pair of lines fits; so
`InsertInto` never aborts, nor returns without a table. `ToldInv` says what was told
so far, the insertion that has just returned included (`ToldSoFar`), and that the
table `Holds` it; that main's values are those typed, or NULL (`ValuesRead`); that no
key of a save is cut, so that `MapInv` holds throughout; and that any table with the
entries of a save holds what its run was told. The map is `CopyIsMap` and
`InsertIsMap` again; the order is carried over a copy by the ranks of `CopyOrder`.

`Vectors_proofs`, for each of the three vectors, from `VectorAssumption` and
`CVectorAssumption`: `NoLeakNoDoubleFree` (`OneBuffer`), `PointersStay`
(`PointersKeptWithinCapacity`), `SelfPushReads` (`SelfPushReadsElement`) and
`VectorsAreSequences` (`RefinesSeq`). `VecInv` relates the buffer, its capacity and the
size, and counts one buffer exactly while there is a vector; `RefInv` says that a
client's pointer is into the present buffer or stale. A growth that fails leaves both
as they were, in each of the three orders in which the code reserves and stores.

`ImgArc_proofs`, from `BufAssumption`, `SizeAssumption` and `WriterAssumption`:
`ArchiveEntriesApart` (`EntriesApart`), `ArchiveReadsBack` (`EntriesReadBack`),
`ProgramsAgree` (`ProgramArchiveReads`) and `FlushesVerify` (`SumsOfFlush`). The
invariants: `TocInv`, the entries lie in order, aligned, behind the contents table and
below the cursor; `PosInv`, the descriptor is at the cursor unless `stray` says
otherwise; and that the bytes of each entry are in the file as long as nothing was
written astray. `ProgInv` says what `bipf-wr` may find when it flushes and what it leaves. The
aligned end of one entry is the earliest start of the next, which
is the arithmetic of `AlignOffset`.

`PagedFile_proofs`, from `PageAssumption`: `StraysFromPartialOrHuge`
(`StraysOnlyPartialOrHuge`), `HeaderVouchesForPages` (`HeaderVouches`),
`HeadersOnlyCount` (`HeadersCountMoves`) and `CursorDataStays` (`CursorDataKept`).
`ObjectInv` gives the type of the object's numbers, and `AcceptedInside` that a check
passed modulo 2^32 is a check passed, unless the length is within a page of it. The
other three assume `NoWrap`: the mapped file ends below 2^32, or no length comes within
a page of 2^32. Without it the theorems are false: the check of an access adds offset
and length in 32 bits, so a wrapped access can write over anything. `MappingInv`,
`FormatInv` (which structures the formatting program has stored, and that the file
header's sum comes last) and `PutInv` (what was put at the cursor lies between the
page's structure and the cursor) are inductive together.

`KeyIndex_proofs`, from `KeyAssumption`, `ClientAssumption` and `TableAssumption`, for any sequence of
calls: `IndexSound` (`IndexHolds`), `DeadAreCounted` (`DeadCounted`),
`StringsStayApart` (`StringsApart`), `EnumerationComplete` (`EnumerationShowsLive`),
`RegistryRefined` (`RefinesRegistry`), `KittIsClient`, and `PrintsWhatWasPut`
(`PrintsItsOwnValue`). `Indexed` is what every operation keeps of a table: two slots
never name entries of one key, the probe for the key of a slot's entry gets to that
slot (dead entries included, else a revival would miss them), every live entry has a
slot. A rebuild is a recursive function: that there is one is shown by a least place
where the definitions so far disagree, and that each of its values is the index of
the live entries so far (`RebuiltSoFar`) by a least place where it is not; `RoundUp`
likewise. `StringInv` keeps the strings in the order of the entries. `NumbersIn` and
`OwnersIn` are the registry as functions of a table: a rebuild changes neither.
`KittInv` says that keys and values are in step, as long as memory is not short,
until the table is full, and then stays so.

The static table is in the same module, since all of it but the values is
`KeyIndexOps` again; from `KeyAssumption`, `ClientAssumption` and `StaticAssumption`:
`RevivalIsSafe` (`OneEntryRemembered`), `ArenaGivenBack` (`ArenaHoldsArrays`) and
`StaticTableIsMap` (`RefinesMap`). `StaticInv` is `Indexed` and `Counted` with a value
beside every entry. The map is read off the entries, and `ValuesAre` reads it through
the numbers of `NumbersIn` instead, which a rebuild leaves alone: then `ValuesChange`,
one entry comes to live with a value or dies, is all an insertion, a revival and a
removal need. `ArenaInv` adds to `ArenaHoldsArrays` that the remembered cursor is not
beyond the arena's; the five allocations are unrolled (`ArrayStep`), and a capacity
that was allocated is allocated alike again from the same cursor.

`SortSearch_proofs`, from `WidthAssumption` alone, for every length and width:

- `SortsEveryArray`: `Spec => []Sorts`. `InOrder` is inductive together with the
  bounds of `i` and `j`; that each value stays as often rests on `SwapKeepsCount`,
  a bijection: a shift swaps the free place, which stands for `key`, with the one
  before it.
- `SearchAnswers`: `Spec => []SearchRight`. The invariant of the search is a
  disjunction: `Narrow`, the key can only be between the bounds, or `Below`, the
  key is below every element and `end_idx` is one or two below 2^64. `BelowPivot`
  shows that the pivot is then -1 in every width, so that what is answered, if
  anything, is -1.
- `SearchReads`: `Spec => []ReadsInside`, since `Below` excludes the condition.

Every safety and action property that a passing run checks is proved. Model-checked
only: liveness (`CallReturns`, `SearchEnds`), which is out of the prover's reach.

## Plan

1. Done: the key-value table, its abstract specification, its file; the key index
   table with its client, the static table; the vectors; sorting and searching;
   the image archive; the programs over the table and its file; the paged file.
2. Pointers into a table's own arena, passed to an insertion that resizes it
   (kv.c:189); they are values now.
3. Theorems. Done: all of the table, the vectors, the macros, the archive, the paged
   file, the key index table, `kitt.c` and the static table; the file and the programs.

## Not modelled, and why

String, buffer and I/O helpers keep no state. Of the pointer `line_p`, which the
programs move over leading blanks and never move back (main.c:86, mkkvdat.cpp:71,
rdkvdat.cpp:63), the models keep nothing: lines are values there. The arena's
`pop`, `get` and `reset` are called by nobody. What the formatting program does
with an uninitialised `mem` when `ftruncate` fails ("read original.c":84) is left
out: the process ends there, and its file is as the failing call left it.
`kv_ser copy.c` and `tmp.cpp` are not built, and the second copy of the key index
table, `kv/kvidxtbl`, does not compile. `win_include`, `dll`, `lib` and `res` are
third-party code and assets.

Buffers passed by pointer into the table's own arena are values in the model.
`AppendOnly` says how long such a pointer shows its pair; that an insertion which
resizes the table reads one after the old arena is freed is listed as a hazard.

# QuarkKV in TLA+

QuarkKV is a key-value store in C++ built as a log-structured merge tree. It
runs on a file system or on QuarkStore, a storage engine that lives in a kernel
module. This directory holds TLA+ specifications of it, the configurations that
check them with TLC, and proofs that TLAPS checks.

All paths below (`core/...`, `fs/...`) are relative to `src/`. Every definition
that stands for code is listed with its lines in `PROJECT.json` under `map`.

    tlc -workers 2 -config LSMTree.cfg LSMTree.tla      # model-check a module
    tlapm LSMTreeProofs.tla                             # check the proofs

1. [The system](#1-the-system)
2. [The modules](#2-the-modules)
3. [What is checked](#3-what-is-checked)
4. [Fairness](#4-fairness)
5. [What is proved](#5-what-is-proved)
6. [Where the code and its documentation disagree](#6-where-the-code-and-its-documentation-disagree)
7. [What is not modelled](#7-what-is-not-modelled)
8. [Plan](#8-plan)

## 1. The system

QuarkKV has one thread. `Put`, `Get`, `Scan`, `Open` and `Close` are called one
after the other; a `Put` that fills the memtable also flushes it and compacts
the tree before it returns. Asserts are compiled in (`Makefile` has `-O3` and no
`NDEBUG`), so a failing assert ends the process. The hard behaviours are
therefore not threads but long sequences of calls, the steps of one call between
which a process can die, what one session leaves to the next, and loops whose
end depends on what is on storage.

A value is not what the caller passed: `MemTable::Put` stores a constant
followed by a timestamp, so a version of a key is known by its timestamp.

| Component | State | Operations | Correct when |
|---|---|---|---|
| `DBImpl` (`core/DBImpl.cpp`) | the memtable, `ssts_`: a set of tables per level | `Put`, `Get`, `Scan`, `Open`, `Close`; inside: `flush`, `compact` | no key is lost; a read finds what was put; a Put ends |
| `MemTable` (`core/MemTable.cpp`) | an ordered map of at most `Limit` versions | `Put`, `Get`, `Full`, `Flush` | newer than every table |
| `Compacter` (`core/Compacter.cpp`) | none of its own: it works on `ssts_` and on the marks of the tables | `Compact`: mark, move to an empty level, merge, remove, verify | a merge keeps what it must keep, leaves sorted runs and no marks, and levels end up within their size |
| Iterators (`iterators/`) | the position in a table, in a run, in a heap of runs | `Next`, `Seek`, `SeekToFirst` | versions come in increasing order, none is skipped |
| `SSTManager` (`core/SSTManager.cpp`) | `clock_`, `ctr_` | `NewEmptySST`, `FlushToSST`, `ReadSST`, `Get` | ids are not reused while in use |
| `SST` (`core/SST.cpp`, `fs/SSTFS.cpp`) | index, range, count, times, level, mark, and its file | `AddKV`, `Persist`, `Parse`, `Lookup`, `MarkForCompaction`, `Remove` | what is parsed is what was persisted |
| `Manifest` (`core/Manifest.cpp`, `fs/ManifestFS.cpp`) | `sst_files_`, `ctr_`; on storage `MANIFEST-n` and `CURRENT` | `AddToLevel`, `Update`, `Persist`, `Open` | on storage it names tables that are there |
| File-system engine (`fs/`) | files, descriptors | `Create`, `Open`, `OpenForWrite`, `Read`, `Write`, `Close` | calls end; nothing is overwritten |
| QuarkStore engine (`quark/`) | atoms in place of files | the same, by `ioctl` on a device | the same |
| Clients (`main.cpp`, `ycsb/`) | counters, the keys inserted so far | calls of the above, in the order of a workload | what is requested was loaded; the run ends |

How they interact: `DBImpl::Put` hands the memtable to `SSTManager::FlushToSST`
when it is full, adds the table to level 0 and to the manifest *in memory*, and
calls `Compacter::Compact` when level 0 is too large. `Compact` goes down the
levels: it marks a part of a level (the picker decides which) and all of the
next level, merges them through the iterators into new tables of the next level,
removes the old ones together with their files, and goes on with the next level
until one is small enough. Only then does `DBImpl::compact` write the manifest.
There is no log; `Close` writes the manifest and does not flush the memtable.
`Open` reads `CURRENT`, the manifest it names, and parses every table in it.

An operation of the storage that fails makes every function up to the call of the
client return -1, and nothing that was done so far is undone. What the client does
then differs: the manual driver exits without `Close`; the YCSB client stops, and
its destructor closes the store; and when `Open` fails in its constructor, it
prints so and goes on.

## 2. The modules

| Module | Models | Uses |
|---|---|---|
| `Tables` | versions, tables, their orders, what a merge keeps | |
| `LSMTree` | one session: `Put`, `flush`, `Compact`, `Get`, the manifest | `Tables` |
| `KVStore` | the abstract promise of `Put` and `Get` | refined by `LSMTree` and `LSMFaults` |
| `LSMFaults` | the same session with operations of the storage that fail | `LSMTree` |
| `LSMRestart` | several sessions: `Close`, a crash at any step, `Open`, failures | `LSMFaults` |
| `MCRestart` | the stores the runs of `LSMRestart` begin with | `LSMRestart` |
| `LSMScan` | `DBImpl::Scan` on the trees `LSMTree` builds | `LSMTree` |
| `Clients` | the YCSB client and the manual driver on top of the tree | `LSMScan` |
| `Merge` | a merge table by table | refined by `MergeLoop` |
| `MergeLoop` | `doCompaction` and the three iterators version by version | `Tables` |
| `StorageFS` | the directory call by call: files, `CURRENT`, descriptors, crashes | |
| `SSTFormat` | layout of a table's file, `Persist`, `Parse`, `Lookup`, `Seek` | `Tables` |
| `ManifestCodec` | `serializeLevels`, `deserializeLevels` | |
| `QuarkStorage` | the QuarkStore engines: atoms, copies and moves, manifests, sessions, failures | `Tables` |
| `TablesProofs` | least numbers, sets put in order, flattened sequences | `Tables` |
| `LSMTreeProofs` | `LSMTree`: types; what is kept; files and manifests between Puts; the order of versions and the refinement of `KVStore`; sorted runs, sizes and asserts; that a Put comes closer to its end | `LSMTree`, `TablesProofs` |
| `LSMRestartProofs` | what holds whatever fails, and over all sessions | `LSMFaults`, `LSMRestart`, `LSMTreeProofs` |
| `ClientsProofs` | what the programs on top find in the store, and what a scan collects | `Clients`, `LSMTreeProofs` |
| `MergeLoopProofs` | `doCompaction`'s loop: its asserts, and the refinement of `Merge` | `MergeLoop`, `TablesProofs` |
| `FileFormatProofs` | the two formats | `SSTFormat`, `ManifestCodec`, `TablesProofs` |
| `StorageFSProofs` | the directory | `StorageFS` |
| `QuarkStorageProofs` | manifests and tables in atoms | `QuarkStorage` |

**LSMTree.** The variables are the fields of the code: `memTable`
(`MemTable::table_`), `ssts`, `clock`, `ctr`, `marked`
(`SST::markedForCompaction_`), `manifest` (`Manifest::sst_files_`), `picker`
(`Config::cp`); `files` and `current` are storage. A `Put` is split into steps
where storage changes:

    Put -> FlushSST -> (idle | compact)
    compact -> StopCompaction | MoveToEmptyLevel | StartMerge
    StartMerge -> FinishSST* -> RemoveSST* -> EndMerge -> compact
    StopCompaction, MoveToEmptyLevel -> PersistManifest -> idle

A failing assert leads to the phase `aborted`, a refusal by `Compacter::verify`
to `failed`. `Get` changes nothing in the tree, so it is the operator
`GetResults`: the set of the versions it may return, since among the tables of
level 0 the code compares the addresses of two freshly allocated objects.
`Limit` is the number of entries of a full table. The store requires nothing of
it, but only tables whose index fills whole blocks can be parsed again
(`SSTFormat`), so the `Limit` of `LSMTree` and `LSMRestart` stands for such a
number.

**LSMFaults** adds to every step of a Put that writes, reads or unlinks the outcome
that the operation fails. Nothing is undone, as in the code: a flush that fails
leaves its file and the full memtable, a merge that fails leaves the tables it has
finished next to its inputs, whose marks stay, and a failed unlink leaves a file whose
table is out of the tree. A failed *read* is met by an assert of an iterator. After a
failed Put the caller may go on (`GoOn`). The variable `stale` is history: it tells
which manifests name a table whose removal has begun and are not written anew.

**LSMRestart** adds the end of a process and `Open`. What is lost with a process
is what is in memory; `clock_` and `ctr_` start at 0 again; `SST::ts_` is not
initialised by `Parse`, so an opened table has an arbitrary time from `Garbage`.
`Close` may follow a failed Put, and a client may use a store whose `Open` has failed
(`UseUnopened`), with the tables that were read before the missing one.

**Clients** is the composition of the tree with the programs that use it. A record's
number stands for its key (the hash that makes a key of it is taken to have no
collisions); which number a generator draws is left open within the generator's range.
The ratio by which the manual driver interleaves reads and writes is exact here and
a `double` in the code. The property `insertstart` has its default, 0, and
`recordcount` is not 0.

**MergeLoop** justifies the grain of `LSMTree`: the loop of `doCompaction` over a
heap of iterators, with every assert, implements `Merge`, whose one step is
`LSMTree!FinishSST`.

**LSMScan** has scans of every start and length between Puts. The code throws a
scan's result away, so the heap `pairs` is what is checked. Its runs are those of
`Clients`, one of whose clients does nothing but Put and Scan as it likes.

**StorageFS** has a variable for every name in the directory and counts the
descriptors a process holds. The tree is reduced to a set of live tables.
`ManifestFS::Persist` is split into create, write, and point `CURRENT` at it.

**QuarkStorage** does for the other two engines what `StorageFS` does for the file
system, with the blocks of the tables' atoms added, because `QUARKSTORE_APPEND`
moves them from atom to atom. QuarkStore is not in the repository; what is assumed
of it is at the top of the module, and `results/microbenchmark/microbenchmark.c:58`
uses it that way (a source's blocks keep their offsets while others are moved away).
Each kind of call may fail: a write or move of a block, the release of a merge's input
when it is removed (the inputs before it are out of the tree, the manifest is not
reached), the manifest, `CURRENT`, and in `Open` the read of `CURRENT` or, before it,
QuarkStore's initialisation or the handle of `CURRENT`, after which the YCSB client goes
on without that handle and each of its `Persist`s fails.

**SSTFormat** and **ManifestCodec** are the two formats: units of a file, words of
a block. (The state of `ManifestCodec` is called `stage` and its specification
`CodecSpec`, because one module proves things about both.)

What `std::map` and `std::set` keep in order is a set in the models. Where the order
counts, `KeysInOrder`, `KVsInOrder` and `SSTsInOrder` of `Tables` put it in a sequence.
They choose the sorted sequence instead of calling `SetToSortSeq`, whose definition goes
down to an operator that TLC has built in and the provers know nothing of.

Operators named after another with a suffix (`WithinLimitOffByOne`,
`FreshIdsUnchecked`) are plausible slips in the operator that follows them. They
are used by no specification; putting one in place of its neighbour makes the
property it is listed with in `PROJECT.json` fail.

## 3. What is checked

| Run | Module | Distinct states | Question |
|---|---|---|---|
| `tree` | `LSMTree` | 302 thousand | Does a session keep the tree right through cascades of compactions? |
| `tree_wide` | `LSMFaults` | 2.6 million | Is the abstract store implemented when level 0 holds overlapping tables, and what is left of it when an operation of the storage fails? |
| `restart` | `MCRestart` | 6.3 million | What survives a crash or a failure at any step, and a second session on top of it? |
| `merge_loop` | `MergeLoop` | 24 thousand | Does the heap of iterators produce what the tree takes a merge to be? |
| `scan` | `Clients` | 391 thousand | Does a scan end and collect what it should? Do the programs that use the store find what they ask for, and end? |
| `storage` | `StorageFS` | 288 thousand | Do calls end, and is `CURRENT` always good? |
| `quark` | `QuarkStorage` | 3.5 million | The same of the QuarkStore engines, and: do tables stay readable while blocks move and calls fail? |
| `sst_format` | `SSTFormat` | 1.7 thousand | Is what is parsed what was persisted? |
| `manifest_codec` | `ManifestCodec` | 32 thousand | The same of the manifest. |

The runs that are expected to find a violation are in section 6.

**`tree`** (3 keys, tables of 2 entries, 3 levels of one table each but the
last, both pickers, clock up to 14). The clock is read by every Put and by every
table written, so 14 ticks are about eight Puts with their flushes and merges:
enough to merge at level 0 several times, to move tables to an empty level and,
with the picker `ALL`, to merge at level 1 into a filled level 2. Properties:

- `RecencyOrder`: versions age with depth, and strictly except between the two
  halves of a merge. With the picker `ONE` this needs the oldest table of level 0
  to leave first.
- `SortedRuns`: levels below 0 are runs of disjoint tables, all but the last of them full.
- `NoAbort`: no assert fails and `verify` refuses nothing.
- `LevelsBounded`: after a Put all levels but the last are within their size,
  although `Compact` stops after a move without looking at the next level. In this run a
  move ends at the last level, which has no bound; a fourth level is beyond what TLC can
  enumerate (more than 25 million states), and moves to a level in between are
  covered by the theorem `LevelsAreBounded` only.
- `StorageAgrees`: after a Put the manifest in memory, the live tables and the
  files on storage are the same tables.
- `NewestHeldRead`: with at most one table at level 0 a Get returns the newest
  version the store still holds.
- `PutReturns`: a Put comes to an end.

**`tree_wide`** (2 tables at level 0, two levels, picker `ONE`, clock up to 13, one
failure at any step) has the state the code is least sure of: overlapping tables at
level 0, of which a Get may return any version, and merges of one of them while the
other stays. 13 ticks are four flushes and two merges, so that a failure is
followed by another flush and compaction, which meets what the first has left.

- `KeysKept`: at every step, inside a merge too, a key can be read exactly when it
  was put, and nothing is held that no Put wrote, whatever failed before.
- `FirstVersionKept`: the oldest version of a key survives everything. (That it
  is the oldest is section 6.)
- `AgesWithDepth`: `RecencyOrder` with failures. Two levels may then hold copies of the
  same version, one of them in a table that a failed merge has left marked. With four
  levels or more it can get worse: the next merge reads every marked table, at whatever
  level, and keeps the oldest version of a key. So a merge of levels 0 and 1 may read
  tables of levels 2 and 3 that an earlier merge has left marked and write their older
  versions above newer ones at level 2. The property says that nothing else puts an
  older version above a newer one: there is a marked table deeper still that it is in.
- `FilesAccounted`: a live table has its file, and a failure leaves one file behind at
  most, besides the one being built, which stays when an assert ends the process.
- `ManifestsSound`: a manifest written since the last removal names live tables only;
  and without failures, between Puts, the manifest on storage lacks tables of
  level 0 only and names none that is gone.
- `TroubleExplained`: a Put that fails, an assert that fails, a memtable that stays
  full and a mark that stays each have a failure of a certain kind behind them.
- `ImplementsKVStore`: what a caller can still rely on: a key is never forgotten, a Put
  is seen at once or overlooked in favour of what was there, and maintenance goes
  back in time at most. No failure breaks it.

**`restart`** (two sessions, either picker in each, clock up to 5 per session, one
failure). It begins on an empty store, where 5 ticks are two flushes and a
merge, and on `DeepStore`, a store of three full levels with leftovers of a
crashed session, where the first flush sets off merges down to the last level.
A process may die at any step, or go on after a failure, or close the store then, or
use a store it could not open. The second session meets orphan files, ids in use, and tables with
arbitrary times. `Recoverable`: what `CURRENT` names stays whole, with the content
it had when `CURRENT` was written, until the first input of a merge is removed.
`IdsUnique`: ids of live tables differ across sessions though the counter starts
over. `FilesImmutable`: no session writes to a file of another. `TreeAgrees`: an
opened store has in memory what the manifest names, and live tables have their files.
`DurableKeysStay`: from one manifest on storage to the next no key is lost. All
five end where a manifest is stale: section 6 shows what goes wrong after that point.

**`merge_loop`** starts from every pair of full level-0 tables over a run, and
every pair of runs, over 3 keys and 3 timestamps, tables of 2 entries: all
interleavings of ties, duplicates and the change from one table of a run to the
next. It shows that no iterator's assert fails and that the tables come out as
`Merge` has them, and that the loop ends.

**`scan`** takes four keys, so that a start can fall into the gap between two
tables of a level, and has three clients, one in each behaviour: one that puts and
scans as it likes for 9 ticks, the YCSB client with 2 or 3 records and 2 operations, and the manual driver
with 0 or 1 Puts of prepopulation and 0 or 3 reads and writes; each number that the code
rounds up is rounded up to tables of 2. The iterators go up (`ScanIncreasing`), the
heap is within its length and from the start on, and a scan long enough collects
everything in the levels whose tables enclose its start (`ScanComplete`; levels with
no such table are passed over, by `LevelIterator::Seek`), and it ends (`ScanReturns`).
`RequestedKeysFound`: a request is for a key that was loaded, and Get finds it,
although the user's record count bounds the one and the rounded count the other.
`LoadedStoreReopens`: a workload that only reads leaves full tables and an empty
memtable, so that the store can be opened again with all its keys. `ManualAssert`: the
manual driver's assert fails exactly when writes were asked for and reads were not.
`RunsEnd`: each program comes to its end. `ReadsTurnByRatio`, the mutant of
`ManualAssert`, is the loop without the test for an infinite ratio.

**`storage`** (up to 2 live tables, 12 descriptors, 6 table files and 5
manifests). `ReadBack`: `CURRENT` always names a completely written manifest,
that of the last `Persist` that returned, whenever the process dies.
`ManifestsImmutable`: no manifest is overwritten although every session counts
from 0. `CallsReturn`: a call ends unless descriptors run out, and those leak one per id
or name gone through at most. The bounds let the
counters walk over the leftovers of several sessions, and 12 descriptors are few
enough to run out of, so that the loop that never ends (`Spin`) is reached too.

**`quark`** (both engines, 5 flushes over two sessions, a crash at any step of either,
one kind of call that fails).
`TablesReadBack`: whatever has been moved or copied, every table of the tree but
the inputs of a move returns what it was given, and what a merge has still to
read is there. It leaves out `QUARKSTORE_APPEND` after a restart (section 6).
`NoBlockLost`: a merge that moves blocks and fails half way, or between the removals of
two of its inputs, has taken versions from tables that stay in the tree; each of them is still on storage, in another table or in
the unfinished one, so that no more are out of reach than fit in a table.
`CurrentComplete`: a session goes on from the id `CURRENT` holds, so a manifest
left unfinished may be overwritten and the one `CURRENT` names is not; what it names is
what the last `Persist` reported as written. It says so as long as no `Open` has
failed or could not read `CURRENT`, and `CURRENT` could be written (section 6).

**`sst_format`** has tables of up to 6 entries with 2 index entries to a block
(64 in the code): full and not full, with an index that does and does not fill
its blocks. `FullTableParses` says of every one of them whether it can be read again:
a full one with whole blocks is, and no other. `LookupFindsAll` and `SeekFindsRest` are
about the tables that can. **`manifest_codec`** has up to three levels written and a different
number read, with a block too small for some manifests.

Bounds named in the modules: `MaxClock` (LSMTree), `MaxErrors` (LSMFaults,
QuarkStorage), `MaxSessions` (LSMRestart, QuarkStorage), `MaxFlushes` (QuarkStorage),
`MaxLen` (LSMScan), `Operations` and `MaxAnyClock` (Clients), `MaxSSTs` and `MaxManifests` (StorageFS),
`MaxTables` (ManifestCodec). A bound stops a *call* or a failure
from happening, never a step of a call under way, so no call is cut off. `WorkloadDone`,
`NothingMore`, `Rest`, `Ended`, `Dead` and `Done` are the
stuttering steps of a behaviour that a bound or the end of a process stops;
deadlock is checked in every run.

## 4. Fairness

There is one thread and nothing it waits for. A call under way keeps running:
weak fairness of the steps of a call (`PutStep`, `CallStep`,
the loop of a merge). Nothing makes a client call, so `Put`, `StartScan`,
`Flush`, `Open` and `Close` are not fair, and neither are `Crash` and the failures. The programs of
`Clients` are the exception: their loops are code of the repository, so the steps of
`YCSB` and `Manual` are fair with those of the calls they make, and the client that
does as it likes is not. In `StorageFS` the
loop without a free descriptor repeats with no change: it is a stuttering step,
outside `CallStep`, and a call that is in it need not end.

## 5. What is proved

For every set of keys (finite or not, except in `MergeLoop`), every number of levels,
maximum sizes, fanout and limit, every size of a block, both pickers, and any number of
sessions and failures, unless a condition is given. All invariants and action properties of
the runs are among them:

| Module | Theorem | States |
|---|---|---|
| `LSMTreeProofs` | `TypeCorrect` | `Spec => []TypeOK` |
| | `KeepInvariant` | `Spec => []KeepInv` |
| | `KeysAreKept` | `Spec => []KeysKept` |
| | `FirstVersionIsKept` | `Spec => []FirstVersionKept` |
| | `StorageAgreesAlways` | `Spec => []StorageAgrees` |
| | `TablesAreDurable` | `Spec => []DurableTables` |
| | `RecInvariant` | `Spec => []Invs` |
| | `RecencyHolds` | `Spec => []RecencyOrder` |
| | `NewestIsRead` | `NewestHeldRead`, while level 0 has one table at most |
| | `TreeImplementsKVStore` | `Spec => ImplementsKVStore` |
| | `SortedInvariant` | `Spec => []AllInv` |
| | `RunsAreSorted` | `Spec => []SortedRuns` |
| | `NothingAborts` | `Spec => []NoAbort`, if `Limit > 1` and `Level0Max > 0` |
| | `LevelsAreBounded` | `Spec => []LevelsBounded`, if `NLevels > 3 => Fanout > 1` |
| | `PutsDescend` | each step of a Put brings it closer to its end |
| `LSMRestartProofs` | `FaultsTypeCorrect` | `FaultsSpec => []FaultsTypeOK` |
| | `KeysAreKeptDespiteFailures` | `FaultsSpec => []KeysKept` |
| | `FirstVersionIsKeptDespiteFailures` | `FaultsSpec => []FirstVersionKept` |
| | `AgesWithDepthDespiteFailures` | `FaultsSpec => []AgesWithDepth` |
| | `FaultsImplementKVStore` | `FaultsSpec => ImplementsKVStore` |
| | `FilesAreAccounted` | `FaultsSpec => []FilesAccounted` |
| | `ManifestsNameLiveTables` | the first part of `ManifestsSound` |
| | `ManifestsAreSound` | `FaultsSpec => []ManifestsSound`, if `Limit > 1` |
| | `FailuresComeFirst` | no Put fails before an operation has, if `Limit > 1` |
| | `TroubleIsExplained` | `FaultsSpec => []TroubleExplained`, if `Limit > 1` and `Level0Max > 0` |
| | `RestartInvariant` | `RestartSpec => []RestartInv` |
| | `RestartTypeCorrect` | `RestartSpec => []RestartTypeOK` |
| | `StoreIsRecoverable` | `RestartSpec => []Recoverable` |
| | `TableIdsAreUnique` | `RestartSpec => []IdsUnique` |
| | `PersistedFilesStay` | `RestartSpec => FilesImmutable` |
| | `DurableKeysAreKept` | `RestartSpec => DurableKeysStay` |
| | `TreesAgree` | `RestartSpec => []TreeAgrees`, if `Limit > 1` |
| `ClientsProofs` | `TreesInvariant` | `ClientsSpec => [](CountsInv /\ TreesInv)` |
| | `RequestsFindTheirKeys` | `ClientsSpec => []RequestedKeysFound` |
| | `LoadedStoresReopen` | `ClientsSpec => []LoadedStoreReopens` |
| | `ManualAssertFails` | `ClientsSpec => []ManualAssert` |
| | `ScansIncrease` | `ClientsSpec => []ScanIncreasing`, if `OneTableAtLevel0` |
| | `ScansCollectWhatIsDue` | `ClientsSpec => []ScanComplete`, if `OneTableAtLevel0` |
| | `ScansDescend` | each step of a scan brings it closer to its end, if `OneTableAtLevel0` |
| `MergeLoopProofs` | `Loop` | `Spec => []LoopInv` |
| | `NoAssertFails` | `Spec => []AssertsHold` |
| | `LoopWritesTheMerge` | the loop starts where `Merge` does, and each step is one of it or a stutter |
| | `LoopDescends` | each step takes a version from the heap, or ends the loop |
| `FileFormatProofs` | `Format` | `Spec => []FormatInv` |
| | `FindsAll` | `Spec => []LookupFindsAll` |
| | `FindsRest` | `Spec => []SeekFindsRest` |
| | `FullParses` | `Spec => []FullTableParses` |
| | `ReadsWhatWasWritten` | `CodecSpec => []RoundTrip` |
| `StorageFSProofs` | `StorageInvariant` | `Spec => []StorageInv` |
| | `CurrentReadsBack` | `Spec => []ReadBack` |
| | `ManifestsStay` | `Spec => ManifestsImmutable` |
| | `LeaksAreBounded` | `Spec => [](leaked <= sstCtr + manifestCtr)` |
| `QuarkStorageProofs` | `PointInvariant` | `Spec => []PointInv` |
| | `CurrentIsComplete` | `Spec => []CurrentComplete` |
| | `QuarkInvariant` | `Spec => []QuarkInv` |
| | `TablesAreReadBack` | `Spec => []TablesReadBack` |
| | `NoBlockIsLost` | `Spec => []NoBlockLost` |

The assumptions are those on the constants, named where they are declared, and TLC
evaluates them on every run. Those that say more than the type of a constant:

- `PowersAssumption` of `LSMTree`: the two equations of a power, for the provers, which
  know `^` by name only;
- `QuarkAssumption`: the null pointer is no id;
- `MergeAssumption` of `MergeLoop`: the null pointer is no version, and the keys are finitely
  many, so that the tables merged have finitely many versions;
- `StoresAssumption` of `LSMRestart`: the store a behaviour begins with has files with
  different names and finitely many versions in them, and names no file at two levels.
  Everything else about it is left open: what is in the files, in which order, whether
  a table is full.

The conditions are needed, and TLC shows each. With tables of one entry (`Limit = 1`),
`verify` refuses what a merge has written, in the first session already. With
`Level0Max = 0` a compaction begins with one table and `Compact` asserts two. With fanout 1
and four levels, a move to an empty level can overfill it, and `Compact` does not look.
`OneTableAtLevel0` is `Limit > 1`, `NLevels > 1`, `Level0Max = 1` and `NLevels > 3 => Fanout > 1`:
a scan reads level 0 as a run, which it is with one table at most, and the other three keep a
Put from leaving more.

No property is inductive as it stands. The invariants that are:

**What is kept** (`KeepInv`). While a merge removes its inputs, a version stays in the
store only because the merge wrote it, or an older one of its key, before; that has
to be known when the first input goes.

- `WrittenInv`: every version in the memtable, in a table or still to be written
  by a merge was put, and every timestamp is below the clock;
- `FileInv`: every live table has a file, no two share an id, and the file being
  built is not a live table's, so that removing a table by its id removes that one
  only and an output never replaces a table;
- `MergeInv`: of every version a merge will remove, one of its key as old is in
  `todo` or in a table of the next level that the merge does not remove, and
  `todo` is empty once removal begins;
- `FirstInv`: the oldest version of every key is in the memtable or in a table.

`KeysKept` follows, because a key that was put has a first version, and `Get` finds a
key that is held anywhere. `KeepInv` survives every failure, and so does the part of it
that knows nothing of timestamps (`TreeInv`) every restart.

**Its order** (`RecInv`). A table has one version of a key, the tables of level 0 have
different times, below level 0 a key is in one table of a level, and a merge's inputs and
what it has still to write fit between the levels above and below. With the picker `ONE`
the last rests on the oldest table leaving level 0 first. All of this has to survive a
failed merge, whose caller may go on, with a level half written and its inputs marked. So
the invariant is stated with an exception. A table is *frozen* when it is marked and no input
of the merge under way. A version may lie above a newer one, or two tables of a run have
the same key, only where a frozen table has the older version; and a merge goes on only to
levels without marks (`MarksInv`), which is why the exception does not spread. Without
failures nothing is frozen (`CleanInv`), and the order is `RecencyOrder`; with them it is
`AgesWithDepth`.

**The refinement** of `KVStore` goes action by action: a Put is `KVStore!Put`, any other
step is `KVStore!Maintain`, because no step of a flush or a merge makes a Get answer
with a version newer than those it might have answered with before. For a removal this is
the order above, with its exception: what was frozen has an older copy that stays. A
failed step stutters or removes one table, so that `FaultsImplementKVStore` follows too.

**Sizes and order of tables** (`SortedInv`). No table is empty or has more than `Limit`
entries (`SizesInv`), a merge's outputs are full and below what is in `todo`
(`OrderInv`), and there are at least as many inputs as outputs written and to come
(`CountInv`). `NothingAborts` needs all three: the iterators' asserts are about the
order, `assert(newSSTs <= toCompact)` about the count, and `verify` about sizes.

**Sizes of levels** (`LevelsInv`). Every level but the last is within its maximum, but
for the one `Compact` is at, which with the picker `ONE` has one table too many and with `ALL` at
most twice as many as it may have, and the one a merge writes to, which gets no more
tables than the merge has read.

**The end of a Put** (`PutsDescend`). Compact goes down the levels and each has three
stages, a merge, its removals and the look at the next level; `Stage` counts those left. A
merge's `Chunk` is never empty and a removal takes an input that is there (`Left`). So a
Put is one finite descent, however the levels cascade.

**What explains trouble** (`FaultsAllInv`, `StopInv`, `AssertInv`, `FullInv`). Until a merge
has failed, everything above holds as without failures, for a flush or a `Persist` that
failed leaves no marks. A Put then fails only where an operation has; the memtable is past its limit
only after a failed flush. `LeftInv` counts files without a table: each step that can fail
leaves one, and the file being built is one of them until its table is in its level.

**Files and manifests** (`StorageInv` of `LSMTreeProofs` and `NamedInv` without failures,
`FilesInv` and `ManifestsNameLive` with them). Files have different names, and the one being
built exists: then no step but a removal takes a name from a manifest.

**Sessions** (`RestartInv`). As long as no session has begun with a stale manifest: the
tables of a process hold every durable key and have their files, the manifest in memory
unless stale names live tables that hold every durable key, and so for the manifest on
storage, which moreover does not name the file being built. This carries a durable key
from what `CURRENT` names through a session to what it names next.

In a session that has opened tables, with arbitrary times and a clock that starts over,
the order of versions is lost, and so is what `NothingAborts` rests on. That no Put
*fails* there without a reason, which the last part of `TreeAgrees` needs, follows from less
(`AgreeInv`): whatever order its inputs are in, a merge keeps one version of a key and writes a
run of full tables, which `verify` accepts.

**The programs** (`TreesInv`, `CountsInv`). A scan changes nothing of the tree, so that a
session of any client is one of `LSMTree` with scans in between, and what is proved of the
one holds of the other (`TreesInv`). The rest counts. The YCSB client may request no more records
than it loads, and each it has loaded has its key (`CountsInv`, `RecordsInv`). It loads a
multiple of `Limit` of them, each once: as no key is put twice, all tables stay full and the
memtable is empty at the end (`ReopenInv`). The manual driver's ratio keeps either of its
counts below its target while the other is, unless no reads are asked for (`ManualInv`).

**Scans** (`ScanInv`). The run a `LevelIterator` yields after its `Seek` is in order,
has no version twice, and has all of the level from the start on, because a level that is a
sorted run (`SortedRuns`) has its tables in the order of their smallest keys (`Seeks`). Then
the heap keeps what it was given while it has room for all that is due (`HeapInv`): each
version due of the levels read so far is in it or still to be yielded.

**The loop of a merge** (`LoopInv`). The iterators of the heap have what they are at and still
to come in order and no two have a version in common, so that the top is the smallest version
left and what remains after `Next` is all but that one (`HeapInv`). The room for the versions left
is as many tables as are merged, each of which is full but perhaps the last of a run (`RoomInv`),
which is what the last assert asks. For the refinement: everything before the last version
taken has been taken (`TakenInv`), so a version is the oldest of its key exactly when `prev` has
another key; and `Merge`'s `todo` is what the table being written has and what is to be kept of
what is left (`WrittenInv`), so that a full table is `todo`'s first `Limit` versions.

**Formats** (`FormatInv`, `CodecInv`). The offset of a version is the rank of its key, and the
index has it at that rank: that is a fact about every position in the file, before and after
each append. `std::map` forgets the order of the Puts, and so does a rank. `FullTableParses`
follows because the count of a full table with whole blocks is where the parser looks, and
of any other table what is there is not a count (`ParseFormat`). A manifest's words begin
with the number of levels, and by the sums of lengths before it each level is found at its offset
(`LaidOffsets`).

**The directory** (`StorageInv` of `StorageFSProofs`). The manifest being written is
a file of its own, that nothing names, and complete before `CURRENT` is.

**Atoms** (`PointInv`, `QuarkInv`). Ids of manifests grow past the one `CURRENT` names,
unless `Open` failed or could not read it. A table's offsets are within its atom, and no two tables
share one (`IdsInv`, `FitsInv`). Of a merge, `MovedInv` knows that the block of a version still
to be written is where the input with it has it, and that every version of an input is
there, in the table being built or in another one; which is what a copy, a move or a failure
half way must not disturb. A failure leaves the inputs a merge had left, next to the last
table it wrote when it was a removal that failed (`VictimsInv`). Where atoms are moved, a new one must be empty (`EmptyInv`):
this is what a restart breaks.

TLAPS cannot do induction here. That a nonempty set of naturals has a least element
(`LeastNatural`) comes from the well-foundedness of `<` on `Nat` in the library, and what
a count needs beyond the library's theorems on cardinalities (how many entries several
tables have together, and that a merge's `Chunk` has `Limit` of them) is derived from
that by taking the least counterexample. Each proof has a step for every action.

The same argument shows, in `TablesProofs`, that a set put in order and a flattened
sequence are what their names say: there is a sorted sequence of a set because the rank of
a member is a bijection, and `FlattenSeq` goes by the sums of the lengths.

Checked by TLC only is liveness, which is out of the prover's reach with `ENABLED`:
`PutReturns`, `CallsReturn`, `ScanReturns`, `RunsEnd`, and the fairness of `Merge` in
`ImplementsMerge`. Of three of them the measure is proved that falls with every step
(`PutsDescend`, `ScansDescend`, `LoopDescends`), and of `CallsReturn` that descriptors leak
only as its escape clause says (`LeaksAreBounded`). What TLC adds is that a step can always
be taken.

## 6. Where the code and its documentation disagree

Three runs check what a comment of the code says and find it violated:

- **`tree_merge`** (`NewestKept`). `core/SSTManager.h:40` promises "The newest value
  associated with the key". `doCompaction` meets the versions of a key oldest
  first, keeps the first and skips the others (`core/Compacter.cpp:101`), so a merge
  brings back an old value. In the same spirit `MemTable::Put` uses
  `std::map::insert`, so a second Put of a buffered key changes nothing.
- **`restart_crash_open`** (`OpenSucceeds`). `core/Manifest.h:20`: "Open the manifest
  and parse all live SST files". The inputs of a merge are unlinked
  (`core/Compacter.cpp:204`) before the manifest without them is written
  (`core/DBImpl.cpp:314`). A process that dies in between leaves a store that
  does not open.
- **`restart_partial`** (`ParseSurvives`). `core/SSTManager.h:33`: "A pointer to the
  read and parsed SST file". `SST::Parse` looks for index and count where a full
  table has them (`core/SST.cpp:38`); the last table of a merge need not be full,
  and is read as one with no entries, whose first key is then taken.
The following came up on the way. They have no run of their own; each can be
seen by the change given.

| What | How to see it |
|---|---|
| "Create new empty SST. @return A pointer to the newly created SST." (`core/SSTManager.h:20`): every attempt at a taken id and every `Persist` leaks a descriptor (`fs/io_fs.cpp:15`, `fs/ManifestFS.cpp:57`); with none left `NewEmptySST` takes each failure for a taken id and never returns. | `CallsReturn` with `Quiet` alone on its right |
| `quark/ManifestQuark.h:13` says of `Open` that it "parses its content"; it returns before it does (`quark/ManifestQuark.cpp:45`). An opened store is empty. | `Open` of `QuarkStorage` |
| Table ids start over in every session and `AtomRemove` does nothing (`quark/io_quark.cpp:63`), so a new table may get an atom with content. `QUARKSTORE_APPEND` then appends behind that content and reads in front of it. | `TablesReadBack` without its condition |
| With several tables at level 0, `Get` returns the version at the highest address (`core/DBImpl.cpp:105`), not the newest. | `NewestHeldRead` with `Level0Max = 2` |
| `verify` refuses a table with one key that is not the last (`core/Compacter.cpp:239`); `Compact` then returns -1 with storage already changed. Only tables of one entry are affected. | `NoAbort` in `LSMTree` with `Limit = 1` |
| `clock_` is "monotonically increasing" (`core/SSTManager.h:65`), but starts at 0 in every session (`core/SSTManager.cpp:16`). A merge of tables of two sessions then meets equal versions and an iterator's assert fails. | `NoAbort` in `LSMRestart` with `CrashesAllowed = FALSE` and `MaxErrors = 0` |
| `Scan` reads level 0 as if its tables were a run (`core/DBImpl.cpp:180`). | `ScanIncreasing` with `Level0Max = 2` |
| `Scan` passes over a level in which its start falls between two tables (`iterators/LevelIterator.cpp:49`). | `ScanComplete` with `entered == Level` |
| The index is written in whole blocks and read as if it had no padding (`core/SST.cpp:39`, `:224`). | `FullTableParses`: a full table with a padded index ends in `misread` or `unread` |
| The manifest has one block and nothing checks that it fits (`core/Manifest.cpp:86`): beyond 1016 tables in 7 levels it does not. | the phase `overrun` of `ManifestCodec` |
| A flush that fails leaves the memtable full, and `Full` compares with `==` (`core/MemTable.cpp:26`). The next Put of a new key takes it past its limit; from then on it is never flushed, and everything put is lost at `Close`. | `TroubleExplained` without `"flush" \in failures` |
| A compaction that fails leaves its marks (`core/Compacter.cpp:68`). The next one that meets them fails `assert(!markedForCompaction_)` (`core/SST.cpp:172`). | `TroubleExplained` with `{"read"}` alone for `aborted` |
| `Client::~Client` closes the store after a failed Put (`ycsb/Client.cpp:31`) and so makes the manifest in memory current, which may name tables whose files are removed. | `Recoverable` without its condition on `stale` |
| A client goes on when `Open` has failed (`ycsb/Client.cpp:23`). Its tables are those up to the missing one, its manifest names more, and its Close or next compaction makes one of the two current. | `TreeAgrees` without `whole` |
| Ids start over, so a new table may get the id of one that a stale manifest names, and `Open` then reads the one for the other. | `Recoverable` with `whole` alone as its condition |
| The manual driver asserts that it has made the reads and writes it was asked for (`main.cpp:101`). With `read_size` 0, its default, and any writes it makes one read all the same; the assert fails, and `Close` is never called. | `ManualAssert` with `client # "killed"` |
| "If the generator picks a key that is not inserted yet, we just ignore it and pick another key" (`ycsb/core/core_workload.cpp:138`), in a key space made large enough for new keys. What is not ignored is bounded by `insert_key_sequence_`, which stays at the record count: a key inserted after the load is never requested. | `Requestable` in `Clients` |
| QuarkStore's `Persist` returns what the write of `CURRENT` returned (`quark/ManifestQuark.cpp:79`), and its callers test for -1 only: a Put or Close may report success with the old manifest current. | `CurrentComplete` without `"current" \notin failures` |
| A `CURRENT` that cannot be read counts as a store without a manifest (`quark/ManifestQuark.cpp:113`): the counter starts over, and the manifest `CURRENT` names is overwritten. So it is by a client that goes on when `Open` has failed before that (`quark/ManifestQuark.cpp:32`, `ycsb/Client.cpp:23`). | `CurrentComplete` without `"open" \notin failures` |
| A store opened with fewer levels than it has tables in throws `std::out_of_range` (`core/Manifest.cpp:70`). | the phase `thrown` of `ManifestCodec` |

## 7. What is not modelled

- **Some errors of I/O.** Writes, reads in a merge, unlinks and `Persist` fail in
  `LSMFaults`, the calls on QuarkStore in `QuarkStorage`, those of `Open` among them. On the file system
  the calls of `Open` other than the opening of a table's file do not fail, nor does a read in `Get` or `Scan`, which change
  nothing. A failed `close` of a removed table ends the process, as `Crash` does.
- **Torn writes.** A write of one 4096-byte block with `O_DIRECT` is taken to be
  atomic, and to be on storage when it returns.
- **QuarkStore itself**. Its library and its kernel module are not in the repository.
- **`core/DBImpl.cpp` `populate`, `SSTManager::PopulateSST` and `RemoveSST`**: called
  by nobody.
- **Key generators and distributions** (`utils/KeyGenerator.cpp`, `ycsb/core/*_generator.h`):
  random. Where `Clients` picks a key or a number, which one is left open.
- **Statistics and printing**: counters and text on which no decision depends.
- **Parsing of the command line and of workload files**: text. The rounding of sizes is in
  `Clients`.
- **Arithmetic of the configuration**: sizes of levels are products of unbounded
  naturals; `Config::maxSizeOfLevel` goes through `double` and back to 32 bits.
- **Strings.** Keys are numbers in the order of the padded strings; `padKey` is
  the identity on keys of at most `key_size` characters, the ones that are used.

## 8. Plan

The core came first: `Tables`, `LSMTree`, `KVStore` and the proofs of
`LSMTreeProofs`, then sessions (`LSMRestart`), what `LSMTree` relies on
(`MergeLoop`, `LSMScan`), storage and formats (`StorageFS`, `QuarkStorage`,
`SSTFormat`, `ManifestCodec`), failures (`LSMFaults`, and those in `LSMRestart` and
`QuarkStorage`), the programs on top (`Clients`), and the other proofs. All of these are in
place. What is left, most important first:

1. *The clock across sessions*: order of versions with the clock starting over and
   arbitrary `ts_`, up to the first merge of two sessions' tables, which may abort.
2. *`KVStore` over sessions*: what a store that is opened again promises to callers of the
   session before, as a refinement of `LSMRestart`.
3. *Torn writes* of the block of `CURRENT` and of a manifest.
4. *More than one level in `QuarkStorage`*, for the moves of a cascade.
5. *The rounds of the programs*: measures like those of `PutsDescend` for the loops of the
   YCSB client and the manual driver, and for the calls of `StorageFS`.

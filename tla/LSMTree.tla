------------------------------- MODULE LSMTree -------------------------------
(***************************************************************************)
(* The LSM tree of QuarkKV on the file-system engine, in one session: the  *)
(* memtable, the tables (SSTs) of every level, the in-memory manifest and  *)
(* the one on storage, and what DBImpl::Put sets off - the flush of a full *)
(* memtable and the compaction of the levels that have grown too large.    *)
(*                                                                         *)
(* QuarkKV is single threaded: a Put runs to its end before the next call. *)
(* It is split into steps at the points where storage changes, because     *)
(* those are the points at which a process can die (module LSMRestart).    *)
(*                                                                         *)
(* A value is a constant followed by the timestamp of its Put, so a        *)
(* version of a key is the pair of the key and that timestamp.             *)
(***************************************************************************)
EXTENDS Tables

CONSTANTS
    Keys,        \* the keys clients use; numbers, ordered as the strings are
    NLevels,     \* Config::n_levels
    Level0Max,   \* Config::level0_max_size
    Fanout,      \* Config::fanout
    Limit,       \* entries of a full table: sst_file_size / kv_size()
    Pickers,     \* the values Config::cp may have
    MaxClock     \* bound: no Put starts once the clock has reached it

ASSUME KeysAssumption == Keys \subseteq Nat
ASSUME ShapeAssumption == /\ NLevels \in Nat \ {0}
                          /\ Limit \in Nat \ {0}
                          /\ Level0Max \in Nat
                          /\ Fanout \in Nat
ASSUME PickerAssumption == Pickers \subseteq {"ALL", "ONE"}
ASSUME BoundAssumption == MaxClock \in Nat
\* What a power is, for the provers.
ASSUME PowersAssumption == /\ Fanout ^ 0 = 1
                           /\ \A l \in 0 .. NLevels : Fanout ^ (l + 1) = Fanout * Fanout ^ l

VARIABLES
    memTable,    \* MemTable::table_
    ssts,        \* DBImpl::ssts_, the tables of each level
    files,       \* the SST files on storage
    clock,       \* SSTManager::clock_
    ctr,         \* SSTManager::ctr_, the next file id to try
    marked,      \* ids of the tables with markedForCompaction_ set
    manifest,    \* Manifest::sst_files_, in memory
    current,     \* the content of the manifest file CURRENT names, on storage
    phase,       \* where in Put the process is
    level,       \* Compacter::Compact's loop variable
    building,    \* id of the file being written in phases "flush" and "merge"
    todo,        \* versions doCompaction has still to write
    toCompact,   \* doCompaction's argument, the tables the merge replaces
    newSSTs,     \* CompactionStats::newSSTs
    picker,      \* Config::cp, which tables of a full level are compacted
    written      \* history: for each key, the timestamps its Puts were given

treeVars    == <<memTable, ssts, manifest>>
storageVars == <<files, current>>
mergeVars   == <<marked, level, building, todo, toCompact, newSSTs>>
vars == <<treeVars, storageVars, mergeVars, clock, ctr, phase, written, picker>>

Level == 0 .. NLevels - 1
KV    == [key : Keys, ts : Nat]
SST   == [id : Nat, kvs : SUBSET KV, persistTime : Nat]
File  == [id : Nat, kvs : SUBSET KV]
Phase == {"idle", "flush", "compact", "merge", "remove", "persist",
          "failed",   \* Compact returned -1, and so did Put
          "aborted"}  \* an assert failed and killed the process

TypeOK ==
    /\ memTable \in SUBSET KV
    /\ ssts \in [Level -> SUBSET SST]
    /\ files \in SUBSET File
    /\ clock \in Nat
    /\ ctr \in Nat
    /\ marked \in SUBSET Nat
    /\ manifest \in [Level -> SUBSET Nat]
    /\ current \in [Level -> SUBSET Nat]
    /\ phase \in Phase
    /\ level \in Level
    /\ building \in Nat
    /\ todo \in SUBSET KV
    /\ toCompact \in SUBSET SST
    /\ newSSTs \in Nat
    /\ picker \in Pickers
    /\ written \in [Keys -> SUBSET Nat]

-----------------------------------------------------------------------------
(* Tables and versions *)

LiveSSTs == UNION {ssts[l] : l \in Level}

MaxSize(l) == Level0Max * Fanout ^ l

\* The mutants defined here are plausible slips in the operator that follows.
WithinLimitOffByOne(l) == Cardinality(ssts[l]) <= MaxSize(l) + 1
WithinLimit(l) == Cardinality(ssts[l]) <= MaxSize(l)

(* SSTManager::NewEmptySST tries the ids from ctr on until SSTFS finds one *)
(* no file has, and creates that file, empty.                              *)
FreshIdsUnchecked(fs) == {ctr}
FreshIdsFromBelow(fs) == {ctr - 1}
FreshIds(fs) == {id \in ctr .. ctr + Cardinality(fs) :
                   /\ id \notin Ids(fs)
                   /\ \A j \in ctr .. id - 1 : j \in Ids(fs)}

NewEmptySST(fs) ==
    \E id \in FreshIds(fs) :
        /\ files' = fs \cup {[id |-> id, kvs |-> {}]}
        /\ ctr' = id + 1
        /\ building' = id

\* SST::Persist: the file being built gets its entries, its index and the count.
Persisted(fs, kvs) ==
    {f \in fs : f.id # building} \cup {[id |-> building, kvs |-> kvs]}

-----------------------------------------------------------------------------
\* DBImpl::DBImpl: what a process has before it opens a store.
InitMemory ==
    /\ memTable = {}
    /\ ssts = [l \in Level |-> {}]
    /\ manifest = [l \in Level |-> {}]
    /\ clock = 0
    /\ ctr = 0
    /\ marked = {}
    /\ level = 0
    /\ building = 0
    /\ todo = {}
    /\ toCompact = {}
    /\ newSSTs = 0
    /\ picker \in Pickers
    /\ written = [k \in Keys |-> {}]

Init ==
    /\ InitMemory
    /\ files = {}
    /\ current = [l \in Level |-> {}]
    /\ phase = "idle"

-----------------------------------------------------------------------------
(* Put and flush *)

(* MemTable::Put calls std::map::insert, which leaves an existing entry as *)
(* it is: the version of a Put of a buffered key is dropped.               *)
Inserted(k, t) == IF k \in KeysOf(memTable)
                    THEN memTable
                    ELSE memTable \cup {[key |-> k, ts |-> t]}

\* DBImpl::Put, up to the creation of the file a full memtable is flushed to.
Put(k) ==
    /\ phase = "idle"
    /\ clock < MaxClock
    /\ memTable' = Inserted(k, clock)
    /\ clock' = clock + 1
    /\ written' = [written EXCEPT ![k] = @ \cup {clock}]
    /\ \/ /\ Cardinality(memTable') # Limit
          /\ UNCHANGED <<phase, files, ctr, building>>
       \/ /\ Cardinality(memTable') = Limit
          /\ phase' = "flush"
          /\ NewEmptySST(files)
    /\ UNCHANGED <<ssts, manifest, current, marked, level, todo, toCompact, newSSTs, picker>>

\* Where flush goes once level 0 holds the new table. Compact asserts that
\* level 0 has more than one table.
AfterFlushAskingForThree(level0) ==
    IF Cardinality(level0) <= Level0Max THEN "idle"
    ELSE IF Cardinality(level0) > 2 THEN "compact" ELSE "aborted"
AfterFlush(level0) ==
    IF Cardinality(level0) <= Level0Max THEN "idle"
    ELSE IF Cardinality(level0) > 1 THEN "compact" ELSE "aborted"

\* SSTManager::FlushToSST after the file was created, and the rest of
\* DBImpl::flush up to the call of Compact. The manifest is not persisted.
FlushSST ==
    /\ phase = "flush"
    /\ files' = Persisted(files, memTable)
    /\ ssts' = [ssts EXCEPT ![0] = @ \cup {[id |-> building, kvs |-> memTable,
                                            persistTime |-> clock]}]
    /\ clock' = clock + 1
    /\ memTable' = {}
    /\ manifest' = [manifest EXCEPT ![0] = @ \cup {building}]
    /\ phase' = AfterFlush(ssts'[0])
    /\ level' = 0
    /\ UNCHANGED <<current, ctr, marked, building, todo, toCompact, newSSTs, written, picker>>

-----------------------------------------------------------------------------
(* Compaction: the head of Compacter::Compact's loop *)

\* The loop ends at the last level and at the first level that is not too large.
StopCompaction ==
    /\ phase = "compact"
    /\ level = NLevels - 1 \/ WithinLimit(level)
    /\ phase' = "persist"
    /\ UNCHANGED <<treeVars, storageVars, mergeVars, clock, ctr, written, picker>>

\* The table of level 0 persisted first, provided it was before the clock's
\* time now; none otherwise, and then assert(sst) fails.
NewestOfLevel0 == FirstOf({s \in ssts[0] : \A t \in ssts[0] : s.persistTime >= t.persistTime})
OldestOfLevel0 == FirstOf({s \in ssts[0] :
                             /\ s.persistTime < clock
                             /\ \A t \in ssts[0] : s.persistTime <= t.persistTime})

\* markUpperLevelForCompaction: the sets of tables it may mark at level l.
\* The random choice at the levels below 0 is left open.
Victims(l) ==
    IF picker = "ALL" THEN {ssts[l]}
    ELSE IF l = 0 THEN {OldestOfLevel0}
    ELSE {{s} : s \in ssts[l]}

\* Picking the oldest table of level 0 reads the clock and advances it.
PickTick == IF picker = "ONE" /\ level = 0 THEN 1 ELSE 0

TooLarge == phase = "compact" /\ level < NLevels - 1 /\ ~WithinLimit(level)

\* What the marking of the victims and of the next level asserts: there is a
\* table to mark, and none has a mark.
Markable(victims) == victims # {} /\ marked \cap Ids(victims \cup ssts[level + 1]) = {}

\* initEmptyLevel: the marked tables move to an empty next level as they are.
Moved(victims) == {s \in ssts[level] : s.id \in marked \cup Ids(victims)}

MarksAfterMoveLeaking(victims) == marked \cup Ids(victims)
MarksAfterMove(victims) == marked \ Ids(Moved(victims))

MoveToEmptyLevel(victims) ==
    /\ TooLarge
    /\ level # 0 /\ ssts[level + 1] = {}
    /\ ssts' = [ssts EXCEPT ![level] = @ \ Moved(victims), ![level + 1] = Moved(victims)]
    /\ marked' = MarksAfterMove(victims)
    /\ phase' = IF Markable(victims) THEN "persist" ELSE "aborted"
    /\ UNCHANGED <<memTable, manifest, storageVars, level, building, todo,
                   toCompact, newSSTs, clock, ctr, written, picker>>

\* The asserts of KVIterator, LevelIterator and CompactionIterator: no version
\* comes twice, and the tables of a level below 0 follow one another.
StrictlyIncreasing(tables) ==
    /\ \A s, t \in tables : s # t => s.kvs \cap t.kvs = {}
    /\ \A l \in Level \ {0} : \A s, t \in tables \cap ssts[l] :
         s # t /\ Before(s, t) => \A p \in s.kvs, q \in t.kvs : KVLess(p, q)

\* The tables CompactionIterator goes through: the marked ones of every level.
InputsOfOneLevel(marks) == {s \in ssts[level] : s.id \in marks}
Inputs(marks) == {s \in LiveSSTs : s.id \in marks}

\* doCompaction is handed the marked tables of the level and of the next one.
ReplacedUpperOnly(marks) == {s \in ssts[level] : s.id \in marks}
Replaced(marks) == {s \in ssts[level] \cup ssts[level + 1] : s.id \in marks}

\* markLevelForCompaction on the next level, the iterator's construction and
\* the start of doCompaction. The iterators' asserts fail later, at the offending
\* pair; by then the merge has at most written tables the manifest does not name.
StartMerge(victims) ==
    LET chosen == victims \cup ssts[level + 1]
        sound  == Markable(victims) /\ StrictlyIncreasing(Inputs(marked'))
    IN  /\ TooLarge
        /\ level = 0 \/ ssts[level + 1] # {}
        /\ clock' = clock + PickTick
        /\ marked' = marked \cup Ids(chosen)
        /\ todo' = Merged(Inputs(marked'))
        /\ toCompact' = Replaced(marked')
        /\ IF Markable(victims) THEN NewEmptySST(files) ELSE UNCHANGED <<files, ctr, building>>
        /\ phase' = IF sound THEN "merge" ELSE "aborted"
        /\ UNCHANGED <<treeVars, current, level, newSSTs, written, picker>>

\* What fits in the table being built: the Limit smallest keys still to write.
Chunk == FirstEntries(todo, Limit)

\* finishSSTFile, and NewEmptySST for the next version if there is one.
FinishSST ==
    LET sst  == [id |-> building, kvs |-> Chunk, persistTime |-> clock]
        done == Persisted(files, Chunk)
    IN  /\ phase = "merge"
        /\ ssts' = [ssts EXCEPT ![level + 1] = @ \cup {sst}]
        /\ clock' = clock + 1
        /\ newSSTs' = newSSTs + 1
        /\ todo' = todo \ Chunk
        /\ \/ /\ todo' # {}
              /\ NewEmptySST(done)
              /\ UNCHANGED phase
           \/ /\ todo' = {}
              /\ files' = done
              /\ phase' = "remove"
              /\ UNCHANGED <<ctr, building>>
        /\ UNCHANGED <<memTable, manifest, current, marked, level, toCompact, written, picker>>

\* removeCompacted, one table: out of its level, and its file off storage.
NotYetRemoved == toCompact \cap (ssts[level] \cup ssts[level + 1])
KeptOnStorage(s) == files
RemainingFiles(s) == {f \in files : f.id # s.id}

RemoveSST ==
    /\ phase = "remove"
    /\ \E s \in FirstOf(NotYetRemoved) :
         /\ ssts' = [ssts EXCEPT ![level] = @ \ {s}, ![level + 1] = @ \ {s}]
         /\ files' = RemainingFiles(s)
         /\ marked' = marked \ {s.id}
    /\ UNCHANGED <<memTable, manifest, current, level, building, todo, toCompact,
                   newSSTs, clock, ctr, phase, written, picker>>

\* Compacter::verify of the next level: the tables follow one another, and each
\* but the last spans more than one key.
Verified(l) ==
    \A s, t \in ssts[l] : s # t /\ Before(s, t) =>
        /\ Cardinality(KeysOf(s.kvs)) > 1
        /\ \A j \in KeysOf(s.kvs), k \in KeysOf(t.kvs) : j < k

\* The end of doCompaction with its assert, verify, and the loop's increment.
EndMerge ==
    LET counted == newSSTs <= Cardinality(toCompact)
    IN  /\ phase = "remove"
        /\ NotYetRemoved = {}
        /\ phase' = IF ~counted THEN "aborted"
                    ELSE IF Verified(level + 1) THEN "compact" ELSE "failed"
        /\ level' = level + 1
        /\ toCompact' = {}
        /\ newSSTs' = 0
        /\ UNCHANGED <<treeVars, storageVars, marked, building, todo, clock, ctr, written, picker>>

\* The rest of DBImpl::compact: Manifest::Update and ManifestFS::Persist, which
\* writes a new manifest file and then points CURRENT at it.
LiveIdsStale == manifest
LiveIds == [l \in Level |-> Ids(ssts[l])]

PersistManifest ==
    /\ phase = "persist"
    /\ manifest' = LiveIds
    /\ current' = manifest'
    /\ phase' = "idle"
    /\ level' = 0
    /\ UNCHANGED <<memTable, ssts, files, marked, building, todo, toCompact,
                   newSSTs, clock, ctr, written, picker>>

\* The end of a workload: no further Put.
WorkloadDone ==
    /\ phase = "idle"
    /\ clock >= MaxClock
    /\ UNCHANGED vars

\* The steps a Put goes through before it returns.
PutStep ==
    \/ FlushSST
    \/ StopCompaction
    \/ \E victims \in Victims(level) : MoveToEmptyLevel(victims) \/ StartMerge(victims)
    \/ FinishSST
    \/ RemoveSST
    \/ EndMerge
    \/ PersistManifest

Next ==
    \/ \E k \in Keys : Put(k)
    \/ PutStep
    \/ WorkloadDone

Spec == Init /\ [][Next]_vars

\* The thread in a Put keeps running; nothing makes a client call Put again.
FairSpec == Spec /\ WF_vars(PutStep)
-----------------------------------------------------------------------------
(* Properties *)

\* The versions of k the store holds, in memory or in a table.
Versions(k) ==
    {p.ts : p \in {q \in memTable \cup UNION {s.kvs : s \in LiveSSTs} : q.key = k}}

(* DBImpl::Get: the memtable; else level 0, where it compares the addresses *)
(* of the versions it finds, so that any of them may win; else the first    *)
(* table, in level and then in comparator order, with the key. The empty    *)
(* set stands for a key that is not found.                                  *)
TableHits(l, k) == {s \in ssts[l] : k \in KeysOf(s.kvs)}
VersionsIn(kvs, k) == {p.ts : p \in {q \in kvs : q.key = k}}
GetResults(k) ==
    IF k \in KeysOf(memTable) THEN VersionsIn(memTable, k)
    ELSE IF TableHits(0, k) # {} THEN VersionsIn(UNION {s.kvs : s \in TableHits(0, k)}, k)
    ELSE UNION {VersionsIn(UNION {s.kvs : s \in FirstOf(TableHits(l, k))}, k) :
                  l \in {i \in Level : /\ i # 0
                                       /\ TableHits(i, k) # {}
                                       /\ \A j \in 1 .. i - 1 : TableHits(j, k) = {}}}

\* No key is lost and none is made up: at every step of every flush and
\* compaction, a key can be read exactly when it was put, and every version the
\* store holds is one a Put wrote (doCompaction, removeCompacted, flush).
KeysKept ==
    \A k \in Keys : /\ Versions(k) \subseteq written[k]
                    /\ written[k] # {} => GetResults(k) # {}

\* The first version a key ever got is never lost: std::map::insert keeps it in
\* the memtable and doCompaction keeps it among duplicates.
FirstVersionKept ==
    \A k \in Keys : \A t \in written[k] :
        (\A u \in written[k] : t <= u) => t \in Versions(k)

MemTableNewest ==
    \A p \in memTable, s \in LiveSSTs : \A q \in s.kvs : p.key = q.key => q.ts < p.ts
Level0Ordered ==
    \A s, t \in ssts[0] : s.persistTime < t.persistTime =>
        \A p \in s.kvs, q \in t.kvs : p.key = q.key => p.ts < q.ts

\* Versions age with depth: the memtable is newer than every table, a level is
\* at least as new as the levels below it, and strictly newer unless a merge
\* between the two has written its output and not yet removed its input; within
\* level 0 the table persisted later is the newer one.
RecencyOrder ==
    /\ MemTableNewest
    /\ Level0Ordered
    /\ \A i, j \in Level : i < j =>
         \A s \in ssts[i], t \in ssts[j] : \A p \in s.kvs, q \in t.kvs :
            p.key = q.key => /\ q.ts <= p.ts
                             /\ q.ts = p.ts => phase \in {"merge", "remove"} /\ s \in toCompact

\* Every level below 0 is a sorted run: no two of its tables overlap in their
\* key ranges, and of two tables the one with the smaller keys is full. A merge
\* suspends this for the level it writes to until its input is gone.
KeysBelow(s, t) == \A p \in s.kvs, q \in t.kvs : p.key < q.key
SortedRun(l) ==
    \A s, t \in ssts[l] : s # t =>
        \/ KeysBelow(s, t) /\ Cardinality(s.kvs) = Limit
        \/ KeysBelow(t, s) /\ Cardinality(t.kvs) = Limit
SortedRuns ==
    \A l \in Level \ {0} :
        ~ (phase \in {"merge", "remove"} /\ l = level + 1) => SortedRun(l)

\* No assert fails and no compaction is refused: Compact is called with two
\* tables at least, nothing is marked twice, the iterators meet versions in
\* strictly increasing order, a merge writes no more tables than it read, and
\* what it wrote passes verify.
NoAbort == phase \notin {"aborted", "failed"}

\* Once a Put has returned, every level but the last is within its maximum, and
\* no table has kept a mark. Compact stops after moving tables to an empty
\* level without looking at that level's size.
LevelsBounded ==
    phase = "idle" => /\ \A l \in 0 .. NLevels - 2 : Cardinality(ssts[l]) <= MaxSize(l)
                      /\ marked = {}

\* Every live table has its file, with its content.
TablesHaveFiles == \A s \in LiveSSTs : [id |-> s.id, kvs |-> s.kvs] \in files

\* Once a Put has returned, the manifest in memory names the live tables of each
\* level, and the files on storage are those of the live tables, with their
\* content: no table without its file and no file without its table.
StorageAgrees ==
    phase = "idle" =>
        /\ manifest = LiveIds
        /\ files = {[id |-> s.id, kvs |-> s.kvs] : s \in LiveSSTs}

\* Between Puts the manifest on storage is behind at level 0 only, by the tables
\* flushed since the last compaction, and every table it names has its file: a
\* process that stops here leaves a store that opens.
DurableTables ==
    phase = "idle" =>
        /\ \A l \in Level \ {0} : current[l] = Ids(ssts[l])
        /\ current[0] \subseteq Ids(ssts[0])

\* A Put returns: the compaction it set off comes to an end.
PutReturns == phase # "idle" ~> phase = "idle"

\* What the store promises its callers (module KVStore).
Abstract == INSTANCE KVStore WITH Times <- 0 .. MaxClock,
                                  answers <- [k \in Keys |-> GetResults(k)]
ImplementsKVStore == Abstract!Spec

\* "The newest value associated with the key", says SSTManager.h of a lookup:
\* of the versions the store holds, Get returns the newest. It does while level 0
\* has one table at most; with more, Get compares addresses.
NewestHeldRead ==
    phase = "idle" => \A k \in Keys : \A t \in GetResults(k) : \A u \in Versions(k) : u <= t

\* The same promise over time: no step loses the newest version of a key.
NewestKept ==
    [][\A k \in Keys : \A u \in Versions(k) : \E v \in Versions(k)' : u <= v]_vars
=============================================================================

------------------------------ MODULE LSMRestart ------------------------------
(***************************************************************************)
(* The LSM tree over several sessions: the process ends, in DBImpl::Close  *)
(* or by dying at any step of a Put, and a later one opens what is on      *)
(* storage. There is no log: the manifest file that CURRENT names and the  *)
(* table files are all that survives. The memtable, the tables flushed     *)
(* since the last compaction, the clock and the id counter do not.         *)
(*                                                                         *)
(* After a failure the callers differ. main.cpp exits. The YCSB client     *)
(* closes the store all the same, and goes on when opening it has failed.  *)
(***************************************************************************)
EXTENDS LSMFaults

CONSTANTS
    Stores,          \* what may be on storage at first: named, the files of each level
                     \* that CURRENT names, and orphans, which it does not
    MaxSessions,     \* bound: how often the store is opened; the last session goes on
    CrashesAllowed,  \* whether the process may die in the middle of a Put
    UsesUnopened,    \* whether the client goes on after Open has failed
    Garbage          \* values an uninitialized SST::ts_ may turn out to have

ASSUME RestartAssumption == /\ Stores \subseteq [named : [Level -> SUBSET File], orphans : SUBSET File]
                            /\ MaxSessions \in Nat
                            /\ CrashesAllowed \in BOOLEAN
                            /\ UsesUnopened \in BOOLEAN
                            /\ Garbage \subseteq Nat

\* The files of a store have different names, none is named at two levels, and there
\* is an end to what they hold.
ASSUME StoresAssumption ==
    \A store \in Stores :
        LET stored == (UNION {store.named[l] : l \in Level}) \cup store.orphans
        IN  /\ \A f, g \in stored : f.id = g.id => f = g
            /\ \A i, j \in Level : i # j => store.named[i] \cap store.named[j] = {}
            /\ IsFiniteSet(UNION {f.kvs : f \in stored})

VARIABLES
    sessions,   \* how often the store has been opened
    named,      \* history: the files CURRENT named, when it was written
    whole       \* history: no session has begun with a stale manifest

restartVars == <<faultVars, sessions, named, whole>>

\* Where a process is that is not in a Put.
Stopped == {"closed",      \* there is no process
            "openfailed",  \* DBImpl::Open returned -1
            "died"}        \* SST::Parse read from an empty map

RestartTypeOK ==
    /\ memTable \in SUBSET KV
    /\ ssts \in [Level -> SUBSET SST]
    /\ files \in SUBSET File
    /\ clock \in Nat
    /\ ctr \in Nat
    /\ marked \in SUBSET Nat
    /\ manifest \in [Level -> SUBSET Nat]
    /\ current \in [Level -> SUBSET Nat]
    /\ phase \in Phase \cup Stopped
    /\ level \in Level
    /\ building \in Nat
    /\ todo \in SUBSET KV
    /\ toCompact \in SUBSET SST
    /\ newSSTs \in Nat
    /\ picker \in Pickers
    /\ written \in [Keys -> SUBSET Nat]
    /\ errors \in 0 .. MaxErrors
    /\ failures \in SUBSET Kinds
    /\ stale \in SUBSET Manifests
    /\ sessions \in 0 .. MaxSessions
    /\ named \in [Level -> SUBSET File]
    /\ whole \in BOOLEAN

\* The files on storage that a manifest names, by level.
FilesOf(m) == [l \in Level |-> {f \in files : f.id \in m[l]}]
NamedFiles == FilesOf(current)

\* A store that earlier sessions have left in good order, and no process.
RestartInit ==
    /\ InitMemory
    /\ NoFailures
    /\ \E store \in Stores :
         /\ named = store.named
         /\ files = (UNION {named[l] : l \in Level}) \cup store.orphans
    /\ current = [l \in Level |-> Ids(named[l])]
    /\ phase = "closed"
    /\ sessions = 0
    /\ whole = TRUE

\* A step of the session, recording what a manifest names when it is written.
Step ==
    /\ Works \/ Fails \/ GoOn
    /\ named' = IF phase = "persist" /\ phase' = "idle" THEN FilesOf(LiveIds) ELSE named
    /\ UNCHANGED <<sessions, whole>>

\* SSTManager::SSTManager: a process starts with neither the clock nor the counter
\* of the one before.
CountersStartOver == clock' = 0 /\ ctr' = 0

\* What ends with the process; the history of its timestamps with it.
MemoryLost ==
    /\ memTable' = {}
    /\ ssts' = [l \in Level |-> {}]
    /\ manifest' = [l \in Level |-> {}]
    /\ marked' = {}
    /\ level' = 0
    /\ building' = 0
    /\ todo' = {}
    /\ toCompact' = {}
    /\ newSSTs' = 0
    /\ CountersStartOver
    /\ written' = [k \in Keys |-> {}]

\* DBImpl::Close persists the manifest in memory, as old as it may be. It does not
\* flush the memtable. Client::~Client calls it after a failed Put as well.
BothStale(m) == IF m \in stale THEN Manifests ELSE {}

Close ==
    /\ phase \in {"idle", "failed"}
    /\ sessions < MaxSessions
    /\ current' = manifest
    /\ named' = FilesOf(manifest)
    /\ stale' = BothStale("inMemory")
    /\ phase' = "closed"
    /\ MemoryLost
    /\ UNCHANGED <<files, picker, sessions, whole, errors, failures>>

\* The process dies, between two calls or between two steps of one; an assert that
\* failed has killed it, and main.cpp exits after a failed Put.
Crash ==
    /\ CrashesAllowed
    /\ sessions < MaxSessions
    /\ phase \notin Stopped
    /\ phase' = "closed"
    /\ MemoryLost
    /\ UNCHANGED <<storageVars, picker, sessions, named, whole, errors, failures, stale>>

\* SST::Parse expects the entry count where a full table has it. In a table that
\* is not full it reads past the end, takes 0 entries and then reads the first
\* and the last element of an empty map.
Parses(f) == Cardinality(f.kvs) = Limit

Lacking(l) == \E id \in current[l] : id \notin Ids(files)
Missing    == \E l \in Level : Lacking(l)

\* The tables DBImpl::Open reads: level by level, up to the first whose file is
\* missing. The order within that table's level is left open.
Readable ==
    IF ~Missing THEN {NamedFiles}
    ELSE LET last == CHOOSE l \in Level : Lacking(l) /\ \A i \in 0 .. l - 1 : ~Lacking(i)
         IN {[l \in Level |-> IF l < last THEN NamedFiles[l] ELSE IF l = last THEN part ELSE {}] :
               part \in SUBSET NamedFiles[last]}

\* DBImpl::Open: the manifest CURRENT names, and the tables the manifest names, with
\* whatever time SST::ts_ holds (at level 0: elsewhere it is never read). The clock
\* and the id counter start at 0, and the picker is the new process's.
Open ==
    /\ phase = "closed"
    /\ sessions < MaxSessions
    /\ sessions' = sessions + 1
    /\ whole' = (whole /\ "onStorage" \notin stale)
    /\ stale' = BothStale("onStorage")
    /\ \E read \in Readable :
         LET parsed == UNION {read[l] : l \in Level}
         IN \/ /\ \E f \in parsed : ~Parses(f)
               /\ phase' = "died"
               /\ UNCHANGED <<ssts, manifest>>
            \/ /\ \A f \in parsed : Parses(f)
               /\ phase' = IF Missing THEN "openfailed" ELSE "idle"
               /\ manifest' = current
               /\ \E time \in [read[0] -> Garbage] :
                    ssts' = [l \in Level |-> {[id |-> f.id, kvs |-> f.kvs,
                                              persistTime |-> IF l = 0 THEN time[f] ELSE 0] :
                                                 f \in read[l]}]
    /\ picker' \in Pickers
    /\ UNCHANGED <<memTable, storageVars, mergeVars, clock, ctr, written, named, errors, failures>>

\* Client::Client reports that Open has failed, and the client goes on with the
\* tables read so far.
UseUnopened ==
    /\ UsesUnopened
    /\ phase = "openfailed"
    /\ phase' = "idle"
    /\ UNCHANGED <<treeVars, storageVars, mergeVars, clock, ctr, written, picker,
                   errors, failures, stale, sessions, named, whole>>

\* Nothing more happens: a session could not begin, or its process has ended.
Ended ==
    /\ phase \in {"openfailed", "died", "aborted", "failed"}
    /\ UNCHANGED restartVars

RestartNext == Step \/ Close \/ Crash \/ Open \/ UseUnopened \/ Ended

RestartSpec == RestartInit /\ [][RestartNext]_restartVars

-----------------------------------------------------------------------------
(* Properties *)

\* Unless an input of a merge was removed since the manifest on storage was
\* current, the files CURRENT names are all there, at their levels and with the
\* content they had when CURRENT was written: whatever failed and wherever the
\* process dies, it leaves a store to be opened as it was then. Once a session has
\* begun with a stale manifest, nothing is claimed of it and its successors.
Recoverable ==
    whole /\ "onStorage" \notin stale =>
        /\ NamedFiles = named
        /\ \A l \in Level : current[l] \subseteq Ids(files)

\* A file that was persisted keeps its content until it is removed, although in
\* every session the id counter starts again below the ids in use.
FilesImmutable ==
    [][\A f \in files, g \in files' : f.id = g.id /\ f.kvs # {} => f = g]_files

\* No two live tables have the same id, within or across levels, whichever
\* session they are from: marks, file names and manifest entries are by id. As with
\* Recoverable, up to the first session that begins with a stale manifest.
IdsUnique ==
    whole => \A i, j \in Level : \A s \in ssts[i], t \in ssts[j] : s.id = t.id => i = j /\ s = t

\* Once a Put has returned or the store was opened, every live table has its file,
\* the manifest in memory names live tables only, unless a removal was not followed
\* by Update, and without failures it names all of them.
TreeAgrees ==
    phase = "idle" /\ whole =>
        /\ TablesHaveFiles
        /\ "inMemory" \notin stale => NamesLive(manifest)
        /\ failures = {} => manifest = LiveIds

\* What a manifest makes durable stays so: the keys in the tables CURRENT names
\* are in those the next manifest names, in whatever order a session that knows no
\* persist times compacts its tables, unless it leaves a stale manifest.
KeysIn(m) == UNION {KeysOf(f.kvs) : f \in UNION {m[l] : l \in Level}}
DurableKeysStay ==
    [][named' # named /\ whole /\ stale' = {} => KeysIn(named) \subseteq KeysIn(named')]_restartVars

\* "Open the manifest and parse all live SST files", says Manifest.h: the store
\* can be opened again.
OpenSucceeds == phase # "openfailed"

\* SSTManager::ReadSST returns "a pointer to the read and parsed SST file",
\* whatever merge produced the file.
ParseSurvives == phase # "died"
=============================================================================

----------------------------- MODULE QuarkStorage -----------------------------
(***************************************************************************)
(* The QuarkStore engine: tables and manifests in atoms, over several      *)
(* sessions. An atom is got by its id, which creates it if there is none,  *)
(* and is never removed. The engine QUARKSTORE copies the entries of a     *)
(* merge; QUARKSTORE_APPEND moves their blocks from atom to atom. The tree *)
(* is reduced to one level, as in StorageFS.                               *)
(*                                                                         *)
(* QuarkStore itself is not part of the repository. What is taken from it: *)
(* a write replaces or extends the content of an atom at its offset, and a *)
(* move appends a block to the destination's end and leaves a hole in the  *)
(* source, whose other blocks stay where they are. A call that fails has   *)
(* done nothing.                                                           *)
(***************************************************************************)
EXTENDS Tables, Sequences

CONSTANTS
    Engines,         \* the values of Config::engine, QUARKSTORE or QUARKSTORE_APPEND
    Keys,
    Limit,           \* entries of a full table
    LiveMax,         \* tables that may be live before a compaction
    MaxFlushes,      \* bound: no flush starts after that many
    MaxSessions,     \* bound: how often the store is opened
    MaxErrors,       \* bound: how many kinds of operations fail
    None, Hole, Meta \* no manifest yet; a block moved away; a block of index or count

ASSUME QuarkAssumption == /\ Engines \subseteq {"QUARKSTORE", "QUARKSTORE_APPEND"}
                          /\ Keys \subseteq Nat /\ Limit \in Nat \ {0} /\ LiveMax \in Nat
                          /\ MaxFlushes \in Nat /\ MaxSessions \in Nat /\ MaxErrors \in Nat
                          /\ None \notin Nat

VARIABLES
    engine,
    atoms,           \* storage: for the id of a table's atom its blocks
    manifests,       \* storage: for the id of a manifest's atom the tables it names
    current,         \* storage: the id in the atom CURRENT; None: it is empty
    live,            \* the tables of the tree
    inMemory,        \* Manifest::sst_files_
    ctr,             \* SSTManager::ctr_
    manifestCtr,     \* Manifest::ctr_
    opened,          \* whether current_ is the handle of CURRENT
    building,        \* the table being written
    victims,         \* the tables a merge reads
    todo,            \* the versions still to be written to tables
    pc,              \* where the process is
    closing,         \* whether Persist was called by Close
    sessions,        \* how often the store has been opened
    clock,           \* history: flushes so far, in all sessions
    persisted,       \* history: what the last Persist that succeeded was to write
    pointed,         \* history: what the manifest named when CURRENT was written
    failures         \* history: the kinds of operations that have failed

storage == <<atoms, manifests, current>>
tree    == <<live, inMemory, ctr, building, victims, todo>>
history == <<clock, persisted, pointed, failures>>
manifest == <<manifestCtr, opened>>
vars == <<engine, storage, tree, manifest, pc, closing, sessions, history>>

KV == [key : Keys, ts : Nat]

(* A table: the position in its atom for each key (indexTable_), the size  *)
(* the table takes its atom to have (atomSize_), and the versions it has   *)
(* been given.                                                             *)
EmptySST(id) == [id |-> id, index |-> <<>>, size |-> 0, kvs |-> {}]

-----------------------------------------------------------------------------
(* Atoms *)

\* AtomGet: an atom that is there is taken as it is, with its content.
AtomGet(store, id, empty) ==
    [a \in DOMAIN store \cup {id} |-> IF a \in DOMAIN store THEN store[a] ELSE empty]

\* AtomWrite of one block, at an offset that is not beyond the end.
AtomWrite(blocks, offset, block) ==
    IF offset < Len(blocks) THEN [blocks EXCEPT ![offset + 1] = block]
                            ELSE Append(blocks, block)

AtomRead(id, offset) == atoms[id][offset + 1]

\* AtomMoveAppend of one block.
AtomMoveAppend(dst, src, offset) ==
    [atoms EXCEPT ![dst] = Append(@, AtomRead(src, offset)), ![src][offset + 1] = Hole]

\* AtomRemove returns before it does anything.
AtomRemove(store, ids) == store

\* What SSTQuark::read gets of a key's version.
Block(s, key) == AtomRead(s.id, s.index[key])

\* A table returns what it was given.
ReadsBack(s) == \A p \in s.kvs : Block(s, p.key) = p

NewEmptySST(store) ==
    /\ atoms' = AtomGet(store, ctr, <<>>)
    /\ building' = EmptySST(ctr)
    /\ ctr' = ctr + 1

\* The end of AddKV and of MoveAndAddKV. The offset in the index goes by the
\* number of entries. The mutants defined here and below are plausible slips in
\* the operator that follows.
Indexed(p) == [k \in DOMAIN building.index \cup {p.key} |->
                 IF k = p.key THEN Cardinality(building.kvs) ELSE building.index[k]]
AddedWithoutSize(p) == [building EXCEPT !.index = Indexed(p), !.kvs = @ \cup {p}]
Added(p) == [building EXCEPT !.index = Indexed(p), !.kvs = @ \cup {p}, !.size = @ + 1]

\* SST::Persist: the index and the count go to where the table takes its end to be.
PersistedOneShort ==
    [atoms EXCEPT ![building.id] =
        AtomWrite(AtomWrite(@, building.size - 1, Meta), building.size, Meta)]
Persisted ==
    [atoms EXCEPT ![building.id] =
        AtomWrite(AtomWrite(@, building.size, Meta), building.size + 1, Meta)]

\* The version that comes next in the order of the keys.
NextVersion == FirstEntries(todo, 1)

Init ==
    /\ engine \in Engines
    /\ atoms = <<>> /\ manifests = <<>> /\ current = None
    /\ live = {} /\ inMemory = {} /\ ctr = 0 /\ manifestCtr = 0 /\ opened = FALSE
    /\ building = EmptySST(0) /\ victims = {} /\ todo = {}
    /\ pc = "down" /\ closing = FALSE /\ sessions = 0
    /\ clock = 0 /\ persisted = {} /\ pointed = {} /\ failures = {}

\* A call of QuarkStore fails.
Fault(kind) ==
    /\ Cardinality(failures) < MaxErrors
    /\ failures' = failures \cup {kind}

-----------------------------------------------------------------------------
(* Flush and merge *)

\* A full memtable.
Flush(keys) ==
    /\ pc = "idle" /\ clock < MaxFlushes
    /\ Cardinality(keys) = Limit
    /\ todo' = {[key |-> k, ts |-> clock] : k \in keys}
    /\ clock' = clock + 1
    /\ NewEmptySST(atoms)
    /\ pc' = "flush"
    /\ UNCHANGED <<engine, manifests, current, live, inMemory, victims, manifest,
                   closing, sessions, persisted, pointed, failures>>

\* SST::AddKV through SSTQuark::append.
AddKV ==
    /\ pc = "flush" /\ todo # {}
    /\ \E p \in NextVersion :
         /\ atoms' = [atoms EXCEPT ![building.id] = AtomWrite(@, building.size, p)]
         /\ building' = Added(p)
         /\ todo' = todo \ {p}
    /\ UNCHANGED <<engine, manifests, current, live, inMemory, ctr, victims, manifest,
                   pc, closing, sessions, history>>

FlushSST ==
    /\ pc = "flush" /\ todo = {}
    /\ atoms' = Persisted
    /\ live' = live \cup {building}
    /\ inMemory' = inMemory \cup {building.id}
    /\ pc' = IF Cardinality(live') <= LiveMax THEN "idle" ELSE "compact"
    /\ UNCHANGED <<engine, manifests, current, ctr, building, victims, todo, manifest,
                   closing, sessions, history>>

\* What a merge does with blocks that are not its tables' is not followed.
StartMerge ==
    /\ pc = "compact"
    /\ \/ /\ \A s \in live : ReadsBack(s)
          /\ victims' = live
          /\ todo' = Merged(live)
          /\ NewEmptySST(atoms)
          /\ pc' = "merge"
       \/ /\ \E s \in live : ~ ReadsBack(s)
          /\ pc' = "misread"
          /\ UNCHANGED <<atoms, ctr, building, victims, todo>>
    /\ UNCHANGED <<engine, manifests, current, live, inMemory, manifest, closing,
                   sessions, history>>

\* merge: CopyCompacterQuark writes the version it has read, CompacterQuark has
\* the block it was read from moved.
Copied(s, p) == [atoms EXCEPT ![building.id] = AtomWrite(@, building.size, Block(s, p.key))]
Moved(s, p)  == AtomMoveAppend(building.id, s.id, s.index[p.key])

\* The versions of a key that are skipped stay where they are.
MergeKV ==
    /\ pc = "merge" /\ Cardinality(building.kvs) < Limit
    /\ \E p \in NextVersion, s \in victims :
         /\ p \in s.kvs
         /\ atoms' = IF engine = "QUARKSTORE" THEN Copied(s, p) ELSE Moved(s, p)
         /\ building' = Added(p)
         /\ todo' = todo \ {p}
    /\ UNCHANGED <<engine, manifests, current, live, inMemory, ctr, victims, manifest,
                   pc, closing, sessions, history>>

\* SSTQuark::Remove of tables. It also releases their handles. As no atom changes with
\* it, the removals of a merge that all succeed are one step.
AtomsWithout(store, tables) == AtomRemove(store, Ids(tables))

\* finishSSTFile. After the last table the inputs are removed, and Manifest::Update
\* follows.
FinishSST ==
    /\ pc = "merge"
    /\ \/ /\ todo # {} /\ Cardinality(building.kvs) = Limit
          /\ live' = live \cup {building}
          /\ NewEmptySST(Persisted)
          /\ UNCHANGED <<inMemory, victims, pc>>
       \/ /\ todo = {}
          /\ atoms' = AtomsWithout(Persisted, victims)
          /\ live' = (live \cup {building}) \ victims
          /\ inMemory' = Ids(live')
          /\ victims' = {}
          /\ pc' = "manifest"
          /\ UNCHANGED <<ctr, building>>
    /\ UNCHANGED <<engine, manifests, current, todo, manifest, closing, sessions,
                   history>>

-----------------------------------------------------------------------------
(* The manifest *)

\* createNewManifest: whatever atom has the next id.
CreateManifest ==
    /\ pc = "manifest"
    /\ manifests' = AtomGet(manifests, manifestCtr, None)
    /\ manifestCtr' = manifestCtr + 1
    /\ pc' = "write"
    /\ UNCHANGED <<engine, atoms, current, tree, opened, closing, sessions, history>>

\* The manifest createNewManifest has returned.
NewManifest == manifestCtr - 1

WriteManifest ==
    /\ pc = "write"
    /\ manifests' = [manifests EXCEPT ![NewManifest] = inMemory]
    /\ pc' = "point"
    /\ UNCHANGED <<engine, atoms, current, tree, manifest, closing, sessions, history>>

\* What ends with a process.
MemoryLost ==
    /\ live' = {} /\ inMemory' = {} /\ ctr' = 0 /\ manifestCtr' = 0 /\ opened' = FALSE
    /\ building' = EmptySST(0) /\ victims' = {} /\ todo' = {} /\ closing' = FALSE

\* Persist returns to a Put, which then is where the argument says, or to Close,
\* with which the process ends.
PersistReturns(where) ==
    \/ closing /\ pc' = "down" /\ MemoryLost
    \/ ~ closing /\ pc' = where /\ UNCHANGED <<tree, manifest, closing>>

\* The write of the id to CURRENT.
PointCurrent ==
    /\ pc = "point" /\ opened
    /\ current' = NewManifest
    /\ persisted' = inMemory
    /\ pointed' = inMemory
    /\ PersistReturns("idle")
    /\ UNCHANGED <<engine, atoms, manifests, sessions, clock, failures>>

\* DBImpl::Close, after a failed Put as well (Client::~Client).
Close ==
    /\ pc \in {"idle", "failed"}
    /\ pc' = "manifest"
    /\ closing' = TRUE
    /\ UNCHANGED <<engine, storage, tree, manifest, sessions, history>>

Crash ==
    /\ pc # "down"
    /\ pc' = "down"
    /\ MemoryLost
    /\ UNCHANGED <<engine, storage, sessions, history>>

\* getCurrentManifest goes on from the id of the manifest CURRENT names.
CounterAtCurrent == IF current = None THEN 0 ELSE current
CounterAfterCurrent == IF current = None THEN 0 ELSE current + 1

\* ManifestQuark::Open returns before it parses the manifest: there are no tables,
\* and the ids of tables start over.
Open ==
    /\ pc = "down" /\ sessions < MaxSessions
    /\ sessions' = sessions + 1
    /\ manifestCtr' = CounterAfterCurrent
    /\ opened' = TRUE
    /\ pc' = "idle"
    /\ UNCHANGED <<engine, storage, tree, closing, history>>

-----------------------------------------------------------------------------
(* Failures. Put returns -1; none of the clients then puts anything more.   *)

\* The tables are left as they are; building, victims and todo keep telling how far
\* the flush or merge was.
WriteFails ==
    /\ pc \in {"flush", "merge"}
    /\ Fault(pc)
    /\ pc' = "failed"
    /\ UNCHANGED <<engine, storage, tree, manifest, closing, sessions, clock, persisted, pointed>>

\* The release of an input's handle fails. The tables up to that one are out of the
\* tree, and Manifest::Update is not reached.
RemoveFails ==
    /\ pc = "merge" /\ todo = {}
    /\ Fault("remove")
    /\ \E failed \in victims :
         LET removed == {s \in victims : s = failed \/ Before(s, failed)}
         IN  /\ atoms' = AtomsWithout(Persisted, removed \ {failed})
             /\ live' = (live \cup {building}) \ removed
             /\ victims' = victims \ removed
    /\ pc' = "failed"
    /\ UNCHANGED <<engine, manifests, current, inMemory, ctr, building, todo, manifest,
                   closing, sessions, clock, persisted, pointed>>

\* createNewManifest fails, having used up an id, or the write of the manifest does.
PersistFails ==
    /\ Fault("manifest")
    /\ pc \in {"manifest", "write"}
    /\ \/ closing /\ pc' = "down" /\ MemoryLost
       \/ /\ ~ closing /\ pc' = "failed"
          /\ manifestCtr' = IF pc = "manifest" THEN manifestCtr + 1 ELSE manifestCtr
          /\ UNCHANGED <<tree, opened, closing>>
    /\ UNCHANGED <<engine, storage, sessions, clock, persisted, pointed>>

\* The write of CURRENT fails. Persist returns what QuarkStore returned, and its
\* callers take everything but -1 for success.
CurrentFails ==
    /\ pc = "point" /\ opened
    /\ Fault("current")
    /\ \/ PersistReturns("idle") /\ persisted' = inMemory
       \/ PersistReturns("failed") /\ UNCHANGED persisted
    /\ UNCHANGED <<engine, storage, sessions, clock, pointed>>

\* "No manifest exists or read failed" is one case to getCurrentManifest.
OpenUnread ==
    /\ pc = "down" /\ sessions < MaxSessions
    /\ Fault("open")
    /\ sessions' = sessions + 1
    /\ manifestCtr' = 0 /\ opened' = TRUE
    /\ pc' = "idle"
    /\ UNCHANGED <<engine, storage, tree, closing, clock, persisted, pointed>>

\* Init or openCurrent fails, and with it Open. The YCSB client goes on with what the
\* constructor has left: no handle of CURRENT, and the counter at its start.
OpenFails ==
    /\ pc = "down" /\ sessions < MaxSessions
    /\ Fault("open")
    /\ sessions' = sessions + 1
    /\ pc' = "idle"
    /\ UNCHANGED <<engine, storage, tree, manifest, closing, clock, persisted, pointed>>

\* Then each Persist writes its manifest, and AtomWrite refuses to write CURRENT.
PointUnopened ==
    /\ pc = "point" /\ ~ opened
    /\ PersistReturns("failed")
    /\ UNCHANGED <<engine, storage, sessions, history>>

Fails == \/ WriteFails \/ RemoveFails \/ PersistFails \/ CurrentFails
         \/ OpenUnread \/ OpenFails \/ PointUnopened

\* The end of the behaviours the bounds allow.
Rest == /\ \/ pc = "down" /\ sessions = MaxSessions
           \/ pc = "misread"
        /\ UNCHANGED vars

Next ==
    \/ \E keys \in SUBSET Keys : Flush(keys)
    \/ AddKV \/ FlushSST \/ StartMerge \/ MergeKV \/ FinishSST
    \/ CreateManifest \/ WriteManifest \/ PointCurrent
    \/ Close \/ Crash \/ Open \/ Fails \/ Rest

Spec == Init /\ [][Next]_vars

-----------------------------------------------------------------------------
(* Properties *)

\* Tables return what they were given while blocks are moved and copied between
\* atoms: those a merge has written, those it does not read, and, of those it reads,
\* the versions it has still to write; with copies all it reads. This goes for a merge
\* that has failed half way too. The exception is QUARKSTORE_APPEND after a restart,
\* where a new table's atom may have content.
Sound == engine = "QUARKSTORE" \/ sessions = 1
TablesReadBack ==
    Sound =>
        /\ \A s \in IF engine = "QUARKSTORE" THEN live ELSE live \ victims : ReadsBack(s)
        /\ pc = "merge" =>
             \A p \in todo : \E s \in victims : p \in s.kvs /\ Block(s, p.key) = p

\* No version that a live table was given is gone from storage: it is read back from
\* that table or from another one of the tree, or its block is in the table being
\* written. When a merge that moves blocks has failed, the last are beyond reach, and
\* there are no more of them than fit in a table.
NoBlockLost ==
    Sound /\ pc # "misread" =>
        \A s \in live : \A p \in s.kvs :
            \/ \E t \in live : p \in t.kvs /\ Block(t, p.key) = p
            \/ /\ pc = "merge" \/ "merge" \in failures
               /\ p \in building.kvs /\ Block(building, p.key) = p

\* Whenever the process dies, CURRENT is empty or names a manifest with the content it
\* had when CURRENT was written: the atom of a manifest left unfinished may be taken
\* again, that of CURRENT's never, unless Open failed or could not read CURRENT. And
\* that is what the last successful Persist has written, unless a write of CURRENT
\* failed: then Put or Close may have reported success all the same.
CurrentComplete ==
    /\ "open" \notin failures =>
         IF current = None THEN pointed = {} ELSE manifests[current] = pointed
    /\ "current" \notin failures => persisted = pointed
=============================================================================

---------------------------- MODULE LSMTreeProofs ----------------------------
(***************************************************************************)
(* Proofs about LSMTree for every set of keys, every shape of the tree and *)
(* either compaction picker, in four parts. No flush and no compaction     *)
(* loses a key or the first version of one, and these are the files there  *)
(* are whenever a Put has returned. Versions age with depth through every  *)
(* step, so that Get returns the newest version held while level 0 has one *)
(* table at most, and what module KVStore promises always. Every level     *)
(* below 0 is a sorted run of disjoint tables, full but for the last, no   *)
(* assert fails and no compaction is refused in a session without          *)
(* failures, and the levels stay within their sizes. And each step of a    *)
(* Put brings it closer to its end.                                        *)
(***************************************************************************)
EXTENDS LSMTree, TablesProofs

-----------------------------------------------------------------------------
(* Types *)

\* A merge at some level writes to the next one, which exists.
LevelInv == phase \in {"merge", "remove"} => level + 1 \in Level

TypeInv == TypeOK /\ LevelInv

\* Creating a file adds its id to those in use, whatever it is called.
LEMMA IdsUnion ==
    ASSUME NEW S, NEW f
    PROVE  Ids(S \cup {f}) = Ids(S) \cup {f.id}
BY Zenon DEF Ids

\* The file NewEmptySST makes is one that did not exist.
LEMMA NewFile ==
    ASSUME NEW fs, fs \in SUBSET File, ctr \in Nat, NewEmptySST(fs)
    PROVE  /\ building' \in Nat
           /\ building' \notin Ids(fs)
           /\ ctr' \in Nat
           /\ files' = fs \cup {[id |-> building', kvs |-> {}]}
           /\ files' \in SUBSET File
           /\ Ids(files') = Ids(fs) \cup {building'}
<1>1. PICK id \in FreshIds(fs) :
        /\ files' = fs \cup {[id |-> id, kvs |-> {}]}
        /\ ctr' = id + 1
        /\ building' = id
  BY DEF NewEmptySST
<1>2. id \in Nat /\ id \notin Ids(fs)
  BY DEF FreshIds
<1>3. Ids(files') = Ids(fs) \cup {id}
  BY <1>1, IdsUnion
<1>4. files' \in SUBSET File
  BY <1>1, <1>2 DEF File
<1> QED
  BY <1>1, <1>2, <1>3, <1>4

\* SST::Persist leaves a set of well-formed files.
LEMMA PersistedType ==
    ASSUME NEW fs, fs \in SUBSET File, building \in Nat,
           NEW kvs, kvs \in SUBSET KV
    PROVE  Persisted(fs, kvs) \in SUBSET File
BY DEF Persisted, File

\* Every step of DBImpl::Put and of what it calls keeps the types.
LEMMA TypeStep ==
    ASSUME TypeInv, [Next]_vars
    PROVE  TypeInv'
<1> USE DEF TypeInv, TypeOK, LevelInv
<1>1. ASSUME NEW k \in Keys, Put(k)
      PROVE  TypeInv'
  <2>1. memTable' \in SUBSET KV
    BY <1>1 DEF Put, Inserted, KV
  <2>2. files' \in SUBSET File /\ ctr' \in Nat /\ building' \in Nat
    BY <1>1, NewFile DEF Put
  <2>3. clock' \in Nat /\ written' \in [Keys -> SUBSET Nat]
    BY <1>1 DEF Put
  <2>4. phase' \in {"idle", "flush"}
    BY <1>1 DEF Put
  <2> QED
    BY <1>1, <2>1, <2>2, <2>3, <2>4 DEF Put, Phase
<1>2. ASSUME FlushSST
      PROVE  TypeInv'
  <2>1. 0 \in Level
    BY ShapeAssumption DEF Level
  <2>2. [id |-> building, kvs |-> memTable, persistTime |-> clock] \in SST
    BY DEF SST
  <2>3. ssts' \in [Level -> SUBSET SST] /\ manifest' \in [Level -> SUBSET Nat]
    BY <1>2, <2>1, <2>2 DEF FlushSST
  <2>4. files' \in SUBSET File
    BY <1>2, PersistedType DEF FlushSST
  <2>5. phase' \in {"idle", "compact", "aborted"}
    BY <1>2 DEF FlushSST, AfterFlush
  <2> QED
    BY <1>2, <2>1, <2>3, <2>4, <2>5 DEF FlushSST, Phase
<1>3. ASSUME StopCompaction
      PROVE  TypeInv'
  BY <1>3 DEF StopCompaction, treeVars, storageVars, mergeVars, Phase
<1>4. ASSUME NEW victims \in Victims(level), MoveToEmptyLevel(victims)
      PROVE  TypeInv'
  <2>1. Moved(victims) \in SUBSET SST /\ level \in Level
    BY <1>4 DEF Moved, MoveToEmptyLevel
  <2>2. ssts' \in [Level -> SUBSET SST]
    BY <1>4, <2>1 DEF MoveToEmptyLevel
  <2>3. marked' \in SUBSET Nat
    BY <1>4, <2>1 DEF MoveToEmptyLevel, MarksAfterMove
  <2>4. phase' \in {"persist", "aborted"}
    BY <1>4 DEF MoveToEmptyLevel
  <2> QED
    BY <1>4, <2>2, <2>3, <2>4 DEF MoveToEmptyLevel, storageVars, Phase
<1>5. ASSUME NEW victims \in Victims(level), StartMerge(victims)
      PROVE  TypeInv'
  <2> DEFINE chosen == victims \cup ssts[level + 1]
  <2>1. level + 1 \in Level /\ level \in Level /\ 0 \in Level
    BY <1>5, ShapeAssumption DEF StartMerge, TooLarge, Level
  <2>2. chosen \in SUBSET SST
    <3>1. victims \in SUBSET SST
      BY <2>1 DEF Victims, OldestOfLevel0, FirstOf
    <3> QED
      BY <3>1, <2>1
  <2>3. marked' \in SUBSET Nat
    BY <1>5, <2>2 DEF StartMerge, Ids, SST
  <2>4. todo' \in SUBSET KV
    BY <1>5, <2>1 DEF StartMerge, Merged, Inputs, LiveSSTs, SST
  <2>5. toCompact' \in SUBSET SST
    BY <1>5, <2>1 DEF StartMerge, Replaced
  <2>6. clock' \in Nat
    BY <1>5 DEF StartMerge, PickTick
  <2>7. files' \in SUBSET File /\ ctr' \in Nat /\ building' \in Nat
    <3>1. NewEmptySST(files) \/ UNCHANGED <<files, ctr, building>>
      BY <1>5 DEF StartMerge
    <3> QED
      BY <3>1, NewFile
  <2>8. phase' \in {"merge", "aborted"}
    BY <1>5 DEF StartMerge
  <2> QED
    BY <1>5, <2>1, <2>3, <2>4, <2>5, <2>6, <2>7, <2>8 DEF StartMerge, treeVars, Phase
<1>6. ASSUME FinishSST
      PROVE  TypeInv'
  <2>1. level + 1 \in Level
    BY <1>6 DEF FinishSST
  <2>2. Chunk \in SUBSET KV
    BY DEF Chunk, FirstEntries
  <2>3. ssts' \in [Level -> SUBSET SST]
    BY <1>6, <2>1, <2>2 DEF FinishSST, SST
  <2>4. Persisted(files, Chunk) \in SUBSET File
    BY <2>2, PersistedType
  <2>5. files' \in SUBSET File /\ ctr' \in Nat /\ building' \in Nat
    BY <1>6, <2>4, NewFile DEF FinishSST
  <2>6. phase' \in {"merge", "remove"} /\ level' = level
    BY <1>6 DEF FinishSST
  <2> QED
    BY <1>6, <2>1, <2>3, <2>5, <2>6 DEF FinishSST, Phase
<1>7. ASSUME RemoveSST
      PROVE  TypeInv'
  <2>1. level + 1 \in Level /\ level \in Level
    BY <1>7 DEF RemoveSST
  <2>2. ssts' \in [Level -> SUBSET SST] /\ files' \in SUBSET File /\ marked' \in SUBSET Nat
    BY <1>7, <2>1 DEF RemoveSST, RemainingFiles
  <2> QED
    BY <1>7, <2>1, <2>2 DEF RemoveSST
<1>8. ASSUME EndMerge
      PROVE  TypeInv'
  BY <1>8 DEF EndMerge, treeVars, storageVars, Phase
<1>9. ASSUME PersistManifest
      PROVE  TypeInv'
  <2>1. LiveIds \in [Level -> SUBSET Nat]
    BY DEF LiveIds, Ids, SST
  <2>2. 0 \in Level
    BY ShapeAssumption DEF Level
  <2> QED
    BY <1>9, <2>1, <2>2 DEF PersistManifest, Phase
<1>10. ASSUME UNCHANGED vars
       PROVE  TypeInv'
  BY <1>10 DEF vars, treeVars, storageVars, mergeVars
<1> QED
  BY <1>1, <1>2, <1>3, <1>4, <1>5, <1>6, <1>7, <1>8, <1>9, <1>10
  DEF Next, PutStep, WorkloadDone

\* Every variable has its type in every reachable state.
THEOREM TypeInvariant == Spec => []TypeInv
<1>1. Init => TypeInv
  BY ShapeAssumption DEF Init, InitMemory, TypeInv, TypeOK, LevelInv, Level, Phase
<1>2. TypeInv /\ [Next]_vars => TypeInv'
  BY TypeStep
<1> QED
  BY <1>1, <1>2, PTL DEF Spec

\* The type invariant of LSMTree holds in every reachable state.
THEOREM TypeCorrect == Spec => []TypeOK
<1>1. TypeInv => TypeOK
  BY DEF TypeInv
<1> QED
  BY <1>1, TypeInvariant, PTL

-----------------------------------------------------------------------------
(* Tables, their files and their ids *)

\* Every live table has a file, no two tables share an id, and the file being
\* built is not that of a live table.
FileInv ==
    /\ \A l \in Level : \A s \in ssts[l] : s.id \in Ids(files)
    /\ \A i, j \in Level : \A s \in ssts[i], t \in ssts[j] : s.id = t.id => i = j /\ s = t
    /\ phase \in {"flush", "merge"} => /\ building \in Ids(files)
                                       /\ \A l \in Level : \A s \in ssts[l] : s.id # building

\* The next level has, outside of the tables the merge is to remove.
Output == UNION {t.kvs : t \in ssts[level + 1] \ toCompact}

\* Of every version a merge will remove, one as old is written or still to be
\* written. After the last output nothing is left to write.
MergeInv ==
    /\ phase = "merge" => toCompact \subseteq ssts[level] \cup ssts[level + 1]
    /\ phase \in {"merge", "remove"} =>
         \A s \in toCompact : \A p \in s.kvs : \E q \in todo \cup Output :
            q.key = p.key /\ q.ts <= p.ts
    /\ phase = "remove" => todo = {}

TreeInv == FileInv /\ MergeInv

\* A step that leaves the tables alone and is in no merge.
LEMMA TreeFrame ==
    ASSUME TreeInv, UNCHANGED <<ssts, files>>, phase' \notin {"flush", "merge", "remove"}
    PROVE  TreeInv'
BY DEF TreeInv, FileInv, MergeInv

\* DBImpl::Put leaves the tables as they are, and may create a file.
LEMMA TreePut ==
    ASSUME TypeInv, TreeInv, NEW k \in Keys, Put(k)
    PROVE  TreeInv'
<1> USE DEF TypeInv, TypeOK, TreeInv
<1>1. ssts' = ssts /\ phase' \in {"idle", "flush"}
  BY DEF Put
<1>2. FileInv'
  <2>1. CASE UNCHANGED <<phase, files, ctr, building>>
    BY <1>1, <2>1 DEF FileInv
  <2>2. CASE phase' = "flush" /\ NewEmptySST(files)
    <3>1. building' \notin Ids(files) /\ Ids(files') = Ids(files) \cup {building'}
      BY <2>2, NewFile
    <3> QED
      BY <1>1, <3>1 DEF FileInv
  <2> QED
    BY <2>1, <2>2 DEF Put
<1>3. MergeInv'
  BY <1>1 DEF MergeInv
<1> QED
  BY <1>2, <1>3

\* The file a table is persisted to keeps its name.
LEMMA PersistedIds ==
    ASSUME NEW fs, NEW kvs
    PROVE  Ids(Persisted(fs, kvs)) = Ids(fs) \cup {building}
<1>1. \A i \in Ids(fs) : i \in Ids(Persisted(fs, kvs)) \/ i = building
  BY Zenon DEF Ids, Persisted
<1>2. Ids(Persisted(fs, kvs)) = Ids({f \in fs : f.id # building}) \cup {building}
  BY IdsUnion DEF Persisted
<1>3. Ids({f \in fs : f.id # building}) \subseteq Ids(fs)
  BY Zenon DEF Ids
<1> QED
  BY <1>1, <1>2, <1>3

\* flush adds a table with an id of its own to level 0.
LEMMA TreeFlush ==
    ASSUME TypeInv, TreeInv, FlushSST
    PROVE  TreeInv'
<1> DEFINE new == [id |-> building, kvs |-> memTable, persistTime |-> clock]
<1> USE DEF TypeInv, TypeOK, TreeInv
<1>1. /\ phase = "flush" /\ phase' \in {"idle", "compact", "aborted"}
      /\ ssts' = [ssts EXCEPT ![0] = @ \cup {new}]
  BY DEF FlushSST, AfterFlush
<1>2. 0 \in Level
  BY ShapeAssumption DEF Level
<1>3. /\ \A l \in Level : ssts'[l] \subseteq ssts[l] \cup {new}
      /\ \A l \in Level \ {0} : ssts'[l] = ssts[l]
  BY <1>1, <1>2
<1> HIDE DEF new
<1>4. new.id = building
  BY DEF new
<1>5. FileInv'
  <2>1. Ids(files') = Ids(files) \cup {building}
    BY PersistedIds DEF FlushSST
  <2>2. \A l \in Level : \A s \in ssts[l] : s.id # building
    BY <1>1 DEF FileInv
  <2> QED
    BY <1>1, <1>3, <1>4, <2>1, <2>2 DEF FileInv
<1>6. MergeInv'
  BY <1>1 DEF MergeInv
<1> QED
  BY <1>5, <1>6

\* initEmptyLevel moves tables down a level.
LEMMA TreeMove ==
    ASSUME TypeInv, TreeInv, NEW victims \in Victims(level), MoveToEmptyLevel(victims)
    PROVE  TreeInv'
<1> DEFINE moved == Moved(victims)
<1> USE DEF TypeInv, TypeOK, TreeInv
<1>1. /\ level \in Level /\ level + 1 \in Level
      /\ phase' \in {"persist", "aborted"} /\ ssts[level + 1] = {} /\ files' = files
      /\ ssts' = [ssts EXCEPT ![level] = @ \ moved, ![level + 1] = moved]
  BY ShapeAssumption DEF MoveToEmptyLevel, TooLarge, Level, storageVars
<1>2. moved \subseteq ssts[level]
  BY DEF Moved
<1> HIDE DEF moved
<1>3. /\ ssts'[level] = ssts[level] \ moved
      /\ ssts'[level + 1] = moved
      /\ \A l \in Level \ {level, level + 1} : ssts'[l] = ssts[l]
  BY <1>1
<1>4. FileInv'
  <2>1. \A l \in Level : \A s \in ssts'[l] : s.id \in Ids(files')
    BY <1>1, <1>2, <1>3 DEF FileInv
  <2>2. ASSUME NEW i \in Level, NEW j \in Level, NEW s \in ssts'[i], NEW t \in ssts'[j], s.id = t.id
        PROVE  i = j /\ s = t
    <3>1. \A l \in Level : \A u \in ssts'[l] : u \in moved <=> l = level + 1
      <4>1. \A l \in Level : \A u \in ssts[l] : u \in moved => l = level
        BY <1>1, <1>2 DEF FileInv
      <4> QED
        BY <1>1, <1>3, <4>1
    <3>2. \A l \in Level : \A u \in ssts'[l] : u \in ssts[l] \/ u \in ssts[level]
      BY <1>1, <1>2, <1>3
    <3>3. s = t
      BY <1>1, <2>2, <3>2 DEF FileInv
    <3>4. CASE s \in moved
      BY <3>1, <3>3, <3>4
    <3>5. CASE s \notin moved
      <4>1. s \in ssts[i] /\ t \in ssts[j]
        BY <1>3, <3>1, <3>3, <3>5
      <4> QED
        BY <2>2, <4>1 DEF FileInv
    <3> QED
      BY <3>4, <3>5
  <2> QED
    BY <1>1, <2>1, <2>2 DEF FileInv
<1>5. MergeInv'
  BY <1>1 DEF MergeInv
<1> QED
  BY <1>4, <1>5

\* Of every version in the merged tables the merge keeps one as old.
LEMMA MergedOldest ==
    ASSUME NEW tables \in SUBSET SST, NEW s \in tables, NEW p \in s.kvs
    PROVE  \E q \in Merged(tables) : q.key = p.key /\ q.ts <= p.ts
<1> DEFINE all   == UNION {t.kvs : t \in tables}
           times == {q.ts : q \in {r \in all : r.key = p.key}}
<1>1. all \subseteq KV /\ p \in all
  BY DEF SST
<1>2. times \subseteq Nat /\ p.ts \in times
  BY <1>1 DEF KV
<1>3. PICK m \in times : \A n \in times : m <= n
  BY <1>2, LeastNatural
<1>4. PICK q \in all : q.key = p.key /\ q.ts = m
  BY <1>3
<1>5. \A r \in all : r.key = q.key => q.ts <= r.ts
  BY <1>3, <1>4
<1>6. q \in Merged(tables)
  BY <1>4, <1>5 DEF Merged
<1> QED
  BY <1>1, <1>4, <1>5, <1>6

\* A merge starts with a version of every key of its inputs to write, the oldest.
LEMMA TreeStart ==
    ASSUME TypeInv, TreeInv, NEW victims \in Victims(level), StartMerge(victims)
    PROVE  TreeInv'
<1> DEFINE inputs == Inputs(marked')
<1> USE DEF TypeInv, TypeOK, TreeInv
<1>1. /\ level \in Level /\ level + 1 \in Level
      /\ phase' \in {"merge", "aborted"}
      /\ UNCHANGED <<ssts, level>>
      /\ todo' = Merged(inputs)
      /\ toCompact' = Replaced(marked')
      /\ \/ NewEmptySST(files)
         \/ phase' = "aborted" /\ UNCHANGED files
  BY ShapeAssumption DEF StartMerge, TooLarge, Level, treeVars
<1>2. inputs \in SUBSET SST
  BY DEF Inputs, LiveSSTs
<1>3. toCompact' \subseteq inputs /\ toCompact' \subseteq ssts[level] \cup ssts[level + 1]
  BY <1>1 DEF Replaced, Inputs, LiveSSTs
<1>4. FileInv'
  <2>1. CASE NewEmptySST(files)
    <3>1. building' \notin Ids(files) /\ Ids(files') = Ids(files) \cup {building'}
      BY <2>1, NewFile
    <3> QED
      BY <1>1, <3>1 DEF FileInv
  <2>2. CASE phase' = "aborted" /\ UNCHANGED files
    BY <1>1, <2>2 DEF FileInv
  <2> QED
    BY <1>1, <2>1, <2>2
<1> HIDE DEF inputs
<1>5. MergeInv'
  <2>1. \A s \in toCompact' : \A p \in s.kvs : \E q \in todo' :
          q.key = p.key /\ q.ts <= p.ts
    BY <1>1, <1>2, <1>3, MergedOldest
  <2> QED
    BY <1>1, <1>3, <2>1 DEF MergeInv
<1> QED
  BY <1>4, <1>5

\* finishSSTFile adds to the next level what it takes from what is to be written.
LEMMA TreeFinish ==
    ASSUME TypeInv, TreeInv, FinishSST
    PROVE  TreeInv'
<1> DEFINE new == [id |-> building, kvs |-> Chunk, persistTime |-> clock]
<1> USE DEF TypeInv, TypeOK, TreeInv
<1>1. /\ phase = "merge" /\ phase' \in {"merge", "remove"}
      /\ level \in Level /\ level + 1 \in Level
      /\ UNCHANGED <<level, toCompact>>
      /\ todo' = todo \ Chunk
      /\ phase' = "remove" => todo' = {}
      /\ ssts' = [ssts EXCEPT ![level + 1] = @ \cup {new}]
  BY DEF FinishSST, LevelInv
<1>2. /\ ssts'[level + 1] = ssts[level + 1] \cup {new}
      /\ \A l \in Level \ {level + 1} : ssts'[l] = ssts[l]
  BY <1>1
<1>3. Chunk \subseteq todo
  BY DEF Chunk, FirstEntries
<1> HIDE DEF new
<1>4. new.id = building /\ new.kvs = Chunk
  BY DEF new
<1>5. \A l \in Level : \A s \in ssts[l] : s.id # building
  BY <1>1 DEF FileInv
<1>6. FileInv'
  <2> DEFINE done == Persisted(files, Chunk)
  <2>1. Ids(done) = Ids(files) \cup {building} /\ done \in SUBSET File
    <3>1. Chunk \in SUBSET KV
      BY <1>3
    <3> QED
      BY <3>1, PersistedIds, PersistedType
  <2>2. \/ UNCHANGED phase /\ NewEmptySST(done)
        \/ phase' = "remove" /\ files' = done
    BY DEF FinishSST
  <2> HIDE DEF done
  <2>3. \A i, j \in Level : \A s \in ssts'[i], t \in ssts'[j] : s.id = t.id => i = j /\ s = t
    BY <1>1, <1>2, <1>4, <1>5 DEF FileInv
  <2>4. \A l \in Level : \A s \in ssts'[l] : s.id \in Ids(done)
    BY <1>1, <1>2, <1>4, <2>1 DEF FileInv
  <2>5. CASE UNCHANGED phase /\ NewEmptySST(done)
    <3>1. building' \notin Ids(done) /\ Ids(files') = Ids(done) \cup {building'}
      BY <2>1, <2>5, NewFile
    <3> QED
      BY <2>3, <2>4, <3>1 DEF FileInv
  <2>6. CASE phase' = "remove" /\ files' = done
    BY <2>3, <2>4, <2>6 DEF FileInv
  <2> QED
    BY <2>2, <2>5, <2>6
<1>7. MergeInv'
  <2>1. new \notin toCompact
    BY <1>1, <1>4, <1>5 DEF MergeInv
  <2>2. todo \cup Output \subseteq (todo \cup Output)'
    <3>1. Output' = UNION {t.kvs : t \in (ssts[level + 1] \cup {new}) \ toCompact}
      BY <1>1, <1>2 DEF Output
    <3>2. Output \subseteq Output'
      BY <3>1 DEF Output
    <3>3. Chunk \subseteq Output'
      BY <1>4, <2>1, <3>1
    <3> QED
      BY <1>1, <1>3, <3>2, <3>3
  <2>3. toCompact \subseteq ssts'[level] \cup ssts'[level + 1]
    BY <1>1, <1>2 DEF MergeInv
  <2>4. \A s \in toCompact : \A p \in s.kvs : \E q \in (todo \cup Output)' :
          q.key = p.key /\ q.ts <= p.ts
    <3>1. \A s \in toCompact : \A p \in s.kvs : \E q \in todo \cup Output :
          q.key = p.key /\ q.ts <= p.ts
      BY <1>1 DEF MergeInv
    <3> QED
      BY <2>2, <3>1
  <2> QED
    BY <1>1, <2>3, <2>4 DEF MergeInv
<1> QED
  BY <1>6, <1>7

\* A table that leaves the two levels of a merge leaves the tree.
LEMMA Gone ==
    ASSUME TypeInv, FileInv, phase = "remove",
           NEW s \in NotYetRemoved,
           ssts' = [ssts EXCEPT ![level] = @ \ {s}, ![level + 1] = @ \ {s}]
    PROVE  \A l \in Level : ssts'[l] = ssts[l] \ {s}
<1> USE DEF TypeInv, TypeOK
<1>1. level \in Level /\ level + 1 \in Level
  BY DEF LevelInv
<1>2. s \in ssts[level] \cup ssts[level + 1]
  BY DEF NotYetRemoved
<1>3. /\ ssts'[level] = ssts[level] \ {s}
      /\ ssts'[level + 1] = ssts[level + 1] \ {s}
      /\ \A l \in Level \ {level, level + 1} : ssts'[l] = ssts[l]
  BY <1>1
<1>4. \A l \in Level \ {level, level + 1} : s \notin ssts[l]
  BY <1>1, <1>2 DEF FileInv
<1> QED
  BY <1>3, <1>4

\* removeCompacted removes tables whose keys have all been written.
LEMMA TreeRemove ==
    ASSUME TypeInv, TreeInv, RemoveSST
    PROVE  TreeInv'
<1> USE DEF TypeInv, TypeOK, TreeInv
<1>1. PICK s \in FirstOf(NotYetRemoved) :
        /\ ssts' = [ssts EXCEPT ![level] = @ \ {s}, ![level + 1] = @ \ {s}]
        /\ files' = RemainingFiles(s)
  BY DEF RemoveSST
<1>2. /\ phase = "remove" /\ phase' = "remove"
      /\ level \in Level /\ level + 1 \in Level
      /\ UNCHANGED <<level, todo, toCompact>>
  BY DEF RemoveSST, LevelInv
<1>3. s \in NotYetRemoved /\ s \in toCompact /\ s \in ssts[level] \cup ssts[level + 1]
  BY <1>1 DEF FirstOf, NotYetRemoved
<1>4. \A l \in Level : ssts'[l] = ssts[l] \ {s}
  BY <1>1, <1>2, <1>3, Gone
<1>5. FileInv'
  <2>1. \A l \in Level : \A t \in ssts'[l] : t.id \in Ids(files) /\ t.id # s.id
    BY <1>2, <1>3, <1>4 DEF FileInv
  <2>2. \A i \in Ids(files) : i # s.id => i \in Ids(files')
    BY <1>1 DEF RemainingFiles, Ids
  <2>3. \A l \in Level : \A t \in ssts'[l] : t.id \in Ids(files')
    BY <2>1, <2>2
  <2> QED
    BY <1>2, <1>4, <2>3 DEF FileInv
<1>6. Output' = Output
  BY <1>2, <1>3, <1>4 DEF Output
<1>7. MergeInv'
  BY <1>2, <1>6 DEF MergeInv
<1> QED
  BY <1>5, <1>7

\* No step of a Put gives two tables one id, loses the file of one, or removes one
\* whose keys are not written.
LEMMA TreeStep ==
    ASSUME TypeInv, TreeInv, [Next]_vars
    PROVE  TreeInv'
<1>1. ASSUME NEW k \in Keys, Put(k)
      PROVE  TreeInv'
  BY <1>1, TreePut
<1>2. CASE FlushSST
  BY <1>2, TreeFlush
<1>3. CASE StopCompaction
  BY <1>3, TreeFrame DEF StopCompaction, treeVars, storageVars, mergeVars
<1>4. ASSUME NEW victims \in Victims(level), MoveToEmptyLevel(victims)
      PROVE  TreeInv'
  BY <1>4, TreeMove
<1>5. ASSUME NEW victims \in Victims(level), StartMerge(victims)
      PROVE  TreeInv'
  BY <1>5, TreeStart
<1>6. CASE FinishSST
  BY <1>6, TreeFinish
<1>7. CASE RemoveSST
  BY <1>7, TreeRemove
<1>8. CASE EndMerge
  <2>1. phase' \in {"aborted", "compact", "failed"}
    BY <1>8 DEF EndMerge
  <2> QED
    BY <1>8, <2>1, TreeFrame DEF EndMerge, treeVars, storageVars
<1>9. CASE PersistManifest
  BY <1>9, TreeFrame DEF PersistManifest
<1>10. CASE UNCHANGED vars
  BY <1>10 DEF vars, treeVars, storageVars, mergeVars, TreeInv, FileInv, MergeInv, Output
<1> QED
  BY <1>1, <1>2, <1>3, <1>4, <1>5, <1>6, <1>7, <1>8, <1>9, <1>10
  DEF Next, PutStep, WorkloadDone

-----------------------------------------------------------------------------
(* The inductive invariant behind KeysKept and FirstVersionKept *)

Holds(p) == \/ p \in memTable
            \/ \E l \in Level : \E s \in ssts[l] : p \in s.kvs

\* Every version in the store, or on its way there, was written by a Put, and
\* the clock is past all of them.
WrittenInv ==
    /\ \A k \in Keys : \A t \in written[k] : t < clock
    /\ \A p \in memTable \cup todo : p.ts \in written[p.key]
    /\ \A l \in Level : \A s \in ssts[l] : \A p \in s.kvs : p.ts \in written[p.key]

\* The oldest version of each key is in the store.
FirstInv ==
    \A k \in Keys : \A t \in written[k] :
        (\A u \in written[k] : t <= u) => Holds([key |-> k, ts |-> t])

KeepInv == WrittenInv /\ FileInv /\ MergeInv /\ FirstInv

\* A step that leaves the tables, the memtable and the merge alone.
LEMMA KeepFrame ==
    ASSUME TypeInv, KeepInv, UNCHANGED <<memTable, ssts, files, written>>,
           clock' \in {clock, clock + 1},
           todo' \in {todo, {}},
           phase' \notin {"flush", "merge", "remove"}
    PROVE  KeepInv'
<1>1. FileInv' /\ MergeInv'
  BY TreeFrame DEF KeepInv, TreeInv
<1>2. WrittenInv' /\ FirstInv'
  BY DEF KeepInv, WrittenInv, FirstInv, Holds, TypeInv, TypeOK
<1> QED
  BY <1>1, <1>2 DEF KeepInv

\* The empty store keeps every version there is to keep.
LEMMA KeepInit == Init => KeepInv
BY DEF Init, InitMemory, KeepInv, WrittenInv, FileInv, MergeInv, FirstInv

\* DBImpl::Put adds the first version of a key and drops no version.
LEMMA KeepPut ==
    ASSUME TypeInv, KeepInv, NEW k \in Keys, Put(k)
    PROVE  KeepInv'
<1> DEFINE new == [key |-> k, ts |-> clock]
<1> USE DEF TypeInv, TypeOK, KeepInv
<1>1. /\ ssts' = ssts /\ todo' = todo /\ clock' = clock + 1
      /\ written' = [written EXCEPT ![k] = @ \cup {clock}]
  BY DEF Put
<1>2. memTable' \subseteq memTable \cup {new} /\ memTable \subseteq memTable'
  BY DEF Put, Inserted
<1>3. k \in KeysOf(memTable) \/ new \in memTable'
  BY DEF Put, Inserted
<1>4. WrittenInv'
  <2>1. \A j \in Keys : written[j] \subseteq written'[j] /\ written'[j] \subseteq written[j] \cup {clock}
    BY <1>1
  <2>2. clock \in written'[k]
    BY <1>1
  <2>3. \A p \in memTable' \cup todo' : p.ts \in written'[p.key]
    BY <1>1, <1>2, <2>1, <2>2 DEF WrittenInv, KV
  <2>4. \A l \in Level : \A s \in ssts'[l] : \A p \in s.kvs : p.ts \in written'[p.key]
    BY <1>1, <2>1 DEF WrittenInv, SST, KV
  <2>5. \A j \in Keys : \A t \in written'[j] : t < clock'
    BY <1>1, <2>1 DEF WrittenInv
  <2> QED
    BY <2>3, <2>4, <2>5 DEF WrittenInv
<1>5. FileInv' /\ MergeInv'
  BY TreePut DEF TreeInv
<1>6. FirstInv'
  <2> SUFFICES ASSUME NEW j \in Keys, NEW t \in written'[j],
                      \A u \in written'[j] : t <= u
               PROVE  Holds([key |-> j, ts |-> t])'
    BY DEF FirstInv
  <2>1. CASE t \in written[j]
    <3>1. \A u \in written[j] : t <= u
      BY <1>1
    <3>2. Holds([key |-> j, ts |-> t])
      BY <2>1, <3>1 DEF FirstInv
    <3> QED
      BY <1>1, <1>2, <3>2 DEF Holds
  <2>2. CASE t \notin written[j]
    <3>1. j = k /\ t = clock
      BY <1>1, <2>2
    <3>2. written[k] = {}
      <4>1. \A u \in written[k] : u \in Nat /\ u < clock
        BY DEF WrittenInv
      <4>2. \A u \in written[k] : clock <= u
        BY <1>1, <3>1
      <4> QED
        BY <4>1, <4>2
    <3>3. k \notin KeysOf(memTable)
      <4>1. \A p \in memTable : p.ts \in written[p.key]
        BY DEF WrittenInv
      <4> QED
        BY <3>2, <4>1 DEF KeysOf
    <3> QED
      BY <1>3, <3>1, <3>3 DEF Holds
  <2> QED
    BY <2>1, <2>2
<1> QED
  BY <1>4, <1>5, <1>6

\* flush moves the memtable to level 0 as it is.
LEMMA KeepFlush ==
    ASSUME TypeInv, KeepInv, FlushSST
    PROVE  KeepInv'
<1> DEFINE new == [id |-> building, kvs |-> memTable, persistTime |-> clock]
<1> USE DEF TypeInv, TypeOK, KeepInv
<1>1. /\ memTable' = {} /\ todo' = todo /\ written' = written
      /\ clock' = clock + 1
      /\ ssts' = [ssts EXCEPT ![0] = @ \cup {new}]
  BY DEF FlushSST
<1>2. 0 \in Level
  BY ShapeAssumption DEF Level
<1>3. \A l \in Level : ssts[l] \subseteq ssts'[l] /\ ssts'[l] \subseteq ssts[l] \cup {new}
  BY <1>1, <1>2
<1>4. new \in ssts'[0]
  BY <1>1, <1>2
<1> HIDE DEF new
<1>5. new.kvs = memTable
  BY DEF new
<1>6. WrittenInv'
  BY <1>1, <1>3, <1>5 DEF WrittenInv
<1>7. FileInv' /\ MergeInv'
  BY TreeFlush DEF TreeInv
<1>8. FirstInv'
  <2> SUFFICES ASSUME NEW p, Holds(p)
               PROVE  Holds(p)'
    BY <1>1 DEF FirstInv
  <2> QED
    BY <1>2, <1>3, <1>4, <1>5 DEF Holds
<1> QED
  BY <1>6, <1>7, <1>8

\* initEmptyLevel loses none of the tables it moves.
LEMMA KeepMove ==
    ASSUME TypeInv, KeepInv, NEW victims \in Victims(level), MoveToEmptyLevel(victims)
    PROVE  KeepInv'
<1> DEFINE moved == Moved(victims)
<1> USE DEF TypeInv, TypeOK, KeepInv
<1>1. /\ level \in Level /\ level + 1 \in Level
      /\ ssts[level + 1] = {} /\ moved \subseteq ssts[level]
      /\ UNCHANGED <<memTable, todo, written, clock>>
      /\ ssts' = [ssts EXCEPT ![level] = @ \ moved, ![level + 1] = moved]
  BY ShapeAssumption DEF MoveToEmptyLevel, TooLarge, Level, Moved
<1> HIDE DEF moved
<1>2. /\ ssts'[level] = ssts[level] \ moved
      /\ ssts'[level + 1] = moved
      /\ \A l \in Level \ {level, level + 1} : ssts'[l] = ssts[l]
  BY <1>1
<1>3. WrittenInv'
  BY <1>1, <1>2 DEF WrittenInv
<1>4. FileInv' /\ MergeInv'
  BY TreeMove DEF TreeInv
<1>5. FirstInv'
  <2> SUFFICES ASSUME NEW p, Holds(p)
               PROVE  Holds(p)'
    BY <1>1 DEF FirstInv
  <2>1. CASE p \in memTable
    BY <1>1, <2>1 DEF Holds
  <2>2. ASSUME NEW l \in Level, NEW s \in ssts[l], p \in s.kvs
        PROVE  Holds(p)'
    <3>1. \E i \in Level : s \in ssts'[i]
      BY <1>1, <1>2
    <3> QED
      BY <2>2, <3>1 DEF Holds
  <2> QED
    BY <2>1, <2>2 DEF Holds
<1> QED
  BY <1>3, <1>4, <1>5

\* What a merge is to write was written by Puts.
LEMMA KeepStartMerge ==
    ASSUME TypeInv, KeepInv, NEW victims \in Victims(level), StartMerge(victims)
    PROVE  KeepInv'
<1> USE DEF TypeInv, TypeOK, KeepInv
<1>1. /\ UNCHANGED <<memTable, ssts, written, level>>
      /\ clock <= clock' /\ clock' \in Nat
      /\ todo' = Merged(Inputs(marked'))
  BY DEF StartMerge, treeVars, PickTick
<1>2. WrittenInv'
  <2>1. \A p \in todo' : p.ts \in written[p.key]
    <3>1. \A p \in todo' : \E l \in Level : \E s \in ssts[l] : p \in s.kvs
      BY <1>1 DEF Merged, Inputs, LiveSSTs
    <3> QED
      BY <3>1 DEF WrittenInv
  <2>2. \A k \in Keys : \A t \in written[k] : t < clock'
    BY <1>1 DEF WrittenInv
  <2> QED
    BY <1>1, <2>1, <2>2 DEF WrittenInv
<1>3. FileInv' /\ MergeInv'
  BY TreeStart DEF TreeInv
<1>4. FirstInv'
  BY <1>1 DEF FirstInv, Holds
<1> QED
  BY <1>2, <1>3, <1>4

\* finishSSTFile removes nothing from the store.
LEMMA KeepFinish ==
    ASSUME TypeInv, KeepInv, FinishSST
    PROVE  KeepInv'
<1> DEFINE new == [id |-> building, kvs |-> Chunk, persistTime |-> clock]
<1> USE DEF TypeInv, TypeOK, KeepInv
<1>1. /\ phase = "merge" /\ level + 1 \in Level
      /\ UNCHANGED <<memTable, written>>
      /\ clock' = clock + 1
      /\ todo' = todo \ Chunk
      /\ ssts' = [ssts EXCEPT ![level + 1] = @ \cup {new}]
  BY DEF FinishSST, LevelInv
<1>2. /\ ssts'[level + 1] = ssts[level + 1] \cup {new}
      /\ \A l \in Level \ {level + 1} : ssts'[l] = ssts[l]
  BY <1>1
<1>3. Chunk \subseteq todo
  BY DEF Chunk, FirstEntries
<1> HIDE DEF new
<1>4. new.kvs = Chunk
  BY DEF new
<1>5. WrittenInv'
  BY <1>1, <1>2, <1>3, <1>4 DEF WrittenInv
<1>6. FileInv' /\ MergeInv'
  BY TreeFinish DEF TreeInv
<1>7. FirstInv'
  <2> SUFFICES ASSUME NEW p, Holds(p)
               PROVE  Holds(p)'
    BY <1>1 DEF FirstInv
  <2> QED
    BY <1>1, <1>2 DEF Holds
<1> QED
  BY <1>5, <1>6, <1>7

\* A table a merge is to remove can leave its level once everything is written: no
\* other level has it, and none of its versions is the only one of the oldest.
LEMMA Removable ==
    ASSUME TypeInv, KeepInv, phase = "remove",
           NEW s \in NotYetRemoved,
           ssts' = [ssts EXCEPT ![level] = @ \ {s}, ![level + 1] = @ \ {s}],
           UNCHANGED <<memTable, written>>
    PROVE  /\ \A l \in Level : ssts'[l] = ssts[l] \ {s}
           /\ FirstInv'
<1> USE DEF TypeInv, TypeOK, KeepInv
<1>1. level \in Level /\ level + 1 \in Level /\ todo = {} /\ s \in toCompact
  BY DEF LevelInv, MergeInv, NotYetRemoved
<1>2. \A l \in Level : ssts'[l] = ssts[l] \ {s}
  BY Gone
<1>3. FirstInv'
  <2> SUFFICES ASSUME NEW k \in Keys, NEW t \in written[k],
                      \A u \in written[k] : t <= u
               PROVE  Holds([key |-> k, ts |-> t])'
    BY DEF FirstInv
  <2> DEFINE p == [key |-> k, ts |-> t]
  <2>1. Holds(p)
    BY DEF FirstInv
  <2>2. CASE p \in s.kvs
    <3>1. PICK r \in ssts[level + 1] \ toCompact : \E q \in r.kvs : q.key = p.key /\ q.ts <= p.ts
      BY <1>1, <2>2 DEF MergeInv, Output
    <3>2. PICK q \in r.kvs : q.key = k /\ q.ts <= t
      BY <3>1
    <3>3. q \in KV /\ q.ts \in written[k] /\ t \in Nat
      BY <1>1, <3>1, <3>2 DEF WrittenInv, SST
    <3>4. q.ts = t
      BY <3>2, <3>3 DEF KV
    <3>5. q = p
      BY <3>2, <3>3, <3>4 DEF KV
    <3>6. r \in ssts'[level + 1]
      BY <1>1, <1>2, <3>1
    <3> QED
      BY <1>1, <3>5, <3>6 DEF Holds
  <2>3. CASE p \notin s.kvs
    BY <1>2, <2>1, <2>3 DEF Holds
  <2> QED
    BY <2>2, <2>3
<1> QED
  BY <1>2, <1>3

\* removeCompacted removes tables whose oldest versions have all been written.
LEMMA KeepRemove ==
    ASSUME TypeInv, KeepInv, RemoveSST
    PROVE  KeepInv'
<1> USE DEF TypeInv, TypeOK, KeepInv
<1>1. PICK s \in FirstOf(NotYetRemoved) :
        ssts' = [ssts EXCEPT ![level] = @ \ {s}, ![level + 1] = @ \ {s}]
  BY DEF RemoveSST
<1>2. phase = "remove" /\ UNCHANGED <<memTable, todo, clock, written>>
  BY DEF RemoveSST
<1>3. s \in NotYetRemoved
  BY <1>1 DEF FirstOf
<1>4. FirstInv' /\ \A l \in Level : ssts'[l] = ssts[l] \ {s}
  BY <1>1, <1>2, <1>3, Removable
<1>5. WrittenInv'
  BY <1>2, <1>4 DEF WrittenInv
<1>6. FileInv' /\ MergeInv'
  BY TreeRemove DEF TreeInv
<1> QED
  BY <1>4, <1>5, <1>6

\* No step of a flush or a compaction loses the oldest version of a key.
LEMMA KeepStep ==
    ASSUME TypeInv, KeepInv, [Next]_vars
    PROVE  KeepInv'
<1>1. ASSUME NEW k \in Keys, Put(k)
      PROVE  KeepInv'
  BY <1>1, KeepPut
<1>2. CASE FlushSST
  BY <1>2, KeepFlush
<1>3. CASE StopCompaction
  BY <1>3, KeepFrame DEF StopCompaction, treeVars, storageVars, mergeVars
<1>4. ASSUME NEW victims \in Victims(level), MoveToEmptyLevel(victims)
      PROVE  KeepInv'
  BY <1>4, KeepMove
<1>5. ASSUME NEW victims \in Victims(level), StartMerge(victims)
      PROVE  KeepInv'
  BY <1>5, KeepStartMerge
<1>6. CASE FinishSST
  BY <1>6, KeepFinish
<1>7. CASE RemoveSST
  BY <1>7, KeepRemove
<1>8. CASE EndMerge
  <2>1. phase' \in {"aborted", "compact", "failed"}
    BY <1>8 DEF EndMerge
  <2> QED
    BY <1>8, <2>1, KeepFrame DEF EndMerge, treeVars, storageVars
<1>9. CASE PersistManifest
  BY <1>9, KeepFrame DEF PersistManifest
<1>10. CASE UNCHANGED vars
  BY <1>10 DEF vars, treeVars, storageVars, mergeVars, KeepInv, WrittenInv, FileInv,
               MergeInv, Output, FirstInv, Holds
<1> QED
  BY <1>1, <1>2, <1>3, <1>4, <1>5, <1>6, <1>7, <1>8, <1>9, <1>10
  DEF Next, PutStep, WorkloadDone

\* The oldest version of every key is in the store in every reachable state.
THEOREM KeepInvariant == Spec => []KeepInv
<1>1. Init => KeepInv
  BY KeepInit
<1>2. TypeInv /\ KeepInv /\ [Next]_vars => KeepInv'
  BY KeepStep
<1> QED
  BY <1>1, <1>2, TypeInvariant, PTL DEF Spec

\* With the oldest version of each key in the store, so is the first it ever got.
LEMMA FirstVersionHeld ==
    ASSUME TypeInv, KeepInv
    PROVE  FirstVersionKept
<1> SUFFICES ASSUME NEW k \in Keys, NEW t \in written[k],
                    \A u \in written[k] : t <= u
             PROVE  t \in Versions(k)
  BY DEF FirstVersionKept
<1> DEFINE p == [key |-> k, ts |-> t]
<1>1. Holds(p)
  BY DEF KeepInv, FirstInv
<1>2. p \in memTable \cup UNION {s.kvs : s \in LiveSSTs}
  BY <1>1 DEF Holds, LiveSSTs
<1> QED
  BY <1>2 DEF Versions

\* The first version a key ever got is in the store in every reachable state.
THEOREM FirstVersionIsKept == Spec => []FirstVersionKept
<1>1. TypeInv /\ KeepInv => FirstVersionKept
  BY FirstVersionHeld
<1> QED
  BY <1>1, TypeInvariant, KeepInvariant, PTL

-----------------------------------------------------------------------------
(* Reads *)

\* A table with entries has a smallest key.
LEMMA SmallestKey ==
    ASSUME NEW s \in SST, s.kvs # {}
    PROVE  Smallest(s) \in KeysOf(s.kvs) /\ Smallest(s) \in Nat
<1>1. KeysOf(s.kvs) \subseteq Nat /\ KeysOf(s.kvs) # {}
  BY KeysAssumption DEF KeysOf, SST, KV
<1>2. \E k \in KeysOf(s.kvs) : \A j \in KeysOf(s.kvs) : k <= j
  BY <1>1, LeastNatural
<1> QED
  BY <1>1, <1>2 DEF Smallest

\* Of tables with distinct ids one comes first in SSTComparator's order.
LEMMA FirstExists ==
    ASSUME NEW S \in SUBSET SST, S # {},
           \A s \in S : s.kvs # {},
           \A s, t \in S : s.id = t.id => s = t
    PROVE  FirstOf(S) # {}
<1> DEFINE smallests == {Smallest(s) : s \in S}
<1>1. \A s \in S : Smallest(s) \in Nat /\ s.id \in Nat
  BY SmallestKey DEF SST
<1>2. PICK m \in smallests : \A n \in smallests : m <= n
  <2>1. smallests \subseteq Nat /\ smallests # {}
    BY <1>1
  <2> QED
    BY ONLY <2>1, LeastNatural
<1> DEFINE ties == {s.id : s \in {t \in S : Smallest(t) = m}}
<1>3. PICK i \in ties : \A j \in ties : i <= j
  <2>1. ties \subseteq Nat /\ ties # {}
    BY <1>1, <1>2
  <2> QED
    BY ONLY <2>1, LeastNatural
<1>4. PICK s \in S : Smallest(s) = m /\ s.id = i
  BY <1>3
<1>5. ASSUME NEW t \in S, t # s
      PROVE  Before(s, t)
  <2>1. Smallest(s) <= Smallest(t)
    BY <1>2, <1>4
  <2>2. s.id # t.id
    BY <1>5
  <2>3. Smallest(s) = Smallest(t) => s.id <= t.id
    BY <1>3, <1>4
  <2> QED
    BY <1>1, <2>1, <2>2, <2>3 DEF Before
<1> QED
  BY <1>5 DEF FirstOf

\* A key of which the store holds a version is found.
LEMMA HeldIsFound ==
    ASSUME ssts \in [Level -> SUBSET SST], FileInv, NEW k \in Keys, NEW p, Holds(p), p.key = k
    PROVE  GetResults(k) # {}
<1>1. CASE k \in KeysOf(memTable)
  BY <1>1 DEF GetResults, VersionsIn, KeysOf
<1>2. CASE k \notin KeysOf(memTable) /\ TableHits(0, k) # {}
  <2>1. PICK s \in TableHits(0, k) : TRUE
    BY <1>2
  <2>2. PICK q \in s.kvs : q.key = k
    BY <2>1 DEF TableHits, KeysOf
  <2>3. q.ts \in VersionsIn(UNION {t.kvs : t \in TableHits(0, k)}, k)
    BY <2>1, <2>2 DEF VersionsIn
  <2> QED
    BY <1>2, <2>3 DEF GetResults
<1>3. CASE k \notin KeysOf(memTable) /\ TableHits(0, k) = {}
  <2> DEFINE hit == {l \in Level : TableHits(l, k) # {}}
  <2>1. hit # {} /\ hit \subseteq Nat
    <3>1. PICK l \in Level : \E s \in ssts[l] : p \in s.kvs
      BY <1>3 DEF Holds, KeysOf
    <3>2. l \in hit
      BY <3>1 DEF TableHits, KeysOf
    <3> QED
      BY <3>2, ShapeAssumption DEF Level
  <2>2. PICK l \in hit : \A j \in hit : l <= j
    BY <2>1, LeastNatural
  <2>3. l \in Level /\ l # 0 /\ TableHits(l, k) # {}
    BY <1>3, <2>2
  <2>4. \A j \in 1 .. l - 1 : TableHits(j, k) = {}
    BY <2>2, <2>3, ShapeAssumption DEF Level
  <2>5. FirstOf(TableHits(l, k)) # {}
    <3>1. TableHits(l, k) \in SUBSET SST
      BY <2>3 DEF TableHits
    <3>2. \A s \in TableHits(l, k) : s.kvs # {}
      BY DEF TableHits, KeysOf
    <3>3. \A s, t \in TableHits(l, k) : s.id = t.id => s = t
      BY <2>3 DEF TableHits, FileInv
    <3> QED
      BY <2>3, <3>1, <3>2, <3>3, FirstExists
  <2>6. PICK s \in FirstOf(TableHits(l, k)) : \E q \in s.kvs : q.key = k
    BY <2>5 DEF FirstOf, TableHits, KeysOf
  <2>7. VersionsIn(UNION {t.kvs : t \in FirstOf(TableHits(l, k))}, k) # {}
    BY <2>6 DEF VersionsIn
  <2> DEFINE found(i) == VersionsIn(UNION {t.kvs : t \in FirstOf(TableHits(i, k))}, k)
             top == {i \in Level : /\ i # 0
                                   /\ TableHits(i, k) # {}
                                   /\ \A j \in 1 .. i - 1 : TableHits(j, k) = {}}
  <2>8. GetResults(k) = UNION {found(i) : i \in top}
    BY <1>3 DEF GetResults
  <2>9. l \in top /\ found(l) # {}
    BY <2>3, <2>4, <2>7
  <2> HIDE DEF found, top
  <2> QED
    BY <2>8, <2>9
<1> QED
  BY <1>1, <1>2, <1>3

\* Every key that was put is found.
LEMMA WrittenIsFound ==
    ASSUME ssts \in [Level -> SUBSET SST], written \in [Keys -> SUBSET Nat], FileInv, FirstInv,
           NEW k \in Keys, written[k] # {}
    PROVE  GetResults(k) # {}
<1>1. PICK t \in written[k] : \A u \in written[k] : t <= u
  BY LeastNatural
<1>2. Holds([key |-> k, ts |-> t])
  BY <1>1 DEF FirstInv
<1> QED
  BY <1>2, HeldIsFound

\* So the store keeps its keys, and every version it holds was written.
LEMMA KeysFound ==
    ASSUME TypeInv, KeepInv
    PROVE  KeysKept
<1> SUFFICES ASSUME NEW k \in Keys
             PROVE  /\ Versions(k) \subseteq written[k]
                    /\ written[k] # {} => GetResults(k) # {}
  BY DEF KeysKept
<1>1. Versions(k) \subseteq written[k]
  BY DEF KeepInv, WrittenInv, Versions, LiveSSTs
<1>2. written[k] # {} => GetResults(k) # {}
  BY WrittenIsFound DEF KeepInv, TypeInv, TypeOK
<1> QED
  BY <1>1, <1>2

\* No key is lost and no version is made up, in every reachable state.
THEOREM KeysAreKept == Spec => []KeysKept
<1>1. TypeInv /\ KeepInv => KeysKept
  BY KeysFound
<1> QED
  BY <1>1, TypeInvariant, KeepInvariant, PTL

-----------------------------------------------------------------------------
(* What is on storage. Whenever a Put has returned, the files are those of *)
(* the live tables, the manifest in memory names them, and the one on      *)
(* storage names those of them that the next session needs.                *)

TableFiles   == {[id |-> s.id, kvs |-> s.kvs] : s \in LiveSSTs}
BuildingFile == [id |-> building, kvs |-> {}]

\* Storage holds the files of the live tables and the file being built, but for a
\* process that an assert or a refused compaction has ended.
StorageInv ==
    /\ phase \in {"idle", "compact", "persist", "remove"} => files = TableFiles
    /\ phase \in {"flush", "merge"} => files = TableFiles \cup {BuildingFile}

\* Between compactions the manifest in memory is up to date, and that on storage
\* lacks tables of level 0 at most.
NamedInv ==
    phase \in {"idle", "flush"} =>
        /\ manifest = LiveIds
        /\ \A l \in Level \ {0} : current[l] = Ids(ssts[l])
        /\ current[0] \subseteq Ids(ssts[0])

\* To persist a table to the file being built replaces that file.
LEMMA PersistBuilding ==
    ASSUME NEW fs, NEW kvs, \A f \in fs : f.id # building
    PROVE  Persisted(fs \cup {BuildingFile}, kvs) = fs \cup {[id |-> building, kvs |-> kvs]}
BY DEF Persisted, BuildingFile

\* No file of a live table is the one being built.
LEMMA TablesApart ==
    ASSUME FileInv, phase \in {"flush", "merge"}
    PROVE  \A f \in TableFiles : f.id # building
BY DEF FileInv, TableFiles, LiveSSTs

\* One more table, one more file.
LEMMA TableAdded ==
    ASSUME ssts \in [Level -> SUBSET SST], NEW l \in Level, NEW s, ssts' = [ssts EXCEPT ![l] = @ \cup {s}]
    PROVE  TableFiles' = TableFiles \cup {[id |-> s.id, kvs |-> s.kvs]}
<1>1. LiveSSTs' = LiveSSTs \cup {s}
  BY DEF LiveSSTs
<1> QED
  BY <1>1, Zenon DEF TableFiles

\* A step that neither touches tables nor files.
LEMMA StorageFrame ==
    ASSUME StorageInv, UNCHANGED <<ssts, files>>,
           phase \in {"idle", "compact", "persist", "remove"},
           phase' \notin {"flush", "merge"}
    PROVE  StorageInv'
BY DEF StorageInv, TableFiles, LiveSSTs

\* Put creates the file a full memtable goes to.
LEMMA StoragePut ==
    ASSUME TypeInv, StorageInv, NEW k \in Keys, Put(k)
    PROVE  StorageInv'
<1> USE DEF TypeInv, TypeOK
<1>1. phase = "idle" /\ TableFiles' = TableFiles /\ files = TableFiles
  BY DEF Put, StorageInv, TableFiles, LiveSSTs
<1>2. CASE UNCHANGED <<phase, files, ctr, building>>
  BY <1>1, <1>2 DEF StorageInv
<1>3. CASE phase' = "flush" /\ NewEmptySST(files)
  <2>1. files' = files \cup {BuildingFile'}
    BY <1>3, NewFile DEF BuildingFile
  <2> QED
    BY <1>1, <1>3, <2>1 DEF StorageInv
<1> QED
  BY <1>2, <1>3 DEF Put

\* flush fills it.
LEMMA StorageFlush ==
    ASSUME TypeInv, FileInv, StorageInv, FlushSST
    PROVE  StorageInv'
<1> USE DEF TypeInv, TypeOK
<1> DEFINE new == [id |-> building, kvs |-> memTable, persistTime |-> clock]
<1>1. /\ phase = "flush" /\ phase' \in {"idle", "compact", "aborted"}
      /\ ssts' = [ssts EXCEPT ![0] = @ \cup {new}]
      /\ files' = Persisted(files, memTable)
  BY DEF FlushSST, AfterFlush
<1>2. 0 \in Level
  BY ShapeAssumption DEF Level
<1> HIDE DEF new
<1>3. TableFiles' = TableFiles \cup {[id |-> building, kvs |-> memTable]}
  <2>1. TableFiles' = TableFiles \cup {[id |-> new.id, kvs |-> new.kvs]}
    BY <1>1, <1>2, TableAdded
  <2> QED
    BY <2>1 DEF new
<1>4. files' = TableFiles \cup {[id |-> building, kvs |-> memTable]}
  BY <1>1, TablesApart, PersistBuilding DEF StorageInv
<1> QED
  BY <1>1, <1>3, <1>4 DEF StorageInv

\* A move leaves the tables as they are.
LEMMA StorageMove ==
    ASSUME TypeInv, StorageInv, NEW victims \in Victims(level), MoveToEmptyLevel(victims)
    PROVE  StorageInv'
<1> USE DEF TypeInv, TypeOK
<1> DEFINE moved == Moved(victims)
<1>1. /\ level \in Level /\ level + 1 \in Level /\ level # level + 1
      /\ phase = "compact" /\ phase' \in {"persist", "aborted"} /\ files' = files
      /\ ssts[level + 1] = {} /\ moved \subseteq ssts[level]
      /\ ssts' = [ssts EXCEPT ![level] = @ \ moved, ![level + 1] = moved]
  BY ShapeAssumption DEF MoveToEmptyLevel, TooLarge, Level, Moved, storageVars
<1> HIDE DEF moved
<1>2. /\ ssts'[level] = ssts[level] \ moved
      /\ ssts'[level + 1] = moved
      /\ \A l \in Level \ {level, level + 1} : ssts'[l] = ssts[l]
  BY <1>1
<1>3. \A s : (\E l \in Level : s \in ssts'[l]) <=> (\E l \in Level : s \in ssts[l])
  BY <1>1, <1>2
<1>4. LiveSSTs' = LiveSSTs
  BY <1>3 DEF LiveSSTs
<1> QED
  BY <1>1, <1>4 DEF StorageInv, TableFiles

\* A merge begins with the file of its first output.
LEMMA StorageStart ==
    ASSUME TypeInv, StorageInv, NEW victims \in Victims(level), StartMerge(victims)
    PROVE  StorageInv'
<1> USE DEF TypeInv, TypeOK
<1>1. phase = "compact" /\ phase' \in {"merge", "aborted"} /\ TableFiles' = TableFiles
  BY DEF StartMerge, TooLarge, treeVars, TableFiles, LiveSSTs
<1>2. ASSUME phase' = "merge"
      PROVE  files' = files \cup {BuildingFile'}
  BY <1>2, NewFile DEF StartMerge, BuildingFile
<1> QED
  BY <1>1, <1>2 DEF StorageInv

\* Each output fills its file, and but for the last creates the next.
LEMMA StorageFinish ==
    ASSUME TypeInv, FileInv, StorageInv, FinishSST
    PROVE  StorageInv'
<1> USE DEF TypeInv, TypeOK
<1> DEFINE new  == [id |-> building, kvs |-> Chunk, persistTime |-> clock]
           done == Persisted(files, Chunk)
<1>1. /\ phase = "merge" /\ level + 1 \in Level
      /\ ssts' = [ssts EXCEPT ![level + 1] = @ \cup {new}]
      /\ \/ UNCHANGED phase /\ NewEmptySST(done)
         \/ phase' = "remove" /\ files' = done
  BY DEF FinishSST, LevelInv
<1> HIDE DEF new
<1>2. TableFiles' = TableFiles \cup {[id |-> building, kvs |-> Chunk]}
  <2>1. TableFiles' = TableFiles \cup {[id |-> new.id, kvs |-> new.kvs]}
    BY <1>1, TableAdded
  <2> QED
    BY <2>1 DEF new
<1>3. done = TableFiles'
  BY <1>1, <1>2, TablesApart, PersistBuilding DEF StorageInv
<1>4. done \in SUBSET File
  BY PersistedType DEF Chunk, FirstEntries
<1> HIDE DEF done
<1>5. CASE UNCHANGED phase /\ NewEmptySST(done)
  <2>1. files' = done \cup {BuildingFile'}
    BY <1>4, <1>5, NewFile DEF BuildingFile
  <2> QED
    BY <1>1, <1>3, <1>5, <2>1 DEF StorageInv
<1>6. CASE phase' = "remove" /\ files' = done
  BY <1>3, <1>6 DEF StorageInv
<1> QED
  BY <1>1, <1>5, <1>6

\* Each input takes its file along.
LEMMA StorageRemove ==
    ASSUME TypeInv, KeepInv, StorageInv, RemoveSST
    PROVE  StorageInv'
<1> USE DEF TypeInv, TypeOK
<1>1. PICK s \in FirstOf(NotYetRemoved) :
        /\ ssts' = [ssts EXCEPT ![level] = @ \ {s}, ![level + 1] = @ \ {s}]
        /\ files' = RemainingFiles(s)
  BY DEF RemoveSST
<1>2. /\ phase = "remove" /\ phase' = "remove" /\ UNCHANGED <<memTable, written>>
      /\ level \in Level /\ level + 1 \in Level
  BY DEF RemoveSST, LevelInv
<1>3. s \in NotYetRemoved
  BY <1>1 DEF FirstOf
<1>4. \A l \in Level : ssts'[l] = ssts[l] \ {s}
  BY <1>1, <1>2, <1>3, Removable
<1>5. LiveSSTs' = LiveSSTs \ {s}
  BY <1>4 DEF LiveSSTs
<1>6. \A t \in LiveSSTs : t.id = s.id <=> t = s
  BY <1>2, <1>3 DEF KeepInv, FileInv, LiveSSTs, NotYetRemoved
<1>7. {f \in TableFiles : f.id # s.id} = TableFiles'
  BY <1>5, <1>6 DEF TableFiles
<1> QED
  BY <1>1, <1>2, <1>7 DEF StorageInv, RemainingFiles

\* No step of a Put leaves storage and the tree apart.
LEMMA StorageStep ==
    ASSUME TypeInv, KeepInv, StorageInv, [Next]_vars
    PROVE  StorageInv'
<1>1. ASSUME NEW k \in Keys, Put(k)
      PROVE  StorageInv'
  BY <1>1, StoragePut
<1>2. CASE FlushSST
  BY <1>2, StorageFlush DEF KeepInv
<1>3. CASE StopCompaction
  BY <1>3, StorageFrame DEF StopCompaction, treeVars, storageVars
<1>4. ASSUME NEW victims \in Victims(level), MoveToEmptyLevel(victims)
      PROVE  StorageInv'
  BY <1>4, StorageMove
<1>5. ASSUME NEW victims \in Victims(level), StartMerge(victims)
      PROVE  StorageInv'
  BY <1>5, StorageStart
<1>6. CASE FinishSST
  BY <1>6, StorageFinish DEF KeepInv
<1>7. CASE RemoveSST
  BY <1>7, StorageRemove
<1>8. CASE EndMerge
  <2>1. phase' \in {"aborted", "compact", "failed"}
    BY <1>8 DEF EndMerge
  <2> QED
    BY <1>8, <2>1, StorageFrame DEF EndMerge, treeVars, storageVars
<1>9. CASE PersistManifest
  BY <1>9, StorageFrame DEF PersistManifest
<1>10. CASE UNCHANGED vars
  BY <1>10 DEF vars, treeVars, storageVars, mergeVars, StorageInv, TableFiles, LiveSSTs, BuildingFile
<1> QED
  BY <1>1, <1>2, <1>3, <1>4, <1>5, <1>6, <1>7, <1>8, <1>9, <1>10
  DEF Next, PutStep, WorkloadDone

\* No flush leaves a manifest behind by more than its table, and a compaction leaves
\* neither behind.
LEMMA NamedStep ==
    ASSUME TypeInv, NamedInv, [Next]_vars
    PROVE  NamedInv'
<1> USE DEF TypeInv, TypeOK
<1>1. ASSUME NEW k \in Keys, Put(k)
      PROVE  NamedInv'
  BY <1>1 DEF Put, NamedInv, LiveIds
<1>2. CASE FlushSST
  <2> DEFINE new == [id |-> building, kvs |-> memTable, persistTime |-> clock]
  <2>1. /\ phase = "flush" /\ current' = current
        /\ ssts' = [ssts EXCEPT ![0] = @ \cup {new}]
        /\ manifest' = [manifest EXCEPT ![0] = @ \cup {building}]
    BY <1>2 DEF FlushSST
  <2>2. 0 \in Level
    BY ShapeAssumption DEF Level
  <2>3. Ids(ssts'[0]) = Ids(ssts[0]) \cup {building}
    <3>1. Ids(ssts[0] \cup {new}) = Ids(ssts[0]) \cup {new.id}
      BY IdsUnion
    <3> QED
      BY <2>1, <2>2, <3>1
  <2> HIDE DEF new
  <2>4. \A l \in Level \ {0} : ssts'[l] = ssts[l]
    BY <2>1
  <2>5. manifest' = LiveIds'
    BY <2>1, <2>2, <2>3, <2>4 DEF NamedInv, LiveIds
  <2> QED
    BY <2>1, <2>2, <2>3, <2>4, <2>5 DEF NamedInv
<1>3. CASE PersistManifest
  BY <1>3, ShapeAssumption DEF PersistManifest, NamedInv, LiveIds, Level
<1>4. PutStep => FlushSST \/ PersistManifest \/ phase' \notin {"idle", "flush"}
  BY DEF PutStep, StopCompaction, MoveToEmptyLevel, StartMerge, FinishSST, RemoveSST, EndMerge
<1>5. CASE phase' \notin {"idle", "flush"}
  BY <1>5 DEF NamedInv
<1>6. CASE UNCHANGED vars
  BY <1>6 DEF vars, treeVars, storageVars, NamedInv, LiveIds
<1> QED
  BY <1>1, <1>2, <1>3, <1>4, <1>5, <1>6 DEF Next, WorkloadDone

\* Files, tables and manifests fit together in every reachable state.
THEOREM StorageInvariant == Spec => [](StorageInv /\ NamedInv)
<1>1. Init => StorageInv /\ NamedInv
  BY ShapeAssumption DEF Init, InitMemory, StorageInv, NamedInv, TableFiles, LiveSSTs, LiveIds, Ids, Level
<1>2. TypeInv /\ KeepInv /\ StorageInv /\ NamedInv /\ [Next]_vars => (StorageInv /\ NamedInv)'
  BY StorageStep, NamedStep
<1> QED
  BY <1>1, <1>2, TypeInvariant, KeepInvariant, PTL DEF Spec

\* Whenever a Put has returned, the files on storage are those of the live tables,
\* with their content, and the manifest in memory names the live tables.
THEOREM StorageAgreesAlways == Spec => []StorageAgrees
<1>1. StorageInv /\ NamedInv => StorageAgrees
  BY DEF StorageInv, NamedInv, StorageAgrees, TableFiles
<1> QED
  BY <1>1, StorageInvariant, PTL

\* Whenever a Put has returned, a process that stops leaves a manifest on storage that
\* names live tables only, and all of them but for those flushed since it was written.
THEOREM TablesAreDurable == Spec => []DurableTables
<1>1. NamedInv => DurableTables
  BY DEF NamedInv, DurableTables
<1> QED
  BY <1>1, StorageInvariant, PTL

-----------------------------------------------------------------------------
(* Versions age with depth. The invariant allows for tables that a failed  *)
(* compaction has left marked (module LSMFaults), since a step of the tree *)
(* may find some; in a session without failures there are none, and the    *)
(* order is strict.                                                        *)

Merging == phase \in {"merge", "remove"}

\* The live tables that carry a mark and are not inputs of the merge under way: what
\* a failed compaction has left behind. Nothing unmarks them again.
Frozen == {s \in LiveSSTs : s.id \in marked /\ ~ (Merging /\ s \in toCompact)}
InFrozen(p) == \E f \in Frozen : p \in f.kvs
InFrozenBelow(p, j) == \E m \in Level : j < m /\ \E f \in ssts[m] : f \in Frozen /\ p \in f.kvs

KeysDisjoint(s, t) == \A p \in s.kvs, q \in t.kvs : p.key # q.key

OneVersionOf(kvs) == \A p, q \in kvs : p.key = q.key => p = q

\* A table has one version of a key, and the memtable is empty during a compaction.
SinglesInv ==
    /\ OneVersionOf(memTable)
    /\ phase = "merge" => OneVersionOf(todo)
    /\ \A l \in Level : \A s \in ssts[l] : OneVersionOf(s.kvs)
    /\ phase \in {"compact", "merge", "remove", "persist"} => memTable = {}

\* No two tables of level 0 were persisted at the same time.
TimesInv ==
    /\ \A l \in Level : \A s \in ssts[l] : s.persistTime < clock
    /\ \A s, t \in ssts[0] : s.persistTime = t.persistTime => s = t

\* Of level 0 the oldest table alone carries a mark, if tables are picked one by one.
\* A compaction gets only to levels it has merged everything into, and a merge to
\* levels without marks: what is frozen lies below, and shares no version with it.
MarksInv ==
    /\ marked \subseteq Ids(LiveSSTs)
    /\ picker = "ONE" => \A s \in ssts[0] : s.id \in marked =>
                            \A t \in ssts[0] : s.persistTime <= t.persistTime
    /\ phase = "compact" /\ level # 0 =>
         \A l \in Level : l <= level => \A s \in ssts[l] : s.id \notin marked
    /\ Merging =>
         /\ \A s \in NotYetRemoved : s.id \in marked
         /\ \A l \in Level : l <= level + 1 => \A s \in ssts[l] : s.id \in marked => s \in toCompact
         /\ \A s \in toCompact : \A p \in s.kvs : ~ InFrozen(p)

\* A table of a failed merge's output has, of each key it shares with a frozen input
\* at its level, the frozen version or an older one that is frozen elsewhere.
Supersedes(t, f) ==
    \A p \in f.kvs, r \in t.kvs : p.key = r.key => r.ts <= p.ts /\ InFrozen(r)

\* Below level 0 a key is in one table of a level only, or in an input of the merge
\* and in one of its outputs, be it still under way or failed.
RunInv ==
    phase # "aborted" => \A l \in Level \ {0} : \A s, t \in ssts[l] :
        \/ s = t
        \/ KeysDisjoint(s, t)
        \/ Merging /\ l = level + 1 /\ (s \in toCompact \/ t \in toCompact)
                                    /\ ~ (s \in toCompact /\ t \in toCompact)
        \/ s \in Frozen /\ t \notin Frozen /\ Supersedes(t, s)
        \/ t \in Frozen /\ s \notin Frozen /\ Supersedes(s, t)

\* The inputs of a merge are at its two levels, and what it writes is as old as all
\* of them: of a key that the next level had, that version, unless a frozen one.
InputsInv ==
    Merging =>
        /\ \A l \in Level \ {level, level + 1} : \A s \in ssts[l] : s \notin toCompact
        /\ \A t \in ssts[level + 1] \ toCompact : \A q \in t.kvs :
             \A s \in toCompact : \A p \in s.kvs : p.key = q.key =>
                /\ q.ts <= p.ts
                /\ s \in ssts[level + 1] => q = p \/ InFrozen(q)

\* A version still to be written is older than the versions of its key above the level
\* it goes to, but for copies of it in an input or a frozen table, and newer than
\* those below that level, unless it is frozen below them.
PendingInv ==
    phase = "merge" => \A q \in todo :
        /\ \A i \in Level : \A s \in ssts[i] : \A p \in s.kvs :
             i <= level /\ p.key = q.key =>
                q.ts <= p.ts /\ (q.ts = p.ts => s \in toCompact \/ InFrozen(q))
        /\ \A j \in Level : \A t \in ssts[j] : \A r \in t.kvs :
             j > level + 1 /\ r.key = q.key =>
                r.ts < q.ts \/ (r.ts = q.ts /\ InFrozen(q)) \/ InFrozenBelow(q, j)
        /\ \A s \in toCompact : \A p \in s.kvs : p.key = q.key =>
             q.ts <= p.ts /\ (s \in ssts[level + 1] => q = p \/ InFrozen(q))
        /\ \A f \in Frozen : \A p \in f.kvs : p.key = q.key => q.ts <= p.ts
        /\ \A t \in ssts[level + 1] \ toCompact : \A r \in t.kvs : r.key # q.key
        /\ InFrozen(q) \/ \E s \in toCompact : q \in s.kvs

\* Of two versions of a key the one above, p in the table s, is the newer. A merge or
\* a failed one may have left a copy of it below, and a merge may have brought it up
\* from a frozen table that is deeper than q.
Ages(s, j, p, q) ==
    \/ q.ts < p.ts
    \/ q.ts = p.ts /\ ((Merging /\ s \in toCompact) \/ InFrozen(p))
    \/ p.ts < q.ts /\ InFrozenBelow(p, j)
LevelsOrdered ==
    \A i, j \in Level : i < j =>
       \A s \in ssts[i], t \in ssts[j] : \A p \in s.kvs, q \in t.kvs :
          p.key = q.key => Ages(s, j, p, q)

RecInv == /\ SinglesInv /\ TimesInv /\ MarksInv /\ RunInv /\ InputsInv /\ PendingInv
          /\ MemTableNewest /\ Level0Ordered /\ LevelsOrdered

Invs == TypeInv /\ KeepInv /\ RecInv

\* The empty store.
LEMMA RecInit == Init => RecInv
<1> SUFFICES ASSUME Init PROVE RecInv
  OBVIOUS
<1>1. SinglesInv /\ TimesInv /\ InputsInv /\ PendingInv
  BY ShapeAssumption DEF Init, InitMemory, Level, SinglesInv, TimesInv, InputsInv, PendingInv, Merging, OneVersionOf
<1>2. RunInv /\ MemTableNewest /\ Level0Ordered /\ LevelsOrdered
  BY ShapeAssumption DEF Init, InitMemory, Level, RunInv, MemTableNewest, Level0Ordered, LevelsOrdered
<1>3. MarksInv
  BY ShapeAssumption DEF Init, InitMemory, Level, MarksInv, Merging
<1> QED
  BY <1>1, <1>2, <1>3 DEF RecInv

-----------------------------------------------------------------------------
(* What stays frozen *)

\* No step thaws or moves a frozen table.
FrozenStay == \A l \in Level : \A f \in ssts[l] : f \in Frozen => f \in ssts'[l] /\ f \in Frozen'

LEMMA FrozenKept ==
    ASSUME FrozenStay
    PROVE  /\ \A p : InFrozen(p) => InFrozen(p)'
           /\ \A p : \A j : InFrozenBelow(p, j) => InFrozenBelow(p, j)'
<1>1. ASSUME NEW p, InFrozen(p)
      PROVE  InFrozen(p)'
  <2>1. PICK f \in Frozen : p \in f.kvs
    BY <1>1 DEF InFrozen
  <2>2. f \in Frozen'
    BY <2>1 DEF FrozenStay, Frozen, LiveSSTs
  <2> QED
    BY <2>1, <2>2 DEF InFrozen
<1>2. ASSUME NEW p, NEW j, InFrozenBelow(p, j)
      PROVE  InFrozenBelow(p, j)'
  BY <1>2 DEF InFrozenBelow, FrozenStay
<1> QED
  BY <1>1, <1>2

\* With the same tables frozen, the same versions are.
LEMMA FrozenSame ==
    ASSUME Frozen' = Frozen
    PROVE  \A p : InFrozen(p)' <=> InFrozen(p)
BY DEF InFrozen

\* Two versions of a key with the same time are one.
LEMMA SameVersion ==
    ASSUME NEW p \in KV, NEW q \in KV, p.key = q.key, p.ts = q.ts
    PROVE  p = q
BY DEF KV

\* The versions in a table.
LEMMA VersionTypes ==
    ASSUME TypeInv, NEW l \in Level, NEW s \in ssts[l], NEW p \in s.kvs
    PROVE  p \in KV /\ p.ts \in Nat /\ s \in SST /\ s.persistTime \in Nat
BY DEF TypeInv, TypeOK, SST, KV

-----------------------------------------------------------------------------
(* Steps outside of merges *)

\* A step that leaves the tables, the memtable and the marks alone.
LEMMA RecFrame ==
    ASSUME Invs, UNCHANGED <<memTable, ssts, marked, picker>>, clock' \in {clock, clock + 1},
           ~ Merging, phase # "aborted", phase' \notin {"compact", "merge", "remove"},
           phase' = "persist" => phase = "compact"
    PROVE  RecInv'
<1> USE DEF Invs, RecInv
<1>1. Frozen' = Frozen /\ LiveSSTs' = LiveSSTs /\ ~ Merging'
  BY DEF Frozen, Merging, LiveSSTs
<1>2. SinglesInv' /\ InputsInv' /\ PendingInv'
  BY <1>1 DEF SinglesInv, InputsInv, PendingInv, Merging
<1>3. TimesInv'
  BY DEF TimesInv, TypeInv, TypeOK, SST
<1>4. MarksInv'
  BY <1>1 DEF MarksInv
<1>5. \A p : InFrozen(p)' <=> InFrozen(p)
  BY <1>1, FrozenSame
<1>6. RunInv'
  BY <1>1, <1>5 DEF RunInv, KeysDisjoint, Supersedes
<1>7. \A p, j : InFrozenBelow(p, j)' <=> InFrozenBelow(p, j)
  BY <1>1 DEF InFrozenBelow
<1>8. LevelsOrdered'
  BY <1>1, <1>5, <1>7 DEF LevelsOrdered, Ages
<1>9. MemTableNewest' /\ Level0Ordered'
  BY DEF MemTableNewest, Level0Ordered, LiveSSTs
<1> QED
  BY <1>2, <1>3, <1>4, <1>6, <1>8, <1>9

\* A new version is newer than all the store holds.
LEMMA RecPut ==
    ASSUME Invs, NEW k \in Keys, Put(k)
    PROVE  RecInv'
<1> USE DEF Invs, RecInv, TypeInv, TypeOK
<1> DEFINE new == [key |-> k, ts |-> clock]
<1>1. /\ phase = "idle" /\ phase' \in {"idle", "flush"}
      /\ UNCHANGED <<ssts, marked, picker>> /\ clock' = clock + 1
      /\ memTable' = IF k \in KeysOf(memTable) THEN memTable ELSE memTable \cup {new}
  BY DEF Put, Inserted
<1>2. Frozen' = Frozen /\ LiveSSTs' = LiveSSTs /\ ~ Merging /\ ~ Merging'
  BY <1>1 DEF Frozen, Merging, LiveSSTs
<1>3. TimesInv'
  BY <1>1, ShapeAssumption DEF TimesInv, Level, SST
<1>10. InputsInv' /\ PendingInv'
  BY <1>1, <1>2 DEF InputsInv, PendingInv
<1>4. MarksInv'
  BY <1>1, <1>2 DEF MarksInv
<1>5. \A p : InFrozen(p)' <=> InFrozen(p)
  BY <1>2, FrozenSame
<1>6. RunInv'
  BY <1>1, <1>2, <1>5 DEF RunInv, KeysDisjoint, Supersedes
<1>7. LevelsOrdered'
  <2>1. \A p, j : InFrozenBelow(p, j)' <=> InFrozenBelow(p, j)
    BY <1>1, <1>2 DEF InFrozenBelow
  <2> QED
    BY <1>1, <1>2, <1>5, <2>1 DEF LevelsOrdered, Ages
<1>8. SinglesInv' /\ Level0Ordered'
  BY <1>1 DEF SinglesInv, OneVersionOf, KeysOf, Level0Ordered
<1>9. MemTableNewest'
  <2>1. \A s \in LiveSSTs : \A q \in s.kvs : q.ts < clock
    BY DEF KeepInv, WrittenInv, LiveSSTs, SST, KV
  <2> QED
    BY <1>1, <1>2, <2>1 DEF MemTableNewest
<1> QED
  BY <1>3, <1>4, <1>6, <1>7, <1>8, <1>9, <1>10

\* The memtable becomes the newest table of level 0.
LEMMA RecFlush ==
    ASSUME Invs, FlushSST
    PROVE  RecInv'
<1> USE DEF Invs, RecInv, TypeInv, TypeOK
<1> DEFINE new == [id |-> building, kvs |-> memTable, persistTime |-> clock]
<1>1. /\ phase = "flush" /\ phase' \in {"idle", "compact", "aborted"}
      /\ memTable' = {} /\ UNCHANGED <<marked, picker>> /\ level' = 0
      /\ clock' = clock + 1
      /\ ssts' = [ssts EXCEPT ![0] = @ \cup {new}]
  BY DEF FlushSST, AfterFlush
<1>2. 0 \in Level /\ Level \subseteq Nat
  BY ShapeAssumption DEF Level
<1>3. ssts'[0] = ssts[0] \cup {new} /\ \A l \in Level \ {0} : ssts'[l] = ssts[l]
  BY <1>1, <1>2
<1> HIDE DEF new
<1>4. new.id = building /\ new.kvs = memTable /\ new.persistTime = clock
  BY DEF new
<1>5. new.id \notin marked
  BY <1>1, <1>4 DEF MarksInv, KeepInv, FileInv, Ids, LiveSSTs
<1>6. LiveSSTs' = LiveSSTs \cup {new}
  BY <1>2, <1>3 DEF LiveSSTs
<1>7. Frozen' = Frozen /\ ~ Merging /\ ~ Merging'
  BY <1>1, <1>5, <1>6 DEF Frozen, Merging
<1>8. \A p : InFrozen(p)' <=> InFrozen(p)
  BY <1>7, FrozenSame
<1>9. SinglesInv'
  BY <1>1, <1>3, <1>4 DEF SinglesInv, OneVersionOf
<1>10. \A l \in Level : \A s \in ssts[l] : s.persistTime \in Nat /\ s.persistTime < clock
  BY DEF TimesInv, SST
<1>11. TimesInv'
  BY <1>1, <1>2, <1>3, <1>4, <1>10 DEF TimesInv
<1>12. InputsInv' /\ PendingInv'
  BY <1>1, <1>7 DEF InputsInv, PendingInv
<1>13. MarksInv'
  <2>1. marked' \subseteq Ids(LiveSSTs')
    BY <1>1, <1>6 DEF MarksInv, Ids
  <2>2. ASSUME picker = "ONE", NEW s \in ssts'[0], s.id \in marked, NEW t \in ssts'[0]
        PROVE  s.persistTime <= t.persistTime
    <3>1. s \in ssts[0]
      BY <1>3, <1>5, <2>2
    <3> QED
      BY <1>2, <1>3, <1>4, <1>10, <2>2, <3>1 DEF MarksInv
  <2> QED
    BY <1>1, <1>7, <2>1, <2>2 DEF MarksInv
<1>14. RunInv'
  BY <1>1, <1>3, <1>7, <1>8 DEF RunInv, KeysDisjoint, Supersedes
<1>15. MemTableNewest'
  BY <1>1 DEF MemTableNewest
<1>16. \A l \in Level : \A s \in ssts[l] : \A p \in memTable, q \in s.kvs : p.key = q.key => q.ts < p.ts
  BY DEF MemTableNewest, LiveSSTs
<1>17. Level0Ordered'
  <2> SUFFICES ASSUME NEW s \in ssts'[0], NEW t \in ssts'[0], s.persistTime < t.persistTime,
                      NEW p \in s.kvs, NEW q \in t.kvs, p.key = q.key
               PROVE  p.ts < q.ts
    BY DEF Level0Ordered
  <2>1. s \in ssts[0]
    <3>1. t.persistTime \in Nat /\ t.persistTime <= clock
      BY <1>2, <1>3, <1>4, <1>10
    <3> QED
      BY <1>3, <1>4, <3>1
  <2>2. CASE t = new
    BY <1>2, <1>4, <1>16, <2>1, <2>2
  <2>3. CASE t \in ssts[0]
    BY <2>1, <2>3 DEF Level0Ordered
  <2> QED
    BY <1>3, <2>2, <2>3
<1>18. LevelsOrdered'
  <2> SUFFICES ASSUME NEW i \in Level, NEW j \in Level, i < j,
                      NEW s \in ssts'[i], NEW t \in ssts'[j],
                      NEW p \in s.kvs, NEW q \in t.kvs, p.key = q.key
               PROVE  Ages(s, j, p, q)'
    BY DEF LevelsOrdered
  <2>1. t \in ssts[j] /\ j # 0
    BY <1>2, <1>3
  <2>2. CASE s = new
    BY <1>4, <1>16, <2>1, <2>2 DEF Ages
  <2>3. CASE s \in ssts[i]
    <3>1. Ages(s, j, p, q)
      BY <2>1, <2>3 DEF LevelsOrdered
    <3>2. InFrozenBelow(p, j) => InFrozenBelow(p, j)'
      BY <1>2, <1>3, <1>7 DEF InFrozenBelow
    <3> QED
      BY <1>7, <1>8, <3>1, <3>2 DEF Ages
  <2> QED
    BY <1>3, <2>2, <2>3
<1> QED
  BY <1>9, <1>11, <1>12, <1>13, <1>14, <1>15, <1>17, <1>18

\* Tables move to an empty level: no table of the level they leave has their keys.
LEMMA RecMove ==
    ASSUME Invs, NEW victims \in Victims(level), MoveToEmptyLevel(victims)
    PROVE  RecInv'
<1> USE DEF Invs, RecInv, TypeInv, TypeOK
<1> DEFINE moved == Moved(victims)
<1>1. /\ level \in Level /\ level + 1 \in Level /\ level # 0 /\ level \in Nat
      /\ phase = "compact" /\ phase' \in {"persist", "aborted"} /\ ssts[level + 1] = {}
      /\ UNCHANGED <<memTable, clock, picker>>
      /\ ssts' = [ssts EXCEPT ![level] = @ \ moved, ![level + 1] = moved]
  BY ShapeAssumption DEF MoveToEmptyLevel, TooLarge, Level
<1>2. moved \subseteq ssts[level] /\ marked' = marked \ Ids(moved)
  BY DEF Moved, MoveToEmptyLevel, MarksAfterMove
<1> HIDE DEF moved
<1>3. /\ ssts'[level] = ssts[level] \ moved
      /\ ssts'[level + 1] = moved
      /\ \A l \in Level \ {level, level + 1} : ssts'[l] = ssts[l]
  BY <1>1
<1>4. 0 \in Level /\ Level \subseteq Nat /\ ssts'[0] = ssts[0]
  BY <1>1, <1>3, ShapeAssumption DEF Level
<1>5. \A l \in Level : \A s \in ssts'[l] :
        \/ s \in ssts[l]
        \/ l = level + 1 /\ s \in ssts[level]
  BY <1>2, <1>3
<1>6. \A l \in Level : l <= level => \A s \in ssts[l] : s.id \notin marked
  BY <1>1 DEF MarksInv
<1>7. marked' = marked
  BY <1>1, <1>2, <1>4, <1>6 DEF Ids
<1>8. LiveSSTs' = LiveSSTs
  <2>1. \A s : (\E l \in Level : s \in ssts[l]) <=> (\E l \in Level : s \in ssts'[l])
    BY <1>1, <1>2, <1>3
  <2> QED
    BY <2>1 DEF LiveSSTs
<1>9. Frozen' = Frozen /\ ~ Merging /\ ~ Merging'
  BY <1>1, <1>7, <1>8 DEF Frozen, Merging
<1>10. \A p : InFrozen(p)' <=> InFrozen(p)
  BY <1>9, FrozenSame
<1>11. \A m \in Level : \A f \in ssts[m] : f \in Frozen => m > level + 1 /\ f \in ssts'[m]
  <2> SUFFICES ASSUME NEW m \in Level, NEW f \in ssts[m], f.id \in marked
               PROVE  m > level + 1 /\ f \in ssts'[m]
    BY DEF Frozen
  <2>1. ~ (m <= level) /\ m # level + 1 /\ m \in Nat
    BY <1>1, <1>4, <1>6
  <2> QED
    BY <1>1, <1>3, <2>1
<1>12. SinglesInv'
  BY <1>1, <1>5 DEF SinglesInv, OneVersionOf
<1>13. TimesInv' /\ Level0Ordered'
  BY <1>1, <1>4, <1>5 DEF TimesInv, Level0Ordered
<1>14. MarksInv' /\ InputsInv' /\ PendingInv'
  BY <1>1, <1>4, <1>7, <1>8, <1>9 DEF MarksInv, InputsInv, PendingInv
<1>15. RunInv'
  <2>1. \A l \in Level \ {0} : \A s, t \in ssts[l] :
        \/ s = t
        \/ KeysDisjoint(s, t)
        \/ s \in Frozen /\ t \notin Frozen /\ Supersedes(t, s)
        \/ t \in Frozen /\ s \notin Frozen /\ Supersedes(s, t)
    BY <1>1, <1>9 DEF RunInv
  <2>2. \A l \in Level : \E i \in Level : ssts'[l] \subseteq ssts[i] /\ (l # 0 => i # 0)
    BY <1>1, <1>2, <1>3
  <2>3. \A l \in Level \ {0} : \A s, t \in ssts'[l] :
        \/ s = t
        \/ KeysDisjoint(s, t)
        \/ s \in Frozen /\ t \notin Frozen /\ Supersedes(t, s)
        \/ t \in Frozen /\ s \notin Frozen /\ Supersedes(s, t)
    BY <2>1, <2>2
  <2>4. \A s, t : Supersedes(t, s)' <=> Supersedes(t, s)
    BY <1>10 DEF Supersedes
  <2> QED
    BY <1>9, <2>3, <2>4 DEF RunInv, KeysDisjoint
<1>16. MemTableNewest'
  BY <1>1 DEF MemTableNewest, SinglesInv
<1>17. LevelsOrdered'
  <2> SUFFICES ASSUME NEW i \in Level, NEW j \in Level, i < j,
                      NEW s \in ssts'[i], NEW t \in ssts'[j],
                      NEW p \in s.kvs, NEW q \in t.kvs, p.key = q.key
               PROVE  Ages(s, j, p, q)'
    BY DEF LevelsOrdered
  <2>1. \A k, l \in Level : k < l => \A u \in ssts[k], v \in ssts[l] : \A x \in u.kvs, y \in v.kvs :
          x.key = y.key => Ages(u, l, x, y)
    BY DEF LevelsOrdered
  <2>2. InFrozenBelow(p, j) => InFrozenBelow(p, j)'
    BY <1>9, <1>11 DEF InFrozenBelow
  <2>3. Ages(s, j, p, q) => Ages(s, j, p, q)'
    BY <1>9, <1>10, <2>2 DEF Ages
  <2>4. CASE j = level + 1
    <3>1. t \in moved /\ t \in ssts[level] /\ i <= level
      BY <1>1, <1>2, <1>3, <1>4, <2>4
    <3>2. s \in ssts'[i] /\ ssts'[i] \subseteq ssts[i]
      <4>1. i # level + 1
        BY <2>4
      <4> QED
        BY <1>3, <4>1
    <3>3. CASE i = level
      <4>1. s # t /\ s \in ssts[level]
        BY <1>1, <1>3, <3>1, <3>2, <3>3
      <4>2. s \notin Frozen /\ t \notin Frozen
        BY <1>1, <1>4, <1>6, <3>1, <4>1 DEF Frozen
      <4>3. KeysDisjoint(s, t)
        BY <1>1, <1>9, <3>1, <4>1, <4>2 DEF RunInv
      <4> QED
        BY <4>3 DEF KeysDisjoint
    <3>4. CASE i < level
      <4>1. Ages(s, level, p, q)
        BY <1>1, <2>1, <3>1, <3>2, <3>4
      <4>2. InFrozenBelow(p, level) => InFrozenBelow(p, j)
        BY <1>11, <2>4 DEF InFrozenBelow
      <4> QED
        BY <2>3, <4>1, <4>2 DEF Ages
    <3> QED
      BY <1>1, <1>4, <3>1, <3>3, <3>4
  <2>5. CASE j # level + 1 /\ i = level + 1
    <3>1. t \in ssts[j] /\ s \in ssts[level] /\ level < j
      BY <1>1, <1>2, <1>3, <1>4, <2>5
    <3> QED
      BY <1>1, <2>1, <2>3, <3>1
  <2>6. CASE j # level + 1 /\ i # level + 1
    <3>1. t \in ssts[j] /\ s \in ssts[i]
      BY <1>5, <2>6
    <3> QED
      BY <2>1, <2>3, <3>1
  <2> QED
    BY <2>4, <2>5, <2>6
<1> QED
  BY <1>12, <1>13, <1>14, <1>15, <1>16, <1>17

-----------------------------------------------------------------------------
(* The start of a merge *)

\* Of the versions of a key, a merge writes one.
LEMMA MergedOnce ==
    ASSUME NEW tables \in SUBSET SST
    PROVE  /\ OneVersionOf(Merged(tables))
           /\ \A q \in Merged(tables) : \E s \in tables : q \in s.kvs
           /\ \A q \in Merged(tables) : \A s \in tables : \A p \in s.kvs :
                p.key = q.key => q.ts <= p.ts
<1> DEFINE all == UNION {s.kvs : s \in tables}
<1>1. all \subseteq KV
  BY DEF SST
<1>2. Merged(tables) = {p \in all : \A q \in all : q.key = p.key => p.ts <= q.ts}
  BY DEF Merged
<1>3. \A p, q \in Merged(tables) : p.key = q.key => p = q
  BY <1>1, <1>2 DEF KV
<1> QED
  BY <1>2, <1>3 DEF OneVersionOf

\* The oldest table of level 0, picked on its own, is the one that may carry a mark.
LEMMA OldestMarked ==
    ASSUME Invs, phase = "compact", level = 0, NEW victims \in Victims(level), Markable(victims),
           NEW s \in ssts[0]
    PROVE  s.id \notin marked
<1> USE DEF Invs, RecInv, TypeInv, TypeOK
<1>1. 0 \in Level /\ \A t \in victims : t.id \notin marked
  BY ShapeAssumption DEF Markable, Ids, Level
<1>2. CASE picker = "ALL"
  BY <1>1, <1>2 DEF Victims
<1>3. CASE picker = "ONE"
  <2> SUFFICES ASSUME s.id \in marked
               PROVE  FALSE
    OBVIOUS
  <2> DEFINE old == {t \in ssts[0] : /\ t.persistTime < clock
                                     /\ \A u \in ssts[0] : t.persistTime <= u.persistTime}
  <2>1. victims = FirstOf(old)
    BY <1>3 DEF Victims, OldestOfLevel0
  <2>2. s \in old
    BY <1>1, <1>3 DEF MarksInv, TimesInv
  <2>3. \A t \in old : t = s
    <3>1. \A t \in ssts[0] : t.persistTime \in Nat
      BY <1>1 DEF SST
    <3> QED
      BY <1>1, <2>2, <3>1 DEF TimesInv
  <2> HIDE DEF old
  <2>4. s \in victims
    BY <2>1, <2>2, <2>3 DEF FirstOf
  <2> QED
    BY <1>1, <2>4
<1> QED
  BY <1>2, <1>3, PickerAssumption

\* What a merge replaces are the victims and the whole next level, unmarked so far;
\* what it reads are those and the frozen tables, which are below.
LEMMA MergeInputs ==
    ASSUME Invs, NEW victims \in Victims(level), StartMerge(victims), Markable(victims)
    PROVE  /\ victims \subseteq ssts[level]
           /\ toCompact' = victims \cup ssts[level + 1]
           /\ Inputs(marked') = toCompact' \cup Frozen
           /\ \A s \in LiveSSTs : s.id \in marked' <=> (s.id \in marked \/ s \in toCompact')
           /\ \A l \in Level : l <= level + 1 => \A s \in ssts[l] : s.id \notin marked
<1> USE DEF Invs, RecInv, TypeInv, TypeOK
<1> DEFINE chosen == victims \cup ssts[level + 1]
<1>1. /\ level \in Level /\ level + 1 \in Level /\ phase = "compact" /\ Level \subseteq Nat
      /\ marked' = marked \cup Ids(chosen) /\ toCompact' = Replaced(marked')
  BY ShapeAssumption DEF StartMerge, TooLarge, Level
<1>2. victims \subseteq ssts[level]
  BY DEF Victims, OldestOfLevel0, FirstOf
<1>3. \A s \in LiveSSTs : s.id \in Ids(chosen) <=> s \in chosen
  <2>1. \A s \in LiveSSTs, t \in chosen : s.id = t.id => s = t
    BY <1>1, <1>2 DEF KeepInv, FileInv, LiveSSTs
  <2> QED
    BY <2>1, Zenon DEF Ids
<1>4. chosen \subseteq LiveSSTs /\ \A l \in Level : ssts[l] \subseteq LiveSSTs
  BY <1>1, <1>2 DEF LiveSSTs
<1>5. ASSUME NEW l \in Level, l <= level + 1, NEW s \in ssts[l]
      PROVE  s.id \notin marked
  <2>1. CASE l = level + 1
    BY <1>5, <2>1 DEF Markable, Ids
  <2>2. CASE l # level + 1 /\ level # 0
    <3>1. l <= level
      BY <1>1, <1>5, <2>2
    <3> QED
      BY <1>1, <1>5, <2>2, <3>1 DEF MarksInv
  <2>3. CASE l # level + 1 /\ level = 0
    <3>1. l = 0
      BY <1>1, <1>5, <2>3
    <3> QED
      BY <1>1, <1>5, <2>3, <3>1, OldestMarked
  <2> QED
    BY <2>1, <2>2, <2>3
<1> HIDE DEF chosen
<1>6. \A s \in LiveSSTs : s.id \in marked' <=> (s.id \in marked \/ s \in chosen)
  BY <1>1, <1>3
<1>7. \A s \in ssts[level] \cup ssts[level + 1] : s.id \notin marked
  BY <1>1, <1>5
<1>8. chosen \subseteq ssts[level] \cup ssts[level + 1]
  BY <1>2 DEF chosen
<1>9. toCompact' = chosen
  BY <1>1, <1>4, <1>6, <1>7, <1>8 DEF Replaced
<1>10. Inputs(marked') = chosen \cup Frozen
  <2>1. Frozen = {s \in LiveSSTs : s.id \in marked}
    BY <1>1 DEF Frozen, Merging
  <2> QED
    BY <1>4, <1>6, <2>1 DEF Inputs
<1> QED
  BY <1>2, <1>5, <1>6, <1>9, <1>10 DEF chosen

\* A table of level 0 that is not an input is newer than those that are.
LEMMA Level0Kept ==
    ASSUME Invs, level = 0, NEW victims \in Victims(level), victims \subseteq ssts[0],
           NEW s \in ssts[0] \ victims, NEW t \in victims,
           NEW p \in s.kvs, NEW q \in t.kvs, p.key = q.key
    PROVE  q.ts < p.ts
<1> USE DEF Invs, RecInv, TypeInv, TypeOK
<1>1. 0 \in Level
  BY ShapeAssumption DEF Level
<1>2. t \in OldestOfLevel0
  BY DEF Victims
<1>3. t.persistTime <= s.persistTime /\ t \in ssts[0]
  BY <1>2 DEF OldestOfLevel0, FirstOf
<1>4. t.persistTime < s.persistTime
  BY <1>1, <1>3 DEF TimesInv, SST
<1> QED
  BY <1>3, <1>4 DEF Level0Ordered

\* What a merge is to write fits between the levels above and below its target.
LEMMA PendingStart ==
    ASSUME Invs, NEW victims \in Victims(level), StartMerge(victims), Markable(victims),
           Frozen' = Frozen
    PROVE  PendingInv'
<1> USE DEF Invs, RecInv, TypeInv, TypeOK
<1>1. /\ level \in Level /\ level + 1 \in Level /\ level \in Nat /\ phase = "compact"
      /\ todo' = Merged(Inputs(marked')) /\ UNCHANGED <<ssts, level>> /\ ~ Merging
      /\ Level \subseteq Nat
  BY ShapeAssumption DEF StartMerge, TooLarge, Level, treeVars, Merging
<1>2. /\ victims \subseteq ssts[level]
      /\ Inputs(marked') = toCompact' \cup Frozen
      /\ toCompact' = victims \cup ssts[level + 1]
      /\ \A l \in Level : l <= level + 1 => \A s \in ssts[l] : s.id \notin marked
  BY MergeInputs
<1>3. \A l \in Level : l <= level + 1 => \A s \in ssts[l] : s \notin Frozen
  BY <1>2 DEF Frozen
<1>4. toCompact' \cup Frozen \in SUBSET SST
  BY <1>1, <1>2 DEF Frozen, LiveSSTs
<1>5. /\ \A q \in todo' : \E s \in toCompact' \cup Frozen : q \in s.kvs
      /\ \A q \in todo' : \A s \in toCompact' \cup Frozen : \A p \in s.kvs : p.key = q.key => q.ts <= p.ts
  BY <1>1, <1>2, <1>4, MergedOnce
<1>6. \A k, l \in Level : k < l => \A u \in ssts[k], v \in ssts[l] : \A x \in u.kvs, y \in v.kvs :
        x.key = y.key => Ages(u, l, x, y)
  BY DEF LevelsOrdered
<1>7. \A l \in Level : \A s \in ssts[l] : \A p \in s.kvs : p \in KV /\ p.ts \in Nat
  BY VersionTypes
<1>8. \A p : InFrozen(p)' <=> InFrozen(p)
  BY FrozenSame
<1>9. \A p, j : InFrozenBelow(p, j)' <=> InFrozenBelow(p, j)
  BY <1>1 DEF InFrozenBelow
<1>10. \A p, j : InFrozenBelow(p, j) => InFrozen(p)
  BY DEF InFrozenBelow, InFrozen
<1>11. ASSUME NEW q \in todo'
       PROVE  /\ \A p : InFrozen(p) /\ p.key = q.key => q.ts <= p.ts
              /\ q \in KV /\ q.ts \in Nat
              /\ \E u : q \in u.kvs /\ \/ u \in Frozen
                                       \/ u \in toCompact' /\ u \in victims
                                       \/ u \in toCompact' /\ u \in ssts[level + 1]
  <2>1. PICK u \in toCompact' \cup Frozen : q \in u.kvs
    BY <1>5, <1>11
  <2>2. q \in KV /\ q.ts \in Nat
    BY <1>4, <2>1 DEF SST, KV
  <2>3. \A p : InFrozen(p) /\ p.key = q.key => q.ts <= p.ts
    BY <1>5, <1>11 DEF InFrozen
  <2> QED
    BY <1>2, <2>1, <2>2, <2>3
\* In a table above q's, a version of its key is newer, or frozen.
<1>12. ASSUME NEW q \in todo', NEW i \in Level, NEW s \in ssts[i], NEW p \in s.kvs, p.key = q.key,
              NEW j \in Level, i < j, NEW u \in ssts[j], q \in u.kvs
       PROVE  q.ts <= p.ts /\ (q.ts = p.ts => InFrozen(q))
  <2>1. Ages(s, j, p, q)
    BY <1>6, <1>12
  <2>2. p \in KV /\ p.ts \in Nat /\ q \in KV /\ q.ts \in Nat
    BY <1>7, <1>11, <1>12
  <2>3. CASE q.ts < p.ts
    BY <2>2, <2>3
  <2>4. CASE q.ts = p.ts /\ InFrozen(p)
    BY <1>12, <2>2, <2>4, SameVersion
  <2>5. CASE p.ts < q.ts /\ InFrozenBelow(p, j)
    BY <1>10, <1>11, <1>12, <2>2, <2>5
  <2> QED
    BY <1>1, <2>1, <2>3, <2>4, <2>5 DEF Ages
\* In a table below q's, one is older, or q is frozen.
<1>13. ASSUME NEW q \in todo', NEW i \in Level, NEW u \in ssts[i], q \in u.kvs,
              NEW j \in Level, i < j, NEW t \in ssts[j], NEW r \in t.kvs, r.key = q.key
       PROVE  r.ts < q.ts \/ (r.ts = q.ts /\ InFrozen(q)) \/ InFrozenBelow(q, j)
  BY <1>1, <1>6, <1>13 DEF Ages
<1>14. ASSUME NEW q \in todo', NEW i \in Level, NEW s \in ssts[i], NEW p \in s.kvs, i <= level, p.key = q.key
       PROVE  q.ts <= p.ts /\ (q.ts = p.ts => s \in toCompact' \/ InFrozen(q))
  <2>1. PICK u : q \in u.kvs /\ \/ u \in Frozen
                                \/ u \in toCompact' /\ u \in victims
                                \/ u \in toCompact' /\ u \in ssts[level + 1]
    BY <1>11, <1>14
  <2>2. CASE u \in Frozen
    <3>1. PICK m \in Level : u \in ssts[m]
      BY <2>2 DEF Frozen, LiveSSTs
    <3>2. i < m
      BY <1>1, <1>3, <1>14, <2>2, <3>1
    <3> QED
      BY <1>12, <1>14, <2>1, <3>1, <3>2
  <2>3. CASE u \in ssts[level + 1]
    <3>1. i < level + 1
      BY <1>1, <1>14
    <3> QED
      BY <1>1, <1>12, <1>14, <2>1, <2>3, <3>1
  <2>4. CASE u \in victims /\ i < level
    BY <1>1, <1>2, <1>12, <1>14, <2>1, <2>4
  <2>5. CASE u \in victims /\ i = level /\ s \in victims
    BY <1>2, <1>5, <1>14, <2>5
  <2>6. CASE u \in victims /\ i = level /\ s \notin victims /\ level = 0
    <3>1. q.ts < p.ts
      BY <1>2, <1>14, <2>1, <2>6, Level0Kept
    <3> QED
      BY <1>7, <1>11, <1>14, <3>1
  <2>7. CASE u \in victims /\ i = level /\ s \notin victims /\ level # 0
    <3>1. s # u /\ u \in ssts[level] /\ s \in ssts[level] /\ s \notin Frozen /\ u \notin Frozen
      BY <1>1, <1>2, <1>3, <1>14, <2>7
    <3>2. KeysDisjoint(s, u)
      BY <1>1, <2>7, <3>1 DEF RunInv
    <3> QED
      BY <1>14, <2>1, <3>2 DEF KeysDisjoint
  <2> QED
    BY <1>1, <1>14, <2>1, <2>2, <2>3, <2>4, <2>5, <2>6, <2>7
<1>15. ASSUME NEW q \in todo', NEW j \in Level, NEW t \in ssts[j], NEW r \in t.kvs, j > level + 1, r.key = q.key
       PROVE  r.ts < q.ts \/ (r.ts = q.ts /\ InFrozen(q)) \/ InFrozenBelow(q, j)
  <2>1. PICK u : q \in u.kvs /\ \/ u \in Frozen
                                \/ u \in toCompact' /\ u \in victims
                                \/ u \in toCompact' /\ u \in ssts[level + 1]
    BY <1>11, <1>15
  <2>2. CASE u \in Frozen
    <3>1. PICK m \in Level : u \in ssts[m]
      BY <2>2 DEF Frozen, LiveSSTs
    <3>2. InFrozen(q)
      BY <2>1, <2>2 DEF InFrozen
    <3>3. r \in KV /\ r.ts \in Nat /\ q.ts \in Nat
      BY <1>7, <1>11, <1>15
    <3>4. CASE m > j
      BY <2>1, <2>2, <3>1, <3>4 DEF InFrozenBelow
    <3>5. CASE m < j
      BY <1>13, <1>15, <2>1, <3>1, <3>5
    <3>6. CASE m = j /\ t = u
      <4>1. r = q
        BY <1>15, <2>1, <3>6 DEF SinglesInv, OneVersionOf
      <4> QED
        BY <3>2, <4>1
    <3>7. CASE m = j /\ t # u
      <4>1. ~ KeysDisjoint(t, u) /\ ~ KeysDisjoint(u, t)
        BY <1>15, <2>1 DEF KeysDisjoint
      <4>2. t \notin Frozen /\ Supersedes(t, u)
        BY <1>1, <1>15, <2>2, <3>1, <3>7, <4>1 DEF RunInv
      <4>3. r.ts <= q.ts /\ InFrozen(r)
        BY <1>15, <2>1, <4>2 DEF Supersedes
      <4> QED
        BY <1>11, <1>15, <3>2, <3>3, <4>3
    <3> QED
      BY <1>1, <3>4, <3>5, <3>6, <3>7
  <2>3. CASE u \in victims
    <3>1. u \in ssts[level] /\ level < j
      BY <1>1, <1>2, <1>15, <2>3
    <3> QED
      BY <1>1, <1>13, <1>15, <2>1, <3>1
  <2>4. CASE u \in ssts[level + 1]
    BY <1>1, <1>13, <1>15, <2>1, <2>4
  <2> QED
    BY <2>1, <2>2, <2>3, <2>4
<1>16. ASSUME NEW q \in todo', NEW s \in toCompact', NEW p \in s.kvs, p.key = q.key, s \in ssts[level + 1]
       PROVE  q = p \/ InFrozen(q)
  <2>1. PICK u : q \in u.kvs /\ \/ u \in Frozen
                                \/ u \in toCompact' /\ u \in victims
                                \/ u \in toCompact' /\ u \in ssts[level + 1]
    BY <1>11, <1>16
  <2>2. CASE u \in Frozen
    BY <2>1, <2>2 DEF InFrozen
  <2>3. CASE u \in victims
    <3>1. u \in ssts[level] /\ level < level + 1
      BY <1>1, <1>2, <2>3
    <3>2. p.ts < q.ts \/ (p.ts = q.ts /\ InFrozen(q)) \/ InFrozenBelow(q, level + 1)
      BY <1>1, <1>13, <1>16, <2>1, <3>1
    <3>3. q.ts <= p.ts /\ p.ts \in Nat /\ q.ts \in Nat
      BY <1>1, <1>5, <1>7, <1>11, <1>16
    <3> QED
      BY <1>10, <3>2, <3>3
  <2>4. CASE u \in ssts[level + 1] /\ u = s
    BY <1>1, <1>16, <2>1, <2>4 DEF SinglesInv, OneVersionOf
  <2>5. CASE u \in ssts[level + 1] /\ u # s
    <3>1. ~ KeysDisjoint(s, u)
      BY <1>16, <2>1 DEF KeysDisjoint
    <3>2. s \notin Frozen /\ u \notin Frozen /\ level + 1 # 0
      BY <1>1, <1>3, <1>16, <2>5
    <3> QED
      BY <1>1, <1>16, <2>5, <3>1, <3>2 DEF RunInv
  <2> QED
    BY <2>1, <2>2, <2>3, <2>4, <2>5
<1>17. \A q \in todo' : InFrozen(q) \/ \E s \in toCompact' : q \in s.kvs
  BY <1>5 DEF InFrozen
<1>18. \A q \in todo' : /\ \A s \in toCompact' : \A p \in s.kvs : p.key = q.key => q.ts <= p.ts
                        /\ \A f \in Frozen : \A p \in f.kvs : p.key = q.key => q.ts <= p.ts
  BY <1>5
<1>19. ssts[level + 1] \ toCompact' = {}
  BY <1>2
<1> SUFFICES ASSUME NEW q \in todo'
             PROVE  (/\ \A i \in Level : \A s \in ssts[i] : \A p \in s.kvs :
                          i <= level /\ p.key = q.key =>
                            q.ts <= p.ts /\ (q.ts = p.ts => s \in toCompact' \/ InFrozen(q))
                     /\ \A j \in Level : \A t \in ssts[j] : \A r \in t.kvs :
                          j > level + 1 /\ r.key = q.key =>
                            r.ts < q.ts \/ (r.ts = q.ts /\ InFrozen(q)) \/ InFrozenBelow(q, j)
                     /\ \A s \in toCompact' : \A p \in s.kvs : p.key = q.key =>
                          q.ts <= p.ts /\ (s \in ssts[level + 1] => q = p \/ InFrozen(q))
                     /\ \A f \in Frozen : \A p \in f.kvs : p.key = q.key => q.ts <= p.ts
                     /\ \A t \in ssts[level + 1] \ toCompact' : \A r \in t.kvs : r.key # q.key
                     /\ InFrozen(q) \/ \E s \in toCompact' : q \in s.kvs)
  BY <1>1, <1>8, <1>9 DEF PendingInv
<1> QED
  BY <1>14, <1>15, <1>16, <1>17, <1>18, <1>19

\* A merge begins, or an assert fails: nothing has moved.
LEMMA RecStart ==
    ASSUME Invs, NEW victims \in Victims(level), StartMerge(victims)
    PROVE  RecInv'
<1> USE DEF Invs, RecInv, TypeInv, TypeOK
<1>1. /\ level \in Level /\ level + 1 \in Level /\ level \in Nat /\ Level \subseteq Nat
      /\ phase = "compact" /\ ~ Merging
      /\ todo' = Merged(Inputs(marked'))
      /\ marked' = marked \cup Ids(victims \cup ssts[level + 1])
      /\ UNCHANGED <<memTable, ssts, level, picker>>
      /\ victims \subseteq ssts[level]
  BY ShapeAssumption
  DEF StartMerge, TooLarge, Level, treeVars, Merging, Victims, OldestOfLevel0, FirstOf
<1>2. /\ clock' \in {clock, clock + 1}
      /\ \/ phase' = "merge" /\ Markable(victims) /\ StrictlyIncreasing(Inputs(marked'))
         \/ phase' = "aborted"
  BY DEF StartMerge, PickTick
<1>3. LiveSSTs' = LiveSSTs /\ \A l \in Level : ssts[l] \subseteq LiveSSTs
  BY <1>1 DEF LiveSSTs
<1>4. TimesInv' /\ Level0Ordered' /\ MemTableNewest'
  <2>1. \A l \in Level : \A s \in ssts[l] : s.persistTime \in Nat /\ s.persistTime < clock
    BY DEF TimesInv, SST
  <2> QED
    BY <1>1, <1>2, <1>3, <2>1 DEF TimesInv, Level0Ordered, MemTableNewest
<1>5. SinglesInv'
  <2>1. Inputs(marked') \in SUBSET SST
    BY DEF Inputs, LiveSSTs
  <2>2. OneVersionOf(todo')
    BY <1>1, <2>1, MergedOnce
  <2> QED
    BY <1>1, <2>2 DEF SinglesInv, OneVersionOf
<1>6. marked' \subseteq Ids(LiveSSTs') /\ Ids(victims) \subseteq Ids(LiveSSTs)
  BY <1>1, <1>3 DEF MarksInv, Ids
<1>7. ASSUME picker = "ONE", NEW s \in ssts[0], s.id \in marked', NEW t \in ssts[0]
      PROVE  s.persistTime <= t.persistTime
  <2>1. CASE s.id \in marked
    BY <1>7, <2>1 DEF MarksInv
  <2>2. CASE s.id \notin marked
    <3>1. PICK v \in victims \cup ssts[level + 1] : v.id = s.id
      BY <1>1, <1>7, <2>2 DEF Ids
    <3>2. 0 \in Level /\ level + 1 # 0
      BY <1>1, ShapeAssumption DEF Level
    <3>3. v = s /\ level = 0 /\ v \in victims
      BY <1>1, <1>7, <3>1, <3>2 DEF KeepInv, FileInv
    <3> QED
      BY <1>7, <3>3 DEF Victims, OldestOfLevel0, FirstOf
  <2> QED
    BY <2>1, <2>2
<1>8. CASE phase' = "aborted"
  <2>1. ~ Merging' /\ Frozen \subseteq Frozen'
    BY <1>1, <1>3, <1>8 DEF Frozen, Merging
  <2>2. MarksInv'
    BY <1>1, <1>6, <1>7, <1>8, <2>1 DEF MarksInv
  <2>3. FrozenStay
    BY <1>1, <2>1 DEF FrozenStay
  <2>4. LevelsOrdered'
    BY <1>1, <2>3, FrozenKept DEF LevelsOrdered, Ages
  <2>5. RunInv' /\ InputsInv' /\ PendingInv'
    BY <1>8, <2>1 DEF RunInv, InputsInv, PendingInv
  <2> QED
    BY <1>4, <1>5, <2>2, <2>4, <2>5
<1>9. CASE phase' = "merge" /\ Markable(victims) /\ StrictlyIncreasing(Inputs(marked'))
  <2>1. /\ Inputs(marked') = toCompact' \cup Frozen
        /\ toCompact' = victims \cup ssts[level + 1]
        /\ \A s \in LiveSSTs : s.id \in marked' <=> (s.id \in marked \/ s \in toCompact')
        /\ \A l \in Level : l <= level + 1 => \A s \in ssts[l] : s.id \notin marked
    BY <1>9, MergeInputs
  <2>2. toCompact' \subseteq ssts[level] \cup ssts[level + 1] /\ Merging'
    BY <1>1, <1>9, <2>1 DEF Merging
  <2>3. \A s \in toCompact' : s.id \notin marked /\ s \in LiveSSTs
    BY <1>1, <1>3, <2>1, <2>2
  <2>4. Frozen' = Frozen
    BY <1>1, <1>3, <2>1, <2>2, <2>3 DEF Frozen
  <2>5. \A p : InFrozen(p)' <=> InFrozen(p)
    BY <2>4, FrozenSame
  <2>6. MarksInv'
    <3>1. \A s \in NotYetRemoved' : s.id \in marked'
      BY <2>1, <2>3 DEF NotYetRemoved
    <3>2. \A l \in Level : l <= level + 1 => \A s \in ssts[l] : s.id \in marked' => s \in toCompact'
      BY <1>3, <2>1
    <3>3. \A s \in toCompact' : \A p \in s.kvs : ~ InFrozen(p)
      <4>1. \A s \in toCompact' : s \notin Frozen
        BY <2>3 DEF Frozen
      <4> QED
        BY <1>9, <2>1, <4>1 DEF StrictlyIncreasing, InFrozen
    <3> QED
      BY <1>1, <1>6, <1>7, <1>9, <2>5, <3>1, <3>2, <3>3 DEF MarksInv
  <2>7. RunInv'
    BY <1>1, <1>9, <2>4, <2>5 DEF RunInv, KeysDisjoint, Supersedes
  <2>8. InputsInv'
    <3>1. \A l \in Level \ {level, level + 1} : \A s \in ssts[l] : s \notin toCompact'
      BY <1>1, <2>2 DEF KeepInv, FileInv
    <3> QED
      BY <1>1, <2>1, <3>1 DEF InputsInv
  <2>9. LevelsOrdered'
    <3>1. \A p, j : InFrozenBelow(p, j)' <=> InFrozenBelow(p, j)
      BY <1>1, <2>4 DEF InFrozenBelow
    <3> QED
      BY <1>1, <2>5, <3>1 DEF LevelsOrdered, Ages
  <2>10. PendingInv'
    BY <1>9, <2>4, PendingStart
  <2> QED
    BY <1>4, <1>5, <2>6, <2>7, <2>8, <2>9, <2>10
<1> QED
  BY <1>2, <1>8, <1>9


-----------------------------------------------------------------------------
(* The steps of a merge *)

\* A table the merge has written joins the level below.
LEMMA RecFinish ==
    ASSUME Invs, FinishSST
    PROVE  RecInv'
<1> USE DEF Invs, RecInv, TypeInv, TypeOK
<1> DEFINE new == [id |-> building, kvs |-> Chunk, persistTime |-> clock]
<1>1. /\ phase = "merge" /\ phase' \in {"merge", "remove"} /\ Merging /\ Merging'
      /\ level \in Level /\ level + 1 \in Level /\ level \in Nat
      /\ UNCHANGED <<memTable, level, toCompact, marked, picker>>
      /\ clock' = clock + 1
      /\ todo' = todo \ Chunk
      /\ ssts' = [ssts EXCEPT ![level + 1] = @ \cup {new}]
  BY ShapeAssumption DEF FinishSST, LevelInv, Level, Merging
<1>2. Chunk \subseteq todo
  BY DEF Chunk, FirstEntries
<1> HIDE DEF new
<1>3. /\ ssts'[level + 1] = ssts[level + 1] \cup {new}
      /\ \A l \in Level \ {level + 1} : ssts'[l] = ssts[l]
  BY <1>1
<1>4. new.id = building /\ new.kvs = Chunk /\ new.persistTime = clock
  BY DEF new
<1>5. 0 \in Level /\ Level \subseteq Nat /\ ssts'[0] = ssts[0]
  BY <1>1, <1>3, ShapeAssumption DEF Level
<1>6. new \notin toCompact /\ memTable = {} /\ new.id \notin marked
  <2>1. \A l \in Level : \A s \in ssts[l] : s.id # building
    BY <1>1 DEF KeepInv, FileInv
  <2>2. toCompact \subseteq ssts[level] \cup ssts[level + 1]
    BY <1>1 DEF KeepInv, MergeInv
  <2>3. building \notin marked
    BY <2>1 DEF MarksInv, Ids, LiveSSTs
  <2> QED
    BY <1>1, <1>4, <2>1, <2>2, <2>3 DEF SinglesInv
<1>7. \A l \in Level : \A s \in ssts'[l] : s \in ssts[l] \/ (l = level + 1 /\ s = new)
  BY <1>3
<1>16. LiveSSTs' = LiveSSTs \cup {new}
  BY <1>1, <1>3 DEF LiveSSTs
<1>17. Frozen' = Frozen /\ new \notin Frozen
  BY <1>1, <1>6, <1>16 DEF Frozen
<1>18. \A p : InFrozen(p)' <=> InFrozen(p)
  BY <1>17, FrozenSame
<1>19. \A p, j : InFrozenBelow(p, j)' <=> InFrozenBelow(p, j)
  <2>1. \A m \in Level : \A f : (f \in ssts'[m] /\ f \in Frozen) <=> (f \in ssts[m] /\ f \in Frozen)
    BY <1>3, <1>17
  <2> QED
    BY <1>17, <2>1 DEF InFrozenBelow
<1>8. SinglesInv'
  <2>1. OneVersionOf(todo)
    BY <1>1 DEF SinglesInv
  <2>2. OneVersionOf(todo') /\ OneVersionOf(new.kvs)
    BY <1>1, <1>2, <1>4, <2>1 DEF OneVersionOf
  <2>3. OneVersionOf(memTable')
    BY <1>1, <1>6 DEF OneVersionOf
  <2>4. \A l \in Level : \A s \in ssts'[l] : OneVersionOf(s.kvs)
    BY <1>7, <2>2 DEF SinglesInv
  <2> QED
    BY <1>1, <1>6, <2>2, <2>3, <2>4 DEF SinglesInv
<1>9. TimesInv'
  <2>1. \A l \in Level : \A s \in ssts[l] : s.persistTime \in Nat /\ s.persistTime < clock
    BY DEF TimesInv, SST
  <2>2. \A l \in Level : \A s \in ssts'[l] : s.persistTime < clock'
    BY <1>1, <1>4, <1>7, <2>1
  <2> QED
    BY <1>5, <2>2 DEF TimesInv
<1>10. MarksInv'
  <2>1. NotYetRemoved' = NotYetRemoved
    <3>1. ssts'[level] = ssts[level]
      BY <1>1, <1>3
    <3> QED
      BY <1>1, <1>3, <1>6, <3>1 DEF NotYetRemoved
  <2>2. marked' \subseteq Ids(LiveSSTs')
    BY <1>1, <1>16 DEF MarksInv, Ids
  <2>3. \A l \in Level : l <= level + 1 => \A s \in ssts'[l] : s.id \in marked => s \in toCompact
    BY <1>1, <1>6, <1>7 DEF MarksInv
  <2>4. /\ \A s \in NotYetRemoved : s.id \in marked
        /\ \A s \in toCompact : \A p \in s.kvs : ~ InFrozen(p)
    BY <1>1 DEF MarksInv
  <2> QED
    BY <1>1, <1>5, <1>18, <2>1, <2>2, <2>3, <2>4 DEF MarksInv, Merging
<1>11. RunInv'
  <2>1. ASSUME NEW t \in ssts[level + 1]
        PROVE  (KeysDisjoint(new, t) /\ KeysDisjoint(t, new)) \/ t \in toCompact
    BY <1>1, <1>2, <1>4, <2>1 DEF PendingInv, KeysDisjoint
  <2> SUFFICES ASSUME NEW l \in Level \ {0}, NEW s \in ssts'[l], NEW t \in ssts'[l]
               PROVE  \/ s = t
                      \/ KeysDisjoint(s, t)
                      \/ l = level + 1 /\ (s \in toCompact \/ t \in toCompact)
                                       /\ ~ (s \in toCompact /\ t \in toCompact)
                      \/ s \in Frozen /\ t \notin Frozen /\ Supersedes(t, s)
                      \/ t \in Frozen /\ s \notin Frozen /\ Supersedes(s, t)
    <3>1. \A s, t : Supersedes(s, t)' <=> Supersedes(s, t)
      BY <1>18 DEF Supersedes
    <3>2. phase' # "aborted" /\ phase # "aborted"
      BY <1>1
    <3> QED
      BY <1>1, <1>17, <3>1, <3>2 DEF RunInv, KeysDisjoint
  <2>2. CASE s \in ssts[l] /\ t \in ssts[l]
    BY <1>1, <2>2 DEF RunInv
  <2>3. CASE s = new /\ l = level + 1 /\ t # new
    BY <1>6, <1>7, <2>1, <2>3
  <2>4. CASE t = new /\ l = level + 1 /\ s # new
    BY <1>6, <1>7, <2>1, <2>4
  <2> QED
    BY <1>7, <2>2, <2>3, <2>4
<1>12. InputsInv'
  <2>1. \A l \in Level \ {level, level + 1} : \A s \in ssts'[l] : s \notin toCompact
    BY <1>1, <1>3 DEF InputsInv
  <2>2. ASSUME NEW t \in ssts'[level + 1] \ toCompact, NEW q \in t.kvs,
               NEW s \in toCompact, NEW p \in s.kvs, p.key = q.key
        PROVE  q.ts <= p.ts /\ (s \in ssts'[level + 1] => q = p \/ InFrozen(q))
    <3>1. s \in ssts'[level + 1] => s \in ssts[level + 1]
      BY <1>3, <1>6
    <3>2. CASE t \in ssts[level + 1]
      BY <1>1, <2>2, <3>1, <3>2 DEF InputsInv
    <3>3. CASE t = new
      <4>1. q \in todo
        BY <1>2, <1>4, <2>2, <3>3
      <4> QED
        BY <1>1, <2>2, <3>1, <4>1 DEF PendingInv
    <3> QED
      BY <1>3, <2>2, <3>2, <3>3
  <2> QED
    BY <1>1, <1>18, <2>1, <2>2 DEF InputsInv
<1>13. PendingInv'
  <2> SUFFICES ASSUME NEW q \in todo'
               PROVE  (/\ \A i \in Level : \A s \in ssts'[i] : \A p \in s.kvs :
                            i <= level /\ p.key = q.key =>
                              q.ts <= p.ts /\ (q.ts = p.ts => s \in toCompact \/ InFrozen(q))
                       /\ \A j \in Level : \A t \in ssts'[j] : \A r \in t.kvs :
                            j > level + 1 /\ r.key = q.key =>
                              r.ts < q.ts \/ (r.ts = q.ts /\ InFrozen(q)) \/ InFrozenBelow(q, j)
                       /\ \A s \in toCompact : \A p \in s.kvs : p.key = q.key =>
                            q.ts <= p.ts /\ (s \in ssts'[level + 1] => q = p \/ InFrozen(q))
                       /\ \A f \in Frozen : \A p \in f.kvs : p.key = q.key => q.ts <= p.ts
                       /\ \A t \in ssts'[level + 1] \ toCompact : \A r \in t.kvs : r.key # q.key
                       /\ InFrozen(q) \/ \E s \in toCompact : q \in s.kvs)
    BY <1>1, <1>17, <1>18, <1>19 DEF PendingInv
  <2>1. q \in todo /\ q \notin Chunk
    BY <1>1
  <2>2. /\ \A s \in toCompact : \A p \in s.kvs : p.key = q.key =>
             q.ts <= p.ts /\ (s \in ssts[level + 1] => q = p \/ InFrozen(q))
        /\ InFrozen(q) \/ \E s \in toCompact : q \in s.kvs
        /\ \A f \in Frozen : \A p \in f.kvs : p.key = q.key => q.ts <= p.ts
    BY <1>1, <2>1 DEF PendingInv
  <2>6. \A s \in toCompact : s \in ssts'[level + 1] => s \in ssts[level + 1]
    BY <1>3, <1>6
  <2>3. \A r \in Chunk : r.key # q.key
    BY <1>1, <1>2, <2>1 DEF SinglesInv, OneVersionOf
  <2>4. \A t \in ssts'[level + 1] \ toCompact : \A r \in t.kvs : r.key # q.key
    BY <1>1, <1>3, <1>4, <2>1, <2>3 DEF PendingInv
  <2>5. \A i \in Level : i <= level \/ i > level + 1 => ssts'[i] = ssts[i]
    BY <1>1, <1>3, <1>5
  <2>7. \A i \in Level : \A s \in ssts'[i] : \A p \in s.kvs :
          i <= level /\ p.key = q.key => q.ts <= p.ts /\ (q.ts = p.ts => s \in toCompact \/ InFrozen(q))
    BY <1>1, <2>1, <2>5 DEF PendingInv
  <2>8. \A j \in Level : \A t \in ssts'[j] : \A r \in t.kvs :
          j > level + 1 /\ r.key = q.key =>
            r.ts < q.ts \/ (r.ts = q.ts /\ InFrozen(q)) \/ InFrozenBelow(q, j)
    BY <1>1, <2>1, <2>5 DEF PendingInv
  <2> QED
    BY <2>2, <2>4, <2>6, <2>7, <2>8
<1>14. MemTableNewest' /\ Level0Ordered'
  BY <1>1, <1>5, <1>6 DEF MemTableNewest, Level0Ordered
<1>15. LevelsOrdered'
  <2> SUFFICES ASSUME NEW i \in Level, NEW j \in Level, i < j,
                      NEW s \in ssts'[i], NEW t \in ssts'[j],
                      NEW p \in s.kvs, NEW q \in t.kvs, p.key = q.key
               PROVE  Ages(s, j, p, q)
    BY <1>1, <1>18, <1>19 DEF LevelsOrdered, Ages
  <2>1. CASE s \in ssts[i] /\ t \in ssts[j]
    BY <2>1 DEF LevelsOrdered
  <2>2. CASE j = level + 1 /\ t = new
    <3>1. i <= level /\ i # level + 1
      <4>1. i \in Nat /\ j \in Nat /\ level \in Nat /\ j = level + 1
        BY <1>1, <1>5, <2>2
      <4> QED
        BY ONLY <4>1, i < j
    <3>2. q \in todo /\ s \in ssts[i]
      BY <1>2, <1>3, <1>4, <2>2, <3>1
    <3>3. p \in KV /\ p.ts \in Nat /\ q \in KV /\ q.ts \in Nat
      BY <3>2, VersionTypes DEF KV
    <3>4. q.ts <= p.ts /\ (q.ts = p.ts => s \in toCompact \/ InFrozen(q))
      BY <1>1, <3>1, <3>2 DEF PendingInv
    <3>5. q.ts = p.ts => p = q
      BY <3>3, SameVersion
    <3> QED
      BY <1>1, <3>3, <3>4, <3>5 DEF Ages
  <2>3. CASE i = level + 1 /\ s = new
    <3>1. t \in ssts[j] /\ j > level + 1
      BY <1>1, <1>3, <1>5, <2>3
    <3>2. p \in todo
      BY <1>2, <1>4, <2>3
    <3>3. q.ts \in Nat /\ p.ts \in Nat
      BY <3>1, <3>2, VersionTypes DEF KV
    <3>4. q.ts < p.ts \/ (q.ts = p.ts /\ InFrozen(p)) \/ InFrozenBelow(p, j)
      BY <1>1, <3>1, <3>2 DEF PendingInv
    <3>5. InFrozenBelow(p, j) => InFrozen(p)
      BY DEF InFrozenBelow, InFrozen
    <3> QED
      BY <3>3, <3>4, <3>5 DEF Ages
  <2> QED
    BY <1>7, <2>1, <2>2, <2>3
<1> QED
  BY <1>8, <1>9, <1>10, <1>11, <1>12, <1>13, <1>14, <1>15

\* An input of the merge leaves its level.
LEMMA RecRemove ==
    ASSUME Invs, RemoveSST
    PROVE  RecInv'
<1> USE DEF Invs, RecInv, TypeInv, TypeOK
<1>1. PICK s \in FirstOf(NotYetRemoved) :
        /\ ssts' = [ssts EXCEPT ![level] = @ \ {s}, ![level + 1] = @ \ {s}]
        /\ marked' = marked \ {s.id}
  BY DEF RemoveSST
<1>2. /\ phase = "remove" /\ phase' = "remove" /\ Merging /\ Merging'
      /\ level \in Level /\ level + 1 \in Level
      /\ UNCHANGED <<memTable, level, todo, toCompact, clock, written, picker>>
  BY DEF RemoveSST, LevelInv, Merging
<1>3. s \in NotYetRemoved /\ s \in toCompact
  BY <1>1 DEF FirstOf, NotYetRemoved
<1>4. \A l \in Level : ssts'[l] = ssts[l] \ {s}
  BY <1>1, <1>2, <1>3, Removable
<1>5. 0 \in Level /\ memTable = {}
  BY <1>2, ShapeAssumption DEF Level, SinglesInv
<1>6. SinglesInv' /\ TimesInv' /\ Level0Ordered' /\ MemTableNewest'
  BY <1>2, <1>4, <1>5 DEF SinglesInv, OneVersionOf, TimesInv, Level0Ordered, MemTableNewest
<1>11. LiveSSTs' = LiveSSTs \ {s}
  BY <1>4 DEF LiveSSTs
<1>12. \A t \in LiveSSTs : t.id = s.id => t = s
  BY <1>2, <1>3 DEF KeepInv, FileInv, NotYetRemoved, LiveSSTs
<1>13. Frozen' = Frozen /\ s \notin Frozen
  BY <1>1, <1>2, <1>3, <1>11, <1>12 DEF Frozen
<1>14. \A p : InFrozen(p)' <=> InFrozen(p)
  BY <1>13, FrozenSame
<1>15. \A p, j : InFrozenBelow(p, j)' <=> InFrozenBelow(p, j)
  <2>1. \A m \in Level : \A f : (f \in ssts'[m] /\ f \in Frozen) <=> (f \in ssts[m] /\ f \in Frozen)
    BY <1>4, <1>13
  <2> QED
    BY <1>13, <2>1 DEF InFrozenBelow
<1>7. MarksInv'
  <2>1. NotYetRemoved' = NotYetRemoved \ {s}
    BY <1>2, <1>4 DEF NotYetRemoved
  <2>2. NotYetRemoved \subseteq LiveSSTs
    BY <1>2 DEF NotYetRemoved, LiveSSTs
  <2>3. \A t \in NotYetRemoved' : t.id \in marked'
    BY <1>1, <1>2, <1>12, <2>1, <2>2 DEF MarksInv
  <2>4. marked' \subseteq Ids(LiveSSTs')
    BY <1>1, <1>11 DEF MarksInv, Ids
  <2>5. /\ \A l \in Level : l <= level + 1 => \A t \in ssts'[l] : t.id \in marked' => t \in toCompact
        /\ \A t \in toCompact : \A p \in t.kvs : ~ InFrozen(p)
        /\ picker = "ONE" => \A u \in ssts'[0] : u.id \in marked' =>
                                \A t \in ssts'[0] : u.persistTime <= t.persistTime
    BY <1>1, <1>2, <1>4, <1>5 DEF MarksInv
  <2> QED
    BY <1>2, <1>14, <2>3, <2>4, <2>5 DEF MarksInv
<1>8. RunInv'
  <2>1. \A t, u : Supersedes(t, u)' <=> Supersedes(t, u)
    BY <1>14 DEF Supersedes
  <2> QED
    BY <1>2, <1>4, <1>13, <2>1 DEF RunInv, KeysDisjoint
<1>9. InputsInv' /\ PendingInv'
  BY <1>2, <1>4, <1>14 DEF InputsInv, PendingInv
<1>10. LevelsOrdered'
  BY <1>2, <1>4, <1>14, <1>15 DEF LevelsOrdered, Ages
<1> QED
  BY <1>6, <1>7, <1>8, <1>9, <1>10

\* With its inputs gone a merge leaves a level in which tables share no key.
LEMMA RecEnd ==
    ASSUME Invs, EndMerge
    PROVE  RecInv'
<1> USE DEF Invs, RecInv, TypeInv, TypeOK
<1>1. /\ phase = "remove" /\ phase' \in {"aborted", "failed", "compact"}
      /\ NotYetRemoved = {} /\ Merging /\ ~ Merging' /\ level' = level + 1
      /\ UNCHANGED <<memTable, ssts, marked, clock, picker>>
  BY DEF EndMerge, treeVars, Merging
<1>2. \A l \in Level : \A s \in ssts[l] : s \notin toCompact
  BY <1>1 DEF InputsInv, NotYetRemoved
<1>7. Frozen' = Frozen /\ LiveSSTs' = LiveSSTs
  BY <1>1, <1>2 DEF Frozen, LiveSSTs
<1>8. \A p : InFrozen(p)' <=> InFrozen(p)
  BY <1>7, FrozenSame
<1>3. SinglesInv' /\ TimesInv' /\ InputsInv' /\ PendingInv'
  BY <1>1 DEF SinglesInv, TimesInv, InputsInv, PendingInv, Merging, OneVersionOf
<1>4. MarksInv'
  BY <1>1, <1>2, <1>7 DEF MarksInv
<1>5. RunInv'
  <2>1. \A t, u : Supersedes(t, u)' <=> Supersedes(t, u)
    BY <1>8 DEF Supersedes
  <2> QED
    BY <1>1, <1>2, <1>7, <2>1 DEF RunInv, KeysDisjoint
<1>9. LevelsOrdered'
  <2>1. \A p, j : InFrozenBelow(p, j)' <=> InFrozenBelow(p, j)
    BY <1>1, <1>7 DEF InFrozenBelow
  <2> QED
    BY <1>1, <1>2, <1>8, <2>1 DEF LevelsOrdered, Ages
<1>6. MemTableNewest' /\ Level0Ordered'
  BY <1>1 DEF MemTableNewest, Level0Ordered, LiveSSTs
<1> QED
  BY <1>3, <1>4, <1>5, <1>6, <1>9

\* A step that changes nothing.
LEMMA RecStutter ==
    ASSUME RecInv, UNCHANGED vars
    PROVE  RecInv'
<1>1. UNCHANGED <<memTable, ssts, marked, picker, clock, phase, level, todo, toCompact>>
  BY DEF vars, treeVars, mergeVars
<1>2. Frozen' = Frozen /\ LiveSSTs' = LiveSSTs /\ (Merging' <=> Merging) /\ NotYetRemoved' = NotYetRemoved
  BY <1>1 DEF Frozen, LiveSSTs, Merging, NotYetRemoved
<1>3. /\ \A p : InFrozen(p)' <=> InFrozen(p)
      /\ \A p, j : InFrozenBelow(p, j)' <=> InFrozenBelow(p, j)
  BY <1>1, <1>2 DEF InFrozen, InFrozenBelow
<1>4. SinglesInv' /\ TimesInv' /\ MemTableNewest' /\ Level0Ordered'
  BY <1>1, <1>2 DEF RecInv, SinglesInv, OneVersionOf, TimesInv, MemTableNewest, Level0Ordered
<1>5. MarksInv' /\ InputsInv'
  BY <1>1, <1>2, <1>3 DEF RecInv, MarksInv, InputsInv
<1>6. RunInv'
  BY <1>1, <1>2, <1>3 DEF RecInv, RunInv, KeysDisjoint, Supersedes
<1>7. PendingInv'
  BY <1>1, <1>2, <1>3 DEF RecInv, PendingInv
<1>8. LevelsOrdered'
  BY <1>1, <1>2, <1>3 DEF RecInv, LevelsOrdered, Ages
<1> QED
  BY <1>4, <1>5, <1>6, <1>7, <1>8 DEF RecInv

\* No step of a flush or a compaction puts an older version above a newer one.
LEMMA RecStep ==
    ASSUME Invs, [Next]_vars
    PROVE  RecInv'
<1>1. ASSUME NEW k \in Keys, Put(k)
      PROVE  RecInv'
  BY <1>1, RecPut
<1>2. CASE FlushSST
  BY <1>2, RecFlush
<1>3. CASE StopCompaction
  BY <1>3, RecFrame DEF StopCompaction, treeVars, mergeVars, Merging
<1>4. ASSUME NEW victims \in Victims(level), MoveToEmptyLevel(victims)
      PROVE  RecInv'
  BY <1>4, RecMove
<1>5. ASSUME NEW victims \in Victims(level), StartMerge(victims)
      PROVE  RecInv'
  BY <1>5, RecStart
<1>6. CASE FinishSST
  BY <1>6, RecFinish
<1>7. CASE RemoveSST
  BY <1>7, RecRemove
<1>8. CASE EndMerge
  BY <1>8, RecEnd
<1>9. CASE PersistManifest
  BY <1>9, RecFrame DEF PersistManifest, Merging
<1>10. CASE UNCHANGED vars
  BY <1>10, RecStutter DEF Invs
<1>11. \/ \E k \in Keys : Put(k)
       \/ \E victims \in Victims(level) : MoveToEmptyLevel(victims) \/ StartMerge(victims)
       \/ FlushSST \/ StopCompaction \/ FinishSST \/ RemoveSST \/ EndMerge \/ PersistManifest
       \/ UNCHANGED vars
  BY DEF Next, PutStep, WorkloadDone
<1> QED
  BY <1>1, <1>2, <1>3, <1>4, <1>5, <1>6, <1>7, <1>8, <1>9, <1>10, <1>11

\* Types, what is kept and its order hold together in every reachable state.
THEOREM RecInvariant == Spec => []Invs
<1>1. Init => RecInv
  BY RecInit
<1>2. TypeInv /\ KeepInv /\ RecInv /\ [Next]_vars => RecInv'
  BY RecStep DEF Invs
<1>3. TypeInv /\ KeepInv /\ RecInv <=> Invs
  BY DEF Invs
<1> QED
  BY <1>1, <1>2, <1>3, TypeInvariant, KeepInvariant, PTL DEF Spec

-----------------------------------------------------------------------------
(* Without failures *)

\* Marks are on the inputs of the merge under way only, and the order is strict.
CleanInv ==
    /\ ~ Merging /\ phase # "aborted" => marked = {}
    /\ Merging => marked = Ids(NotYetRemoved)
    /\ RecencyOrder

\* So no table is frozen,
LEMMA NothingFrozen ==
    ASSUME Invs, CleanInv, phase # "aborted"
    PROVE  Frozen = {} /\ \A p : ~ InFrozen(p)
<1>1. CASE ~ Merging
  BY <1>1 DEF CleanInv, Frozen, InFrozen
<1>2. CASE Merging
  <2>1. level \in Level /\ level + 1 \in Level
    BY <1>2 DEF Invs, TypeInv, TypeOK, LevelInv, Merging
  <2>2. NotYetRemoved \subseteq LiveSSTs /\ NotYetRemoved \subseteq toCompact
    BY <2>1 DEF NotYetRemoved, LiveSSTs
  <2>3. \A s, t \in LiveSSTs : s.id = t.id => s = t
    BY DEF Invs, KeepInv, FileInv, LiveSSTs
  <2>4. \A s \in LiveSSTs : s.id \in marked => s \in toCompact
    BY <1>2, <2>2, <2>3 DEF CleanInv, Ids
  <2> QED
    BY <1>2, <2>4 DEF Frozen, InFrozen
<1> QED
  BY <1>1, <1>2

\* and the tables of a level share no key, but for the inputs of a merge with its outputs.
LEMMA RunsApart ==
    ASSUME Invs, CleanInv, phase # "aborted", NEW l \in Level \ {0},
           NEW s \in ssts[l], NEW t \in ssts[l]
    PROVE  \/ s = t
           \/ KeysDisjoint(s, t)
           \/ Merging /\ l = level + 1 /\ (s \in toCompact \/ t \in toCompact)
                                       /\ ~ (s \in toCompact /\ t \in toCompact)
<1>1. Frozen = {}
  BY NothingFrozen
<1> QED
  BY <1>1 DEF Invs, RecInv, RunInv

\* After a step that leaves nothing frozen, the order of the versions is strict.
LEMMA OrderedStrictly ==
    ASSUME Invs', Frozen' = {}
    PROVE  RecencyOrder'
<1>1. \A p : ~ InFrozen(p)' /\ \A j : ~ InFrozenBelow(p, j)'
  BY DEF InFrozen, InFrozenBelow
<1>2. ASSUME NEW i \in Level, NEW j \in Level, i < j, NEW s \in ssts'[i], NEW t \in ssts'[j],
             NEW p \in s.kvs, NEW q \in t.kvs, p.key = q.key
      PROVE  q.ts <= p.ts /\ (q.ts = p.ts => Merging' /\ s \in toCompact')
  <2>1. Ages(s, j, p, q)'
    BY <1>2 DEF Invs, RecInv, LevelsOrdered
  <2>2. p.ts \in Nat /\ q.ts \in Nat
    BY <1>2 DEF Invs, TypeInv, TypeOK, SST, KV
  <2> QED
    BY <1>1, <2>1, <2>2 DEF Ages
<1>3. MemTableNewest' /\ Level0Ordered'
  BY DEF Invs, RecInv
<1> QED
  BY <1>2, <1>3 DEF RecencyOrder, Merging

\* The marks of the tables a merge reads are set when it begins,
LEMMA CleanStart ==
    ASSUME Invs, CleanInv, NEW victims \in Victims(level), StartMerge(victims), phase' = "merge"
    PROVE  marked' = Ids(NotYetRemoved')
<1>1. Markable(victims) /\ UNCHANGED <<ssts, level>> /\ phase = "compact" /\ ~ Merging
  <2>1. Markable(victims)
    BY DEF StartMerge
  <2>2. UNCHANGED <<ssts, level>> /\ phase = "compact"
    BY DEF StartMerge, treeVars, TooLarge
  <2> QED
    BY <2>1, <2>2 DEF Merging
<1>2. victims \subseteq ssts[level] /\ toCompact' = victims \cup ssts[level + 1]
  BY <1>1, MergeInputs
<1>3. marked' = Ids(victims \cup ssts[level + 1])
  BY <1>1 DEF CleanInv, StartMerge
<1>4. NotYetRemoved' = toCompact'
  BY <1>1, <1>2 DEF NotYetRemoved
<1> QED
  BY <1>2, <1>3, <1>4

\* kept with its outputs
LEMMA CleanFinish ==
    ASSUME Invs, CleanInv, FinishSST
    PROVE  marked' = Ids(NotYetRemoved')
<1> USE DEF Invs, TypeInv, TypeOK
<1> DEFINE new == [id |-> building, kvs |-> Chunk, persistTime |-> clock]
<1>1. /\ phase = "merge" /\ Merging /\ level \in Level /\ level + 1 \in Level
      /\ UNCHANGED <<level, toCompact, marked>>
      /\ ssts' = [ssts EXCEPT ![level + 1] = @ \cup {new}]
  BY DEF FinishSST, LevelInv, Merging
<1>2. new.id = building
  BY DEF new
<1> HIDE DEF new
<1>3. new \notin toCompact
  <2>1. \A l \in Level : \A s \in ssts[l] : s.id # building
    BY <1>1 DEF KeepInv, FileInv
  <2>2. toCompact \subseteq ssts[level] \cup ssts[level + 1]
    BY <1>1 DEF KeepInv, MergeInv
  <2> QED
    BY <1>1, <1>2, <2>1, <2>2
<1>4. ssts'[level] = ssts[level] /\ ssts'[level + 1] = ssts[level + 1] \cup {new}
  <2>1. level # level + 1
    BY <1>1, ShapeAssumption DEF Level
  <2> QED
    BY <1>1, <2>1
<1>5. NotYetRemoved' = NotYetRemoved
  BY <1>1, <1>3, <1>4 DEF NotYetRemoved
<1> QED
  BY <1>1, <1>5 DEF CleanInv

\* and go with the tables.
LEMMA CleanRemove ==
    ASSUME Invs, CleanInv, RemoveSST
    PROVE  marked' = Ids(NotYetRemoved')
<1> USE DEF Invs, TypeInv, TypeOK
<1>1. PICK s \in FirstOf(NotYetRemoved) :
        /\ ssts' = [ssts EXCEPT ![level] = @ \ {s}, ![level + 1] = @ \ {s}]
        /\ marked' = marked \ {s.id}
  BY DEF RemoveSST
<1>2. /\ phase = "remove" /\ Merging /\ level \in Level /\ level + 1 \in Level
      /\ UNCHANGED <<memTable, written, level, toCompact>>
  BY DEF RemoveSST, LevelInv, Merging
<1>3. s \in NotYetRemoved
  BY <1>1 DEF FirstOf
<1>4. \A l \in Level : ssts'[l] = ssts[l] \ {s}
  BY <1>1, <1>2, <1>3, Removable
<1>5. NotYetRemoved' = NotYetRemoved \ {s}
  BY <1>2, <1>4 DEF NotYetRemoved
<1>6. \A t \in NotYetRemoved : t.id = s.id => t = s
  BY <1>2, <1>3 DEF KeepInv, FileInv, NotYetRemoved
<1>7. Ids(NotYetRemoved \ {s}) = Ids(NotYetRemoved) \ {s.id}
  BY <1>6, Zenon DEF Ids
<1> QED
  BY <1>1, <1>2, <1>5, <1>7 DEF CleanInv


\* No step of the tree leaves anything frozen behind, but for the abort of a compaction.
LEMMA CleanStep ==
    ASSUME Invs, CleanInv, Invs', [Next]_vars
    PROVE  CleanInv'
<1> USE DEF Merging
<1>1. ASSUME ~ Merging', phase' # "aborted", marked' = {}
      PROVE  CleanInv'
  <2>1. Frozen' = {}
    BY <1>1 DEF Frozen
  <2>2. RecencyOrder'
    BY <2>1, OrderedStrictly
  <2> QED
    BY <1>1, <2>2 DEF CleanInv
<1>2. ASSUME Merging', marked' = Ids(NotYetRemoved')
      PROVE  CleanInv'
  <2>1. level' \in Level /\ level' + 1 \in Level
    BY <1>2 DEF Invs, TypeInv, TypeOK, LevelInv
  <2>2. \A s \in LiveSSTs' : s.id \in marked' => s \in toCompact'
    <3>1. NotYetRemoved' \subseteq LiveSSTs' /\ NotYetRemoved' \subseteq toCompact'
      BY <2>1 DEF NotYetRemoved, LiveSSTs
    <3>2. \A s, t \in LiveSSTs' : s.id = t.id => s = t
      BY DEF Invs, KeepInv, FileInv, LiveSSTs
    <3> QED
      BY <1>2, <3>1, <3>2 DEF Ids
  <2>3. Frozen' = {}
    BY <1>2, <2>2 DEF Frozen
  <2>4. RecencyOrder'
    BY <2>3, OrderedStrictly
  <2> QED
    BY <1>2, <2>4 DEF CleanInv
<1>3. ASSUME phase' = "aborted", marked' = {}
      PROVE  CleanInv'
  <2>1. Frozen' = {}
    BY <1>3 DEF Frozen
  <2>2. RecencyOrder'
    BY <2>1, OrderedStrictly
  <2> QED
    BY <1>3, <2>2 DEF CleanInv
<1>4. ASSUME NEW k \in Keys, Put(k)
      PROVE  CleanInv'
  <2>1. phase = "idle" /\ phase' \in {"idle", "flush"} /\ marked' = marked
    BY <1>4 DEF Put
  <2> QED
    BY <1>1, <2>1 DEF CleanInv
<1>5. CASE FlushSST
  <2>1. phase = "flush" /\ phase' \in {"idle", "compact", "aborted"} /\ marked' = marked
    BY <1>5 DEF FlushSST, AfterFlush
  <2> QED
    BY <1>1, <1>3, <2>1 DEF CleanInv
<1>6. CASE StopCompaction
  BY <1>1, <1>6 DEF CleanInv, StopCompaction, mergeVars
<1>7. ASSUME NEW victims \in Victims(level), MoveToEmptyLevel(victims)
      PROVE  CleanInv'
  <2>1. phase = "compact" /\ phase' \in {"persist", "aborted"} /\ marked' \subseteq marked
    BY <1>7 DEF MoveToEmptyLevel, TooLarge, MarksAfterMove
  <2> QED
    BY <1>1, <1>3, <2>1 DEF CleanInv
<1>8. ASSUME NEW victims \in Victims(level), StartMerge(victims)
      PROVE  CleanInv'
  <2>1. phase = "compact" /\ phase' \in {"merge", "aborted"} /\ UNCHANGED <<memTable, ssts>>
    BY <1>8 DEF StartMerge, TooLarge, treeVars
  <2>2. CASE phase' = "merge"
    BY <1>2, <1>8, <2>2, CleanStart
  <2>3. CASE phase' = "aborted"
    <3>1. MemTableNewest' /\ Level0Ordered'
      BY DEF Invs, RecInv
    <3>2. RecencyOrder'
      BY <2>1, <2>3, <3>1 DEF CleanInv, RecencyOrder
    <3> QED
      BY <2>3, <3>2 DEF CleanInv
  <2> QED
    BY <2>1, <2>2, <2>3
<1>9. CASE FinishSST
  <2>1. Merging'
    BY <1>9 DEF FinishSST
  <2> QED
    BY <1>2, <1>9, <2>1, CleanFinish
<1>10. CASE RemoveSST
  <2>1. Merging'
    BY <1>10 DEF RemoveSST
  <2> QED
    BY <1>2, <1>10, <2>1, CleanRemove
<1>11. CASE EndMerge
  <2>1. /\ phase = "remove" /\ phase' \in {"aborted", "failed", "compact"}
        /\ NotYetRemoved = {} /\ marked' = marked
    BY <1>11 DEF EndMerge
  <2>2. marked' = {}
    BY <2>1 DEF CleanInv, Ids
  <2> QED
    BY <1>1, <1>3, <2>1, <2>2
<1>12. CASE PersistManifest
  BY <1>1, <1>12 DEF CleanInv, PersistManifest
<1>13. CASE UNCHANGED vars
  <2>1. UNCHANGED <<memTable, ssts, marked, phase, level, toCompact>>
    BY <1>13 DEF vars, treeVars, mergeVars
  <2>2. NotYetRemoved' = NotYetRemoved /\ LiveSSTs' = LiveSSTs
    BY <2>1 DEF NotYetRemoved, LiveSSTs
  <2>3. RecencyOrder'
    BY <2>1, <2>2 DEF CleanInv, RecencyOrder, MemTableNewest, Level0Ordered
  <2> QED
    BY <2>1, <2>2, <2>3 DEF CleanInv
<1>14. \/ \E k \in Keys : Put(k)
       \/ \E victims \in Victims(level) : MoveToEmptyLevel(victims) \/ StartMerge(victims)
       \/ FlushSST \/ StopCompaction \/ FinishSST \/ RemoveSST \/ EndMerge \/ PersistManifest
       \/ UNCHANGED vars
  BY DEF Next, PutStep, WorkloadDone
<1> QED
  BY <1>4, <1>5, <1>6, <1>7, <1>8, <1>9, <1>10, <1>11, <1>12, <1>13, <1>14

\* The empty store.
LEMMA CleanInit == Init => CleanInv
<1> SUFFICES ASSUME Init PROVE CleanInv
  OBVIOUS
<1>1. marked = {} /\ phase = "idle" /\ memTable = {} /\ \A l \in Level : ssts[l] = {}
  BY DEF Init, InitMemory
<1>2. 0 \in Level
  BY ShapeAssumption DEF Level
<1> QED
  BY <1>1, <1>2 DEF CleanInv, Merging, RecencyOrder, MemTableNewest, Level0Ordered

\* In a session without failures no table is frozen.
THEOREM CleanInvariant == Spec => []CleanInv
<1>1. Init => CleanInv
  BY CleanInit
<1>2. Invs /\ Invs' /\ CleanInv /\ [Next]_vars => CleanInv'
  BY CleanStep
<1> QED
  BY <1>1, <1>2, RecInvariant, PTL DEF Spec

\* Versions age with depth in every reachable state.
THEOREM RecencyHolds == Spec => []RecencyOrder
<1>1. CleanInv => RecencyOrder
  BY DEF CleanInv
<1> QED
  BY <1>1, CleanInvariant, PTL

-----------------------------------------------------------------------------
(* Where an answer comes from *)

\* The tables Get looks for a key in, once the memtable does not have it: those of
\* the first level with one that has the key.
HitsIn(S, l, k) == {s \in S[l] : k \in KeysOf(s.kvs)}
TopIn(S, l, k) == /\ l \in Level
                  /\ HitsIn(S, l, k) # {}
                  /\ \A j \in Level : j < l => HitsIn(S, j, k) = {}
ReadIn(S, l, k) == IF l = 0 THEN HitsIn(S, 0, k) ELSE FirstOf(HitsIn(S, l, k))

\* GetResults of a given memtable and given levels.
ReadOf(mem, S, k) ==
    IF k \in KeysOf(mem) THEN VersionsIn(mem, k)
    ELSE IF HitsIn(S, 0, k) # {} THEN VersionsIn(UNION {s.kvs : s \in HitsIn(S, 0, k)}, k)
    ELSE UNION {VersionsIn(UNION {s.kvs : s \in FirstOf(HitsIn(S, l, k))}, k) :
                  l \in {i \in Level : /\ i # 0
                                       /\ HitsIn(S, i, k) # {}
                                       /\ \A j \in 1 .. i - 1 : HitsIn(S, j, k) = {}}}

\* Now and after a step.
LEMMA ReadIsOf ==
    ASSUME NEW k
    PROVE  /\ GetResults(k) = ReadOf(memTable, ssts, k)
           /\ GetResults(k)' = ReadOf(memTable', ssts', k)
BY DEF GetResults, ReadOf, TableHits, HitsIn

\* An answer is a version in the memtable, or one in a table of the first level with
\* the key.
LEMMA AnswerFrom ==
    ASSUME NEW mem, NEW S, NEW k, NEW t \in ReadOf(mem, S, k)
    PROVE  \/ \E p \in mem : p.key = k /\ p.ts = t
           \/ /\ k \notin KeysOf(mem)
              /\ \E l \in Level : /\ TopIn(S, l, k)
                                  /\ \E s \in ReadIn(S, l, k) : \E p \in s.kvs : p.key = k /\ p.ts = t
<1>1. CASE k \in KeysOf(mem)
  BY <1>1 DEF ReadOf, VersionsIn
<1>2. CASE k \notin KeysOf(mem) /\ HitsIn(S, 0, k) # {}
  <2>1. TopIn(S, 0, k)
    BY <1>2, ShapeAssumption DEF TopIn, Level
  <2>2. \E s \in HitsIn(S, 0, k) : \E p \in s.kvs : p.key = k /\ p.ts = t
    BY <1>2 DEF ReadOf, VersionsIn
  <2> QED
    BY <1>2, <2>1, <2>2 DEF ReadIn, TopIn
<1>3. CASE k \notin KeysOf(mem) /\ HitsIn(S, 0, k) = {}
  <2> DEFINE found(i) == VersionsIn(UNION {s.kvs : s \in FirstOf(HitsIn(S, i, k))}, k)
             top == {i \in Level : /\ i # 0
                                   /\ HitsIn(S, i, k) # {}
                                   /\ \A j \in 1 .. i - 1 : HitsIn(S, j, k) = {}}
  <2>1. ReadOf(mem, S, k) = UNION {found(i) : i \in top}
    BY <1>3 DEF ReadOf
  <2> HIDE DEF found
  <2>2. PICK l \in top : t \in found(l)
    BY <2>1
  <2>3. TopIn(S, l, k) /\ l # 0
    <3>1. \A j \in Level : j < l => HitsIn(S, j, k) = {}
      <4>1. \A j \in Level : j < l => j = 0 \/ j \in 1 .. l - 1
        BY ShapeAssumption DEF Level
      <4> QED
        BY <1>3, <4>1
    <3> QED
      BY <3>1 DEF TopIn
  <2>4. \E s \in FirstOf(HitsIn(S, l, k)) : \E p \in s.kvs : p.key = k /\ p.ts = t
    BY <2>2 DEF found, VersionsIn
  <2> QED
    BY <1>3, <2>3, <2>4 DEF ReadIn, TopIn
<1> QED
  BY <1>1, <1>2, <1>3

\* Any version in one of those tables is an answer.
LEMMA TopAnswers ==
    ASSUME NEW mem, NEW S, NEW k, k \notin KeysOf(mem),
           NEW l, TopIn(S, l, k),
           NEW s \in ReadIn(S, l, k), NEW p \in s.kvs, p.key = k
    PROVE  p.ts \in ReadOf(mem, S, k)
<1>1. CASE l = 0
  BY <1>1 DEF ReadOf, VersionsIn, ReadIn, TopIn
<1>2. CASE l # 0
  <2> DEFINE found(i) == VersionsIn(UNION {t.kvs : t \in FirstOf(HitsIn(S, i, k))}, k)
             top == {i \in Level : /\ i # 0
                                   /\ HitsIn(S, i, k) # {}
                                   /\ \A j \in 1 .. i - 1 : HitsIn(S, j, k) = {}}
  <2>1. HitsIn(S, 0, k) = {} /\ l \in top
    <3>1. 0 \in Level /\ \A j \in 1 .. l - 1 : j \in Level /\ j < l
      BY <1>2, ShapeAssumption DEF Level, TopIn
    <3>2. 0 < l
      BY <1>2, ShapeAssumption DEF Level, TopIn
    <3> QED
      BY <1>2, <3>1, <3>2 DEF TopIn
  <2>2. ReadOf(mem, S, k) = UNION {found(i) : i \in top}
    BY <2>1 DEF ReadOf
  <2>3. p.ts \in found(l)
    BY <1>2 DEF ReadIn, VersionsIn
  <2> HIDE DEF found, top
  <2> QED
    BY <2>1, <2>2, <2>3
<1> QED
  BY <1>1, <1>2

\* Outside of merges no version held is newer than an answer, but for one that is an
\* answer itself, when level 0 has several tables.
LEMMA TopIsNewest ==
    ASSUME Invs, CleanInv, ~ Merging, phase # "aborted", NEW k \in Keys,
           NEW t \in GetResults(k), NEW u \in Versions(k)
    PROVE  u <= t \/ (u \in GetResults(k) /\ \E a, b \in ssts[0] : a # b)
<1> USE DEF Invs, RecInv, TypeInv, TypeOK
<1>1. GetResults(k) = ReadOf(memTable, ssts, k)
  BY ReadIsOf
<1>2. PICK q : /\ q.key = k /\ q.ts = u
               /\ q \in memTable \/ \E l \in Level : \E s \in ssts[l] : q \in s.kvs
  BY DEF Versions, LiveSSTs
<1>3. ASSUME NEW p \in memTable, p.key = k, p.ts = t
      PROVE  u <= t
  <2>1. p.ts \in Nat
    BY DEF KV
  <2>2. CASE q \in memTable
    BY <1>2, <1>3, <2>1, <2>2 DEF SinglesInv, OneVersionOf
  <2>3. ASSUME NEW l \in Level, NEW s \in ssts[l], q \in s.kvs
        PROVE  u <= t
    <3>1. s \in LiveSSTs /\ q.ts \in Nat
      BY <2>3 DEF LiveSSTs, SST, KV
    <3>2. q.ts < p.ts
      BY <1>2, <1>3, <2>3, <3>1 DEF MemTableNewest
    <3> QED
      BY <1>2, <1>3, <2>1, <3>1, <3>2
  <2> QED
    BY <1>2, <2>2, <2>3
<1>4. ASSUME k \notin KeysOf(memTable),
             NEW l \in Level, TopIn(ssts, l, k),
             NEW s \in ReadIn(ssts, l, k), NEW p \in s.kvs, p.key = k, p.ts = t
      PROVE  u <= t \/ (u \in GetResults(k) /\ \E a, b \in ssts[0] : a # b)
  <2>1. s \in ssts[l]
    BY DEF ReadIn, HitsIn, FirstOf
  <2>2. PICK m \in Level : \E r \in ssts[m] : q \in r.kvs
    BY <1>2, <1>4 DEF KeysOf
  <2>3. PICK r \in ssts[m] : q \in r.kvs
    BY <2>2
  <2>4. r \in HitsIn(ssts, m, k) /\ ~ (m < l)
    BY <1>2, <1>4, <2>3 DEF HitsIn, KeysOf, TopIn
  <2>5. q.ts \in Nat /\ p.ts \in Nat /\ m \in Nat /\ l \in Nat
    BY <2>1, <2>3, ShapeAssumption DEF SST, KV, Level
  <2>6. CASE l < m
    BY <1>2, <1>4, <2>1, <2>3, <2>6 DEF CleanInv, RecencyOrder
  <2>7. CASE l = m /\ s = r
    <3>1. p = q
      BY <1>2, <1>4, <2>1, <2>3, <2>7 DEF SinglesInv, OneVersionOf
    <3> QED
      BY <1>2, <1>4, <2>5, <3>1
  <2>8. CASE l = m /\ l # 0
    <3>1. s = r
      <4>1. ~ KeysDisjoint(s, r)
        BY <1>2, <1>4, <2>3 DEF KeysDisjoint
      <4> QED
        BY <2>1, <2>3, <2>8, <4>1, RunsApart
    <3> QED
      BY <2>7, <2>8, <3>1
  <2>9. CASE l = m /\ l = 0 /\ s # r
    <3>1. r \in ReadIn(ssts, l, k)
      BY <2>4, <2>9 DEF ReadIn
    <3>2. q.ts \in ReadOf(memTable, ssts, k)
      BY <1>2, <1>4, <2>3, <3>1, TopAnswers
    <3> QED
      BY <1>1, <1>2, <2>1, <2>3, <2>9, <3>2
  <2> QED
    BY <2>4, <2>5, <2>6, <2>7, <2>8, <2>9
<1> QED
  BY <1>1, <1>3, <1>4, AnswerFrom

\* While level 0 has one table at most, Get returns the newest version the store holds.
THEOREM NewestIsRead == Spec => []((\A s, t \in ssts[0] : s = t) => NewestHeldRead)
<1>1. Invs /\ CleanInv => ((\A s, t \in ssts[0] : s = t) => NewestHeldRead)
  BY TopIsNewest DEF NewestHeldRead, Merging
<1> QED
  BY <1>1, RecInvariant, CleanInvariant, PTL

-----------------------------------------------------------------------------
(* The tree implements KVStore *)

\* An answer is a version the store holds, now and after a step.
LEMMA AnswersHeld ==
    ASSUME NEW k \in Keys
    PROVE  GetResults(k) \subseteq Versions(k) /\ GetResults(k)' \subseteq Versions(k)'
<1>1. ASSUME NEW t \in GetResults(k)
      PROVE  t \in Versions(k)
  <2>1. t \in ReadOf(memTable, ssts, k)
    BY <1>1, ReadIsOf
  <2>2. \/ \E p \in memTable : p.key = k /\ p.ts = t
        \/ \E l \in Level : \E s \in ReadIn(ssts, l, k) : \E p \in s.kvs : p.key = k /\ p.ts = t
    BY <2>1, AnswerFrom
  <2> QED
    BY <2>2 DEF Versions, LiveSSTs, ReadIn, HitsIn, FirstOf
<1>2. ASSUME NEW t \in GetResults(k)'
      PROVE  t \in Versions(k)'
  <2>1. t \in ReadOf(memTable', ssts', k)
    BY <1>2, ReadIsOf
  <2>2. \/ \E p \in memTable' : p.key = k /\ p.ts = t
        \/ \E l \in Level : \E s \in ReadIn(ssts', l, k) : \E p \in s.kvs : p.key = k /\ p.ts = t
    BY <2>1, AnswerFrom
  <2> QED
    BY <2>2 DEF Versions, LiveSSTs, ReadIn, HitsIn, FirstOf
<1> QED
  BY <1>1, <1>2

\* Versions are numbers.
LEMMA VersionsTyped ==
    ASSUME TypeInv, NEW k \in Keys
    PROVE  Versions(k) \subseteq Nat
BY DEF TypeInv, TypeOK, Versions, LiveSSTs, SST, KV

NotNewer(k) == \A t \in GetResults(k)' : \E u \in GetResults(k) : t <= u

\* What makes a step of the store's own one that module KVStore allows.
LEMMA MaintainFrom ==
    ASSUME KeysKept, KeysKept', written' = written, \A k \in Keys : NotNewer(k)
    PROVE  Abstract!Maintain
<1>1. \A k \in Keys : GetResults(k)' \subseteq written[k]
  BY AnswersHeld DEF KeysKept
<1>2. \A k \in Keys : GetResults(k)' = {} <=> written[k] = {}
  BY <1>1 DEF KeysKept
<1> QED
  BY <1>1, <1>2 DEF NotNewer, Abstract!Maintain

\* A step that leaves memtable and tables alone leaves every answer as it is.
LEMMA SameAnswers ==
    ASSUME TypeInv, UNCHANGED <<memTable, ssts>>, NEW k \in Keys
    PROVE  GetResults(k)' = GetResults(k) /\ NotNewer(k)
<1>1. GetResults(k)' = GetResults(k)
  BY ReadIsOf
<1>2. GetResults(k) \subseteq Nat
  BY AnswersHeld, VersionsTyped
<1> QED
  BY <1>1, <1>2 DEF NotNewer

\* There is one first level with a key.
LEMMA OneTop ==
    ASSUME NEW S, NEW k, NEW l, NEW m, TopIn(S, l, k), TopIn(S, m, k)
    PROVE  l = m
<1>1. l \in Nat /\ m \in Nat
  BY ShapeAssumption DEF TopIn, Level
<1> QED
  BY <1>1 DEF TopIn

\* An answer stays one while the tables with the key do, down to its level.
LEMMA SameHits ==
    ASSUME NEW mem, NEW S, NEW R, NEW k, k \notin KeysOf(mem), NEW l, TopIn(S, l, k),
           \A j \in Level : j <= l => HitsIn(S, j, k) = HitsIn(R, j, k),
           NEW s \in ReadIn(S, l, k), NEW p \in s.kvs, p.key = k
    PROVE  p.ts \in ReadOf(mem, R, k)
<1>1. l \in Level /\ Level \subseteq Nat
  BY ShapeAssumption DEF TopIn, Level
<1>2. TopIn(R, l, k)
  BY <1>1 DEF TopIn
<1>3. s \in ReadIn(R, l, k)
  BY <1>1 DEF ReadIn
<1> QED
  BY <1>2, <1>3, TopAnswers

\* A flush puts into level 0 what the memtable was read for.
LEMMA FlushNoNewer ==
    ASSUME Invs, KeysKept, NEW k \in Keys, FlushSST
    PROVE  NotNewer(k)
<1> USE DEF Invs, RecInv, TypeInv, TypeOK
<1> DEFINE new == [id |-> building, kvs |-> memTable, persistTime |-> clock]
<1>1. /\ memTable' = {} /\ 0 \in Level
      /\ ssts' = [ssts EXCEPT ![0] = @ \cup {new}]
  BY ShapeAssumption DEF FlushSST, Level
<1>2. new.kvs = memTable
  BY DEF new
<1> HIDE DEF new
<1>3. ssts'[0] = ssts[0] \cup {new} /\ \A l \in Level \ {0} : ssts'[l] = ssts[l]
  BY <1>1
<1>4. CASE k \in KeysOf(memTable)
  <2>1. PICK m \in memTable : m.key = k
    BY <1>4 DEF KeysOf
  <2>2. m.ts \in GetResults(k)
    BY <1>4, <2>1 DEF GetResults, VersionsIn
  <2>3. ASSUME NEW p \in memTable, p.key = k
        PROVE  p.ts <= m.ts
    <3>1. p = m /\ m.ts \in Nat
      BY <2>1, <2>3 DEF SinglesInv, OneVersionOf, KV
    <3> QED
      BY <3>1
  <2>4. ASSUME NEW l \in Level, NEW s \in ssts[l], NEW p \in s.kvs, p.key = k
        PROVE  p.ts <= m.ts
    <3>1. p.ts < m.ts
      BY <2>1, <2>4 DEF MemTableNewest, LiveSSTs
    <3>2. p.ts \in Nat /\ m.ts \in Nat
      BY <2>4, VersionTypes DEF KV
    <3> QED
      BY <3>1, <3>2
  <2>5. ASSUME NEW t \in Versions(k)'
        PROVE  t <= m.ts
    <3>1. PICK p : p.key = k /\ p.ts = t /\ \E l \in Level : \E s \in ssts'[l] : p \in s.kvs
      BY <1>1, <2>5 DEF Versions, LiveSSTs
    <3>2. p \in memTable \/ \E l \in Level : \E s \in ssts[l] : p \in s.kvs
      BY <1>2, <1>3, <3>1
    <3> QED
      BY <2>3, <2>4, <3>1, <3>2
  <2> QED
    BY <2>2, <2>5, AnswersHeld DEF NotNewer
<1>5. CASE k \notin KeysOf(memTable)
  <2>1. k \notin KeysOf(new.kvs) /\ k \notin KeysOf(memTable')
    BY <1>1, <1>2, <1>5 DEF KeysOf
  <2>2. \A l \in Level : HitsIn(ssts', l, k) = HitsIn(ssts, l, k)
    BY <1>3, <2>1 DEF HitsIn
  <2> SUFFICES ASSUME NEW t \in GetResults(k)'
               PROVE  t \in GetResults(k) /\ t <= t
    BY DEF NotNewer
  <2>3. memTable' = {} /\ t \in ReadOf(memTable', ssts', k)
    BY <1>1, ReadIsOf
  <2>4. PICK l \in Level : /\ TopIn(ssts', l, k)
                           /\ \E s \in ReadIn(ssts', l, k) : \E p \in s.kvs : p.key = k /\ p.ts = t
    BY ONLY <2>3, AnswerFrom
  <2>5. t \in ReadOf(memTable, ssts, k)
    BY <1>5, <2>2, <2>4, SameHits
  <2>6. t \in Nat
    BY <2>5, ReadIsOf, AnswersHeld, VersionsTyped
  <2> QED
    BY <2>5, <2>6, ReadIsOf
<1> QED
  BY <1>4, <1>5

\* A move of tables leaves a key where a Get finds the same table.
LEMMA MoveNoNewer ==
    ASSUME Invs, KeysKept, NEW k \in Keys, NEW victims \in Victims(level), MoveToEmptyLevel(victims)
    PROVE  NotNewer(k)
<1> USE DEF Invs, RecInv, TypeInv, TypeOK
<1> DEFINE moved == Moved(victims)
<1>1. /\ level \in Level /\ level + 1 \in Level /\ level \in Nat /\ level # 0 /\ Level \subseteq Nat
      /\ phase = "compact" /\ memTable' = memTable /\ memTable = {} /\ ~ Merging
      /\ ssts[level + 1] = {}
      /\ ssts' = [ssts EXCEPT ![level] = @ \ moved, ![level + 1] = moved]
      /\ moved \subseteq ssts[level]
  BY ShapeAssumption DEF MoveToEmptyLevel, TooLarge, Moved, SinglesInv, Level, Merging
<1> HIDE DEF moved
<1>2. /\ ssts'[level] = ssts[level] \ moved
      /\ ssts'[level + 1] = moved
      /\ \A l \in Level \ {level, level + 1} : ssts'[l] = ssts[l]
  BY <1>1
<1>3. \A s, t \in ssts[level] : s = t \/ KeysDisjoint(s, t)
  <2>1. \A s \in ssts[level] : s \notin Frozen
    BY <1>1 DEF MarksInv, Frozen
  <2> QED
    BY <1>1, <2>1 DEF RunInv
<1> SUFFICES ASSUME NEW t \in GetResults(k)'
             PROVE  t \in ReadOf(memTable, ssts, k)
  <2>1. \A u \in GetResults(k) : u \in Nat
    BY AnswersHeld, VersionsTyped
  <2> QED
    BY <2>1, ReadIsOf DEF NotNewer
<1>4. k \notin KeysOf(memTable) /\ t \in ReadOf(memTable', ssts', k)
  BY <1>1, ReadIsOf DEF KeysOf
<1>12. memTable' = {}
  BY <1>1
<1>5. PICK l \in Level : /\ TopIn(ssts', l, k)
                         /\ \E s \in ReadIn(ssts', l, k) : \E p \in s.kvs : p.key = k /\ p.ts = t
  BY ONLY <1>4, <1>12, AnswerFrom
<1>6. PICK s \in ReadIn(ssts', l, k) : \E p \in s.kvs : p.key = k /\ p.ts = t
  BY <1>5
<1>7. s \in ssts'[l] /\ k \in KeysOf(s.kvs) /\ l \in Nat
  BY <1>1, <1>6 DEF ReadIn, HitsIn, FirstOf
<1>8. \A j \in Level : j < level => HitsIn(ssts', j, k) = HitsIn(ssts, j, k)
  <2>1. \A j \in Level : j < level => ssts'[j] = ssts[j]
    BY <1>1, <1>2
  <2> QED
    BY <2>1 DEF HitsIn
<1>9. CASE l < level
  <2>1. \A j \in Level : j <= l => j < level
    BY <1>1, <1>7, <1>9
  <2>2. \A j \in Level : j <= l => HitsIn(ssts', j, k) = HitsIn(ssts, j, k)
    BY <1>8, <2>1
  <2> QED
    BY ONLY <1>4, <1>5, <1>6, <2>2, SameHits
<1>10. CASE l = level \/ l = level + 1
  <2>1. s \in ssts[level]
    BY <1>1, <1>2, <1>7, <1>10
  <2>2. HitsIn(ssts, level, k) = {s}
    <3>1. \A u \in ssts[level] : k \in KeysOf(u.kvs) => ~ KeysDisjoint(u, s)
      BY <1>7 DEF KeysDisjoint, KeysOf
    <3> QED
      BY <1>3, <1>7, <2>1, <3>1 DEF HitsIn
  <2>3. TopIn(ssts, level, k)
    <3>1. \A j \in Level : j < level => HitsIn(ssts', j, k) = {}
      <4>1. \A j \in Level : j < level => j < l
        BY <1>1, <1>10
      <4> QED
        BY <1>5, <4>1 DEF TopIn
    <3> QED
      BY <1>1, <1>8, <2>2, <3>1 DEF TopIn
  <2>4. s \in ReadIn(ssts, level, k)
    BY <1>1, <2>2 DEF ReadIn, FirstOf
  <2> QED
    BY <1>4, <1>6, <2>3, <2>4, TopAnswers
<1>11. CASE level + 1 < l
  <2>1. HitsIn(ssts', level, k) = {} /\ HitsIn(ssts', level + 1, k) = {}
    <3>1. level < l /\ level \in Level /\ level + 1 \in Level
      BY <1>1, <1>7, <1>11
    <3> QED
      BY <1>5, <1>11, <3>1 DEF TopIn
  <2>2. HitsIn(ssts, level, k) = {} /\ HitsIn(ssts, level + 1, k) = {}
    BY <1>1, <1>2, <2>1 DEF HitsIn
  <2>3. \A j \in Level : HitsIn(ssts', j, k) = HitsIn(ssts, j, k)
    BY <1>2, <2>1, <2>2 DEF HitsIn
  <2> QED
    BY ONLY <1>4, <1>5, <1>6, <2>3, SameHits
<1> QED
  BY <1>1, <1>7, <1>9, <1>10, <1>11

\* A table a merge writes holds, of the keys it makes findable, the version read before.
LEMMA FinishNoNewer ==
    ASSUME Invs, KeysKept, NEW k \in Keys, FinishSST
    PROVE  NotNewer(k)
<1> USE DEF Invs, RecInv, TypeInv, TypeOK
<1> DEFINE new == [id |-> building, kvs |-> Chunk, persistTime |-> clock]
<1>1. /\ phase = "merge" /\ Merging /\ memTable' = memTable /\ memTable = {}
      /\ level \in Level /\ level + 1 \in Level /\ level \in Nat /\ level + 1 # 0
      /\ ssts' = [ssts EXCEPT ![level + 1] = @ \cup {new}]
  BY ShapeAssumption DEF FinishSST, LevelInv, Level, SinglesInv, Merging
<1>2. Chunk \subseteq todo
  BY DEF Chunk, FirstEntries
<1> HIDE DEF new
<1>3. new.kvs = Chunk
  BY DEF new
<1>4. /\ ssts'[level + 1] = ssts[level + 1] \cup {new}
      /\ \A l \in Level \ {level + 1} : ssts'[l] = ssts[l]
  BY <1>1
<1>5. \A u \in GetResults(k) : u \in Nat
  BY AnswersHeld, VersionsTyped
<1> SUFFICES ASSUME NEW t \in GetResults(k)'
             PROVE  \E u \in ReadOf(memTable, ssts, k) : t <= u
  BY ReadIsOf DEF NotNewer
<1>6. k \notin KeysOf(memTable) /\ memTable' = {} /\ t \in ReadOf(memTable', ssts', k)
  BY <1>1, ReadIsOf DEF KeysOf
<1>7. PICK l \in Level : /\ TopIn(ssts', l, k)
                         /\ \E s \in ReadIn(ssts', l, k) : \E p \in s.kvs : p.key = k /\ p.ts = t
  BY <1>6, AnswerFrom
<1>8. PICK s \in ReadIn(ssts', l, k) : \E p \in s.kvs : p.key = k /\ p.ts = t
  BY <1>7
<1>9. PICK p \in s.kvs : p.key = k /\ p.ts = t
  BY <1>8
<1>10. CASE l < level + 1 \/ k \notin KeysOf(Chunk)
  <2>1. ASSUME NEW j \in Level, j <= l
        PROVE  HitsIn(ssts', j, k) = HitsIn(ssts, j, k)
    <3>1. CASE j = level + 1
      <4>1. l \in Nat /\ ~ (l < level + 1)
        BY <1>1, <2>1, <3>1, ShapeAssumption DEF Level
      <4> QED
        BY <1>3, <1>4, <1>10, <3>1, <4>1 DEF HitsIn
    <3>2. CASE j # level + 1
      BY <1>4, <3>2 DEF HitsIn
    <3> QED
      BY <3>1, <3>2
  <2>2. t \in ReadOf(memTable, ssts, k)
    BY <1>6, <1>7, <1>8, <1>9, <2>1, SameHits
  <2> QED
    BY <1>5, <2>2, ReadIsOf
<1>11. CASE ~ (l < level + 1) /\ k \in KeysOf(Chunk)
  <2>1. PICK c \in Chunk : c.key = k
    BY <1>11 DEF KeysOf
  <2>2. l = level + 1
    <3>1. new \in HitsIn(ssts', level + 1, k)
      BY <1>3, <1>4, <2>1 DEF HitsIn, KeysOf
    <3>2. ~ (level + 1 < l)
      BY <1>1, <1>7, <3>1 DEF TopIn
    <3>3. l \in Nat
      BY ShapeAssumption DEF Level
    <3> QED
      BY <1>1, <1>11, <3>2, <3>3
  <2>3. c \in todo /\ c \in KV /\ c.ts \in Nat
    BY <1>2, <2>1 DEF KV
  <2>4. \A j \in Level : j < level + 1 => HitsIn(ssts, j, k) = {}
    <3> SUFFICES ASSUME NEW j \in Level, j < level + 1
                 PROVE  HitsIn(ssts, j, k) = {}
      OBVIOUS
    <3>1. j # level + 1 /\ HitsIn(ssts', j, k) = {}
      BY <1>1, <1>7, <2>2 DEF TopIn
    <3> QED
      BY <1>4, <3>1 DEF HitsIn
\* If the next level has the key, one of the inputs there is read before, and either
\* it or the table just written is read now.
  <2>5. ASSUME NEW x \in ssts[level + 1], k \in KeysOf(x.kvs)
        PROVE  \E u \in ReadOf(memTable, ssts, k) : t <= u
    <3>1. \A y \in ssts[level + 1] : k \in KeysOf(y.kvs) => y \in toCompact
      BY <1>1, <2>1, <2>3 DEF PendingInv, KeysOf
    <3>2. \A y \in ssts[level + 1] : k \in KeysOf(y.kvs) => y = x
      <4> SUFFICES ASSUME NEW y \in ssts[level + 1], k \in KeysOf(y.kvs)
                   PROVE  y = x
        OBVIOUS
      <4>1. x \in toCompact /\ y \in toCompact /\ x \notin Frozen /\ y \notin Frozen
        BY <1>1, <2>5, <3>1 DEF Frozen
      <4>2. ~ KeysDisjoint(x, y)
        BY <2>5 DEF KeysDisjoint, KeysOf
      <4> QED
        BY <1>1, <4>1, <4>2 DEF RunInv
    <3>3. HitsIn(ssts, level + 1, k) = {x}
      BY <2>5, <3>2 DEF HitsIn
    <3>4. TopIn(ssts, level + 1, k) /\ x \in ReadIn(ssts, level + 1, k)
      BY <1>1, <2>4, <3>3 DEF TopIn, ReadIn, FirstOf
    <3>5. PICK e \in x.kvs : e.key = k
      BY <2>5 DEF KeysOf
    <3>6. e.ts \in ReadOf(memTable, ssts, k)
      BY <1>6, <3>4, <3>5, TopAnswers
    <3>7. e.ts \in Nat /\ c.ts <= e.ts
      <4>1. x \in toCompact
        BY <2>5, <3>1
      <4> QED
        BY <1>1, <2>1, <2>3, <2>5, <3>5, <4>1, VersionTypes DEF PendingInv
    <3>8. s = x \/ s = new
      <4>1. s \in ssts'[level + 1] /\ k \in KeysOf(s.kvs)
        BY <1>8, <2>2 DEF ReadIn, HitsIn, FirstOf
      <4> QED
        BY <1>4, <3>2, <4>1
    <3>9. CASE s = x
      <4>1. p = e
        BY <1>1, <1>9, <3>5, <3>9 DEF SinglesInv, OneVersionOf
      <4> QED
        BY <1>9, <3>6, <3>7, <4>1
    <3>10. CASE s = new
      <4>1. p \in todo
        BY <1>2, <1>3, <1>9, <3>10
      <4>2. p = c
        BY <1>1, <1>9, <2>1, <2>3, <4>1 DEF SinglesInv, OneVersionOf
      <4> QED
        BY <1>9, <3>6, <3>7, <4>2
    <3> QED
      BY <3>8, <3>9, <3>10
\* Otherwise the version written was in a frozen table, and is not newer than what a
\* table above that, or beside it, was read for.
  <2>6. CASE \A x \in ssts[level + 1] : k \notin KeysOf(x.kvs)
    <3>1. p = c
      <4>1. s \in ssts'[level + 1] /\ k \in KeysOf(s.kvs)
        BY <1>8, <2>2 DEF ReadIn, HitsIn, FirstOf
      <4>2. p \in todo
        BY <1>2, <1>3, <1>4, <1>9, <2>6, <4>1
      <4> QED
        BY <1>1, <1>9, <2>1, <2>3, <4>2 DEF SinglesInv, OneVersionOf
    <3>2. InFrozen(c)
      <4>1. ASSUME NEW x \in toCompact, c \in x.kvs
            PROVE  FALSE
        <5>1. k \in KeysOf(x.kvs)
          BY <2>1, <4>1 DEF KeysOf
        <5>2. x \in ssts[level] \/ x \in ssts[level + 1]
          BY <1>1 DEF KeepInv, MergeInv
        <5>3. level < level + 1
          BY <1>1
        <5> QED
          BY <1>1, <2>4, <2>6, <5>1, <5>2, <5>3 DEF HitsIn
      <4> QED
        BY <1>1, <2>3, <4>1 DEF PendingInv
    <3>3. PICK m \in Level : \E f \in ssts[m] : f \in Frozen /\ c \in f.kvs
      BY <3>2 DEF InFrozen, Frozen, LiveSSTs
    <3>4. PICK f \in ssts[m] : f \in Frozen /\ c \in f.kvs
      BY <3>3
    <3>5. PICK u \in ReadOf(memTable, ssts, k) : TRUE
      <4>1. c.ts \in written[k]
        BY <2>1, <2>3 DEF KeepInv, WrittenInv
      <4> QED
        BY <4>1, ReadIsOf DEF KeysKept
    <3>6. PICK i \in Level : /\ TopIn(ssts, i, k)
                             /\ \E y \in ReadIn(ssts, i, k) : \E e \in y.kvs : e.key = k /\ e.ts = u
      BY <1>1, <3>5, AnswerFrom DEF KeysOf
    <3>7. PICK y \in ReadIn(ssts, i, k) : \E e \in y.kvs : e.key = k /\ e.ts = u
      BY <3>6
    <3>8. PICK e \in y.kvs : e.key = k /\ e.ts = u
      BY <3>7
    <3>9. y \in ssts[i] /\ ~ (m < i) /\ m \in Nat /\ i \in Nat
      <4>1. f \in HitsIn(ssts, m, k)
        BY <2>1, <3>4 DEF HitsIn, KeysOf
      <4>2. y \in ssts[i]
        BY <3>7 DEF ReadIn, HitsIn, FirstOf
      <4> QED
        BY <3>6, <4>1, <4>2, ShapeAssumption DEF TopIn, Level
    <3>10. e.ts \in Nat
      BY <3>8, <3>9, VersionTypes
    <3>11. InFrozen(e) => c.ts <= e.ts
      BY <1>1, <2>1, <2>3, <3>8 DEF PendingInv, InFrozen
    <3>12. CASE i < m
      <4>1. Ages(y, m, e, c)
        BY <2>1, <3>4, <3>8, <3>9, <3>12 DEF LevelsOrdered
      <4>2. InFrozenBelow(e, m) => InFrozen(e)
        BY DEF InFrozenBelow, InFrozen
      <4>3. c.ts <= e.ts
        BY <2>3, <3>10, <3>11, <4>1, <4>2 DEF Ages
      <4> QED
        BY <1>9, <3>1, <3>5, <3>8, <4>3
    <3>13. CASE i = m /\ y = f
      <4>1. e = c
        BY <2>1, <3>4, <3>8, <3>9, <3>13 DEF SinglesInv, OneVersionOf
      <4> QED
        BY <1>9, <2>3, <3>1, <3>5, <3>8, <4>1
    <3>14. CASE i = m /\ y # f
      <4>1. ~ KeysDisjoint(y, f) /\ ~ KeysDisjoint(f, y)
        BY <2>1, <3>4, <3>8 DEF KeysDisjoint
      <4>2. m # 0 /\ m # level + 1
        <5>1. ~ (m <= level + 1)
          BY <1>1, <3>4 DEF MarksInv, Frozen
        <5> QED
          BY <1>1, <3>9, <5>1
      <4>3. Supersedes(y, f)
        BY <1>1, <3>4, <3>9, <3>14, <4>1, <4>2 DEF RunInv
      <4>4. InFrozen(e)
        BY <2>1, <3>4, <3>8, <4>3 DEF Supersedes
      <4> QED
        BY <1>9, <3>1, <3>5, <3>8, <3>11, <4>4
    <3> QED
      BY <3>9, <3>12, <3>13, <3>14
  <2> QED
    BY <2>5, <2>6
<1> QED
  BY <1>10, <1>11

\* Once an input is gone, what is read instead of its versions is as old.
LEMMA RemoveNoNewer ==
    ASSUME Invs, KeysKept, NEW k \in Keys, phase = "remove", NEW gone \in NotYetRemoved,
           ssts' = [ssts EXCEPT ![level] = @ \ {gone}, ![level + 1] = @ \ {gone}],
           UNCHANGED <<memTable, written>>
    PROVE  NotNewer(k)
<1>4. \A l \in Level : ssts'[l] = ssts[l] \ {gone}
  BY Removable DEF Invs
<1> USE DEF Invs, RecInv, TypeInv, TypeOK
<1>2. /\ Merging /\ memTable = {}
      /\ level \in Level /\ level + 1 \in Level /\ Level \subseteq Nat
  BY ShapeAssumption DEF LevelInv, SinglesInv, Level, Merging
<1>3. gone \in toCompact
  BY DEF NotYetRemoved
<1>15. \A l \in Level : l <= level + 1 => \A s \in ssts[l] : s \notin Frozen
  BY <1>2 DEF MarksInv, Frozen
<1>5. PICK a \in {level, level + 1} : gone \in ssts[a]
  BY <1>3 DEF NotYetRemoved
<1>6. \A l \in Level : l # a => ssts'[l] = ssts[l]
  <2>1. \A l \in Level : l # a => gone \notin ssts[l]
    BY <1>2, <1>5 DEF KeepInv, FileInv
  <2>2. \A l \in Level : l # a => ssts[l] \ {gone} = ssts[l]
    BY <2>1
  <2> QED
    BY <1>4, <2>2
<1>7. \A u \in ReadOf(memTable, ssts, k) : u \in Nat
  BY AnswersHeld, VersionsTyped, ReadIsOf
<1> SUFFICES ASSUME NEW t \in GetResults(k)'
             PROVE  \E u \in ReadOf(memTable, ssts, k) : t <= u
  BY ReadIsOf DEF NotNewer
<1>8. k \notin KeysOf(memTable) /\ t \in ReadOf(memTable', ssts', k)
  BY <1>2, ReadIsOf DEF KeysOf
<1>16. memTable' = {}
  BY <1>2
<1>9. PICK l \in Level : /\ TopIn(ssts', l, k)
                         /\ \E s \in ReadIn(ssts', l, k) : \E p \in s.kvs : p.key = k /\ p.ts = t
  BY ONLY <1>8, <1>16, AnswerFrom
<1>10. PICK s \in ReadIn(ssts', l, k) : \E p \in s.kvs : p.key = k /\ p.ts = t
  BY <1>9
<1>11. PICK p \in s.kvs : p.key = k /\ p.ts = t
  BY <1>10
<1>12. s \in ssts'[l] /\ s \in ssts[l] /\ s # gone /\ k \in KeysOf(s.kvs)
  BY <1>4, <1>10 DEF ReadIn, HitsIn, FirstOf
<1>13. CASE l < a \/ k \notin KeysOf(gone.kvs)
  <2>1. ASSUME NEW j \in Level, j <= l
        PROVE  HitsIn(ssts', j, k) = HitsIn(ssts, j, k)
    <3>1. CASE j = a
      <4>1. k \notin KeysOf(gone.kvs)
        BY <1>2, <1>5, <1>13, <2>1, <3>1
      <4> QED
        BY <1>4, <4>1 DEF HitsIn
    <3>2. CASE j # a
      BY <1>6, <3>2 DEF HitsIn
    <3> QED
      BY <3>1, <3>2
  <2>2. t \in ReadOf(memTable, ssts, k)
    BY <1>8, <1>9, <1>10, <1>11, <2>1, SameHits
  <2> QED
    BY <1>7, <2>2
<1>14. CASE ~ (l < a) /\ k \in KeysOf(gone.kvs)
  <2>1. PICK d \in gone.kvs : d.key = k
    BY <1>14 DEF KeysOf
  <2>2. a \in Level /\ gone \in HitsIn(ssts, a, k)
    BY <1>2, <1>5, <1>14 DEF HitsIn
  <2>3. TopIn(ssts, a, k)
    <3>1. ASSUME NEW j \in Level, j < a
          PROVE  HitsIn(ssts, j, k) = {}
      <4>1. j < l /\ j # a
        BY <1>2, <1>14, <2>2, <3>1
      <4> QED
        BY <1>6, <1>9, <4>1 DEF TopIn, HitsIn
    <3> QED
      BY <2>2, <3>1 DEF TopIn
  <2>4. CASE a < l
    <3>1. HitsIn(ssts', a, k) = {}
      BY <1>9, <2>2, <2>4 DEF TopIn
    <3>2. HitsIn(ssts, a, k) = {gone}
      BY <1>4, <2>2, <3>1 DEF HitsIn
    <3>3. d.ts \in ReadOf(memTable, ssts, k)
      <4>1. gone \in ReadIn(ssts, a, k)
        BY <3>2 DEF ReadIn, FirstOf
      <4> QED
        BY <1>8, <2>1, <2>3, <4>1, TopAnswers
    <3>4. p.ts <= d.ts
      <4>1. Ages(gone, l, d, p)
        BY <1>5, <1>11, <1>12, <2>1, <2>2, <2>4 DEF LevelsOrdered
      <4>2. ~ InFrozenBelow(d, l)
        <5>1. ~ InFrozen(d)
          BY <1>2, <1>3, <2>1 DEF MarksInv
        <5> QED
          BY <5>1 DEF InFrozenBelow, InFrozen
      <4>3. p.ts \in Nat /\ d.ts \in Nat
        BY <1>5, <1>11, <1>12, <2>1, <2>2, VersionTypes
      <4> QED
        BY <4>1, <4>2, <4>3 DEF Ages
    <3> QED
      BY <1>11, <3>3, <3>4
  <2>5. CASE a = l /\ l = 0
    <3>1. s \in ReadIn(ssts, a, k)
      BY <1>12, <2>5 DEF ReadIn, HitsIn
    <3>2. t \in ReadOf(memTable, ssts, k)
      BY <1>8, <1>11, <2>3, <3>1, TopAnswers
    <3> QED
      BY <1>7, <3>2
  <2>6. CASE a = l /\ l # 0
    <3>1. ASSUME NEW y \in ssts[l], y # gone, k \in KeysOf(y.kvs)
          PROVE  l = level + 1 /\ y \notin toCompact
      <4>1. ~ KeysDisjoint(gone, y)
        BY <1>14, <3>1 DEF KeysDisjoint, KeysOf
      <4> QED
        BY <1>2, <1>3, <1>5, <1>15, <2>6, <3>1, <4>1 DEF RunInv, Merging
    <3>2. l = level + 1 /\ s \notin toCompact
      BY <1>12, <3>1
    <3>3. PICK u \in ReadOf(memTable, ssts, k) : TRUE
      <4>1. t \in written[k]
        BY <1>11, <1>12 DEF KeepInv, WrittenInv
      <4> QED
        BY <4>1, ReadIsOf DEF KeysKept
    <3>4. \E y \in ReadIn(ssts, l, k) : \E e \in y.kvs : e.key = k /\ e.ts = u
      <4>1. PICK m \in Level : /\ TopIn(ssts, m, k)
                               /\ \E y \in ReadIn(ssts, m, k) : \E e \in y.kvs : e.key = k /\ e.ts = u
        BY <1>2, <3>3, AnswerFrom
      <4>2. m = l
        BY <2>3, <2>6, <4>1, OneTop
      <4> QED
        BY <4>1, <4>2
    <3>5. PICK y \in ReadIn(ssts, l, k) : \E e \in y.kvs : e.key = k /\ e.ts = u
      BY <3>4
    <3>6. PICK e \in y.kvs : e.key = k /\ e.ts = u
      BY <3>5
    <3>7. y \in ssts[l] /\ k \in KeysOf(y.kvs)
      BY <3>5 DEF ReadIn, HitsIn, FirstOf
    <3>8. CASE y = gone
      <4>1. p.ts <= e.ts
        BY <1>2, <1>3, <1>11, <1>12, <3>2, <3>6, <3>8 DEF InputsInv, Merging
      <4> QED
        BY <1>11, <3>3, <3>6, <4>1
    <3>9. CASE y # gone
      <4>1. y \notin toCompact
        BY <3>1, <3>7, <3>9
      <4>2. y = s
        <5>1. ~ KeysDisjoint(s, y)
          BY <1>12, <3>7 DEF KeysDisjoint, KeysOf
        <5> QED
          BY <1>2, <1>12, <1>15, <2>6, <3>2, <3>7, <4>1, <5>1 DEF RunInv, Merging
      <4>3. e = p
        BY <1>11, <1>12, <3>6, <4>2 DEF SinglesInv, OneVersionOf
      <4> QED
        BY <1>7, <1>11, <3>3, <3>6, <4>3
    <3> QED
      BY <3>8, <3>9
  <2> QED
    BY <1>2, <1>14, <2>2, <2>4, <2>5, <2>6
<1> QED
  BY <1>13, <1>14

\* Of the memtable a Get depends on the versions of its key.
LEMMA ReadDepends ==
    ASSUME NEW mem, NEW new, NEW S, NEW k,
           k \in KeysOf(new) <=> k \in KeysOf(mem),
           VersionsIn(new, k) = VersionsIn(mem, k)
    PROVE  ReadOf(new, S, k) = ReadOf(mem, S, k)
BY DEF ReadOf

\* A version that was added is found under its key.
LEMMA AddedKey ==
    ASSUME NEW S, NEW e
    PROVE  e.key \in KeysOf(S \cup {e})
BY DEF KeysOf

\* A Put of a key the memtable holds is overlooked, any other is answered.
LEMMA PutAllowed ==
    ASSUME Invs, KeysKept, NEW k \in Keys, Put(k)
    PROVE  Abstract!Put(k)
<1> USE DEF Invs, TypeInv, TypeOK
<1> DEFINE new == [key |-> k, ts |-> clock]
<1>1. /\ clock < MaxClock /\ UNCHANGED ssts
      /\ written' = [written EXCEPT ![k] = @ \cup {clock}]
      /\ memTable' = IF k \in KeysOf(memTable) THEN memTable ELSE memTable \cup {new}
  BY DEF Put, Inserted
<1>2. clock \in 0 .. MaxClock /\ \A j \in Keys : \A t \in written[j] : t < clock
  BY <1>1, BoundAssumption DEF KeepInv, WrittenInv
<1>3. CASE k \in KeysOf(memTable)
  <2>1. \A j \in Keys : GetResults(j)' = GetResults(j)
    BY <1>1, <1>3, SameAnswers
  <2>2. GetResults(k) # {}
    BY <1>3 DEF GetResults, VersionsIn, KeysOf
  <2> QED
    BY <1>1, <1>2, <2>1, <2>2 DEF Abstract!Put
<1>4. CASE k \notin KeysOf(memTable)
  <2>1. memTable' = memTable \cup {new}
    BY <1>1, <1>4
  <2>2. GetResults(k)' = {clock}
    <3>1. k \in KeysOf(memTable')
      <4>1. new.key \in KeysOf(memTable \cup {new}) /\ new.key = k
        BY AddedKey
      <4> HIDE DEF new
      <4> QED
        BY <2>1, <4>1
    <3>2. \A p \in memTable' : p.key = k <=> p = new
      BY <1>4, <2>1 DEF KeysOf
    <3>3. VersionsIn(memTable', k) = {clock}
      <4>1. {p \in memTable' : p.key = k} = {new}
        BY <2>1, <3>2
      <4>2. VersionsIn(memTable', k) = {p.ts : p \in {new}}
        BY <4>1, Zenon DEF VersionsIn
      <4> QED
        BY <4>2
    <3> QED
      BY <3>1, <3>3, ReadIsOf DEF ReadOf
  <2>3. ASSUME NEW j \in Keys, j # k
        PROVE  GetResults(j)' = GetResults(j)
    <3>1. j \in KeysOf(memTable') <=> j \in KeysOf(memTable)
      BY <2>1, <2>3 DEF KeysOf
    <3>2. VersionsIn(memTable', j) = VersionsIn(memTable, j)
      BY <2>1, <2>3 DEF VersionsIn
    <3>3. ReadOf(memTable', ssts, j) = ReadOf(memTable, ssts, j)
      BY <3>1, <3>2, ReadDepends
    <3>4. ssts' = ssts
      BY <1>1
    <3> QED
      BY ONLY <3>3, <3>4, ReadIsOf
  <2>4. [j \in Keys |-> GetResults(j)]' = [[j \in Keys |-> GetResults(j)] EXCEPT ![k] = {clock}]
    BY <2>2, <2>3
  <2> QED
    BY <1>1, <1>2, <2>4 DEF Abstract!Put
<1> QED
  BY <1>3, <1>4

\* Every step of the tree is one of the store's, or none.
LEMMA RefinementStep ==
    ASSUME Invs, KeysKept, KeysKept', [Next]_vars
    PROVE  [Abstract!Next]_<<written, [k \in Keys |-> GetResults(k)]>>
<1>1. ASSUME NEW k \in Keys, Put(k)
      PROVE  Abstract!Next
  BY <1>1, PutAllowed DEF Abstract!Next
<1>2. CASE UNCHANGED <<memTable, ssts, written>>
  BY <1>2, SameAnswers, MaintainFrom DEF Invs, Abstract!Next
<1>3. CASE FlushSST \/ \E victims \in Victims(level) : MoveToEmptyLevel(victims)
  <2>1. written' = written
    BY <1>3 DEF FlushSST, MoveToEmptyLevel
  <2>2. \A k \in Keys : NotNewer(k)
    BY <1>3, FlushNoNewer, MoveNoNewer
  <2> QED
    BY <2>1, <2>2, MaintainFrom DEF Abstract!Next
<1>4. CASE FinishSST
  <2>1. written' = written
    BY <1>4 DEF FinishSST
  <2> QED
    BY <1>4, <2>1, FinishNoNewer, MaintainFrom DEF Abstract!Next
<1>5. CASE RemoveSST
  <2>1. /\ written' = written /\ memTable' = memTable /\ phase = "remove"
        /\ \E s \in NotYetRemoved :
             ssts' = [ssts EXCEPT ![level] = @ \ {s}, ![level + 1] = @ \ {s}]
    BY <1>5 DEF RemoveSST, FirstOf
  <2>2. \A k \in Keys : NotNewer(k)
    BY <2>1, RemoveNoNewer
  <2> QED
    BY <2>1, <2>2, MaintainFrom DEF Abstract!Next
<1>6. StopCompaction \/ EndMerge \/ PersistManifest \/ UNCHANGED vars
      \/ (\E victims \in Victims(level) : StartMerge(victims))
      => UNCHANGED <<memTable, ssts, written>>
  BY DEF StopCompaction, EndMerge, PersistManifest, StartMerge, vars, treeVars
<1> QED
  BY <1>1, <1>2, <1>3, <1>4, <1>5, <1>6 DEF Next, PutStep, WorkloadDone

\* The empty store answers nothing.
LEMMA AbstractInit == Init => Abstract!Init
<1> SUFFICES ASSUME Init PROVE Abstract!Init
  OBVIOUS
<1>1. memTable = {} /\ \A l \in Level : ssts[l] = {}
  BY DEF Init, InitMemory
<1>2. ASSUME NEW k \in Keys
      PROVE  GetResults(k) = {}
  BY <1>1, AnswersHeld DEF Versions, LiveSSTs
<1> QED
  BY <1>2 DEF Init, InitMemory, Abstract!Init

\* The tree implements what KVStore promises: every answer is a version a Put wrote, a
\* key is found exactly when it was put, and no flush and no compaction makes a Get
\* answer with a version newer than those it may have answered with before.
THEOREM TreeImplementsKVStore == Spec => ImplementsKVStore
<1>1. Init => Abstract!Init
  BY AbstractInit
<1>2. Invs /\ KeysKept /\ KeysKept' /\ [Next]_vars
      => [Abstract!Next]_<<written, [k \in Keys |-> GetResults(k)]>>
  BY RefinementStep
<1> QED
  BY <1>1, <1>2, RecInvariant, KeysAreKept, PTL DEF Spec, ImplementsKVStore, Abstract!Spec

-----------------------------------------------------------------------------
(* Sorted runs, full tables and levels within their sizes, from here on.   *)

-----------------------------------------------------------------------------
(* What fits in a table. The induction over the number of entries is an    *)
(* argument about a least element.                                         *)

\* A finite set of versions has few enough keys to count.
LEMMA FiniteKeys ==
    ASSUME NEW kvs, IsFiniteSet(kvs)
    PROVE  IsFiniteSet(KeysOf(kvs))
<1> DEFINE key == [p \in kvs |-> p.key]
<1>1. key \in Surjection(kvs, KeysOf(kvs))
  BY DEF Surjection, KeysOf
<1> QED
  BY <1>1, FS_Surjection

\* The first n entries have smaller keys than the others.
LEMMA FirstBelowRest ==
    ASSUME NEW kvs \in SUBSET KV, IsFiniteSet(kvs), NEW n \in Nat,
           NEW p \in FirstEntries(kvs, n), NEW q \in kvs \ FirstEntries(kvs, n)
    PROVE  p.key < q.key
<1> DEFINE below(x) == {r \in kvs : r.key < x.key}
<1>1. p \in kvs /\ Cardinality(below(p)) < n /\ ~ (Cardinality(below(q)) < n)
  BY DEF FirstEntries
<1>2. p.key \in Nat /\ q.key \in Nat /\ \A r \in kvs : r.key \in Nat
  BY <1>1, KeysAssumption DEF KV
<1>3. SUFFICES ASSUME q.key <= p.key
               PROVE  FALSE
  BY <1>2
<1>4. below(q) \subseteq below(p) /\ below(p) \subseteq kvs
  BY <1>2, <1>3
<1>5. IsFiniteSet(below(p)) /\ IsFiniteSet(below(q))
  BY <1>4, FS_Subset
<1>6. Cardinality(below(q)) <= Cardinality(below(p))
  BY <1>4, <1>5, FS_Subset
<1> QED
  BY <1>1, <1>5, <1>6, FS_CardinalityType

\* There are n of them, unless there are fewer entries.
LEMMA FirstAreMany ==
    ASSUME NEW kvs \in SUBSET KV, IsFiniteSet(kvs), NEW n \in Nat,
           kvs \ FirstEntries(kvs, n) # {}
    PROVE  Cardinality(FirstEntries(kvs, n)) >= n
<1> DEFINE first == FirstEntries(kvs, n)
           rest  == kvs \ first
           keys  == KeysOf(rest)
<1>1. first \subseteq kvs /\ \A p \in first : \A q \in rest : p.key < q.key
  BY FirstBelowRest DEF FirstEntries
<1>2. keys \subseteq Nat /\ keys # {}
  BY KeysAssumption DEF KV, KeysOf
<1>3. PICK k \in keys : \A j \in keys : k <= j
  BY <1>2, LeastNatural
<1>4. PICK q \in rest : q.key = k
  BY <1>3 DEF KeysOf
<1>5. \A r \in rest : q.key <= r.key
  BY <1>3, <1>4 DEF KeysOf
<1>6. \A r \in kvs : r.key \in Nat
  BY KeysAssumption DEF KV
<1>7. {r \in kvs : r.key < q.key} = first
  BY <1>1, <1>4, <1>5, <1>6
<1>8. ~ (Cardinality({r \in kvs : r.key < q.key}) < n)
  BY <1>4 DEF FirstEntries
<1>9. Cardinality(first) \in Nat
  BY <1>1, FS_Subset, FS_CardinalityType
<1> QED
  BY <1>7, <1>8, <1>9

\* And no more than n, since their keys differ.
LEMMA FirstAreFew ==
    ASSUME NEW kvs \in SUBSET KV, IsFiniteSet(kvs), OneVersionOf(kvs), NEW n \in Nat
    PROVE  Cardinality(FirstEntries(kvs, n)) <= n
<1> DEFINE first    == FirstEntries(kvs, n)
           below(x) == {r \in kvs : r.key < x.key}
           toGo     == {n - Cardinality(below(p)) : p \in first}
<1>1. first \subseteq kvs /\ IsFiniteSet(first)
  BY FS_Subset DEF FirstEntries
<1>2. \A p \in kvs : IsFiniteSet(below(p)) /\ Cardinality(below(p)) \in Nat
  BY FS_Subset, FS_CardinalityType
<1>3. \A p \in first : Cardinality(below(p)) < n
  BY DEF FirstEntries
<1>4. \A r \in kvs : r.key \in Nat
  BY KeysAssumption DEF KV
<1>5. ASSUME NEW p \in first, NEW r \in first, p.key < r.key
      PROVE  Cardinality(below(p)) + 1 <= Cardinality(below(r))
  <2>1. p \notin below(p) /\ below(p) \cup {p} \subseteq below(r)
    BY <1>1, <1>4, <1>5
  <2>2. Cardinality(below(p) \cup {p}) = Cardinality(below(p)) + 1
    <3> HIDE DEF below
    <3> QED
      BY <1>1, <1>2, <2>1, FS_AddElement
  <2> HIDE DEF below
  <2> QED
    BY <1>1, <1>2, <2>1, <2>2, FS_Subset
<1>6. \A p \in first : first \subseteq below(p) \cup {p} \/ \E r \in first : p.key < r.key
  BY <1>1, <1>4 DEF OneVersionOf
<1> HIDE DEF first, below
<1>7. CASE first = {}
  BY <1>7, FS_EmptySet DEF first
<1>8. CASE first # {}
  <2>1. \A p \in first : n - Cardinality(below(p)) \in Nat
    BY <1>1, <1>2, <1>3
  <2>2. PICK m \in toGo : \A j \in toGo : m <= j
    <3>1. toGo \subseteq Nat /\ toGo # {}
      BY <1>8, <2>1
    <3> QED
      BY ONLY <3>1, LeastNatural
  <2>3. PICK p \in first : \A r \in first : n - Cardinality(below(p)) <= n - Cardinality(below(r))
    BY <2>2
  <2>4. Cardinality(below(p)) \in Nat /\ Cardinality(below(p)) < n
    BY <1>1, <1>2, <1>3
  <2>5. ASSUME NEW r \in first, p.key < r.key
        PROVE  FALSE
    <3>1. Cardinality(below(r)) \in Nat
      BY <1>1, <1>2
    <3>2. Cardinality(below(p)) + 1 <= Cardinality(below(r))
      BY <1>5, <2>5
    <3>3. n - Cardinality(below(p)) <= n - Cardinality(below(r))
      BY <2>3
    <3> QED
      BY <2>4, <3>1, <3>2, <3>3
  <2>6. first \subseteq below(p) \cup {p}
    BY <1>6, <2>5
  <2>7. /\ IsFiniteSet(below(p) \cup {p})
        /\ Cardinality(below(p) \cup {p}) <= Cardinality(below(p)) + 1
    <3>1. IsFiniteSet(below(p))
      BY <1>1, <1>2
    <3>2. /\ IsFiniteSet(below(p) \cup {p})
          /\ \/ Cardinality(below(p) \cup {p}) = Cardinality(below(p)) + 1
             \/ Cardinality(below(p) \cup {p}) = Cardinality(below(p))
      BY <3>1, FS_AddElement
    <3> QED
      BY <2>4, <3>2
  <2>8. Cardinality(first) <= Cardinality(below(p) \cup {p})
    BY <2>6, <2>7, FS_Subset
  <2>9. Cardinality(first) \in Nat /\ Cardinality(below(p) \cup {p}) \in Nat
    BY <1>1, <2>7, FS_CardinalityType
  <2> QED
    BY <2>4, <2>7, <2>8, <2>9 DEF first
<1> QED
  BY <1>7, <1>8

\* The next table of a merge: none is empty or beyond the limit, and all but the last
\* are full.
LEMMA ChunkOfTodo ==
    ASSUME TypeOK, IsFiniteSet(todo), OneVersionOf(todo), todo # {}
    PROVE  /\ Chunk \subseteq todo /\ Chunk # {} /\ IsFiniteSet(Chunk)
           /\ Cardinality(Chunk) <= Limit
           /\ todo \ Chunk # {} => Cardinality(Chunk) = Limit
           /\ \A p \in Chunk, q \in todo \ Chunk : p.key < q.key
           /\ IsFiniteSet(todo \ Chunk)
           /\ Cardinality(todo \ Chunk) = Cardinality(todo) - Cardinality(Chunk)
<1>1. todo \in SUBSET KV /\ Limit \in Nat \ {0}
  BY ShapeAssumption DEF TypeOK
<1>2. Chunk \subseteq todo /\ Chunk = FirstEntries(todo, Limit)
  BY DEF Chunk, FirstEntries
<1>3. IsFiniteSet(Chunk) /\ Cardinality(Chunk) \in Nat
  BY <1>2, FS_Subset, FS_CardinalityType
<1>4. Cardinality(Chunk) <= Limit
  BY <1>1, <1>2, FirstAreFew
<1>5. todo \ Chunk # {} => Cardinality(Chunk) >= Limit
  BY <1>1, <1>2, FirstAreMany
<1>6. Chunk # {}
  <2>1. ASSUME Chunk = {}
        PROVE  FALSE
    <3>1. Cardinality(Chunk) = 0 /\ todo \ Chunk # {}
      BY <2>1, FS_EmptySet
    <3> QED
      BY <1>1, <1>5, <3>1
  <2> QED
    BY <2>1
<1>7. \A p \in Chunk, q \in todo \ Chunk : p.key < q.key
  BY <1>1, <1>2, FirstBelowRest
<1>8. /\ IsFiniteSet(todo \ Chunk)
      /\ Cardinality(todo \ Chunk) = Cardinality(todo) - Cardinality(Chunk)
  <2>1. todo \cap Chunk = Chunk
    BY <1>2
  <2> QED
    BY <2>1, FS_Difference
<1> QED
  BY <1>1, <1>2, <1>3, <1>4, <1>5, <1>6, <1>7, <1>8

\* No more versions are in tables than there is room for in as many full ones.
Sized(s) == IsFiniteSet(s.kvs) /\ Cardinality(s.kvs) <= Limit

LEMMA VersionsInTables ==
    ASSUME NEW tables \in SUBSET SST, IsFiniteSet(tables), \A s \in tables : Sized(s)
    PROVE  LET all == UNION {s.kvs : s \in tables}
           IN IsFiniteSet(all) /\ Cardinality(all) <= Cardinality(tables) * Limit
BY ShapeAssumption, VersionsFit DEF Sized

-----------------------------------------------------------------------------
(* The invariant *)

\* A memtable that is being flushed is full, and no table is empty or holds more than
\* the limit.
SizesInv ==
    /\ IsFiniteSet(memTable)
    /\ phase = "flush" => Cardinality(memTable) = Limit
    /\ \A l \in Level : IsFiniteSet(ssts[l]) /\ \A s \in ssts[l] : s.kvs # {} /\ Sized(s)
    /\ phase = "merge" => IsFiniteSet(todo) /\ todo # {}

\* SortedRun of any set of tables.
Run(S) ==
    \A s, t \in S : s # t =>
        \/ KeysBelow(s, t) /\ Cardinality(s.kvs) = Limit
        \/ KeysBelow(t, s) /\ Cardinality(t.kvs) = Limit

\* What the merge under way has written.
Outputs == ssts[level + 1] \ toCompact

\* The outputs of a merge are a run of their own, and all full until the last, with
\* the keys still to come behind theirs.
OrderInv ==
    /\ \A l \in Level \ {0} : ~ (Merging /\ l = level + 1) => Run(ssts[l])
    /\ Merging => Run(Outputs)
    /\ phase = "merge" =>
         \A t \in Outputs : /\ Cardinality(t.kvs) = Limit
                            /\ \A p \in t.kvs, q \in todo : p.key < q.key

\* There is something to compact, and there are enough inputs for the outputs.
CountInv ==
    /\ IsFiniteSet(toCompact)
    /\ phase = "compact" => ssts[level] # {}
    /\ ~ Merging => newSSTs = 0
    /\ phase = "merge" => newSSTs * Limit + Cardinality(todo) <= Cardinality(toCompact) * Limit
    /\ phase = "remove" => newSSTs <= Cardinality(toCompact) /\ Outputs # {}

SortedInv == SizesInv /\ OrderInv /\ CountInv

AllInv == Invs /\ CleanInv /\ SortedInv

LEMMA SubRun ==
    ASSUME NEW S, NEW T, Run(S), T \subseteq S
    PROVE  Run(T)
BY DEF Run

\* The empty store.
LEMMA SortedInit == Init => SortedInv
<1> SUFFICES ASSUME Init PROVE SortedInv
  OBVIOUS
<1>1. IsFiniteSet({}) /\ Cardinality({}) = 0 /\ Limit \in Nat \ {0}
  BY FS_EmptySet, ShapeAssumption
<1> QED
  BY <1>1 DEF Init, InitMemory, SortedInv, SizesInv, OrderInv, CountInv, Run, Merging

\* A step outside of merges that leaves the tables and the memtable alone.
LEMMA SortedFrame ==
    ASSUME AllInv, UNCHANGED <<memTable, ssts, toCompact, newSSTs>>,
           ~ Merging, phase' \notin {"flush", "compact", "merge", "remove"}
    PROVE  SortedInv'
<1>1. SizesInv'
  BY DEF AllInv, SortedInv, SizesInv, Sized
<1>2. OrderInv' /\ CountInv'
  BY DEF AllInv, SortedInv, OrderInv, CountInv, Merging, Run, KeysBelow
<1> QED
  BY <1>1, <1>2 DEF SortedInv

-----------------------------------------------------------------------------
(* Put and flush *)

\* The memtable grows by one version at most.
LEMMA SortedPut ==
    ASSUME AllInv, NEW k \in Keys, Put(k)
    PROVE  SortedInv'
<1> USE DEF AllInv, SortedInv
<1>1. /\ phase = "idle" /\ UNCHANGED <<ssts, toCompact, newSSTs>>
      /\ \/ Cardinality(memTable') # Limit /\ phase' = "idle"
         \/ Cardinality(memTable') = Limit /\ phase' = "flush"
      /\ \/ memTable' = memTable
         \/ memTable' = memTable \cup {[key |-> k, ts |-> clock]}
  BY DEF Put, Inserted
<1>2. IsFiniteSet(memTable)
  BY DEF SizesInv
<1>3. IsFiniteSet(memTable')
  <2> DEFINE new == [key |-> k, ts |-> clock]
  <2> HIDE DEF new
  <2>1. memTable' = memTable \/ memTable' = memTable \cup {new}
    BY <1>1 DEF new
  <2>2. IsFiniteSet(memTable \cup {new})
    BY <1>2, FS_AddElement
  <2> QED
    BY <1>2, <2>1, <2>2
<1>5. SizesInv'
  BY <1>1, <1>3 DEF SizesInv, Sized
<1>6. OrderInv' /\ CountInv'
  BY <1>1 DEF OrderInv, CountInv, Merging, Run, KeysBelow
<1> QED
  BY <1>5, <1>6

\* The full memtable becomes a full table.
LEMMA SortedFlush ==
    ASSUME AllInv, FlushSST
    PROVE  SortedInv'
<1> USE DEF AllInv, SortedInv, Invs, TypeInv, TypeOK
<1> DEFINE new == [id |-> building, kvs |-> memTable, persistTime |-> clock]
<1>1. /\ phase = "flush" /\ phase' \in {"idle", "compact", "aborted"}
      /\ memTable' = {} /\ level' = 0 /\ UNCHANGED <<toCompact, newSSTs>>
      /\ ssts' = [ssts EXCEPT ![0] = @ \cup {new}]
  BY DEF FlushSST, AfterFlush
<1>2. 0 \in Level /\ Level \subseteq Nat
  BY ShapeAssumption DEF Level
<1>3. ssts'[0] = ssts[0] \cup {new} /\ \A l \in Level \ {0} : ssts'[l] = ssts[l]
  BY <1>1, <1>2
<1>4. IsFiniteSet({}) /\ Cardinality({}) = 0 /\ Limit \in Nat \ {0}
  BY FS_EmptySet, ShapeAssumption
<1>5. new.kvs # {} /\ Sized(new)
  <2>1. IsFiniteSet(memTable) /\ Cardinality(memTable) = Limit
    BY <1>1 DEF SizesInv
  <2>2. memTable # {}
    BY <1>4, <2>1
  <2> QED
    BY <1>4, <2>1, <2>2 DEF Sized
<1> HIDE DEF new
<1>6. SizesInv'
  <2>1. IsFiniteSet(ssts'[0])
    <3>1. IsFiniteSet(ssts[0])
      BY <1>2 DEF SizesInv
    <3>2. IsFiniteSet(ssts[0] \cup {new})
      BY <3>1, FS_AddElement
    <3> QED
      BY <1>3, <3>2
  <2>2. \A l \in Level : IsFiniteSet(ssts'[l])
    BY <1>3, <2>1 DEF SizesInv
  <2>3. \A l \in Level : \A s \in ssts'[l] : s.kvs # {} /\ Sized(s)
    BY <1>3, <1>5 DEF SizesInv
  <2>4. IsFiniteSet(memTable')
    BY <1>1, <1>4
  <2> QED
    BY <1>1, <2>2, <2>3, <2>4 DEF SizesInv, Sized
<1>7. OrderInv'
  BY <1>1, <1>3 DEF OrderInv, Merging, Run, KeysBelow
<1>8. CountInv'
  BY <1>1, <1>3 DEF CountInv, Merging
<1> QED
  BY <1>6, <1>7, <1>8

-----------------------------------------------------------------------------
(* Compaction *)

\* What moves to an empty level is a run there.
LEMMA SortedMove ==
    ASSUME AllInv, NEW victims \in Victims(level), MoveToEmptyLevel(victims)
    PROVE  SortedInv'
<1> USE DEF AllInv, SortedInv, Invs, TypeInv, TypeOK
<1> DEFINE moved == Moved(victims)
<1>1. /\ level \in Level /\ level + 1 \in Level /\ level # 0 /\ level \in Nat
      /\ phase = "compact" /\ phase' \in {"persist", "aborted"} /\ memTable = {}
      /\ UNCHANGED <<memTable, toCompact, newSSTs>>
      /\ ssts' = [ssts EXCEPT ![level] = @ \ moved, ![level + 1] = moved]
  BY ShapeAssumption DEF MoveToEmptyLevel, TooLarge, Level, RecInv, SinglesInv
<1>2. moved \subseteq ssts[level]
  BY DEF Moved
<1> HIDE DEF moved
<1>3. /\ ssts'[level] = ssts[level] \ moved
      /\ ssts'[level + 1] = moved
      /\ \A l \in Level \ {level, level + 1} : ssts'[l] = ssts[l]
  BY <1>1
<1>4. \A l \in Level : \E i \in Level : ssts'[l] \subseteq ssts[i] /\ (l # 0 => i # 0)
  BY <1>1, <1>2, <1>3
<1>5. SizesInv'
  <2>1. \A l \in Level : IsFiniteSet(ssts'[l])
    BY <1>4, FS_Subset DEF SizesInv
  <2> QED
    BY <1>1, <1>4, <2>1 DEF SizesInv, Sized
<1>6. OrderInv'
  <2>1. \A l \in Level \ {0} : Run(ssts[l])
    BY <1>1 DEF OrderInv, Merging
  <2>2. \A l \in Level \ {0} : Run(ssts'[l])
    BY <1>4, <2>1, SubRun
  <2> QED
    BY <1>1, <2>2 DEF OrderInv, Merging, Run, KeysBelow
<1>7. CountInv'
  BY <1>1 DEF CountInv, Merging
<1> QED
  BY <1>5, <1>6, <1>7

\* The picker finds a table: of the tables of level 0 one was persisted first, and
\* before now.
LEMMA SomeVictim ==
    ASSUME AllInv, phase = "compact", level \in Level, NEW victims \in Victims(level)
    PROVE  victims # {}
<1> USE DEF AllInv, SortedInv, Invs, TypeInv, TypeOK
<1>1. ssts[level] # {}
  BY DEF CountInv
<1>2. CASE ~ (picker = "ONE" /\ level = 0)
  BY <1>1, <1>2, PickerAssumption DEF Victims
<1>3. CASE picker = "ONE" /\ level = 0
  <2> DEFINE times == {s.persistTime : s \in ssts[0]}
             old   == {s \in ssts[0] : /\ s.persistTime < clock
                                       /\ \A t \in ssts[0] : s.persistTime <= t.persistTime}
  <2>1. \A s \in ssts[0] : s.persistTime \in Nat /\ s.persistTime < clock
    BY <1>3 DEF RecInv, TimesInv, SST
  <2>2. PICK m \in times : \A n \in times : m <= n
    <3>1. times \subseteq Nat /\ times # {}
      BY <1>1, <1>3, <2>1
    <3> QED
      BY ONLY <3>1, LeastNatural
  <2>3. PICK s \in ssts[0] : s.persistTime = m
    BY <2>2
  <2>4. s \in old
    BY <2>1, <2>2, <2>3
  <2>5. \A t \in old : t = s
    BY <2>1, <2>4 DEF RecInv, TimesInv
  <2>6. victims = FirstOf(old)
    BY <1>3 DEF Victims, OldestOfLevel0
  <2> HIDE DEF old
  <2> QED
    BY <2>4, <2>5, <2>6 DEF FirstOf
<1> QED
  BY <1>2, <1>3

\* Nothing has a mark when a compaction marks its tables.
LEMMA VictimsMarkable ==
    ASSUME AllInv, phase = "compact", level \in Level, NEW victims \in Victims(level)
    PROVE  Markable(victims)
<1>1. marked = {}
  BY DEF AllInv, CleanInv, Merging
<1> QED
  BY <1>1, SomeVictim DEF Markable

\* What a merge has to write fits in as many tables as it reads.
LEMMA StartFits ==
    ASSUME AllInv, NEW victims \in Victims(level), StartMerge(victims)
    PROVE  /\ IsFiniteSet(toCompact') /\ IsFiniteSet(todo')
           /\ Cardinality(todo') <= Cardinality(toCompact') * Limit
           /\ victims # {} => todo' # {}
<1> USE DEF AllInv, SortedInv, Invs, TypeInv, TypeOK
<1>1. /\ level \in Level /\ level + 1 \in Level /\ phase = "compact"
      /\ todo' = Merged(Inputs(marked'))
  BY ShapeAssumption DEF StartMerge, TooLarge, Level
<1>2. /\ victims \subseteq ssts[level]
      /\ Inputs(marked') = victims \cup ssts[level + 1]
      /\ toCompact' = victims \cup ssts[level + 1]
  <2>1. Markable(victims)
    BY <1>1, VictimsMarkable
  <2>2. Frozen = {}
    BY <1>1, NothingFrozen
  <2> QED
    BY <2>1, <2>2, MergeInputs
<1> DEFINE inputs == toCompact'
           all    == UNION {s.kvs : s \in inputs}
<1>3. inputs \in SUBSET SST /\ \A s \in inputs : s.kvs # {} /\ Sized(s)
  BY <1>1, <1>2 DEF SizesInv
<1>4. IsFiniteSet(inputs)
  <2>1. IsFiniteSet(victims) /\ IsFiniteSet(ssts[level + 1])
    BY <1>1, <1>2, FS_Subset DEF SizesInv
  <2> QED
    BY <1>2, <2>1, FS_Union
<1>5. todo' = Merged(inputs)
  BY <1>1, <1>2
<1>6. ASSUME victims # {}
      PROVE  todo' # {}
  <2>1. PICK s \in inputs : s.kvs # {}
    BY <1>2, <1>3, <1>6
  <2>2. PICK p \in s.kvs : TRUE
    BY <2>1
  <2> HIDE DEF inputs
  <2>3. \E q \in Merged(inputs) : q.key = p.key /\ q.ts <= p.ts
    BY <1>3, <2>1, <2>2, MergedOldest
  <2> QED
    BY <1>5, <2>3
<1> HIDE DEF inputs
<1>7. IsFiniteSet(all) /\ Cardinality(all) <= Cardinality(inputs) * Limit
  BY <1>3, <1>4, VersionsInTables
<1>8. Merged(inputs) \subseteq all
  BY DEF Merged
<1>9. IsFiniteSet(Merged(inputs)) /\ Cardinality(Merged(inputs)) <= Cardinality(all)
  BY <1>7, <1>8, FS_Subset
<1>10. Cardinality(Merged(inputs)) \in Nat /\ Cardinality(all) \in Nat /\ Cardinality(inputs) \in Nat
  BY <1>4, <1>7, <1>9, FS_CardinalityType
<1>11. Cardinality(inputs) * Limit \in Nat
  BY <1>10, ShapeAssumption
<1>12. Cardinality(Merged(inputs)) <= Cardinality(inputs) * Limit
  BY <1>7, <1>9, <1>10, <1>11
<1> QED
  BY <1>4, <1>5, <1>6, <1>9, <1>12 DEF inputs

\* A merge begins, with all of the next level among its inputs.
LEMMA SortedStart ==
    ASSUME AllInv, NEW victims \in Victims(level), StartMerge(victims)
    PROVE  SortedInv'
<1> USE DEF AllInv, SortedInv, Invs, TypeInv, TypeOK
<1>1. /\ level \in Level /\ level + 1 \in Level
      /\ phase = "compact" /\ phase' \in {"merge", "aborted"} /\ memTable = {}
      /\ phase' = "merge" => Markable(victims)
      /\ UNCHANGED <<memTable, ssts, level, newSSTs>>
  BY ShapeAssumption DEF StartMerge, TooLarge, Level, treeVars, RecInv, SinglesInv
<1>2. toCompact' = victims \cup ssts[level + 1]
  <2>1. Markable(victims)
    BY <1>1, VictimsMarkable
  <2> QED
    BY <2>1, MergeInputs
<1>3. /\ IsFiniteSet(toCompact') /\ IsFiniteSet(todo')
      /\ Cardinality(todo') <= Cardinality(toCompact') * Limit
      /\ phase' = "merge" => todo' # {}
  BY <1>1, StartFits DEF Markable
<1>4. SizesInv'
  BY <1>1, <1>3 DEF SizesInv, Sized
<1>5. OrderInv'
  <2>1. Outputs' = {}
    BY <1>1, <1>2 DEF Outputs
  <2>2. \A l \in Level \ {0} : Run(ssts[l])
    BY <1>1 DEF OrderInv, Merging
  <2> QED
    BY <1>1, <2>1, <2>2 DEF OrderInv, Run, KeysBelow
<1>6. CountInv'
  <2>1. newSSTs = 0
    BY <1>1 DEF CountInv, Merging
  <2>2. Cardinality(todo') \in Nat
    BY <1>3, FS_CardinalityType
  <2>3. newSSTs * Limit + Cardinality(todo') = Cardinality(todo')
    BY <2>1, <2>2, ShapeAssumption
  <2> QED
    BY <1>1, <1>3, <2>1, <2>3 DEF CountInv, Merging
<1> QED
  BY <1>4, <1>5, <1>6

\* A table with the smallest keys still to come joins the outputs.
LEMMA SortedFinish ==
    ASSUME AllInv, FinishSST
    PROVE  SortedInv'
<1> USE DEF AllInv, SortedInv, Invs, TypeInv, TypeOK
<1> DEFINE new == [id |-> building, kvs |-> Chunk, persistTime |-> clock]
<1>1. /\ phase = "merge" /\ level \in Level /\ level + 1 \in Level /\ level \in Nat
      /\ UNCHANGED <<memTable, level, toCompact>>
      /\ todo' = todo \ Chunk
      /\ newSSTs' = newSSTs + 1
      /\ \/ todo' # {} /\ phase' = "merge"
         \/ todo' = {} /\ phase' = "remove"
      /\ ssts' = [ssts EXCEPT ![level + 1] = @ \cup {new}]
  BY ShapeAssumption DEF FinishSST, LevelInv, Level
<1>2. /\ Chunk \subseteq todo /\ Chunk # {} /\ IsFiniteSet(Chunk)
      /\ Cardinality(Chunk) <= Limit
      /\ todo' # {} => Cardinality(Chunk) = Limit
      /\ \A p \in Chunk, q \in todo' : p.key < q.key
      /\ IsFiniteSet(todo')
      /\ Cardinality(todo') = Cardinality(todo) - Cardinality(Chunk)
  <2>1. IsFiniteSet(todo) /\ todo # {} /\ OneVersionOf(todo)
    BY <1>1 DEF SizesInv, RecInv, SinglesInv
  <2> QED
    BY <1>1, <2>1, ChunkOfTodo
<1>3. new.id = building /\ new.kvs = Chunk
  OBVIOUS
<1> HIDE DEF new
<1>4. /\ ssts'[level + 1] = ssts[level + 1] \cup {new}
      /\ \A l \in Level \ {level + 1} : ssts'[l] = ssts[l]
  BY <1>1
<1>5. new \notin toCompact
  <2>1. \A l \in Level : \A s \in ssts[l] : s.id # building
    BY <1>1 DEF KeepInv, FileInv
  <2>2. toCompact \subseteq ssts[level] \cup ssts[level + 1]
    BY <1>1 DEF KeepInv, MergeInv
  <2> QED
    BY <1>1, <1>3, <2>1, <2>2
<1>6. Outputs' = Outputs \cup {new}
  BY <1>1, <1>4, <1>5 DEF Outputs
<1>7. SizesInv'
  <2>1. new.kvs # {} /\ Sized(new)
    BY <1>2, <1>3 DEF Sized
  <2>2. IsFiniteSet(ssts[level + 1] \cup {new})
    <3>1. IsFiniteSet(ssts[level + 1])
      BY <1>1 DEF SizesInv
    <3> QED
      BY <3>1, FS_AddElement
  <2>3. \A l \in Level : IsFiniteSet(ssts'[l])
    BY <1>1, <1>4, <2>2 DEF SizesInv
  <2>4. \A l \in Level : \A s \in ssts'[l] : s.kvs # {} /\ Sized(s)
    BY <1>4, <2>1 DEF SizesInv
  <2> QED
    BY <1>1, <1>2, <2>3, <2>4 DEF SizesInv, Sized
<1>8. OrderInv'
  <2>1. \A l \in Level \ {0, level + 1} : Run(ssts'[l])
    BY <1>1, <1>4 DEF OrderInv, Merging
  <2>2. \A t \in Outputs : Cardinality(t.kvs) = Limit /\ KeysBelow(t, new)
    BY <1>1, <1>2, <1>3 DEF OrderInv, KeysBelow
  <2>3. Run(Outputs)
    BY <1>1 DEF OrderInv, Merging
  <2>4. Run(Outputs')
    BY <1>6, <2>2, <2>3 DEF Run
  <2>5. ASSUME phase' = "merge", NEW t \in Outputs'
        PROVE  /\ Cardinality(t.kvs) = Limit
               /\ \A p \in t.kvs, q \in todo' : p.key < q.key
    <3>1. CASE t = new
      BY <1>1, <1>2, <1>3, <2>5, <3>1
    <3>2. CASE t \in Outputs
      BY <1>1, <2>2, <3>2 DEF OrderInv
    <3> QED
      BY <1>6, <2>5, <3>1, <3>2
  <2> QED
    BY <1>1, <2>1, <2>4, <2>5 DEF OrderInv, Merging
<1>9. CountInv'
  <2>1. newSSTs * Limit + Cardinality(todo) <= Cardinality(toCompact) * Limit
    BY <1>1 DEF CountInv
  <2>2. IsFiniteSet(toCompact) /\ IsFiniteSet(todo)
    BY <1>1 DEF CountInv, SizesInv
  <2>3. /\ newSSTs \in Nat /\ Limit \in Nat \ {0}
        /\ Cardinality(toCompact) \in Nat /\ Cardinality(todo) \in Nat
        /\ Cardinality(Chunk) \in Nat /\ Cardinality(todo') \in Nat
    BY <1>2, <2>2, FS_CardinalityType, ShapeAssumption
  <2>4. Cardinality(Chunk) # 0
    BY <1>2, FS_EmptySet
  <2>5. CASE todo' # {}
    <3>1. newSSTs' * Limit = newSSTs * Limit + Limit
      BY <1>1, <2>3
    <3>2. Cardinality(todo') = Cardinality(todo) - Limit
      BY <1>2, <2>5
    <3>3. newSSTs * Limit \in Nat /\ Cardinality(toCompact) * Limit \in Nat
      BY <2>3
    <3>4. newSSTs' * Limit + Cardinality(todo') <= Cardinality(toCompact) * Limit
      BY <2>1, <2>3, <3>1, <3>2, <3>3
    <3> QED
      BY <1>1, <2>2, <2>5, <3>4 DEF CountInv, Merging
  <2>6. CASE todo' = {}
    <3>1. Cardinality(todo) # 0
      BY <1>2, <2>3, <2>4, <2>6
    <3>2. newSSTs < Cardinality(toCompact)
      <4>1. SUFFICES ASSUME Cardinality(toCompact) <= newSSTs
                     PROVE  FALSE
        BY <2>3
      <4>2. Cardinality(toCompact) * Limit <= newSSTs * Limit
        BY <2>3, <4>1
      <4>3. newSSTs * Limit \in Nat /\ Cardinality(toCompact) * Limit \in Nat
        BY <2>3
      <4> QED
        BY <2>1, <2>3, <3>1, <4>2, <4>3
    <3>3. newSSTs' <= Cardinality(toCompact)
      BY <1>1, <2>3, <3>2
    <3> QED
      BY <1>1, <1>6, <2>2, <2>6, <3>3 DEF CountInv, Merging
  <2> QED
    BY <2>5, <2>6
<1> QED
  BY <1>7, <1>8, <1>9

\* An input leaves its level.
LEMMA SortedRemove ==
    ASSUME AllInv, RemoveSST
    PROVE  SortedInv'
<1> USE DEF AllInv, SortedInv, Invs, TypeInv, TypeOK
<1>1. PICK s \in FirstOf(NotYetRemoved) :
        ssts' = [ssts EXCEPT ![level] = @ \ {s}, ![level + 1] = @ \ {s}]
  BY DEF RemoveSST
<1>2. /\ phase = "remove" /\ phase' = "remove"
      /\ level \in Level /\ level + 1 \in Level
      /\ UNCHANGED <<memTable, level, todo, toCompact, newSSTs, written>>
  BY DEF RemoveSST, LevelInv
<1>3. s \in NotYetRemoved
  BY <1>1 DEF FirstOf
<1>4. \A l \in Level : ssts'[l] = ssts[l] \ {s}
  BY <1>1, <1>2, <1>3, Removable
<1>5. Outputs' = Outputs
  BY <1>2, <1>3, <1>4 DEF Outputs, NotYetRemoved
<1>6. SizesInv'
  <2>1. \A l \in Level : IsFiniteSet(ssts'[l])
    BY <1>4, FS_Subset DEF SizesInv
  <2> QED
    BY <1>2, <1>4, <2>1 DEF SizesInv, Sized
<1>7. OrderInv'
  <2>1. \A l \in Level \ {0, level + 1} : Run(ssts'[l])
    BY <1>2, <1>4, SubRun DEF OrderInv, Merging
  <2>2. Run(Outputs')
    BY <1>2, <1>5 DEF OrderInv, Merging
  <2> QED
    BY <1>2, <2>1, <2>2 DEF OrderInv, Merging
<1>8. CountInv'
  BY <1>2, <1>5 DEF CountInv, Merging
<1> QED
  BY <1>6, <1>7, <1>8

\* With the inputs gone, the outputs are the level.
LEMMA SortedEnd ==
    ASSUME AllInv, EndMerge
    PROVE  SortedInv'
<1> USE DEF AllInv, SortedInv, Invs, TypeInv, TypeOK
<1>1. /\ phase = "remove" /\ phase' \in {"aborted", "failed", "compact"}
      /\ NotYetRemoved = {} /\ level + 1 \in Level
      /\ level' = level + 1 /\ toCompact' = {} /\ newSSTs' = 0
      /\ UNCHANGED <<memTable, ssts>>
  BY DEF EndMerge, treeVars, LevelInv
<1>2. Outputs = ssts[level + 1]
  BY <1>1 DEF Outputs, NotYetRemoved
<1>3. SizesInv'
  BY <1>1 DEF SizesInv, Sized
<1>4. OrderInv'
  BY <1>1, <1>2 DEF OrderInv, Merging, Run, KeysBelow
<1>5. CountInv'
  BY <1>1, <1>2, FS_EmptySet DEF CountInv, Merging
<1> QED
  BY <1>3, <1>4, <1>5

LEMMA SortedStep ==
    ASSUME AllInv, [Next]_vars
    PROVE  SortedInv'
<1>1. ASSUME NEW k \in Keys, Put(k)
      PROVE  SortedInv'
  BY <1>1, SortedPut
<1>2. CASE FlushSST
  BY <1>2, SortedFlush
<1>3. CASE StopCompaction
  BY <1>3, SortedFrame DEF StopCompaction, treeVars, mergeVars, Merging
<1>4. ASSUME NEW victims \in Victims(level), MoveToEmptyLevel(victims)
      PROVE  SortedInv'
  BY <1>4, SortedMove
<1>5. ASSUME NEW victims \in Victims(level), StartMerge(victims)
      PROVE  SortedInv'
  BY <1>5, SortedStart
<1>6. CASE FinishSST
  BY <1>6, SortedFinish
<1>7. CASE RemoveSST
  BY <1>7, SortedRemove
<1>8. CASE EndMerge
  BY <1>8, SortedEnd
<1>9. CASE PersistManifest
  BY <1>9, SortedFrame DEF PersistManifest, Merging
<1>10. CASE UNCHANGED vars
  BY <1>10 DEF vars, treeVars, storageVars, mergeVars, AllInv, SortedInv, SizesInv, Sized, OrderInv,
               CountInv, Merging, Run, Outputs, KeysBelow
<1> QED
  BY <1>1, <1>2, <1>3, <1>4, <1>5, <1>6, <1>7, <1>8, <1>9, <1>10
  DEF Next, PutStep, WorkloadDone

-----------------------------------------------------------------------------
(* What follows from it *)

\* The sizes and the order of tables hold together with the invariants they rest on.
THEOREM SortedInvariant == Spec => []AllInv
<1>1. Init => SortedInv
  BY SortedInit
<1>2. Invs /\ CleanInv /\ SortedInv /\ [Next]_vars => SortedInv'
  BY SortedStep DEF AllInv
<1>3. Invs /\ CleanInv /\ SortedInv <=> AllInv
  BY DEF AllInv
<1> QED
  BY <1>1, <1>2, <1>3, RecInvariant, CleanInvariant, PTL DEF Spec

\* Every level below 0 is a sorted run in every reachable state, but for the level a
\* merge is writing to.
THEOREM RunsAreSorted == Spec => []SortedRuns
<1>1. AllInv => SortedRuns
  BY DEF AllInv, SortedInv, OrderInv, SortedRuns, SortedRun, Run, Merging
<1> QED
  BY <1>1, SortedInvariant, PTL

-----------------------------------------------------------------------------
(* Asserts *)

\* In SSTComparator's order the tables of a run come in the order of their keys.
LEMMA BeforeIsBelow ==
    ASSUME NEW S \in SUBSET SST, Run(S), \A s \in S : s.kvs # {},
           NEW s \in S, NEW t \in S, s # t, Before(s, t)
    PROVE  KeysBelow(s, t) /\ Cardinality(s.kvs) = Limit
<1>1. ~ KeysBelow(t, s)
  <2>1. /\ Smallest(s) \in KeysOf(s.kvs) /\ Smallest(s) \in Nat
        /\ Smallest(t) \in KeysOf(t.kvs) /\ Smallest(t) \in Nat
    BY SmallestKey
  <2>2. Smallest(s) <= Smallest(t)
    BY <2>1 DEF Before
  <2>3. KeysBelow(t, s) => Smallest(t) < Smallest(s)
    BY <2>1 DEF KeysBelow, KeysOf
  <2> QED
    BY <2>1, <2>2, <2>3
<1> QED
  BY <1>1 DEF Run

\* The iterators meet every version once, and the tables of a run in order.
LEMMA InputsIncrease ==
    ASSUME AllInv, NEW victims \in Victims(level), StartMerge(victims)
    PROVE  StrictlyIncreasing(Inputs(marked'))
<1> USE DEF AllInv, SortedInv, Invs, TypeInv, TypeOK, RecInv
<1>1. /\ level \in Level /\ level + 1 \in Level /\ level \in Nat /\ level + 1 # 0
      /\ phase = "compact"
  BY ShapeAssumption DEF StartMerge, TooLarge, Level
<1>2. Inputs(marked') \subseteq LiveSSTs
  BY DEF Inputs
<1>3. ASSUME NEW i \in Level, NEW j \in Level, NEW s \in ssts[i], NEW t \in ssts[j], s # t,
             NEW p \in s.kvs \cap t.kvs
      PROVE  FALSE
  <2>1. p.ts \in Nat /\ s.persistTime \in Nat /\ t.persistTime \in Nat
    BY <1>3 DEF SST, KV
  <2>2. CASE i = j /\ i = 0
    <3>1. s.persistTime < t.persistTime \/ t.persistTime < s.persistTime
      BY <1>3, <2>1, <2>2 DEF TimesInv
    <3>2. p.ts < p.ts
      BY <1>3, <2>2, <3>1 DEF Level0Ordered
    <3> QED
      BY <2>1, <3>2
  <2>3. CASE i = j /\ i # 0
    BY <1>1, <1>3, <2>3, RunsApart DEF KeysDisjoint, Merging
  <2>4. CASE i # j
    <3>1. i < j \/ j < i
      BY <2>4, ShapeAssumption DEF Level
    <3> QED
      BY <1>1, <1>3, <3>1 DEF CleanInv, RecencyOrder
  <2> QED
    BY <2>2, <2>3, <2>4
<1>4. ASSUME NEW l \in Level \ {0}, NEW s \in ssts[l], NEW t \in ssts[l], s # t, Before(s, t),
             NEW p \in s.kvs, NEW q \in t.kvs
      PROVE  KVLess(p, q)
  <2>1. Run(ssts[l]) /\ \A u \in ssts[l] : u.kvs # {}
    BY <1>1 DEF OrderInv, SizesInv, Merging
  <2>2. KeysBelow(s, t)
    BY <1>4, <2>1, BeforeIsBelow
  <2> QED
    BY <1>4, <2>2 DEF KeysBelow, KVLess
<1>5. \A s, t \in Inputs(marked') : s # t => s.kvs \cap t.kvs = {}
  BY <1>2, <1>3 DEF LiveSSTs
<1> QED
  BY <1>4, <1>5 DEF StrictlyIncreasing

\* A run of tables of more than one entry passes verify.
LEMMA RunVerified ==
    ASSUME Limit > 1, NEW l \in Level, ssts[l] \in SUBSET SST, Run(ssts[l]),
           \A s \in ssts[l] : s.kvs # {} /\ IsFiniteSet(s.kvs) /\ OneVersionOf(s.kvs)
    PROVE  Verified(l)
<1>1. ASSUME NEW s \in ssts[l], Cardinality(s.kvs) = Limit
      PROVE  Cardinality(KeysOf(s.kvs)) > 1
  <2>1. PICK p \in s.kvs : TRUE
    OBVIOUS
  <2>2. PICK q \in s.kvs : q # p
    <3>1. SUFFICES ASSUME s.kvs = {p}
                   PROVE  FALSE
      BY <2>1
    <3>2. Cardinality({p}) = 1
      BY FS_Singleton
    <3> QED
      BY <1>1, <3>1, <3>2, ShapeAssumption
  <2>3. p.key # q.key
    BY <2>1, <2>2 DEF OneVersionOf
  <2>4. {p.key, q.key} \subseteq KeysOf(s.kvs) /\ IsFiniteSet(KeysOf(s.kvs))
    BY <2>1, <2>2, FiniteKeys DEF KeysOf
  <2>5. Cardinality(KeysOf(s.kvs)) \in Nat
    BY <2>4, FS_CardinalityType
  <2>6. Cardinality(KeysOf(s.kvs)) # 0
    BY <2>4, FS_EmptySet
  <2>7. Cardinality(KeysOf(s.kvs)) # 1
    <3>1. ASSUME NEW k, KeysOf(s.kvs) = {k}
          PROVE  FALSE
      BY <2>3, <2>4, <3>1
    <3> QED
      BY <2>4, <3>1, FS_Singleton
  <2> QED
    BY <2>5, <2>6, <2>7
<1> SUFFICES ASSUME NEW s \in ssts[l], NEW t \in ssts[l], s # t, Before(s, t)
             PROVE  /\ Cardinality(KeysOf(s.kvs)) > 1
                    /\ \A j \in KeysOf(s.kvs), k \in KeysOf(t.kvs) : j < k
  BY DEF Verified
<1>2. KeysBelow(s, t) /\ Cardinality(s.kvs) = Limit
  BY BeforeIsBelow
<1> QED
  BY <1>1, <1>2 DEF KeysBelow, KeysOf

\* A merge writes a run that passes verify, in no more tables than it has read.
LEMMA EndCompacts ==
    ASSUME AllInv, Limit > 1, EndMerge
    PROVE  phase' = "compact"
<1> USE DEF AllInv, SortedInv, Invs, TypeInv, TypeOK, RecInv
<1>1. /\ phase = "remove" /\ level + 1 \in Level /\ NotYetRemoved = {}
      /\ newSSTs <= Cardinality(toCompact)
  BY DEF EndMerge, LevelInv, CountInv
<1>2. Outputs = ssts[level + 1]
  BY <1>1 DEF Outputs, NotYetRemoved
<1>3. /\ Run(ssts[level + 1])
      /\ \A s \in ssts[level + 1] : s.kvs # {} /\ IsFiniteSet(s.kvs) /\ OneVersionOf(s.kvs)
  BY <1>1, <1>2 DEF OrderInv, SizesInv, Sized, Merging, SinglesInv
<1>4. Verified(level + 1)
  BY <1>1, <1>3, RunVerified
<1> QED
  BY <1>1, <1>4 DEF EndMerge

LEMMA NoAbortStep ==
    ASSUME AllInv, Limit > 1, Level0Max > 0, NoAbort, [Next]_vars
    PROVE  NoAbort'
<1> USE DEF AllInv, SortedInv, Invs, TypeInv, TypeOK
<1>1. ASSUME NEW k \in Keys, Put(k)
      PROVE  NoAbort'
  BY <1>1 DEF Put, NoAbort
<1>2. CASE FlushSST
  <2>1. phase' = AfterFlush(ssts'[0])
    BY <1>2 DEF FlushSST
  <2>2. Cardinality(ssts'[0]) \in Nat
    <3>1. IsFiniteSet(ssts'[0])
      BY <1>2, SortedFlush, ShapeAssumption DEF SizesInv, Level
    <3> QED
      BY <3>1, FS_CardinalityType
  <2> QED
    BY <2>1, <2>2, ShapeAssumption DEF AfterFlush, NoAbort
<1>3. CASE StopCompaction
  BY <1>3 DEF StopCompaction, NoAbort
<1>4. ASSUME NEW victims \in Victims(level), MoveToEmptyLevel(victims)
      PROVE  NoAbort'
  <2>1. Markable(victims)
    BY <1>4, VictimsMarkable DEF MoveToEmptyLevel, TooLarge
  <2> QED
    BY <1>4, <2>1 DEF MoveToEmptyLevel, NoAbort
<1>5. ASSUME NEW victims \in Victims(level), StartMerge(victims)
      PROVE  NoAbort'
  <2>1. Markable(victims) /\ StrictlyIncreasing(Inputs(marked'))
    BY <1>5, VictimsMarkable, InputsIncrease DEF StartMerge, TooLarge
  <2> QED
    BY <1>5, <2>1 DEF StartMerge, NoAbort
<1>6. CASE FinishSST
  BY <1>6 DEF FinishSST, NoAbort
<1>7. CASE RemoveSST
  BY <1>7 DEF RemoveSST, NoAbort
<1>8. CASE EndMerge
  BY <1>8, EndCompacts DEF NoAbort
<1>9. CASE PersistManifest
  BY <1>9 DEF PersistManifest, NoAbort
<1>10. CASE UNCHANGED vars
  BY <1>10 DEF vars, NoAbort
<1> QED
  BY <1>1, <1>2, <1>3, <1>4, <1>5, <1>6, <1>7, <1>8, <1>9, <1>10
  DEF Next, PutStep, WorkloadDone

\* With tables of two entries at least and room for one at level 0, no assert fails
\* and no compaction is refused, in any session without failures.
THEOREM NothingAborts ==
    ASSUME Limit > 1, Level0Max > 0
    PROVE  Spec => []NoAbort
<1>1. Init => NoAbort
  BY DEF Init, NoAbort
<1>2. AllInv /\ NoAbort /\ [Next]_vars => NoAbort'
  BY NoAbortStep
<1> QED
  BY <1>1, <1>2, SortedInvariant, PTL DEF Spec
-----------------------------------------------------------------------------
(* The sizes of levels. A compaction goes from level to level, and leaves  *)
(* each within its maximum but the one it is at.                           *)

\* How many tables may come to level l in a compaction. With the picker ONE it is one
\* too many; with ALL there may be many, but of a level that is moved on to another
\* one than the last, no more than fit there.
RoomFor(n, l) ==
    /\ picker = "ONE" => n <= MaxSize(l) + 1
    /\ picker = "ALL" /\ l < NLevels - 2 => n <= 2 * MaxSize(l)

LevelsInv ==
    /\ phase \in {"compact", "merge", "remove"} /\ NLevels > 3 => Level0Max > 0
    /\ \A l \in Level \ {NLevels - 1} :
         \/ WithinLimit(l)
         \/ phase = "compact" /\ l = level /\ RoomFor(Cardinality(ssts[l]), l)
         \/ Merging /\ l = level /\ Cardinality(ssts[l] \ toCompact) <= MaxSize(l)
         \/ Merging /\ l = level + 1
         \/ phase \in {"aborted", "failed"}
    /\ Merging => IsFiniteSet(Outputs) /\ Cardinality(Outputs) <= newSSTs
    /\ Merging /\ level + 1 # NLevels - 1 => RoomFor(Cardinality(toCompact), level + 1)

\* Four levels or more have to grow from one to the next.
LevelsGrow == NLevels > 3 => Fanout > 1

\* Powers of natural numbers are natural numbers, and not 0 but for those of 0.
LEMMA Powers ==
    ASSUME NEW l \in 0 .. NLevels
    PROVE  Fanout ^ l \in Nat /\ (Fanout > 0 => Fanout ^ l > 0)
<1> DEFINE good(n) == Fanout ^ n \in Nat /\ (Fanout > 0 => Fanout ^ n > 0)
           bad     == {n \in 0 .. NLevels : ~ good(n)}
<1>1. SUFFICES ASSUME bad # {}
               PROVE  FALSE
  OBVIOUS
<1>2. PICK m \in bad : \A n \in bad : m <= n
  <2>1. bad \subseteq Nat
    BY ShapeAssumption
  <2> HIDE DEF bad
  <2> QED
    BY <1>1, <2>1, LeastNatural
<1>3. m # 0
  BY <1>2, PowersAssumption, ShapeAssumption
<1>4. m - 1 \in 0 .. NLevels /\ m = (m - 1) + 1
  BY <1>2, <1>3, ShapeAssumption
<1>5. good(m - 1)
  BY <1>2, <1>4
<1>6. Fanout ^ m = Fanout * Fanout ^ (m - 1)
  BY <1>4, PowersAssumption
<1>7. good(m)
  <2>1. ASSUME NEW x \in Nat, NEW f \in Nat, f > 0 => x > 0
        PROVE  f * x \in Nat /\ (f > 0 => f * x > 0)
    BY <2>1
  <2> QED
    BY <1>5, <1>6, <2>1, ShapeAssumption
<1> QED
  BY <1>2, <1>7

LEMMA MaxSizes ==
    ASSUME LevelsGrow, NEW l \in Level
    PROVE  /\ MaxSize(l) \in Nat
           /\ MaxSize(0) = Level0Max
           /\ Level0Max > 0 /\ NLevels > 3 => MaxSize(l) > 0
           /\ NLevels > 3 => MaxSize(l + 1) \in Nat /\ 2 * MaxSize(l) <= MaxSize(l + 1)
<1>1. l \in 0 .. NLevels /\ l + 1 \in 0 .. NLevels
  BY ShapeAssumption DEF Level
<1>2. Fanout ^ l \in Nat /\ (Fanout > 0 => Fanout ^ l > 0) /\ Fanout ^ (l + 1) \in Nat
  BY <1>1, Powers
<1>3. Fanout ^ (l + 1) = Fanout * Fanout ^ l /\ Fanout ^ 0 = 1
  BY <1>1, PowersAssumption
<1>4. ASSUME NEW x \in Nat, NEW m \in Nat, NEW f \in Nat
      PROVE  /\ m * x \in Nat
             /\ m > 0 /\ x > 0 => m * x > 0
             /\ f > 1 => 2 * (m * x) <= m * (f * x)
  <2>1. m * x \in Nat /\ m * (f * x) = f * (m * x) /\ (m > 0 /\ x > 0 => m * x > 0)
    BY <1>4
  <2>2. ASSUME NEW y \in Nat, f > 1
        PROVE  2 * y <= f * y
    BY <2>2
  <2> QED
    BY <2>1, <2>2
<1>5. Level0Max \in Nat /\ Fanout \in Nat /\ MaxSize(0) = Level0Max
  BY <1>3, ShapeAssumption DEF MaxSize
<1>6. MaxSize(l) \in Nat /\ MaxSize(l + 1) \in Nat
  BY <1>2, <1>4, <1>5 DEF MaxSize
<1>7. Level0Max > 0 /\ NLevels > 3 => MaxSize(l) > 0
  BY <1>2, <1>4, <1>5, ShapeAssumption DEF MaxSize, LevelsGrow
<1>8. NLevels > 3 => 2 * MaxSize(l) <= MaxSize(l + 1)
  BY <1>2, <1>3, <1>4, <1>5 DEF MaxSize, LevelsGrow
<1> QED
  BY <1>5, <1>6, <1>7, <1>8

\* Together two sets have no more elements than each has.
LEMMA UnionFits ==
    ASSUME NEW S, NEW T, IsFiniteSet(S), IsFiniteSet(T)
    PROVE  /\ IsFiniteSet(S \cup T)
           /\ Cardinality(S) \in Nat /\ Cardinality(T) \in Nat /\ Cardinality(S \cup T) \in Nat
           /\ Cardinality(S \cup T) <= Cardinality(S) + Cardinality(T)
<1>1. /\ Cardinality(S \cup T) = Cardinality(S) + Cardinality(T) - Cardinality(S \cap T)
      /\ IsFiniteSet(S \cup T)
  BY FS_Union
<1>2. IsFiniteSet(S \cap T)
  BY FS_Intersection
<1>3. Cardinality(S) \in Nat /\ Cardinality(T) \in Nat /\ Cardinality(S \cup T) \in Nat
      /\ Cardinality(S \cap T) \in Nat
  BY <1>1, <1>2, FS_CardinalityType
<1> QED
  BY <1>1, <1>3

\* One table at a time is picked with the picker ONE.
LEMMA OneVictim ==
    ASSUME AllInv, phase = "compact", level \in Level, NEW victims \in Victims(level)
    PROVE  /\ victims \subseteq ssts[level] /\ IsFiniteSet(victims)
           /\ picker = "ALL" => victims = ssts[level]
           /\ picker = "ONE" => Cardinality(victims) = 1
<1> USE DEF AllInv, SortedInv, Invs, TypeInv, TypeOK
<1>1. victims \subseteq ssts[level]
  BY DEF Victims, OldestOfLevel0, FirstOf
<1>2. IsFiniteSet(victims)
  BY <1>1, FS_Subset DEF SizesInv
<1>3. picker = "ALL" => victims = ssts[level]
  BY DEF Victims
<1>4. ASSUME picker = "ONE"
      PROVE  Cardinality(victims) = 1
  <2>1. victims # {}
    BY SomeVictim
  <2>2. \A s, t \in victims : s = t
    <3>1. CASE level = 0
      <4>1. victims = OldestOfLevel0
        BY <1>4, <3>1 DEF Victims
      <4>2. \A s \in victims : s \in ssts[0] /\ s.persistTime \in Nat
        BY <1>1, <3>1 DEF SST
      <4>3. \A s, t \in victims : s.persistTime <= t.persistTime
        BY <4>1 DEF OldestOfLevel0, FirstOf
      <4>4. \A s, t \in victims : s.persistTime = t.persistTime
        BY <4>2, <4>3
      <4> QED
        BY <4>2, <4>4 DEF RecInv, TimesInv
    <3>2. CASE level # 0
      BY <1>4, <3>2 DEF Victims
    <3> QED
      BY <3>1, <3>2
  <2>3. PICK s \in victims : victims = {s}
    BY <2>1, <2>2
  <2> QED
    BY <2>3, FS_Singleton
<1> QED
  BY <1>1, <1>2, <1>3, <1>4

\* A step outside of compactions, or at the end of one.
LEMMA LevelsFrame ==
    ASSUME LevelsInv, UNCHANGED <<ssts, picker>>, phase' \notin {"compact", "merge", "remove"},
           phase' \in {"aborted", "failed"} \/ \A l \in Level \ {NLevels - 1} : WithinLimit(l)
    PROVE  LevelsInv'
BY DEF LevelsInv, WithinLimit, Merging

\* A flush takes level 0 to one table above its maximum at most.
LEMMA LevelsFlush ==
    ASSUME AllInv, LevelsGrow, LevelsInv, FlushSST
    PROVE  LevelsInv'
<1> USE DEF AllInv, SortedInv, Invs, TypeInv, TypeOK
<1> DEFINE new == [id |-> building, kvs |-> memTable, persistTime |-> clock]
<1>1. /\ phase = "flush" /\ level' = 0 /\ UNCHANGED picker
      /\ ssts' = [ssts EXCEPT ![0] = @ \cup {new}]
      /\ phase' = AfterFlush(ssts'[0])
  BY DEF FlushSST
<1>2. 0 \in Level
  BY ShapeAssumption DEF Level
<1>3. /\ ssts'[0] = ssts[0] \cup {new}
      /\ \A l \in Level \ {0} : ssts'[l] = ssts[l]
  BY <1>1, <1>2
<1> HIDE DEF new
<1>4. \A l \in Level \ {0, NLevels - 1} : WithinLimit(l)'
  BY <1>1, <1>3 DEF LevelsInv, WithinLimit, Merging
<1>5. Cardinality(ssts'[0]) \in Nat /\ (NLevels # 1 => Cardinality(ssts'[0]) <= Level0Max + 1)
  <2>1. IsFiniteSet(ssts[0]) /\ IsFiniteSet({new}) /\ Cardinality({new}) = 1
    BY <1>2, FS_Singleton DEF SizesInv
  <2>2. /\ Cardinality(ssts[0]) \in Nat /\ Cardinality(ssts'[0]) \in Nat
        /\ Cardinality(ssts'[0]) <= Cardinality(ssts[0]) + 1
    BY <1>3, <2>1, UnionFits
  <2>3. NLevels # 1 => Cardinality(ssts[0]) <= Level0Max
    BY <1>1, <1>2, MaxSizes, ShapeAssumption DEF LevelsInv, WithinLimit, Merging
  <2> QED
    BY <2>2, <2>3, ShapeAssumption
<1>6. MaxSize(0) = Level0Max
  BY <1>2, MaxSizes
<1>7. phase' \in {"idle", "compact", "aborted"} /\ (phase' = "idle" => Cardinality(ssts'[0]) <= Level0Max)
  BY <1>1 DEF AfterFlush
<1>8. ASSUME phase' = "compact", NLevels # 1
      PROVE  Level0Max > 0 /\ RoomFor(Cardinality(ssts[0]), 0)'
  <2>1. Level0Max > 0
    BY <1>1, <1>5, <1>8, ShapeAssumption DEF AfterFlush
  <2>2. Level0Max + 1 <= 2 * Level0Max
    BY <2>1, ShapeAssumption
  <2>3. Cardinality(ssts'[0]) <= MaxSize(0) + 1 /\ Cardinality(ssts'[0]) <= 2 * MaxSize(0)
    BY <1>5, <1>6, <1>8, <2>2, ShapeAssumption
  <2> QED
    BY <2>1, <2>3 DEF RoomFor
<1>9. phase' = "idle" => WithinLimit(0)'
  BY <1>6, <1>7 DEF WithinLimit
<1>10. ~ Merging'
  BY <1>7 DEF Merging
<1>11. ASSUME NEW l \in Level \ {NLevels - 1}
       PROVE  \/ WithinLimit(l)'
              \/ phase' = "compact" /\ l = level' /\ RoomFor(Cardinality(ssts[l]), l)'
              \/ phase' \in {"aborted", "failed"}
  <2>1. CASE l = 0
    <3>1. NLevels # 1
      BY <1>11, <2>1
    <3> QED
      BY <1>1, <1>7, <1>8, <1>9, <2>1, <3>1
  <2>2. CASE l # 0
    BY <1>4, <1>11, <2>2
  <2> QED
    BY <2>1, <2>2
<1>12. phase' = "compact" /\ NLevels > 3 => Level0Max > 0
  BY <1>8, ShapeAssumption
<1> QED
  BY <1>7, <1>10, <1>11, <1>12 DEF LevelsInv

\* A level that is moved has room for the next level to take it.
LEMMA LevelsMove ==
    ASSUME AllInv, LevelsGrow, LevelsInv, NEW victims \in Victims(level), MoveToEmptyLevel(victims)
    PROVE  LevelsInv'
<1> USE DEF AllInv, SortedInv, Invs, TypeInv, TypeOK
<1>1. /\ level \in Level /\ level + 1 \in Level /\ level \in Nat /\ level # 0
      /\ phase = "compact" /\ phase' \in {"persist", "aborted"} /\ UNCHANGED <<picker, level>>
      /\ ssts' = [ssts EXCEPT ![level] = @ \ Moved(victims), ![level + 1] = Moved(victims)]
      /\ ssts[level + 1] = {}
  BY ShapeAssumption DEF MoveToEmptyLevel, TooLarge, Level
<1>2. Moved(victims) = victims
  <2>1. marked = {}
    BY <1>1 DEF CleanInv, Merging
  <2>2. victims \subseteq ssts[level] /\ \A s, t \in ssts[level] : s.id = t.id => s = t
    BY <1>1, OneVictim DEF KeepInv, FileInv
  <2> QED
    BY <2>1, <2>2 DEF Moved, Ids
<1>3. /\ ssts'[level] = ssts[level] \ victims
      /\ ssts'[level + 1] = victims
      /\ \A l \in Level \ {level, level + 1} : ssts'[l] = ssts[l]
  BY <1>1, <1>2
<1>4. \A l \in Level \ {level, level + 1, NLevels - 1} : WithinLimit(l)'
  BY <1>1, <1>3 DEF LevelsInv, WithinLimit, Merging
<1>5. /\ RoomFor(Cardinality(ssts[level]), level) \/ WithinLimit(level)
      /\ level < NLevels - 1
  BY <1>1, ShapeAssumption DEF LevelsInv, Merging, Level
<1>6. /\ IsFiniteSet(ssts[level]) /\ Cardinality(ssts[level]) \in Nat
      /\ MaxSize(level) \in Nat
  BY <1>1, MaxSizes, FS_CardinalityType DEF SizesInv
<1>7. WithinLimit(level)'
  <2>1. CASE picker = "ALL"
    <3>1. Cardinality(ssts'[level]) = 0
      BY <1>1, <1>3, <2>1, OneVictim, FS_EmptySet
    <3> QED
      BY <1>1, <1>6, <3>1 DEF WithinLimit
  <2>2. CASE picker = "ONE"
    <3>1. PICK s : victims = {s}
      <4>1. Cardinality(victims) = 1 /\ IsFiniteSet(victims)
        BY <1>1, <2>2, OneVictim
      <4> QED
        BY <4>1, FS_Singleton
    <3>2. s \in ssts[level]
      BY <1>1, <3>1, OneVictim
    <3>3. Cardinality(ssts'[level]) = Cardinality(ssts[level]) - 1
      <4>1. Cardinality(ssts[level] \ {s}) = Cardinality(ssts[level]) - 1
        BY ONLY <1>6, <3>2, FS_RemoveElement
      <4> QED
        BY <1>3, <3>1, <4>1
    <3>4. Cardinality(ssts[level]) <= MaxSize(level) + 1
      BY <1>5, <1>6, <2>2 DEF RoomFor, WithinLimit
    <3> QED
      BY <1>1, <1>6, <3>3, <3>4 DEF WithinLimit
  <2> QED
    BY <2>1, <2>2, PickerAssumption
<1>8. ASSUME level + 1 # NLevels - 1
      PROVE  WithinLimit(level + 1)'
  <2>1. NLevels > 3 /\ Level0Max > 0 /\ level < NLevels - 2
    BY <1>1, <1>8, ShapeAssumption DEF LevelsInv, Level
  <2>2. MaxSize(level) > 0 /\ MaxSize(level + 1) \in Nat /\ 2 * MaxSize(level) <= MaxSize(level + 1)
    BY <1>1, <2>1, MaxSizes
  <2>3. Cardinality(victims) <= 2 * MaxSize(level)
    <3>1. CASE picker = "ALL"
      <4>1. victims = ssts[level]
        BY <1>1, <3>1, OneVictim
      <4> QED
        BY <1>5, <1>6, <2>1, <3>1, <4>1 DEF RoomFor, WithinLimit
    <3>2. CASE picker = "ONE"
      <4>1. Cardinality(victims) = 1
        BY <1>1, <3>2, OneVictim
      <4> QED
        BY <1>6, <2>2, <4>1
    <3> QED
      BY <3>1, <3>2, PickerAssumption
  <2>4. Cardinality(victims) \in Nat
    BY <1>1, OneVictim, FS_CardinalityType
  <2>5. Cardinality(ssts'[level + 1]) <= MaxSize(level + 1)
    BY <1>3, <1>6, <2>2, <2>3, <2>4
  <2> QED
    BY <1>1, <2>5 DEF WithinLimit
<1>9. \A l \in Level \ {NLevels - 1} : WithinLimit(l)'
  BY <1>1, <1>4, <1>7, <1>8
<1> QED
  BY <1>1, <1>9 DEF LevelsInv, Merging

\* What a merge reads fits at the next level, but for the excess it came with.
LEMMA LevelsStart ==
    ASSUME AllInv, LevelsGrow, LevelsInv, NEW victims \in Victims(level), StartMerge(victims)
    PROVE  LevelsInv'
<1> USE DEF AllInv, SortedInv, Invs, TypeInv, TypeOK
<1>1. /\ level \in Level /\ level + 1 \in Level /\ level \in Nat
      /\ phase = "compact" /\ phase' \in {"merge", "aborted"} /\ UNCHANGED <<picker, level, ssts, newSSTs>>
      /\ level < NLevels - 1
  BY ShapeAssumption DEF StartMerge, TooLarge, Level, treeVars
<1>2. toCompact' = victims \cup ssts[level + 1]
  <2>1. Markable(victims)
    BY <1>1, VictimsMarkable
  <2> QED
    BY <2>1, MergeInputs
<1>3. \A l \in Level \ {level, NLevels - 1} : WithinLimit(l)'
  BY <1>1 DEF LevelsInv, WithinLimit, Merging
<1>4. RoomFor(Cardinality(ssts[level]), level) \/ WithinLimit(level)
  BY <1>1 DEF LevelsInv, Merging
<1>5. /\ IsFiniteSet(ssts[level]) /\ Cardinality(ssts[level]) \in Nat
      /\ MaxSize(level) \in Nat
  BY <1>1, MaxSizes, FS_CardinalityType DEF SizesInv
<1>6. Cardinality(ssts[level] \ victims) <= MaxSize(level)
  <2>1. CASE picker = "ALL"
    <3>1. Cardinality(ssts[level] \ victims) = 0
      BY <1>1, <2>1, OneVictim, FS_EmptySet
    <3> QED
      BY <1>5, <3>1
  <2>2. CASE picker = "ONE"
    <3>1. PICK s : victims = {s}
      <4>1. Cardinality(victims) = 1 /\ IsFiniteSet(victims)
        BY <1>1, <2>2, OneVictim
      <4> QED
        BY <4>1, FS_Singleton
    <3>2. s \in ssts[level]
      BY <1>1, <3>1, OneVictim
    <3>3. Cardinality(ssts[level] \ {s}) = Cardinality(ssts[level]) - 1
      BY ONLY <1>5, <3>2, FS_RemoveElement
    <3>4. Cardinality(ssts[level]) <= MaxSize(level) + 1
      BY <1>4, <1>5, <2>2 DEF RoomFor, WithinLimit
    <3> QED
      BY <1>5, <3>1, <3>3, <3>4
  <2> QED
    BY <2>1, <2>2, PickerAssumption
<1>7. Cardinality(ssts[level] \ toCompact)' <= MaxSize(level)
  <2>1. ssts[level] \cap ssts[level + 1] = {}
    BY <1>1 DEF KeepInv, FileInv
  <2>2. ssts[level] \ (victims \cup ssts[level + 1]) = ssts[level] \ victims
    BY <2>1
  <2> QED
    BY <1>1, <1>2, <1>6, <2>2
<1>8. ASSUME level + 1 # NLevels - 1
      PROVE  RoomFor(Cardinality(toCompact), level + 1)'
  <2>1. level < NLevels - 2
    BY <1>1, <1>8, ShapeAssumption
  <2>2. Cardinality(ssts[level + 1]) <= MaxSize(level + 1) /\ MaxSize(level + 1) \in Nat
    BY <1>1, <1>8, MaxSizes DEF LevelsInv, WithinLimit, Merging
  <2>3. /\ Cardinality(victims) \in Nat /\ Cardinality(ssts[level + 1]) \in Nat
        /\ Cardinality(toCompact') \in Nat
        /\ Cardinality(toCompact') <= Cardinality(victims) + Cardinality(ssts[level + 1])
    <3>1. IsFiniteSet(victims) /\ IsFiniteSet(ssts[level + 1])
      BY <1>1, OneVictim DEF SizesInv
    <3> QED
      BY <1>2, <3>1, UnionFits
  <2>4. CASE picker = "ONE"
    <3>1. Cardinality(victims) = 1
      BY <1>1, <2>4, OneVictim
    <3>2. Cardinality(toCompact') <= MaxSize(level + 1) + 1
      BY <2>2, <2>3, <3>1
    <3> QED
      BY <1>1, <2>4, <3>2 DEF RoomFor
  <2>5. CASE picker = "ALL"
    <3>1. CASE ~ (level + 1 < NLevels - 2)
      BY <1>1, <2>5, <3>1 DEF RoomFor
    <3>2. CASE level + 1 < NLevels - 2
      <4>1. victims = ssts[level]
        BY <1>1, <2>5, OneVictim
      <4>2. 2 * MaxSize(level) <= MaxSize(level + 1)
        BY <1>1, <3>2, MaxSizes, ShapeAssumption
      <4>3. Cardinality(victims) <= 2 * MaxSize(level)
        BY <1>4, <1>5, <2>1, <2>5, <4>1 DEF RoomFor, WithinLimit
      <4>4. Cardinality(toCompact') <= 2 * MaxSize(level + 1)
        BY <1>5, <2>2, <2>3, <4>2, <4>3
      <4> QED
        BY <1>1, <2>5, <4>4 DEF RoomFor
    <3> QED
      BY <3>1, <3>2
  <2> QED
    BY <2>4, <2>5, PickerAssumption
<1>9. Outputs' = {} /\ newSSTs' \in Nat
  BY <1>1, <1>2 DEF Outputs
<1>10. IsFiniteSet(Outputs') /\ Cardinality(Outputs') <= newSSTs'
  BY <1>9, FS_EmptySet
<1>11. ASSUME phase' = "merge", NEW l \in Level \ {NLevels - 1}
       PROVE  \/ WithinLimit(l)'
              \/ l = level' /\ Cardinality(ssts[l] \ toCompact)' <= MaxSize(l)
  BY <1>1, <1>3, <1>7, <1>11
<1>12. NLevels > 3 => Level0Max > 0
  BY <1>1 DEF LevelsInv
<1>13. CASE phase' = "merge"
  <2>1. Merging'
    BY <1>13 DEF Merging
  <2> QED
    BY <1>1, <1>8, <1>10, <1>11, <1>12, <1>13, <2>1 DEF LevelsInv
<1>14. CASE phase' = "aborted"
  BY <1>14 DEF LevelsInv, Merging
<1> QED
  BY <1>1, <1>13, <1>14

\* An output more at the next level.
LEMMA LevelsFinish ==
    ASSUME AllInv, LevelsInv, FinishSST
    PROVE  LevelsInv'
<1> USE DEF AllInv, SortedInv, Invs, TypeInv, TypeOK
<1> DEFINE new == [id |-> building, kvs |-> Chunk, persistTime |-> clock]
<1>1. /\ phase = "merge" /\ phase' \in {"merge", "remove"} /\ level \in Level /\ level + 1 \in Level
      /\ UNCHANGED <<picker, level, toCompact>>
      /\ newSSTs' = newSSTs + 1
      /\ ssts' = [ssts EXCEPT ![level + 1] = @ \cup {new}]
  BY DEF FinishSST, LevelInv
<1>2. /\ ssts'[level + 1] = ssts[level + 1] \cup {new}
      /\ \A l \in Level \ {level + 1} : ssts'[l] = ssts[l]
  BY <1>1
<1> HIDE DEF new
<1>3. Merging /\ Merging'
  BY <1>1 DEF Merging
<1>4. IsFiniteSet(Outputs') /\ Cardinality(Outputs') <= newSSTs'
  <2>1. Outputs' \subseteq Outputs \cup {new}
    BY <1>1, <1>2 DEF Outputs
  <2>2. IsFiniteSet(Outputs) /\ IsFiniteSet({new}) /\ Cardinality({new}) = 1
    BY <1>3, FS_Singleton DEF LevelsInv
  <2>3. /\ IsFiniteSet(Outputs \cup {new}) /\ Cardinality(Outputs) \in Nat
        /\ Cardinality(Outputs \cup {new}) \in Nat
        /\ Cardinality(Outputs \cup {new}) <= Cardinality(Outputs) + 1
    BY ONLY <2>2, UnionFits
  <2>4. /\ IsFiniteSet(Outputs') /\ Cardinality(Outputs') \in Nat
        /\ Cardinality(Outputs') <= Cardinality(Outputs \cup {new})
    BY <2>1, <2>3, FS_Subset, FS_CardinalityType
  <2>5. Cardinality(Outputs) <= newSSTs
    BY <1>3 DEF LevelsInv
  <2> QED
    BY <1>1, <2>3, <2>4, <2>5
<1>5. ASSUME NEW l \in Level \ {NLevels - 1}
      PROVE  \/ WithinLimit(l)'
             \/ l = level /\ Cardinality(ssts[l] \ toCompact)' <= MaxSize(l)
             \/ l = level + 1
  BY <1>1, <1>2, <1>3, <1>5 DEF LevelsInv, WithinLimit
<1>6. level + 1 # NLevels - 1 => RoomFor(Cardinality(toCompact), level + 1)'
  BY <1>1, <1>3 DEF LevelsInv, RoomFor
<1>7. NLevels > 3 => Level0Max > 0
  BY <1>1 DEF LevelsInv
<1> QED
  BY <1>1, <1>3, <1>4, <1>5, <1>6, <1>7 DEF LevelsInv

\* An input less at either level.
LEMMA LevelsRemove ==
    ASSUME AllInv, LevelsGrow, LevelsInv, RemoveSST
    PROVE  LevelsInv'
<1> USE DEF AllInv, SortedInv, Invs, TypeInv, TypeOK
<1>1. /\ phase = "remove" /\ level \in Level /\ level + 1 \in Level
      /\ UNCHANGED <<picker, level, toCompact, newSSTs, phase>>
  BY DEF RemoveSST, LevelInv
<1>2. PICK s \in NotYetRemoved : ssts' = [ssts EXCEPT ![level] = @ \ {s}, ![level + 1] = @ \ {s}]
  BY DEF RemoveSST, FirstOf
<1>3. \A l \in Level : ssts'[l] = ssts[l] \ {s}
  BY <1>1, <1>2, Gone DEF KeepInv
<1>4. Merging /\ Merging' /\ s \in toCompact
  BY <1>1, <1>2 DEF Merging, NotYetRemoved
<1>5. Outputs' = Outputs
  BY <1>1, <1>3, <1>4 DEF Outputs
<1>6. ASSUME NEW l \in Level
      PROVE  /\ IsFiniteSet(ssts[l]) /\ Cardinality(ssts[l]) \in Nat /\ Cardinality(ssts'[l]) \in Nat
             /\ Cardinality(ssts'[l]) <= Cardinality(ssts[l])
  <2>1. IsFiniteSet(ssts[l]) /\ ssts'[l] \subseteq ssts[l]
    BY <1>3 DEF SizesInv
  <2> QED
    BY <2>1, FS_Subset, FS_CardinalityType
<1>7. ASSUME NEW l \in Level \ {NLevels - 1}
      PROVE  \/ WithinLimit(l)'
             \/ l = level /\ Cardinality(ssts[l] \ toCompact)' <= MaxSize(l)
             \/ l = level + 1
  <2>1. CASE WithinLimit(l)
    <3>1. MaxSize(l) \in Nat
      BY <1>7, MaxSizes
    <3> QED
      BY <1>6, <2>1, <3>1 DEF WithinLimit
  <2>2. CASE l = level /\ Cardinality(ssts[l] \ toCompact) <= MaxSize(l)
    <3>1. ssts'[l] \ toCompact' = ssts[l] \ toCompact
      BY <1>1, <1>3, <1>4
    <3> QED
      BY <2>2, <3>1
  <2> QED
    BY <1>1, <1>4, <2>1, <2>2 DEF LevelsInv
<1>8. level + 1 # NLevels - 1 => RoomFor(Cardinality(toCompact), level + 1)'
  BY <1>1, <1>4 DEF LevelsInv, RoomFor
<1> QED
  BY <1>1, <1>4, <1>5, <1>7, <1>8 DEF LevelsInv

\* With the inputs gone, the level they came from is within its maximum, and the
\* outputs are no more than they were.
LEMMA LevelsEnd ==
    ASSUME AllInv, LevelsGrow, LevelsInv, EndMerge
    PROVE  LevelsInv'
<1> USE DEF AllInv, SortedInv, Invs, TypeInv, TypeOK
<1>1. /\ phase = "remove" /\ phase' \in {"aborted", "failed", "compact"}
      /\ NotYetRemoved = {} /\ level \in Level /\ level + 1 \in Level
      /\ level' = level + 1 /\ UNCHANGED <<ssts, picker>>
  BY DEF EndMerge, treeVars, LevelInv
<1>2. Merging /\ ~ Merging'
  BY <1>1 DEF Merging
<1>3. Outputs = ssts[level + 1] /\ ssts[level] \ toCompact = ssts[level]
  BY <1>1 DEF Outputs, NotYetRemoved
<1>4. \A l \in Level \ {level + 1, NLevels - 1} : WithinLimit(l)'
  BY <1>1, <1>2, <1>3 DEF LevelsInv, WithinLimit
<1>5. ASSUME level + 1 # NLevels - 1
      PROVE  RoomFor(Cardinality(ssts[level + 1]), level + 1)
  <2>1. RoomFor(Cardinality(toCompact), level + 1) /\ MaxSize(level + 1) \in Nat
    BY <1>1, <1>2, <1>5, MaxSizes DEF LevelsInv
  <2>2. Cardinality(ssts[level + 1]) <= newSSTs /\ newSSTs <= Cardinality(toCompact)
    BY <1>1, <1>2, <1>3 DEF LevelsInv, CountInv
  <2>3. Cardinality(ssts[level + 1]) \in Nat /\ Cardinality(toCompact) \in Nat
    BY <1>1, FS_CardinalityType DEF SizesInv, CountInv
  <2>4. Cardinality(ssts[level + 1]) <= Cardinality(toCompact)
    BY <2>2, <2>3
  <2>5. \A m \in Nat : Cardinality(toCompact) <= m => Cardinality(ssts[level + 1]) <= m
    BY <2>3, <2>4
  <2>6. MaxSize(level + 1) + 1 \in Nat /\ 2 * MaxSize(level + 1) \in Nat
    BY <2>1
  <2> QED
    BY <2>1, <2>5, <2>6 DEF RoomFor
<1>6. ASSUME NEW l \in Level \ {NLevels - 1}
      PROVE  \/ WithinLimit(l)'
             \/ l = level' /\ RoomFor(Cardinality(ssts[l]), l)'
  BY <1>1, <1>4, <1>5, <1>6 DEF RoomFor
<1>7. NLevels > 3 => Level0Max > 0
  BY <1>1 DEF LevelsInv
<1> QED
  BY <1>1, <1>2, <1>6, <1>7 DEF LevelsInv

LEMMA LevelsStep ==
    ASSUME AllInv, LevelsGrow, LevelsInv, [Next]_vars
    PROVE  LevelsInv'
<1>1. ASSUME NEW k \in Keys, Put(k)
      PROVE  LevelsInv'
  BY <1>1, LevelsFrame DEF Put, LevelsInv, Merging
<1>2. CASE FlushSST
  BY <1>2, LevelsFlush
<1>3. CASE StopCompaction
  <2>1. /\ phase = "compact" /\ phase' = "persist" /\ UNCHANGED <<ssts, picker>>
        /\ level = NLevels - 1 \/ WithinLimit(level)
    BY <1>3 DEF StopCompaction, treeVars
  <2>2. \A l \in Level \ {NLevels - 1} : WithinLimit(l)
    BY <2>1 DEF LevelsInv, Merging
  <2> QED
    BY <2>1, <2>2, LevelsFrame
<1>4. ASSUME NEW victims \in Victims(level), MoveToEmptyLevel(victims)
      PROVE  LevelsInv'
  BY <1>4, LevelsMove
<1>5. ASSUME NEW victims \in Victims(level), StartMerge(victims)
      PROVE  LevelsInv'
  BY <1>5, LevelsStart
<1>6. CASE FinishSST
  BY <1>6, LevelsFinish
<1>7. CASE RemoveSST
  BY <1>7, LevelsRemove
<1>8. CASE EndMerge
  BY <1>8, LevelsEnd
<1>9. CASE PersistManifest
  BY <1>9, LevelsFrame DEF PersistManifest, LevelsInv, Merging
<1>10. CASE UNCHANGED vars
  BY <1>10 DEF vars, treeVars, mergeVars, LevelsInv, WithinLimit, RoomFor, Merging, Outputs
<1> QED
  BY <1>1, <1>2, <1>3, <1>4, <1>5, <1>6, <1>7, <1>8, <1>9, <1>10
  DEF Next, PutStep, WorkloadDone

\* Once a Put has returned, every level but the last is within its maximum, and no
\* table has a mark, if levels grow in a tree of four or more.
THEOREM LevelsAreBounded ==
    ASSUME LevelsGrow
    PROVE  Spec => []LevelsBounded
<1>1. ASSUME Init
      PROVE  LevelsInv
  <2>1. /\ phase = "idle" /\ \A l \in Level : ssts[l] = {}
    BY <1>1 DEF Init, InitMemory
  <2>2. Cardinality({}) = 0 /\ \A l \in Level : MaxSize(l) \in Nat
    BY FS_EmptySet, MaxSizes
  <2> QED
    BY <2>1, <2>2 DEF LevelsInv, WithinLimit, Merging
<1>2. AllInv /\ LevelsInv /\ [Next]_vars => LevelsInv'
  BY LevelsStep
<1>3. ASSUME AllInv, LevelsInv
      PROVE  LevelsBounded
  <2>1. SUFFICES ASSUME phase = "idle"
                 PROVE  /\ \A l \in 0 .. NLevels - 2 : Cardinality(ssts[l]) <= MaxSize(l)
                        /\ marked = {}
    BY DEF LevelsBounded
  <2>2. marked = {}
    BY <1>3, <2>1 DEF AllInv, CleanInv, Merging
  <2>3. \A l \in Level \ {NLevels - 1} : WithinLimit(l)
    BY <1>3, <2>1 DEF LevelsInv, Merging
  <2>4. 0 .. NLevels - 2 \subseteq Level \ {NLevels - 1}
    BY ShapeAssumption DEF Level
  <2> QED
    BY <2>2, <2>3, <2>4 DEF WithinLimit
<1> QED
  BY <1>1, <1>2, <1>3, SortedInvariant, PTL DEF Spec

-----------------------------------------------------------------------------
(* A Put comes to an end *)

\* Where in a Put the process is, counted from its end, and what there is left to do there.
Stage ==
    CASE phase = "flush"   -> 3 * NLevels + 1
      [] phase = "compact" -> 3 * (NLevels - level)
      [] phase = "merge"   -> 3 * (NLevels - level) - 1
      [] phase = "remove"  -> 3 * (NLevels - level) - 2
      [] phase = "persist" -> 1
      [] OTHER -> 0

Left ==
    CASE phase = "merge"  -> Cardinality(todo)
      [] phase = "remove" -> Cardinality(NotYetRemoved)
      [] OTHER -> 0

Descends == Stage' < Stage \/ (Stage' = Stage /\ Left' < Left)

LEMMA StageAndLeft ==
    ASSUME AllInv
    PROVE  Stage \in Nat /\ Left \in Nat /\ level \in 0 .. NLevels - 1 /\ NLevels \in Nat
<1>1. level \in 0 .. NLevels - 1 /\ NLevels \in Nat
  BY ShapeAssumption DEF AllInv, Invs, TypeInv, TypeOK, Level
<1>2. Stage \in Nat
  BY <1>1 DEF Stage
<1>3. phase = "merge" => Cardinality(todo) \in Nat
  BY FS_CardinalityType DEF AllInv, SortedInv, SizesInv
<1>4. Cardinality(NotYetRemoved) \in Nat
  <2>1. NotYetRemoved \in SUBSET toCompact /\ IsFiniteSet(toCompact)
    BY DEF NotYetRemoved, AllInv, SortedInv, CountInv
  <2>2. IsFiniteSet(NotYetRemoved)
    BY <2>1, FS_Subset
  <2> QED
    BY <2>2, FS_CardinalityType
<1>5. Left \in Nat
  BY <1>3, <1>4 DEF Left
<1> QED
  BY <1>1, <1>2, <1>5

\* Each table a merge writes leaves it less to write.
LEMMA FinishDescends ==
    ASSUME AllInv, FinishSST
    PROVE  Descends
<1>1. /\ phase = "merge" /\ phase' \in {"merge", "remove"} /\ level' = level /\ todo' = todo \ Chunk
      /\ phase' = "remove" \/ phase' = "merge"
  BY DEF FinishSST
<1>2. level \in 0 .. NLevels - 1 /\ NLevels \in Nat
  BY StageAndLeft
<1>3. CASE phase' = "remove"
  <2>1. Stage = 3 * (NLevels - level) - 1
    BY <1>1 DEF Stage
  <2>2. Stage' = 3 * (NLevels - level) - 2
    BY <1>1, <1>3 DEF Stage
  <2> QED
    BY <1>2, <2>1, <2>2 DEF Descends
<1>4. CASE phase' = "merge"
  <2>1. /\ Chunk \subseteq todo /\ Chunk # {} /\ IsFiniteSet(Chunk)
        /\ Cardinality(todo \ Chunk) = Cardinality(todo) - Cardinality(Chunk)
    <3>1. TypeOK /\ IsFiniteSet(todo) /\ OneVersionOf(todo) /\ todo # {}
      BY <1>1 DEF AllInv, Invs, TypeInv, SortedInv, SizesInv, RecInv, SinglesInv
    <3> QED
      BY <3>1, ChunkOfTodo
  <2>2. Cardinality(Chunk) \in Nat \ {0}
    BY <2>1, FS_CardinalityType, FS_EmptySet
  <2>3. Cardinality(todo) \in Nat
    BY <1>1, FS_CardinalityType DEF AllInv, SortedInv, SizesInv
  <2>4. Left = Cardinality(todo) /\ Left' = Cardinality(todo \ Chunk)
    BY <1>1, <1>4 DEF Left
  <2>5. Stage' = Stage
    BY <1>1, <1>4 DEF Stage
  <2> QED
    BY <2>1, <2>2, <2>3, <2>4, <2>5 DEF Descends
<1> QED
  BY <1>1, <1>3, <1>4

\* And each table it removes leaves it less to remove.
LEMMA RemoveDescends ==
    ASSUME AllInv, RemoveSST
    PROVE  Descends
<1>1. PICK s \in FirstOf(NotYetRemoved) :
          ssts' = [ssts EXCEPT ![level] = @ \ {s}, ![level + 1] = @ \ {s}]
  BY DEF RemoveSST
<1>2. /\ phase = "remove" /\ phase' = "remove" /\ level' = level /\ toCompact' = toCompact
      /\ level \in Level /\ level + 1 \in Level /\ ssts \in [Level -> SUBSET SST]
  BY DEF RemoveSST, AllInv, Invs, TypeInv, TypeOK, LevelInv
<1>3. s \in NotYetRemoved
  BY <1>1 DEF FirstOf
<1>4. ssts'[level] = ssts[level] \ {s} /\ ssts'[level + 1] = ssts[level + 1] \ {s}
  <2>1. level \in Int /\ level + 1 # level
    BY <1>2, ShapeAssumption DEF Level
  <2> QED
    BY <1>1, <1>2, <2>1
<1>5. NotYetRemoved' = NotYetRemoved \ {s}
  BY <1>2, <1>4 DEF NotYetRemoved
<1>6. IsFiniteSet(NotYetRemoved)
  <2>1. NotYetRemoved \in SUBSET toCompact /\ IsFiniteSet(toCompact)
    BY DEF NotYetRemoved, AllInv, SortedInv, CountInv
  <2> QED
    BY <2>1, FS_Subset
<1>7. /\ Cardinality(NotYetRemoved \ {s}) = Cardinality(NotYetRemoved) - 1
      /\ Cardinality(NotYetRemoved) \in Nat
  BY <1>3, <1>6, FS_RemoveElement, FS_CardinalityType
<1>8. Left = Cardinality(NotYetRemoved) /\ Left' = Cardinality(NotYetRemoved \ {s})
  BY <1>2, <1>5 DEF Left
<1>9. Stage' = Stage
  BY <1>2 DEF Stage
<1> QED
  BY <1>7, <1>8, <1>9 DEF Descends

\* Every step of a Put brings it nearer to its end, so that no compaction goes on for ever,
\* however many levels are too large: what PutReturns says, but for the steps being taken.
THEOREM PutsDescend ==
    Spec => [][phase # "idle" => Stage \in Nat /\ Left \in Nat /\ Descends]_vars
<1>1. ASSUME AllInv, Next, phase # "idle"
      PROVE  Stage \in Nat /\ Left \in Nat /\ Descends
  <2>1. Stage \in Nat /\ Left \in Nat /\ level \in 0 .. NLevels - 1 /\ NLevels \in Nat
    BY <1>1, StageAndLeft
  <2>2. CASE FlushSST
    <3>1. phase = "flush" /\ phase' \in {"idle", "compact", "aborted"} /\ level' = 0
      BY <2>2 DEF FlushSST, AfterFlush
    <3>2. Stage = 3 * NLevels + 1 /\ (Stage' = 0 \/ Stage' = 3 * (NLevels - 0))
      BY <3>1 DEF Stage
    <3> QED
      BY <2>1, <3>2 DEF Descends
  <2>3. CASE StopCompaction \/ \E victims \in Victims(level) : MoveToEmptyLevel(victims)
    <3>1. phase = "compact" /\ phase' \in {"persist", "aborted"}
      BY <2>3 DEF StopCompaction, MoveToEmptyLevel, TooLarge
    <3>2. Stage = 3 * (NLevels - level) /\ (Stage' = 0 \/ Stage' = 1)
      BY <3>1 DEF Stage
    <3> QED
      BY <2>1, <3>2 DEF Descends
  <2>4. CASE \E victims \in Victims(level) : StartMerge(victims)
    <3>1. phase = "compact" /\ phase' \in {"merge", "aborted"} /\ level' = level
      BY <2>4 DEF StartMerge, TooLarge
    <3>2. Stage = 3 * (NLevels - level) /\ (Stage' = 0 \/ Stage' = 3 * (NLevels - level) - 1)
      BY <3>1 DEF Stage
    <3> QED
      BY <2>1, <3>2 DEF Descends
  <2>5. CASE EndMerge
    <3>1. phase = "remove" /\ phase' \in {"compact", "aborted", "failed"} /\ level' = level + 1
      BY <2>5 DEF EndMerge
    <3>2. Stage = 3 * (NLevels - level) - 2 /\ (Stage' = 0 \/ Stage' = 3 * (NLevels - (level + 1)))
      BY <3>1 DEF Stage
    <3> QED
      BY <2>1, <3>2 DEF Descends
  <2>6. CASE PersistManifest
    <3>1. phase = "persist" /\ phase' = "idle"
      BY <2>6 DEF PersistManifest
    <3>2. Stage = 1 /\ Stage' = 0
      BY <3>1 DEF Stage
    <3> QED
      BY <2>1, <3>2 DEF Descends
  <2>7. CASE FinishSST
    BY <1>1, <2>1, <2>7, FinishDescends
  <2>8. CASE RemoveSST
    BY <1>1, <2>1, <2>8, RemoveDescends
  <2>9. PutStep
    BY <1>1 DEF Next, Put, WorkloadDone
  <2> QED
    BY <2>2, <2>3, <2>4, <2>5, <2>6, <2>7, <2>8, <2>9, Zenon DEF PutStep
<1>2. AllInv /\ [Next]_vars => [phase # "idle" => Stage \in Nat /\ Left \in Nat /\ Descends]_vars
  BY <1>1
<1> QED
  BY <1>2, SortedInvariant, PTL DEF Spec

=============================================================================

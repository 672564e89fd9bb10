--------------------------- MODULE LSMRestartProofs ---------------------------
(***************************************************************************)
(* Proofs about LSMFaults and LSMRestart, for every set of keys, every     *)
(* shape of the tree and either picker. Of a session with any number of    *)
(* failures: no key and no first version of one is lost and the abstract   *)
(* store is implemented, whatever fails and whenever the caller goes on;   *)
(* how far versions still age with depth; which files and names are left   *)
(* over; and what each failed Put, failed assert and stale mark goes back  *)
(* to. Of any number of sessions, crashes and failures, whatever the store *)
(* was to begin with: what CURRENT names can be recovered, no file is      *)
(* written to twice, no two live tables share an id, keys that are durable *)
(* stay so, and the manifest in memory agrees with the tables.             *)
(***************************************************************************)
EXTENDS LSMRestart, LSMFaults, LSMTreeProofs

-----------------------------------------------------------------------------
(* Failures.                                                               *)

FaultsTypeInv == FaultsTypeOK /\ LevelInv

\* A failure is counted.
LEMMA FaultType ==
    ASSUME FaultsTypeOK, NEW kind \in Kinds, Fault(kind)
    PROVE  errors' \in 0 .. MaxErrors /\ failures' \in SUBSET Kinds
BY ErrorsAssumption DEF FaultsTypeOK, Fault

\* A step of LSMFaults that is one of LSMTree keeps the types.
LEMMA FaultsTypeWorks ==
    ASSUME FaultsTypeInv, Works
    PROVE  FaultsTypeInv'
<1>1. TypeInv'
  BY TypeStep DEF FaultsTypeInv, FaultsTypeOK, TypeInv, Works
<1>2. stale' \in SUBSET Manifests
  BY DEF FaultsTypeInv, FaultsTypeOK, Works
<1> QED
  BY <1>1, <1>2 DEF FaultsTypeInv, FaultsTypeOK, TypeInv, Works

\* Each failure, and a caller that goes on, keeps the types.
LEMMA FaultsTypeFails ==
    ASSUME FaultsTypeInv, Fails \/ GoOn
    PROVE  FaultsTypeInv'
<1> USE DEF FaultsTypeInv, FaultsTypeOK, TypeOK, LevelInv
<1>1. 0 \in Level /\ level \in Level
  BY ShapeAssumption DEF Level
<1>2. CASE FlushFails
  BY <1>2, FaultType DEF FlushFails, MaybeTick, treeVars, storageVars, mergeVars, Phase, Kinds
<1>3. CASE MergeFails
  BY <1>1, <1>3, FaultType DEF MergeFails, MaybeTick, GivesUp, treeVars, storageVars, Phase, Kinds
<1>4. CASE ReadFails
  BY <1>4, FaultType DEF ReadFails, treeVars, storageVars, mergeVars, Phase, Kinds
<1>5. CASE UnlinkFails
  <2>1. level + 1 \in Level
    BY <1>5 DEF UnlinkFails
  <2>2. ssts' \in [Level -> SUBSET SST] /\ marked' \in SUBSET Nat
    BY <1>1, <1>5, <2>1 DEF UnlinkFails
  <2>3. errors' \in 0 .. MaxErrors /\ failures' \in SUBSET Kinds
    BY <1>5, FaultType DEF UnlinkFails, Kinds
  <2> QED
    BY <1>1, <1>5, <2>2, <2>3 DEF UnlinkFails, GivesUp, storageVars, Phase
<1>6. CASE PersistFails
  <2>1. LiveIds \in [Level -> SUBSET Nat]
    BY DEF LiveIds, Ids, SST
  <2>2. errors' \in 0 .. MaxErrors /\ failures' \in SUBSET Kinds
    BY <1>6, FaultType DEF PersistFails, Kinds
  <2> QED
    BY <1>1, <1>6, <2>1, <2>2 DEF PersistFails, ManifestAfterFailure, storageVars, Phase
<1>7. CASE GoOn
  BY <1>1, <1>7 DEF GoOn, treeVars, storageVars, Phase
<1> QED
  BY <1>2, <1>3, <1>4, <1>5, <1>6, <1>7 DEF Fails

\* Every variable of LSMFaults has its type in every reachable state.
THEOREM FaultsTypeInvariant == FaultsSpec => []FaultsTypeInv
<1>1. FaultsInit => FaultsTypeInv
  BY ShapeAssumption, ErrorsAssumption
  DEF FaultsInit, NoFailures, Init, InitMemory, FaultsTypeInv, FaultsTypeOK, TypeOK, LevelInv, Level, Phase
<1>2. FaultsTypeInv /\ [FaultsNext]_faultVars => FaultsTypeInv'
  <2>1. ASSUME FaultsTypeInv, UNCHANGED faultVars
        PROVE  FaultsTypeInv'
    BY <2>1 DEF faultVars, vars, treeVars, storageVars, mergeVars, FaultsTypeInv, FaultsTypeOK,
                TypeOK, LevelInv
  <2> QED
    BY <2>1, FaultsTypeWorks, FaultsTypeFails DEF FaultsNext, Dead
<1> QED
  BY <1>1, <1>2, PTL DEF FaultsSpec

\* The type invariant of LSMFaults.
THEOREM FaultsTypeCorrect == FaultsSpec => []FaultsTypeOK
<1>1. FaultsTypeInv => FaultsTypeOK
  BY DEF FaultsTypeInv
<1> QED
  BY <1>1, FaultsTypeInvariant, PTL

-----------------------------------------------------------------------------
(* What is kept *)

\* A failed unlink takes a table out of the tree as a removal does, and leaves its file.
LEMMA TreeFails ==
    ASSUME TypeInv, TreeInv, Fails \/ GoOn
    PROVE  TreeInv'
<1>1. CASE FlushFails
  BY <1>1, TreeFrame DEF FlushFails, treeVars, storageVars
<1>2. CASE MergeFails
  BY <1>2, TreeFrame DEF MergeFails, GivesUp, treeVars, storageVars
<1>3. CASE ReadFails
  BY <1>3, TreeFrame DEF ReadFails, treeVars, storageVars
<1>4. CASE UnlinkFails
  <2>1. PICK s \in FirstOf(NotYetRemoved) :
          ssts' = [ssts EXCEPT ![level] = @ \ {s}, ![level + 1] = @ \ {s}]
    BY <1>4 DEF UnlinkFails
  <2>2. phase = "remove" /\ phase' = "failed" /\ files' = files
    BY <1>4 DEF UnlinkFails, GivesUp, storageVars
  <2>3. s \in NotYetRemoved
    BY <2>1 DEF FirstOf
  <2>4. \A l \in Level : ssts'[l] = ssts[l] \ {s}
    BY <2>1, <2>2, <2>3, Gone DEF TreeInv
  <2> QED
    BY <2>2, <2>4 DEF TreeInv, FileInv, MergeInv
<1>5. CASE PersistFails
  BY <1>5, TreeFrame DEF PersistFails, storageVars
<1>6. CASE GoOn
  BY <1>6, TreeFrame DEF GoOn, treeVars, storageVars
<1> QED
  BY <1>1, <1>2, <1>3, <1>4, <1>5, <1>6 DEF Fails

\* It loses no version that is not held elsewhere.
LEMMA KeepUnlinkFails ==
    ASSUME TypeInv, KeepInv, UnlinkFails
    PROVE  KeepInv'
<1> USE DEF TypeInv, TypeOK, KeepInv
<1>1. PICK s \in FirstOf(NotYetRemoved) :
        ssts' = [ssts EXCEPT ![level] = @ \ {s}, ![level + 1] = @ \ {s}]
  BY DEF UnlinkFails
<1>2. phase = "remove" /\ todo' = {} /\ UNCHANGED <<memTable, clock, written>>
  BY DEF UnlinkFails, GivesUp
<1>3. s \in NotYetRemoved
  BY <1>1 DEF FirstOf
<1>4. FirstInv' /\ \A l \in Level : ssts'[l] = ssts[l] \ {s}
  BY <1>1, <1>2, <1>3, Removable
<1>5. WrittenInv'
  BY <1>2, <1>4 DEF WrittenInv
<1>6. FileInv' /\ MergeInv'
  BY TreeFails DEF Fails, TreeInv
<1> QED
  BY <1>4, <1>5, <1>6

\* No failure loses the oldest version of a key.
LEMMA KeepFails ==
    ASSUME TypeInv, KeepInv, Fails \/ GoOn
    PROVE  KeepInv'
<1>1. CASE FlushFails
  BY <1>1, KeepFrame DEF FlushFails, MaybeTick, treeVars, storageVars, mergeVars
<1>2. CASE MergeFails
  BY <1>2, KeepFrame DEF MergeFails, MaybeTick, GivesUp, treeVars, storageVars
<1>3. CASE ReadFails
  BY <1>3, KeepFrame DEF ReadFails, treeVars, storageVars, mergeVars
<1>4. CASE UnlinkFails
  BY <1>4, KeepUnlinkFails
<1>5. CASE PersistFails
  BY <1>5, KeepFrame DEF PersistFails, storageVars
<1>6. CASE GoOn
  BY <1>6, KeepFrame DEF GoOn, treeVars, storageVars
<1> QED
  BY <1>1, <1>2, <1>3, <1>4, <1>5, <1>6 DEF Fails

\* The invariant of a session without failures holds with them.
THEOREM FaultsKeepInvariant == FaultsSpec => []KeepInv
<1>1. FaultsInit => KeepInv
  BY KeepInit DEF FaultsInit
<1>2. FaultsTypeInv /\ KeepInv /\ [FaultsNext]_faultVars => KeepInv'
  <2> SUFFICES ASSUME FaultsTypeInv, KeepInv, [FaultsNext]_faultVars
               PROVE  KeepInv'
    OBVIOUS
  <2>1. TypeInv
    BY DEF FaultsTypeInv, FaultsTypeOK, TypeInv
  <2>2. CASE Works
    BY <2>1, <2>2, KeepStep DEF Works
  <2>3. CASE Fails \/ GoOn
    BY <2>1, <2>3, KeepFails
  <2>4. CASE UNCHANGED faultVars
    BY <2>1, <2>4, KeepStep DEF faultVars
  <2> QED
    BY <2>2, <2>3, <2>4 DEF FaultsNext, Dead
<1> QED
  BY <1>1, <1>2, FaultsTypeInvariant, PTL DEF FaultsSpec

\* Whatever fails, each key that was put can be read and every version the store
\* holds was put.
THEOREM KeysAreKeptDespiteFailures == FaultsSpec => []KeysKept
<1>1. FaultsTypeInv /\ KeepInv => KeysKept
  BY KeysFound DEF FaultsTypeInv, FaultsTypeOK, TypeInv
<1> QED
  BY <1>1, FaultsTypeInvariant, FaultsKeepInvariant, PTL

\* Whatever fails, the first version of a key is not lost.
THEOREM FirstVersionIsKeptDespiteFailures == FaultsSpec => []FirstVersionKept
<1>1. FaultsTypeInv /\ KeepInv => FirstVersionKept
  BY FirstVersionHeld DEF FaultsTypeInv, FaultsTypeOK, TypeInv
<1> QED
  BY <1>1, FaultsTypeInvariant, FaultsKeepInvariant, PTL

-----------------------------------------------------------------------------
(* Files and manifests *)

Acts == Works \/ Fails \/ GoOn

\* No two files have one name, and the file being built is empty until it is full.
FilesInv ==
    /\ \A f, g \in files : f.id = g.id => f = g
    /\ phase \in {"flush", "merge"} => BuildingFile \in files

\* A table leaves the tree.
Removes == phase = "remove" /\ ssts' # ssts

\* What a step may do to files: fill the file being built, remove one with its table,
\* create one with a new name.
FilesChange ==
    /\ \A f \in files : f \in files' \/ (phase \in {"flush", "merge"} /\ f = BuildingFile) \/ Removes
    /\ \A g \in files' : \/ g \in files
                         \/ phase \in {"flush", "merge"} /\ g.id = building
                         \/ g.id \notin Ids(files)
    /\ phase' \in {"flush", "merge"} => building' \notin Ids(files)

\* A new file.
LEMMA NewFileChange ==
    ASSUME ctr \in Nat, NEW fs, fs \in SUBSET File, NewEmptySST(fs),
           \A f, g \in fs : f.id = g.id => f = g
    PROVE  /\ \A f, g \in files' : f.id = g.id => f = g
           /\ BuildingFile' \in files'
           /\ files' = fs \cup {BuildingFile'} /\ building' \notin Ids(fs)
<1>1. files' = fs \cup {BuildingFile'} /\ building' \notin Ids(fs)
  BY NewFile DEF BuildingFile
<1> QED
  BY <1>1 DEF BuildingFile, Ids

\* A file is filled.
LEMMA PersistedChange ==
    ASSUME FilesInv, phase \in {"flush", "merge"}, NEW kvs
    PROVE  /\ \A f, g \in Persisted(files, kvs) : f.id = g.id => f = g
           /\ \A f \in files : f \in Persisted(files, kvs) \/ f = BuildingFile
           /\ \A g \in Persisted(files, kvs) : g \in files \/ g.id = building
           /\ Ids(Persisted(files, kvs)) = Ids(files)
<1>1. BuildingFile \in files /\ \A f \in files : f.id = building => f = BuildingFile
  BY DEF FilesInv, BuildingFile
<1>2. Ids(Persisted(files, kvs)) = Ids(files) \cup {building}
  BY PersistedIds
<1>3. building \in Ids(files)
  BY <1>1 DEF Ids, BuildingFile
<1>4. Ids(Persisted(files, kvs)) = Ids(files)
  BY <1>2, <1>3
<1>5. \A f \in files : f \in Persisted(files, kvs) \/ f = BuildingFile
  BY <1>1 DEF Persisted
<1>6. \A g \in Persisted(files, kvs) : \/ g \in files /\ g.id # building
                                      \/ g = [id |-> building, kvs |-> kvs]
  BY DEF Persisted
<1>7. \A f, g \in Persisted(files, kvs) : f.id = g.id => f = g
  BY <1>6 DEF FilesInv
<1>8. \A g \in Persisted(files, kvs) : g \in files \/ g.id = building
  BY <1>6
<1> QED
  BY <1>4, <1>5, <1>7, <1>8

\* No step does more, failures included.
LEMMA FilesStep ==
    ASSUME TypeInv, FilesInv, Acts
    PROVE  FilesInv' /\ FilesChange
<1> USE DEF TypeInv, TypeOK
<1>1. ASSUME UNCHANGED files, phase' \notin {"flush", "merge"}
      PROVE  FilesInv' /\ FilesChange
  BY <1>1 DEF FilesInv, FilesChange
<1>2. ASSUME NEW k \in Keys, Put(k)
      PROVE  FilesInv' /\ FilesChange
  <2>1. phase = "idle"
    BY <1>2 DEF Put
  <2>2. CASE UNCHANGED <<phase, files, ctr, building>>
    BY <1>1, <2>1, <2>2
  <2>3. CASE phase' = "flush" /\ NewEmptySST(files)
    BY <2>3, NewFileChange DEF FilesInv, FilesChange, Ids, BuildingFile
  <2> QED
    BY <1>2, <2>2, <2>3 DEF Put
<1>3. CASE FlushSST
  <2>1. phase = "flush" /\ phase' \in {"idle", "compact", "aborted"} /\ files' = Persisted(files, memTable)
    BY <1>3 DEF FlushSST, AfterFlush
  <2> QED
    BY <2>1, PersistedChange DEF FilesInv, FilesChange
<1>4. ASSUME NEW victims \in Victims(level), MoveToEmptyLevel(victims)
      PROVE  FilesInv' /\ FilesChange
  BY <1>1, <1>4 DEF MoveToEmptyLevel, storageVars
<1>5. ASSUME NEW victims \in Victims(level), StartMerge(victims)
      PROVE  FilesInv' /\ FilesChange
  <2>1. phase = "compact" /\ phase' \in {"merge", "aborted"}
    BY <1>5 DEF StartMerge, TooLarge
  <2>2. CASE NewEmptySST(files)
    BY <2>1, <2>2, NewFileChange DEF FilesInv, FilesChange, Ids, BuildingFile
  <2>3. CASE UNCHANGED files /\ phase' = "aborted"
    BY <1>1, <2>3
  <2> QED
    BY <1>5, <2>2, <2>3 DEF StartMerge
<1>6. CASE FinishSST
  <2> DEFINE done == Persisted(files, Chunk)
  <2>1. /\ phase = "merge"
        /\ \/ UNCHANGED phase /\ NewEmptySST(done)
           \/ phase' = "remove" /\ files' = done
    BY <1>6 DEF FinishSST
  <2>2. /\ \A f, g \in done : f.id = g.id => f = g
        /\ \A f \in files : f \in done \/ f = BuildingFile
        /\ \A g \in done : g \in files \/ g.id = building
        /\ Ids(done) = Ids(files)
    BY <2>1, PersistedChange
  <2>3. done \in SUBSET File
    BY PersistedType DEF Chunk, FirstEntries
  <2> HIDE DEF done
  <2>4. CASE UNCHANGED phase /\ NewEmptySST(done)
    <3>1. /\ \A f, g \in files' : f.id = g.id => f = g
          /\ BuildingFile' \in files'
          /\ files' = done \cup {BuildingFile'} /\ building' \notin Ids(files)
      BY <2>2, <2>3, <2>4, NewFileChange
    <3>2. BuildingFile'.id = building'
      BY DEF BuildingFile
    <3> QED
      BY <2>1, <2>2, <2>4, <3>1, <3>2 DEF FilesInv, FilesChange
  <2>5. CASE phase' = "remove" /\ files' = done
    BY <2>1, <2>2, <2>5 DEF FilesInv, FilesChange
  <2> QED
    BY <2>1, <2>4, <2>5
<1>7. CASE RemoveSST
  <2>1. PICK s \in FirstOf(NotYetRemoved) :
          /\ ssts' = [ssts EXCEPT ![level] = @ \ {s}, ![level + 1] = @ \ {s}]
          /\ files' = RemainingFiles(s)
    BY <1>7 DEF RemoveSST
  <2>2. phase = "remove" /\ phase' = "remove" /\ files' \subseteq files /\ level + 1 \in Level
    BY <1>7, <2>1 DEF RemoveSST, RemainingFiles, LevelInv
  <2>3. ssts' # ssts
    <3>1. s \in ssts[level] \cup ssts[level + 1]
      BY <2>1 DEF FirstOf, NotYetRemoved
    <3>2. s \notin ssts'[level + 1] /\ s \notin ssts'[level]
      BY <2>1, <2>2
    <3> QED
      BY <3>1, <3>2
  <2> QED
    BY <2>2, <2>3 DEF FilesInv, FilesChange, Removes
<1>8. ASSUME StopCompaction \/ EndMerge \/ PersistManifest \/ WorkloadDone
      PROVE  FilesInv' /\ FilesChange
  <2>1. UNCHANGED files /\ phase' \notin {"flush", "merge"}
    BY <1>8 DEF StopCompaction, EndMerge, PersistManifest, WorkloadDone, vars, storageVars
  <2> QED
    BY <1>1, <2>1
<1>9. ASSUME Fails \/ GoOn
      PROVE  FilesInv' /\ FilesChange
  <2>1. UNCHANGED files /\ phase' \notin {"flush", "merge"}
    BY <1>9 DEF Fails, FlushFails, MergeFails, ReadFails, UnlinkFails, PersistFails, GoOn, GivesUp, storageVars
  <2> QED
    BY <1>1, <2>1
<1> QED
  BY <1>2, <1>3, <1>4, <1>5, <1>6, <1>7, <1>8, <1>9 DEF Acts, Works, Next, PutStep

\* A live table stays one, but for a table that a merge removes.
LEMMA LiveStep ==
    ASSUME TypeInv, Acts, ~ Removes
    PROVE  LiveSSTs \subseteq LiveSSTs'
<1> USE DEF TypeInv, TypeOK
<1>1. CASE UNCHANGED ssts
  BY <1>1 DEF LiveSSTs
<1>2. CASE FlushSST
  BY <1>2 DEF FlushSST, LiveSSTs
<1>3. ASSUME NEW victims \in Victims(level), MoveToEmptyLevel(victims)
      PROVE  LiveSSTs \subseteq LiveSSTs'
  <2> DEFINE moved == Moved(victims)
  <2>1. /\ level \in Level /\ level + 1 \in Level /\ ssts[level + 1] = {}
        /\ ssts' = [ssts EXCEPT ![level] = @ \ moved, ![level + 1] = moved]
    BY <1>3, ShapeAssumption DEF MoveToEmptyLevel, TooLarge, Level
  <2> HIDE DEF moved
  <2>2. \A l \in Level : \A s \in ssts[l] : \E i \in Level : s \in ssts'[i]
    BY <2>1
  <2> QED
    BY <2>2 DEF LiveSSTs
<1>4. CASE FinishSST
  BY <1>4 DEF FinishSST, LiveSSTs
<1>5. Acts => \/ UNCHANGED ssts \/ FlushSST \/ FinishSST \/ Removes
              \/ \E victims \in Victims(level) : MoveToEmptyLevel(victims)
  BY DEF Acts, Works, Next, PutStep, Put, StopCompaction, StartMerge, RemoveSST, EndMerge, PersistManifest,
         WorkloadDone, vars, treeVars, Fails, FlushFails, MergeFails, ReadFails, UnlinkFails,
         PersistFails, GoOn, Removes
<1> QED
  BY <1>1, <1>2, <1>3, <1>4, <1>5

\* A table that becomes live has its file.
LEMMA NewTablesHaveFiles ==
    ASSUME TypeInv, Acts
    PROVE  \A s \in LiveSSTs' : s \in LiveSSTs \/ [id |-> s.id, kvs |-> s.kvs] \in files'
<1> USE DEF TypeInv, TypeOK
<1>1. CASE FlushSST
  <2>1. \A s \in LiveSSTs' : s \in LiveSSTs \/ s = [id |-> building, kvs |-> memTable, persistTime |-> clock]
    BY <1>1, ShapeAssumption DEF FlushSST, LiveSSTs, Level
  <2> QED
    BY <1>1, <2>1 DEF FlushSST, Persisted
<1>2. CASE FinishSST
  <2>1. \A s \in LiveSSTs' : s \in LiveSSTs \/ s = [id |-> building, kvs |-> Chunk, persistTime |-> clock]
    <3>1. level + 1 \in Level
      BY <1>2 DEF FinishSST, LevelInv
    <3>2. ssts' = [ssts EXCEPT ![level + 1] = @ \cup {[id |-> building, kvs |-> Chunk, persistTime |-> clock]}]
      BY <1>2 DEF FinishSST
    <3> QED
      BY <3>1, <3>2 DEF LiveSSTs
  <2>2. Persisted(files, Chunk) \subseteq files'
    BY <1>2 DEF FinishSST, NewEmptySST
  <2>3. [id |-> building, kvs |-> Chunk] \in files'
    BY <2>2 DEF Persisted
  <2> QED
    BY <2>1, <2>3
<1>3. ASSUME NEW victims \in Victims(level), MoveToEmptyLevel(victims)
      PROVE  LiveSSTs' \subseteq LiveSSTs
  <2>1. /\ level \in Level /\ level + 1 \in Level
        /\ ssts' = [ssts EXCEPT ![level] = @ \ Moved(victims), ![level + 1] = Moved(victims)]
        /\ Moved(victims) \subseteq ssts[level]
    BY <1>3, ShapeAssumption DEF MoveToEmptyLevel, TooLarge, Level, Moved
  <2> QED
    BY <2>1 DEF LiveSSTs
<1>4. ASSUME RemoveSST \/ UnlinkFails
      PROVE  LiveSSTs' \subseteq LiveSSTs
  <2>1. level + 1 \in Level
    BY <1>4 DEF RemoveSST, UnlinkFails, LevelInv
  <2>2. PICK s : ssts' = [ssts EXCEPT ![level] = @ \ {s}, ![level + 1] = @ \ {s}]
    BY <1>4 DEF RemoveSST, UnlinkFails
  <2> QED
    BY <2>1, <2>2 DEF LiveSSTs
<1>5. CASE UNCHANGED ssts
  BY <1>5 DEF LiveSSTs
<1>6. Acts => \/ UNCHANGED ssts \/ FlushSST \/ FinishSST \/ RemoveSST \/ UnlinkFails
              \/ \E victims \in Victims(level) : MoveToEmptyLevel(victims)
  BY DEF Acts, Works, Next, PutStep, Put, StopCompaction, StartMerge, EndMerge, PersistManifest,
         WorkloadDone, vars, treeVars, Fails, FlushFails, MergeFails, ReadFails, PersistFails, GoOn
<1> QED
  BY <1>1, <1>2, <1>3, <1>4, <1>5, <1>6

\* A live table keeps its file.
LEMMA LiveFilesStep ==
    ASSUME TypeInv, TreeInv, FilesInv, TablesHaveFiles, Acts
    PROVE  TablesHaveFiles'
<1>1. SUFFICES ASSUME NEW s \in LiveSSTs, s \in LiveSSTs'
               PROVE  [id |-> s.id, kvs |-> s.kvs] \in files'
  BY NewTablesHaveFiles DEF TablesHaveFiles
<1> DEFINE f == [id |-> s.id, kvs |-> s.kvs]
<1>2. f \in files /\ f.id = s.id
  BY DEF TablesHaveFiles
<1> HIDE DEF f
<1>3. f # BuildingFile \/ phase \notin {"flush", "merge"}
  BY <1>2 DEF BuildingFile, TreeInv, FileInv, LiveSSTs
<1>4. CASE ~ Removes
  BY <1>2, <1>3, <1>4, FilesStep DEF FilesChange, f
<1>5. CASE Removes
  <2>1. Removes => RemoveSST \/ UnlinkFails
    BY DEF Removes, Acts, Works, Next, PutStep, Put, FlushSST, StopCompaction, MoveToEmptyLevel, StartMerge,
           TooLarge, FinishSST, EndMerge, PersistManifest, WorkloadDone, vars, treeVars,
           Fails, FlushFails, MergeFails, ReadFails, PersistFails, GoOn
  <2>2. CASE UnlinkFails
    BY <1>2, <2>2 DEF UnlinkFails, storageVars, f
  <2>3. CASE RemoveSST
    <3>1. PICK gone \in FirstOf(NotYetRemoved) :
            /\ ssts' = [ssts EXCEPT ![level] = @ \ {gone}, ![level + 1] = @ \ {gone}]
            /\ files' = RemainingFiles(gone)
      BY <2>3 DEF RemoveSST
    <3>2. \A l \in Level : ssts'[l] = ssts[l] \ {gone}
      BY <2>3, <3>1, Gone DEF RemoveSST, FirstOf, TreeInv
    <3>3. gone \in LiveSSTs
      <4>1. level \in Level /\ level + 1 \in Level
        BY <2>3 DEF RemoveSST, LevelInv, TypeInv, TypeOK
      <4>2. gone \in ssts[level] \cup ssts[level + 1]
        BY <3>1 DEF FirstOf, NotYetRemoved
      <4> QED
        BY <4>1, <4>2 DEF LiveSSTs
    <3>5. gone # s
      BY <1>1, <3>2 DEF LiveSSTs
    <3>4. gone.id # s.id
      BY <3>3, <3>5 DEF TreeInv, FileInv, LiveSSTs
    <3> QED
      BY <1>2, <3>1, <3>4 DEF RemainingFiles, f
  <2> QED
    BY <1>5, <2>1, <2>2, <2>3
<1> QED
  BY <1>4, <1>5

MemoryNames  == "inMemory" \notin stale => NamesLive(manifest)
StorageNames == "onStorage" \notin stale => NamesLive(current)

\* Only a removal takes from a level what a manifest names, and it is stale then.
LEMMA RemovesStale ==
    ASSUME Acts, Removes
    PROVE  stale' = Manifests
BY DEF Removes, Acts, Works, Fails, FlushFails, MergeFails, ReadFails, UnlinkFails, PersistFails, GoOn, treeVars

\* Outside of Persist, a manifest does not become current.
LEMMA StaleStep ==
    ASSUME Acts, phase # "persist"
    PROVE  stale' \in {stale, Manifests} /\ current' = current
<1>1. stale' \in {stale, Manifests}
  BY DEF Acts, Works, Fails, FlushFails, MergeFails, ReadFails, UnlinkFails, PersistFails, GoOn
<1>2. current' = current
  BY DEF Acts, Works, Next, PutStep, Put, FlushSST, StopCompaction,
         MoveToEmptyLevel, StartMerge, FinishSST, RemoveSST, EndMerge, PersistManifest, WorkloadDone, vars,
         storageVars, Fails, FlushFails, MergeFails, ReadFails, UnlinkFails, PersistFails, GoOn
<1> QED
  BY <1>1, <1>2

\* What Persist does, whether it succeeds or not.
LEMMA PersistStep ==
    ASSUME Acts, phase = "persist"
    PROVE  /\ manifest' = LiveIds /\ UNCHANGED <<ssts, files>>
           /\ \/ PersistManifest /\ current' = LiveIds /\ phase' = "idle" /\ stale' = {}
              \/ /\ PersistFails /\ current' = current /\ phase' = "failed"
                 /\ stale' = stale \ {"inMemory"}
<1>1. (PersistManifest /\ Works) \/ PersistFails
  BY DEF Acts, Works, Next, PutStep, Put, FlushSST, StopCompaction,
         MoveToEmptyLevel, StartMerge, TooLarge, FinishSST, RemoveSST, EndMerge, WorkloadDone,
         Fails, FlushFails, MergeFails, ReadFails, UnlinkFails, GoOn
<1>2. CASE PersistManifest /\ Works
  BY <1>2 DEF PersistManifest, Works
<1>3. CASE PersistFails
  BY <1>3 DEF PersistFails, ManifestAfterFailure, storageVars
<1> QED
  BY <1>1, <1>2, <1>3

\* Outside of Persist the manifest in memory changes with a flush only, which adds
\* the table it adds to the tree.
LEMMA ManifestStep ==
    ASSUME TypeInv, Acts, phase # "persist"
    PROVE  \/ manifest' = manifest
           \/ /\ phase = "flush" /\ building \in Ids(LiveSSTs')
              /\ manifest' = [manifest EXCEPT ![0] = @ \cup {building}]
<1> USE DEF TypeInv, TypeOK
<1>1. CASE FlushSST
  <2> DEFINE new == [id |-> building, kvs |-> memTable, persistTime |-> clock]
  <2>1. manifest' = [manifest EXCEPT ![0] = @ \cup {building}] /\ 0 \in Level /\ phase = "flush"
    BY <1>1, ShapeAssumption DEF FlushSST, Level
  <2>2. new \in LiveSSTs' /\ new.id = building
    BY <1>1, <2>1 DEF FlushSST, LiveSSTs
  <2> HIDE DEF new
  <2>3. building \in Ids(LiveSSTs')
    BY <2>2 DEF Ids
  <2> QED
    BY <2>1, <2>3
<1>2. manifest' = manifest \/ FlushSST
  BY DEF Acts, Works, Next, PutStep, Put, StopCompaction,
         MoveToEmptyLevel, StartMerge, FinishSST, RemoveSST, EndMerge, PersistManifest, WorkloadDone, vars,
         treeVars, Fails, FlushFails, MergeFails, ReadFails, UnlinkFails, PersistFails, GoOn
<1> QED
  BY <1>1, <1>2

\* Outside of removals, a name of a live table stays one.
LEMMA LiveIdsStep ==
    ASSUME TypeInv, Acts, ~ Removes
    PROVE  Ids(LiveSSTs) \subseteq Ids(LiveSSTs')
BY LiveStep DEF Ids

\* The manifest in memory.
LEMMA MemoryNamesStep ==
    ASSUME TypeInv, MemoryNames, Acts
    PROVE  MemoryNames'
<1> USE DEF TypeInv, TypeOK
<1>1. CASE Removes
  BY <1>1, RemovesStale DEF MemoryNames, Manifests
<1>2. CASE ~ Removes /\ phase # "persist"
  <2>1. Ids(LiveSSTs) \subseteq Ids(LiveSSTs') /\ stale' \in {stale, Manifests}
    BY <1>2, LiveIdsStep, StaleStep
  <2>2. CASE manifest' = manifest
    BY <2>1, <2>2 DEF MemoryNames, NamesLive, Manifests
  <2>3. CASE /\ manifest' = [manifest EXCEPT ![0] = @ \cup {building}]
             /\ building \in Ids(LiveSSTs')
    <3>1. UNION {manifest'[l] : l \in Level} \subseteq (UNION {manifest[l] : l \in Level}) \cup {building}
      BY <2>3
    <3> QED
      BY <2>1, <2>3, <3>1 DEF MemoryNames, NamesLive, Manifests
  <2> QED
    BY <1>2, <2>2, <2>3, ManifestStep
<1>3. CASE phase = "persist"
  BY <1>3, PersistStep DEF MemoryNames, NamesLive, LiveIds, Ids, LiveSSTs
<1> QED
  BY <1>1, <1>2, <1>3

\* The manifest on storage.
LEMMA StorageNamesStep ==
    ASSUME TypeInv, StorageNames, Acts
    PROVE  StorageNames'
<1>1. CASE Removes
  BY <1>1, RemovesStale DEF StorageNames, Manifests
<1>2. CASE ~ Removes /\ phase # "persist"
  BY <1>2, LiveIdsStep, StaleStep DEF StorageNames, NamesLive, Manifests
<1>3. CASE phase = "persist" /\ current' = LiveIds
  BY <1>3, PersistStep DEF StorageNames, NamesLive, LiveIds, Ids, LiveSSTs
<1>4. CASE phase = "persist" /\ current' = current /\ stale' = stale \ {"inMemory"}
  BY <1>4, PersistStep DEF StorageNames, NamesLive, LiveSSTs
<1> QED
  BY <1>1, <1>2, <1>3, <1>4, PersistStep

FaultsFileInv == KeepInv /\ FilesInv /\ TablesHaveFiles /\ ManifestsNameLive

\* What a failure leaves on storage, in every reachable state.
THEOREM FaultsFileInvariant == FaultsSpec => []FaultsFileInv
<1>1. FaultsInit => FaultsFileInv
  <2> SUFFICES ASSUME FaultsInit
               PROVE  FaultsFileInv
    OBVIOUS
  <2>1. LiveSSTs = {} /\ files = {} /\ phase = "idle"
    BY DEF FaultsInit, Init, InitMemory, LiveSSTs
  <2>2. NamesLive(manifest) /\ NamesLive(current)
    BY DEF FaultsInit, Init, InitMemory, NamesLive
  <2> QED
    BY <2>1, <2>2, KeepInit DEF FaultsInit, FaultsFileInv, FilesInv, TablesHaveFiles, ManifestsNameLive
<1>2. FaultsTypeInv /\ FaultsFileInv /\ KeepInv' /\ [FaultsNext]_faultVars => FaultsFileInv'
  <2> SUFFICES ASSUME FaultsTypeInv, FaultsFileInv, KeepInv', [FaultsNext]_faultVars
               PROVE  FaultsFileInv'
    OBVIOUS
  <2>1. TypeInv /\ TreeInv
    BY DEF FaultsTypeInv, FaultsTypeOK, TypeInv, FaultsFileInv, KeepInv, TreeInv
  <2>2. CASE Acts
    BY <2>1, <2>2, FilesStep, LiveFilesStep, MemoryNamesStep, StorageNamesStep
    DEF FaultsFileInv, ManifestsNameLive, MemoryNames, StorageNames
  <2>3. CASE UNCHANGED faultVars \/ Dead
    <3>1. UNCHANGED <<ssts, files, phase, building, manifest, current, stale>>
      BY <2>3 DEF Dead, faultVars, vars, treeVars, storageVars, mergeVars
    <3> QED
      BY <3>1 DEF FaultsFileInv, FilesInv, BuildingFile, TablesHaveFiles, LiveSSTs, ManifestsNameLive, NamesLive
  <2> QED
    BY <2>2, <2>3 DEF FaultsNext, Acts
<1> QED
  BY <1>1, <1>2, FaultsTypeInvariant, FaultsKeepInvariant, PTL DEF FaultsSpec

\* Whatever fails, every live table has its file, with its content.
THEOREM TablesKeepTheirFiles == FaultsSpec => []TablesHaveFiles
BY FaultsFileInvariant, PTL DEF FaultsFileInv

\* Whatever fails, a manifest written since the last removal names live tables only.
THEOREM ManifestsNameLiveTables == FaultsSpec => []ManifestsNameLive
BY FaultsFileInvariant, PTL DEF FaultsFileInv

-----------------------------------------------------------------------------
(* The order of the versions *)

\* A merge that gives up leaves the inputs it has not removed frozen: they keep their
\* marks, and what it wrote stays beside them.
LEMMA RecGivesUp ==
    ASSUME Invs, Merging, NEW gone \in SUBSET NotYetRemoved,
           \A l \in Level : ssts'[l] = ssts[l] \ gone, marked' = marked \ Ids(gone),
           UNCHANGED <<memTable, picker>>, clock' \in {clock, clock + 1},
           phase' \in {"failed", "aborted"}
    PROVE  RecInv'
<1> USE DEF Invs, RecInv, TypeInv, TypeOK
<1>1. /\ ~ Merging' /\ memTable = {} /\ phase # "aborted" /\ Level \subseteq Nat
      /\ level \in Level /\ level + 1 \in Level /\ phase' \notin {"compact", "merge", "remove", "persist"}
  BY ShapeAssumption DEF Merging, SinglesInv, LevelInv, Level
<1>2. \A s \in LiveSSTs : s \in toCompact <=> s \in NotYetRemoved
  BY <1>1 DEF InputsInv, NotYetRemoved, LiveSSTs
<1>3. gone \subseteq LiveSSTs /\ LiveSSTs' = LiveSSTs \ gone
  BY <1>1 DEF NotYetRemoved, LiveSSTs
<1>4. \A s \in LiveSSTs' : s.id \in marked' <=> s.id \in marked
  <2>1. \A s, t \in LiveSSTs : s.id = t.id => s = t
    BY DEF KeepInv, FileInv, LiveSSTs
  <2> QED
    BY <1>3, <2>1 DEF Ids
<1>5. \A s \in LiveSSTs' : s \in Frozen' <=> (s \in Frozen \/ s \in toCompact)
  <2>1. \A s \in LiveSSTs : s.id \in marked <=> (s \in Frozen \/ s \in toCompact)
    BY <1>2 DEF Frozen, MarksInv
  <2> QED
    BY <1>1, <1>3, <1>4, <2>1 DEF Frozen
<1>6. \A l \in Level : \A s \in ssts'[l] : s \in ssts[l] /\ s \in LiveSSTs'
  BY DEF LiveSSTs
<1>7. FrozenStay
  <2>1. \A s \in Frozen : s \notin gone
    BY <1>1, <1>2, <1>3 DEF Frozen
  <2>2. ASSUME NEW l \in Level, NEW f \in ssts[l], f \in Frozen
        PROVE  f \in ssts'[l] /\ f \in Frozen'
    <3>1. f \in ssts'[l]
      BY <2>1, <2>2
    <3> QED
      BY <1>5, <1>6, <2>2, <3>1
  <2> QED
    BY <2>2 DEF FrozenStay
<1>8. /\ \A p : InFrozen(p) => InFrozen(p)'
      /\ \A p : \A j : InFrozenBelow(p, j) => InFrozenBelow(p, j)'
  BY <1>7, FrozenKept
<1>9. SinglesInv' /\ MemTableNewest' /\ InputsInv' /\ PendingInv'
  BY <1>1, <1>6 DEF SinglesInv, OneVersionOf, MemTableNewest, InputsInv, PendingInv, Merging
<1>10. TimesInv' /\ Level0Ordered'
  <2>1. 0 \in Level
    BY ShapeAssumption DEF Level
  <2>2. \A l \in Level : \A s \in ssts[l] : s.persistTime \in Nat /\ s.persistTime < clock
    BY DEF TimesInv, SST
  <2> QED
    BY <1>6, <2>1, <2>2 DEF TimesInv, Level0Ordered
<1>11. MarksInv'
  <2>1. marked' \subseteq Ids(LiveSSTs')
    BY <1>3 DEF MarksInv, Ids
  <2>2. 0 \in Level
    BY ShapeAssumption DEF Level
  <2> QED
    BY <1>1, <1>4, <1>6, <2>1, <2>2 DEF MarksInv
<1>12. RunInv'
  <2>1. ASSUME NEW l \in Level \ {0}, l = level + 1, NEW s \in ssts'[l], NEW t \in ssts'[l],
               s \in toCompact, t \notin toCompact
        PROVE  s \in Frozen' /\ t \notin Frozen' /\ Supersedes(t, s)'
    <3>1. s \in Frozen'
      BY <1>5, <1>6, <2>1
    <3>2. t \notin Frozen
      BY <1>1, <1>6, <2>1 DEF MarksInv, Frozen
    <3>3. t \notin Frozen'
      BY <1>5, <1>6, <2>1, <3>2
    <3>4. ASSUME NEW p \in s.kvs, NEW r \in t.kvs, p.key = r.key
          PROVE  r.ts <= p.ts /\ InFrozen(r)'
      <4>1. r.ts <= p.ts /\ (r = p \/ InFrozen(r))
        BY <1>6, <2>1, <3>4 DEF InputsInv
      <4>2. InFrozen(p)'
        BY <3>1 DEF InFrozen
      <4> QED
        BY <1>8, <4>1, <4>2
    <3> QED
      BY <3>1, <3>3, <3>4 DEF Supersedes
  <2>2. ASSUME NEW l \in Level \ {0}, NEW s \in ssts'[l], NEW t \in ssts'[l],
               s \in Frozen, t \notin Frozen, Supersedes(t, s)
        PROVE  s \in Frozen' /\ t \notin Frozen' /\ Supersedes(t, s)'
    <3>1. s \in Frozen'
      BY <1>5, <1>6, <2>2
    <3>2. ~ (l <= level + 1)
      BY <1>6, <2>2 DEF MarksInv, Frozen
    <3>3. t \notin toCompact
      BY <1>1, <1>6, <3>2 DEF InputsInv
    <3>4. t \notin Frozen'
      BY <1>5, <1>6, <2>2, <3>3
    <3> QED
      BY <1>8, <2>2, <3>1, <3>4 DEF Supersedes
  <2> SUFFICES ASSUME NEW l \in Level \ {0}, NEW s \in ssts'[l], NEW t \in ssts'[l]
               PROVE  \/ s = t
                      \/ KeysDisjoint(s, t)
                      \/ s \in Frozen' /\ t \notin Frozen' /\ Supersedes(t, s)'
                      \/ t \in Frozen' /\ s \notin Frozen' /\ Supersedes(s, t)'
    BY DEF RunInv, KeysDisjoint
  <2>3. \/ s = t
        \/ KeysDisjoint(s, t)
        \/ l = level + 1 /\ (s \in toCompact \/ t \in toCompact)
                         /\ ~ (s \in toCompact /\ t \in toCompact)
        \/ s \in Frozen /\ t \notin Frozen /\ Supersedes(t, s)
        \/ t \in Frozen /\ s \notin Frozen /\ Supersedes(s, t)
    BY <1>1, <1>6 DEF RunInv
  <2> QED
    BY <2>1, <2>2, <2>3
<1>13. LevelsOrdered'
  <2> SUFFICES ASSUME NEW i \in Level, NEW j \in Level, i < j, NEW s \in ssts'[i], NEW t \in ssts'[j],
                      NEW p \in s.kvs, NEW q \in t.kvs, p.key = q.key
               PROVE  Ages(s, j, p, q)'
    BY DEF LevelsOrdered
  <2>1. Ages(s, j, p, q)
    BY <1>6 DEF LevelsOrdered
  <2>2. s \in toCompact => InFrozen(p)'
    BY <1>5, <1>6 DEF InFrozen
  <2> QED
    BY <1>8, <2>1, <2>2 DEF Ages
<1> QED
  BY <1>9, <1>10, <1>11, <1>12, <1>13

\* Whatever fails, what is kept of the order holds on.
LEMMA RecFails ==
    ASSUME Invs, Fails \/ GoOn
    PROVE  RecInv'
<1>1. CASE FlushFails
  BY <1>1, RecFrame DEF FlushFails, MaybeTick, treeVars, mergeVars, Merging
<1>2. CASE ReadFails /\ phase # "merge"
  BY <1>2, RecFrame DEF ReadFails, TooLarge, treeVars, mergeVars, Merging
<1>3. CASE PersistFails
  BY <1>3, RecFrame DEF PersistFails, Merging
<1>4. CASE GoOn
  BY <1>4, RecFrame DEF GoOn, treeVars, Merging
<1>5. CASE MergeFails \/ (ReadFails /\ phase = "merge")
  <2>1. /\ Merging /\ UNCHANGED <<memTable, ssts, marked, picker>> /\ clock' \in {clock, clock + 1}
        /\ phase' \in {"failed", "aborted"}
    BY <1>5 DEF MergeFails, ReadFails, MaybeTick, GivesUp, treeVars, mergeVars, Merging
  <2>2. {} \subseteq NotYetRemoved /\ Ids({}) = {}
    BY DEF Ids
  <2>3. \A l \in Level : ssts'[l] = ssts[l] \ {}
    BY <2>1
  <2>4. marked' = marked \ Ids({})
    BY <2>1, <2>2
  <2> QED
    BY <2>1, <2>2, <2>3, <2>4, RecGivesUp
<1>6. CASE UnlinkFails
  <2>1. PICK s \in FirstOf(NotYetRemoved) :
          /\ ssts' = [ssts EXCEPT ![level] = @ \ {s}, ![level + 1] = @ \ {s}]
          /\ marked' = marked \ {s.id}
    BY <1>6 DEF UnlinkFails
  <2>2. /\ phase = "remove" /\ Merging /\ phase' = "failed"
        /\ UNCHANGED <<memTable, picker, clock, written>>
    BY <1>6 DEF UnlinkFails, GivesUp, Merging
  <2>3. s \in NotYetRemoved
    BY <2>1 DEF FirstOf
  <2>4. \A l \in Level : ssts'[l] = ssts[l] \ {s}
    BY <2>1, <2>2, <2>3, Removable DEF Invs
  <2>5. Ids({s}) = {s.id} /\ {s} \subseteq NotYetRemoved
    BY <2>3 DEF Ids
  <2>6. marked' = marked \ Ids({s})
    BY <2>1, <2>5
  <2> QED
    BY <2>2, <2>4, <2>5, <2>6, RecGivesUp
<1> QED
  BY <1>1, <1>2, <1>3, <1>4, <1>5, <1>6 DEF Fails

\* A session whose merges have all ended.
MergesEnded == failures \cap {"merge", "unlink", "read"} = {}

\* A failure outside of merges leaves no mark.
LEMMA CleanFails ==
    ASSUME Invs, Invs', CleanInv, FlushFails \/ PersistFails \/ GoOn
    PROVE  CleanInv'
<1>1. /\ UNCHANGED marked /\ ~ Merging /\ ~ Merging'
      /\ phase # "aborted"
  BY DEF FlushFails, PersistFails, GoOn, mergeVars, Merging
<1>2. marked' = {}
  BY <1>1 DEF CleanInv
<1>3. Frozen' = {}
  BY <1>2 DEF Frozen
<1>4. RecencyOrder'
  BY <1>3, OrderedStrictly
<1> QED
  BY <1>1, <1>2, <1>4 DEF CleanInv

\* A failed merge is remembered.
LEMMA MergesEndedStep ==
    ASSUME Acts, MergesEnded'
    PROVE  MergesEnded /\ (Works \/ FlushFails \/ PersistFails \/ GoOn)
BY DEF Acts, Works, Fails, FlushFails, MergeFails, ReadFails, UnlinkFails, PersistFails, GoOn, Fault, MergesEnded

FaultsRecInv == RecInv /\ (MergesEnded => CleanInv)

\* The invariant of the order holds whatever fails; and nothing is frozen, and the order
\* strict, until a merge has failed.
THEOREM FaultsRecInvariant == FaultsSpec => []FaultsRecInv
<1>1. FaultsInit => FaultsRecInv
  BY RecInit, CleanInit DEF FaultsInit, FaultsRecInv
<1>2. FaultsTypeInv /\ FaultsTypeInv' /\ KeepInv /\ KeepInv' /\ FaultsRecInv /\ [FaultsNext]_faultVars => FaultsRecInv'
  <2> SUFFICES ASSUME FaultsTypeInv, FaultsTypeInv', KeepInv, KeepInv', FaultsRecInv, [FaultsNext]_faultVars
               PROVE  FaultsRecInv'
    OBVIOUS
  <2>1. Invs /\ TypeInv'
    BY DEF FaultsTypeInv, FaultsTypeOK, TypeInv, Invs, FaultsRecInv
  <2>2. CASE Acts
    <3>1. RecInv'
      BY <2>1, <2>2, RecStep, RecFails DEF Acts, Works
    <3>2. Invs'
      BY <2>1, <3>1 DEF Invs
    <3>3. ASSUME MergesEnded'
          PROVE  CleanInv'
      <4>1. CleanInv /\ (Works \/ FlushFails \/ PersistFails \/ GoOn)
        BY <2>2, <3>3, MergesEndedStep DEF FaultsRecInv
      <4> QED
        BY <2>1, <3>2, <4>1, CleanStep, CleanFails DEF Works
    <3> QED
      BY <3>1, <3>3 DEF FaultsRecInv
  <2>3. CASE UNCHANGED faultVars \/ Dead
    <3>1. UNCHANGED vars /\ (MergesEnded' <=> MergesEnded)
      BY <2>3 DEF Dead, faultVars, MergesEnded
    <3>2. RecInv'
      BY <2>1, <3>1, RecStep
    <3>3. Invs'
      BY <2>1, <3>2 DEF Invs
    <3> QED
      BY <2>1, <3>1, <3>2, <3>3, CleanStep DEF FaultsRecInv
  <2> QED
    BY <2>2, <2>3 DEF FaultsNext, Acts
<1> QED
  BY <1>1, <1>2, FaultsTypeInvariant, FaultsKeepInvariant, PTL DEF FaultsSpec

\* Whatever fails, versions age with depth, but for copies that a failed merge has left
\* marked.
THEOREM AgesWithDepthDespiteFailures == FaultsSpec => []AgesWithDepth
<1>1. FaultsTypeInv /\ KeepInv /\ FaultsRecInv => AgesWithDepth
  <2> SUFFICES ASSUME FaultsTypeInv, KeepInv, FaultsRecInv
               PROVE  AgesWithDepth
    OBVIOUS
  <2>1. Invs
    BY DEF FaultsTypeInv, FaultsTypeOK, TypeInv, Invs, FaultsRecInv
  <2>2. MemTableNewest /\ Level0Ordered
    BY <2>1 DEF Invs, RecInv
  <2>3. ASSUME NEW i \in Level, NEW j \in Level, i < j, NEW s \in ssts[i], NEW t \in ssts[j],
               NEW p \in s.kvs, NEW q \in t.kvs, p.key = q.key
        PROVE  \/ q.ts < p.ts
               \/ q.ts = p.ts /\ phase \in {"merge", "remove"} /\ s \in toCompact
               \/ /\ ~ MergesEnded
                  /\ (q.ts = p.ts /\ MarkedFrom(p, 0)) \/ MarkedFrom(p, j + 1)
    <3>1. Level \subseteq Nat /\ p.ts \in Nat /\ q.ts \in Nat
      BY <2>1, <2>3, VersionTypes, ShapeAssumption DEF Invs, Level
    <3>2. CASE MergesEnded
      <4>1. q.ts <= p.ts /\ (q.ts = p.ts => phase \in {"merge", "remove"} /\ s \in toCompact)
        BY <2>3, <3>2 DEF FaultsRecInv, CleanInv, RecencyOrder
      <4> QED
        BY <3>1, <4>1
    <3>3. CASE ~ MergesEnded
      <4>1. Ages(s, j, p, q)
        BY <2>1, <2>3 DEF Invs, RecInv, LevelsOrdered
      <4>2. InFrozen(p) => MarkedFrom(p, 0)
        BY <3>1 DEF InFrozen, Frozen, LiveSSTs, MarkedFrom
      <4>3. InFrozenBelow(p, j) => MarkedFrom(p, j + 1)
        BY <3>1 DEF InFrozenBelow, Frozen, MarkedFrom
      <4> QED
        BY <3>3, <4>1, <4>2, <4>3 DEF Ages, Merging
    <3> QED
      BY <3>2, <3>3
  <2> QED
    BY <2>2, <2>3 DEF AgesWithDepth, MergesEnded
<1> QED
  BY <1>1, FaultsTypeInvariant, FaultsKeepInvariant, FaultsRecInvariant, PTL

\* What is read of a tree that fails is not newer than what was read before.
LEMMA RefinementFails ==
    ASSUME Invs, KeysKept, KeysKept', Fails \/ GoOn
    PROVE  Abstract!Maintain
<1>1. written' = written
  BY DEF Fails, FlushFails, MergeFails, ReadFails, UnlinkFails, PersistFails, GoOn
<1>2. ASSUME NEW k \in Keys
      PROVE  NotNewer(k)
  <2>1. CASE UNCHANGED <<memTable, ssts>>
    BY <1>2, <2>1, SameAnswers DEF Invs
  <2>2. CASE UnlinkFails
    <3>1. PICK s \in FirstOf(NotYetRemoved) :
            ssts' = [ssts EXCEPT ![level] = @ \ {s}, ![level + 1] = @ \ {s}]
      BY <2>2 DEF UnlinkFails
    <3>2. s \in NotYetRemoved /\ phase = "remove" /\ UNCHANGED <<memTable, written>>
      BY <2>2, <3>1 DEF FirstOf, UnlinkFails
    <3> QED
      BY <1>2, <3>1, <3>2, RemoveNoNewer
  <2>3. UNCHANGED <<memTable, ssts>> \/ UnlinkFails
    BY DEF Fails, FlushFails, MergeFails, ReadFails, PersistFails, GoOn, treeVars
  <2> QED
    BY <2>1, <2>2, <2>3
<1> QED
  BY <1>1, <1>2, MaintainFrom

\* Whatever fails, the tree does what module KVStore promises.
THEOREM FaultsImplementKVStore == FaultsSpec => ImplementsKVStore
<1>1. FaultsInit => Abstract!Init
  BY AbstractInit DEF FaultsInit
<1>2. FaultsTypeInv /\ KeepInv /\ RecInv /\ KeysKept /\ KeysKept' /\ [FaultsNext]_faultVars
        => [Abstract!Next]_<<written, [k \in Keys |-> GetResults(k)]>>
  <2> SUFFICES ASSUME FaultsTypeInv, KeepInv, RecInv, KeysKept, KeysKept', [FaultsNext]_faultVars
               PROVE  [Abstract!Next]_<<written, [k \in Keys |-> GetResults(k)]>>
    OBVIOUS
  <2>1. Invs
    BY DEF FaultsTypeInv, FaultsTypeOK, TypeInv, Invs
  <2>2. CASE Works \/ UNCHANGED vars
    BY <2>1, <2>2, RefinementStep DEF Works
  <2>3. CASE Fails \/ GoOn
    BY <2>1, <2>3, RefinementFails DEF Abstract!Next
  <2> QED
    BY <2>2, <2>3 DEF FaultsNext, Dead, faultVars
<1> QED
  BY <1>1, <1>2, FaultsTypeInvariant, FaultsKeepInvariant, FaultsRecInvariant,
     KeysAreKeptDespiteFailures, PTL
  DEF FaultsSpec, FaultsRecInv, ImplementsKVStore, Abstract!Spec

-----------------------------------------------------------------------------
(* What goes wrong, and why *)

\* The sizes and the order of the tables survive what is not a failure of a merge.
LEMMA SortedFails ==
    ASSUME AllInv, FlushFails \/ PersistFails \/ GoOn
    PROVE  SortedInv'
BY SortedFrame DEF FlushFails, PersistFails, GoOn, treeVars, mergeVars, Merging

FaultsAllInv == MergesEnded => AllInv

\* Until a merge has failed, all that is proved of a session without failures holds.
THEOREM FaultsAllInvariant == FaultsSpec => []FaultsAllInv
<1>1. FaultsInit => (MergesEnded => SortedInv)
  BY SortedInit DEF FaultsInit
<1>2. /\ FaultsTypeInv /\ KeepInv /\ FaultsRecInv /\ (MergesEnded => SortedInv)
      /\ [FaultsNext]_faultVars
      => (MergesEnded => SortedInv)'
  <2> SUFFICES ASSUME FaultsTypeInv, KeepInv, FaultsRecInv, MergesEnded => SortedInv,
                      [FaultsNext]_faultVars, MergesEnded'
               PROVE  SortedInv'
    OBVIOUS
  <2>1. Invs /\ (MergesEnded => AllInv)
    BY DEF FaultsTypeInv, FaultsTypeOK, TypeInv, Invs, FaultsRecInv, AllInv
  <2>2. CASE Acts
    BY <2>1, <2>2, MergesEndedStep, SortedStep, SortedFails DEF Works
  <2>3. CASE UNCHANGED faultVars \/ Dead
    <3>1. UNCHANGED vars /\ MergesEnded
      BY <2>3 DEF Dead, faultVars, MergesEnded
    <3> QED
      BY <2>1, <3>1, SortedStep
  <2> QED
    BY <2>2, <2>3 DEF FaultsNext, Acts
<1>3. FaultsTypeInv /\ KeepInv /\ FaultsRecInv /\ (MergesEnded => SortedInv) => FaultsAllInv
  BY DEF FaultsTypeInv, FaultsTypeOK, TypeInv, Invs, FaultsRecInv, AllInv, FaultsAllInv
<1> QED
  BY <1>1, <1>2, <1>3, FaultsTypeInvariant, FaultsKeepInvariant, FaultsRecInvariant, PTL DEF FaultsSpec

\* A read that fails ends the process, a Put fails only after a failure,
StopInv ==
    /\ phase = "failed" => failures # {}
    /\ "read" \in failures => phase = "aborted"

\* no assert fails until a merge has,
AssertInv == MergesEnded => phase # "aborted"

\* and the memtable is full in a flush, or after one has failed.
FullInv ==
    /\ IsFiniteSet(memTable)
    /\ phase = "flush" => Cardinality(memTable) = Limit
    /\ phase # "flush" /\ Cardinality(memTable) >= Limit => "flush" \in failures

\* A process works on in a Put or between two.
LEMMA WorksRunning ==
    ASSUME Works
    PROVE  phase \notin {"failed", "aborted"}
BY DEF Works, Next, PutStep, Put, FlushSST, StopCompaction, MoveToEmptyLevel, StartMerge, TooLarge,
       FinishSST, RemoveSST, EndMerge, PersistManifest, WorkloadDone

\* A compaction is refused after a failure only.
LEMMA StopInvStep ==
    ASSUME Limit > 1, FaultsAllInv, StopInv, Acts
    PROVE  StopInv'
<1>1. CASE Works
  <2>1. UNCHANGED failures /\ phase \notin {"failed", "aborted"}
    BY <1>1, WorksRunning DEF Works
  <2>2. ASSUME failures = {}
        PROVE  phase' # "failed"
    <3>1. AllInv
      BY <2>2 DEF FaultsAllInv, MergesEnded
    <3>2. EndMerge \/ phase' # "failed"
      BY <1>1, <2>1 DEF Works, Next, PutStep, Put, FlushSST, AfterFlush, StopCompaction, MoveToEmptyLevel,
         StartMerge, FinishSST, RemoveSST, PersistManifest, WorkloadDone, vars
    <3> QED
      BY <3>1, <3>2, EndCompacts
  <2> QED
    BY <2>1, <2>2 DEF StopInv
<1>2. CASE Fails
  BY <1>2 DEF Fails, FlushFails, MergeFails, ReadFails, UnlinkFails, PersistFails, GivesUp, Fault, StopInv, TooLarge
<1>3. CASE GoOn
  BY <1>3 DEF GoOn, StopInv
<1> QED
  BY <1>1, <1>2, <1>3 DEF Acts

\* An assert fails after a merge has.
LEMMA AssertInvStep ==
    ASSUME Limit > 1, Level0Max > 0, FaultsAllInv, AssertInv, Acts
    PROVE  AssertInv'
<1> SUFFICES ASSUME MergesEnded'
             PROVE  phase' # "aborted"
  BY DEF AssertInv
<1>1. MergesEnded /\ AllInv /\ (Works \/ FlushFails \/ PersistFails \/ GoOn)
  BY MergesEndedStep DEF FaultsAllInv
<1>2. CASE Works
  <2>1. NoAbort /\ Next
    BY <1>2, WorksRunning DEF NoAbort, Works
  <2>2. NoAbort'
    BY <1>1, <2>1, NoAbortStep
  <2> QED
    BY <2>2 DEF NoAbort
<1>3. CASE FlushFails \/ PersistFails \/ GoOn
  BY <1>3 DEF FlushFails, PersistFails, GoOn
<1> QED
  BY <1>1, <1>2, <1>3

\* One more version makes the memtable full at most.
LEMMA FullInvPut ==
    ASSUME FullInv, NEW k \in Keys, Put(k), UNCHANGED failures
    PROVE  FullInv'
<1> DEFINE new == [key |-> k, ts |-> clock]
<1>1. /\ phase = "idle"
      /\ \/ Cardinality(memTable') # Limit /\ phase' = "idle"
         \/ Cardinality(memTable') = Limit /\ phase' = "flush"
      /\ memTable' = memTable \/ memTable' = memTable \cup {new}
  BY DEF Put, Inserted
<1> HIDE DEF new
<1>2. IsFiniteSet(memTable)
  BY DEF FullInv
<1>3. /\ IsFiniteSet(memTable \cup {new})
      /\ \/ Cardinality(memTable \cup {new}) = Cardinality(memTable)
         \/ Cardinality(memTable \cup {new}) = Cardinality(memTable) + 1
  BY <1>2, FS_AddElement
<1>4. Cardinality(memTable) \in Nat
  BY <1>2, FS_CardinalityType
<1>5. /\ IsFiniteSet(memTable')
      /\ Cardinality(memTable') = Cardinality(memTable) \/ Cardinality(memTable') = Cardinality(memTable) + 1
  BY <1>1, <1>2, <1>3
<1>6. Cardinality(memTable) >= Limit => "flush" \in failures
  BY <1>1 DEF FullInv
<1> QED
  BY <1>1, <1>4, <1>5, <1>6, ShapeAssumption DEF FullInv

\* A memtable that is not flushed in time stays full.
LEMMA FullInvStep ==
    ASSUME FullInv, Acts
    PROVE  FullInv'
<1>1. ASSUME NEW k \in Keys, Put(k), UNCHANGED failures
      PROVE  FullInv'
  BY <1>1, FullInvPut
<1>2. CASE FlushSST
  <2>1. memTable' = {} /\ phase' # "flush"
    BY <1>2 DEF FlushSST, AfterFlush
  <2>2. IsFiniteSet({}) /\ Cardinality({}) = 0
    BY FS_EmptySet
  <2> QED
    BY <2>1, <2>2, ShapeAssumption DEF FullInv
<1>3. CASE FlushFails
  BY <1>3 DEF FlushFails, Fault, treeVars, FullInv
<1>4. ASSUME memTable' = memTable, phase # "flush", phase' # "flush", failures \subseteq failures'
      PROVE  FullInv'
  BY <1>4 DEF FullInv
<1>5. CASE MergeFails \/ ReadFails \/ UnlinkFails \/ PersistFails \/ GoOn
  <2>1. /\ memTable' = memTable /\ failures \subseteq failures'
        /\ phase # "flush" /\ phase' # "flush"
    BY <1>5 DEF MergeFails, ReadFails, UnlinkFails, PersistFails, GoOn, GivesUp, Fault, TooLarge, treeVars
  <2> QED
    BY <1>4, <2>1
<1>6. CASE Works
  <2>1. \/ \E k \in Keys : Put(k)
        \/ FlushSST
        \/ memTable' = memTable /\ phase # "flush" /\ phase' # "flush"
    BY <1>6 DEF Works, Next, PutStep, StopCompaction, MoveToEmptyLevel,
       StartMerge, TooLarge, FinishSST, RemoveSST, EndMerge, PersistManifest, WorkloadDone, vars, treeVars
  <2>2. UNCHANGED failures
    BY <1>6 DEF Works
  <2> QED
    BY <1>1, <1>2, <1>4, <2>1, <2>2
<1> QED
  BY <1>3, <1>5, <1>6 DEF Acts, Fails

\* The empty store is in no trouble.
LEMMA TroubleInit == FaultsInit => StopInv /\ AssertInv /\ FullInv
<1> SUFFICES ASSUME FaultsInit
             PROVE  StopInv /\ AssertInv /\ FullInv
  OBVIOUS
<1>1. phase = "idle" /\ failures = {} /\ memTable = {}
  BY DEF FaultsInit, NoFailures, Init, InitMemory
<1>2. IsFiniteSet({}) /\ Cardinality({}) = 0
  BY FS_EmptySet
<1> QED
  BY <1>1, <1>2, ShapeAssumption DEF StopInv, AssertInv, FullInv

\* With tables of two entries at least no Put fails, and no compaction is refused,
\* before an operation of the storage has failed.
THEOREM FailuresComeFirst ==
    ASSUME Limit > 1
    PROVE  FaultsSpec => []StopInv
<1>1. FaultsInit => StopInv
  BY TroubleInit
<1>2. FaultsAllInv /\ StopInv /\ [FaultsNext]_faultVars => StopInv'
  <2> SUFFICES ASSUME FaultsAllInv, StopInv, [FaultsNext]_faultVars
               PROVE  StopInv'
    OBVIOUS
  <2>1. CASE Acts
    BY <2>1, StopInvStep
  <2>2. CASE UNCHANGED faultVars \/ Dead
    BY <2>2 DEF Dead, faultVars, vars, StopInv
  <2> QED
    BY <2>1, <2>2 DEF FaultsNext, Acts
<1> QED
  BY <1>1, <1>2, FaultsAllInvariant, PTL DEF FaultsSpec

\* Every failed Put, every failed assert, every full memtable and every mark that stays
\* has its failure: with tables of two entries at least and room for one at level 0.
THEOREM TroubleIsExplained ==
    ASSUME Limit > 1, Level0Max > 0
    PROVE  FaultsSpec => []TroubleExplained
<1>1. FaultsInit => AssertInv /\ FullInv
  BY TroubleInit
<1>2. FaultsAllInv /\ AssertInv /\ FullInv /\ [FaultsNext]_faultVars => (AssertInv /\ FullInv)'
  <2> SUFFICES ASSUME FaultsAllInv, AssertInv, FullInv, [FaultsNext]_faultVars
               PROVE  AssertInv' /\ FullInv'
    OBVIOUS
  <2>1. CASE Acts
    BY <2>1, AssertInvStep, FullInvStep
  <2>2. CASE UNCHANGED faultVars \/ Dead
    BY <2>2 DEF Dead, faultVars, vars, treeVars, AssertInv, MergesEnded, FullInv
  <2> QED
    BY <2>1, <2>2 DEF FaultsNext, Acts
<1>3. FaultsAllInv /\ StopInv /\ AssertInv /\ FullInv => TroubleExplained
  <2> SUFFICES ASSUME FaultsAllInv, StopInv, AssertInv, FullInv
               PROVE  TroubleExplained
    OBVIOUS
  <2>1. phase = "failed" => failures # {}
    BY DEF StopInv
  <2>2. phase = "aborted" => failures \cap {"read", "merge", "unlink"} # {}
    BY DEF AssertInv, MergesEnded
  <2>3. phase = "idle" /\ Cardinality(memTable) >= Limit => "flush" \in failures
    BY DEF FullInv
  <2>4. phase = "idle" /\ marked # {} => failures \cap {"merge", "unlink"} # {}
    BY DEF FaultsAllInv, AllInv, CleanInv, MergesEnded, StopInv, Merging
  <2> QED
    BY <2>1, <2>2, <2>3, <2>4 DEF TroubleExplained
<1>4. FaultsSpec => []StopInv
  BY FailuresComeFirst
<1> QED
  BY <1>1, <1>2, <1>3, <1>4, FaultsAllInvariant, PTL DEF FaultsSpec

-----------------------------------------------------------------------------
(* Manifests without failures *)

\* Between compactions that did not fail, no manifest is stale.
FreshInv ==
    failures = {} => /\ NamedInv
                     /\ phase \in {"idle", "flush"} => stale = {}

LEMMA FreshInvStep ==
    ASSUME TypeInv, StopInv, FreshInv, Acts
    PROVE  FreshInv'
<1> SUFFICES ASSUME failures' = {}
             PROVE  NamedInv' /\ (phase' \in {"idle", "flush"} => stale' = {})
  BY DEF FreshInv
<1>1. Works \/ GoOn
  BY DEF Acts, Fails, FlushFails, MergeFails, ReadFails, UnlinkFails, PersistFails, Fault
<1>2. failures = {}
  BY <1>1 DEF Works, GoOn
<1>3. Works
  BY <1>1, <1>2 DEF GoOn, StopInv
<1>4. NamedInv'
  BY <1>2, <1>3, NamedStep DEF FreshInv, Works
<1>5. phase' \in {"idle", "flush"} => phase \in {"idle", "flush", "persist"}
  BY <1>3 DEF Works, Next, PutStep, Put, FlushSST, StopCompaction, MoveToEmptyLevel, StartMerge,
     FinishSST, RemoveSST, EndMerge, PersistManifest, WorkloadDone
<1>6. phase \in {"idle", "flush"} => stale' = stale
  BY <1>3 DEF Works
<1>7. phase = "persist" => stale' = {}
  BY <1>3 DEF Works
<1> QED
  BY <1>2, <1>4, <1>5, <1>6, <1>7 DEF FreshInv

\* A manifest written since the last removal names live tables only; and without failures,
\* with tables of two entries at least, the one in memory names the live tables between
\* Puts, and the one on storage all but those flushed since it was written.
THEOREM ManifestsAreSound ==
    ASSUME Limit > 1
    PROVE  FaultsSpec => []ManifestsSound
<1>1. FaultsInit => FreshInv
  <2>1. Init => NamedInv
    BY ShapeAssumption DEF Init, InitMemory, NamedInv, LiveIds, Ids, Level
  <2> QED
    BY <2>1 DEF FaultsInit, NoFailures, FreshInv
<1>2. FaultsTypeInv /\ StopInv /\ FreshInv /\ [FaultsNext]_faultVars => FreshInv'
  <2> SUFFICES ASSUME FaultsTypeInv, StopInv, FreshInv, [FaultsNext]_faultVars
               PROVE  FreshInv'
    OBVIOUS
  <2>1. CASE Acts
    BY <2>1, FreshInvStep DEF FaultsTypeInv, FaultsTypeOK, TypeInv
  <2>2. CASE UNCHANGED faultVars \/ Dead
    BY <2>2 DEF Dead, faultVars, vars, treeVars, storageVars, FreshInv, NamedInv, LiveIds
  <2> QED
    BY <2>1, <2>2 DEF FaultsNext, Acts
<1>3. ManifestsNameLive /\ FreshInv => ManifestsSound
  BY DEF FreshInv, NamedInv, ManifestsSound, DurableTables
<1>4. FaultsSpec => []StopInv
  BY FailuresComeFirst
<1> QED
  BY <1>1, <1>2, <1>3, <1>4, FaultsTypeInvariant, ManifestsNameLiveTables, PTL DEF FaultsSpec

-----------------------------------------------------------------------------
(* Files that are left over *)

\* The file being written, or that was when an assert ended the process.
Building == IF phase \in {"flush", "merge", "aborted"} THEN 1 ELSE 0

LeftInv == IsFiniteSet(Leftovers) /\ Cardinality(Leftovers) <= errors + Building

\* What is within a bound is within a greater one.
LEMMA AtMost ==
    ASSUME NEW c \in Nat, NEW e \in Nat, NEW b \in Nat, c <= e + b,
           NEW n \in {e, e + 1}, NEW x \in Nat, e + b <= n + x
    PROVE  c <= n + x
OBVIOUS

\* A set with one more element.
LEMMA OneMore ==
    ASSUME NEW S, IsFiniteSet(S), NEW x
    PROVE  /\ IsFiniteSet(S \cup {x})
           /\ Cardinality(S) \in Nat /\ Cardinality(S \cup {x}) \in Nat
           /\ Cardinality(S \cup {x}) <= Cardinality(S) + 1
<1>1. /\ IsFiniteSet(S \cup {x})
      /\ Cardinality(S \cup {x}) = IF x \in S THEN Cardinality(S) ELSE Cardinality(S) + 1
  BY FS_AddElement
<1>2. Cardinality(S) \in Nat /\ Cardinality(S \cup {x}) \in Nat
  BY <1>1, FS_CardinalityType
<1> QED
  BY <1>1, <1>2

\* One file more at most,
LEMMA LeftOneMore ==
    ASSUME errors \in Nat, LeftInv, NEW f, Leftovers' \subseteq Leftovers \cup {f},
           errors' + Building' = errors + Building + 1
    PROVE  LeftInv'
<1>1. IsFiniteSet(Leftovers)
  BY DEF LeftInv
<1>2. IsFiniteSet(Leftovers \cup {f}) /\ Cardinality(Leftovers \cup {f}) <= Cardinality(Leftovers) + 1
  BY <1>1, OneMore
<1>3. IsFiniteSet(Leftovers') /\ Cardinality(Leftovers') <= Cardinality(Leftovers \cup {f})
  BY <1>2, FS_Subset
<1>4. /\ Cardinality(Leftovers) \in Nat
      /\ Cardinality(Leftovers') \in Nat
      /\ Cardinality(Leftovers \cup {f}) \in Nat
  BY <1>1, <1>2, <1>3, FS_CardinalityType
<1>5. Building \in Nat /\ Building' \in Nat
  BY DEF Building
<1>6. Cardinality(Leftovers) <= errors + Building
  BY DEF LeftInv
<1>7. Cardinality(Leftovers') <= Cardinality(Leftovers) + 1
  BY ONLY <1>2, <1>3, <1>4
<1>8. Cardinality(Leftovers') <= errors + Building + 1
  BY ONLY <1>4, <1>5, <1>6, <1>7, errors \in Nat
<1>9. Cardinality(Leftovers') <= errors' + Building'
  BY ONLY <1>8, errors' + Building' = errors + Building + 1
<1> QED
  BY <1>3, <1>9 DEF LeftInv

\* none more,
LEMMA LeftNoMore ==
    ASSUME errors \in Nat, LeftInv, Leftovers' \subseteq Leftovers,
           errors' \in {errors, errors + 1}, errors + Building <= errors' + Building'
    PROVE  LeftInv'
<1>1. IsFiniteSet(Leftovers)
  BY DEF LeftInv
<1>2. IsFiniteSet(Leftovers') /\ Cardinality(Leftovers') <= Cardinality(Leftovers)
  BY <1>1, FS_Subset
<1>3. Cardinality(Leftovers) \in Nat /\ Cardinality(Leftovers') \in Nat
  BY <1>1, <1>2, FS_CardinalityType
<1>4. Building \in Nat /\ Building' \in Nat
  BY DEF Building
<1>5. Cardinality(Leftovers) <= errors + Building
  BY DEF LeftInv
<1>6. Cardinality(Leftovers') <= errors + Building
  BY ONLY <1>2, <1>3, <1>4, <1>5, errors \in Nat
<1>7. Cardinality(Leftovers') <= errors' + Building'
  BY ONLY <1>3, <1>4, <1>6, errors \in Nat, errors' \in {errors, errors + 1},
           errors + Building <= errors' + Building', AtMost
<1> QED
  BY <1>2, <1>7 DEF LeftInv

\* or one less.
LEMMA LeftOneLess ==
    ASSUME errors \in Nat, LeftInv, NEW f \in Leftovers, Leftovers' \subseteq Leftovers \ {f},
           errors' = errors, Building' >= Building - 1
    PROVE  LeftInv'
<1>1. IsFiniteSet(Leftovers)
  BY DEF LeftInv
<1>2. IsFiniteSet(Leftovers \ {f}) /\ Cardinality(Leftovers \ {f}) = Cardinality(Leftovers) - 1
  BY <1>1, FS_RemoveElement
<1>3. IsFiniteSet(Leftovers') /\ Cardinality(Leftovers') <= Cardinality(Leftovers \ {f})
  BY <1>2, FS_Subset
<1>4. Cardinality(Leftovers) \in Nat /\ Cardinality(Leftovers') \in Nat
  BY <1>1, <1>3, FS_CardinalityType
<1>5. Building \in Nat /\ Building' \in Nat
  BY DEF Building
<1> QED
  BY <1>2, <1>3, <1>4, <1>5 DEF LeftInv

\* The file being built is left over, should the process end.
LEMMA BuildingLeft ==
    ASSUME TreeInv, FilesInv, phase \in {"flush", "merge"}
    PROVE  BuildingFile \in Leftovers /\ \A f \in files : f.id = building => f = BuildingFile
<1>1. building \notin Ids(LiveSSTs)
  BY DEF TreeInv, FileInv, Ids, LiveSSTs
<1>2. BuildingFile \in files /\ BuildingFile.id = building
  BY DEF FilesInv, BuildingFile
<1> QED
  BY <1>1, <1>2 DEF Leftovers, FilesInv

\* A new file is left over until it belongs to a table.
LEMMA LeftCreate ==
    ASSUME TypeInv, FilesInv, LeftInv, errors \in Nat, NewEmptySST(files), UNCHANGED <<ssts, errors>>,
           phase \in {"idle", "compact"}, phase' \in {"flush", "merge", "aborted"}
    PROVE  LeftInv'
<1>1. files' = files \cup {BuildingFile'}
  BY NewFile DEF TypeInv, TypeOK, BuildingFile
<1>2. Leftovers' \subseteq Leftovers \cup {BuildingFile'}
  BY <1>1 DEF Leftovers, LiveSSTs
<1>3. errors' + Building' = errors + Building + 1
  BY DEF Building
<1> QED
  BY <1>2, <1>3, LeftOneMore

\* A flushed memtable is a table with a file.
LEMMA LeftFlush ==
    ASSUME TypeInv, TreeInv, FilesInv, LeftInv, errors \in Nat, FlushSST, UNCHANGED errors
    PROVE  LeftInv'
<1> USE DEF TypeInv, TypeOK
<1> DEFINE new == [id |-> building, kvs |-> memTable, persistTime |-> clock]
<1>1. /\ phase = "flush" /\ files' = Persisted(files, memTable)
      /\ ssts' = [ssts EXCEPT ![0] = @ \cup {new}]
  BY DEF FlushSST
<1>2. 0 \in Level /\ new.id = building
  BY ShapeAssumption DEF Level
<1> HIDE DEF new
<1>3. LiveSSTs' = LiveSSTs \cup {new}
  BY <1>1, <1>2 DEF LiveSSTs
<1>4. Ids(LiveSSTs') = Ids(LiveSSTs) \cup {building}
  BY <1>2, <1>3, IdsUnion
<1>5. Leftovers' \subseteq Leftovers \ {BuildingFile}
  BY <1>1, <1>4 DEF Leftovers, Persisted, BuildingFile
<1>6. BuildingFile \in Leftovers
  BY <1>1, BuildingLeft
<1>7. Building' >= Building - 1
  BY DEF Building
<1> QED
  BY <1>5, <1>6, <1>7, LeftOneLess

\* So is each output of a merge, and the next one takes the place of its file.
LEMMA LeftFinish ==
    ASSUME TypeInv, TreeInv, FilesInv, LeftInv, errors \in Nat, FinishSST, UNCHANGED errors
    PROVE  LeftInv'
<1> USE DEF TypeInv, TypeOK
<1> DEFINE new  == [id |-> building, kvs |-> Chunk, persistTime |-> clock]
           done == Persisted(files, Chunk)
<1>1. /\ phase = "merge" /\ level + 1 \in Level
      /\ ssts' = [ssts EXCEPT ![level + 1] = @ \cup {new}]
      /\ \/ phase' = "merge" /\ NewEmptySST(done)
         \/ phase' = "remove" /\ files' = done
  BY DEF FinishSST, LevelInv
<1>2. new.id = building
  BY DEF new
<1> HIDE DEF new
<1>3. LiveSSTs' = LiveSSTs \cup {new}
  BY <1>1 DEF LiveSSTs
<1>4. Ids(LiveSSTs') = Ids(LiveSSTs) \cup {building}
  BY <1>2, <1>3, IdsUnion
<1>5. \A f \in done : f \in files \/ f.id = building
  BY DEF Persisted
<1>6. done \in SUBSET File
  BY PersistedType DEF Chunk, FirstEntries
<1>7. BuildingFile \in Leftovers /\ BuildingFile.id = building
  BY <1>1, BuildingLeft DEF BuildingFile
<1> HIDE DEF done
<1>8. \A f \in done : f.id \notin Ids(LiveSSTs') => f \in Leftovers \ {BuildingFile}
  BY <1>4, <1>5, <1>7 DEF Leftovers
<1>9. CASE phase' = "merge" /\ NewEmptySST(done)
  <2>1. files' = done \cup {BuildingFile'}
    BY <1>6, <1>9, NewFile DEF BuildingFile
  <2>2. Leftovers' \subseteq (Leftovers \ {BuildingFile}) \cup {BuildingFile'}
    BY <1>8, <2>1 DEF Leftovers
  <2>3. IsFiniteSet(Leftovers)
    BY DEF LeftInv
  <2>4. /\ IsFiniteSet(Leftovers \ {BuildingFile})
        /\ Cardinality(Leftovers \ {BuildingFile}) = Cardinality(Leftovers) - 1
    BY <1>7, <2>3, FS_RemoveElement
  <2>5. /\ IsFiniteSet((Leftovers \ {BuildingFile}) \cup {BuildingFile'})
        /\ Cardinality((Leftovers \ {BuildingFile}) \cup {BuildingFile'})
             <= Cardinality(Leftovers \ {BuildingFile}) + 1
    BY <2>4, OneMore
  <2>6. /\ IsFiniteSet(Leftovers')
        /\ Cardinality(Leftovers') <= Cardinality((Leftovers \ {BuildingFile}) \cup {BuildingFile'})
    BY <2>2, <2>5, FS_Subset
  <2>7. /\ Cardinality(Leftovers) \in Nat /\ Cardinality(Leftovers') \in Nat
        /\ Cardinality((Leftovers \ {BuildingFile}) \cup {BuildingFile'}) \in Nat
    BY <2>3, <2>5, <2>6, FS_CardinalityType
  <2>8. Building = 1 /\ Building' = 1
    BY <1>1, <1>9 DEF Building
  <2> QED
    BY <2>4, <2>5, <2>6, <2>7, <2>8 DEF LeftInv
<1>10. CASE phase' = "remove" /\ files' = done
  <2>1. Leftovers' \subseteq Leftovers \ {BuildingFile}
    BY <1>8, <1>10 DEF Leftovers
  <2>2. Building' >= Building - 1
    BY DEF Building
  <2> QED
    BY <1>7, <2>1, <2>2, LeftOneLess
<1> QED
  BY <1>1, <1>9, <1>10

\* The file of a table that is removed goes with it, unless the unlink fails.
LEMMA LeftRemove ==
    ASSUME TypeInv, TreeInv, FilesInv, LeftInv, errors \in Nat,
           (RemoveSST /\ UNCHANGED errors) \/ UnlinkFails
    PROVE  LeftInv'
<1> USE DEF TypeInv, TypeOK
<1>1. PICK s \in FirstOf(NotYetRemoved) :
        /\ ssts' = [ssts EXCEPT ![level] = @ \ {s}, ![level + 1] = @ \ {s}]
        /\ RemoveSST => files' = RemainingFiles(s)
  BY DEF RemoveSST, UnlinkFails, FirstOf
<1>2. s \in NotYetRemoved /\ phase = "remove" /\ phase' \in {"remove", "failed"}
  BY <1>1 DEF FirstOf, RemoveSST, UnlinkFails, GivesUp
<1>3. \A l \in Level : ssts'[l] = ssts[l] \ {s}
  BY <1>1, <1>2, Gone DEF TreeInv
<1>4. LiveSSTs' = LiveSSTs \ {s}
  BY <1>3 DEF LiveSSTs
<1>5. Ids(LiveSSTs) \subseteq Ids(LiveSSTs') \cup {s.id}
  BY <1>4 DEF Ids
<1>6. Building = 0 /\ Building' = 0
  BY <1>2 DEF Building
<1>7. CASE RemoveSST /\ UNCHANGED errors
  <2>1. Leftovers' \subseteq Leftovers
    BY <1>1, <1>5, <1>7 DEF Leftovers, RemainingFiles
  <2> QED
    BY <1>6, <1>7, <2>1, LeftNoMore
<1>8. CASE UnlinkFails
  <2>1. files' = files /\ errors' = errors + 1
    BY <1>8 DEF UnlinkFails, storageVars, Fault
  <2>2. PICK f : \A g \in files : g.id = s.id => g = f
    BY DEF FilesInv
  <2>3. Leftovers' \subseteq Leftovers \cup {f}
    BY <1>5, <2>1, <2>2 DEF Leftovers
  <2> QED
    BY <1>6, <2>1, <2>3, LeftOneMore
<1> QED
  BY <1>7, <1>8

\* A step that leaves the tables and the files as they are.
LEMMA LeftSame ==
    ASSUME LeftInv, errors \in Nat, errors' \in {errors, errors + 1}, files' = files, LiveSSTs' = LiveSSTs,
           errors + Building <= errors' + Building'
    PROVE  LeftInv'
<1>1. Leftovers' = Leftovers
  BY DEF Leftovers
<1> QED
  BY <1>1, LeftNoMore

\* No step leaves more over than it should.
LEMMA LeftInvStep ==
    ASSUME FaultsTypeInv, TreeInv, FilesInv, LeftInv, Acts
    PROVE  LeftInv'
<1>1. TypeInv /\ errors \in Nat
  BY ErrorsAssumption DEF FaultsTypeInv, FaultsTypeOK, TypeInv
<1>2. CASE FlushSST /\ UNCHANGED errors
  BY <1>1, <1>2, LeftFlush
<1>3. CASE FinishSST /\ UNCHANGED errors
  BY <1>1, <1>3, LeftFinish
<1>4. CASE (RemoveSST /\ UNCHANGED errors) \/ UnlinkFails
  BY <1>1, <1>4, LeftRemove
<1>5. ASSUME UNCHANGED errors, \/ \E k \in Keys : Put(k)
                               \/ \E victims \in Victims(level) : StartMerge(victims)
      PROVE  LeftInv'
  <2>1. \/ UNCHANGED <<ssts, files>> /\ (phase' = phase \/ phase' = "aborted")
        \/ /\ NewEmptySST(files) /\ UNCHANGED ssts
           /\ phase \in {"idle", "compact"} /\ phase' \in {"flush", "merge", "aborted"}
    BY <1>5 DEF Put, StartMerge, TooLarge, treeVars
  <2>2. CASE UNCHANGED <<ssts, files>> /\ (phase' = phase \/ phase' = "aborted")
    <3>1. LiveSSTs' = LiveSSTs /\ errors + Building <= errors' + Building'
      BY <1>1, <1>5, <2>2 DEF LiveSSTs, Building
    <3> QED
      BY <1>1, <1>5, <2>2, <3>1, LeftSame
  <2> QED
    BY <1>1, <1>5, <2>1, <2>2, LeftCreate
<1>6. ASSUME UNCHANGED errors, NEW victims \in Victims(level), MoveToEmptyLevel(victims)
      PROVE  LeftInv'
  <2>1. LiveSSTs' = LiveSSTs
    <3>1. ~ Removes /\ LiveSSTs \subseteq LiveSSTs'
      BY <1>1, <1>6, LiveStep DEF MoveToEmptyLevel, TooLarge, Removes
    <3>2. /\ level \in Level /\ level + 1 \in Level
          /\ ssts' = [ssts EXCEPT ![level] = @ \ Moved(victims), ![level + 1] = Moved(victims)]
          /\ Moved(victims) \subseteq ssts[level]
      BY <1>1, <1>6, ShapeAssumption DEF MoveToEmptyLevel, TooLarge, Level, Moved, TypeInv, TypeOK
    <3>3. LiveSSTs' \subseteq LiveSSTs
      BY <1>1, <3>2 DEF LiveSSTs, TypeInv, TypeOK
    <3> QED
      BY <3>1, <3>3
  <2>2. files' = files /\ errors + Building <= errors' + Building'
    BY <1>1, <1>6 DEF MoveToEmptyLevel, TooLarge, storageVars, Building
  <2> QED
    BY <1>1, <1>6, <2>1, <2>2, LeftSame
<1>7. ASSUME UNCHANGED errors, StopCompaction \/ EndMerge \/ PersistManifest \/ WorkloadDone
      PROVE  LeftInv'
  <2>1. UNCHANGED <<ssts, files>> /\ phase \notin {"flush", "merge", "aborted"}
    BY <1>7 DEF StopCompaction, EndMerge, PersistManifest, WorkloadDone, vars, treeVars, storageVars
  <2>2. LiveSSTs' = LiveSSTs /\ errors + Building <= errors' + Building'
    BY <1>1, <1>7, <2>1 DEF LiveSSTs, Building
  <2> QED
    BY <1>1, <1>7, <2>1, <2>2, LeftSame
<1>8. ASSUME FlushFails \/ MergeFails \/ ReadFails \/ PersistFails
      PROVE  LeftInv'
  <2>1. UNCHANGED <<ssts, files>> /\ errors' = errors + 1
    BY <1>8 DEF FlushFails, MergeFails, ReadFails, PersistFails, Fault, treeVars, storageVars
  <2>2. LiveSSTs' = LiveSSTs /\ errors + Building <= errors' + Building'
    BY <1>1, <2>1 DEF LiveSSTs, Building
  <2> QED
    BY <1>1, <2>1, <2>2, LeftSame
<1>9. CASE GoOn
  <2>1. UNCHANGED <<ssts, files, errors>> /\ phase = "failed"
    BY <1>9 DEF GoOn, treeVars, storageVars
  <2>2. LiveSSTs' = LiveSSTs /\ errors + Building <= errors' + Building'
    BY <1>1, <2>1 DEF LiveSSTs, Building
  <2> QED
    BY <1>1, <2>1, <2>2, LeftSame
<1>10. \/ Works /\ UNCHANGED errors
       \/ FlushFails \/ MergeFails \/ ReadFails \/ UnlinkFails \/ PersistFails \/ GoOn
  BY DEF Acts, Works, Fails
<1>11. CASE Works /\ UNCHANGED errors
  <2>1. \/ \E k \in Keys : Put(k)
        \/ \E victims \in Victims(level) : MoveToEmptyLevel(victims) \/ StartMerge(victims)
        \/ FlushSST \/ FinishSST \/ RemoveSST
        \/ StopCompaction \/ EndMerge \/ PersistManifest \/ WorkloadDone
    BY <1>11 DEF Works, Next, PutStep
  <2> QED
    BY <1>2, <1>3, <1>4, <1>5, <1>6, <1>7, <1>11, <2>1
<1> QED
  BY <1>4, <1>8, <1>9, <1>10, <1>11

\* Every live table has its file, and besides those and the one being built there is at
\* most a file for each failure.
THEOREM FilesAreAccounted == FaultsSpec => []FilesAccounted
<1>1. FaultsInit => LeftInv
  <2> SUFFICES ASSUME FaultsInit
               PROVE  LeftInv
    OBVIOUS
  <2>1. Leftovers = {} /\ errors = 0
    BY DEF FaultsInit, NoFailures, Init, Leftovers
  <2>2. IsFiniteSet({}) /\ Cardinality({}) = 0
    BY FS_EmptySet
  <2> QED
    BY <2>1, <2>2 DEF LeftInv, Building
<1>2. FaultsTypeInv /\ FaultsFileInv /\ LeftInv /\ [FaultsNext]_faultVars => LeftInv'
  <2> SUFFICES ASSUME FaultsTypeInv, FaultsFileInv, LeftInv, [FaultsNext]_faultVars
               PROVE  LeftInv'
    OBVIOUS
  <2>1. CASE Acts
    <3>1. TreeInv /\ FilesInv
      BY DEF FaultsFileInv, KeepInv, TreeInv
    <3> QED
      BY <2>1, <3>1, LeftInvStep
  <2>2. CASE UNCHANGED faultVars \/ Dead
    BY <2>2 DEF Dead, faultVars, vars, treeVars, storageVars, LeftInv, Leftovers, LiveSSTs, Building
  <2> QED
    BY <2>1, <2>2 DEF FaultsNext, Acts
<1>3. FaultsFileInv /\ LeftInv => FilesAccounted
  BY DEF FaultsFileInv, LeftInv, FilesAccounted, Building
<1> QED
  BY <1>1, <1>2, <1>3, FaultsTypeInvariant, FaultsFileInvariant, PTL DEF FaultsSpec

-----------------------------------------------------------------------------
(* Restarts, from here on.                                                 *)

RestartTypeInv == RestartTypeOK /\ LevelInv

LiveKeys == UNION {KeysOf(s.kvs) : s \in LiveSSTs}

\* The tables of a session: those of LSMFaults, and they hold every durable key.
LiveInv ==
    /\ TreeInv
    /\ TablesHaveFiles
    /\ phase \notin Stopped => KeysIn(named) \subseteq LiveKeys

\* The manifest in memory, unless it is stale.
MemoryInv ==
    "inMemory" \notin stale =>
        /\ NamesLive(manifest)
        /\ \A i, j \in Level : i # j => manifest[i] \cap manifest[j] = {}
        /\ phase \notin Stopped => KeysIn(named) \subseteq KeysIn(FilesOf(manifest))

\* The manifest on storage, unless it is stale: no file it names is being written.
DurableInv ==
    "onStorage" \notin stale =>
        /\ NamedFiles = named
        /\ \A l \in Level : current[l] \subseteq Ids(files)
        /\ \A i, j \in Level : i # j => current[i] \cap current[j] = {}
        /\ phase \in {"flush", "merge"} => \A l \in Level : building \notin current[l]

\* Without a process there is no tree, and Open fails on a stale manifest only.
StoppedInv ==
    /\ phase = "closed" => /\ ssts = [l \in Level |-> {}]
                           /\ manifest = [l \in Level |-> {}]
    /\ phase = "openfailed" => ~ whole

RestartInv ==
    /\ RestartTypeInv
    /\ FilesInv
    /\ StoppedInv
    /\ whole => LiveInv /\ MemoryInv /\ DurableInv

-----------------------------------------------------------------------------
(* Steps of a session *)

\* A process in a Put or between two is in one of the phases of LSMTree.
LEMMA ActsInPhase ==
    ASSUME Acts
    PROVE  phase \in Phase
BY DEF Acts, Works, Next, PutStep, Put, FlushSST, StopCompaction, MoveToEmptyLevel, StartMerge, TooLarge,
       FinishSST, RemoveSST, EndMerge, PersistManifest, WorkloadDone, Fails, FlushFails, MergeFails,
       ReadFails, UnlinkFails, PersistFails, GoOn, Phase

LEMMA PhasesApart == Phase \cap Stopped = {}
BY DEF Phase, Stopped

\* In a phase of LSMTree the types are those of LSMFaults.
LEMMA SessionTypes ==
    ASSUME RestartTypeInv, phase \in Phase
    PROVE  FaultsTypeInv /\ TypeInv
BY DEF RestartTypeInv, RestartTypeOK, FaultsTypeInv, FaultsTypeOK, TypeInv, TypeOK

LEMMA RestartTypeStep ==
    ASSUME RestartTypeInv, Step
    PROVE  RestartTypeInv' /\ phase' \in Phase
<1>1. Acts
  BY DEF Step, Acts
<1>2. FaultsTypeInv
  BY <1>1, ActsInPhase, SessionTypes
<1>3. FaultsTypeInv'
  BY <1>2, FaultsTypeWorks, FaultsTypeFails DEF Step
<1>4. named' \in [Level -> SUBSET File]
  <2>1. FilesOf(LiveIds) \in [Level -> SUBSET File]
    BY DEF FilesOf, RestartTypeInv, RestartTypeOK
  <2> QED
    BY <2>1 DEF Step, RestartTypeInv, RestartTypeOK
<1>5. sessions' \in 0 .. MaxSessions /\ whole' \in BOOLEAN
  BY DEF Step, RestartTypeInv, RestartTypeOK
<1> QED
  BY <1>3, <1>4, <1>5 DEF RestartTypeInv, RestartTypeOK, FaultsTypeInv, FaultsTypeOK, TypeOK

\* A key in a live table stays in one: a table is removed when its keys are in the
\* output of the merge.
LEMMA LiveKeysStep ==
    ASSUME TypeInv, TreeInv, Acts
    PROVE  LiveKeys \subseteq LiveKeys'
<1> USE DEF TypeInv, TypeOK
<1>1. CASE ~ Removes
  BY <1>1, LiveStep DEF LiveKeys
<1>2. CASE Removes
  <2>1. PICK s \in NotYetRemoved :
          /\ phase = "remove"
          /\ ssts' = [ssts EXCEPT ![level] = @ \ {s}, ![level + 1] = @ \ {s}]
    BY <1>2 DEF Removes, Acts, Works, Next, PutStep, Put, FlushSST, StopCompaction, MoveToEmptyLevel,
           StartMerge, TooLarge, FinishSST, RemoveSST, EndMerge, PersistManifest, WorkloadDone, vars, treeVars,
           Fails, FlushFails, MergeFails, ReadFails, UnlinkFails, PersistFails, GoOn, FirstOf
  <2>2. \A l \in Level : ssts'[l] = ssts[l] \ {s}
    BY <2>1, Gone DEF TreeInv
  <2>3. \A p \in s.kvs : \E t \in ssts[level + 1] \ toCompact : \E q \in t.kvs : q.key = p.key
    BY <2>1 DEF TreeInv, MergeInv, NotYetRemoved, Output
  <2>4. level + 1 \in Level /\ s \in toCompact
    BY <2>1 DEF LevelInv, NotYetRemoved
  <2>5. ASSUME NEW k \in LiveKeys
        PROVE  k \in LiveKeys'
    <3>0. PICK l \in Level : \E t \in ssts[l] : k \in KeysOf(t.kvs)
      BY <2>5 DEF LiveKeys, LiveSSTs
    <3>1. PICK t \in ssts[l] : k \in KeysOf(t.kvs)
      BY <3>0
    <3>2. CASE t # s
      BY <2>2, <3>1, <3>2 DEF LiveKeys, LiveSSTs
    <3>3. CASE t = s
      <4>1. PICK u \in ssts[level + 1] \ toCompact : k \in KeysOf(u.kvs)
        BY <2>3, <3>1, <3>3 DEF KeysOf
      <4>2. u \in ssts'[level + 1]
        BY <2>2, <2>4, <4>1
      <4> QED
        BY <2>4, <4>1, <4>2 DEF LiveKeys, LiveSSTs
    <3> QED
      BY <3>2, <3>3
  <2> QED
    BY <2>5
<1> QED
  BY <1>1, <1>2

\* The files of the live tables have their keys.
LEMMA LiveFiles ==
    ASSUME TypeInv, FilesInv, TablesHaveFiles
    PROVE  KeysIn(FilesOf(LiveIds)) = LiveKeys
<1> USE DEF TypeInv, TypeOK
<1>1. ASSUME NEW l \in Level, NEW f \in files, f.id \in LiveIds[l]
      PROVE  \E s \in ssts[l] : s.kvs = f.kvs
  <2>1. PICK s \in ssts[l] : s.id = f.id
    BY <1>1 DEF LiveIds, Ids
  <2>2. [id |-> s.id, kvs |-> s.kvs] \in files
    BY <2>1 DEF TablesHaveFiles, LiveSSTs
  <2>3. [id |-> s.id, kvs |-> s.kvs] = f
    BY <2>1, <2>2 DEF FilesInv
  <2>4. f.kvs = s.kvs
    BY <2>3
  <2> QED
    BY <2>4
<1>2. ASSUME NEW l \in Level, NEW s \in ssts[l]
      PROVE  \E f \in files : f.id \in LiveIds[l] /\ f.kvs = s.kvs
  <2>1. [id |-> s.id, kvs |-> s.kvs] \in files
    BY <1>2 DEF TablesHaveFiles, LiveSSTs
  <2>2. s.id \in LiveIds[l]
    BY <1>2 DEF LiveIds, Ids
  <2> QED
    BY <2>1, <2>2
<1>3. \A l \in Level : FilesOf(LiveIds)[l] = {f \in files : f.id \in LiveIds[l]}
  BY DEF FilesOf
<1>4. KeysIn(FilesOf(LiveIds)) \subseteq LiveKeys
  BY <1>1, <1>3 DEF KeysIn, LiveKeys, LiveSSTs
<1>5. LiveKeys \subseteq KeysIn(FilesOf(LiveIds))
  BY <1>2, <1>3 DEF KeysIn, LiveKeys, LiveSSTs
<1> QED
  BY <1>4, <1>5

LEMMA LiveInvStep ==
    ASSUME TypeInv, FilesInv, LiveInv, Step
    PROVE  LiveInv'
<1>1. Acts /\ phase \notin Stopped
  BY ActsInPhase, PhasesApart DEF Step, Acts
<1>2. TreeInv'
  <2>1. CASE Works
    BY <2>1, TreeStep DEF Works, LiveInv
  <2>2. CASE Fails \/ GoOn
    BY <2>2, TreeFails DEF LiveInv
  <2> QED
    BY <2>1, <2>2 DEF Step
<1>3. TablesHaveFiles'
  BY <1>1, LiveFilesStep DEF LiveInv
<1>4. LiveKeys \subseteq LiveKeys'
  BY <1>1, LiveKeysStep DEF LiveInv
<1>5. named' = named \/ named' = FilesOf(LiveIds)
  BY DEF Step
<1>6. KeysIn(named') \subseteq LiveKeys
  BY <1>1, <1>5, LiveFiles DEF LiveInv
<1> QED
  BY <1>2, <1>3, <1>4, <1>6 DEF LiveInv

\* The manifest in memory names more than before, and the files it names stay.
LEMMA MemoryInvStep ==
    ASSUME TypeInv, FilesInv, LiveInv, MemoryInv, Step
    PROVE  MemoryInv'
<1> USE DEF TypeInv, TypeOK
<1>1. Acts /\ phase \notin Stopped
  BY ActsInPhase, PhasesApart DEF Step, Acts
<1>2. CASE Removes
  BY <1>1, <1>2, RemovesStale DEF MemoryInv, Manifests
<1>3. CASE phase = "persist"
  <2>1. manifest' = LiveIds /\ UNCHANGED <<ssts, files>>
    BY <1>1, <1>3, PersistStep
  <2>2. NamesLive(manifest)'
    BY <2>1 DEF NamesLive, LiveIds, Ids, LiveSSTs
  <2>3. \A i, j \in Level : i # j => LiveIds[i] \cap LiveIds[j] = {}
    BY DEF LiveIds, Ids, LiveInv, TreeInv, FileInv
  <2>4. FilesOf(manifest)' = FilesOf(LiveIds)
    BY <2>1 DEF FilesOf
  <2>5. KeysIn(named') \subseteq KeysIn(FilesOf(LiveIds))
    <3>1. named' = named \/ named' = FilesOf(LiveIds)
      BY DEF Step
    <3> QED
      BY <1>1, <3>1, LiveFiles DEF LiveInv
  <2> QED
    BY <2>1, <2>2, <2>3, <2>4, <2>5 DEF MemoryInv
<1>4. CASE ~ Removes /\ phase # "persist"
  <2> SUFFICES ASSUME "inMemory" \notin stale'
               PROVE  /\ NamesLive(manifest)'
                      /\ \A i, j \in Level : i # j => manifest'[i] \cap manifest'[j] = {}
                      /\ KeysIn(named') \subseteq KeysIn(FilesOf(manifest)')
    BY DEF MemoryInv
  <2>1. "inMemory" \notin stale /\ named' = named
    BY <1>1, <1>4, StaleStep DEF Step, Manifests
  <2>2. /\ NamesLive(manifest)
        /\ \A i, j \in Level : i # j => manifest[i] \cap manifest[j] = {}
        /\ KeysIn(named) \subseteq KeysIn(FilesOf(manifest))
    BY <1>1, <2>1 DEF MemoryInv
  <2>3. NamesLive(manifest)'
    BY <1>1, <2>2, MemoryNamesStep DEF MemoryNames
  <2>4. phase \in {"flush", "merge"} => \A l \in Level : building \notin manifest[l]
    <3>1. phase \in {"flush", "merge"} => building \notin Ids(LiveSSTs)
      BY DEF LiveInv, TreeInv, FileInv, Ids, LiveSSTs
    <3> QED
      BY <2>2, <3>1 DEF NamesLive
  <2>5. \A l \in Level : manifest[l] \subseteq manifest'[l]
    BY <1>1, <1>4, ManifestStep
  <2>6. \A i, j \in Level : i # j => manifest'[i] \cap manifest'[j] = {}
    <3>1. CASE manifest' = manifest
      BY <2>2, <3>1
    <3>2. CASE phase = "flush" /\ manifest' = [manifest EXCEPT ![0] = @ \cup {building}]
      BY <2>2, <2>4, <3>2
    <3> QED
      BY <1>1, <1>4, <3>1, <3>2, ManifestStep
  <2>7. ASSUME NEW l \in Level, NEW f \in files, f.id \in manifest[l]
        PROVE  f \in files' /\ f.id \in manifest'[l]
    <3>1. f # BuildingFile \/ phase \notin {"flush", "merge"}
      BY <2>4, <2>7 DEF BuildingFile
    <3>2. f \in files'
      BY <1>1, <1>4, <2>7, <3>1, FilesStep DEF FilesChange
    <3> QED
      BY <2>5, <2>7, <3>2
  <2>8. \A l \in Level : FilesOf(manifest)[l] \subseteq FilesOf(manifest)'[l]
    BY <2>7 DEF FilesOf
  <2>9. KeysIn(FilesOf(manifest)) \subseteq KeysIn(FilesOf(manifest)')
    BY <2>8 DEF KeysIn
  <2> QED
    BY <2>1, <2>2, <2>3, <2>6, <2>9
<1> QED
  BY <1>2, <1>3, <1>4

\* The files that the manifest on storage names are left alone.
LEMMA StorageInvStep ==
    ASSUME TypeInv, FilesInv, LiveInv, DurableInv, Step
    PROVE  DurableInv'
<1> USE DEF TypeInv, TypeOK
<1>1. Acts
  BY DEF Step, Acts
<1>2. CASE Removes
  BY <1>1, <1>2, RemovesStale DEF DurableInv, Manifests
<1>3. CASE phase = "persist" /\ current' = LiveIds /\ phase' = "idle"
  <2>1. UNCHANGED <<ssts, files>> /\ named' = FilesOf(LiveIds)
    BY <1>1, <1>3, PersistStep DEF Step
  <2>2. NamedFiles' = named'
    BY <1>3, <2>1 DEF NamedFiles, FilesOf
  <2>3. \A l \in Level : LiveIds[l] \subseteq Ids(files)
    BY DEF LiveIds, Ids, LiveInv, TreeInv, FileInv
  <2>4. \A i, j \in Level : i # j => LiveIds[i] \cap LiveIds[j] = {}
    BY DEF LiveIds, Ids, LiveInv, TreeInv, FileInv
  <2> QED
    BY <1>3, <2>1, <2>2, <2>3, <2>4 DEF DurableInv
<1>4. CASE phase = "persist" /\ current' = current /\ phase' = "failed" /\ stale' = stale \ {"inMemory"}
  <2>1. UNCHANGED <<files, named>>
    BY <1>1, <1>4, PersistStep DEF Step
  <2>2. NamedFiles' = NamedFiles
    BY <1>4, <2>1 DEF NamedFiles, FilesOf
  <2> QED
    BY <1>4, <2>1, <2>2 DEF DurableInv
<1>5. CASE ~ Removes /\ phase # "persist"
  <2> SUFFICES ASSUME "onStorage" \notin stale'
               PROVE  /\ NamedFiles' = named'
                      /\ \A l \in Level : current'[l] \subseteq Ids(files')
                      /\ \A i, j \in Level : i # j => current'[i] \cap current'[j] = {}
                      /\ phase' \in {"flush", "merge"} => \A l \in Level : building' \notin current'[l]
    BY DEF DurableInv
  <2>1. "onStorage" \notin stale /\ current' = current /\ named' = named
    BY <1>1, <1>5, StaleStep DEF Step, Manifests
  <2>2. /\ NamedFiles = named
        /\ \A l \in Level : current[l] \subseteq Ids(files)
        /\ \A i, j \in Level : i # j => current[i] \cap current[j] = {}
        /\ phase \in {"flush", "merge"} => \A l \in Level : building \notin current[l]
    BY <2>1 DEF DurableInv
  <2>3. FilesChange
    BY <1>1, FilesStep
  <2>4. ASSUME NEW l \in Level, NEW f \in files, f.id \in current[l]
        PROVE  f \in files'
    BY <1>5, <2>2, <2>3, <2>4 DEF FilesChange, BuildingFile
  <2>5. ASSUME NEW l \in Level, NEW g \in files', g.id \in current[l]
        PROVE  g \in files
    <3>1. g.id \in Ids(files)
      BY <2>2, <2>5
    <3> QED
      BY <2>2, <2>3, <2>5, <3>1 DEF FilesChange
  <2>6. NamedFiles' = NamedFiles
    BY <2>1, <2>4, <2>5 DEF NamedFiles, FilesOf
  <2>7. \A l \in Level : current[l] \subseteq Ids(files')
    BY <2>2, <2>4 DEF Ids
  <2>8. phase' \in {"flush", "merge"} => \A l \in Level : building' \notin current[l]
    BY <2>2, <2>3 DEF FilesChange
  <2> QED
    BY <2>1, <2>2, <2>6, <2>7, <2>8
<1> QED
  BY <1>1, <1>2, <1>3, <1>4, <1>5, PersistStep


\* A step of a session keeps the invariant.
LEMMA RestartInvStep ==
    ASSUME RestartInv, Step
    PROVE  RestartInv'
<1>1. Acts /\ phase \in Phase
  BY ActsInPhase DEF Step, Acts
<1>2. TypeInv
  BY <1>1, SessionTypes DEF RestartInv
<1>3. RestartTypeInv' /\ phase' \in Phase
  BY RestartTypeStep DEF RestartInv
<1>4. FilesInv'
  BY <1>1, <1>2, FilesStep DEF RestartInv
<1>5. StoppedInv'
  BY <1>3, PhasesApart DEF StoppedInv, Stopped
<1>6. whole' = whole
  BY DEF Step
<1>7. whole => (LiveInv /\ MemoryInv /\ DurableInv)'
  BY <1>2, LiveInvStep, MemoryInvStep, StorageInvStep DEF RestartInv
<1> QED
  BY <1>3, <1>4, <1>5, <1>6, <1>7 DEF RestartInv

-----------------------------------------------------------------------------
(* The beginning and the end of a session *)

\* What is left of the tree when a process has ended, of which nothing is asked.
LEMMA NoTree ==
    ASSUME RestartInv, MemoryLost, phase' = "closed", UNCHANGED <<files, picker, whole, errors, failures>>,
           stale' \in SUBSET Manifests, sessions' \in 0 .. MaxSessions,
           current' \in [Level -> SUBSET Nat], named' \in [Level -> SUBSET File]
    PROVE  /\ RestartTypeInv' /\ FilesInv' /\ StoppedInv'
           /\ LiveInv' /\ MemoryInv'
<1>1. 0 \in Level
  BY ShapeAssumption DEF Level
<1>2. RestartTypeInv'
  BY <1>1 DEF RestartInv, RestartTypeInv, RestartTypeOK, LevelInv, MemoryLost, CountersStartOver, Stopped
<1>3. FilesInv' /\ StoppedInv'
  BY DEF RestartInv, FilesInv, StoppedInv, MemoryLost
<1>4. LiveSSTs' = {} /\ \A l \in Level : ssts'[l] = {} /\ manifest'[l] = {}
  BY DEF MemoryLost, LiveSSTs
<1>5. LiveInv'
  BY <1>4 DEF LiveInv, TreeInv, FileInv, MergeInv, TablesHaveFiles, Stopped
<1>6. MemoryInv'
  BY <1>4 DEF MemoryInv, NamesLive, Stopped
<1> QED
  BY <1>2, <1>3, <1>5, <1>6

\* Close makes the manifest in memory the one on storage.
LEMMA RestartInvClose ==
    ASSUME RestartInv, Close
    PROVE  RestartInv'
<1>1. /\ MemoryLost /\ phase' = "closed" /\ UNCHANGED <<files, picker, whole, errors, failures>>
      /\ stale' \in SUBSET Manifests /\ sessions' \in 0 .. MaxSessions
      /\ current' = manifest /\ named' = FilesOf(manifest)
  BY DEF Close, BothStale, RestartInv, RestartTypeInv, RestartTypeOK
<1>2. current' \in [Level -> SUBSET Nat] /\ named' \in [Level -> SUBSET File]
  BY <1>1 DEF RestartInv, RestartTypeInv, RestartTypeOK, FilesOf
<1>3. RestartTypeInv' /\ FilesInv' /\ StoppedInv' /\ LiveInv' /\ MemoryInv'
  BY <1>1, <1>2, NoTree
<1>4. ASSUME whole, "onStorage" \notin stale'
      PROVE  /\ NamedFiles' = named'
             /\ \A l \in Level : current'[l] \subseteq Ids(files')
             /\ \A i, j \in Level : i # j => current'[i] \cap current'[j] = {}
  <2>1. "inMemory" \notin stale
    BY <1>4 DEF Close, BothStale, Manifests
  <2>2. NamesLive(manifest) /\ \A i, j \in Level : i # j => manifest[i] \cap manifest[j] = {}
    BY <1>4, <2>1 DEF RestartInv, MemoryInv
  <2>3. NamedFiles' = named'
    BY <1>1 DEF NamedFiles, FilesOf
  <2>4. Ids(LiveSSTs) \subseteq Ids(files)
    BY <1>4 DEF RestartInv, LiveInv, TreeInv, FileInv, Ids, LiveSSTs
  <2>5. \A l \in Level : manifest[l] \subseteq Ids(files)
    BY <2>2, <2>4 DEF NamesLive
  <2> QED
    BY <1>1, <2>2, <2>3, <2>5
<1>5. whole => DurableInv'
  BY <1>1, <1>4 DEF DurableInv
<1> QED
  BY <1>1, <1>3, <1>5 DEF RestartInv

\* A crash leaves storage as it is.
LEMMA RestartInvCrash ==
    ASSUME RestartInv, Crash
    PROVE  RestartInv'
<1>1. /\ MemoryLost /\ phase' = "closed" /\ UNCHANGED <<files, picker, whole, errors, failures>>
      /\ UNCHANGED <<current, sessions, named, stale>>
  BY DEF Crash, storageVars
<1>2. RestartTypeInv' /\ FilesInv' /\ StoppedInv' /\ LiveInv' /\ MemoryInv'
  BY <1>1, NoTree DEF RestartInv, RestartTypeInv, RestartTypeOK
<1>3. DurableInv => DurableInv'
  <2>1. NamedFiles' = NamedFiles
    BY <1>1 DEF NamedFiles, FilesOf
  <2> QED
    BY <1>1, <2>1 DEF DurableInv
<1> QED
  BY <1>1, <1>2, <1>3 DEF RestartInv

\* The tables that are read have ids and contents of files, so that they are of
\* the right type.
LEMMA OpenTypes ==
    ASSUME RestartInv, Open
    PROVE  RestartTypeInv' /\ FilesInv'
<1> USE DEF RestartInv, RestartTypeInv, RestartTypeOK
<1>1. phase = "closed" /\ phase' \in {"died", "openfailed", "idle"}
  BY DEF Open
<1>2. ssts' \in [Level -> SUBSET SST]
  <2>1. ASSUME NEW read, read \in Readable, NEW time \in [read[0] -> Garbage],
               ssts' = [l \in Level |-> {[id |-> f.id, kvs |-> f.kvs,
                                         persistTime |-> IF l = 0 THEN time[f] ELSE 0] : f \in read[l]}]
        PROVE  ssts' \in [Level -> SUBSET SST]
    <3>1. NamedFiles \in [Level -> SUBSET File]
      BY DEF NamedFiles, FilesOf
    <3>2. \A l \in Level : read[l] \subseteq File
      <4>1. CASE ~ Missing
        BY <2>1, <3>1, <4>1 DEF Readable
      <4>2. CASE Missing
        <5>1. (CHOOSE l \in Level : Lacking(l) /\ \A i \in 0 .. l - 1 : ~Lacking(i)) \in Level
          <6>1. \E l \in Level : Lacking(l)
            BY <4>2 DEF Missing
          <6> DEFINE S == {l \in Level : Lacking(l)}
          <6>2. S # {} /\ S \subseteq Nat
            BY <6>1 DEF Level
          <6>3. PICK m \in S : \A n \in S : m <= n
            BY <6>2, LeastNatural
          <6>4. m \in Level /\ Lacking(m) /\ \A i \in 0 .. m - 1 : ~ Lacking(i)
            BY <6>3, ShapeAssumption DEF Level
          <6> QED
            BY <6>4
        <5> DEFINE last == CHOOSE l \in Level : Lacking(l) /\ \A i \in 0 .. l - 1 : ~Lacking(i)
        <5>2. last \in Level
          BY <5>1
        <5>3. PICK part \in SUBSET NamedFiles[last] :
                read = [l \in Level |-> IF l < last THEN NamedFiles[l] ELSE IF l = last THEN part ELSE {}]
          BY <2>1, <4>2 DEF Readable
        <5> HIDE DEF last
        <5> QED
          BY <3>1, <5>2, <5>3
      <4> QED
        BY <4>1, <4>2
    <3>3. Garbage \subseteq Nat
      BY RestartAssumption
    <3>4. \A l \in Level : \A f \in read[l] : (IF l = 0 THEN time[f] ELSE 0) \in Nat
      BY <2>1, <3>3
    <3> QED
      BY <2>1, <3>2, <3>4 DEF File, SST
  <2> QED
    BY <2>1 DEF Open
<1>3. /\ picker' \in Pickers /\ manifest' \in [Level -> SUBSET Nat]
      /\ stale' \in SUBSET Manifests /\ whole' \in BOOLEAN
  BY DEF Open, BothStale
<1>4. sessions' \in 0 .. MaxSessions
  BY RestartAssumption DEF Open
<1>5. RestartTypeInv'
  BY <1>1, <1>2, <1>3, <1>4 DEF Open, storageVars, mergeVars, LevelInv, Phase, Stopped
<1>6. FilesInv'
  BY <1>1 DEF FilesInv, Open, storageVars
<1> QED
  BY <1>5, <1>6

\* When the manifest on storage is not stale, all it names is read, and the tree and
\* the manifest in memory are as it says.
LEMMA OpenSound ==
    ASSUME RestartInv, Open, whole'
    PROVE  phase' # "openfailed" /\ LiveInv' /\ MemoryInv' /\ DurableInv'
<1> USE DEF RestartTypeInv, RestartTypeOK
<1>1. /\ phase = "closed" /\ phase' \in {"died", "openfailed", "idle"}
      /\ UNCHANGED <<files, current, named>>
  BY DEF Open, storageVars
<1>2. whole /\ "onStorage" \notin stale /\ stale' = {}
  BY DEF Open, BothStale
<1>3. LiveInv /\ FilesInv /\ RestartTypeInv
  BY <1>2 DEF RestartInv
<1>4. /\ NamedFiles = named
      /\ \A l \in Level : current[l] \subseteq Ids(files)
      /\ \A i, j \in Level : i # j => current[i] \cap current[j] = {}
  BY <1>2 DEF RestartInv, DurableInv
<1>5. ~ Missing
  BY <1>4 DEF Missing, Lacking
<1>6. Readable = {NamedFiles}
  BY <1>5 DEF Readable
<1>7. NamedFiles' = NamedFiles
  BY <1>1 DEF NamedFiles, FilesOf
<1>8. DurableInv'
  BY <1>1, <1>4, <1>7 DEF DurableInv
<1>9. /\ LiveSSTs = {} /\ \A l \in Level : ssts[l] = {} /\ manifest[l] = {}
  BY <1>1 DEF RestartInv, StoppedInv, LiveSSTs
<1>10. CASE phase' = "died"
  <2>1. UNCHANGED <<ssts, manifest>>
    BY <1>10 DEF Open
  <2>2. LiveSSTs' = {}
    BY <1>9, <2>1 DEF LiveSSTs
  <2>3. LiveInv'
    BY <1>9, <1>10, <2>1, <2>2 DEF LiveInv, TreeInv, FileInv, MergeInv, TablesHaveFiles, Stopped
  <2>4. MemoryInv'
    BY <1>9, <1>10, <2>1 DEF MemoryInv, NamesLive, Stopped
  <2> QED
    BY <1>8, <1>10, <2>3, <2>4
<1>11. CASE phase' # "died"
  <2>1. phase' = "idle" /\ manifest' = current
    BY <1>1, <1>5, <1>11 DEF Open
  <2>2. PICK time : ssts' = [l \in Level |-> {[id |-> f.id, kvs |-> f.kvs,
                                              persistTime |-> IF l = 0 THEN time[f] ELSE 0] :
                                                 f \in NamedFiles[l]}]
    BY <1>6, <1>11 DEF Open
  <2>3. \A l \in Level : \A s \in ssts'[l] : \E f \in NamedFiles[l] : s.id = f.id /\ s.kvs = f.kvs
    BY <2>2
  <2>4. ASSUME NEW l \in Level, NEW f \in NamedFiles[l]
        PROVE  \E s \in ssts'[l] : s.id = f.id /\ s.kvs = f.kvs
    <3> DEFINE new == [id |-> f.id, kvs |-> f.kvs, persistTime |-> IF l = 0 THEN time[f] ELSE 0]
    <3>1. new \in ssts'[l]
      BY <2>2
    <3>2. new.id = f.id /\ new.kvs = f.kvs
      OBVIOUS
    <3> HIDE DEF new
    <3> QED
      BY <3>1, <3>2
  <2>5. \A l \in Level : NamedFiles[l] = {f \in files : f.id \in current[l]}
    BY DEF NamedFiles, FilesOf
  <2>6. \A l \in Level : \A s, t \in ssts'[l] : s.id = t.id => s = t
    <3> SUFFICES ASSUME NEW l \in Level, NEW s \in ssts'[l], NEW t \in ssts'[l], s.id = t.id
                 PROVE  s = t
      OBVIOUS
    <3>1. PICK f \in NamedFiles[l] : s = [id |-> f.id, kvs |-> f.kvs, persistTime |-> IF l = 0 THEN time[f] ELSE 0]
      BY <2>2
    <3>2. PICK g \in NamedFiles[l] : t = [id |-> g.id, kvs |-> g.kvs, persistTime |-> IF l = 0 THEN time[g] ELSE 0]
      BY <2>2
    <3>3. f = g
      BY <1>3, <2>5, <3>1, <3>2 DEF FilesInv
    <3> QED
      BY <3>1, <3>2, <3>3
  <2>7. \A i, j \in Level : \A s \in ssts'[i], t \in ssts'[j] : s.id = t.id => i = j /\ s = t
    BY <1>4, <2>3, <2>5, <2>6
  <2>8. \A l \in Level : \A s \in ssts'[l] : [id |-> s.id, kvs |-> s.kvs] \in files
    <3> SUFFICES ASSUME NEW l \in Level, NEW s \in ssts'[l]
                 PROVE  [id |-> s.id, kvs |-> s.kvs] \in files
      OBVIOUS
    <3>1. PICK f \in files : s.id = f.id /\ s.kvs = f.kvs
      BY <2>3, <2>5
    <3>2. f = [id |-> f.id, kvs |-> f.kvs]
      BY <1>3 DEF File
    <3> QED
      BY <3>1, <3>2
  <2>9. TreeInv' /\ TablesHaveFiles'
    <3>1. \A l \in Level : \A s \in ssts'[l] : s.id \in Ids(files)
      BY <2>3, <2>5 DEF Ids
    <3>2. TreeInv'
      BY <1>1, <2>1, <2>7, <3>1 DEF TreeInv, FileInv, MergeInv
    <3>3. TablesHaveFiles'
      BY <1>1, <2>8 DEF TablesHaveFiles, LiveSSTs
    <3> QED
      BY <3>2, <3>3
  <2>10. KeysIn(named') \subseteq LiveKeys'
    BY <1>1, <1>4, <2>4 DEF KeysIn, LiveKeys, LiveSSTs
  <2>11. NamesLive(manifest)'
    <3>1. ASSUME NEW l \in Level, NEW id \in current[l]
          PROVE  id \in Ids(LiveSSTs')
      <4>1. PICK f \in files : f.id = id
        BY <1>4, <3>1 DEF Ids
      <4>2. f \in NamedFiles[l]
        BY <2>5, <3>1, <4>1
      <4>3. PICK s \in ssts'[l] : s.id = id
        BY <2>4, <4>1, <4>2
      <4> QED
        BY <4>3 DEF Ids, LiveSSTs
    <3> QED
      BY <2>1, <3>1 DEF NamesLive
  <2>12. FilesOf(manifest)' = named'
    BY <1>1, <1>4, <2>1 DEF NamedFiles, FilesOf
  <2>13. MemoryInv'
    BY <1>4, <2>1, <2>11, <2>12 DEF MemoryInv
  <2> QED
    BY <1>8, <2>1, <2>9, <2>10, <2>13 DEF LiveInv
<1> QED
  BY <1>10, <1>11

\* Open, and a client that goes on when it has failed.
LEMMA RestartInvOpen ==
    ASSUME RestartInv, Open \/ UseUnopened
    PROVE  RestartInv'
<1>1. CASE Open
  <2>1. RestartTypeInv' /\ FilesInv'
    BY <1>1, OpenTypes
  <2>2. whole' => phase' # "openfailed" /\ LiveInv' /\ MemoryInv' /\ DurableInv'
    BY <1>1, OpenSound
  <2>3. StoppedInv'
    BY <1>1, <2>2 DEF StoppedInv, Open
  <2> QED
    BY <2>1, <2>2, <2>3 DEF RestartInv
<1>2. CASE UseUnopened
  <2>1. RestartTypeInv'
    BY <1>2 DEF RestartInv, RestartTypeInv, RestartTypeOK, LevelInv, UseUnopened, treeVars, storageVars,
                mergeVars, Phase
  <2>2. FilesInv' /\ StoppedInv'
    BY <1>2 DEF RestartInv, FilesInv, StoppedInv, UseUnopened, storageVars
  <2>3. ~ whole'
    BY <1>2 DEF RestartInv, StoppedInv, UseUnopened
  <2> QED
    BY <2>1, <2>2, <2>3 DEF RestartInv
<1> QED
  BY <1>1, <1>2

-----------------------------------------------------------------------------
(* The invariant and what follows from it *)

LEMMA RestartInvInit == RestartInit => RestartInv
<1> SUFFICES ASSUME RestartInit
             PROVE  RestartInv
  OBVIOUS
<1>1. PICK store \in Stores : /\ named = store.named
                              /\ files = (UNION {named[l] : l \in Level}) \cup store.orphans
  BY DEF RestartInit
<1>2. named \in [Level -> SUBSET File] /\ files \in SUBSET File
  <2>1. store.named \in [Level -> SUBSET File] /\ store.orphans \in SUBSET File
    BY RestartAssumption
  <2>2. named \in [Level -> SUBSET File]
    BY <1>1, <2>1
  <2>3. UNION {named[l] : l \in Level} \subseteq File
    BY <2>2
  <2> QED
    BY <1>1, <2>1, <2>2, <2>3
<1>3. /\ \A f, g \in files : f.id = g.id => f = g
      /\ \A i, j \in Level : i # j => named[i] \cap named[j] = {}
  <2> DEFINE stored == (UNION {store.named[l] : l \in Level}) \cup store.orphans
  <2>1. stored = files
    BY <1>1
  <2>2. /\ \A f, g \in stored : f.id = g.id => f = g
        /\ \A i, j \in Level : i # j => store.named[i] \cap store.named[j] = {}
    BY StoresAssumption
  <2> HIDE DEF stored
  <2> QED
    BY <1>1, <2>1, <2>2
<1>4. current = [l \in Level |-> Ids(named[l])] /\ \A l \in Level : named[l] \subseteq files
  BY <1>1 DEF RestartInit
<1>5. NamedFiles = named
  <2>1. ASSUME NEW l \in Level
        PROVE  {f \in files : f.id \in current[l]} = named[l]
    BY <1>3, <1>4 DEF Ids
  <2> QED
    BY <1>2, <2>1 DEF NamedFiles, FilesOf
<1>6. /\ \A l \in Level : current[l] \subseteq Ids(files)
      /\ \A i, j \in Level : i # j => current[i] \cap current[j] = {}
  BY <1>3, <1>4 DEF Ids
<1>7. /\ phase = "closed" /\ stale = {} /\ whole = TRUE /\ LiveSSTs = {}
      /\ \A l \in Level : ssts[l] = {} /\ manifest[l] = {}
  BY DEF RestartInit, InitMemory, NoFailures, LiveSSTs
<1>8. RestartTypeInv
  <2>1. current \in [Level -> SUBSET Nat]
    BY <1>2, <1>4 DEF Ids, File
  <2>2. 0 \in Level /\ 0 \in 0 .. MaxErrors /\ 0 \in 0 .. MaxSessions
    BY ShapeAssumption, ErrorsAssumption, RestartAssumption DEF Level
  <2> QED
    BY <1>2, <2>1, <2>2
    DEF RestartInit, InitMemory, NoFailures, RestartTypeInv, RestartTypeOK, LevelInv, Stopped
<1>9. FilesInv /\ StoppedInv
  BY <1>3, <1>7 DEF FilesInv, StoppedInv, RestartInit, InitMemory
<1>10. LiveInv /\ MemoryInv
  BY <1>7 DEF LiveInv, TreeInv, FileInv, MergeInv, TablesHaveFiles, MemoryInv, NamesLive, Stopped
<1>11. DurableInv
  BY <1>5, <1>6, <1>7 DEF DurableInv
<1> QED
  BY <1>8, <1>9, <1>10, <1>11 DEF RestartInv

\* The invariant holds in every session, whatever came before it.
THEOREM RestartInvariant == RestartSpec => []RestartInv
<1>1. RestartInv /\ [RestartNext]_restartVars => RestartInv'
  <2> SUFFICES ASSUME RestartInv, [RestartNext]_restartVars
               PROVE  RestartInv'
    OBVIOUS
  <2>1. CASE UNCHANGED restartVars
    BY <2>1 DEF restartVars, faultVars, vars, treeVars, storageVars, mergeVars, RestartInv, RestartTypeInv,
                RestartTypeOK, LevelInv, FilesInv, BuildingFile, StoppedInv, LiveInv, TreeInv, FileInv, MergeInv,
                Output, TablesHaveFiles, LiveSSTs, LiveKeys, MemoryInv, NamesLive, DurableInv, NamedFiles, FilesOf
  <2> QED
    BY <2>1, RestartInvStep, RestartInvClose, RestartInvCrash, RestartInvOpen DEF RestartNext, Ended
<1> QED
  BY <1>1, RestartInvInit, PTL DEF RestartSpec

\* Every variable has its type, in every session.
THEOREM RestartTypeCorrect == RestartSpec => []RestartTypeOK
<1>1. RestartInv => RestartTypeOK
  BY DEF RestartInv, RestartTypeInv
<1> QED
  BY <1>1, RestartInvariant, PTL

\* Whatever fails and wherever the process dies, the files CURRENT names are there as
\* they were when it was written, until a table is removed without a Persist to follow.
THEOREM StoreIsRecoverable == RestartSpec => []Recoverable
<1>1. RestartInv => Recoverable
  BY DEF RestartInv, DurableInv, Recoverable
<1> QED
  BY <1>1, RestartInvariant, PTL

\* No two live tables share an id, whichever session they are from, up to the first
\* session that begins with a stale manifest.
THEOREM TableIdsAreUnique == RestartSpec => []IdsUnique
<1>1. RestartInv => IdsUnique
  BY DEF RestartInv, LiveInv, TreeInv, FileInv, IdsUnique
<1> QED
  BY <1>1, RestartInvariant, PTL

\* A file with entries is not written to again, in any session and after any failure.
THEOREM PersistedFilesStay == RestartSpec => FilesImmutable
<1>1. RestartInv /\ [RestartNext]_restartVars =>
        [\A f \in files, g \in files' : f.id = g.id /\ f.kvs # {} => f = g]_files
  <2> SUFFICES ASSUME RestartInv, [RestartNext]_restartVars, files' # files,
                      NEW f \in files, NEW g \in files', f.id = g.id, f.kvs # {}
               PROVE  f = g
    OBVIOUS
  <2>1. Acts
    BY DEF RestartNext, Step, Acts, Close, Crash, Open, UseUnopened, Ended, restartVars, faultVars, vars, storageVars
  <2>2. TypeInv /\ FilesInv
    BY <2>1, ActsInPhase, SessionTypes DEF RestartInv
  <2>3. FilesChange
    BY <2>1, <2>2, FilesStep
  <2>4. CASE g \in files
    BY <2>2, <2>4 DEF FilesInv
  <2>5. CASE phase \in {"flush", "merge"} /\ g.id = building
    <3>1. f = BuildingFile
      BY <2>2, <2>5 DEF FilesInv, BuildingFile
    <3> QED
      BY <3>1 DEF BuildingFile
  <2>6. CASE g.id \notin Ids(files)
    BY <2>6 DEF Ids
  <2> QED
    BY <2>3, <2>4, <2>5, <2>6 DEF FilesChange
<1> QED
  BY <1>1, RestartInvariant, PTL DEF RestartSpec, FilesImmutable

\* A key in a table CURRENT names is in one of those it names next, unless a stale
\* manifest is made current.
THEOREM DurableKeysAreKept == RestartSpec => DurableKeysStay
<1>1. RestartInv /\ [RestartNext]_restartVars =>
        [named' # named /\ whole /\ stale' = {} => KeysIn(named) \subseteq KeysIn(named')]_restartVars
  <2> SUFFICES ASSUME RestartInv, [RestartNext]_restartVars, named' # named, whole, stale' = {}
               PROVE  KeysIn(named) \subseteq KeysIn(named')
    OBVIOUS
  <2>1. LiveInv /\ MemoryInv /\ FilesInv /\ RestartTypeInv
    BY DEF RestartInv
  <2>2. CASE Step
    <3>1. phase \in Phase
      BY <2>2, ActsInPhase DEF Step, Acts
    <3>2. named' = FilesOf(LiveIds) /\ phase \notin Stopped
      BY <2>2, <3>1, PhasesApart DEF Step
    <3>3. KeysIn(FilesOf(LiveIds)) = LiveKeys
      BY <2>1, <3>1, SessionTypes, LiveFiles DEF LiveInv
    <3> QED
      BY <2>1, <3>2, <3>3 DEF LiveInv
  <2>3. CASE Close
    <3>1. named' = FilesOf(manifest) /\ phase \notin Stopped /\ "inMemory" \notin stale
      BY <2>3 DEF Close, BothStale, Manifests, Stopped
    <3> QED
      BY <2>1, <3>1 DEF MemoryInv
  <2>4. Step \/ Close
    BY DEF RestartNext, Crash, Open, UseUnopened, Ended, restartVars
  <2> QED
    BY <2>2, <2>3, <2>4
<1> QED
  BY <1>1, RestartInvariant, PTL DEF RestartSpec, DurableKeysStay

-----------------------------------------------------------------------------
(* The manifest in memory, of whichever session *)

Stored == UNION {f.kvs : f \in files}

\* What is stored is finite, and no table is empty. In a session that knows no times
\* a merge still keeps one version of a key.
ContentInv ==
    /\ IsFiniteSet(Stored) /\ IsFiniteSet(memTable)
    /\ phase = "flush" => memTable # {}
    /\ \A l \in Level : \A s \in ssts[l] : s.kvs # {}
    /\ phase = "merge" => IsFiniteSet(todo) /\ todo # {} /\ OneVersionOf(todo)

\* The outputs of a merge are a run, whatever its inputs were.
OutputsInv ==
    /\ Merging => Run(Outputs) /\ \A t \in Outputs : IsFiniteSet(t.kvs) /\ OneVersionOf(t.kvs)
    /\ phase = "merge" => \A t \in Outputs : /\ Cardinality(t.kvs) = Limit
                                             /\ \A p \in t.kvs, q \in todo : p.key < q.key

\* Without failures no Put fails, and between compactions the manifests name the live
\* tables.
NamesAll == failures = {} => phase # "failed" /\ NamedInv

AgreeInv == whole => ContentInv /\ OutputsInv /\ NamesAll

\* Of what a step writes to files.
LEMMA NewStored ==
    ASSUME NEW fs, NewEmptySST(fs)
    PROVE  Stored' = UNION {f.kvs : f \in fs}
BY DEF NewEmptySST, Stored

LEMMA PersistedStored ==
    ASSUME NEW kvs
    PROVE  UNION {f.kvs : f \in Persisted(files, kvs)} \subseteq Stored \cup kvs
BY DEF Persisted, Stored

LEMMA StoredStep ==
    ASSUME Acts
    PROVE  Stored' \subseteq Stored \cup (IF phase = "merge" THEN Chunk ELSE memTable)
<1>1. CASE UNCHANGED files
  BY <1>1 DEF Stored
<1>2. CASE FlushSST
  BY <1>2, PersistedStored DEF FlushSST, Stored
<1>3. CASE FinishSST
  <2>1. phase = "merge" /\ Stored' = UNION {f.kvs : f \in Persisted(files, Chunk)}
    BY <1>3, NewStored DEF FinishSST, Stored
  <2> QED
    BY <2>1, PersistedStored
<1>4. CASE RemoveSST
  BY <1>4 DEF RemoveSST, RemainingFiles, Stored
<1>5. CASE NewEmptySST(files)
  BY <1>5, NewStored DEF Stored
<1> QED
  BY <1>1, <1>2, <1>3, <1>4, <1>5
  DEF Acts, Works, Next, PutStep, Put, StopCompaction, MoveToEmptyLevel, StartMerge, EndMerge, PersistManifest,
      WorkloadDone, vars, storageVars, Fails, FlushFails, MergeFails, ReadFails, UnlinkFails, PersistFails, GoOn

\* A merge begins with versions, if it has tables, and without outputs.
LEMMA MergeBegins ==
    ASSUME TypeInv, TablesHaveFiles, ContentInv, NEW victims \in Victims(level), StartMerge(victims),
           phase' = "merge"
    PROVE  /\ IsFiniteSet(todo') /\ todo' # {} /\ OneVersionOf(todo')
           /\ Outputs' = {}
<1> USE DEF TypeInv, TypeOK
<1>1. /\ level \in Level /\ level + 1 \in Level /\ victims # {}
      /\ ssts' = ssts /\ level' = level
      /\ marked' = marked \cup Ids(victims \cup ssts[level + 1])
      /\ todo' = Merged(Inputs(marked')) /\ toCompact' = Replaced(marked')
  BY ShapeAssumption DEF StartMerge, TooLarge, Level, Markable, treeVars
<1>2. victims \subseteq ssts[level]
  BY <1>1 DEF Victims, OldestOfLevel0, FirstOf
<1>3. victims \cup ssts[level + 1] \subseteq Inputs(marked') /\ Inputs(marked') \subseteq LiveSSTs
  BY <1>1, <1>2 DEF Inputs, LiveSSTs, Ids
<1>4. Inputs(marked') \in SUBSET SST
  BY <1>3 DEF LiveSSTs
<1>5. OneVersionOf(todo')
  BY <1>1, <1>4, MergedOnce
<1>6. todo' # {}
  <2>1. PICK s \in Inputs(marked') : s.kvs # {}
    BY <1>1, <1>2, <1>3 DEF ContentInv
  <2>2. PICK p \in s.kvs : TRUE
    BY <2>1
  <2> QED
    BY <1>1, <1>4, <2>2, MergedOldest
<1>7. IsFiniteSet(todo')
  <2>1. todo' \subseteq UNION {s.kvs : s \in LiveSSTs}
    BY <1>1, <1>3 DEF Merged
  <2>2. UNION {s.kvs : s \in LiveSSTs} \subseteq Stored
    <3>1. ASSUME NEW s \in LiveSSTs
          PROVE  s.kvs \subseteq Stored
      <4> DEFINE f == [id |-> s.id, kvs |-> s.kvs]
      <4>1. f \in files /\ f.kvs = s.kvs
        BY DEF TablesHaveFiles
      <4> HIDE DEF f
      <4> QED
        BY <4>1 DEF Stored
    <3> QED
      BY <3>1
  <2> QED
    BY <2>1, <2>2, FS_Subset DEF ContentInv
<1>8. Outputs' = {}
  BY <1>1 DEF Outputs, Replaced, Ids
<1> QED
  BY <1>5, <1>6, <1>7, <1>8

LEMMA ContentStep ==
    ASSUME TypeInv, TablesHaveFiles, ContentInv, Acts
    PROVE  ContentInv'
<1> USE DEF TypeInv, TypeOK
<1>1. phase = "merge" => Chunk \subseteq todo /\ IsFiniteSet(Chunk) /\ Chunk # {} /\ IsFiniteSet(todo \ Chunk)
  BY ChunkOfTodo DEF ContentInv
<1>2. IsFiniteSet(Stored')
  <2>1. IsFiniteSet(IF phase = "merge" THEN Chunk ELSE memTable)
    BY <1>1 DEF ContentInv
  <2>2. IsFiniteSet(Stored \cup (IF phase = "merge" THEN Chunk ELSE memTable))
    BY <2>1, FS_Union DEF ContentInv
  <2> QED
    BY <2>2, StoredStep, FS_Subset
<1>3. ASSUME UNCHANGED memTable, \A l \in Level : ssts'[l] \subseteq LiveSSTs, phase' \notin {"flush", "merge"}
      PROVE  ContentInv'
  BY <1>2, <1>3 DEF ContentInv, LiveSSTs
<1>4. ASSUME UNCHANGED <<memTable, ssts>>, phase' \notin {"flush", "merge"}
      PROVE  ContentInv'
  BY <1>2, <1>4 DEF ContentInv
<1>5. ASSUME NEW k \in Keys, Put(k)
      PROVE  ContentInv'
  <2>1. memTable' = Inserted(k, clock) /\ ssts' = ssts /\ phase' \in {"idle", "flush"}
    BY <1>5 DEF Put
  <2>2. IsFiniteSet(memTable')
    BY <2>1, FS_AddElement DEF Inserted, ContentInv
  <2>3. memTable' # {}
    BY <2>1 DEF Inserted, KeysOf
  <2> QED
    BY <1>2, <2>1, <2>2, <2>3 DEF ContentInv
<1>6. CASE FlushSST
  <2> DEFINE new == [id |-> building, kvs |-> memTable, persistTime |-> clock]
  <2>1. /\ ssts' = [ssts EXCEPT ![0] = @ \cup {new}] /\ memTable' = {}
        /\ phase = "flush" /\ phase' \notin {"flush", "merge"}
    BY <1>6 DEF FlushSST, AfterFlush
  <2>2. new.kvs # {}
    BY <2>1 DEF ContentInv
  <2>3. IsFiniteSet(memTable')
    BY <2>1, FS_EmptySet
  <2> HIDE DEF new
  <2>4. \A l \in Level : \A s \in ssts'[l] : s = new \/ s \in ssts[l]
    BY <2>1
  <2> QED
    BY <1>2, <2>1, <2>2, <2>3, <2>4 DEF ContentInv
<1>7. ASSUME NEW victims \in Victims(level), StartMerge(victims)
      PROVE  ContentInv'
  <2>1. ssts' = ssts /\ memTable' = memTable /\ phase' \in {"merge", "aborted"}
    BY <1>7 DEF StartMerge, treeVars
  <2> QED
    BY <1>2, <1>7, <2>1, MergeBegins DEF ContentInv
<1>8. CASE FinishSST
  <2> DEFINE new == [id |-> building, kvs |-> Chunk, persistTime |-> clock]
  <2>1. /\ ssts' = [ssts EXCEPT ![level + 1] = @ \cup {new}] /\ memTable' = memTable
        /\ phase = "merge" /\ phase' # "flush" /\ todo' = todo \ Chunk
        /\ todo' = {} => phase' # "merge"
    BY <1>8 DEF FinishSST
  <2>2. new.kvs # {}
    BY <1>1, <2>1
  <2> HIDE DEF new
  <2>3. \A l \in Level : \A s \in ssts'[l] : s = new \/ s \in ssts[l]
    BY <2>1
  <2>4. OneVersionOf(todo')
    BY <2>1 DEF ContentInv, OneVersionOf
  <2> QED
    BY <1>1, <1>2, <2>1, <2>2, <2>3, <2>4 DEF ContentInv
<1>9. ASSUME NEW victims \in Victims(level), MoveToEmptyLevel(victims)
      PROVE  ContentInv'
  <2>1. /\ ssts' = [ssts EXCEPT ![level] = @ \ Moved(victims), ![level + 1] = Moved(victims)]
        /\ Moved(victims) \subseteq ssts[level] /\ phase' \notin {"flush", "merge"}
        /\ level \in Level /\ memTable' = memTable
    BY <1>9 DEF MoveToEmptyLevel, Moved
  <2>2. \A l \in Level : ssts'[l] \subseteq LiveSSTs
    BY <2>1 DEF LiveSSTs
  <2> QED
    BY <1>3, <2>1, <2>2
<1>10. CASE RemoveSST \/ UnlinkFails
  <2>1. /\ \A l \in Level : ssts'[l] \subseteq ssts[l]
        /\ memTable' = memTable /\ phase' \notin {"flush", "merge"}
    BY <1>10 DEF RemoveSST, UnlinkFails, GivesUp
  <2>2. \A l \in Level : ssts'[l] \subseteq LiveSSTs
    BY <2>1 DEF LiveSSTs
  <2> QED
    BY <1>3, <2>1, <2>2
<1>11. CASE StopCompaction \/ EndMerge \/ PersistManifest \/ FlushFails \/ MergeFails \/ ReadFails
            \/ PersistFails \/ GoOn
  BY <1>4, <1>11 DEF StopCompaction, EndMerge, PersistManifest, FlushFails, MergeFails, ReadFails, PersistFails,
                     GoOn, GivesUp, treeVars
<1>12. CASE WorkloadDone
  BY <1>4, <1>12 DEF WorkloadDone, vars, treeVars
<1> QED
  BY <1>5, <1>6, <1>7, <1>8, <1>9, <1>10, <1>11, <1>12 DEF Acts, Works, Next, PutStep, Fails

\* The next output of a merge has the smallest keys still to come.
LEMMA OutputsFinish ==
    ASSUME TypeInv, TreeInv, ContentInv, OutputsInv, FinishSST
    PROVE  OutputsInv'
<1> USE DEF TypeInv, TypeOK
<1> DEFINE new == [id |-> building, kvs |-> Chunk, persistTime |-> clock]
<1>1. /\ phase = "merge" /\ level \in Level /\ level + 1 \in Level
      /\ UNCHANGED <<level, toCompact>>
      /\ todo' = todo \ Chunk
      /\ ssts' = [ssts EXCEPT ![level + 1] = @ \cup {new}]
      /\ phase' \in {"merge", "remove"} /\ (phase' = "merge" => todo' # {})
  BY DEF FinishSST, LevelInv
<1>2. /\ Chunk \subseteq todo /\ IsFiniteSet(Chunk)
      /\ todo' # {} => Cardinality(Chunk) = Limit
      /\ \A p \in Chunk, q \in todo' : p.key < q.key
  BY <1>1, ChunkOfTodo DEF ContentInv
<1>3. new.id = building /\ new.kvs = Chunk
  OBVIOUS
<1> HIDE DEF new
<1>4. new \notin toCompact
  <2>1. \A l \in Level : \A s \in ssts[l] : s.id # building
    BY <1>1 DEF TreeInv, FileInv
  <2>2. toCompact \subseteq ssts[level] \cup ssts[level + 1]
    BY <1>1 DEF TreeInv, MergeInv
  <2> QED
    BY <1>1, <1>3, <2>1, <2>2
<1>5. Outputs' = Outputs \cup {new}
  BY <1>1, <1>4 DEF Outputs
<1>6. \A t \in Outputs : Cardinality(t.kvs) = Limit /\ KeysBelow(t, new)
  BY <1>1, <1>2, <1>3 DEF OutputsInv, KeysBelow
<1>7. Run(Outputs')
  BY <1>1, <1>5, <1>6 DEF OutputsInv, Merging, Run
<1>8. \A t \in Outputs' : IsFiniteSet(t.kvs) /\ OneVersionOf(t.kvs)
  <2>1. OneVersionOf(Chunk)
    BY <1>1, <1>2 DEF ContentInv, OneVersionOf
  <2> QED
    BY <1>1, <1>2, <1>3, <1>5, <2>1 DEF OutputsInv, Merging
<1>9. ASSUME phase' = "merge", NEW t \in Outputs'
      PROVE  /\ Cardinality(t.kvs) = Limit
             /\ \A p \in t.kvs, q \in todo' : p.key < q.key
  <2>1. CASE t = new
    BY <1>1, <1>2, <1>3, <1>9, <2>1
  <2>2. CASE t \in Outputs
    BY <1>1, <1>6, <2>2 DEF OutputsInv
  <2> QED
    BY <1>5, <1>9, <2>1, <2>2
<1> QED
  BY <1>7, <1>8, <1>9 DEF OutputsInv

\* The other steps leave the outputs alone, or begin without any.
LEMMA OutputsStep ==
    ASSUME TypeInv, TreeInv, TablesHaveFiles, ContentInv, OutputsInv, Acts
    PROVE  OutputsInv'
<1>1. CASE FinishSST
  BY <1>1, OutputsFinish
<1>2. ASSUME NEW victims \in Victims(level), StartMerge(victims)
      PROVE  OutputsInv'
  <2>1. CASE phase' = "merge"
    <3>1. Outputs' = {}
      BY <1>2, <2>1, MergeBegins
    <3> QED
      BY <3>1 DEF OutputsInv, Run
  <2>2. CASE phase' # "merge"
    <3>1. phase' = "aborted"
      BY <1>2, <2>2 DEF StartMerge
    <3> QED
      BY <3>1 DEF OutputsInv, Merging
  <2> QED
    BY <2>1, <2>2
<1>3. CASE RemoveSST
  <2>1. PICK s \in NotYetRemoved :
          ssts' = [ssts EXCEPT ![level] = @ \ {s}, ![level + 1] = @ \ {s}]
    BY <1>3 DEF RemoveSST, FirstOf
  <2>2. phase = "remove" /\ phase' = "remove" /\ UNCHANGED <<level, toCompact>>
    BY <1>3 DEF RemoveSST
  <2>3. \A l \in Level : ssts'[l] = ssts[l] \ {s}
    BY <2>1, <2>2, Gone DEF TreeInv
  <2>4. level + 1 \in Level /\ s \in toCompact
    BY <2>1, <2>2 DEF TypeInv, LevelInv, NotYetRemoved
  <2>5. Outputs' = Outputs
    BY <2>2, <2>3, <2>4 DEF Outputs
  <2> QED
    BY <2>2, <2>5 DEF OutputsInv, Merging
<1>4. CASE WorkloadDone
  BY <1>4 DEF WorkloadDone, vars, treeVars, mergeVars, OutputsInv, Outputs, Merging
<1>5. CASE ~ Merging'
  BY <1>5 DEF OutputsInv, Merging
<1>6. Acts => \/ FinishSST \/ RemoveSST \/ WorkloadDone \/ ~ Merging'
              \/ \E victims \in Victims(level) : StartMerge(victims)
  BY DEF Acts, Works, Next, PutStep, Put, FlushSST, AfterFlush, StopCompaction, MoveToEmptyLevel, EndMerge,
         PersistManifest, Fails, FlushFails, MergeFails, ReadFails, UnlinkFails, PersistFails, GoOn, GivesUp, Merging
<1> QED
  BY <1>1, <1>2, <1>3, <1>4, <1>5, <1>6

\* What a merge has written passes verify, whatever it read.
LEMMA NamesAllStep ==
    ASSUME Limit > 1, TypeInv, ContentInv, OutputsInv, NamesAll, Acts
    PROVE  NamesAll'
<1> USE DEF TypeInv, TypeOK
<1> SUFFICES ASSUME failures' = {}
             PROVE  phase' # "failed" /\ NamedInv'
  BY DEF NamesAll
<1>1. Works \/ GoOn
  BY DEF Acts, Fails, FlushFails, MergeFails, ReadFails, UnlinkFails, PersistFails, Fault
<1>2. failures = {} /\ phase # "failed" /\ NamedInv
  BY <1>1 DEF Works, GoOn, NamesAll
<1>3. Works
  BY <1>1, <1>2 DEF GoOn
<1>4. NamedInv'
  BY <1>2, <1>3, NamedStep DEF Works
<1>5. CASE EndMerge
  <2>1. /\ phase = "remove" /\ level + 1 \in Level /\ NotYetRemoved = {}
    BY <1>5 DEF EndMerge, LevelInv
  <2>2. Outputs = ssts[level + 1]
    BY <2>1 DEF Outputs, NotYetRemoved
  <2>3. /\ Run(ssts[level + 1])
        /\ \A s \in ssts[level + 1] : s.kvs # {} /\ IsFiniteSet(s.kvs) /\ OneVersionOf(s.kvs)
    BY <2>1, <2>2 DEF OutputsInv, ContentInv, Merging
  <2>4. Verified(level + 1)
    BY <2>1, <2>3, RunVerified
  <2> QED
    BY <1>4, <1>5, <2>4 DEF EndMerge
<1>6. EndMerge \/ phase' # "failed"
  BY <1>2, <1>3 DEF Works, Next, PutStep, Put, FlushSST, AfterFlush, StopCompaction, MoveToEmptyLevel,
     StartMerge, FinishSST, RemoveSST, PersistManifest, WorkloadDone, vars
<1> QED
  BY <1>4, <1>5, <1>6

\* Without a process there is nothing to agree on but what is stored.
LEMMA AgreeStopped ==
    ASSUME AgreeInv, Close \/ Crash
    PROVE  AgreeInv'
<1>1. MemoryLost /\ phase' = "closed" /\ UNCHANGED <<files, whole>>
  BY DEF Close, Crash, storageVars
<1>2. SUFFICES ASSUME whole
               PROVE  ContentInv' /\ OutputsInv' /\ NamesAll'
  BY <1>1 DEF AgreeInv
<1>3. IsFiniteSet({}) /\ \A l \in Level : ssts'[l] = {}
  BY <1>1, FS_EmptySet DEF MemoryLost
<1>4. ContentInv'
  BY <1>1, <1>2, <1>3 DEF AgreeInv, ContentInv, Stored, MemoryLost
<1>5. OutputsInv' /\ NamesAll'
  BY <1>1 DEF OutputsInv, Merging, NamesAll, NamedInv
<1> QED
  BY <1>4, <1>5

\* A store that is opened has the tables its manifest names, and they are full.
LEMMA AgreeOpen ==
    ASSUME RestartInv, AgreeInv, Open
    PROVE  AgreeInv'
<1> SUFFICES ASSUME whole'
             PROVE  ContentInv' /\ OutputsInv' /\ NamesAll'
  BY DEF AgreeInv
<1>1. /\ phase = "closed" /\ phase' \in {"died", "openfailed", "idle"}
      /\ UNCHANGED <<memTable, files, current, failures>>
  BY DEF Open, storageVars
<1>2. whole /\ "onStorage" \notin stale
  BY DEF Open
<1>3. ~ Missing
  BY <1>2 DEF RestartInv, DurableInv, Missing, Lacking
<1>4. IsFiniteSet(Stored') /\ IsFiniteSet(memTable')
  BY <1>1, <1>2 DEF AgreeInv, ContentInv, Stored
<1>5. OutputsInv'
  BY <1>1 DEF OutputsInv, Merging
<1>6. CASE phase' # "idle"
  <2>1. UNCHANGED ssts
    BY <1>1, <1>3, <1>6 DEF Open
  <2>2. ContentInv'
    BY <1>1, <1>2, <1>4, <2>1 DEF AgreeInv, ContentInv
  <2>3. NamesAll'
    BY <1>1, <1>6 DEF NamesAll, NamedInv
  <2> QED
    BY <1>5, <2>2, <2>3
<1>7. CASE phase' = "idle"
  <2>1. PICK time :
          /\ manifest' = current
          /\ \A f \in UNION {NamedFiles[l] : l \in Level} : Parses(f)
          /\ ssts' = [l \in Level |-> {[id |-> f.id, kvs |-> f.kvs,
                                        persistTime |-> IF l = 0 THEN time[f] ELSE 0] : f \in NamedFiles[l]}]
    BY <1>3, <1>7 DEF Open, Readable
  <2>2. \A l \in Level : \A s \in ssts'[l] : \E f \in NamedFiles[l] : s.id = f.id /\ s.kvs = f.kvs
    BY <2>1
  <2>3. ASSUME NEW l \in Level, NEW s \in ssts'[l]
        PROVE  s.kvs # {}
    <3>1. PICK f \in NamedFiles[l] : s.kvs = f.kvs
      BY <2>2
    <3>2. Cardinality(s.kvs) = Limit
      BY <2>1, <3>1 DEF Parses
    <3> QED
      BY <3>2, FS_EmptySet, ShapeAssumption
  <2>4. ContentInv'
    BY <1>1, <1>4, <1>7, <2>3 DEF ContentInv
  <2>5. ASSUME NEW l \in Level
        PROVE  Ids(ssts'[l]) = current[l]
    <3>1. NamedFiles[l] = {f \in files : f.id \in current[l]} /\ current[l] \subseteq Ids(files)
      BY <1>2 DEF NamedFiles, FilesOf, RestartInv, DurableInv
    <3>2. \A s \in ssts'[l] : s.id \in current[l]
      BY <2>2, <3>1
    <3>3. ASSUME NEW id \in current[l]
          PROVE  \E s \in ssts'[l] : s.id = id
      <4>1. PICK f \in files : f.id = id
        BY <3>1 DEF Ids
      <4> DEFINE new == [id |-> f.id, kvs |-> f.kvs, persistTime |-> IF l = 0 THEN time[f] ELSE 0]
      <4>2. new \in ssts'[l] /\ new.id = id
        BY <2>1, <3>1, <4>1
      <4> HIDE DEF new
      <4> QED
        BY <4>2
    <3> QED
      BY <3>2, <3>3 DEF Ids
  <2>6. NamedInv'
    <3>1. current \in [Level -> SUBSET Nat]
      BY DEF RestartInv, RestartTypeInv, RestartTypeOK
    <3>2. LiveIds' = current
      BY <2>5, <3>1 DEF LiveIds
    <3> QED
      BY <1>1, <2>1, <2>5, <3>2, ShapeAssumption DEF NamedInv, Level
  <2>7. NamesAll'
    BY <1>7, <2>6 DEF NamesAll
  <2> QED
    BY <1>5, <2>4, <2>7
<1> QED
  BY <1>6, <1>7

\* What is stored at first is finite.
LEMMA AgreeInit == RestartInit => AgreeInv
<1> SUFFICES ASSUME RestartInit
             PROVE  AgreeInv
  OBVIOUS
<1>1. PICK store \in Stores : /\ named = store.named
                              /\ files = (UNION {named[l] : l \in Level}) \cup store.orphans
  BY DEF RestartInit
<1>2. IsFiniteSet(Stored)
  <2> DEFINE stored == (UNION {store.named[l] : l \in Level}) \cup store.orphans
  <2>1. stored = files
    BY <1>1
  <2>2. IsFiniteSet(UNION {f.kvs : f \in stored})
    BY StoresAssumption
  <2> HIDE DEF stored
  <2> QED
    BY <2>1, <2>2 DEF Stored
<1>3. ContentInv
  BY <1>2, FS_EmptySet DEF RestartInit, InitMemory, ContentInv
<1>4. OutputsInv /\ NamesAll
  BY DEF RestartInit, OutputsInv, Merging, NamesAll, NamedInv
<1> QED
  BY <1>3, <1>4 DEF AgreeInv

\* Between Puts, every live table has its file and the manifest in memory names the live
\* tables, all of them unless something has failed: also in a session that opened the
\* store of an earlier one, up to the first that begins with a stale manifest.
THEOREM TreesAgree ==
    ASSUME Limit > 1
    PROVE  RestartSpec => []TreeAgrees
<1>1. RestartInv /\ AgreeInv /\ [RestartNext]_restartVars => AgreeInv'
  <2> SUFFICES ASSUME RestartInv, AgreeInv, [RestartNext]_restartVars
               PROVE  AgreeInv'
    OBVIOUS
  <2>1. CASE Step
    <3>1. Acts /\ phase \in Phase
      BY <2>1, ActsInPhase DEF Step, Acts
    <3>2. TypeInv
      BY <3>1, SessionTypes DEF RestartInv
    <3>3. SUFFICES ASSUME whole
                   PROVE  ContentInv' /\ OutputsInv' /\ NamesAll'
      BY <2>1 DEF Step, AgreeInv
    <3>4. TreeInv /\ TablesHaveFiles /\ ContentInv /\ OutputsInv /\ NamesAll
      BY <3>3 DEF RestartInv, LiveInv, AgreeInv
    <3> QED
      BY <3>1, <3>2, <3>4, ContentStep, OutputsStep, NamesAllStep
  <2>2. CASE UseUnopened
    BY <2>2 DEF RestartInv, StoppedInv, UseUnopened, AgreeInv
  <2>3. CASE UNCHANGED restartVars
    BY <2>3 DEF restartVars, faultVars, vars, treeVars, storageVars, mergeVars, AgreeInv, ContentInv, Stored,
                OutputsInv, Outputs, Merging, NamesAll, NamedInv, LiveIds
  <2> QED
    BY <2>1, <2>2, <2>3, AgreeStopped, AgreeOpen DEF RestartNext, Ended
<1>2. RestartInv /\ AgreeInv => TreeAgrees
  BY DEF RestartInv, LiveInv, MemoryInv, AgreeInv, NamesAll, NamedInv, TreeAgrees
<1> QED
  BY <1>1, <1>2, AgreeInit, RestartInvariant, PTL DEF RestartSpec

=============================================================================

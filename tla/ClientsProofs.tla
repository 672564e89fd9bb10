---------------------------- MODULE ClientsProofs ----------------------------
(***************************************************************************)
(* Proofs about Clients, for every shape of the tree, either picker and    *)
(* workloads of any size: all that is proved of the tree holds whichever   *)
(* client uses it, with scans in between; what the YCSB client requests    *)
(* was loaded, and the store it has loaded can be closed and opened again; *)
(* when the assert of the manual driver fails; and what a scan collects,   *)
(* with its asserts, as long as level 0 has one table at most.             *)
(***************************************************************************)
EXTENDS Clients, LSMTreeProofs

-----------------------------------------------------------------------------
(* The tree, as clients see it: a scan leaves it alone. *)

\* The types of LSMTree, with one more phase.
TreeTypeOK ==
    /\ memTable \in SUBSET KV
    /\ ssts \in [Level -> SUBSET SST]
    /\ files \in SUBSET File
    /\ clock \in Nat
    /\ ctr \in Nat
    /\ marked \in SUBSET Nat
    /\ manifest \in [Level -> SUBSET Nat]
    /\ current \in [Level -> SUBSET Nat]
    /\ phase \in Phase \cup {"scan"}
    /\ level \in Level
    /\ building \in Nat
    /\ todo \in SUBSET KV
    /\ toCompact \in SUBSET SST
    /\ newSSTs \in Nat
    /\ picker \in Pickers
    /\ written \in [Keys -> SUBSET Nat]

TreesInv ==
    /\ TreeTypeOK
    /\ LevelInv
    /\ KeepInv /\ RecInv /\ CleanInv /\ SortedInv
    /\ StorageInv /\ NamedInv
    /\ phase = "scan" => /\ files = TableFiles
                         /\ manifest = LiveIds
                         /\ \A l \in Level \ {0} : current[l] = Ids(ssts[l])
                         /\ current[0] \subseteq Ids(ssts[0])

LEMMA TypesOfTree ==
    ASSUME TreesInv, phase \in Phase
    PROVE  TypeInv /\ AllInv
BY DEF TreesInv, TreeTypeOK, TypeInv, TypeOK, AllInv, Invs

\* A step of LSMTree.
LEMMA TreesTree ==
    ASSUME TreesInv, [Next]_vars, phase \in Phase
    PROVE  TreesInv'
<1>1. TypeInv /\ AllInv
  BY TypesOfTree
<1>2. TypeInv'
  BY <1>1, TypeStep
<1>3. KeepInv' /\ RecInv'
  BY <1>1, KeepStep, RecStep DEF AllInv, Invs
<1>4. CleanInv' /\ SortedInv'
  BY <1>1, <1>2, <1>3, CleanStep, SortedStep DEF AllInv, Invs
<1>5. StorageInv' /\ NamedInv'
  BY <1>1, StorageStep, NamedStep DEF TreesInv
<1>6. phase' # "scan"
  BY <1>2 DEF TypeInv, TypeOK, Phase
<1> QED
  BY <1>2, <1>3, <1>4, <1>5, <1>6 DEF TreesInv, TreeTypeOK, TypeInv, TypeOK

\* A step of a scan, its beginning or its end; and Close.
LEMMA TreesScan ==
    ASSUME TreesInv, UNCHANGED <<treeVars, files, mergeVars, clock, ctr, written, picker>>,
           phase \in {"idle", "scan"}, phase' \in {"idle", "scan", "aborted"},
           current' \in {current, manifest}
    PROVE  TreesInv'
<1>1. UNCHANGED <<memTable, ssts, manifest, files, marked, level, building, todo, toCompact, newSSTs,
                  clock, ctr, written, picker>>
  BY DEF treeVars, mergeVars
<1>2. TreeTypeOK' /\ LevelInv' /\ ~ Merging /\ ~ Merging'
  BY <1>1 DEF TreesInv, TreeTypeOK, Phase, LevelInv, Merging
<1>3. KeepInv'
  BY <1>1 DEF TreesInv, KeepInv, WrittenInv, FileInv, MergeInv, FirstInv, Holds
<1>4. Frozen' = Frozen /\ LiveSSTs' = LiveSSTs /\ NotYetRemoved' = NotYetRemoved
  BY <1>1, <1>2 DEF Frozen, LiveSSTs, Merging, NotYetRemoved
<1>5. /\ \A p : InFrozen(p)' <=> InFrozen(p)
      /\ \A p, j : InFrozenBelow(p, j)' <=> InFrozenBelow(p, j)
  BY <1>1, <1>4 DEF InFrozen, InFrozenBelow
<1>6. RecInv'
  <2>1. SinglesInv' /\ TimesInv' /\ MemTableNewest' /\ Level0Ordered'
    BY <1>1, <1>4 DEF TreesInv, RecInv, SinglesInv, OneVersionOf, TimesInv, MemTableNewest, Level0Ordered
  <2>2. MarksInv' /\ InputsInv' /\ PendingInv'
    BY <1>1, <1>2, <1>4 DEF TreesInv, RecInv, MarksInv, InputsInv, PendingInv, Merging
  <2>3. RunInv'
    BY <1>1, <1>2, <1>4, <1>5 DEF TreesInv, RecInv, RunInv, KeysDisjoint, Supersedes
  <2>4. LevelsOrdered'
    BY <1>1, <1>2, <1>5 DEF TreesInv, RecInv, LevelsOrdered, Ages
  <2> QED
    BY <2>1, <2>2, <2>3, <2>4 DEF RecInv
<1>7. CleanInv'
  <2>1. RecencyOrder'
    BY <1>1, <1>4, <1>6 DEF TreesInv, CleanInv, RecencyOrder, MemTableNewest, Level0Ordered
  <2> QED
    BY <1>1, <1>2, <2>1 DEF TreesInv, CleanInv
<1>8. SortedInv'
  BY <1>1, <1>2 DEF TreesInv, SortedInv, SizesInv, Sized, OrderInv, CountInv, Run, KeysBelow, Merging
<1>9. files = TableFiles /\ manifest = LiveIds
  BY DEF TreesInv, StorageInv, NamedInv
<1>10. TableFiles' = TableFiles /\ LiveIds' = LiveIds
  BY <1>1, <1>4 DEF TableFiles, LiveIds
<1>11. /\ \A l \in Level \ {0} : current'[l] = Ids(ssts'[l])
       /\ current'[0] \subseteq Ids(ssts'[0])
  BY <1>1, <1>9, ShapeAssumption DEF TreesInv, NamedInv, LiveIds, Level
<1>12. StorageInv' /\ NamedInv'
  BY <1>1, <1>9, <1>10, <1>11 DEF StorageInv, NamedInv
<1> QED
  BY <1>1, <1>2, <1>3, <1>6, <1>7, <1>8, <1>9, <1>10, <1>11, <1>12 DEF TreesInv

-----------------------------------------------------------------------------
(* What the clients count *)

\* round_up_to_nearest_multiple gives a whole number of tables, and enough of them.
LEMMA Rounded ==
    ASSUME NEW n \in Nat
    PROVE  /\ RoundedUp(n) \in Nat /\ RoundedUp(n) >= n
           /\ n = 0 => RoundedUp(n) = 0
           /\ \E m \in Nat : RoundedUp(n) = m * Limit
<1> DEFINE q == (n + Limit - 1) \div Limit
           r == (n + Limit - 1) % Limit
<1>1. Limit \in Nat \ {0} /\ n + Limit - 1 \in Nat
  BY ShapeAssumption
<1>2. /\ q \in Nat /\ r \in 0 .. Limit - 1
      /\ n + Limit - 1 = Limit * q + r
  BY <1>1
<1>3. RoundedUp(n) = q * Limit
  BY DEF RoundedUp
<1>4. n = 0 => q = 0
  BY <1>1
<1> HIDE DEF q, r
<1>5. q * Limit = Limit * q /\ q * Limit \in Nat
  BY <1>1, <1>2
<1>6. q * Limit >= n
  BY <1>1, <1>2, <1>5
<1>7. n = 0 => q * Limit = 0
  BY <1>1, <1>4
<1> QED
  BY <1>2, <1>3, <1>5, <1>6, <1>7

CountsTypeOK ==
    /\ client \in {"any", "ycsb", "manual", "closed", "killed"}
    /\ sizes \in [loads : Nat, records : Nat, reads : Nat, writes : Nat]
    /\ loads \in Nat
    /\ sequence \in Seq(Keys)
    /\ reads \in Nat
    /\ writes \in Nat

\* Only the YCSB client has records; of those it loads at least as many as it may
\* request, and every record it has loaded has its key.
CountsInv ==
    /\ CountsTypeOK
    /\ sizes.records > 0 => client \in {"ycsb", "closed"}
    /\ client = "ycsb" => /\ 0 < sizes.records /\ sizes.records <= sizes.loads
                          /\ loads <= sizes.loads
                          /\ loads <= Len(sequence)

LEMMA CountsInit == ClientsInit => CountsInv
<1> SUFFICES ASSUME ClientsInit PROVE CountsInv
  OBVIOUS
<1>1. loads = 0 /\ sequence = <<>> /\ reads = 0 /\ writes = 0 /\ Len(sequence) = 0
  BY DEF ClientsInit
<1>2. CASE client = "any" /\ sizes = [loads |-> 0, records |-> 0, reads |-> 0, writes |-> 0]
  BY <1>1, <1>2 DEF CountsInv, CountsTypeOK
<1>3. CASE client = "ycsb" /\ sizes \in YCSBSizes
  <2>1. PICK n \in RecordCounts : sizes = [loads |-> RoundedUp(n), records |-> n, reads |-> 0, writes |-> 0]
    BY <1>3 DEF YCSBSizes
  <2>2. n \in Nat /\ n > 0
    BY ClientsAssumption
  <2>3. RoundedUp(n) \in Nat /\ RoundedUp(n) >= n
    BY <2>2, Rounded
  <2> QED
    BY <1>1, <1>3, <2>1, <2>2, <2>3 DEF CountsInv, CountsTypeOK
<1>4. CASE client = "manual" /\ sizes \in ManualSizes
  <2>1. PICK p \in PrepopulateSizes, r \in ReadSizes, w \in WriteSizes :
          sizes = [loads |-> RoundedUp(p), records |-> 0, reads |-> r, writes |-> RoundedUp(w)]
    BY <1>4 DEF ManualSizes
  <2>2. p \in Nat /\ r \in Nat /\ w \in Nat
    BY ClientsAssumption
  <2>3. RoundedUp(p) \in Nat /\ RoundedUp(w) \in Nat
    BY <2>2, Rounded
  <2> QED
    BY <1>1, <1>4, <2>1, <2>2, <2>3 DEF CountsInv, CountsTypeOK
<1> QED
  BY <1>2, <1>3, <1>4 DEF ClientsInit

LEMMA CountsStep ==
    ASSUME CountsInv, [ClientsNext]_clientVars
    PROVE  CountsInv'
<1>1. CASE UNCHANGED <<client, sizes, progress>>
  BY <1>1 DEF CountsInv, CountsTypeOK, progress
<1>2. CASE Load
  <2>1. PICK k \in Keys : sequence' = Append(sequence, k)
    BY <1>2 DEF Load, NextSequenceKey
  <2>2. sequence' \in Seq(Keys) /\ Len(sequence') = Len(sequence) + 1 /\ Len(sequence) \in Nat
    BY <2>1 DEF CountsInv, CountsTypeOK
  <2> QED
    BY <1>2, <2>2 DEF Load, Loading, CountsInv, CountsTypeOK
<1>3. CASE Read \/ ScanRequest
  BY <1>3 DEF Read, ScanRequest, Working, CountsInv, CountsTypeOK
<1>4. CASE Write
  <2>1. \/ sequence' = sequence
        \/ \E k \in Keys : sequence' = Append(sequence, k)
    BY <1>4 DEF Write, NextSequenceKey
  <2>2. sequence' \in Seq(Keys) /\ Len(sequence') >= Len(sequence) /\ Len(sequence) \in Nat
                               /\ Len(sequence') \in Nat
    BY <2>1 DEF CountsInv, CountsTypeOK
  <2> QED
    BY <1>4, <2>2 DEF Write, Working, CountsInv, CountsTypeOK
<1>5. CASE WorkDone \/ ManualDone
  BY <1>5 DEF WorkDone, ManualDone, progress, CountsInv, CountsTypeOK
<1>6. CASE Prepopulate \/ ManualRead \/ ManualWrite
  BY <1>6 DEF Prepopulate, ManualRead, ManualWrite, CountsInv, CountsTypeOK
<1> QED
  BY <1>1, <1>2, <1>3, <1>4, <1>5, <1>6
  DEF ClientsNext, Call, Anything, YCSB, Manual, NothingMore, clientVars

\* Every request of the YCSB client is for a key it has loaded.
LEMMA RequestedAreKeys ==
    ASSUME CountsInv, client = "ycsb", ~ Loading
    PROVE  /\ \A n \in Requestable : n < Len(sequence) /\ n + 1 \in DOMAIN sequence
                                    /\ sequence[n + 1] \in Keys
           /\ Requested \subseteq Keys
<1>1. /\ Len(sequence) \in Nat /\ sizes.records <= Len(sequence) /\ sizes.records \in Nat
      /\ sequence \in Seq(Keys)
  BY DEF CountsInv, CountsTypeOK, Loading
<1>2. ASSUME NEW n \in Requestable
      PROVE  n < Len(sequence) /\ n + 1 \in DOMAIN sequence /\ sequence[n + 1] \in Keys
  BY <1>1, <1>2 DEF Requestable
<1> QED
  BY <1>2 DEF Requested

-----------------------------------------------------------------------------
(* What a client's step does to the tree *)

Putting == phase = "idle" /\ \E k \in Keys : Put(k)
Scanning ==
    /\ UNCHANGED <<treeVars, storageVars, mergeVars, clock, ctr, written, picker>>
    /\ phase \in {"idle", "scan"} /\ phase' \in {"idle", "scan", "aborted"}
Closing ==
    /\ UNCHANGED <<treeVars, files, mergeVars, clock, ctr, phase, written, picker>>
    /\ phase = "idle" /\ current' \in {current, manifest}

LEMMA ClientsDo ==
    ASSUME CountsInv, [ClientsNext]_clientVars
    PROVE  Putting \/ PutStep \/ Scanning \/ Closing \/ UNCHANGED vars
<1>1. CASE Call
  BY <1>1 DEF Call, Visit, NextLevel, Scanning
<1>2. CASE Anything
  BY <1>2 DEF Anything, Putting, Put, StartScan, Scanning
<1>3. CASE Load
  BY <1>3 DEF Load, Putting, Put
<1>4. CASE Read \/ ManualRead
  BY <1>4 DEF Read, ManualRead, scanVars
<1>5. CASE ScanRequest
  BY <1>5 DEF ScanRequest, StartScan, Scanning
<1>6. CASE Write
  BY <1>6, RequestedAreKeys DEF Write, Working, Putting, Put
<1>7. CASE WorkDone \/ ManualDone
  BY <1>7 DEF WorkDone, ManualDone, Closing
<1>8. CASE Prepopulate \/ ManualWrite
  BY <1>8 DEF Prepopulate, ManualWrite, Putting, Put
<1>9. CASE NothingMore \/ UNCHANGED clientVars
  BY <1>9 DEF NothingMore, clientVars, scanVars
<1> QED
  BY <1>1, <1>2, <1>3, <1>4, <1>5, <1>6, <1>7, <1>8, <1>9 DEF ClientsNext, YCSB, Manual

\* In a Put the process is in one of the phases of LSMTree.
LEMMA PutPhases ==
    ASSUME PutStep
    PROVE  phase \in Phase \ {"idle"}
BY DEF PutStep, FlushSST, StopCompaction, MoveToEmptyLevel, StartMerge, TooLarge, FinishSST, RemoveSST,
       EndMerge, PersistManifest, Phase

LEMMA TreesStep ==
    ASSUME CountsInv, TreesInv, [ClientsNext]_clientVars
    PROVE  TreesInv'
<1>1. CASE Putting
  BY <1>1, TreesTree DEF Putting, Next, Phase
<1>2. CASE PutStep
  BY <1>2, TreesTree, PutPhases DEF Next
<1>3. CASE Scanning
  BY <1>3, TreesScan DEF Scanning, storageVars
<1>4. CASE Closing
  BY <1>4, TreesScan DEF Closing
<1>5. CASE UNCHANGED vars
  <2>1. CASE phase \in Phase
    BY <1>5, <2>1, TreesTree
  <2>2. CASE phase = "scan"
    BY <1>5, <2>2, TreesScan DEF vars, storageVars
  <2> QED
    BY <2>1, <2>2 DEF TreesInv, TreeTypeOK
<1> QED
  BY <1>1, <1>2, <1>3, <1>4, <1>5, ClientsDo

LEMMA TreesInit == Init => TreesInv
<1> SUFFICES ASSUME Init PROVE TreesInv
  OBVIOUS
<1>1. TreeTypeOK /\ LevelInv /\ phase # "scan"
  BY ShapeAssumption DEF Init, InitMemory, TreeTypeOK, LevelInv, Level, Phase
<1>2. StorageInv /\ NamedInv
  BY ShapeAssumption DEF Init, InitMemory, StorageInv, NamedInv, TableFiles, LiveSSTs, LiveIds, Ids, Level
<1> QED
  BY <1>1, <1>2, KeepInit, RecInit, CleanInit, SortedInit DEF TreesInv

\* Whichever client uses it, with scans between its Puts, the tree's invariants hold.
THEOREM TreesInvariant == ClientsSpec => [](CountsInv /\ TreesInv)
<1>1. ClientsInit => CountsInv /\ TreesInv
  BY CountsInit, TreesInit DEF ClientsInit, ScanInit
<1>2. CountsInv /\ TreesInv /\ [ClientsNext]_clientVars => CountsInv' /\ TreesInv'
  BY CountsStep, TreesStep
<1> QED
  BY <1>1, <1>2, PTL DEF ClientsSpec

-----------------------------------------------------------------------------
(* The keys of the YCSB client *)

\* A Put adds a version of its key, and nothing else changes what was written.
LEMMA WrittenGrows ==
    ASSUME CountsInv, TreesInv, [ClientsNext]_clientVars
    PROVE  \A k \in Keys : written[k] \subseteq written'[k]
<1>1. CASE Putting
  BY <1>1 DEF Putting, Put, TreesInv, TreeTypeOK
<1>2. CASE PutStep
  BY <1>2 DEF PutStep, FlushSST, StopCompaction, MoveToEmptyLevel, StartMerge, FinishSST, RemoveSST,
              EndMerge, PersistManifest
<1>3. CASE Scanning \/ Closing \/ UNCHANGED vars
  BY <1>3 DEF Scanning, Closing, vars
<1> QED
  BY <1>1, <1>2, <1>3, ClientsDo

\* A new key is put as it gets its number.
LEMMA SequenceGrows ==
    ASSUME CountsInv, TreesInv, [ClientsNext]_clientVars
    PROVE  \/ sequence' = sequence
           \/ \E k \in Keys : /\ Put(k) /\ k \notin Range(sequence)
                             /\ Range(sequence') = Range(sequence) \cup {k}
<1>1. CASE Load \/ Write
  <2>1. \/ sequence' = sequence
        \/ \E k \in Keys : Put(k) /\ k \notin Range(sequence) /\ sequence' = Append(sequence, k)
    BY <1>1 DEF Load, Write, NextSequenceKey
  <2>2. ASSUME NEW k \in Keys
        PROVE  Range(Append(sequence, k)) = Range(sequence) \cup {k}
    <3> DEFINE after == Append(sequence, k)
    <3>1. /\ Len(sequence) \in Nat /\ DOMAIN sequence = 1 .. Len(sequence)
          /\ DOMAIN after = 1 .. Len(sequence) + 1
          /\ \A i \in 1 .. Len(sequence) : after[i] = sequence[i]
          /\ after[Len(sequence) + 1] = k
      BY DEF CountsInv, CountsTypeOK
    <3> HIDE DEF after
    <3>2. DOMAIN after = (DOMAIN sequence) \cup {Len(sequence) + 1}
      BY <3>1
    <3> QED
      BY <3>1, <3>2 DEF Range, after
  <2> QED
    BY <2>1, <2>2
<1>2. CASE ~ (Load \/ Write)
  BY <1>2 DEF ClientsNext, Call, Anything, YCSB, Read, ScanRequest, WorkDone, Manual, Prepopulate,
              ManualRead, ManualWrite, ManualDone, NothingMore, clientVars, progress
<1> QED
  BY <1>1, <1>2

RecordsInv == \A k \in Range(sequence) : written[k] # {}

LEMMA RecordsStep ==
    ASSUME CountsInv, TreesInv, RecordsInv, [ClientsNext]_clientVars
    PROVE  RecordsInv'
<1>1. Range(sequence) \subseteq Keys
  BY DEF CountsInv, CountsTypeOK, Range
<1>2. CASE sequence' = sequence
  BY <1>1, <1>2, WrittenGrows DEF RecordsInv
<1>3. ASSUME NEW k \in Keys, Put(k), Range(sequence') = Range(sequence) \cup {k}
      PROVE  RecordsInv'
  <2>1. clock \in written'[k]
    BY <1>3 DEF Put, TreesInv, TreeTypeOK
  <2> QED
    BY <1>1, <1>3, <2>1, WrittenGrows DEF RecordsInv
<1> QED
  BY <1>2, <1>3, SequenceGrows

LEMMA RecordsInvariant == ClientsSpec => []RecordsInv
<1>1. ClientsInit => RecordsInv
  BY DEF ClientsInit, RecordsInv, Range
<1>2. CountsInv /\ TreesInv /\ RecordsInv /\ [ClientsNext]_clientVars => RecordsInv'
  BY RecordsStep
<1> QED
  BY <1>1, <1>2, TreesInvariant, PTL DEF ClientsSpec

\* What a request is for was loaded, and is found, at each step of what the requests
\* before it have set off.
THEOREM RequestsFindTheirKeys == ClientsSpec => []RequestedKeysFound
<1>1. CountsInv /\ TreesInv /\ RecordsInv => RequestedKeysFound
  <2> SUFFICES ASSUME CountsInv, TreesInv, RecordsInv, client = "ycsb", ~ Loading, NEW n \in Requestable
               PROVE  n < Len(sequence) /\ GetResults(sequence[n + 1]) # {}
    BY DEF RequestedKeysFound
  <2> DEFINE k == sequence[n + 1]
  <2>1. n < Len(sequence) /\ k \in Keys /\ k \in Range(sequence)
    BY RequestedAreKeys DEF Range
  <2>2. written[k] # {}
    BY <2>1 DEF RecordsInv
  <2> HIDE DEF k
  <2>3. GetResults(k) # {}
    BY <2>1, <2>2, WrittenIsFound DEF TreesInv, TreeTypeOK, KeepInv
  <2> QED
    BY <2>1, <2>3 DEF k
<1> QED
  BY <1>1, TreesInvariant, RecordsInvariant, PTL

-----------------------------------------------------------------------------
(* A workload that only reads *)

\* What disjoint full tables hold.
LEMMA VersionsInFullTables ==
    ASSUME NEW tables \in SUBSET SST, IsFiniteSet(tables),
           \A s \in tables : IsFiniteSet(s.kvs) /\ Cardinality(s.kvs) = Limit,
           \A s, t \in tables : s # t => s.kvs \cap t.kvs = {}
    PROVE  LET all == UNION {s.kvs : s \in tables}
           IN IsFiniteSet(all) /\ Cardinality(all) = Cardinality(tables) * Limit
<1> DEFINE all(S)   == UNION {s.kvs : s \in S}
           fills(S) == IsFiniteSet(all(S)) /\ Cardinality(all(S)) = Cardinality(S) * Limit
           sets     == {S \in SUBSET tables : ~ fills(S)}
           counts   == {Cardinality(S) : S \in sets}
<1>1. \A S \in SUBSET tables : IsFiniteSet(S) /\ Cardinality(S) \in Nat
  BY FS_Subset, FS_CardinalityType
<1>2. SUFFICES ASSUME sets # {}
               PROVE  FALSE
  OBVIOUS
<1>3. PICK n \in counts : \A m \in counts : n <= m
  <2>1. counts \subseteq Nat /\ counts # {}
    BY <1>1, <1>2
  <2> QED
    BY ONLY <2>1, LeastNatural
<1>4. PICK S \in sets : \A T \in sets : Cardinality(S) <= Cardinality(T)
  BY <1>3
<1>5. S \in SUBSET tables /\ ~ fills(S)
  BY <1>4
<1>6. S # {}
  <2>1. all({}) = {} /\ Cardinality({}) = 0 /\ IsFiniteSet({})
    BY FS_EmptySet
  <2>2. 0 * Limit = 0
    BY ShapeAssumption
  <2>3. fills({})
    BY ONLY <2>1, <2>2
  <2> QED
    BY <1>5, <2>3
<1>7. PICK s \in S : TRUE
  BY <1>6
<1>8. /\ Cardinality(S \ {s}) = Cardinality(S) - 1
      /\ Cardinality(S) \in Nat /\ Cardinality(S) - 1 \in Nat
  <2>1. IsFiniteSet(S) /\ Cardinality(S) \in Nat /\ Cardinality(S \ {s}) \in Nat
    BY <1>1, <1>5
  <2>2. Cardinality(S \ {s}) = Cardinality(S) - 1
    BY <1>7, <2>1, FS_RemoveElement
  <2> QED
    BY <2>1, <2>2
<1>9. fills(S \ {s})
  <2>1. S \ {s} \in SUBSET tables /\ ~ (Cardinality(S) <= Cardinality(S \ {s}))
    BY <1>5, <1>8
  <2> HIDE DEF fills
  <2> QED
    BY <1>4, <2>1
<1>10. all(S) = all(S \ {s}) \cup s.kvs
  BY <1>7
<1>11. all(S \ {s}) \cap s.kvs = {}
  BY <1>5, <1>7
<1>12. IsFiniteSet(s.kvs) /\ Cardinality(s.kvs) = Limit
  BY <1>5, <1>7
<1>13. /\ IsFiniteSet(all(S \ {s}))
       /\ Cardinality(all(S \ {s})) = (Cardinality(S) - 1) * Limit
  BY <1>8, <1>9
<1> HIDE DEF all
<1>14. /\ IsFiniteSet(all(S))
       /\ Cardinality(all(S)) = Cardinality(all(S \ {s})) + Limit
  <2>1. /\ IsFiniteSet(all(S \ {s}) \cup s.kvs)
        /\ Cardinality(all(S \ {s}) \cup s.kvs) =
             Cardinality(all(S \ {s})) + Cardinality(s.kvs) - Cardinality(all(S \ {s}) \cap s.kvs)
    BY <1>12, <1>13, FS_Union
  <2>2. Cardinality(all(S \ {s}) \cap s.kvs) = 0
    BY <1>11, FS_EmptySet
  <2>3. Cardinality(all(S \ {s})) \in Nat
    BY <1>13, FS_CardinalityType
  <2> QED
    BY <1>10, <1>12, <2>1, <2>2, <2>3, ShapeAssumption
<1>15. (Cardinality(S) - 1) * Limit + Limit = Cardinality(S) * Limit
  BY <1>8, ShapeAssumption
<1> QED
  BY <1>5, <1>13, <1>14, <1>15

\* No key was put twice.
VersionsOnce == \A k \in Keys : \A t, u \in written[k] : t = u

\* Tables are full, and what a merge has still to write fills tables.
FullTables ==
    /\ \A l \in Level : \A s \in ssts[l] : Cardinality(s.kvs) = Limit
    /\ phase = "merge" => \E m \in Nat : Cardinality(todo) = m * Limit

\* A merge begins: of every key its tables have one version, and that is kept.
LEMMA FullStart ==
    ASSUME AllInv, FullTables, VersionsOnce, NEW victims \in Victims(level), StartMerge(victims)
    PROVE  FullTables'
<1> USE DEF AllInv, SortedInv, Invs, TypeInv, TypeOK
<1>1. /\ level \in Level /\ level + 1 \in Level /\ phase = "compact"
      /\ ssts' = ssts /\ todo' = Merged(Inputs(marked'))
  BY ShapeAssumption DEF StartMerge, TooLarge, Level, treeVars
<1> DEFINE inputs == Inputs(marked')
           all    == UNION {s.kvs : s \in inputs}
<1>2. inputs = victims \cup ssts[level + 1] /\ victims \subseteq ssts[level]
  <2>1. Markable(victims)
    BY <1>1, VictimsMarkable
  <2>2. Frozen = {}
    BY <1>1, NothingFrozen
  <2> QED
    BY <2>1, <2>2, MergeInputs
<1>3. /\ inputs \in SUBSET SST
      /\ \A s \in inputs : IsFiniteSet(s.kvs) /\ Cardinality(s.kvs) = Limit
  BY <1>1, <1>2 DEF SizesInv, Sized, FullTables
<1>4. IsFiniteSet(inputs)
  <2>1. IsFiniteSet(victims) /\ IsFiniteSet(ssts[level + 1])
    BY <1>1, <1>2, FS_Subset DEF SizesInv
  <2>2. IsFiniteSet(victims \cup ssts[level + 1])
    BY ONLY <2>1, FS_Union
  <2> QED
    BY ONLY <1>2, <2>2
<1>5. \A s, t \in inputs : s # t => s.kvs \cap t.kvs = {}
  BY InputsIncrease DEF StrictlyIncreasing
<1>6. \A s \in inputs : \A p \in s.kvs : p \in KV /\ p.ts \in written[p.key]
  BY <1>1, <1>2, <1>3 DEF KeepInv, WrittenInv, SST
<1> HIDE DEF inputs
<1>7. Merged(inputs) = all
  <2>1. \A p, q \in all : p.key = q.key => p.ts = q.ts /\ p.ts \in Nat
    BY <1>6 DEF VersionsOnce, KV
  <2>2. Merged(inputs) = {p \in all : \A q \in all : q.key = p.key => p.ts <= q.ts}
    BY DEF Merged
  <2> HIDE DEF all
  <2> QED
    BY <2>1, <2>2
<1>8. Cardinality(all) = Cardinality(inputs) * Limit
  BY <1>3, <1>4, <1>5, VersionsInFullTables
<1>9. Cardinality(inputs) \in Nat
  BY <1>4, FS_CardinalityType
<1>10. Cardinality(todo') = Cardinality(inputs) * Limit
  BY <1>1, <1>7, <1>8 DEF inputs
<1> QED
  BY <1>1, <1>9, <1>10 DEF FullTables

\* A merge fills a table with what it has still to write.
LEMMA FullFinish ==
    ASSUME AllInv, FullTables, FinishSST
    PROVE  FullTables'
<1> USE DEF AllInv, SortedInv, Invs, TypeInv, TypeOK
<1> DEFINE new == [id |-> building, kvs |-> Chunk, persistTime |-> clock]
<1>1. /\ phase = "merge" /\ level + 1 \in Level
      /\ todo' = todo \ Chunk
      /\ todo' = {} => phase' = "remove"
      /\ ssts' = [ssts EXCEPT ![level + 1] = @ \cup {new}]
  BY DEF FinishSST, LevelInv
<1>2. IsFiniteSet(todo) /\ todo # {} /\ OneVersionOf(todo)
  BY <1>1 DEF SizesInv, RecInv, SinglesInv
<1>3. /\ Chunk # {} /\ IsFiniteSet(Chunk) /\ Cardinality(Chunk) <= Limit
      /\ todo' # {} => Cardinality(Chunk) = Limit
      /\ Cardinality(todo') = Cardinality(todo) - Cardinality(Chunk)
      /\ Chunk \subseteq todo
  BY <1>1, <1>2, ChunkOfTodo
<1>4. PICK m \in Nat : Cardinality(todo) = m * Limit
  BY <1>1 DEF FullTables
<1>5. /\ Cardinality(Chunk) \in Nat /\ Cardinality(Chunk) # 0
      /\ Limit \in Nat \ {0}
  BY <1>3, FS_CardinalityType, FS_EmptySet, ShapeAssumption
<1>6. m >= 1
  <2>1. Cardinality(todo) # 0
    BY <1>2, FS_EmptySet
  <2> QED
    BY <1>4, <1>5, <2>1
<1>7. m * Limit = (m - 1) * Limit + Limit /\ (m - 1) * Limit \in Nat /\ m - 1 \in Nat
  BY <1>5, <1>6
<1>8. Cardinality(Chunk) = Limit
  <2>1. CASE todo' = {}
    <3>1. Cardinality(todo) = Cardinality(Chunk)
      BY <1>3, <1>4, <1>5, <1>7, <2>1, FS_EmptySet
    <3> QED
      BY <1>3, <1>4, <1>5, <1>7, <3>1
  <2> QED
    BY <1>3, <2>1
<1>9. Cardinality(todo') = (m - 1) * Limit
  BY <1>3, <1>4, <1>5, <1>7, <1>8
<1>10. new.kvs = Chunk
  OBVIOUS
<1> HIDE DEF new
<1>11. \A l \in Level : \A s \in ssts'[l] : s = new \/ s \in ssts[l]
  BY <1>1
<1> QED
  BY <1>7, <1>8, <1>9, <1>10, <1>11 DEF FullTables

LEMMA FullStep ==
    ASSUME AllInv, FullTables, VersionsOnce, PutStep
    PROVE  FullTables'
<1> USE DEF AllInv, SortedInv, Invs, TypeInv, TypeOK
<1>1. CASE FlushSST
  <2> DEFINE new == [id |-> building, kvs |-> memTable, persistTime |-> clock]
  <2>1. /\ ssts' = [ssts EXCEPT ![0] = @ \cup {new}]
        /\ phase = "flush" /\ phase' # "merge" /\ 0 \in Level
    BY <1>1, ShapeAssumption DEF FlushSST, AfterFlush, Level
  <2>2. Cardinality(new.kvs) = Limit
    BY <2>1 DEF SizesInv
  <2> HIDE DEF new
  <2> QED
    BY <2>1, <2>2 DEF FullTables
<1>2. CASE StopCompaction \/ EndMerge \/ PersistManifest
  BY <1>2 DEF StopCompaction, EndMerge, PersistManifest, treeVars, FullTables
<1>3. ASSUME NEW victims \in Victims(level), MoveToEmptyLevel(victims)
      PROVE  FullTables'
  <2>1. /\ ssts' = [ssts EXCEPT ![level] = @ \ Moved(victims), ![level + 1] = Moved(victims)]
        /\ Moved(victims) \subseteq ssts[level] /\ phase' # "merge" /\ level \in Level
    BY <1>3 DEF MoveToEmptyLevel, Moved
  <2>2. \A l \in Level : ssts'[l] \subseteq ssts[l] \cup ssts[level]
    BY <2>1
  <2> QED
    BY <2>1, <2>2 DEF FullTables
<1>4. CASE RemoveSST
  <2>1. /\ \A l \in Level : ssts'[l] \subseteq ssts[l]
        /\ phase' = phase /\ todo' = todo
    BY <1>4 DEF RemoveSST
  <2> QED
    BY <2>1 DEF FullTables
<1> QED
  BY <1>1, <1>2, <1>3, <1>4, FullStart, FullFinish DEF PutStep

\* The keys put are those of the records, the memtable has what the full tables have
\* not, and a closed store is still as it was closed.
MemTableCounted ==
    /\ phase # "flush" => Cardinality(memTable) < Limit
    /\ \E m \in Nat : loads = m * Limit + Cardinality(memTable)
    /\ \E m \in Nat : sizes.loads = m * Limit

ReopenInv ==
    sizes.records > 0 /\ writes = 0 =>
        /\ VersionsOnce
        /\ \A k \in Keys : written[k] # {} => k \in Range(sequence)
        /\ FullTables
        /\ MemTableCounted
        /\ client = "closed" => phase = "idle" /\ NamedKeys = Range(sequence)

LEMMA ReopenInit == ClientsInit => ReopenInv
<1> SUFFICES ASSUME ClientsInit, sizes.records > 0 PROVE ReopenInv
  BY DEF ReopenInv
<1>1. /\ memTable = {} /\ ssts = [l \in Level |-> {}] /\ written = [k \in Keys |-> {}]
      /\ phase = "idle" /\ loads = 0
  BY DEF ClientsInit, ScanInit, Init, InitMemory
<1>2. CountsInv
  BY CountsInit
<1>3. client = "ycsb"
  BY <1>2 DEF ClientsInit, CountsInv, CountsTypeOK
<1>4. PICK n \in RecordCounts : sizes = [loads |-> RoundedUp(n), records |-> n, reads |-> 0, writes |-> 0]
  BY <1>3 DEF ClientsInit, YCSBSizes
<1>5. \E m \in Nat : sizes.loads = m * Limit
  <2>1. n \in Nat
    BY ClientsAssumption
  <2> QED
    BY <1>4, <2>1, Rounded
<1>6. Cardinality(memTable) = 0 /\ 0 = 0 * Limit + 0 /\ 0 < Limit
  BY <1>1, FS_EmptySet, ShapeAssumption
<1>7. MemTableCounted
  BY <1>1, <1>5, <1>6 DEF MemTableCounted
<1>8. VersionsOnce /\ FullTables
  BY <1>1 DEF VersionsOnce, FullTables
<1> QED
  BY <1>1, <1>3, <1>7, <1>8 DEF ReopenInv

\* A record is put, for the first time.
LEMMA ReopenLoad ==
    ASSUME CountsInv, TreesInv, ReopenInv, sizes.records > 0, writes = 0, Load
    PROVE  ReopenInv'
<1>1. PICK k \in Keys : Put(k) /\ k \notin Range(sequence) /\ Range(sequence') = Range(sequence) \cup {k}
  <2>1. sequence' # sequence
    <3>1. Len(sequence') = Len(sequence) + 1 /\ Len(sequence) \in Nat
      BY DEF Load, NextSequenceKey, CountsInv, CountsTypeOK
    <3> QED
      BY <3>1
  <2>2. [ClientsNext]_clientVars
    BY DEF ClientsNext, YCSB
  <2> QED
    BY <2>1, <2>2, SequenceGrows
<1>2. written[k] = {}
  BY <1>1 DEF ReopenInv
<1>3. written' = [written EXCEPT ![k] = {clock}] /\ clock \in Nat /\ written \in [Keys -> SUBSET Nat]
  BY <1>1, <1>2 DEF Put, TreesInv, TreeTypeOK
<1>4. VersionsOnce'
  BY <1>3 DEF ReopenInv, VersionsOnce
<1>5. \A j \in Keys : written'[j] # {} => j \in Range(sequence')
  BY <1>1, <1>3 DEF ReopenInv
<1>6. FullTables'
  BY <1>1 DEF Put, ReopenInv, FullTables
<1>7. MemTableCounted'
  <2> DEFINE new == [key |-> k, ts |-> clock]
  <2>1. k \notin KeysOf(memTable)
    <3>1. \A p \in memTable : p.ts \in written[p.key]
      BY DEF TreesInv, KeepInv, WrittenInv
    <3> QED
      BY <1>2, <3>1 DEF KeysOf
  <2>2. memTable' = memTable \cup {new} /\ new \notin memTable
    BY <1>1, <2>1 DEF Put, Inserted, KeysOf
  <2> HIDE DEF new
  <2>3. IsFiniteSet(memTable) /\ Cardinality(memTable) \in Nat
    BY FS_CardinalityType DEF TreesInv, SortedInv, SizesInv
  <2>4. Cardinality(memTable') = Cardinality(memTable) + 1
    BY <2>2, <2>3, FS_AddElement
  <2>5. PICK m \in Nat : loads = m * Limit + Cardinality(memTable)
    BY DEF ReopenInv, MemTableCounted
  <2>6. loads' = m * Limit + Cardinality(memTable')
    <3>1. m * Limit \in Nat
      BY <2>5, ShapeAssumption
    <3> QED
      BY <2>3, <2>4, <2>5, <3>1 DEF Load
  <2>7. Cardinality(memTable) < Limit
    BY <1>1 DEF ReopenInv, MemTableCounted, Put
  <2>8. phase' # "flush" => Cardinality(memTable') < Limit
    <3>1. phase' # "flush" => Cardinality(memTable') # Limit
      BY <1>1 DEF Put
    <3> QED
      BY <2>3, <2>4, <2>7, <3>1, ShapeAssumption
  <2>9. \E j \in Nat : sizes'.loads = j * Limit
    BY DEF Load, ReopenInv, MemTableCounted
  <2> QED
    BY <2>6, <2>8, <2>9 DEF MemTableCounted
<1>8. client' = "ycsb"
  BY DEF Load
<1> QED
  BY <1>4, <1>5, <1>6, <1>7, <1>8 DEF ReopenInv

\* A Put goes on.
LEMMA ReopenPutStep ==
    ASSUME CountsInv, TreesInv, ReopenInv, sizes.records > 0, writes = 0, PutStep,
           UNCHANGED <<client, sizes, progress>>
    PROVE  ReopenInv'
<1>1. TypeInv /\ AllInv /\ phase # "idle"
  BY PutPhases, TypesOfTree
<1>2. FullTables'
  BY <1>1, FullStep DEF ReopenInv
<1>3. UNCHANGED <<written, client, sizes, loads, sequence>>
  BY DEF PutStep, FlushSST, StopCompaction, MoveToEmptyLevel, StartMerge, FinishSST, RemoveSST,
         EndMerge, PersistManifest, progress
<1>4. VersionsOnce' /\ \A k \in Keys : written'[k] # {} => k \in Range(sequence')
  BY <1>3 DEF ReopenInv, VersionsOnce
<1>5. PICK m \in Nat : loads = m * Limit + Cardinality(memTable)
  BY DEF ReopenInv, MemTableCounted
<1>6. ASSUME FlushSST
      PROVE  MemTableCounted'
  <2>1. memTable' = {} /\ phase = "flush" /\ phase' # "flush"
    BY <1>6 DEF FlushSST, AfterFlush
  <2>2. Cardinality(memTable') = 0 /\ Cardinality(memTable) = Limit
    BY <1>1, <2>1, FS_EmptySet DEF AllInv, SortedInv, SizesInv
  <2>3. m * Limit + Limit = (m + 1) * Limit + 0 /\ m + 1 \in Nat /\ 0 < Limit
    BY ShapeAssumption
  <2>4. loads' = (m + 1) * Limit + Cardinality(memTable')
    BY <1>3, <1>5, <2>2, <2>3
  <2> QED
    BY <1>3, <2>2, <2>3, <2>4 DEF MemTableCounted, ReopenInv
<1>7. ASSUME ~ FlushSST
      PROVE  MemTableCounted'
  <2>1. memTable' = memTable /\ phase # "flush" /\ phase' # "flush"
    BY <1>7 DEF PutStep, StopCompaction, MoveToEmptyLevel, StartMerge, TooLarge, FinishSST, RemoveSST,
                EndMerge, PersistManifest, treeVars
  <2> QED
    BY <1>3, <2>1 DEF MemTableCounted, ReopenInv
<1>8. MemTableCounted'
  BY <1>6, <1>7
<1>9. client # "closed"
  BY <1>1 DEF ReopenInv
<1> QED
  BY <1>2, <1>3, <1>4, <1>8, <1>9 DEF ReopenInv

\* The tree stays as it is.
LEMMA ReopenFrame ==
    ASSUME CountsInv, ReopenInv, sizes.records > 0, writes = 0,
           UNCHANGED <<memTable, ssts, todo, written, sizes, loads, sequence>>,
           phase' \notin {"flush", "merge"}, phase # "flush",
           client' = "closed" => phase' = "idle" /\ NamedKeys' = Range(sequence)
    PROVE  ReopenInv'
BY DEF ReopenInv, VersionsOnce, FullTables, MemTableCounted

\* The store is closed with an empty memtable: its tables have all the keys.
LEMMA ReopenDone ==
    ASSUME CountsInv, TreesInv, RecordsInv, ReopenInv, sizes.records > 0, writes = 0, WorkDone
    PROVE  ReopenInv'
<1>1. /\ UNCHANGED <<memTable, ssts, todo, written, sizes, loads, sequence, files, phase>>
      /\ phase = "idle" /\ client = "ycsb" /\ current' = manifest /\ ~ Loading
  BY DEF WorkDone, treeVars, mergeVars, progress
<1>2. memTable = {}
  <2>1. PICK m \in Nat : loads = m * Limit + Cardinality(memTable)
    BY DEF ReopenInv, MemTableCounted
  <2>2. PICK n \in Nat : sizes.loads = n * Limit
    BY DEF ReopenInv, MemTableCounted
  <2>3. IsFiniteSet(memTable) /\ Cardinality(memTable) \in Nat
    BY FS_CardinalityType DEF TreesInv, SortedInv, SizesInv
  <2>4. Cardinality(memTable) < Limit /\ Limit \in Nat
    BY <1>1, ShapeAssumption DEF ReopenInv, MemTableCounted
  <2>5. loads = sizes.loads
    BY <1>1 DEF CountsInv, CountsTypeOK, Loading
  <2>6. (n - m) * Limit = n * Limit - m * Limit /\ n * Limit \in Nat /\ m * Limit \in Nat
    BY <2>4
  <2>7. (n - m) * Limit = Cardinality(memTable)
    BY <2>1, <2>2, <2>3, <2>5, <2>6
  <2>8. n = m \/ n - m >= 1 \/ m - n >= 1
    OBVIOUS
  <2>9. n - m >= 1 => (n - m) * Limit >= Limit
    BY <2>4
  <2>10. m - n >= 1 => (n - m) * Limit <= - Limit
    BY <2>4
  <2>11. n = m => (n - m) * Limit = 0
    BY <2>4
  <2>12. Cardinality(memTable) = 0
    BY <2>3, <2>4, <2>7, <2>8, <2>9, <2>10, <2>11
  <2> QED
    BY <2>3, <2>12, FS_EmptySet
<1>3. files = TableFiles /\ manifest = LiveIds
  BY <1>1 DEF TreesInv, StorageInv, NamedInv
<1>4. NamedKeys' = UNION {KeysOf(f.kvs) : f \in {g \in files : \E l \in Level : g.id \in LiveIds[l]}}
  BY <1>1, <1>3 DEF NamedKeys
<1> DEFINE named == {g \in files : \E l \in Level : g.id \in LiveIds[l]}
<1>5. ASSUME NEW f \in named, NEW k \in KeysOf(f.kvs)
      PROVE  k \in Range(sequence)
  <2>1. PICK l \in Level : \E s \in ssts[l] : f.kvs = s.kvs
    BY <1>3, <1>5 DEF TableFiles, LiveSSTs
  <2>2. PICK p \in f.kvs : p.key = k
    BY <1>5 DEF KeysOf
  <2>3. k \in Keys /\ p.ts \in written[k]
    BY <2>1, <2>2 DEF TreesInv, TreeTypeOK, KeepInv, WrittenInv, SST, KV
  <2> QED
    BY <2>3 DEF ReopenInv
<1>6. ASSUME NEW k \in Range(sequence)
      PROVE  \E f \in named : k \in KeysOf(f.kvs)
  <2>1. k \in Keys /\ written[k] # {}
    BY DEF RecordsInv, CountsInv, CountsTypeOK, Range
  <2>2. PICK t \in written[k] : \A u \in written[k] : t <= u
    BY <2>1, LeastNatural DEF TreesInv, TreeTypeOK
  <2>3. PICK l \in Level : \E s \in ssts[l] : [key |-> k, ts |-> t] \in s.kvs
    BY <1>2, <2>1, <2>2 DEF TreesInv, KeepInv, FirstInv, Holds
  <2>4. PICK s \in ssts[l] : [key |-> k, ts |-> t] \in s.kvs
    BY <2>3
  <2> DEFINE f == [id |-> s.id, kvs |-> s.kvs]
  <2>5. f \in files /\ f.id \in LiveIds[l] /\ k \in KeysOf(f.kvs)
    BY <1>3, <2>4 DEF TableFiles, LiveSSTs, LiveIds, Ids, KeysOf
  <2> QED
    BY <2>5
<1>7. NamedKeys' = Range(sequence)
  BY <1>4, <1>5, <1>6
<1> QED
  BY <1>1, <1>7, ReopenFrame

LEMMA ReopenStep ==
    ASSUME CountsInv, TreesInv, RecordsInv, ReopenInv, [ClientsNext]_clientVars
    PROVE  ReopenInv'
<1>1. /\ sizes' = sizes /\ writes \in Nat
      /\ writes' = writes \/ writes' = writes + 1
  BY DEF ClientsNext, Call, Anything, YCSB, Load, Read, ScanRequest, Write, WorkDone, Manual, Prepopulate,
         ManualRead, ManualWrite, ManualDone, NothingMore, clientVars, progress, CountsInv, CountsTypeOK
<1>2. SUFFICES ASSUME sizes.records > 0, writes = 0, writes' = 0
               PROVE  ReopenInv'
  <2>1. writes' = 0 => writes = 0
    BY <1>1
  <2> QED
    BY <1>1, <2>1 DEF ReopenInv
<1>3. client \in {"ycsb", "closed"} /\ (client = "closed" => phase = "idle" /\ NamedKeys = Range(sequence))
  BY <1>2 DEF CountsInv, ReopenInv
<1>4. CASE Load
  BY <1>2, <1>4, ReopenLoad
<1>5. CASE PutStep /\ UNCHANGED <<client, sizes, progress>>
  BY <1>2, <1>5, ReopenPutStep
<1>6. CASE (Visit \/ NextLevel) /\ UNCHANGED <<client, sizes, progress>>
  <2>1. /\ UNCHANGED <<memTable, ssts, todo, written, sizes, loads, sequence>>
        /\ phase' \notin {"flush", "merge"} /\ phase = "scan" /\ client' = client
    BY <1>6 DEF Visit, NextLevel, treeVars, mergeVars, progress
  <2> QED
    BY <1>2, <1>3, <2>1, ReopenFrame
<1>7. CASE Read \/ ScanRequest
  <2>1. /\ UNCHANGED <<memTable, ssts, todo, written, sizes, loads, sequence>>
        /\ phase' \notin {"flush", "merge"} /\ phase = "idle" /\ client' = "ycsb"
    BY <1>7 DEF Read, ScanRequest, Working, StartScan, scanVars, vars, treeVars, mergeVars
  <2> QED
    BY <1>2, <2>1, ReopenFrame
<1>8. CASE WorkDone
  BY <1>2, <1>8, ReopenDone
<1>9. CASE UNCHANGED clientVars
  <2>1. /\ UNCHANGED <<memTable, ssts, todo, written, sizes, loads, sequence, phase, writes, client, files, current>>
    BY <1>9 DEF clientVars, scanVars, vars, treeVars, storageVars, mergeVars, progress
  <2>2. NamedKeys' = NamedKeys
    BY <2>1 DEF NamedKeys
  <2> QED
    BY <2>1, <2>2 DEF ReopenInv, VersionsOnce, FullTables, MemTableCounted
<1>10. ~ Anything /\ ~ Write /\ ~ Manual
  BY <1>1, <1>2, <1>3 DEF Anything, Write, Manual, Prepopulate, ManualRead, ManualWrite, ManualDone
<1> QED
  BY <1>4, <1>5, <1>6, <1>7, <1>8, <1>9, <1>10 DEF ClientsNext, Call, YCSB, NothingMore

\* A store that was only loaded has nothing but full tables at every step, and once it
\* is closed the manifest on storage names tables with all the keys of the records.
THEOREM LoadedStoresReopen == ClientsSpec => []LoadedStoreReopens
<1>1. CountsInv /\ TreesInv /\ RecordsInv /\ ReopenInv /\ [ClientsNext]_clientVars => ReopenInv'
  BY ReopenStep
<1>2. ReopenInv => LoadedStoreReopens
  BY DEF ReopenInv, FullTables, LoadedStoreReopens, LiveSSTs
<1> QED
  BY <1>1, <1>2, ReopenInit, TreesInvariant, RecordsInvariant, PTL DEF ClientsSpec

-----------------------------------------------------------------------------
(* The manual driver *)

\* The ratio keeps either count below its target while the other is, if any reads are
\* asked for or no writes are; and the first turn is a read.
ManualInv ==
    /\ client = "manual" =>
         /\ writes > 0 => reads > 0
         /\ sizes.reads > 0 \/ sizes.writes = 0 => reads <= sizes.reads /\ writes <= sizes.writes
    /\ ManualAssert

LEMMA ManualReads ==
    ASSUME CountsInv, ManualInv, ManualRead
    PROVE  ManualInv'
<1> DEFINE R == sizes.reads
           W == sizes.writes
<1>1. R \in Nat /\ W \in Nat /\ reads \in Nat /\ writes \in Nat
  BY DEF CountsInv, CountsTypeOK
<1>2. /\ client = "manual" /\ client' = "manual" /\ sizes' = sizes
      /\ reads' = reads + 1 /\ writes' = writes
      /\ reads < R \/ writes < W
      /\ reads * W <= writes * R \/ W = 0
  BY DEF ManualRead, LoopGoesOn, ReadsTurn
<1>3. R > 0 \/ W = 0 => reads <= R /\ writes <= W
  BY <1>2 DEF ManualInv
<1>4. sizes'.reads = R /\ sizes'.writes = W
  BY <1>2
<1> HIDE DEF R, W
<1>5. ASSUME R > 0 \/ W = 0
      PROVE  reads < R
  <2>1. CASE W = 0
    BY <1>1, <1>2, <2>1
  <2>2. CASE W > 0 /\ writes < W /\ reads * W <= writes * R
    <3>1. SUFFICES ASSUME reads = R PROVE FALSE
      BY <1>1, <1>3, <1>5
    <3>2. R * W <= writes * R /\ R > 0 /\ W - writes > 0 /\ W - writes \in Nat
      BY <1>1, <1>5, <2>2, <3>1
    <3>3. R * (W - writes) > 0
      BY <1>1, <3>2
    <3>4. R * (W - writes) = R * W - R * writes /\ R * writes = writes * R
      BY <1>1
    <3>5. R * W \in Nat /\ writes * R \in Nat
      BY <1>1
    <3> QED
      BY <3>2, <3>3, <3>4, <3>5
  <2> QED
    BY <1>1, <1>2, <2>1, <2>2
<1>6. ManualAssert'
  BY <1>2 DEF ManualAssert
<1> QED
  BY <1>1, <1>2, <1>3, <1>4, <1>5, <1>6 DEF ManualInv

LEMMA ManualWrites ==
    ASSUME CountsInv, ManualInv, ManualWrite
    PROVE  ManualInv'
<1> DEFINE R == sizes.reads
           W == sizes.writes
<1>1. R \in Nat /\ W \in Nat /\ reads \in Nat /\ writes \in Nat
  BY DEF CountsInv, CountsTypeOK
<1>2. /\ client = "manual" /\ client' = "manual" /\ sizes' = sizes
      /\ reads' = reads /\ writes' = writes + 1
      /\ ~ (reads * W <= writes * R) /\ W # 0
  BY DEF ManualWrite, ReadsTurn
<1>3. R > 0 \/ W = 0 => reads <= R /\ writes <= W
  BY <1>2 DEF ManualInv
<1>4. sizes'.reads = R /\ sizes'.writes = W
  BY <1>2
<1> HIDE DEF R, W
<1>5. reads > 0
  <2>1. writes * R \in Nat /\ 0 * W = 0
    BY <1>1
  <2> QED
    BY <1>1, <1>2, <2>1
<1>6. ASSUME R > 0
      PROVE  writes < W
  <2>1. SUFFICES ASSUME writes = W PROVE FALSE
    BY <1>1, <1>3, <1>6
  <2>2. W * R - reads * W = W * (R - reads) /\ R - reads \in Nat
    BY <1>1, <1>3, <1>6
  <2>3. W * (R - reads) >= 0 /\ W * R \in Nat /\ reads * W \in Nat
    BY <1>1, <2>2
  <2> QED
    BY <1>2, <2>1, <2>2, <2>3
<1>7. ManualAssert'
  BY <1>2 DEF ManualAssert
<1> QED
  BY <1>1, <1>2, <1>3, <1>4, <1>5, <1>6, <1>7 DEF ManualInv

LEMMA ManualStep ==
    ASSUME CountsInv, ManualInv, [ClientsNext]_clientVars
    PROVE  ManualInv'
<1>1. CASE UNCHANGED <<client, sizes, progress>>
  BY <1>1 DEF ManualInv, ManualAssert, progress
<1>2. CASE Load \/ Read \/ ScanRequest \/ Write
  BY <1>2 DEF Load, Read, ScanRequest, Write, Working, ManualInv, ManualAssert
<1>3. CASE WorkDone
  BY <1>3 DEF WorkDone, ManualInv, ManualAssert, CountsInv
<1>4. CASE Prepopulate
  BY <1>4 DEF Prepopulate, ManualInv, ManualAssert
<1>5. CASE ManualDone
  <2>1. /\ client = "manual" /\ sizes' = sizes /\ client' \in {"closed", "killed"}
        /\ ~ (reads < sizes.reads) /\ ~ (writes < sizes.writes)
        /\ client' = "closed" <=> reads = sizes.reads /\ writes = sizes.writes
    BY <1>5 DEF ManualDone, LoopGoesOn
  <2>2. /\ sizes.reads \in Nat /\ sizes.writes \in Nat /\ reads \in Nat /\ writes \in Nat
    BY DEF CountsInv, CountsTypeOK
  <2> QED
    BY <2>1, <2>2 DEF ManualInv, ManualAssert
<1> QED
  BY <1>1, <1>2, <1>3, <1>4, <1>5, ManualReads, ManualWrites
  DEF ClientsNext, Call, Anything, YCSB, Manual, NothingMore, clientVars

\* Of the two ways a run of the manual driver can end, the assert of run_manual failing
\* is the one if writes are asked for and reads are not, and only then.
THEOREM ManualAssertFails == ClientsSpec => []ManualAssert
<1>1. ClientsInit => ManualInv
  <2> SUFFICES ASSUME ClientsInit PROVE ManualInv
    OBVIOUS
  <2>1. reads = 0 /\ writes = 0 /\ client \in {"any", "ycsb", "manual"} /\ CountsInv
    BY CountsInit DEF ClientsInit
  <2> QED
    BY <2>1 DEF ManualInv, ManualAssert, CountsInv, CountsTypeOK
<1>2. CountsInv /\ ManualInv /\ [ClientsNext]_clientVars => ManualInv'
  BY ManualStep
<1>3. ManualInv => ManualAssert
  BY DEF ManualInv
<1> QED
  BY <1>1, <1>2, <1>3, TreesInvariant, PTL DEF ClientsSpec

-----------------------------------------------------------------------------
(* What a LevelIterator yields *)

\* In s the versions of each sequence are in order, and before those of the next.
Ascending(s) ==
    /\ \A l \in 1 .. Len(s) : Ordering(s[l])
    /\ \A l, m \in 1 .. Len(s) : l < m =>
         \A i \in 1 .. Len(s[l]), j \in 1 .. Len(s[m]) : KVLess(s[l][i], s[m][j])

\* Ascending sequences, one after the other.
LEMMA FlattenedAscends ==
    ASSUME NEW s \in Seq(Seq(KV)), Ascending(s)
    PROVE  /\ FlattenSeq(s) \in Seq(KV)
           /\ Ordering(FlattenSeq(s))
           /\ \A i \in 1 .. Len(FlattenSeq(s)) :
                \E l \in 1 .. Len(s) : \E j \in 1 .. Len(s[l]) : FlattenSeq(s)[i] = s[l][j]
           /\ \A l \in 1 .. Len(s) : \A j \in 1 .. Len(s[l]) :
                \E i \in 1 .. Len(FlattenSeq(s)) : FlattenSeq(s)[i] = s[l][j]
<1>1. PICK f \in [0 .. Len(s) -> Seq(KV)] :
          Concatenates(f, s, Len(s)) /\ FlattenSeq(s) = f[Len(s)]
  BY Flattened
<1>2. Whole(KV, s, f)
  BY <1>1 DEF Whole
<1>3. PICK r \in Seq(KV) : r = f[Len(s)] /\ r = FlattenSeq(s)
  <2>1. Len(s) \in 0 .. Len(s)
    OBVIOUS
  <2> QED
    BY <1>1, <2>1
<1>4. \A i \in 1 .. Len(r) : Origin(s, f, i)
  BY <1>2, <1>3, Origins
<1>5. ASSUME NEW i \in 1 .. Len(r), NEW j \in 1 .. Len(r), i < j
      PROVE  KVLess(r[i], r[j])
  <2>1. PICK l \in 1 .. Len(s) : \E a \in 1 .. Len(s[l]) :
                                   i = Len(f[l - 1]) + a /\ r[i] = s[l][a]
    <3>1. Origin(s, f, i)
      BY <1>4
    <3> QED
      BY <1>3, <3>1, Zenon DEF Origin
  <2>2. PICK a \in 1 .. Len(s[l]) : i = Len(f[l - 1]) + a /\ r[i] = s[l][a]
    BY <2>1
  <2>3. PICK m \in 1 .. Len(s) : \E b \in 1 .. Len(s[m]) :
                                   j = Len(f[m - 1]) + b /\ r[j] = s[m][b]
    <3>1. Origin(s, f, j)
      BY <1>4
    <3> QED
      BY <1>3, <3>1, Zenon DEF Origin
  <2>4. PICK b \in 1 .. Len(s[m]) : j = Len(f[m - 1]) + b /\ r[j] = s[m][b]
    BY <2>3
  <2>5. CASE l < m
    BY <2>2, <2>4, <2>5 DEF Ascending
  <2>6. CASE l = m
    <3>1. PICK d : d = Len(f[l - 1])
      OBVIOUS
    <3>2. d \in Nat
      <4>1. l - 1 \in 0 .. Len(s)
        OBVIOUS
      <4> QED
        BY <1>1, <3>1, <4>1
    <3>3. i = d + a /\ j = d + b
      BY <2>2, <2>4, <2>6, <3>1, Zenon
    <3>4. a < b
      BY <1>5, <3>2, <3>3
    <3>5. b \in 1 .. Len(s[l]) /\ r[j] = s[l][b]
      BY <2>4, <2>6, Zenon
    <3>6. Ordering(s[l])
      BY DEF Ascending
    <3> QED
      BY <2>2, <3>4, <3>5, <3>6 DEF Ordering
  <2>7. CASE m < l
    <3>1. Len(f[m - 1]) + b < Len(f[l - 1]) + a
      <4>1. Precedes(s, f, m, l)
        BY <1>2, <2>7, LaterComesLater
      <4> QED
        BY <4>1, Zenon DEF Precedes
    <3>2. j < i
      BY <2>2, <2>4, <3>1, Zenon
    <3> QED
      BY <1>5, <3>2
  <2> QED
    BY <2>5, <2>6, <2>7
<1>6. ASSUME NEW l \in 1 .. Len(s), NEW j \in 1 .. Len(s[l])
      PROVE  \E i \in 1 .. Len(r) : r[i] = s[l][j]
  <2>1. /\ Len(f[l - 1]) \in Nat /\ Len(s[l]) \in Nat
        /\ Len(f[l]) = Len(f[l - 1]) + Len(s[l])
    <3>1. Joins(KV, s, f, l)
      BY <1>2, Concatenation
    <3> QED
      BY <3>1 DEF Joins
  <2>2. Len(f[l]) <= Len(f[Len(s)]) /\ f[Len(s)][Len(f[l - 1]) + j] = s[l][j]
    <3>1. Within(s, f, l)
      BY <1>2, Located
    <3> QED
      BY <3>1 DEF Within
  <2>3. PICK a \in Nat : a = Len(f[l - 1])
    BY <2>1
  <2>4. PICK b \in Nat : b = Len(s[l])
    BY <2>1
  <2>5. a + b <= Len(r)
    BY ONLY <1>3, <2>1, <2>2, <2>3, <2>4
  <2>6. a + j \in 1 .. Len(r)
    <3>1. j \in 1 .. b /\ Len(r) \in Nat
      BY <1>3, <2>4
    <3> QED
      BY <2>3, <2>5, <3>1
  <2>7. r[a + j] = s[l][j]
    BY <1>3, <2>2, <2>3, Zenon
  <2> QED
    BY <2>6, <2>7
<1>7. ASSUME NEW i \in 1 .. Len(r)
      PROVE  \E l \in 1 .. Len(s) : \E j \in 1 .. Len(s[l]) : r[i] = s[l][j]
  <2>1. Origin(s, f, i)
    BY <1>4, <1>7
  <2> QED
    BY <1>3, <2>1, Zenon DEF Origin
<1>8. Ordering(r)
  BY <1>5 DEF Ordering
<1>9. /\ r \in Seq(KV)
      /\ Ordering(r)
      /\ \A i \in 1 .. Len(r) : \E l \in 1 .. Len(s) : \E j \in 1 .. Len(s[l]) : r[i] = s[l][j]
      /\ \A l \in 1 .. Len(s) : \A j \in 1 .. Len(s[l]) : \E i \in 1 .. Len(r) : r[i] = s[l][j]
  BY <1>6, <1>7, <1>8
<1>10. r = FlattenSeq(s)
  BY <1>3
<1> QED
  BY ONLY <1>9, <1>10, Zenon

\* Tables that a LevelIterator can go through.
Sound(S) ==
    /\ IsFiniteSet(S)
    /\ Run(S)
    /\ \A s \in S : s.kvs # {} /\ IsFiniteSet(s.kvs) /\ OneVersionOf(s.kvs)

\* Keys and timestamps are numbers.
LEMMA VersionsStamped == KV \subseteq Stamped
<1>1. ASSUME NEW p \in KV PROVE p \in Stamped
  <2>1. p.key \in Nat
    BY <1>1, KeysAssumption DEF KV
  <2> QED
    BY <1>1, <2>1 DEF KV, Stamped
<1> QED
  BY <1>1

\* A run in order.
LEMMA RunInOrder ==
    ASSUME NEW S \in SUBSET SST, Sound(S)
    PROVE  \E t \in Seq(S) :
             /\ t = SSTsInOrder(S)
             /\ \A s \in S : \E i \in 1 .. Len(t) : t[i] = s
             /\ \A i, j \in 1 .. Len(t) : i < j => KeysBelow(t[i], t[j])
<1>1. \A s \in S : s.kvs \in SUBSET Stamped /\ s.kvs # {}
  <2>1. \A s \in S : s.kvs \in SUBSET KV
    BY DEF SST
  <2> QED
    BY <2>1, VersionsStamped DEF Sound
<1>2. \A s, t \in S : s # t => Separate(s, t) \/ Separate(t, s)
  BY DEF Sound, Run, KeysBelow, Separate
<1>3. IsFiniteSet(S)
  BY DEF Sound
<1>4. PICK t \in Seq(S) :
          /\ t = SSTsInOrder(S)
          /\ \A s \in S : \E i \in 1 .. Len(t) : t[i] = s
          /\ \A i, j \in 1 .. Len(t) : i < j => Separate(t[i], t[j])
  BY <1>1, <1>2, <1>3, RunOrdered
<1> QED
  BY <1>4 DEF Separate, KeysBelow

\* The tables from the one on whose range the start key is in: those before it have
\* smaller keys only, those after it greater ones.
LEMMA Around ==
    ASSUME NEW S \in SUBSET SST, NEW t \in Seq(S),
           \A i, j \in 1 .. Len(t) : i < j => KeysBelow(t[i], t[j]),
           NEW k \in Nat, NEW m \in 1 .. Len(t), InRange(t[m], k), NEW i \in 1 .. Len(t)
    PROVE  /\ i < m => \A p \in t[i].kvs : p.key < k
           /\ m < i => \A p \in t[i].kvs : k < p.key
<1>1. PICK p \in t[m].kvs, q \in t[m].kvs : p.key <= k /\ k <= q.key
  BY DEF InRange, KeysOf
<1>2. t[m] \in SST /\ t[i] \in SST
  OBVIOUS
<1>3. /\ p.key \in Nat /\ q.key \in Nat
      /\ \A r \in t[i].kvs : r.key \in Nat
  BY <1>1, <1>2, KeysAssumption DEF SST, KV
<1> QED
  BY <1>1, <1>3 DEF KeysBelow

\* The versions from a key on.
From(kvs, k) == {p \in kvs : k <= p.key}

\* What an iterator yields of the tables in t from the m-th on, of that one from the
\* start key k on.
Yields(t, m, k, r) ==
    /\ r \in Seq(KV)
    /\ Ordering(r)
    /\ \A i \in 1 .. Len(r) : \E j \in m .. Len(t) : r[i] \in From(t[j].kvs, k)
    /\ \A j \in m .. Len(t) : \A p \in From(t[j].kvs, k) : \E i \in 1 .. Len(r) : r[i] = p

LEMMA Yielded ==
    ASSUME NEW S \in SUBSET SST, Sound(S), NEW t \in Seq(S),
           \A i, j \in 1 .. Len(t) : i < j => KeysBelow(t[i], t[j]),
           NEW k \in Nat, NEW m \in 1 .. Len(t), InRange(t[m], k),
           NEW parts, parts \in [1 .. Len(t) - m + 1 -> SUBSET KV],
           \A i \in 1 .. Len(t) - m + 1 :
               parts[i] = IF i = 1 THEN From(t[m].kvs, k) ELSE t[m + i - 1].kvs,
           NEW s, s = [i \in 1 .. Len(t) - m + 1 |-> Entries(parts[i])]
    PROVE  Yields(t, m, k, FlattenSeq(s))
<1> DEFINE n == Len(t) - m + 1
<1>1. n \in Nat /\ \A i \in 1 .. n : m + i - 1 \in m .. Len(t) /\ m + i - 1 \in 1 .. Len(t)
  OBVIOUS
<1>2. \A j \in m .. Len(t) : j - m + 1 \in 1 .. n /\ m + (j - m + 1) - 1 = j
  OBVIOUS
<1> HIDE DEF n
<1>3. ASSUME NEW j \in 1 .. Len(t)
      PROVE  /\ t[j] \in S /\ t[j].kvs \in SUBSET KV /\ IsFiniteSet(t[j].kvs)
             /\ OneVersionOf(t[j].kvs)
             /\ m < j => From(t[j].kvs, k) = t[j].kvs
  <2>1. t[j] \in S /\ t[j] \in SST
    OBVIOUS
  <2>2. t[j].kvs \in SUBSET KV
    BY <2>1 DEF SST
  <2>3. \A p \in t[j].kvs : p.key \in Nat
    BY <2>2, KeysAssumption DEF KV
  <2>4. m < j => \A p \in t[j].kvs : k < p.key
    BY Around
  <2>5. m < j => From(t[j].kvs, k) = t[j].kvs
    BY <2>3, <2>4 DEF From
  <2> QED
    BY <2>1, <2>2, <2>5 DEF Sound
<1>4. ASSUME NEW i \in 1 .. n
      PROVE  /\ parts[i] = From(t[m + i - 1].kvs, k)
             /\ parts[i] \in SUBSET KV /\ IsFiniteSet(parts[i]) /\ OneVersionOf(parts[i])
             /\ parts[i] \subseteq t[m + i - 1].kvs
  <2>1. PICK j \in 1 .. Len(t) : j = m + i - 1
    BY <1>1, <1>4
  <2>2. i = 1 => j = m
    BY <2>1
  <2>3. i # 1 => m < j
    BY <1>1, <1>4, <2>1
  <2>4. parts[i] = From(t[j].kvs, k)
    <3>1. i # 1 => parts[i] = t[j].kvs
      BY <1>4, <2>1 DEF n
    <3>2. i = 1 => parts[i] = From(t[m].kvs, k)
      BY <1>4 DEF n
    <3> QED
      BY <1>3, <2>2, <2>3, <3>1, <3>2
  <2>5. parts[i] \subseteq t[j].kvs
    BY <2>4 DEF From
  <2>6. IsFiniteSet(parts[i])
    BY <1>3, <2>5, FS_Subset
  <2> QED
    BY <1>3, <2>1, <2>4, <2>5, <2>6 DEF OneVersionOf
<1>5. PICK u : u = [i \in 1 .. n |-> Entries(parts[i])]
  OBVIOUS
<1>6. ASSUME NEW i \in 1 .. n
      PROVE  /\ u[i] \in Seq(KV)
             /\ Ordering(u[i])
             /\ \A j \in 1 .. Len(u[i]) : u[i][j] \in parts[i]
             /\ \A p \in parts[i] : \E j \in 1 .. Len(u[i]) : u[i][j] = p
  <2>1. PICK kvs \in SUBSET KV : kvs = parts[i]
    BY <1>4, <1>6
  <2>2. IsFiniteSet(kvs) /\ kvs \in SUBSET Stamped
    BY <1>4, <1>6, <2>1, VersionsStamped
  <2>3. PICK e \in Seq(kvs) :
            /\ e = Entries(kvs)
            /\ Ordering(e)
            /\ \A j \in 1 .. Len(e) : e[j] \in kvs
            /\ \A p \in kvs : \E j \in 1 .. Len(e) : e[j] = p
    BY <2>2, EntriesOrdered DEF Entries
  <2>4. u[i] = e
    BY <1>5, <1>6, <2>1, <2>3
  <2> QED
    BY <2>1, <2>3, <2>4
<1>7. u \in Seq(Seq(KV)) /\ Len(u) = n
  BY <1>1, <1>5, <1>6
<1>8. Ascending(u)
  <2>1. ASSUME NEW a \in 1 .. n, NEW b \in 1 .. n, a < b,
               NEW i \in 1 .. Len(u[a]), NEW j \in 1 .. Len(u[b])
        PROVE  KVLess(u[a][i], u[b][j])
    <3>1. u[a][i] \in t[m + a - 1].kvs /\ u[b][j] \in t[m + b - 1].kvs
      BY <1>4, <1>6, <2>1
    <3>2. KeysBelow(t[m + a - 1], t[m + b - 1])
      <4>1. m + a - 1 \in 1 .. Len(t) /\ m + b - 1 \in 1 .. Len(t) /\ m + a - 1 < m + b - 1
        BY <1>1, <2>1
      <4> QED
        BY <4>1
    <3> QED
      BY <3>1, <3>2 DEF KeysBelow, KVLess
  <2> QED
    BY <1>6, <1>7, <2>1 DEF Ascending
<1>9. PICK r \in Seq(KV) :
          /\ r = FlattenSeq(u)
          /\ Ordering(r)
          /\ \A i \in 1 .. Len(r) : \E a \in 1 .. Len(u) : \E j \in 1 .. Len(u[a]) : r[i] = u[a][j]
          /\ \A a \in 1 .. Len(u) : \A j \in 1 .. Len(u[a]) : \E i \in 1 .. Len(r) : r[i] = u[a][j]
  BY <1>7, <1>8, FlattenedAscends
<1>10. ASSUME NEW i \in 1 .. Len(r)
       PROVE  \E j \in m .. Len(t) : r[i] \in From(t[j].kvs, k)
  <2>1. PICK a \in 1 .. n : \E j \in 1 .. Len(u[a]) : r[i] = u[a][j]
    BY <1>7, <1>9, <1>10
  <2>2. r[i] \in parts[a]
    BY <1>6, <2>1
  <2> QED
    BY <1>1, <1>4, <2>1, <2>2
<1>11. ASSUME NEW j \in m .. Len(t), NEW p \in From(t[j].kvs, k)
       PROVE  \E i \in 1 .. Len(r) : r[i] = p
  <2>1. PICK a \in 1 .. n : m + a - 1 = j
    BY <1>2, <1>11
  <2>2. p \in parts[a]
    BY <1>4, <1>11, <2>1
  <2>3. PICK i \in 1 .. Len(u[a]) : u[a][i] = p
    BY <1>6, <2>2
  <2> QED
    BY <1>7, <1>9, <2>3
<1>12. Yields(t, m, k, r)
  BY <1>9, <1>10, <1>11 DEF Yields
<1> QED
  <2>1. s = u
    BY <1>5 DEF n
  <2> QED
    BY <1>9, <1>12, <2>1, Zenon

\* A level with a table in whose range of keys k is.
Entered(l, k) == \E s \in ssts[l] : InRange(s, k)

\* Sought yields what an entered level has from the start key on, in order, and nothing
\* else.
Gives(l, k, r) ==
    /\ r \in Seq(KV)
    /\ Ordering(r)
    /\ \A i \in 1 .. Len(r) : Entered(l, k) /\ \E s \in ssts[l] : r[i] \in From(s.kvs, k)
    /\ Entered(l, k) => \A s \in ssts[l] : \A p \in From(s.kvs, k) : \E i \in 1 .. Len(r) : r[i] = p

\* Sought, of the tables in order.
SoughtIn(t, k) ==
    LET hits    == {i \in DOMAIN t : InRange(t[i], k)}
        run     == SubSeq(t, Min(hits), Len(t))
        from(i) == IF i = 1 THEN {p \in run[1].kvs : k <= p.key} ELSE run[i].kvs
    IN IF hits = {} THEN <<>>
       ELSE FlattenSeq([i \in DOMAIN run |-> Entries(from(i))])

LEMMA Seeks ==
    ASSUME NEW l, ssts[l] \in SUBSET SST, Sound(ssts[l]), NEW k \in Nat
    PROVE  \E r : r = Sought(l, k) /\ Gives(l, k, r)
<1>1. PICK S \in SUBSET SST : S = ssts[l]
  OBVIOUS
<1>2. PICK t \in Seq(S) :
          /\ t = SSTsInOrder(S)
          /\ \A s \in S : \E i \in 1 .. Len(t) : t[i] = s
          /\ \A i, j \in 1 .. Len(t) : i < j => KeysBelow(t[i], t[j])
  BY <1>1, RunInOrder
<1>3. Len(t) \in Nat /\ DOMAIN t = 1 .. Len(t) /\ \A i \in 1 .. Len(t) : t[i] \in S
  OBVIOUS
<1> DEFINE hits    == {i \in DOMAIN t : InRange(t[i], k)}
           run     == SubSeq(t, Min(hits), Len(t))
           from(i) == IF i = 1 THEN {p \in run[1].kvs : k <= p.key} ELSE run[i].kvs
<1>4. Sought(l, k) = IF hits = {} THEN <<>>
                     ELSE FlattenSeq([i \in DOMAIN run |-> Entries(from(i))])
  <2>1. Sought(l, k) = SoughtIn(SSTsInOrder(ssts[l]), k)
    BY DEF Sought, SoughtIn
  <2>2. Sought(l, k) = SoughtIn(t, k)
    BY <1>1, <1>2, <2>1, Zenon
  <2> QED
    BY <2>2 DEF SoughtIn
<1>5. Entered(l, k) <=> hits # {}
  <2>1. hits # {} <=> \E i \in 1 .. Len(t) : InRange(t[i], k)
    BY <1>3
  <2>2. \A i \in 1 .. Len(t) : t[i] \in ssts[l]
    BY <1>1, <1>3
  <2>3. \A s \in ssts[l] : \E i \in 1 .. Len(t) : t[i] = s
    BY <1>1, <1>2
  <2> QED
    BY <2>1, <2>2, <2>3, Zenon DEF Entered
<1>6. CASE hits = {}
  <2>1. Sought(l, k) = <<>>
    BY <1>4, <1>6
  <2>2. <<>> \in Seq(KV) /\ Len(<<>>) = 0
    OBVIOUS
  <2>3. Gives(l, k, <<>>)
    BY <1>5, <1>6, <2>2 DEF Gives, Ordering
  <2> QED
    BY <2>1, <2>3
<1>7. CASE hits # {}
  <2>1. PICK m : m = Min(hits)
    OBVIOUS
  <2>2. m \in hits /\ \A i \in hits : m <= i
    <3>1. \E x \in hits : \A y \in hits : x <= y
      <4>1. hits \subseteq Nat
        BY <1>3
      <4> HIDE DEF hits
      <4> QED
        BY <1>7, <4>1, LeastNatural
    <3> HIDE DEF hits
    <3>2. m = CHOOSE x \in hits : \A y \in hits : x <= y
      BY <2>1 DEF Min
    <3> QED
      BY <3>1, <3>2
  <2>3. m \in 1 .. Len(t) /\ InRange(t[m], k)
    BY <1>3, <2>2
  <2> DEFINE n == Len(t) - m + 1
  <2>4. n \in Nat \ {0}
    BY <1>3, <2>3
  <2>5. /\ DOMAIN run = 1 .. n
        /\ \A i \in 1 .. n : run[i] = t[m + i - 1]
    <3>1. run = SubSeq(t, m, Len(t))
      BY <2>1
    <3>2. SubSeq(t, m, Len(t)) = [i \in 1 .. n |-> t[i + m - 1]]
      BY <1>3, <2>3, <2>4 DEF SubSeq
    <3> HIDE DEF run, n
    <3>3. \A i \in 1 .. n : i + m - 1 = m + i - 1
      BY <2>3, <2>4
    <3> QED
      BY <3>1, <3>2, <3>3
  <2> HIDE DEF run
  <2>6. PICK parts : parts = [i \in 1 .. n |-> from(i)]
    OBVIOUS
  <2>7. ASSUME NEW i \in 1 .. n
        PROVE  /\ parts[i] = from(i) /\ parts[i] \in SUBSET KV
               /\ parts[i] = IF i = 1 THEN From(t[m].kvs, k) ELSE t[m + i - 1].kvs
    <3>1. parts[i] = from(i)
      BY <2>6, <2>7
    <3>2. run[i] = t[m + i - 1] /\ m + i - 1 \in 1 .. Len(t)
      BY <1>3, <2>3, <2>5, <2>7
    <3>3. i = 1 => run[1] = t[m]
      BY <2>3, <3>2
    <3>4. parts[i] = IF i = 1 THEN From(t[m].kvs, k) ELSE t[m + i - 1].kvs
      BY <3>1, <3>2, <3>3 DEF From
    <3>5. t[m + i - 1] \in SST /\ t[m] \in SST
      BY <1>3, <2>3, <3>2
    <3>6. parts[i] \in SUBSET KV
      BY <3>4, <3>5 DEF From, SST
    <3> QED
      BY <3>1, <3>4, <3>6
  <2> HIDE DEF n, from
  <2>8. PICK r : r = FlattenSeq([i \in 1 .. n |-> Entries(parts[i])])
    OBVIOUS
  <2>9. Sought(l, k) = r
    <3>1. [i \in 1 .. n |-> Entries(parts[i])] = [i \in DOMAIN run |-> Entries(from(i))]
      <4>1. \A i \in 1 .. n : parts[i] = from(i)
        BY <2>7
      <4> QED
        BY <2>5, <4>1
    <3> HIDE DEF hits
    <3> QED
      BY <1>4, <1>7, <2>8, <3>1, Zenon
  <2>10. Yields(t, m, k, r)
    <3>1. parts \in [1 .. n -> SUBSET KV]
      BY <2>6, <2>7
    <3>2. \A i \in 1 .. n : parts[i] = IF i = 1 THEN From(t[m].kvs, k) ELSE t[m + i - 1].kvs
      BY <2>7
    <3>3. /\ parts \in [1 .. Len(t) - m + 1 -> SUBSET KV]
          /\ \A i \in 1 .. Len(t) - m + 1 :
                 parts[i] = IF i = 1 THEN From(t[m].kvs, k) ELSE t[m + i - 1].kvs
      BY <3>1, <3>2, Zenon DEF n
    <3>4. PICK s : s = [i \in 1 .. Len(t) - m + 1 |-> Entries(parts[i])]
      OBVIOUS
    <3>5. r = FlattenSeq(s)
      BY <2>8, <3>4, Zenon DEF n
    <3>6. Sound(S)
      BY <1>1, Zenon
    <3>7. Yields(t, m, k, FlattenSeq(s))
      BY <1>2, <2>3, <3>3, <3>4, <3>6, Yielded
    <3> QED
      BY <3>5, <3>7, Zenon
  <2>11. ASSUME NEW s \in ssts[l], NEW p \in From(s.kvs, k)
         PROVE  \E i \in 1 .. Len(r) : r[i] = p
    <3>1. PICK j \in 1 .. Len(t) : t[j] = s
      BY <1>1, <1>2, <2>11
    <3>2. p \in s.kvs /\ k <= p.key
      BY <2>11 DEF From
    <3>3. ~ (j < m)
      <4>1. j < m => \A q \in t[j].kvs : q.key < k
        BY <1>2, <2>3, Around
      <4>2. p.key \in Nat
        <5>1. p \in KV
          BY <1>1, <2>11, <3>2 DEF SST
        <5> QED
          BY <5>1, KeysAssumption DEF KV
      <4> QED
        BY <3>1, <3>2, <4>1, <4>2
    <3>4. j \in m .. Len(t) /\ p \in From(t[j].kvs, k)
      BY <2>3, <2>11, <3>1, <3>3
    <3> QED
      BY <2>10, <3>4 DEF Yields
  <2>12. Gives(l, k, r)
    <3>1. \A i \in 1 .. Len(r) : \E s \in ssts[l] : r[i] \in From(s.kvs, k)
      <4>1. \A j \in m .. Len(t) : t[j] \in ssts[l]
        BY <1>1, <1>3, <2>3
      <4> QED
        BY <2>10, <4>1 DEF Yields
    <3> QED
      BY <1>5, <1>7, <2>10, <2>11, <3>1 DEF Gives, Yields
  <2> QED
    BY <2>9, <2>12
<1> QED
  BY <1>6, <1>7

-----------------------------------------------------------------------------
(* The heap *)

\* A heap with something in it has a top.
LEMMA TopInHeap ==
    ASSUME NEW pairs \in SUBSET KV, IsFiniteSet(pairs), pairs # {}
    PROVE  /\ TopOf(pairs) \in pairs
           /\ \A q \in pairs : q = TopOf(pairs) \/ KVLess(TopOf(pairs), q)
<1>1. pairs \in SUBSET Stamped
  BY VersionsStamped
<1>2. PICK e \in Seq(pairs) :
          /\ Len(e) = Cardinality(pairs)
          /\ Ordering(e)
          /\ \A p \in pairs : \E i \in 1 .. Len(e) : e[i] = p
  BY <1>1, EntriesOrdered
<1>3. Len(e) \in Nat /\ \E i \in 1 .. Len(e) : TRUE
  BY <1>2
<1>4. 1 \in 1 .. Len(e) /\ e[1] \in pairs
  BY <1>3
<1>5. ASSUME NEW q \in pairs
      PROVE  q = e[1] \/ KVLess(e[1], q)
  <2>1. PICK i \in 1 .. Len(e) : e[i] = q
    BY <1>2
  <2>2. i = 1 \/ 1 < i
    BY <1>3
  <2> QED
    BY <1>2, <1>4, <2>1, <2>2 DEF Ordering
<1>6. \E p \in pairs : \A q \in pairs : q = p \/ KVLess(p, q)
  BY <1>4, <1>5
<1> QED
  BY <1>6, Zenon DEF TopOf

\* The heap never holds more than it has room for.
LEMMA HeapHasRoom ==
    ASSUME NEW pairs \in SUBSET KV, IsFiniteSet(pairs), scan.len \in Nat \ {0},
           Cardinality(pairs) <= scan.len, NEW h \in KV
    PROVE  /\ Collected(pairs, h) \subseteq pairs \cup {h}
           /\ IsFiniteSet(Collected(pairs, h))
           /\ Cardinality(Collected(pairs, h)) <= scan.len
<1>1. Cardinality(pairs) \in Nat
  BY FS_CardinalityType
<1>2. CASE Cardinality(pairs) < scan.len
  <2>1. Collected(pairs, h) = pairs \cup {h}
    BY <1>2 DEF Collected
  <2>2. /\ IsFiniteSet(pairs \cup {h})
        /\ Cardinality(pairs \cup {h}) = IF h \in pairs THEN Cardinality(pairs)
                                                        ELSE Cardinality(pairs) + 1
    BY FS_AddElement
  <2> QED
    BY <1>1, <1>2, <2>1, <2>2
<1>3. CASE ~ (Cardinality(pairs) < scan.len)
  <2>1. pairs # {}
    <3>1. Cardinality({}) = 0
      BY FS_EmptySet
    <3> QED
      BY <1>3, <3>1
  <2>2. PICK top \in pairs : top = TopOf(pairs)
    BY <2>1, TopInHeap
  <2>3. PICK less : less = pairs \ {top}
    OBVIOUS
  <2>4. IsFiniteSet(less) /\ Cardinality(less) = Cardinality(pairs) - 1
    BY <2>2, <2>3, FS_RemoveElement
  <2>5. /\ IsFiniteSet(less \cup {h})
        /\ Cardinality(less \cup {h}) = IF h \in less THEN Cardinality(less)
                                                      ELSE Cardinality(less) + 1
    BY <2>4, FS_AddElement
  <2>6. Collected(pairs, h) = pairs \/ Collected(pairs, h) = less \cup {h}
    BY <1>3, <2>2, <2>3 DEF Collected
  <2>7. Cardinality(less \cup {h}) <= scan.len
    BY <1>1, <2>4, <2>5
  <2> QED
    BY <2>3, <2>5, <2>6, <2>7
<1> QED
  BY <1>2, <1>3

\* If there is room for all that is due, nothing due is lost from the heap, and a level
\* is left early only once all that is due is in it.
LEMMA HeapKeepsDue ==
    ASSUME NEW pairs \in SUBSET KV, IsFiniteSet(pairs), scan.len \in Nat \ {0},
           Cardinality(pairs) <= scan.len, NEW h \in KV, h = Head(scan.rest),
           NEW due, IsFiniteSet(due), Cardinality(due) <= scan.len,
           pairs \subseteq due, h \in due
    PROVE  /\ Collected(pairs, h) = pairs \cup {h}
           /\ Rest(pairs) = Tail(scan.rest) \/ (Rest(pairs) = <<>> /\ pairs = due)
<1>1. Cardinality(pairs) \in Nat /\ Cardinality(due) \in Nat
  BY FS_CardinalityType
<1>2. CASE Cardinality(pairs) < scan.len
  BY <1>1, <1>2 DEF Collected, Rest
<1>3. CASE ~ (Cardinality(pairs) < scan.len)
  <2>1. Cardinality(pairs) = scan.len
    BY <1>1, <1>3
  <2>2. pairs = due
    <3>1. Cardinality(pairs) <= Cardinality(due) /\ (Cardinality(due) = Cardinality(pairs) => due = pairs)
      BY FS_Subset
    <3> QED
      BY <1>1, <2>1, <3>1
  <2>3. TopOf(pairs) \in pairs /\ \A q \in pairs : q = TopOf(pairs) \/ KVLess(TopOf(pairs), q)
    BY <2>2, TopInHeap
  <2>4. Collected(pairs, h) = pairs \cup {h}
    <3>1. CASE KVLess(TopOf(pairs), h)
      BY <1>3, <2>2, <3>1 DEF Collected
    <3>2. CASE ~ KVLess(TopOf(pairs), h)
      <4>1. h = TopOf(pairs)
        BY <2>2, <2>3, <3>2
      <4>2. Collected(pairs, h) = (pairs \ {TopOf(pairs)}) \cup {h}
        BY <1>3, <3>2 DEF Collected
      <4> QED
        BY <4>1, <4>2
    <3> QED
      BY <3>1, <3>2
  <2>5. Rest(pairs) = Tail(scan.rest) \/ Rest(pairs) = <<>>
    BY DEF Rest
  <2> QED
    BY <2>2, <2>4, <2>5
<1> QED
  BY <1>2, <1>3

\* An iterator that goes on stays in order.
LEMMA TailIncreases ==
    ASSUME NEW r \in Seq(KV), r # <<>>, Ordering(r)
    PROVE  /\ Head(r) = r[1] /\ Head(r) \in KV /\ Len(r) \in Nat \ {0}
           /\ Tail(r) \in Seq(KV) /\ Ordering(Tail(r))
           /\ Len(Tail(r)) = Len(r) - 1
           /\ \A i \in 1 .. Len(r) - 1 : Tail(r)[i] = r[i + 1]
           /\ Len(r) = 1 \/ KVLess(r[1], r[2])
<1>1. PICK q \in Seq(KV) : q = Tail(r)
  <2>1. Tail(r) \in Seq(KV)
    OBVIOUS
  <2> QED
    BY <2>1, Zenon
<1>2. /\ Head(r) = r[1] /\ Head(r) \in KV /\ Len(r) \in Nat \ {0}
      /\ Len(q) = Len(r) - 1
      /\ \A i \in 1 .. Len(r) - 1 : q[i] = r[i + 1]
  BY <1>1
<1>3. Ordering(q)
  <2>1. \A i \in 1 .. Len(q) : q[i] = r[i + 1] /\ i + 1 \in 1 .. Len(r)
    BY <1>2
  <2> QED
    BY <1>2, <2>1 DEF Ordering
<1>4. Len(r) = 1 \/ KVLess(r[1], r[2])
  BY <1>2 DEF Ordering
<1> QED
  BY <1>1, <1>2, <1>3, <1>4

-----------------------------------------------------------------------------
(* Scans. They are what they should be as long as level 0 has one table at *)
(* most.                                                                   *)

\* What a scan has to collect: of a level, and of the store.
DueIn(l, k) == {p \in UNION {From(s.kvs, k) : s \in ssts[l]} : Entered(l, k)}
DueBy(l, k) == From(memTable, k) \cup UNION {DueIn(m, k) : m \in 0 .. l}
Due(k)      == DueBy(NLevels - 1, k)

ScanTypeOK ==
    /\ scan \in [start : Keys, len : Nat \ {0}, level : Level, rest : Seq(KV), pairs : SUBSET KV]
    /\ IsFiniteSet(scan.pairs)

\* The heap is within its size. If it has room for all there is to collect, then that
\* is in it or about to be yielded, as far as the scan has come.
HeapInv ==
    /\ Cardinality(scan.pairs) <= scan.len
    /\ scan.pairs = From(scan.pairs, scan.start)
    /\ Ordering(scan.rest)
    /\ \A i \in 1 .. Len(scan.rest) : scan.rest[i] \in DueIn(scan.level, scan.start)
    /\ Cardinality(Due(scan.start)) <= scan.len =>
         /\ scan.pairs \subseteq Due(scan.start)
         /\ \A p \in DueBy(scan.level, scan.start) :
              p \in scan.pairs \/ \E i \in 1 .. Len(scan.rest) : scan.rest[i] = p

ScanInv ==
    /\ phase = "scan" => ScanTypeOK /\ HeapInv
    /\ phase # "scan" => scan = NoScan
    /\ NoAbort

\* What the proofs ask of the configuration.
OneTableAtLevel0 == Limit > 1 /\ NLevels > 1 /\ Level0Max = 1 /\ LevelsGrow

LEMMA LevelsSound ==
    ASSUME OneTableAtLevel0, CountsInv, TreesInv, LevelsInv, phase \in {"idle", "scan"}, NEW l \in Level
    PROVE  ssts[l] \in SUBSET SST /\ Sound(ssts[l])
<1>1. ssts[l] \in SUBSET SST /\ ~ Merging
  BY DEF TreesInv, TreeTypeOK, Merging
<1>2. IsFiniteSet(ssts[l]) /\ \A s \in ssts[l] : s.kvs # {} /\ IsFiniteSet(s.kvs)
  BY DEF TreesInv, SortedInv, SizesInv, Sized
<1>3. \A s \in ssts[l] : OneVersionOf(s.kvs)
  BY DEF TreesInv, RecInv, SinglesInv
<1>4. CASE l # 0
  BY <1>1, <1>2, <1>3, <1>4 DEF TreesInv, SortedInv, OrderInv, Sound
<1>5. CASE l = 0
  <2>1. Cardinality(ssts[0]) <= 1
    <3>1. WithinLimit(0)
      <4>1. 0 \in Level \ {NLevels - 1}
        BY ShapeAssumption DEF OneTableAtLevel0, Level
      <4>2. phase \notin {"compact", "aborted", "failed"}
        OBVIOUS
      <4> QED
        BY <1>1, <4>1, <4>2 DEF LevelsInv
    <3>2. MaxSize(0) = 1
      BY <1>5, MaxSizes DEF OneTableAtLevel0
    <3> QED
      BY <3>1, <3>2 DEF WithinLimit
  <2>2. ASSUME NEW s \in ssts[0], NEW t \in ssts[0], s # t
        PROVE  FALSE
    <3>1. IsFiniteSet({s}) /\ Cardinality({s}) = 1
      BY FS_Singleton
    <3>2. Cardinality({s} \cup {t}) = 2
      <4>1. t \notin {s}
        BY <2>2
      <4> QED
        BY ONLY <3>1, <4>1, FS_AddElement
    <3>3. Cardinality({s} \cup {t}) <= Cardinality(ssts[0]) /\ Cardinality(ssts[0]) \in Nat
      BY <1>2, <1>5, <2>2, FS_Subset, FS_CardinalityType
    <3> QED
      BY <2>1, <3>2, <3>3
  <2>3. Run(ssts[0])
    BY <2>2 DEF Run
  <2> QED
    BY <1>1, <1>2, <1>3, <1>5, <2>3 DEF Sound
<1> QED
  BY <1>4, <1>5

\* What there is to collect is finite.
LEMMA DueFinite ==
    ASSUME OneTableAtLevel0, CountsInv, TreesInv, LevelsInv, phase \in {"idle", "scan"}, NEW k
    PROVE  IsFiniteSet(Due(k)) /\ Due(k) \subseteq KV
<1>1. PICK due \in [Level -> SUBSET KV] : \A l \in Level : due[l] = DueIn(l, k) /\ IsFiniteSet(due[l])
  <2>1. ASSUME NEW l \in Level
        PROVE  DueIn(l, k) \in SUBSET KV /\ IsFiniteSet(DueIn(l, k))
    <3>1. ssts[l] \in SUBSET SST /\ IsFiniteSet(ssts[l]) /\ \A s \in ssts[l] : Sized(s)
      BY <2>1 DEF TreesInv, TreeTypeOK, SortedInv, SizesInv
    <3>2. PICK S \in SUBSET SST : S = ssts[l]
      BY <3>1
    <3>3. PICK all : all = UNION {s.kvs : s \in S}
      OBVIOUS
    <3>4. IsFiniteSet(all)
      BY <3>1, <3>2, <3>3, VersionsInTables
    <3>5. all \in SUBSET KV
      BY <3>2, <3>3 DEF SST
    <3>6. DueIn(l, k) \in SUBSET all
      BY <3>2, <3>3 DEF DueIn, From
    <3> QED
      BY <3>4, <3>5, <3>6, FS_Subset
  <2>2. PICK due : due = [l \in Level |-> DueIn(l, k)]
    OBVIOUS
  <2> QED
    BY <2>1, <2>2
<1>2. PICK dues : dues = {due[l] : l \in Level}
  OBVIOUS
<1>3. IsFiniteSet(dues)
  <2>1. due \in Surjection(Level, dues)
    BY <1>1, <1>2 DEF Surjection
  <2>2. IsFiniteSet(Level)
    BY ShapeAssumption, FS_Interval DEF Level
  <2> QED
    BY <2>1, <2>2, FS_Surjection
<1>4. \A d \in dues : IsFiniteSet(d)
  BY <1>1, <1>2
<1>5. IsFiniteSet(UNION dues)
  BY <1>3, <1>4, FS_UNION
<1>6. From(memTable, k) \in SUBSET memTable /\ IsFiniteSet(memTable) /\ memTable \in SUBSET KV
  BY DEF From, TreesInv, TreeTypeOK, SortedInv, SizesInv
<1>7. IsFiniteSet(From(memTable, k))
  BY <1>6, FS_Subset
<1>8. UNION dues = UNION {DueIn(m, k) : m \in 0 .. NLevels - 1}
  BY <1>1, <1>2 DEF Level
<1>9. Due(k) = From(memTable, k) \cup UNION dues
  BY <1>8 DEF Due, DueBy
<1>10. IsFiniteSet(Due(k))
  <2>1. IsFiniteSet(From(memTable, k) \cup UNION dues)
    BY ONLY <1>5, <1>7, FS_Union
  <2> QED
    BY <1>9, <2>1, Zenon
<1>11. UNION dues \subseteq KV
  BY <1>1, <1>2
<1> QED
  BY <1>6, <1>9, <1>10, <1>11

\* Of the memtable the first versions from the start key on are taken.
LEMMA StartHeap ==
    ASSUME NEW mem \in SUBSET KV, IsFiniteSet(mem), OneVersionOf(mem), NEW k \in Nat, NEW n \in Nat \ {0},
           NEW due, IsFiniteSet(due), From(mem, k) \subseteq due
    PROVE  LET first == FirstEntries(From(mem, k), n)
           IN /\ first \in SUBSET KV /\ IsFiniteSet(first) /\ Cardinality(first) <= n
              /\ first \subseteq From(mem, k)
              /\ Cardinality(due) <= n => first = From(mem, k)
<1> DEFINE from  == From(mem, k)
           first == FirstEntries(from, n)
<1>1. from \in SUBSET KV /\ from \in SUBSET mem
  BY DEF From
<1>2. IsFiniteSet(from) /\ OneVersionOf(from)
  <2>1. OneVersionOf(from)
    BY <1>1 DEF OneVersionOf
  <2> HIDE DEF from
  <2> QED
    BY <1>1, <2>1, FS_Subset
<1> HIDE DEF from
<1>3. first \in SUBSET from
  BY DEF FirstEntries
<1>4. Cardinality(first) <= n
  BY <1>1, <1>2, FirstAreFew
<1>5. from \ first # {} => Cardinality(first) >= n
  BY <1>1, <1>2, FirstAreMany
<1> HIDE DEF first
<1>6. /\ IsFiniteSet(first) /\ Cardinality(first) \in Nat
      /\ Cardinality(first) <= Cardinality(from)
      /\ Cardinality(first) = Cardinality(from) => first = from
      /\ Cardinality(from) \in Nat
  BY <1>2, <1>3, FS_Subset, FS_CardinalityType
<1>7. Cardinality(from) <= Cardinality(due) /\ Cardinality(due) \in Nat
  <2>1. from \in SUBSET due
    BY DEF from
  <2> QED
    BY <2>1, FS_Subset, FS_CardinalityType
<1>8. Cardinality(due) <= n => first = from
  BY <1>3, <1>5, <1>6, <1>7
<1>9. first \in SUBSET KV
  BY <1>1, <1>3
<1> QED
  BY <1>3, <1>4, <1>6, <1>8, <1>9 DEF first, from

\* What is due by some level is due.
LEMMA DueGrows ==
    ASSUME NEW l \in Level, NEW k
    PROVE  /\ From(memTable, k) \subseteq DueBy(l, k)
           /\ DueIn(l, k) \subseteq DueBy(l, k)
           /\ DueBy(l, k) \subseteq Due(k)
           /\ DueBy(0, k) = From(memTable, k) \cup DueIn(0, k)
           /\ l + 1 \in Level => DueBy(l + 1, k) = DueBy(l, k) \cup DueIn(l + 1, k)
<1>1. 0 .. l \subseteq 0 .. NLevels - 1 /\ l \in 0 .. l /\ 0 .. 0 = {0}
      /\ 0 .. l + 1 = (0 .. l) \cup {l + 1}
  BY ShapeAssumption DEF Level
<1>2. From(memTable, k) \subseteq DueBy(l, k) /\ DueIn(l, k) \subseteq DueBy(l, k)
  BY <1>1 DEF DueBy
<1>3. DueBy(l, k) \subseteq Due(k)
  BY <1>1 DEF DueBy, Due
<1>4. DueBy(0, k) = From(memTable, k) \cup DueIn(0, k)
  <2>1. UNION {DueIn(m, k) : m \in 0 .. 0} = DueIn(0, k)
    BY <1>1
  <2> QED
    BY <2>1 DEF DueBy
<1>5. DueBy(l + 1, k) = DueBy(l, k) \cup DueIn(l + 1, k)
  <2>1. UNION {DueIn(m, k) : m \in 0 .. l + 1} = (UNION {DueIn(m, k) : m \in 0 .. l}) \cup DueIn(l + 1, k)
    BY <1>1
  <2> QED
    BY <2>1 DEF DueBy
<1> QED
  BY <1>2, <1>3, <1>4, <1>5

\* What Seek yields of a level is what is due there.
LEMMA SeeksDue ==
    ASSUME OneTableAtLevel0, CountsInv, TreesInv, LevelsInv, phase \in {"idle", "scan"}, NEW l \in Level,
           NEW k \in Keys
    PROVE  \E r \in Seq(KV) :
             /\ r = Sought(l, k)
             /\ Ordering(r)
             /\ \A i \in 1 .. Len(r) : r[i] \in DueIn(l, k)
             /\ \A p \in DueIn(l, k) : \E i \in 1 .. Len(r) : r[i] = p
<1>1. ssts[l] \in SUBSET SST /\ Sound(ssts[l])
  BY LevelsSound
<1>2. k \in Nat
  BY KeysAssumption
<1>3. PICK r : r = Sought(l, k) /\ Gives(l, k, r)
  BY <1>1, <1>2, Seeks
<1>4. \A i \in 1 .. Len(r) : r[i] \in DueIn(l, k)
  BY <1>3 DEF Gives, DueIn
<1>5. \A p \in DueIn(l, k) : \E i \in 1 .. Len(r) : r[i] = p
  BY <1>3 DEF Gives, DueIn
<1> QED
  BY <1>3, <1>4, <1>5 DEF Gives

\* A scan leaves what is due as it is.
LEMMA DueStays ==
    ASSUME UNCHANGED treeVars, NEW l, NEW k, scan'.level = l, scan'.start = k
    PROVE  /\ Due(scan.start)' = Due(k)
           /\ DueIn(scan.level, scan.start)' = DueIn(l, k)
           /\ DueBy(scan.level, scan.start)' = DueBy(l, k)
<1>1. UNCHANGED <<memTable, ssts>>
  BY DEF treeVars
<1>2. DueIn(scan.level, scan.start)' = DueIn(l, k)
  BY <1>1 DEF DueIn, Entered
<1>3. \A m : DueIn(m, scan.start)' = DueIn(m, k)
  BY <1>1 DEF DueIn, Entered
<1>4. DueBy(scan.level, scan.start)' = DueBy(l, k)
  BY <1>1, <1>3 DEF DueBy
<1>5. Due(scan.start)' = Due(k)
  BY <1>1, <1>3 DEF Due, DueBy
<1> QED
  BY <1>2, <1>4, <1>5

\* The beginning of a scan.
LEMMA ScanStarts ==
    ASSUME OneTableAtLevel0, CountsInv, TreesInv, LevelsInv, NEW k \in Keys, NEW n \in 1 .. MaxLen,
           StartScan(k, n)
    PROVE  ScanInv'
<1>1. /\ phase = "idle" /\ phase' = "scan" /\ UNCHANGED treeVars
      /\ scan' = [start |-> k, len |-> n, level |-> 0, rest |-> Sought(0, k),
                  pairs |-> FirstEntries({p \in memTable : k <= p.key}, n)]
  BY DEF StartScan
<1>2. /\ k \in Nat /\ n \in Nat \ {0} /\ 0 \in Level
  BY KeysAssumption, ScanAssumption, ShapeAssumption DEF Level
<1>3. PICK r \in Seq(KV) :
          /\ r = Sought(0, k)
          /\ Ordering(r)
          /\ \A i \in 1 .. Len(r) : r[i] \in DueIn(0, k)
          /\ \A p \in DueIn(0, k) : \E i \in 1 .. Len(r) : r[i] = p
  BY <1>1, <1>2, SeeksDue
<1>4. PICK due : due = Due(k)
  OBVIOUS
<1>5. IsFiniteSet(due)
  BY <1>1, <1>4, DueFinite
<1>6. PICK mem \in SUBSET KV : mem = memTable /\ IsFiniteSet(mem) /\ OneVersionOf(mem)
  BY DEF TreesInv, TreeTypeOK, SortedInv, SizesInv, RecInv, SinglesInv
<1>7. From(mem, k) \subseteq due
  BY <1>2, <1>4, <1>6, DueGrows
<1>8. PICK heap : heap = FirstEntries(From(mem, k), n)
  OBVIOUS
<1>9. /\ heap \in SUBSET KV /\ IsFiniteSet(heap) /\ Cardinality(heap) <= n
      /\ heap \subseteq From(mem, k)
      /\ Cardinality(due) <= n => heap = From(mem, k)
  BY <1>2, <1>5, <1>6, <1>7, <1>8, StartHeap
<1>10. scan' = [start |-> k, len |-> n, level |-> 0, rest |-> r, pairs |-> heap]
  BY <1>1, <1>3, <1>6, <1>8 DEF From
<1>11. /\ scan'.start = k /\ scan'.len = n /\ scan'.level = 0 /\ scan'.rest = r
       /\ scan'.pairs = heap
       /\ scan' \in [start : Keys, len : Nat \ {0}, level : Level, rest : Seq(KV), pairs : SUBSET KV]
  BY <1>2, <1>9, <1>10
<1>12. heap = From(heap, k)
  BY <1>9 DEF From
<1>13. DueBy(0, k) = From(mem, k) \cup DueIn(0, k)
  BY <1>2, <1>6, DueGrows
<1>14. ScanTypeOK'
  BY <1>9, <1>11 DEF ScanTypeOK
<1>15. HeapInv'
  <2>1. Due(scan.start)' = due /\ DueIn(scan.level, scan.start)' = DueIn(0, k)
        /\ DueBy(scan.level, scan.start)' = DueBy(0, k)
    BY <1>1, <1>4, <1>11, DueStays
  <2>2. Cardinality(scan'.pairs) <= scan'.len /\ scan'.pairs = From(scan'.pairs, scan'.start)
    BY <1>9, <1>11, <1>12
  <2>3. Ordering(scan'.rest) /\ \A i \in 1 .. Len(scan'.rest) : scan'.rest[i] \in DueIn(0, k)
    BY <1>3, <1>11
  <2>4. ASSUME Cardinality(due) <= n
        PROVE  /\ scan'.pairs \subseteq due
               /\ \A p \in DueBy(0, k) :
                    p \in scan'.pairs \/ \E i \in 1 .. Len(scan'.rest) : scan'.rest[i] = p
    BY <1>3, <1>7, <1>9, <1>11, <1>13, <2>4
  <2> QED
    BY <1>11, <2>1, <2>2, <2>3, <2>4 DEF HeapInv
<1> QED
  BY <1>1, <1>14, <1>15 DEF ScanInv, NoAbort

\* One round of the loop over a level.
LEMMA ScanVisits ==
    ASSUME OneTableAtLevel0, CountsInv, TreesInv, LevelsInv, ScanInv, Visit
    PROVE  ScanInv'
<1>1. /\ phase = "scan" /\ scan.rest # <<>> /\ UNCHANGED treeVars
      /\ scan' = [scan EXCEPT !.rest = Rest(scan.pairs), !.pairs = Collected(@, Head(scan.rest))]
      /\ phase' = IF Len(scan.rest) = 1 \/ KVLess(scan.rest[1], scan.rest[2])
                    THEN "scan" ELSE "aborted"
  BY DEF Visit
<1>2. /\ scan \in [start : Keys, len : Nat \ {0}, level : Level, rest : Seq(KV), pairs : SUBSET KV]
      /\ IsFiniteSet(scan.pairs) /\ HeapInv
  BY <1>1 DEF ScanInv, ScanTypeOK
<1>3. PICK k \in Keys, n \in Nat \ {0}, l \in Level, r \in Seq(KV), pairs \in SUBSET KV :
          scan.start = k /\ scan.len = n /\ scan.level = l /\ scan.rest = r /\ scan.pairs = pairs
  BY <1>2
<1>4. PICK due : due = Due(k)
  OBVIOUS
<1>5. IsFiniteSet(due) /\ due \subseteq KV
  BY <1>1, <1>4, DueFinite
<1>6. /\ Cardinality(pairs) <= n
      /\ pairs = From(pairs, k)
      /\ Ordering(r)
      /\ \A i \in 1 .. Len(r) : r[i] \in DueIn(l, k)
      /\ Cardinality(due) <= n =>
           /\ pairs \subseteq due
           /\ \A p \in DueBy(l, k) : p \in pairs \/ \E i \in 1 .. Len(r) : r[i] = p
  BY <1>2, <1>3, <1>4 DEF HeapInv
<1>7. /\ r # <<>> /\ Head(r) = r[1] /\ Head(r) \in KV /\ Len(r) \in Nat \ {0}
      /\ Tail(r) \in Seq(KV) /\ Ordering(Tail(r))
      /\ Len(Tail(r)) = Len(r) - 1
      /\ \A i \in 1 .. Len(r) - 1 : Tail(r)[i] = r[i + 1]
      /\ Len(r) = 1 \/ KVLess(r[1], r[2])
  BY <1>1, <1>3, <1>6, TailIncreases
<1>8. PICK h \in KV : h = Head(r) /\ h = r[1] /\ h = Head(scan.rest)
  BY <1>3, <1>7
<1>9. h \in DueIn(l, k) /\ h \in due /\ k <= h.key
  <2>1. h \in DueIn(l, k)
    BY <1>6, <1>7, <1>8
  <2>2. DueIn(l, k) \subseteq due
    BY <1>4, DueGrows
  <2>3. k <= h.key
    BY <2>1 DEF DueIn, From
  <2> QED
    BY <2>1, <2>2, <2>3
<1>10. PICK heap : heap = Collected(pairs, h)
  OBVIOUS
<1>11. PICK rest : rest = Rest(pairs)
  OBVIOUS
<1>12. IsFiniteSet(pairs)
  BY <1>2, <1>3
<1>13. heap \subseteq pairs \cup {h} /\ IsFiniteSet(heap) /\ Cardinality(heap) <= n
  BY <1>3, <1>6, <1>10, <1>12, HeapHasRoom
<1>14. rest = <<>> \/ rest = Tail(r)
  BY <1>3, <1>11 DEF Rest
<1>15. Cardinality(due) <= n => heap = pairs \cup {h} /\ (rest = Tail(r) \/ pairs = due)
  BY <1>3, <1>5, <1>6, <1>8, <1>9, <1>10, <1>11, <1>12, HeapKeepsDue
<1>16. /\ rest \in Seq(KV) /\ Ordering(rest)
       /\ \A i \in 1 .. Len(rest) : rest[i] \in DueIn(l, k)
  <2>1. CASE rest = <<>>
    BY <2>1 DEF Ordering
  <2>2. CASE rest = Tail(r)
    <3>1. \A i \in 1 .. Len(r) - 1 : i + 1 \in 1 .. Len(r)
      BY <1>7
    <3> QED
      BY <1>6, <1>7, <2>2, <3>1
  <2> QED
    BY <1>14, <2>1, <2>2
<1>17. phase' = "scan"
  BY <1>1, <1>3, <1>7
<1>18. scan' = [scan EXCEPT !.rest = rest, !.pairs = heap]
  BY <1>1, <1>3, <1>8, <1>10, <1>11
<1>19. heap \in SUBSET KV
  BY <1>13
<1>20. /\ scan'.start = k /\ scan'.len = n /\ scan'.level = l /\ scan'.rest = rest
       /\ scan'.pairs = heap
       /\ scan' \in [start : Keys, len : Nat \ {0}, level : Level, rest : Seq(KV), pairs : SUBSET KV]
  BY <1>2, <1>3, <1>16, <1>18, <1>19
<1>21. ScanTypeOK'
  BY <1>13, <1>20 DEF ScanTypeOK
<1>22. heap = From(heap, k)
  <2>1. \A p \in pairs : k <= p.key
    BY <1>6 DEF From
  <2> QED
    BY <1>9, <1>13, <2>1 DEF From
<1>23. ASSUME Cardinality(due) <= n
       PROVE  /\ heap \subseteq due
              /\ \A p \in DueBy(l, k) : p \in heap \/ \E i \in 1 .. Len(rest) : rest[i] = p
  <2>1. heap = pairs \cup {h} /\ pairs \subseteq due
    BY <1>6, <1>15, <1>23
  <2>2. CASE pairs = due
    <3>1. DueBy(l, k) \subseteq due
      BY <1>4, DueGrows
    <3> QED
      BY <1>9, <2>1, <2>2, <3>1
  <2>3. CASE rest = Tail(r)
    <3>1. ASSUME NEW p \in DueBy(l, k), p \notin heap
          PROVE  \E i \in 1 .. Len(rest) : rest[i] = p
      <4>1. PICK i \in 1 .. Len(r) : r[i] = p
        BY <1>6, <1>23, <2>1, <3>1
      <4>2. i # 1
        BY <1>8, <2>1, <3>1, <4>1
      <4>3. i - 1 \in 1 .. Len(r) - 1 /\ (i - 1) + 1 = i
        BY <1>7, <4>2
      <4>4. rest[i - 1] = p
        BY <1>7, <2>3, <4>1, <4>3
      <4> QED
        BY <1>7, <2>3, <4>3, <4>4
    <3> QED
      BY <1>9, <2>1, <3>1
  <2> QED
    BY <1>15, <1>23, <2>2, <2>3
<1>24. HeapInv'
  <2>1. Due(scan.start)' = due /\ DueIn(scan.level, scan.start)' = DueIn(l, k)
        /\ DueBy(scan.level, scan.start)' = DueBy(l, k)
    BY <1>1, <1>4, <1>20, DueStays
  <2> QED
    BY <1>13, <1>16, <1>20, <1>22, <1>23, <2>1 DEF HeapInv
<1> QED
  BY <1>17, <1>21, <1>24 DEF ScanInv, NoAbort

\* The next level, or the end.
LEMMA ScanGoesOn ==
    ASSUME OneTableAtLevel0, CountsInv, TreesInv, LevelsInv, ScanInv, NextLevel
    PROVE  ScanInv'
<1>1. phase = "scan" /\ scan.rest = <<>> /\ UNCHANGED treeVars
  BY DEF NextLevel
<1>2. CASE scan' = NoScan /\ phase' = "idle"
  BY <1>2 DEF ScanInv, NoAbort
<1>3. CASE /\ scan.level < NLevels - 1
           /\ scan' = [scan EXCEPT !.level = @ + 1, !.rest = Sought(scan.level + 1, scan.start)]
           /\ UNCHANGED phase
  <2>1. /\ scan \in [start : Keys, len : Nat \ {0}, level : Level, rest : Seq(KV), pairs : SUBSET KV]
        /\ IsFiniteSet(scan.pairs) /\ HeapInv
    BY <1>1 DEF ScanInv, ScanTypeOK
  <2>2. PICK k \in Keys, n \in Nat \ {0}, l \in Level, pairs \in SUBSET KV :
            scan.start = k /\ scan.len = n /\ scan.level = l /\ scan.pairs = pairs
    BY <2>1
  <2>3. l + 1 \in Level
    BY <1>3, <2>2, ShapeAssumption DEF Level
  <2>4. PICK m \in Level : m = l + 1
    BY <2>3
  <2>5. PICK r \in Seq(KV) :
            /\ r = Sought(m, k)
            /\ Ordering(r)
            /\ \A i \in 1 .. Len(r) : r[i] \in DueIn(m, k)
            /\ \A p \in DueIn(m, k) : \E i \in 1 .. Len(r) : r[i] = p
    BY <1>1, SeeksDue
  <2>6. scan' = [scan EXCEPT !.level = m, !.rest = r]
    BY <1>3, <2>2, <2>4, <2>5
  <2>7. /\ scan'.start = k /\ scan'.len = n /\ scan'.level = m /\ scan'.rest = r
        /\ scan'.pairs = pairs
        /\ scan' \in [start : Keys, len : Nat \ {0}, level : Level, rest : Seq(KV), pairs : SUBSET KV]
    BY <2>1, <2>2, <2>6
  <2>8. IsFiniteSet(pairs)
    BY <2>1, <2>2
  <2>9. ScanTypeOK'
    BY <2>7, <2>8 DEF ScanTypeOK
  <2>10. /\ Cardinality(pairs) <= n
         /\ pairs = From(pairs, k)
         /\ Cardinality(Due(k)) <= n =>
              /\ pairs \subseteq Due(k)
              /\ \A p \in DueBy(l, k) : p \in pairs
    <3>1. ~ \E i \in 1 .. Len(scan.rest) : TRUE
      BY <1>1
    <3> QED
      BY <2>1, <2>2, <3>1 DEF HeapInv
  <2>11. DueBy(m, k) = DueBy(l, k) \cup DueIn(m, k)
    BY <2>4, DueGrows
  <2>12. HeapInv'
    <3>1. Due(scan.start)' = Due(k) /\ DueIn(scan.level, scan.start)' = DueIn(m, k)
          /\ DueBy(scan.level, scan.start)' = DueBy(m, k)
      BY <1>1, <2>7, DueStays
    <3> QED
      BY <2>5, <2>7, <2>10, <2>11, <3>1 DEF HeapInv
  <2> QED
    BY <1>1, <1>3, <2>9, <2>12 DEF ScanInv, NoAbort
<1> QED
  BY <1>2, <1>3 DEF NextLevel

\* What a step of a client is to a scan.
LEMMA ScansDo ==
    ASSUME CountsInv, [ClientsNext]_clientVars
    PROVE  \/ UNCHANGED scan /\ (Putting \/ PutStep \/ Closing \/ UNCHANGED vars)
           \/ \E k \in Keys, n \in 1 .. MaxLen : StartScan(k, n)
           \/ Visit \/ NextLevel
<1>1. CASE Call
  BY <1>1 DEF Call
<1>2. CASE Anything
  BY <1>2 DEF Anything, Putting, Put
<1>3. CASE Load
  BY <1>3 DEF Load, Putting, Put
<1>4. CASE Read \/ ManualRead
  BY <1>4 DEF Read, ManualRead, scanVars
<1>5. CASE ScanRequest
  BY <1>5, RequestedAreKeys DEF ScanRequest, Working
<1>6. CASE Write
  BY <1>6, RequestedAreKeys DEF Write, Working, Putting, Put
<1>7. CASE WorkDone \/ ManualDone
  BY <1>7 DEF WorkDone, ManualDone, Closing
<1>8. CASE Prepopulate \/ ManualWrite
  BY <1>8 DEF Prepopulate, ManualWrite, Putting, Put
<1>9. CASE NothingMore \/ UNCHANGED clientVars
  BY <1>9 DEF NothingMore, clientVars, scanVars
<1> QED
  BY <1>1, <1>2, <1>3, <1>4, <1>5, <1>6, <1>7, <1>8, <1>9 DEF ClientsNext, YCSB, Manual

LEMMA ScansStep ==
    ASSUME OneTableAtLevel0, CountsInv, TreesInv, LevelsInv, ScanInv, [ClientsNext]_clientVars
    PROVE  LevelsInv' /\ ScanInv'
<1>1. ASSUME [Next]_vars, phase \in Phase, UNCHANGED scan
      PROVE  LevelsInv' /\ ScanInv'
  <2>1. TypeInv /\ AllInv
    BY <1>1, TypesOfTree
  <2>2. LevelsInv'
    BY <1>1, <2>1, LevelsStep DEF OneTableAtLevel0
  <2>3. NoAbort'
    BY <1>1, <2>1, NoAbortStep DEF OneTableAtLevel0, ScanInv
  <2>4. phase # "scan" /\ phase' # "scan"
    <3>1. TypeInv'
      BY <1>1, <2>1, TypeStep
    <3> QED
      BY <1>1, <3>1 DEF TypeInv, TypeOK, Phase
  <2> QED
    BY <1>1, <2>2, <2>3, <2>4 DEF ScanInv
<1>2. ASSUME UNCHANGED <<ssts, picker>>, phase \in {"idle", "scan"}, phase' \in {"idle", "scan"}
      PROVE  LevelsInv'
  <2>1. \A l \in Level \ {NLevels - 1} : WithinLimit(l)
    BY <1>2 DEF LevelsInv, Merging
  <2> QED
    BY <1>2, <2>1, LevelsFrame
<1>3. CASE UNCHANGED scan /\ Putting
  BY <1>1, <1>3 DEF Putting, Next, Phase
<1>4. CASE UNCHANGED scan /\ PutStep
  BY <1>1, <1>4, PutPhases DEF Next
<1>5. CASE UNCHANGED scan /\ Closing
  BY <1>2, <1>5 DEF Closing, treeVars, ScanInv, NoAbort
<1>6. CASE UNCHANGED scan /\ UNCHANGED vars
  <2>1. CASE phase \in Phase
    BY <1>1, <1>6, <2>1
  <2>2. CASE phase = "scan"
    <3>1. LevelsInv'
      BY <1>2, <1>6, <2>2 DEF vars, treeVars
    <3>2. ScanTypeOK' /\ HeapInv'
      <4>1. ScanTypeOK /\ HeapInv /\ UNCHANGED <<memTable, ssts>>
        BY <1>6, <2>2 DEF ScanInv, vars, treeVars
      <4> QED
        BY <1>6, <4>1 DEF ScanTypeOK, HeapInv, Due, DueBy, DueIn, Entered
    <3> QED
      BY <1>6, <2>2, <3>1, <3>2 DEF ScanInv, NoAbort, vars
  <2> QED
    BY <2>1, <2>2 DEF TreesInv, TreeTypeOK
<1>7. ASSUME NEW k \in Keys, NEW n \in 1 .. MaxLen, StartScan(k, n)
      PROVE  LevelsInv' /\ ScanInv'
  BY <1>2, <1>7, ScanStarts DEF StartScan, treeVars
<1>8. CASE Visit
  <2>1. ScanInv'
    BY <1>8, ScanVisits
  <2>2. phase' \in {"idle", "scan"}
    BY <1>8, <2>1 DEF Visit, ScanInv, NoAbort
  <2> QED
    BY <1>2, <1>8, <2>1, <2>2 DEF Visit, treeVars
<1>9. CASE NextLevel
  <2>1. ScanInv'
    BY <1>9, ScanGoesOn
  <2>2. phase' \in {"idle", "scan"}
    BY <1>9 DEF NextLevel
  <2> QED
    BY <1>2, <1>9, <2>1, <2>2 DEF NextLevel, treeVars
<1> QED
  BY <1>3, <1>4, <1>5, <1>6, <1>7, <1>8, <1>9, ScansDo

LEMMA ScansInvariant ==
    ASSUME OneTableAtLevel0
    PROVE  ClientsSpec => [](LevelsInv /\ ScanInv)
<1>1. ASSUME ClientsInit
      PROVE  LevelsInv /\ ScanInv
  <2>1. phase = "idle" /\ scan = NoScan /\ \A l \in Level : ssts[l] = {}
    BY <1>1 DEF ClientsInit, ScanInit, Init, InitMemory
  <2>2. Cardinality({}) = 0 /\ \A l \in Level : MaxSize(l) \in Nat
    BY FS_EmptySet, MaxSizes DEF OneTableAtLevel0
  <2> QED
    BY <2>1, <2>2 DEF LevelsInv, WithinLimit, Merging, ScanInv, NoAbort
<1>2. CountsInv /\ TreesInv /\ LevelsInv /\ ScanInv /\ [ClientsNext]_clientVars => LevelsInv' /\ ScanInv'
  BY ScansStep
<1> QED
  BY <1>1, <1>2, TreesInvariant, PTL DEF ClientsSpec

\* As long as level 0 has one table at most once a Put has returned, the iterators of a
\* scan yield every level in increasing order, and no assert fails.
THEOREM ScansIncrease ==
    ASSUME OneTableAtLevel0
    PROVE  ClientsSpec => []ScanIncreasing
<1>1. ScanInv => ScanIncreasing
  BY DEF ScanInv, NoAbort, ScanIncreasing
<1> QED
  BY <1>1, ScansInvariant, PTL

\* And a scan long enough for all there is collects every version from the start key on
\* that is in the memtable or in a level with a table whose range the start key is in.
THEOREM ScansCollectWhatIsDue ==
    ASSUME OneTableAtLevel0
    PROVE  ClientsSpec => []ScanComplete
<1>1. ASSUME ScanInv
      PROVE  ScanComplete
  <2> DEFINE ended     == scan # NoScan /\ scan.rest = <<>> /\ scan.level = NLevels - 1
             entered   == {l \in Level : \E s \in ssts[l] : InRange(s, scan.start)}
             from(kvs) == {p \in kvs : scan.start <= p.key}
             due       == from(memTable) \cup
                            UNION {from(s.kvs) : s \in UNION {ssts[l] : l \in entered}}
  <2>1. scan # NoScan => phase = "scan" /\ HeapInv
    BY <1>1 DEF ScanInv
  <2>2. scan # NoScan => Cardinality(scan.pairs) <= scan.len /\ scan.pairs = from(scan.pairs)
    BY <2>1 DEF HeapInv, From
  <2>3. due = Due(scan.start)
    <3>1. \A p : p \in due <=> p \in Due(scan.start)
      BY DEF Due, DueBy, DueIn, From, Entered, Level
    <3> QED
      BY <3>1
  <2> HIDE DEF due
  <2>4. ASSUME phase = "scan", ended, Cardinality(due) <= scan.len
        PROVE  scan.pairs = due
    <3>1. scan.pairs \subseteq due
      BY <2>1, <2>3, <2>4 DEF HeapInv
    <3>2. DueBy(scan.level, scan.start) = Due(scan.start)
      BY <2>4 DEF Due
    <3>3. ~ \E i \in 1 .. Len(scan.rest) : TRUE
      BY <2>4
    <3>4. due \subseteq scan.pairs
      BY <2>1, <2>3, <2>4, <3>2, <3>3 DEF HeapInv
    <3> QED
      BY <3>1, <3>4
  <2> QED
    BY <2>2, <2>4 DEF ScanComplete, due
<1> QED
  BY <1>1, ScansInvariant, PTL

-----------------------------------------------------------------------------
(* A scan comes to an end                                                  *)

\* A step of a scan ends it, or takes a version off the level it reads, or goes on to
\* the next level.
ScanDescends ==
    \/ scan' = NoScan /\ phase' = "idle"
    \/ /\ phase' = "scan" /\ scan'.start = scan.start
       /\ \/ scan'.level = scan.level + 1
          \/ scan'.level = scan.level /\ Len(scan'.rest) < Len(scan.rest)

LEMMA ScanStepDescends ==
    ASSUME ScanInv, ScanInv', phase = "scan", Visit \/ NextLevel
    PROVE  ScanDescends
<1>1. /\ scan \in [start : Keys, len : Nat \ {0}, level : Level, rest : Seq(KV), pairs : SUBSET KV]
      /\ scan.rest \in Seq(KV)
  BY DEF ScanInv, ScanTypeOK
<1>2. ASSUME Visit
      PROVE  ScanDescends
  <2>1. /\ scan.rest # <<>>
        /\ scan' = [scan EXCEPT !.rest = Rest(scan.pairs), !.pairs = Collected(@, Head(scan.rest))]
        /\ phase' \in {"scan", "aborted"}
    BY <1>2 DEF Visit
  <2>2. phase' = "scan"
    BY <2>1 DEF ScanInv, NoAbort
  <2>3. scan'.start = scan.start /\ scan'.level = scan.level /\ scan'.rest = Rest(scan.pairs)
    BY <1>1, <2>1
  <2>4. Rest(scan.pairs) = <<>> \/ Rest(scan.pairs) = Tail(scan.rest)
    BY DEF Rest
  <2>5. PICK r \in Seq(KV) : r = scan.rest /\ r # <<>>
    BY <1>1, <2>1
  <2>6. Len(scan'.rest) < Len(scan.rest)
    <3>1. Len(r) \in Nat \ {0} /\ Len(Tail(r)) = Len(r) - 1
      BY <2>5
    <3>2. Len(<<>>) = 0 /\ 0 < Len(r) /\ Len(r) - 1 < Len(r)
      BY <3>1
    <3>3. scan'.rest = <<>> \/ scan'.rest = Tail(r)
      BY <2>3, <2>4, <2>5
    <3>4. CASE scan'.rest = <<>>
      BY <2>5, <3>2, <3>4
    <3>5. CASE scan'.rest = Tail(r)
      BY <2>5, <3>1, <3>2, <3>5
    <3> QED
      BY <3>3, <3>4, <3>5
  <2> QED
    BY <2>2, <2>3, <2>6 DEF ScanDescends
<1>3. ASSUME NextLevel
      PROVE  ScanDescends
  <2>1. \/ /\ scan' = [scan EXCEPT !.level = @ + 1, !.rest = Sought(scan.level + 1, scan.start)]
           /\ UNCHANGED phase
        \/ scan' = NoScan /\ phase' = "idle"
    BY <1>3 DEF NextLevel
  <2>2. ASSUME scan' = [scan EXCEPT !.level = @ + 1, !.rest = Sought(scan.level + 1, scan.start)]
        PROVE  scan'.start = scan.start /\ scan'.level = scan.level + 1
    BY <1>1, <2>2
  <2> QED
    BY <2>1, <2>2 DEF ScanDescends
<1> QED
  BY <1>2, <1>3

\* As long as level 0 has one table at most once a Put has returned: once a scan has
\* begun nothing else happens to the store until it has ended, and there is a level and
\* a number of versions left to it that fall with its every step. As a scan is never
\* stuck and its steps are fair, it ends.
THEOREM ScansDescend ==
    ASSUME OneTableAtLevel0
    PROVE  ClientsSpec => [][phase = "scan" => /\ scan.level \in Level
                                               /\ scan.rest \in Seq(KV)
                                               /\ ScanDescends]_scanVars
<1>1. ASSUME CountsInv, ScanInv, ScanInv', [ClientsNext]_clientVars, phase = "scan"
      PROVE  scan.level \in Level /\ scan.rest \in Seq(KV) /\ (ScanDescends \/ UNCHANGED scanVars)
  <2>1. scan.level \in Level /\ scan.rest \in Seq(KV)
    BY <1>1 DEF ScanInv, ScanTypeOK
  <2>2. ~ Putting /\ ~ Closing /\ ~ \E k \in Keys, n \in 1 .. MaxLen : StartScan(k, n)
    BY <1>1 DEF Putting, Closing, StartScan
  <2>3. ~ PutStep
    BY <1>1, PutPhases DEF Phase
  <2>4. Visit \/ NextLevel \/ UNCHANGED scanVars
    BY <1>1, <2>2, <2>3, ScansDo DEF scanVars
  <2>5. Visit \/ NextLevel => ScanDescends
    BY <1>1, ScanStepDescends
  <2> QED
    BY <2>1, <2>4, <2>5
<1>2. CountsInv /\ ScanInv /\ ScanInv' /\ [ClientsNext]_clientVars
        => [phase = "scan" => /\ scan.level \in Level
                              /\ scan.rest \in Seq(KV)
                              /\ ScanDescends]_scanVars
  BY <1>1
<1> QED
  BY <1>2, ScansInvariant, TreesInvariant, PTL DEF ClientsSpec

=============================================================================

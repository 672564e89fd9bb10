---------------------------- MODULE StorageFSProofs ----------------------------
(***************************************************************************)
(* Proofs about StorageFS, for any number of sessions, crashes, files and  *)
(* descriptors: CURRENT always names a manifest that was completely        *)
(* written, no manifest is overwritten, and what leaks is bounded.         *)
(***************************************************************************)
EXTENDS StorageFS, TLAPS

\* Without a process no compaction is under way.
DownInv == pc = "down" => victims = {}

\* The calls that write a manifest.
WritingInv == pc \in {"write", "point"} => job \in {"persist", "close"}

\* The manifest being written is a file of its own, that nothing names yet, and it is
\* complete before CURRENT is written.
NewManifestInv ==
    pc \in {"write", "point"} =>
        /\ NewManifest \in DOMAIN manifests
        /\ NewManifest # current
        /\ manifests[NewManifest] = IF pc = "write" THEN None ELSE inMemory

\* CURRENT is empty or names a file with what the last Persist has written.
CurrentInv ==
    IF current = None THEN persisted = {}
    ELSE current \in DOMAIN manifests /\ manifests[current] = persisted

\* A descriptor leaks with an id or a name that was tried. One more is to come when
\* CURRENT is written.
LeaksInv == leaked + (IF pc \in {"write", "point"} THEN 1 ELSE 0) <= sstCtr + manifestCtr

StorageInv == TypeOK /\ DownInv /\ WritingInv /\ NewManifestInv /\ CurrentInv /\ LeaksInv

\* No process leaks more descriptors than it has gone through ids and names.
LeaksBounded == leaked <= sstCtr + manifestCtr

LEMMA InitInv == Init => StorageInv
BY DEF Init, StorageInv, TypeOK, DownInv, WritingInv, NewManifestInv, CurrentInv, LeaksInv

\* NewEmptySST and the removal of tables leave the manifests alone.
LEMMA TablesStep ==
    ASSUME StorageInv, SSTExists \/ CreateSST \/ RemoveSST
    PROVE  StorageInv'
<1> USE DEF StorageInv, TypeOK
<1>1. /\ pc \notin {"write", "point"} /\ pc' \notin {"write", "point"}
      /\ UNCHANGED <<manifests, current, persisted, manifestCtr>>
  BY DEF SSTExists, CreateSST, RemoveSST, storage
<1>2. DownInv' /\ WritingInv' /\ NewManifestInv' /\ CurrentInv'
  <2>1. pc' # "down"
    BY DEF SSTExists, CreateSST, RemoveSST
  <2> QED
    BY <1>1, <2>1 DEF DownInv, WritingInv, NewManifestInv, CurrentInv
<1>3. CASE SSTExists
  BY <1>1, <1>2, <1>3 DEF SSTExists, Advanced, storage, LeaksInv
<1>4. CASE CreateSST
  <2>1. TypeOK'
    BY <1>1, <1>4 DEF CreateSST, Advanced
  <2>2. LeaksInv'
    BY <1>1, <1>4 DEF CreateSST, Advanced, LeaksInv
  <2> QED
    BY <1>2, <2>1, <2>2
<1>5. CASE RemoveSST
  <2>1. TypeOK'
    BY <1>1, <1>5 DEF RemoveSST
  <2>2. LeaksInv'
    BY <1>1, <1>5 DEF RemoveSST, LeaksInv
  <2> QED
    BY <1>2, <2>1, <2>2
<1> QED
  BY <1>3, <1>4, <1>5

\* createNewManifest takes a name that is free, which CURRENT's is not.
LEMMA CreateManifestStep ==
    ASSUME StorageInv, ManifestExists \/ CreateManifest
    PROVE  StorageInv'
<1> USE DEF StorageInv, TypeOK
<1>1. CASE ManifestExists
  BY <1>1 DEF ManifestExists, Advanced, storage, DownInv, WritingInv, NewManifestInv, CurrentInv, LeaksInv
<1>2. CASE CreateManifest
  <2>1. /\ pc = "manifest" /\ manifestCtr \notin DOMAIN manifests
        /\ manifestCtr' = manifestCtr + 1
        /\ UNCHANGED <<sstFiles, current, live, inMemory, sstCtr, victims, outputs, persisted>>
        /\ manifests' = [id \in DOMAIN manifests \cup {manifestCtr} |->
                           IF id = manifestCtr THEN None ELSE manifests[id]]
        /\ \/ pc' = "write" /\ job \in {"persist", "close"} /\ UNCHANGED <<leaked, job>>
           \/ pc' \in {"manifest", "idle"} /\ job' \in {"print", "none"} /\ leaked' = leaked + 1
    BY <1>2 DEF CreateManifest, TakenNames, Advanced
  <2>2. manifestCtr # current
    BY <2>1, StorageAssumption
  <2>3. /\ DOMAIN manifests' = DOMAIN manifests \cup {manifestCtr}
        /\ manifests'[manifestCtr] = None
        /\ \A id \in DOMAIN manifests : manifests'[id] = manifests[id]
        /\ NewManifest' = manifestCtr
    BY <2>1 DEF NewManifest
  <2>4. TypeOK'
    BY <2>1, <2>3
  <2>5. DownInv' /\ WritingInv' /\ NewManifestInv'
    BY <2>1, <2>2, <2>3 DEF DownInv, WritingInv, NewManifestInv
  <2>6. CurrentInv'
    BY <2>1, <2>3 DEF CurrentInv
  <2>7. LeaksInv'
    BY <2>1 DEF LeaksInv
  <2> QED
    BY <2>4, <2>5, <2>6, <2>7
<1> QED
  BY <1>1, <1>2

\* ManifestFS::Persist: first the manifest, then CURRENT.
LEMMA PersistStep ==
    ASSUME StorageInv, WriteManifest \/ PointCurrent
    PROVE  StorageInv'
<1> USE DEF StorageInv, TypeOK
<1>1. CASE WriteManifest
  <2>1. /\ pc = "write" /\ pc' = "point"
        /\ NewManifest \in DOMAIN manifests /\ NewManifest # current
        /\ manifests' = [manifests EXCEPT ![NewManifest] = inMemory]
        /\ UNCHANGED <<sstFiles, current, process, job, persisted>>
    BY <1>1 DEF WriteManifest, NewManifestInv
  <2>2. /\ DOMAIN manifests' = DOMAIN manifests
        /\ manifests'[NewManifest] = inMemory
        /\ \A id \in DOMAIN manifests \ {NewManifest} : manifests'[id] = manifests[id]
        /\ NewManifest' = NewManifest
    BY <2>1 DEF NewManifest, process
  <2>3. TypeOK'
    BY <2>1, <2>2 DEF process
  <2>4. DownInv' /\ WritingInv' /\ NewManifestInv' /\ CurrentInv' /\ LeaksInv'
    BY <2>1, <2>2 DEF process, DownInv, WritingInv, NewManifestInv, CurrentInv, LeaksInv
  <2> QED
    BY <2>3, <2>4
<1>2. CASE PointCurrent
  <2>1. /\ pc = "point" /\ current' = NewManifest /\ persisted' = inMemory
        /\ NewManifest \in DOMAIN manifests /\ manifests[NewManifest] = inMemory
        /\ UNCHANGED <<sstFiles, manifests>> /\ job' = "none"
        /\ pc' \in {"idle", "down"}
    BY <1>2 DEF PointCurrent, NewManifestInv
  <2>2. TypeOK'
    BY <1>2, <2>1 DEF PointCurrent, MemoryLost
  <2>3. DownInv' /\ WritingInv' /\ NewManifestInv'
    BY <1>2, <2>1 DEF PointCurrent, MemoryLost, DownInv, WritingInv, NewManifestInv
  <2>4. CurrentInv'
    BY <2>1, StorageAssumption DEF CurrentInv
  <2>5. LeaksInv'
    BY <1>2, <2>1 DEF PointCurrent, MemoryLost, LeaksInv
  <2> QED
    BY <2>2, <2>3, <2>4, <2>5
<1> QED
  BY <1>1, <1>2

\* A call begins, a process comes or goes.
LEMMA SessionStep ==
    ASSUME StorageInv, Flush \/ Close \/ Crash \/ Open
    PROVE  StorageInv'
<1> USE DEF StorageInv, TypeOK
<1>1. pc' \notin {"write", "point"} /\ UNCHANGED <<storage, persisted>>
  BY DEF Flush, Close, Crash, Open
<1>2. DownInv' /\ WritingInv' /\ NewManifestInv' /\ CurrentInv'
  <2>1. DownInv'
    BY DEF Flush, Close, Crash, MemoryLost, Open, DownInv
  <2> QED
    BY <1>1, <2>1 DEF WritingInv, NewManifestInv, CurrentInv, storage
<1>3. CASE Flush \/ Close
  BY <1>1, <1>2, <1>3 DEF Flush, Close, storage, process, LeaksInv
<1>4. CASE Crash
  BY <1>1, <1>2, <1>4 DEF Crash, MemoryLost, storage, LeaksInv
<1>5. CASE Open
  <2>1. current # None => manifests[current] \subseteq Nat
    BY DEF CurrentInv
  <2>2. inMemory' \subseteq Nat /\ live' \subseteq sstFiles /\ victims' \subseteq live'
    <3>1. victims' = {}
      BY <1>5 DEF Open, DownInv
    <3>2. CASE current = None
      BY <1>5, <3>1, <3>2 DEF Open
    <3>3. CASE current # None
      BY <1>5, <2>1, <3>1, <3>3 DEF Open, CanOpen
    <3> QED
      BY <3>2, <3>3
  <2>3. pc' \in {"manifest", "idle", "failed"} /\ job' \in {"open", job}
    BY <1>5 DEF Open
  <2>4. TypeOK'
    BY <1>1, <1>5, <2>2, <2>3 DEF Open, storage
  <2>5. LeaksInv'
    BY <1>5 DEF Open, LeaksInv
  <2> QED
    BY <1>2, <2>4, <2>5
<1> QED
  BY <1>3, <1>4, <1>5

LEMMA InvStep ==
    ASSUME StorageInv, [Next]_vars
    PROVE  StorageInv'
<1>1. CASE SSTExists \/ CreateSST \/ RemoveSST
  BY <1>1, TablesStep
<1>2. CASE ManifestExists \/ CreateManifest
  BY <1>2, CreateManifestStep
<1>3. CASE WriteManifest \/ PointCurrent
  BY <1>3, PersistStep
<1>4. CASE Flush \/ Close \/ Crash \/ Open
  BY <1>4, SessionStep
<1>5. CASE UNCHANGED vars
  BY <1>5 DEF vars, storage, process, StorageInv, TypeOK, DownInv, WritingInv, NewManifestInv, NewManifest,
              CurrentInv, LeaksInv
<1> QED
  BY <1>1, <1>2, <1>3, <1>4, <1>5 DEF Next, CallStep, Spin, Rest

\* Wherever a process dies, the manifest ManifestFS::Persist is writing is a file of its own,
\* and complete before CURRENT is written.
THEOREM StorageInvariant == Spec => []StorageInv
<1>1. StorageInv /\ [Next]_vars => StorageInv'
  BY InvStep
<1> QED
  BY <1>1, InitInv, PTL DEF Spec

\* Whenever the process dies, CURRENT is empty or names a manifest that was written
\* completely, the one of the last Persist that returned.
THEOREM CurrentReadsBack == Spec => []ReadBack
<1>1. StorageInv => ReadBack
  BY DEF StorageInv, CurrentInv, ReadBack
<1> QED
  BY <1>1, StorageInvariant, PTL

\* No manifest is written to twice, in any session: each finds a free name.
THEOREM ManifestsStay == Spec => ManifestsImmutable
<1>1. ASSUME StorageInv, [Next]_vars, NEW id \in DOMAIN manifests, manifests[id] # None
      PROVE  id \in DOMAIN manifests' /\ manifests'[id] = manifests[id]
  <2>1. CASE UNCHANGED manifests
    BY <1>1, <2>1
  <2>2. CASE CreateManifest
    BY <1>1, <2>2 DEF CreateManifest, TakenNames
  <2>3. CASE WriteManifest
    BY <1>1, <2>3 DEF WriteManifest, StorageInv, NewManifestInv
  <2> QED
    BY <1>1, <2>1, <2>2, <2>3 DEF Next, CallStep, SSTExists, CreateSST, RemoveSST, ManifestExists,
       PointCurrent, Flush, Close, Crash, Open, Spin, Rest, vars, storage
<1>2. StorageInv /\ [Next]_vars =>
        [\A id \in DOMAIN manifests :
           manifests[id] # None => id \in DOMAIN manifests' /\ manifests'[id] = manifests[id]]_vars
  BY <1>1
<1> QED
  BY <1>2, StorageInvariant, PTL DEF Spec, ManifestsImmutable

\* A process leaks one descriptor at most for every id and name it has gone through.
THEOREM LeaksAreBounded == Spec => []LeaksBounded
<1>1. StorageInv => LeaksBounded
  BY DEF StorageInv, TypeOK, LeaksInv, LeaksBounded
<1> QED
  BY <1>1, StorageInvariant, PTL
=============================================================================

------------------------------- MODULE StorageFS -------------------------------
(***************************************************************************)
(* What the file-system engine does to its directory, call by call: the    *)
(* files of the tables, the manifest files, CURRENT, and the descriptors   *)
(* the process holds on them. The tree is reduced to the set of its live   *)
(* tables, in one level: a flush adds one, and when there are too many a   *)
(* compaction replaces them all and persists the manifest. A process may   *)
(* die between any two calls and a new one open the store.                 *)
(*                                                                         *)
(* A write of one block is taken to happen entirely or not at all.         *)
(***************************************************************************)
EXTENDS Integers, FiniteSets

CONSTANTS
    LiveMax,         \* tables that may be live before a compaction
    MaxFds,          \* descriptors a process may have open (RLIMIT_NOFILE)
    MaxSSTs,         \* bounds: no flush, Close or Open starts with that many
    MaxManifests,    \* files of tables or of manifests on storage
    None

ASSUME StorageAssumption ==
    /\ LiveMax \in Nat \ {0} /\ MaxFds \in Nat
    /\ MaxSSTs \in Nat /\ MaxManifests \in Nat
    /\ None \notin Nat

VARIABLES
    sstFiles,        \* storage: the ids of the table files
    manifests,       \* storage: what each manifest file holds; None: nothing yet
    current,         \* storage: the manifest CURRENT names; None: it is empty
    live,            \* the tables of the tree; each holds a descriptor
    inMemory,        \* Manifest::sst_files_
    sstCtr,          \* SSTManager::ctr_
    manifestCtr,     \* Manifest::ctr_
    leaked,          \* descriptors that are open and in no variable any more
    victims,         \* the tables a compaction has still to remove
    outputs,         \* how many tables it has written
    pc,              \* the call the process is in
    job,             \* what the call is for
    persisted        \* history: what the last Persist that returned had written

storage == <<sstFiles, manifests, current>>
process == <<live, inMemory, sstCtr, manifestCtr, leaked, victims, outputs>>
vars == <<storage, process, pc, job, persisted>>

Fds == Cardinality(live) + leaked + (IF pc = "write" THEN 1 ELSE 0)

TypeOK ==
    /\ sstFiles \subseteq Nat
    /\ DOMAIN manifests \subseteq Nat
    /\ manifests \in [DOMAIN manifests -> (SUBSET Nat) \cup {None}]
    /\ current \in DOMAIN manifests \cup {None}
    /\ live \subseteq sstFiles
    /\ victims \subseteq live
    /\ inMemory \subseteq Nat /\ persisted \subseteq Nat
    /\ sstCtr \in Nat /\ manifestCtr \in Nat
    /\ leaked \in Nat /\ outputs \in Nat
    /\ pc \in {"down", "idle", "sst", "remove", "manifest", "write", "point", "failed"}
    /\ job \in {"none", "flush", "merge", "persist", "open", "print", "close"}

Init ==
    /\ sstFiles = {} /\ manifests = <<>> /\ current = None
    /\ live = {} /\ inMemory = {} /\ sstCtr = 0 /\ manifestCtr = 0
    /\ leaked = 0 /\ victims = {} /\ outputs = 0
    /\ pc = "down" /\ job = "none"
    /\ persisted = {}

-----------------------------------------------------------------------------
(* Create opens the path to see whether the file exists and forgets the    *)
(* descriptor when it does. Without a free descriptor it fails too, and    *)
(* its callers take that for an existing file and try the next id, forever.*)
OutOfFds == Fds >= MaxFds

\* The counters' fetch_add. The mutants defined here and below are plausible
\* slips in the operator that follows.
NotAdvanced(counter) == counter
Advanced(counter) == counter + 1

\* One round of NewEmptySST's loop, which finds the next id taken.
SSTExists ==
    /\ pc = "sst" /\ ~ OutOfFds /\ sstCtr \in sstFiles
    /\ sstCtr' = Advanced(sstCtr)
    /\ leaked' = leaked + 1
    /\ UNCHANGED <<storage, live, inMemory, manifestCtr, victims, outputs, pc, job, persisted>>

\* The round that creates the file. A flush adds the table to the manifest and
\* may set off a compaction; a compaction goes on writing or starts removing.
CreateSST ==
    /\ pc = "sst" /\ ~ OutOfFds /\ sstCtr \notin sstFiles
    /\ sstFiles' = sstFiles \cup {sstCtr}
    /\ live' = live \cup {sstCtr}
    /\ sstCtr' = Advanced(sstCtr)
    /\ \/ /\ job = "flush"
          /\ inMemory' = inMemory \cup {sstCtr}
          /\ IF Cardinality(live') <= LiveMax
               THEN pc' = "idle" /\ job' = "none" /\ UNCHANGED victims
               ELSE pc' = "sst" /\ job' = "merge" /\ victims' = live'
          /\ UNCHANGED outputs
       \/ /\ job = "merge"
          /\ \/ pc' = "sst" /\ outputs + 1 < Cardinality(victims)
                /\ outputs' = outputs + 1
             \/ pc' = "remove" /\ outputs' = 0
          /\ UNCHANGED <<inMemory, victims, job>>
    /\ UNCHANGED <<manifests, current, manifestCtr, leaked, persisted>>

\* SSTFS::Remove of one table, or Manifest::Update if there is none left.
RemoveSST ==
    /\ pc = "remove"
    /\ \/ \E id \in victims :
            /\ live' = live \ {id}
            /\ sstFiles' = sstFiles \ {id}
            /\ victims' = victims \ {id}
            /\ UNCHANGED <<inMemory, pc, job>>
       \/ /\ victims = {}
          /\ inMemory' = live
          /\ pc' = "manifest" /\ job' = "persist"
          /\ UNCHANGED <<live, sstFiles, victims>>
    /\ UNCHANGED <<manifests, current, sstCtr, manifestCtr, leaked, outputs, persisted>>

-----------------------------------------------------------------------------
(* The manifest *)

NoNameTaken == {}
CurrentNameTaken == {current}
TakenNames == DOMAIN manifests

\* One round of createNewManifest's loop, which finds the next name taken.
ManifestExists ==
    /\ pc = "manifest" /\ ~ OutOfFds /\ manifestCtr \in TakenNames
    /\ manifestCtr' = Advanced(manifestCtr)
    /\ leaked' = leaked + 1
    /\ UNCHANGED <<storage, live, inMemory, sstCtr, victims, outputs, pc, job, persisted>>

\* The round that creates the file. getCurrentManifestPath, in Open and then in
\* ToString, does so when CURRENT is empty, and forgets the descriptor.
CreateManifest ==
    /\ pc = "manifest" /\ ~ OutOfFds /\ manifestCtr \notin TakenNames
    /\ manifests' = [id \in DOMAIN manifests \cup {manifestCtr} |->
                       IF id = manifestCtr THEN None ELSE manifests[id]]
    /\ manifestCtr' = Advanced(manifestCtr)
    /\ \/ job \in {"persist", "close"} /\ pc' = "write" /\ UNCHANGED <<leaked, job>>
       \/ job = "open"  /\ pc' = "manifest" /\ job' = "print" /\ leaked' = leaked + 1
       \/ job = "print" /\ pc' = "idle" /\ job' = "none" /\ leaked' = leaked + 1
    /\ UNCHANGED <<sstFiles, current, live, inMemory, sstCtr, victims, outputs, persisted>>

\* The manifest createNewManifest has returned.
NewManifest == manifestCtr - 1

\* ManifestFS::Persist writes the manifest and closes it.
WriteManifest ==
    /\ pc = "write"
    /\ manifests' = [manifests EXCEPT ![NewManifest] = inMemory]
    /\ pc' = "point"
    /\ UNCHANGED <<sstFiles, current, process, job, persisted>>

\* What ends with a process.
MemoryLost ==
    /\ live' = {} /\ inMemory' = {} /\ victims' = {}
    /\ sstCtr' = 0 /\ manifestCtr' = 0
    /\ leaked' = 0 /\ outputs' = 0

\* ManifestFS::Persist writes the name to CURRENT, which it does not close. The
\* descriptor of the manifest just closed is free for it. Close ends with this.
PointCurrent ==
    /\ pc = "point"
    /\ current' = NewManifest
    /\ persisted' = inMemory
    /\ job' = "none"
    /\ \/ /\ job = "persist"
          /\ pc' = "idle"
          /\ leaked' = leaked + 1
          /\ UNCHANGED <<live, inMemory, victims, sstCtr, manifestCtr, outputs>>
       \/ job = "close" /\ pc' = "down" /\ MemoryLost
    /\ UNCHANGED <<sstFiles, manifests>>

\* The steps of a call that is under way.
CallStep == \/ SSTExists \/ CreateSST \/ RemoveSST
            \/ ManifestExists \/ CreateManifest \/ WriteManifest \/ PointCurrent

-----------------------------------------------------------------------------
(* Calls, and the process coming and going *)

RoomForMore ==
    Cardinality(sstFiles) < MaxSSTs /\ Cardinality(DOMAIN manifests) < MaxManifests

Flush ==
    /\ pc = "idle" /\ RoomForMore
    /\ pc' = "sst" /\ job' = "flush"
    /\ UNCHANGED <<storage, process, persisted>>

Close ==
    /\ pc = "idle" /\ RoomForMore
    /\ pc' = "manifest" /\ job' = "close"
    /\ UNCHANGED <<storage, process, persisted>>

Crash ==
    /\ pc \notin {"down", "failed"}
    /\ pc' = "down" /\ job' = "none"
    /\ MemoryLost
    /\ UNCHANGED <<storage, persisted>>

\* Open fails for a file that is not there.
CanOpen(ids) == ids \subseteq sstFiles

\* DBImpl::Open. With an empty CURRENT it first creates a manifest; else it opens
\* the tables the manifest names.
Open ==
    /\ pc = "down" /\ RoomForMore
    /\ \/ /\ current = None
          /\ pc' = "manifest" /\ job' = "open"
          /\ UNCHANGED <<live, inMemory>>
       \/ /\ current # None
          /\ inMemory' = manifests[current]
          /\ IF CanOpen(inMemory')
               THEN live' = inMemory' /\ pc' = "idle"
               ELSE pc' = "failed" /\ UNCHANGED live
          /\ UNCHANGED job
    /\ UNCHANGED <<storage, sstCtr, manifestCtr, leaked, victims, outputs, persisted>>

\* A loop that goes on for want of a descriptor, and the end of the behaviours
\* the bounds allow.
Spin == pc \in {"sst", "manifest"} /\ OutOfFds /\ UNCHANGED vars
Rest == (pc = "failed" \/ (pc \in {"idle", "down"} /\ ~ RoomForMore)) /\ UNCHANGED vars

Next == CallStep \/ Flush \/ Close \/ Crash \/ Open \/ Spin \/ Rest

\* A call that is under way keeps running.
Spec == Init /\ [][Next]_vars /\ WF_vars(CallStep)

-----------------------------------------------------------------------------
(* Properties *)

\* Whenever the process dies, CURRENT is empty or names a manifest that was
\* written completely, and it is the one of the last Persist that returned.
ReadBack == IF current = None THEN persisted = {} ELSE manifests[current] = persisted

\* A manifest keeps its content once it was written, whatever sessions follow:
\* each starts its manifest counter at 0 again.
ManifestsImmutable ==
    [][\A id \in DOMAIN manifests :
         manifests[id] # None => id \in DOMAIN manifests' /\ manifests'[id] = manifests[id]]_vars

\* A call that is under way ends, with its process if not before: the search for
\* a free id or name comes to one, whatever files earlier sessions have left
\* behind. Only if descriptors run out it does not, and then no more of them have
\* leaked than the process has gone through ids and names.
Quiet == pc \in {"idle", "down", "failed"}
CallsReturn == ~ Quiet ~> (Quiet \/ (OutOfFds /\ leaked <= sstCtr + manifestCtr))
=============================================================================

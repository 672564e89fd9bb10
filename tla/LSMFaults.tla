------------------------------ MODULE LSMFaults ------------------------------
(***************************************************************************)
(* The LSM tree on a storage whose operations may fail. A failed write,    *)
(* unlink or Persist makes every function up to DBImpl::Put return -1 and  *)
(* undoes nothing; a failed read in a merge is met by an assert. The       *)
(* caller may go on after a failed Put, with whatever the tree has become. *)
(* Creating a file does not fail: NewEmptySST and createNewManifest try    *)
(* the next name whatever the reason (module StorageFS).                   *)
(***************************************************************************)
EXTENDS LSMTree

CONSTANT MaxErrors    \* bound: how many operations fail

ASSUME ErrorsAssumption == MaxErrors \in Nat

VARIABLES
    errors,   \* history: how many operations have failed
    failures, \* history: the kinds of them
    stale     \* history: of the manifests "inMemory" and "onStorage", those not
              \* written anew since an input of a merge was removed

faultVars == <<vars, errors, failures, stale>>

Kinds     == {"flush", "read", "merge", "unlink", "persist"}
Manifests == {"inMemory", "onStorage"}

FaultsTypeOK ==
    /\ TypeOK
    /\ errors \in 0 .. MaxErrors
    /\ failures \in SUBSET Kinds
    /\ stale \in SUBSET Manifests

NoFailures == errors = 0 /\ failures = {} /\ stale = {}

FaultsInit == Init /\ NoFailures

Fault(kind) ==
    /\ errors < MaxErrors
    /\ errors' = errors + 1
    /\ failures' = failures \cup {kind}

\* Persist's argument is the clock, read and advanced before anything is written;
\* a failure before the call leaves the clock alone.
MaybeTick == clock' \in {clock, clock + 1}

\* What Compact leaves when it gives up: its locals are gone. The marks stay.
GivesUp ==
    /\ phase' = "failed"
    /\ level' = 0
    /\ todo' = {}
    /\ toCompact' = {}
    /\ newSSTs' = 0

\* A step of LSMTree. The removal of a table leaves both manifests stale, Update
\* and Persist bring them up to date.
Works ==
    /\ Next
    /\ stale' = CASE phase = "remove" /\ ssts' # ssts -> Manifests
                  [] phase = "persist"                -> {}
                  [] OTHER                            -> stale
    /\ UNCHANGED <<errors, failures>>

\* FlushToSST fails in AddKV or in Persist. The file stays, in no manifest, and
\* flush returns before it empties the memtable.
FlushFails ==
    /\ phase = "flush"
    /\ Fault("flush")
    /\ MaybeTick
    /\ phase' = "failed"
    /\ UNCHANGED <<treeVars, storageVars, mergeVars, ctr, written, picker, stale>>

\* A write in doCompaction fails. The tables finished so far stay in the next
\* level, next to the inputs they were made from.
MergeFails ==
    /\ phase = "merge"
    /\ Fault("merge")
    /\ MaybeTick
    /\ GivesUp
    /\ UNCHANGED <<treeVars, storageVars, marked, building, ctr, written, picker, stale>>

\* An iterator cannot read: from its construction on, an assert fails.
ReadFails ==
    /\ \/ phase = "merge"
       \/ TooLarge /\ (level = 0 \/ ssts[level + 1] # {})
    /\ Fault("read")
    /\ phase' = "aborted"
    /\ UNCHANGED <<treeVars, storageVars, mergeVars, clock, ctr, written, picker, stale>>

\* removeCompacted takes a table out of its level and cannot unlink its file. The
\* tables after it stay.
UnlinkFails ==
    /\ phase = "remove"
    /\ Fault("unlink")
    /\ \E s \in FirstOf(NotYetRemoved) :
         /\ ssts' = [ssts EXCEPT ![level] = @ \ {s}, ![level + 1] = @ \ {s}]
         /\ marked' = marked \ {s.id}
    /\ GivesUp
    /\ stale' = Manifests
    /\ UNCHANGED <<memTable, manifest, storageVars, building, clock, ctr, written, picker>>

\* ManifestFS::Persist fails before CURRENT is written. Manifest::Update is done.
ManifestAfterFailureKept == manifest
ManifestAfterFailure == LiveIds

PersistFails ==
    /\ phase = "persist"
    /\ Fault("persist")
    /\ manifest' = ManifestAfterFailure
    /\ phase' = "failed"
    /\ level' = 0
    /\ stale' = stale \ {"inMemory"}
    /\ UNCHANGED <<memTable, ssts, storageVars, marked, building, todo, toCompact,
                   newSSTs, clock, ctr, written, picker>>

\* A Put has returned -1 and its caller goes on.
GoOn ==
    /\ phase = "failed"
    /\ phase' = "idle"
    /\ level' = 0
    /\ UNCHANGED <<treeVars, storageVars, marked, building, todo, toCompact, newSSTs,
                   clock, ctr, written, picker, errors, failures, stale>>

\* An assert has ended the process.
Dead == phase = "aborted" /\ UNCHANGED faultVars

Fails == FlushFails \/ MergeFails \/ ReadFails \/ UnlinkFails \/ PersistFails

FaultsNext == Works \/ Fails \/ GoOn \/ Dead

FaultsSpec == FaultsInit /\ [][FaultsNext]_faultVars

-----------------------------------------------------------------------------
(* Properties *)

\* Versions age with depth whatever has failed: the memtable is newer than every
\* table, within level 0 the table persisted later is the newer one, and what a level
\* holds is newer than what the levels below it do. Of one version two levels have
\* copies during a merge, or when a failed one has left a table marked with it; and
\* since the next merge reads such tables at any level, an older version may come to lie
\* above a newer one only from a marked table that is deeper still.
MarkedFrom(p, l) == \E m \in Level : m >= l /\ \E s \in ssts[m] : s.id \in marked /\ p \in s.kvs
AgesWithDepth ==
    /\ MemTableNewest
    /\ Level0Ordered
    /\ \A i, j \in Level : i < j =>
         \A s \in ssts[i], t \in ssts[j] : \A p \in s.kvs, q \in t.kvs :
            p.key = q.key =>
               \/ q.ts < p.ts
               \/ q.ts = p.ts /\ phase \in {"merge", "remove"} /\ s \in toCompact
               \/ /\ failures \cap {"merge", "unlink", "read"} # {}
                  /\ (q.ts = p.ts /\ MarkedFrom(p, 0)) \/ MarkedFrom(p, j + 1)

\* Whatever has failed, every live table has its file with its content, and what
\* is left over on storage is at most a file for each failure, besides the one being
\* built, which stays when an assert ends the process.
Leftovers == {f \in files : f.id \notin Ids(LiveSSTs)}
FilesAccounted ==
    /\ TablesHaveFiles
    /\ Cardinality(Leftovers) <= errors + (IF phase \in {"flush", "merge", "aborted"} THEN 1 ELSE 0)

\* A manifest names live tables only, unless it is from before a removal that was
\* not followed by a successful Persist (for the one in memory, by Update). Without
\* failures, the one in memory names all of them between Puts, and the one on
\* storage is behind at level 0 only.
NamesLive(m) == UNION {m[l] : l \in Level} \subseteq Ids(LiveSSTs)
ManifestsNameLive ==
    /\ "inMemory" \notin stale => NamesLive(manifest)
    /\ "onStorage" \notin stale => NamesLive(current)
ManifestsSound ==
    /\ ManifestsNameLive
    /\ phase = "idle" /\ failures = {} => stale = {} /\ manifest = LiveIds /\ DurableTables

\* A Put fails, or its process, for a reason: an assert fails after a failed read,
\* or when a compaction meets the marks that a failed one has left; the memtable
\* stays full only after a failed flush; and a table keeps its mark only after a
\* merge failed on the way.
TroubleExplained ==
    /\ phase = "failed" => failures # {}
    /\ phase = "aborted" => failures \cap {"read", "merge", "unlink"} # {}
    /\ phase = "idle" /\ Cardinality(memTable) >= Limit => "flush" \in failures
    /\ phase = "idle" /\ marked # {} => failures \cap {"merge", "unlink"} # {}
=============================================================================

------------------------------- MODULE MergeLoop -------------------------------
(***************************************************************************)
(* Compacter::doCompaction version by version, with the three iterators it *)
(* reads from: a KVIterator walks the entries of one table, a LevelIterator*)
(* the tables of a sorted run, and CompactionIterator keeps the iterators  *)
(* of everything that is merged in a heap by the version each one is at.   *)
(* It shows that LSMTree may write a merge one table at a time.            *)
(***************************************************************************)
EXTENDS Tables, SequencesExt

CONSTANTS
    Keys, Times,     \* the versions that may be in the tables
    Limit,           \* entries of a full table
    None             \* a null pointer

ASSUME MergeAssumption ==
    /\ Keys \subseteq Nat /\ IsFiniteSet(Keys)
    /\ Times \subseteq Nat
    /\ Limit \in Nat \ {0}
    /\ None \notin [key : Keys, ts : Times]

VARIABLES
    inputs,          \* doCompaction's toCompact
    heap,            \* CompactionIterator::heap_
    prev,            \* doCompaction's prev
    sst,             \* the entries of the table being written
    outputs,         \* the tables written, each the sequence of its entries
    phase

vars == <<inputs, heap, prev, sst, outputs, phase>>

KV == [key : Keys, ts : Times]

-----------------------------------------------------------------------------
(* Iterators *)

Entries(s) == KVsInOrder(s.kvs)

(* A LevelIterator over the tables of a run, at its first entry. A level-0 *)
(* table has a KVIterator of its own, which is one over a run of one table.*)
Iterator(run) ==
    [run |-> [i \in 1 .. Cardinality(run) |-> Entries(SSTsInOrder(run)[i])],
     table |-> 1, entry |-> 1]

\* The version the iterator is at.
At(it) == it.run[it.table][it.entry]

LastInTable(it) == it.entry = Len(it.run[it.table])
ExhaustedWithTable(it) == LastInTable(it)
Exhausted(it)   == it.table = Len(it.run) /\ LastInTable(it)

Advanced(it) ==
    IF LastInTable(it) THEN [it EXCEPT !.table = @ + 1, !.entry = 1]
                       ELSE [it EXCEPT !.entry = @ + 1]

\* CompactionIterator::Next takes the top from the heap and puts it back moved on.
PushedWithoutPop(it) == IF Exhausted(it) THEN heap \ {it} ELSE heap \cup {Advanced(it)}
Pushed(it) == IF Exhausted(it) THEN heap \ {it} ELSE (heap \ {it}) \cup {Advanced(it)}

\* The iterators that may be at the top of a heap: none is at a smaller version.
Top(h) == {it \in h : \A other \in h : ~ KVLess(At(other), At(it))}

\* The asserts of the three iterators: the next version is greater than this one.
Increasing(it) ==
    /\ Exhausted(it) \/ KVLess(At(it), At(Advanced(it)))
    /\ \A next \in Top(Pushed(it)) : KVLess(At(it), At(next))

-----------------------------------------------------------------------------
(* What a compaction may find in the tree: level-0 tables, which are full, *)
(* or a run of a deeper level, and the run of the level below.             *)

VersionSets == {S \in SUBSET KV : \A p, q \in S : p.key = q.key => p = q}

Run(S) ==
    LET tableOf(p) == Cardinality({q \in S : q.key < p.key}) \div Limit
    IN {[kvs |-> {p \in S : tableOf(p) = i}] : i \in {tableOf(p) : p \in S}}

Init ==
    /\ \E lower \in VersionSets :
         \/ \E S, T \in {V \in VersionSets : Cardinality(V) = Limit} :
              /\ lower \cap (S \cup T) = {}
              /\ S = T \/ S \cap T = {}
              /\ inputs = {[kvs |-> S], [kvs |-> T]} \cup Run(lower)
              /\ heap = {Iterator({[kvs |-> V]}) : V \in {S, T}}
                           \cup {Iterator(Run(V)) : V \in {lower} \ {{}}}
         \/ \E upper \in VersionSets \ {{}} :
              /\ lower # {} /\ upper \cap lower = {}
              /\ inputs = Run(upper) \cup Run(lower)
              /\ heap = {Iterator(Run(upper)), Iterator(Run(lower))}
    /\ prev = None
    /\ sst = <<>>
    /\ outputs = <<>>
    /\ phase = "merge"

-----------------------------------------------------------------------------
(* doCompaction *)

Duplicate(pair) == prev # None /\ prev.key = pair.key

\* ci->Next(), after which the loop goes on unless the iterator is exhausted.
NextPair(it, sound) ==
    /\ heap' = Pushed(it)
    /\ prev' = At(it)
    /\ phase' = IF ~ (sound /\ Increasing(it)) THEN "aborted"
                ELSE IF heap' = {} THEN "last" ELSE "merge"

\* A version that is not the oldest of its key is dropped.
SkipDuplicate ==
    /\ phase = "merge"
    /\ \E it \in Top(heap) :
         /\ Duplicate(At(it))
         /\ NextPair(it, prev.ts < At(it).ts)
    /\ UNCHANGED <<inputs, sst, outputs>>

\* finishSSTFile if the table is full, and merge.
Full == Len(sst) = Limit

MergePair ==
    /\ phase = "merge"
    /\ \E it \in Top(heap) :
         /\ ~ Duplicate(At(it))
         /\ IF Full THEN outputs' = Append(outputs, sst) /\ sst' = <<At(it)>>
                    ELSE sst' = Append(sst, At(it)) /\ UNCHANGED outputs
         /\ NextPair(it, TRUE)
    /\ UNCHANGED inputs

\* The last table, and the assert that there are not more of them than before.
FinishLast ==
    /\ phase = "last"
    /\ outputs' = Append(outputs, sst)
    /\ sst' = <<>>
    /\ phase' = IF Len(outputs') <= Cardinality(inputs) THEN "done" ELSE "aborted"
    /\ UNCHANGED <<inputs, heap, prev>>

Done == phase = "done" /\ UNCHANGED vars

Next == SkipDuplicate \/ MergePair \/ FinishLast \/ Done

Spec == Init /\ [][Next]_vars /\ WF_vars(Next)

-----------------------------------------------------------------------------
(* Properties *)

\* Given full tables at level 0 and sorted runs below, no assert of an iterator
\* or of doCompaction fails, however the versions of the inputs interleave.
AssertsHold == phase # "aborted"

\* The loop writes, in order, the tables LSMTree's merge writes, and all of them.
Abstract == INSTANCE Merge WITH
    todo <- Merged(inputs) \ UNION {ToSet(outputs[i]) : i \in DOMAIN outputs}
ImplementsMerge == Abstract!Spec
=============================================================================

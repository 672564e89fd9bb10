-------------------------------- MODULE LSMScan --------------------------------
(***************************************************************************)
(* DBImpl::Scan on the trees that Puts build. It collects versions in a    *)
(* heap, first from the memtable and then from every level with a          *)
(* LevelIterator that it first seeks to the start key. It changes nothing  *)
(* and hands nothing back: what there is to check is that it ends, that    *)
(* the iterators' asserts hold, and what is in the heap.                   *)
(***************************************************************************)
EXTENDS LSMTree, SequencesExt

CONSTANTS
    MaxLen,      \* bound on the length of a scan
    NoScan       \* there is no scan

ASSUME ScanAssumption == MaxLen \in Nat

VARIABLE
    scan         \* NoScan, or a record: Scan's arguments start and len, the level
                 \* being read, rest, the versions its LevelIterator has still to
                 \* yield, and pairs, the heap

scanVars == <<vars, scan>>

-----------------------------------------------------------------------------
(* LevelIterator::Seek takes the first table whose range of keys the start *)
(* is in; there is none if the start is below or above all tables or falls *)
(* between two of them. It is treated as a run at level 0 as well.         *)
InRange(s, k) == \E i, j \in KeysOf(s.kvs) : i <= k /\ k <= j

Entries(kvs) == KVsInOrder(kvs)

SoughtUnderTable(l, k) ==
    LET tables == SSTsInOrder(ssts[l])
        hits   == {i \in DOMAIN tables : InRange(tables[i], k)}
        run    == SubSeq(tables, Min(hits), Len(tables))
    IN IF hits = {} THEN <<>>
       ELSE FlattenSeq([i \in DOMAIN run |-> Entries(run[i].kvs)])
Sought(l, k) ==
    LET tables == SSTsInOrder(ssts[l])
        hits   == {i \in DOMAIN tables : InRange(tables[i], k)}
        run    == SubSeq(tables, Min(hits), Len(tables))
        from(i) == IF i = 1 THEN {p \in run[1].kvs : k <= p.key} ELSE run[i].kvs
    IN IF hits = {} THEN <<>>
       ELSE FlattenSeq([i \in DOMAIN run |-> Entries(from(i))])

-----------------------------------------------------------------------------
ScanInit == Init /\ scan = NoScan

\* The memtable gives its first len versions from the start key on.
StartScan(k, n) ==
    /\ phase = "idle"
    /\ scan' = [start |-> k, len |-> n, level |-> 0, rest |-> Sought(0, k),
                pairs |-> FirstEntries({p \in memTable : k <= p.key}, n)]
    /\ phase' = "scan"
    /\ UNCHANGED <<treeVars, storageVars, mergeVars, clock, ctr, written, picker>>

\* The heap's top, which is its smallest version.
TopOf(pairs) == CHOOSE p \in pairs : \A q \in pairs : q = p \/ KVLess(p, q)

\* What is left of a level after its next version was seen: nothing if the heap
\* is full and the version is beyond its top.
RestUnread(pairs) == IF Cardinality(pairs) < scan.len THEN Tail(scan.rest) ELSE scan.rest
Rest(pairs) ==
    IF Cardinality(pairs) = scan.len /\ KVLess(TopOf(pairs), Head(scan.rest))
      THEN <<>> ELSE Tail(scan.rest)

Collected(pairs, pair) ==
    IF Cardinality(pairs) < scan.len THEN pairs \cup {pair}
    ELSE IF KVLess(TopOf(pairs), pair) THEN pairs
    ELSE (pairs \ {TopOf(pairs)}) \cup {pair}

\* One round of the loop over a level. The iterator moves on first, and asserts
\* that its next version is greater.
Visit ==
    /\ phase = "scan" /\ scan.rest # <<>>
    /\ scan' = [scan EXCEPT !.rest = Rest(scan.pairs),
                            !.pairs = Collected(@, Head(scan.rest))]
    /\ phase' = IF Len(scan.rest) = 1 \/ KVLess(scan.rest[1], scan.rest[2])
                  THEN "scan" ELSE "aborted"
    /\ UNCHANGED <<treeVars, storageVars, mergeVars, clock, ctr, written, picker>>

NextLevel ==
    /\ phase = "scan" /\ scan.rest = <<>>
    /\ \/ /\ scan.level < NLevels - 1
          /\ scan' = [scan EXCEPT !.level = @ + 1, !.rest = Sought(scan.level + 1, scan.start)]
          /\ UNCHANGED phase
       \/ /\ scan.level = NLevels - 1
          /\ scan' = NoScan
          /\ phase' = "idle"
    /\ UNCHANGED <<treeVars, storageVars, mergeVars, clock, ctr, written, picker>>

-----------------------------------------------------------------------------
(* Properties *)

\* The iterators yield a level in increasing order from the start key on, so no
\* assert fails. It holds as long as level 0 is a run, of one table at most.
ScanIncreasing == phase # "aborted"

\* The heap holds at most len versions, all of them from the start key on; and a scan
\* long enough for all there is collects, at its end, every version from there on
\* that is in the memtable or in a level with a table whose range the start key falls
\* in. Levels without one are passed over.
ScanComplete ==
    LET ended     == scan # NoScan /\ scan.rest = <<>> /\ scan.level = NLevels - 1
        entered   == {l \in Level : \E s \in ssts[l] : InRange(s, scan.start)}
        from(kvs) == {p \in kvs : scan.start <= p.key}
        due       == from(memTable) \cup
                       UNION {from(s.kvs) : s \in UNION {ssts[l] : l \in entered}}
    IN /\ scan # NoScan => /\ Cardinality(scan.pairs) <= scan.len
                           /\ scan.pairs = from(scan.pairs)
       /\ phase = "scan" /\ ended /\ Cardinality(due) <= scan.len => scan.pairs = due

\* A scan ends.
ScanReturns == phase = "scan" ~> phase # "scan"
=============================================================================

-------------------------------- MODULE Tables --------------------------------
(***************************************************************************)
(* Tables (SSTs) and the versions of keys they hold. A version is a record *)
(* with a key and the timestamp of its Put, a table a record with an id    *)
(* and its versions, of which no two have the same key.                    *)
(***************************************************************************)
EXTENDS Integers, FiniteSets

KeysOf(kvs) == {p.key : p \in kvs}
Ids(S)      == {s.id : s \in S}

\* KVPair's order: by key, then by timestamp.
KVLess(p, q) == p.key < q.key \/ (p.key = q.key /\ p.ts < q.ts)

\* SST::SSTComparator: by smallest key, then by id.
Smallest(s) == CHOOSE k \in KeysOf(s.kvs) : \A j \in KeysOf(s.kvs) : k <= j
Before(s, t) == \/ Smallest(s) < Smallest(t)
                \/ Smallest(s) = Smallest(t) /\ s.id < t.id
FirstOf(S) == {s \in S : \A t \in S : t = s \/ Before(s, t)}

(* What a merge writes. CompactionIterator yields the versions of the      *)
(* merged tables in KVPair's order, and of the versions of one key         *)
(* doCompaction keeps the first it meets, which is the oldest. The mutant  *)
(* is a plausible slip.                                                    *)
MergedKeepingNewest(tables) ==
    LET all == UNION {s.kvs : s \in tables}
    IN {p \in all : \A q \in all : q.key = p.key => q.ts <= p.ts}
Merged(tables) ==
    LET all == UNION {s.kvs : s \in tables}
    IN {p \in all : \A q \in all : q.key = p.key => p.ts <= q.ts}

\* SetToSortSeq by < and by these orders, in a form that can be reasoned about.
KeysInOrder(keys) == CHOOSE s \in [1 .. Cardinality(keys) -> keys] :
                       \A i, j \in DOMAIN s : i < j => s[i] < s[j]
KVsInOrder(kvs) == CHOOSE s \in [1 .. Cardinality(kvs) -> kvs] :
                       \A i, j \in DOMAIN s : i < j => KVLess(s[i], s[j])
SSTsInOrder(run) == CHOOSE s \in [1 .. Cardinality(run) -> run] :
                       \A i, j \in DOMAIN s : i < j => s[i] # s[j] /\ Before(s[i], s[j])

\* Of versions with different keys, what fits in a table of n entries: those
\* with the n smallest keys.
FirstEntries(kvs, n) == {p \in kvs : Cardinality({q \in kvs : q.key < p.key}) < n}
=============================================================================

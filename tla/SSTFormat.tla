------------------------------- MODULE SSTFormat -------------------------------
(***************************************************************************)
(* One table (SST) and its file: the entries of a table are appended, then *)
(* the index block and the block with the number of entries, and another   *)
(* session parses the file again. The parser does not know how many        *)
(* entries were written: it looks for the index and the count where a full *)
(* table would have them.                                                  *)
(*                                                                         *)
(* The file is a sequence of units of the size of an index entry, which    *)
(* verify_config makes a divisor of the block size.                        *)
(***************************************************************************)
EXTENDS Tables, SequencesExt

CONSTANTS
    Keys,              \* the keys of the entries
    Limits,            \* the numbers of entries a full table may have
    EntriesPerBlock    \* index entries in a block; an entry's data is a block

ASSUME FormatAssumption == /\ Keys \subseteq Nat
                           /\ Limits \subseteq Nat \ {0}
                           /\ EntriesPerBlock \in Nat \ {0}

VARIABLES
    limit,             \* sst_file_size / kv_size()
    kvs,               \* history: the versions that were added
    file,              \* the content of the file
    index,             \* indexTable_: for a key the offset of its data
    entries,           \* entries_
    range,             \* <<smallestKey_, largestKey_>>
    phase

vars == <<limit, kvs, file, index, entries, range, phase>>

Version(k) == [key |-> k, ts |-> k]

Filled(units, content) == [i \in 1 .. units |-> <<content, 0, 0>>]

Init ==
    /\ limit \in Limits
    /\ kvs = {} /\ file = <<>>
    /\ index = <<>> /\ entries = 0 /\ range = <<0, 0>>
    /\ phase = "building"

\* Where the data of the next entry goes. The mutants defined below are plausible
\* slips in what follows them.
DataOffset(n) == n * EntriesPerBlock

\* Where a file is appended to is its end, wherever it was read before.
Appended(units) == file \o units

\* AddKV. Flushes and merges add their versions in the order of their keys.
AddKV(k) ==
    /\ phase = "building"
    /\ entries < limit
    /\ \A p \in kvs : p.key < k
    /\ kvs' = kvs \cup {Version(k)}
    /\ file' = Appended(<<<<"kv", k, k>>>> \o Filled(EntriesPerBlock - 1, "zero"))
    /\ index' = [j \in DOMAIN index \cup {k} |->
                   IF j = k THEN DataOffset(entries) ELSE index[j]]
    /\ entries' = entries + 1
    /\ range' = IF entries = 0 THEN <<k, 0>> ELSE range
    /\ UNCHANGED <<limit, phase>>

\* The blocks of an index of n entries.
IndexBlocksOneMore(n) == n \div EntriesPerBlock + 1
IndexBlocks(n) == IF n % EntriesPerBlock = 0 THEN n \div EntriesPerBlock
                                             ELSE n \div EntriesPerBlock + 1

\* Persist appends the index, in whole blocks of unset memory filled from the
\* front, and then the number of entries.
WriteIndexBlock ==
    LET keys == KeysInOrder(DOMAIN index)
    IN  /\ phase = "building" /\ entries > 0
        /\ file' = Appended([i \in DOMAIN keys |-> <<"index", keys[i], index[keys[i]]>>]
                        \o Filled(IndexBlocks(entries) * EntriesPerBlock - entries, "unset"))
        /\ range' = <<range[1], Max(DOMAIN index)>>
        /\ phase' = "indexed"
        /\ UNCHANGED <<limit, kvs, index, entries>>

WriteNumberOfEntries ==
    /\ phase = "indexed"
    /\ file' = Appended(<<<<"count", entries, 0>>>> \o Filled(EntriesPerBlock - 1, "zero"))
    /\ phase' = "persisted"
    /\ UNCHANGED <<limit, kvs, index, entries, range>>

\* The session ends; a new object stands for the file.
Reopen ==
    /\ phase = "persisted"
    /\ index' = <<>> /\ entries' = 0 /\ range' = <<0, 0>>
    /\ phase' = "stored"
    /\ UNCHANGED <<limit, kvs, file>>

\* Where Parse looks for the index and for the number of entries.
IndexOffset == DataOffset(limit)
CountOffset == IndexOffset + limit

\* A read past the end leaves the buffer, which is zero, as it is.
Read(offset) == IF offset < Len(file) THEN file[offset + 1] ELSE <<"zero", 0, 0>>

\* readNumberOfEntries and readIndexBlock.
CountRead == Read(CountOffset)
IndexRead(n) == {Read(IndexOffset + i) : i \in 0 .. n - 1}

(* Parse. What is not a count is taken for one all the same, and the index *)
(* goes wrong with it. A read that is not at a multiple of the block size  *)
(* may be refused, for the file is open with O_DIRECT; what Parse then     *)
(* returns is ignored.                                                     *)
Parse ==
    /\ phase = "stored"
    /\ \/ /\ CountRead[1] = "count"
          /\ entries' = CountRead[2]
          /\ LET read == IndexRead(entries')
             IN  /\ index' = [k \in {u[2] : u \in read} |-> (CHOOSE u \in read : u[2] = k)[3]]
                 /\ range' = <<Min(DOMAIN index'), Max(DOMAIN index')>>
          /\ phase' = "parsed"
       \/ /\ CountRead[1] # "count"
          /\ phase' = "misread"
          /\ UNCHANGED <<index, entries, range>>
       \/ /\ CountOffset % EntriesPerBlock # 0
          /\ phase' = "unread"
          /\ UNCHANGED <<index, entries, range>>
    /\ UNCHANGED <<limit, kvs, file>>

Rest == phase \in {"parsed", "misread", "unread"} /\ UNCHANGED vars

Next == (\E k \in Keys : AddKV(k)) \/ WriteIndexBlock \/ WriteNumberOfEntries
        \/ Reopen \/ Parse \/ Rest

Spec == Init /\ [][Next]_vars

-----------------------------------------------------------------------------
(* Reading a table: the empty set stands for a null pointer.               *)

ReadKV(offset) == LET u == Read(offset) IN [key |-> u[2], ts |-> u[3]]

LookupBelowLargest(k) ==
    IF k >= range[2] \/ k < range[1] \/ k \notin DOMAIN index THEN {} ELSE {ReadKV(index[k])}
Lookup(k) ==
    IF k > range[2] \/ k < range[1] \/ k \notin DOMAIN index THEN {} ELSE {ReadKV(index[k])}

\* KVIterator::Seek by SearchClosest, and then GetKVAtIndex up to the last entry.
IndexesAfter(k) == LET at == {j \in DOMAIN index : k < j}
                   IN IF at = {} THEN {} ELSE index[Min(at)] \div EntriesPerBlock .. entries - 1
IndexesFrom(k)  == LET at == {j \in DOMAIN index : k <= j}
                   IN IF at = {} THEN {} ELSE index[Min(at)] \div EntriesPerBlock .. entries - 1
Sought(k) == {ReadKV(DataOffset(i)) : i \in IndexesFrom(k)}

-----------------------------------------------------------------------------
(* Properties *)

Usable == phase \in {"persisted", "parsed"}

\* A table finds exactly the versions that were added to it, by the object that
\* wrote the file and by one that parsed it in a later session alike.
LookupFindsAll ==
    Usable => \A k \in Keys : Lookup(k) = {p \in kvs : p.key = k}

\* Positions in a table go by the order of the keys: from where a Seek lands to
\* the last index an iterator meets every version from the start key on.
SeekFindsRest ==
    Usable => \A k \in Keys : Sought(k) = {p \in kvs : k <= p.key}

\* A table is parsed again exactly if it is full and its index fills whole blocks. Of
\* one that is not full, such as the last of a merge, or whose index is padded, the
\* count is never where the parser looks, and nothing else there passes for it.
FullTableParses ==
    phase \in {"parsed", "misread", "unread"} =>
        (phase = "parsed" <=> Cardinality(kvs) = limit /\ limit % EntriesPerBlock = 0)
=============================================================================

---------------------------- MODULE FileFormatProofs ----------------------------
(***************************************************************************)
(* Proofs about SSTFormat for every set of keys, every size of a table and *)
(* every size of a block: a table finds what was added to it, before and   *)
(* after it was parsed, and which are parsed at all. Proofs about          *)
(* ManifestCodec for any number of levels in either session, any tables    *)
(* and any size of a block: what a session reads is what the other wrote.  *)
(***************************************************************************)
EXTENDS SSTFormat, ManifestCodec, TablesProofs, SequenceTheorems

-----------------------------------------------------------------------------
(* The inductive invariant. A version's data and its index entry are both  *)
(* found by the rank of its key, whichever session looks.                  *)

Added == KeysOf(kvs)
N     == Cardinality(Added)

Indexed  == phase # "building"
Counted  == phase \notin {"building", "indexed"}
InMemory == phase \in {"building", "indexed", "persisted", "parsed"}

IndexStart == DataOffset(N)
CountStart == DataOffset(N) + DataOffset(IndexBlocks(N))

KVsInv ==
    /\ limit \in Limits
    /\ IsFiniteSet(Added) /\ Added \subseteq Keys
    /\ kvs = {Version(k) : k \in Added}
    /\ IsFiniteSet(kvs) /\ Cardinality(kvs) = N /\ N <= limit
    /\ phase \in {"building", "indexed", "persisted", "stored", "parsed", "misread", "unread"}
    /\ Indexed => Added # {}

MemoryInv ==
    /\ InMemory => /\ entries = N
                   /\ index = [k \in Added |-> DataOffset(Rank(Added, k))]
    /\ InMemory /\ Added # {} => range[1] \in Added /\ \A k \in Added : range[1] <= k
    /\ InMemory /\ Indexed => range[2] \in Added /\ \A k \in Added : k <= range[2]

Unit == {"kv", "index", "count", "zero", "unset"} \X Nat \X Nat

FileInv ==
    /\ file \in Seq(Unit)
    /\ Len(file) = IF ~ Indexed THEN DataOffset(N)
                   ELSE IF ~ Counted THEN CountStart ELSE CountStart + EntriesPerBlock
    /\ \A k \in Added : file[DataOffset(Rank(Added, k)) + 1] = <<"kv", k, k>>
    /\ Indexed => \A k \in Added : file[IndexStart + Rank(Added, k) + 1] =
                                       <<"index", k, DataOffset(Rank(Added, k))>>
    /\ Counted => file[CountStart + 1] = <<"count", N, 0>>
    /\ \A i \in 1 .. Len(file) : file[i][1] = "count" => Counted /\ i = CountStart + 1

FormatInv == KVsInv /\ MemoryInv /\ FileInv /\ FullTableParses
-----------------------------------------------------------------------------
(* Offsets *)

LEMMA Offsets ==
    ASSUME NEW a \in Nat, NEW b \in Nat
    PROVE  /\ DataOffset(a) \in Nat
           /\ DataOffset(a + b) = DataOffset(a) + DataOffset(b)
           /\ a < b => DataOffset(a) + EntriesPerBlock <= DataOffset(b)
           /\ a <= b => DataOffset(a) <= DataOffset(b)
           /\ DataOffset(a) \div EntriesPerBlock = a
           /\ DataOffset(a) % EntriesPerBlock = 0
<1> DEFINE E == EntriesPerBlock
<1>1. E \in Nat /\ E > 0
  BY FormatAssumption
<1> HIDE DEF E
<1>2. a * E \in Nat
  BY <1>1
<1>3. (a + b) * E = a * E + b * E
  BY <1>1
<1>4. a < b => a * E + E <= b * E
  BY <1>1
<1>5. a <= b => a * E <= b * E
  BY <1>1
<1>6. (a * E) \div E = a
  BY <1>1
<1>7. (a * E) % E = 0
  BY <1>1
<1> QED
  BY <1>2, <1>3, <1>4, <1>5, <1>6, <1>7 DEF E, DataOffset

\* The blocks of an index hold its entries, and the last of them holds some.
LEMMA BlocksHold ==
    ASSUME NEW n \in Nat
    PROVE  /\ IndexBlocks(n) \in Nat
           /\ n <= DataOffset(IndexBlocks(n))
           /\ DataOffset(IndexBlocks(n)) < n + EntriesPerBlock
           /\ n % EntriesPerBlock = 0 => DataOffset(IndexBlocks(n)) = n
<1> DEFINE E == EntriesPerBlock
           q == n \div E
           r == n % E
<1>1. E \in Nat /\ E > 0
  BY FormatAssumption
<1> HIDE DEF E
<1>2. n = E * q + r /\ r \in 0 .. E - 1 /\ q \in Nat
  BY <1>1
<1> HIDE DEF q, r
<1>3. q * E = E * q /\ (q + 1) * E = E * q + E
  BY <1>1, <1>2
<1>4. CASE r = 0
  <2>1. IndexBlocks(n) = q
    BY <1>4 DEF IndexBlocks, E, q, r
  <2> QED
    BY <1>1, <1>2, <1>3, <1>4, <2>1 DEF DataOffset, E, r
<1>5. CASE r # 0
  <2>1. IndexBlocks(n) = q + 1
    BY <1>5 DEF IndexBlocks, E, q, r
  <2> QED
    BY <1>1, <1>2, <1>3, <1>5, <2>1 DEF DataOffset, E, r
<1> QED
  BY <1>4, <1>5

-----------------------------------------------------------------------------
(* The file *)

LEMMA Appending ==
    ASSUME NEW s \in Seq(Unit), NEW t \in Seq(Unit)
    PROVE  /\ s \o t \in Seq(Unit)
           /\ Len(s \o t) = Len(s) + Len(t)
           /\ \A i \in 1 .. Len(s) : (s \o t)[i] = s[i]
           /\ \A i \in 1 .. Len(t) : (s \o t)[Len(s) + i] = t[i]
           /\ Len(s) \in Nat /\ Len(t) \in Nat
  OBVIOUS

LEMMA FilledUnits ==
    ASSUME NEW n \in Nat, NEW content \in {"zero", "unset"}
    PROVE  /\ Filled(n, content) \in Seq(Unit)
           /\ Len(Filled(n, content)) = n
           /\ \A i \in 1 .. n : Filled(n, content)[i][1] # "count"
<1>1. <<content, 0, 0>> \in Unit
  BY DEF Unit
<1> QED
  BY <1>1 DEF Filled

\* A block that begins with a unit and is zero else.
LEMMA BlockOf ==
    ASSUME NEW u \in Unit, NEW t, t = <<u>> \o Filled(EntriesPerBlock - 1, "zero")
    PROVE  /\ t \in Seq(Unit)
           /\ Len(t) = EntriesPerBlock
           /\ t[1] = u
           /\ \A i \in 2 .. EntriesPerBlock : t[i][1] # "count"
<1>1. EntriesPerBlock - 1 \in Nat /\ EntriesPerBlock \in Nat
  BY FormatAssumption
<1>2. PICK f \in Seq(Unit) : /\ f = Filled(EntriesPerBlock - 1, "zero")
                             /\ Len(f) = EntriesPerBlock - 1
                             /\ \A i \in 1 .. EntriesPerBlock - 1 : f[i][1] # "count"
  BY <1>1, FilledUnits
<1>3. <<u>> \in Seq(Unit) /\ Len(<<u>>) = 1 /\ <<u>>[1] = u
  OBVIOUS
<1>4. /\ t \in Seq(Unit) /\ Len(t) = 1 + Len(f)
      /\ \A i \in 1 .. 1 : t[i] = <<u>>[i]
      /\ \A i \in 1 .. Len(f) : t[1 + i] = f[i]
  BY <1>2, <1>3, Appending
<1>5. ASSUME NEW i \in 2 .. EntriesPerBlock PROVE t[i][1] # "count"
  <2>1. i - 1 \in 1 .. EntriesPerBlock - 1 /\ i = 1 + (i - 1)
    BY <1>1
  <2> QED
    BY <1>2, <1>4, <2>1
<1> QED
  BY <1>1, <1>2, <1>3, <1>4, <1>5

-----------------------------------------------------------------------------
(* Ranks of the keys that were added *)

LEMMA AddedRanks ==
    ASSUME KVsInv
    PROVE  /\ N \in Nat /\ limit \in Nat /\ limit > 0
           /\ Added \subseteq Nat
           /\ \A k \in Added : Rank(Added, k) \in 0 .. N - 1
           /\ \A j, k \in Added : j < k <=> Rank(Added, j) < Rank(Added, k)
           /\ \A j, k \in Added : Rank(Added, j) = Rank(Added, k) => j = k
           /\ \A i \in 0 .. N - 1 : \E k \in Added : Rank(Added, k) = i
           /\ \A i \in 1 .. N : Rank(Added, KeysInOrder(Added)[i]) = i - 1
<1>1. Added \subseteq Nat /\ limit \in Nat /\ limit > 0
  BY FormatAssumption DEF KVsInv
<1>2. Added \subseteq Int /\ IsFiniteSet(Added)
  BY <1>1 DEF KVsInv
<1> HIDE DEF Added
<1>3. /\ N \in Nat
      /\ \A k \in Added : Rank(Added, k) \in 0 .. N - 1
      /\ \A j, k \in Added : j < k <=> Rank(Added, j) < Rank(Added, k)
      /\ \A j, k \in Added : Rank(Added, j) = Rank(Added, k) => j = k
      /\ \A i \in 0 .. N - 1 : \E k \in Added : Rank(Added, k) = i
      /\ \A i \in 1 .. N : Rank(Added, KeysInOrder(Added)[i]) = i - 1
  BY <1>2, KeyRanks DEF N
<1> QED
  BY <1>1, <1>3

LEMMA InitFormat == Init => FormatInv
<1> SUFFICES ASSUME Init PROVE FormatInv
  OBVIOUS
<1>1. Added = {} /\ IsFiniteSet(Added) /\ N = 0 /\ IsFiniteSet(kvs) /\ Cardinality(kvs) = 0
  BY FS_EmptySet DEF Init, Added, N, KeysOf
<1>2. limit \in Nat /\ limit > 0
  BY FormatAssumption DEF Init
<1>3. KVsInv
  BY <1>1, <1>2 DEF Init, KVsInv, Indexed
<1>4. MemoryInv
  BY <1>1 DEF Init, MemoryInv, Indexed
<1>5. DataOffset(N) = 0
  BY <1>1, FormatAssumption DEF DataOffset
<1>6. FileInv
  BY <1>1, <1>5 DEF Init, FileInv, Indexed, Counted
<1>7. FullTableParses
  BY DEF Init, FullTableParses
<1> QED
  BY <1>3, <1>4, <1>6, <1>7 DEF FormatInv

-----------------------------------------------------------------------------
(* Steps of the session that writes *)

LEMMA AddKVFormat ==
    ASSUME FormatInv, NEW k \in Keys, AddKV(k)
    PROVE  FormatInv'
<1> USE DEF FormatInv
<1>1. /\ N \in Nat /\ limit \in Nat /\ Added \subseteq Nat
      /\ \A j \in Added : Rank(Added, j) \in 0 .. N - 1
  BY AddedRanks
<1>2. k \in Nat /\ EntriesPerBlock \in Nat /\ EntriesPerBlock > 0
  BY FormatAssumption
<1>3. phase = "building" /\ phase' = "building" /\ limit' = limit
  BY DEF AddKV
<1>4. Added' = Added \cup {k}
  <2>1. kvs' = kvs \cup {Version(k)} /\ Version(k).key = k
    BY DEF AddKV, Version
  <2>2. Added' = {p.key : p \in kvs \cup {Version(k)}}
    BY <2>1 DEF Added, KeysOf
  <2> QED
    BY <2>1, <2>2 DEF Added, KeysOf
<1>5. \A j \in Added : j < k
  BY DEF AddKV, Added, KeysOf
<1>6. k \notin Added
  BY <1>1, <1>2, <1>5
<1>7. IsFiniteSet(Added') /\ N' = N + 1
  BY <1>4, <1>6, FS_AddElement DEF KVsInv, N
<1>8. IsFiniteSet(kvs') /\ Cardinality(kvs') = N + 1
  <2>1. Version(k) \notin kvs
    BY <1>6 DEF Added, KeysOf, Version
  <2>2. kvs' = kvs \cup {Version(k)}
    BY DEF AddKV
  <2> QED
    BY <2>1, <2>2, FS_AddElement DEF KVsInv
<1>9. entries = N /\ N + 1 <= limit
  BY <1>1, <1>3 DEF KVsInv, MemoryInv, InMemory, AddKV
<1>10. KVsInv'
  <2>1. kvs' = {Version(j) : j \in Added'}
    BY <1>4 DEF KVsInv, AddKV
  <2> QED
    BY <1>3, <1>4, <1>7, <1>8, <1>9, <2>1 DEF KVsInv, Indexed
<1>11. ASSUME NEW j \in Added PROVE Rank(Added', j) = Rank(Added, j)
  <2>1. {i \in Added' : i < j} = {i \in Added : i < j}
    BY <1>1, <1>2, <1>4, <1>5
  <2> QED
    BY <2>1 DEF Rank
<1>12. Rank(Added', k) = N
  <2>1. {i \in Added' : i < k} = Added
    BY <1>2, <1>4, <1>5
  <2> QED
    BY <2>1 DEF Rank, N
<1>13. MemoryInv'
  <2>1. entries' = N'
    BY <1>7, <1>9 DEF AddKV
  <2>2. index' = [j \in Added' |-> DataOffset(Rank(Added', j))]
    <3>1. index = [j \in Added |-> DataOffset(Rank(Added, j))]
      BY <1>3 DEF MemoryInv, InMemory
    <3>2. index' = [j \in Added' |-> IF j = k THEN DataOffset(entries) ELSE index[j]]
      BY <1>4, <3>1 DEF AddKV
    <3>3. ASSUME NEW j \in Added'
          PROVE  (IF j = k THEN DataOffset(entries) ELSE index[j]) = DataOffset(Rank(Added', j))
      BY <1>4, <1>9, <1>11, <1>12, <3>1
    <3> QED
      BY <3>2, <3>3
  <2>3. range'[1] \in Added' /\ \A j \in Added' : range'[1] <= j
    <3>1. CASE entries = 0
      <4>1. Added = {}
        BY <1>1, <1>9, <3>1 
      <4>2. range'[1] = k
        BY <3>1 DEF AddKV
      <4> QED
        BY <1>2, <1>4, <4>1, <4>2
    <3>2. CASE entries # 0
      <4>1. Added # {}
        BY <1>9, <3>2, FS_EmptySet DEF N
      <4>2. range'[1] = range[1]
        BY <3>2 DEF AddKV
      <4>3. range[1] \in Added /\ \A j \in Added : range[1] <= j
        BY <1>3, <4>1 DEF MemoryInv, InMemory
      <4>4. PICK m \in Added : m = range[1] /\ \A j \in Added : m <= j
        BY <4>3
      <4>5. m \in Nat /\ m < k
        BY <1>1, <1>5
      <4>6. \A j \in Added' : m <= j
        BY <1>2, <1>4, <4>4, <4>5
      <4> QED
        BY <1>4, <4>2, <4>4, <4>6
    <3> QED
      BY <3>1, <3>2
  <2> QED
    BY <1>3, <2>1, <2>2, <2>3 DEF MemoryInv, InMemory, Indexed
<1>14. FileInv'
  <2>1. <<"kv", k, k>> \in Unit
    BY <1>2 DEF Unit
  <2>2. PICK t \in Seq(Unit) :
            /\ t = <<<<"kv", k, k>>>> \o Filled(EntriesPerBlock - 1, "zero")
            /\ Len(t) = EntriesPerBlock
            /\ t[1] = <<"kv", k, k>>
            /\ \A i \in 2 .. EntriesPerBlock : t[i][1] # "count"
    BY <2>1, BlockOf
  <2>3. file' = file \o t
    BY <2>2 DEF AddKV, Appended
  <2>4. file \in Seq(Unit) /\ Len(file) = DataOffset(N)
    BY <1>3 DEF FileInv, Indexed
  <2>5. /\ file' \in Seq(Unit)
        /\ Len(file') = DataOffset(N) + EntriesPerBlock
        /\ \A i \in 1 .. DataOffset(N) : file'[i] = file[i]
        /\ \A i \in 1 .. EntriesPerBlock : file'[DataOffset(N) + i] = t[i]
        /\ DataOffset(N) \in Nat
    <3>1. /\ file \o t \in Seq(Unit)
          /\ Len(file \o t) = Len(file) + Len(t)
          /\ \A i \in 1 .. Len(file) : (file \o t)[i] = file[i]
          /\ \A i \in 1 .. Len(t) : (file \o t)[Len(file) + i] = t[i]
          /\ Len(file) \in Nat
      BY <2>2, <2>4, Appending
    <3> QED
      BY ONLY <2>2, <2>3, <2>4, <3>1
  <2>6. DataOffset(N') = DataOffset(N) + EntriesPerBlock
    BY <1>1, <1>2, <1>7 DEF DataOffset
  <2>7. ASSUME NEW j \in Added' PROVE file'[DataOffset(Rank(Added', j)) + 1] = <<"kv", j, j>>
    <3>1. CASE j = k
      <4>1. 1 \in 1 .. EntriesPerBlock
        BY <1>2
      <4> QED
        BY <1>12, <2>2, <2>5, <3>1, <4>1
    <3>2. CASE j # k
      <4>1. j \in Added /\ Rank(Added, j) \in Nat /\ Rank(Added, j) < N
        BY <1>1, <1>4, <3>2
      <4>2. DataOffset(Rank(Added, j)) + EntriesPerBlock <= DataOffset(N)
        BY <1>1, <4>1, Offsets
      <4>3. DataOffset(Rank(Added, j)) \in Nat
        BY <4>1, Offsets
      <4>4. DataOffset(Rank(Added, j)) + 1 \in 1 .. DataOffset(N)
        BY <1>2, <2>5, <4>2, <4>3
      <4>5. file[DataOffset(Rank(Added, j)) + 1] = <<"kv", j, j>>
        BY <4>1 DEF FileInv
      <4> QED
        BY <1>11, <2>5, <4>1, <4>4, <4>5
    <3> QED
      BY <3>1, <3>2
  <2>8. ASSUME NEW i \in 1 .. Len(file') PROVE file'[i][1] # "count"
    <3>1. CASE i \in 1 .. DataOffset(N)
      BY <1>3, <2>4, <2>5, <3>1 DEF FileInv, Counted
    <3>2. CASE ~ (i \in 1 .. DataOffset(N))
      <4>1. PICK a \in 1 .. EntriesPerBlock : i = DataOffset(N) + a
        <5>1. i - DataOffset(N) \in 1 .. EntriesPerBlock /\ i = DataOffset(N) + (i - DataOffset(N))
          BY <1>2, <2>5, <3>2
        <5> QED
          BY <5>1
      <4>2. file'[i] = t[a]
        BY <2>5, <4>1
      <4>3. CASE a = 1
        BY <2>2, <4>2, <4>3
      <4>4. CASE a # 1
        <5>1. a \in 2 .. EntriesPerBlock
          BY <1>2, <4>4
        <5> QED
          BY <2>2, <4>2, <5>1
      <4> QED
        BY <4>3, <4>4
    <3> QED
      BY <3>1, <3>2
  <2> QED
    BY <1>3, <2>5, <2>6, <2>7, <2>8 DEF FileInv, Indexed, Counted
<1>15. FullTableParses'
  BY <1>3 DEF FullTableParses
<1> QED
  BY <1>10, <1>13, <1>14, <1>15

LEMMA Extremes ==
    ASSUME NEW S, S \subseteq Int, IsFiniteSet(S), S # {}
    PROVE  /\ Min(S) \in S /\ \A x \in S : Min(S) <= x
           /\ Max(S) \in S /\ \A x \in S : x <= Max(S)
<1>1. PICK n \in Nat, s \in [1 .. Cardinality(S) -> S] :
          /\ n = Cardinality(S)
          /\ \A x \in S : \E i \in 1 .. n : s[i] = x
          /\ \A i, j \in 1 .. n : i < j <=> s[i] < s[j]
  BY NumbersInOrder
<1>2. n > 0
  <2>1. PICK x : x \in S
    OBVIOUS
  <2>2. PICK i \in 1 .. n : s[i] = x
    BY <1>1, <2>1
  <2> QED
    BY <1>1, <2>2
<1>3. s[1] \in S /\ s[n] \in S
  BY <1>1, <1>2
<1>4. ASSUME NEW x \in S PROVE s[1] <= x /\ x <= s[n]
  <2>1. PICK i \in 1 .. n : s[i] = x
    BY <1>1
  <2>2. i = 1 \/ 1 < i
    BY <1>2
  <2>3. i = n \/ i < n
    BY <1>2
  <2>4. s[1] \in Int /\ s[i] \in Int /\ s[n] \in Int
    BY <1>3, <2>1
  <2>5. 1 \in 1 .. n /\ n \in 1 .. n
    BY <1>2
  <2> QED
    BY <1>1, <2>1, <2>2, <2>3, <2>4, <2>5
<1>5. Min(S) \in S /\ \A x \in S : Min(S) <= x
  <2>1. \E x \in S : \A y \in S : x <= y
    BY <1>3, <1>4
  <2> QED
    BY <2>1, Zenon DEF Min
<1>6. Max(S) \in S /\ \A x \in S : x <= Max(S)
  <2>1. \E x \in S : \A y \in S : x >= y
    BY <1>3, <1>4
  <2>2. Max(S) \in S /\ \A y \in S : Max(S) >= y
    BY <2>1, Zenon DEF Max
  <2> QED
    BY <2>2
<1> QED
  BY <1>5, <1>6

\* The entries of the index are found by the ranks of their keys.
IndexUnits(keys, at) == [i \in DOMAIN keys |-> <<"index", keys[i], at[keys[i]]>>]

LEMMA IndexEntries ==
    ASSUME KVsInv, NEW keys, keys = KeysInOrder(Added),
           NEW at, at = [k \in Added |-> DataOffset(Rank(Added, k))],
           NEW units, units = IndexUnits(keys, at)
    PROVE  /\ units \in Seq(Unit) /\ Len(units) = N
           /\ \A k \in Added : units[Rank(Added, k) + 1] =
                                   <<"index", k, DataOffset(Rank(Added, k))>>
           /\ \A i \in 1 .. N : units[i][1] = "index"
<1>1. /\ N \in Nat /\ Added \subseteq Nat
      /\ \A k \in Added : Rank(Added, k) \in 0 .. N - 1
      /\ \A j, k \in Added : Rank(Added, j) = Rank(Added, k) => j = k
      /\ \A i \in 1 .. N : Rank(Added, keys[i]) = i - 1
  BY AddedRanks
<1>2. keys \in [1 .. N -> Added]
  <2>1. Added \subseteq Int /\ IsFiniteSet(Added)
    BY <1>1 DEF KVsInv
  <2> QED
    BY <2>1, NumbersInOrder DEF N
<1>3. DOMAIN units = 1 .. N
  BY <1>2 DEF IndexUnits
<1>4. ASSUME NEW i \in 1 .. N
      PROVE  /\ units[i] = <<"index", keys[i], DataOffset(i - 1)>>
             /\ units[i] \in Unit /\ units[i][1] = "index"
  <2>1. keys[i] \in Added /\ Rank(Added, keys[i]) = i - 1
    BY <1>1, <1>2
  <2>2. units[i] = <<"index", keys[i], DataOffset(i - 1)>>
    BY <1>2, <2>1 DEF IndexUnits
  <2>3. PICK d \in Nat : d = DataOffset(i - 1)
    <3>1. i - 1 \in Nat
      BY <1>1
    <3> QED
      BY <3>1, Offsets
  <2>4. keys[i] \in Nat
    BY <1>1, <2>1
  <2>5. units[i][1] = "index"
    BY <2>2
  <2>6. <<"index", keys[i], d>> \in Unit
    BY <2>4 DEF Unit
  <2> QED
    BY <2>2, <2>3, <2>5, <2>6
<1>5. units \in Seq(Unit) /\ Len(units) = N
  <2>1. units \in [1 .. N -> Unit]
    <3>1. \A i \in 1 .. N : units[i] \in Unit
      BY <1>4
    <3>2. units = [i \in 1 .. N |-> units[i]]
      BY <1>3 DEF IndexUnits
    <3> QED
      BY ONLY <3>1, <3>2
  <2> QED
    BY ONLY <1>1, <2>1
<1>6. ASSUME NEW k \in Added
      PROVE  units[Rank(Added, k) + 1] = <<"index", k, DataOffset(Rank(Added, k))>>
  <2>1. PICK r \in 0 .. N - 1 : r = Rank(Added, k)
    BY <1>1
  <2>2. r + 1 \in 1 .. N /\ (r + 1) - 1 = r
    BY <1>1
  <2>3. keys[r + 1] = k
    <3>1. keys[r + 1] \in Added /\ Rank(Added, keys[r + 1]) = Rank(Added, k)
      BY <1>1, <1>2, <2>1, <2>2
    <3> QED
      BY <1>1, <3>1
  <2> QED
    BY <1>4, <2>1, <2>2, <2>3
<1> QED
  BY <1>4, <1>5, <1>6

LEMMA WriteIndexBlockFormat ==
    ASSUME FormatInv, WriteIndexBlock
    PROVE  FormatInv'
<1> USE DEF FormatInv
<1>1. /\ N \in Nat /\ limit \in Nat /\ Added \subseteq Nat
      /\ \A j \in Added : Rank(Added, j) \in 0 .. N - 1
  BY AddedRanks
<1>2. EntriesPerBlock \in Nat /\ EntriesPerBlock > 0
  BY FormatAssumption
<1>3. /\ phase = "building" /\ phase' = "indexed" /\ entries > 0
      /\ limit' = limit /\ kvs' = kvs /\ index' = index /\ entries' = entries
      /\ range' = <<range[1], Max(DOMAIN index)>>
  BY DEF WriteIndexBlock
<1>4. Added' = Added /\ N' = N
  BY <1>3 DEF Added, N
<1>5. /\ entries = N /\ index = [k \in Added |-> DataOffset(Rank(Added, k))]
      /\ DOMAIN index = Added
  BY <1>3 DEF MemoryInv, InMemory
<1>6. Added # {}
  BY <1>3, <1>5, FS_EmptySet DEF N
<1>7. KVsInv'
  BY <1>3, <1>4, <1>6 DEF KVsInv
<1>8. MemoryInv'
  <2>1. Max(Added) \in Added /\ \A k \in Added : k <= Max(Added)
    <3>1. Added \subseteq Int /\ IsFiniteSet(Added)
      BY <1>1 DEF KVsInv
    <3> QED
      BY <1>6, <3>1, Extremes
  <2>2. range'[1] = range[1] /\ range'[2] = Max(Added)
    BY <1>3, <1>5
  <2>3. range[1] \in Added /\ \A k \in Added : range[1] <= k
    BY <1>3, <1>6 DEF MemoryInv, InMemory
  <2> QED
    BY <1>3, <1>4, <1>5, <2>1, <2>2, <2>3 DEF MemoryInv
<1>9. FileInv'
  <2>1. PICK keys : keys = KeysInOrder(Added)
    OBVIOUS
  <2>2. PICK units \in Seq(Unit) :
          /\ units = IndexUnits(keys, index)
          /\ Len(units) = N
          /\ \A k \in Added : units[Rank(Added, k) + 1] =
                                  <<"index", k, DataOffset(Rank(Added, k))>>
          /\ \A i \in 1 .. N : units[i][1] = "index"
    <3>1. PICK at : at = index
      OBVIOUS
    <3>2. PICK units : units = IndexUnits(keys, at)
      OBVIOUS
    <3>3. KVsInv /\ at = [k \in Added |-> DataOffset(Rank(Added, k))]
      BY <1>5, <3>1
    <3>4. /\ units \in Seq(Unit) /\ Len(units) = N
          /\ \A k \in Added : units[Rank(Added, k) + 1] =
                                  <<"index", k, DataOffset(Rank(Added, k))>>
          /\ \A i \in 1 .. N : units[i][1] = "index"
      BY <2>1, <3>2, <3>3, IndexEntries
    <3>5. units = IndexUnits(keys, index)
      BY <3>1, <3>2
    <3> QED
      BY ONLY <3>4, <3>5
  <2>3. PICK pad \in Nat : pad = DataOffset(IndexBlocks(N)) - N
    <3>1. IndexBlocks(N) \in Nat /\ N <= DataOffset(IndexBlocks(N))
      BY <1>1, BlocksHold
    <3>2. DataOffset(IndexBlocks(N)) \in Nat
      BY <3>1, Offsets
    <3>3. DataOffset(IndexBlocks(N)) - N \in Nat
      BY <1>1, <3>1, <3>2
    <3> QED
      BY <3>3
  <2>4. PICK rest \in Seq(Unit) : /\ rest = Filled(pad, "unset")
                                  /\ Len(rest) = pad
                                  /\ \A i \in 1 .. pad : rest[i][1] # "count"
    BY FilledUnits
  <2>5. file' = file \o (units \o rest)
    <3>1. IndexBlocks(entries) * EntriesPerBlock - entries = pad
      BY <1>5, <2>3 DEF DataOffset
    <3>2. file' = file \o (IndexUnits(keys, index) \o Filled(pad, "unset"))
      <4>1. file' = file \o (IndexUnits(KeysInOrder(DOMAIN index), index)
                    \o Filled(IndexBlocks(entries) * EntriesPerBlock - entries, "unset"))
        BY Zenon DEF WriteIndexBlock, Appended, IndexUnits
      <4>2. KeysInOrder(DOMAIN index) = keys
        BY <1>5, <2>1
      <4> QED
        BY ONLY <3>1, <4>1, <4>2, Zenon
    <3> QED
      BY ONLY <2>2, <2>4, <3>2
  <2>6. file \in Seq(Unit) /\ Len(file) = DataOffset(N)
    BY <1>3 DEF FileInv, Indexed
  <2>7. PICK t \in Seq(Unit) : /\ t = units \o rest
                               /\ Len(t) = N + pad
                               /\ \A i \in 1 .. N : t[i] = units[i]
                               /\ \A i \in 1 .. pad : t[N + i] = rest[i]
    <3>1. /\ units \o rest \in Seq(Unit)
          /\ Len(units \o rest) = Len(units) + Len(rest)
          /\ \A i \in 1 .. Len(units) : (units \o rest)[i] = units[i]
          /\ \A i \in 1 .. Len(rest) : (units \o rest)[Len(units) + i] = rest[i]
      BY ONLY <2>2, <2>4, Appending
    <3> QED
      BY ONLY <2>2, <2>4, <3>1
  <2>8. /\ file' \in Seq(Unit)
        /\ Len(file') = DataOffset(N) + (N + pad)
        /\ \A i \in 1 .. DataOffset(N) : file'[i] = file[i]
        /\ \A i \in 1 .. N + pad : file'[DataOffset(N) + i] = t[i]
        /\ DataOffset(N) \in Nat
    <3>1. /\ file \o t \in Seq(Unit)
          /\ Len(file \o t) = Len(file) + Len(t)
          /\ \A i \in 1 .. Len(file) : (file \o t)[i] = file[i]
          /\ \A i \in 1 .. Len(t) : (file \o t)[Len(file) + i] = t[i]
          /\ Len(file) \in Nat
      BY <2>6, <2>7, Appending
    <3>2. file' = file \o t
      BY ONLY <2>5, <2>7
    <3> QED
      BY ONLY <2>6, <2>7, <3>1, <3>2
  <2>9. Len(file') = CountStart
    <3>1. N + pad = DataOffset(IndexBlocks(N)) 
      <4>1. DataOffset(IndexBlocks(N)) \in Nat
        BY <1>1, BlocksHold, Offsets
      <4> QED
        BY <1>1, <2>3, <4>1
    <3> QED
      BY <2>8, <3>1 DEF CountStart
  <2>10. ASSUME NEW k \in Added
         PROVE  /\ file'[DataOffset(Rank(Added, k)) + 1] = <<"kv", k, k>>
                /\ file'[IndexStart + Rank(Added, k) + 1] = <<"index", k, DataOffset(Rank(Added, k))>>
    <3>1. PICK r \in Nat : r = Rank(Added, k) /\ r < N
      BY <1>1
    <3>2. DataOffset(r) + EntriesPerBlock <= DataOffset(N) /\ DataOffset(r) \in Nat
      BY <1>1, <3>1, Offsets
    <3>3. DataOffset(r) + 1 \in 1 .. DataOffset(N)
      BY <1>2, <2>8, <3>2
    <3>4. file[DataOffset(r) + 1] = <<"kv", k, k>>
      BY <3>1 DEF FileInv
    <3>5. r + 1 \in 1 .. N /\ r + 1 \in 1 .. N + pad
      BY <1>1, <3>1
    <3>6. file'[DataOffset(N) + (r + 1)] = <<"index", k, DataOffset(r)>>
      <4>1. units[r + 1] = <<"index", k, DataOffset(r)>>
        BY <2>2, <3>1
      <4> QED
        BY ONLY <2>7, <2>8, <3>5, <4>1
    <3>7. DataOffset(N) + (r + 1) = IndexStart + r + 1
      BY <2>8, <3>1 DEF IndexStart
    <3> QED
      BY <2>8, <3>1, <3>3, <3>4, <3>6, <3>7
  <2>11. ASSUME NEW i \in 1 .. Len(file') PROVE file'[i][1] # "count"
    <3>1. CASE i \in 1 .. DataOffset(N)
      <4>1. file[i][1] # "count"
        BY <1>3, <2>6, <3>1 DEF FileInv, Counted
      <4> QED
        BY <2>8, <3>1, <4>1
    <3>2. CASE ~ (i \in 1 .. DataOffset(N))
      <4>1. PICK a \in 1 .. N + pad : i = DataOffset(N) + a
        <5>1. i - DataOffset(N) \in 1 .. N + pad /\ i = DataOffset(N) + (i - DataOffset(N))
          BY <1>1, <2>8, <3>2
        <5> QED
          BY <5>1
      <4>2. file'[i] = t[a]
        BY <2>8, <4>1
      <4>3. CASE a \in 1 .. N
        <5>1. units[a][1] = "index" /\ t[a] = units[a]
          BY <2>2, <2>7, <4>3
        <5> QED
          BY <4>2, <5>1
      <4>4. CASE ~ (a \in 1 .. N)
        <5>1. PICK b \in 1 .. pad : a = N + b
          <6>1. a - N \in 1 .. pad /\ a = N + (a - N)
            BY <1>1, <4>4
          <6> QED
            BY <6>1
        <5>2. t[a] = rest[b] /\ rest[b][1] # "count"
          BY <2>4, <2>7, <5>1
        <5> QED
          BY <4>2, <5>2
      <4> QED
        BY <4>3, <4>4
    <3> QED
      BY <3>1, <3>2
  <2>12. IndexStart' = IndexStart /\ CountStart' = CountStart
    BY <1>4 DEF IndexStart, CountStart
  <2> QED
    BY <1>3, <1>4, <2>8, <2>9, <2>10, <2>11, <2>12 DEF FileInv, Indexed, Counted
<1>10. FullTableParses'
  BY <1>3 DEF FullTableParses
<1> QED
  BY <1>7, <1>8, <1>9, <1>10

LEMMA WriteNumberOfEntriesFormat ==
    ASSUME FormatInv, WriteNumberOfEntries
    PROVE  FormatInv'
<1> USE DEF FormatInv
<1>1. /\ N \in Nat /\ Added \subseteq Nat
      /\ \A j \in Added : Rank(Added, j) \in 0 .. N - 1
  BY AddedRanks
<1>2. EntriesPerBlock \in Nat /\ EntriesPerBlock > 0
  BY FormatAssumption
<1>3. /\ phase = "indexed" /\ phase' = "persisted"
      /\ limit' = limit /\ kvs' = kvs /\ index' = index /\ entries' = entries /\ range' = range
  BY DEF WriteNumberOfEntries
<1>4. Added' = Added /\ N' = N /\ IndexStart' = IndexStart /\ CountStart' = CountStart
  BY <1>3 DEF Added, N, IndexStart, CountStart
<1>5. KVsInv'
  BY <1>3, <1>4 DEF KVsInv, Indexed
<1>6. MemoryInv'
  BY <1>3, <1>4 DEF MemoryInv, InMemory, Indexed
<1>7. FileInv'
  <2>1. <<"count", N, 0>> \in Unit
    BY <1>1 DEF Unit
  <2>2. PICK t \in Seq(Unit) :
            /\ t = <<<<"count", N, 0>>>> \o Filled(EntriesPerBlock - 1, "zero")
            /\ Len(t) = EntriesPerBlock
            /\ t[1] = <<"count", N, 0>>
            /\ \A i \in 2 .. EntriesPerBlock : t[i][1] # "count"
    BY <2>1, BlockOf
  <2>3. file' = file \o t
    <3>1. entries = N
      BY <1>3 DEF MemoryInv, InMemory
    <3> QED
      BY <2>2, <3>1 DEF WriteNumberOfEntries, Appended
  <2>4. file \in Seq(Unit) /\ Len(file) = CountStart
    BY <1>3 DEF FileInv, Indexed, Counted
  <2>5. /\ file' \in Seq(Unit)
        /\ Len(file') = CountStart + EntriesPerBlock
        /\ \A i \in 1 .. CountStart : file'[i] = file[i]
        /\ \A i \in 1 .. EntriesPerBlock : file'[CountStart + i] = t[i]
        /\ CountStart \in Nat
    <3>1. /\ file \o t \in Seq(Unit)
          /\ Len(file \o t) = Len(file) + Len(t)
          /\ \A i \in 1 .. Len(file) : (file \o t)[i] = file[i]
          /\ \A i \in 1 .. Len(t) : (file \o t)[Len(file) + i] = t[i]
          /\ Len(file) \in Nat
      BY <2>2, <2>4, Appending
    <3> QED
      BY ONLY <2>2, <2>3, <2>4, <3>1
  <2>6. /\ DataOffset(N) \in Nat /\ DataOffset(N) + N <= CountStart
        /\ IndexStart = DataOffset(N)
    <3>1. IndexBlocks(N) \in Nat /\ N <= DataOffset(IndexBlocks(N))
      BY <1>1, BlocksHold
    <3>2. DataOffset(N) \in Nat /\ DataOffset(IndexBlocks(N)) \in Nat
      BY <1>1, <3>1, Offsets
    <3> QED
      BY <1>1, <3>1, <3>2 DEF CountStart, IndexStart
  <2>7. ASSUME NEW k \in Added
        PROVE  /\ file'[DataOffset(Rank(Added, k)) + 1] = <<"kv", k, k>>
               /\ file'[IndexStart + Rank(Added, k) + 1] = <<"index", k, DataOffset(Rank(Added, k))>>
    <3>1. PICK r \in Nat : r = Rank(Added, k) /\ r < N
      BY <1>1
    <3>2. DataOffset(r) + EntriesPerBlock <= DataOffset(N) /\ DataOffset(r) \in Nat
      BY <1>1, <3>1, Offsets
    <3>3. DataOffset(r) + 1 \in 1 .. CountStart /\ IndexStart + r + 1 \in 1 .. CountStart
      BY <1>1, <1>2, <2>5, <2>6, <3>1, <3>2
    <3>4. /\ file[DataOffset(r) + 1] = <<"kv", k, k>>
          /\ file[IndexStart + r + 1] = <<"index", k, DataOffset(r)>>
      BY <1>3, <3>1 DEF FileInv, Indexed
    <3> QED
      BY <2>5, <3>1, <3>3, <3>4
  <2>8. file'[CountStart + 1] = <<"count", N, 0>>
    BY <1>2, <2>2, <2>5
  <2>9. ASSUME NEW i \in 1 .. Len(file'), file'[i][1] = "count" PROVE i = CountStart + 1
    <3>1. CASE i \in 1 .. CountStart
      <4>1. file[i][1] # "count"
        BY <1>3, <2>4, <3>1 DEF FileInv, Counted
      <4> QED
        BY <2>5, <2>9, <3>1, <4>1
    <3>2. CASE ~ (i \in 1 .. CountStart)
      <4>1. PICK a \in 1 .. EntriesPerBlock : i = CountStart + a
        <5>1. i - CountStart \in 1 .. EntriesPerBlock /\ i = CountStart + (i - CountStart)
          BY <1>2, <2>5, <3>2
        <5> QED
          BY <5>1
      <4>2. t[a][1] = "count"
        BY <2>5, <2>9, <4>1
      <4>3. ~ (a \in 2 .. EntriesPerBlock)
        BY <2>2, <4>2
      <4> QED
        BY <1>2, <4>1, <4>3
    <3> QED
      BY <3>1, <3>2
  <2> QED
    BY <1>3, <1>4, <2>5, <2>7, <2>8, <2>9 DEF FileInv, Indexed, Counted
<1>8. FullTableParses'
  BY <1>3 DEF FullTableParses
<1> QED
  BY <1>5, <1>6, <1>7, <1>8

-----------------------------------------------------------------------------
(* Steps of the session that reads *)

LEMMA ReopenFormat ==
    ASSUME FormatInv, Reopen
    PROVE  FormatInv'
<1> USE DEF FormatInv
<1>1. /\ phase = "persisted" /\ phase' = "stored"
      /\ limit' = limit /\ kvs' = kvs /\ file' = file
  BY DEF Reopen
<1>2. Added' = Added /\ N' = N /\ IndexStart' = IndexStart /\ CountStart' = CountStart
  BY <1>1 DEF Added, N, IndexStart, CountStart
<1>3. KVsInv'
  BY <1>1, <1>2 DEF KVsInv, Indexed
<1>4. MemoryInv'
  BY <1>1 DEF MemoryInv, InMemory
<1>5. FileInv'
  BY <1>1, <1>2 DEF FileInv, Indexed, Counted
<1>6. FullTableParses'
  BY <1>1 DEF FullTableParses
<1> QED
  BY <1>3, <1>4, <1>5, <1>6

\* The count of a full table whose index fills whole blocks is where the parser looks,
\* and of no other.
LEMMA CountPlaced ==
    ASSUME KVsInv
    PROVE  /\ CountStart \in Nat /\ CountOffset \in Nat
           /\ CountOffset = CountStart => N = limit /\ limit % EntriesPerBlock = 0
           /\ N = limit /\ limit % EntriesPerBlock = 0 => CountOffset = CountStart
           /\ limit % EntriesPerBlock = 0 => CountOffset % EntriesPerBlock = 0
           /\ DataOffset(N) \in Nat /\ DataOffset(N) + N <= CountStart
<1>1. N \in Nat /\ limit \in Nat /\ N <= limit
  BY AddedRanks DEF KVsInv
<1>2. EntriesPerBlock \in Nat /\ EntriesPerBlock > 0
  BY FormatAssumption
<1>3. /\ IndexBlocks(N) \in Nat
      /\ N <= DataOffset(IndexBlocks(N))
      /\ DataOffset(IndexBlocks(N)) < N + EntriesPerBlock
      /\ N % EntriesPerBlock = 0 => DataOffset(IndexBlocks(N)) = N
  BY <1>1, BlocksHold
<1>4. /\ DataOffset(N) \in Nat /\ DataOffset(limit) \in Nat
      /\ DataOffset(IndexBlocks(N)) \in Nat
      /\ N < limit => DataOffset(N) + EntriesPerBlock <= DataOffset(limit)
  BY <1>1, <1>3, Offsets
<1>5. CountOffset = DataOffset(limit) + limit
  BY DEF CountOffset, IndexOffset
<1>6. limit % EntriesPerBlock = 0 => CountOffset % EntriesPerBlock = 0
  <2>1. SUFFICES ASSUME limit % EntriesPerBlock = 0 PROVE CountOffset % EntriesPerBlock = 0
    OBVIOUS
  <2>2. IndexBlocks(limit) \in Nat /\ DataOffset(IndexBlocks(limit)) = limit
    BY <1>1, <2>1, BlocksHold
  <2>3. limit + IndexBlocks(limit) \in Nat
    BY <1>1, <2>2
  <2>4. CountOffset = DataOffset(limit + IndexBlocks(limit))
    BY <1>1, <1>5, <2>2, Offsets
  <2> QED
    BY <2>3, <2>4, Offsets
<1>7. CountOffset = CountStart => N = limit
  BY <1>1, <1>2, <1>3, <1>4, <1>5 DEF CountStart
<1>8. CountOffset = CountStart => limit % EntriesPerBlock = 0
  <2>1. SUFFICES ASSUME CountOffset = CountStart PROVE limit % EntriesPerBlock = 0
    OBVIOUS
  <2>2. limit = DataOffset(IndexBlocks(N))
    BY <1>1, <1>4, <1>5, <1>7, <2>1 DEF CountStart
  <2> QED
    BY <1>3, <2>2, Offsets
<1> QED
  BY <1>1, <1>3, <1>4, <1>5, <1>6, <1>7, <1>8 DEF CountStart

LEMMA ParseFormat ==
    ASSUME FormatInv, Parse
    PROVE  FormatInv'
<1> USE DEF FormatInv
<1>1. /\ phase = "stored" /\ limit' = limit /\ kvs' = kvs /\ file' = file
      /\ phase' \in {"parsed", "misread", "unread"}
  BY DEF Parse
<1>2. Added' = Added /\ N' = N /\ IndexStart' = IndexStart /\ CountStart' = CountStart
  BY <1>1 DEF Added, N, IndexStart, CountStart
<1>3. KVsInv'
  BY <1>1, <1>2 DEF KVsInv, Indexed
<1>4. FileInv'
  BY <1>1, <1>2 DEF FileInv, Indexed, Counted
<1>5. /\ N \in Nat /\ limit \in Nat /\ N <= limit /\ Added \subseteq Nat
      /\ \A j \in Added : Rank(Added, j) \in 0 .. N - 1
      /\ \A i \in 0 .. N - 1 : \E k \in Added : Rank(Added, k) = i
  BY AddedRanks DEF KVsInv
<1>6. /\ CountStart \in Nat /\ CountOffset \in Nat
      /\ CountOffset = CountStart => N = limit /\ limit % EntriesPerBlock = 0
      /\ N = limit /\ limit % EntriesPerBlock = 0 => CountOffset = CountStart
      /\ limit % EntriesPerBlock = 0 => CountOffset % EntriesPerBlock = 0
      /\ DataOffset(N) \in Nat /\ DataOffset(N) + N <= CountStart
  BY CountPlaced
<1>7. /\ file \in Seq(Unit) /\ Len(file) = CountStart + EntriesPerBlock
      /\ file[CountStart + 1] = <<"count", N, 0>>
      /\ \A k \in Added : file[IndexStart + Rank(Added, k) + 1] =
                              <<"index", k, DataOffset(Rank(Added, k))>>
      /\ \A i \in 1 .. Len(file) : file[i][1] = "count" => i = CountStart + 1
  BY <1>1 DEF FileInv, Indexed, Counted
<1>8. EntriesPerBlock \in Nat /\ EntriesPerBlock > 0
  BY FormatAssumption
<1>9. CountRead[1] = "count" => N = limit /\ limit % EntriesPerBlock = 0 /\ CountRead[2] = N
  <2>1. SUFFICES ASSUME CountRead[1] = "count"
                 PROVE  N = limit /\ limit % EntriesPerBlock = 0 /\ CountRead[2] = N
    OBVIOUS
  <2>2. CountOffset < Len(file) /\ CountRead = file[CountOffset + 1]
    BY <2>1 DEF CountRead, Read
  <2>3. CountOffset + 1 \in 1 .. Len(file)
    BY <1>6, <1>7, <1>8, <2>2
  <2>4. CountOffset = CountStart
    BY <1>6, <1>7, <2>1, <2>2, <2>3
  <2> QED
    BY <1>6, <1>7, <2>2, <2>4
<1>10. N = limit /\ limit % EntriesPerBlock = 0 => CountRead[1] = "count"
  BY <1>6, <1>7, <1>8 DEF CountRead, Read
<1>11. MemoryInv' /\ FullTableParses'
  <2>1. CASE phase' = "parsed"
    <3>1. /\ CountRead[1] = "count" /\ entries' = CountRead[2]
          /\ index' = [k \in {u[2] : u \in IndexRead(entries')} |->
                         (CHOOSE u \in IndexRead(entries') : u[2] = k)[3]]
          /\ range' = <<Min(DOMAIN index'), Max(DOMAIN index')>>
      BY <2>1 DEF Parse
    <3>2. entries' = N /\ N = limit /\ limit % EntriesPerBlock = 0
      BY <1>9, <3>1
    <3>3. IndexRead(N) = {<<"index", k, DataOffset(Rank(Added, k))>> : k \in Added}
      <4>1. IndexOffset = IndexStart /\ IndexStart = DataOffset(N)
        BY <3>2 DEF IndexOffset, IndexStart
      <4>2. ASSUME NEW k \in Added
            PROVE  Read(IndexOffset + Rank(Added, k)) = <<"index", k, DataOffset(Rank(Added, k))>>
        <5>1. Rank(Added, k) \in 0 .. N - 1
          BY <1>5
        <5>2. IndexStart + Rank(Added, k) < Len(file)
          BY <1>5, <1>6, <1>7, <1>8, <4>1, <5>1
        <5> QED
          BY <1>7, <4>1, <5>2 DEF Read
      <4>3. IndexRead(N) = {Read(IndexOffset + Rank(Added, k)) : k \in Added}
        BY <1>5 DEF IndexRead
      <4> QED
        BY <4>2, <4>3
    <3>4. {u[2] : u \in IndexRead(N)} = Added
      <4>1. ASSUME NEW u \in IndexRead(N) PROVE u[2] \in Added
        BY <3>3
      <4>2. ASSUME NEW k \in Added PROVE \E u \in IndexRead(N) : k = u[2]
        <5>1. PICK u : u = <<"index", k, DataOffset(Rank(Added, k))>>
          OBVIOUS
        <5>2. u \in IndexRead(N)
          BY <3>3, <5>1
        <5>3. k = u[2]
          BY <5>1
        <5> QED
          BY <5>2, <5>3
      <4> QED
        BY <4>1, <4>2
    <3>5. ASSUME NEW k \in Added
          PROVE  (CHOOSE u \in IndexRead(N) : u[2] = k)[3] = DataOffset(Rank(Added, k))
      <4>1. PICK v : v = <<"index", k, DataOffset(Rank(Added, k))>>
        OBVIOUS
      <4>2. v \in IndexRead(N) /\ v[2] = k
        BY <3>3, <4>1
      <4>3. \A u \in IndexRead(N) : u[2] = k => u = v
        BY <3>3, <4>1
      <4>4. (CHOOSE u \in IndexRead(N) : u[2] = k) = v
        BY <4>2, <4>3, Zenon
      <4>5. v[3] = DataOffset(Rank(Added, k))
        BY <4>1
      <4> QED
        BY <4>4, <4>5, Zenon
    <3>6. index' = [k \in Added |-> DataOffset(Rank(Added, k))] /\ DOMAIN index' = Added
      BY <3>1, <3>2, <3>4, <3>5
    <3>7. range' = <<Min(Added), Max(Added)>>
      BY <3>1, <3>6
    <3>8. /\ Min(Added) \in Added /\ \A x \in Added : Min(Added) <= x
          /\ Max(Added) \in Added /\ \A x \in Added : x <= Max(Added)
      <4>1. Added \subseteq Int /\ IsFiniteSet(Added) /\ Added # {}
        BY <1>1, <1>5 DEF KVsInv, Indexed
      <4> QED
        BY <4>1, Extremes
    <3>9. range'[1] = Min(Added) /\ range'[2] = Max(Added)
      BY <3>7
    <3>10. MemoryInv'
      BY <1>2, <3>2, <3>6, <3>8, <3>9 DEF MemoryInv
    <3>11. FullTableParses'
      BY <1>1, <2>1, <3>2 DEF FullTableParses, KVsInv
    <3> QED
      BY <3>10, <3>11
  <2>2. CASE phase' # "parsed"
    <3>1. \/ CountRead[1] # "count"
          \/ CountOffset % EntriesPerBlock # 0
      BY <2>2 DEF Parse
    <3>2. ~ (Cardinality(kvs') = limit' /\ limit' % EntriesPerBlock = 0)
      BY <1>1, <1>5, <1>6, <1>10, <3>1 DEF KVsInv
    <3>3. FullTableParses'
      BY <2>2, <3>2 DEF FullTableParses
    <3>4. MemoryInv'
      BY <1>1, <2>2 DEF MemoryInv, InMemory
    <3> QED
      BY <3>3, <3>4
  <2> QED
    BY <2>1, <2>2
<1> QED
  BY <1>3, <1>4, <1>11

LEMMA StutterFormat ==
    ASSUME FormatInv, UNCHANGED vars
    PROVE  FormatInv'
<1>1. /\ Added' = Added /\ N' = N /\ IndexStart' = IndexStart /\ CountStart' = CountStart
      /\ Indexed' = Indexed /\ Counted' = Counted /\ InMemory' = InMemory
  BY DEF vars, Added, N, IndexStart, CountStart, Indexed, Counted, InMemory
<1> QED
  BY <1>1 DEF vars, FormatInv, KVsInv, MemoryInv, FileInv, FullTableParses

-----------------------------------------------------------------------------
(* Every step, and the theorems *)

LEMMA StepFormat == FormatInv /\ [Next]_vars => FormatInv'
<1> SUFFICES ASSUME FormatInv, [Next]_vars PROVE FormatInv'
  OBVIOUS
<1>1. CASE \E k \in Keys : AddKV(k)
  BY <1>1, AddKVFormat
<1>2. CASE WriteIndexBlock
  BY <1>2, WriteIndexBlockFormat
<1>3. CASE WriteNumberOfEntries
  BY <1>3, WriteNumberOfEntriesFormat
<1>4. CASE Reopen
  BY <1>4, ReopenFormat
<1>5. CASE Parse
  BY <1>5, ParseFormat
<1>6. CASE Rest
  BY <1>6, StutterFormat DEF Rest
<1>7. CASE UNCHANGED vars
  BY <1>7, StutterFormat
<1> QED
  BY <1>1, <1>2, <1>3, <1>4, <1>5, <1>6, <1>7 DEF Next

\* The versions, the memory of the session that writes or has parsed, and the
\* layout of the file agree.
THEOREM Format == Spec => []FormatInv
<1>1. Init => FormatInv
  BY InitFormat
<1>2. FormatInv /\ [Next]_vars => FormatInv'
  BY StepFormat
<1> QED
  BY <1>1, <1>2, PTL DEF Spec

\* What is read at the offset that the index has for a key.
LEMMA DataRead ==
    ASSUME FormatInv, Usable, NEW k \in Added
    PROVE  ReadKV(DataOffset(Rank(Added, k))) = Version(k)
<1>1. /\ N \in Nat /\ \A j \in Added : Rank(Added, j) \in 0 .. N - 1
  BY AddedRanks DEF FormatInv
<1>2. PICK r \in Nat : r = Rank(Added, k) /\ r < N
  BY <1>1
<1>3. /\ DataOffset(r) + EntriesPerBlock <= DataOffset(N) /\ DataOffset(r) \in Nat
  BY <1>1, <1>2, Offsets
<1>4. CountStart \in Nat /\ DataOffset(N) \in Nat /\ DataOffset(N) + N <= CountStart
  BY CountPlaced DEF FormatInv
<1>5. /\ Len(file) = CountStart + EntriesPerBlock
      /\ file[DataOffset(r) + 1] = <<"kv", k, k>>
  BY <1>2 DEF FormatInv, FileInv, Usable, Indexed, Counted
<1>6. EntriesPerBlock \in Nat /\ EntriesPerBlock > 0
  BY FormatAssumption
<1>7. DataOffset(r) < Len(file)
  BY <1>1, <1>3, <1>4, <1>5, <1>6
<1>8. Read(DataOffset(r)) = <<"kv", k, k>>
  BY <1>5, <1>7 DEF Read
<1> QED
  BY <1>2, <1>8 DEF ReadKV, Version

LEMMA FormatFindsAll == FormatInv => LookupFindsAll
<1> SUFFICES ASSUME FormatInv, Usable, NEW k \in Keys
             PROVE  Lookup(k) = {p \in kvs : p.key = k}
  BY DEF LookupFindsAll
<1>1. kvs = {Version(j) : j \in Added} /\ \A j : Version(j).key = j
  BY DEF FormatInv, KVsInv, Version
<1>2. index = [j \in Added |-> DataOffset(Rank(Added, j))] /\ DOMAIN index = Added
  BY DEF FormatInv, MemoryInv, InMemory, Usable
<1>3. k \in Nat
  BY FormatAssumption
<1>4. CASE k \in Added
  <2>1. /\ range[1] \in Added /\ range[2] \in Added
        /\ range[1] <= k /\ k <= range[2]
    BY <1>4 DEF FormatInv, MemoryInv, InMemory, Usable, Indexed
  <2>2. range[1] \in Nat /\ range[2] \in Nat
    BY <2>1, AddedRanks DEF FormatInv
  <2>3. ReadKV(index[k]) = Version(k)
    BY <1>2, <1>4, DataRead
  <2>4. Lookup(k) = {Version(k)}
    BY <1>2, <1>3, <1>4, <2>1, <2>2, <2>3 DEF Lookup
  <2> QED
    BY <1>1, <1>4, <2>4
<1>5. CASE k \notin Added
  <2>1. Lookup(k) = {}
    BY <1>2, <1>5 DEF Lookup
  <2> QED
    BY <1>1, <1>5, <2>1
<1> QED
  BY <1>4, <1>5

\* The object that wrote the file finds what was added, and so does one that
\* parsed it.
THEOREM FindsAll == Spec => []LookupFindsAll
  BY Format, FormatFindsAll, PTL

LEMMA FormatFindsRest == FormatInv => SeekFindsRest
<1> SUFFICES ASSUME FormatInv, Usable, NEW k \in Keys
             PROVE  Sought(k) = {p \in kvs : k <= p.key}
  BY DEF SeekFindsRest
<1>1. kvs = {Version(j) : j \in Added} /\ \A j : Version(j).key = j
  BY DEF FormatInv, KVsInv, Version
<1>2. /\ index = [j \in Added |-> DataOffset(Rank(Added, j))] /\ DOMAIN index = Added
      /\ entries = N
  BY DEF FormatInv, MemoryInv, InMemory, Usable
<1>3. k \in Nat
  BY FormatAssumption
<1>4. /\ N \in Nat /\ Added \subseteq Nat
      /\ \A j \in Added : Rank(Added, j) \in 0 .. N - 1
      /\ \A i, j \in Added : i < j <=> Rank(Added, i) < Rank(Added, j)
      /\ \A i \in 0 .. N - 1 : \E j \in Added : Rank(Added, j) = i
  BY AddedRanks DEF FormatInv
<1>5. PICK at : at = {j \in Added : k <= j}
  OBVIOUS
<1>6. IndexesFrom(k) = IF at = {} THEN {} ELSE index[Min(at)] \div EntriesPerBlock .. N - 1
  BY <1>2, <1>5 DEF IndexesFrom
<1>7. CASE at = {}
  <2>1. Sought(k) = {}
    BY <1>6, <1>7 DEF Sought
  <2>2. \A j \in Added : ~ (k <= j)
    BY <1>5, <1>7
  <2> QED
    BY <1>1, <2>1, <2>2
<1>8. CASE at # {}
  <2>1. at \in SUBSET Added /\ at \subseteq Int /\ IsFiniteSet(at)
    <3>1. at \in SUBSET Added
      BY <1>5
    <3>2. IsFiniteSet(Added)
      BY DEF FormatInv, KVsInv
    <3>3. IsFiniteSet(at)
      BY ONLY <3>1, <3>2, FS_Subset
    <3> QED
      BY <1>4, <3>1, <3>3
  <2>2. PICK m \in at : m = Min(at) /\ \A j \in at : m <= j
    BY <1>8, <2>1, Extremes
  <2>3. m \in Added /\ m \in Nat /\ k <= m
    BY <1>4, <1>5, <2>2
  <2>4. index[m] \div EntriesPerBlock = Rank(Added, m) /\ Rank(Added, m) \in Nat
    <3>1. index[m] = DataOffset(Rank(Added, m)) /\ Rank(Added, m) \in Nat
      BY <1>2, <1>4, <2>3
    <3> QED
      BY <3>1, Offsets
  <2>5. IndexesFrom(k) = Rank(Added, m) .. N - 1
    BY <1>6, <1>8, <2>2, <2>4
  <2>6. ASSUME NEW j \in Added PROVE k <= j <=> Rank(Added, j) \in IndexesFrom(k)
    <3>1. j \in Nat /\ Rank(Added, j) \in 0 .. N - 1 /\ Rank(Added, m) \in 0 .. N - 1
      BY <1>4, <2>3
    <3>2. k <= j <=> m <= j
      BY <1>3, <1>5, <2>2, <2>3, <3>1
    <3>3. j < m <=> Rank(Added, j) < Rank(Added, m)
      BY <1>4, <2>3
    <3> QED
      BY <1>4, <2>3, <2>5, <3>1, <3>2, <3>3
  <2>7. ASSUME NEW i \in IndexesFrom(k)
        PROVE  \E j \in Added : k <= j /\ ReadKV(DataOffset(i)) = Version(j)
    <3>1. i \in 0 .. N - 1
      BY <1>4, <2>4, <2>5
    <3>2. PICK j \in Added : Rank(Added, j) = i
      BY <1>4, <3>1
    <3>3. ReadKV(DataOffset(i)) = Version(j)
      BY <3>2, DataRead
    <3>4. k <= j
      BY <2>6, <2>7, <3>2
    <3> QED
      BY <3>3, <3>4
  <2>8. ASSUME NEW j \in Added, k <= j
        PROVE  \E i \in IndexesFrom(k) : ReadKV(DataOffset(i)) = Version(j)
    <3>1. Rank(Added, j) \in IndexesFrom(k)
      BY <2>6, <2>8
    <3> QED
      BY <3>1, DataRead
  <2>9. \A p \in Sought(k) : p \in kvs /\ k <= p.key
    BY <1>1, <2>7 DEF Sought
  <2>10. \A p \in kvs : k <= p.key => p \in Sought(k)
    BY <1>1, <2>8 DEF Sought
  <2> QED
    BY <2>9, <2>10
<1> QED
  BY <1>7, <1>8

\* Where a Seek lands every version from the start key on follows.
THEOREM FindsRest == Spec => []SeekFindsRest
  BY Format, FormatFindsRest, PTL

\* A full table whose index fills whole blocks is parsed, and no other.
THEOREM FullParses == Spec => []FullTableParses
<1>1. FormatInv => FullTableParses
  BY DEF FormatInv
<1> QED
  BY <1>1, Format, PTL


-----------------------------------------------------------------------------
(* Manifests. The words of a manifest, and where its levels begin in them. *)

Numbers == Seq(Seq(Nat))

CodecInv ==
    /\ sst_files \in Seq(Seq(TableIds)) /\ Len(sst_files) \in LevelCounts
    /\ n_levels \in LevelCounts
    /\ stage \in {"filling", "overrun", "written", "read", "thrown"}
    /\ stage = "written" => \E pad \in Seq(Nat) : block = Words(sst_files) \o pad
    /\ RoundTrip

-----------------------------------------------------------------------------
(* The words *)

\* The ids of a level, after their number.
Prefixed(levels) == [l \in DOMAIN levels |-> <<Len(levels[l])>> \o levels[l]]

LEMMA CountedLevels ==
    ASSUME NEW levels \in Numbers
    PROVE  /\ Prefixed(levels) \in Seq(Seq(Nat)) /\ Len(Prefixed(levels)) = Len(levels)
           /\ \A l \in 1 .. Len(levels) :
                /\ Len(levels[l]) \in Nat
                /\ Len(Prefixed(levels)[l]) = Len(levels[l]) + 1
                /\ Prefixed(levels)[l][1] = Len(levels[l])
                /\ \A j \in 1 .. Len(levels[l]) : Prefixed(levels)[l][j + 1] = levels[l][j]
<1>1. Len(levels) \in Nat /\ DOMAIN levels = 1 .. Len(levels)
  BY DEF Numbers
<1>2. ASSUME NEW l \in 1 .. Len(levels)
      PROVE  /\ Prefixed(levels)[l] \in Seq(Nat)
             /\ Len(levels[l]) \in Nat
             /\ Len(Prefixed(levels)[l]) = Len(levels[l]) + 1
             /\ Prefixed(levels)[l][1] = Len(levels[l])
             /\ \A j \in 1 .. Len(levels[l]) : Prefixed(levels)[l][j + 1] = levels[l][j]
  <2>1. PICK q \in Seq(Nat) : q = levels[l]
    BY DEF Numbers
  <2>2. PICK n \in Nat : n = Len(q)
    OBVIOUS
  <2>3. <<n>> \in Seq(Nat) /\ Len(<<n>>) = 1 /\ <<n>>[1] = n
    OBVIOUS
  <2>4. PICK c \in Seq(Nat) :
            /\ c = <<n>> \o q /\ Len(c) = n + 1
            /\ c[1] = n /\ \A j \in 1 .. n : c[j + 1] = q[j]
    <3>1. /\ <<n>> \o q \in Seq(Nat) /\ Len(<<n>> \o q) = n + 1
          /\ (<<n>> \o q)[1] = n /\ \A j \in 1 .. n : (<<n>> \o q)[j + 1] = q[j]
      BY <2>2, <2>3
    <3> QED
      BY <3>1
  <2>5. Prefixed(levels)[l] = c
    BY <1>1, <2>1, <2>2, <2>4 DEF Prefixed
  <2> QED
    BY <2>1, <2>2, <2>4, <2>5
<1>3. Prefixed(levels) \in Seq(Seq(Nat)) /\ Len(Prefixed(levels)) = Len(levels)
  <2>1. \A l \in 1 .. Len(levels) : Prefixed(levels)[l] \in Seq(Nat)
    BY <1>2
  <2>2. Prefixed(levels) = [l \in 1 .. Len(levels) |-> Prefixed(levels)[l]]
    BY <1>1 DEF Prefixed
  <2> QED
    BY ONLY <1>1, <2>1, <2>2
<1> QED
  BY <1>2, <1>3

\* The function that Offset computes.
AreOffsets(words, g) ==
    g = [l \in 1 .. words[1] + 1 |-> IF l = 1 THEN 2 ELSE g[l - 1] + 1 + words[g[l - 1]]]

\* Where the words of the levels are.
Laid(levels, words, g) ==
    /\ words[1] = Len(levels)
    /\ g \in [1 .. Len(levels) + 1 -> Nat] /\ g[1] = 2
    /\ \A l \in 1 .. Len(levels) :
         /\ g[l + 1] = g[l] + 1 + words[g[l]]
         /\ words[g[l]] = Len(levels[l])
         /\ \A j \in 1 .. Len(levels[l]) : words[g[l] + j] = levels[l][j]

LEMMA WordsLaid ==
    ASSUME NEW levels \in Numbers, NEW pad \in Seq(Nat), NEW words, words = Words(levels) \o pad
    PROVE  \E g : Laid(levels, words, g)
<1>1. PICK n \in Nat : n = Len(levels)
  BY DEF Numbers
<1>2. PICK s \in Seq(Seq(Nat)) :
          /\ s = Prefixed(levels) /\ Len(s) = n
          /\ \A l \in 1 .. n : /\ Len(levels[l]) \in Nat
                               /\ Len(s[l]) = Len(levels[l]) + 1
                               /\ s[l][1] = Len(levels[l])
                               /\ \A j \in 1 .. Len(levels[l]) : s[l][j + 1] = levels[l][j]
  BY <1>1, CountedLevels
<1>3. PICK f \in [0 .. n -> Seq(Nat)] : Concatenates(f, s, n) /\ FlattenSeq(s) = f[n]
  BY <1>2, Flattened
<1>4. Whole(Nat, s, f)
  BY <1>2, <1>3 DEF Whole
<1>5. n \in 0 .. n /\ f[n] \in Seq(Nat)
  BY <1>3
<1>6. PICK last \in [0 .. n -> Nat] : \A l \in 0 .. n : last[l] = Len(f[l])
  <2>1. [l \in 0 .. n |-> Len(f[l])] \in [0 .. n -> Nat]
    BY <1>3
  <2> QED
    BY <2>1
<1>7. words = (<<n>> \o f[n]) \o pad
  BY <1>1, <1>2, <1>3 DEF Words, Prefixed
<1>8. words[1] = n /\ \A i \in 1 .. last[n] : words[i + 1] = f[n][i]
  <2>1. PICK t \in Seq(Nat) : t = f[n] /\ Len(t) = last[n]
    BY <1>5, <1>6
  <2>2. words = (<<n>> \o t) \o pad
    BY <1>7, <2>1
  <2>3. PICK u \in Seq(Nat) : /\ u = <<n>> \o t /\ Len(u) = Len(t) + 1
                              /\ u[1] = n /\ \A i \in 1 .. Len(t) : u[i + 1] = t[i]
    <3>1. /\ <<n>> \o t \in Seq(Nat) /\ Len(<<n>> \o t) = Len(t) + 1
          /\ (<<n>> \o t)[1] = n /\ \A i \in 1 .. Len(t) : (<<n>> \o t)[i + 1] = t[i]
      OBVIOUS
    <3> QED
      BY <3>1
  <2>4. \A i \in 1 .. Len(t) + 1 : (u \o pad)[i] = u[i]
    BY <2>3
  <2>5. words = u \o pad
    BY <2>2, <2>3
  <2>6. Len(t) \in Nat
    OBVIOUS
  <2> QED
    BY <2>1, <2>3, <2>4, <2>5, <2>6
<1>9. PICK g \in [1 .. n + 1 -> Nat] : \A l \in 1 .. n + 1 : g[l] = last[l - 1] + 2
  <2>1. \A l \in 1 .. n + 1 : last[l - 1] + 2 \in Nat
    BY <1>6
  <2>2. [l \in 1 .. n + 1 |-> last[l - 1] + 2] \in [1 .. n + 1 -> Nat]
    BY <2>1
  <2> QED
    BY <2>2
<1>10. g[1] = 2
  <2>1. last[0] = 0
    BY <1>3, <1>6 DEF Concatenates
  <2> QED
    BY <1>9, <2>1
<1>11. ASSUME NEW l \in 1 .. n
       PROVE  /\ g[l + 1] = g[l] + 1 + words[g[l]]
              /\ words[g[l]] = Len(levels[l])
              /\ \A j \in 1 .. Len(levels[l]) : words[g[l] + j] = levels[l][j]
  <2>0. l \in 0 .. n /\ l - 1 \in 0 .. n /\ l \in 1 .. n
    BY <1>11
  <2>1. PICK a \in Nat, b \in Nat : a = last[l - 1] /\ b = last[l]
    BY <1>6, <2>0
  <2>2. PICK c \in Nat : c = Len(levels[l])
    BY <1>2
  <2>3. b = a + (c + 1)
    <3>1. Joins(Nat, s, f, l)
      BY <1>2, <1>4, Concatenation
    <3>2. Len(f[l]) = Len(f[l - 1]) + Len(s[l])
      BY <3>1 DEF Joins
    <3> QED
      BY <1>2, <1>6, <2>0, <2>1, <2>2, <3>2
  <2>4. /\ Len(f[l]) <= Len(f[n])
        /\ \A j \in 1 .. Len(s[l]) : f[n][Len(f[l - 1]) + j] = s[l][j]
    <3>1. l \in 1 .. Len(s)
      BY <1>2
    <3>2. Within(s, f, l)
      BY <1>4, <3>1, Located
    <3> QED
      BY <1>2, <3>2 DEF Within
  <2>5. b <= last[n] /\ \A j \in 1 .. c + 1 : f[n][a + j] = s[l][j]
    <3>1. Len(f[l]) = b /\ Len(f[n]) = last[n] /\ Len(f[l - 1]) = a /\ Len(s[l]) = c + 1
      BY <1>2, <1>5, <1>6, <2>0, <2>1, <2>2
    <3> QED
      BY <2>4, <3>1, Zenon
  <2>6. \A j \in 1 .. c + 1 : words[a + 1 + j] = s[l][j]
    <3>1. SUFFICES ASSUME NEW j \in 1 .. c + 1 PROVE words[a + 1 + j] = s[l][j]
      OBVIOUS
    <3>2. last[n] \in Nat
      BY <1>6
    <3>3. a + j \in 1 .. last[n] /\ (a + j) + 1 = a + 1 + j
      BY <2>3, <2>5, <3>2
    <3> QED
      BY <1>8, <2>5, <3>3
  <2>7. g[l] = a + 2 /\ g[l + 1] = b + 2
    <3>1. l \in 1 .. n + 1 /\ l + 1 \in 1 .. n + 1 /\ (l + 1) - 1 = l
      OBVIOUS
    <3> QED
      BY <1>9, <2>1, <3>1
  <2>8. words[g[l]] = c
    <3>1. 1 \in 1 .. c + 1 /\ a + 1 + 1 = a + 2
      OBVIOUS
    <3>2. words[a + 2] = s[l][1]
      BY <2>6, <3>1
    <3>3. s[l][1] = c
      BY <1>2, <2>0, <2>2
    <3> QED
      BY <2>7, <3>2, <3>3
  <2>9. ASSUME NEW j \in 1 .. c PROVE words[g[l] + j] = levels[l][j]
    <3>1. j + 1 \in 1 .. c + 1 /\ a + 1 + (j + 1) = (a + 2) + j
      OBVIOUS
    <3>2. s[l][j + 1] = levels[l][j]
      BY <1>2, <2>2
    <3> QED
      BY <2>6, <2>7, <3>1, <3>2
  <2>10. g[l + 1] = g[l] + 1 + words[g[l]]
    BY <2>3, <2>7, <2>8
  <2> QED
    BY <2>2, <2>8, <2>9, <2>10
<1>12. Laid(levels, words, g)
  BY <1>1, <1>8, <1>9, <1>10, <1>11 DEF Laid
<1> QED
  BY <1>12

LEMMA LaidOffsets ==
    ASSUME NEW levels \in Numbers, NEW words, NEW g, Laid(levels, words, g)
    PROVE  \A l \in 1 .. Len(levels) : Offset(words)[l] = g[l]
<1>1. PICK n \in Nat : n = Len(levels)
  BY DEF Numbers
<1>2. words[1] = n /\ g \in [1 .. n + 1 -> Nat] /\ g[1] = 2
  BY <1>1 DEF Laid
<1>3. ASSUME NEW l \in 1 .. n + 1, l # 1 PROVE g[l] = g[l - 1] + 1 + words[g[l - 1]]
  <2>1. l - 1 \in 1 .. n /\ (l - 1) + 1 = l
    BY <1>3
  <2>2. g[(l - 1) + 1] = g[l - 1] + 1 + words[g[l - 1]]
    BY <1>1, <2>1 DEF Laid
  <2> QED
    BY <2>1, <2>2
<1>4. AreOffsets(words, g)
  BY <1>2, <1>3 DEF AreOffsets
<1>5. Offset(words) = CHOOSE h : AreOffsets(words, h)
  BY DEF Offset, AreOffsets
<1>6. PICK h : h = Offset(words) /\ AreOffsets(words, h)
  BY <1>4, <1>5
<1>7. /\ h[1] = 2
      /\ \A l \in 1 .. n + 1 : l # 1 => h[l] = h[l - 1] + 1 + words[h[l - 1]]
  <2>1. h = [l \in 1 .. n + 1 |-> IF l = 1 THEN 2 ELSE h[l - 1] + 1 + words[h[l - 1]]]
    BY <1>2, <1>6 DEF AreOffsets
  <2>2. 1 \in 1 .. n + 1
    OBVIOUS
  <2>3. h[1] = 2
    BY <2>1, <2>2
  <2>4. ASSUME NEW l \in 1 .. n + 1, l # 1 PROVE h[l] = h[l - 1] + 1 + words[h[l - 1]]
    BY <2>1, <2>4, Zenon
  <2> QED
    BY <2>3, <2>4
<1> DEFINE D == {l \in 1 .. n + 1 : h[l] # g[l]}
<1>8. ASSUME NEW l \in D, \A j \in D : l <= j PROVE FALSE
  <2>1. l \in 1 .. n + 1 /\ h[l] # g[l]
    OBVIOUS
  <2>2. l # 1
    BY <1>2, <1>7, <2>1
  <2>3. l - 1 \in 1 .. n + 1 /\ ~ (l <= l - 1)
    BY <2>1, <2>2
  <2>4. l - 1 \notin D
    <3> HIDE DEF D
    <3> QED
      BY <1>8, <2>3
  <2>5. h[l - 1] = g[l - 1]
    BY <2>3, <2>4
  <2>6. h[l] = h[l - 1] + 1 + words[h[l - 1]] /\ g[l] = g[l - 1] + 1 + words[g[l - 1]]
    BY <1>3, <1>7, <2>1, <2>2
  <2> QED
    BY <2>1, <2>5, <2>6, Zenon
<1>9. D \subseteq Nat
  OBVIOUS
<1> HIDE DEF D
<1>10. D = {}
  BY <1>8, <1>9, LeastNatural
<1> QED
  BY <1>1, <1>6, <1>10 DEF D

\* The words of a level are found where they were put.
LEMMA LevelsFound ==
    ASSUME NEW levels \in Numbers, NEW pad \in Seq(Nat), NEW words, words = Words(levels) \o pad
    PROVE  /\ words[1] = Len(levels)
           /\ \A l \in 1 .. Len(levels) : IdsOfLevel(words, l) = levels[l]
<1>1. PICK g : Laid(levels, words, g)
  BY WordsLaid
<1>2. words[1] = Len(levels) /\ Len(levels) \in Nat
  BY <1>1 DEF Laid, Numbers
<1>3. ASSUME NEW l \in 1 .. Len(levels) PROVE IdsOfLevel(words, l) = levels[l]
  <2>1. PICK q \in Seq(Nat) : q = levels[l]
    BY DEF Numbers
  <2>2. PICK a \in Nat, c \in Nat : a = g[l] /\ c = Len(q)
    <3>1. l \in 1 .. Len(levels) + 1 /\ g \in [1 .. Len(levels) + 1 -> Nat]
      BY <1>1, <1>2, <1>3 DEF Laid
    <3>2. g[l] \in Nat /\ Len(q) \in Nat
      BY <3>1
    <3> QED
      BY <3>2
  <2>3. words[a] = c /\ \A j \in 1 .. c : words[a + j] = q[j]
    BY <1>1, <2>1, <2>2 DEF Laid
  <2>4. IdsOfLevel(words, l) = SubSeq(words, a + 1, a + c)
    <3>1. Offset(words)[l] = a
      BY <1>1, <2>2, LaidOffsets
    <3> QED
      BY <2>3, <3>1, Zenon DEF IdsOfLevel
  <2>5. \A i \in a + 1 .. a + c : words[i] \in Nat
    <3>1. ASSUME NEW i \in a + 1 .. a + c PROVE words[i] \in Nat
      <4>1. i - a \in 1 .. c /\ a + (i - a) = i
        OBVIOUS
      <4>2. q[i - a] \in Nat
        <5>1. \A j \in 1 .. Len(q) : q[j] \in Nat
          OBVIOUS
        <5>2. \A j \in 1 .. c : q[j] \in Nat
          BY <2>2, <5>1
        <5> QED
          BY ONLY <4>1, <5>2
      <4> QED
        BY <2>3, <4>1, <4>2
    <3> QED
      BY <3>1
  <2>6. /\ SubSeq(words, a + 1, a + c) \in Seq(Nat)
        /\ Len(SubSeq(words, a + 1, a + c)) = IF a + 1 <= a + c THEN (a + c) - (a + 1) + 1 ELSE 0
        /\ \A i \in 1 .. (a + c) - (a + 1) + 1 :
             SubSeq(words, a + 1, a + c)[i] = words[(a + 1) + i - 1]
    <3>1. a + 1 \in Int /\ a + c \in Int
      OBVIOUS
    <3> QED
      BY ONLY <2>5, <3>1, SubSeqProperties
  <2>7. PICK r \in Seq(Nat) : r = SubSeq(words, a + 1, a + c)
    BY <2>6
  <2>8. Len(r) = c
    BY <2>6, <2>7
  <2>9. ASSUME NEW i \in 1 .. c PROVE r[i] = q[i]
    <3>1. i \in 1 .. (a + c) - (a + 1) + 1 /\ (a + 1) + i - 1 = a + i
      OBVIOUS
    <3>2. r[i] = words[a + i]
      BY <2>6, <2>7, <3>1
    <3> QED
      BY <2>3, <3>2
  <2>10. r = q
    BY <2>2, <2>8, <2>9, SeqEqual
  <2> QED
    BY <2>1, <2>4, <2>7, <2>10
<1> QED
  BY <1>2, <1>3

-----------------------------------------------------------------------------
(* The steps *)

LEMMA LevelsAreNumbers ==
    ASSUME CodecInv
    PROVE  /\ sst_files \in Numbers /\ Len(sst_files) \in Nat
           /\ DOMAIN sst_files = 1 .. Len(sst_files)
           /\ \A l \in 1 .. Len(sst_files) : sst_files[l] \in Seq(TableIds)
           /\ n_levels \in Nat
<1>1. TableIds \subseteq Nat /\ LevelCounts \subseteq Nat
  BY CodecAssumption
<1>2. ASSUME NEW q \in Seq(TableIds) PROVE q \in Seq(Nat)
  <2>1. \A i \in 1 .. Len(q) : q[i] \in Nat
    <3>1. \A i \in 1 .. Len(q) : q[i] \in TableIds
      BY <1>2
    <3> QED
      BY <1>1, <3>1
  <2>2. Len(q) \in Nat /\ q = [i \in 1 .. Len(q) |-> q[i]]
    OBVIOUS
  <2> QED
    BY ONLY <2>1, <2>2
<1>3. sst_files \in Seq(Seq(TableIds)) /\ n_levels \in Nat
  BY <1>1 DEF CodecInv
<1>4. \A l \in 1 .. Len(sst_files) : sst_files[l] \in Seq(Nat)
  BY <1>2, <1>3
<1>5. /\ Len(sst_files) \in Nat /\ DOMAIN sst_files = 1 .. Len(sst_files)
      /\ sst_files = [l \in 1 .. Len(sst_files) |-> sst_files[l]]
      /\ \A l \in 1 .. Len(sst_files) : sst_files[l] \in Seq(TableIds)
  BY <1>3
<1>6. sst_files \in Seq(Seq(Nat))
  BY ONLY <1>4, <1>5
<1> QED
  BY <1>3, <1>5, <1>6 DEF Numbers

LEMMA WordsAreNumbers ==
    ASSUME NEW levels \in Numbers
    PROVE  Words(levels) \in Seq(Nat) /\ Len(Words(levels)) \in Nat
<1>1. Prefixed(levels) \in Seq(Seq(Nat))
  BY CountedLevels
<1>2. FlattenSeq(Prefixed(levels)) \in Seq(Nat)
  <2>1. PICK s \in Seq(Seq(Nat)) : s = Prefixed(levels)
    BY <1>1
  <2>2. PICK f \in [0 .. Len(s) -> Seq(Nat)] : FlattenSeq(s) = f[Len(s)]
    BY Flattened
  <2>3. Len(s) \in 0 .. Len(s)
    OBVIOUS
  <2>4. f[Len(s)] \in Seq(Nat)
    BY <2>3
  <2> QED
    BY <2>1, <2>2, <2>4
<1>3. Words(levels) = <<Len(levels)>> \o FlattenSeq(Prefixed(levels))
  BY DEF Words, Prefixed
<1>4. <<Len(levels)>> \in Seq(Nat)
  BY DEF Numbers
<1>5. <<Len(levels)>> \o FlattenSeq(Prefixed(levels)) \in Seq(Nat)
  BY ONLY <1>2, <1>4
<1> QED
  BY <1>3, <1>5

LEMMA InitCodec == CodecInit => CodecInv
<1> SUFFICES ASSUME CodecInit PROVE CodecInv
  OBVIOUS
<1>1. PICK n \in LevelCounts : sst_files = [l \in 1 .. n |-> <<>>]
  BY DEF CodecInit
<1>2. n \in Nat
  BY CodecAssumption
<1>3. sst_files \in Seq(Seq(TableIds)) /\ Len(sst_files) = n
  BY <1>1, <1>2
<1> QED
  BY <1>3 DEF CodecInit, CodecInv, RoundTrip

LEMMA AddToLevelCodec ==
    ASSUME CodecInv, NEW l \in 1 .. Len(sst_files), NEW id \in TableIds, AddToLevel(l, id)
    PROVE  CodecInv'
<1>1. /\ stage = "filling" /\ stage' = "filling" /\ n_levels' = n_levels
      /\ sst_files' = [sst_files EXCEPT ![l] = Append(sst_files[l], id)]
  BY DEF AddToLevel
<1>2. sst_files \in Seq(Seq(TableIds)) /\ Len(sst_files) \in LevelCounts
  BY DEF CodecInv
<1>3. Append(sst_files[l], id) \in Seq(TableIds)
  BY <1>2
<1>4. sst_files' \in Seq(Seq(TableIds)) /\ Len(sst_files') = Len(sst_files)
  <2>1. PICK q \in Seq(TableIds) : q = Append(sst_files[l], id)
    BY <1>3
  <2>2. sst_files' = [sst_files EXCEPT ![l] = q]
    BY <1>1, <2>1
  <2> QED
    BY <1>2, <2>2
<1> QED
  BY <1>1, <1>2, <1>4 DEF CodecInv, RoundTrip

LEMMA SerializeCodec ==
    ASSUME CodecInv, Serialize
    PROVE  CodecInv'
<1>1. /\ stage = "filling" /\ sst_files' = sst_files /\ n_levels' = n_levels
      /\ stage' \in {"overrun", "written"}
  BY DEF Serialize
<1>2. stage' = "written" => \E pad \in Seq(Nat) : block' = Words(sst_files) \o pad
  <2>1. SUFFICES ASSUME stage' = "written" PROVE \E pad \in Seq(Nat) : block' = Words(sst_files) \o pad
    OBVIOUS
  <2>2. /\ ~ (Len(Words(sst_files)) > BlockWords)
        /\ block' = Words(sst_files) \o [i \in 1 .. BlockWords - Len(Words(sst_files)) |-> 0]
    BY <2>1 DEF Serialize
  <2>3. PICK k \in Nat : k = BlockWords - Len(Words(sst_files))
    <3>1. Len(Words(sst_files)) \in Nat /\ BlockWords \in Nat
      BY CodecAssumption, LevelsAreNumbers, WordsAreNumbers
    <3>2. BlockWords - Len(Words(sst_files)) \in Nat
      BY <2>2, <3>1
    <3> QED
      BY <3>2
  <2>4. [i \in 1 .. k |-> 0] \in Seq(Nat)
    OBVIOUS
  <2> QED
    BY <2>2, <2>3, <2>4
<1>3. RoundTrip'
  BY <1>1 DEF RoundTrip
<1> QED
  BY <1>1, <1>2, <1>3 DEF CodecInv

LEMMA DeserializeCodec ==
    ASSUME CodecInv, Deserialize
    PROVE  CodecInv'
<1>1. /\ stage = "written" /\ stage' \in {"read", "thrown"}
      /\ sst_files' = sst_files /\ n_levels' = n_levels /\ block' = block
  BY DEF Deserialize
<1>2. PICK n \in Nat, m \in Nat : n = Len(sst_files) /\ m = n_levels
  BY LevelsAreNumbers
<1>3. block[1] = n /\ \A l \in 1 .. n : IdsOfLevel(block, l) = sst_files[l]
  <2>1. PICK pad \in Seq(Nat) : block = Words(sst_files) \o pad
    BY <1>1 DEF CodecInv
  <2>2. PICK levels \in Numbers : levels = sst_files
    BY LevelsAreNumbers
  <2>3. PICK words : words = block
    OBVIOUS
  <2>4. words = Words(levels) \o pad
    BY <2>1, <2>2, <2>3
  <2>5. words[1] = Len(levels) /\ \A l \in 1 .. Len(levels) : IdsOfLevel(words, l) = levels[l]
    BY <2>4, LevelsFound
  <2> QED
    BY <1>2, <2>2, <2>3, <2>5
<1>4. RoundTrip'
  <2>1. SUFFICES ASSUME stage' = "read" PROVE RoundTrip'
    BY DEF RoundTrip
  <2>2. /\ \A l \in m + 1 .. n : IdsOfLevel(block, l) = <<>>
        /\ restored' = [l \in 1 .. m |-> IF l <= n THEN IdsOfLevel(block, l) ELSE <<>>]
    BY <1>2, <1>3, <2>1 DEF Deserialize, RestoredLevels
  <2>3. restored' = [l \in 1 .. m |-> IF l <= n THEN sst_files[l] ELSE <<>>]
    <3>1. \A l \in 1 .. m : l <= n => IdsOfLevel(block, l) = sst_files[l]
      BY <1>3
    <3> QED
      BY <2>2, <3>1
  <2>4. \A l \in 1 .. n : l > m => sst_files[l] = <<>>
    BY <1>3, <2>2
  <2>5. ASSUME NEW l \in 1 .. n, sst_files[l] # <<>> PROVE restored'[l] = sst_files[l]
    <3>1. l \in 1 .. m /\ l <= n
      BY <2>4, <2>5
    <3> QED
      BY <2>3, <3>1
  <2>6. PICK a \in Numbers, b \in Numbers : /\ a = sst_files /\ b = restored'
                                            /\ Len(a) = n /\ Len(b) = m
    <3>1. PICK a \in Numbers : a = sst_files /\ Len(a) = n
      BY <1>2, LevelsAreNumbers
    <3>2. PICK b : b = [l \in 1 .. m |-> IF l <= n THEN a[l] ELSE <<>>]
      OBVIOUS
    <3>3. \A l \in 1 .. m : (IF l <= n THEN a[l] ELSE <<>>) \in Seq(Nat)
      BY <3>1 DEF Numbers
    <3>4. b \in Numbers /\ Len(b) = m
      BY <3>2, <3>3 DEF Numbers
    <3> QED
      BY <2>3, <3>1, <3>2, <3>4
  <2>7. FlattenSeq(b) = FlattenSeq(a)
    <3>1. a \in Seq(Seq(Nat)) /\ b \in Seq(Seq(Nat))
      BY DEF Numbers
    <3>2. /\ \A l \in 1 .. m : b[l] = IF l <= n THEN a[l] ELSE <<>>
          /\ \A l \in 1 .. n : l > m => a[l] = <<>>
      BY <2>3, <2>4, <2>6
    <3>3. CASE n <= m
      <4>1. /\ Len(a) <= Len(b)
            /\ \A l \in 1 .. Len(a) : b[l] = a[l]
            /\ \A l \in 1 .. Len(b) : l > Len(a) => b[l] = <<>>
        BY <2>6, <3>2, <3>3
      <4> QED
        BY <3>1, <4>1, Padded
    <3>4. CASE ~ (n <= m)
      <4>1. /\ Len(b) <= Len(a)
            /\ \A l \in 1 .. Len(b) : a[l] = b[l]
            /\ \A l \in 1 .. Len(a) : l > Len(b) => a[l] = <<>>
        BY <2>6, <3>2, <3>4
      <4>2. FlattenSeq(a) = FlattenSeq(b)
        BY <3>1, <4>1, Padded
      <4> QED
        BY <4>2
    <3> QED
      BY <3>3, <3>4
  <2>8. TableCount(restored') = TableCount(sst_files)
    BY <2>6, <2>7 DEF TableCount
  <2>9. DOMAIN sst_files = 1 .. n
    BY <1>2, LevelsAreNumbers
  <2> QED
    BY <1>1, <2>5, <2>8, <2>9 DEF RoundTrip, TableCount
<1> QED
  BY <1>1, <1>4 DEF CodecInv

LEMMA StepCodec == CodecInv /\ [CodecNext]_codecVars => CodecInv'
<1> SUFFICES ASSUME CodecInv, [CodecNext]_codecVars PROVE CodecInv'
  OBVIOUS
<1>1. CASE \E l \in 1 .. Len(sst_files), id \in TableIds : AddToLevel(l, id)
  BY <1>1, AddToLevelCodec
<1>2. CASE Serialize
  BY <1>2, SerializeCodec
<1>3. CASE Deserialize
  BY <1>3, DeserializeCodec
<1>4. ASSUME UNCHANGED codecVars PROVE CodecInv'
  BY <1>4 DEF codecVars, CodecInv, RoundTrip, TableCount
<1> QED
  BY <1>1, <1>2, <1>3, <1>4 DEF CodecNext, CodecRest

\* What a session has written is in the file word by word as it laid it out, and
\* so the next session reads every table at its level.
THEOREM ReadsWhatWasWritten == CodecSpec => []RoundTrip
<1>1. CodecInit => CodecInv
  BY InitCodec
<1>2. CodecInv /\ [CodecNext]_codecVars => CodecInv'
  BY StepCodec
<1>3. CodecInv => RoundTrip
  BY DEF CodecInv
<1> QED
  BY <1>1, <1>2, <1>3, PTL DEF CodecSpec

=============================================================================

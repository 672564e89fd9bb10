------------------------------ MODULE TablesProofs ------------------------------
(***************************************************************************)
(* What the proofs about tables and their files have in common: the least  *)
(* number of a set, which stands for induction, what a set put in order    *)
(* looks like, and what a flattened sequence is.                           *)
(***************************************************************************)
EXTENDS Tables, SequencesExt, FunctionTheorems, FiniteSetTheorems, WellFoundedInduction, TLAPS

\* A nonempty set of natural numbers has a least member.
THEOREM LeastNatural ==
    ASSUME NEW S, S \subseteq Nat, S # {}
    PROVE  \E m \in S : \A n \in S : m <= n
<1> DEFINE R == OpToRel(<, Nat)
<1>1. IsWellFoundedOn(R, Nat)
  BY NatLessThanWellFounded DEF OpToRel
<1> HIDE DEF R
<1>2. PICK x \in S : \A y \in S : ~ (<<y, x>> \in R)
  BY <1>1, WFMin, Zenon
<1>3. \A y \in S : ~ (y < x)
  BY <1>2 DEF R, OpToRel
<1> QED
  BY <1>3

-----------------------------------------------------------------------------
(* Sets in order. An order gives for a member the set of those before it:  *)
(* a lemma about an operator could not be used for the one it is wanted    *)
(* for.                                                                    *)

Orders(under, S) ==
    /\ under \in [S -> SUBSET S]
    /\ \A x \in S : x \notin under[x]
    /\ \A x \in S : \A y \in under[x] : \A z \in under[y] : z \in under[x]
    /\ \A x, y \in S : x # y => x \in under[y] \/ y \in under[x]

\* Members have different ranks, less the further in front they are.
LEMMA RankIncreases ==
    ASSUME NEW S, IsFiniteSet(S), NEW under, Orders(under, S), NEW x \in S, NEW y \in S, x \in under[y]
    PROVE  Cardinality(under[x]) < Cardinality(under[y])
<1>1. /\ under[x] \in SUBSET under[y]
      /\ under[y] \in SUBSET S
      /\ x \in under[y] /\ x \notin under[x]
  BY DEF Orders
<1>2. /\ IsFiniteSet(under[y]) /\ Cardinality(under[y]) <= Cardinality(S)
  BY <1>1, FS_Subset
<1>3. /\ IsFiniteSet(under[x])
      /\ Cardinality(under[x]) <= Cardinality(under[y])
      /\ Cardinality(under[x]) # Cardinality(under[y])
  BY <1>1, <1>2, FS_Subset
<1>4. /\ Cardinality(under[x]) \in Nat /\ Cardinality(under[y]) \in Nat
      /\ Cardinality(S) \in Nat
  BY <1>2, <1>3, FS_CardinalityType
<1> QED
  BY <1>2, <1>3, <1>4

LEMMA RankInRange ==
    ASSUME NEW S, IsFiniteSet(S), NEW under, Orders(under, S), NEW x \in S
    PROVE  Cardinality(under[x]) \in 0 .. Cardinality(S) - 1
<1>1. under[x] \in SUBSET S /\ x \notin under[x]
  BY DEF Orders
<1>2. /\ IsFiniteSet(under[x]) /\ Cardinality(under[x]) <= Cardinality(S)
      /\ Cardinality(under[x]) # Cardinality(S)
  BY <1>1, FS_Subset
<1>3. Cardinality(under[x]) \in Nat /\ Cardinality(S) \in Nat
  BY <1>2, FS_CardinalityType
<1> QED
  BY <1>2, <1>3

\* So that there is one of each rank.
LEMMA Ranks ==
    ASSUME NEW S, IsFiniteSet(S), NEW under, Orders(under, S)
    PROVE  \E n \in Nat, rank \in [S -> 0 .. Cardinality(S) - 1] :
             /\ n = Cardinality(S)
             /\ \A x \in S : rank[x] = Cardinality(under[x])
             /\ \A x, y \in S : x \in under[y] => rank[x] < rank[y]
             /\ \A x, y \in S : rank[x] = rank[y] => x = y
             /\ \A k \in 0 .. n - 1 : \E x \in S : rank[x] = k
<1>1. PICK n \in Nat : n = Cardinality(S)
  BY FS_CardinalityType
<1>2. PICK rank \in [S -> 0 .. n - 1] : \A x \in S : rank[x] = Cardinality(under[x])
  <2>1. [x \in S |-> Cardinality(under[x])] \in [S -> 0 .. n - 1]
    BY <1>1, RankInRange
  <2> QED
    BY <2>1
<1>3. ASSUME NEW x \in S, NEW y \in S, x \in under[y] PROVE rank[x] < rank[y]
  BY <1>2, <1>3, RankIncreases
<1>4. ASSUME NEW x \in S, NEW y \in S, rank[x] = rank[y] PROVE x = y
  <2>1. rank[x] \in Int /\ rank[y] \in Int
    BY <1>1, <1>2
  <2> QED
    BY <1>3, <1>4, <2>1 DEF Orders
<1>5. rank \in Injection(S, 0 .. n - 1)
  BY <1>4, Fun_IsInj
<1>6. IsFiniteSet(0 .. n - 1) /\ Cardinality(0 .. n - 1) = n
  <2>1. 0 \in Int /\ n - 1 \in Int
    BY <1>1
  <2>2. /\ IsFiniteSet(0 .. n - 1)
        /\ Cardinality(0 .. n - 1) = IF 0 > n - 1 THEN 0 ELSE n - 1 - 0 + 1
    BY <2>1, FS_Interval
  <2> QED
    BY <1>1, <2>2
<1>7. rank \in Surjection(S, 0 .. n - 1)
  BY <1>1, <1>5, <1>6, FS_Injection
<1>8. \A k \in 0 .. n - 1 : \E x \in S : rank[x] = k
  BY <1>7 DEF Surjection
<1> QED
  BY <1>1, <1>2, <1>3, <1>4, <1>8

\* The members of a finite set can be listed in order.
LEMMA OrderExists ==
    ASSUME NEW S, IsFiniteSet(S), NEW under, Orders(under, S)
    PROVE  \E s \in [1 .. Cardinality(S) -> S] :
             \A i, j \in 1 .. Cardinality(S) : i < j => s[i] \in under[s[j]]
<1>1. PICK n \in Nat, rank \in [S -> 0 .. Cardinality(S) - 1] :
             /\ n = Cardinality(S)
             /\ \A x, y \in S : x \in under[y] => rank[x] < rank[y]
             /\ \A k \in 0 .. n - 1 : \E x \in S : rank[x] = k
  BY Ranks
<1>2. PICK s : s = [i \in 1 .. n |-> CHOOSE x \in S : rank[x] = i - 1]
  OBVIOUS
<1>3. ASSUME NEW i \in 1 .. n PROVE s[i] \in S /\ rank[s[i]] = i - 1
  <2>1. i - 1 \in 0 .. n - 1
    BY <1>1
  <2>2. \E x \in S : rank[x] = i - 1
    BY <1>1, <2>1
  <2>3. s[i] = CHOOSE x \in S : rank[x] = i - 1
    BY <1>2
  <2> QED
    BY <2>2, <2>3
<1>4. s \in [1 .. n -> S]
  BY <1>2, <1>3
<1>5. ASSUME NEW i \in 1 .. n, NEW j \in 1 .. n, i < j PROVE s[i] \in under[s[j]]
  <2>1. /\ s[i] \in S /\ rank[s[i]] = i - 1
        /\ s[j] \in S /\ rank[s[j]] = j - 1
        /\ i \in Int /\ j \in Int
    BY <1>1, <1>3, <1>5
  <2>2. ~ (s[j] \in under[s[i]])
    BY <1>1, <1>5, <2>1
  <2>3. s[i] # s[j]
    BY <1>5, <2>1
  <2> QED
    BY <2>1, <2>2, <2>3 DEF Orders
<1> QED
  BY <1>1, <1>4, <1>5

\* A list of as many members as there are, each in front of the next, has all of them.
LEMMA Ordered ==
    ASSUME NEW S, IsFiniteSet(S), NEW under, Orders(under, S),
           NEW s \in [1 .. Cardinality(S) -> S],
           \A i, j \in 1 .. Cardinality(S) : i < j => s[i] \in under[s[j]]
    PROVE  /\ Cardinality(S) \in Nat
           /\ \A x \in S : \E i \in 1 .. Cardinality(S) : s[i] = x
           /\ \A i, j \in 1 .. Cardinality(S) : s[i] \in under[s[j]] => i < j
<1>1. PICK n \in Nat : n = Cardinality(S)
  BY FS_CardinalityType
<1>2. \A i \in 1 .. n : s[i] \in S /\ i \in Int
  BY <1>1
<1>3. \A x, y \in S : x \in under[y] => y \notin under[x]
  BY DEF Orders
<1>4. ASSUME NEW i \in 1 .. n, NEW j \in 1 .. n, s[i] = s[j] PROVE i = j
  BY <1>1, <1>2, <1>4 DEF Orders
<1>5. ASSUME NEW i \in 1 .. n, NEW j \in 1 .. n, s[i] \in under[s[j]] PROVE i < j
  <2>1. i # j
    BY <1>2, <1>3, <1>5
  <2>2. ~ (j < i)
    BY <1>1, <1>2, <1>3, <1>5
  <2> QED
    BY <1>2, <2>1, <2>2
<1>6. s \in Injection(1 .. n, S)
  BY <1>1, <1>4, Fun_IsInj
<1>7. Cardinality(1 .. n) = n
  <2>1. 1 \in Int /\ n \in Int
    BY <1>1
  <2>2. Cardinality(1 .. n) = IF 1 > n THEN 0 ELSE n - 1 + 1
    BY <2>1, FS_Interval
  <2> QED
    BY <1>1, <2>2
<1>8. s \in Surjection(1 .. n, S)
  BY <1>1, <1>6, <1>7, FS_Injection
<1>9. \A x \in S : \E i \in 1 .. n : s[i] = x
  BY <1>8 DEF Surjection
<1> QED
  BY <1>1, <1>5, <1>9

\* Keys in order.
LEMMA NumbersInOrder ==
    ASSUME NEW S, S \subseteq Int, IsFiniteSet(S)
    PROVE  /\ Cardinality(S) \in Nat
           /\ KeysInOrder(S) \in [1 .. Cardinality(S) -> S]
           /\ \A x \in S : \E i \in 1 .. Cardinality(S) : KeysInOrder(S)[i] = x
           /\ \A i, j \in 1 .. Cardinality(S) : i < j <=> KeysInOrder(S)[i] < KeysInOrder(S)[j]
<1>1. PICK under \in [S -> SUBSET S] : \A x \in S : under[x] = {y \in S : y < x}
  <2>1. [x \in S |-> {y \in S : y < x}] \in [S -> SUBSET S]
    OBVIOUS
  <2> QED
    BY <2>1
<1>2. Orders(under, S)
  BY <1>1 DEF Orders
<1>3. \E f \in [1 .. Cardinality(S) -> S] : \A i, j \in DOMAIN f : i < j => f[i] < f[j]
  <2>1. PICK f \in [1 .. Cardinality(S) -> S] :
            \A i, j \in 1 .. Cardinality(S) : i < j => f[i] \in under[f[j]]
    BY <1>2, OrderExists
  <2> QED
    BY <1>1, <2>1
<1>4. PICK s : s = KeysInOrder(S)
  OBVIOUS
<1>5. /\ s \in [1 .. Cardinality(S) -> S]
      /\ \A i, j \in DOMAIN s : i < j => s[i] < s[j]
  BY <1>3, <1>4 DEF KeysInOrder
<1>6. \A i, j \in 1 .. Cardinality(S) : i < j => s[i] \in under[s[j]]
  BY <1>1, <1>5
<1>7. /\ Cardinality(S) \in Nat
      /\ \A x \in S : \E i \in 1 .. Cardinality(S) : s[i] = x
      /\ \A i, j \in 1 .. Cardinality(S) : s[i] \in under[s[j]] => i < j
  BY <1>2, <1>5, <1>6, Ordered
<1>8. \A i, j \in 1 .. Cardinality(S) : s[i] < s[j] => s[i] \in under[s[j]]
  BY <1>1, <1>5
<1> QED
  BY <1>4, <1>5, <1>7, <1>8

\* The rank of a key in a set is its place in that order, from 0 on.
Rank(S, k) == Cardinality({j \in S : j < k})

LEMMA KeyRanks ==
    ASSUME NEW S, S \subseteq Int, IsFiniteSet(S)
    PROVE  /\ Cardinality(S) \in Nat
           /\ \A k \in S : Rank(S, k) \in 0 .. Cardinality(S) - 1
           /\ \A j, k \in S : j < k <=> Rank(S, j) < Rank(S, k)
           /\ \A j, k \in S : Rank(S, j) = Rank(S, k) => j = k
           /\ \A i \in 0 .. Cardinality(S) - 1 : \E k \in S : Rank(S, k) = i
           /\ \A i \in 1 .. Cardinality(S) : Rank(S, KeysInOrder(S)[i]) = i - 1
<1>1. PICK n \in Nat, s \in [1 .. Cardinality(S) -> S] :
          /\ n = Cardinality(S) /\ s = KeysInOrder(S)
          /\ \A x \in S : \E i \in 1 .. n : s[i] = x
          /\ \A i, j \in 1 .. n : i < j <=> s[i] < s[j]
  BY NumbersInOrder
<1>2. ASSUME NEW i \in 1 .. n PROVE s[i] \in S /\ s[i] \in Int /\ i \in Int
  <2>1. s[i] \in S
    BY <1>1, <1>2
  <2>2. i \in Int
    BY <1>1, <1>2
  <2> QED
    BY <2>1, <2>2
<1>3. ASSUME NEW i \in 1 .. n PROVE Rank(S, s[i]) = i - 1
  <2> DEFINE below == {j \in S : j < s[i]}
  <2>1. PICK f : f = [a \in 1 .. i - 1 |-> s[a]]
    OBVIOUS
  <2>2. f \in [1 .. i - 1 -> below]
    BY <1>1, <1>2, <2>1
  <2>3. \A a, b \in 1 .. i - 1 : f[a] = f[b] => a = b
    <3>1. ASSUME NEW a \in 1 .. i - 1, NEW b \in 1 .. i - 1, s[a] = s[b] PROVE a = b
      BY <1>1, <1>2, <3>1
    <3> QED
      BY <2>1, <3>1
  <2>4. \A x \in below : \E a \in 1 .. i - 1 : f[a] = x
    <3>1. ASSUME NEW x \in below PROVE \E a \in 1 .. i - 1 : s[a] = x
      BY <1>1, <1>2
    <3> QED
      BY <2>1, <3>1
  <2> HIDE DEF below
  <2>5. f \in Bijection(1 .. i - 1, below)
    BY <2>2, <2>3, <2>4, Fun_IsBij
  <2>6. ExistsBijection(1 .. i - 1, below)
    BY <2>5, Fun_ExistsBij
  <2>7. IsFiniteSet(1 .. i - 1) /\ Cardinality(1 .. i - 1) = i - 1
    <3>1. 1 \in Int /\ i - 1 \in Int
      BY <1>2
    <3>2. /\ IsFiniteSet(1 .. i - 1)
          /\ Cardinality(1 .. i - 1) = IF 1 > i - 1 THEN 0 ELSE i - 1 - 1 + 1
      BY <3>1, FS_Interval
    <3> QED
      BY <1>1, <3>2
  <2>8. Cardinality(below) = i - 1
    BY <2>6, <2>7, FS_Bijection
  <2> QED
    BY <2>8 DEF below, Rank
<1>4. ASSUME NEW k \in S PROVE Rank(S, k) \in 0 .. n - 1
  BY <1>1, <1>2, <1>3
<1>5. ASSUME NEW j \in S, NEW k \in S
      PROVE  (j < k <=> Rank(S, j) < Rank(S, k)) /\ (Rank(S, j) = Rank(S, k) => j = k)
  <2>1. PICK a \in 1 .. n, b \in 1 .. n : s[a] = j /\ s[b] = k
    BY <1>1
  <2>2. Rank(S, j) = a - 1 /\ Rank(S, k) = b - 1
    BY <1>3, <2>1
  <2>3. j < k <=> a < b
    BY <1>1, <2>1
  <2> QED
    BY <1>2, <2>1, <2>2, <2>3
<1>6. ASSUME NEW i \in 0 .. n - 1 PROVE \E k \in S : Rank(S, k) = i
  <2>1. i + 1 \in 1 .. n /\ i + 1 - 1 = i
    BY <1>1
  <2>2. s[i + 1] \in S /\ Rank(S, s[i + 1]) = i
    BY <1>2, <1>3, <2>1
  <2> QED
    BY <2>2
<1> QED
  BY <1>1, <1>3, <1>4, <1>5, <1>6

\* Versions in order, as long as no two are equal in key and timestamp.
LEMMA VersionsInOrder ==
    ASSUME NEW S, IsFiniteSet(S), \A p \in S : p.key \in Int /\ p.ts \in Int,
           \A p, q \in S : p.key = q.key /\ p.ts = q.ts => p = q
    PROVE  /\ Cardinality(S) \in Nat
           /\ KVsInOrder(S) \in [1 .. Cardinality(S) -> S]
           /\ \A x \in S : \E i \in 1 .. Cardinality(S) : KVsInOrder(S)[i] = x
           /\ \A i, j \in 1 .. Cardinality(S) :
                i < j <=> KVLess(KVsInOrder(S)[i], KVsInOrder(S)[j])
<1>1. PICK under \in [S -> SUBSET S] : \A x \in S : under[x] = {y \in S : KVLess(y, x)}
  <2>1. [x \in S |-> {y \in S : KVLess(y, x)}] \in [S -> SUBSET S]
    OBVIOUS
  <2> QED
    BY <2>1
<1>2. Orders(under, S)
  BY <1>1 DEF Orders, KVLess
<1>3. \E f \in [1 .. Cardinality(S) -> S] : \A i, j \in DOMAIN f : i < j => KVLess(f[i], f[j])
  <2>1. PICK f \in [1 .. Cardinality(S) -> S] :
            \A i, j \in 1 .. Cardinality(S) : i < j => f[i] \in under[f[j]]
    BY <1>2, OrderExists
  <2> QED
    BY <1>1, <2>1
<1>4. PICK s : s = KVsInOrder(S)
  OBVIOUS
<1>5. /\ s \in [1 .. Cardinality(S) -> S]
      /\ \A i, j \in DOMAIN s : i < j => KVLess(s[i], s[j])
  BY <1>3, <1>4 DEF KVsInOrder
<1>6. \A i, j \in 1 .. Cardinality(S) : i < j => s[i] \in under[s[j]]
  BY <1>1, <1>5
<1>7. /\ Cardinality(S) \in Nat
      /\ \A x \in S : \E i \in 1 .. Cardinality(S) : s[i] = x
      /\ \A i, j \in 1 .. Cardinality(S) : s[i] \in under[s[j]] => i < j
  BY <1>2, <1>5, <1>6, Ordered
<1>8. \A i, j \in 1 .. Cardinality(S) : KVLess(s[i], s[j]) => s[i] \in under[s[j]]
  BY <1>1, <1>5
<1> QED
  BY <1>4, <1>5, <1>7, <1>8

\* The tables of a run in order: no two have the same smallest key.
LEMMA TablesInOrder ==
    ASSUME NEW S, IsFiniteSet(S), \A t \in S : Smallest(t) \in Int,
           \A t, u \in S : Smallest(t) = Smallest(u) => t = u
    PROVE  /\ Cardinality(S) \in Nat
           /\ SSTsInOrder(S) \in [1 .. Cardinality(S) -> S]
           /\ \A x \in S : \E i \in 1 .. Cardinality(S) : SSTsInOrder(S)[i] = x
           /\ \A i, j \in 1 .. Cardinality(S) :
                i < j <=> Smallest(SSTsInOrder(S)[i]) < Smallest(SSTsInOrder(S)[j])
<1>1. PICK under \in [S -> SUBSET S] :
          \A x \in S : under[x] = {y \in S : Smallest(y) < Smallest(x)}
  <2>1. [x \in S |-> {y \in S : Smallest(y) < Smallest(x)}] \in [S -> SUBSET S]
    OBVIOUS
  <2> QED
    BY <2>1
<1>2. Orders(under, S)
  BY <1>1 DEF Orders
<1>3. \A t, u \in S : t # u /\ Before(t, u) <=> t \in under[u]
  BY <1>1 DEF Before
<1>4. \E f \in [1 .. Cardinality(S) -> S] :
          \A i, j \in DOMAIN f : i < j => f[i] # f[j] /\ Before(f[i], f[j])
  <2>1. PICK f \in [1 .. Cardinality(S) -> S] :
            \A i, j \in 1 .. Cardinality(S) : i < j => f[i] \in under[f[j]]
    BY <1>2, OrderExists
  <2> QED
    BY <1>3, <2>1
<1>5. PICK s : s = SSTsInOrder(S)
  OBVIOUS
<1>6. /\ s \in [1 .. Cardinality(S) -> S]
      /\ \A i, j \in DOMAIN s : i < j => s[i] # s[j] /\ Before(s[i], s[j])
  BY <1>4, <1>5 DEF SSTsInOrder
<1>7. \A i, j \in 1 .. Cardinality(S) : i < j => s[i] \in under[s[j]]
  BY <1>3, <1>6
<1>8. /\ Cardinality(S) \in Nat
      /\ \A x \in S : \E i \in 1 .. Cardinality(S) : s[i] = x
      /\ \A i, j \in 1 .. Cardinality(S) : s[i] \in under[s[j]] => i < j
  BY <1>2, <1>6, <1>7, Ordered
<1>9. \A i, j \in 1 .. Cardinality(S) : s[i] \in under[s[j]] <=> Smallest(s[i]) < Smallest(s[j])
  BY <1>1, <1>6
<1> QED
  BY <1>5, <1>6, <1>7, <1>8, <1>9

-----------------------------------------------------------------------------
(* Tables and runs *)

Stamped == [key : Nat, ts : Nat]

\* No two versions of a key.
Singles(kvs) == \A p, q \in kvs : p.key = q.key => p = q

\* Tables whose ranges of keys do not overlap.
Separate(s, t) == \A p \in s.kvs, q \in t.kvs : p.key < q.key

\* Versions in increasing order.
Ordering(r) == \A i, j \in 1 .. Len(r) : i < j => KVLess(r[i], r[j])

\* A table in order.
LEMMA EntriesOrdered ==
    ASSUME NEW kvs \in SUBSET Stamped, IsFiniteSet(kvs)
    PROVE  \E e \in Seq(kvs) :
             /\ e = KVsInOrder(kvs)
             /\ Len(e) = Cardinality(kvs)
             /\ Ordering(e)
             /\ \A i \in 1 .. Len(e) : e[i] \in kvs
             /\ \A p \in kvs : \E i \in 1 .. Len(e) : e[i] = p
<1>1. PICK e : e = KVsInOrder(kvs)
  OBVIOUS
<1>2. /\ \A p \in kvs : p.key \in Int /\ p.ts \in Int
      /\ \A p, q \in kvs : p.key = q.key /\ p.ts = q.ts => p = q
  <2>1. \A p \in Stamped : p.key \in Int /\ p.ts \in Int
    BY DEF Stamped
  <2>2. \A p, q \in Stamped : p.key = q.key /\ p.ts = q.ts => p = q
    BY DEF Stamped
  <2> QED
    BY <2>1, <2>2
<1>3. /\ Cardinality(kvs) \in Nat
      /\ e \in [1 .. Cardinality(kvs) -> kvs]
      /\ \A p \in kvs : \E i \in 1 .. Cardinality(kvs) : e[i] = p
      /\ \A i, j \in 1 .. Cardinality(kvs) : i < j <=> KVLess(e[i], e[j])
  BY <1>1, <1>2, VersionsInOrder
<1>4. e \in Seq(kvs) /\ Len(e) = Cardinality(kvs)
  BY <1>3
<1>5. Ordering(e)
  BY <1>3, <1>4 DEF Ordering
<1> QED
  BY <1>1, <1>3, <1>4, <1>5

\* The tables of a run in order.
LEMMA RunOrdered ==
    ASSUME NEW S, IsFiniteSet(S), \A s \in S : s.kvs \in SUBSET Stamped /\ s.kvs # {},
           \A s, t \in S : s # t => Separate(s, t) \/ Separate(t, s)
    PROVE  \E t \in Seq(S) :
             /\ t = SSTsInOrder(S)
             /\ Len(t) = Cardinality(S)
             /\ \A s \in S : \E i \in 1 .. Len(t) : t[i] = s
             /\ \A i, j \in 1 .. Len(t) : i < j => t[i] # t[j] /\ Before(t[i], t[j]) /\ Separate(t[i], t[j])
<1>1. ASSUME NEW s \in S
      PROVE  Smallest(s) \in KeysOf(s.kvs) /\ Smallest(s) \in Nat
  <2>1. KeysOf(s.kvs) \subseteq Nat /\ KeysOf(s.kvs) # {}
    BY DEF KeysOf, Stamped
  <2>2. \E k \in KeysOf(s.kvs) : \A j \in KeysOf(s.kvs) : k <= j
    BY <2>1, LeastNatural
  <2> QED
    BY <2>1, <2>2 DEF Smallest
<1>2. ASSUME NEW s \in S, NEW t \in S, Separate(s, t)
      PROVE  Smallest(s) < Smallest(t)
  BY <1>1, <1>2 DEF Separate, KeysOf
<1>3. \A s, t \in S : s # t => Smallest(s) # Smallest(t)
  BY <1>1, <1>2
<1>4. PICK t : t = SSTsInOrder(S)
  OBVIOUS
<1>5. /\ Cardinality(S) \in Nat
      /\ t \in [1 .. Cardinality(S) -> S]
      /\ \A s \in S : \E i \in 1 .. Cardinality(S) : t[i] = s
      /\ \A i, j \in 1 .. Cardinality(S) : i < j <=> Smallest(t[i]) < Smallest(t[j])
  <2>1. \A s \in S : Smallest(s) \in Int
    BY <1>1
  <2> QED
    BY <1>3, <1>4, <2>1, TablesInOrder
<1>6. t \in Seq(S) /\ Len(t) = Cardinality(S)
  BY <1>5
<1>7. ASSUME NEW i \in 1 .. Len(t), NEW j \in 1 .. Len(t), i < j
      PROVE  t[i] # t[j] /\ Before(t[i], t[j]) /\ Separate(t[i], t[j])
  <2>1. t[i] \in S /\ t[j] \in S /\ Smallest(t[i]) < Smallest(t[j])
    BY <1>5, <1>6, <1>7
  <2>2. t[i] # t[j] /\ ~ (Smallest(t[j]) < Smallest(t[i]))
    BY <1>1, <2>1
  <2>3. Before(t[i], t[j])
    BY <2>1 DEF Before
  <2>4. Separate(t[i], t[j])
    BY <1>2, <2>1, <2>2
  <2> QED
    BY <2>2, <2>3, <2>4
<1> QED
  BY <1>4, <1>5, <1>6, <1>7

\* No more versions are in tables than there is room for.
LEMMA VersionsFit ==
    ASSUME NEW tables, IsFiniteSet(tables), NEW limit \in Nat,
           \A s \in tables : IsFiniteSet(s.kvs) /\ Cardinality(s.kvs) <= limit
    PROVE  LET all == UNION {s.kvs : s \in tables}
           IN IsFiniteSet(all) /\ Cardinality(all) <= Cardinality(tables) * limit
<1> DEFINE all(S)  == UNION {s.kvs : s \in S}
           fits(S) == IsFiniteSet(all(S)) /\ Cardinality(all(S)) <= Cardinality(S) * limit
           sets    == {S \in SUBSET tables : ~ fits(S)}
           sizes   == {Cardinality(S) : S \in sets}
<1>1. \A S \in SUBSET tables : IsFiniteSet(S) /\ Cardinality(S) \in Nat
  BY FS_Subset, FS_CardinalityType
<1>2. SUFFICES ASSUME sets # {}
               PROVE  FALSE
  OBVIOUS
<1>3. PICK n \in sizes : \A m \in sizes : n <= m
  <2>1. sizes \subseteq Nat /\ sizes # {}
    BY <1>1, <1>2
  <2> QED
    BY ONLY <2>1, LeastNatural
<1>4. PICK S \in sets : \A T \in sets : Cardinality(S) <= Cardinality(T)
  BY <1>3
<1>5. S \in SUBSET tables /\ ~ fits(S)
  BY <1>4
<1>6. S # {}
  <2>1. all({}) = {} /\ Cardinality({}) = 0 /\ IsFiniteSet({})
    BY FS_EmptySet
  <2>2. 0 * limit = 0
    OBVIOUS
  <2> HIDE DEF all
  <2>3. fits({})
    BY <2>1, <2>2
  <2> QED
    BY <1>5, <2>3
<1>7. PICK s \in S : TRUE
  BY <1>6
<1>8. /\ Cardinality(S \ {s}) = Cardinality(S) - 1
      /\ Cardinality(S) \in Nat /\ Cardinality(S) - 1 \in Nat
  <2>1. IsFiniteSet(S) /\ Cardinality(S) \in Nat /\ Cardinality(S \ {s}) \in Nat
    BY <1>1, <1>5
  <2>2. Cardinality(S \ {s}) = Cardinality(S) - 1
    BY <1>7, <2>1, FS_RemoveElement
  <2> QED
    BY <2>1, <2>2
<1>9. fits(S \ {s})
  <2>1. S \ {s} \in SUBSET tables /\ ~ (Cardinality(S) <= Cardinality(S \ {s}))
    BY <1>5, <1>8
  <2> HIDE DEF fits
  <2> QED
    BY <1>4, <2>1
<1>10. all(S) = all(S \ {s}) \cup s.kvs
  BY <1>7
<1>11. IsFiniteSet(s.kvs) /\ Cardinality(s.kvs) <= limit /\ Cardinality(s.kvs) \in Nat
  BY <1>5, <1>7, FS_CardinalityType
<1>12. /\ IsFiniteSet(all(S \ {s})) /\ Cardinality(all(S \ {s})) \in Nat
       /\ Cardinality(all(S \ {s})) <= (Cardinality(S) - 1) * limit
  BY <1>8, <1>9, FS_CardinalityType
<1> HIDE DEF all
<1>13. /\ IsFiniteSet(all(S)) /\ Cardinality(all(S)) \in Nat
       /\ Cardinality(all(S)) <= Cardinality(all(S \ {s})) + Cardinality(s.kvs)
  <2>1. IsFiniteSet(all(S \ {s}) \cup s.kvs)
    BY <1>11, <1>12, FS_Union
  <2>2. Cardinality(all(S \ {s}) \cup s.kvs) =
          Cardinality(all(S \ {s})) + Cardinality(s.kvs) - Cardinality(all(S \ {s}) \cap s.kvs)
    BY <1>11, <1>12, FS_Union
  <2>3. Cardinality(all(S \ {s}) \cap s.kvs) \in Nat
    BY <1>11, FS_Intersection, FS_CardinalityType
  <2>4. Cardinality(all(S \ {s}) \cup s.kvs) <= Cardinality(all(S \ {s})) + Cardinality(s.kvs)
    BY <1>11, <1>12, <2>2, <2>3
  <2> QED
    BY <1>10, <2>1, <2>4, FS_CardinalityType
<1>14. Cardinality(all(S)) <= (Cardinality(S) - 1) * limit + limit
  BY <1>8, <1>11, <1>12, <1>13
<1>15. (Cardinality(S) - 1) * limit + limit = Cardinality(S) * limit
  BY <1>8
<1> QED
  BY <1>5, <1>13, <1>14, <1>15

-----------------------------------------------------------------------------
(* Flattened sequences *)

\* f is the concatenations of the first n of the sequences in s.
Concatenates(f, s, n) ==
    /\ f[0] = <<>>
    /\ \A i \in 1 .. n : f[i] = f[i - 1] \o s[i]

\* For how many of them there is no such f.
Unconcatenated(T, s) ==
    {n \in 0 .. Len(s) : ~ \E f \in [0 .. n -> Seq(T)] : Concatenates(f, s, n)}

LEMMA ConcatenationsExist ==
    ASSUME NEW T, NEW s \in Seq(Seq(T))
    PROVE  \E f \in [0 .. Len(s) -> Seq(T)] : Concatenates(f, s, Len(s))
<1>1. Len(s) \in Nat /\ \A i \in 1 .. Len(s) : s[i] \in Seq(T)
  OBVIOUS
<1>2. SUFFICES ASSUME Unconcatenated(T, s) # {} PROVE FALSE
  <2>1. Len(s) \in 0 .. Len(s)
    BY <1>1
  <2>2. Unconcatenated(T, s) = {} => Len(s) \notin Unconcatenated(T, s)
    OBVIOUS
  <2> QED
    BY <2>1, <2>2 DEF Unconcatenated
<1>3. PICK m \in Unconcatenated(T, s) : \A n \in Unconcatenated(T, s) : m <= n
  <2>1. Unconcatenated(T, s) \subseteq 0 .. Len(s)
    BY DEF Unconcatenated
  <2>2. Unconcatenated(T, s) \subseteq Nat
    BY <1>1, <2>1
  <2> QED
    BY <1>2, <2>2, LeastNatural
<1>4. m \in 0 .. Len(s) /\ ~ \E f \in [0 .. m -> Seq(T)] : Concatenates(f, s, m)
  BY DEF Unconcatenated
<1>5. CASE m = 0
  <2>1. PICK f \in [0 .. 0 -> Seq(T)] : f[0] = <<>>
    <3>1. [i \in 0 .. 0 |-> <<>>] \in [0 .. 0 -> Seq(T)]
      OBVIOUS
    <3>2. 0 \in 0 .. 0
      OBVIOUS
    <3>3. [i \in 0 .. 0 |-> <<>>][0] = <<>>
      BY <3>2, Zenon
    <3> QED
      BY <3>1, <3>3, Zenon
  <2> QED
    BY <1>4, <1>5, <2>1 DEF Concatenates
<1>6. CASE m # 0
  <2>1. m - 1 \in 0 .. Len(s) /\ m \in 1 .. Len(s) /\ m - 1 \notin Unconcatenated(T, s)
    BY <1>1, <1>3, <1>4, <1>6
  <2>2. PICK f \in [0 .. m - 1 -> Seq(T)] : Concatenates(f, s, m - 1)
    BY <2>1 DEF Unconcatenated
  <2>3. f[m - 1] \o s[m] \in Seq(T)
    BY <1>1, <2>1, <2>2
  <2>4. PICK g \in [0 .. m -> Seq(T)] :
            \A i \in 0 .. m : g[i] = IF i = m THEN f[m - 1] \o s[m] ELSE f[i]
    <3>1. [i \in 0 .. m |-> IF i = m THEN f[m - 1] \o s[m] ELSE f[i]] \in [0 .. m -> Seq(T)]
      BY <1>1, <2>1, <2>2, <2>3
    <3> QED
      BY <3>1
  <2>5. g[0] = <<>>
    <3>1. 0 \in 0 .. m /\ 0 # m
      BY <2>1
    <3>2. g[0] = f[0]
      BY <2>4, <3>1
    <3> QED
      BY <2>2, <3>2 DEF Concatenates
  <2>6. ASSUME NEW i \in 1 .. m PROVE g[i] = g[i - 1] \o s[i]
    <3>1. CASE i = m
      <4>1. i \in 0 .. m /\ i - 1 \in 0 .. m /\ i - 1 # m
        BY <2>1, <3>1
      <4>2. g[i] = f[m - 1] \o s[m] /\ g[i - 1] = f[i - 1]
        BY <2>4, <3>1, <4>1
      <4> QED
        BY <3>1, <4>2, Zenon
    <3>2. CASE i # m
      <4>1. i \in 1 .. m - 1 /\ i \in 0 .. m /\ i - 1 \in 0 .. m /\ i - 1 # m
        BY <2>1, <3>2
      <4>2. f[i] = f[i - 1] \o s[i]
        BY <2>2, <4>1 DEF Concatenates
      <4>3. g[i] = f[i] /\ g[i - 1] = f[i - 1]
        BY <2>4, <3>2, <4>1
      <4> QED
        BY <4>2, <4>3, Zenon
    <3> QED
      BY <3>1, <3>2
  <2> QED
    BY <1>4, <2>5, <2>6 DEF Concatenates
<1> QED
  BY <1>5, <1>6

\* FlattenSeq is the last of the concatenations.
LEMMA Flattened ==
    ASSUME NEW T, NEW s \in Seq(Seq(T))
    PROVE  \E f \in [0 .. Len(s) -> Seq(T)] :
             Concatenates(f, s, Len(s)) /\ FlattenSeq(s) = f[Len(s)]
<1>1. Len(s) \in Nat /\ \A i \in 1 .. Len(s) : s[i] \in Seq(T)
  OBVIOUS
<1>2. PICK f \in [0 .. Len(s) -> Seq(T)] : Concatenates(f, s, Len(s))
  BY ConcatenationsExist
<1>3. CASE Len(s) = 0
  <2>1. s = <<>> /\ FlattenSeq(s) = s
    BY <1>3 DEF FlattenSeq
  <2> QED
    BY <1>2, <1>3, <2>1 DEF Concatenates
<1>4. CASE Len(s) # 0
  <2> DEFINE Unfolds(c) == c = [i \in 1 .. Len(s) |-> IF i = 1 THEN s[i] ELSE c[i - 1] \o s[i]]
  <2>1. FlattenSeq(s) = (CHOOSE c : Unfolds(c))[Len(s)]
    BY <1>4 DEF FlattenSeq
  <2>2. PICK d : d = [i \in 1 .. Len(s) |-> f[i]]
    OBVIOUS
  <2>3. Unfolds(d)
    <3>1. f[1] = s[1]
      <4>1. 1 \in 1 .. Len(s) /\ 1 - 1 = 0 /\ s[1] \in Seq(T)
        BY <1>1, <1>4
      <4>2. f[1] = <<>> \o s[1]
        BY <1>2, <4>1 DEF Concatenates
      <4> QED
        BY <4>1, <4>2
    <3>2. ASSUME NEW i \in 1 .. Len(s), i # 1 PROVE f[i] = d[i - 1] \o s[i]
      <4>1. i - 1 \in 1 .. Len(s)
        BY <1>1, <3>2
      <4> QED
        BY <1>2, <2>2, <4>1 DEF Concatenates
    <3> QED
      BY <2>2, <3>1, <3>2
  <2>4. PICK c : Unfolds(c) /\ FlattenSeq(s) = c[Len(s)]
    BY <2>1, <2>3
  <2>5. ASSUME NEW i \in 1 .. Len(s), i # 1 PROVE c[i] = c[i - 1] \o s[i]
    BY <2>4, <2>5
  <2>6. 1 \in 1 .. Len(s) /\ c[1] = s[1]
    BY <1>1, <1>4, <2>4
  <2> HIDE DEF Unfolds
  <2>7. c[Len(s)] = f[Len(s)]
    <3> DEFINE D == {i \in 1 .. Len(s) : c[i] # f[i]}
    <3>1. ASSUME NEW m \in D, \A n \in D : m <= n PROVE FALSE
      <4>1. m \in 1 .. Len(s) /\ c[m] # f[m]
        OBVIOUS
      <4>2. f[1] = <<>> \o s[1]
        <5>1. f[1] = f[1 - 1] \o s[1] /\ f[0] = <<>>
          BY <1>2, <2>6, Zenon DEF Concatenates
        <5>2. 1 - 1 = 0
          OBVIOUS
        <5> QED
          BY <5>1, <5>2, Zenon
      <4>3. m # 1
        BY <1>1, <2>6, <4>1, <4>2
      <4>4. m - 1 \in 1 .. Len(s) /\ m - 1 \notin D
        <5>1. m - 1 \in 1 .. Len(s) /\ ~ (m <= m - 1)
          BY <1>1, <4>1, <4>3
        <5>2. m - 1 \in D => m <= m - 1
          BY <3>1, Zenon
        <5> QED
          BY <5>1, <5>2, Zenon
      <4>5. c[m - 1] = f[m - 1]
        BY <4>4
      <4>6. f[m] = f[m - 1] \o s[m]
        BY <1>2, <4>1 DEF Concatenates
      <4>7. c[m] = c[m - 1] \o s[m]
        BY <2>5, <4>1, <4>3
      <4> QED
        BY <4>1, <4>5, <4>6, <4>7, Zenon
    <3>2. D \subseteq Nat
      BY <1>1
    <3> HIDE DEF D
    <3>3. D = {}
      BY <3>1, <3>2, LeastNatural
    <3> QED
      BY <1>1, <1>4, <3>3 DEF D
  <2> QED
    BY <1>2, <2>4, <2>7
<1> QED
  BY <1>3, <1>4

\* Numbers up to a sum.
LEMMA Sums ==
    ASSUME NEW a \in Nat, NEW b \in Nat
    PROVE  /\ a + b \in Nat
           /\ \A i \in Nat : i <= a => i <= a + b
           /\ \A i \in 1 .. a : i \in 1 .. a + b
           /\ \A i \in 1 .. b : a + i \in 1 .. a + b
           /\ \A i \in 1 .. a + b : i \in 1 .. a \/ \E j \in 1 .. b : i = a + j
<1>1. ASSUME NEW i \in 1 .. a + b, i \notin 1 .. a PROVE \E j \in 1 .. b : i = a + j
  <2>1. i - a \in 1 .. b /\ i = a + (i - a)
    BY <1>1
  <2> QED
    BY <2>1
<1> QED
  BY <1>1

Whole(T, s, f) == /\ s \in Seq(Seq(T)) /\ f \in [0 .. Len(s) -> Seq(T)]
                  /\ Concatenates(f, s, Len(s))

\* One step of the concatenations, and a concatenation as a prefix of another.
Joins(T, s, f, l) ==
    /\ f[l] \in Seq(T) /\ f[l - 1] \in Seq(T) /\ s[l] \in Seq(T)
    /\ Len(f[l - 1]) \in Nat /\ Len(s[l]) \in Nat
    /\ Len(f[l]) = Len(f[l - 1]) + Len(s[l])
    /\ \A i \in 1 .. Len(f[l - 1]) : f[l][i] = f[l - 1][i]
    /\ \A j \in 1 .. Len(s[l]) : f[l][Len(f[l - 1]) + j] = s[l][j]

Extends(f, m, k) == /\ Len(f[m]) <= Len(f[k])
                    /\ \A i \in 1 .. Len(f[m]) : f[k][i] = f[m][i]

LEMMA Concatenation ==
    ASSUME NEW T, NEW s, NEW f, Whole(T, s, f), NEW l \in 1 .. Len(s)
    PROVE  Joins(T, s, f, l)
<1>1. l \in 0 .. Len(s) /\ l - 1 \in 0 .. Len(s)
  BY DEF Whole
<1>2. PICK a \in Seq(T) : a = f[l - 1]
  BY <1>1 DEF Whole
<1>3. PICK b \in Seq(T) : b = s[l]
  BY DEF Whole
<1>4. f[l] = a \o b
  BY <1>2, <1>3, Zenon DEF Concatenates, Whole
<1>5. /\ a \o b \in Seq(T) /\ Len(a) \in Nat /\ Len(b) \in Nat
      /\ Len(a \o b) = Len(a) + Len(b)
      /\ \A i \in 1 .. Len(a) : (a \o b)[i] = a[i]
      /\ \A j \in 1 .. Len(b) : (a \o b)[Len(a) + j] = b[j]
  OBVIOUS
<1> QED
  BY ONLY <1>2, <1>3, <1>4, <1>5 DEF Joins

\* A concatenation is a prefix of those after it.
LEMMA EarlierIsPrefix ==
    ASSUME NEW T, NEW s, NEW f, Whole(T, s, f), NEW m \in 0 .. Len(s), NEW n \in m .. Len(s)
    PROVE  Extends(f, m, n)
<1>1. Len(s) \in Nat
  BY DEF Whole
<1> DEFINE D == {k \in m .. Len(s) : ~ Extends(f, m, k)}
<1>2. \A k \in 0 .. Len(s) : f[k] \in Seq(T) /\ Len(f[k]) \in Nat
  BY DEF Whole
<1>3. Extends(f, m, m)
  BY <1>2 DEF Extends
<1>4. ASSUME NEW k \in D, \A j \in D : k <= j PROVE FALSE
  <2>1. k \in m .. Len(s) /\ ~ Extends(f, m, k)
    OBVIOUS
  <2>2. k # m
    BY <1>3, <2>1
  <2>3. k \in 1 .. Len(s) /\ k - 1 \in m .. Len(s) /\ k - 1 \in 0 .. Len(s)
    BY <1>1, <2>1, <2>2
  <2>4. k - 1 \notin D
    <3>1. ~ (k <= k - 1)
      BY <2>1
    <3> HIDE DEF D
    <3> QED
      BY <1>4, <3>1
  <2>5. Extends(f, m, k - 1)
    BY <2>3, <2>4
  <2>6. /\ Len(f[k - 1]) \in Nat /\ Len(s[k]) \in Nat
        /\ Len(f[k]) = Len(f[k - 1]) + Len(s[k])
        /\ \A i \in 1 .. Len(f[k - 1]) : f[k][i] = f[k - 1][i]
    <3>1. Joins(T, s, f, k)
      BY <2>3, Concatenation
    <3> QED
      BY <3>1 DEF Joins
  <2>7. Len(f[m]) \in Nat /\ Len(f[m]) <= Len(f[k - 1])
    BY <1>2, <2>5 DEF Extends
  <2>8. ASSUME NEW i \in 1 .. Len(f[m]) PROVE f[k][i] = f[m][i]
    <3>1. f[k - 1][i] = f[m][i]
      BY <2>5 DEF Extends
    <3>2. i \in 1 .. Len(f[k - 1])
      BY <2>6, <2>7
    <3> QED
      BY <2>6, <3>1, <3>2
  <2>9. Extends(f, m, k)
    <3>1. Len(f[m]) <= Len(f[k])
      <4>1. Len(f[m]) <= Len(f[k - 1]) + Len(s[k])
        BY <2>6, <2>7, Sums
      <4> QED
        BY <2>6, <4>1, Zenon
    <3> QED
      BY <2>8, <3>1 DEF Extends
  <2> QED
    BY <2>1, <2>9
<1>5. D \subseteq Nat
  BY <1>1
<1> HIDE DEF D
<1>6. D = {}
  BY <1>4, <1>5, LeastNatural
<1> QED
  BY <1>6 DEF D

\* Where the elements of the sequences are in the whole.
Within(s, f, l) ==
    /\ Len(f[l]) <= Len(f[Len(s)])
    /\ \A j \in 1 .. Len(s[l]) : f[Len(s)][Len(f[l - 1]) + j] = s[l][j]

LEMMA Located ==
    ASSUME NEW T, NEW s, NEW f, Whole(T, s, f), NEW l \in 1 .. Len(s)
    PROVE  Within(s, f, l)
<1>1. /\ Len(f[l - 1]) \in Nat /\ Len(s[l]) \in Nat
      /\ Len(f[l]) = Len(f[l - 1]) + Len(s[l])
      /\ \A j \in 1 .. Len(s[l]) : f[l][Len(f[l - 1]) + j] = s[l][j]
  <2>1. Joins(T, s, f, l)
    BY Concatenation
  <2> QED
    BY <2>1 DEF Joins
<1>2. l \in 0 .. Len(s) /\ Len(s) \in l .. Len(s)
  BY DEF Whole
<1>3. /\ Len(f[l]) <= Len(f[Len(s)])
      /\ \A i \in 1 .. Len(f[l]) : f[Len(s)][i] = f[l][i]
  <2>1. Extends(f, l, Len(s))
    BY <1>2, EarlierIsPrefix
  <2> QED
    BY <2>1 DEF Extends
<1>4. ASSUME NEW j \in 1 .. Len(s[l]) PROVE f[Len(s)][Len(f[l - 1]) + j] = s[l][j]
  <2>1. Len(f[l - 1]) + j \in 1 .. Len(f[l])
    <3>1. Len(f[l - 1]) + j \in 1 .. Len(f[l - 1]) + Len(s[l])
      BY <1>1, Sums
    <3> QED
      BY <1>1, <3>1
  <2> QED
    BY <1>1, <1>3, <2>1
<1> QED
  BY <1>3, <1>4 DEF Within

\* There is nothing else in the whole.
Origin(s, f, i) ==
    \E l \in 1 .. Len(s) : \E j \in 1 .. Len(s[l]) :
        i = Len(f[l - 1]) + j /\ f[Len(s)][i] = s[l][j]

LEMMA Origins ==
    ASSUME NEW T, NEW s, NEW f, Whole(T, s, f), NEW i \in 1 .. Len(f[Len(s)])
    PROVE  Origin(s, f, i)
<1>1. /\ Len(s) \in Nat /\ Len(s) \in 0 .. Len(s)
      /\ \A k \in 0 .. Len(s) : Len(f[k]) \in Nat
  BY DEF Whole
<1>2. PICK D : D = {k \in 0 .. Len(s) : i <= Len(f[k])}
  OBVIOUS
<1>3. D \subseteq Nat /\ D # {}
  BY <1>1, <1>2
<1>4. PICK l \in D : \A k \in D : l <= k
  BY <1>3, LeastNatural
<1>5. l # 0
  <2>1. f[0] = <<>> /\ Len(<<>>) = 0
    BY DEF Concatenates, Whole
  <2> QED
    BY <1>2, <2>1
<1>6. l \in 1 .. Len(s) /\ l - 1 \in 0 .. Len(s) /\ l - 1 \notin D
  BY <1>1, <1>2, <1>4, <1>5
<1>7. /\ Len(f[l - 1]) \in Nat /\ Len(s[l]) \in Nat
      /\ Len(f[l]) = Len(f[l - 1]) + Len(s[l])
  <2>1. Joins(T, s, f, l)
    BY <1>6, Concatenation
  <2> QED
    BY <2>1 DEF Joins
<1>8. Len(f[l - 1]) < i /\ i <= Len(f[l])
  BY <1>1, <1>2, <1>6
<1>9. i \in 1 .. Len(f[l]) /\ i \notin 1 .. Len(f[l - 1])
  BY <1>1, <1>6, <1>8
<1>10. \E j \in 1 .. Len(s[l]) : i = Len(f[l - 1]) + j
  <2>1. i \in 1 .. Len(f[l - 1]) + Len(s[l])
    BY <1>7, <1>9, Zenon
  <2> QED
    BY <1>7, <1>9, <2>1, Sums
<1>11. PICK j \in 1 .. Len(s[l]) : i = Len(f[l - 1]) + j
  BY <1>10
<1>12. f[Len(s)][Len(f[l - 1]) + j] = s[l][j]
  <2>1. Within(s, f, l)
    BY <1>6, Located
  <2> QED
    BY <1>11, <2>1, Zenon DEF Within
<1>13. f[Len(s)][i] = s[l][j]
  BY <1>11, <1>12, Zenon
<1> QED
  BY <1>6, <1>11, <1>13, Zenon DEF Origin

\* An element of a later sequence comes later in the whole.
Precedes(s, f, l, m) ==
    \A i \in 1 .. Len(s[l]), j \in 1 .. Len(s[m]) : Len(f[l - 1]) + i < Len(f[m - 1]) + j

LEMMA LaterComesLater ==
    ASSUME NEW T, NEW s, NEW f, Whole(T, s, f), NEW l \in 1 .. Len(s), NEW m \in 1 .. Len(s), l < m
    PROVE  Precedes(s, f, l, m)
<1>1. Len(s) \in Nat /\ \A k \in 0 .. Len(s) : Len(f[k]) \in Nat
  BY DEF Whole
<1>2. /\ l - 1 \in 0 .. Len(s) /\ m - 1 \in 0 .. Len(s) /\ l \in 0 .. Len(s)
      /\ m - 1 \in l .. Len(s)
  BY <1>1
<1>3. Len(f[l]) = Len(f[l - 1]) + Len(s[l]) /\ Len(s[l]) \in Nat /\ Len(s[m]) \in Nat
  <2>1. Joins(T, s, f, l) /\ Joins(T, s, f, m)
    BY Concatenation
  <2> QED
    BY <2>1 DEF Joins
<1>4. Len(f[l]) <= Len(f[m - 1])
  <2>1. Extends(f, l, m - 1)
    BY <1>2, EarlierIsPrefix
  <2> QED
    BY <2>1 DEF Extends
<1>5. PICK a \in Nat : a = Len(f[l - 1])
  BY <1>1, <1>2
<1>6. PICK b \in Nat : b = Len(f[m - 1])
  BY <1>1, <1>2
<1>7. PICK c \in Nat : c = Len(s[l])
  BY <1>3
<1>8. PICK d \in Nat : d = Len(s[m])
  BY <1>3
<1>9. a + c <= b
  BY ONLY <1>3, <1>4, <1>5, <1>6, <1>7
<1>10. \A i \in 1 .. c, j \in 1 .. d : a + i < b + j
  BY <1>9
<1> QED
  BY <1>5, <1>6, <1>7, <1>8, <1>10, Zenon DEF Precedes

\* Empty sequences at the end add nothing.
LEMMA Padded ==
    ASSUME NEW T, NEW a \in Seq(Seq(T)), NEW b \in Seq(Seq(T)), Len(a) <= Len(b),
           \A l \in 1 .. Len(a) : b[l] = a[l],
           \A l \in 1 .. Len(b) : l > Len(a) => b[l] = <<>>
    PROVE  FlattenSeq(b) = FlattenSeq(a)
<1>1. Len(a) \in Nat /\ Len(b) \in Nat
  OBVIOUS
<1>2. PICK f \in [0 .. Len(a) -> Seq(T)] :
          Concatenates(f, a, Len(a)) /\ FlattenSeq(a) = f[Len(a)]
  BY Flattened
<1>3. PICK g \in [0 .. Len(b) -> Seq(T)] :
          Concatenates(g, b, Len(b)) /\ FlattenSeq(b) = g[Len(b)]
  BY Flattened
<1> DEFINE low(k) == IF k <= Len(a) THEN k ELSE Len(a)
           D == {k \in 0 .. Len(b) : g[k] # f[low(k)]}
<1>4. ASSUME NEW k \in D, \A j \in D : k <= j PROVE FALSE
  <2>1. k \in 0 .. Len(b) /\ g[k] # f[low(k)]
    OBVIOUS
  <2>2. k # 0
    BY <1>1, <1>2, <1>3, <2>1 DEF Concatenates
  <2>3. k \in 1 .. Len(b) /\ k - 1 \in 0 .. Len(b) /\ ~ (k <= k - 1)
    BY <1>1, <2>1, <2>2
  <2>4. k - 1 \notin D
    <3> HIDE DEF D
    <3> QED
      BY <1>4, <2>3
  <2>5. g[k - 1] = f[low(k - 1)]
    BY <2>3, <2>4
  <2>6. g[k] = g[k - 1] \o b[k] /\ g[k - 1] \in Seq(T)
    BY <1>3, <2>3 DEF Concatenates
  <2>7. CASE k <= Len(a)
    <3>1. k \in 1 .. Len(a) /\ low(k) = k /\ low(k - 1) = k - 1
      BY <1>1, <2>3, <2>7
    <3>2. f[k] = f[k - 1] \o a[k] /\ b[k] = a[k]
      BY <1>2, <3>1 DEF Concatenates
    <3> HIDE DEF low
    <3> QED
      BY <2>1, <2>5, <2>6, <3>1, <3>2, Zenon
  <2>8. CASE ~ (k <= Len(a))
    <3>1. low(k) = Len(a) /\ low(k - 1) = Len(a) /\ k > Len(a)
      BY <1>1, <2>3, <2>8
    <3>2. b[k] = <<>>
      BY <2>3, <3>1
    <3>3. g[k - 1] \o <<>> = g[k - 1]
      BY <2>6
    <3> HIDE DEF low
    <3> QED
      BY <2>1, <2>5, <2>6, <3>1, <3>2, <3>3, Zenon
  <2> QED
    BY <2>7, <2>8
<1>5. D \subseteq Nat
  BY <1>1
<1>6. low(Len(b)) = Len(a)
  BY <1>1
<1> HIDE DEF D
<1>7. D = {}
  BY <1>4, <1>5, LeastNatural
<1>8. Len(b) \in 0 .. Len(b)
  BY <1>1
<1>9. g[Len(b)] = f[low(Len(b))]
  BY <1>7, <1>8 DEF D
<1> QED
  BY <1>2, <1>3, <1>6, <1>9

=============================================================================

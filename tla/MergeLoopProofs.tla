---------------------------- MODULE MergeLoopProofs ----------------------------
(***************************************************************************)
(* Proofs about MergeLoop, for any finite set of keys and every size of    *)
(* the tables: no assert of the iterators or of doCompaction fails, and    *)
(* each step of the loop writes the table LSMTree's merge writes, or none. *)
(***************************************************************************)
EXTENDS MergeLoop, TablesProofs

-----------------------------------------------------------------------------
(* Iterators *)

\* An iterator at one of its versions, all of which it has in order.
AtVersion(it) ==
    /\ it \in [run : Seq(Seq(KV)), table : Nat, entry : Nat]
    /\ it.table \in 1 .. Len(it.run)
    /\ it.entry \in 1 .. Len(it.run[it.table])

InOrder(run) ==
    /\ \A l \in 1 .. Len(run) : Len(run[l]) > 0 /\ Ordering(run[l])
    /\ \A l, m \in 1 .. Len(run) : l < m =>
         \A i \in 1 .. Len(run[l]), j \in 1 .. Len(run[m]) : KVLess(run[l][i], run[m][j])

Sound(it) == AtVersion(it) /\ InOrder(it.run)

\* The versions it is at and has still to come to.
Places(it) ==
    {pl \in (1 .. Len(it.run)) \X Nat :
       /\ pl[2] \in 1 .. Len(it.run[pl[1]])
       /\ it.table < pl[1] \/ (it.table = pl[1] /\ it.entry <= pl[2])}
Ahead(it) == {it.run[pl[1]][pl[2]] : pl \in Places(it)}

\* KVPair's order is a linear order.
LEMMA Linear ==
    ASSUME NEW p \in KV, NEW q \in KV
    PROVE  /\ ~ KVLess(p, p)
           /\ p = q \/ KVLess(p, q) \/ KVLess(q, p)
           /\ ~ (KVLess(p, q) /\ KVLess(q, p))
           /\ p.key \in Nat /\ p.ts \in Nat
<1>1. /\ p.key \in Nat /\ p.ts \in Nat /\ q.key \in Nat /\ q.ts \in Nat
  BY MergeAssumption DEF KV
<1>2. p.key = q.key /\ p.ts = q.ts => p = q
  BY DEF KV
<1> QED
  BY <1>1, <1>2 DEF KVLess

\* Of two places the one in front has the smaller version.
LEMMA PlacesOrdered ==
    ASSUME NEW run \in Seq(Seq(KV)), InOrder(run), NEW l \in 1 .. Len(run), NEW m \in 1 .. Len(run),
           NEW i \in 1 .. Len(run[l]), NEW j \in 1 .. Len(run[m]), l < m \/ (l = m /\ i < j)
    PROVE  KVLess(run[l][i], run[m][j])
<1>1. CASE l < m
  BY <1>1 DEF InOrder
<1>2. CASE l = m /\ i < j
  <2>1. Ordering(run[l]) /\ j \in 1 .. Len(run[l])
    BY <1>2 DEF InOrder
  <2> QED
    BY <1>2, <2>1 DEF Ordering
<1> QED
  BY <1>1, <1>2

\* The version an iterator is at is the smallest ahead of it.
LEMMA AtIsSmallest ==
    ASSUME NEW it, Sound(it)
    PROVE  /\ At(it) \in Ahead(it)
           /\ Ahead(it) \subseteq KV
           /\ \A p \in Ahead(it) : p = At(it) \/ KVLess(At(it), p)
<1>1. PICK run \in Seq(Seq(KV)), t \in Nat, e \in Nat :
          /\ it.run = run /\ it.table = t /\ it.entry = e
          /\ t \in 1 .. Len(run) /\ e \in 1 .. Len(run[t])
  BY DEF Sound, AtVersion
<1>2. /\ InOrder(run) /\ Len(run) \in Nat
      /\ \A l \in 1 .. Len(run) : run[l] \in Seq(KV) /\ Len(run[l]) \in Nat
  BY <1>1 DEF Sound
<1>3. At(it) = run[t][e]
  BY <1>1 DEF At
<1>4. <<t, e>> \in Places(it)
  BY <1>1, <1>2 DEF Places
<1>5. At(it) \in Ahead(it)
  BY <1>1, <1>3, <1>4 DEF Ahead
<1>6. ASSUME NEW p \in Ahead(it)
      PROVE  p \in KV /\ (p = At(it) \/ KVLess(At(it), p))
  <2>1. PICK pl \in Places(it) : p = run[pl[1]][pl[2]]
    BY <1>1 DEF Ahead
  <2>2. PICK l \in 1 .. Len(run), i \in Nat :
            /\ l = pl[1] /\ i = pl[2] /\ i \in 1 .. Len(run[l])
            /\ t < l \/ (t = l /\ e <= i)
    BY <1>1, <1>2, <2>1 DEF Places
  <2>3. p = run[l][i] /\ p \in KV
    BY <1>2, <2>1, <2>2
  <2>4. CASE t = l /\ e = i
    BY <1>3, <2>3, <2>4
  <2>5. CASE t < l \/ (t = l /\ e < i)
    <3>1. KVLess(run[t][e], run[l][i])
      BY <1>1, <1>2, <2>2, <2>5, PlacesOrdered
    <3> QED
      BY <1>3, <2>3, <3>1
  <2> QED
    BY <1>1, <2>2, <2>3, <2>4, <2>5
<1> QED
  BY <1>5, <1>6

\* Moving on, an iterator loses that version and no other; at the last one there is none
\* to move on to.
LEMMA Advances ==
    ASSUME NEW it, Sound(it)
    PROVE  /\ Exhausted(it) => Ahead(it) = {At(it)}
           /\ ~ Exhausted(it) => Sound(Advanced(it)) /\ Ahead(Advanced(it)) = Ahead(it) \ {At(it)}
<1>1. PICK run \in Seq(Seq(KV)), t \in Nat, e \in Nat :
          /\ it.run = run /\ it.table = t /\ it.entry = e
          /\ t \in 1 .. Len(run) /\ e \in 1 .. Len(run[t])
  BY DEF Sound, AtVersion
<1>2. /\ InOrder(run) /\ Len(run) \in Nat
      /\ \A l \in 1 .. Len(run) : run[l] \in Seq(KV) /\ Len(run[l]) \in Nat \ {0}
  BY <1>1 DEF Sound, InOrder
<1>3. At(it) = run[t][e] /\ (LastInTable(it) <=> e = Len(run[t]))
  BY <1>1 DEF At, LastInTable
<1>4. Exhausted(it) => Ahead(it) = {At(it)}
  <2>1. SUFFICES ASSUME Exhausted(it)
                 PROVE  \A pl \in Places(it) : run[pl[1]][pl[2]] = At(it)
    BY <1>1, AtIsSmallest DEF Ahead
  <2>2. t = Len(run) /\ e = Len(run[t])
    BY <1>1, <1>3, <2>1 DEF Exhausted
  <2>3. ASSUME NEW pl \in Places(it)
        PROVE  pl[1] = t /\ pl[2] = e
    BY <1>1, <1>2, <2>2, <2>3 DEF Places
  <2> QED
    BY <1>3, <2>3
<1>5. ASSUME ~ Exhausted(it)
      PROVE  Sound(Advanced(it)) /\ Ahead(Advanced(it)) = Ahead(it) \ {At(it)}
  <2>1. it \in [run : Seq(Seq(KV)), table : Nat, entry : Nat]
    BY DEF Sound, AtVersion
  <2>2. PICK u \in Nat, f \in Nat :
            /\ u = IF e = Len(run[t]) THEN t + 1 ELSE t
            /\ f = IF e = Len(run[t]) THEN 1 ELSE e + 1
    <3>1. t + 1 \in Nat /\ e + 1 \in Nat
      BY <1>1
    <3> QED
      BY <1>1, <3>1
  <2>3. PICK on : on = Advanced(it)
    OBVIOUS
  <2>4. /\ on \in [run : Seq(Seq(KV)), table : Nat, entry : Nat]
        /\ on.run = run /\ on.table = u /\ on.entry = f
    BY <1>1, <1>3, <2>1, <2>2, <2>3 DEF Advanced
  <2>5. e = Len(run[t]) => t # Len(run)
    BY <1>1, <1>3, <1>5 DEF Exhausted
  <2>6. u \in 1 .. Len(run) /\ f \in 1 .. Len(run[u])
    <3>1. CASE e = Len(run[t])
      BY <1>1, <1>2, <2>2, <2>5, <3>1
    <3>2. CASE e # Len(run[t])
      BY <1>1, <1>2, <2>2, <3>2
    <3> QED
      BY <3>1, <3>2
  <2>7. Sound(on)
    BY <1>2, <2>4, <2>6 DEF Sound, AtVersion
  <2>8. ASSUME NEW pl \in (1 .. Len(run)) \X Nat, pl[2] \in 1 .. Len(run[pl[1]])
        PROVE  (u < pl[1] \/ (u = pl[1] /\ f <= pl[2])) <=>
               ((t < pl[1] \/ (t = pl[1] /\ e <= pl[2])) /\ ~ (t = pl[1] /\ e = pl[2]))
    <3>1. PICK l \in 1 .. Len(run), i \in Nat :
              l = pl[1] /\ i = pl[2] /\ i \in 1 .. Len(run[l])
      BY <2>8
    <3>2. t = l => e \in 1 .. Len(run[l])
      BY <1>1
    <3>3. CASE e = Len(run[t])
      BY <1>2, <2>2, <3>1, <3>3
    <3>4. CASE e # Len(run[t])
      BY <1>2, <2>2, <3>1, <3>4
    <3> QED
      BY <3>3, <3>4
  <2>9. Places(on) = {pl \in Places(it) : ~ (pl[1] = t /\ pl[2] = e)}
    BY <1>1, <2>4, <2>8 DEF Places
  <2>10. ASSUME NEW pl \in Places(it)
         PROVE  run[pl[1]][pl[2]] = At(it) <=> (pl[1] = t /\ pl[2] = e)
    <3>1. PICK l \in 1 .. Len(run), i \in Nat :
              /\ l = pl[1] /\ i = pl[2] /\ i \in 1 .. Len(run[l])
              /\ t < l \/ (t = l /\ e <= i)
      BY <1>1, <1>2, <2>10 DEF Places
    <3>2. CASE t = l /\ e = i
      BY <1>3, <3>1, <3>2
    <3>3. CASE t < l \/ (t = l /\ e < i)
      <4>1. KVLess(run[t][e], run[l][i])
        BY <1>1, <1>2, <3>1, <3>3, PlacesOrdered
      <4>2. run[t][e] \in KV /\ run[l][i] \in KV
        BY <1>1, <1>2, <3>1
      <4>3. run[l][i] # run[t][e]
        BY <4>1, <4>2, Linear
      <4> QED
        BY <1>3, <3>1, <3>3, <4>3
    <3> QED
      BY <1>1, <3>1, <3>2, <3>3
  <2>11. Ahead(on) = {run[pl[1]][pl[2]] : pl \in Places(on)}
    BY <2>4 DEF Ahead
  <2>12. Ahead(it) = {run[pl[1]][pl[2]] : pl \in Places(it)}
    BY <1>1 DEF Ahead
  <2>13. Ahead(on) = Ahead(it) \ {At(it)}
    <3>1. \A p \in Ahead(on) : p \in Ahead(it) /\ p # At(it)
      BY <2>9, <2>10, <2>11, <2>12
    <3>2. \A p \in Ahead(it) : p # At(it) => p \in Ahead(on)
      BY <2>9, <2>10, <2>11, <2>12
    <3> QED
      BY <3>1, <3>2
  <2> QED
    BY <2>3, <2>7, <2>13
<1> QED
  BY <1>4, <1>5

-----------------------------------------------------------------------------
(* The tables of a run *)

\* Tables with versions, of which no two overlap.
IsRun(R) ==
    /\ IsFiniteSet(R)
    /\ \A s \in R : s.kvs \in SUBSET KV /\ s.kvs # {} /\ IsFiniteSet(s.kvs)
    /\ \A s, t \in R : s # t => Separate(s, t) \/ Separate(t, s)

Held(R) == UNION {s.kvs : s \in R}

\* A LevelIterator starts with all of them ahead.
LEMMA Starts ==
    ASSUME NEW R, IsRun(R), R # {}
    PROVE  Sound(Iterator(R)) /\ Ahead(Iterator(R)) = Held(R)
<1>1. KV \subseteq Stamped
  BY MergeAssumption DEF KV, Stamped
<1>2. PICK t \in Seq(R) :
          /\ t = SSTsInOrder(R)
          /\ Len(t) = Cardinality(R)
          /\ \A s \in R : \E i \in 1 .. Len(t) : t[i] = s
          /\ \A i, j \in 1 .. Len(t) : i < j => Separate(t[i], t[j])
  <2>1. /\ IsFiniteSet(R)
        /\ \A s \in R : s.kvs \in SUBSET Stamped /\ s.kvs # {}
        /\ \A s, u \in R : s # u => Separate(s, u) \/ Separate(u, s)
    BY <1>1 DEF IsRun
  <2> QED
    BY <2>1, RunOrdered
<1>3. Len(t) \in Nat /\ \A i \in 1 .. Len(t) : t[i] \in R
  OBVIOUS
<1>4. ASSUME NEW i \in 1 .. Len(t)
      PROVE  /\ Entries(t[i]) \in Seq(KV)
             /\ Len(Entries(t[i])) \in Nat \ {0}
             /\ Ordering(Entries(t[i]))
             /\ \A j \in 1 .. Len(Entries(t[i])) : Entries(t[i])[j] \in t[i].kvs
             /\ \A p \in t[i].kvs : \E j \in 1 .. Len(Entries(t[i])) : Entries(t[i])[j] = p
  <2>1. PICK kvs \in SUBSET Stamped : kvs = t[i].kvs /\ IsFiniteSet(kvs) /\ kvs # {} /\ kvs \subseteq KV
    BY <1>1, <1>3 DEF IsRun
  <2>2. PICK e \in Seq(kvs) :
            /\ e = KVsInOrder(kvs)
            /\ Ordering(e)
            /\ \A j \in 1 .. Len(e) : e[j] \in kvs
            /\ \A p \in kvs : \E j \in 1 .. Len(e) : e[j] = p
    BY <2>1, EntriesOrdered
  <2>3. Entries(t[i]) = e
    BY <2>1, <2>2 DEF Entries
  <2>4. e \in Seq(KV) /\ Len(e) \in Nat
    BY <2>1, <2>2
  <2>5. Len(e) # 0
    BY <2>1, <2>2, <2>4
  <2> QED
    BY <2>1, <2>2, <2>3, <2>4, <2>5
<1>5. PICK run \in Seq(Seq(KV)) :
          /\ run = [i \in 1 .. Len(t) |-> Entries(t[i])]
          /\ Len(run) = Len(t)
          /\ \A i \in 1 .. Len(t) : run[i] = Entries(t[i])
  <2>1. PICK r : r = [i \in 1 .. Len(t) |-> Entries(t[i])]
    OBVIOUS
  <2>2. r \in [1 .. Len(t) -> Seq(KV)]
    BY <1>4, <2>1
  <2>3. r \in Seq(Seq(KV)) /\ Len(r) = Len(t)
    BY <1>3, <2>2
  <2> QED
    BY <2>1, <2>3
<1>6. PICK it : it = Iterator(R)
  OBVIOUS
<1>7. /\ it \in [run : Seq(Seq(KV)), table : Nat, entry : Nat]
      /\ it.run = run /\ it.table = 1 /\ it.entry = 1
  <2>1. it = [run |-> run, table |-> 1, entry |-> 1]
    BY <1>2, <1>5, <1>6 DEF Iterator
  <2> QED
    BY <2>1
<1>8. Len(run) >= 1
  BY <1>2, <1>3, <1>5
<1>9. /\ Len(run) \in Nat
      /\ \A i \in 1 .. Len(run) : /\ run[i] \in Seq(KV) /\ Len(run[i]) \in Nat \ {0}
                                  /\ Ordering(run[i])
                                  /\ \A j \in 1 .. Len(run[i]) : run[i][j] \in t[i].kvs
                                  /\ \A p \in t[i].kvs : \E j \in 1 .. Len(run[i]) : run[i][j] = p
  <2>1. ASSUME NEW i \in 1 .. Len(run)
        PROVE  /\ run[i] \in Seq(KV) /\ Len(run[i]) \in Nat \ {0}
               /\ Ordering(run[i])
               /\ \A j \in 1 .. Len(run[i]) : run[i][j] \in t[i].kvs
               /\ \A p \in t[i].kvs : \E j \in 1 .. Len(run[i]) : run[i][j] = p
    <3>1. i \in 1 .. Len(t)
      BY <1>5, <2>1
    <3>2. run[i] = Entries(t[i])
      BY <1>5, <3>1
    <3> QED
      BY <1>4, <3>1, <3>2, Zenon
  <2> QED
    BY <1>3, <1>5, <2>1
<1>10. InOrder(run)
  <2>1. ASSUME NEW l \in 1 .. Len(run), NEW m \in 1 .. Len(run), l < m,
               NEW i \in 1 .. Len(run[l]), NEW j \in 1 .. Len(run[m])
        PROVE  KVLess(run[l][i], run[m][j])
    <3>1. Separate(t[l], t[m])
      BY <1>2, <1>5, <2>1
    <3>2. run[l][i] \in t[l].kvs /\ run[m][j] \in t[m].kvs
      BY <1>9, <2>1
    <3> QED
      BY <3>1, <3>2 DEF Separate, KVLess
  <2> QED
    BY <1>9, <2>1 DEF InOrder
<1>11. AtVersion(it)
  BY <1>7, <1>8, <1>9 DEF AtVersion
<1>12. Ahead(it) = Held(R)
  <2>1. ASSUME NEW p \in Ahead(it) PROVE p \in Held(R)
    <3>1. PICK pl \in Places(it) : p = run[pl[1]][pl[2]]
      BY <1>7, <2>1 DEF Ahead
    <3>2. pl[1] \in 1 .. Len(run) /\ pl[2] \in 1 .. Len(run[pl[1]])
      BY <1>7 DEF Places
    <3>3. p \in t[pl[1]].kvs /\ t[pl[1]] \in R
      BY <1>3, <1>5, <1>9, <3>1, <3>2
    <3> QED
      BY <3>3 DEF Held
  <2>2. ASSUME NEW p \in Held(R) PROVE p \in Ahead(it)
    <3>1. PICK s \in R : p \in s.kvs
      BY <2>2 DEF Held
    <3>2. PICK i \in 1 .. Len(t) : t[i] = s
      BY <1>2, <3>1
    <3>3. PICK j \in 1 .. Len(run[i]) : run[i][j] = p
      BY <1>5, <1>9, <3>1, <3>2
    <3>4. i \in 1 .. Len(run) /\ j \in Nat /\ (1 < i \/ (1 = i /\ 1 <= j))
      BY <1>5, <1>9, <3>2, <3>3
    <3>5. <<i, j>> \in Places(it)
      BY <1>7, <3>3, <3>4 DEF Places
    <3> QED
      BY <1>7, <3>3, <3>5 DEF Ahead
  <2> QED
    BY <2>1, <2>2
<1> QED
  BY <1>6, <1>7, <1>10, <1>11, <1>12 DEF Sound

\* No more of them fit than there are.
LEMMA VersionsFinite ==
    ASSUME NEW S \in VersionSets
    PROVE  S \subseteq KV /\ IsFiniteSet(S) /\ Cardinality(S) \in Nat
<1>1. S \subseteq KV /\ \A p, q \in S : p.key = q.key => p = q
  BY DEF VersionSets
<1>2. PICK f : f = [p \in S |-> p.key]
  OBVIOUS
<1>3. f \in [S -> Keys] /\ \A p, q \in S : f[p] = f[q] => p = q
  BY <1>1, <1>2 DEF KV
<1>4. f \in Injection(S, Keys)
  BY <1>3, Fun_IsInj
<1>5. IsFiniteSet(S)
  BY <1>4, FS_Injection, MergeAssumption
<1> QED
  BY <1>1, <1>5, FS_CardinalityType

\* Cut into tables, versions make a run, of tables that are not too large.
LEMMA Cut ==
    ASSUME NEW S \in VersionSets
    PROVE  /\ IsRun(Run(S))
           /\ Held(Run(S)) = S
           /\ S # {} => Run(S) # {}
           /\ \A s \in Run(S) : Cardinality(s.kvs) <= Limit
<1>1. /\ S \subseteq KV /\ IsFiniteSet(S) /\ Cardinality(S) \in Nat
      /\ \A p, q \in S : p.key = q.key => p = q
      /\ Limit \in Nat \ {0}
      /\ \A p \in S : p.key \in Nat
  BY VersionsFinite, MergeAssumption DEF VersionSets, KV
<1>2. PICK under \in [S -> SUBSET S] : \A p \in S : under[p] = {q \in S : q.key < p.key}
  <2>1. [p \in S |-> {q \in S : q.key < p.key}] \in [S -> SUBSET S]
    OBVIOUS
  <2> QED
    BY <2>1
<1>3. Orders(under, S)
  BY <1>1, <1>2 DEF Orders
<1>4. PICK n \in Nat, rank \in [S -> 0 .. Cardinality(S) - 1] :
          /\ n = Cardinality(S)
          /\ \A p \in S : rank[p] = Cardinality(under[p])
          /\ \A p, q \in S : p \in under[q] => rank[p] < rank[q]
          /\ \A p, q \in S : rank[p] = rank[q] => p = q
  BY <1>1, <1>3, Ranks
<1>5. \A p \in S : rank[p] \in Nat
  BY <1>1
<1>6. PICK of \in [S -> Nat] : \A p \in S : of[p] = rank[p] \div Limit
  <2>1. \A p \in S : rank[p] \div Limit \in Nat
    BY <1>1, <1>5
  <2>2. [p \in S |-> rank[p] \div Limit] \in [S -> Nat]
    BY <2>1
  <2> QED
    BY <2>2
<1>7. ASSUME NEW p \in S PROVE of[p] * Limit <= rank[p] /\ rank[p] < of[p] * Limit + Limit
  <2>1. \A r \in Nat, m \in Nat \ {0} : (r \div m) * m <= r /\ r < (r \div m) * m + m
    BY Z3
  <2> QED
    BY <1>1, <1>5, <1>6, <2>1
<1>8. ASSUME NEW p \in S, NEW q \in S, of[p] < of[q] PROVE p.key < q.key
  <2>1. \A a \in Nat, b \in Nat, m \in Nat \ {0} : a < b => a * m + m <= b * m
    BY Z3
  <2>2. of[p] * Limit + Limit <= of[q] * Limit
    BY <1>1, <1>8, <2>1
  <2>3. of[p] * Limit \in Nat /\ of[q] * Limit \in Nat
    BY <1>1
  <2>4. rank[p] < rank[q]
    BY <1>1, <1>5, <1>7, <2>2, <2>3
  <2>5. p # q /\ ~ (q \in under[p])
    BY <1>4, <1>5, <2>4
  <2> QED
    BY <1>1, <1>2, <2>5
<1>9. PICK table : table = [i \in Nat |-> [kvs |-> {p \in S : of[p] = i}]]
  OBVIOUS
<1>10. Run(S) = {table[of[p]] : p \in S}
  <2> DEFINE place(p) == Cardinality({q \in S : q.key < p.key}) \div Limit
             places   == {place(p) : p \in S}
             at(i)    == {p \in S : place(p) = i}
  <2>1. Run(S) = {[kvs |-> at(i)] : i \in places}
    BY DEF Run
  <2>2. \A p \in S : place(p) = of[p]
    BY <1>2, <1>4, <1>6
  <2>3. \A p \in S : at(of[p]) = {q \in S : of[q] = of[p]}
    BY <2>2
  <2>4. places = {of[p] : p \in S}
    BY <2>2
  <2> HIDE DEF places, at
  <2>5. \A p \in S : table[of[p]] = [kvs |-> at(of[p])]
    BY <1>9, <2>3
  <2> QED
    BY <2>1, <2>4, <2>5
<1>11. ASSUME NEW p \in S
       PROVE  /\ table[of[p]].kvs = {q \in S : of[q] = of[p]}
              /\ table[of[p]] = [kvs |-> {q \in S : of[q] = of[p]}]
  BY <1>9
<1>12. IsFiniteSet(Run(S))
  <2>1. PICK f : f = [p \in S |-> table[of[p]]]
    OBVIOUS
  <2>2. f \in [S -> Run(S)] /\ \A s \in Run(S) : \E p \in S : f[p] = s
    BY <1>10, <2>1
  <2>3. f \in Surjection(S, Run(S))
    BY <2>2 DEF Surjection
  <2> QED
    BY <1>1, <2>3, FS_Surjection
<1>13. ASSUME NEW s \in Run(S)
       PROVE  /\ s.kvs \in SUBSET KV /\ s.kvs # {} /\ IsFiniteSet(s.kvs)
              /\ Cardinality(s.kvs) <= Limit
  <2>1. PICK x \in S : s = table[of[x]]
    BY <1>10, <1>13
  <2>2. PICK kvs \in SUBSET S : kvs = s.kvs /\ kvs = {q \in S : of[q] = of[x]}
    BY <1>11, <2>1
  <2>3. x \in kvs /\ kvs \in SUBSET KV
    BY <1>1, <2>2
  <2>4. PICK f : f = [q \in kvs |-> rank[q] - of[x] * Limit]
    OBVIOUS
  <2>5. f \in [kvs -> 0 .. Limit - 1]
    <3>1. ASSUME NEW q \in kvs PROVE rank[q] - of[x] * Limit \in 0 .. Limit - 1
      <4>1. q \in S /\ of[q] = of[x] /\ of[x] * Limit \in Nat
        BY <1>1, <2>2
      <4>2. of[x] * Limit <= rank[q] /\ rank[q] < of[x] * Limit + Limit
        BY <1>7, <4>1
      <4> QED
        BY <1>1, <1>5, <4>1, <4>2
    <3> QED
      BY <2>4, <3>1
  <2>6. \A q, r \in kvs : f[q] = f[r] => q = r
    <3>1. ASSUME NEW q \in kvs, NEW r \in kvs, f[q] = f[r] PROVE q = r
      <4>1. q \in S /\ r \in S /\ of[x] * Limit \in Nat
        BY <1>1, <2>2
      <4>2. rank[q] - of[x] * Limit = rank[r] - of[x] * Limit
        BY <2>4, <3>1
      <4>3. rank[q] = rank[r]
        BY <1>5, <4>1, <4>2
      <4> QED
        BY <1>4, <4>1, <4>3
    <3> QED
      BY <3>1
  <2>7. f \in Injection(kvs, 0 .. Limit - 1)
    BY <2>5, <2>6, Fun_IsInj
  <2>8. IsFiniteSet(0 .. Limit - 1) /\ Cardinality(0 .. Limit - 1) = Limit
    <3>1. 0 \in Int /\ Limit - 1 \in Int
      BY <1>1
    <3>2. /\ IsFiniteSet(0 .. Limit - 1)
          /\ Cardinality(0 .. Limit - 1) = IF 0 > Limit - 1 THEN 0 ELSE Limit - 1 - 0 + 1
      BY <3>1, FS_Interval
    <3>3. Limit \in Nat \ {0}
      BY <1>1
    <3> QED
      BY ONLY <3>2, <3>3
  <2>9. IsFiniteSet(kvs) /\ Cardinality(kvs) <= Limit
    <3>1. IsFiniteSet(kvs) /\ Cardinality(kvs) <= Cardinality(0 .. Limit - 1)
      BY <2>7, <2>8, FS_Injection
    <3> QED
      BY <2>8, <3>1
  <2> QED
    BY <2>2, <2>3, <2>9
<1>14. ASSUME NEW s \in Run(S), NEW t \in Run(S), s # t
       PROVE  Separate(s, t) \/ Separate(t, s)
  <2>1. PICK x \in S, y \in S : s = table[of[x]] /\ t = table[of[y]]
    BY <1>10, <1>14
  <2>2. of[x] < of[y] \/ of[y] < of[x]
    BY <1>14, <2>1
  <2>3. s.kvs = {q \in S : of[q] = of[x]} /\ t.kvs = {q \in S : of[q] = of[y]}
    BY <1>11, <2>1
  <2> QED
    BY <1>8, <2>2, <2>3 DEF Separate
<1>15. Held(Run(S)) = S
  <2>1. ASSUME NEW p \in Held(Run(S)) PROVE p \in S
    <3>1. PICK x \in S : p \in table[of[x]].kvs
      BY <1>10, <2>1 DEF Held
    <3> QED
      BY <1>11, <3>1
  <2>2. ASSUME NEW p \in S PROVE p \in Held(Run(S))
    <3>1. p \in table[of[p]].kvs /\ table[of[p]] \in Run(S)
      BY <1>10, <1>11
    <3> QED
      BY <3>1 DEF Held
  <2> QED
    BY <2>1, <2>2
<1>16. S # {} => Run(S) # {}
  BY <1>10
<1> QED
  BY <1>12, <1>13, <1>14, <1>15, <1>16 DEF IsRun

\* So does a table of its own.
LEMMA Alone ==
    ASSUME NEW S \in VersionSets, S # {}
    PROVE  IsRun({[kvs |-> S]}) /\ Held({[kvs |-> S]}) = S
<1>1. S \in SUBSET KV /\ IsFiniteSet(S)
  BY VersionsFinite
<1>2. IsFiniteSet({[kvs |-> S]})
  BY FS_Singleton
<1> QED
  BY <1>1, <1>2 DEF IsRun, Held

-----------------------------------------------------------------------------
(* The heap *)

\* The iterators of a heap share no version, and are each at the smallest it has left.
Heap(h) ==
    /\ \A it \in h : Sound(it)
    /\ \A a, b \in h : a # b => Ahead(a) \cap Ahead(b) = {}

AheadOf(h) == UNION {Ahead(it) : it \in h}

\* What becomes of a heap when the iterator at the top moves on.
After(h, it) == IF Exhausted(it) THEN h \ {it} ELSE (h \ {it}) \cup {Advanced(it)}

\* So the one at the top of the heap is at the smallest of all.
LEMMA TopIsSmallest ==
    ASSUME NEW h, Heap(h), NEW it \in Top(h)
    PROVE  /\ it \in h /\ Sound(it)
           /\ At(it) \in AheadOf(h) /\ AheadOf(h) \subseteq KV
           /\ \A p \in AheadOf(h) : p = At(it) \/ KVLess(At(it), p)
<1>1. it \in h /\ \A o \in h : ~ KVLess(At(o), At(it))
  BY DEF Top
<1>2. \A o \in h : Sound(o)
  BY DEF Heap
<1>3. \A o \in h : /\ At(o) \in Ahead(o) /\ Ahead(o) \subseteq KV
                   /\ \A p \in Ahead(o) : p = At(o) \/ KVLess(At(o), p)
  BY <1>2, AtIsSmallest
<1>4. At(it) \in AheadOf(h) /\ AheadOf(h) \subseteq KV
  BY <1>1, <1>3 DEF AheadOf
<1>5. ASSUME NEW p \in AheadOf(h) PROVE p = At(it) \/ KVLess(At(it), p)
  <2>1. PICK o \in h : p \in Ahead(o)
    BY <1>5 DEF AheadOf
  <2>2. PICK a \in KV, b \in KV : a = At(it) /\ b = At(o) /\ p \in KV
    BY <1>1, <1>3, <2>1
  <2>3. a = b \/ KVLess(a, b)
    BY <1>1, <2>2, Linear
  <2>4. p = b \/ KVLess(b, p)
    BY <1>3, <2>1, <2>2
  <2>5. /\ a.key \in Nat /\ a.ts \in Nat /\ b.key \in Nat /\ b.ts \in Nat
        /\ p.key \in Nat /\ p.ts \in Nat
    BY <2>2, Linear
  <2>6. p = a \/ KVLess(a, p)
    BY <2>3, <2>4, <2>5 DEF KVLess
  <2> QED
    BY <2>2, <2>6
<1> QED
  BY <1>1, <1>2, <1>4, <1>5

\* Next takes that version and leaves the others, all of them greater.
LEMMA NextTakesTop ==
    ASSUME NEW h, Heap(h), NEW it \in Top(h)
    PROVE  /\ Heap(After(h, it))
           /\ AheadOf(After(h, it)) = AheadOf(h) \ {At(it)}
           /\ Exhausted(it) \/ KVLess(At(it), At(Advanced(it)))
           /\ \A next \in After(h, it) : KVLess(At(it), At(next))
<1>1. /\ it \in h /\ Sound(it)
      /\ At(it) \in AheadOf(h) /\ AheadOf(h) \subseteq KV
      /\ \A p \in AheadOf(h) : p = At(it) \/ KVLess(At(it), p)
  BY TopIsSmallest
<1>2. /\ \A o \in h : Sound(o) /\ At(o) \in Ahead(o)
      /\ \A a, b \in h : a # b => Ahead(a) \cap Ahead(b) = {}
  BY AtIsSmallest DEF Heap
<1>3. PICK g : g = After(h, it)
  OBVIOUS
<1>4. Heap(g) /\ AheadOf(g) = AheadOf(h) \ {At(it)}
  <2>1. CASE Exhausted(it)
    <3>1. g = h \ {it}
      BY <1>3, <2>1 DEF After
    <3>2. Heap(g)
      BY <1>2, <3>1 DEF Heap
    <3>3. Ahead(it) = {At(it)}
      BY <1>1, <2>1, Advances
    <3>4. AheadOf(g) = AheadOf(h) \ {At(it)}
      BY <1>1, <1>2, <3>1, <3>3 DEF AheadOf
    <3> QED
      BY <3>2, <3>4
  <2>2. CASE ~ Exhausted(it)
    <3>1. PICK on : on = Advanced(it)
      OBVIOUS
    <3>2. g = (h \ {it}) \cup {on}
      BY <1>3, <2>2, <3>1 DEF After
    <3>3. Sound(on) /\ Ahead(on) = Ahead(it) \ {At(it)}
      BY <1>1, <2>2, <3>1, Advances
    <3>4. \A a, b \in g : a # b => Ahead(a) \cap Ahead(b) = {}
      BY <1>1, <1>2, <3>2, <3>3
    <3>5. \A a \in g : Sound(a)
      BY <1>2, <3>2, <3>3
    <3>6. \A p : p \in AheadOf(g) <=> p \in AheadOf(h) /\ p # At(it)
      <4>1. \A o \in h \ {it} : At(it) \notin Ahead(o)
        BY <1>1, <1>2
      <4> QED
        BY <1>1, <3>2, <3>3, <4>1 DEF AheadOf
    <3> QED
      BY <3>4, <3>5, <3>6 DEF Heap
  <2> QED
    BY <2>1, <2>2
<1>5. ASSUME NEW next \in g PROVE KVLess(At(it), At(next))
  <2>1. At(next) \in Ahead(next)
    BY <1>4, <1>5, AtIsSmallest DEF Heap
  <2>2. At(next) \in AheadOf(g)
    BY <1>5, <2>1 DEF AheadOf
  <2> QED
    BY <1>1, <1>4, <2>2
<1>6. Exhausted(it) \/ KVLess(At(it), At(Advanced(it)))
  <2>1. ~ Exhausted(it) => Advanced(it) \in g
    BY <1>3 DEF After
  <2> QED
    BY <1>5, <2>1
<1> QED
  BY <1>3, <1>4, <1>5, <1>6

\* A heap of iterators over runs that share no version.
LEMMA HeapOfRuns ==
    ASSUME NEW runs, \A R \in runs : IsRun(R) /\ R # {},
           \A R, Q \in runs : R # Q => Held(R) \cap Held(Q) = {}
    PROVE  LET h == {Iterator(R) : R \in runs}
           IN Heap(h) /\ AheadOf(h) = UNION {Held(R) : R \in runs}
<1>1. PICK h : h = {Iterator(R) : R \in runs}
  OBVIOUS
<1>2. \A R \in runs : Sound(Iterator(R)) /\ Ahead(Iterator(R)) = Held(R)
  BY Starts
<1>3. \A a \in h : \E R \in runs : a = Iterator(R)
  BY <1>1
<1>4. \A R \in runs : Iterator(R) \in h
  BY <1>1
<1>5. Heap(h)
  BY <1>2, <1>3 DEF Heap
<1>6. AheadOf(h) = UNION {Held(R) : R \in runs}
  <2>1. ASSUME NEW p \in AheadOf(h) PROVE \E R \in runs : p \in Held(R)
    BY <1>2, <1>3, <2>1 DEF AheadOf
  <2>2. ASSUME NEW R \in runs, NEW p \in Held(R) PROVE p \in AheadOf(h)
    BY <1>2, <1>4, <2>2 DEF AheadOf
  <2> QED
    BY <2>1, <2>2
<1> QED
  BY <1>1, <1>5, <1>6

\* At the start all versions of the merged tables are ahead, and the tables are not too large.
Beginning ==
    /\ Heap(heap)
    /\ heap # {}
    /\ AheadOf(heap) = Held(inputs)
    /\ IsFiniteSet(inputs)
    /\ \A s \in inputs : s.kvs \in SUBSET KV /\ IsFiniteSet(s.kvs) /\ Cardinality(s.kvs) <= Limit

LEMMA Begins ==
    ASSUME Init
    PROVE  Beginning
<1>1. PICK lower \in VersionSets :
         \/ \E S, T \in {V \in VersionSets : Cardinality(V) = Limit} :
              /\ lower \cap (S \cup T) = {}
              /\ S = T \/ S \cap T = {}
              /\ inputs = {[kvs |-> S], [kvs |-> T]} \cup Run(lower)
              /\ heap = {Iterator({[kvs |-> V]}) : V \in {S, T}}
                           \cup {Iterator(Run(V)) : V \in {lower} \ {{}}}
         \/ \E upper \in VersionSets \ {{}} :
              /\ lower # {} /\ upper \cap lower = {}
              /\ inputs = Run(upper) \cup Run(lower)
              /\ heap = {Iterator(Run(upper)), Iterator(Run(lower))}
  BY DEF Init
<1>2. /\ IsRun(Run(lower)) /\ Held(Run(lower)) = lower
      /\ lower # {} => Run(lower) # {}
      /\ \A s \in Run(lower) : Cardinality(s.kvs) <= Limit
  BY Cut
<1>3. CASE \E S, T \in {V \in VersionSets : Cardinality(V) = Limit} :
              /\ lower \cap (S \cup T) = {}
              /\ S = T \/ S \cap T = {}
              /\ inputs = {[kvs |-> S], [kvs |-> T]} \cup Run(lower)
              /\ heap = {Iterator({[kvs |-> V]}) : V \in {S, T}}
                           \cup {Iterator(Run(V)) : V \in {lower} \ {{}}}
  <2>1. PICK S \in VersionSets, T \in VersionSets :
              /\ Cardinality(S) = Limit /\ Cardinality(T) = Limit
              /\ lower \cap (S \cup T) = {}
              /\ S = T \/ S \cap T = {}
              /\ inputs = {[kvs |-> S], [kvs |-> T]} \cup Run(lower)
              /\ heap = {Iterator({[kvs |-> V]}) : V \in {S, T}}
                           \cup {Iterator(Run(V)) : V \in {lower} \ {{}}}
    BY <1>3
  <2>2. S # {} /\ T # {}
    BY <2>1, FS_EmptySet, MergeAssumption
  <2>3. PICK A, B : A = {[kvs |-> S]} /\ B = {[kvs |-> T]}
    OBVIOUS
  <2>4. IsRun(A) /\ Held(A) = S /\ IsRun(B) /\ Held(B) = T
    BY <2>2, <2>3, Alone
  <2>5. PICK runs : runs = {A, B} \cup {R \in {Run(lower)} : lower # {}}
    OBVIOUS
  <2>6. heap = {Iterator(R) : R \in runs}
    BY <2>1, <2>3, <2>5
  <2>7. \A R \in runs : IsRun(R) /\ R # {}
    BY <1>2, <2>3, <2>4, <2>5
  <2>8. \A R, Q \in runs : R # Q => Held(R) \cap Held(Q) = {}
    BY <1>2, <2>1, <2>3, <2>4, <2>5
  <2>9. Heap(heap) /\ AheadOf(heap) = UNION {Held(R) : R \in runs}
    BY <2>6, <2>7, <2>8, HeapOfRuns
  <2>10. inputs = A \cup B \cup Run(lower)
    BY <2>1, <2>3
  <2>11. Held(inputs) = S \cup T \cup lower
    BY <1>2, <2>4, <2>10 DEF Held
  <2>12. UNION {Held(R) : R \in runs} = S \cup T \cup lower
    BY <1>2, <2>4, <2>5
  <2>13. heap # {}
    BY <2>5, <2>6
  <2>14. IsFiniteSet(inputs)
    <3>1. IsFiniteSet(A \cup B)
      BY <2>4, FS_Union DEF IsRun
    <3> QED
      BY <1>2, <2>10, <3>1, FS_Union DEF IsRun
  <2>15. \A s \in inputs : s.kvs \in SUBSET KV /\ IsFiniteSet(s.kvs) /\ Cardinality(s.kvs) <= Limit
    <3>1. \A s \in A \cup B : s.kvs \in SUBSET KV /\ IsFiniteSet(s.kvs)
      BY <2>4 DEF IsRun
    <3>2. \A s \in A \cup B : Cardinality(s.kvs) = Limit
      BY <2>1, <2>3
    <3>3. Limit <= Limit
      BY MergeAssumption
    <3> QED
      BY <1>2, <2>10, <3>1, <3>2, <3>3 DEF IsRun
  <2> QED
    BY <2>9, <2>11, <2>12, <2>13, <2>14, <2>15 DEF Beginning
<1>4. CASE \E upper \in VersionSets \ {{}} :
              /\ lower # {} /\ upper \cap lower = {}
              /\ inputs = Run(upper) \cup Run(lower)
              /\ heap = {Iterator(Run(upper)), Iterator(Run(lower))}
  <2>1. PICK upper \in VersionSets :
              /\ upper # {} /\ lower # {} /\ upper \cap lower = {}
              /\ inputs = Run(upper) \cup Run(lower)
              /\ heap = {Iterator(Run(upper)), Iterator(Run(lower))}
    BY <1>4
  <2>2. /\ IsRun(Run(upper)) /\ Held(Run(upper)) = upper
        /\ Run(upper) # {}
        /\ \A s \in Run(upper) : Cardinality(s.kvs) <= Limit
    BY <2>1, Cut
  <2>3. PICK runs : runs = {Run(upper), Run(lower)}
    OBVIOUS
  <2>4. heap = {Iterator(R) : R \in runs}
    BY <2>1, <2>3
  <2>5. \A R \in runs : IsRun(R) /\ R # {}
    BY <1>2, <2>1, <2>2, <2>3
  <2>6. \A R, Q \in runs : R # Q => Held(R) \cap Held(Q) = {}
    BY <1>2, <2>1, <2>2, <2>3
  <2>7. Heap(heap) /\ AheadOf(heap) = UNION {Held(R) : R \in runs}
    BY <2>4, <2>5, <2>6, HeapOfRuns
  <2>8. UNION {Held(R) : R \in runs} = Held(inputs)
    BY <2>1, <2>3 DEF Held
  <2>9. IsFiniteSet(inputs)
    BY <1>2, <2>1, <2>2, FS_Union DEF IsRun
  <2>10. \A s \in inputs : s.kvs \in SUBSET KV /\ IsFiniteSet(s.kvs) /\ Cardinality(s.kvs) <= Limit
    BY <1>2, <2>1, <2>2 DEF IsRun
  <2>11. heap # {}
    BY <2>1
  <2> QED
    BY <2>7, <2>8, <2>9, <2>10, <2>11 DEF Beginning
<1> QED
  BY <1>1, <1>3, <1>4

-----------------------------------------------------------------------------
(* The loop *)

LoopTypeOK ==
    /\ phase \in {"merge", "last", "done"}
    /\ sst \in Seq(KV) /\ Len(sst) <= Limit
    /\ outputs \in Seq(Seq(KV))
    /\ IsFiniteSet(inputs)

\* What is left in the heap comes after prev, the last version taken.
HeapInv ==
    /\ Heap(heap)
    /\ phase = "merge" <=> heap # {}
    /\ prev # None => prev \in KV /\ \A p \in AheadOf(heap) : KVLess(prev, p)

\* The table being written has an entry from the first version on.
TableBegun == phase = "last" \/ (phase = "merge" /\ prev # None) => Len(sst) >= 1

\* There is room in as many tables as are merged for what is left and what was written.
RoomInv ==
    /\ IsFiniteSet(AheadOf(heap))
    /\ phase # "done" =>
         Len(outputs) * Limit + Len(sst) + Cardinality(AheadOf(heap)) <= Cardinality(inputs) * Limit

LoopInv == LoopTypeOK /\ HeapInv /\ TableBegun /\ RoomInv

\* The versions that doCompaction has still to take from the heap.
Remaining == Cardinality(AheadOf(heap))

LEMMA LoopInit ==
    ASSUME Init
    PROVE  LoopInv
<1>1. /\ prev = None /\ sst = <<>> /\ outputs = <<>> /\ phase = "merge"
      /\ Limit \in Nat \ {0}
  BY MergeAssumption DEF Init
<1>2. Beginning
  BY Begins
<1>3. LoopTypeOK
  BY <1>1, <1>2 DEF LoopTypeOK, Beginning
<1>4. HeapInv
  BY <1>1, <1>2 DEF HeapInv, Beginning
<1>5. TableBegun
  BY <1>1 DEF TableBegun
<1>6. RoomInv
  <2>1. PICK tables : tables = inputs
    OBVIOUS
  <2>2. /\ IsFiniteSet(tables)
        /\ \A s \in tables : IsFiniteSet(s.kvs) /\ Cardinality(s.kvs) <= Limit
        /\ AheadOf(heap) = Held(tables)
    BY <1>2, <2>1 DEF Beginning
  <2>3. IsFiniteSet(Held(tables)) /\ Cardinality(Held(tables)) <= Cardinality(tables) * Limit
    BY <1>1, <2>2, VersionsFit DEF Held
  <2>4. Cardinality(Held(tables)) \in Nat /\ Len(outputs) = 0 /\ Len(sst) = 0
    BY <1>1, <2>3, FS_CardinalityType
  <2>5. 0 * Limit + 0 + Cardinality(Held(tables)) = Cardinality(Held(tables))
    BY <1>1, <2>4
  <2> QED
    BY <2>1, <2>2, <2>3, <2>4, <2>5 DEF RoomInv
<1> QED
  BY <1>3, <1>4, <1>5, <1>6 DEF LoopInv

\* The next pair, be it merged or skipped.
LEMMA NextPairStep ==
    ASSUME LoopInv, phase = "merge", NEW it \in Top(heap), NEW sound \in BOOLEAN, NextPair(it, sound), sound
    PROVE  /\ HeapInv'
           /\ phase' \in {"merge", "last"}
           /\ prev' = At(it) /\ At(it) \in KV
           /\ AheadOf(heap') = AheadOf(heap) \ {At(it)}
           /\ IsFiniteSet(AheadOf(heap'))
           /\ Cardinality(AheadOf(heap')) = Cardinality(AheadOf(heap)) - 1
<1>1. PICK h, g : h = heap /\ g = heap'
  OBVIOUS
<1>2. Heap(h) /\ it \in Top(h)
  BY <1>1 DEF LoopInv, HeapInv
<1>3. g = After(h, it) /\ Pushed(it) = g /\ prev' = At(it)
  BY <1>1 DEF NextPair, Pushed, After
<1>4. /\ it \in h /\ Sound(it)
      /\ At(it) \in AheadOf(h) /\ AheadOf(h) \subseteq KV
      /\ \A p \in AheadOf(h) : p = At(it) \/ KVLess(At(it), p)
  BY <1>2, TopIsSmallest
<1>5. /\ Heap(g)
      /\ AheadOf(g) = AheadOf(h) \ {At(it)}
      /\ Exhausted(it) \/ KVLess(At(it), At(Advanced(it)))
      /\ \A next \in g : KVLess(At(it), At(next))
  BY <1>2, <1>3, NextTakesTop
<1>6. Increasing(it)
  BY <1>3, <1>5 DEF Increasing, Top
<1>7. phase' = IF g = {} THEN "last" ELSE "merge"
  BY <1>1, <1>6 DEF NextPair
<1>8. At(it) \in KV /\ \A p \in AheadOf(g) : KVLess(At(it), p)
  BY <1>4, <1>5
<1>9. HeapInv'
  BY <1>1, <1>3, <1>5, <1>7, <1>8 DEF HeapInv
<1>10. /\ IsFiniteSet(AheadOf(g))
       /\ Cardinality(AheadOf(g)) = Cardinality(AheadOf(h)) - 1
  <2>1. IsFiniteSet(AheadOf(h))
    BY <1>1 DEF LoopInv, RoomInv
  <2>2. /\ IsFiniteSet(AheadOf(h) \ {At(it)})
        /\ Cardinality(AheadOf(h) \ {At(it)}) = Cardinality(AheadOf(h)) - 1
    BY <1>4, <2>1, FS_RemoveElement
  <2> QED
    BY <1>5, <2>2
<1> QED
  BY <1>1, <1>3, <1>5, <1>7, <1>8, <1>9, <1>10

LEMMA SkipStep ==
    ASSUME LoopInv, SkipDuplicate
    PROVE  LoopInv' /\ Remaining' = Remaining - 1
<1>1. PICK it \in Top(heap) : Duplicate(At(it)) /\ NextPair(it, prev.ts < At(it).ts)
  BY DEF SkipDuplicate
<1>2. phase = "merge" /\ sst' = sst /\ outputs' = outputs /\ inputs' = inputs
  BY DEF SkipDuplicate
<1>3. prev # None /\ prev.ts < At(it).ts
  <2>1. PICK h : h = heap /\ it \in Top(h) /\ Heap(h)
    BY <1>1 DEF LoopInv, HeapInv
  <2>2. At(it) \in AheadOf(h) /\ AheadOf(h) \subseteq KV
    BY <2>1, TopIsSmallest
  <2>3. prev # None /\ prev.key = At(it).key
    BY <1>1 DEF Duplicate
  <2>4. prev \in KV /\ KVLess(prev, At(it))
    BY <2>1, <2>2, <2>3 DEF LoopInv, HeapInv
  <2>5. prev.key \in Nat /\ At(it).key \in Nat
    BY <2>2, <2>4, MergeAssumption DEF KV
  <2> QED
    BY <2>3, <2>4, <2>5 DEF KVLess
<1>4. PICK sound \in BOOLEAN : sound = (prev.ts < At(it).ts) /\ sound /\ NextPair(it, sound)
  BY <1>1, <1>3
<1>5. /\ HeapInv'
      /\ phase' \in {"merge", "last"}
      /\ IsFiniteSet(AheadOf(heap'))
      /\ Cardinality(AheadOf(heap')) = Cardinality(AheadOf(heap)) - 1
  BY <1>1, <1>2, <1>4, NextPairStep
<1>6. LoopTypeOK'
  BY <1>2, <1>5 DEF LoopInv, LoopTypeOK
<1>7. TableBegun'
  BY <1>2, <1>3 DEF LoopInv, TableBegun
<1>8. RoomInv'
  <2>1. PICK a, o, s, n : /\ a = Cardinality(AheadOf(heap)) /\ o = Len(outputs) * Limit /\ s = Len(sst)
                          /\ n = Cardinality(inputs) * Limit
    OBVIOUS
  <2>2. o + s + a <= n
    BY <1>2, <2>1 DEF LoopInv, RoomInv
  <2>3. a \in Int /\ o \in Int /\ s \in Int /\ n \in Int
    <3>1. IsFiniteSet(AheadOf(heap)) /\ IsFiniteSet(inputs)
      BY DEF LoopInv, LoopTypeOK, RoomInv
    <3>2. Cardinality(AheadOf(heap)) \in Nat /\ Cardinality(inputs) \in Nat
      BY <3>1, FS_CardinalityType
    <3>3. Len(outputs) \in Nat /\ Len(sst) \in Nat /\ Limit \in Nat
      BY MergeAssumption DEF LoopInv, LoopTypeOK
    <3> QED
      BY <2>1, <3>2, <3>3
  <2>4. o + s + (a - 1) <= n
    BY <2>2, <2>3
  <2> QED
    BY <1>2, <1>5, <2>1, <2>4 DEF RoomInv
<1> QED
  BY <1>5, <1>6, <1>7, <1>8 DEF LoopInv, Remaining

LEMMA MergeStep ==
    ASSUME LoopInv, MergePair
    PROVE  LoopInv' /\ Remaining' = Remaining - 1
<1>1. PICK it \in Top(heap) :
         /\ IF Full THEN outputs' = Append(outputs, sst) /\ sst' = <<At(it)>>
                    ELSE sst' = Append(sst, At(it)) /\ outputs' = outputs
         /\ NextPair(it, TRUE)
  BY DEF MergePair
<1>2. phase = "merge" /\ inputs' = inputs
  BY DEF MergePair
<1>3. /\ HeapInv'
      /\ phase' \in {"merge", "last"}
      /\ At(it) \in KV
      /\ IsFiniteSet(AheadOf(heap'))
      /\ Cardinality(AheadOf(heap')) = Cardinality(AheadOf(heap)) - 1
  <2>1. TRUE \in BOOLEAN /\ TRUE
    OBVIOUS
  <2> QED
    BY <1>1, <1>2, <2>1, NextPairStep
<1>4. /\ Len(outputs) \in Nat /\ Len(sst) \in Nat /\ Limit \in Nat \ {0} /\ Len(sst) <= Limit
      /\ sst \in Seq(KV) /\ outputs \in Seq(Seq(KV)) /\ IsFiniteSet(inputs)
      /\ Cardinality(AheadOf(heap)) \in Nat /\ Cardinality(inputs) \in Nat
  <2>1. IsFiniteSet(AheadOf(heap)) /\ IsFiniteSet(inputs)
    BY DEF LoopInv, LoopTypeOK, RoomInv
  <2>2. Cardinality(AheadOf(heap)) \in Nat /\ Cardinality(inputs) \in Nat
    BY <2>1, FS_CardinalityType
  <2> QED
    BY <2>1, <2>2, MergeAssumption DEF LoopInv, LoopTypeOK
<1>5. PICK v \in KV : v = At(it)
  BY <1>3
<1>6. /\ sst' \in Seq(KV) /\ Len(sst') \in 1 .. Limit
      /\ outputs' \in Seq(Seq(KV))
      /\ Len(outputs') * Limit + Len(sst') = Len(outputs) * Limit + Len(sst) + 1
  <2>1. CASE Full
    <3>1. outputs' = Append(outputs, sst) /\ sst' = <<v>> /\ Len(sst) = Limit
      BY <1>1, <1>5, <2>1 DEF Full
    <3>2. /\ sst' \in Seq(KV) /\ Len(sst') = 1
          /\ outputs' \in Seq(Seq(KV)) /\ Len(outputs') = Len(outputs) + 1
      BY <1>4, <3>1
    <3>3. (Len(outputs) + 1) * Limit = Len(outputs) * Limit + Limit
      BY <1>4
    <3> QED
      BY <1>4, <3>1, <3>2, <3>3
  <2>2. CASE ~ Full
    <3>1. outputs' = outputs /\ sst' = Append(sst, v) /\ Len(sst) # Limit
      BY <1>1, <1>5, <2>2 DEF Full
    <3>2. sst' \in Seq(KV) /\ Len(sst') = Len(sst) + 1
      BY <1>4, <3>1
    <3>3. Len(outputs) * Limit \in Nat
      BY <1>4
    <3> QED
      BY <1>4, <3>1, <3>2, <3>3
  <2> QED
    BY <2>1, <2>2
<1>7. LoopTypeOK'
  BY <1>2, <1>3, <1>4, <1>6 DEF LoopTypeOK
<1>8. TableBegun'
  BY <1>4, <1>6 DEF TableBegun
<1>9. RoomInv'
  <2>1. PICK a, o, s, n : /\ a = Cardinality(AheadOf(heap)) /\ o = Len(outputs) * Limit /\ s = Len(sst)
                          /\ n = Cardinality(inputs) * Limit
    OBVIOUS
  <2>2. o + s + a <= n
    BY <1>2, <2>1 DEF LoopInv, RoomInv
  <2>3. a \in Int /\ o \in Int /\ s \in Int /\ n \in Int
    BY <1>4, <2>1
  <2>4. (o + s + 1) + (a - 1) <= n
    BY <2>2, <2>3
  <2> QED
    BY <1>2, <1>3, <1>6, <2>1, <2>4 DEF RoomInv
<1> QED
  BY <1>3, <1>7, <1>8, <1>9 DEF LoopInv, Remaining

LEMMA LastStep ==
    ASSUME LoopInv, FinishLast
    PROVE  LoopInv'
<1>1. /\ phase = "last" /\ outputs' = Append(outputs, sst) /\ sst' = <<>>
      /\ phase' = IF Len(outputs') <= Cardinality(inputs) THEN "done" ELSE "aborted"
      /\ inputs' = inputs /\ heap' = heap /\ prev' = prev
  BY DEF FinishLast
<1>2. /\ Len(outputs) \in Nat /\ Len(sst) \in Nat /\ Limit \in Nat \ {0}
      /\ sst \in Seq(KV) /\ outputs \in Seq(Seq(KV)) /\ IsFiniteSet(inputs)
      /\ Cardinality(AheadOf(heap)) \in Nat /\ Cardinality(inputs) \in Nat
      /\ Len(sst) >= 1
  <2>1. IsFiniteSet(AheadOf(heap)) /\ IsFiniteSet(inputs)
    BY DEF LoopInv, LoopTypeOK, RoomInv
  <2>2. Cardinality(AheadOf(heap)) \in Nat /\ Cardinality(inputs) \in Nat
    BY <2>1, FS_CardinalityType
  <2>3. Len(sst) >= 1
    BY <1>1 DEF LoopInv, TableBegun
  <2> QED
    BY <2>1, <2>2, <2>3, MergeAssumption DEF LoopInv, LoopTypeOK
<1>3. Len(outputs) + 1 <= Cardinality(inputs)
  <2>1. Len(outputs) * Limit + Len(sst) + Cardinality(AheadOf(heap)) <= Cardinality(inputs) * Limit
    BY <1>1 DEF LoopInv, RoomInv
  <2>2. Len(outputs) * Limit < Cardinality(inputs) * Limit
    <3>1. Len(outputs) * Limit \in Nat /\ Cardinality(inputs) * Limit \in Nat
      BY <1>2
    <3> QED
      BY <1>2, <2>1, <3>1
  <2>3. \A x \in Nat, y \in Nat, m \in Nat \ {0} : x * m < y * m => x + 1 <= y
    BY Z3
  <2> QED
    BY <1>2, <2>2, <2>3
<1>4. Len(outputs') = Len(outputs) + 1 /\ outputs' \in Seq(Seq(KV))
  BY <1>1, <1>2
<1>5. phase' = "done"
  BY <1>1, <1>3, <1>4
<1>6. LoopTypeOK'
  BY <1>1, <1>2, <1>4, <1>5 DEF LoopTypeOK
<1>7. HeapInv'
  BY <1>1, <1>5 DEF LoopInv, HeapInv
<1>8. TableBegun' /\ RoomInv'
  BY <1>1, <1>5 DEF LoopInv, TableBegun, RoomInv
<1> QED
  BY <1>6, <1>7, <1>8 DEF LoopInv

LEMMA LoopNext ==
    ASSUME LoopInv, [Next]_vars
    PROVE  LoopInv'
<1>1. CASE SkipDuplicate
  BY <1>1, SkipStep
<1>2. CASE MergePair
  BY <1>2, MergeStep
<1>3. CASE FinishLast
  BY <1>3, LastStep
<1>4. CASE UNCHANGED vars
  BY <1>4 DEF vars, LoopInv, LoopTypeOK, HeapInv, TableBegun, RoomInv
<1>5. CASE Done
  BY <1>4, <1>5 DEF Done
<1> QED
  BY <1>1, <1>2, <1>3, <1>4, <1>5 DEF Next

\* The heap is sound, what is in it comes after the last version taken, and there is room
\* in as many tables as were merged for what is left, at every step of doCompaction's loop.
THEOREM Loop == Spec => []LoopInv
<1> QED
  BY LoopInit, LoopNext, PTL DEF Spec

\* Whatever full tables are merged with whatever runs, no assert of KVIterator, LevelIterator,
\* CompactionIterator or doCompaction fails: the versions come in increasing order, and there
\* are not more tables after the merge than before.
THEOREM NoAssertFails == Spec => []AssertsHold
<1>1. LoopInv => AssertsHold
  BY DEF LoopInv, LoopTypeOK, AssertsHold
<1> QED
  BY <1>1, Loop, PTL

-----------------------------------------------------------------------------
(* What the loop writes *)

Todo == Merged(inputs) \ UNION {ToSet(outputs[i]) : i \in DOMAIN outputs}

\* The tables have a version of each key.
Rising(s) == \A i, j \in 1 .. Len(s) : i < j => s[i].key < s[j].key

\* All of them up to prev were taken.
TakenInv ==
    /\ AheadOf(heap) \subseteq Held(inputs) /\ Held(inputs) \subseteq KV
    /\ prev # None => prev \in Held(inputs)
    /\ \A q \in Held(inputs) \ AheadOf(heap) : prev # None /\ (q = prev \/ KVLess(q, prev))

\* The table being written has the versions to keep that were taken since the last.
WrittenInv ==
    /\ Rising(sst)
    /\ \A i \in 1 .. Len(sst) : prev # None /\ sst[i] \in Merged(inputs) /\ sst[i].key <= prev.key
    /\ Todo = ToSet(sst) \cup (Merged(inputs) \cap AheadOf(heap))

\* A full table in order, and nothing but greater keys after it, is the next to be written.
LEMMA NextTable ==
    ASSUME NEW s \in Seq(KV), Rising(s), NEW R \in SUBSET KV, IsFiniteSet(R),
           \A i \in 1 .. Len(s) : \A r \in R : s[i].key < r.key,
           Len(s) = Limit \/ (R = {} /\ Len(s) <= Limit)
    PROVE  /\ FirstEntries(ToSet(s) \cup R, Limit) = ToSet(s)
           /\ KVsInOrder(ToSet(s)) = s
<1>1. /\ Len(s) \in Nat /\ Limit \in Nat \ {0}
      /\ \A i \in 1 .. Len(s) : s[i] \in KV /\ i \in Nat
      /\ \A p \in KV : p.key \in Nat /\ p.ts \in Nat
  <2>1. \A i \in 1 .. Len(s) : s[i] \in KV /\ i \in Nat
    OBVIOUS
  <2> QED
    BY <2>1, Linear, MergeAssumption
<1>2. PICK S \in SUBSET KV :
          /\ S = ToSet(s)
          /\ \A i \in 1 .. Len(s) : s[i] \in S
          /\ \A p \in S : \E i \in 1 .. Len(s) : s[i] = p
  <2>1. ToSet(s) = {s[i] : i \in 1 .. Len(s)}
    BY DEF ToSet
  <2> QED
    BY <1>1, <2>1
<1>3. \A i, j \in 1 .. Len(s) : i < j <=> s[i].key < s[j].key
  BY <1>1 DEF Rising
<1>4. \A i, j \in 1 .. Len(s) : s[i] = s[j] => i = j
  BY <1>1, <1>3
<1>5. ASSUME NEW n \in 0 .. Len(s)
      PROVE  /\ IsFiniteSet({s[i] : i \in 1 .. n})
             /\ Cardinality({s[i] : i \in 1 .. n}) = n
  <2>1. PICK F : F = {s[i] : i \in 1 .. n}
    OBVIOUS
  <2>2. PICK f : f = [i \in 1 .. n |-> s[i]]
    OBVIOUS
  <2>3. f \in [1 .. n -> F]
    BY <2>1, <2>2
  <2>4. \A i, j \in 1 .. n : f[i] = f[j] => i = j
    BY <1>1, <1>4, <1>5, <2>2
  <2>5. \A x \in F : \E i \in 1 .. n : f[i] = x
    BY <2>1, <2>2
  <2>6. f \in Bijection(1 .. n, F)
    BY <2>3, <2>4, <2>5, Fun_IsBij
  <2>7. ExistsBijection(1 .. n, F)
    BY <2>6, Fun_ExistsBij
  <2>8. IsFiniteSet(1 .. n) /\ Cardinality(1 .. n) = n
    <3>1. 1 \in Int /\ n \in Int /\ n \in Nat
      BY <1>1, <1>5
    <3>2. IsFiniteSet(1 .. n) /\ Cardinality(1 .. n) = IF 1 > n THEN 0 ELSE n - 1 + 1
      BY <3>1, FS_Interval
    <3> QED
      BY <3>1, <3>2
  <2>9. IsFiniteSet(F) /\ Cardinality(F) = n
    BY <2>7, <2>8, FS_Bijection
  <2> QED
    BY <2>1, <2>9
<1>6. IsFiniteSet(S) /\ Cardinality(S) = Len(s)
  <2>1. S = {s[i] : i \in 1 .. Len(s)}
    BY <1>2
  <2>2. Len(s) \in 0 .. Len(s)
    BY <1>1
  <2> QED
    BY <1>5, <2>1, <2>2
<1>7. ASSUME NEW p \in S
      PROVE  Cardinality({q \in S \cup R : q.key < p.key}) < Limit
  <2>1. PICK i \in 1 .. Len(s) : s[i] = p
    BY <1>2, <1>7
  <2>2. i - 1 \in 0 .. Len(s) /\ i - 1 < Limit
    BY <1>1, <2>1
  <2>3. ASSUME NEW q \in S \cup R, q.key < p.key PROVE q \in {s[j] : j \in 1 .. i - 1}
    <3>1. q \notin R
      BY <1>1, <2>1, <2>3
    <3>2. PICK j \in 1 .. Len(s) : s[j] = q
      BY <1>2, <2>3, <3>1
    <3>3. j < i
      BY <1>3, <2>1, <2>3, <3>2
    <3>4. j \in 1 .. i - 1
      BY <1>1, <2>1, <3>2, <3>3
    <3> QED
      BY <3>2, <3>4
  <2>4. ASSUME NEW j \in 1 .. i - 1 PROVE s[j] \in S /\ s[j].key < p.key
    <3>1. j \in 1 .. Len(s) /\ j < i
      BY <1>1, <2>1, <2>4
    <3> QED
      BY <1>2, <1>3, <2>1, <3>1
  <2>5. {q \in S \cup R : q.key < p.key} = {s[j] : j \in 1 .. i - 1}
    BY <2>3, <2>4
  <2> QED
    BY <1>5, <2>2, <2>5
<1>8. ASSUME NEW r \in R, Cardinality({q \in S \cup R : q.key < r.key}) < Limit
      PROVE  r \in S
  <2>1. PICK below : below = {q \in S \cup R : q.key < r.key}
    OBVIOUS
  <2>2. IsFiniteSet(below)
    <3>1. IsFiniteSet(S \cup R) /\ below \in SUBSET (S \cup R)
      BY <1>6, <2>1, FS_Union
    <3> QED
      BY <3>1, FS_Subset
  <2>3. R # {} /\ S \in SUBSET below
    BY <1>2, <1>8, <2>1
  <2>4. Cardinality(S) <= Cardinality(below)
    BY <2>2, <2>3, FS_Subset
  <2>5. Cardinality(S) = Limit /\ Cardinality(below) < Limit /\ Cardinality(below) \in Nat
    BY <1>6, <1>8, <2>1, <2>2, <2>3, FS_CardinalityType
  <2> QED
    BY <1>1, <2>4, <2>5
<1>9. FirstEntries(S \cup R, Limit) = S
  <2>1. FirstEntries(S \cup R, Limit) =
          {p \in S \cup R : Cardinality({q \in S \cup R : q.key < p.key}) < Limit}
    BY DEF FirstEntries
  <2> QED
    BY <1>7, <1>8, <2>1
<1>10. PICK e : /\ e = KVsInOrder(S)
                /\ e \in [1 .. Len(s) -> S]
                /\ \A p \in S : \E i \in 1 .. Len(s) : e[i] = p
                /\ \A i, j \in 1 .. Len(s) : i < j <=> KVLess(e[i], e[j])
  <2>1. /\ IsFiniteSet(S)
        /\ \A p \in S : p.key \in Int /\ p.ts \in Int
        /\ \A p, q \in S : p.key = q.key /\ p.ts = q.ts => p = q
    BY <1>1, <1>6 DEF KV
  <2> QED
    BY <1>6, <2>1, VersionsInOrder
<1>11. \A i, j \in 1 .. Len(s) : i < j => e[i].key < e[j].key
  <2>1. \A p, q \in S : p.key = q.key => p = q
    <3>1. ASSUME NEW p \in S, NEW q \in S, p.key = q.key PROVE p = q
      <4>1. PICK i \in 1 .. Len(s), j \in 1 .. Len(s) : s[i] = p /\ s[j] = q
        BY <1>2, <3>1
      <4>2. ~ (i < j) /\ ~ (j < i)
        BY <1>1, <1>3, <3>1, <4>1
      <4> QED
        BY <1>1, <4>1, <4>2
    <3> QED
      BY <3>1
  <2>2. ASSUME NEW i \in 1 .. Len(s), NEW j \in 1 .. Len(s), i < j PROVE e[i].key < e[j].key
    <3>1. e[i] \in S /\ e[j] \in S /\ KVLess(e[i], e[j])
      BY <1>10, <2>2
    <3>2. e[i].key \in Nat /\ e[j].key \in Nat /\ e[i].ts \in Nat /\ e[j].ts \in Nat
      BY <1>1, <3>1
    <3>3. e[i].key = e[j].key => e[i] = e[j]
      BY <2>1, <3>1
    <3> QED
      BY <3>1, <3>2, <3>3 DEF KVLess
  <2> QED
    BY <2>2
<1>12. ASSUME NEW i \in 1 .. Len(s), \A j \in 1 .. Len(s) : j < i => e[j] = s[j]
       PROVE  e[i] = s[i]
  <2>1. PICK j \in 1 .. Len(s), k \in 1 .. Len(s) : s[j] = e[i] /\ e[k] = s[i]
    BY <1>2, <1>10
  <2>2. ~ (j < i)
    <3>1. SUFFICES ASSUME j < i PROVE FALSE
      OBVIOUS
    <3>2. e[j] = e[i] /\ e[j].key < e[i].key
      BY <1>11, <1>12, <2>1, <3>1
    <3>3. e[i].key \in Nat
      BY <1>1, <1>10
    <3> QED
      BY <3>2, <3>3
  <2>3. ~ (k < i)
    <3>1. SUFFICES ASSUME k < i PROVE FALSE
      OBVIOUS
    <3>2. s[k] = s[i]
      BY <1>12, <2>1, <3>1
    <3> QED
      BY <1>1, <1>4, <3>1, <3>2
  <2>4. SUFFICES ASSUME i < j, i < k PROVE FALSE
    BY <1>1, <2>1, <2>2, <2>3
  <2>5. s[i].key < s[j].key /\ e[i].key < e[k].key
    BY <1>3, <1>11, <2>4
  <2>6. s[i].key \in Nat /\ e[i].key \in Nat
    BY <1>1, <1>10
  <2> QED
    BY <2>1, <2>5, <2>6
<1>13. \A i \in 1 .. Len(s) : e[i] = s[i]
  <2>1. PICK bad : bad = {i \in 1 .. Len(s) : e[i] # s[i]}
    OBVIOUS
  <2>2. SUFFICES ASSUME bad # {} PROVE FALSE
    BY <2>1
  <2>3. bad \subseteq Nat
    BY <1>1, <2>1
  <2>4. PICK i \in bad : \A j \in bad : i <= j
    BY <2>2, <2>3, LeastNatural
  <2>5. i \in 1 .. Len(s) /\ e[i] # s[i]
    BY <2>1, <2>4
  <2>6. \A j \in 1 .. Len(s) : j < i => e[j] = s[j]
    <3>1. ASSUME NEW j \in 1 .. Len(s), j < i PROVE e[j] = s[j]
      <4>1. ~ (i <= j)
        BY <1>1, <2>5, <3>1
      <4> QED
        BY <2>1, <2>4, <3>1, <4>1
    <3> QED
      BY <3>1
  <2> QED
    BY <1>12, <2>5, <2>6
<1>14. e = s
  BY <1>1, <1>10, <1>13
<1> QED
  BY <1>2, <1>9, <1>10, <1>14

LoopWritten == LoopInv /\ TakenInv /\ WrittenInv

LEMMA WrittenInit ==
    ASSUME Init
    PROVE  TakenInv /\ WrittenInv
<1>1. prev = None /\ sst = <<>> /\ outputs = <<>> /\ Beginning
  BY Begins DEF Init
<1>2. TakenInv
  <2>1. Held(inputs) \subseteq KV
    BY <1>1 DEF Beginning, Held
  <2> QED
    BY <1>1, <2>1 DEF TakenInv, Beginning
<1>3. Merged(inputs) \subseteq Held(inputs)
  BY DEF Merged, Held
<1>4. Todo = Merged(inputs)
  BY <1>1 DEF Todo
<1>5. ToSet(sst) = {}
  BY <1>1 DEF ToSet
<1>6. Todo = ToSet(sst) \cup (Merged(inputs) \cap AheadOf(heap))
  BY <1>1, <1>3, <1>4, <1>5 DEF Beginning
<1>7. Rising(sst) /\ \A i \in 1 .. Len(sst) : prev # None /\ sst[i] \in Merged(inputs) /\ sst[i].key <= prev.key
  BY <1>1 DEF Rising
<1> QED
  BY <1>2, <1>6, <1>7 DEF WrittenInv

\* The loop keeps a version exactly when it is to be kept: the duplicates are the ones to drop.
LEMMA KeepsOldest ==
    ASSUME LoopInv, TakenInv, NEW it \in Top(heap)
    PROVE  /\ At(it) \in Merged(inputs) <=> ~ Duplicate(At(it))
           /\ At(it) \in AheadOf(heap) /\ At(it) \in KV
           /\ \A p \in AheadOf(heap) : p = At(it) \/ KVLess(At(it), p)
<1>1. PICK h : h = heap /\ it \in Top(h) /\ Heap(h)
  BY DEF LoopInv, HeapInv
<1>2. /\ At(it) \in AheadOf(heap) /\ AheadOf(heap) \subseteq KV
      /\ \A p \in AheadOf(heap) : p = At(it) \/ KVLess(At(it), p)
  BY <1>1, TopIsSmallest
<1>3. PICK v \in KV : v = At(it) /\ v \in Held(inputs)
  BY <1>2 DEF TakenInv
<1>4. v \in Merged(inputs) <=> \A q \in Held(inputs) : q.key = v.key => v.ts <= q.ts
  BY <1>3 DEF Merged, Held
<1>5. v.key \in Nat /\ v.ts \in Nat /\ \A q \in Held(inputs) : q \in KV /\ q.key \in Nat /\ q.ts \in Nat
  BY <1>3, Linear DEF TakenInv
<1>6. ASSUME Duplicate(v) PROVE v \notin Merged(inputs)
  <2>1. prev # None /\ prev.key = v.key
    BY <1>6 DEF Duplicate
  <2>2. prev \in Held(inputs) /\ KVLess(prev, v)
    BY <1>2, <1>3, <2>1 DEF TakenInv, LoopInv, HeapInv
  <2> QED
    BY <1>4, <1>5, <2>1, <2>2 DEF KVLess
<1>7. ASSUME ~ Duplicate(v) PROVE v \in Merged(inputs)
  <2>1. SUFFICES ASSUME NEW q \in Held(inputs), q.key = v.key PROVE v.ts <= q.ts
    BY <1>4
  <2>2. CASE q \in AheadOf(heap)
    <3>1. q = v \/ KVLess(v, q)
      BY <1>2, <1>3, <2>2
    <3> QED
      BY <1>5, <2>1, <3>1 DEF KVLess
  <2>3. CASE q \notin AheadOf(heap)
    <3>1. prev # None /\ (q = prev \/ KVLess(q, prev))
      BY <2>3 DEF TakenInv
    <3>2. prev \in Held(inputs) /\ KVLess(prev, v)
      BY <1>2, <1>3, <3>1 DEF TakenInv, LoopInv, HeapInv
    <3>3. prev.key # v.key
      BY <1>7, <3>1 DEF Duplicate
    <3>4. prev.key \in Nat /\ q.key \in Nat
      BY <1>5, <3>2
    <3>5. q.key < v.key
      BY <1>5, <3>1, <3>2, <3>3, <3>4 DEF KVLess
    <3> QED
      BY <1>5, <2>1, <3>5
  <2> QED
    BY <2>2, <2>3
<1> QED
  BY <1>2, <1>3, <1>6, <1>7

\* Taking the next pair.
LEMMA TakenStep ==
    ASSUME LoopInv, TakenInv, NEW it \in Top(heap), inputs' = inputs, prev' = At(it),
           AheadOf(heap') = AheadOf(heap) \ {At(it)}
    PROVE  TakenInv' /\ prev' # None
<1>1. /\ At(it) \in AheadOf(heap) /\ At(it) \in KV
      /\ \A p \in AheadOf(heap) : p = At(it) \/ KVLess(At(it), p)
  BY KeepsOldest
<1>2. prev' # None
  BY <1>1, MergeAssumption DEF KV
<1>3. PICK v \in KV : v = At(it) /\ v \in Held(inputs)
  BY <1>1 DEF TakenInv
<1>4. ASSUME NEW q \in Held(inputs), q \notin AheadOf(heap'), q # v PROVE KVLess(q, v)
  <2>1. q \notin AheadOf(heap)
    BY <1>3, <1>4
  <2>2. prev # None /\ (q = prev \/ KVLess(q, prev))
    BY <1>4, <2>1 DEF TakenInv
  <2>3. prev \in KV /\ KVLess(prev, v)
    BY <1>1, <1>3, <2>2 DEF LoopInv, HeapInv
  <2>4. q \in KV
    BY <1>4 DEF TakenInv
  <2>5. /\ q.key \in Nat /\ q.ts \in Nat /\ v.key \in Nat /\ v.ts \in Nat
        /\ prev.key \in Nat /\ prev.ts \in Nat
    BY <1>3, <2>3, <2>4, Linear
  <2> QED
    BY <2>2, <2>3, <2>5 DEF KVLess
<1> QED
  BY <1>2, <1>3, <1>4 DEF TakenInv

\* Prev is a version of its own key, so that no greater version of it is to be kept.
LEMMA KeysAhead ==
    ASSUME LoopInv, TakenInv, prev # None, NEW r \in Merged(inputs), r \in AheadOf(heap)
    PROVE  prev.key < r.key
<1>1. prev \in KV /\ KVLess(prev, r) /\ prev \in Held(inputs)
  BY DEF LoopInv, HeapInv, TakenInv
<1>2. r \in KV
  BY DEF TakenInv
<1>3. prev.key \in Nat /\ prev.ts \in Nat /\ r.key \in Nat /\ r.ts \in Nat
  BY <1>1, <1>2, Linear
<1>4. prev.key = r.key => r.ts <= prev.ts
  BY <1>1 DEF Merged, Held
<1> QED
  BY <1>1, <1>3, <1>4 DEF KVLess

\* A table that is full, or the last, is the next table of the merge.
LEMMA WritesNext ==
    ASSUME LoopWritten, Len(sst) >= 1, Full \/ heap = {}
    PROVE  /\ FirstEntries(Todo, Limit) = ToSet(sst)
           /\ KVsInOrder(FirstEntries(Todo, Limit)) = sst
           /\ Todo # {}
           /\ Todo \ FirstEntries(Todo, Limit) = Merged(inputs) \cap AheadOf(heap)
<1>1. LoopInv /\ TakenInv /\ WrittenInv
  BY DEF LoopWritten
<1>2. PICK s \in Seq(KV) : s = sst /\ Rising(s) /\ Len(s) >= 1 /\ Len(s) <= Limit
  BY <1>1 DEF LoopInv, LoopTypeOK, WrittenInv
<1>3. PICK R \in SUBSET KV : R = Merged(inputs) \cap AheadOf(heap) /\ IsFiniteSet(R)
  <2>1. IsFiniteSet(AheadOf(heap))
    BY <1>1 DEF LoopInv, RoomInv
  <2>2. Merged(inputs) \cap AheadOf(heap) \in SUBSET AheadOf(heap)
    OBVIOUS
  <2>3. IsFiniteSet(Merged(inputs) \cap AheadOf(heap))
    BY <2>1, <2>2, FS_Subset
  <2> QED
    BY <1>1, <2>3 DEF TakenInv
<1>4. ASSUME NEW i \in 1 .. Len(s), NEW r \in R PROVE s[i].key < r.key
  <2>1. prev # None /\ s[i].key <= prev.key
    BY <1>1, <1>2 DEF WrittenInv
  <2>2. prev.key < r.key
    BY <1>1, <1>3, <1>4, <2>1, KeysAhead
  <2>3. prev \in KV
    BY <1>1, <2>1 DEF LoopInv, HeapInv
  <2>4. prev.key \in Nat /\ s[i].key \in Nat /\ r.key \in Nat
    BY <1>2, <1>3, <2>3, Linear
  <2> QED
    BY <2>1, <2>2, <2>4
<1>5. Len(s) = Limit \/ (R = {} /\ Len(s) <= Limit)
  BY <1>2, <1>3 DEF Full, AheadOf
<1>6. /\ FirstEntries(ToSet(s) \cup R, Limit) = ToSet(s)
      /\ KVsInOrder(ToSet(s)) = s
  BY <1>4, <1>5, <1>2, <1>3, NextTable
<1>7. Todo = ToSet(s) \cup R
  BY <1>1, <1>2, <1>3 DEF WrittenInv
<1>8. \A p \in ToSet(s) : \E i \in 1 .. Len(s) : s[i] = p
  BY DEF ToSet
<1>9. s[1] \in ToSet(s)
  BY <1>2 DEF ToSet
<1>10. \A r \in R : r \notin ToSet(s)
  <2>1. ASSUME NEW r \in R, r \in ToSet(s) PROVE FALSE
    <3>1. PICK i \in 1 .. Len(s) : s[i] = r
      BY <1>8, <2>1
    <3>2. r.key < r.key /\ r.key \in Nat
      BY <1>4, <2>1, <3>1, Linear
    <3> QED
      BY <3>2
  <2> QED
    BY <2>1
<1> QED
  BY <1>2, <1>3, <1>6, <1>7, <1>9, <1>10

\* Written, it is no longer due.
LEMMA TableWritten ==
    ASSUME LoopInv, inputs' = inputs, outputs' = Append(outputs, sst)
    PROVE  Todo' = Todo \ ToSet(sst)
<1>1. PICK o \in Seq(Seq(KV)), s \in Seq(KV) : o = outputs /\ s = sst
  BY DEF LoopInv, LoopTypeOK
<1>2. PICK n \in Seq(Seq(KV)) : n = outputs' /\ n = Append(o, s)
  <2>1. Append(o, s) \in Seq(Seq(KV))
    OBVIOUS
  <2> QED
    BY <1>1, <2>1
<1>3. /\ Len(o) \in Nat
      /\ DOMAIN o = 1 .. Len(o) /\ DOMAIN n = 1 .. Len(o) + 1
      /\ n[Len(o) + 1] = s
      /\ \A i \in 1 .. Len(o) : n[i] = o[i]
  BY <1>2
<1>4. UNION {ToSet(n[i]) : i \in DOMAIN n} = (UNION {ToSet(o[i]) : i \in DOMAIN o}) \cup ToSet(s)
  <2>1. \A i \in DOMAIN n : i \in DOMAIN o \/ i = Len(o) + 1
    BY <1>3
  <2>2. \A i \in DOMAIN o : i \in DOMAIN n
    BY <1>3
  <2>3. Len(o) + 1 \in DOMAIN n
    BY <1>3
  <2> QED
    BY <1>3, <2>1, <2>2, <2>3
<1> QED
  BY <1>1, <1>2, <1>4 DEF Todo

LEMMA WrittenSkip ==
    ASSUME LoopWritten, SkipDuplicate
    PROVE  TakenInv' /\ WrittenInv' /\ Todo' = Todo
<1>1. LoopInv /\ TakenInv /\ WrittenInv
  BY DEF LoopWritten
<1>2. PICK it \in Top(heap) : Duplicate(At(it)) /\ NextPair(it, prev.ts < At(it).ts)
  BY DEF SkipDuplicate
<1>3. /\ phase = "merge" /\ sst' = sst /\ outputs' = outputs /\ inputs' = inputs
      /\ heap' = Pushed(it) /\ prev' = At(it)
  BY <1>2 DEF SkipDuplicate, NextPair
<1>4. AheadOf(heap') = AheadOf(heap) \ {At(it)}
  <2>1. PICK h : h = heap /\ it \in Top(h) /\ Heap(h)
    BY <1>1, <1>2 DEF LoopInv, HeapInv
  <2>2. AheadOf(After(h, it)) = AheadOf(h) \ {At(it)}
    BY <2>1, NextTakesTop
  <2> QED
    BY <1>3, <2>1, <2>2 DEF Pushed, After
<1>5. TakenInv' /\ prev' # None
  BY <1>1, <1>2, <1>3, <1>4, TakenStep
<1>6. At(it) \notin Merged(inputs) /\ prev # None /\ prev.key = At(it).key
  BY <1>1, <1>2, KeepsOldest DEF Duplicate
<1>7. Todo' = Todo
  BY <1>3 DEF Todo
<1>8. Merged(inputs) \cap AheadOf(heap') = Merged(inputs) \cap AheadOf(heap)
  BY <1>4, <1>6
<1>9. WrittenInv'
  <2>1. Todo' = ToSet(sst') \cup (Merged(inputs') \cap AheadOf(heap'))
    BY <1>1, <1>3, <1>7, <1>8 DEF WrittenInv
  <2>2. ASSUME NEW i \in 1 .. Len(sst')
        PROVE  prev' # None /\ sst'[i] \in Merged(inputs') /\ sst'[i].key <= prev'.key
    BY <1>1, <1>3, <1>5, <1>6, <2>2 DEF WrittenInv
  <2>3. Rising(sst')
    BY <1>1, <1>3 DEF WrittenInv
  <2> QED
    BY <2>1, <2>2, <2>3 DEF WrittenInv
<1> QED
  BY <1>5, <1>7, <1>9

LEMMA WrittenMerge ==
    ASSUME LoopWritten, MergePair
    PROVE  /\ TakenInv' /\ WrittenInv'
           /\ ~ Full => Todo' = Todo
           /\ Full => Todo' = Todo \ ToSet(sst) /\ Len(sst) >= 1
<1>1. LoopInv /\ TakenInv /\ WrittenInv
  BY DEF LoopWritten
<1>2. PICK it \in Top(heap) :
         /\ ~ Duplicate(At(it))
         /\ IF Full THEN outputs' = Append(outputs, sst) /\ sst' = <<At(it)>>
                    ELSE sst' = Append(sst, At(it)) /\ outputs' = outputs
         /\ NextPair(it, TRUE)
  BY DEF MergePair
<1>3. /\ phase = "merge" /\ inputs' = inputs
      /\ heap' = Pushed(it) /\ prev' = At(it)
  BY <1>2 DEF MergePair, NextPair
<1>4. AheadOf(heap') = AheadOf(heap) \ {At(it)}
  <2>1. PICK h : h = heap /\ it \in Top(h) /\ Heap(h)
    BY <1>1, <1>2 DEF LoopInv, HeapInv
  <2>2. AheadOf(After(h, it)) = AheadOf(h) \ {At(it)}
    BY <2>1, NextTakesTop
  <2> QED
    BY <1>3, <2>1, <2>2 DEF Pushed, After
<1>5. TakenInv' /\ prev' # None
  BY <1>1, <1>2, <1>3, <1>4, TakenStep
<1>6. PICK v \in KV : v = At(it) /\ v \in Merged(inputs) /\ v \in AheadOf(heap)
  BY <1>1, <1>2, KeepsOldest
<1>7. v.key \in Nat /\ \A p \in KV : p.key \in Nat
  BY Linear
<1>8. PICK s \in Seq(KV) : s = sst /\ Rising(s) /\ Len(s) \in Nat /\ Len(s) <= Limit /\ Limit \in Nat \ {0}
  BY <1>1, MergeAssumption DEF LoopInv, LoopTypeOK, WrittenInv
<1>9. ASSUME NEW i \in 1 .. Len(s) PROVE s[i] \in Merged(inputs) /\ s[i] \in KV /\ s[i].key < v.key
  <2>1. s[i] \in Merged(inputs) /\ s[i].key <= prev.key /\ prev # None
    BY <1>1, <1>8, <1>9 DEF WrittenInv
  <2>2. prev.key < v.key
    BY <1>1, <1>6, <2>1, KeysAhead
  <2>3. prev \in KV
    BY <1>1, <2>1 DEF LoopInv, HeapInv
  <2>4. s[i] \in KV
    BY <1>8, <1>9
  <2> QED
    BY <1>7, <2>1, <2>2, <2>3, <2>4
<1>10. CASE ~ Full
  <2>1. outputs' = outputs /\ sst' = Append(s, v)
    BY <1>2, <1>6, <1>8, <1>10
  <2>2. Todo' = Todo
    BY <1>3, <2>1 DEF Todo
  <2>3. PICK r \in Seq(KV) : r = sst' /\ r = Append(s, v)
    <3>1. Append(s, v) \in Seq(KV)
      OBVIOUS
    <3> QED
      BY <2>1, <3>1
  <2>4. /\ Len(r) = Len(s) + 1
        /\ r[Len(s) + 1] = v
        /\ \A i \in 1 .. Len(s) : r[i] = s[i]
    BY <2>3
  <2>5. Rising(r)
    <3>1. ASSUME NEW i \in 1 .. Len(r), NEW j \in 1 .. Len(r), i < j PROVE r[i].key < r[j].key
      <4>1. i \in 1 .. Len(s) /\ (j \in 1 .. Len(s) \/ j = Len(s) + 1)
        BY <1>8, <2>4, <3>1
      <4>2. CASE j \in 1 .. Len(s)
        BY <1>8, <2>4, <3>1, <4>1, <4>2 DEF Rising
      <4>3. CASE j = Len(s) + 1
        BY <1>9, <2>4, <4>1, <4>3
      <4> QED
        BY <4>1, <4>2, <4>3
    <3> QED
      BY <3>1 DEF Rising
  <2>6. ASSUME NEW i \in 1 .. Len(r) PROVE r[i] \in Merged(inputs) /\ r[i].key <= v.key
    <3>1. i \in 1 .. Len(s) \/ i = Len(s) + 1
      BY <1>8, <2>4, <2>6
    <3>2. CASE i \in 1 .. Len(s)
      BY <1>7, <1>9, <2>4, <3>2
    <3>3. CASE i = Len(s) + 1
      BY <1>6, <1>7, <2>4, <3>3
    <3> QED
      BY <3>1, <3>2, <3>3
  <2>7. ToSet(r) = ToSet(s) \cup {v}
    <3>1. ToSet(s) = {s[i] : i \in 1 .. Len(s)} /\ ToSet(r) = {r[i] : i \in 1 .. Len(s) + 1}
      BY <2>4 DEF ToSet
    <3>2. \A i \in 1 .. Len(s) + 1 : i \in 1 .. Len(s) \/ i = Len(s) + 1
      BY <1>8
    <3>3. Len(s) + 1 \in 1 .. Len(s) + 1 /\ \A i \in 1 .. Len(s) : i \in 1 .. Len(s) + 1
      BY <1>8
    <3> QED
      BY <2>4, <3>1, <3>2, <3>3
  <2>8. Todo = ToSet(s) \cup (Merged(inputs) \cap AheadOf(heap))
    BY <1>1, <1>8 DEF WrittenInv
  <2>9. Todo' = ToSet(sst') \cup (Merged(inputs') \cap AheadOf(heap'))
    BY <1>3, <1>4, <1>6, <2>2, <2>3, <2>7, <2>8
  <2>10. WrittenInv'
    <3>1. Rising(sst')
      BY <2>3, <2>5
    <3>2. \A i \in 1 .. Len(sst') : prev' # None /\ sst'[i] \in Merged(inputs') /\ sst'[i].key <= prev'.key
      BY <1>3, <1>5, <1>6, <2>3, <2>6
    <3> QED
      BY <2>9, <3>1, <3>2 DEF WrittenInv
  <2> QED
    BY <1>5, <1>10, <2>2, <2>10
<1>11. CASE Full
  <2>1. outputs' = Append(outputs, sst) /\ sst' = <<v>>
    BY <1>2, <1>6, <1>11
  <2>2. Len(sst) >= 1
    BY <1>8, <1>11 DEF Full
  <2>3. Todo' = Todo \ ToSet(sst)
    BY <1>1, <1>3, <2>1, TableWritten
  <2>4. /\ FirstEntries(Todo, Limit) = ToSet(sst)
        /\ Todo \ FirstEntries(Todo, Limit) = Merged(inputs) \cap AheadOf(heap)
    BY <1>11, <2>2, WritesNext
  <2>5. ToSet(<<v>>) = {v} /\ Len(<<v>>) = 1 /\ <<v>>[1] = v
    BY DEF ToSet
  <2>6. Todo' = ToSet(sst') \cup (Merged(inputs') \cap AheadOf(heap'))
    BY <1>3, <1>4, <1>6, <2>1, <2>3, <2>4, <2>5
  <2>7. Rising(sst')
    BY <2>1, <2>5 DEF Rising
  <2>8. \A i \in 1 .. Len(sst') : prev' # None /\ sst'[i] \in Merged(inputs') /\ sst'[i].key <= prev'.key
    BY <1>3, <1>5, <1>6, <1>7, <2>1, <2>5
  <2> QED
    BY <1>5, <1>11, <2>2, <2>3, <2>6, <2>7, <2>8 DEF WrittenInv
<1> QED
  BY <1>10, <1>11

LEMMA WrittenLast ==
    ASSUME LoopWritten, FinishLast
    PROVE  /\ TakenInv' /\ WrittenInv'
           /\ Todo' = Todo \ ToSet(sst) /\ Len(sst) >= 1 /\ heap = {}
<1>1. LoopInv /\ TakenInv /\ WrittenInv
  BY DEF LoopWritten
<1>2. /\ phase = "last" /\ outputs' = Append(outputs, sst) /\ sst' = <<>>
      /\ inputs' = inputs /\ heap' = heap /\ prev' = prev
  BY DEF FinishLast
<1>3. Len(sst) >= 1 /\ heap = {}
  BY <1>1, <1>2 DEF LoopInv, TableBegun, HeapInv
<1>4. Todo' = Todo \ ToSet(sst)
  BY <1>1, <1>2, TableWritten
<1>5. /\ FirstEntries(Todo, Limit) = ToSet(sst)
      /\ Todo \ FirstEntries(Todo, Limit) = Merged(inputs) \cap AheadOf(heap)
  BY <1>3, WritesNext
<1>6. TakenInv'
  BY <1>1, <1>2 DEF TakenInv
<1>7. ToSet(<<>>) = {} /\ Rising(<<>>) /\ Len(<<>>) = 0
  BY DEF ToSet, Rising
<1>8. WrittenInv'
  BY <1>2, <1>4, <1>5, <1>7 DEF WrittenInv
<1> QED
  BY <1>3, <1>4, <1>6, <1>8

LEMMA WrittenNext ==
    ASSUME LoopWritten, [Next]_vars
    PROVE  LoopWritten'
<1>1. LoopInv'
  BY LoopNext DEF LoopWritten
<1>2. CASE SkipDuplicate
  BY <1>1, <1>2, WrittenSkip DEF LoopWritten
<1>3. CASE MergePair
  BY <1>1, <1>3, WrittenMerge DEF LoopWritten
<1>4. CASE FinishLast
  BY <1>1, <1>4, WrittenLast DEF LoopWritten
<1>5. CASE UNCHANGED vars
  BY <1>1, <1>5 DEF vars, LoopWritten, TakenInv, WrittenInv, Todo
<1>6. CASE Done
  BY <1>5, <1>6 DEF Done
<1> QED
  BY <1>2, <1>3, <1>4, <1>5, <1>6 DEF Next

\* Module Merge counts and orders as this one does.
LEMMA SameOrder ==
    /\ \A S : Abstract!Cardinality(S) = Cardinality(S)
    /\ \A S : Abstract!KVsInOrder(S) = KVsInOrder(S)
    /\ \A S, n : Abstract!FirstEntries(S, n) = FirstEntries(S, n)
<1>1. \A S : Abstract!Cardinality(S) = Cardinality(S)
  BY DEF Cardinality, Abstract!Cardinality
<1>2. \A S : Abstract!KVsInOrder(S) = KVsInOrder(S)
  BY <1>1, Zenon DEF KVsInOrder, Abstract!KVsInOrder, KVLess, Abstract!KVLess
<1>3. \A S, n : Abstract!FirstEntries(S, n) = FirstEntries(S, n)
  BY <1>1, Zenon DEF FirstEntries, Abstract!FirstEntries
<1> QED
  BY <1>1, <1>2, <1>3

\* And what was taken is in the tables written, in the one being written, or was a version
\* of a key of which doCompaction keeps an older one.
THEOREM Written == Spec => []LoopWritten
<1>1. Init => LoopWritten
  BY LoopInit, WrittenInit DEF LoopWritten
<1> QED
  BY <1>1, WrittenNext, PTL DEF Spec

\* Version by version, the loop writes the tables that LSMTree's merge writes, in that order.
THEOREM LoopWritesTheMerge ==
    Spec => Abstract!Init /\ [][Abstract!FinishSST]_<<inputs, Todo, outputs>>
<1>1. Init => Abstract!Init
  <2>1. SUFFICES ASSUME Init PROVE Todo = Abstract!Merged(inputs) /\ outputs = <<>>
    BY DEF Abstract!Init, Todo
  <2>2. outputs = <<>>
    BY <2>1 DEF Init
  <2>3. Todo = Merged(inputs)
    BY <2>2 DEF Todo
  <2> QED
    BY <2>2, <2>3 DEF Merged, Abstract!Merged
<1>2. ASSUME LoopWritten, LoopWritten', [Next]_vars
      PROVE  [Abstract!FinishSST]_<<inputs, Todo, outputs>>
  <2>1. ASSUME Todo' = Todo \ ToSet(sst), Len(sst) >= 1, Full \/ heap = {},
               outputs' = Append(outputs, sst), inputs' = inputs
        PROVE  Abstract!FinishSST
    <3>1. /\ FirstEntries(Todo, Limit) = ToSet(sst)
          /\ KVsInOrder(FirstEntries(Todo, Limit)) = sst
          /\ Todo # {}
      BY <1>2, <2>1, WritesNext
    <3>2. Abstract!FirstEntries(Todo, Limit) = FirstEntries(Todo, Limit)
      BY SameOrder
    <3>3. \A S : Abstract!KVsInOrder(S) = KVsInOrder(S)
      BY SameOrder
    <3>4. Abstract!KVsInOrder(Abstract!FirstEntries(Todo, Limit)) = sst
      BY <3>1, <3>2, <3>3
    <3>5. /\ Todo # {} /\ outputs' = Append(outputs, Abstract!KVsInOrder(Abstract!FirstEntries(Todo, Limit)))
          /\ Todo' = Todo \ Abstract!FirstEntries(Todo, Limit) /\ inputs' = inputs
      BY <2>1, <3>1, <3>2, <3>4
    <3> QED
      BY <3>5 DEF Abstract!FinishSST, Todo
  <2>2. CASE SkipDuplicate
    <3>1. Todo' = Todo /\ outputs' = outputs /\ inputs' = inputs
      BY <1>2, <2>2, WrittenSkip DEF SkipDuplicate
    <3> QED
      BY <3>1
  <2>3. CASE MergePair
    <3>1. CASE Full
      <4>1. outputs' = Append(outputs, sst) /\ inputs' = inputs
        BY <2>3, <3>1 DEF MergePair
      <4>2. Todo' = Todo \ ToSet(sst) /\ Len(sst) >= 1
        BY <1>2, <2>3, <3>1, WrittenMerge
      <4> QED
        BY <2>1, <3>1, <4>1, <4>2
    <3>2. CASE ~ Full
      <4>1. outputs' = outputs /\ inputs' = inputs
        BY <2>3, <3>2 DEF MergePair
      <4>2. Todo' = Todo
        BY <1>2, <2>3, <3>2, WrittenMerge
      <4> QED
        BY <4>1, <4>2
    <3> QED
      BY <3>1, <3>2
  <2>4. CASE FinishLast
    <3>1. outputs' = Append(outputs, sst) /\ inputs' = inputs
      BY <2>4 DEF FinishLast
    <3>2. Todo' = Todo \ ToSet(sst) /\ Len(sst) >= 1 /\ heap = {}
      BY <1>2, <2>4, WrittenLast
    <3> QED
      BY <2>1, <3>1, <3>2
  <2>5. CASE UNCHANGED vars
    BY <2>5 DEF vars, Todo
  <2>6. CASE Done
    BY <2>5, <2>6 DEF Done
  <2> QED
    BY <1>2, <2>2, <2>3, <2>4, <2>5, <2>6 DEF Next
<1> QED
  BY <1>1, <1>2, Written, PTL DEF Spec

-----------------------------------------------------------------------------
(* The loop comes to an end                                                *)

\* Every step of doCompaction's loop takes exactly one version from the heap, be it merged
\* or skipped, and the step that writes the last table ends it: no iterator is stuck, none
\* yields a version twice. As the loop can always go on and its steps are fair, it ends.
THEOREM LoopDescends ==
    Spec => [][/\ phase = "merge" => /\ Remaining \in Nat /\ Remaining' = Remaining - 1
                                     /\ phase' \in {"merge", "last"}
               /\ phase = "last" => phase' = "done"
               /\ phase \in {"merge", "last"}]_vars
<1>1. ASSUME LoopInv, LoopInv', [Next]_vars, ~ UNCHANGED vars
      PROVE  /\ phase = "merge" => /\ Remaining \in Nat /\ Remaining' = Remaining - 1
                                   /\ phase' \in {"merge", "last"}
             /\ phase = "last" => phase' = "done"
             /\ phase \in {"merge", "last"}
  <2>1. Remaining \in Nat
    BY <1>1, FS_CardinalityType DEF LoopInv, RoomInv, Remaining
  <2>2. phase' \in {"merge", "last", "done"}
    BY <1>1 DEF LoopInv, LoopTypeOK
  <2>3. CASE SkipDuplicate \/ MergePair
    <3>1. phase = "merge" /\ phase' # "done"
      BY <2>3 DEF SkipDuplicate, MergePair, NextPair
    <3>2. Remaining' = Remaining - 1
      BY <1>1, <2>3, SkipStep, MergeStep
    <3> QED
      BY <2>1, <2>2, <3>1, <3>2
  <2>4. CASE FinishLast
    <3>1. phase = "last" /\ phase' \in {"done", "aborted"}
      BY <2>4 DEF FinishLast
    <3> QED
      BY <2>2, <3>1
  <2>5. ~ Done
    BY <1>1 DEF Done
  <2> QED
    BY <1>1, <2>3, <2>4, <2>5 DEF Next
<1>2. LoopInv /\ LoopInv' /\ [Next]_vars
        => [/\ phase = "merge" => /\ Remaining \in Nat /\ Remaining' = Remaining - 1
                                  /\ phase' \in {"merge", "last"}
            /\ phase = "last" => phase' = "done"
            /\ phase \in {"merge", "last"}]_vars
  BY <1>1
<1> QED
  BY <1>2, Loop, PTL DEF Spec
=============================================================================

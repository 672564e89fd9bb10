-------------------------- MODULE QuarkStorageProofs --------------------------
(***************************************************************************)
(* Proofs about QuarkStorage, for both engines, every set of keys and size *)
(* of tables, any number of flushes, sessions, crashes and failures: what  *)
(* CURRENT names is complete, and tables return what they were given while *)
(* blocks are copied and moved between their atoms.                        *)
(***************************************************************************)
EXTENDS QuarkStorage, FiniteSetTheorems, TLAPS

-----------------------------------------------------------------------------
(* The manifest *)

Persisting == {"manifest", "write", "point"}

\* While a manifest is written its atom comes after that of CURRENT, and it is
\* complete before CURRENT is written.
PointInv ==
    /\ manifestCtr \in Nat /\ DOMAIN manifests \subseteq Nat
    /\ current = None \/ current \in Nat
    /\ pc \in {"write", "point"} => NewManifest \in DOMAIN manifests
    /\ pc = "point" => manifests[NewManifest] = inMemory
    /\ "open" \notin failures =>
         /\ IF current = None THEN pointed = {}
            ELSE current \in DOMAIN manifests /\ manifests[current] = pointed
         /\ pc # "down" /\ current # None =>
              /\ current < manifestCtr
              /\ pc \in {"write", "point"} => current < NewManifest
    /\ "current" \notin failures => persisted = pointed

-----------------------------------------------------------------------------
(* The tables *)

Blocks == KV \cup {Hole, Meta}
IsTable(s) ==
    /\ DOMAIN s = {"id", "index", "size", "kvs"}
    /\ s.id \in Nat /\ s.size \in Nat /\ s.kvs \subseteq KV
    /\ s.index \in [KeysOf(s.kvs) -> Nat]

Writing == pc \in {"flush", "merge"}

QuarkTypeOK ==
    /\ engine \in Engines
    /\ DOMAIN atoms \subseteq Nat
    /\ \A a \in DOMAIN atoms : atoms[a] \in Seq(Blocks)
    /\ \A s \in live \cup {building} : IsTable(s)
    /\ victims \subseteq live
    /\ todo \subseteq KV
    /\ ctr \in Nat /\ clock \in Nat /\ sessions \in Nat

\* Tables have different ids, which the counter has passed, and atoms of their own.
IdsInv ==
    /\ \A s \in live : s.id < ctr /\ s.id \in DOMAIN atoms
    /\ \A s, t \in live : s.id = t.id => s = t
    /\ Writing => /\ building.id < ctr /\ building.id \in DOMAIN atoms
                  /\ \A s \in live : s.id # building.id

\* The versions still to be written have different keys, which the table being
\* written does not have yet.
TodoInv ==
    Writing => /\ \A p, q \in todo : p.key = q.key => p = q
               /\ \A p \in todo, q \in building.kvs : p.key # q.key

\* The offsets of a table's versions are within its atom.
Fits(s) ==
    /\ \A p \in s.kvs : s.index[p.key] < s.size
    /\ IsFiniteSet(s.kvs) /\ s.size = Cardinality(s.kvs)
Stored(s) == s.size <= Len(atoms[s.id])
FitsInv ==
    /\ \A s \in live : Fits(s) /\ Stored(s)
    /\ Fits(building)
    /\ Writing => Stored(building)

\* In the first session of the engine that moves blocks a new atom is empty: every
\* atom has an id the counter has passed, and the one being written to ends where the
\* table takes it to end.
EmptyInv ==
    /\ sessions = 0 => pc = "down" /\ atoms = <<>>
    /\ sessions = 1 /\ pc # "down" => \A a \in DOMAIN atoms : a < ctr
    /\ sessions = 1 /\ engine = "QUARKSTORE_APPEND" /\ Writing => Len(atoms[building.id]) = building.size

\* A merge has inputs until they are removed. Those of one that has failed stay; when it
\* was a removal that failed, next to the last table written.
VictimsInv ==
    /\ pc = "down" => live = {} /\ victims = {} /\ building.kvs = {}
    /\ closing => pc \in Persisting
    /\ victims # {} => \/ pc = "merge"
                       \/ /\ pc = "failed" \/ closing
                          /\ "merge" \in failures \/ building \in live \ victims

\* Tables that are not inputs are intact, and so are the inputs of a merge that copies.
TablesInv ==
    Sound => /\ \A s \in IF engine = "QUARKSTORE" THEN live ELSE live \ victims : ReadsBack(s)
             /\ ReadsBack(building)

\* The versions of the inputs are where they were, or in an output.
MovedInv ==
    Sound =>
        /\ pc = "merge" =>
             \A p \in todo : /\ \E s \in victims : p \in s.kvs
                             /\ \A s \in victims : p \in s.kvs => Block(s, p.key) = p
        /\ \A s \in victims : \A p \in s.kvs :
             \/ Block(s, p.key) = p
             \/ p \in building.kvs
             \/ \E t \in live \ victims : p \in t.kvs

QuarkInv ==
    /\ QuarkTypeOK /\ IdsInv /\ TodoInv /\ FitsInv /\ EmptyInv /\ VictimsInv /\ TablesInv /\ MovedInv

-----------------------------------------------------------------------------
(* CURRENT *)

\* The steps of a flush or a merge leave the manifests alone.
LEMMA PointTables ==
    ASSUME PointInv,
           \/ \E keys \in SUBSET Keys : Flush(keys)
           \/ AddKV \/ FlushSST \/ StartMerge \/ MergeKV \/ FinishSST \/ WriteFails \/ RemoveFails
    PROVE  PointInv'
<1>1. /\ UNCHANGED <<manifests, current, manifestCtr, persisted, pointed>>
      /\ failures \subseteq failures'
      /\ pc # "down" /\ pc' \notin {"write", "point"}
  <2>1. CASE (\E keys \in SUBSET Keys : Flush(keys)) \/ AddKV \/ FlushSST \/ StartMerge
    BY <2>1 DEF Flush, AddKV, FlushSST, StartMerge, manifest, history
  <2>2. CASE MergeKV \/ FinishSST \/ WriteFails \/ RemoveFails
    BY <2>2 DEF MergeKV, FinishSST, WriteFails, RemoveFails, Fault, storage, tree, manifest, history
  <2> QED
    BY <2>1, <2>2
<1> QED
  BY <1>1 DEF PointInv

\* createNewManifest goes on from CURRENT's id.
LEMMA PointCreate ==
    ASSUME PointInv, CreateManifest
    PROVE  PointInv'
<1>1. /\ pc = "manifest" /\ pc' = "write" /\ manifestCtr' = manifestCtr + 1
      /\ manifests' = AtomGet(manifests, manifestCtr, None)
      /\ UNCHANGED <<current, persisted, pointed, failures>>
  BY DEF CreateManifest, tree, history
<1>2. /\ DOMAIN manifests' = DOMAIN manifests \cup {manifestCtr}
      /\ \A a \in DOMAIN manifests : manifests'[a] = manifests[a]
  BY <1>1 DEF AtomGet
<1>3. manifestCtr' \in Nat /\ NewManifest' = manifestCtr
  BY <1>1 DEF PointInv, NewManifest
<1> QED
  BY <1>1, <1>2, <1>3 DEF PointInv

\* The manifest is written, then CURRENT.
LEMMA PointWrite ==
    ASSUME PointInv, WriteManifest
    PROVE  PointInv'
<1>1. /\ pc = "write" /\ pc' = "point"
      /\ manifests' = [manifests EXCEPT ![NewManifest] = inMemory]
      /\ UNCHANGED <<current, inMemory, manifestCtr, persisted, pointed, failures>>
  BY DEF WriteManifest, tree, manifest, history
<1>2. NewManifest' = NewManifest /\ NewManifest \in DOMAIN manifests
  BY <1>1 DEF NewManifest, PointInv
<1>3. /\ DOMAIN manifests' = DOMAIN manifests
      /\ manifests'[NewManifest] = inMemory
      /\ \A a \in DOMAIN manifests : a # NewManifest => manifests'[a] = manifests[a]
  BY <1>1, <1>2
<1>4. "open" \notin failures /\ current # None => current # NewManifest
  BY <1>1, <1>2 DEF PointInv
<1> QED
  BY <1>1, <1>2, <1>3, <1>4 DEF PointInv

\* What Persist does when it returns.
LEMMA PersistEnds ==
    ASSUME PointInv, NEW where, PersistReturns(where)
    PROVE  /\ pc' \in {"down", where} /\ manifestCtr' \in Nat
           /\ pc' # "down" => manifestCtr' = manifestCtr
BY DEF PersistReturns, MemoryLost, manifest, PointInv

LEMMA PointCurrentStep ==
    ASSUME PointInv, PointCurrent
    PROVE  PointInv'
<1>1. /\ pc = "point" /\ current' = NewManifest /\ persisted' = inMemory /\ pointed' = inMemory
      /\ UNCHANGED <<manifests, failures>> /\ PersistReturns("idle")
  BY DEF PointCurrent
<1>2. /\ NewManifest \in DOMAIN manifests /\ manifests[NewManifest] = inMemory
      /\ NewManifest \in Nat /\ NewManifest # None
  BY <1>1, QuarkAssumption DEF PointInv
<1>3. NewManifest < manifestCtr
  BY DEF PointInv, NewManifest
<1>4. /\ pc' \in {"down", "idle"} /\ manifestCtr' \in Nat
      /\ pc' # "down" => manifestCtr' = manifestCtr
  BY <1>1, PersistEnds
<1> QED
  BY <1>1, <1>2, <1>3, <1>4 DEF PointInv

\* A failure leaves the atoms as they are.
LEMMA PointFails ==
    ASSUME PointInv, PersistFails \/ CurrentFails \/ OpenUnread \/ OpenFails \/ PointUnopened
    PROVE  PointInv'
<1>1. CASE PersistFails
  <2>1. /\ UNCHANGED <<manifests, current, persisted, pointed>>
        /\ failures \subseteq failures' /\ pc # "down" /\ pc' \in {"down", "failed"}
        /\ manifestCtr' \in {0, manifestCtr, manifestCtr + 1}
        /\ pc' = "failed" => manifestCtr' # 0 \/ manifestCtr = 0
    BY <1>1 DEF PersistFails, Fault, MemoryLost, storage, PointInv
  <2>2. pc' = "failed" => manifestCtr' >= manifestCtr
    BY <2>1 DEF PointInv
  <2> QED
    BY <2>1, <2>2 DEF PointInv
<1>2. CASE CurrentFails
  <2>1. /\ UNCHANGED <<manifests, current, pointed>>
        /\ failures' = failures \cup {"current"} /\ pc # "down"
        /\ PersistReturns("idle") \/ PersistReturns("failed")
    BY <1>2 DEF CurrentFails, Fault, storage
  <2>2. /\ pc' \in {"down", "idle", "failed"} /\ manifestCtr' \in Nat
        /\ pc' # "down" => manifestCtr' = manifestCtr
    BY <2>1, PersistEnds
  <2> QED
    BY <2>1, <2>2 DEF PointInv
<1>3. CASE OpenUnread \/ OpenFails
  <2>1. /\ UNCHANGED <<manifests, current, persisted, pointed>>
        /\ failures' = failures \cup {"open"} /\ pc' = "idle" /\ manifestCtr' \in {0, manifestCtr}
    BY <1>3 DEF OpenUnread, OpenFails, Fault, storage, manifest
  <2> QED
    BY <2>1 DEF PointInv
<1>4. CASE PointUnopened
  <2>1. /\ UNCHANGED <<manifests, current, persisted, pointed, failures>>
        /\ pc # "down" /\ PersistReturns("failed")
    BY <1>4 DEF PointUnopened, storage, history
  <2>2. /\ pc' \in {"down", "failed"} /\ manifestCtr' \in Nat
        /\ pc' # "down" => manifestCtr' = manifestCtr
    BY <2>1, PersistEnds
  <2> QED
    BY <2>1, <2>2 DEF PointInv
<1> QED
  BY <1>1, <1>2, <1>3, <1>4

\* A process comes or goes.
LEMMA PointSession ==
    ASSUME PointInv, Open \/ Close \/ Crash \/ Rest \/ UNCHANGED vars
    PROVE  PointInv'
<1>1. UNCHANGED <<manifests, current, persisted, pointed, failures>>
  BY DEF Open, Close, Crash, Rest, vars, storage, history
<1>2. CASE Open
  <2>1. pc' = "idle" /\ manifestCtr' = IF current = None THEN 0 ELSE current + 1
    BY <1>2 DEF Open, CounterAfterCurrent
  <2> QED
    BY <1>1, <2>1 DEF PointInv
<1>3. CASE Close
  <2>1. pc # "down" /\ pc' = "manifest" /\ manifestCtr' = manifestCtr
    BY <1>3 DEF Close, manifest
  <2> QED
    BY <1>1, <2>1 DEF PointInv
<1>4. CASE Crash
  <2>1. pc' = "down" /\ manifestCtr' = 0
    BY <1>4 DEF Crash, MemoryLost
  <2> QED
    BY <1>1, <2>1 DEF PointInv
<1>5. CASE Rest \/ UNCHANGED vars
  BY <1>5 DEF Rest, vars, storage, history, tree, manifest, PointInv, NewManifest
<1> QED
  BY <1>2, <1>3, <1>4, <1>5

\* Wherever a process dies and whatever call of a Put or Close fails, ManifestQuark writes
\* new manifests to atoms past the one CURRENT names, until an Open fails or cannot read
\* CURRENT.
THEOREM PointInvariant == Spec => []PointInv
<1>1. Init => PointInv
  BY DEF Init, PointInv
<1>2. PointInv /\ [Next]_vars => PointInv'
  <2> SUFFICES ASSUME PointInv, [Next]_vars
               PROVE  PointInv'
    OBVIOUS
  <2>1. \/ \E keys \in SUBSET Keys : Flush(keys)
        \/ AddKV \/ FlushSST \/ StartMerge \/ MergeKV \/ FinishSST \/ WriteFails \/ RemoveFails
        \/ CreateManifest \/ WriteManifest \/ PointCurrent
        \/ PersistFails \/ CurrentFails \/ OpenUnread \/ OpenFails \/ PointUnopened
        \/ Open \/ Close \/ Crash \/ Rest \/ UNCHANGED vars
    BY DEF Next, Fails
  <2> QED
    BY <2>1, PointTables, PointCreate, PointWrite, PointCurrentStep, PointFails, PointSession
<1> QED
  BY <1>1, <1>2, PTL DEF Spec

\* Whenever the process dies, CURRENT names a manifest with the content it had when
\* CURRENT was written, unless Open failed or could not read CURRENT, and it is what the last
\* Persist that returned success has written, unless a write of CURRENT failed.
THEOREM CurrentIsComplete == Spec => []CurrentComplete
<1>1. PointInv => CurrentComplete
  BY DEF PointInv, CurrentComplete
<1> QED
  BY <1>1, PointInvariant, PTL

-----------------------------------------------------------------------------
(* Atoms *)

\* AtomWrite replaces the block at its offset, or adds it.
LEMMA WrittenAtom ==
    ASSUME NEW S, NEW blocks \in Seq(S), NEW offset \in Nat, offset <= Len(blocks), NEW block \in S,
           NEW to, to = AtomWrite(blocks, offset, block)
    PROVE  /\ to \in Seq(S)
           /\ Len(to) = IF offset < Len(blocks) THEN Len(blocks) ELSE Len(blocks) + 1
           /\ to[offset + 1] = block
           /\ \A i \in 1 .. Len(blocks) : i # offset + 1 => to[i] = blocks[i]
<1>1. CASE offset < Len(blocks)
  BY <1>1 DEF AtomWrite
<1>2. CASE ~ offset < Len(blocks)
  <2>1. offset = Len(blocks)
    BY <1>2
  <2> QED
    BY <1>2, <2>1 DEF AtomWrite
<1> QED
  BY <1>1, <1>2

\* Persist leaves the blocks of the table it ends as they are, and all other atoms.
LEMMA PersistedAtoms ==
    ASSUME QuarkTypeOK, building.id \in DOMAIN atoms, Stored(building)
    PROVE  /\ DOMAIN Persisted = DOMAIN atoms
           /\ \A a \in DOMAIN atoms : Persisted[a] \in Seq(Blocks)
           /\ \A a \in DOMAIN atoms : a # building.id => Persisted[a] = atoms[a]
           /\ building.size <= Len(Persisted[building.id])
           /\ \A i \in 1 .. building.size : Persisted[building.id][i] = atoms[building.id][i]
<1> DEFINE n    == building.size
           old  == atoms[building.id]
           once == AtomWrite(old, n, Meta)
           next == n + 1
           new  == AtomWrite(once, next, Meta)
<1>1. n \in Nat /\ old \in Seq(Blocks) /\ n <= Len(old) /\ Meta \in Blocks
  BY DEF QuarkTypeOK, IsTable, Stored, Blocks
<1>4. Persisted = [atoms EXCEPT ![building.id] = new]
  BY DEF Persisted
<1>9. once = AtomWrite(old, n, Meta) /\ new = AtomWrite(once, next, Meta) /\ next = n + 1
  OBVIOUS
<1> HIDE DEF n, old, once, next, new
<1>2. /\ once \in Seq(Blocks)
      /\ Len(once) = IF n < Len(old) THEN Len(old) ELSE Len(old) + 1
      /\ \A i \in 1 .. Len(old) : i # n + 1 => once[i] = old[i]
  <2>1. once \in Seq(Blocks)
    BY <1>1, <1>9, WrittenAtom
  <2>2. Len(once) = IF n < Len(old) THEN Len(old) ELSE Len(old) + 1
    BY <1>1, <1>9, WrittenAtom
  <2>3. \A i \in 1 .. Len(old) : i # n + 1 => once[i] = old[i]
    BY <1>1, <1>9, WrittenAtom
  <2> QED
    BY <2>1, <2>2, <2>3
<1>3. Len(once) \in Nat /\ next \in Nat /\ next <= Len(once) /\ Len(old) \in Nat /\ Len(old) <= Len(once)
  BY <1>1, <1>2, <1>9
<1>10. once \in Seq(Blocks) /\ next \in Nat /\ next <= Len(once) /\ Meta \in Blocks
  BY <1>1, <1>2, <1>3
<1>5. /\ new \in Seq(Blocks)
      /\ Len(new) = IF next < Len(once) THEN Len(once) ELSE Len(once) + 1
      /\ \A i \in 1 .. Len(once) : i # next + 1 => new[i] = once[i]
  <2>1. new \in Seq(Blocks)
    BY <1>9, <1>10, WrittenAtom
  <2>2. Len(new) = IF next < Len(once) THEN Len(once) ELSE Len(once) + 1
    BY <1>9, <1>10, WrittenAtom
  <2>3. \A i \in 1 .. Len(once) : i # next + 1 => new[i] = once[i]
    BY <1>9, <1>10, WrittenAtom
  <2> QED
    BY <1>1, <2>1, <2>2, <2>3
<1>6. n <= Len(new)
  BY <1>1, <1>3, <1>5, <1>9
<1>7. \A i \in 1 .. n : new[i] = old[i]
  BY <1>1, <1>2, <1>3, <1>5, <1>9
<1>8. /\ DOMAIN Persisted = DOMAIN atoms
      /\ \A a \in DOMAIN atoms : Persisted[a] = IF a = building.id THEN new ELSE atoms[a]
  BY <1>4
<1> QED
  BY <1>5, <1>6, <1>7, <1>8 DEF QuarkTypeOK, n, old

\* A new table gets the atom of the next id, which keeps its blocks if it has any.
LEMMA NewTable ==
    ASSUME ctr \in Nat, NEW store, NewEmptySST(store)
    PROVE  /\ DOMAIN atoms' = DOMAIN store \cup {ctr}
           /\ \A a \in DOMAIN store : atoms'[a] = store[a]
           /\ ctr \notin DOMAIN store => atoms'[ctr] = <<>>
           /\ building'.id = ctr /\ building'.size = 0 /\ building'.kvs = {}
           /\ IsTable(building') /\ Fits(building') /\ ctr' = ctr + 1
<1>1. /\ atoms' = AtomGet(store, ctr, <<>>)
      /\ building' = [id |-> ctr, index |-> <<>>, size |-> 0, kvs |-> {}]
      /\ ctr' = ctr + 1
  BY DEF NewEmptySST, EmptySST
<1>2. /\ DOMAIN atoms' = DOMAIN store \cup {ctr}
      /\ \A a \in DOMAIN store : atoms'[a] = store[a]
      /\ ctr \notin DOMAIN store => atoms'[ctr] = <<>>
  BY <1>1 DEF AtomGet
<1>3. <<>> \in [{} -> Nat] /\ KeysOf({}) = {}
  BY DEF KeysOf
<1>4. IsTable(building')
  BY <1>1, <1>3 DEF IsTable
<1>5. IsFiniteSet({}) /\ Cardinality({}) = 0
  BY FS_EmptySet
<1>6. Fits(building')
  BY <1>1, <1>5 DEF Fits
<1> QED
  BY <1>1, <1>2, <1>4, <1>6

\* A table with one version more.
LEMMA AddedTable ==
    ASSUME IsTable(building), Fits(building), NEW p \in KV,
           \A q \in building.kvs : p.key # q.key
    PROVE  LET b == Added(p)
           IN /\ b.id = building.id /\ b.size = building.size + 1 /\ b.kvs = building.kvs \cup {p}
              /\ b.index[p.key] = building.size
              /\ \A q \in building.kvs : b.index[q.key] = building.index[q.key]
              /\ IsTable(b) /\ Fits(b)
<1> DEFINE b == Added(p)
<1>1. /\ DOMAIN building = {"id", "index", "size", "kvs"}
      /\ building.id \in Nat /\ building.size \in Nat /\ building.kvs \subseteq KV
      /\ building.index \in [KeysOf(building.kvs) -> Nat]
      /\ building.size = Cardinality(building.kvs)
  BY DEF IsTable, Fits
<1>2. /\ DOMAIN b = {"id", "index", "size", "kvs"}
      /\ b.id = building.id /\ b.index = Indexed(p) /\ b.size = building.size + 1
      /\ b.kvs = building.kvs \cup {p}
  BY <1>1 DEF Added
<1> HIDE DEF b
<1>3. Indexed(p) = [k \in KeysOf(building.kvs) \cup {p.key} |->
                      IF k = p.key THEN building.size ELSE building.index[k]]
  BY <1>1 DEF Indexed
<1>4. KeysOf(building.kvs \cup {p}) = KeysOf(building.kvs) \cup {p.key}
  BY DEF KeysOf
<1>5. Indexed(p) \in [KeysOf(building.kvs \cup {p}) -> Nat]
  BY <1>1, <1>3, <1>4
<1>6. /\ Indexed(p)[p.key] = building.size
      /\ \A q \in building.kvs : Indexed(p)[q.key] = building.index[q.key]
  BY <1>3 DEF KeysOf
<1>7. p \notin building.kvs
  OBVIOUS
<1>8. /\ IsFiniteSet(building.kvs \cup {p})
      /\ Cardinality(building.kvs \cup {p}) = Cardinality(building.kvs) + 1
  BY <1>7, FS_AddElement DEF Fits
<1>9. IsTable(b)
  <2>1. b.id \in Nat /\ b.size \in Nat /\ b.kvs \subseteq KV
    BY <1>1, <1>2
  <2>2. b.index \in [KeysOf(b.kvs) -> Nat]
    BY <1>2, <1>5
  <2> QED
    BY <1>2, <2>1, <2>2 DEF IsTable
<1>10. Fits(b)
  <2>1. \A q \in building.kvs : building.index[q.key] < building.size /\ building.index[q.key] \in Nat
    BY <1>1 DEF Fits, KeysOf
  <2>2. \A q \in building.kvs \cup {p} : Indexed(p)[q.key] < building.size + 1
    BY <1>1, <1>6, <2>1
  <2> QED
    BY <1>1, <1>2, <1>8, <2>2 DEF Fits
<1> QED
  BY <1>2, <1>6, <1>9, <1>10 DEF b

\* A table reads back as long as its atom is not written to,
LEMMA ReadsSame ==
    ASSUME NEW s, ReadsBack(s), atoms'[s.id] = atoms[s.id]
    PROVE  ReadsBack(s)'
BY DEF ReadsBack, Block, AtomRead

\* or only beyond its versions.
LEMMA ReadsPrefix ==
    ASSUME NEW s, IsTable(s), Fits(s), ReadsBack(s),
           \A i \in 1 .. s.size : atoms'[s.id][i] = atoms[s.id][i]
    PROVE  ReadsBack(s)'
<1>1. ASSUME NEW p \in s.kvs
      PROVE  s.index[p.key] + 1 \in 1 .. s.size
  <2>1. s.index[p.key] \in Nat /\ s.size \in Nat /\ s.index[p.key] < s.size
    BY DEF IsTable, Fits, KeysOf
  <2> QED
    BY <2>1
<1> QED
  BY <1>1 DEF ReadsBack, Block, AtomRead

\* The version a table has been given is read back if it is in the block that follows.
LEMMA ReadsAdded ==
    ASSUME IsTable(building), Fits(building), ReadsBack(building), NEW p \in KV,
           \A q \in building.kvs : p.key # q.key,
           building' = Added(p),
           \A i \in 1 .. building.size : atoms'[building.id][i] = atoms[building.id][i],
           atoms'[building.id][building.size + 1] = p
    PROVE  ReadsBack(building)'
<1>1. /\ building'.id = building.id /\ building'.kvs = building.kvs \cup {p}
      /\ building'.index[p.key] = building.size
      /\ \A q \in building.kvs : building'.index[q.key] = building.index[q.key]
  BY AddedTable
<1>2. ASSUME NEW q \in building.kvs
      PROVE  atoms'[building.id][building.index[q.key] + 1] = q
  <2>1. /\ building.index[q.key] \in Nat /\ building.size \in Nat
        /\ building.index[q.key] < building.size
    BY DEF IsTable, Fits, KeysOf
  <2>2. building.index[q.key] + 1 \in 1 .. building.size
    BY <2>1
  <2> QED
    BY <2>2 DEF ReadsBack, Block, AtomRead
<1> QED
  BY <1>1, <1>2 DEF ReadsBack, Block, AtomRead

\* The block of a table's version is within its atom.
LEMMA BlockThere ==
    ASSUME QuarkTypeOK, IdsInv, FitsInv, NEW s \in live, NEW p \in s.kvs
    PROVE  /\ s.id \in DOMAIN atoms /\ atoms[s.id] \in Seq(Blocks)
           /\ s.index[p.key] \in Nat /\ s.index[p.key] + 1 \in 1 .. Len(atoms[s.id])
           /\ Block(s, p.key) \in Blocks
<1>1. s.id \in DOMAIN atoms /\ atoms[s.id] \in Seq(Blocks)
  BY DEF QuarkTypeOK, IdsInv
<1>2. /\ s.index[p.key] \in Nat /\ s.index[p.key] < s.size
      /\ s.size \in Nat /\ s.size <= Len(atoms[s.id])
  BY DEF QuarkTypeOK, FitsInv, IsTable, Fits, Stored, KeysOf
<1>3. s.index[p.key] + 1 \in 1 .. Len(atoms[s.id])
  BY <1>1, <1>2
<1>4. Block(s, p.key) \in Blocks
  BY <1>1, <1>3 DEF Block, AtomRead
<1> QED
  BY <1>1, <1>2, <1>3, <1>4

-----------------------------------------------------------------------------
(* Steps that leave the tables as they are *)

\* A step within a process that writes to no table.
LEMMA QuarkSame ==
    ASSUME QuarkInv, UNCHANGED <<engine, atoms, live, building, victims, todo, ctr, clock, sessions>>,
           pc # "down", pc' \notin {"down", "flush", "merge"}, VictimsInv'
    PROVE  QuarkInv'
<1> USE DEF QuarkInv
<1>1. QuarkTypeOK' /\ IdsInv' /\ TodoInv'
  BY DEF QuarkTypeOK, IsTable, IdsInv, TodoInv, Writing
<1>2. FitsInv' /\ EmptyInv'
  BY DEF FitsInv, Fits, Stored, EmptyInv, Writing
<1>3. Sound' = Sound
  BY DEF Sound
<1>4. TablesInv'
  BY <1>3 DEF TablesInv, ReadsBack, Block, AtomRead
<1>5. MovedInv'
  BY <1>3 DEF MovedInv, Block, AtomRead
<1> QED
  BY <1>1, <1>2, <1>4, <1>5

\* The process ends.
LEMMA QuarkDown ==
    ASSUME QuarkInv, MemoryLost, UNCHANGED <<engine, atoms, clock, sessions>>, pc # "down", pc' = "down"
    PROVE  QuarkInv'
<1> USE DEF QuarkInv
<1>1. /\ live' = {} /\ victims' = {} /\ todo' = {} /\ ctr' = 0 /\ closing' = FALSE
      /\ building' = [id |-> 0, index |-> <<>>, size |-> 0, kvs |-> {}]
  BY DEF MemoryLost, EmptySST
<1>2. <<>> \in [{} -> Nat] /\ KeysOf({}) = {} /\ IsFiniteSet({}) /\ Cardinality({}) = 0
  BY FS_EmptySet DEF KeysOf
<1>3. IsTable(building') /\ Fits(building')
  BY <1>1, <1>2 DEF IsTable, Fits
<1>4. QuarkTypeOK'
  BY <1>1, <1>3 DEF QuarkTypeOK
<1>5. IdsInv' /\ TodoInv' /\ FitsInv'
  BY <1>1, <1>3 DEF IdsInv, TodoInv, FitsInv, Writing
<1>6. EmptyInv' /\ VictimsInv'
  BY <1>1 DEF EmptyInv, VictimsInv, Writing
<1>7. TablesInv' /\ MovedInv'
  BY <1>1 DEF TablesInv, MovedInv, ReadsBack
<1> QED
  BY <1>4, <1>5, <1>6, <1>7

\* A process begins.
LEMMA QuarkOpens ==
    ASSUME QuarkInv, Open \/ OpenUnread \/ OpenFails
    PROVE  QuarkInv'
<1> USE DEF QuarkInv
<1>1. /\ pc = "down" /\ pc' = "idle" /\ sessions' = sessions + 1
      /\ UNCHANGED <<engine, atoms, tree, clock, closing>>
  BY DEF Open, OpenUnread, OpenFails, storage, history
<1>2. UNCHANGED <<live, building, victims, todo, ctr>>
  BY <1>1 DEF tree
<1>3. live = {} /\ victims = {} /\ building.kvs = {} /\ closing # TRUE
  BY <1>1 DEF VictimsInv, Persisting
<1>4. QuarkTypeOK' /\ IdsInv' /\ TodoInv'
  BY <1>1, <1>2 DEF QuarkTypeOK, IsTable, IdsInv, TodoInv, Writing
<1>5. FitsInv'
  BY <1>1, <1>2, <1>3 DEF FitsInv, Fits, Writing
<1>6. EmptyInv'
  <2>1. sessions' # 0 /\ (sessions' = 1 => sessions = 0)
    BY <1>1 DEF QuarkTypeOK
  <2>2. sessions = 0 => DOMAIN atoms = {}
    BY DEF EmptyInv
  <2> QED
    BY <1>1, <2>1, <2>2 DEF EmptyInv, Writing
<1>7. VictimsInv'
  BY <1>1, <1>2, <1>3 DEF VictimsInv
<1>8. TablesInv' /\ MovedInv'
  BY <1>1, <1>2, <1>3 DEF TablesInv, MovedInv, ReadsBack
<1> QED
  BY <1>4, <1>5, <1>6, <1>7, <1>8

\* Steps of the manifest, failures, and what is neither.
LEMMA QuarkManifest ==
    ASSUME QuarkInv, \/ CreateManifest \/ WriteManifest \/ PointCurrent \/ Close \/ Crash
                     \/ WriteFails \/ PersistFails \/ CurrentFails \/ PointUnopened
    PROVE  QuarkInv'
<1>1. pc # "down" /\ UNCHANGED <<engine, atoms, clock, sessions>>
  BY DEF CreateManifest, WriteManifest, PointCurrent, Close, Crash, WriteFails, PersistFails,
         CurrentFails, PointUnopened, storage, history
<1>2. ASSUME pc' = "down", MemoryLost
      PROVE  QuarkInv'
  BY <1>1, <1>2, QuarkDown
<1>3. ASSUME UNCHANGED tree, pc' \notin {"down", "flush", "merge"}, VictimsInv'
      PROVE  QuarkInv'
  BY <1>1, <1>3, QuarkSame DEF tree
<1>4. VictimsInv
  BY DEF QuarkInv
<1>5. CASE CreateManifest \/ WriteManifest \/ Close
  <2>1. /\ UNCHANGED <<tree, failures>> /\ pc' \in Persisting
        /\ closing' = closing \/ closing' = TRUE
        /\ pc \in Persisting \/ (closing' = TRUE /\ pc \in {"idle", "failed"})
    BY <1>5 DEF CreateManifest, WriteManifest, Close, history, Persisting
  <2>2. VictimsInv'
    BY <1>4, <2>1 DEF VictimsInv, Persisting, tree
  <2>3. pc' \notin {"down", "flush", "merge"}
    BY <2>1 DEF Persisting
  <2> QED
    BY <1>3, <2>1, <2>2, <2>3
<1>6. CASE PointCurrent \/ CurrentFails \/ PointUnopened
  <2>1. /\ pc = "point" /\ (PersistReturns("idle") \/ PersistReturns("failed"))
        /\ failures \subseteq failures'
    BY <1>6 DEF PointCurrent, CurrentFails, PointUnopened, Fault, history
  <2>2. CASE pc' = "down" /\ MemoryLost
    BY <1>2, <2>2
  <2>3. CASE ~ closing /\ pc' \in {"idle", "failed"} /\ UNCHANGED <<tree, closing>>
    <3>1. pc = "point"
      BY <1>6 DEF PointCurrent, CurrentFails, PointUnopened
    <3>2. VictimsInv'
      BY <1>4, <2>3, <3>1 DEF VictimsInv, tree
    <3> QED
      BY <1>3, <2>3, <3>2
  <2> QED
    BY <2>1, <2>2, <2>3 DEF PersistReturns
<1>7. CASE Crash
  BY <1>2, <1>7 DEF Crash
<1>8. CASE WriteFails
  <2>1. /\ pc \in {"flush", "merge"} /\ pc' = "failed" /\ UNCHANGED <<tree, closing>>
        /\ failures' = failures \cup {pc}
    BY <1>8 DEF WriteFails, Fault
  <2>2. VictimsInv'
    BY <1>4, <2>1 DEF VictimsInv, Persisting, tree
  <2> QED
    BY <1>3, <2>1, <2>2
<1>9. CASE PersistFails
  <2>1. CASE pc' = "down" /\ MemoryLost
    BY <1>2, <2>1
  <2>2. CASE ~ closing /\ pc' = "failed" /\ UNCHANGED <<tree, closing>>
    <3>1. pc \in {"manifest", "write"} /\ failures \subseteq failures'
      BY <1>9 DEF PersistFails, Fault
    <3>2. VictimsInv'
      BY <1>4, <2>2, <3>1 DEF VictimsInv, tree
    <3> QED
      BY <1>3, <2>2, <3>2
  <2> QED
    BY <1>9, <2>1, <2>2 DEF PersistFails
<1> QED
  BY <1>5, <1>6, <1>7, <1>8, <1>9

-----------------------------------------------------------------------------
(* Flushes *)

\* A new table, in an atom of its own, and new versions to write to it. Nothing that
\* the tables have is touched.
LEMMA QuarkFlush ==
    ASSUME QuarkInv, NEW keys \in SUBSET Keys, Flush(keys)
    PROVE  QuarkInv'
<1> USE DEF QuarkInv
<1>1. /\ pc = "idle" /\ pc' = "flush" /\ NewEmptySST(atoms)
      /\ todo' = {[key |-> k, ts |-> clock] : k \in keys} /\ clock' = clock + 1
      /\ UNCHANGED <<engine, live, victims, closing, sessions, failures>>
  BY DEF Flush
<1>2. ctr \in Nat
  BY DEF QuarkTypeOK
<1>3. /\ DOMAIN atoms' = DOMAIN atoms \cup {ctr}
      /\ \A a \in DOMAIN atoms : atoms'[a] = atoms[a]
      /\ ctr \notin DOMAIN atoms => atoms'[ctr] = <<>>
      /\ building'.id = ctr /\ building'.size = 0 /\ building'.kvs = {}
      /\ IsTable(building') /\ Fits(building') /\ ctr' = ctr + 1
  BY <1>1, <1>2, NewTable
<1>4. \A s \in live : s.id \in DOMAIN atoms /\ s.id # ctr /\ atoms'[s.id] = atoms[s.id]
  BY <1>2, <1>3 DEF IdsInv, QuarkTypeOK, IsTable
<1>5. QuarkTypeOK'
  <2>1. todo' \subseteq KV
    BY <1>1 DEF KV, QuarkTypeOK
  <2>2. ASSUME NEW a \in DOMAIN atoms'
        PROVE  atoms'[a] \in Seq(Blocks)
    <3>1. <<>> \in Seq(Blocks)
      OBVIOUS
    <3>2. CASE a \in DOMAIN atoms
      BY <1>3, <3>2 DEF QuarkTypeOK
    <3>3. CASE a \notin DOMAIN atoms
      BY <1>3, <3>1, <3>3
    <3> QED
      BY <3>2, <3>3
  <2>3. /\ DOMAIN atoms' \subseteq Nat /\ victims' \subseteq live' /\ engine' \in Engines
        /\ ctr' \in Nat /\ clock' \in Nat /\ sessions' \in Nat
    BY <1>1, <1>3 DEF QuarkTypeOK
  <2>4. \A s \in live' \cup {building'} : IsTable(s)'
    BY <1>1, <1>3 DEF QuarkTypeOK, IsTable
  <2> QED
    BY <2>1, <2>2, <2>3, <2>4 DEF QuarkTypeOK
<1>6. IdsInv'
  BY <1>1, <1>2, <1>3, <1>4 DEF IdsInv, QuarkTypeOK, IsTable
<1>7. TodoInv'
  BY <1>1, <1>3 DEF TodoInv
<1>8. FitsInv'
  <2>1. Len(atoms'[ctr]) \in Nat
    BY <1>3, <1>5 DEF QuarkTypeOK
  <2>2. Stored(building)'
    BY <1>3, <2>1 DEF Stored
  <2>3. \A s \in live : Fits(s)' /\ Stored(s)'
    BY <1>4 DEF FitsInv, Fits, Stored
  <2>4. Fits(building)'
    BY <1>3 DEF Fits
  <2> QED
    BY <1>1, <2>2, <2>3, <2>4 DEF FitsInv
<1>9. EmptyInv'
  BY <1>1, <1>2, <1>3 DEF EmptyInv, QuarkTypeOK
<1>10. VictimsInv' /\ victims = {}
  BY <1>1 DEF VictimsInv, Persisting
<1>11. TablesInv' /\ MovedInv'
  <2>1. Sound' = Sound
    BY <1>1 DEF Sound
  <2>2. ASSUME Sound, NEW s \in IF engine = "QUARKSTORE" THEN live ELSE live \ victims
        PROVE  ReadsBack(s)'
    <3>1. s \in live /\ ReadsBack(s)
      BY <2>2 DEF TablesInv
    <3> QED
      BY <1>4, <3>1, ReadsSame
  <2>3. ReadsBack(building)'
    BY <1>3 DEF ReadsBack
  <2> QED
    BY <1>1, <1>10, <2>1, <2>2, <2>3 DEF TablesInv, MovedInv
<1> QED
  BY <1>5, <1>6, <1>7, <1>8, <1>9, <1>10, <1>11

\* A version more in the table being written, and one less to write, wherever its
\* block comes from: all but what is in the blocks.
LEMMA QuarkAdds ==
    ASSUME QuarkInv, Writing, NEW p \in todo,
           building' = Added(p), todo' = todo \ {p},
           UNCHANGED <<engine, live, victims, ctr, clock, sessions, pc, closing, failures>>,
           DOMAIN atoms' = DOMAIN atoms,
           \A a \in DOMAIN atoms : atoms'[a] \in Seq(Blocks),
           \A a \in DOMAIN atoms : a # building.id => Len(atoms'[a]) = Len(atoms[a]),
           building.size + 1 <= Len(atoms'[building.id]),
           Len(atoms[building.id]) = building.size => Len(atoms'[building.id]) = building.size + 1
    PROVE  QuarkTypeOK' /\ IdsInv' /\ TodoInv' /\ FitsInv' /\ EmptyInv' /\ VictimsInv'
<1> USE DEF QuarkInv
<1>1. p \in KV /\ \A q \in building.kvs : p.key # q.key
  BY DEF QuarkTypeOK, TodoInv
<1>2. /\ building'.id = building.id /\ building'.size = building.size + 1
      /\ building'.kvs = building.kvs \cup {p}
      /\ IsTable(building') /\ Fits(building')
  <2>1. IsTable(building) /\ Fits(building)
    BY DEF QuarkTypeOK, FitsInv
  <2> QED
    BY <1>1, <2>1, AddedTable
<1>3. QuarkTypeOK'
  BY <1>2 DEF QuarkTypeOK, IsTable
<1>4. IdsInv'
  BY <1>2 DEF IdsInv, Writing
<1>5. TodoInv'
  BY <1>2 DEF TodoInv, Writing
<1>6. FitsInv'
  <2>1. ASSUME NEW s \in live
        PROVE  Fits(s)' /\ Stored(s)'
    <3>1. s.id \in DOMAIN atoms /\ s.id # building.id
      BY DEF IdsInv
    <3> QED
      BY <3>1 DEF FitsInv, Fits, Stored
  <2>2. Fits(building)' /\ Stored(building)'
    BY <1>2 DEF Fits, Stored
  <2> QED
    BY <2>1, <2>2 DEF FitsInv
<1>7. EmptyInv'
  BY <1>2 DEF EmptyInv, Writing
<1>8. VictimsInv'
  BY DEF VictimsInv, Writing, Persisting
<1> QED
  BY <1>3, <1>4, <1>5, <1>6, <1>7, <1>8

\* The atom a version has been written to, after the blocks of those before it.
LEMMA WrittenBlock ==
    ASSUME QuarkTypeOK, building.id \in DOMAIN atoms, Stored(building), NEW p \in Blocks,
           atoms' = [atoms EXCEPT ![building.id] = AtomWrite(@, building.size, p)]
    PROVE  /\ DOMAIN atoms' = DOMAIN atoms
           /\ \A a \in DOMAIN atoms : atoms'[a] \in Seq(Blocks)
           /\ \A a \in DOMAIN atoms : a # building.id => atoms'[a] = atoms[a]
           /\ building.size + 1 <= Len(atoms'[building.id])
           /\ Len(atoms[building.id]) = building.size => Len(atoms'[building.id]) = building.size + 1
           /\ \A i \in 1 .. building.size : atoms'[building.id][i] = atoms[building.id][i]
           /\ atoms'[building.id][building.size + 1] = p
<1> DEFINE n   == building.size
           old == atoms[building.id]
           new == atoms'[building.id]
<1>1. n \in Nat /\ old \in Seq(Blocks) /\ n <= Len(old) /\ new = AtomWrite(old, n, p)
  BY DEF QuarkTypeOK, IsTable, Stored
<1>2. /\ DOMAIN atoms' = DOMAIN atoms
      /\ \A a \in DOMAIN atoms : a # building.id => atoms'[a] = atoms[a]
  OBVIOUS
<1> HIDE DEF n, old, new
<1>3. new \in Seq(Blocks)
  BY <1>1, WrittenAtom
<1>4. Len(new) = IF n < Len(old) THEN Len(old) ELSE Len(old) + 1
  BY <1>1, WrittenAtom
<1>5. \A i \in 1 .. Len(old) : i # n + 1 => new[i] = old[i]
  BY <1>1, WrittenAtom
<1>6. new[n + 1] = p
  BY <1>1, WrittenAtom
<1>7. Len(old) \in Nat
  BY <1>1
<1>8. n + 1 <= Len(new) /\ (Len(old) = n => Len(new) = n + 1)
  BY <1>1, <1>4, <1>7
<1>9. \A i \in 1 .. n : new[i] = old[i]
  BY <1>1, <1>5, <1>7
<1> QED
  BY <1>2, <1>3, <1>6, <1>8, <1>9 DEF n, old, new, QuarkTypeOK

LEMMA QuarkAddKV ==
    ASSUME QuarkInv, AddKV
    PROVE  QuarkInv'
<1> USE DEF QuarkInv
<1>1. PICK p \in NextVersion :
        /\ atoms' = [atoms EXCEPT ![building.id] = AtomWrite(@, building.size, p)]
        /\ building' = Added(p) /\ todo' = todo \ {p}
  BY DEF AddKV
<1>2. /\ pc = "flush" /\ p \in todo
      /\ UNCHANGED <<engine, live, victims, ctr, clock, sessions, pc, closing, failures>>
  BY DEF AddKV, NextVersion, FirstEntries, history
<1>3. building.id \in DOMAIN atoms /\ Stored(building) /\ IsTable(building) /\ Fits(building)
  BY <1>2 DEF IdsInv, FitsInv, QuarkTypeOK, Writing
<1>4. p \in KV /\ p \in Blocks /\ \A q \in building.kvs : p.key # q.key
  BY <1>2 DEF QuarkTypeOK, TodoInv, Writing, Blocks
<1>5. /\ DOMAIN atoms' = DOMAIN atoms
      /\ \A a \in DOMAIN atoms : atoms'[a] \in Seq(Blocks)
      /\ \A a \in DOMAIN atoms : a # building.id => atoms'[a] = atoms[a]
      /\ building.size + 1 <= Len(atoms'[building.id])
      /\ Len(atoms[building.id]) = building.size => Len(atoms'[building.id]) = building.size + 1
      /\ \A i \in 1 .. building.size : atoms'[building.id][i] = atoms[building.id][i]
      /\ atoms'[building.id][building.size + 1] = p
  BY <1>1, <1>3, <1>4, WrittenBlock
<1>6. QuarkTypeOK' /\ IdsInv' /\ TodoInv' /\ FitsInv' /\ EmptyInv' /\ VictimsInv'
  BY <1>1, <1>2, <1>5, QuarkAdds DEF Writing
<1>7. victims = {}
  BY <1>2 DEF VictimsInv, Persisting
<1>8. Sound' = Sound
  BY <1>2 DEF Sound
<1>9. TablesInv'
  <2>1. ASSUME Sound, NEW s \in live
        PROVE  ReadsBack(s)'
    <3>1. s.id \in DOMAIN atoms /\ s.id # building.id /\ ReadsBack(s)
      BY <1>2, <1>7, <2>1 DEF IdsInv, TablesInv, Writing
    <3> QED
      BY <1>5, <3>1, ReadsSame
  <2>2. ASSUME Sound
        PROVE  ReadsBack(building)'
    <3>1. ReadsBack(building)
      BY <2>2 DEF TablesInv
    <3> QED
      BY <1>1, <1>3, <1>4, <1>5, <3>1, ReadsAdded
  <2> QED
    BY <1>2, <1>7, <1>8, <2>1, <2>2 DEF TablesInv
<1>10. MovedInv'
  BY <1>2, <1>7 DEF MovedInv
<1> QED
  BY <1>6, <1>9, <1>10

\* The table that has been written is intact when it becomes live.
LEMMA QuarkFlushSST ==
    ASSUME QuarkInv, FlushSST
    PROVE  QuarkInv'
<1> USE DEF QuarkInv
<1>1. /\ pc = "flush" /\ pc' \in {"idle", "compact"} /\ atoms' = Persisted
      /\ live' = live \cup {building}
      /\ UNCHANGED <<engine, ctr, building, victims, todo, closing, sessions, clock, failures>>
  BY DEF FlushSST, history
<1>2. /\ building.id \in DOMAIN atoms /\ building.id < ctr /\ Stored(building)
      /\ IsTable(building) /\ Fits(building)
      /\ \A s \in live : s.id # building.id /\ s.id \in DOMAIN atoms
  BY <1>1 DEF IdsInv, FitsInv, QuarkTypeOK, Writing
<1>3. /\ DOMAIN atoms' = DOMAIN atoms
      /\ \A a \in DOMAIN atoms : atoms'[a] \in Seq(Blocks)
      /\ \A a \in DOMAIN atoms : a # building.id => atoms'[a] = atoms[a]
      /\ building.size <= Len(atoms'[building.id])
      /\ \A i \in 1 .. building.size : atoms'[building.id][i] = atoms[building.id][i]
  BY <1>1, <1>2, PersistedAtoms
<1>4. QuarkTypeOK'
  BY <1>1, <1>3 DEF QuarkTypeOK, IsTable
<1>5. IdsInv' /\ TodoInv'
  BY <1>1, <1>2, <1>3 DEF IdsInv, TodoInv, Writing
<1>6. FitsInv'
  <2>1. ASSUME NEW s \in live
        PROVE  Fits(s)' /\ Stored(s)'
    BY <1>2, <1>3 DEF FitsInv, Fits, Stored
  <2>2. Fits(building)' /\ Stored(building)'
    BY <1>1, <1>2, <1>3 DEF Fits, Stored
  <2> QED
    BY <1>1, <2>1, <2>2 DEF FitsInv, Fits, Stored, Writing
<1>7. EmptyInv'
  BY <1>1, <1>3 DEF EmptyInv, Writing
<1>8. VictimsInv' /\ victims = {}
  BY <1>1 DEF VictimsInv, Persisting
<1>9. Sound' = Sound
  BY <1>1 DEF Sound
<1>10. TablesInv'
  <2>1. ASSUME Sound, NEW s \in live
        PROVE  ReadsBack(s)'
    <3>1. ReadsBack(s)
      BY <1>8, <2>1 DEF TablesInv
    <3> QED
      BY <1>2, <1>3, <3>1, ReadsSame
  <2>2. ASSUME Sound, NEW s, s = building
        PROVE  ReadsBack(s)'
    <3>1. ReadsBack(s) /\ IsTable(s) /\ Fits(s)
      BY <1>2, <2>2 DEF TablesInv
    <3>2. \A i \in 1 .. s.size : atoms'[s.id][i] = atoms[s.id][i]
      BY <1>3, <2>2
    <3> QED
      BY <3>1, <3>2, ReadsPrefix
  <2>3. ASSUME Sound
        PROVE  ReadsBack(building)'
    BY <1>1, <2>2, <2>3 DEF ReadsBack, Block, AtomRead
  <2>4. ASSUME Sound, NEW s \in live'
        PROVE  ReadsBack(s)'
    BY <1>1, <2>1, <2>2, <2>4
  <2> QED
    BY <1>1, <1>8, <1>9, <2>3, <2>4 DEF TablesInv
<1>11. MovedInv'
  BY <1>1, <1>8 DEF MovedInv
<1> QED
  BY <1>4, <1>5, <1>6, <1>7, <1>8, <1>10, <1>11

-----------------------------------------------------------------------------
(* Merges *)

\* A merge starts with tables that read back, and with one version of each key.
LEMMA QuarkStartMerge ==
    ASSUME QuarkInv, StartMerge
    PROVE  QuarkInv'
<1> USE DEF QuarkInv
<1>1. pc = "compact" /\ UNCHANGED <<engine, live, closing, sessions, clock, failures>>
  BY DEF StartMerge, history
<1>2. victims = {}
  BY <1>1 DEF VictimsInv, Persisting
<1>3. CASE pc' = "misread" /\ UNCHANGED <<atoms, ctr, building, victims, todo>>
  <2>1. VictimsInv'
    BY <1>1, <1>2, <1>3 DEF VictimsInv, Persisting
  <2> QED
    BY <1>1, <1>3, <2>1, QuarkSame
<1>4. CASE /\ \A s \in live : ReadsBack(s)
           /\ victims' = live /\ todo' = Merged(live)
           /\ NewEmptySST(atoms) /\ pc' = "merge"
  <2>1. ctr \in Nat
    BY DEF QuarkTypeOK
  <2>2. /\ DOMAIN atoms' = DOMAIN atoms \cup {ctr}
        /\ \A a \in DOMAIN atoms : atoms'[a] = atoms[a]
        /\ ctr \notin DOMAIN atoms => atoms'[ctr] = <<>>
        /\ building'.id = ctr /\ building'.size = 0 /\ building'.kvs = {}
        /\ IsTable(building') /\ Fits(building') /\ ctr' = ctr + 1
    BY <1>4, <2>1, NewTable
  <2>3. \A s \in live : s.id \in DOMAIN atoms /\ s.id # ctr /\ atoms'[s.id] = atoms[s.id]
    BY <2>1, <2>2 DEF IdsInv, QuarkTypeOK, IsTable
  <2>4. /\ todo' \subseteq KV
        /\ \A p \in todo' : \E s \in live : p \in s.kvs
        /\ \A p, q \in todo' : p.key = q.key => p = q
    <3>1. \A s \in live : s.kvs \subseteq KV
      BY DEF QuarkTypeOK, IsTable
    <3>2. todo' \subseteq KV /\ \A p \in todo' : \E s \in live : p \in s.kvs
      BY <1>4, <3>1 DEF Merged
    <3>3. ASSUME NEW p \in todo', NEW q \in todo', p.key = q.key
          PROVE  p = q
      <4>1. p.ts <= q.ts /\ q.ts <= p.ts
        BY <1>4, <3>3 DEF Merged
      <4>2. p \in KV /\ q \in KV /\ p.ts \in Nat /\ q.ts \in Nat
        BY <3>2 DEF KV
      <4>3. p.ts = q.ts
        BY <4>1, <4>2
      <4> QED
        BY <3>3, <4>2, <4>3 DEF KV
    <3> QED
      BY <3>2, <3>3
  <2>5. QuarkTypeOK'
    <3>1. ASSUME NEW a \in DOMAIN atoms'
          PROVE  atoms'[a] \in Seq(Blocks)
      <4>1. <<>> \in Seq(Blocks)
        OBVIOUS
      <4>2. CASE a \in DOMAIN atoms
        BY <2>2, <4>2 DEF QuarkTypeOK
      <4>3. CASE a \notin DOMAIN atoms
        BY <2>2, <4>1, <4>3
      <4> QED
        BY <4>2, <4>3
    <3>2. /\ DOMAIN atoms' \subseteq Nat /\ victims' \subseteq live' /\ engine' \in Engines
          /\ ctr' \in Nat /\ clock' \in Nat /\ sessions' \in Nat
      BY <1>1, <1>4, <2>2 DEF QuarkTypeOK
    <3>3. \A s \in live' \cup {building'} : IsTable(s)'
      BY <1>1, <2>2 DEF QuarkTypeOK, IsTable
    <3> QED
      BY <2>4, <3>1, <3>2, <3>3 DEF QuarkTypeOK
  <2>6. IdsInv'
    BY <1>1, <2>1, <2>2, <2>3 DEF IdsInv, QuarkTypeOK, IsTable
  <2>7. TodoInv'
    BY <2>2, <2>4 DEF TodoInv
  <2>8. FitsInv'
    <3>1. Len(atoms'[ctr]) \in Nat
      BY <2>2, <2>5 DEF QuarkTypeOK
    <3>2. Stored(building)'
      BY <2>2, <3>1 DEF Stored
    <3>3. \A s \in live : Fits(s)' /\ Stored(s)'
      BY <2>3 DEF FitsInv, Fits, Stored
    <3>4. Fits(building)'
      BY <2>2 DEF Fits
    <3> QED
      BY <1>1, <3>2, <3>3, <3>4 DEF FitsInv
  <2>9. EmptyInv'
    BY <1>1, <1>4, <2>1, <2>2 DEF EmptyInv, QuarkTypeOK
  <2>10. VictimsInv'
    BY <1>1, <1>4 DEF VictimsInv, Persisting
  <2>11. \A s \in live : ReadsBack(s)'
    BY <1>4, <2>3, ReadsSame
  <2>12. TablesInv'
    <3>1. ReadsBack(building)'
      BY <2>2 DEF ReadsBack
    <3> QED
      BY <1>1, <2>11, <3>1 DEF TablesInv
  <2>13. MovedInv'
    <3>1. \A s \in live : \A p \in s.kvs : Block(s, p.key)' = p
      BY <2>11 DEF ReadsBack
    <3> QED
      BY <1>1, <1>4, <2>4, <3>1 DEF MovedInv
  <2> QED
    BY <2>5, <2>6, <2>7, <2>8, <2>9, <2>10, <2>12, <2>13
<1> QED
  BY <1>3, <1>4 DEF StartMerge

\* A block that is moved goes to the end of the table's atom and leaves a hole.
LEMMA MovedBlock ==
    ASSUME QuarkInv, pc = "merge", NEW s \in live, NEW p \in s.kvs, atoms' = Moved(s, p)
    PROVE  /\ DOMAIN atoms' = DOMAIN atoms
           /\ \A a \in DOMAIN atoms : atoms'[a] \in Seq(Blocks)
           /\ \A a \in DOMAIN atoms : a # building.id => Len(atoms'[a]) = Len(atoms[a])
           /\ \A a \in DOMAIN atoms : a \notin {building.id, s.id} => atoms'[a] = atoms[a]
           /\ \A i \in 1 .. Len(atoms[s.id]) :
                i # s.index[p.key] + 1 => atoms'[s.id][i] = atoms[s.id][i]
           /\ atoms'[building.id] = Append(atoms[building.id], Block(s, p.key))
<1> USE DEF QuarkInv
<1> DEFINE at   == s.index[p.key] + 1
           from == atoms[s.id]
           to   == atoms[building.id]
<1>1. /\ s.id \in DOMAIN atoms /\ from \in Seq(Blocks) /\ at \in 1 .. Len(from)
      /\ Block(s, p.key) \in Blocks
  BY BlockThere
<1>2. building.id \in DOMAIN atoms /\ s.id # building.id /\ to \in Seq(Blocks)
  BY DEF IdsInv, QuarkTypeOK, Writing
<1>3. atoms' = [atoms EXCEPT ![building.id] = Append(@, Block(s, p.key)),
                             ![s.id][at] = Hole]
  BY DEF Moved, AtomMoveAppend, Block
<1>4. DOMAIN atoms' = DOMAIN atoms
  BY <1>3
<1>5. atoms'[building.id] = Append(to, Block(s, p.key))
  BY <1>2, <1>3
<1>6. atoms'[s.id] = [from EXCEPT ![at] = Hole]
  BY <1>1, <1>2, <1>3
<1>7. \A a \in DOMAIN atoms : a \notin {building.id, s.id} => atoms'[a] = atoms[a]
  BY <1>3
<1> HIDE DEF at, from, to
<1>8. Hole \in Blocks
  BY DEF Blocks
<1>9. /\ [from EXCEPT ![at] = Hole] \in Seq(Blocks)
      /\ Len([from EXCEPT ![at] = Hole]) = Len(from)
      /\ \A i \in 1 .. Len(from) : i # at => [from EXCEPT ![at] = Hole][i] = from[i]
  BY <1>1, <1>8
<1>10. Append(to, Block(s, p.key)) \in Seq(Blocks)
  BY <1>1, <1>2
<1>11. ASSUME NEW a \in DOMAIN atoms
       PROVE  /\ atoms'[a] \in Seq(Blocks)
              /\ a # building.id => Len(atoms'[a]) = Len(atoms[a])
  <2>1. CASE a = building.id
    BY <1>5, <1>10, <2>1
  <2>2. CASE a = s.id
    BY <1>2, <1>6, <1>9, <2>2 DEF from
  <2>3. CASE a \notin {building.id, s.id}
    BY <1>7, <2>3 DEF QuarkTypeOK
  <2> QED
    BY <2>1, <2>2, <2>3
<1> QED
  BY <1>4, <1>5, <1>6, <1>7, <1>9, <1>11 DEF at, from, to

\* One version goes from a table to the one being written. Those that are still to go
\* are where they were: they have other blocks.
LEMMA QuarkMergeKV ==
    ASSUME QuarkInv, MergeKV
    PROVE  QuarkInv'
<1> USE DEF QuarkInv
<1>1. PICK p \in NextVersion, s \in victims :
        /\ p \in s.kvs
        /\ atoms' = IF engine = "QUARKSTORE" THEN Copied(s, p) ELSE Moved(s, p)
        /\ building' = Added(p) /\ todo' = todo \ {p}
  BY DEF MergeKV
<1>2. /\ pc = "merge" /\ p \in todo /\ s \in live
      /\ UNCHANGED <<engine, live, victims, ctr, clock, sessions, pc, closing, failures>>
  BY DEF MergeKV, NextVersion, FirstEntries, history, QuarkTypeOK
<1>3. /\ building.id \in DOMAIN atoms /\ Stored(building) /\ IsTable(building) /\ Fits(building)
      /\ \A t \in live : t.id \in DOMAIN atoms /\ t.id # building.id
      /\ \A t, u \in live : t.id = u.id => t = u
  BY <1>2 DEF IdsInv, FitsInv, QuarkTypeOK, Writing
<1>4. p \in KV /\ \A q \in building.kvs : p.key # q.key
  BY <1>2 DEF QuarkTypeOK, TodoInv, Writing
<1>5. Block(s, p.key) \in Blocks
  BY <1>1, <1>2, BlockThere
<1>6. Sound => Block(s, p.key) = p
  BY <1>1, <1>2 DEF MovedInv
<1>7. /\ DOMAIN atoms' = DOMAIN atoms
      /\ \A a \in DOMAIN atoms : atoms'[a] \in Seq(Blocks)
      /\ \A a \in DOMAIN atoms : a # building.id => Len(atoms'[a]) = Len(atoms[a])
      /\ building.size + 1 <= Len(atoms'[building.id])
      /\ Len(atoms[building.id]) = building.size => Len(atoms'[building.id]) = building.size + 1
      /\ \A i \in 1 .. building.size : atoms'[building.id][i] = atoms[building.id][i]
      /\ Sound => atoms'[building.id][building.size + 1] = p
      /\ \A a \in DOMAIN atoms : a \notin {building.id, s.id} => atoms'[a] = atoms[a]
      /\ engine = "QUARKSTORE" => atoms'[s.id] = atoms[s.id]
      /\ \A i \in 1 .. Len(atoms[s.id]) :
           i # s.index[p.key] + 1 => atoms'[s.id][i] = atoms[s.id][i]
  <2>1. CASE engine = "QUARKSTORE"
    <3>1. atoms' = [atoms EXCEPT ![building.id] = AtomWrite(@, building.size, Block(s, p.key))]
      BY <1>1, <2>1 DEF Copied
    <3>2. /\ DOMAIN atoms' = DOMAIN atoms
          /\ \A a \in DOMAIN atoms : atoms'[a] \in Seq(Blocks)
          /\ \A a \in DOMAIN atoms : a # building.id => atoms'[a] = atoms[a]
          /\ building.size + 1 <= Len(atoms'[building.id])
          /\ Len(atoms[building.id]) = building.size => Len(atoms'[building.id]) = building.size + 1
          /\ \A i \in 1 .. building.size : atoms'[building.id][i] = atoms[building.id][i]
          /\ atoms'[building.id][building.size + 1] = Block(s, p.key)
      BY <1>3, <1>5, <3>1, WrittenBlock
    <3>3. s.id \in DOMAIN atoms /\ s.id # building.id
      BY <1>2, <1>3
    <3> QED
      BY <1>6, <3>2, <3>3
  <2>2. CASE engine # "QUARKSTORE"
    <3>1. atoms' = Moved(s, p)
      BY <1>1, <2>2
    <3>2. /\ DOMAIN atoms' = DOMAIN atoms
          /\ \A a \in DOMAIN atoms : atoms'[a] \in Seq(Blocks)
          /\ \A a \in DOMAIN atoms : a # building.id => Len(atoms'[a]) = Len(atoms[a])
          /\ \A a \in DOMAIN atoms : a \notin {building.id, s.id} => atoms'[a] = atoms[a]
          /\ \A i \in 1 .. Len(atoms[s.id]) :
               i # s.index[p.key] + 1 => atoms'[s.id][i] = atoms[s.id][i]
          /\ atoms'[building.id] = Append(atoms[building.id], Block(s, p.key))
      BY <1>1, <1>2, <3>1, MovedBlock
    <3>3. /\ building.size \in Nat /\ atoms[building.id] \in Seq(Blocks)
          /\ building.size <= Len(atoms[building.id])
      BY <1>3 DEF IsTable, Stored, QuarkTypeOK
    <3>4. /\ Len(atoms'[building.id]) = Len(atoms[building.id]) + 1
          /\ \A i \in 1 .. Len(atoms[building.id]) : atoms'[building.id][i] = atoms[building.id][i]
          /\ atoms'[building.id][Len(atoms[building.id]) + 1] = Block(s, p.key)
      BY <1>5, <3>2, <3>3
    <3>5. Sound => Len(atoms[building.id]) = building.size
      BY <1>2, <2>2, QuarkAssumption DEF Sound, EmptyInv, Writing, QuarkTypeOK
    <3>6. Len(atoms[building.id]) \in Nat
      BY <3>3
    <3>7. /\ building.size + 1 <= Len(atoms'[building.id])
          /\ Len(atoms[building.id]) = building.size => Len(atoms'[building.id]) = building.size + 1
          /\ \A i \in 1 .. building.size : atoms'[building.id][i] = atoms[building.id][i]
      BY <3>3, <3>4, <3>6
    <3>8. Sound => atoms'[building.id][building.size + 1] = p
      BY <1>6, <3>4, <3>5
    <3> QED
      BY <2>2, <3>2, <3>7, <3>8
  <2> QED
    BY <2>1, <2>2
<1>8. QuarkTypeOK' /\ IdsInv' /\ TodoInv' /\ FitsInv' /\ EmptyInv' /\ VictimsInv'
  BY <1>1, <1>2, <1>7, QuarkAdds DEF Writing
<1>9. Sound' = Sound
  BY <1>2 DEF Sound
<1>10. TablesInv'
  <2>1. ASSUME Sound, NEW t \in IF engine = "QUARKSTORE" THEN live ELSE live \ victims
        PROVE  ReadsBack(t)'
    <3>1. t \in live /\ ReadsBack(t)
      BY <2>1 DEF TablesInv
    <3>2. atoms'[t.id] = atoms[t.id]
      BY <1>1, <1>2, <1>3, <1>7, <2>1, <3>1
    <3> QED
      BY <3>1, <3>2, ReadsSame
  <2>2. ASSUME Sound
        PROVE  ReadsBack(building)'
    <3>1. ReadsBack(building)
      BY <2>2 DEF TablesInv
    <3> QED
      BY <1>1, <1>3, <1>4, <1>7, <2>2, <3>1, ReadsAdded
  <2> QED
    BY <1>2, <1>9, <2>1, <2>2 DEF TablesInv
<1>11. ASSUME Sound, NEW t \in victims, NEW q \in t.kvs, Block(t, q.key) = q, q # p
       PROVE  Block(t, q.key)' = q
  <2>1. t \in live
    BY DEF QuarkTypeOK
  <2>2. CASE t = s
    <3>1. t.index[q.key] + 1 # s.index[p.key] + 1
      BY <1>6, <1>11, <2>2 DEF Block, AtomRead
    <3>2. t.index[q.key] + 1 \in 1 .. Len(atoms[s.id])
      BY <2>1, <2>2, BlockThere
    <3> QED
      BY <1>7, <1>11, <2>2, <3>1, <3>2 DEF Block, AtomRead
  <2>3. CASE t # s
    <3>1. atoms'[t.id] = atoms[t.id]
      BY <1>2, <1>3, <1>7, <2>1, <2>3
    <3> QED
      BY <1>11, <3>1 DEF Block, AtomRead
  <2> QED
    BY <2>2, <2>3
<1>12. MovedInv'
  <2>1. ASSUME Sound, NEW q \in todo'
        PROVE  /\ \E t \in victims' : q \in t.kvs
               /\ \A t \in victims' : q \in t.kvs => Block(t, q.key)' = q
    <3>1. q \in todo /\ q # p
      BY <1>1, <2>1
    <3>2. /\ \E t \in victims : q \in t.kvs
          /\ \A t \in victims : q \in t.kvs => Block(t, q.key) = q
      BY <1>2, <2>1, <3>1 DEF MovedInv
    <3> QED
      BY <1>2, <1>11, <2>1, <3>1, <3>2
  <2>2. ASSUME Sound, NEW t \in victims, NEW q \in t.kvs
        PROVE  \/ Block(t, q.key)' = q
               \/ q \in building'.kvs
               \/ \E u \in live \ victims : q \in u.kvs
    <3>1. building'.kvs = building.kvs \cup {p}
      BY <1>1, <1>3, <1>4, AddedTable
    <3>2. \/ Block(t, q.key) = q
          \/ q \in building.kvs
          \/ \E u \in live \ victims : q \in u.kvs
      BY <2>2 DEF MovedInv
    <3> QED
      BY <1>11, <2>2, <3>1, <3>2
  <2> QED
    BY <1>2, <1>9, <2>1, <2>2 DEF MovedInv
<1> QED
  BY <1>8, <1>10, <1>12

\* The table that has been written reads back once it is persisted, and so does
\* whatever is in other atoms.
LEMMA PersistedReads ==
    ASSUME QuarkInv, pc = "merge",
           \A a \in DOMAIN atoms : atoms'[a] = Persisted[a]
    PROVE  /\ \A s \in live : s.id # building.id /\ s.id \in DOMAIN atoms /\ atoms'[s.id] = atoms[s.id]
           /\ building.size <= Len(atoms'[building.id])
           /\ Sound => \A s : s = building => ReadsBack(s)'
<1> USE DEF QuarkInv
<1>1. /\ building.id \in DOMAIN atoms /\ Stored(building)
      /\ IsTable(building) /\ Fits(building)
      /\ \A s \in live : s.id # building.id /\ s.id \in DOMAIN atoms
  BY DEF IdsInv, FitsInv, QuarkTypeOK, Writing
<1>2. /\ \A a \in DOMAIN atoms : a # building.id => Persisted[a] = atoms[a]
      /\ building.size <= Len(Persisted[building.id])
      /\ \A i \in 1 .. building.size : Persisted[building.id][i] = atoms[building.id][i]
  BY <1>1, PersistedAtoms
<1>3. ASSUME Sound, NEW s, s = building
      PROVE  ReadsBack(s)'
  <2>1. ReadsBack(s) /\ IsTable(s) /\ Fits(s)
    BY <1>1, <1>3 DEF TablesInv
  <2>2. \A i \in 1 .. s.size : atoms'[s.id][i] = atoms[s.id][i]
    BY <1>1, <1>2, <1>3
  <2> QED
    BY <2>1, <2>2, ReadsPrefix
<1> QED
  BY <1>1, <1>2, <1>3

\* A full table is ended, and the next one begun.
LEMMA QuarkNextSST ==
    ASSUME QuarkInv, pc = "merge", live' = live \cup {building}, NewEmptySST(Persisted),
           UNCHANGED <<engine, victims, todo, pc, closing, sessions, clock, failures>>
    PROVE  QuarkInv'
<1> USE DEF QuarkInv
<1>1. /\ building.id \in DOMAIN atoms /\ building.id < ctr /\ ctr \in Nat /\ Stored(building)
      /\ IsTable(building) /\ Fits(building) /\ building.id \in Nat
  BY DEF IdsInv, FitsInv, QuarkTypeOK, Writing, IsTable
<1>2. /\ DOMAIN Persisted = DOMAIN atoms
      /\ \A a \in DOMAIN atoms : Persisted[a] \in Seq(Blocks)
  BY <1>1, PersistedAtoms
<1>3. /\ DOMAIN atoms' = DOMAIN atoms \cup {ctr}
      /\ \A a \in DOMAIN atoms : atoms'[a] = Persisted[a]
      /\ ctr \notin DOMAIN atoms => atoms'[ctr] = <<>>
      /\ building'.id = ctr /\ building'.size = 0 /\ building'.kvs = {}
      /\ IsTable(building') /\ Fits(building') /\ ctr' = ctr + 1
  <2>1. /\ DOMAIN atoms' = DOMAIN Persisted \cup {ctr}
        /\ \A a \in DOMAIN Persisted : atoms'[a] = Persisted[a]
        /\ ctr \notin DOMAIN Persisted => atoms'[ctr] = <<>>
        /\ building'.id = ctr /\ building'.size = 0 /\ building'.kvs = {}
        /\ IsTable(building') /\ Fits(building') /\ ctr' = ctr + 1
    BY <1>1, NewTable
  <2> QED
    BY <1>2, <2>1
<1>4. /\ \A s \in live : s.id # building.id /\ s.id \in DOMAIN atoms /\ atoms'[s.id] = atoms[s.id]
      /\ building.size <= Len(atoms'[building.id])
      /\ Sound => \A s : s = building => ReadsBack(s)'
  BY <1>3, PersistedReads
<1>5. QuarkTypeOK'
  <2>1. ASSUME NEW a \in DOMAIN atoms'
        PROVE  atoms'[a] \in Seq(Blocks)
    <3>1. <<>> \in Seq(Blocks)
      OBVIOUS
    <3>2. CASE a \in DOMAIN atoms
      BY <1>2, <1>3, <3>2
    <3>3. CASE a \notin DOMAIN atoms
      BY <1>3, <3>1, <3>3
    <3> QED
      BY <3>2, <3>3
  <2>2. /\ DOMAIN atoms' \subseteq Nat /\ victims' \subseteq live' /\ engine' \in Engines
        /\ ctr' \in Nat /\ clock' \in Nat /\ sessions' \in Nat /\ todo' \subseteq KV
    BY <1>3 DEF QuarkTypeOK
  <2>3. \A s \in live' \cup {building'} : IsTable(s)'
    BY <1>1, <1>3 DEF QuarkTypeOK, IsTable
  <2> QED
    BY <2>1, <2>2, <2>3 DEF QuarkTypeOK
<1>6. IdsInv'
  <2>1. \A s \in live : s.id < ctr /\ s.id \in Nat
    BY DEF IdsInv, QuarkTypeOK, IsTable
  <2>2. \A s \in live' : s.id < ctr' /\ s.id # ctr /\ s.id \in DOMAIN atoms'
    BY <1>1, <1>3, <1>4, <2>1
  <2>3. \A s, t \in live' : s.id = t.id => s = t
    BY <1>4 DEF IdsInv
  <2>4. building'.id < ctr' /\ building'.id \in DOMAIN atoms'
    BY <1>1, <1>3
  <2> QED
    BY <1>3, <2>2, <2>3, <2>4 DEF IdsInv
<1>7. TodoInv'
  BY <1>3 DEF TodoInv, Writing
<1>8. FitsInv'
  <2>1. Len(atoms'[ctr]) \in Nat
    BY <1>3, <1>5 DEF QuarkTypeOK
  <2>2. Stored(building)'
    BY <1>3, <2>1 DEF Stored
  <2>3. \A s \in live : Fits(s)' /\ Stored(s)'
    BY <1>4 DEF FitsInv, Fits, Stored
  <2>4. Fits(building)'
    BY <1>3 DEF Fits
  <2>5. \A s : s = building => Fits(s)' /\ Stored(s)'
    BY <1>1, <1>4 DEF Fits, Stored
  <2> QED
    BY <2>2, <2>3, <2>4, <2>5 DEF FitsInv
<1>9. EmptyInv'
  BY <1>1, <1>3 DEF EmptyInv, QuarkTypeOK
<1>10. VictimsInv'
  BY DEF VictimsInv, Persisting
<1>11. Sound' = Sound
  BY DEF Sound
<1>12. building \notin victims
  BY <1>4 DEF QuarkTypeOK
<1>13. TablesInv'
  <2>1. ASSUME Sound, NEW s \in IF engine = "QUARKSTORE" THEN live ELSE live \ victims
        PROVE  ReadsBack(s)'
    <3>1. s \in live /\ ReadsBack(s)
      BY <2>1 DEF TablesInv
    <3> QED
      BY <1>4, <3>1, ReadsSame
  <2>2. ReadsBack(building)'
    BY <1>3 DEF ReadsBack
  <2> QED
    BY <1>4, <1>11, <2>1, <2>2 DEF TablesInv
<1>14. \A s \in victims : \A p \in s.kvs : Block(s, p.key)' = Block(s, p.key)
  BY <1>4 DEF Block, AtomRead, QuarkTypeOK
<1>15. MovedInv'
  BY <1>3, <1>11, <1>12, <1>14 DEF MovedInv
<1> QED
  BY <1>5, <1>6, <1>7, <1>8, <1>9, <1>10, <1>13, <1>15

\* The last table is ended, and the inputs are no longer live, or those up to the one
\* whose removal fails.
LEMMA QuarkLastSST ==
    ASSUME QuarkInv, pc = "merge", NEW removed \in SUBSET victims,
           live' = (live \cup {building}) \ removed, victims' = victims \ removed, atoms' = Persisted,
           pc' = "failed" \/ (pc' = "manifest" /\ removed = victims),
           failures \subseteq failures',
           UNCHANGED <<engine, ctr, building, todo, closing, sessions, clock>>
    PROVE  QuarkInv'
<1> USE DEF QuarkInv
<1>1. /\ building.id \in DOMAIN atoms /\ building.id < ctr /\ Stored(building)
      /\ IsTable(building) /\ Fits(building)
  BY DEF IdsInv, FitsInv, QuarkTypeOK, Writing
<1>2. /\ DOMAIN Persisted = DOMAIN atoms
      /\ \A a \in DOMAIN atoms : Persisted[a] \in Seq(Blocks)
  BY <1>1, PersistedAtoms
<1>3. /\ \A s \in live : s.id # building.id /\ s.id \in DOMAIN atoms /\ atoms'[s.id] = atoms[s.id]
      /\ building.size <= Len(atoms'[building.id])
      /\ Sound => \A s : s = building => ReadsBack(s)'
  BY PersistedReads
<1>11. building \notin victims /\ live' \ victims' = (live \cup {building}) \ victims
  BY <1>3 DEF QuarkTypeOK
<1>4. QuarkTypeOK'
  BY <1>2, <1>11 DEF QuarkTypeOK, IsTable
<1>5. IdsInv' /\ TodoInv'
  BY <1>1, <1>2, <1>3 DEF IdsInv, TodoInv, Writing
<1>6. FitsInv'
  <2>1. \A s \in live : Fits(s)' /\ Stored(s)'
    BY <1>3 DEF FitsInv, Fits, Stored
  <2>2. \A s : s = building => Fits(s)' /\ Stored(s)'
    BY <1>1, <1>3 DEF Fits, Stored
  <2>3. Fits(building)'
    BY <1>1 DEF Fits
  <2> QED
    BY <2>1, <2>2, <2>3 DEF FitsInv, Writing
<1>7. EmptyInv' /\ VictimsInv'
  <2>1. EmptyInv'
    BY <1>2 DEF EmptyInv, Writing
  <2>2. VictimsInv'
    BY <1>11 DEF VictimsInv, Persisting
  <2> QED
    BY <2>1, <2>2
<1>8. Sound' = Sound
  BY DEF Sound
<1>9. TablesInv'
  <2>1. ASSUME Sound, NEW s \in IF engine = "QUARKSTORE" THEN live ELSE live \ victims
        PROVE  ReadsBack(s)'
    <3>1. ReadsBack(s)
      BY <2>1 DEF TablesInv
    <3> QED
      BY <1>3, <3>1, ReadsSame
  <2>2. ASSUME Sound
        PROVE  ReadsBack(building)'
    BY <1>3, <2>2 DEF ReadsBack, Block, AtomRead
  <2> QED
    BY <1>3, <1>8, <1>11, <2>1, <2>2 DEF TablesInv
<1>10. MovedInv'
  <2>1. \A s \in victims : \A p \in s.kvs : Block(s, p.key)' = Block(s, p.key)
    BY <1>3 DEF Block, AtomRead, QuarkTypeOK
  <2> QED
    BY <1>8, <1>11, <2>1 DEF MovedInv
<1> QED
  BY <1>4, <1>5, <1>6, <1>7, <1>9, <1>10

\* Whatever step of a merge was taken and wherever it fails, the tables' offsets, the inputs
\* of the merge and what it has still to write agree with the atoms.
THEOREM QuarkInvariant == Spec => []QuarkInv
<1>1. Init => QuarkInv
  <2> SUFFICES ASSUME Init
               PROVE  QuarkInv
    OBVIOUS
  <2>1. /\ engine \in Engines /\ atoms = <<>> /\ live = {} /\ ctr = 0
        /\ building = [id |-> 0, index |-> <<>>, size |-> 0, kvs |-> {}]
        /\ victims = {} /\ todo = {} /\ pc = "down" /\ closing = FALSE /\ sessions = 0 /\ clock = 0
    BY DEF Init, EmptySST
  <2>2. /\ <<>> \in [{} -> Nat] /\ KeysOf({}) = {} /\ DOMAIN <<>> = {}
        /\ IsFiniteSet({}) /\ Cardinality({}) = 0
    BY FS_EmptySet DEF KeysOf
  <2>3. IsTable(building) /\ Fits(building)
    BY <2>1, <2>2 DEF IsTable, Fits
  <2>4. QuarkTypeOK /\ IdsInv /\ TodoInv /\ FitsInv
    BY <2>1, <2>2, <2>3 DEF QuarkTypeOK, IdsInv, TodoInv, FitsInv, Writing
  <2>5. EmptyInv /\ VictimsInv /\ TablesInv /\ MovedInv
    BY <2>1 DEF EmptyInv, VictimsInv, TablesInv, MovedInv, ReadsBack, Writing
  <2> QED
    BY <2>4, <2>5 DEF QuarkInv
<1>2. QuarkInv /\ [Next]_vars => QuarkInv'
  <2> SUFFICES ASSUME QuarkInv, [Next]_vars
               PROVE  QuarkInv'
    OBVIOUS
  <2>1. CASE Rest \/ UNCHANGED vars
    <3>1. UNCHANGED vars
      BY <2>1 DEF Rest
    <3> QED
      BY <3>1 DEF vars, storage, tree, manifest, history, QuarkInv, QuarkTypeOK, IsTable, IdsInv, TodoInv, FitsInv,
                  Fits, Stored, EmptyInv, VictimsInv, TablesInv, MovedInv, Sound, ReadsBack, Block, AtomRead,
                  Writing
  <2>2. CASE FinishSST
    <3>1. /\ pc = "merge"
          /\ UNCHANGED <<engine, todo, closing, sessions, clock, failures>>
      BY <2>2 DEF FinishSST, history
    <3>2. \/ live' = live \cup {building} /\ NewEmptySST(Persisted) /\ UNCHANGED <<victims, pc>>
          \/ /\ live' = (live \cup {building}) \ victims /\ atoms' = Persisted
             /\ victims' = {} /\ pc' = "manifest" /\ UNCHANGED <<ctr, building>>
      BY <2>2 DEF FinishSST, AtomsWithout, AtomRemove
    <3> QED
      BY <3>1, <3>2, QuarkNextSST, QuarkLastSST
  <2>4. CASE RemoveFails
    <3>1. /\ pc = "merge" /\ pc' = "failed" /\ failures \subseteq failures'
          /\ UNCHANGED <<engine, ctr, building, todo, closing, sessions, clock>>
      BY <2>4 DEF RemoveFails, Fault
    <3>2. \E removed \in SUBSET victims :
             /\ live' = (live \cup {building}) \ removed /\ victims' = victims \ removed
             /\ atoms' = Persisted
      BY <2>4 DEF RemoveFails, AtomsWithout, AtomRemove
    <3> QED
      BY <3>1, <3>2, QuarkLastSST
  <2>3. \/ \E keys \in SUBSET Keys : Flush(keys)
        \/ AddKV \/ FlushSST \/ StartMerge \/ MergeKV \/ FinishSST
        \/ CreateManifest \/ WriteManifest \/ PointCurrent \/ Close \/ Crash
        \/ WriteFails \/ RemoveFails \/ PersistFails \/ CurrentFails \/ PointUnopened
        \/ Open \/ OpenUnread \/ OpenFails \/ Rest \/ UNCHANGED vars
    BY DEF Next, Fails
  <2> QED
    BY <2>1, <2>2, <2>3, <2>4, QuarkFlush, QuarkAddKV, QuarkFlushSST, QuarkStartMerge, QuarkMergeKV,
       QuarkManifest, QuarkOpens
<1> QED
  BY <1>1, <1>2, PTL DEF Spec

\* Tables return what they were given while blocks are copied and moved between atoms,
\* in either engine, but for QUARKSTORE_APPEND after a restart.
THEOREM TablesAreReadBack == Spec => []TablesReadBack
<1>1. QuarkInv => TablesReadBack
  BY DEF QuarkInv, TablesInv, MovedInv, TablesReadBack
<1> QED
  BY <1>1, QuarkInvariant, PTL

\* No version a live table was given is gone from storage, whatever step of a merge
\* has been taken and wherever the merge fails, but for QUARKSTORE_APPEND after a restart.
THEOREM NoBlockIsLost == Spec => []NoBlockLost
<1>1. QuarkInv => NoBlockLost
  <2> SUFFICES ASSUME QuarkInv, Sound, NEW s \in live, NEW p \in s.kvs
               PROVE  \/ \E t \in live : p \in t.kvs /\ Block(t, p.key) = p
                      \/ /\ pc = "merge" \/ "merge" \in failures
                         /\ p \in building.kvs /\ Block(building, p.key) = p
    BY DEF NoBlockLost
  <2> USE DEF QuarkInv
  <2>1. \A t \in live \ victims : ReadsBack(t)
    BY DEF TablesInv
  <2>2. ReadsBack(building)
    BY DEF TablesInv
  <2>3. CASE s \notin victims
    BY <2>1, <2>3 DEF ReadsBack
  <2>4. CASE s \in victims
    <3>1. \/ Block(s, p.key) = p
          \/ p \in building.kvs
          \/ \E t \in live \ victims : p \in t.kvs
      BY <2>4 DEF MovedInv
    <3>2. pc = "merge" \/ "merge" \in failures \/ building \in live \ victims
      BY <2>4 DEF VictimsInv
    <3> QED
      BY <2>1, <2>2, <3>1, <3>2 DEF ReadsBack
  <2> QED
    BY <2>3, <2>4
<1> QED
  BY <1>1, QuarkInvariant, PTL

=============================================================================

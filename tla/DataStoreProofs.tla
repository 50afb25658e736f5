-------------------------- MODULE DataStoreProofs ---------------------------
(***************************************************************************)
(* Proofs about Stores and DataStore: Merge is associative and idempotent  *)
(* for any keys and values, hence outputs may be merged one by one or      *)
(* together, and the environment's store is always copied exactly.  Then   *)
(* about MemoryCatalog: its transactions are isolated.  Last about         *)
(* DatastoreMerge: merged changesets stay merged (MergedVisible), the      *)
(* catalog is never behind the files (InSync), and a merge changes only    *)
(* what it touches.                                                        *)
(***************************************************************************)
EXTENDS DataStore, DatastoreMerge, MemoryCatalog, FiniteSetTheorems, WellFoundedInduction, TLAPS

\* Merge yields a store.
LEMMA MergeType ==
  ASSUME NEW d \in Store, NEW s \in Store
  PROVE  Merge(d, s) \in Store
BY DEF Merge, Store, Live

\* Stores are equal when they agree on records, staged keys and env metadata.
LEMMA StoreEqual ==
  ASSUME NEW s \in Store, NEW t \in Store,
         \A k \in Keys : s.recs[k] = t.recs[k], s.del = t.del, s.env = t.env
  PROVE  s = t
<1>1. s.recs = t.recs
  BY DEF Store
<1> QED
  BY <1>1 DEF Store

\* What Merge makes of a key.
LEMMA MergeFields ==
  ASSUME NEW d \in Store, NEW s \in Store
  PROVE  /\ \A k \in Keys : Merge(d, s).recs[k] =
              IF k \in s.del THEN None
              ELSE IF s.recs[k] # None THEN s.recs[k] ELSE d.recs[k]
         /\ \A k \in Keys : k \in Merge(d, s).del <=>
              k \in s.del \/ (k \in d.del /\ s.recs[k] = None)
         /\ Merge(d, s).env = IF s.env = None THEN d.env ELSE s.env
         /\ Merge(d, s).del \subseteq Keys
BY DEF Merge, Live, Store

\* Merging a, then b, is merging what a and b merge to: several outputs may be
\* folded into one before they are applied (Environment.Clone and the test
\* runtime do so), records and staged deletions alike.
THEOREM MergeAssociative ==
  ASSUME NEW d \in Store, NEW a \in Store, NEW b \in Store
  PROVE  Merge(Merge(d, a), b) = Merge(d, Merge(a, b))
<1>1. PICK da : da = Merge(d, a)
  OBVIOUS
<1>2. PICK ab : ab = Merge(a, b)
  OBVIOUS
<1>3. PICK l : l = Merge(da, b)
  OBVIOUS
<1>4. PICK r : r = Merge(d, ab)
  OBVIOUS
<1>5. da \in Store /\ ab \in Store
  BY <1>1, <1>2, MergeType
<1>6. l \in Store /\ r \in Store
  BY <1>3, <1>4, <1>5, MergeType
<1>7. /\ \A k \in Keys : da.recs[k] = IF k \in a.del THEN None
                           ELSE IF a.recs[k] # None THEN a.recs[k] ELSE d.recs[k]
      /\ \A k \in Keys : k \in da.del <=> k \in a.del \/ (k \in d.del /\ a.recs[k] = None)
      /\ da.env = IF a.env = None THEN d.env ELSE a.env
  BY <1>1, MergeFields
<1>8. /\ \A k \in Keys : ab.recs[k] = IF k \in b.del THEN None
                           ELSE IF b.recs[k] # None THEN b.recs[k] ELSE a.recs[k]
      /\ \A k \in Keys : k \in ab.del <=> k \in b.del \/ (k \in a.del /\ b.recs[k] = None)
      /\ ab.env = IF b.env = None THEN a.env ELSE b.env
  BY <1>2, MergeFields
<1>9. /\ \A k \in Keys : l.recs[k] = IF k \in b.del THEN None
                           ELSE IF b.recs[k] # None THEN b.recs[k] ELSE da.recs[k]
      /\ \A k \in Keys : k \in l.del <=> k \in b.del \/ (k \in da.del /\ b.recs[k] = None)
      /\ l.env = IF b.env = None THEN da.env ELSE b.env
      /\ l.del \subseteq Keys
  BY <1>3, <1>5, MergeFields
<1>10. /\ \A k \in Keys : r.recs[k] = IF k \in ab.del THEN None
                            ELSE IF ab.recs[k] # None THEN ab.recs[k] ELSE d.recs[k]
       /\ \A k \in Keys : k \in r.del <=> k \in ab.del \/ (k \in d.del /\ ab.recs[k] = None)
       /\ r.env = IF ab.env = None THEN d.env ELSE ab.env
       /\ r.del \subseteq Keys
  BY <1>4, <1>5, MergeFields
<1>11. \A k \in Keys : l.recs[k] = r.recs[k]
  BY <1>7, <1>8, <1>9, <1>10
<1>12. l.del = r.del
  <2>1. ASSUME NEW k \in Keys PROVE k \in l.del <=> k \in r.del
    <3>1. k \in l.del <=>
            k \in b.del \/ (b.recs[k] = None /\ (k \in a.del
                                                \/ (k \in d.del /\ a.recs[k] = None)))
      BY <1>7, <1>9
    <3>2. ab.recs[k] = None <=> k \in b.del \/ (b.recs[k] = None /\ a.recs[k] = None)
      BY <1>8
    <3>3. k \in r.del <=> k \in b.del \/ (k \in a.del /\ b.recs[k] = None)
                             \/ (k \in d.del /\ ab.recs[k] = None)
      BY <1>8, <1>10
    <3> QED
      BY <3>1, <3>2, <3>3
  <2> QED
    BY <2>1, <1>9, <1>10
<1>13. l.env = r.env
  BY <1>7, <1>8, <1>9, <1>10
<1>14. l = r
  BY <1>6, <1>11, <1>12, <1>13, StoreEqual
<1> QED
  BY <1>1, <1>2, <1>3, <1>4, <1>14

\* "we want repeated Merges of the same source to be idempotent"
\* (memory_datastore.go): merging a store again changes nothing.
THEOREM MergeIdempotent ==
  ASSUME NEW d \in Store, NEW s \in Store
  PROVE  Merge(Merge(d, s), s) = Merge(d, s)
<1>1. PICK m : m = Merge(d, s)
  OBVIOUS
<1>2. PICK n : n = Merge(m, s)
  OBVIOUS
<1>3. m \in Store
  BY <1>1, MergeType
<1>4. n \in Store
  BY <1>2, <1>3, MergeType
<1>5. /\ \A k \in Keys : m.recs[k] = IF k \in s.del THEN None
                           ELSE IF s.recs[k] # None THEN s.recs[k] ELSE d.recs[k]
      /\ \A k \in Keys : k \in m.del <=> k \in s.del \/ (k \in d.del /\ s.recs[k] = None)
      /\ m.env = IF s.env = None THEN d.env ELSE s.env
      /\ m.del \subseteq Keys
  BY <1>1, MergeFields
<1>6. /\ \A k \in Keys : n.recs[k] = IF k \in s.del THEN None
                           ELSE IF s.recs[k] # None THEN s.recs[k] ELSE m.recs[k]
      /\ \A k \in Keys : k \in n.del <=> k \in s.del \/ (k \in m.del /\ s.recs[k] = None)
      /\ n.env = IF s.env = None THEN m.env ELSE s.env
      /\ n.del \subseteq Keys
  BY <1>2, <1>3, MergeFields
<1>7. \A k \in Keys : n.recs[k] = m.recs[k]
  BY <1>5, <1>6
<1>8. n.del = m.del
  BY <1>5, <1>6
<1>9. n.env = m.env
  BY <1>5, <1>6
<1> QED
  BY <1>1, <1>2, <1>3, <1>4, <1>7, <1>8, <1>9, StoreEqual

-----------------------------------------------------------------------------
\* A new store is a store, and merging nothing changes nothing.
LEMMA NewStore ==
  /\ NewMemoryDataStore \in Store
  /\ NewMemoryDataStore.del = {} /\ NewMemoryDataStore.env = None
  /\ \A k \in Keys : NewMemoryDataStore.recs[k] = None
BY DEF NewMemoryDataStore, Store

\* Merging an empty data store changes nothing.
LEMMA MergeNothing ==
  ASSUME NEW s \in Store
  PROVE  Merge(s, NewMemoryDataStore) = s
<1>1. PICK m : m = Merge(s, NewMemoryDataStore)
  OBVIOUS
<1>2. m \in Store
  BY <1>1, MergeType, NewStore
<1>3. /\ \A k \in Keys : m.recs[k] = s.recs[k]
      /\ \A k \in Keys : k \in m.del <=> k \in s.del
      /\ m.env = s.env /\ m.del \subseteq Keys
  BY <1>1, MergeFields, NewStore
<1>4. m.del = s.del
  BY <1>3 DEF Store
<1> QED
  BY <1>1, <1>2, <1>3, <1>4, StoreEqual

\* A store is copied exactly if none of its live keys is staged for deletion.
Clean(s) == \A k \in s.del : s.recs[k] = None

\* Merging a data store into a new one copies it exactly when none of its records is staged for deletion.
LEMMA CopyClean ==
  ASSUME NEW s \in Store
  PROVE  Merge(NewMemoryDataStore, s) = s <=> Clean(s)
<1>1. PICK m : m = Merge(NewMemoryDataStore, s)
  OBVIOUS
<1>2. m \in Store
  BY <1>1, MergeType, NewStore
<1>3. /\ \A k \in Keys : m.recs[k] = IF k \in s.del THEN None ELSE s.recs[k]
      /\ \A k \in Keys : k \in m.del <=> k \in s.del
      /\ m.env = s.env /\ m.del \subseteq Keys
  BY <1>1, MergeFields, NewStore
<1>4. m.del = s.del /\ s.del \subseteq Keys
  BY <1>3 DEF Store
<1>5. Clean(s) => m = s
  BY <1>2, <1>3, <1>4, StoreEqual DEF Clean
<1>6. m = s => Clean(s)
  BY <1>3, <1>4 DEF Clean
<1> QED
  BY <1>1, <1>5, <1>6

\* Merging into a clean store leaves it clean.
LEMMA MergeClean ==
  ASSUME NEW d \in Store, NEW s \in Store, Clean(d)
  PROVE  Clean(Merge(d, s))
<1>1. PICK m : m = Merge(d, s)
  OBVIOUS
<1>2. /\ \A k \in Keys : m.recs[k] = IF k \in s.del THEN None
                           ELSE IF s.recs[k] # None THEN s.recs[k] ELSE d.recs[k]
      /\ \A k \in Keys : k \in m.del <=> k \in s.del \/ (k \in d.del /\ s.recs[k] = None)
      /\ m.del \subseteq Keys
  BY <1>1, MergeFields
<1>3. Clean(m)
  BY <1>2 DEF Clean
<1> QED
  BY <1>1, <1>3

\* Merging stages no key that was not staged in one of the two.
LEMMA MergeParses ==
  ASSUME NEW d \in Store, NEW s \in Store, Mergeable(d), Mergeable(s)
  PROVE  Mergeable(Merge(d, s))
BY DEF Mergeable, Merge

-----------------------------------------------------------------------------
Inv == TypeOK /\ ChainedMerge /\ CloneExact

\* The invariant holds of the store that the run starts from.
LEMMA InitInv == Init => Inv
<1> SUFFICES ASSUME Init PROVE Inv
  OBVIOUS
<1>1. base \in Store /\ base.del = {} /\ state = base /\ out = NewMemoryDataStore
        /\ all = NewMemoryDataStore
  BY DEF Init
<1>2. TypeOK
  BY <1>1, NewStore DEF TypeOK
<1>3. ChainedMerge
  BY <1>1, MergeNothing DEF ChainedMerge
<1>4. CloneExact
  BY <1>1, CopyClean DEF CloneExact, Clone, Clean, Mergeable
<1> QED
  BY <1>2, <1>3, <1>4 DEF Inv

\* A write of the changeset leaves everything but its own output alone.
LEMMA WriteInv ==
  ASSUME Inv, NEW s \in Store, Write(s)
  PROVE  Inv'
BY DEF Inv, TypeOK, ChainedMerge, CloneExact, Clone, Write

\* The operations on a store yield stores.
LEMMA EditTypes ==
  ASSUME NEW s \in Store
  PROVE  /\ \A k \in Keys, v \in Values : Put(s, k, v) \in Store
         /\ \A k \in Keys : Delete(s, k) \in Store /\ RemoteDelete(s, k) \in Store
         /\ \A v \in EnvValues : SetEnv(s, v) \in Store
BY DEF Put, Delete, RemoteDelete, SetEnv, Store

\* A bundle of records written to a data store leaves a data store.
LEMMA PutAllType ==
  ASSUME NEW s \in Store, NEW S \in SUBSET Keys, NEW f \in [S -> Values]
  PROVE  PutAll(s, f) \in Store
BY DEF PutAll, Store

\* Every write and every merge preserves the invariant.
LEMMA NextInv == Inv /\ [Next]_vars => Inv'
<1> SUFFICES ASSUME Inv, [Next]_vars PROVE Inv'
  OBVIOUS
<1>0. state \in Store /\ out \in Store /\ all \in Store /\ base \in Store
  BY DEF Inv, TypeOK
<1>1. ASSUME NEW k \in Keys, DeleteRecord(k) \/ StageDelete(k)
      PROVE  Inv'
  BY <1>0, <1>1, EditTypes, WriteInv DEF DeleteRecord, StageDelete
<1>2. ASSUME NEW k \in Keys, NEW v \in Values,
             AddRecord(k, v) \/ UpsertRecord(k, v) \/ UpdateRecord(k, v)
      PROVE  Inv'
  BY <1>0, <1>2, EditTypes, WriteInv DEF AddRecord, UpsertRecord, UpdateRecord
<1>3. ASSUME NEW v \in EnvValues, SetEnvMetadata(v)
      PROVE  Inv'
  BY <1>0, <1>3, EditTypes, WriteInv DEF SetEnvMetadata
<1>4. ASSUME NEW refs \in Bundles(AddressRefKeys),
             NEW metadata \in Bundles(ChainMetadataKeys \cup ContractMetadataKeys),
             NEW env \in EnvValues \cup {None}, NEW upsert \in BOOLEAN,
             WriteMetadata(upsert, refs, metadata, env)
      PROVE  Inv'
  <2>1. PICK R \in SUBSET AddressRefKeys : refs \in [R -> Values]
    BY <1>4 DEF Bundles
  <2>2. PICK M \in SUBSET (ChainMetadataKeys \cup ContractMetadataKeys) :
          metadata \in [M -> Values]
    BY <1>4 DEF Bundles
  <2>3. R \in SUBSET Keys /\ M \in SUBSET Keys
    BY DEF Keys
  <2> DEFINE written == PutAll(PutAll(out, refs), metadata)
  <2>4. written \in Store
    BY <1>0, <2>1, <2>2, <2>3, PutAllType
  <2>6. SetEnv(written, env) \in Store
    BY <2>4 DEF SetEnv, Store
  <2> HIDE DEF written
  <2>5. ASSUME NEW before \in SUBSET (DOMAIN refs \ Live(out))
        PROVE  PutAll(out, [k \in before |-> refs[k]]) \in Store
    <3>1. before \in SUBSET Keys /\ [k \in before |-> refs[k]] \in [before -> Values]
      BY <2>1, <2>3
    <3> QED
      BY <1>0, <3>1, PutAllType
  <2> QED
    BY <1>4, <2>4, <2>5, <2>6, WriteInv DEF WriteMetadata, written
<1>5. ASSUME mergeDataStore
      PROVE  Inv'
  <2>1. Mergeable(state) /\ Merge(NewMemoryDataStore, state) = state
    BY DEF Inv, CloneExact, Clone
  <2>2. state' = Merge(state, out) /\ all' = Merge(all, out) /\ base' = base
          /\ out' = NewMemoryDataStore /\ Mergeable(out)
    BY <1>5, <2>1 DEF mergeDataStore
  <2>3. TypeOK'
    BY <1>0, <2>2, MergeType, NewStore DEF Inv, TypeOK
  <2>4. ChainedMerge'
    <3>1. state = Merge(base, all)
      BY DEF Inv, ChainedMerge
    <3>2. Merge(Merge(base, all), out) = Merge(base, Merge(all, out))
      BY <1>0, MergeAssociative
    <3> QED
      BY <2>2, <3>1, <3>2 DEF ChainedMerge
  <2>5. CloneExact'
    <3>1. Clean(state)
      BY <1>0, <2>1, CopyClean
    <3>2. Clean(Merge(state, out)) /\ Mergeable(Merge(state, out))
      BY <1>0, <2>1, <2>2, <3>1, MergeClean, MergeParses
    <3> QED
      BY <1>0, <2>2, <3>2, CopyClean, MergeType DEF CloneExact, Clone
  <2> QED
    BY <2>3, <2>4, <2>5 DEF Inv
<1>6. ASSUME mergeFails
      PROVE  Inv'
  BY <1>6, NewStore DEF mergeFails, Inv, TypeOK, ChainedMerge, CloneExact, Clone
<1>7. CASE UNCHANGED vars
  BY <1>7 DEF vars, Inv, TypeOK, ChainedMerge, CloneExact, Clone
<1> QED
  BY <1>1, <1>2, <1>3, <1>4, <1>5, <1>6, <1>7 DEF Next

\* Merging the outputs one by one is merging them together.
THEOREM ChainedCorrect == Spec => []ChainedMerge
<1>1. Inv => ChainedMerge
  BY DEF Inv
<1> QED
  BY <1>1, InitInv, NextInv, PTL DEF Spec

\* Cloning an environment never panics on its data store nor loses a record.
THEOREM CloneCorrect == Spec => []CloneExact
<1>1. Inv => CloneExact
  BY DEF Inv
<1> QED
  BY <1>1, InitInv, NextInv, PTL DEF Spec

\* Type correctness; the store an environment was loaded with never changes.
THEOREM TypeCorrect == Spec => []TypeOK
<1>1. Inv => TypeOK
  BY DEF Inv
<1> QED
  BY <1>1, InitInv, NextInv, PTL DEF Spec

-----------------------------------------------------------------------------
(* The loops of Merge.                                                     *)

\* Induction over the numbers, for a set of them.
LEMMA NatSet ==
  ASSUME NEW S, 0 \in S, \A n \in Nat : n \in S => n + 1 \in S
  PROVE  Nat \subseteq S
<1> SUFFICES ASSUME Nat \ S # {} PROVE FALSE OBVIOUS
<1> DEFINE T == Nat \ S
<1>1. PICK n \in T : \A m \in T : ~(<<m, n>> \in OpToRel(<, Nat))
  BY NatLessThanWellFounded, WFMin, Zenon
<1>2. n \in Nat /\ n # 0 /\ n \notin S OBVIOUS
<1>3. n - 1 \in Nat /\ n - 1 < n /\ (n - 1) + 1 = n BY <1>2
<1>4. <<n - 1, n>> \in OpToRel(<, Nat) BY <1>2, <1>3, Zenon DEF OpToRel
<1>5. n - 1 \in S BY <1>1, <1>3, <1>4
<1>6. (n - 1) + 1 \in S BY <1>3, <1>5
<1> QED BY <1>2, <1>3, <1>6

\* What a loop does with the elements of a finite set, as long as each round does
\* the same after the same: f and h are the results by the set of what is done.
LEMMA FoldUnique ==
  ASSUME NEW S, IsFiniteSet(S), NEW f, NEW h, f[{}] = h[{}],
         \A T \in SUBSET S : T # {} /\ f[T \ {CHOOSE x \in T : TRUE}] = h[T \ {CHOOSE x \in T : TRUE}]
           => f[T] = h[T]
  PROVE  f[S] = h[S]
<1> DEFINE N == {n \in Nat : \A T \in SUBSET S : Cardinality(T) = n => f[T] = h[T]}
<1>1. \A T \in SUBSET S : IsFiniteSet(T) /\ Cardinality(T) \in Nat BY FS_Subset, FS_CardinalityType
<1>2. 0 \in N
  <2>1. \A T \in SUBSET S : Cardinality(T) = 0 => T = {} BY <1>1, FS_EmptySet
  <2> QED BY <2>1
<1>3. ASSUME NEW n \in Nat, n \in N PROVE n + 1 \in N
  <2> SUFFICES ASSUME NEW T \in SUBSET S, Cardinality(T) = n + 1 PROVE f[T] = h[T] OBVIOUS
  <2> DEFINE x == CHOOSE x \in T : TRUE
  <2>1. IsFiniteSet(T) BY <1>1
  <2>2. T # {} BY <2>1, FS_EmptySet
  <2>3. x \in T BY <2>2
  <2> HIDE DEF x
  <2>4. T \ {x} \in SUBSET S /\ Cardinality(T \ {x}) = n
    <3>1. Cardinality(T \ {x}) = Cardinality(T) - 1 BY <2>1, <2>3, FS_RemoveElement
    <3> QED BY <3>1
  <2>5. f[T \ {x}] = h[T \ {x}] BY <1>3, <2>4
  <2> QED BY <2>2, <2>5 DEF x
<1>4. Nat \subseteq N
  <2> HIDE DEF N
  <2> QED BY <1>2, <1>3, NatSet
<1> QED BY <1>1, <1>4

\* A store by its parts.
Parts(recs, del, env) == [recs |-> recs, del |-> del, env |-> env]

\* d with the records of s at T.
Puts(d, s, T) ==
  Parts([k \in Keys |-> IF k \in T THEN s.recs[k] ELSE d.recs[k]], d.del \ T, d.env)

\* f is what the first loop of Merge makes of d, by the records that it has visited.
PutFold(f, d, s, S) ==
  f = [T \in SUBSET S |-> IF T = {} THEN d
        ELSE LET k == CHOOSE k \in T : TRUE IN Put(f[T \ {k}], k, s.recs[k])]

\* The first loop of Merge upserts all the records of s, in whatever order.
LEMMA PutLoop ==
  ASSUME NEW d \in Store, NEW s \in Store, NEW S \in SUBSET Keys, IsFiniteSet(S)
  PROVE  FoldSet(LAMBDA k, x : Put(x, k, s.recs[k]), d, S) = Puts(d, s, S)
<1> DEFINE h == [T \in SUBSET S |-> Puts(d, s, T)]
           f == CHOOSE f : PutFold(f, d, s, S)
<1>1. FoldSet(LAMBDA k, x : Put(x, k, s.recs[k]), d, S) = f[S]
  BY Zenon DEF FoldSet, MapThenFoldSet, PutFold
<1>2. Puts(d, s, {}) = d
  <2>1. d.recs = [k \in Keys |-> d.recs[k]] /\ d.del \ {} = d.del BY DEF Store
  <2> QED BY <2>1 DEF Puts, Parts, Store
<1>3. ASSUME NEW T \in SUBSET S, NEW k \in T PROVE Put(Puts(d, s, T \ {k}), k, s.recs[k]) = Puts(d, s, T)
  <2> DEFINE r == [q \in Keys |-> IF q \in T \ {k} THEN s.recs[q] ELSE d.recs[q]]
             e == [q \in Keys |-> IF q \in T THEN s.recs[q] ELSE d.recs[q]]
             b == d.del \ (T \ {k})
             c == d.del \ T
             x == s.recs[k]
  <2>1. Puts(d, s, T \ {k}) = Parts(r, b, d.env) /\ Puts(d, s, T) = Parts(e, c, d.env)
    BY Zenon DEF Puts
  <2>2. e = [r EXCEPT ![k] = x] OBVIOUS
  <2>3. c = b \ {k} OBVIOUS
  <2> HIDE DEF r, e, b, c, x
  <2> DEFINE v == d.env
  <2> HIDE DEF v
  <2> DEFINE t == [recs |-> r, del |-> b, env |-> v]
  <2>4. Put(t, k, x) = [t EXCEPT !.recs = [r EXCEPT ![k] = x], !.del = b \ {k}] BY DEF Put
  <2>5. Put(Parts(r, b, v), k, x) = Parts(e, c, v) BY <2>2, <2>3, <2>4 DEF Parts
  <2> QED BY <2>1, <2>5, Zenon DEF x, v
<1>4. PutFold(h, d, s, S)
  <2>1. ASSUME NEW T \in SUBSET S, T # {}
        PROVE  h[T] = LET k == CHOOSE k \in T : TRUE IN Put(h[T \ {k}], k, s.recs[k])
    <3> DEFINE k == CHOOSE k \in T : TRUE
    <3>1. k \in T BY <2>1
    <3> HIDE DEF k
    <3>2. T \ {k} \in SUBSET S OBVIOUS
    <3>3. h[T] = Put(h[T \ {k}], k, s.recs[k]) BY <1>3, <3>1, <3>2
    <3> QED BY <3>3 DEF k
  <2>2. h[{}] = d BY <1>2
  <2>3. h = [T \in SUBSET S |-> h[T]] OBVIOUS
  <2> HIDE DEF h
  <2>4. h = [T \in SUBSET S |-> IF T = {} THEN d
              ELSE LET k == CHOOSE k \in T : TRUE IN Put(h[T \ {k}], k, s.recs[k])]
    BY <2>1, <2>2, <2>3
  <2> QED BY <2>4, Zenon DEF PutFold
<1>5. PutFold(f, d, s, S) BY <1>4, Zenon
<1> HIDE DEF f
<1>6. \A T \in SUBSET S : f[T] = IF T = {} THEN d
        ELSE LET k == CHOOSE k \in T : TRUE IN Put(f[T \ {k}], k, s.recs[k])
  BY <1>5, Zenon DEF PutFold
<1>7. \A T \in SUBSET S : h[T] = IF T = {} THEN d
        ELSE LET k == CHOOSE k \in T : TRUE IN Put(h[T \ {k}], k, s.recs[k])
  <2> HIDE DEF h
  <2> QED BY <1>4, Zenon DEF PutFold
<1>8. f[S] = h[S]
  <2> HIDE DEF h
  <2>1. f[{}] = h[{}] BY <1>6, <1>7
  <2>2. \A T \in SUBSET S : T # {} /\ f[T \ {CHOOSE x \in T : TRUE}] = h[T \ {CHOOSE x \in T : TRUE}]
          => f[T] = h[T]
    BY <1>6, <1>7, Zenon
  <2> QED BY <2>1, <2>2, FoldUnique
<1> QED BY <1>1, <1>8

\* d without the records at T, which are staged for deletion.
Deletes(d, T) ==
  Parts([k \in Keys |-> IF k \in T THEN None ELSE d.recs[k]], d.del \cup T, d.env)

\* f is what the second loop of Merge makes of d, by the keys that it has visited.
DeleteFold(f, d, S) ==
  f = [T \in SUBSET S |-> IF T = {} THEN d
        ELSE LET k == CHOOSE k \in T : TRUE IN Delete(RemoteDelete(f[T \ {k}], k), k)]

\* The second loop of Merge carries out and stages all the deletions of s.
LEMMA DeleteLoop ==
  ASSUME NEW d \in Store, NEW S \in SUBSET Keys, IsFiniteSet(S)
  PROVE  FoldSet(LAMBDA k, x : Delete(RemoteDelete(x, k), k), d, S) = Deletes(d, S)
<1> DEFINE h == [T \in SUBSET S |-> Deletes(d, T)]
           f == CHOOSE f : DeleteFold(f, d, S)
<1>1. FoldSet(LAMBDA k, x : Delete(RemoteDelete(x, k), k), d, S) = f[S]
  BY Zenon DEF FoldSet, MapThenFoldSet, DeleteFold
<1>2. Deletes(d, {}) = d
  <2>1. d.recs = [k \in Keys |-> d.recs[k]] /\ d.del \cup {} = d.del BY DEF Store
  <2> QED BY <2>1 DEF Deletes, Parts, Store
<1>3. ASSUME NEW T \in SUBSET S, NEW k \in T
      PROVE  Delete(RemoteDelete(Deletes(d, T \ {k}), k), k) = Deletes(d, T)
  <2> DEFINE r == [q \in Keys |-> IF q \in T \ {k} THEN None ELSE d.recs[q]]
             e == [q \in Keys |-> IF q \in T THEN None ELSE d.recs[q]]
             b == d.del \cup (T \ {k})
             c == d.del \cup T
  <2>1. Deletes(d, T \ {k}) = Parts(r, b, d.env) /\ Deletes(d, T) = Parts(e, c, d.env)
    BY Zenon DEF Deletes
  <2>2. e = [r EXCEPT ![k] = None] OBVIOUS
  <2>3. c = b \cup {k} OBVIOUS
  <2> HIDE DEF r, e, b, c
  <2> DEFINE v == d.env
  <2> HIDE DEF v
  <2>4. RemoteDelete([recs |-> r, del |-> b, env |-> v], k) = [recs |-> r, del |-> c, env |-> v]
    BY <2>3 DEF RemoteDelete
  <2>5. Delete([recs |-> r, del |-> c, env |-> v], k)
          = [recs |-> [r EXCEPT ![k] = None], del |-> c, env |-> v]
    BY DEF Delete
  <2>6. Delete(RemoteDelete(Parts(r, b, v), k), k) = Parts(e, c, v)
    BY <2>2, <2>4, <2>5 DEF Parts
  <2> QED BY <2>1, <2>6, Zenon DEF v
<1>4. DeleteFold(h, d, S)
  <2>1. ASSUME NEW T \in SUBSET S, T # {}
        PROVE  h[T] = LET k == CHOOSE k \in T : TRUE IN Delete(RemoteDelete(h[T \ {k}], k), k)
    <3> DEFINE k == CHOOSE k \in T : TRUE
    <3>1. k \in T BY <2>1
    <3> HIDE DEF k
    <3>2. T \ {k} \in SUBSET S OBVIOUS
    <3>3. h[T] = Delete(RemoteDelete(h[T \ {k}], k), k) BY <1>3, <3>1, <3>2
    <3> QED BY <3>3 DEF k
  <2>2. h[{}] = d BY <1>2
  <2>3. h = [T \in SUBSET S |-> h[T]] OBVIOUS
  <2> HIDE DEF h
  <2>4. h = [T \in SUBSET S |-> IF T = {} THEN d
              ELSE LET k == CHOOSE k \in T : TRUE IN Delete(RemoteDelete(h[T \ {k}], k), k)]
    BY <2>1, <2>2, <2>3
  <2> QED BY <2>4, Zenon DEF DeleteFold
<1>5. DeleteFold(f, d, S) BY <1>4, Zenon
<1> HIDE DEF f
<1>6. \A T \in SUBSET S : f[T] = IF T = {} THEN d
        ELSE LET k == CHOOSE k \in T : TRUE IN Delete(RemoteDelete(f[T \ {k}], k), k)
  BY <1>5, Zenon DEF DeleteFold
<1>7. \A T \in SUBSET S : h[T] = IF T = {} THEN d
        ELSE LET k == CHOOSE k \in T : TRUE IN Delete(RemoteDelete(h[T \ {k}], k), k)
  <2> HIDE DEF h
  <2> QED BY <1>4, Zenon DEF DeleteFold
<1>8. f[S] = h[S]
  <2> HIDE DEF h
  <2>1. f[{}] = h[{}] BY <1>6, <1>7
  <2>2. \A T \in SUBSET S : T # {} /\ f[T \ {CHOOSE x \in T : TRUE}] = h[T \ {CHOOSE x \in T : TRUE}]
          => f[T] = h[T]
    BY <1>6, <1>7, Zenon
  <2> QED BY <2>1, <2>2, FoldUnique
<1> QED BY <1>1, <1>8

\* The loops of Merge, over a source with finitely many records and staged
\* deletions, compute Merge.
LEMMA LoopIsMerge ==
  ASSUME NEW d \in Store, NEW s \in Store, IsFiniteSet(Keys)
  PROVE  MergeLoop(d, s) = Merge(d, s)
<1> DEFINE u == FoldSet(LAMBDA k, x : Put(x, k, s.recs[k]), d, Live(s))
           v == FoldSet(LAMBDA k, x : Delete(RemoteDelete(x, k), k), u, s.del)
<1>1. /\ Live(s) \in SUBSET Keys /\ s.del \in SUBSET Keys
      /\ IsFiniteSet(Live(s)) /\ IsFiniteSet(s.del)
  BY FS_Subset DEF Live, Store
<1>2. MergeLoop(d, s) = IF s.env = None THEN v ELSE SetEnv(v, s.env) BY DEF MergeLoop
<1>3. u = Puts(d, s, Live(s)) BY <1>1, PutLoop
<1> DEFINE r == [k \in Keys |-> IF k \in Live(s) THEN s.recs[k] ELSE d.recs[k]]
           e == [k \in Keys |-> IF k \in s.del THEN None
                                ELSE IF k \in Live(s) THEN s.recs[k] ELSE d.recs[k]]
<1>4. Puts(d, s, Live(s)) = Parts(r, d.del \ Live(s), d.env)
  BY Zenon DEF Puts
<1>5. u \in Store
  <2>1. r \in [Keys -> Values \cup {None}] BY DEF Store
  <2> HIDE DEF u, r
  <2> QED BY <1>3, <1>4, <2>1 DEF Store, Parts
<1>6. v = Deletes(u, s.del)
  <2> HIDE DEF u
  <2> QED BY <1>1, <1>5, DeleteLoop
<1> HIDE DEF u, v
<1>7. v = Parts(e, (d.del \ Live(s)) \cup s.del, d.env)
  <2>1. [k \in Keys |-> IF k \in s.del THEN None ELSE r[k]] = e OBVIOUS
  <2>2. u = Parts(r, d.del \ Live(s), d.env) BY <1>3, <1>4
  <2> HIDE DEF r, e
  <2>3. u.recs = r /\ u.del = d.del \ Live(s) /\ u.env = d.env BY <2>2 DEF Parts
  <2> QED BY <1>6, <2>1, <2>3 DEF Deletes
<1>8. Merge(d, s) = Parts(e, (d.del \ Live(s)) \cup s.del, IF s.env = None THEN d.env ELSE s.env)
  BY DEF Merge, Parts
<1> HIDE DEF r, e
<1> QED BY <1>2, <1>7, <1>8 DEF SetEnv, Parts

\* MemoryDataStore.Merge, in which records and staged deletions are visited one by
\* one, yields what is said of it by keys: Merge is used for it everywhere else.
\* A slice is finite.
THEOREM MergeCorrect ==
  ASSUME IsFiniteSet(Keys)
  PROVE  Spec => []MergeIsLoop
<1>1. TypeOK => MergeIsLoop BY LoopIsMerge DEF TypeOK, MergeIsLoop
<1>2. Spec => []TypeOK BY TypeCorrect
<1> QED BY <1>1, <1>2, PTL

-----------------------------------------------------------------------------
(* The in-memory catalog.                                                  *)

Numbered == Routines \X Nat
Content == SUBSET ({Seed} \cup Numbered)
Catalog == [CatKeys -> Content]
Operation == [frame : Nat, kind : Kinds, key : CatKeys, write : Numbered, record : Content]
Transaction == [data : Catalog, ops : Seq(Operation), read : SUBSET CatKeys, stale : BOOLEAN]

CatType ==
  /\ catalog \in Catalog
  /\ frames \in [Routines -> Seq(Transaction)] /\ \A g \in Routines : Top(g) > 0
  /\ doing \in [Routines -> {<< >>} \cup {<<d>> : d \in Operation}]
  /\ writes \in [Routines -> Nat]
  /\ undone \subseteq Numbered

\* The writes that are over, the one in progress left out.
IsPast(w) ==
  \/ w = Seed
  \/ w[1] \in Routines /\ w[2] \in 1..writes[w[1]] /\ (doing[w[1]] # << >> => w[2] # writes[w[1]])

\* What the catalog holds stems from writes that are over, each of which was made
\* in one transaction at most; an operation has the last number of its goroutine.
WritesSound ==
  /\ \A k \in CatKeys : \A w \in catalog[k] : IsPast(w)
  /\ \A w \in undone : IsPast(w) /\ w # Seed
  /\ \A g \in Routines : \A f \in 1..Top(g) :
       /\ \A k \in CatKeys : \A w \in frames[g][f].data[k] : IsPast(w)
       /\ \A w \in OpsOf(frames[g][f]) : w[1] = g /\ w # Seed /\ IsPast(w) /\ w \notin undone
       /\ \A i \in 1..Top(g) : i # f => OpsOf(frames[g][f]) \cap OpsOf(frames[g][i]) = {}
  /\ \A g \in Routines :
       /\ frames[g][1].ops = << >> /\ \A k \in CatKeys : frames[g][1].data[k] = {}
       /\ doing[g] # << >> =>
            /\ doing[g][1].frame \in 1..Top(g)
            /\ doing[g][1].write = <<g, writes[g]>> /\ writes[g] > 0
            /\ doing[g][1].write \in doing[g][1].record
            /\ \A w \in doing[g][1].record : IsPast(w) \/ w = doing[g][1].write

\* Frame f of g may see w: it is not undone, and made by no other transaction.
MaySee(g, f, w) ==
  /\ w \notin undone
  /\ \A h \in Routines : \A i \in 1..Top(h) : w \in OpsOf(frames[h][i]) => h = g /\ i = f

SeesSound ==
  \A g \in Routines :
    /\ \A k \in CatKeys : \A w \in catalog[k] : MaySee(g, 1, w)
    /\ \A f \in 1..Top(g) : \A k \in CatKeys : \A w \in frames[g][f].data[k] : MaySee(g, f, w)
    /\ doing[g] # << >> => \A w \in doing[g][1].record : MaySee(g, doing[g][1].frame, w)

\* What transaction t makes of the catalog c.
Overlay(c, t) == [k \in CatKeys |-> IF t.data[k] # {} THEN t.data[k] ELSE c[k]]

\* The catalogs in which t would have read the same as in b.
Alike(b, t) == {c \in Catalog : \A k \in t.read : c[k] = b[k]}

\* A transaction that is not stale could be made as one, and an operation in it
\* that has read need not read again.
ReplaySound(b, t) ==
  ~t.stale => \A c \in Alike(b, t) :
    Replay([catalog |-> c, legal |-> TRUE], t.ops) = [catalog |-> Overlay(c, t), legal |-> TRUE]

ReadSound(b, d, t) ==
  ~t.stale => \A c \in Alike(b, t) : Outcome(d.kind, Overlay(c, t)[d.key], d.write) = <<d.record>>

SerialSound ==
  /\ \A g \in Routines :
       /\ \A f \in 1..Top(g) : ReplaySound(catalog, frames[g][f])
       /\ doing[g] # << >> => ReadSound(catalog, doing[g][1], frames[g][doing[g][1].frame])
  /\ Serializable

CatInv == CatType /\ WritesSound /\ SeesSound /\ SerialSound

\* o is fs, but for transactions of fs that have read from K: they are stale in o.
Marked(o, fs, K) ==
  /\ o \in [Routines -> Seq(Transaction)]
  /\ \A g \in Routines :
       /\ Len(o[g]) = Len(fs[g]) /\ Len(fs[g]) \in Nat
       /\ \A f \in 1..Len(fs[g]) :
            /\ o[g][f].data = fs[g][f].data
            /\ o[g][f].ops = fs[g][f].ops
            /\ o[g][f].read = fs[g][f].read
            /\ o[g][f].stale = (fs[g][f].stale \/ fs[g][f].read \cap K # {})

\* Marking transactions as stale leaves the rest of them alone.
LEMMA OvertakeSame ==
  ASSUME NEW fs \in [Routines -> Seq(Transaction)], NEW K
  PROVE  Marked(Overtake(fs, K), fs, K)
<1> DEFINE o == Overtake(fs, K)
           T(t) == [t EXCEPT !.stale = @ \/ t.read \cap K # {}]
<1>1. o = [g \in Routines |-> [f \in DOMAIN fs[g] |-> T(fs[g][f])]] BY DEF Overtake
<1>2. ASSUME NEW t \in Transaction
      PROVE  /\ T(t) \in Transaction /\ T(t).data = t.data /\ T(t).ops = t.ops /\ T(t).read = t.read
             /\ T(t).stale = (t.stale \/ t.read \cap K # {})
  <2> DEFINE b == t.stale \/ t.read \cap K # {}
  <2>1. b \in BOOLEAN BY DEF Transaction
  <2>2. T(t) = [t EXCEPT !.stale = b] OBVIOUS
  <2> HIDE DEF b
  <2>3. /\ [t EXCEPT !.stale = b] \in Transaction /\ [t EXCEPT !.stale = b].data = t.data
        /\ [t EXCEPT !.stale = b].ops = t.ops /\ [t EXCEPT !.stale = b].read = t.read
        /\ [t EXCEPT !.stale = b].stale = b
    BY <2>1 DEF Transaction
  <2> QED BY <2>2, <2>3 DEF b
<1> HIDE DEF o, T
<1>3. ASSUME NEW g \in Routines
      PROVE  /\ o[g] \in Seq(Transaction) /\ Len(o[g]) = Len(fs[g]) /\ Len(fs[g]) \in Nat
             /\ \A f \in 1..Len(fs[g]) : o[g][f] = T(fs[g][f]) /\ fs[g][f] \in Transaction
  <2>1. fs[g] \in Seq(Transaction) /\ DOMAIN fs[g] = 1..Len(fs[g]) /\ Len(fs[g]) \in Nat OBVIOUS
  <2>2. \A f \in 1..Len(fs[g]) : fs[g][f] \in Transaction BY <2>1
  <2>3. o[g] = [f \in 1..Len(fs[g]) |-> T(fs[g][f])] BY <1>1, <2>1
  <2>4. o[g] \in [1..Len(fs[g]) -> Transaction] BY <1>2, <2>2, <2>3
  <2> QED BY <2>1, <2>2, <2>3, <2>4
<1>4. o \in [Routines -> Seq(Transaction)] BY <1>1, <1>3
<1>5. ASSUME NEW g \in Routines, NEW f \in 1..Len(fs[g])
      PROVE  /\ o[g][f].data = fs[g][f].data /\ o[g][f].ops = fs[g][f].ops
             /\ o[g][f].read = fs[g][f].read
             /\ o[g][f].stale = (fs[g][f].stale \/ fs[g][f].read \cap K # {})
  <2> DEFINE t == fs[g][f]
  <2>1. t \in Transaction /\ o[g][f] = T(t) BY <1>3
  <2> HIDE DEF t
  <2>2. /\ T(t).data = t.data /\ T(t).ops = t.ops /\ T(t).read = t.read
        /\ T(t).stale = (t.stale \/ t.read \cap K # {})
    BY <1>2, <2>1
  <2>3. /\ o[g][f].data = t.data /\ o[g][f].ops = t.ops /\ o[g][f].read = t.read
        /\ o[g][f].stale = (t.stale \/ t.read \cap K # {})
    BY <2>1, <2>2, Zenon
  <2> QED BY <2>3 DEF t
<1> QED BY <1>3, <1>4, <1>5 DEF o, Marked

\* The writes of a transaction that has just begun, and of one with another one.
LEMMA OpsFacts ==
  /\ NewTransaction \in Transaction /\ OpsOf(NewTransaction) = {}
  /\ \A t \in Transaction : \A u : u.ops = t.ops => OpsOf(u) = OpsOf(t)
  /\ \A t \in Transaction, d \in Operation : \A u :
       u.ops = Append(t.ops, d) => OpsOf(u) = OpsOf(t) \cup {d.write}
<1>1. NewTransaction \in Transaction
  BY DEF NewTransaction, Transaction, Catalog, Content
<1>2. OpsOf(NewTransaction) = {} BY DEF NewTransaction, OpsOf
<1>3. \A t \in Transaction : \A u : u.ops = t.ops => OpsOf(u) = OpsOf(t) BY DEF OpsOf
<1>4. ASSUME NEW t \in Transaction, NEW d \in Operation, NEW u, u.ops = Append(t.ops, d)
      PROVE  OpsOf(u) = OpsOf(t) \cup {d.write}
  <2>1. t.ops \in Seq(Operation) /\ Len(t.ops) \in Nat /\ DOMAIN t.ops = 1..Len(t.ops)
    BY DEF Transaction
  <2>2. /\ DOMAIN u.ops = 1..(Len(t.ops) + 1) /\ u.ops[Len(t.ops) + 1] = d
        /\ \A i \in DOMAIN t.ops : u.ops[i] = t.ops[i]
    BY <1>4, <2>1
  <2>3. \A i \in 1..(Len(t.ops) + 1) : i \in DOMAIN t.ops \/ i = Len(t.ops) + 1 BY <2>1
  <2>4. Len(t.ops) + 1 \in DOMAIN u.ops /\ \A i \in DOMAIN t.ops : i \in DOMAIN u.ops BY <2>1, <2>2
  <2> QED BY <2>2, <2>3, <2>4 DEF OpsOf
<1> QED BY <1>1, <1>2, <1>3, <1>4

\* f is the catalog after each of the operations.
Replays(f, s, ops) ==
  f = [n \in 0..Len(ops) |-> IF n = 0 THEN s ELSE Perform(f[n - 1], ops[n])]

\* There is one such f, however many operations there are.
LEMMA ReplayUnique ==
  ASSUME NEW s, NEW ops, Len(ops) \in Nat, NEW f, Replays(f, s, ops), NEW T, NEW more \in Seq(T),
         NEW g, Replays(g, s, more), Len(ops) <= Len(more), \A n \in 1..Len(ops) : ops[n] = more[n]
  PROVE  \A n \in 0..Len(ops) : f[n] = g[n]
<1>1. /\ f = [n \in 0..Len(ops) |-> IF n = 0 THEN s ELSE Perform(f[n - 1], ops[n])]
      /\ g = [n \in 0..Len(more) |-> IF n = 0 THEN s ELSE Perform(g[n - 1], more[n])]
  BY Zenon DEF Replays
<1>2. \A n \in 0..Len(ops) : f[n] = IF n = 0 THEN s ELSE Perform(f[n - 1], ops[n])
  BY <1>1, Zenon
<1>3. \A n \in 0..Len(more) : g[n] = IF n = 0 THEN s ELSE Perform(g[n - 1], more[n])
  BY <1>1, Zenon
<1> DEFINE S == {n \in Nat : n <= Len(ops) => f[n] = g[n]}
<1>4. 0 \in S BY <1>2, <1>3
<1>5. ASSUME NEW n \in Nat, n \in S PROVE n + 1 \in S
  <2> SUFFICES ASSUME n + 1 <= Len(ops) PROVE f[n + 1] = g[n + 1] OBVIOUS
  <2>1. /\ n + 1 \in 0..Len(ops) /\ n + 1 \in 0..Len(more) /\ n + 1 # 0 /\ (n + 1) - 1 = n
        /\ n + 1 \in 1..Len(ops) /\ n <= Len(ops)
    OBVIOUS
  <2>2. f[n + 1] = Perform(f[n], ops[n + 1]) BY <1>2, <2>1
  <2>3. g[n + 1] = Perform(g[n], more[n + 1]) BY <1>3, <2>1
  <2>4. f[n] = g[n] /\ ops[n + 1] = more[n + 1] BY <1>5, <2>1
  <2> QED BY <2>2, <2>3, <2>4
<1>6. Nat \subseteq S
  <2> HIDE DEF S
  <2> QED BY <1>4, <1>5, NatSet
<1> QED BY <1>6

\* Operations are performed in their order: none leave the catalog, and a last one
\* is performed on what the others leave.
LEMMA ReplayFacts ==
  ASSUME NEW s
  PROVE  /\ Replay(s, << >>) = s
         /\ \A ops \in Seq(Operation), d \in Operation :
              Replay(s, Append(ops, d)) = Perform(Replay(s, ops), d)
<1>1. ASSUME NEW ops \in Seq(Operation) PROVE \E f : Replays(f, s, ops)
  <2> DEFINE S == {m \in Nat : \A p \in Seq(Operation) : Len(p) = m => \E f : Replays(f, s, p)}
  <2>1. 0 \in S
    <3> SUFFICES ASSUME NEW p \in Seq(Operation), Len(p) = 0 PROVE \E f : Replays(f, s, p) OBVIOUS
    <3> DEFINE e == [n \in 0..0 |-> s]
    <3>1. e = [n \in 0..Len(p) |-> IF n = 0 THEN s ELSE Perform(e[n - 1], p[n])] OBVIOUS
    <3> QED BY <3>1 DEF Replays
  <2>2. ASSUME NEW m \in Nat, m \in S PROVE m + 1 \in S
    <3> SUFFICES ASSUME NEW p \in Seq(Operation), Len(p) = m + 1 PROVE \E f : Replays(f, s, p)
      OBVIOUS
    <3> DEFINE q == SubSeq(p, 1, m)
    <3>1. q \in Seq(Operation) /\ Len(q) = m /\ \A n \in 1..m : q[n] = p[n] OBVIOUS
    <3> HIDE DEF q
    <3>2. PICK f : Replays(f, s, q) BY <2>2, <3>1
    <3>3. f = [n \in 0..m |-> IF n = 0 THEN s ELSE Perform(f[n - 1], q[n])]
      BY <3>1, <3>2 DEF Replays
    <3>4. \A n \in 0..m : f[n] = IF n = 0 THEN s ELSE Perform(f[n - 1], q[n]) BY <3>3, Zenon
    <3> DEFINE last == Perform(f[m], p[m + 1])
               h == [n \in 0..(m + 1) |-> IF n = m + 1 THEN last ELSE f[n]]
    <3> HIDE DEF last
    <3>5. /\ h[m + 1] = last /\ \A n \in 0..m : h[n] = f[n]
          /\ h = [n \in 0..(m + 1) |-> h[n]]
      OBVIOUS
    <3> HIDE DEF h
    <3>6. ASSUME NEW n \in 0..(m + 1)
          PROVE  h[n] = IF n = 0 THEN s ELSE Perform(h[n - 1], p[n])
      <4>1. CASE n = m + 1
        <5>1. n # 0 /\ n - 1 = m /\ m \in 0..m BY <4>1
        <5>2. h[n] = last /\ h[n - 1] = f[m] BY <3>5, <4>1, <5>1
        <5> QED BY <4>1, <5>1, <5>2 DEF last
      <4>2. CASE n # m + 1
        <5>1. n \in 0..m /\ (n # 0 => n - 1 \in 0..m /\ n \in 1..m) BY <4>2
        <5>2. h[n] = f[n] /\ (n # 0 => h[n - 1] = f[n - 1] /\ q[n] = p[n]) BY <3>1, <3>5, <5>1
        <5> QED BY <3>4, <5>1, <5>2
      <4> QED BY <4>1, <4>2
    <3>7. h = [n \in 0..Len(p) |-> IF n = 0 THEN s ELSE Perform(h[n - 1], p[n])] BY <3>5, <3>6
    <3> QED BY <3>7, Zenon DEF Replays
  <2>3. Nat \subseteq S
    <3> HIDE DEF S
    <3> QED BY <2>1, <2>2, NatSet
  <2>4. Len(ops) \in Nat OBVIOUS
  <2> QED BY <2>3, <2>4
<1>2. ASSUME NEW ops \in Seq(Operation)
      PROVE  \E f : Replays(f, s, ops) /\ Replay(s, ops) = f[Len(ops)]
  <2> DEFINE f == CHOOSE f : Replays(f, s, ops)
  <2>1. Replays(f, s, ops) BY <1>1, Zenon
  <2>2. Replay(s, ops) = f[Len(ops)] BY Zenon DEF Replay, Replays
  <2> QED BY <2>1, <2>2, Zenon
<1>3. Replay(s, << >>) = s
  <2>1. << >> \in Seq(Operation) /\ Len(<< >>) = 0 OBVIOUS
  <2>2. PICK f : Replays(f, s, << >>) /\ Replay(s, << >>) = f[0] BY <1>2, <2>1
  <2>3. f = [n \in 0..0 |-> IF n = 0 THEN s ELSE Perform(f[n - 1], << >>[n])]
    BY <2>1, <2>2 DEF Replays
  <2> QED BY <2>2, <2>3
<1>4. ASSUME NEW ops \in Seq(Operation), NEW d \in Operation
      PROVE  Replay(s, Append(ops, d)) = Perform(Replay(s, ops), d)
  <2> DEFINE more == Append(ops, d)
             n == Len(ops)
  <2>1. /\ more \in Seq(Operation) /\ Len(more) = n + 1 /\ n \in Nat /\ more[n + 1] = d
        /\ \A i \in 1..n : ops[i] = more[i]
    OBVIOUS
  <2> HIDE DEF more
  <2>2. PICK f : Replays(f, s, ops) /\ Replay(s, ops) = f[n] BY <1>2
  <2>3. PICK g : Replays(g, s, more) /\ Replay(s, more) = g[n + 1] BY <1>2, <2>1
  <2>4. n <= Len(more) /\ n \in 0..n BY <2>1
  <2>5. f[n] = g[n] BY <2>1, <2>2, <2>3, <2>4, ReplayUnique
  <2>6. g = [i \in 0..(n + 1) |-> IF i = 0 THEN s ELSE Perform(g[i - 1], more[i])]
    BY <2>1, <2>3 DEF Replays
  <2>7. g[n + 1] = Perform(g[n], d)
    <3>1. n + 1 \in 0..(n + 1) /\ n + 1 # 0 /\ (n + 1) - 1 = n BY <2>1
    <3>2. g[n + 1] = IF n + 1 = 0 THEN s ELSE Perform(g[(n + 1) - 1], more[n + 1])
      BY <2>6, <3>1, Zenon
    <3> QED BY <2>1, <3>1, <3>2
  <2> QED BY <2>2, <2>3, <2>5, <2>7 DEF more
<1> QED BY <1>3, <1>4

\* Nothing is written at first, and nothing is buffered.
LEMMA CatInitSound == CatInit => CatInv
<1> SUFFICES ASSUME CatInit PROVE CatInv OBVIOUS
<1>1. /\ catalog \in [CatKeys -> {{}, {Seed}}] /\ undone = {} /\ ~overtaken
      /\ serial = [catalog |-> catalog, legal |-> TRUE]
      /\ \A g \in Routines : /\ frames[g] = <<NewTransaction>> /\ Top(g) = 1
                             /\ \A f \in 1..Top(g) : f = 1 /\ frames[g][f] = NewTransaction
                             /\ doing[g] = << >> /\ writes[g] = 0
  BY DEF CatInit, Top
<1>2. CatType
  <2>1. <<NewTransaction>> \in Seq(Transaction) BY OpsFacts
  <2>2. catalog \in Catalog BY <1>1 DEF Catalog, Content
  <2> QED BY <1>1, <2>1, <2>2 DEF CatType, CatInit
<1>3. /\ NewTransaction.ops = << >> /\ \A k \in CatKeys : NewTransaction.data[k] = {}
      /\ OpsOf(NewTransaction) = {}
  BY OpsFacts DEF NewTransaction
<1>4. WritesSound BY <1>1, <1>3 DEF WritesSound, IsPast
<1>5. SeesSound BY <1>1, <1>3 DEF SeesSound, MaySee
<1>6. ASSUME NEW c \in Catalog
      PROVE  /\ Replay([catalog |-> c, legal |-> TRUE], << >>) = [catalog |-> c, legal |-> TRUE]
             /\ Overlay(c, NewTransaction) = c
  BY <1>3, ReplayFacts DEF Overlay, Catalog
<1>7. ReplaySound(catalog, NewTransaction) BY <1>3, <1>6 DEF ReplaySound, Alike
<1>8. SerialSound BY <1>1, <1>7 DEF SerialSound, Serializable
<1> QED BY <1>2, <1>4, <1>5, <1>8 DEF CatInv

\* What is said of a transaction stays true when it reads more or becomes stale.
LEMMA SameTransaction ==
  ASSUME NEW b, NEW t, NEW u, u.data = t.data, u.ops = t.ops, t.read \subseteq u.read, t.stale => u.stale
  PROVE  /\ ReplaySound(b, t) => ReplaySound(b, u)
         /\ \A d : ReadSound(b, d, t) => ReadSound(b, d, u)
<1>1. Alike(b, u) \subseteq Alike(b, t) /\ \A c : Overlay(c, u) = Overlay(c, t)
  BY DEF Alike, Overlay
<1> QED BY <1>1 DEF ReplaySound, ReadSound

\* A transaction begins.
LEMMA BeginStep ==
  ASSUME CatInv, NEW g \in Routines, BeginTransaction(g)
  PROVE  CatInv'
<1>1. /\ doing[g] = << >> /\ frames' = [frames EXCEPT ![g] = Append(@, NewTransaction)]
      /\ UNCHANGED <<catalog, doing, writes, undone, serial, overtaken>>
  BY DEF BeginTransaction
<1>2. CatType'
  <2>1. Append(frames[g], NewTransaction) \in Seq(Transaction) BY OpsFacts DEF CatInv, CatType
  <2>2. frames' \in [Routines -> Seq(Transaction)] BY <1>1, <2>1 DEF CatInv, CatType
  <2>3. \A h \in Routines : Len(frames'[h]) > 0 BY <1>1 DEF CatInv, CatType, Top
  <2> QED BY <1>1, <2>2, <2>3 DEF CatInv, CatType, Top
<1>3. ASSUME NEW h \in Routines
      PROVE  /\ Top(h) \in Nat /\ Top(h)' = IF h = g THEN Top(g) + 1 ELSE Top(h)
             /\ \A f \in 1..Top(h) : frames'[h][f] = frames[h][f]
             /\ h = g => frames'[g][Top(g) + 1] = NewTransaction
  BY <1>1 DEF CatInv, CatType, Top
<1>4. \A h \in Routines : \A f \in 1..Top(h)' :
         \/ f \in 1..Top(h) /\ frames'[h][f] = frames[h][f]
         \/ h = g /\ frames'[h][f] = NewTransaction /\ f = Top(g) + 1
  BY <1>3
<1>5. ASSUME NEW h \in Routines
      PROVE  1 \in 1..Top(h) /\ 1 \in 1..Top(h)' /\ \A f \in 1..Top(h) : f \in 1..Top(h)'
  <2>1. Top(h) \in Nat /\ Top(h) > 0 /\ (Top(h)' = Top(h) \/ Top(h)' = Top(h) + 1)
    BY <1>3 DEF CatInv, CatType
  <2> QED BY <2>1
<1>6. /\ NewTransaction.ops = << >> /\ \A k \in CatKeys : NewTransaction.data[k] = {}
      /\ OpsOf(NewTransaction) = {}
  BY OpsFacts DEF NewTransaction
<1>7. WritesSound'
  <2>1. \A w : IsPast(w) => IsPast(w)' BY <1>1 DEF IsPast
  <2>2. ASSUME NEW h \in Routines, NEW f \in 1..Top(h)'
        PROVE  /\ \A k \in CatKeys : \A w \in frames'[h][f].data[k] : IsPast(w)'
               /\ \A w \in OpsOf(frames'[h][f]) : w[1] = h /\ w # Seed /\ IsPast(w)' /\ w \notin undone'
               /\ \A i \in 1..Top(h)' : i # f => OpsOf(frames'[h][f]) \cap OpsOf(frames'[h][i]) = {}
    <3>1. CASE f \in 1..Top(h) /\ frames'[h][f] = frames[h][f]
      <4>1. /\ \A k \in CatKeys : \A w \in frames[h][f].data[k] : IsPast(w)
            /\ \A w \in OpsOf(frames[h][f]) : w[1] = h /\ w # Seed /\ IsPast(w) /\ w \notin undone
            /\ \A i \in 1..Top(h) : i # f => OpsOf(frames[h][f]) \cap OpsOf(frames[h][i]) = {}
        BY <3>1 DEF CatInv, WritesSound
      <4> QED BY <1>1, <1>4, <1>6, <2>1, <3>1, <4>1
    <3>2. CASE frames'[h][f] = NewTransaction BY <1>6, <3>2
    <3> QED BY <1>4, <3>1, <3>2
  <2>3. ASSUME NEW h \in Routines
        PROVE  /\ frames'[h][1] = frames[h][1]
               /\ doing'[h] # << >> => doing'[h][1].frame \in 1..Top(h)'
    BY <1>1, <1>3, <1>5 DEF CatInv, WritesSound
  <2> QED BY <1>1, <2>1, <2>2, <2>3 DEF CatInv, WritesSound
<1>8. SeesSound'
  <2>1. ASSUME NEW h \in Routines, NEW f, NEW w, MaySee(h, f, w) PROVE MaySee(h, f, w)'
    BY <1>1, <1>4, <1>6, <2>1 DEF MaySee
  <2> QED BY <1>1, <1>4, <1>6, <2>1 DEF CatInv, SeesSound
<1>9. SerialSound'
  <2>1. ReplaySound(catalog, NewTransaction)
    <3>1. \A c \in Catalog : Overlay(c, NewTransaction) = c BY <1>6 DEF Overlay, Catalog
    <3> QED BY <1>6, <3>1, ReplayFacts DEF ReplaySound, Alike
  <2>2. \A h \in Routines : \A f \in 1..Top(h)' : ReplaySound(catalog', frames'[h][f])
    BY <1>1, <1>4, <2>1 DEF CatInv, SerialSound
  <2>3. ASSUME NEW h \in Routines, doing'[h] # << >>
        PROVE  ReadSound(catalog', doing'[h][1], frames'[h][doing'[h][1].frame])
    <3>1. doing[h][1].frame \in 1..Top(h) BY <1>1, <2>3 DEF CatInv, WritesSound
    <3>2. frames'[h][doing[h][1].frame] = frames[h][doing[h][1].frame] BY <1>3, <3>1
    <3> QED BY <1>1, <2>3, <3>2 DEF CatInv, SerialSound
  <2>4. Serializable' BY <1>1 DEF CatInv, SerialSound, Serializable
  <2> QED BY <2>2, <2>3, <2>4 DEF SerialSound
<1> QED BY <1>2, <1>7, <1>8, <1>9 DEF CatInv

\* A record that is accepted stems from the one that was read and from the write.
LEMMA OutcomeFacts ==
  ASSUME NEW kind \in Kinds, NEW current \in Content, NEW w \in Numbered
  PROVE  /\ Outcome(kind, current, w) # << >> =>
              \E r \in Content : /\ Outcome(kind, current, w) = <<r>>
                                 /\ w \in r /\ r \subseteq current \cup {w}
         /\ kind = "upsert" => Outcome(kind, current, w) = <<{w}>>
BY DEF Outcome, Kinds, Content

\* An operation reads its record.
LEMMA ReadStep ==
  ASSUME CatInv, NEW g \in Routines, NEW f \in 1..Top(g), NEW k \in CatKeys, NEW kind \in KindsOf(k),
         ReadRecord(g, f, kind, k)
  PROVE  CatInv'
<1> DEFINE w == <<g, writes[g] + 1>>
           current == Get(g, f, k)
           r == Outcome(kind, current, w)[1]
           d == [frame |-> f, kind |-> kind, key |-> k, write |-> w, record |-> r]
<1>1. /\ doing[g] = << >> /\ Outcome(kind, current, w) # << >>
      /\ writes' = [writes EXCEPT ![g] = @ + 1] /\ doing' = [doing EXCEPT ![g] = <<d>>]
      /\ frames' = IF kind = "upsert" \/ frames[g][f].data[k] # {} THEN frames
                   ELSE [frames EXCEPT ![g][f].read = @ \cup {k}]
      /\ UNCHANGED <<catalog, undone, serial, overtaken>>
  BY DEF ReadRecord
<1>2. /\ frames[g] \in Seq(Transaction) /\ f \in DOMAIN frames[g] /\ Top(g) \in Nat /\ f \in Nat
      /\ frames[g][f] \in Transaction /\ writes[g] \in Nat /\ kind \in Kinds
  BY DEF CatInv, CatType, Top, KindsOf, Kinds
<1>3. current \in Content /\ w \in Numbered
  BY <1>2 DEF Get, CatInv, CatType, Catalog, Transaction, Numbered
<1>4. /\ Outcome(kind, current, w) = <<r>> /\ r \in Content /\ w \in r /\ r \subseteq current \cup {w}
      /\ kind = "upsert" => \A c \in Content : Outcome(kind, c, w) = <<r>>
  <2> HIDE DEF w, current
  <2>1. PICK s \in Content : Outcome(kind, current, w) = <<s>> /\ w \in s /\ s \subseteq current \cup {w}
    BY <1>1, <1>2, <1>3, OutcomeFacts
  <2>2. r = s BY <2>1
  <2>3. ASSUME NEW c \in Content, kind = "upsert" PROVE Outcome(kind, c, w) = <<{w}>>
    BY <1>2, <1>3, <2>3, OutcomeFacts
  <2> QED BY <1>3, <2>1, <2>2, <2>3
<1>5. d \in Operation BY <1>2, <1>3, <1>4 DEF Operation
<1> HIDE DEF d, r
<1>6. /\ frames' \in [Routines -> Seq(Transaction)]
      /\ \A h \in Routines : /\ Top(h)' = Top(h)
                             /\ \A i \in 1..Top(h) : /\ frames'[h][i].data = frames[h][i].data
                                                     /\ frames'[h][i].ops = frames[h][i].ops
                                                     /\ frames'[h][i].stale = frames[h][i].stale
                                                     /\ frames[h][i].read \subseteq frames'[h][i].read
      /\ kind = "upsert" \/ frames[g][f].data[k] # {} \/ k \in frames'[g][f].read
  <2>1. CASE kind = "upsert" \/ frames[g][f].data[k] # {}
    <3>1. frames' = frames BY <1>1, <2>1
    <3> QED BY <2>1, <3>1 DEF CatInv, CatType, Top
  <2>2. CASE ~(kind = "upsert" \/ frames[g][f].data[k] # {})
    <3> DEFINE t == [frames[g][f] EXCEPT !.read = @ \cup {k}]
    <3>1. frames' = [frames EXCEPT ![g] = [frames[g] EXCEPT ![f] = t]] BY <1>1, <2>2
    <3>2. /\ t \in Transaction /\ t.data = frames[g][f].data /\ t.ops = frames[g][f].ops
          /\ t.stale = frames[g][f].stale /\ t.read = frames[g][f].read \cup {k}
      BY <1>2 DEF Transaction
    <3> HIDE DEF t
    <3>3. /\ [frames[g] EXCEPT ![f] = t] \in Seq(Transaction)
          /\ Len([frames[g] EXCEPT ![f] = t]) = Len(frames[g])
      BY <1>2, <3>2
    <3>4. \A h \in Routines : Top(h) \in Nat /\ frames[h] \in Seq(Transaction)
      BY DEF CatInv, CatType, Top
    <3>5. /\ frames' \in [Routines -> Seq(Transaction)]
          /\ \A h \in Routines : Top(h)' = Top(h) /\ (h # g => frames'[h] = frames[h])
          /\ frames'[g] = [frames[g] EXCEPT ![f] = t]
      BY <3>1, <3>3 DEF CatInv, CatType, Top
    <3>6. \A i \in 1..Top(g) : frames'[g][i] = IF i = f THEN t ELSE frames[g][i]
      BY <1>2, <3>5 DEF Top
    <3> QED BY <1>2, <3>2, <3>5, <3>6
  <2> QED BY <2>1, <2>2
<1>7. CatType'
  BY <1>1, <1>2, <1>5, <1>6 DEF CatInv, CatType
<1>8. \A h \in Routines : \A i \in 1..Top(h) : OpsOf(frames'[h][i]) = OpsOf(frames[h][i])
  BY <1>6 DEF OpsOf
<1>9. /\ ~IsPast(w) /\ w # Seed /\ \A x : IsPast(x) => IsPast(x)'
      /\ \A h \in Routines : h # g => doing'[h] = doing[h] /\ writes'[h] = writes[h]
      /\ doing'[g] # << >> /\ doing'[g][1] = d /\ writes'[g] = writes[g] + 1 /\ w = <<g, writes'[g]>>
      /\ d.frame = f /\ d.write = w /\ d.record = r /\ d.key = k /\ d.kind = kind
  <2>1. /\ \A h \in Routines : h # g => doing'[h] = doing[h] /\ writes'[h] = writes[h]
        /\ doing'[g] = <<d>> /\ writes'[g] = writes[g] + 1
    BY <1>1 DEF CatInv, CatType
  <2>2. ASSUME NEW x, IsPast(x) PROVE IsPast(x)'
    <3>1. CASE x = Seed BY <3>1 DEF IsPast
    <3>2. CASE x # Seed /\ x[1] = g BY <1>2, <2>1, <2>2, <3>2 DEF IsPast
    <3>3. CASE x # Seed /\ x[1] # g BY <2>1, <2>2, <3>3 DEF IsPast
    <3> QED BY <3>1, <3>2, <3>3
  <2>3. ~IsPast(w) /\ w # Seed BY <1>2 DEF IsPast, Seed
  <2> QED BY <2>1, <2>2, <2>3 DEF d
<1>10. \A x \in r : x = w \/ (IsPast(x) /\ MaySee(g, f, x))
  <2>1. \A x \in current : IsPast(x) /\ MaySee(g, f, x)
    <3>1. CASE frames[g][f].data[k] # {} BY <3>1 DEF Get, CatInv, WritesSound, SeesSound
    <3>2. CASE frames[g][f].data[k] = {}
      <4>1. current = catalog[k] BY <3>2 DEF Get
      <4>2. \A x \in catalog[k] : IsPast(x) /\ MaySee(g, 1, x) BY DEF CatInv, WritesSound, SeesSound
      <4>3. OpsOf(frames[g][1]) = {} BY DEF CatInv, WritesSound, OpsOf
      <4> QED BY <4>1, <4>2, <4>3 DEF MaySee
    <3> QED BY <3>1, <3>2
  <2> QED BY <1>4, <2>1
<1> HIDE DEF w, current
<1>11. WritesSound'
  <2>1. ASSUME NEW h \in Routines
        PROVE  /\ 1 \in 1..Top(h) /\ frames'[h][1].ops = << >> /\ \A q \in CatKeys : frames'[h][1].data[q] = {}
               /\ doing'[h] # << >> =>
                    /\ doing'[h][1].frame \in 1..Top(h)'
                    /\ doing'[h][1].write = <<h, writes'[h]>> /\ writes'[h] > 0
                    /\ doing'[h][1].write \in doing'[h][1].record
                    /\ \A x \in doing'[h][1].record : IsPast(x)' \/ x = doing'[h][1].write
    <3>1. Top(h) \in Nat /\ 1 \in 1..Top(h) BY DEF CatInv, CatType, Top
    <3>2. /\ frames'[h][1].ops = << >> /\ \A q \in CatKeys : frames'[h][1].data[q] = {}
          /\ Top(h)' = Top(h)
      BY <1>6, <3>1 DEF CatInv, WritesSound
    <3>3. CASE h = g
      <4>1. /\ doing'[h][1].frame \in 1..Top(h)' /\ doing'[h][1].write = <<h, writes'[h]>>
            /\ writes'[h] > 0 /\ doing'[h][1].write \in doing'[h][1].record
        BY <1>2, <1>4, <1>9, <3>2, <3>3
      <4>2. \A x \in doing'[h][1].record : IsPast(x)' \/ x = doing'[h][1].write
        BY <1>9, <1>10, <3>3
      <4> QED BY <3>1, <3>2, <4>1, <4>2
    <3>4. CASE h # g
      <4>1. doing[h] # << >> =>
              /\ doing[h][1].frame \in 1..Top(h)
              /\ doing[h][1].write = <<h, writes[h]>> /\ writes[h] > 0
              /\ doing[h][1].write \in doing[h][1].record
              /\ \A x \in doing[h][1].record : IsPast(x) \/ x = doing[h][1].write
        BY DEF CatInv, WritesSound
      <4> QED BY <1>9, <3>1, <3>2, <3>4, <4>1
    <3> QED BY <3>3, <3>4
  <2>2. ASSUME NEW h \in Routines, NEW i \in 1..Top(h)'
        PROVE  /\ \A q \in CatKeys : \A x \in frames'[h][i].data[q] : IsPast(x)'
               /\ \A x \in OpsOf(frames'[h][i]) : x[1] = h /\ x # Seed /\ IsPast(x)' /\ x \notin undone'
               /\ \A j \in 1..Top(h)' : j # i => OpsOf(frames'[h][i]) \cap OpsOf(frames'[h][j]) = {}
    <3>1. Top(h)' = Top(h) /\ i \in 1..Top(h) /\ undone' = undone BY <1>1, <1>6
    <3>2. /\ \A q \in CatKeys : \A x \in frames[h][i].data[q] : IsPast(x)
          /\ \A x \in OpsOf(frames[h][i]) : x[1] = h /\ x # Seed /\ IsPast(x) /\ x \notin undone
          /\ \A j \in 1..Top(h) : j # i => OpsOf(frames[h][i]) \cap OpsOf(frames[h][j]) = {}
      BY <3>1 DEF CatInv, WritesSound
    <3>3. frames'[h][i].data = frames[h][i].data BY <1>6, <3>1
    <3> QED BY <1>8, <1>9, <3>1, <3>2, <3>3
  <2> QED BY <1>1, <1>9, <2>1, <2>2 DEF CatInv, WritesSound
<1>12. SeesSound'
  <2>1. ASSUME NEW h \in Routines, NEW i, NEW x, MaySee(h, i, x) PROVE MaySee(h, i, x)'
    <3>1. \A q \in Routines : Top(q)' = Top(q) BY <1>6
    <3> QED BY <1>1, <1>8, <2>1, <3>1 DEF MaySee
  <2>2. MaySee(g, f, w)
    <3>1. w \notin undone BY <1>9 DEF CatInv, WritesSound
    <3>2. \A h \in Routines : \A i \in 1..Top(h) : w \notin OpsOf(frames[h][i])
      BY <1>9 DEF CatInv, WritesSound
    <3> QED BY <3>1, <3>2 DEF MaySee
  <2>3. \A x \in r : MaySee(g, f, x)
    BY <1>10, <2>2
  <2>4. ASSUME NEW h \in Routines, doing'[h] # << >>
        PROVE  (\A x \in doing[h][1].record : MaySee(h, doing[h][1].frame, x))'
    BY <1>9, <2>1, <2>3, <2>4 DEF CatInv, SeesSound
  <2> QED BY <1>1, <1>6, <2>1, <2>4 DEF CatInv, SeesSound
<1>13. SerialSound'
  <2>1. ASSUME NEW h \in Routines, NEW i \in 1..Top(h)
        PROVE  /\ ReplaySound(catalog', frames'[h][i])
               /\ \A e : ReadSound(catalog, e, frames[h][i]) => ReadSound(catalog', e, frames'[h][i])
    <3> DEFINE t == frames[h][i]
               u == frames'[h][i]
    <3>1. /\ u.data = t.data /\ u.ops = t.ops /\ t.read \subseteq u.read /\ (t.stale => u.stale)
          /\ catalog' = catalog /\ ReplaySound(catalog, t)
      BY <1>1, <1>6 DEF CatInv, SerialSound
    <3> HIDE DEF t, u
    <3>2. ReplaySound(catalog, u) /\ \A e : ReadSound(catalog, e, t) => ReadSound(catalog, e, u)
      BY <3>1, SameTransaction
    <3> QED BY <3>1, <3>2 DEF t, u
  <2>2. ReadSound(catalog', d, frames'[g][f])
    <3> DEFINE u == frames'[g][f]
    <3> SUFFICES ASSUME NEW c \in Alike(catalog', u) PROVE Outcome(kind, Overlay(c, u)[k], w) = <<r>>
      BY <1>9 DEF ReadSound
    <3>1. c \in Catalog /\ u.data = frames[g][f].data BY <1>6 DEF Alike
    <3>2. CASE kind = "upsert"
      <4>1. Overlay(c, u)[k] \in Content BY <1>2, <3>1 DEF Overlay, Catalog, Transaction
      <4> QED BY <1>4, <3>2, <4>1
    <3>3. CASE frames[g][f].data[k] # {}
      BY <1>4, <3>1, <3>3 DEF Overlay, Get, current
    <3>4. CASE frames[g][f].data[k] = {} /\ k \in u.read
      <4>1. c[k] = catalog[k] BY <1>1, <3>4 DEF Alike
      <4> QED BY <1>4, <3>1, <3>4, <4>1 DEF Overlay, Get, current
    <3> QED BY <1>6, <3>2, <3>3, <3>4
  <2>3. ASSUME NEW h \in Routines, doing'[h] # << >>
        PROVE  ReadSound(catalog', doing'[h][1], frames'[h][doing'[h][1].frame])
    <3>1. CASE h = g BY <1>9, <2>2, <3>1
    <3>2. CASE h # g
      <4>1. doing'[h] = doing[h] /\ doing[h][1].frame \in 1..Top(h)
        BY <1>9, <2>3, <3>2 DEF CatInv, WritesSound
      <4>2. ReadSound(catalog, doing[h][1], frames[h][doing[h][1].frame])
        BY <2>3, <4>1 DEF CatInv, SerialSound
      <4> QED BY <2>1, <4>1, <4>2
    <3> QED BY <3>1, <3>2
  <2>4. Serializable' BY <1>1 DEF CatInv, SerialSound, Serializable
  <2> QED BY <1>6, <2>1, <2>3, <2>4 DEF SerialSound
<1> QED BY <1>7, <1>11, <1>12, <1>13 DEF CatInv

\* Performing an operation that is accepted writes its record.
LEMMA PerformFacts ==
  ASSUME NEW c \in Catalog, NEW d \in Operation, Outcome(d.kind, c[d.key], d.write) = <<d.record>>
  PROVE  Perform([catalog |-> c, legal |-> TRUE], d)
           = [catalog |-> [c EXCEPT ![d.key] = d.record], legal |-> TRUE]
<1> DEFINE s == [catalog |-> c, legal |-> TRUE]
<1>1. s.catalog = c OBVIOUS
<1>2. Perform(s, d) = [s EXCEPT !.catalog[d.key] = d.record]
  <2>1. Outcome(d.kind, s.catalog[d.key], d.write) = <<d.record>> /\ <<d.record>> # << >>
    BY <1>1
  <2>2. <<d.record>>[1] = d.record OBVIOUS
  <2> HIDE DEF s
  <2> QED BY <2>1, <2>2, Zenon DEF Perform
<1> QED BY <1>2

\* An operation writes its record into the buffer of its transaction.
LEMMA WriteBufferStep ==
  ASSUME CatInv, NEW g \in Routines, WriteBuffer(g)
  PROVE  CatInv'
<1>0. PICK d : d = doing[g][1] OBVIOUS
<1> DEFINE n == d.frame
           t == frames[g][n]
           u == [t EXCEPT !.data[d.key] = d.record, !.ops = Append(@, d)]
<1>1. /\ doing[g] # << >> /\ n > 1 /\ doing' = [doing EXCEPT ![g] = << >>]
      /\ frames' = [frames EXCEPT ![g][n] = u]
      /\ UNCHANGED <<catalog, writes, undone, serial, overtaken>>
  BY <1>0 DEF WriteBuffer
<1>2. /\ d \in Operation /\ frames[g] \in Seq(Transaction) /\ n \in 1..Top(g) /\ n \in DOMAIN frames[g]
      /\ t \in Transaction /\ Top(g) \in Nat
  BY <1>0, <1>1 DEF CatInv, CatType, WritesSound, Top
<1>3. /\ u \in Transaction /\ u.data = [t.data EXCEPT ![d.key] = d.record]
      /\ u.ops = Append(t.ops, d) /\ u.read = t.read /\ u.stale = t.stale
  <2> DEFINE data == [t.data EXCEPT ![d.key] = d.record]
             ops == Append(t.ops, d)
  <2>1. data \in Catalog /\ ops \in Seq(Operation)
    BY <1>2 DEF Transaction, Catalog, Operation
  <2>2. u = [t EXCEPT !.data = data, !.ops = ops] OBVIOUS
  <2> HIDE DEF data, ops
  <2>3. /\ [t EXCEPT !.data = data, !.ops = ops] \in Transaction
        /\ [t EXCEPT !.data = data, !.ops = ops].data = data
        /\ [t EXCEPT !.data = data, !.ops = ops].ops = ops
        /\ [t EXCEPT !.data = data, !.ops = ops].read = t.read
        /\ [t EXCEPT !.data = data, !.ops = ops].stale = t.stale
    BY <1>2, <2>1 DEF Transaction
  <2> QED BY <2>2, <2>3 DEF data, ops
<1> HIDE DEF n, t, u
<1>4. /\ frames' \in [Routines -> Seq(Transaction)]
      /\ \A h \in Routines : Top(h)' = Top(h) /\ (h # g => frames'[h] = frames[h])
      /\ \A i \in 1..Top(g) : frames'[g][i] = IF i = n THEN u ELSE frames[g][i]
  <2>1. frames' = [frames EXCEPT ![g] = [frames[g] EXCEPT ![n] = u]] BY <1>1
  <2>2. /\ [frames[g] EXCEPT ![n] = u] \in Seq(Transaction)
        /\ Len([frames[g] EXCEPT ![n] = u]) = Len(frames[g])
    BY <1>2, <1>3
  <2>3. /\ frames' \in [Routines -> Seq(Transaction)]
        /\ \A h \in Routines : Top(h)' = Top(h) /\ (h # g => frames'[h] = frames[h])
        /\ frames'[g] = [frames[g] EXCEPT ![n] = u]
    BY <2>1, <2>2 DEF CatInv, CatType, Top
  <2>4. \A i \in 1..Top(g) : frames'[g][i] = IF i = n THEN u ELSE frames[g][i]
    BY <1>2, <2>3 DEF Top
  <2> QED BY <2>3, <2>4
<1>5. /\ doing' \in [Routines -> {<< >>} \cup {<<e>> : e \in Operation}]
      /\ doing'[g] = << >> /\ \A h \in Routines : h # g => doing'[h] = doing[h]
  BY <1>1 DEF CatInv, CatType
<1>6. CatType' BY <1>1, <1>4, <1>5 DEF CatInv, CatType
<1>7. /\ d.write = <<g, writes[g]>> /\ writes[g] > 0 /\ d.write \in d.record
      /\ \A x \in d.record : IsPast(x) \/ x = d.write
  BY <1>0, <1>1 DEF CatInv, WritesSound
<1>8. /\ ~IsPast(d.write) /\ d.write # Seed /\ IsPast(d.write)'
      /\ \A x : IsPast(x) => IsPast(x)'
  <2>1. ~IsPast(d.write) /\ d.write # Seed BY <1>1, <1>7 DEF IsPast, Seed
  <2>2. IsPast(d.write)'
    <3>1. writes'[g] \in 1..writes'[g] BY <1>1, <1>7 DEF CatInv, CatType
    <3>2. d.write[1] = g /\ d.write[2] = writes[g] /\ writes'[g] = writes[g] BY <1>1, <1>7
    <3> QED BY <1>5, <3>1, <3>2 DEF IsPast
  <2>3. ASSUME NEW x, IsPast(x) PROVE IsPast(x)' BY <1>1, <1>5, <2>3 DEF IsPast
  <2> QED BY <2>1, <2>2, <2>3
<1>9. /\ OpsOf(u) = OpsOf(t) \cup {d.write}
      /\ \A h \in Routines : \A i \in 1..Top(h) :
           OpsOf(frames'[h][i]) = IF h = g /\ i = n THEN OpsOf(t) \cup {d.write} ELSE OpsOf(frames[h][i])
  <2>1. OpsOf(u) = OpsOf(t) \cup {d.write} BY <1>2, <1>3, OpsFacts
  <2>2. ASSUME NEW h \in Routines, NEW i \in 1..Top(h)
        PROVE  frames'[h][i] = IF h = g /\ i = n THEN u ELSE frames[h][i]
    BY <1>4
  <2> QED BY <2>1, <2>2
<1>10. \A h \in Routines : \A i \in 1..Top(h) : d.write \notin OpsOf(frames[h][i])
  BY <1>8 DEF CatInv, WritesSound
<1>11. \A h \in Routines : \A i \in 1..Top(h) : \A k \in CatKeys :
         frames'[h][i].data[k] = IF h = g /\ i = n /\ k = d.key THEN d.record ELSE frames[h][i].data[k]
  <2>1. \A k \in CatKeys : u.data[k] = IF k = d.key THEN d.record ELSE t.data[k]
    BY <1>2, <1>3 DEF Transaction, Catalog
  <2>2. ASSUME NEW h \in Routines, NEW i \in 1..Top(h)
        PROVE  frames'[h][i] = IF h = g /\ i = n THEN u ELSE frames[h][i]
    BY <1>4
  <2> QED BY <2>1, <2>2 DEF t
<1>12. WritesSound'
  <2>1. ASSUME NEW h \in Routines, NEW i \in 1..Top(h)'
        PROVE  /\ \A k \in CatKeys : \A x \in frames'[h][i].data[k] : IsPast(x)'
               /\ \A x \in OpsOf(frames'[h][i]) : x[1] = h /\ x # Seed /\ IsPast(x)' /\ x \notin undone'
               /\ \A j \in 1..Top(h)' : j # i => OpsOf(frames'[h][i]) \cap OpsOf(frames'[h][j]) = {}
    <3>1. Top(h)' = Top(h) /\ i \in 1..Top(h) /\ undone' = undone BY <1>1, <1>4
    <3>2. /\ \A k \in CatKeys : \A x \in frames[h][i].data[k] : IsPast(x)
          /\ \A x \in OpsOf(frames[h][i]) : x[1] = h /\ x # Seed /\ IsPast(x) /\ x \notin undone
          /\ \A j \in 1..Top(h) : j # i => OpsOf(frames[h][i]) \cap OpsOf(frames[h][j]) = {}
      BY <3>1 DEF CatInv, WritesSound
    <3>3. \A k \in CatKeys : \A x \in frames'[h][i].data[k] : IsPast(x)'
      <4> SUFFICES ASSUME NEW k \in CatKeys, NEW x \in frames'[h][i].data[k] PROVE IsPast(x)' OBVIOUS
      <4>1. x \in d.record \/ x \in frames[h][i].data[k] BY <1>11, <3>1
      <4> QED BY <1>7, <1>8, <3>2, <4>1
    <3>4. d.write[1] = g /\ d.write \notin undone BY <1>7, <1>8 DEF CatInv, WritesSound
    <3>5. \A x \in OpsOf(frames'[h][i]) : x[1] = h /\ x # Seed /\ IsPast(x)' /\ x \notin undone'
      <4> SUFFICES ASSUME NEW x \in OpsOf(frames'[h][i])
                   PROVE  x[1] = h /\ x # Seed /\ IsPast(x)' /\ x \notin undone'
        OBVIOUS
      <4>1. x \in OpsOf(frames[h][i]) \/ (x = d.write /\ h = g) BY <1>9, <3>1 DEF t
      <4> QED BY <1>8, <3>1, <3>2, <3>4, <4>1
    <3>6. ASSUME NEW j \in 1..Top(h), j # i
          PROVE  OpsOf(frames'[h][i]) \cap OpsOf(frames'[h][j]) = {}
      <4>1. OpsOf(frames[h][i]) \cap OpsOf(frames[h][j]) = {} BY <3>2, <3>6
      <4>2. d.write \notin OpsOf(frames[h][i]) /\ d.write \notin OpsOf(frames[h][j]) BY <1>10, <3>1
      <4> QED BY <1>9, <3>1, <3>6, <4>1, <4>2 DEF t
    <3> QED BY <3>1, <3>3, <3>5, <3>6
  <2>2. ASSUME NEW h \in Routines
        PROVE  /\ frames'[h][1].ops = << >> /\ \A k \in CatKeys : frames'[h][1].data[k] = {}
               /\ doing'[h] # << >> =>
                    /\ doing'[h][1].frame \in 1..Top(h)'
                    /\ doing'[h][1].write = <<h, writes'[h]>> /\ writes'[h] > 0
                    /\ doing'[h][1].write \in doing'[h][1].record
                    /\ \A x \in doing'[h][1].record : IsPast(x)' \/ x = doing'[h][1].write
    <3>1. Top(h) \in Nat /\ 1 \in 1..Top(h) /\ Top(h)' = Top(h) BY <1>4 DEF CatInv, CatType, Top
    <3>2. frames'[h][1] = frames[h][1]
      <4>1. 1 # n BY <1>1
      <4> QED BY <1>4, <3>1, <4>1
    <3>3. /\ frames[h][1].ops = << >> /\ \A k \in CatKeys : frames[h][1].data[k] = {}
          /\ doing[h] # << >> =>
               /\ doing[h][1].frame \in 1..Top(h)
               /\ doing[h][1].write = <<h, writes[h]>> /\ writes[h] > 0
               /\ doing[h][1].write \in doing[h][1].record
               /\ \A x \in doing[h][1].record : IsPast(x) \/ x = doing[h][1].write
      BY DEF CatInv, WritesSound
    <3>4. h = g \/ doing'[h] = doing[h] BY <1>5
    <3> QED BY <1>1, <1>5, <1>8, <3>1, <3>2, <3>3, <3>4
  <2>3. /\ \A k \in CatKeys : \A x \in catalog[k] : IsPast(x)
        /\ \A x \in undone : IsPast(x) /\ x # Seed
    BY DEF CatInv, WritesSound
  <2> QED BY <1>1, <1>8, <2>1, <2>2, <2>3 DEF WritesSound
<1>13. SeesSound'
  <2>1. ASSUME NEW h \in Routines, NEW i, NEW x, MaySee(h, i, x), x # d.write \/ (h = g /\ i = n)
        PROVE  MaySee(h, i, x)'
    <3>1. \A q \in Routines : Top(q)' = Top(q) BY <1>4
    <3> QED BY <1>1, <1>9, <2>1, <3>1 DEF MaySee, t
  <2>2. ASSUME NEW h \in Routines
        PROVE  /\ \A k \in CatKeys : \A x \in catalog[k] : MaySee(h, 1, x) /\ x # d.write
               /\ \A i \in 1..Top(h) : \A k \in CatKeys : \A x \in frames[h][i].data[k] :
                    MaySee(h, i, x) /\ x # d.write
               /\ doing[h] # << >> => \A x \in doing[h][1].record : MaySee(h, doing[h][1].frame, x)
    BY <1>8 DEF CatInv, WritesSound, SeesSound
  <2>3. \A x \in d.record : MaySee(g, n, x) BY <1>0, <1>1, <2>2 DEF n
  <2>4. ASSUME NEW h \in Routines, doing'[h] # << >>
        PROVE  (\A x \in doing[h][1].record : MaySee(h, doing[h][1].frame, x))'
    <3>1. h # g /\ doing'[h] = doing[h] BY <1>5, <2>4
    <3>2. \A x \in doing[h][1].record : IsPast(x) \/ x = <<h, writes[h]>>
      BY <2>4, <3>1 DEF CatInv, WritesSound
    <3>3. <<h, writes[h]>> # d.write BY <1>7, <3>1
    <3>4. \A x \in doing[h][1].record : MaySee(h, doing[h][1].frame, x) /\ x # d.write
      BY <1>8, <2>2, <2>4, <3>1, <3>2, <3>3
    <3> QED BY <2>1, <3>1, <3>4
  <2>5. ASSUME NEW h \in Routines, NEW i \in 1..Top(h), NEW k \in CatKeys
        PROVE  \A x \in frames'[h][i].data[k] : MaySee(h, i, x)'
    BY <1>11, <2>1, <2>2, <2>3
  <2>6. \A h \in Routines : Top(h)' = Top(h) BY <1>4
  <2> QED BY <1>1, <2>1, <2>2, <2>4, <2>5, <2>6 DEF SeesSound
<1>14. SerialSound'
  <2>1. ReplaySound(catalog, u)
    <3> SUFFICES ASSUME ~u.stale, NEW c \in Alike(catalog, u)
                 PROVE  Replay([catalog |-> c, legal |-> TRUE], u.ops)
                          = [catalog |-> Overlay(c, u), legal |-> TRUE]
      BY DEF ReplaySound
    <3>1. ~t.stale /\ c \in Alike(catalog, t) /\ c \in Catalog BY <1>3 DEF Alike
    <3>2. ReplaySound(catalog, t) /\ ReadSound(catalog, d, t)
      BY <1>0, <1>1, <1>2 DEF CatInv, SerialSound, n, t
    <3>3. /\ Replay([catalog |-> c, legal |-> TRUE], t.ops) = [catalog |-> Overlay(c, t), legal |-> TRUE]
          /\ Outcome(d.kind, Overlay(c, t)[d.key], d.write) = <<d.record>>
      BY <3>1, <3>2 DEF ReplaySound, ReadSound
    <3>4. Overlay(c, t) \in Catalog BY <1>2, <3>1 DEF Overlay, Catalog, Transaction
    <3>5. Overlay(c, u) = [Overlay(c, t) EXCEPT ![d.key] = d.record]
      BY <1>2, <1>3, <1>7 DEF Overlay, Transaction, Catalog
    <3>6. Replay([catalog |-> c, legal |-> TRUE], u.ops)
            = Perform([catalog |-> Overlay(c, t), legal |-> TRUE], d)
      <4>1. t.ops \in Seq(Operation) BY <1>2 DEF Transaction
      <4>2. Replay([catalog |-> c, legal |-> TRUE], Append(t.ops, d))
              = Perform(Replay([catalog |-> c, legal |-> TRUE], t.ops), d)
        BY <1>2, <4>1, ReplayFacts
      <4> QED BY <1>3, <3>3, <4>2
    <3> QED BY <1>2, <3>3, <3>4, <3>5, <3>6, PerformFacts
  <2>2. ASSUME NEW h \in Routines, NEW i \in 1..Top(h) PROVE ReplaySound(catalog', frames'[h][i])
    <3>1. ReplaySound(catalog, frames[h][i]) BY DEF CatInv, SerialSound
    <3>2. (h = g /\ i = n /\ frames'[h][i] = u) \/ frames'[h][i] = frames[h][i] BY <1>4
    <3> QED BY <1>1, <2>1, <3>1, <3>2
  <2>3. ASSUME NEW h \in Routines, doing'[h] # << >>
        PROVE  ReadSound(catalog', doing'[h][1], frames'[h][doing'[h][1].frame])
    <3>1. h # g /\ doing'[h] = doing[h] /\ frames'[h] = frames[h] BY <1>4, <1>5, <2>3
    <3>2. ReadSound(catalog, doing[h][1], frames[h][doing[h][1].frame])
      BY <2>3, <3>1 DEF CatInv, SerialSound
    <3> QED BY <1>1, <3>1, <3>2
  <2>4. Serializable' BY <1>1 DEF CatInv, SerialSound, Serializable
  <2>5. \A h \in Routines : Top(h)' = Top(h) BY <1>4
  <2> QED BY <2>2, <2>3, <2>4, <2>5 DEF SerialSound
<1> QED BY <1>6, <1>12, <1>13, <1>14 DEF CatInv

\* Where a catalog changes in records that a transaction has not read, and in others
\* when it becomes stale, what is said of the transaction stays true.
LEMMA SameOvertaken ==
  ASSUME NEW b, NEW e, NEW K, \A k \in CatKeys \ K : e[k] = b[k],
         NEW t \in Transaction, NEW u, u.data = t.data, u.ops = t.ops, u.read = t.read,
         u.stale = (t.stale \/ t.read \cap K # {})
  PROVE  /\ ReplaySound(b, t) => ReplaySound(e, u)
         /\ \A d : ReadSound(b, d, t) => ReadSound(e, d, u)
<1>1. \A c : Overlay(c, u) = Overlay(c, t) BY DEF Overlay
<1>2. t.read \subseteq CatKeys BY DEF Transaction
<1>3. ASSUME ~u.stale PROVE ~t.stale /\ Alike(e, u) = Alike(b, t) BY <1>2, <1>3 DEF Alike
<1> QED BY <1>1, <1>3 DEF ReplaySound, ReadSound

\* An operation outside of any transaction writes its record into the storage.
LEMMA WriteStorageStep ==
  ASSUME CatInv, NEW g \in Routines, WriteStorage(g)
  PROVE  CatInv'
<1>0. PICK d : d = doing[g][1] OBVIOUS
<1> DEFINE own == [frames EXCEPT ![g][1] = NewTransaction]
           t == frames[g][1]
<1>1. /\ doing[g] # << >> /\ d.frame = 1 /\ doing' = [doing EXCEPT ![g] = << >>]
      /\ catalog' = [catalog EXCEPT ![d.key] = d.record] /\ frames' = Overtake(own, {d.key})
      /\ serial' = Replay(serial, <<d>>) /\ overtaken' = (overtaken \/ t.stale)
      /\ UNCHANGED <<writes, undone>>
  BY <1>0 DEF WriteStorage
<1>2. /\ d \in Operation /\ frames[g] \in Seq(Transaction) /\ Top(g) \in Nat /\ Top(g) > 0
      /\ t \in Transaction /\ 1 \in DOMAIN frames[g] /\ 1 \in 1..Top(g)
  BY <1>0, <1>1 DEF CatInv, CatType, Top
<1>3. /\ own \in [Routines -> Seq(Transaction)]
      /\ \A h \in Routines : /\ Len(own[h]) = Top(h) /\ Top(h) \in Nat /\ 1 \in 1..Top(h)
                             /\ \A i \in 1..Top(h) : own[h][i] = IF h = g /\ i = 1 THEN NewTransaction
                                                                 ELSE frames[h][i]
  <2>1. own = [frames EXCEPT ![g] = [frames[g] EXCEPT ![1] = NewTransaction]] OBVIOUS
  <2> DEFINE p == [frames[g] EXCEPT ![1] = NewTransaction]
  <2>2. /\ p \in Seq(Transaction) /\ Len(p) = Len(frames[g])
        /\ \A i \in 1..Len(frames[g]) : p[i] = IF i = 1 THEN NewTransaction ELSE frames[g][i]
    BY <1>2, OpsFacts
  <2> HIDE DEF p
  <2>3. /\ own \in [Routines -> Seq(Transaction)] /\ own[g] = p
        /\ \A h \in Routines : h # g => own[h] = frames[h]
    BY <2>1, <2>2 DEF CatInv, CatType, p
  <2>4. \A h \in Routines : Top(h) \in Nat /\ 1 \in 1..Top(h) BY DEF CatInv, CatType, Top
  <2> HIDE DEF own
  <2> QED BY <2>2, <2>3, <2>4 DEF Top
<1> HIDE DEF own
<1>4. /\ NewTransaction \in Transaction /\ NewTransaction.ops = << >> /\ NewTransaction.read = {}
      /\ NewTransaction.data = [k \in CatKeys |-> {}] /\ ~NewTransaction.stale
  BY OpsFacts DEF NewTransaction
<1>5. t.ops = << >> /\ t.data = [k \in CatKeys |-> {}] /\ OpsOf(t) = {}
  <2>1. t.ops = << >> /\ \A k \in CatKeys : t.data[k] = {} BY DEF CatInv, WritesSound
  <2>2. t.data \in [CatKeys -> Content] BY <1>2 DEF Transaction, Catalog
  <2> HIDE DEF t
  <2>3. t.data = [k \in CatKeys |-> {}] BY <2>1, <2>2
  <2>4. OpsOf(t) = {} BY <2>1 DEF OpsOf
  <2> QED BY <2>1, <2>3, <2>4
<1> HIDE DEF t
<1>6. /\ frames' \in [Routines -> Seq(Transaction)]
      /\ \A h \in Routines :
           /\ Top(h)' = Top(h)
           /\ \A i \in 1..Top(h) :
                /\ frames'[h][i].data = own[h][i].data /\ frames'[h][i].ops = own[h][i].ops
                /\ frames'[h][i].read = own[h][i].read
                /\ frames'[h][i].stale = (own[h][i].stale \/ own[h][i].read \cap {d.key} # {})
  <2>1. \A h \in Routines : Len(own[h]) = Top(h) BY <1>3
  <2>2. Marked(frames', own, {d.key}) BY <1>1, <1>3, OvertakeSame
  <2> QED BY <2>1, <2>2 DEF Top, Marked
<1>7. \A h \in Routines : \A i \in 1..Top(h) :
         frames'[h][i].data = frames[h][i].data /\ frames'[h][i].ops = frames[h][i].ops
  <2> SUFFICES ASSUME NEW h \in Routines, NEW i \in 1..Top(h)
               PROVE  frames'[h][i].data = frames[h][i].data /\ frames'[h][i].ops = frames[h][i].ops
    OBVIOUS
  <2>1. frames'[h][i].data = own[h][i].data /\ frames'[h][i].ops = own[h][i].ops BY <1>6
  <2>2. CASE h = g /\ i = 1
    <3>1. own[h][i] = NewTransaction /\ frames[h][i] = t BY <1>3, <2>2 DEF t
    <3> QED BY <1>4, <1>5, <2>1, <3>1
  <2>3. CASE ~(h = g /\ i = 1)
    <3>1. own[h][i] = frames[h][i] BY <1>3, <2>3
    <3> QED BY <2>1, <3>1
  <2> QED BY <2>2, <2>3
<1>8. \A h \in Routines : \A i \in 1..Top(h) : OpsOf(frames'[h][i]) = OpsOf(frames[h][i])
  BY <1>7 DEF OpsOf
<1>9. /\ doing' \in [Routines -> {<< >>} \cup {<<e>> : e \in Operation}]
      /\ doing'[g] = << >> /\ \A h \in Routines : h # g => doing'[h] = doing[h]
  BY <1>1 DEF CatInv, CatType
<1>10. /\ catalog \in Catalog /\ catalog' \in Catalog
       /\ \A k \in CatKeys : catalog'[k] = IF k = d.key THEN d.record ELSE catalog[k]
  <2>1. catalog \in Catalog /\ d.key \in CatKeys /\ d.record \in Content
    BY <1>2 DEF CatInv, CatType, Operation
  <2> QED BY <1>1, <2>1 DEF Catalog
<1>11. CatType'
  <2>1. \A h \in Routines : Top(h)' > 0 BY <1>6 DEF CatInv, CatType
  <2> QED BY <1>1, <1>6, <1>9, <1>10, <2>1 DEF CatInv, CatType
<1>12. /\ d.write = <<g, writes[g]>> /\ writes[g] > 0 /\ d.write \in d.record
       /\ \A x \in d.record : IsPast(x) \/ x = d.write
  BY <1>0, <1>1 DEF CatInv, WritesSound
<1>13. IsPast(d.write)' /\ \A x : IsPast(x) => IsPast(x)'
  <2>1. IsPast(d.write)'
    <3>1. writes'[g] \in 1..writes'[g] BY <1>1, <1>12 DEF CatInv, CatType
    <3>2. d.write[1] = g /\ d.write[2] = writes[g] /\ writes'[g] = writes[g] BY <1>1, <1>12
    <3> QED BY <1>9, <3>1, <3>2 DEF IsPast
  <2>2. ASSUME NEW x, IsPast(x) PROVE IsPast(x)' BY <1>1, <1>9, <2>2 DEF IsPast
  <2> QED BY <2>1, <2>2
<1>14. WritesSound'
  <2>1. ASSUME NEW h \in Routines, NEW i \in 1..Top(h)'
        PROVE  /\ \A k \in CatKeys : \A x \in frames'[h][i].data[k] : IsPast(x)'
               /\ \A x \in OpsOf(frames'[h][i]) : x[1] = h /\ x # Seed /\ IsPast(x)' /\ x \notin undone'
               /\ \A j \in 1..Top(h)' : j # i => OpsOf(frames'[h][i]) \cap OpsOf(frames'[h][j]) = {}
    <3>1. Top(h)' = Top(h) /\ i \in 1..Top(h) /\ undone' = undone BY <1>1, <1>6
    <3>2. /\ \A k \in CatKeys : \A x \in frames[h][i].data[k] : IsPast(x)
          /\ \A x \in OpsOf(frames[h][i]) : x[1] = h /\ x # Seed /\ IsPast(x) /\ x \notin undone
          /\ \A j \in 1..Top(h) : j # i => OpsOf(frames[h][i]) \cap OpsOf(frames[h][j]) = {}
      BY <3>1 DEF CatInv, WritesSound
    <3>3. frames'[h][i].data = frames[h][i].data BY <1>7, <3>1
    <3> QED BY <1>8, <1>13, <3>1, <3>2, <3>3
  <2>2. ASSUME NEW h \in Routines
        PROVE  /\ frames'[h][1].ops = << >> /\ \A k \in CatKeys : frames'[h][1].data[k] = {}
               /\ doing'[h] # << >> =>
                    /\ doing'[h][1].frame \in 1..Top(h)'
                    /\ doing'[h][1].write = <<h, writes'[h]>> /\ writes'[h] > 0
                    /\ doing'[h][1].write \in doing'[h][1].record
                    /\ \A x \in doing'[h][1].record : IsPast(x)' \/ x = doing'[h][1].write
    <3>1. /\ Top(h)' = Top(h) /\ frames'[h][1].data = frames[h][1].data
          /\ frames'[h][1].ops = frames[h][1].ops
      BY <1>3, <1>6, <1>7
    <3>2. /\ frames[h][1].ops = << >> /\ \A k \in CatKeys : frames[h][1].data[k] = {}
          /\ doing[h] # << >> =>
               /\ doing[h][1].frame \in 1..Top(h)
               /\ doing[h][1].write = <<h, writes[h]>> /\ writes[h] > 0
               /\ doing[h][1].write \in doing[h][1].record
               /\ \A x \in doing[h][1].record : IsPast(x) \/ x = doing[h][1].write
      BY DEF CatInv, WritesSound
    <3>3. h = g \/ doing'[h] = doing[h] BY <1>9
    <3> QED BY <1>1, <1>9, <1>13, <3>1, <3>2, <3>3
  <2>3. \A k \in CatKeys : \A x \in catalog'[k] : IsPast(x)'
    <3> SUFFICES ASSUME NEW k \in CatKeys, NEW x \in catalog'[k] PROVE IsPast(x)' OBVIOUS
    <3>1. x \in d.record \/ x \in catalog[k] BY <1>10
    <3>2. IsPast(x) \/ x = d.write BY <1>12, <3>1 DEF CatInv, WritesSound
    <3> QED BY <1>13, <3>2
  <2>4. \A x \in undone' : IsPast(x)' /\ x # Seed BY <1>1, <1>13 DEF CatInv, WritesSound
  <2> QED BY <2>1, <2>2, <2>3, <2>4 DEF WritesSound
<1>15. SeesSound'
  <2>1. ASSUME NEW h \in Routines, NEW i, NEW x, MaySee(h, i, x) PROVE MaySee(h, i, x)'
    <3>1. \A q \in Routines : Top(q)' = Top(q) BY <1>6
    <3> QED BY <1>1, <1>8, <2>1, <3>1 DEF MaySee
  <2>2. ASSUME NEW h \in Routines, NEW x \in d.record PROVE MaySee(h, 1, x)
    <3>1. MaySee(g, 1, x) BY <1>0, <1>1 DEF CatInv, SeesSound
    <3> QED BY <1>5, <3>1 DEF MaySee, t
  <2>3. ASSUME NEW h \in Routines, NEW k \in CatKeys, NEW x \in catalog'[k] PROVE MaySee(h, 1, x)'
    <3>1. x \in d.record \/ x \in catalog[k] BY <1>10
    <3>2. MaySee(h, 1, x) BY <2>2, <3>1 DEF CatInv, SeesSound
    <3> QED BY <2>1, <3>2
  <2>4. ASSUME NEW h \in Routines, doing'[h] # << >>
        PROVE  (\A x \in doing[h][1].record : MaySee(h, doing[h][1].frame, x))'
    <3>1. doing'[h] = doing[h] BY <1>9, <2>4
    <3>2. \A x \in doing[h][1].record : MaySee(h, doing[h][1].frame, x)
      BY <2>4, <3>1 DEF CatInv, SeesSound
    <3> QED BY <2>1, <3>1, <3>2
  <2>5. ASSUME NEW h \in Routines, NEW i \in 1..Top(h), NEW k \in CatKeys
        PROVE  \A x \in frames'[h][i].data[k] : MaySee(h, i, x)'
    <3>1. \A x \in frames[h][i].data[k] : MaySee(h, i, x) BY DEF CatInv, SeesSound
    <3> QED BY <1>7, <2>1, <3>1
  <2>6. \A h \in Routines : Top(h)' = Top(h) BY <1>6
  <2> QED BY <2>3, <2>4, <2>5, <2>6 DEF SeesSound
<1>16. SerialSound'
  <2>1. ASSUME NEW h \in Routines, NEW i \in 1..Top(h)
        PROVE  /\ ReplaySound(catalog', frames'[h][i])
               /\ h # g => \A e : ReadSound(catalog, e, frames[h][i]) => ReadSound(catalog', e, frames'[h][i])
    <3>1. CASE h = g /\ i = 1
      <4> DEFINE u == frames'[h][i]
      <4>1. u.ops = << >> /\ u.data = [k \in CatKeys |-> {}] BY <1>5, <1>7, <3>1 DEF t
      <4> HIDE DEF u
      <4>2. \A c \in Catalog : Overlay(c, u) = c BY <4>1 DEF Overlay, Catalog
      <4>3. ReplaySound(catalog', u) BY <4>1, <4>2, ReplayFacts DEF ReplaySound, Alike
      <4> QED BY <3>1, <4>3 DEF u
    <3>2. CASE ~(h = g /\ i = 1)
      <4> DEFINE v == frames[h][i]
                 u == frames'[h][i]
      <4>1. own[h][i] = v BY <1>3, <3>2
      <4>2. v \in Transaction BY <1>3 DEF CatInv, CatType, Top
      <4>3. /\ u.data = v.data /\ u.ops = v.ops /\ u.read = v.read
            /\ u.stale = (v.stale \/ v.read \cap {d.key} # {})
        BY <1>6, <4>1
      <4>4. ReplaySound(catalog, v) BY DEF CatInv, SerialSound
      <4>5. \A k \in CatKeys \ {d.key} : catalog'[k] = catalog[k] BY <1>10
      <4> HIDE DEF v, u
      <4>6. ReplaySound(catalog', u) /\ \A e : ReadSound(catalog, e, v) => ReadSound(catalog', e, u)
        BY <4>2, <4>3, <4>4, <4>5, SameOvertaken
      <4> QED BY <4>6 DEF v, u
    <3> QED BY <3>1, <3>2
  <2>2. ASSUME NEW h \in Routines, doing'[h] # << >>
        PROVE  ReadSound(catalog', doing'[h][1], frames'[h][doing'[h][1].frame])
    <3>1. h # g /\ doing'[h] = doing[h] BY <1>9, <2>2
    <3>2. /\ ReadSound(catalog, doing[h][1], frames[h][doing[h][1].frame])
          /\ doing[h][1].frame \in 1..Top(h)
      BY <2>2, <3>1 DEF CatInv, SerialSound, WritesSound
    <3> QED BY <2>1, <3>1, <3>2
  <2>3. Serializable'
    <3> SUFFICES ASSUME ~overtaken' PROVE serial' = [catalog |-> catalog', legal |-> TRUE]
      BY DEF Serializable
    <3>1. ~t.stale /\ serial = [catalog |-> catalog, legal |-> TRUE]
      BY <1>1 DEF CatInv, SerialSound, Serializable
    <3>2. ReadSound(catalog, d, t) BY <1>0, <1>1 DEF CatInv, SerialSound, t
    <3>3. catalog \in Alike(catalog, t) /\ Overlay(catalog, t) = catalog
      BY <1>5, <1>10 DEF Alike, Overlay, Catalog
    <3>4. Outcome(d.kind, catalog[d.key], d.write) = <<d.record>>
      BY <3>1, <3>2, <3>3 DEF ReadSound
    <3>5. serial' = Perform(serial, d)
      <4>1. << >> \in Seq(Operation) /\ <<d>> = Append(<< >>, d) OBVIOUS
      <4>2. Replay(serial, Append(<< >>, d)) = Perform(Replay(serial, << >>), d)
        BY <1>2, <4>1, ReplayFacts
      <4>3. Replay(serial, << >>) = serial BY ReplayFacts
      <4> QED BY <1>1, <4>1, <4>2, <4>3
    <3> QED BY <1>1, <1>2, <1>10, <3>1, <3>4, <3>5, PerformFacts
  <2>4. \A h \in Routines : Top(h)' = Top(h) BY <1>6
  <2> QED BY <2>1, <2>2, <2>3, <2>4 DEF SerialSound
<1> QED BY <1>11, <1>14, <1>15, <1>16 DEF CatInv

\* A goroutine leaves its innermost transaction: its other ones stay.
Popped(g) == [frames EXCEPT ![g] = SubSeq(@, 1, Top(g) - 1)]

LEMMA PoppedFacts ==
  ASSUME CatInv, NEW g \in Routines, Top(g) > 1
  PROVE  /\ Popped(g) \in [Routines -> Seq(Transaction)]
         /\ \A h \in Routines :
              /\ Top(h) \in Nat
              /\ Len(Popped(g)[h]) = IF h = g THEN Top(g) - 1 ELSE Top(h)
              /\ 1 \in 1..Len(Popped(g)[h])
              /\ \A i \in 1..Len(Popped(g)[h]) : /\ i \in 1..Top(h) /\ (h = g => i # Top(g))
                                                 /\ Popped(g)[h][i] = frames[h][i]
<1> DEFINE p == SubSeq(frames[g], 1, Top(g) - 1)
<1>1. /\ frames \in [Routines -> Seq(Transaction)]
      /\ \A h \in Routines : Top(h) \in Nat /\ Top(h) > 0 /\ Top(h) = Len(frames[h])
  BY DEF CatInv, CatType, Top
<1>2. /\ p \in Seq(Transaction) /\ Len(p) = Top(g) - 1
      /\ \A i \in 1..(Top(g) - 1) : p[i] = frames[g][i]
  BY <1>1
<1>3. Popped(g) = [frames EXCEPT ![g] = p] BY DEF Popped
<1> HIDE DEF p
<1>4. /\ Popped(g) \in [Routines -> Seq(Transaction)] /\ Popped(g)[g] = p
      /\ \A h \in Routines : h # g => Popped(g)[h] = frames[h]
  BY <1>1, <1>2, <1>3
<1>5. ASSUME NEW h \in Routines
      PROVE  /\ Len(Popped(g)[h]) = IF h = g THEN Top(g) - 1 ELSE Top(h)
             /\ 1 \in 1..Len(Popped(g)[h])
             /\ \A i \in 1..Len(Popped(g)[h]) : /\ i \in 1..Top(h) /\ (h = g => i # Top(g))
                                                /\ Popped(g)[h][i] = frames[h][i]
  <2>1. CASE h = g BY <1>1, <1>2, <1>4, <2>1
  <2>2. CASE h # g BY <1>1, <1>4, <2>2
  <2> QED BY <2>1, <2>2
<1> QED BY <1>1, <1>4, <1>5

\* A transaction commits: its buffer becomes part of the catalog.
LEMMA CommitStep ==
  ASSUME CatInv, NEW g \in Routines, Commit(g)
  PROVE  CatInv'
<1>0. PICK t : t = frames[g][Top(g)] OBVIOUS
<1>1. PICK K : K = {k \in CatKeys : t.data[k] # {}} OBVIOUS
<1> DEFINE o == Popped(g)
<1>2. /\ doing[g] = << >> /\ Top(g) > 1
      /\ catalog' = [k \in CatKeys |-> IF k \in K THEN t.data[k] ELSE catalog[k]]
      /\ frames' = Overtake(o, K) /\ serial' = Replay(serial, t.ops)
      /\ overtaken' = (overtaken \/ t.stale)
      /\ UNCHANGED <<doing, writes, undone>>
  BY <1>0, <1>1 DEF Commit, Popped
<1>3. /\ o \in [Routines -> Seq(Transaction)]
      /\ \A h \in Routines :
           /\ Top(h) \in Nat /\ Len(o[h]) = IF h = g THEN Top(g) - 1 ELSE Top(h)
           /\ 1 \in 1..Len(o[h])
           /\ \A i \in 1..Len(o[h]) : /\ i \in 1..Top(h) /\ (h = g => i # Top(g))
                                      /\ o[h][i] = frames[h][i]
  BY <1>2, PoppedFacts
<1> HIDE DEF o
<1>4. Top(g) \in 1..Top(g) /\ t \in Transaction /\ catalog \in Catalog
  BY <1>0, <1>2, <1>3 DEF CatInv, CatType, Top
<1>5. /\ frames' \in [Routines -> Seq(Transaction)]
      /\ \A h \in Routines :
           /\ Top(h)' = Len(o[h]) /\ 1 \in 1..Top(h)' /\ Top(h)' > 0
           /\ \A i \in 1..Top(h)' :
                /\ i \in 1..Top(h) /\ (h = g => i # Top(g))
                /\ frames'[h][i].data = frames[h][i].data /\ frames'[h][i].ops = frames[h][i].ops
                /\ frames'[h][i].read = frames[h][i].read
                /\ frames'[h][i].stale = (frames[h][i].stale \/ frames[h][i].read \cap K # {})
  <2>1. Marked(frames', o, K) BY <1>2, <1>3, OvertakeSame
  <2>2. \A h \in Routines : Top(h)' = Len(o[h]) BY <2>1 DEF Marked, Top
  <2>3. ASSUME NEW h \in Routines, NEW i \in 1..Top(h)'
        PROVE  /\ i \in 1..Top(h) /\ (h = g => i # Top(g))
               /\ frames'[h][i].data = frames[h][i].data /\ frames'[h][i].ops = frames[h][i].ops
               /\ frames'[h][i].read = frames[h][i].read
               /\ frames'[h][i].stale = (frames[h][i].stale \/ frames[h][i].read \cap K # {})
    <3>1. i \in 1..Len(o[h]) /\ o[h][i] = frames[h][i] BY <1>3, <2>2
    <3>2. /\ frames'[h][i].data = o[h][i].data /\ frames'[h][i].ops = o[h][i].ops
          /\ frames'[h][i].read = o[h][i].read
          /\ frames'[h][i].stale = (o[h][i].stale \/ o[h][i].read \cap K # {})
      BY <2>1, <3>1 DEF Marked
    <3> QED BY <1>3, <3>1, <3>2
  <2>4. \A h \in Routines : 1 \in 1..Top(h)' /\ Top(h)' > 0
    <3>1. \A h \in Routines : 1 \in 1..Len(o[h]) BY <1>3
    <3> QED BY <2>2, <3>1
  <2> QED BY <2>1, <2>2, <2>3, <2>4 DEF Marked
<1>6. \A h \in Routines : \A i \in 1..Top(h)' : OpsOf(frames'[h][i]) = OpsOf(frames[h][i])
  BY <1>5 DEF OpsOf
<1>7. catalog' = Overlay(catalog, t) /\ catalog' \in Catalog
  <2>1. catalog' = Overlay(catalog, t) BY <1>1, <1>2 DEF Overlay
  <2> QED BY <1>4, <2>1 DEF Overlay, Catalog, Transaction
<1>8. CatType' BY <1>2, <1>5, <1>7 DEF CatInv, CatType
<1>9. \A x : IsPast(x) => IsPast(x)' BY <1>2 DEF IsPast
<1>10. ASSUME NEW k \in CatKeys, NEW x \in catalog'[k]
       PROVE  IsPast(x) /\ \A h \in Routines : MaySee(h, 1, x)'
  <2>1. x \in t.data[k] \/ x \in catalog[k] BY <1>7 DEF Overlay
  <2>2. CASE x \in t.data[k]
    <3>1. IsPast(x) /\ MaySee(g, Top(g), x) BY <1>0, <1>4, <2>2 DEF CatInv, WritesSound, SeesSound
    <3>2. \A h \in Routines : \A i \in 1..Top(h)' : x \notin OpsOf(frames'[h][i])
      BY <1>5, <1>6, <3>1 DEF MaySee
    <3> QED BY <1>2, <3>1, <3>2 DEF MaySee
  <2>3. CASE x \in catalog[k]
    <3>1. IsPast(x) /\ \A h \in Routines : MaySee(h, 1, x)
      BY <2>3 DEF CatInv, WritesSound, SeesSound
    <3> QED BY <1>2, <1>5, <1>6, <3>1 DEF MaySee
  <2> QED BY <2>1, <2>2, <2>3
<1>11. \A h \in Routines : doing[h] # << >> => doing[h][1].frame \in 1..Top(h)' 
  BY <1>2, <1>3, <1>5 DEF CatInv, WritesSound
<1>12. WritesSound'
  <2>1. ASSUME NEW h \in Routines, NEW i \in 1..Top(h)'
        PROVE  /\ \A k \in CatKeys : \A x \in frames'[h][i].data[k] : IsPast(x)'
               /\ \A x \in OpsOf(frames'[h][i]) : x[1] = h /\ x # Seed /\ IsPast(x)' /\ x \notin undone'
               /\ \A j \in 1..Top(h)' : j # i => OpsOf(frames'[h][i]) \cap OpsOf(frames'[h][j]) = {}
    <3>1. i \in 1..Top(h) /\ frames'[h][i].data = frames[h][i].data BY <1>5
    <3>2. /\ \A k \in CatKeys : \A x \in frames[h][i].data[k] : IsPast(x)
          /\ \A x \in OpsOf(frames[h][i]) : x[1] = h /\ x # Seed /\ IsPast(x) /\ x \notin undone
          /\ \A j \in 1..Top(h) : j # i => OpsOf(frames[h][i]) \cap OpsOf(frames[h][j]) = {}
      BY <3>1 DEF CatInv, WritesSound
    <3>3. \A j \in 1..Top(h)' : j \in 1..Top(h) BY <1>5
    <3> QED BY <1>2, <1>6, <1>9, <3>1, <3>2, <3>3
  <2>2. ASSUME NEW h \in Routines
        PROVE  /\ frames'[h][1].ops = << >> /\ \A k \in CatKeys : frames'[h][1].data[k] = {}
               /\ doing'[h] # << >> =>
                    /\ doing'[h][1].frame \in 1..Top(h)'
                    /\ doing'[h][1].write = <<h, writes'[h]>> /\ writes'[h] > 0
                    /\ doing'[h][1].write \in doing'[h][1].record
                    /\ \A x \in doing'[h][1].record : IsPast(x)' \/ x = doing'[h][1].write
    <3>1. frames'[h][1].data = frames[h][1].data /\ frames'[h][1].ops = frames[h][1].ops
      BY <1>5
    <3>2. /\ frames[h][1].ops = << >> /\ \A k \in CatKeys : frames[h][1].data[k] = {}
          /\ doing[h] # << >> =>
               /\ doing[h][1].write = <<h, writes[h]>> /\ writes[h] > 0
               /\ doing[h][1].write \in doing[h][1].record
               /\ \A x \in doing[h][1].record : IsPast(x) \/ x = doing[h][1].write
      BY DEF CatInv, WritesSound
    <3> QED BY <1>2, <1>9, <1>11, <3>1, <3>2
  <2>3. \A k \in CatKeys : \A x \in catalog'[k] : IsPast(x)' BY <1>9, <1>10
  <2>4. \A x \in undone' : IsPast(x)' /\ x # Seed BY <1>2, <1>9 DEF CatInv, WritesSound
  <2> QED BY <2>1, <2>2, <2>3, <2>4 DEF WritesSound
<1>13. SeesSound'
  <2>1. ASSUME NEW h \in Routines, NEW i, NEW x, MaySee(h, i, x) PROVE MaySee(h, i, x)'
    BY <1>2, <1>5, <1>6, <2>1 DEF MaySee
  <2>2. ASSUME NEW h \in Routines, doing'[h] # << >>
        PROVE  (\A x \in doing[h][1].record : MaySee(h, doing[h][1].frame, x))'
    <3>1. doing'[h] = doing[h] BY <1>2
    <3>2. \A x \in doing[h][1].record : MaySee(h, doing[h][1].frame, x)
      BY <2>2, <3>1 DEF CatInv, SeesSound
    <3> QED BY <2>1, <3>1, <3>2
  <2>3. ASSUME NEW h \in Routines, NEW i \in 1..Top(h)', NEW k \in CatKeys
        PROVE  \A x \in frames'[h][i].data[k] : MaySee(h, i, x)'
    <3>1. i \in 1..Top(h) /\ frames'[h][i].data = frames[h][i].data BY <1>5
    <3>2. \A x \in frames[h][i].data[k] : MaySee(h, i, x) BY <3>1 DEF CatInv, SeesSound
    <3> QED BY <2>1, <3>1, <3>2
  <2> QED BY <1>10, <2>2, <2>3 DEF SeesSound
<1>14. SerialSound'
  <2>1. ASSUME NEW h \in Routines, NEW i \in 1..Top(h)'
        PROVE  /\ ReplaySound(catalog', frames'[h][i])
               /\ \A e : ReadSound(catalog, e, frames[h][i]) => ReadSound(catalog', e, frames'[h][i])
    <3> DEFINE v == frames[h][i]
               u == frames'[h][i]
    <3>1. /\ i \in 1..Top(h) /\ u.data = v.data /\ u.ops = v.ops /\ u.read = v.read
          /\ u.stale = (v.stale \/ v.read \cap K # {})
      BY <1>5
    <3>2. v \in Transaction BY <3>1 DEF CatInv, CatType, Top
    <3>3. ReplaySound(catalog, v) BY <3>1 DEF CatInv, SerialSound
    <3>4. \A k \in CatKeys \ K : catalog'[k] = catalog[k] BY <1>2
    <3> HIDE DEF v, u
    <3>5. ReplaySound(catalog', u) /\ \A e : ReadSound(catalog, e, v) => ReadSound(catalog', e, u)
      BY <3>1, <3>2, <3>3, <3>4, SameOvertaken
    <3> QED BY <3>5 DEF v, u
  <2>2. ASSUME NEW h \in Routines, doing'[h] # << >>
        PROVE  ReadSound(catalog', doing'[h][1], frames'[h][doing'[h][1].frame])
    <3>1. doing'[h] = doing[h] /\ doing[h][1].frame \in 1..Top(h)' BY <1>2, <1>11, <2>2
    <3>2. ReadSound(catalog, doing[h][1], frames[h][doing[h][1].frame])
      BY <2>2, <3>1 DEF CatInv, SerialSound
    <3> QED BY <2>1, <3>1, <3>2
  <2>3. Serializable'
    <3> SUFFICES ASSUME ~overtaken' PROVE serial' = [catalog |-> catalog', legal |-> TRUE]
      BY DEF Serializable
    <3>1. ~t.stale /\ serial = [catalog |-> catalog, legal |-> TRUE]
      BY <1>2 DEF CatInv, SerialSound, Serializable
    <3>2. ReplaySound(catalog, t) BY <1>0, <1>4 DEF CatInv, SerialSound
    <3>3. catalog \in Alike(catalog, t) BY <1>4 DEF Alike
    <3>4. Replay([catalog |-> catalog, legal |-> TRUE], t.ops)
            = [catalog |-> Overlay(catalog, t), legal |-> TRUE]
      BY <3>1, <3>2, <3>3 DEF ReplaySound
    <3> QED BY <1>2, <1>7, <3>1, <3>4
  <2> QED BY <2>1, <2>2, <2>3 DEF SerialSound
<1> QED BY <1>8, <1>12, <1>13, <1>14 DEF CatInv

\* A transaction is rolled back: nothing stems from what it wrote.
LEMMA RollbackStep ==
  ASSUME CatInv, NEW g \in Routines, Rollback(g)
  PROVE  CatInv'
<1>0. PICK t : t = frames[g][Top(g)] OBVIOUS
<1>1. /\ doing[g] = << >> /\ Top(g) > 1 /\ undone' = undone \cup OpsOf(t) /\ frames' = Popped(g)
      /\ UNCHANGED <<catalog, doing, writes, serial, overtaken>>
  BY <1>0 DEF Rollback, Popped
<1>2. /\ frames' \in [Routines -> Seq(Transaction)]
      /\ \A h \in Routines :
           /\ 1 \in 1..Top(h)' /\ (h # g => Top(h)' = Top(h)) /\ Top(h)' > 0
           /\ \A i \in 1..Top(h)' : /\ i \in 1..Top(h) /\ (h = g => i # Top(g))
                                    /\ frames'[h][i] = frames[h][i]
  <2>1. /\ frames' \in [Routines -> Seq(Transaction)]
        /\ \A h \in Routines :
             /\ Top(h) \in Nat /\ Top(h)' = IF h = g THEN Top(g) - 1 ELSE Top(h)
             /\ 1 \in 1..Top(h)'
             /\ \A i \in 1..Top(h)' : /\ i \in 1..Top(h) /\ (h = g => i # Top(g))
                                      /\ frames'[h][i] = frames[h][i]
    BY <1>1, PoppedFacts DEF Top
  <2>2. \A h \in Routines : Top(h)' \in Nat BY <1>1, <2>1
  <2> QED BY <2>1, <2>2
<1>3. Top(g) \in 1..Top(g) /\ t \in Transaction
  BY <1>0, <1>1 DEF CatInv, CatType, Top
<1>4. OpsOf(t) \subseteq Numbered /\ \A x \in OpsOf(t) : IsPast(x) /\ x # Seed /\ x[1] = g
  <2>1. OpsOf(t) \subseteq Numbered
    <3>1. t.ops \in Seq(Operation) BY <1>3 DEF Transaction
    <3>2. \A i \in DOMAIN t.ops : t.ops[i] \in Operation BY <3>1
    <3>3. \A o \in Operation : o.write \in Numbered BY DEF Operation
    <3> QED BY <3>2, <3>3 DEF OpsOf
  <2> QED BY <1>0, <1>3, <2>1 DEF CatInv, WritesSound
<1>5. CatType' BY <1>1, <1>2, <1>4 DEF CatInv, CatType
<1>6. \A x : IsPast(x) => IsPast(x)' BY <1>1 DEF IsPast
<1>7. ASSUME NEW h \in Routines, NEW i \in 1..Top(h)', NEW x, MaySee(h, i, x) PROVE MaySee(h, i, x)'
  <2>1. x \notin OpsOf(t) BY <1>0, <1>2, <1>3, <1>7 DEF MaySee
  <2> QED BY <1>1, <1>2, <1>7, <2>1 DEF MaySee
<1>8. \A h \in Routines : doing[h] # << >> => h # g /\ doing[h][1].frame \in 1..Top(h)'
  BY <1>1, <1>2 DEF CatInv, WritesSound
<1>9. WritesSound'
  <2>1. ASSUME NEW h \in Routines, NEW i \in 1..Top(h)'
        PROVE  /\ \A k \in CatKeys : \A x \in frames'[h][i].data[k] : IsPast(x)'
               /\ \A x \in OpsOf(frames'[h][i]) : x[1] = h /\ x # Seed /\ IsPast(x)' /\ x \notin undone'
               /\ \A j \in 1..Top(h)' : j # i => OpsOf(frames'[h][i]) \cap OpsOf(frames'[h][j]) = {}
    <3>1. i \in 1..Top(h) /\ frames'[h][i] = frames[h][i] /\ (h = g => i # Top(g)) BY <1>2
    <3>2. /\ \A k \in CatKeys : \A x \in frames[h][i].data[k] : IsPast(x)
          /\ \A x \in OpsOf(frames[h][i]) : x[1] = h /\ x # Seed /\ IsPast(x) /\ x \notin undone
          /\ \A j \in 1..Top(h) : j # i => OpsOf(frames[h][i]) \cap OpsOf(frames[h][j]) = {}
      BY <3>1 DEF CatInv, WritesSound
    <3>3. \A j \in 1..Top(h)' : j \in 1..Top(h) /\ frames'[h][j] = frames[h][j] BY <1>2
    <3>4. OpsOf(frames[h][i]) \cap OpsOf(t) = {}
      <4>1. CASE h = g BY <1>0, <1>3, <3>1, <3>2, <4>1
      <4>2. CASE h # g BY <1>4, <3>2, <4>2
      <4> QED BY <4>1, <4>2
    <3> QED BY <1>1, <1>6, <3>1, <3>2, <3>3, <3>4
  <2>2. ASSUME NEW h \in Routines
        PROVE  /\ frames'[h][1].ops = << >> /\ \A k \in CatKeys : frames'[h][1].data[k] = {}
               /\ doing'[h] # << >> =>
                    /\ doing'[h][1].frame \in 1..Top(h)'
                    /\ doing'[h][1].write = <<h, writes'[h]>> /\ writes'[h] > 0
                    /\ doing'[h][1].write \in doing'[h][1].record
                    /\ \A x \in doing'[h][1].record : IsPast(x)' \/ x = doing'[h][1].write
    <3>1. frames'[h][1] = frames[h][1] BY <1>2
    <3>2. /\ frames[h][1].ops = << >> /\ \A k \in CatKeys : frames[h][1].data[k] = {}
          /\ doing[h] # << >> =>
               /\ doing[h][1].write = <<h, writes[h]>> /\ writes[h] > 0
               /\ doing[h][1].write \in doing[h][1].record
               /\ \A x \in doing[h][1].record : IsPast(x) \/ x = doing[h][1].write
      BY DEF CatInv, WritesSound
    <3> QED BY <1>1, <1>6, <1>8, <3>1, <3>2
  <2>3. \A k \in CatKeys : \A x \in catalog'[k] : IsPast(x)' BY <1>1, <1>6 DEF CatInv, WritesSound
  <2>4. \A x \in undone' : IsPast(x)' /\ x # Seed BY <1>1, <1>4, <1>6 DEF CatInv, WritesSound
  <2> QED BY <2>1, <2>2, <2>3, <2>4 DEF WritesSound
<1>10. SeesSound'
  <2>1. ASSUME NEW h \in Routines, doing'[h] # << >>
        PROVE  (\A x \in doing[h][1].record : MaySee(h, doing[h][1].frame, x))'
    <3>1. doing'[h] = doing[h] /\ doing[h][1].frame \in 1..Top(h)' BY <1>1, <1>8, <2>1
    <3>2. \A x \in doing[h][1].record : MaySee(h, doing[h][1].frame, x)
      BY <2>1, <3>1 DEF CatInv, SeesSound
    <3> QED BY <1>7, <3>1, <3>2
  <2>2. ASSUME NEW h \in Routines, NEW i \in 1..Top(h)', NEW k \in CatKeys
        PROVE  \A x \in frames'[h][i].data[k] : MaySee(h, i, x)'
    <3>1. i \in 1..Top(h) /\ frames'[h][i] = frames[h][i] BY <1>2
    <3>2. \A x \in frames[h][i].data[k] : MaySee(h, i, x) BY <3>1 DEF CatInv, SeesSound
    <3> QED BY <1>7, <3>1, <3>2
  <2>3. ASSUME NEW h \in Routines, NEW k \in CatKeys, NEW x \in catalog'[k] PROVE MaySee(h, 1, x)'
    <3>1. MaySee(h, 1, x) /\ 1 \in 1..Top(h)' BY <1>1, <1>2 DEF CatInv, SeesSound
    <3> QED BY <1>7, <3>1
  <2> QED BY <2>1, <2>2, <2>3 DEF SeesSound
<1>11. SerialSound'
  <2>1. \A h \in Routines : \A i \in 1..Top(h)' : ReplaySound(catalog', frames'[h][i])
    BY <1>1, <1>2 DEF CatInv, SerialSound
  <2>2. ASSUME NEW h \in Routines, doing'[h] # << >>
        PROVE  ReadSound(catalog', doing'[h][1], frames'[h][doing'[h][1].frame])
    <3>1. doing'[h] = doing[h] /\ doing[h][1].frame \in 1..Top(h)' BY <1>1, <1>8, <2>2
    <3>2. ReadSound(catalog, doing[h][1], frames[h][doing[h][1].frame])
      BY <2>2, <3>1 DEF CatInv, SerialSound
    <3> QED BY <1>1, <1>2, <3>1, <3>2
  <2>3. Serializable' BY <1>1 DEF CatInv, SerialSound, Serializable
  <2> QED BY <2>1, <2>2, <2>3 DEF SerialSound
<1> QED BY <1>5, <1>9, <1>10, <1>11 DEF CatInv

\* Every step of the catalog keeps the invariant.
LEMMA CatNextSound == CatInv /\ [CatNext]_catVars => CatInv'
<1> SUFFICES ASSUME CatInv, [CatNext]_catVars PROVE CatInv' OBVIOUS
<1>1. ASSUME NEW g \in Routines, BeginTransaction(g) PROVE CatInv' BY <1>1, BeginStep
<1>2. ASSUME NEW g \in Routines, WriteBuffer(g) PROVE CatInv' BY <1>2, WriteBufferStep
<1>3. ASSUME NEW g \in Routines, WriteStorage(g) PROVE CatInv' BY <1>3, WriteStorageStep
<1>4. ASSUME NEW g \in Routines, Commit(g) PROVE CatInv' BY <1>4, CommitStep
<1>5. ASSUME NEW g \in Routines, Rollback(g) PROVE CatInv' BY <1>5, RollbackStep
<1>6. ASSUME NEW g \in Routines, NEW f \in 1..Top(g), NEW k \in CatKeys, NEW kind \in KindsOf(k),
             ReadRecord(g, f, kind, k)
      PROVE  CatInv'
  BY <1>6, ReadStep
<1>7. CASE UNCHANGED catVars
  <2>1. UNCHANGED <<catalog, frames, doing, writes, undone, serial, overtaken>> BY <1>7 DEF catVars
  <2>2. CatType' BY <2>1 DEF CatInv, CatType, Top
  <2>3. \A x : IsPast(x) => IsPast(x)' BY <2>1 DEF IsPast
  <2>4. \A g \in Routines : Top(g)' = Top(g) BY <2>1 DEF Top
  <2>5. WritesSound' BY <2>1, <2>3, <2>4 DEF CatInv, WritesSound
  <2>6. \A g, f, x : MaySee(g, f, x) => MaySee(g, f, x)' BY <2>1, <2>4 DEF MaySee
  <2>7. SeesSound' BY <2>1, <2>4, <2>6 DEF CatInv, SeesSound
  <2>8. SerialSound' BY <2>1, <2>4 DEF CatInv, SerialSound, Serializable
  <2> QED BY <2>2, <2>5, <2>7, <2>8 DEF CatInv
<1> QED BY <1>1, <1>2, <1>3, <1>4, <1>5, <1>6, <1>7 DEF CatNext

\* What the invariant says of the catalog and of every open transaction.
LEMMA CatInvIsolated == CatInv => Isolated
<1> SUFFICES ASSUME CatInv PROVE NoDirtyRecord BY DEF Isolated, CatInv, SerialSound
<1> DEFINE open == UNION {{<<g, f>> : f \in 2..Top(g)} : g \in Routines}
           uncommitted(x) == undone \cup UNION {OpsOf(frames[y[1]][y[2]]) : y \in open \ {x}}
<1>1. ASSUME NEW x \in open PROVE x[1] \in Routines /\ x[2] \in 2..Top(x[1]) /\ x = <<x[1], x[2]>>
  <2>1. PICK g \in Routines : x \in {<<g, f>> : f \in 2..Top(g)} OBVIOUS
  <2>2. PICK f \in 2..Top(g) : x = <<g, f>> BY <2>1
  <2> HIDE DEF open
  <2>3. x[1] = g /\ x[2] = f BY <2>2
  <2>4. x[2] \in 2..Top(x[1]) BY <2>3
  <2>5. x = <<x[1], x[2]>> BY <2>2, <2>3, Zenon
  <2>6. x[1] \in Routines BY <2>3
  <2> QED BY <2>4, <2>5, <2>6
<1>2. ASSUME NEW g \in Routines PROVE Top(g) \in Nat /\ 1 \in 1..Top(g)
  <2>1. frames[g] \in Seq(Transaction) /\ Len(frames[g]) > 0 BY DEF CatInv, CatType, Top
  <2> QED BY <2>1 DEF Top
<1>3. \A x \in open : x[2] \in 1..Top(x[1]) /\ x[2] # 1
  <2> HIDE DEF open
  <2> QED BY <1>1, <1>2
<1> HIDE DEF open
<1>4. ASSUME NEW k \in CatKeys, NEW w \in catalog[k], w \in uncommitted(Seed) PROVE FALSE
  <2>1. \A g \in Routines : MaySee(g, 1, w) BY DEF CatInv, SeesSound
  <2>2. undone \subseteq Routines \X Nat BY DEF CatInv, CatType, Numbered
  <2>3. w \notin undone BY <2>1, <2>2 DEF MaySee
  <2>4. PICK y \in open : w \in OpsOf(frames[y[1]][y[2]]) BY <1>4, <2>3
  <2>5. MaySee(y[1], 1, w) BY <1>1, <2>1
  <2> QED BY <1>1, <1>3, <2>4, <2>5 DEF MaySee
<1>5. ASSUME NEW x \in open, NEW k \in CatKeys, NEW w \in frames[x[1]][x[2]].data[k],
             w \in uncommitted(x)
      PROVE  FALSE
  <2>1. MaySee(x[1], x[2], w) BY <1>1, <1>3 DEF CatInv, SeesSound
  <2>2. w \notin undone BY <2>1 DEF MaySee
  <2>3. PICK y \in open : y # x /\ w \in OpsOf(frames[y[1]][y[2]]) BY <1>5, <2>2
  <2>4. y[1] = x[1] /\ y[2] = x[2] BY <1>1, <1>3, <2>1, <2>3 DEF MaySee
  <2> QED BY <1>1, <2>3, <2>4
<1> QED BY <1>4, <1>5 DEF NoDirtyRecord, open

\* Transactions of the in-memory catalog (withTransaction, commitTransaction and
\* rollbackTransaction of memory/datastore.go) are isolated, whatever the number of
\* goroutines, of records and of transactions inside each other.
THEOREM TransactionsIsolated == CatSpec => []Isolated
<1>1. CatInit => CatInv BY CatInitSound
<1>2. CatInv /\ [CatNext]_catVars => CatInv' BY CatNextSound
<1>3. CatInv => Isolated BY CatInvIsolated
<1> QED BY <1>1, <1>2, <1>3, PTL DEF CatSpec

(***************************************************************************)
(* Stores and their cells.                                                 *)
(***************************************************************************)

\* There are four files.
LEMMA FilesFacts ==
  /\ Len(Files) = 4
  /\ Files[1] = "address_refs" /\ Files[2] = "chain_metadata"
  /\ Files[3] = "contract_metadata" /\ Files[4] = "env_metadata"
BY DEF Files

\* Every cell is kept in one of the files.
LEMMA CellHasFile ==
  ASSUME NEW x \in Cells
  PROVE  \E i \in 1..Len(Files) : x \in CellsOf(Files[i])
<1>1. x \in AddressRefKeys \/ x \in ChainMetadataKeys \/ x \in ContractMetadataKeys
        \/ x = EnvCell
  BY DEF Cells, Keys
<1>2. /\ CellsOf(Files[1]) = AddressRefKeys
      /\ CellsOf(Files[2]) = ChainMetadataKeys
      /\ CellsOf(Files[3]) = ContractMetadataKeys
      /\ CellsOf(Files[4]) = {EnvCell}
  BY FilesFacts DEF CellsOf
<1>3. 1 \in 1..Len(Files) /\ 2 \in 1..Len(Files) /\ 3 \in 1..Len(Files)
        /\ 4 \in 1..Len(Files)
  BY FilesFacts
<1> QED
  BY <1>1, <1>2, <1>3

\* The new store is one of the stores, and holds nothing.
LEMMA NewType ==
  /\ NewMemoryDataStore \in Contents
  /\ \A x \in Cells : Cell(NewMemoryDataStore, x) = None
BY DEF NewMemoryDataStore, Contents, Store, Cell, Cells, Keys

\* Merge yields a store; a cell is deleted, replaced or kept.
LEMMA MergeCells ==
  ASSUME NEW d \in Store, NEW s \in Store
  PROVE  /\ Merge(d, s) \in Store
         /\ \A x \in Cells : Cell(Merge(d, s), x) =
              IF x \in s.del THEN None
              ELSE IF Cell(s, x) # None THEN Cell(s, x) ELSE Cell(d, x)
<1>1. EnvCell \notin Keys
  BY MergeAssumption
<1>2. /\ d.recs \in [Keys -> Values \cup {None}] /\ d.del \in SUBSET Keys
      /\ d.env \in EnvValues \cup {None}
      /\ s.recs \in [Keys -> Values \cup {None}] /\ s.del \in SUBSET Keys
      /\ s.env \in EnvValues \cup {None}
  BY DEF Store
<1>3. Merge(d, s) \in Store
  BY <1>2 DEF Merge, Store, Live
<1>4. ASSUME NEW x \in Cells
      PROVE  Cell(Merge(d, s), x) =
               IF x \in s.del THEN None
               ELSE IF Cell(s, x) # None THEN Cell(s, x) ELSE Cell(d, x)
  <2>1. CASE x = EnvCell
    BY <1>1, <1>2, <2>1 DEF Merge, Cell
  <2>2. CASE x # EnvCell
    <3>1. x \in Keys
      BY <2>2 DEF Cells
    <3> QED
      BY <1>2, <2>2, <3>1 DEF Merge, Cell, Live
  <2> QED
    BY <2>1, <2>2
<1> QED
  BY <1>3, <1>4

\* Saving drops the staged deletions and keeps every cell.
LEMMA SavedCells ==
  ASSUME NEW s \in Store
  PROVE  /\ Saved(s) \in Contents
         /\ \A x \in Cells : Cell(Saved(s), x) = Cell(s, x)
BY DEF Saved, Contents, Store, Cell

\* Overwriting a file changes the cells of that file.
LEMMA OverwriteCells ==
  ASSUME NEW s \in Contents, NEW t \in Store, NEW i \in 1..Len(Files)
  PROVE  /\ Overwrite(s, t, Files[i]) \in Contents
         /\ \A x \in Cells : Cell(Overwrite(s, t, Files[i]), x) =
              IF x \in CellsOf(Files[i]) THEN Cell(t, x) ELSE Cell(s, x)
<1> DEFINE f == Files[i]
<1>1. /\ s.recs \in [Keys -> Values \cup {None}] /\ s.del = {}
      /\ s.env \in EnvValues \cup {None}
      /\ t.recs \in [Keys -> Values \cup {None}]
      /\ t.env \in EnvValues \cup {None}
      /\ s \in Store
  BY DEF Store, Contents
<1> HIDE DEF f
<1>2. Overwrite(s, t, f) \in Contents
  BY <1>1 DEF Overwrite, Contents, Store
<1>3. ASSUME NEW x \in Cells
      PROVE  Cell(Overwrite(s, t, f), x) =
               IF x \in CellsOf(f) THEN Cell(t, x) ELSE Cell(s, x)
  <2>1. CASE x = EnvCell
    BY <1>1, <2>1 DEF Overwrite, Cell, Store
  <2>2. CASE x # EnvCell
    <3>1. x \in Keys
      BY <2>2 DEF Cells
    <3> QED
      BY <1>1, <2>2, <3>1 DEF Overwrite, Cell, Store
  <2> QED
    BY <2>1, <2>2
<1> QED
  BY <1>2, <1>3 DEF f

\* Merging a changeset's artifact gives the cells it touches its outcome, and
\* keeps the others.
LEMMA ArtifactCells ==
  ASSUME NEW d \in Store, NEW c \in Changesets
  PROVE  /\ Merge(d, Artifact[c]) \in Store
         /\ \A x \in Cells :
              Cell(Merge(d, Artifact[c]), x) =
                IF x \in Touched(c) THEN MergeOutcome(c, x) ELSE Cell(d, x)
<1>1. Artifact[c] \in Store
  BY MergeAssumption
<1> QED
  BY <1>1, MergeCells DEF Touched, MergeOutcome

(***************************************************************************)
(* Types.                                                                  *)
(***************************************************************************)

\* The part of MergeTypeOK about the commands and the history of merges.
CommandsOK ==
  /\ pc \in [Commands -> {"idle", "catalog", "load", "write"}]
  /\ cs \in [Commands -> Changesets \cup {None}]
  /\ \A p \in Commands : pc[p] # "idle" => cs[p] \in Changesets
  /\ mem \in [Commands -> Store]
  /\ next \in [Commands -> 1..Len(Files)]
  /\ failed \subseteq Changesets
  /\ owner \in [Cells -> Changesets \cup {None}]

\* The part about what is stored.
StoredOK ==
  /\ files \in Contents /\ committed \in Contents
  /\ unreadable \subseteq damaged /\ damaged \subseteq FileNames
  /\ synced \in BOOLEAN

\* The types in two parts: those of the commands and those of what is stored.
LEMMA TypeParts == MergeTypeOK <=> CommandsOK /\ StoredOK
BY DEF MergeTypeOK, CommandsOK, StoredOK

\* A store without staged deletions is a store.
LEMMA ContentsAreStores == \A s \in Contents : s \in Store
BY DEF Contents

\* Succeed and Fail leave a well-typed idle command.
LEMMA EndType ==
  ASSUME CommandsOK, NEW p \in Commands, pc[p] # "idle", Succeed(p) \/ Fail(p)
  PROVE  CommandsOK'
<1>1. NewMemoryDataStore \in Store
  BY NewType, ContentsAreStores
<1>2. 1 \in 1..Len(Files)
  BY FilesFacts
<1>3. cs[p] \in Changesets
  BY DEF CommandsOK
<1>4. Exit(p)
  BY DEF Succeed, Fail
<1>5. /\ pc' \in [Commands -> {"idle", "catalog", "load", "write"}]
      /\ cs' \in [Commands -> Changesets \cup {None}]
      /\ mem' \in [Commands -> Store]
      /\ next' \in [Commands -> 1..Len(Files)]
  BY <1>1, <1>2, <1>4 DEF Exit, CommandsOK
<1>6. \A q \in Commands : pc'[q] # "idle" => cs'[q] \in Changesets
  BY <1>4 DEF Exit, CommandsOK
<1>7. failed' \subseteq Changesets
  BY <1>3 DEF Succeed, Fail, CommandsOK
<1>8. owner' \in [Cells -> Changesets \cup {None}]
  BY <1>3 DEF Succeed, Fail, CommandsOK
<1> QED
  BY <1>5, <1>6, <1>7, <1>8 DEF CommandsOK

\* The initial states are well typed.
LEMMA InitType == MergeInit => MergeTypeOK
<1> SUFFICES ASSUME MergeInit PROVE MergeTypeOK
  OBVIOUS
<1>1. NewMemoryDataStore \in Contents /\ NewMemoryDataStore \in Store
  BY NewType, ContentsAreStores
<1>2. 1 \in 1..Len(Files)
  BY FilesFacts
<1>3. CommandsOK
  BY <1>1, <1>2 DEF MergeInit, CommandsOK
<1>4. StoredOK
  BY <1>1 DEF MergeInit, StoredOK
<1> QED
  BY <1>3, <1>4, TypeParts

\* Every step of a command keeps the types.
LEMMA NextType == MergeTypeOK /\ [MergeNext]_mergeVars => MergeTypeOK'
<1> SUFFICES ASSUME CommandsOK, StoredOK, [MergeNext]_mergeVars
             PROVE  CommandsOK' /\ StoredOK'
  BY TypeParts DEF MergeTypeOK, CommandsOK, StoredOK
<1> USE ContentsAreStores
<1>1. ASSUME NEW p \in Commands, NEW c \in Changesets, Begin(p, c)
      PROVE  CommandsOK' /\ StoredOK'
  BY <1>1 DEF Begin, CommandsOK, StoredOK
<1>2. ASSUME NEW p \in Commands, CatalogCommit(p)
      PROVE  StoredOK'
  <2>1. cs[p] \in Changesets
    BY <1>2 DEF CatalogCommit, CommandsOK
  <2>2. Saved(Merge(committed, Artifact[cs[p]])) \in Contents
    BY <2>1, ArtifactCells, SavedCells DEF StoredOK
  <2> QED
    BY <1>2, <2>2 DEF CatalogCommit, StoredOK
<1>3. ASSUME NEW p \in Commands, CatalogMerged(p)
      PROVE  CommandsOK' /\ StoredOK'
  <2>1. StoredOK'
    BY <1>2, <1>3 DEF CatalogMerged
  <2>2. CASE DatastoreType = "catalog"
    BY <1>3, <2>1, <2>2, EndType DEF CatalogMerged, CatalogCommit
  <2>3. CASE DatastoreType # "catalog"
    BY <1>3, <2>1, <2>3 DEF CatalogMerged, CatalogCommit, CommandsOK
  <2> QED
    BY <2>2, <2>3
<1>4. ASSUME NEW p \in Commands, CatalogAnswerLost(p)
      PROVE  CommandsOK' /\ StoredOK'
  BY <1>2, <1>4, EndType DEF CatalogAnswerLost, CatalogCommit
<1>5. ASSUME NEW p \in Commands, LoadAndMerge(p)
      PROVE  CommandsOK' /\ StoredOK'
  <2>1. cs[p] \in Changesets
    BY <1>5 DEF LoadAndMerge, CommandsOK
  <2>2. Merge(files, Artifact[cs[p]]) \in Store
    BY <2>1, ArtifactCells DEF StoredOK
  <2> QED
    BY <1>5, <2>1, <2>2 DEF LoadAndMerge, CommandsOK, StoredOK
<1>6. ASSUME NEW p \in Commands, WriteFile(p)
      PROVE  CommandsOK' /\ StoredOK'
  <2>1. next[p] \in 1..Len(Files) /\ mem[p] \in Store
    BY DEF CommandsOK
  <2>2. Overwrite(files, mem[p], Files[next[p]]) \in Contents
    BY <2>1, OverwriteCells DEF StoredOK
  <2>3. StoredOK'
    BY <1>6, <2>2 DEF WriteFile, StoredOK
  <2>4. CASE next[p] = Len(Files)
    BY <1>6, <2>3, <2>4, EndType DEF WriteFile
  <2>5. CASE next[p] # Len(Files)
    <3>1. next[p] + 1 \in 1..Len(Files)
      BY <2>1, <2>5, FilesFacts
    <3> QED
      BY <1>6, <2>3, <2>5, <3>1 DEF WriteFile, CommandsOK
  <2> QED
    BY <2>4, <2>5
<1>7. ASSUME NEW p \in Commands, FailBetweenSteps(p)
      PROVE  CommandsOK' /\ StoredOK'
  BY <1>7, EndType DEF FailBetweenSteps, StoredOK
<1>8. ASSUME NEW p \in Commands, CrashInWrite(p)
      PROVE  CommandsOK' /\ StoredOK'
  <2>1. next[p] \in 1..Len(Files)
    BY DEF CommandsOK
  <2>2. Overwrite(files, NewMemoryDataStore, Files[next[p]]) \in Contents
    BY <2>1, OverwriteCells, NewType DEF StoredOK
  <2>3. Files[next[p]] \in FileNames
    BY <2>1 DEF FileNames
  <2> QED
    BY <1>8, <2>2, <2>3, EndType DEF CrashInWrite, StoredOK
<1>9. ASSUME SyncDataStoreToCatalog
      PROVE  CommandsOK' /\ StoredOK'
  <2>1. Saved(Merge(committed, files)) \in Contents
    BY MergeCells, SavedCells DEF StoredOK
  <2> QED
    BY <1>9, <2>1 DEF SyncDataStoreToCatalog, CommandsOK, StoredOK
<1>10. CASE UNCHANGED mergeVars
  BY <1>10 DEF mergeVars, CommandsOK, StoredOK
<1> QED
  BY <1>1, <1>3, <1>4, <1>5, <1>6, <1>7, <1>8, <1>9, <1>10 DEF MergeNext

\* Type correctness: in particular a command never writes past the last file,
\* and only files that a crash damaged are unreadable.
THEOREM MergeTypeCorrect == MergeSpec => []MergeTypeOK
BY InitType, NextType, PTL DEF MergeSpec

(***************************************************************************)
(* What the steps do to cells and to the set of pending changesets.        *)
(***************************************************************************)

\* A commit gives the catalog the changeset's outcome.
LEMMA CommitCells ==
  ASSUME MergeTypeOK, NEW p \in Commands, CatalogCommit(p)
  PROVE  \A x \in Cells :
           Cell(committed', x) = IF x \in Touched(cs[p]) THEN MergeOutcome(cs[p], x)
                               ELSE Cell(committed, x)
<1>1. cs[p] \in Changesets /\ committed \in Store
  BY ContentsAreStores DEF MergeTypeOK, CatalogCommit
<1>2. committed' = Saved(Merge(committed, Artifact[cs[p]]))
  BY DEF CatalogCommit
<1>3. PICK m : m = Merge(committed, Artifact[cs[p]])
  OBVIOUS
<1>4. m \in Store /\ \A x \in Cells :
        Cell(m, x) = IF x \in Touched(cs[p]) THEN MergeOutcome(cs[p], x) ELSE Cell(committed, x)
  BY <1>1, <1>3, ArtifactCells
<1> QED
  BY <1>2, <1>3, <1>4, SavedCells

\* A sync gives the catalog every cell for which the files have a value.
LEMMA SyncCells ==
  ASSUME MergeTypeOK, SyncDataStoreToCatalog
  PROVE  \A x \in Cells :
           Cell(committed', x) = IF Cell(files, x) # None THEN Cell(files, x)
                               ELSE Cell(committed, x)
<1>1. files \in Store /\ committed \in Store /\ files.del = {}
  BY ContentsAreStores DEF MergeTypeOK, Contents
<1>2. PICK m : m = Merge(committed, files)
  OBVIOUS
<1>3. m \in Store /\ \A x \in Cells :
        Cell(m, x) = IF Cell(files, x) # None THEN Cell(files, x) ELSE Cell(committed, x)
  BY <1>1, <1>2, MergeCells
<1>4. committed' = Saved(m)
  BY <1>2 DEF SyncDataStoreToCatalog
<1> QED
  BY <1>3, <1>4, SavedCells

\* Writing a file copies its cells from the merged store.
LEMMA WriteCells ==
  ASSUME MergeTypeOK, NEW p \in Commands, WriteFile(p)
  PROVE  \A x \in Cells :
           Cell(files', x) = IF x \in CellsOf(Files[next[p]]) THEN Cell(mem[p], x)
                             ELSE Cell(files, x)
<1>1. mem[p] \in Store /\ next[p] \in 1..Len(Files) /\ files \in Contents
  BY DEF MergeTypeOK
<1>2. files' = Overwrite(files, mem[p], Files[next[p]])
  BY DEF WriteFile
<1> QED
  BY <1>1, <1>2, OverwriteCells

\* A crash inside a write empties the cells of that file.
LEMMA CrashCells ==
  ASSUME MergeTypeOK, NEW p \in Commands, CrashInWrite(p)
  PROVE  \A x \in Cells :
           Cell(files', x) = IF x \in CellsOf(Files[next[p]]) THEN None
                             ELSE Cell(files, x)
<1>1. next[p] \in 1..Len(Files) /\ files \in Contents
  BY DEF MergeTypeOK
<1>2. files' = Overwrite(files, NewMemoryDataStore, Files[next[p]])
  BY DEF CrashInWrite
<1>3. NewMemoryDataStore \in Store
  BY NewType, ContentsAreStores
<1> QED
  BY <1>1, <1>2, <1>3, OverwriteCells, NewType

\* A running command's changeset is pending.
LEMMA RunningUnsettled ==
  ASSUME NEW p \in Commands, pc[p] # "idle", NEW x \in Touched(cs[p])
  PROVE  ~Settled(x)
BY DEF Settled, Pending

\* The last step of a merge that succeeds.
Completes(p) ==
  \/ CatalogMerged(p) /\ DatastoreType = "catalog"
  \/ WriteFile(p) /\ next[p] = Len(Files)

\* A changeset that is pending before a step is pending after it, unless the
\* step completes its merge.
LEMMA PendingStays ==
  ASSUME MergeTypeOK, [MergeNext]_mergeVars, NEW c \in Pending
  PROVE  c \in Pending' \/ \E p \in Commands : Completes(p) /\ cs[p] = c
<1>1. ASSUME failed \subseteq failed',
             \A q \in Commands : pc[q] # "idle" =>
               (pc'[q] # "idle" /\ cs'[q] = cs[q]) \/ cs[q] \in failed'
      PROVE  c \in Pending'
  BY <1>1 DEF Pending
<1>2. ASSUME NEW p \in Commands, Fail(p)
      PROVE  c \in Pending'
  <2>1. failed \subseteq failed' /\ cs[p] \in failed'
    BY <1>2 DEF Fail
  <2>2. \A q \in Commands : q # p => pc'[q] = pc[q] /\ cs'[q] = cs[q]
    BY <1>2 DEF Fail, Exit, MergeTypeOK
  <2> QED
    BY <1>1, <2>1, <2>2
<1>3. ASSUME NEW p \in Commands, Succeed(p), c # cs[p]
      PROVE  c \in Pending'
  <2>1. \A q \in Commands : q # p => pc'[q] = pc[q] /\ cs'[q] = cs[q]
    BY <1>3 DEF Succeed, Exit, MergeTypeOK
  <2>2. failed' = failed \ {cs[p]}
    BY <1>3 DEF Succeed
  <2>3. CASE c \in failed
    BY <1>3, <2>2, <2>3 DEF Pending
  <2>4. CASE c \notin failed
    <3>1. PICK q \in Commands : pc[q] # "idle" /\ c = cs[q]
      BY <2>4 DEF Pending
    <3>2. q # p /\ pc'[q] # "idle" /\ cs'[q] = c
      BY <1>3, <2>1, <3>1
    <3> QED
      BY <3>2 DEF Pending
  <2> QED
    BY <2>3, <2>4
<1>4. ASSUME NEW p \in Commands, NEW d \in Changesets, Begin(p, d)
      PROVE  c \in Pending'
  <2>1. \A q \in Commands : pc[q] # "idle" => pc'[q] = pc[q] /\ cs'[q] = cs[q]
    BY <1>4 DEF Begin, Idle, MergeTypeOK
  <2>2. failed' = failed
    BY <1>4 DEF Begin
  <2> QED
    BY <1>1, <2>1, <2>2
<1>5. ASSUME NEW p \in Commands, CatalogMerged(p), DatastoreType # "catalog"
      PROVE  c \in Pending'
  <2>1. \A q \in Commands : pc[q] # "idle" => pc'[q] # "idle" /\ cs'[q] = cs[q]
    BY <1>5 DEF CatalogMerged, MergeTypeOK
  <2>2. failed' = failed
    BY <1>5 DEF CatalogMerged
  <2> QED
    BY <1>1, <2>1, <2>2
<1>6. ASSUME NEW p \in Commands, LoadAndMerge(p)
      PROVE  c \in Pending'
  <2>1. \A q \in Commands : pc[q] # "idle" => pc'[q] # "idle" /\ cs'[q] = cs[q]
    BY <1>6 DEF LoadAndMerge, MergeTypeOK
  <2>2. failed' = failed
    BY <1>6 DEF LoadAndMerge
  <2> QED
    BY <1>1, <2>1, <2>2
<1>7. ASSUME NEW p \in Commands, WriteFile(p), next[p] # Len(Files)
      PROVE  c \in Pending'
  BY <1>1, <1>7 DEF WriteFile
<1>8. ASSUME SyncDataStoreToCatalog \/ UNCHANGED mergeVars
      PROVE  c \in Pending'
  BY <1>1, <1>8 DEF SyncDataStoreToCatalog, mergeVars
<1>9. \A p \in Commands : Completes(p) => Succeed(p)
  BY DEF Completes, CatalogMerged, WriteFile
<1>10. \A p \in Commands : CatalogAnswerLost(p) \/ FailBetweenSteps(p) \/ CrashInWrite(p)
         => Fail(p)
  BY DEF CatalogAnswerLost, FailBetweenSteps, CrashInWrite
<1> QED
  BY <1>2, <1>3, <1>4, <1>5, <1>6, <1>7, <1>8, <1>9, <1>10 DEF MergeNext, Completes

\* A cell that is settled after a step was settled before, unless the step
\* completes the merge of a changeset that touches it.
LEMMA SettledBefore ==
  ASSUME MergeTypeOK, [MergeNext]_mergeVars, NEW x \in Cells, Settled(x)'
  PROVE  \/ Settled(x)
         \/ \E p \in Commands : Completes(p) /\ x \in Touched(cs[p])
BY PendingStays DEF Settled

(***************************************************************************)
(* The inductive invariant.                                                *)
(***************************************************************************)

\* One command at a time, when the operator keeps to it.
LEMMA NextOne ==
  ASSUME MergeTypeOK, OneAtATime, [MergeNext]_mergeVars
  PROVE  OneAtATime'
<1>1. ASSUME NEW p \in Commands, NEW c \in Changesets, Begin(p, c)
      PROVE  OneAtATime'
  BY <1>1 DEF Begin, Idle, OneAtATime, MergeTypeOK
<1>2. ASSUME \A q \in Commands : pc'[q] # "idle" => pc[q] # "idle"
      PROVE  OneAtATime'
  BY <1>2 DEF OneAtATime
<1>3. ASSUME NEW p \in Commands, Exit(p)
      PROVE  OneAtATime'
  BY <1>2, <1>3 DEF Exit, MergeTypeOK
<1>4. ASSUME NEW p \in Commands, CatalogMerged(p)
      PROVE  OneAtATime'
  BY <1>2, <1>3, <1>4 DEF CatalogMerged, CatalogCommit, Succeed, MergeTypeOK
<1>5. ASSUME NEW p \in Commands, LoadAndMerge(p)
      PROVE  OneAtATime'
  BY <1>2, <1>5 DEF LoadAndMerge, MergeTypeOK
<1>6. ASSUME NEW p \in Commands, WriteFile(p)
      PROVE  OneAtATime'
  BY <1>2, <1>3, <1>6 DEF WriteFile, Succeed, MergeTypeOK
<1>7. ASSUME NEW p \in Commands,
             CatalogAnswerLost(p) \/ FailBetweenSteps(p) \/ CrashInWrite(p)
      PROVE  OneAtATime'
  BY <1>3, <1>7 DEF CatalogAnswerLost, FailBetweenSteps, CrashInWrite, Fail
<1>8. CASE SyncDataStoreToCatalog \/ UNCHANGED mergeVars
  BY <1>2, <1>8 DEF SyncDataStoreToCatalog, mergeVars
<1> QED
  BY <1>1, <1>4, <1>5, <1>6, <1>7, <1>8 DEF MergeNext

CommandOf(p) == Steps(p) /\ CatalogDone(p) /\ FilesDone(p)

\* An idle command has nothing to keep to.
LEMMA IdleCommand ==
  ASSUME NEW p \in Commands, pc[p] = "idle", next[p] = 1
  PROVE  CommandOf(p)
BY DEF CommandOf, Steps, CatalogDone, FilesDone

\* A command that has exited has nothing to keep to.
LEMMA ExitCommand ==
  ASSUME MergeTypeOK, NEW p \in Commands, Exit(p)
  PROVE  CommandOf(p)'
<1>1. pc'[p] = "idle" /\ next'[p] = 1
  BY DEF Exit, MergeTypeOK
<1> QED
  BY <1>1 DEF CommandOf, Steps, CatalogDone, FilesDone

\* A step of p leaves another command's variables alone; if p may write what
\* that command relies on, that command is idle, or has type "catalog".
LEMMA OtherCommand ==
  ASSUME MergeTypeOK, CommandInv, NEW q \in Commands,
         pc'[q] = pc[q], cs'[q] = cs[q], mem'[q] = mem[q], next'[q] = next[q],
         \/ pc[q] = "idle"
         \/ DatastoreType = "catalog"
         \/ files' = files /\ committed' = committed
  PROVE  CommandOf(q)'
<1>1. Steps(q) /\ CatalogDone(q) /\ FilesDone(q)
  BY DEF CommandInv
<1>2. Steps(q)'
  BY <1>1 DEF Steps
<1>3. CASE pc[q] = "idle"
  BY <1>2, <1>3 DEF CommandOf, CatalogDone, FilesDone
<1>4. CASE DatastoreType = "catalog"
  BY <1>1, <1>2, <1>4 DEF CommandOf, CatalogDone, FilesDone, Steps
<1>5. CASE files' = files /\ committed' = committed
  BY <1>1, <1>2, <1>5 DEF CommandOf, CatalogDone, FilesDone
<1> QED
  BY <1>3, <1>4, <1>5

\* What running commands hold stays right.
LEMMA NextCommand ==
  ASSUME Discipline, MergeTypeOK, OneAtATime, CommandInv, [MergeNext]_mergeVars
  PROVE  CommandInv'
<1> SUFFICES ASSUME NEW q \in Commands PROVE CommandOf(q)'
  BY DEF CommandInv, CommandOf
<1>0. Steps(q) /\ CatalogDone(q) /\ FilesDone(q)
  BY DEF CommandInv
\* Beside a running command, the others are idle, or the type is "catalog".
<1>1. ASSUME NEW p \in Commands, pc[p] # "idle", q # p
      PROVE  pc[q] = "idle" \/ DatastoreType = "catalog"
  BY <1>1 DEF OneAtATime, Discipline
<1>2. ASSUME NEW p \in Commands, Exit(p), q # p
      PROVE  pc'[q] = pc[q] /\ cs'[q] = cs[q] /\ mem'[q] = mem[q] /\ next'[q] = next[q]
  BY <1>2 DEF Exit, MergeTypeOK
<1>3. ASSUME NEW p \in Commands, pc[p] # "idle", Exit(p)
      PROVE  CommandOf(q)'
  <2>1. CASE q = p
    BY <1>3, <2>1, ExitCommand
  <2>2. CASE q # p
    BY <1>1, <1>2, <1>3, <2>2, OtherCommand
  <2> QED
    BY <2>1, <2>2
<1>4. ASSUME NEW p \in Commands, NEW c \in Changesets, Begin(p, c)
      PROVE  CommandOf(q)'
  <2>1. files' = files /\ committed' = committed /\ mem' = mem /\ next' = next
    BY <1>4 DEF Begin
  <2>2. CASE q # p
    BY <1>4, <2>1, <2>2, OtherCommand DEF Begin, MergeTypeOK
  <2>3. CASE q = p
    <3>1. pc'[q] = IF DatastoreType = "file" THEN "load" ELSE "catalog"
      BY <1>4, <2>3 DEF Begin, MergeTypeOK
    <3>2. next'[q] = 1
      BY <1>0, <1>4, <2>1, <2>3 DEF Begin, Idle, Steps
    <3> QED
      BY <3>1, <3>2 DEF CommandOf, Steps, CatalogDone, FilesDone
  <2> QED
    BY <2>2, <2>3
<1>5. ASSUME NEW p \in Commands, CatalogMerged(p)
      PROVE  CommandOf(q)'
  <2>1. pc[p] = "catalog"
    BY <1>5 DEF CatalogMerged, CatalogCommit
  <2>2. CASE DatastoreType = "catalog"
    BY <1>3, <1>5, <2>1, <2>2 DEF CatalogMerged, Succeed
  <2>3. CASE DatastoreType # "catalog"
    <3>1. /\ pc' = [pc EXCEPT ![p] = "load"]
          /\ cs' = cs /\ mem' = mem /\ next' = next
      BY <1>5, <2>3 DEF CatalogMerged
    <3>2. CASE q # p
      BY <1>1, <2>1, <3>1, <3>2, OtherCommand DEF MergeTypeOK
    <3>3. CASE q = p
      <4>1. pc'[q] = "load" /\ cs'[q] = cs[q] /\ next'[q] = 1
        BY <1>0, <2>1, <3>1, <3>3 DEF MergeTypeOK, Steps
      <4>2. \A x \in Touched(cs[q]) : Cell(committed', x) = MergeOutcome(cs[q], x)
        BY <1>5, <3>3, CommitCells DEF CatalogMerged, Touched
      <4> QED
        BY <2>3, <4>1, <4>2 DEF CommandOf, Steps, CatalogDone, FilesDone
    <3> QED
      BY <3>2, <3>3
  <2> QED
    BY <2>2, <2>3
<1>6. ASSUME NEW p \in Commands, CatalogAnswerLost(p) \/ FailBetweenSteps(p) \/ CrashInWrite(p)
      PROVE  CommandOf(q)'
  BY <1>3, <1>6 DEF CatalogAnswerLost, FailBetweenSteps, CrashInWrite, CatalogCommit, Fail
<1>7. ASSUME NEW p \in Commands, LoadAndMerge(p)
      PROVE  CommandOf(q)'
  <2>1. /\ pc[p] = "load" /\ cs' = cs /\ next' = next
        /\ files' = files /\ committed' = committed
        /\ pc' = [pc EXCEPT ![p] = "write"]
        /\ mem' = [mem EXCEPT ![p] = Merge(files, Artifact[cs[p]])]
    BY <1>7 DEF LoadAndMerge
  <2>2. CASE q # p
    BY <2>1, <2>2, OtherCommand DEF MergeTypeOK
  <2>3. CASE q = p
    <3>1. next[q] = 1 /\ DatastoreType # "catalog"
      BY <1>0, <2>1, <2>3 DEF Steps
    <3>2. pc'[q] = "write" /\ mem'[q] = Merge(files, Artifact[cs[q]])
      BY <2>1, <2>3 DEF MergeTypeOK
    <3>3. \A x \in Cells : Cell(mem'[q], x) =
            IF x \in Touched(cs[q]) THEN MergeOutcome(cs[q], x) ELSE Cell(files, x)
      BY <2>1, <2>3, <3>2, ArtifactCells, ContentsAreStores DEF MergeTypeOK
    <3>4. FilesDone(q)'
      BY <2>1, <3>1, <3>3 DEF FilesDone
    <3>5. CatalogDone(q)'
      BY <1>0, <2>1, <2>3 DEF CatalogDone
    <3>6. Steps(q)'
      BY <3>1, <3>2 DEF Steps
    <3> QED
      BY <3>4, <3>5, <3>6 DEF CommandOf
  <2> QED
    BY <2>2, <2>3
<1>8. ASSUME NEW p \in Commands, WriteFile(p)
      PROVE  CommandOf(q)'
  <2>1. pc[p] = "write" /\ committed' = committed /\ next[p] \in 1..Len(Files)
    BY <1>8 DEF WriteFile, MergeTypeOK
  <2>2. CASE next[p] = Len(Files)
    BY <1>3, <1>8, <2>1, <2>2 DEF WriteFile, Succeed
  <2>3. CASE next[p] # Len(Files)
    <3>1. next' = [next EXCEPT ![p] = @ + 1] /\ pc' = pc /\ cs' = cs /\ mem' = mem
      BY <1>8, <2>3 DEF WriteFile
    <3>2. CASE q # p
      BY <1>1, <2>1, <3>1, <3>2, OtherCommand DEF MergeTypeOK
    <3>3. CASE q = p
      <4>1. next'[q] = next[q] + 1 /\ next[q] \in 1..Len(Files)
        BY <3>1, <3>3 DEF MergeTypeOK
      <4>2. Steps(q)' /\ CatalogDone(q)'
        BY <1>0, <2>1, <3>1, <3>3 DEF Steps, CatalogDone
      <4>3. ASSUME NEW x \in Cells, x \in Touched(cs[q]), NEW i \in 1..Len(Files),
                   i < next'[q], x \in CellsOf(Files[i])
            PROVE  Cell(files', x) = MergeOutcome(cs[q], x)
        <5>1. i < next[q] \/ i = next[q]
          BY <4>1, <4>3, FilesFacts
        <5> QED
          BY <1>0, <1>8, <2>1, <3>3, <4>3, <5>1, WriteCells DEF FilesDone
      <4>4. ASSUME NEW x \in Cells, x \notin Touched(cs[q])
            PROVE  Cell(mem[q], x) = Cell(files', x)
        BY <1>0, <1>8, <2>1, <3>3, <4>4, WriteCells DEF FilesDone
      <4>5. \A x \in Cells : x \in Touched(cs[q]) => Cell(mem[q], x) = MergeOutcome(cs[q], x)
        BY <1>0, <2>1, <3>3 DEF FilesDone
      <4>6. FilesDone(q)'
        BY <3>1, <4>3, <4>4, <4>5 DEF FilesDone
      <4> QED
        BY <4>2, <4>6 DEF CommandOf
    <3> QED
      BY <3>2, <3>3
  <2> QED
    BY <2>2, <2>3
<1>9. CASE SyncDataStoreToCatalog
  <2>1. pc' = pc /\ cs' = cs /\ mem' = mem /\ next' = next
    BY <1>9 DEF SyncDataStoreToCatalog
  <2>2. pc[q] = "idle" \/ DatastoreType = "catalog"
    BY <1>9 DEF SyncDataStoreToCatalog, Idle, Discipline
  <2> QED
    BY <2>1, <2>2, OtherCommand
<1>10. CASE UNCHANGED mergeVars
  BY <1>10, OtherCommand DEF mergeVars
<1> QED
  BY <1>4, <1>5, <1>6, <1>7, <1>8, <1>9, <1>10 DEF MergeNext

\* Damage is never repaired.
LEMMA DamageStays ==
  ASSUME [MergeNext]_mergeVars
  PROVE  damaged \subseteq damaged'
BY DEF MergeNext, mergeVars, Begin, CatalogMerged, CatalogAnswerLost, CatalogCommit, LoadAndMerge,
       WriteFile, FailBetweenSteps, CrashInWrite, SyncDataStoreToCatalog

\* A cell of the files that a step changes is touched by a command that is
\* writing, or lost in a crash.
LEMMA FilesFrame ==
  ASSUME MergeTypeOK, CommandInv, [MergeNext]_mergeVars, NEW x \in Cells
  PROVE  \/ Cell(files', x) = Cell(files, x)
         \/ \E p \in Commands : pc[p] = "write" /\ x \in Touched(cs[p])
         \/ ~Intact(x)' /\ Cell(files', x) = None
<1>1. ASSUME NEW p \in Commands, WriteFile(p), x \notin Touched(cs[p])
      PROVE  Cell(files', x) = Cell(files, x)
  BY <1>1, WriteCells DEF WriteFile, CommandInv, FilesDone
<1>2. ASSUME NEW p \in Commands, CrashInWrite(p), Cell(files', x) # Cell(files, x)
      PROVE  ~Intact(x)' /\ Cell(files', x) = None
  <2>1. x \in CellsOf(Files[next[p]]) /\ Cell(files', x) = None
    BY <1>2, CrashCells
  <2>2. Files[next[p]] \in damaged'
    BY <1>2 DEF CrashInWrite
  <2> QED
    BY <2>1, <2>2 DEF Intact
<1>3. ASSUME NEW p \in Commands, WriteFile(p)
      PROVE  pc[p] = "write"
  BY <1>3 DEF WriteFile
<1>4. CASE files' = files
  BY <1>4
<1> QED
  BY <1>1, <1>2, <1>3, <1>4 DEF MergeNext, mergeVars, Begin, CatalogMerged, CatalogAnswerLost,
     CatalogCommit, LoadAndMerge, FailBetweenSteps, SyncDataStoreToCatalog

\* A settled cell keeps its value in the files, unless a crash loses it; its
\* value in the catalog, unless a sync sets it; and its owner.
LEMMA SettledFrame ==
  ASSUME MergeTypeOK, CommandInv, [MergeNext]_mergeVars, NEW x \in Cells, Settled(x)
  PROVE  /\ Cell(files', x) = Cell(files, x) \/ (~Intact(x)' /\ Cell(files', x) = None)
         /\ Cell(committed', x) = Cell(committed, x) \/ SyncDataStoreToCatalog
         /\ owner'[x] = owner[x]
<1>1. \A p \in Commands : pc[p] # "idle" => x \notin Touched(cs[p])
  BY RunningUnsettled
<1>2. Cell(files', x) = Cell(files, x) \/ (~Intact(x)' /\ Cell(files', x) = None)
  BY <1>1, FilesFrame
<1>3. ASSUME NEW p \in Commands, CatalogCommit(p)
      PROVE  Cell(committed', x) = Cell(committed, x)
  BY <1>1, <1>3, CommitCells DEF CatalogCommit
<1>4. Cell(committed', x) = Cell(committed, x) \/ SyncDataStoreToCatalog
  <2>1. CASE committed' = committed
    BY <2>1
  <2> QED
    BY <1>3, <2>1 DEF MergeNext, mergeVars, Begin, CatalogMerged, CatalogAnswerLost, LoadAndMerge,
       WriteFile, FailBetweenSteps, CrashInWrite
<1>5. ASSUME NEW p \in Commands, pc[p] # "idle", Succeed(p)
      PROVE  owner'[x] = owner[x]
  BY <1>1, <1>5 DEF Succeed
<1>6. owner'[x] = owner[x]
  <2>1. CASE owner' = owner
    BY <2>1
  <2>2. ASSUME NEW p \in Commands, CatalogMerged(p)
        PROVE  owner'[x] = owner[x]
    BY <1>5, <2>2 DEF CatalogMerged, CatalogCommit
  <2>3. ASSUME NEW p \in Commands, WriteFile(p)
        PROVE  owner'[x] = owner[x]
    BY <1>5, <2>3 DEF WriteFile
  <2> QED
    BY <2>1, <2>2, <2>3 DEF MergeNext, mergeVars, Begin, CatalogAnswerLost, LoadAndMerge, Fail,
       FailBetweenSteps, CrashInWrite, SyncDataStoreToCatalog
<1> QED
  BY <1>2, <1>4, <1>6

\* The step that completes a merge has given every cell it touches the
\* outcome of the changeset, wherever the datastore type wants it.
LEMMA CompletedCells ==
  ASSUME MergeTypeOK, CommandInv, NEW p \in Commands, Completes(p),
         NEW x \in Touched(cs[p])
  PROVE  /\ owner'[x] = cs[p]
         /\ DatastoreType # "file" => Cell(committed', x) = MergeOutcome(cs[p], x)
         /\ DatastoreType # "catalog" => Cell(files', x) = MergeOutcome(cs[p], x)
<1>1. x \in Cells
  BY DEF Touched
<1>2. Steps(p) /\ CatalogDone(p) /\ FilesDone(p)
  BY DEF CommandInv
<1>3. CASE CatalogMerged(p) /\ DatastoreType = "catalog"
  <2>1. owner'[x] = cs[p]
    BY <1>1, <1>3 DEF CatalogMerged, Succeed
  <2>2. Cell(committed', x) = MergeOutcome(cs[p], x)
    BY <1>1, <1>3, CommitCells DEF CatalogMerged
  <2> QED
    BY <1>3, <2>1, <2>2
<1>4. CASE WriteFile(p) /\ next[p] = Len(Files)
  <2>1. pc[p] = "write" /\ committed' = committed /\ DatastoreType # "catalog"
    BY <1>2, <1>4 DEF WriteFile, Steps
  <2>2. owner'[x] = cs[p]
    BY <1>1, <1>4 DEF WriteFile, Succeed
  <2>3. DatastoreType = "all" => Cell(committed', x) = MergeOutcome(cs[p], x)
    BY <1>2, <2>1 DEF CatalogDone
  <2>4. Cell(files', x) = MergeOutcome(cs[p], x)
    <3>1. PICK i \in 1..Len(Files) : x \in CellsOf(Files[i])
      BY <1>1, CellHasFile
    <3>2. i = next[p] \/ i < next[p]
      BY <1>4, <3>1, FilesFacts
    <3> QED
      BY <1>1, <1>2, <1>4, <2>1, <3>1, <3>2, WriteCells DEF FilesDone
  <2> QED
    BY <2>1, <2>2, <2>3, <2>4, MergeAssumption
<1> QED
  BY <1>3, <1>4 DEF Completes

\* A command that commits to the catalog or completes sets, or has set, the
\* cells of its changeset; no other step but a sync changes a cell there.
LEMMA CatalogFrame ==
  ASSUME MergeTypeOK, CommandInv, [MergeNext]_mergeVars, NEW x \in Cells
  PROVE  \/ Cell(committed', x) = Cell(committed, x)
         \/ SyncDataStoreToCatalog
         \/ \E p \in Commands : CatalogCommit(p) /\ x \in Touched(cs[p])
<1>1. ASSUME NEW p \in Commands, CatalogCommit(p), x \notin Touched(cs[p])
      PROVE  Cell(committed', x) = Cell(committed, x)
  BY <1>1, CommitCells
<1>2. CASE committed' = committed
  BY <1>2
<1> QED
  BY <1>1, <1>2 DEF MergeNext, mergeVars, Begin, CatalogMerged, CatalogAnswerLost, LoadAndMerge,
     WriteFile, FailBetweenSteps, CrashInWrite

\* A step that sets the owner of a cell completes a merge that touches it.
LEMMA OwnerFrame ==
  ASSUME MergeTypeOK, [MergeNext]_mergeVars, NEW x \in Cells
  PROVE  \/ owner'[x] = owner[x]
         \/ \E p \in Commands : Completes(p) /\ x \in Touched(cs[p])
<1>1. ASSUME NEW p \in Commands, Succeed(p), x \notin Touched(cs[p])
      PROVE  owner'[x] = owner[x]
  BY <1>1 DEF Succeed
<1>2. CASE owner' = owner
  BY <1>2
<1>3. ASSUME NEW p \in Commands, CatalogMerged(p) \/ WriteFile(p)
      PROVE  owner' = owner \/ (Completes(p) /\ Succeed(p))
  BY <1>3 DEF CatalogMerged, WriteFile, Completes
<1> QED
  BY <1>1, <1>2, <1>3 DEF MergeNext, mergeVars, Begin, CatalogAnswerLost, LoadAndMerge, Fail,
     FailBetweenSteps, CrashInWrite, SyncDataStoreToCatalog

\* With type "all", a cell that a command writes to its file is one that the
\* catalog has, too.
LEMMA WriteAgrees ==
  ASSUME MergeTypeOK, CommandInv, [MergeNext]_mergeVars, NEW x \in Cells, DatastoreType = "all"
  PROVE  \/ Cell(files', x) = Cell(files, x)
         \/ Cell(files', x) = Cell(committed', x)
         \/ ~Intact(x)' /\ Cell(files', x) = None
<1>1. ASSUME NEW p \in Commands, WriteFile(p), x \in Touched(cs[p]),
             Cell(files', x) # Cell(files, x)
      PROVE  Cell(files', x) = Cell(committed', x)
  <2>1. pc[p] = "write" /\ committed' = committed
    BY <1>1 DEF WriteFile
  <2>2. Cell(files', x) = MergeOutcome(cs[p], x)
    BY <1>1, <2>1, WriteCells DEF CommandInv, FilesDone
  <2> QED
    BY <1>1, <2>1, <2>2 DEF CommandInv, CatalogDone
<1>2. ASSUME NEW p \in Commands, WriteFile(p), x \notin Touched(cs[p])
      PROVE  Cell(files', x) = Cell(files, x)
  BY <1>2, WriteCells DEF WriteFile, CommandInv, FilesDone
<1>3. ASSUME NEW p \in Commands, CrashInWrite(p), Cell(files', x) # Cell(files, x)
      PROVE  ~Intact(x)' /\ Cell(files', x) = None
  <2>1. x \in CellsOf(Files[next[p]]) /\ Cell(files', x) = None
    BY <1>3, CrashCells
  <2>2. Files[next[p]] \in damaged'
    BY <1>3 DEF CrashInWrite
  <2> QED
    BY <2>1, <2>2 DEF Intact
<1>4. CASE files' = files
  BY <1>4
<1> QED
  BY <1>1, <1>2, <1>3, <1>4 DEF MergeNext, mergeVars, Begin, CatalogMerged, CatalogAnswerLost,
     CatalogCommit, LoadAndMerge, FailBetweenSteps, SyncDataStoreToCatalog

\* A commit that does not complete its merge leaves the changeset pending.
LEMMA CommitPending ==
  ASSUME MergeTypeOK, [MergeNext]_mergeVars, NEW p \in Commands, CatalogCommit(p),
         DatastoreType = "all"
  PROVE  cs[p] \in Pending'
<1>1. pc[p] = "catalog" /\ cs[p] \in Pending
  BY DEF CatalogCommit, Pending
<1>2. cs[p] \in Pending' \/ \E q \in Commands : Completes(q) /\ cs[q] = cs[p]
  BY <1>1, PendingStays
<1>3. ASSUME NEW q \in Commands, Completes(q), q # p
      PROVE  cs[p] \in Pending'
  <2>1. pc'[p] = pc[p] /\ cs'[p] = cs[p]
    BY <1>3 DEF Completes, CatalogMerged, WriteFile, Succeed, Exit, MergeTypeOK
  <2> QED
    BY <1>1, <2>1 DEF Pending
<1>4. ~Completes(p)
  BY <1>1 DEF Completes, WriteFile
<1> QED
  BY <1>2, <1>3, <1>4

\* A cell on which the two agree stays so, or the step leaves the catalog
\* ahead of the files with its changeset pending.
LEMMA AgreesStays ==
  ASSUME MergeTypeOK, CommandInv, [MergeNext]_mergeVars, NEW x \in Cells, DatastoreType = "all",
         Agrees(x),
         ~\E p \in Commands : Completes(p) /\ x \in Touched(cs[p]),
         ~\E p \in Commands : CatalogCommit(p) /\ x \in Touched(cs[p])
  PROVE  Agrees(x)'
<1>1. ~Intact(x) => ~Intact(x)'
  BY DamageStays DEF Intact
<1>2. owner'[x] = owner[x]
  BY OwnerFrame
<1>3. CASE SyncDataStoreToCatalog
  <2>1. files' = files
    BY <1>3 DEF SyncDataStoreToCatalog
  <2>2. Cell(committed', x) = IF Cell(files, x) # None THEN Cell(files, x)
                            ELSE Cell(committed, x)
    BY <1>3, SyncCells
  <2> QED
    BY <1>1, <2>1, <2>2 DEF Agrees
<1>4. CASE ~SyncDataStoreToCatalog
  <2>1. synced' = synced
    BY <1>4 DEF MergeNext, mergeVars, Begin, CatalogMerged, CatalogAnswerLost, CatalogCommit,
       LoadAndMerge, WriteFile, FailBetweenSteps, CrashInWrite
  <2>2. Cell(committed', x) = Cell(committed, x)
    BY <1>4, CatalogFrame
  <2> QED
    BY <1>1, <1>2, <2>1, <2>2, WriteAgrees DEF Agrees
<1> QED
  BY <1>3, <1>4

\* Every step keeps catalog and files in agreement, or the catalog ahead with
\* a changeset that is pending.
LEMMA NextAgree ==
  ASSUME MergeTypeOK, CommandInv, AgreeInv, [MergeNext]_mergeVars
  PROVE  AgreeInv'
<1> SUFFICES ASSUME DatastoreType = "all", NEW x \in Cells
             PROVE  \/ Agrees(x)'
                    \/ \E c \in Pending' : Ahead(c, x)' /\ Mergeable(Artifact[c])
  BY DEF AgreeInv
<1>1. CASE \E p \in Commands : Completes(p) /\ x \in Touched(cs[p])
  BY <1>1, CompletedCells DEF Agrees
<1>2. CASE \E p \in Commands : CatalogCommit(p) /\ x \in Touched(cs[p])
  <2>1. PICK p \in Commands : CatalogCommit(p) /\ x \in Touched(cs[p])
    BY <1>2
  <2>2. Cell(committed', x) = MergeOutcome(cs[p], x)
    BY <2>1, CommitCells
  <2>3. cs[p] \in Pending' /\ Mergeable(Artifact[cs[p]])
    BY <2>1, CommitPending DEF CatalogCommit, CatalogAccepts
  <2> QED
    BY <2>1, <2>2, <2>3 DEF Ahead
<1>3. CASE /\ ~\E p \in Commands : Completes(p) /\ x \in Touched(cs[p])
           /\ ~\E p \in Commands : CatalogCommit(p) /\ x \in Touched(cs[p])
  <2>1. CASE Agrees(x)
    BY <1>3, <2>1, AgreesStays
  <2>2. CASE \E c \in Pending : Ahead(c, x) /\ Mergeable(Artifact[c])
    <3>1. PICK c \in Pending : Ahead(c, x) /\ Mergeable(Artifact[c])
      BY <2>2
    <3>2. c \in Pending'
      BY <1>3, <3>1, PendingStays DEF Ahead
    <3>3. CASE SyncDataStoreToCatalog
      <4>1. files' = files
        BY <3>3 DEF SyncDataStoreToCatalog
      <4>2. Cell(committed', x) = IF Cell(files, x) # None THEN Cell(files, x)
                                ELSE Cell(committed, x)
        BY <3>3, SyncCells
      <4> QED
        BY <3>1, <3>2, <4>1, <4>2 DEF Agrees, Ahead
    <3>4. CASE ~SyncDataStoreToCatalog
      BY <1>3, <3>1, <3>2, <3>4, CatalogFrame DEF Ahead
    <3> QED
      BY <3>3, <3>4
  <2> QED
    BY <2>1, <2>2 DEF AgreeInv
<1> QED
  BY <1>1, <1>2, <1>3

\* Every step keeps the outcome of the last successful merge visible.
LEMMA NextVisible ==
  ASSUME Discipline, MergeTypeOK, CommandInv, AgreeInv, MergedVisible, [MergeNext]_mergeVars
  PROVE  MergedVisible'
<1> SUFFICES ASSUME NEW x \in Cells, Settled(x)', owner'[x] # None,
                    DatastoreType = "file" => Intact(x)'
             PROVE  Cell(LoadDataStore', x) = MergeOutcome(owner'[x], x)
  BY DEF MergedVisible
<1>0. LoadDataStore' = IF DatastoreType # "file" THEN committed' ELSE files'
  BY MergeAssumption DEF LoadDataStore
<1>1. CASE \E p \in Commands : Completes(p) /\ x \in Touched(cs[p])
  BY <1>0, <1>1, CompletedCells
<1>2. CASE Settled(x)
  <2>1. /\ Cell(files', x) = Cell(files, x) \/ (~Intact(x)' /\ Cell(files', x) = None)
        /\ Cell(committed', x) = Cell(committed, x) \/ SyncDataStoreToCatalog
        /\ owner'[x] = owner[x]
    BY <1>2, SettledFrame
  <2>2. Intact(x)' => Intact(x)
    BY DamageStays DEF Intact
  <2>3. CASE DatastoreType = "file"
    <3>1. Cell(files, x) = MergeOutcome(owner[x], x)
      BY <1>2, <2>1, <2>2, <2>3 DEF MergedVisible, LoadDataStore
    <3> QED
      BY <1>0, <2>1, <2>3, <3>1
  <2>4. CASE DatastoreType # "file"
    <3>1. Cell(committed, x) = MergeOutcome(owner[x], x)
      BY <1>2, <2>1, <2>4, MergeAssumption DEF MergedVisible, LoadDataStore
    <3>2. CASE ~SyncDataStoreToCatalog
      BY <1>0, <2>1, <2>4, <3>1, <3>2
    <3>3. CASE SyncDataStoreToCatalog
      <4>1. DatastoreType = "all"
        BY <2>1, <2>4, <3>3, MergeAssumption DEF SyncDataStoreToCatalog, Discipline
      <4>2. Cell(files, x) # None => Cell(committed, x) = Cell(files, x)
        BY <1>2, <2>1, <4>1 DEF AgreeInv, Agrees, Ahead, Settled
      <4>3. Cell(committed', x) = Cell(committed, x)
        BY <3>3, <4>2, SyncCells
      <4> QED
        BY <1>0, <2>1, <2>4, <3>1, <4>3
    <3> QED
      BY <3>2, <3>3
  <2> QED
    BY <2>3, <2>4
<1> QED
  BY <1>1, <1>2, SettledBefore

MergeInv == MergeTypeOK /\ OneAtATime /\ CommandInv /\ AgreeInv /\ MergedVisible

\* The invariant holds before the first command.
LEMMA MergeInitInv == MergeInit => MergeInv
<1> SUFFICES ASSUME MergeInit PROVE MergeInv
  OBVIOUS
<1>1. MergeTypeOK
  BY InitType
<1>2. OneAtATime /\ CommandInv /\ MergedVisible
  BY DEF MergeInit, OneAtATime, CommandInv, Steps, CatalogDone, FilesDone, MergedVisible
<1>3. AgreeInv
  BY NewType DEF MergeInit, AgreeInv, Agrees
<1> QED
  BY <1>1, <1>2, <1>3 DEF MergeInv

\* Every step of a command that is run as intended preserves the invariant.
LEMMA MergeNextInv == Discipline => (MergeInv /\ [MergeNext]_mergeVars => MergeInv')
BY NextType, NextOne, NextCommand, NextAgree, NextVisible DEF MergeInv

\* The invariant holds whenever the commands are run as intended.
LEMMA InvCorrect == Discipline => (MergeSpec => []MergeInv)
<1> SUFFICES ASSUME Discipline PROVE MergeSpec => []MergeInv
  OBVIOUS
<1>1. MergeInv /\ [MergeNext]_mergeVars => MergeInv'
  BY MergeNextInv
<1> QED
  BY <1>1, MergeInitInv, PTL DEF MergeSpec

\* A merged changeset stays merged, for every datastore type, if commands that
\* write local files run one at a time and, with type "catalog", a sync only
\* comes first.
THEOREM VisibleCorrect == Discipline => (MergeSpec => []MergedVisible)
<1>1. MergeInv => MergedVisible
  BY DEF MergeInv
<1> QED
  BY <1>1, InvCorrect, PTL

\* With type "all", an undamaged cell on which catalog and files differ is one
\* that a pending changeset has set in the catalog, which accepts it again if
\* it stages no deletion.
THEOREM InSyncCorrect == Discipline => (MergeSpec => []InSync)
<1>1. MergeInv => InSync
  <2>1. ASSUME MergeInv, DatastoreType = "all", synced,
               NEW x \in Cells, Intact(x), Cell(committed, x) # Cell(files, x)
        PROVE  \E c \in Pending :
                 /\ Ahead(c, x)
                 /\ Artifact[c].del = {} => CatalogAccepts(Artifact[c])
    <3>1. PICK c \in Pending : Ahead(c, x) /\ Mergeable(Artifact[c])
      BY <2>1 DEF MergeInv, AgreeInv, Agrees
    <3> QED
      BY <3>1 DEF CatalogAccepts
  <2> QED
    BY <2>1 DEF InSync
<1> QED
  BY <1>1, InvCorrect, PTL

\* A merge changes nothing in the files but what its changeset touches.
THEOREM OnlyTouchedCorrect == Discipline => (MergeSpec => OnlyTouched)
<1>1. MergeInv /\ [MergeNext]_mergeVars =>
        [\A x \in Cells :
           Cell(files', x) # Cell(files, x) /\ Intact(x)'
             => \E p \in Commands : pc[p] = "write" /\ x \in Touched(cs[p])]_mergeVars
  BY FilesFrame DEF MergeInv
<1> QED
  BY <1>1, InvCorrect, PTL DEF MergeSpec, OnlyTouched
=============================================================================

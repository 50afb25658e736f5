----------------------------- MODULE DataStore ------------------------------
(***************************************************************************)
(* A run of changesets over in-memory data stores.  Each changeset writes  *)
(* its own output store; State.mergeDataStore (engine/test/runtime) folds  *)
(* it into the store of the environment, which Environment.Clone copies.   *)
(***************************************************************************)
EXTENDS Stores

VARIABLES
  state,  \* State.DataStore, sealed
  out,    \* the mutable store of the changeset that is running
  base,   \* history: the data store that the run started from
  all     \* history: a new store into which every output was merged in turn

vars == <<state, out, base, all>>

TypeOK ==
  /\ state \in Store /\ out \in Store /\ all \in Store
  /\ base \in Store /\ base.del = {}

\* Files and catalog hold no staged deletions, so neither does what is loaded.
Init ==
  /\ base \in {s \in Store : s.del = {}}
  /\ state = base
  /\ out = NewMemoryDataStore
  /\ all = NewMemoryDataStore

-----------------------------------------------------------------------------
\* The changeset's writes.  A call that returns an error changes nothing.

Write(s) == out' = s /\ UNCHANGED <<state, base, all>>

AddRecord(k, v) == k \notin Live(out) /\ Write(Put(out, k, v))

UpsertRecord(k, v) == Write(Put(out, k, v))

UpdateRecord(k, v) == k \in Live(out) /\ Write(Put(out, k, v))

DeleteRecord(k) == k \in Live(out) /\ Write(Delete(out, k))

StageDelete(k) == Write(RemoteDelete(out, k))

SetEnvMetadata(v) == Write(SetEnv(out, v))

\* WriteMetadata.  Refs are added unless WithUpsertAddressRefs is given: then a
\* ref that exists stops the bundle after any of the refs listed before it, and
\* nothing else is written.  A bundle without env metadata has env = None.
WriteMetadata(upsert, refs, metadata, env) ==
  IF upsert \/ DOMAIN refs \cap Live(out) = {}
  THEN LET written == PutAll(PutAll(out, refs), metadata)
       IN  Write(IF env = None THEN written ELSE SetEnv(written, env))
  ELSE \E before \in SUBSET (DOMAIN refs \ Live(out)) :
         Write(PutAll(out, [k \in before |-> refs[k]]))

\* Mutant: a key that does not parse is staged without a look at it.
mergeDataStoreUnparsed ==
  /\ state' = Merge(Merge(NewMemoryDataStore, state), out)
  /\ all' = Merge(all, out)
  /\ out' = NewMemoryDataStore
  /\ UNCHANGED base

\* The changeset returns: its output is merged into the environment's store.
mergeDataStore ==
  /\ Mergeable(state) /\ Mergeable(out)
  /\ state' = Merge(Merge(NewMemoryDataStore, state), out)
  /\ all' = Merge(all, out)
  /\ out' = NewMemoryDataStore
  /\ UNCHANGED base

\* The merge fails: the environment keeps its store.
mergeFails ==
  /\ ~Mergeable(out)
  /\ out' = NewMemoryDataStore
  /\ UNCHANGED <<state, base, all>>

\* Environment.Clone's copy of its data store; Clone panics when s is not Mergeable.
Clone(s) == Merge(NewMemoryDataStore, s)

Bundles(K) == UNION {[S -> Values] : S \in SUBSET K}

Next ==
  \/ \E k \in Keys : DeleteRecord(k) \/ StageDelete(k)
  \/ \E k \in Keys, v \in Values :
       AddRecord(k, v) \/ UpsertRecord(k, v) \/ UpdateRecord(k, v)
  \/ \E v \in EnvValues : SetEnvMetadata(v)
  \/ \E refs \in Bundles(AddressRefKeys),
        metadata \in Bundles(ChainMetadataKeys \cup ContractMetadataKeys),
        env \in EnvValues \cup {None}, upsert \in BOOLEAN :
       WriteMetadata(upsert, refs, metadata, env)
  \/ mergeDataStore
  \/ mergeFails

Spec == Init /\ [][Next]_vars

-----------------------------------------------------------------------------
\* Merging the outputs one by one into the environment gives the store that
\* merging their union once gives: "what lets chained operations preserve
\* delete intent across intermediate Merges" (memory_datastore.go).
ChainedMerge == state = Merge(base, all)

\* Environment.Clone panics when the copy fails, and drops a record that is
\* both live and staged for deletion: neither can happen to the environment's
\* store, whatever the changesets wrote.
CloneExact == Mergeable(state) /\ Clone(state) = state

\* Merge by keys is what the loops of MemoryDataStore.Merge compute.
MergeIsLoop == MergeLoop(state, out) = Merge(state, out)
=============================================================================

------------------------------- MODULE Stores -------------------------------
(***************************************************************************)
(* MemoryDataStore (datastore/memory_*.go): the three keyed stores (address *)
(* refs, chain metadata, contract metadata), the env metadata, and Merge.  *)
(*                                                                         *)
(* The keyed stores run the same code over different key types, so a data  *)
(* store is one map over all keys: recs[k] is None where Records holds no  *)
(* record with key k.  del is the union of the three DeletedRemoteKeys.    *)
(* The order of Records is not kept: nothing reads it, and the address     *)
(* refs are sorted before they are saved.                                  *)
(***************************************************************************)
EXTENDS FiniteSetsExt

CONSTANTS
  AddressRefKeys, ChainMetadataKeys, ContractMetadataKeys,
  Unparsable,  \* keys whose String() does not parse back: an underscore in a
               \* contract type, a qualifier or an address
  Values,      \* the rest of a record
  EnvValues,   \* env metadata
  None

Keys == AddressRefKeys \cup ChainMetadataKeys \cup ContractMetadataKeys

ASSUME StoresAssumption ==
  /\ AddressRefKeys \cap ChainMetadataKeys = {}
  /\ AddressRefKeys \cap ContractMetadataKeys = {}
  /\ ChainMetadataKeys \cap ContractMetadataKeys = {}
  /\ Unparsable \subseteq AddressRefKeys \cup ContractMetadataKeys
  /\ None \notin Values \cup EnvValues

Store == [recs : [Keys -> Values \cup {None}],
          del  : SUBSET Keys,
          env  : EnvValues \cup {None}]

NewMemoryDataStore == [recs |-> [k \in Keys |-> None], del |-> {}, env |-> None]

Live(s) == {k \in Keys : s.recs[k] # None}

\* What Add, Upsert and Update do to a store once they accept the record: the
\* key is no longer staged for deletion.
Put(s, k, v) == [s EXCEPT !.recs[k] = v, !.del = @ \ {k}]

\* The same for every key of the domain of f.
PutAll(s, f) ==
  [s EXCEPT !.recs = [k \in Keys |-> IF k \in DOMAIN f THEN f[k] ELSE s.recs[k]],
            !.del = @ \ DOMAIN f]

Delete(s, k) == [s EXCEPT !.recs[k] = None]

RemoteDelete(s, k) == [s EXCEPT !.del = @ \cup {k}]

SetEnv(s, v) == [s EXCEPT !.env = v]

-----------------------------------------------------------------------------
\* Merge gives up at the first staged key that it cannot parse.  Every caller
\* then drops the destination.
Mergeable(s) == s.del \cap Unparsable = {}

\* Mutant: the staged deletions are applied before the records.
MergeLoopDeletesFirst(d, s) ==
  LET deleted  == FoldSet(LAMBDA k, x : Delete(RemoteDelete(x, k), k), d, s.del)
      upserted == FoldSet(LAMBDA k, x : Put(x, k, s.recs[k]), deleted, Live(s))
  IN  IF s.env = None THEN upserted ELSE SetEnv(upserted, s.env)

\* d.Merge(s) as the code runs it: the records, then the staged deletions,
\* then the env metadata.
MergeLoop(d, s) ==
  LET upserted == FoldSet(LAMBDA k, x : Put(x, k, s.recs[k]), d, Live(s))
      deleted  == FoldSet(LAMBDA k, x : Delete(RemoteDelete(x, k), k),
                          upserted, s.del)
  IN  IF s.env = None THEN deleted ELSE SetEnv(deleted, s.env)

\* Mutant: the staged deletions are carried out but not staged again.
MergeForgetsDeletes(d, s) ==
  [recs |-> [k \in Keys |-> IF k \in s.del THEN None
                            ELSE IF k \in Live(s) THEN s.recs[k] ELSE d.recs[k]],
   del  |-> d.del \ Live(s),
   env  |-> IF s.env = None THEN d.env ELSE s.env]

\* The same by keys: a staged deletion of s wins over a record of s, which
\* wins over whatever d has.  DataStore checks that the two agree.
Merge(d, s) ==
  [recs |-> [k \in Keys |-> IF k \in s.del THEN None
                            ELSE IF k \in Live(s) THEN s.recs[k] ELSE d.recs[k]],
   del  |-> (d.del \ Live(s)) \cup s.del,
   env  |-> IF s.env = None THEN d.env ELSE s.env]
=============================================================================

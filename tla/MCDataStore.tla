---------------------------- MODULE MCDataStore -----------------------------
(***************************************************************************)
(* The data store of a run of changesets, or the in-memory catalog: a      *)
(* behaviour is one of the two.                                            *)
(***************************************************************************)
EXTENDS DataStore, MemoryCatalog, TLC

Symmetric == Permutations(Values)

\* The first goroutine may nest two transactions, the second has one.
MCMaxCatOps == <<2, 1>>
MCMaxDepth == <<2, 1>>

VARIABLE part  \* which one

MCInit ==
  /\ part \in {"datastore", "catalog"}
  /\ Init /\ CatInit
  /\ part = "catalog" => base = NewMemoryDataStore
  /\ part = "datastore" => catalog = [k \in CatKeys |-> {}]

MCNext ==
  /\ UNCHANGED part
  /\ \/ part = "datastore" /\ Next /\ UNCHANGED catVars
     \/ part = "catalog" /\ CatNext /\ UNCHANGED vars

MCSpec == MCInit /\ [][MCNext]_<<part, vars, catVars>>
=============================================================================

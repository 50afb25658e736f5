--------------------------- MODULE DatastoreMerge ---------------------------
(***************************************************************************)
(* `datastore merge` and `datastore sync-to-catalog`: the data store that a *)
(* changeset left in its artifacts is merged into the environment's local  *)
(* JSON files, its catalog, or the catalog and then the files.  Commands   *)
(* may fail or be killed between any two steps, and be run again.          *)
(*                                                                         *)
(* The catalog merge runs in one transaction, which is atomic here; the    *)
(* answer to the commit may be lost.  The four files are written one after *)
(* the other, and a crash inside a write damages that file.                *)
(***************************************************************************)
EXTENDS Stores, Naturals, Sequences

CONSTANTS
  Commands,      \* processes that run a command
  Changesets,
  Artifact,      \* Artifact[c]: the data store in the artifacts of changeset c
  DatastoreType, \* "file", "catalog" or "all"
  Exclusive,     \* the operator runs one command at a time
  InitialSync    \* sync-to-catalog only migrates: no merge has run before it

Files == <<"address_refs", "chain_metadata", "contract_metadata", "env_metadata">>

FileNames == {Files[i] : i \in 1..Len(Files)}

EnvCell == "env_metadata"

\* Everything that a data store holds a value for.
Cells == Keys \cup {EnvCell}

CellsOf(file) ==
  CASE file = "address_refs"      -> AddressRefKeys
    [] file = "chain_metadata"    -> ChainMetadataKeys
    [] file = "contract_metadata" -> ContractMetadataKeys
    [] file = "env_metadata"      -> {EnvCell}

ASSUME MergeAssumption ==
  /\ Artifact \in [Changesets -> Store]
  /\ DatastoreType \in {"file", "catalog", "all"}
  /\ Exclusive \in BOOLEAN /\ InitialSync \in BOOLEAN
  /\ EnvCell \notin Keys
  /\ None \notin Changesets

VARIABLES
  files,      \* the records that the four local files hold
  unreadable, \* files that a crash left with part of their JSON
  damaged,    \* history: files that a crash cut, to nothing or to a part
  committed,  \* what is committed to the catalog
  pc, cs,     \* where a command is, and its changeset
  mem,        \* the merged data store that it writes out
  next,       \* the index in Files that it writes next
  failed,     \* history: changesets whose last merge did not succeed
  owner,      \* history: the last changeset that set a cell and succeeded
  synced      \* history: the catalog has held all that the files hold

cmdVars == <<pc, cs, mem, next>>
mergeVars == <<files, unreadable, damaged, committed, pc, cs, mem, next, failed,
               owner, synced>>

Contents == {s \in Store : s.del = {}}

MergeTypeOK ==
  /\ files \in Contents /\ committed \in Contents
  /\ unreadable \subseteq damaged /\ damaged \subseteq FileNames
  /\ pc \in [Commands -> {"idle", "catalog", "load", "write"}]
  /\ cs \in [Commands -> Changesets \cup {None}]
  /\ \A p \in Commands : pc[p] # "idle" => cs[p] \in Changesets
  /\ mem \in [Commands -> Store]
  /\ next \in [Commands -> 1..Len(Files)]
  /\ failed \subseteq Changesets
  /\ owner \in [Cells -> Changesets \cup {None}]
  /\ synced \in BOOLEAN

\* The environment has always had its catalog, or is about to migrate to it.
MergeInit ==
  /\ files \in Contents
  /\ committed \in {NewMemoryDataStore} \cup IF DatastoreType = "file" THEN {}
                                            ELSE {files}
  /\ synced = (committed = files)
  /\ unreadable = {} /\ damaged = {}
  /\ pc = [p \in Commands |-> "idle"] /\ cs = [p \in Commands |-> None]
  /\ mem = [p \in Commands |-> NewMemoryDataStore]
  /\ next = [p \in Commands |-> 1]
  /\ failed = {} /\ owner = [x \in Cells |-> None]

-----------------------------------------------------------------------------
Cell(s, x) == IF x = EnvCell THEN s.env ELSE s.recs[x]

Touched(c) == {x \in Cells : x \in Artifact[c].del \/ Cell(Artifact[c], x) # None}

\* What a changeset makes of a cell that it touches.
MergeOutcome(c, x) == IF x \in Artifact[c].del THEN None ELSE Cell(Artifact[c], x)

Saved(s) == [s EXCEPT !.del = {}]

\* s with file's cells taken from t.
Overwrite(s, t, file) ==
  [s EXCEPT !.recs = [k \in Keys |-> IF k \in CellsOf(file) THEN t.recs[k]
                                     ELSE s.recs[k]],
            !.env = IF EnvCell \in CellsOf(file) THEN t.env ELSE @]

Idle(p) == pc[p] = "idle" /\ (Exclusive => \A q \in Commands : pc[q] = "idle")

Begin(p, c) ==
  /\ Idle(p)
  /\ pc' = [pc EXCEPT ![p] = IF DatastoreType = "file" THEN "load" ELSE "catalog"]
  /\ cs' = [cs EXCEPT ![p] = c]
  /\ UNCHANGED <<files, unreadable, damaged, committed, mem, next, failed, owner,
                 synced>>

\* The command exits; its buffers go with it.
Exit(p) ==
  /\ pc' = [pc EXCEPT ![p] = "idle"]
  /\ cs' = [cs EXCEPT ![p] = None]
  /\ mem' = [mem EXCEPT ![p] = NewMemoryDataStore]
  /\ next' = [next EXCEPT ![p] = 1]

Succeed(p) ==
  /\ Exit(p)
  /\ failed' = failed \ {cs[p]}
  /\ owner' = [x \in Cells |-> IF x \in Touched(cs[p]) THEN cs[p] ELSE owner[x]]

Fail(p) == Exit(p) /\ failed' = failed \cup {cs[p]} /\ UNCHANGED owner

-----------------------------------------------------------------------------
\* MergeDataStoreToCatalog.  Unlike the memory store's Delete in Merge, the
\* catalog's Delete of a key that has no record is an error, which rolls back.
CatalogAccepts(a) == Mergeable(a) /\ a.del \subseteq Live(committed) \cup Live(a)

\* Mutant: the staged deletions stay behind.
CatalogCommitUpserts(p) ==
  /\ pc[p] = "catalog" /\ CatalogAccepts(Artifact[cs[p]])
  /\ committed' = Saved(Merge(committed, Saved(Artifact[cs[p]])))
  /\ UNCHANGED <<files, unreadable, damaged, synced>>

CatalogCommit(p) ==
  /\ pc[p] = "catalog" /\ CatalogAccepts(Artifact[cs[p]])
  /\ committed' = Saved(Merge(committed, Artifact[cs[p]]))
  /\ UNCHANGED <<files, unreadable, damaged, synced>>

CatalogMerged(p) ==
  /\ CatalogCommit(p)
  /\ IF DatastoreType = "catalog" THEN Succeed(p)
     ELSE pc' = [pc EXCEPT ![p] = "load"]
          /\ UNCHANGED <<cs, mem, next, failed, owner>>

\* The transaction commits and the command does not hear of it.
CatalogAnswerLost(p) == CatalogCommit(p) /\ Fail(p)

-----------------------------------------------------------------------------
\* MergeChangesetDataStore reads the files and merges in memory.
LoadAndMergeNothing(p) ==
  /\ pc[p] = "load" /\ unreadable = {} /\ Mergeable(Artifact[cs[p]])
  /\ mem' = [mem EXCEPT ![p] = Artifact[cs[p]]]
  /\ pc' = [pc EXCEPT ![p] = "write"]
  /\ UNCHANGED <<files, unreadable, damaged, committed, cs, next, failed, owner,
                 synced>>

LoadAndMerge(p) ==
  /\ pc[p] = "load" /\ unreadable = {} /\ Mergeable(Artifact[cs[p]])
  /\ mem' = [mem EXCEPT ![p] = Merge(files, Artifact[cs[p]])]
  /\ pc' = [pc EXCEPT ![p] = "write"]
  /\ UNCHANGED <<files, unreadable, damaged, committed, cs, next, failed, owner,
                 synced>>

\* Mutant: one file too few.
WriteFileOneLess(p) ==
  /\ pc[p] = "write"
  /\ files' = Overwrite(files, mem[p], Files[next[p]])
  /\ IF next[p] = Len(Files) - 1 THEN Succeed(p)
     ELSE next' = [next EXCEPT ![p] = @ + 1] /\ UNCHANGED <<pc, cs, mem, failed, owner>>
  /\ unreadable' = unreadable \ {Files[next[p]]}
  /\ UNCHANGED <<damaged, committed, synced>>

\* jsonutils.WriteFile of the next file; the command ends with the last.
WriteFile(p) ==
  /\ pc[p] = "write"
  /\ files' = Overwrite(files, mem[p], Files[next[p]])
  /\ IF next[p] = Len(Files) THEN Succeed(p)
     ELSE next' = [next EXCEPT ![p] = @ + 1] /\ UNCHANGED <<pc, cs, mem, failed, owner>>
  /\ unreadable' = unreadable \ {Files[next[p]]}
  /\ UNCHANGED <<damaged, committed, synced>>

\* A step returns an error, or the process dies before it.
FailBetweenSteps(p) ==
  /\ pc[p] # "idle"
  /\ Fail(p)
  /\ UNCHANGED <<files, unreadable, damaged, committed, synced>>

\* The process dies inside os.WriteFile: the file is truncated, and holds
\* nothing, which loads as no records, or a part, which does not load.
CrashInWrite(p) ==
  LET file == Files[next[p]] IN
  /\ pc[p] = "write"
  /\ Fail(p)
  /\ files' = Overwrite(files, NewMemoryDataStore, file)
  /\ unreadable' \in {unreadable, unreadable \cup {file}}
  /\ damaged' = damaged \cup {file}
  /\ UNCHANGED <<committed, synced>>

-----------------------------------------------------------------------------
\* sync-to-catalog: the files are loaded, without staged deletions, and merged
\* into the catalog.
SyncDataStoreToCatalog ==
  /\ DatastoreType # "file"
  /\ \E p \in Commands : Idle(p)
  /\ unreadable = {}
  /\ InitialSync => /\ \A p \in Commands : pc[p] = "idle"
                    /\ failed = {} /\ \A x \in Cells : owner[x] = None
  /\ committed' = Saved(Merge(committed, files))
  /\ synced' = TRUE
  /\ UNCHANGED <<files, unreadable, damaged, pc, cs, mem, next, failed, owner>>

\* What LoadDataStore gives the next changeset.
LoadDataStore == IF DatastoreType \in {"catalog", "all"} THEN committed ELSE files

MergeNext ==
  \/ \E p \in Commands :
       \/ \E c \in Changesets : Begin(p, c)
       \/ CatalogMerged(p) \/ CatalogAnswerLost(p)
       \/ LoadAndMerge(p) \/ WriteFile(p)
       \/ FailBetweenSteps(p) \/ CrashInWrite(p)
  \/ SyncDataStoreToCatalog

MergeSpec == MergeInit /\ [][MergeNext]_mergeVars

-----------------------------------------------------------------------------
\* How the commands are meant to be run: local files have no lock, so merges
\* that write them run one at a time; and with type "catalog" the local files
\* fall behind, so a sync is for the "initial migration" (sync.go) only.
Discipline == IF DatastoreType = "catalog" THEN InitialSync ELSE Exclusive

Pending == failed \cup {cs[p] : p \in {q \in Commands : pc[q] # "idle"}}

\* No merge of a changeset that touches the cell is under way, or stopped and
\* has not succeeded since.
Settled(x) == \A c \in Pending : x \notin Touched(c)

Intact(x) == \A file \in damaged : x \notin CellsOf(file)

\* A changeset that was merged stays merged: what the next changeset is given
\* holds, for every settled cell, what the last successful merge made of it,
\* in spite of failures, crashes, reruns, syncs and merges of other
\* changesets in between.
MergedVisible ==
  \A x \in Cells :
    Settled(x) /\ owner[x] # None /\ (DatastoreType = "file" => Intact(x))
      => Cell(LoadDataStore, x) = MergeOutcome(owner[x], x)

\* The catalog holds what the changeset makes of the cell.
Ahead(c, x) == x \in Touched(c) /\ Cell(committed, x) = MergeOutcome(c, x)

\* With datastore type "all", the files are never ahead of the catalog.  A
\* cell on which the two differ is one that a changeset has set in the catalog
\* and whose merge is under way or stopped before the files had it; a
\* changeset that stages no deletion is accepted by the catalog again, so that
\* its rerun can bring them together.  One that stages a deletion is not: on
\* every rerun the catalog refuses to delete what is already gone and rolls
\* back, and the files stay behind until another merge sets the cell.
InSync ==
  DatastoreType = "all" /\ synced =>
    \A x \in Cells : Intact(x) /\ Cell(committed, x) # Cell(files, x) =>
      \E c \in Pending :
        /\ Ahead(c, x)
        /\ Artifact[c].del = {} => CatalogAccepts(Artifact[c])

\* The inductive invariant behind the three properties.
\* A command that is past the catalog has set its cells there.
CatalogDone(p) ==
  DatastoreType = "all" /\ pc[p] \in {"load", "write"} =>
    \A x \in Touched(cs[p]) : Cell(committed, x) = MergeOutcome(cs[p], x)

\* A command that writes files holds the outcome of its changeset for the cells
\* it touches, which the files written so far have, and what the files have
\* for the others.
FilesDone(p) ==
  pc[p] = "write" => \A x \in Cells :
    IF x \in Touched(cs[p])
    THEN /\ Cell(mem[p], x) = MergeOutcome(cs[p], x)
         /\ \A i \in 1..Len(Files) : i < next[p] /\ x \in CellsOf(Files[i])
              => Cell(files, x) = MergeOutcome(cs[p], x)
    ELSE Cell(mem[p], x) = Cell(files, x)

\* Which steps a command goes through.
Steps(p) ==
  /\ DatastoreType = "catalog" => pc[p] \in {"idle", "catalog"}
  /\ pc[p] # "write" => next[p] = 1

CommandInv == \A p \in Commands : Steps(p) /\ CatalogDone(p) /\ FilesDone(p)

OneAtATime ==
  Exclusive => \A p, q \in Commands : pc[p] # "idle" /\ pc[q] # "idle" => p = q

\* With type "all", a cell on which catalog and files disagree is lost from a
\* damaged file, was never merged and awaits the migration, or was set in the
\* catalog by a merge that has not ended well.
Agrees(x) ==
  \/ Cell(committed, x) = Cell(files, x)
  \/ ~Intact(x) /\ Cell(files, x) = None
  \/ ~synced /\ Cell(committed, x) = None /\ owner[x] = None

AgreeInv ==
  DatastoreType = "all" => \A x \in Cells :
    Agrees(x) \/ \E c \in Pending : Ahead(c, x) /\ Mergeable(Artifact[c])

\* A merge changes nothing in the files but what its changeset touches, also
\* when it continues from files that an interrupted merge left half written;
\* a crash inside a write damages that one file and no other.
OnlyTouched ==
  [][\A x \in Cells :
       Cell(files', x) # Cell(files, x) /\ Intact(x)'
         => \E p \in Commands : pc[p] = "write" /\ x \in Touched(cs[p])]_mergeVars
=============================================================================

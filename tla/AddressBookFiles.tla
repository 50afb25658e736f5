-------------------------- MODULE AddressBookFiles --------------------------
(***************************************************************************)
(* The address book of an environment directory and its migration to the   *)
(* datastore: the commands `address-book merge`, `remove` and `migrate`    *)
(* (EnvDir).  Every command is a process that reads the files, works on    *)
(* what it read and writes them back without a lock; it may be killed      *)
(* between any two steps, also inside a write, which leaves a file that    *)
(* does not load or, of the datastore, an empty one that loads.            *)
(***************************************************************************)
EXTENDS AddressBook, Naturals, Sequences

CONSTANTS
  Commands,      \* processes
  Changesets,
  Outputs,       \* address books that changesets return
  InitBooks,     \* address book files to begin with
  InitRefs,      \* address refs files to begin with
  Lower,         \* strings.ToLower of an address
  Unlabelled,    \* a type and version without its labels
  MaxArtifacts   \* bound: runs of a changeset

NoChain == "all"

Options == [preserve : BOOLEAN, chain : Chains \cup {NoChain}]

Ops == [kind : {"merge", "remove"}, cs : Changesets]
       \cup [kind : {"migrate"}, opts : Options]

\* Its qualifier, if any, is that of a migrated ref: the address and the type.
AddressRef == [chain : Chains, address : Addresses, tv : TVs,
               qualifier : (Addresses \X TVs) \cup {None}]

ASSUME FilesAssumption ==
  /\ Outputs \subseteq Book /\ InitBooks \subseteq Book
  /\ \A R \in InitRefs : R \subseteq AddressRef
  /\ DOMAIN Lower = Addresses /\ NoChain \notin Chains
  /\ Unlabelled \in [TVs -> TVs]
  /\ MaxArtifacts \in Nat

DatastoreFiles == {"refs", "chain_metadata", "contract_metadata", "env_metadata"}
Metadata == DatastoreFiles \ {"refs"}

VARIABLES
  book, refs, meta,  \* the files; meta: metadata files that hold records
  damaged,           \* files that do not load
  artifacts,         \* the address books that the runs of a changeset left
  pc, op, myBook, myRefs, next, res,
  art,               \* the address book of the changeset that was loaded
  \* history
  stale,      \* another command wrote a file after the command read it
  spoiled,    \* a command wrote an address book that was stale
  owed,       \* merged and not removed since
  undo        \* the book before the merge that was the last change of it

proc == <<pc, op, myBook, myRefs, next, res, art>>
vars == <<book, refs, meta, damaged, artifacts, pc, op, myBook, myRefs, next, res, art,
          stale, spoiled, owed, undo>>

TypeOK ==
  /\ book \in Book /\ owed \in Book /\ refs \subseteq AddressRef /\ meta \subseteq Metadata
  /\ damaged \subseteq DatastoreFiles \cup {"book"}
  /\ \A s \in Changesets : artifacts[s] \in Seq(Outputs)
  /\ \A c \in Commands :
       /\ pc[c] \in {"idle", "read", "artifact", "datastore", "write", "files", "done"}
       /\ (pc[c] # "idle") => op[c] \in Ops
       /\ myBook[c] \in Book /\ art[c] \in Book /\ myRefs[c] \subseteq AddressRef
       /\ next[c] \in 1..5
       /\ (res[c] # "none") = (pc[c] = "done")

Init ==
  /\ book \in InitBooks /\ refs \in InitRefs
  /\ meta = Metadata /\ damaged = {}
  /\ artifacts = [s \in Changesets |-> << >>]
  /\ pc = [c \in Commands |-> "idle"] /\ op = [c \in Commands |-> None]
  /\ myBook = [c \in Commands |-> EmptyBook] /\ myRefs = [c \in Commands |-> {}]
  /\ art = [c \in Commands |-> EmptyBook]
  /\ next = [c \in Commands |-> 1] /\ res = [c \in Commands |-> "none"]
  /\ stale = [c \in Commands |-> FALSE] /\ spoiled = FALSE
  /\ owed = book /\ undo = None

Go(c, state) == pc' = [pc EXCEPT ![c] = state]

\* The process ends, and with it what it has read.
End(c, result) ==
  /\ Go(c, "done")
  /\ res' = [res EXCEPT ![c] = result]
  /\ myBook' = [myBook EXCEPT ![c] = EmptyBook]
  /\ myRefs' = [myRefs EXCEPT ![c] = {}]
  /\ art' = [art EXCEPT ![c] = EmptyBook]
  /\ next' = [next EXCEPT ![c] = 1]

\* Every other command that runs has read what c writes now, or may have.
Spoils(c) ==
  stale' = [d \in Commands |-> stale[d] \/ (d # c /\ pc[d] \notin {"idle", "read", "done"})]

-----------------------------------------------------------------------------
\* A run of a changeset saves the address book that it returned; the file of a
\* later run does not replace it.
SaveAddressBook(s) ==
  /\ Len(artifacts[s]) < MaxArtifacts
  /\ \E b \in Outputs : artifacts' = [artifacts EXCEPT ![s] = Append(@, b)]
  /\ undo' = IF undo # None /\ undo.cs = s THEN None ELSE undo
  /\ UNCHANGED <<book, refs, meta, damaged, proc, stale, spoiled, owed>>

Start(c, o) ==
  /\ pc[c] = "idle"
  /\ op' = [op EXCEPT ![c] = o]
  /\ Go(c, "read")
  /\ UNCHANGED <<book, refs, meta, damaged, artifacts, myBook, myRefs, next, res,
                 art, stale, spoiled, owed, undo>>

\* EnvDir.AddressBook
ReadBook(c) ==
  /\ pc[c] = "read"
  /\ \/ /\ "book" \in damaged
        /\ End(c, "unreadable")
     \/ /\ "book" \notin damaged
        /\ myBook' = [myBook EXCEPT ![c] = book]
        /\ Go(c, IF op[c].kind = "migrate" THEN "datastore" ELSE "artifact")
        /\ UNCHANGED <<myRefs, next, res, art>>
  /\ UNCHANGED <<book, refs, meta, damaged, artifacts, op, stale, spoiled, owed, undo>>

\* LoadAddressBookByChangesetKey: findArtifactPath walks through all files that
\* match and keeps the last.  None is not an error.
LoadArtifact(s) ==
  IF artifacts[s] = << >> THEN EmptyBook ELSE artifacts[s][Len(artifacts[s])]

MergeOutcomes(b, o) == Merge(b, o)

\* MergeChangesetAddressBook, after the address book has been read.
MergeArtifact(c) ==
  /\ pc[c] = "artifact" /\ op[c].kind = "merge"
  /\ \E m \in MergeOutcomes(myBook[c], LoadArtifact(op[c].cs)) :
       \/ /\ m.ok
          /\ myBook' = [myBook EXCEPT ![c] = m.book]
          /\ art' = [art EXCEPT ![c] = LoadArtifact(op[c].cs)]
          /\ Go(c, "write")
          /\ UNCHANGED <<myRefs, next, res>>
       \/ /\ ~m.ok
          /\ End(c, "error")
  /\ UNCHANGED <<book, refs, meta, damaged, artifacts, op, stale, spoiled, owed, undo>>

\* RemoveChangesetAddressBook, after the address book has been read.
RemoveArtifact(c) ==
  /\ pc[c] = "artifact" /\ op[c].kind = "remove"
  /\ LET o == LoadArtifact(op[c].cs) IN
       \/ /\ CanRemove(myBook[c], o)
          /\ myBook' = [myBook EXCEPT ![c] = Remove(@, o)]
          /\ art' = [art EXCEPT ![c] = o]
          /\ Go(c, "write")
          /\ UNCHANGED <<myRefs, next, res>>
       \/ /\ ~CanRemove(myBook[c], o)
          /\ End(c, "absent")
  /\ UNCHANGED <<book, refs, meta, damaged, artifacts, op, stale, spoiled, owed, undo>>

WriteBook(c) ==
  /\ pc[c] = "write"
  /\ book' = myBook[c]
  /\ damaged' = damaged \ {"book"}
  /\ owed' = IF op[c].kind = "merge" THEN Saved(owed, art[c], Entries(art[c]))
                                     ELSE Remove(owed, art[c])
  /\ undo' = IF op[c].kind = "merge" /\ ~stale[c] /\ art[c] = LoadArtifact(op[c].cs)
               THEN [cs |-> op[c].cs, book |-> book] ELSE None
  /\ spoiled' = (spoiled \/ stale[c])
  /\ Spoils(c)
  /\ End(c, "ok")
  /\ UNCHANGED <<refs, meta, artifacts, op>>

-----------------------------------------------------------------------------
\* MigrateAddressBook

addressRefsOnly(opts) == opts.preserve \/ opts.chain # NoChain

InScope(opts, c) == opts.chain \in {NoChain, c}

\* Labels make no difference, here and in the key of the store.
addressRefIdentity(chain, address, tv) == <<chain, Lower[address], Unlabelled[tv]>>

IdentityOf(r) == addressRefIdentity(r.chain, r.address, r.tv)

Key(r) == <<r.chain, Unlabelled[r.tv], r.qualifier>>

ToAddressRef(p, tv) ==
  [chain |-> p[1], address |-> p[2], tv |-> tv, qualifier |-> <<p[2], Unlabelled[tv]>>]

\* Mutant: a migration of one chain starts from an empty store.
KeptRefsNone(opts, rs) == IF opts.preserve THEN rs ELSE {}

\* The refs that the migration starts from.
KeptRefs(opts, rs) ==
  IF opts.preserve THEN rs
  ELSE IF opts.chain = NoChain THEN {} ELSE {r \in rs : r.chain # opts.chain}

AddedRefs(opts, rs, b) ==
  {ToAddressRef(p, b[p]) :
     p \in {q \in Entries(b) :
              /\ InScope(opts, q[1])
              /\ ~ /\ opts.preserve
                   /\ \E r \in rs : IdentityOf(r) = addressRefIdentity(q[1], q[2], b[q])}}

\* The store takes every added ref.
Addable(kept, added) ==
  \A r \in added : \A s \in kept \cup (added \ {r}) : Key(r) # Key(s)

Convert(c) ==
  /\ pc[c] = "datastore"
  /\ LET opts == op[c].opts
         kept == KeptRefs(opts, refs)
         added == AddedRefs(opts, refs, myBook[c])
         loads == addressRefsOnly(opts) => damaged \cap DatastoreFiles = {} IN
       \/ /\ loads /\ Addable(kept, added)
          /\ myRefs' = [myRefs EXCEPT ![c] = kept \cup added]
          /\ Go(c, "files")
          /\ UNCHANGED <<myBook, next, res, art>>
       \/ /\ ~(loads /\ Addable(kept, added))
          /\ End(c, "error")
  /\ UNCHANGED <<book, refs, meta, damaged, artifacts, op, stale, spoiled, owed, undo>>

FilesOf(opts) ==
  IF addressRefsOnly(opts) THEN <<"refs">>
  ELSE <<"refs", "chain_metadata", "contract_metadata", "env_metadata">>

\* One file after the other.
WriteFile(c) ==
  /\ pc[c] = "files"
  /\ LET files == FilesOf(op[c].opts)
         f == files[next[c]] IN
       /\ refs' = IF f = "refs" THEN myRefs[c] ELSE refs
       /\ meta' = meta \ {f}
       /\ damaged' = damaged \ {f}
       /\ IF next[c] < Len(files)
            THEN next' = [next EXCEPT ![c] = @ + 1] /\ UNCHANGED <<pc, res, myBook, myRefs, art>>
            ELSE End(c, "ok")
  /\ Spoils(c)
  /\ UNCHANGED <<book, artifacts, op, spoiled, owed, undo>>

-----------------------------------------------------------------------------
\* The write fails or the process is killed inside it.  The file is as before, is
\* cut and no longer loads, or is left empty: loadDataStore takes that for a store
\* without records, AddressBook refuses it.
Cut(c) ==
  /\ pc[c] \in {"write", "files"}
  /\ LET f == IF pc[c] = "write" THEN "book" ELSE FilesOf(op[c].opts)[next[c]] IN
       \/ damaged' \in {damaged, damaged \cup {f}} /\ UNCHANGED <<refs, meta>>
       \/ /\ f # "book"
          /\ damaged' = damaged \ {f}
          /\ refs' = IF f = "refs" THEN {} ELSE refs
          /\ meta' = meta \ {f}
  /\ End(c, "cut")
  /\ Spoils(c)
  /\ undo' = None
  /\ UNCHANGED <<book, artifacts, op, spoiled, owed>>

Next ==
  \/ \E s \in Changesets : SaveAddressBook(s)
  \/ \E c \in Commands :
       \/ \E o \in Ops : Start(c, o)
       \/ ReadBook(c) \/ MergeArtifact(c) \/ RemoveArtifact(c) \/ WriteBook(c)
       \/ Convert(c) \/ WriteFile(c) \/ Cut(c)

Spec == Init /\ [][Next]_vars
-----------------------------------------------------------------------------
\* An address is lost from the file, or comes back after its removal, only when
\* two commands overlapped or a write was cut: a merge that stops half way
\* leaves nothing behind.
BookExact == (~spoiled /\ "book" \notin damaged) => book = owed

\* `remove` undoes the merge that was the last change of the address book: it
\* does not fail for want of an address and writes the book of before the merge
\* back, unless the artifact has addresses that are not in standard form.
RemoveUndoes ==
  \A c \in Commands :
    LET o == IF pc[c] = "artifact" THEN LoadArtifact(op[c].cs) ELSE art[c] IN
    (/\ pc[c] \in {"artifact", "write"} /\ op[c].kind = "remove" /\ ~stale[c]
     /\ undo # None /\ undo.cs = op[c].cs
     /\ \A p \in Entries(o) : Standard(p) = p)
    => IF pc[c] = "artifact" THEN CanRemove(myBook[c], o) ELSE myBook[c] = undo.book

(* Where no two commands overlapped and no write was cut, the address book *)
(* on disk is what the successful commands make of it, and `remove` after  *)
(* `merge` gives back the book of before.                                  *)
BookSound == TypeOK /\ BookExact /\ RemoveUndoes

\* A ref for every address in scope.
Covered(opts, b, rs) ==
  \A p \in Entries(b) :
    InScope(opts, p[1]) => \E r \in rs : IdentityOf(r) = addressRefIdentity(p[1], p[2], b[p])

\* What c writes last keeps the refs it was told to keep, covers the addresses
\* it was told to cover, and leaves metadata alone unless it replaces everything.
MigratesWell(c) ==
  LET opts == op[c].opts IN
  /\ opts.preserve =>
       /\ refs \subseteq refs'
       /\ \A r \in refs' \ refs : \A s \in refs : IdentityOf(r) # IdentityOf(s)
  /\ opts.chain # NoChain =>
       {r \in refs' : r.chain # opts.chain} = {r \in refs : r.chain # opts.chain}
  /\ Covered(opts, book, refs')
  /\ meta' # meta => ~opts.preserve /\ opts.chain = NoChain

\* A migration that no other command disturbed: with --preserve-existing no ref
\* goes away and none is added whose contract, whatever its labels, is there
\* already; refs of other
\* chains than the selected one stay; every address in scope has a ref; and only
\* a migration of everything touches the metadata.
MigrationKeeps == [][\A c \in Commands : WriteFile(c) /\ ~stale[c] => MigratesWell(c)]_vars
=============================================================================

---------------------------- MODULE MemoryCatalog ---------------------------
(***************************************************************************)
(* The in-memory catalog (datastore/catalog/memory), which tests use in    *)
(* place of the remote one: four stores over one storage with a lock, and  *)
(* transactions that buffer writes until they commit.  Goroutines share    *)
(* the catalog; each runs WithTransaction, also inside itself, and store   *)
(* operations with the context of any transaction it is in, or of none.    *)
(* An operation reads the record and writes it under two locks.            *)
(*                                                                         *)
(* A record is the set of the writes that it stems from: a plain write     *)
(* replaces the record, a write with an updater adds to it.  The empty set *)
(* is no record.                                                           *)
(***************************************************************************)
EXTENDS Naturals, Sequences

CONSTANTS Routines,   \* goroutines
          CatRecords, \* keys of the keyed stores
          MaxCatOps,  \* bound: goroutine -> its operations
          MaxDepth    \* bound: goroutine -> its transactions inside each other

EnvRecord == "env"
CatKeys == CatRecords \cup {EnvRecord}

\* Add; Update; Upsert; Upsert and Update with an updater that merges.
Kinds == {"add", "update", "upsert", "merge", "edit"}

\* Set of the env metadata is an upsert.
KindsOf(k) == IF k = EnvRecord THEN {"upsert", "merge"} ELSE Kinds

ASSUME CatalogAssumption == EnvRecord \notin CatRecords /\ {MaxCatOps, MaxDepth} \subseteq [Routines -> Nat]

VARIABLES
  catalog,  \* key -> record
  frames,   \* goroutine -> no transaction, then its open transactions
  doing,    \* goroutine -> the operation that has read and not written yet
  writes,   \* goroutine -> operations begun
  \* history
  undone,   \* the writes of transactions that were rolled back
  serial,   \* what the committed transactions make of the catalog one at a time
  overtaken \* a record changed between being read and what came of it

catVars == <<catalog, frames, doing, writes, undone, serial, overtaken>>

Seed == <<0, 0>>  \* a write before the first

\* A transaction: its buffer, the operations in it, the keys whose record it
\* read from the storage, and whether one of them has changed since.
NewTransaction == [data |-> [k \in CatKeys |-> {}], ops |-> << >>, read |-> {}, stale |-> FALSE]

CatInit ==
  /\ catalog \in [CatKeys -> {{}, {Seed}}]
  /\ frames = [g \in Routines |-> <<NewTransaction>>]
  /\ doing = [g \in Routines |-> << >>]
  /\ writes = [g \in Routines |-> 0]
  /\ undone = {}
  /\ serial = [catalog |-> catalog, legal |-> TRUE]
  /\ overtaken = FALSE

Top(g) == Len(frames[g])

-----------------------------------------------------------------------------
\* beginTransaction
BeginTransaction(g) ==
  /\ doing[g] = << >> /\ Top(g) <= MaxDepth[g]
  /\ frames' = [frames EXCEPT ![g] = Append(@, NewTransaction)]
  /\ UNCHANGED <<catalog, doing, writes, undone, serial, overtaken>>

\* Mutant: the buffer is only looked at when the storage has no record.
GetBaseFirst(g, f, k) == IF catalog[k] # {} THEN catalog[k] ELSE frames[g][f].data[k]

\* getAddressRef and its likes: the buffer, else the storage.
Get(g, f, k) == IF frames[g][f].data[k] # {} THEN frames[g][f].data[k] ELSE catalog[k]

\* What the operation makes of a record; << >> when it is refused.
Outcome(kind, current, w) ==
  CASE kind = "add" -> IF current = {} THEN <<{w}>> ELSE << >>
    [] kind = "update" -> IF current # {} THEN <<{w}>> ELSE << >>
    [] kind = "edit" -> IF current # {} THEN <<current \cup {w}>> ELSE << >>
    [] kind = "merge" -> <<current \cup {w}>>
    [] OTHER -> <<{w}>>

\* The operation reads the record with the context of frame f and computes the
\* new one; a refused one ends here.  A plain Upsert needs no record.
ReadRecord(g, f, kind, k) ==
  LET w == <<g, writes[g] + 1>>
      result == Outcome(kind, Get(g, f, k), w) IN
  /\ doing[g] = << >> /\ writes[g] < MaxCatOps[g]
  /\ result # << >>
  /\ writes' = [writes EXCEPT ![g] = @ + 1]
  /\ doing' = [doing EXCEPT ![g] =
                 <<[frame |-> f, kind |-> kind, key |-> k, write |-> w, record |-> result[1]]>>]
  /\ frames' = IF kind = "upsert" \/ frames[g][f].data[k] # {} THEN frames
               ELSE [frames EXCEPT ![g][f].read = @ \cup {k}]
  /\ UNCHANGED <<catalog, undone, serial, overtaken>>

\* An operation on a catalog: it is illegal where it would have been refused.
Perform(t, o) ==
  LET result == Outcome(o.kind, t.catalog[o.key], o.write) IN
  IF result = << >> THEN [t EXCEPT !.legal = FALSE] ELSE [t EXCEPT !.catalog[o.key] = result[1]]

\* The operations one after the other on the catalog of s.
Replay(s, ops) ==
  LET after[n \in 0..Len(ops)] == IF n = 0 THEN s ELSE Perform(after[n - 1], ops[n])
  IN  after[Len(ops)]

\* Every frame that has read a key of K from the storage is stale.
Overtake(fs, K) ==
  [g \in Routines |-> [f \in DOMAIN fs[g] |->
     [fs[g][f] EXCEPT !.stale = @ \/ fs[g][f].read \cap K # {}]]]

\* setAddressRef and its likes, in a transaction.
WriteBuffer(g) ==
  /\ doing[g] # << >> /\ doing[g][1].frame > 1
  /\ LET d == doing[g][1] IN
       frames' = [frames EXCEPT ![g][d.frame].data[d.key] = d.record,
                                ![g][d.frame].ops = Append(@, d)]
  /\ doing' = [doing EXCEPT ![g] = << >>]
  /\ UNCHANGED <<catalog, writes, undone, serial, overtaken>>

\* ... and outside of one, or after it has ended.
WriteStorage(g) ==
  /\ doing[g] # << >> /\ doing[g][1].frame = 1
  /\ LET d == doing[g][1]
         own == [frames EXCEPT ![g][1] = NewTransaction] IN
       /\ catalog' = [catalog EXCEPT ![d.key] = d.record]
       /\ frames' = Overtake(own, {d.key})
       /\ serial' = Replay(serial, <<d>>)
  /\ overtaken' = (overtaken \/ frames[g][1].stale)
  /\ doing' = [doing EXCEPT ![g] = << >>]
  /\ UNCHANGED <<writes, undone>>

\* The logic of the innermost transaction returned nil: commitTransaction.
Commit(g) ==
  /\ doing[g] = << >> /\ Top(g) > 1
  /\ LET t == frames[g][Top(g)]
         K == {k \in CatKeys : t.data[k] # {}} IN
       /\ catalog' = [k \in CatKeys |-> IF k \in K THEN t.data[k] ELSE catalog[k]]
       /\ frames' = Overtake([frames EXCEPT ![g] = SubSeq(@, 1, Top(g) - 1)], K)
       /\ serial' = Replay(serial, t.ops)
       /\ overtaken' = (overtaken \/ t.stale)
  /\ UNCHANGED <<doing, writes, undone>>

OpsOf(t) == {t.ops[i].write : i \in DOMAIN t.ops}

\* It returned an error or panicked: rollbackTransaction.
Rollback(g) ==
  /\ doing[g] = << >> /\ Top(g) > 1
  /\ undone' = undone \cup OpsOf(frames[g][Top(g)])
  /\ frames' = [frames EXCEPT ![g] = SubSeq(@, 1, Top(g) - 1)]
  /\ UNCHANGED <<catalog, doing, writes, serial, overtaken>>

CatNext ==
  \E g \in Routines :
    \/ BeginTransaction(g) \/ WriteBuffer(g) \/ WriteStorage(g) \/ Commit(g) \/ Rollback(g)
    \/ \E f \in 1..Top(g), k \in CatKeys : \E kind \in KindsOf(k) : ReadRecord(g, f, kind, k)

CatSpec == CatInit /\ [][CatNext]_catVars

-----------------------------------------------------------------------------
\* No record stems from a write that is rolled back or may still be, other than
\* in the buffer of its own transaction.
NoDirtyRecord ==
  LET open == UNION {{<<g, f>> : f \in 2..Top(g)} : g \in Routines}
      uncommitted(x) == undone \cup UNION {OpsOf(frames[y[1]][y[2]]) : y \in open \ {x}} IN
  /\ \A k \in CatKeys : catalog[k] \cap uncommitted(Seed) = {}
  /\ \A x \in open : \A k \in CatKeys : frames[x[1]][x[2]].data[k] \cap uncommitted(x) = {}

\* The catalog holds what the committed transactions, and the operations outside
\* of any, make of it one at a time, in the order in which they committed, and
\* none of them would have been refused; unless a record changed between being
\* read and the write that came of it: an inner transaction and the one around
\* it count as two.
Serializable == ~overtaken => serial = [catalog |-> catalog, legal |-> TRUE]

(* Transactions of the in-memory catalog are isolated: nothing stems from  *)
(* a write that was or may be rolled back, and where no record was         *)
(* overtaken the outcome is that of the transactions one at a time.        *)
Isolated == NoDirtyRecord /\ Serializable
=============================================================================

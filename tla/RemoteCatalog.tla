--------------------------- MODULE RemoteCatalog ----------------------------
(***************************************************************************)
(* The catalog client (datastore/catalog/remote): processes that edit the  *)
(* shared catalog over one gRPC stream each, in and out of transactions.   *)
(*                                                                         *)
(* A client has one request in flight, so a request and its answer are one *)
(* step; an answer may be lost with the stream.  Metadata rows carry a row *)
(* version that the client caches and sends back with an edit.             *)
(*                                                                         *)
(* The service is external.  As the client and its tests use it: the       *)
(* transaction lives in the stream and is rolled back with it; an edit of  *)
(* a row that another transaction has edited is answered after that one    *)
(* ends; a new row has version 1, every edit adds 1, and an edit with      *)
(* another version than the row's is Aborted.                              *)
(***************************************************************************)
EXTENDS Naturals

CONSTANTS
  Clients,
  RefKeys,        \* address refs: rows without a version
  MetadataKeys,   \* chain and contract metadata
  EnvKeys,        \* env metadata: the one row of an environment
  Calls,          \* subset of {"get", "add", "upsert", "update", "delete"}
  MaxCalls,       \* bound on the calls of a client
  TxStatusErrors, \* begin, commit and rollback may be answered by an error status
  None

Keys == RefKeys \cup MetadataKeys \cup EnvKeys

Versioned == MetadataKeys \cup EnvKeys

ASSUME CatalogAssumption ==
  /\ RefKeys \cap Versioned = {} /\ MetadataKeys \cap EnvKeys = {}
  /\ Calls \subseteq {"get", "add", "upsert", "update", "delete"}
  /\ MaxCalls \in Nat
  /\ TxStatusErrors \in BOOLEAN

\* A write is named by its client and the number of its call.
Writes == Clients \X (0..MaxCalls)

ASSUME NoneAssumption == None \notin Keys \cup Writes \cup [val : Writes, ver : Nat]

Row == [val : Writes, ver : Nat \ {0}]

VARIABLES
  \* the service
  rows,    \* committed rows
  open,    \* a client's stream has a transaction
  dirty,   \* keys edited in it
  buf,     \* what it made of them
  \* the clients
  stream,  \* cachedStream and streamInitErr
  cache,   \* versionCache, cachedVersion
  calls,   \* calls made
  pc,      \* the request that is in flight
  op,      \* the call that it belongs to
  inTx,    \* inside the lambda of WithTransaction
  \* history
  seen,    \* what the last Get of a call returned
  moved,   \* another client has changed that row since
  res,     \* how the last call ended
  acked,   \* writes of the last transaction that were answered by success
  logged,  \* those that are in the service's transaction
  applied, \* those that were committed
  txRes,   \* how the last transaction ended
  odd      \* clients whose transaction was answered by an error status, and keys
           \* that somebody deletes

server == <<rows, open, dirty, buf, logged, applied, moved>>
client == <<stream, cache, calls, pc, op, inTx, seen, res, acked, txRes>>
vars == <<server, client, odd>>

NoOp == [call |-> "get", key |-> None, sem |-> "insert"]

TypeOK ==
  /\ rows \in [Keys -> Row \cup {None}]
  /\ open \in [Clients -> BOOLEAN]
  /\ dirty \in [Clients -> SUBSET Keys]
  /\ \A c \in Clients : ~open[c] => dirty[c] = {} /\ logged[c] = {}
  /\ \A c, d \in Clients : c # d => dirty[c] \cap dirty[d] = {}
  /\ buf \in [Clients -> [Keys -> Row \cup {None}]]
  /\ stream \in [Clients -> {"unset", "up", "broken"}]
  /\ cache \in [Clients -> [Keys -> Nat]]
  /\ calls \in [Clients -> 0..MaxCalls]
  /\ pc \in [Clients -> {"idle", "begin", "fn", "get", "edit", "commit", "rollback"}]
  /\ op \in [Clients -> [call : Calls, key : Keys,
                         sem : {"insert", "upsert", "update", "delete"}] \cup {NoOp}]
  /\ inTx \in [Clients -> BOOLEAN]
  /\ seen \in [Clients -> Writes \cup {None}]
  /\ moved \in [Clients -> BOOLEAN]
  /\ res \in [Clients -> {"none", "ok", "exists", "notfound", "stale", "failed"}]
  /\ acked \in [Clients -> SUBSET Writes]
  /\ logged \in [Clients -> SUBSET Writes]
  /\ applied \in [Clients -> SUBSET Writes]
  /\ txRes \in [Clients -> {"none", "ok", "error"}]

Init ==
  /\ rows = [k \in Keys |-> None]
  /\ open = [c \in Clients |-> FALSE]
  /\ dirty = [c \in Clients |-> {}]
  /\ buf = [c \in Clients |-> [k \in Keys |-> None]]
  /\ stream = [c \in Clients |-> "unset"]
  /\ cache = [c \in Clients |-> [k \in Keys |-> 0]]
  /\ calls = [c \in Clients |-> 0]
  /\ pc = [c \in Clients |-> "idle"]
  /\ op = [c \in Clients |-> NoOp]
  /\ inTx = [c \in Clients |-> FALSE]
  /\ seen = [c \in Clients |-> None]
  /\ moved = [c \in Clients |-> FALSE]
  /\ res = [c \in Clients |-> "none"]
  /\ acked = [c \in Clients |-> {}]
  /\ logged = [c \in Clients |-> {}]
  /\ applied = [c \in Clients |-> {}]
  /\ txRes = [c \in Clients |-> "none"]
  /\ odd = {}

-----------------------------------------------------------------------------
\* The service.

View(c, k) == IF k \in dirty[c] THEN buf[c][k] ELSE rows[k]

Locked(c, k) == \E d \in Clients \ {c} : k \in dirty[d]

Write(c) == <<c, calls[c]>>

\* c has changed the committed rows of K.
Changed(c, K) ==
  moved' = [d \in Clients |-> moved[d] \/ (d # c /\ op[d].key \in K)]

\* An edit goes into the stream's transaction, or is committed at once.
Store(c, k, row) ==
  IF open[c]
  THEN /\ dirty' = [dirty EXCEPT ![c] = @ \cup {k}]
       /\ buf' = [buf EXCEPT ![c][k] = row]
       /\ logged' = [logged EXCEPT ![c] = @ \cup {Write(c)}]
       /\ UNCHANGED <<rows, open, applied, moved>>
  ELSE /\ rows' = [rows EXCEPT ![k] = row]
       /\ applied' = [applied EXCEPT ![c] = IF inTx[c] THEN @ \cup {Write(c)} ELSE @]
       /\ Changed(c, {k})
       /\ UNCHANGED <<open, dirty, buf, logged>>

Discard(c) ==
  /\ open' = [open EXCEPT ![c] = FALSE]
  /\ dirty' = [dirty EXCEPT ![c] = {}]
  /\ buf' = [buf EXCEPT ![c] = [k \in Keys |-> None]]
  /\ logged' = [logged EXCEPT ![c] = {}]

RolledBack(c) == Discard(c) /\ UNCHANGED <<rows, applied, moved>>

Committed(c) ==
  /\ rows' = [k \in Keys |-> View(c, k)]
  /\ applied' = [applied EXCEPT ![c] = @ \cup logged[c]]
  /\ Changed(c, dirty[c])
  /\ Discard(c)

\* Optimistic concurrency control.
Accepts(c, row) ==
  CASE op[c].sem = "insert" -> row = None
    [] op[c].sem = "delete" -> row # None
    [] op[c].sem = "update" ->
         row # None /\ (op[c].key \in Versioned => row.ver = cache[c][op[c].key])
    [] op[c].sem = "upsert" ->
         row # None /\ op[c].key \in Versioned => row.ver = cache[c][op[c].key]

Refusal(c, row) ==
  IF op[c].sem = "insert" THEN "exists" ELSE IF row = None THEN "notfound" ELSE "stale"

NewRow(c, row) ==
  IF op[c].sem = "delete" THEN None
  ELSE [val |-> Write(c), ver |-> IF row = None THEN 1 ELSE row.ver + 1]

-----------------------------------------------------------------------------
\* The client.

\* Mutant: a broken stream is replaced by a new one.
DataAccessReopens(c) == stream' = [stream EXCEPT ![c] = "up"]

\* CatalogClient.DataAccess: the stream is opened once.
DataAccess(c) == stream[c] # "broken" /\ stream' = [stream EXCEPT ![c] = "up"]

\* The call returns.  The lambda of a transaction gives up at an error.
Return(c, r) ==
  /\ res' = [res EXCEPT ![c] = r]
  /\ op' = [op EXCEPT ![c] = NoOp]
  /\ seen' = [seen EXCEPT ![c] = None]
  /\ pc' = [pc EXCEPT ![c] = IF ~inTx[c] THEN "idle"
                             ELSE IF r = "ok" THEN "fn" ELSE "rollback"]

\* What was recorded of the last transaction is dropped.
Forget(c) ==
  /\ acked' = [acked EXCEPT ![c] = {}]
  /\ applied' = [applied EXCEPT ![c] = {}]
  /\ txRes' = [txRes EXCEPT ![c] = "none"]

Ready(c) == pc[c] \in {"idle", "fn"}

\* Calls that send a Get before the edit.
GetsFirst(call, k) ==
  call \in {"get", "update"} \/ (call = "upsert" /\ k \in Versioned)

\* The semantics of the edit request; a Get sends none.
Sem(call) == IF call \in {"add", "get"} THEN "insert" ELSE call

\* Mutant: the metadata stores send what the env metadata store sends.
MissingSemUpsert(k) == "upsert"

\* The semantics when an Upsert finds no row.
MissingSem(k) == IF k \in EnvKeys THEN "upsert" ELSE "insert"

Call(c, call, k) ==
  /\ Ready(c) /\ calls[c] < MaxCalls
  /\ k \in EnvKeys => call \in {"get", "upsert"}
  /\ calls' = [calls EXCEPT ![c] = @ + 1]
  /\ op' = [op EXCEPT ![c] = [call |-> call, key |-> k, sem |-> Sem(call)]]
  /\ pc' = [pc EXCEPT ![c] = IF GetsFirst(call, k) THEN "get" ELSE "edit"]
  /\ seen' = [seen EXCEPT ![c] = None]
  /\ moved' = [moved EXCEPT ![c] = FALSE]
  /\ res' = [res EXCEPT ![c] = "none"]
  /\ IF inTx[c] THEN UNCHANGED <<acked, applied, txRes>> ELSE Forget(c)
  /\ UNCHANGED <<rows, open, dirty, buf, logged, stream, cache, inTx>>

\* Mutant: a version that is cached stays.
CachedVersionKept(k, row, old) == IF k \in Versioned /\ old = 0 THEN row.ver ELSE old

\* A Get caches the version of the row it returns.
CachedVersion(k, row, old) == IF k \in Versioned THEN row.ver ELSE old

\* The answer to a Get.  Update needs the row; Upsert of a missing row becomes
\* an insert, except for the env metadata, and goes on with the version that the
\* cache happens to hold.
Got(c, row) ==
  LET k == op[c].key IN
  /\ pc[c] = "get" /\ DataAccess(c)
  /\ IF row = None
     THEN /\ IF op[c].call = "upsert"
             THEN /\ pc' = [pc EXCEPT ![c] = "edit"]
                  /\ op' = [op EXCEPT ![c].sem = MissingSem(k)]
                  /\ UNCHANGED <<res, seen>>
             ELSE Return(c, "notfound")
          /\ UNCHANGED cache
     ELSE /\ cache' = [cache EXCEPT ![c][k] = CachedVersion(k, row, @)]
          /\ IF op[c].call = "get" THEN Return(c, "ok")
             ELSE /\ pc' = [pc EXCEPT ![c] = "edit"]
                  /\ seen' = [seen EXCEPT ![c] = row.val]
                  /\ UNCHANGED <<res, op>>
  /\ moved' = [moved EXCEPT ![c] = FALSE]
  /\ UNCHANGED <<rows, open, dirty, buf, logged, applied, calls, inTx, acked, txRes>>

Get(c) ==
  \/ Got(c, View(c, op[c].key))
  \/ op[c].call = "get" /\ Got(c, rows[op[c].key])  \* IgnoreTransactionsGetOption

\* Fetch caches the versions of all rows.
Fetch(c) ==
  /\ Ready(c) /\ DataAccess(c)
  /\ cache' = [cache EXCEPT ![c] = [k \in Keys |->
       IF k \in MetadataKeys /\ View(c, k) # None THEN View(c, k).ver ELSE @[k]]]
  /\ UNCHANGED <<server, calls, pc, op, inTx, seen, res, acked, txRes>>

\* executeEdit and what editRecord and deleteRecord do with the answer.
Edited(c) ==
  LET k == op[c].key IN
  /\ pc[c] = "edit" /\ DataAccess(c) /\ ~Locked(c, k)
  /\ Accepts(c, View(c, k))
  /\ Store(c, k, NewRow(c, View(c, k)))
  /\ cache' = [cache EXCEPT ![c][k] =
                 IF k \in RefKeys \/ op[c].sem = "delete" THEN 0 ELSE @ + 1]
  /\ acked' = [acked EXCEPT ![c] = IF inTx[c] THEN @ \cup {Write(c)} ELSE @]
  /\ Return(c, "ok")
  /\ UNCHANGED <<calls, inTx, txRes>>

Refused(c) ==
  LET k == op[c].key IN
  /\ pc[c] = "edit" /\ DataAccess(c) /\ ~Locked(c, k)
  /\ ~Accepts(c, View(c, k))
  /\ Return(c, Refusal(c, View(c, k)))
  /\ UNCHANGED <<server, cache, calls, inTx, acked, txRes>>

\* Any other status (a deadlock, a bad request, a conversion that fails).
Failed(c) ==
  /\ pc[c] \in {"get", "edit"} /\ DataAccess(c)
  /\ Return(c, "failed")
  /\ UNCHANGED <<server, cache, calls, inTx, acked, txRes>>

-----------------------------------------------------------------------------
\* WithTransaction.

Enter(c) ==
  /\ pc[c] = "idle" /\ ~inTx[c] /\ calls[c] < MaxCalls
  /\ pc' = [pc EXCEPT ![c] = "begin"]
  /\ Forget(c)
  /\ UNCHANGED <<rows, open, dirty, buf, logged, moved, stream, cache, calls, op, inTx,
                 seen, res>>

\* ThrowAndCatch looks at no status: an answer is a success.
Answered(c) ==
  /\ DataAccess(c)
  /\ pc' = [pc EXCEPT ![c] = IF pc[c] = "begin" THEN "fn" ELSE "idle"]
  /\ inTx' = [inTx EXCEPT ![c] = pc[c] = "begin"]
  /\ txRes' = [txRes EXCEPT ![c] = CASE pc[c] = "begin"    -> @
                                     [] pc[c] = "commit"   -> "ok"
                                     [] pc[c] = "rollback" -> "error"]
  /\ UNCHANGED <<cache, calls, op, seen, res, acked>>

Begin(c) ==
  /\ pc[c] = "begin" /\ ~open[c] /\ Answered(c)
  /\ open' = [open EXCEPT ![c] = TRUE]
  /\ UNCHANGED <<rows, dirty, buf, logged, applied, moved>>

Commit(c) == pc[c] = "commit" /\ open[c] /\ Answered(c) /\ Committed(c)

Rollback(c) == pc[c] = "rollback" /\ open[c] /\ Answered(c) /\ RolledBack(c)

\* The service answers by an error status; a transaction it had is gone.
TxStatusError(c) ==
  /\ TxStatusErrors
  /\ pc[c] \in {"begin", "commit", "rollback"} /\ Answered(c) /\ RolledBack(c)

\* The lambda returns nil, or an error of its own (or panics).
Leave(c) ==
  /\ pc[c] = "fn"
  /\ \E next \in {"commit", "rollback"} : pc' = [pc EXCEPT ![c] = next]
  /\ UNCHANGED <<server, stream, cache, calls, op, inTx, seen, res, acked, txRes>>

-----------------------------------------------------------------------------
\* Failures.

\* The stream breaks; the service rolls back.
Break(c) ==
  /\ stream[c] # "broken"
  /\ stream' = [stream EXCEPT ![c] = "broken"]
  /\ RolledBack(c)
  /\ UNCHANGED <<cache, calls, pc, op, inTx, seen, res, acked, txRes>>

\* A request on a broken stream fails.  A failed commit or rollback ends
\* WithTransaction with an error, a failed begin before it started.
SendFails(c) ==
  /\ stream[c] = "broken" /\ pc[c] \notin {"idle", "fn"}
  /\ IF pc[c] \in {"get", "edit"}
     THEN Return(c, "failed") /\ UNCHANGED <<inTx, txRes>>
     ELSE /\ pc' = [pc EXCEPT ![c] = "idle"]
          /\ inTx' = [inTx EXCEPT ![c] = FALSE]
          /\ txRes' = [txRes EXCEPT ![c] = "error"]
          /\ UNCHANGED <<res, op, seen>>
  /\ UNCHANGED <<server, stream, cache, calls, acked>>

\* The edit or the commit is carried out, and the stream breaks before its answer.
AnswerLost(c) ==
  /\ stream[c] = "up"
  /\ stream' = [stream EXCEPT ![c] = "broken"]
  /\ \/ /\ pc[c] = "edit" /\ ~open[c] /\ ~Locked(c, op[c].key)
        /\ Accepts(c, View(c, op[c].key))
        /\ Store(c, op[c].key, NewRow(c, View(c, op[c].key)))
     \/ pc[c] = "commit" /\ open[c] /\ Committed(c)
  /\ UNCHANGED <<cache, calls, pc, op, inTx, seen, res, acked, txRes>>

\* The process ends, at any time, and a new one starts with a new client.
Restart(c) ==
  /\ stream[c] # "unset"
  /\ RolledBack(c)
  /\ stream' = [stream EXCEPT ![c] = "unset"]
  /\ cache' = [cache EXCEPT ![c] = [k \in Keys |-> 0]]
  /\ pc' = [pc EXCEPT ![c] = "idle"]
  /\ op' = [op EXCEPT ![c] = NoOp]
  /\ inTx' = [inTx EXCEPT ![c] = FALSE]
  /\ seen' = [seen EXCEPT ![c] = None]
  /\ res' = [res EXCEPT ![c] = "none"]
  /\ txRes' = [txRes EXCEPT ![c] = IF inTx[c] THEN "error" ELSE @]
  /\ UNCHANGED <<calls, acked>>

Step(c) ==
  \/ Get(c) \/ Fetch(c) \/ Edited(c) \/ Refused(c) \/ Failed(c)
  \/ Enter(c) \/ Begin(c) \/ Leave(c) \/ Commit(c) \/ Rollback(c)
  \/ Break(c) \/ SendFails(c) \/ AnswerLost(c) \/ Restart(c)

Next == \E c \in Clients :
  \/ \E call \in Calls, k \in Keys :
       /\ call = "delete" => k \notin odd  \* at most one of a key
       /\ Call(c, call, k) /\ odd' = IF call = "delete" THEN odd \cup {k} ELSE odd
  \/ Step(c) /\ UNCHANGED odd
  \/ odd \cap Clients = {} /\ TxStatusError(c) /\ odd' = odd \cup {c}  \* at most one

Spec == Init /\ [][Next]_vars

-----------------------------------------------------------------------------
\* "any datastore operations will succeed or fail together" (api_v2.go): of the
\* operations of a transaction that the lambda knows to have succeeded, all are
\* committed or none, in spite of broken streams and restarts; none before the
\* commit; and all when WithTransaction reports success.  Not so for a client
\* whose begin, commit or rollback the service answers by an error status, which
\* ThrowAndCatch takes for a success.
AllOrNothing ==
  \A c \in Clients \ odd :
    /\ applied[c] \in {{}, acked[c]}
    /\ txRes[c] = "ok" => applied[c] = acked[c]
    /\ inTx[c] /\ pc[c] \in {"fn", "get", "edit"} => applied[c] = {}

\* An Upsert or Update of chain or contract metadata replaces exactly the record
\* that its Get returned and its updater was given: no other client's write is
\* lost, unless the record is deleted and inserted again, with the versions it had
\* before.  The env metadata is not promised that much: its Upsert of a missing
\* row goes on with the version of a row that was rolled back (MissingSem).
UpdateFromLatest ==
  [][\A c \in Clients : Edited(c) /\ op[c].key \in MetadataKeys \ odd
       /\ op[c].call \in {"upsert", "update"} =>
       LET row == View(c, op[c].key)
       IN  IF row = None THEN seen[c] = None ELSE seen[c] = row.val]_vars

\* A client is told that its version is stale only when another client did
\* change the row after the Get: rollbacks, restarts and earlier failures, after
\* which the version cache is wrong, do not refuse an edit.
StaleMeansMoved == \A c \in Clients : res[c] = "stale" => moved[c]

(* The state is well formed and the versions the client keeps mean what    *)
(* they are for: an edit is refused as stale only if another client has    *)
(* moved the row.                                                          *)
VersionsSound == TypeOK /\ StaleMeansMoved
=============================================================================

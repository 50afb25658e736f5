------------------------ MODULE RemoteCatalogProofs -------------------------
(***************************************************************************)
(* The catalog client, for any number of clients, keys and calls: the type *)
(* of the state, the atomicity of transactions, and what the cached row    *)
(* versions promise to an Upsert or Update.                                *)
(***************************************************************************)
EXTENDS RemoteCatalog, TLAPS

-----------------------------------------------------------------------------
(* The inductive invariant, in three parts.                                *)

Request == [call : Calls, key : Keys, sem : {"insert", "upsert", "update", "delete"}]

InCall(c) == pc[c] \in {"get", "edit"}

\* A request in flight belongs to a call that has not ended; a deletion was
\* noted in odd.
CallSound(c) ==
  InCall(c) =>
    /\ op[c] \in Request /\ res[c] = "none"
    /\ op[c].sem = "delete" => op[c].key \in odd
    /\ pc[c] = "get" => seen[c] = None

CallsSound == \A c \in Clients : CallSound(c)

\* The transaction of a client whose begin, commit and rollback were answered
\* properly.  The service has it exactly as long as the stream is there, and
\* then it has the writes that the client was told of; nothing is committed
\* before the commit is sent.
TxSound(c) ==
  /\ inTx[c] => pc[c] \in {"fn", "get", "edit", "commit", "rollback"} /\ txRes[c] = "none"
  /\ ~inTx[c] => pc[c] \in {"idle", "begin", "get", "edit"}
  /\ pc[c] = "begin" => acked[c] = {} /\ applied[c] = {} /\ txRes[c] = "none"
  /\ open[c] => inTx[c] /\ stream[c] = "up" /\ logged[c] = acked[c] /\ applied[c] = {}
  /\ inTx[c] /\ stream[c] # "broken" => open[c]
  /\ inTx[c] /\ pc[c] # "commit" => applied[c] = {}
  /\ applied[c] \in {{}, acked[c]}
  /\ txRes[c] = "ok" => applied[c] = acked[c]

TxsSound == \A c \in Clients \ odd : TxSound(c)

\* Of a row that nobody deletes, a transaction holds a later version than the
\* committed one.
BufAhead ==
  \A c \in Clients : \A k \in dirty[c] :
    k \in Versioned \ odd =>
      buf[c][k] # None /\ (rows[k] # None => buf[c][k].ver > rows[k].ver)

\* Between the Get of an Upsert or Update and its edit, unless another client
\* has moved the row: the cached version is the one of the row.
Fresh(c) ==
  pc[c] = "edit" /\ stream[c] # "broken" /\ op[c].sem \in {"update", "upsert"}
    /\ op[c].key \in Versioned /\ ~moved[c]
  => (View(c, op[c].key) # None => View(c, op[c].key).ver = cache[c][op[c].key])

\* Moved or not: the row is the one that the Get returned, or a later one.
Latest(c) ==
  pc[c] = "edit" /\ stream[c] # "broken" /\ op[c].call \in {"update", "upsert"}
    /\ op[c].key \in MetadataKeys \ odd
  => IF seen[c] = None THEN op[c].sem = "insert"
     ELSE /\ View(c, op[c].key) # None
          /\ \/ View(c, op[c].key).ver > cache[c][op[c].key]
             \/ /\ View(c, op[c].key).ver = cache[c][op[c].key]
                /\ View(c, op[c].key).val = seen[c]

RowsSound ==
  /\ BufAhead
  /\ \A c \in Clients : Fresh(c) /\ Latest(c)
  /\ StaleMeansMoved

IInv == TypeOK /\ CallsSound /\ TxsSound /\ RowsSound

-----------------------------------------------------------------------------
(* Types.                                                                  *)

\* What a client sees of a row is a row or nothing.
LEMMA ViewType ==
  ASSUME TypeOK, NEW c \in Clients, NEW k \in Keys
  PROVE  View(c, k) \in Row \cup {None}
BY DEF TypeOK, View

\* A new row is a row or nothing.
LEMMA NewRowType ==
  ASSUME TypeOK, NEW c \in Clients, NEW row \in Row \cup {None}
  PROVE  NewRow(c, row) \in Row \cup {None}
<1>1. Write(c) \in Writes
  BY CatalogAssumption DEF TypeOK, Write, Writes
<1>. QED BY <1>1 DEF NewRow, Row

\* The state after Store is well formed where it was.
ServerType ==
  /\ rows \in [Keys -> Row \cup {None}]
  /\ open \in [Clients -> BOOLEAN]
  /\ dirty \in [Clients -> SUBSET Keys]
  /\ \A c \in Clients : ~open[c] => dirty[c] = {} /\ logged[c] = {}
  /\ \A c, d \in Clients : c # d => dirty[c] \cap dirty[d] = {}
  /\ buf \in [Clients -> [Keys -> Row \cup {None}]]
  /\ moved \in [Clients -> BOOLEAN]
  /\ logged \in [Clients -> SUBSET Writes]
  /\ applied \in [Clients -> SUBSET Writes]

\* So is the rest of the state.
ClientType ==
  /\ stream \in [Clients -> {"unset", "up", "broken"}]
  /\ cache \in [Clients -> [Keys -> Nat]]
  /\ calls \in [Clients -> 0..MaxCalls]
  /\ pc \in [Clients -> {"idle", "begin", "fn", "get", "edit", "commit", "rollback"}]
  /\ op \in [Clients -> Request \cup {NoOp}]
  /\ inTx \in [Clients -> BOOLEAN]
  /\ seen \in [Clients -> Writes \cup {None}]
  /\ res \in [Clients -> {"none", "ok", "exists", "notfound", "stale", "failed"}]
  /\ acked \in [Clients -> SUBSET Writes]
  /\ txRes \in [Clients -> {"none", "ok", "error"}]

\* An edit that the service takes keeps the types of its state: in a
\* transaction it is buffered, otherwise it is in the table at once.
LEMMA StoreType ==
  ASSUME TypeOK, NEW c \in Clients, NEW k \in Keys, NEW row \in Row \cup {None},
         ~Locked(c, k), Store(c, k, row)
  PROVE  ServerType'
<1>1. Write(c) \in Writes
  BY CatalogAssumption DEF TypeOK, Write, Writes
<1>2. CASE open[c]
  <2>1. /\ dirty' = [dirty EXCEPT ![c] = @ \cup {k}]
        /\ buf' = [buf EXCEPT ![c][k] = row]
        /\ logged' = [logged EXCEPT ![c] = @ \cup {Write(c)}]
        /\ UNCHANGED <<rows, open, applied, moved>>
    BY <1>2 DEF Store
  <2>2. \A d, e \in Clients : d # e => dirty'[d] \cap dirty'[e] = {}
    BY <2>1 DEF TypeOK, Locked
  <2>3. buf' \in [Clients -> [Keys -> Row \cup {None}]]
    BY <2>1 DEF TypeOK
  <2>4. \A d \in Clients : ~open'[d] => dirty'[d] = {} /\ logged'[d] = {}
    BY <1>2, <2>1 DEF TypeOK
  <2>5. dirty' \in [Clients -> SUBSET Keys] /\ logged' \in [Clients -> SUBSET Writes]
    BY <1>1, <2>1 DEF TypeOK
  <2>. QED BY <2>1, <2>2, <2>3, <2>4, <2>5 DEF TypeOK, ServerType
<1>3. CASE ~open[c]
  <2>1. /\ rows' = [rows EXCEPT ![k] = row]
        /\ applied' = [applied EXCEPT ![c] = IF inTx[c] THEN @ \cup {Write(c)} ELSE @]
        /\ moved' = [d \in Clients |-> moved[d] \/ (d # c /\ op[d].key \in {k})]
        /\ UNCHANGED <<open, dirty, buf, logged>>
    BY <1>3 DEF Store, Changed
  <2>2. moved' \in [Clients -> BOOLEAN]
    BY <2>1, Zenon DEF TypeOK
  <2>3. applied' \in [Clients -> SUBSET Writes]
    BY <1>1, <2>1 DEF TypeOK
  <2>. QED BY <2>1, <2>2, <2>3 DEF TypeOK, ServerType
<1>. QED BY <1>2, <1>3

\* So does the rollback of a transaction,
LEMMA RolledBackType ==
  ASSUME TypeOK, NEW c \in Clients, RolledBack(c)
  PROVE  ServerType'
BY DEF TypeOK, ServerType, RolledBack, Discard

\* and its commit.
LEMMA CommittedType ==
  ASSUME TypeOK, NEW c \in Clients, Committed(c)
  PROVE  ServerType'
<1>1. rows' \in [Keys -> Row \cup {None}]
  BY ViewType DEF Committed
<1>2. moved' \in [Clients -> BOOLEAN]
  BY DEF TypeOK, Committed, Changed
<1>. QED BY <1>1, <1>2 DEF TypeOK, ServerType, Committed, Discard

\* A call of a store returns to the lambda, or to whoever made it.
LEMMA ReturnType ==
  ASSUME ClientType, NEW c \in Clients,
         NEW r \in {"ok", "exists", "notfound", "stale", "failed"}, Return(c, r)
  PROVE  /\ res' \in [Clients -> {"none", "ok", "exists", "notfound", "stale", "failed"}]
         /\ op' \in [Clients -> Request \cup {NoOp}]
         /\ seen' \in [Clients -> Writes \cup {None}]
         /\ pc' \in [Clients -> {"idle", "begin", "fn", "get", "edit", "commit", "rollback"}]
         /\ pc'[c] \in {"idle", "fn", "rollback"}
BY DEF ClientType, Return

\* Every step keeps the types, and a request in flight belongs to a call.
LEMMA TypeStep ==
  ASSUME TypeOK, CallsSound, Next
  PROVE  TypeOK'
<1>0. ServerType /\ ClientType /\ (ServerType' /\ ClientType' => TypeOK')
  BY DEF TypeOK, ServerType, ClientType, Request
<1>. USE <1>0
<1>1. ASSUME NEW c \in Clients, NEW call \in Calls, NEW k \in Keys, Call(c, call, k)
      PROVE  TypeOK'
  <2>1. [call |-> call, key |-> k, sem |-> Sem(call)] \in Request
    BY CatalogAssumption DEF Request, Sem
  <2>4. calls' \in [Clients -> 0..MaxCalls]
    BY <1>1, CatalogAssumption DEF ClientType, Call
  <2>5. op' \in [Clients -> Request \cup {NoOp}]
    BY <1>1, <2>1 DEF ClientType, Call
  <2>6. acked' \in [Clients -> SUBSET Writes] /\ txRes' \in [Clients -> {"none", "ok", "error"}]
    BY <1>1 DEF ClientType, Call, Forget
  <2>2. ClientType'
    BY <1>1, <2>4, <2>5, <2>6 DEF ClientType, Call
  <2>3. ServerType'
    BY <1>1 DEF ServerType, Call, Forget
  <2>. QED BY <2>2, <2>3
<1>2. ASSUME NEW c \in Clients, Get(c)
      PROVE  TypeOK'
  <2>1. PICK row \in Row \cup {None} : Got(c, row)
    BY <1>2, ViewType DEF Get, Got, CallsSound, CallSound, InCall, Request, ServerType
  <2>2. op[c] \in Request /\ op[c].key \in Keys
    BY <2>1 DEF Got, CallsSound, CallSound, InCall, Request
  <2>3. CASE row = None
    <3>1. CASE op[c].call = "upsert"
      <4>1. op' = [op EXCEPT ![c] = [@ EXCEPT !.sem = MissingSem(op[c].key)]]
        BY <2>1, <2>3, <3>1 DEF Got
      <4>2. [op[c] EXCEPT !.sem = MissingSem(op[c].key)] \in Request
        BY <2>2 DEF MissingSem, Request
      <4>3. op' \in [Clients -> Request \cup {NoOp}]
        BY <4>1, <4>2 DEF ClientType
      <4>. QED BY <2>1, <2>3, <3>1, <4>3 DEF ClientType, ServerType, Got, DataAccess
    <3>2. CASE op[c].call # "upsert"
      <4>1. Return(c, "notfound")
        BY <2>1, <2>3, <3>2 DEF Got
      <4>. QED BY <2>1, <2>3, <4>1, ReturnType DEF ClientType, ServerType, Got, DataAccess
    <3>. QED BY <3>1, <3>2
  <2>4. CASE row # None
    <3>1. row \in Row /\ row.val \in Writes /\ row.ver \in Nat
      BY <2>4 DEF Row
    <3>2. cache' \in [Clients -> [Keys -> Nat]]
      <4>1. cache' = [cache EXCEPT ![c][op[c].key] = CachedVersion(op[c].key, row, @)]
        BY <2>1, <2>4 DEF Got
      <4>2. CachedVersion(op[c].key, row, cache[c][op[c].key]) \in Nat
        BY <2>2, <3>1 DEF ClientType, CachedVersion
      <4>. QED BY <2>2, <4>1, <4>2 DEF ClientType
    <3>3. CASE op[c].call = "get"
      <4>1. Return(c, "ok")
        BY <2>1, <2>4, <3>3 DEF Got
      <4>. QED BY <2>1, <3>2, <4>1, ReturnType DEF ClientType, ServerType, Got, DataAccess
    <3>4. CASE op[c].call # "get"
      BY <2>1, <2>4, <3>1, <3>2, <3>4 DEF ClientType, ServerType, Got, DataAccess
    <3>. QED BY <3>3, <3>4
  <2>. QED BY <2>3, <2>4
<1>3. ASSUME NEW c \in Clients, Fetch(c)
      PROVE  TypeOK'
  <2>1. \A k \in Keys : View(c, k) # None => View(c, k).ver \in Nat
    BY ViewType DEF Row
  <2>2. cache' \in [Clients -> [Keys -> Nat]]
    BY <1>3, <2>1 DEF ClientType, Fetch
  <2>3. ClientType'
    BY <1>3, <2>2 DEF ClientType, Fetch, DataAccess
  <2>4. ServerType'
    BY <1>3 DEF ServerType, Fetch, server
  <2>. QED BY <2>3, <2>4
<1>4. ASSUME NEW c \in Clients, Edited(c)
      PROVE  TypeOK'
  <2>1. op[c] \in Request /\ op[c].key \in Keys
    BY <1>4 DEF Edited, CallsSound, CallSound, InCall, Request
  <2>2. NewRow(c, View(c, op[c].key)) \in Row \cup {None}
    BY <2>1, ViewType, NewRowType
  <2>3. ServerType'
    BY <1>4, <2>1, <2>2, StoreType DEF Edited
  <2>4. Write(c) \in Writes
    BY CatalogAssumption DEF ClientType, Write, Writes
  <2>5. Return(c, "ok")
    BY <1>4 DEF Edited
  <2>6. acked' \in [Clients -> SUBSET Writes]
    BY <1>4, <2>4 DEF ClientType, Edited
  <2>7. cache' \in [Clients -> [Keys -> Nat]]
    BY <1>4, <2>1 DEF ClientType, Edited
  <2>8. ClientType'
    BY <1>4, <2>5, <2>6, <2>7, ReturnType DEF ClientType, Edited, DataAccess
  <2>. QED BY <2>3, <2>8
<1>5. ASSUME NEW c \in Clients, Refused(c) \/ Failed(c)
      PROVE  TypeOK'
  <2>1. PICK r \in {"ok", "exists", "notfound", "stale", "failed"} : Return(c, r)
    BY <1>5 DEF Refused, Failed, Refusal
  <2>2. DataAccess(c) /\ UNCHANGED <<server, cache, calls, inTx, acked, txRes>>
    BY <1>5 DEF Refused, Failed
  <2>3. ClientType'
    BY <2>1, <2>2, ReturnType DEF ClientType, DataAccess
  <2>4. ServerType'
    BY <2>2 DEF ServerType, server
  <2>. QED BY <2>3, <2>4
<1>6. ASSUME NEW c \in Clients, Enter(c)
      PROVE  TypeOK'
  BY <1>6 DEF ClientType, ServerType, Enter, Forget
<1>7. ASSUME NEW c \in Clients, Answered(c), pc[c] \in {"begin", "commit", "rollback"}
      PROVE  ClientType'
  BY <1>7 DEF ClientType, Answered, DataAccess
<1>8. ASSUME NEW c \in Clients, Begin(c)
      PROVE  TypeOK'
  <2>1. ServerType'
    BY <1>8 DEF ServerType, Begin
  <2>. QED BY <1>7, <1>8, <2>1 DEF Begin
<1>9. ASSUME NEW c \in Clients, Commit(c) \/ Rollback(c) \/ TxStatusError(c)
      PROVE  TypeOK'
  BY <1>7, <1>9, CommittedType, RolledBackType DEF Commit, Rollback, TxStatusError
<1>10. ASSUME NEW c \in Clients, Leave(c)
       PROVE  TypeOK'
  <2>1. ClientType'
    BY <1>10 DEF ClientType, Leave
  <2>2. ServerType'
    BY <1>10 DEF ServerType, Leave, server
  <2>. QED BY <2>1, <2>2
<1>11. ASSUME NEW c \in Clients, Break(c)
       PROVE  TypeOK'
  <2>1. ClientType'
    BY <1>11 DEF ClientType, Break
  <2>. QED BY <1>11, <2>1, RolledBackType DEF Break
<1>12. ASSUME NEW c \in Clients, SendFails(c)
       PROVE  TypeOK'
  <2>1. ServerType'
    BY <1>12 DEF ServerType, SendFails, server
  <2>2. CASE InCall(c)
    <3>1. Return(c, "failed") /\ UNCHANGED <<inTx, txRes, stream, cache, calls, acked>>
      BY <1>12, <2>2 DEF SendFails, InCall
    <3>. QED BY <2>1, <3>1, ReturnType DEF ClientType
  <2>3. CASE ~InCall(c)
    BY <1>12, <2>1, <2>3 DEF SendFails, InCall, ClientType
  <2>. QED BY <2>2, <2>3
<1>13. ASSUME NEW c \in Clients, AnswerLost(c)
       PROVE  TypeOK'
  <2>1. ClientType'
    BY <1>13 DEF ClientType, AnswerLost
  <2>2. CASE pc[c] = "edit" /\ ~Locked(c, op[c].key)
             /\ Store(c, op[c].key, NewRow(c, View(c, op[c].key)))
    <3>1. op[c].key \in Keys
      BY <2>2 DEF CallsSound, CallSound, InCall, Request
    <3>2. NewRow(c, View(c, op[c].key)) \in Row \cup {None}
      BY <3>1, ViewType, NewRowType
    <3>. QED BY <2>1, <2>2, <3>1, <3>2, StoreType
  <2>3. CASE Committed(c)
    BY <2>1, <2>3, CommittedType
  <2>. QED BY <1>13, <2>2, <2>3 DEF AnswerLost
<1>14. ASSUME NEW c \in Clients, Restart(c)
       PROVE  TypeOK'
  <2>1. ClientType'
    BY <1>14 DEF ClientType, Restart
  <2>. QED BY <1>14, <2>1, RolledBackType DEF Restart
<1>. QED
  BY <1>1, <1>2, <1>3, <1>4, <1>5, <1>6, <1>8, <1>9, <1>10, <1>11, <1>12, <1>13, <1>14
  DEF Next, Step

\* The initial state satisfies the invariant.
LEMMA InitIInv == Init => IInv
<1>. SUFFICES ASSUME Init PROVE IInv
  OBVIOUS
<1>1. TypeOK
  BY CatalogAssumption DEF Init, TypeOK
<1>2. CallsSound /\ TxsSound /\ RowsSound
  BY DEF Init, CallsSound, CallSound, InCall, TxsSound, TxSound, RowsSound, BufAhead, Fresh, Latest,
         StaleMeansMoved
<1>. QED BY <1>1, <1>2 DEF IInv

-----------------------------------------------------------------------------
(* Calls and transactions: a step of one client leaves the others alone.   *)

\* A request in flight belongs to a call, after every step.
LEMMA CallsStep ==
  ASSUME TypeOK, CallsSound, Next
  PROVE  CallsSound'
<1>0. odd \subseteq odd'
  BY DEF Next
<1>1. ASSUME NEW c \in Clients, CallSound(c)',
             \A d \in Clients \ {c} : pc'[d] = pc[d] /\ op'[d] = op[d] /\ res'[d] = res[d] /\ seen'[d] = seen[d]
      PROVE  CallsSound'
  BY <1>0, <1>1 DEF CallsSound, CallSound, InCall
<1>2. ASSUME NEW c \in Clients, NEW r, Return(c, r)
      PROVE  CallsSound'
  <2>1. pc'[c] \notin {"get", "edit"}
    BY <1>2 DEF TypeOK, Return
  <2>2. \A d \in Clients \ {c} : pc'[d] = pc[d] /\ op'[d] = op[d] /\ res'[d] = res[d] /\ seen'[d] = seen[d]
    BY <1>2 DEF TypeOK, Return
  <2>. QED BY <1>1, <2>1, <2>2 DEF CallSound, InCall
<1>3. ASSUME NEW c \in Clients, NEW call \in Calls, NEW k \in Keys, Call(c, call, k),
             odd' = IF call = "delete" THEN odd \cup {k} ELSE odd
      PROVE  CallsSound'
  <2>1. /\ op'[c] = [call |-> call, key |-> k, sem |-> Sem(call)] /\ res'[c] = "none" /\ seen'[c] = None
        /\ \A d \in Clients \ {c} : pc'[d] = pc[d] /\ op'[d] = op[d] /\ res'[d] = res[d] /\ seen'[d] = seen[d]
    BY <1>3 DEF TypeOK, Call
  <2>2. op'[c] \in Request /\ (op'[c].sem = "delete" => op'[c].key \in odd')
    BY <1>3, <2>1, CatalogAssumption DEF Request, Sem
  <2>. QED BY <1>1, <2>1, <2>2 DEF CallSound
<1>4. ASSUME NEW c \in Clients, NEW row, Got(c, row)
      PROVE  CallsSound'
  <2>1. CASE \E r : Return(c, r)
    BY <1>2, <2>1
  <2>2. CASE ~\E r : Return(c, r)
    <3>1. op[c] \in Request /\ res[c] = "none" /\ (op[c].sem = "delete" => op[c].key \in odd)
      BY <1>4 DEF Got, CallsSound, CallSound, InCall
    <3>2. op' = [op EXCEPT ![c] = [@ EXCEPT !.sem = MissingSem(op[c].key)]] \/ op' = op
      BY <1>4, <2>2 DEF Got
    <3>3. op'[c] \in Request /\ (op'[c].sem = "delete" => op'[c].key \in odd)
      <4>1. CASE op' = op
        BY <3>1, <4>1
      <4>2. CASE op' = [op EXCEPT ![c] = [@ EXCEPT !.sem = MissingSem(op[c].key)]]
        <5>1. op'[c] = [op[c] EXCEPT !.sem = MissingSem(op[c].key)]
          BY <4>2 DEF TypeOK
        <5>. QED BY <3>1, <5>1 DEF Request, MissingSem
      <4>. QED BY <3>2, <4>1, <4>2
    <3>4. /\ res' = res /\ pc'[c] = "edit"
          /\ \A d \in Clients \ {c} : pc'[d] = pc[d] /\ op'[d] = op[d] /\ seen'[d] = seen[d]
      BY <1>4, <2>2, <3>2 DEF TypeOK, Got
    <3>. QED BY <1>0, <1>1, <3>1, <3>3, <3>4 DEF CallSound
  <2>. QED BY <2>1, <2>2
<1>5. ASSUME NEW c \in Clients, Edited(c) \/ Refused(c) \/ Failed(c)
      PROVE  CallsSound'
  BY <1>2, <1>5 DEF Edited, Refused, Failed
<1>6. ASSUME NEW c \in Clients, Fetch(c) \/ Break(c) \/ AnswerLost(c)
      PROVE  CallsSound'
  BY <1>0, <1>6 DEF Fetch, Break, AnswerLost, CallsSound, CallSound, InCall
<1>7. ASSUME NEW c \in Clients, Enter(c) \/ Leave(c)
      PROVE  CallsSound'
  BY <1>1, <1>7 DEF TypeOK, Enter, Leave, CallSound, InCall
<1>8. ASSUME NEW c \in Clients, Answered(c)
      PROVE  CallsSound'
  BY <1>1, <1>8 DEF TypeOK, Answered, CallSound, InCall
<1>9. ASSUME NEW c \in Clients, SendFails(c)
      PROVE  CallsSound'
  <2>1. CASE InCall(c)
    BY <1>2, <1>9, <2>1 DEF SendFails, InCall
  <2>2. CASE ~InCall(c)
    <3>1. pc' = [pc EXCEPT ![c] = "idle"] /\ UNCHANGED <<res, op, seen>>
      BY <1>9, <2>2 DEF SendFails, InCall
    <3>2. pc'[c] = "idle" /\ \A d \in Clients \ {c} : pc'[d] = pc[d]
      BY <3>1 DEF TypeOK
    <3>. QED BY <1>1, <3>1, <3>2 DEF CallSound, InCall
  <2>. QED BY <2>1, <2>2
<1>10. ASSUME NEW c \in Clients, Restart(c)
       PROVE  CallsSound'
  BY <1>1, <1>10 DEF TypeOK, Restart, CallSound, InCall
<1>. QED
  BY <1>3, <1>4, <1>5, <1>6, <1>7, <1>8, <1>9, <1>10
  DEF Next, Step, Get, Begin, Commit, Rollback, TxStatusError

\* What TxSound reads of a client.
TxState(c) == <<inTx[c], pc[c], txRes[c], acked[c], applied[c], open[c], stream[c], logged[c]>>

\* Transactions stay sound.
LEMMA TxsStep ==
  ASSUME TypeOK, TxsSound, Next
  PROVE  TxsSound'
<1>0. odd \subseteq odd'
  BY DEF Next
<1>1. ASSUME NEW c \in Clients, c \notin odd' => TxSound(c)',
             \A d \in Clients \ {c} : TxState(d)' = TxState(d)
      PROVE  TxsSound'
  BY <1>0, <1>1 DEF TxsSound, TxSound, TxState
<1>2. ASSUME NEW c \in Clients, NEW r, Return(c, r)
      PROVE  /\ pc'[c] = IF ~inTx[c] THEN "idle" ELSE IF r = "ok" THEN "fn" ELSE "rollback"
             /\ \A d \in Clients \ {c} : pc'[d] = pc[d]
  BY <1>2 DEF TypeOK, Return
<1>3. ASSUME NEW c \in Clients, NEW call \in Calls, NEW k \in Keys, Call(c, call, k)
      PROVE  TxsSound'
  <2>1. \A d \in Clients \ {c} : TxState(d)' = TxState(d)
    BY <1>3 DEF TypeOK, Call, Forget, TxState
  <2>2. ASSUME c \notin odd PROVE TxSound(c)'
    <3>1. TxSound(c) /\ pc[c] \in {"idle", "fn"} /\ pc'[c] \in {"get", "edit"}
      BY <1>3, <2>2 DEF TypeOK, TxsSound, Call, Ready
    <3>2. UNCHANGED <<inTx, open, logged, stream>>
      BY <1>3 DEF Call
    <3>3. CASE inTx[c]
      BY <1>3, <3>1, <3>2, <3>3 DEF Call, TxSound
    <3>4. CASE ~inTx[c]
      <4>1. acked'[c] = {} /\ applied'[c] = {} /\ txRes'[c] = "none"
        BY <1>3, <3>4 DEF TypeOK, Call, Forget
      <4>. QED BY <3>1, <3>2, <3>4, <4>1 DEF TxSound
    <3>. QED BY <3>3, <3>4
  <2>. QED BY <1>0, <1>1, <2>1, <2>2
<1>4. ASSUME NEW c \in Clients, NEW row, Got(c, row)
      PROVE  TxsSound'
  <2>1. pc[c] = "get" /\ stream[c] # "broken" /\ stream' = [stream EXCEPT ![c] = "up"]
        /\ UNCHANGED <<inTx, txRes, acked, applied, open, logged>>
    BY <1>4 DEF Got, DataAccess
  <2>2. pc' = [pc EXCEPT ![c] = "edit"] \/ \E r : Return(c, r)
    BY <1>4 DEF Got
  <2>3. \A d \in Clients \ {c} : pc'[d] = pc[d]
    BY <1>2, <2>2 DEF TypeOK
  <2>4. pc'[c] = "edit" \/ (IF inTx[c] THEN pc'[c] \in {"fn", "rollback"} ELSE pc'[c] = "idle")
    BY <1>2, <2>2 DEF TypeOK
  <2>5. stream'[c] = "up" /\ \A d \in Clients \ {c} : stream'[d] = stream[d]
    BY <2>1 DEF TypeOK
  <2>6. \A d \in Clients \ {c} : TxState(d)' = TxState(d)
    BY <2>1, <2>3, <2>5 DEF TxState
  <2>7. ASSUME c \notin odd PROVE TxSound(c)'
    BY <2>1, <2>4, <2>5, <2>7 DEF TxsSound, TxSound
  <2>. QED BY <1>0, <1>1, <2>6, <2>7
<1>5. ASSUME NEW c \in Clients, Fetch(c)
      PROVE  TxsSound'
  <2>1. stream[c] # "broken" /\ stream' = [stream EXCEPT ![c] = "up"]
        /\ UNCHANGED <<pc, inTx, txRes, acked, applied, open, logged>>
    BY <1>5 DEF Fetch, DataAccess, server
  <2>2. stream'[c] = "up" /\ \A d \in Clients \ {c} : stream'[d] = stream[d]
    BY <2>1 DEF TypeOK
  <2>3. \A d \in Clients \ {c} : TxState(d)' = TxState(d)
    BY <2>1, <2>2 DEF TxState
  <2>4. ASSUME c \notin odd PROVE TxSound(c)'
    BY <2>1, <2>2, <2>4 DEF TxsSound, TxSound
  <2>. QED BY <1>0, <1>1, <2>3, <2>4
<1>6. ASSUME NEW c \in Clients, Edited(c)
      PROVE  TxsSound'
  <2>1. /\ pc[c] = "edit" /\ stream[c] # "broken" /\ stream' = [stream EXCEPT ![c] = "up"]
        /\ Store(c, op[c].key, NewRow(c, View(c, op[c].key)))
        /\ acked' = [acked EXCEPT ![c] = IF inTx[c] THEN @ \cup {Write(c)} ELSE @]
        /\ Return(c, "ok") /\ UNCHANGED <<inTx, txRes>>
    BY <1>6 DEF Edited, DataAccess
  <2>2. stream'[c] = "up" /\ pc'[c] = (IF inTx[c] THEN "fn" ELSE "idle")
        /\ acked'[c] = (IF inTx[c] THEN acked[c] \cup {Write(c)} ELSE acked[c])
    BY <1>2, <2>1 DEF TypeOK
  <2>3. \A d \in Clients \ {c} : TxState(d)' = TxState(d)
    <3>1. \A d \in Clients \ {c} : pc'[d] = pc[d] /\ stream'[d] = stream[d] /\ acked'[d] = acked[d]
      BY <1>2, <2>1 DEF TypeOK
    <3>2. \A d \in Clients \ {c} : applied'[d] = applied[d] /\ open'[d] = open[d] /\ logged'[d] = logged[d]
      BY <2>1 DEF TypeOK, Store
    <3>. QED BY <2>1, <3>1, <3>2 DEF TxState
  <2>4. ASSUME c \notin odd PROVE TxSound(c)'
    <3>1. TxSound(c)
      BY <2>4 DEF TxsSound
    <3>2. CASE inTx[c]
      <4>1. open[c]
        BY <2>1, <3>1, <3>2 DEF TxSound
      <4>2. logged'[c] = logged[c] \cup {Write(c)} /\ UNCHANGED <<open, applied>>
        BY <2>1, <4>1 DEF Store, TypeOK
      <4>. QED BY <2>1, <2>2, <3>1, <3>2, <4>1, <4>2 DEF TxSound
    <3>3. CASE ~inTx[c]
      <4>1. ~open[c]
        BY <3>1, <3>3 DEF TxSound
      <4>2. applied'[c] = applied[c] /\ UNCHANGED <<open, logged>>
        BY <2>1, <3>3, <4>1 DEF Store, TypeOK
      <4>. QED BY <2>1, <2>2, <3>1, <3>3, <4>1, <4>2 DEF TxSound
    <3>. QED BY <3>2, <3>3
  <2>. QED BY <1>0, <1>1, <2>3, <2>4
<1>7. ASSUME NEW c \in Clients, Refused(c) \/ Failed(c)
      PROVE  TxsSound'
  <2>1. PICK r : Return(c, r) /\ r # "ok"
    BY <1>7 DEF Refused, Failed, Refusal
  <2>2. InCall(c) /\ stream[c] # "broken" /\ stream' = [stream EXCEPT ![c] = "up"]
        /\ UNCHANGED <<inTx, txRes, acked, applied, open, logged>>
    BY <1>7 DEF Refused, Failed, DataAccess, server, InCall
  <2>3. /\ stream'[c] = "up" /\ pc'[c] = (IF inTx[c] THEN "rollback" ELSE "idle")
        /\ \A d \in Clients \ {c} : pc'[d] = pc[d] /\ stream'[d] = stream[d]
    BY <1>2, <2>1, <2>2 DEF TypeOK
  <2>4. \A d \in Clients \ {c} : TxState(d)' = TxState(d)
    BY <2>2, <2>3 DEF TxState
  <2>5. ASSUME c \notin odd PROVE TxSound(c)'
    BY <2>2, <2>3, <2>5 DEF TxsSound, TxSound, InCall
  <2>. QED BY <1>0, <1>1, <2>4, <2>5
<1>8. ASSUME NEW c \in Clients, Enter(c)
      PROVE  TxsSound'
  <2>1. \A d \in Clients \ {c} : TxState(d)' = TxState(d)
    BY <1>8 DEF TypeOK, Enter, Forget, TxState
  <2>2. /\ pc'[c] = "begin" /\ acked'[c] = {} /\ applied'[c] = {} /\ txRes'[c] = "none" /\ ~inTx[c]
        /\ UNCHANGED <<inTx, open, stream, logged>>
    BY <1>8 DEF TypeOK, Enter, Forget
  <2>3. ASSUME c \notin odd PROVE TxSound(c)'
    BY <2>2, <2>3 DEF TxsSound, TxSound
  <2>. QED BY <1>0, <1>1, <2>1, <2>3
<1>9. ASSUME NEW c \in Clients, Answered(c)
      PROVE  /\ stream[c] # "broken" /\ stream'[c] = "up"
             /\ pc'[c] = (IF pc[c] = "begin" THEN "fn" ELSE "idle") /\ inTx'[c] = (pc[c] = "begin")
             /\ pc[c] = "begin" => txRes'[c] = txRes[c]
             /\ pc[c] = "commit" => txRes'[c] = "ok"
             /\ pc[c] = "rollback" => txRes'[c] = "error"
             /\ acked' = acked
             /\ \A d \in Clients \ {c} : /\ pc'[d] = pc[d] /\ stream'[d] = stream[d]
                                         /\ inTx'[d] = inTx[d] /\ txRes'[d] = txRes[d]
  BY <1>9 DEF TypeOK, Answered, DataAccess
<1>10. ASSUME NEW c \in Clients, Begin(c)
       PROVE  TxsSound'
  <2>1. pc[c] = "begin" /\ ~open[c] /\ Answered(c) /\ open'[c] = TRUE /\ UNCHANGED <<logged, applied>>
        /\ \A d \in Clients \ {c} : open'[d] = open[d]
    BY <1>10 DEF Begin, TypeOK
  <2>2. \A d \in Clients \ {c} : TxState(d)' = TxState(d)
    BY <1>9, <2>1 DEF TxState
  <2>3. logged[c] = {}
    BY <2>1 DEF TypeOK
  <2>4. ASSUME c \notin odd PROVE TxSound(c)'
    <3>1. TxSound(c)
      BY <2>4 DEF TxsSound
    <3>2. acked[c] = {} /\ applied[c] = {} /\ txRes[c] = "none"
      BY <2>1, <3>1 DEF TxSound
    <3>3. inTx'[c] /\ pc'[c] = "fn" /\ txRes'[c] = "none" /\ acked'[c] = {} /\ stream'[c] = "up"
      BY <1>9, <2>1, <3>2
    <3>. QED BY <2>1, <2>3, <3>2, <3>3 DEF TxSound
  <2>. QED BY <1>0, <1>1, <2>2, <2>4
<1>11. ASSUME NEW c \in Clients, Commit(c)
       PROVE  TxsSound'
  <2>1. pc[c] = "commit" /\ open[c] /\ Answered(c) /\ applied'[c] = applied[c] \cup logged[c]
        /\ open'[c] = FALSE /\ logged'[c] = {}
        /\ \A d \in Clients \ {c} : open'[d] = open[d] /\ logged'[d] = logged[d] /\ applied'[d] = applied[d]
    BY <1>11 DEF Commit, Committed, Discard, TypeOK
  <2>2. \A d \in Clients \ {c} : TxState(d)' = TxState(d)
    BY <1>9, <2>1 DEF TxState
  <2>3. ASSUME c \notin odd PROVE TxSound(c)'
    <3>1. TxSound(c)
      BY <2>3 DEF TxsSound
    <3>2. applied'[c] = acked[c]
      BY <2>1, <3>1 DEF TxSound
    <3>3. ~inTx'[c] /\ pc'[c] = "idle" /\ txRes'[c] = "ok" /\ acked'[c] = acked[c]
      BY <1>9, <2>1
    <3>. QED BY <2>1, <3>2, <3>3 DEF TxSound
  <2>. QED BY <1>0, <1>1, <2>2, <2>3
<1>12. ASSUME NEW c \in Clients, RolledBack(c)
       PROVE  /\ applied' = applied /\ open'[c] = FALSE /\ logged'[c] = {}
              /\ \A d \in Clients \ {c} : open'[d] = open[d] /\ logged'[d] = logged[d]
  BY <1>12 DEF RolledBack, Discard, TypeOK
<1>13. ASSUME NEW c \in Clients, Rollback(c)
       PROVE  TxsSound'
  <2>1. pc[c] = "rollback" /\ open[c] /\ Answered(c) /\ RolledBack(c)
    BY <1>13 DEF Rollback
  <2>2. \A d \in Clients \ {c} : TxState(d)' = TxState(d)
    BY <1>9, <1>12, <2>1 DEF TxState
  <2>3. ASSUME c \notin odd PROVE TxSound(c)'
    <3>1. TxSound(c)
      BY <2>3 DEF TxsSound
    <3>2. ~inTx'[c] /\ pc'[c] = "idle" /\ txRes'[c] = "error" /\ acked'[c] = acked[c]
      BY <1>9, <2>1
    <3>. QED BY <1>12, <2>1, <3>1, <3>2 DEF TxSound
  <2>. QED BY <1>0, <1>1, <2>2, <2>3
<1>14. ASSUME NEW c \in Clients, TxStatusError(c), c \in odd'
       PROVE  TxsSound'
  <2>1. Answered(c) /\ RolledBack(c)
    BY <1>14 DEF TxStatusError
  <2>2. \A d \in Clients \ {c} : TxState(d)' = TxState(d)
    BY <1>9, <1>12, <2>1 DEF TxState
  <2>. QED BY <1>1, <1>14, <2>2
<1>15. ASSUME NEW c \in Clients, Leave(c)
       PROVE  TxsSound'
  <2>1. /\ pc[c] = "fn" /\ pc'[c] \in {"commit", "rollback"}
        /\ \A d \in Clients \ {c} : pc'[d] = pc[d]
        /\ UNCHANGED <<inTx, txRes, acked, applied, open, stream, logged>>
    BY <1>15 DEF Leave, TypeOK, server
  <2>2. \A d \in Clients \ {c} : TxState(d)' = TxState(d)
    BY <2>1 DEF TxState
  <2>3. ASSUME c \notin odd PROVE TxSound(c)'
    BY <2>1, <2>3 DEF TxsSound, TxSound
  <2>. QED BY <1>0, <1>1, <2>2, <2>3
<1>16. ASSUME NEW c \in Clients, Break(c)
       PROVE  TxsSound'
  <2>1. /\ RolledBack(c) /\ stream'[c] = "broken" /\ UNCHANGED <<pc, inTx, txRes, acked>>
        /\ \A d \in Clients \ {c} : stream'[d] = stream[d]
    BY <1>16 DEF Break, TypeOK
  <2>2. \A d \in Clients \ {c} : TxState(d)' = TxState(d)
    BY <1>12, <2>1 DEF TxState
  <2>3. ASSUME c \notin odd PROVE TxSound(c)'
    BY <1>12, <2>1, <2>3 DEF TxsSound, TxSound
  <2>. QED BY <1>0, <1>1, <2>2, <2>3
<1>17. ASSUME NEW c \in Clients, SendFails(c)
       PROVE  TxsSound'
  <2>1. stream[c] = "broken" /\ UNCHANGED <<stream, acked, applied, open, logged>>
    BY <1>17 DEF SendFails, server
  <2>2. CASE InCall(c)
    <3>1. Return(c, "failed") /\ UNCHANGED <<inTx, txRes>>
      BY <1>17, <2>2 DEF SendFails, InCall
    <3>2. pc'[c] = (IF inTx[c] THEN "rollback" ELSE "idle") /\ \A d \in Clients \ {c} : pc'[d] = pc[d]
      BY <1>2, <3>1
    <3>3. \A d \in Clients \ {c} : TxState(d)' = TxState(d)
      BY <2>1, <3>1, <3>2 DEF TxState
    <3>4. ASSUME c \notin odd PROVE TxSound(c)'
      BY <2>1, <2>2, <3>1, <3>2, <3>4 DEF TxsSound, TxSound, InCall
    <3>. QED BY <1>0, <1>1, <3>3, <3>4
  <2>3. CASE ~InCall(c)
    <3>1. /\ pc'[c] = "idle" /\ inTx'[c] = FALSE /\ txRes'[c] = "error"
          /\ \A d \in Clients \ {c} : pc'[d] = pc[d] /\ inTx'[d] = inTx[d] /\ txRes'[d] = txRes[d]
      BY <1>17, <2>3 DEF SendFails, InCall, TypeOK
    <3>2. \A d \in Clients \ {c} : TxState(d)' = TxState(d)
      BY <2>1, <3>1 DEF TxState
    <3>3. ASSUME c \notin odd PROVE TxSound(c)'
      BY <2>1, <3>1, <3>3 DEF TxsSound, TxSound
    <3>. QED BY <1>0, <1>1, <3>2, <3>3
  <2>. QED BY <2>2, <2>3
<1>18. ASSUME NEW c \in Clients, AnswerLost(c)
       PROVE  TxsSound'
  <2>1. /\ stream[c] = "up" /\ stream'[c] = "broken" /\ UNCHANGED <<pc, inTx, txRes, acked>>
        /\ \A d \in Clients \ {c} : stream'[d] = stream[d]
    BY <1>18 DEF AnswerLost, TypeOK
  <2>2. CASE ~open[c] /\ Store(c, op[c].key, NewRow(c, View(c, op[c].key)))
    <3>1. /\ UNCHANGED <<open, logged>> /\ (~inTx[c] => applied'[c] = applied[c])
          /\ \A d \in Clients \ {c} : applied'[d] = applied[d]
      BY <2>2 DEF Store, TypeOK
    <3>2. \A d \in Clients \ {c} : TxState(d)' = TxState(d)
      BY <2>1, <3>1 DEF TxState
    <3>3. ASSUME c \notin odd PROVE TxSound(c)'
      BY <2>1, <2>2, <3>1, <3>3 DEF TxsSound, TxSound
    <3>. QED BY <1>0, <1>1, <3>2, <3>3
  <2>3. CASE pc[c] = "commit" /\ open[c] /\ Committed(c)
    <3>1. /\ applied'[c] = applied[c] \cup logged[c] /\ open'[c] = FALSE /\ logged'[c] = {}
          /\ \A d \in Clients \ {c} :
               open'[d] = open[d] /\ logged'[d] = logged[d] /\ applied'[d] = applied[d]
      BY <2>3 DEF Committed, Discard, TypeOK
    <3>2. \A d \in Clients \ {c} : TxState(d)' = TxState(d)
      BY <2>1, <3>1 DEF TxState
    <3>3. ASSUME c \notin odd PROVE TxSound(c)'
      BY <2>1, <2>3, <3>1, <3>3 DEF TxsSound, TxSound
    <3>. QED BY <1>0, <1>1, <3>2, <3>3
  <2>. QED BY <1>18, <2>2, <2>3 DEF AnswerLost
<1>19. ASSUME NEW c \in Clients, Restart(c)
       PROVE  TxsSound'
  <2>1. /\ RolledBack(c) /\ stream'[c] = "unset" /\ pc'[c] = "idle" /\ inTx'[c] = FALSE
        /\ txRes'[c] = (IF inTx[c] THEN "error" ELSE txRes[c]) /\ acked' = acked
        /\ \A d \in Clients \ {c} : /\ stream'[d] = stream[d] /\ pc'[d] = pc[d]
                                    /\ inTx'[d] = inTx[d] /\ txRes'[d] = txRes[d]
    BY <1>19 DEF Restart, TypeOK
  <2>2. \A d \in Clients \ {c} : TxState(d)' = TxState(d)
    BY <1>12, <2>1 DEF TxState
  <2>3. ASSUME c \notin odd PROVE TxSound(c)'
    BY <1>12, <2>1, <2>3 DEF TxsSound, TxSound
  <2>. QED BY <1>0, <1>1, <2>2, <2>3
<1>. QED
  BY <1>3, <1>4, <1>5, <1>6, <1>7, <1>8, <1>10, <1>11, <1>13, <1>14, <1>15, <1>16, <1>17, <1>18,
     <1>19
  DEF Next, Step, Get

-----------------------------------------------------------------------------
(* Versions: what a step of one client may do to the rows of the others.   *)

\* The others keep their transactions; a committed row that changes is known to
\* have moved and, if nobody deletes it, has a later version.
ServerStep(c) ==
  /\ \A d \in Clients \ {c} : dirty'[d] = dirty[d] /\ buf'[d] = buf[d] /\ (moved[d] => moved'[d])
  /\ \A k \in Keys :
       \/ rows'[k] = rows[k]
       \/ /\ \A d \in Clients \ {c} : op[d].key = k => moved'[d]
          /\ k \in Versioned \ odd =>
               rows'[k] # None /\ (rows[k] # None => rows'[k].ver > rows[k].ver)

\* An edit makes a row of a later version, unless it deletes it.
LEMMA NewRowLater ==
  ASSUME TypeOK, CallsSound, NEW c \in Clients, pc[c] = "edit", op[c].key \notin odd,
         NEW row \in Row \cup {None}
  PROVE  NewRow(c, row) # None /\ (row # None => NewRow(c, row).ver > row.ver)
<1>1. op[c].sem # "delete"
  BY DEF CallsSound, CallSound, InCall
<1>2. NewRow(c, row) = [val |-> Write(c), ver |-> IF row = None THEN 1 ELSE row.ver + 1]
  BY <1>1 DEF NewRow
<1>3. Write(c) \in Writes /\ (row # None => row.ver \in Nat)
  BY CatalogAssumption DEF TypeOK, Write, Writes, Row
<1>4. NewRow(c, row) \in [val : Writes, ver : Nat]
  BY <1>2, <1>3
<1>. QED BY <1>2, <1>3, <1>4, NoneAssumption

\* An edit leaves the rows that it is not about alone, and what it writes is
\* newer than what was there.
LEMMA StoreStep ==
  ASSUME TypeOK, CallsSound, BufAhead, NEW c \in Clients, pc[c] = "edit", ~Locked(c, op[c].key),
         Store(c, op[c].key, NewRow(c, View(c, op[c].key))), odd \subseteq odd'
  PROVE  ServerStep(c) /\ BufAhead'
<1>. DEFINE k == op[c].key
            row == NewRow(c, View(c, k))
<1>1. k \in Keys
  BY DEF CallsSound, CallSound, InCall, Request
<1>2. k \notin odd => row # None /\ (View(c, k) # None => row.ver > View(c, k).ver)
  BY <1>1, ViewType, NewRowLater
<1>. HIDE DEF k, row
<1>3. CASE open[c]
  <2>1. /\ dirty' = [dirty EXCEPT ![c] = @ \cup {k}] /\ buf' = [buf EXCEPT ![c][k] = row]
        /\ UNCHANGED <<rows, moved>>
    BY <1>3 DEF Store, k, row
  <2>2. \A d \in Clients \ {c} : dirty'[d] = dirty[d] /\ buf'[d] = buf[d]
    BY <2>1 DEF TypeOK
  <2>3. ServerStep(c)
    BY <2>1, <2>2 DEF ServerStep
  <2>4. ASSUME NEW d \in Clients, NEW j \in dirty'[d], j \in Versioned \ odd'
        PROVE  buf'[d][j] # None /\ (rows'[j] # None => buf'[d][j].ver > rows'[j].ver)
    <3>1. CASE d # c
      BY <2>1, <2>2, <2>4, <3>1 DEF BufAhead
    <3>2. CASE d = c /\ j # k
      <4>1. j \in dirty[c] /\ j \in Keys /\ buf'[c][j] = buf[c][j]
        BY <2>1, <2>4, <3>2 DEF TypeOK
      <4>. QED BY <2>1, <2>4, <3>2, <4>1 DEF BufAhead
    <3>3. CASE d = c /\ j = k
      <4>1. buf'[c][k] = row
        BY <1>1, <2>1 DEF TypeOK
      <4>2. k \in Versioned \ odd
        BY <2>4, <3>3
      <4>3. rows[k] # None => View(c, k) # None /\ View(c, k).ver >= rows[k].ver
        BY <1>1, <4>2 DEF View, BufAhead, TypeOK, Row
      <4>4. rows[k] # None => row.ver > rows[k].ver
        <5>1. View(c, k) \in Row \cup {None} /\ rows[k] \in Row \cup {None}
          BY <1>1, ViewType DEF TypeOK
        <5>2. row \in Row \cup {None}
          BY <5>1, NewRowType DEF row
        <5>. QED BY <1>2, <4>2, <4>3, <5>1, <5>2 DEF Row
      <4>. QED BY <1>2, <2>1, <3>3, <4>1, <4>2, <4>4
    <3>. QED BY <3>1, <3>2, <3>3
  <2>5. BufAhead'
    BY <2>4 DEF BufAhead
  <2>. QED BY <2>3, <2>5
<1>4. CASE ~open[c]
  <2>1. /\ rows' = [rows EXCEPT ![k] = row] /\ UNCHANGED <<dirty, buf>>
        /\ moved' = [d \in Clients |-> moved[d] \/ (d # c /\ op[d].key \in {k})]
    BY <1>4 DEF Store, Changed, k, row
  <2>2. dirty[c] = {} /\ View(c, k) = rows[k]
    BY <1>4 DEF TypeOK, View
  <2>3. \A d \in Clients \ {c} : (moved[d] => moved'[d]) /\ (op[d].key = k => moved'[d])
    BY <2>1, Zenon
  <2>4. \A j \in Keys : j # k => rows'[j] = rows[j]
    BY <2>1 DEF TypeOK
  <2>5. rows'[k] = row
    BY <1>1, <2>1 DEF TypeOK
  <2>6. ServerStep(c)
    BY <1>2, <2>1, <2>2, <2>3, <2>4, <2>5 DEF ServerStep
  <2>7. \A d \in Clients : k \notin dirty[d]
    BY <2>2 DEF Locked, k
  <2>8. BufAhead'
    BY <2>1, <2>4, <2>7 DEF BufAhead, TypeOK
  <2>. QED BY <2>6, <2>8
<1>. QED BY <1>3, <1>4

\* A commit moves the rows of its transaction, which no other may be editing,
LEMMA CommitStep ==
  ASSUME TypeOK, BufAhead, NEW c \in Clients, Committed(c), odd \subseteq odd'
  PROVE  ServerStep(c) /\ BufAhead'
<1>1. /\ rows' = [k \in Keys |-> View(c, k)]
      /\ moved' = [d \in Clients |-> moved[d] \/ (d # c /\ op[d].key \in dirty[c])]
      /\ dirty' = [dirty EXCEPT ![c] = {}]
      /\ buf' = [buf EXCEPT ![c] = [k \in Keys |-> None]]
  BY DEF Committed, Changed, Discard
<1>2. \A d \in Clients \ {c} : dirty'[d] = dirty[d] /\ buf'[d] = buf[d]
  BY <1>1 DEF TypeOK
<1>3. \A d \in Clients \ {c} : (moved[d] => moved'[d]) /\ (op[d].key \in dirty[c] => moved'[d])
  BY <1>1, Zenon
<1>4. \A k \in Keys : rows'[k] = (IF k \in dirty[c] THEN buf[c][k] ELSE rows[k])
  BY <1>1 DEF View
<1>5. ServerStep(c)
  BY <1>2, <1>3, <1>4 DEF ServerStep, BufAhead
<1>6. \A d \in Clients \ {c} : \A k \in dirty[d] : rows'[k] = rows[k]
  BY <1>4 DEF TypeOK
<1>7. dirty'[c] = {}
  BY <1>1 DEF TypeOK
<1>8. BufAhead'
  BY <1>2, <1>6, <1>7 DEF BufAhead
<1>. QED BY <1>5, <1>8

\* a rollback moves none,
LEMMA RollbackStep ==
  ASSUME TypeOK, BufAhead, NEW c \in Clients, RolledBack(c), odd \subseteq odd'
  PROVE  ServerStep(c) /\ BufAhead'
<1>1. /\ UNCHANGED <<rows, moved>> /\ dirty'[c] = {}
      /\ \A d \in Clients \ {c} : dirty'[d] = dirty[d] /\ buf'[d] = buf[d]
  BY DEF RolledBack, Discard, TypeOK
<1>. QED BY <1>1 DEF ServerStep, BufAhead

\* and nor does a step that the service does not take part in.
LEMMA NoServerStep ==
  ASSUME TypeOK, BufAhead, NEW c \in Clients, UNCHANGED <<rows, dirty, buf>>, odd \subseteq odd',
         \A d \in Clients \ {c} : moved[d] => moved'[d]
  PROVE  ServerStep(c) /\ BufAhead'
BY DEF ServerStep, BufAhead

\* What the others have in flight stays fresh.
LEMMA OthersFresh ==
  ASSUME TypeOK, CallsSound, NEW c \in Clients, NEW d \in Clients \ {c}, Fresh(d), Latest(d), ServerStep(c),
         odd \subseteq odd', rows' \in [Keys -> Row \cup {None}],
         pc'[d] = pc[d], op'[d] = op[d], stream'[d] = stream[d], cache'[d] = cache[d], seen'[d] = seen[d]
  PROVE  Fresh(d)' /\ Latest(d)'
<1>. SUFFICES ASSUME pc[d] = "edit", stream[d] # "broken"
              PROVE  Fresh(d)' /\ Latest(d)'
  BY DEF Fresh, Latest
<1>. DEFINE k == op[d].key
<1>1. k \in Keys
  BY DEF CallsSound, CallSound, InCall, Request
<1>2. View(d, k)' = (IF k \in dirty[d] THEN buf[d][k] ELSE rows'[k])
  BY DEF View, ServerStep
<1>3. CASE View(d, k)' = View(d, k)
  BY <1>3 DEF Fresh, Latest, ServerStep
<1>4. CASE View(d, k)' # View(d, k)
  <2>1. View(d, k) = rows[k] /\ View(d, k)' = rows'[k] /\ rows'[k] # rows[k]
    BY <1>2, <1>4 DEF View
  <2>2. moved'[d] /\ (k \in Versioned \ odd =>
                         rows'[k] # None /\ (rows[k] # None => rows'[k].ver > rows[k].ver))
    BY <1>1, <2>1 DEF ServerStep
  <2>3. Fresh(d)'
    BY <2>2 DEF Fresh
  <2>4. cache[d][k] \in Nat /\ rows[k] \in Row \cup {None} /\ rows'[k] \in Row \cup {None}
    BY <1>1 DEF TypeOK
  <2>5. Latest(d)'
    BY <2>1, <2>2, <2>4 DEF Latest, Versioned, Row
  <2>. QED BY <2>3, <2>5
<1>. QED BY <1>3, <1>4
\* A client that has no edit in flight has nothing to keep fresh.
LEMMA OwnDone ==
  ASSUME NEW c \in Clients, pc'[c] # "edit" \/ stream'[c] = "broken"
  PROVE  Fresh(c)' /\ Latest(c)'
BY DEF Fresh, Latest

\* A step of one client: its own edit is fresh, the others' stay so.
LEMMA RowsFrame ==
  ASSUME TypeOK, CallsSound, RowsSound, TypeOK', odd \subseteq odd', NEW c \in Clients,
         ServerStep(c) /\ BufAhead', Fresh(c)', Latest(c)', res'[c] = "stale" => moved'[c],
         \A d \in Clients \ {c} :
           /\ pc'[d] = pc[d] /\ op'[d] = op[d] /\ stream'[d] = stream[d]
           /\ cache'[d] = cache[d] /\ seen'[d] = seen[d] /\ res'[d] = res[d]
  PROVE  RowsSound'
<1>1. rows' \in [Keys -> Row \cup {None}]
  BY DEF TypeOK
<1>2. \A d \in Clients \ {c} : Fresh(d)' /\ Latest(d)'
  BY <1>1, OthersFresh DEF RowsSound
<1>3. StaleMeansMoved'
  BY DEF RowsSound, StaleMeansMoved, ServerStep
<1>. QED BY <1>2, <1>3 DEF RowsSound

\* The answer of a Get of an Upsert or Update: the cached version is the row's,
\* and a missing row is inserted.
LEMMA GotFresh ==
  ASSUME IInv, NEW c \in Clients, Got(c, View(c, op[c].key)), pc'[c] = "edit", TypeOK'
  PROVE  Fresh(c)' /\ Latest(c)'
<1>. DEFINE k == op[c].key
            row == View(c, k)
<1>1. op[c] \in Request /\ k \in Keys /\ seen[c] = None
  BY DEF IInv, CallsSound, CallSound, InCall, Request, Got
<1>2. row \in Row \cup {None}
  BY <1>1, ViewType DEF IInv
<1>3. UNCHANGED <<rows, dirty, buf>> /\ row' = IF op'[c].key \in dirty[c] THEN buf[c][op'[c].key] ELSE rows[op'[c].key]
  BY DEF Got, View
<1>4. CASE row = None
  <2>1. op[c].call = "upsert" /\ op' = [op EXCEPT ![c] = [@ EXCEPT !.sem = MissingSem(k)]] /\ seen' = seen
    BY <1>4 DEF Got, Return, IInv, TypeOK
  <2>2. op'[c] = [op[c] EXCEPT !.sem = MissingSem(k)]
    BY <2>1 DEF IInv, TypeOK
  <2>3. op'[c].key = k /\ op'[c].sem = MissingSem(k)
    BY <1>1, <2>2 DEF Request
  <2>4. row' = row
    BY <1>3, <2>3 DEF View
  <2>5. k \in MetadataKeys => op'[c].sem = "insert"
    BY <2>3, CatalogAssumption DEF MissingSem
  <2>. QED BY <1>1, <1>4, <2>1, <2>3, <2>4, <2>5 DEF Fresh, Latest
<1>5. CASE row # None
  <2>1. /\ cache' = [cache EXCEPT ![c][k] = CachedVersion(k, row, @)]
        /\ seen' = [seen EXCEPT ![c] = row.val] /\ op' = op
    BY <1>5 DEF Got, Return, IInv, TypeOK
  <2>2. cache'[c][k] = CachedVersion(k, row, cache[c][k]) /\ seen'[c] = row.val
    BY <1>1, <2>1 DEF IInv, TypeOK
  <2>3. row' = row
    BY <1>3, <2>1 DEF View
  <2>4. k \in Versioned => cache'[c][k] = row.ver
    BY <2>2 DEF CachedVersion
  <2>5. seen'[c] # None
    BY <1>2, <1>5, <2>2, NoneAssumption DEF Row
  <2>6. op'[c].key = k /\ row' # None /\ row'.val = seen'[c]
        /\ (k \in Versioned => row'.ver = cache'[c][k])
    BY <1>5, <2>1, <2>2, <2>3, <2>4
  <2>7. Fresh(c)'
    BY <2>6 DEF Fresh
  <2>8. Latest(c)'
    BY <2>5, <2>6 DEF Latest, Versioned
  <2>. QED BY <2>7, <2>8
<1>. QED BY <1>4, <1>5

\* Every step keeps the versions sound.
LEMMA RowsStep ==
  ASSUME IInv, Next
  PROVE  RowsSound'
<1>0. TypeOK /\ CallsSound /\ RowsSound /\ BufAhead /\ TypeOK' /\ odd \subseteq odd'
  BY TypeStep DEF IInv, RowsSound, Next
<1>1. ASSUME NEW c \in Clients, NEW call \in Calls, NEW k \in Keys, Call(c, call, k)
      PROVE  RowsSound'
  <2>1. /\ op'[c] = [call |-> call, key |-> k, sem |-> Sem(call)]
        /\ pc'[c] = (IF GetsFirst(call, k) THEN "get" ELSE "edit") /\ res'[c] = "none"
        /\ moved' = [moved EXCEPT ![c] = FALSE]
        /\ \A d \in Clients \ {c} :
             pc'[d] = pc[d] /\ op'[d] = op[d] /\ seen'[d] = seen[d] /\ res'[d] = res[d]
        /\ UNCHANGED <<rows, dirty, buf, stream, cache>>
    BY <1>0, <1>1 DEF Call, TypeOK
  <2>2. \A d \in Clients \ {c} : moved[d] => moved'[d]
    BY <1>0, <2>1 DEF TypeOK
  <2>3. ServerStep(c) /\ BufAhead'
    BY <1>0, <2>1, <2>2, NoServerStep
  <2>4. Fresh(c)' /\ Latest(c)'
    BY <2>1, CatalogAssumption DEF Fresh, Latest, GetsFirst, Sem, Versioned
  <2>. QED BY <1>0, <2>1, <2>3, <2>4, RowsFrame
<1>2. ASSUME NEW c \in Clients, NEW r, Return(c, r)
      PROVE  /\ pc'[c] # "edit" /\ res'[c] = r
             /\ \A d \in Clients \ {c} :
                  pc'[d] = pc[d] /\ op'[d] = op[d] /\ seen'[d] = seen[d] /\ res'[d] = res[d]
  BY <1>0, <1>2 DEF Return, TypeOK
<1>3. ASSUME NEW c \in Clients, DataAccess(c)
      PROVE  \A d \in Clients \ {c} : stream'[d] = stream[d]
  BY <1>0, <1>3 DEF DataAccess, TypeOK
<1>4. ASSUME NEW c \in Clients, Get(c)
      PROVE  RowsSound'
  <2>1. PICK row \in Row \cup {None} : /\ Got(c, row)
                                       /\ row = View(c, op[c].key) \/ op[c].call = "get"
    <3>1. pc[c] = "get" /\ op[c].key \in Keys
      BY <1>0, <1>4 DEF Get, Got, CallsSound, CallSound, InCall, Request
    <3>2. View(c, op[c].key) \in Row \cup {None} /\ rows[op[c].key] \in Row \cup {None}
      BY <1>0, <3>1, ViewType DEF TypeOK
    <3>. QED BY <1>4, <3>2 DEF Get
  <2>2. /\ UNCHANGED <<rows, dirty, buf>> /\ moved' = [moved EXCEPT ![c] = FALSE]
        /\ DataAccess(c) /\ pc[c] = "get"
    BY <2>1 DEF Got
  <2>3. \A d \in Clients \ {c} : moved[d] => moved'[d]
    BY <1>0, <2>2 DEF TypeOK
  <2>4. ServerStep(c) /\ BufAhead'
    BY <1>0, <2>2, <2>3, NoServerStep
  <2>5. CASE pc'[c] = "edit"
    <3>1. row = View(c, op[c].key)
      BY <1>0, <2>1, <2>5 DEF Got, Return, TypeOK
    <3>2. Fresh(c)' /\ Latest(c)'
      BY <1>0, <2>1, <2>5, <3>1, GotFresh
    <3>3. res' = res /\ res[c] = "none"
      BY <1>0, <1>2, <2>1, <2>2, <2>5 DEF Got, CallsSound, CallSound, InCall
    <3>4. \A d \in Clients \ {c} :
             pc'[d] = pc[d] /\ op'[d] = op[d] /\ seen'[d] = seen[d] /\ cache'[d] = cache[d]
      <4>1. CASE row = None
        BY <1>0, <1>2, <2>1, <2>5, <4>1 DEF Got, TypeOK
      <4>2. CASE row # None
        BY <1>0, <1>2, <2>1, <2>5, <4>2 DEF Got, TypeOK
      <4>. QED BY <4>1, <4>2
    <3>. QED BY <1>0, <1>3, <2>2, <2>4, <3>2, <3>3, <3>4, RowsFrame
  <2>6. CASE pc'[c] # "edit"
    <3>1. Return(c, "ok") \/ Return(c, "notfound")
      BY <1>0, <2>1, <2>6 DEF Got, TypeOK
    <3>2. /\ res'[c] # "stale"
          /\ \A d \in Clients \ {c} :
               pc'[d] = pc[d] /\ op'[d] = op[d] /\ seen'[d] = seen[d] /\ res'[d] = res[d]
      BY <1>2, <3>1
    <3>3. \A d \in Clients \ {c} : cache'[d] = cache[d]
      BY <1>0, <2>1 DEF Got, TypeOK
    <3>. QED BY <1>0, <1>3, <2>2, <2>4, <2>6, <3>2, <3>3, OwnDone, RowsFrame
  <2>. QED BY <2>5, <2>6
<1>5. ASSUME NEW c \in Clients, Fetch(c)
      PROVE  RowsSound'
  <2>1. /\ Ready(c) /\ DataAccess(c) /\ UNCHANGED <<rows, dirty, buf, moved, pc, op, seen, res>>
        /\ \A d \in Clients \ {c} : cache'[d] = cache[d]
    BY <1>0, <1>5 DEF Fetch, TypeOK, server
  <2>2. ServerStep(c) /\ BufAhead'
    BY <1>0, <2>1, NoServerStep
  <2>3. pc'[c] # "edit"
    BY <2>1 DEF Ready
  <2>4. res'[c] = "stale" => moved'[c]
    BY <1>0, <2>1 DEF RowsSound, StaleMeansMoved
  <2>. QED BY <1>0, <1>3, <2>1, <2>2, <2>3, <2>4, OwnDone, RowsFrame
<1>6. ASSUME NEW c \in Clients, Edited(c)
      PROVE  RowsSound'
  <2>1. /\ pc[c] = "edit" /\ DataAccess(c) /\ ~Locked(c, op[c].key) /\ Return(c, "ok")
        /\ Store(c, op[c].key, NewRow(c, View(c, op[c].key)))
        /\ \A d \in Clients \ {c} : cache'[d] = cache[d]
    BY <1>0, <1>6 DEF Edited, TypeOK
  <2>2. ServerStep(c) /\ BufAhead'
    BY <1>0, <2>1, StoreStep
  <2>3. /\ pc'[c] # "edit" /\ res'[c] # "stale"
        /\ \A d \in Clients \ {c} :
             pc'[d] = pc[d] /\ op'[d] = op[d] /\ seen'[d] = seen[d] /\ res'[d] = res[d]
    BY <1>2, <2>1
  <2>. QED BY <1>0, <1>3, <2>1, <2>2, <2>3, OwnDone, RowsFrame
<1>7. ASSUME NEW c \in Clients, Refused(c) \/ Failed(c)
      PROVE  RowsSound'
  <2>1. /\ DataAccess(c) /\ UNCHANGED <<rows, dirty, buf, moved, cache>>
    BY <1>7 DEF Refused, Failed, server
  <2>2. PICK r : Return(c, r) /\ (r = "stale" => moved[c])
    <3>1. CASE Failed(c)
      BY <3>1 DEF Failed
    <3>2. CASE Refused(c)
      <4>1. Return(c, Refusal(c, View(c, op[c].key))) /\ pc[c] = "edit" /\ stream[c] # "broken"
            /\ ~Accepts(c, View(c, op[c].key))
        BY <3>2 DEF Refused, DataAccess
      <4>2. op[c].sem \in {"insert", "upsert", "update", "delete"} /\ Fresh(c)
        BY <1>0, <4>1 DEF CallsSound, CallSound, InCall, Request, RowsSound
      <4>3. ASSUME Refusal(c, View(c, op[c].key)) = "stale" PROVE moved[c]
        <5>1. op[c].sem # "insert" /\ View(c, op[c].key) # None
          BY <4>3 DEF Refusal
        <5>2. /\ op[c].sem \in {"upsert", "update"} /\ op[c].key \in Versioned
              /\ View(c, op[c].key).ver # cache[c][op[c].key]
          BY <4>1, <4>2, <5>1 DEF Accepts
        <5>. QED BY <4>1, <4>2, <5>1, <5>2 DEF Fresh
      <4>. QED BY <4>1, <4>3
    <3>. QED BY <1>7, <3>1, <3>2
  <2>3. /\ pc'[c] # "edit" /\ (res'[c] = "stale" => moved'[c])
        /\ \A d \in Clients \ {c} :
             pc'[d] = pc[d] /\ op'[d] = op[d] /\ seen'[d] = seen[d] /\ res'[d] = res[d]
    BY <1>2, <2>1, <2>2
  <2>4. ServerStep(c) /\ BufAhead'
    BY <1>0, <2>1, NoServerStep
  <2>. QED BY <1>0, <1>3, <2>1, <2>3, <2>4, OwnDone, RowsFrame
<1>8. ASSUME NEW c \in Clients, Enter(c) \/ Leave(c)
      PROVE  RowsSound'
  <2>1. /\ UNCHANGED <<rows, dirty, buf, moved, stream, cache, op, seen, res>>
        /\ pc'[c] # "edit" /\ \A d \in Clients \ {c} : pc'[d] = pc[d]
    BY <1>0, <1>8 DEF Enter, Leave, server, TypeOK
  <2>2. ServerStep(c) /\ BufAhead'
    BY <1>0, <2>1, NoServerStep
  <2>3. res'[c] = "stale" => moved'[c]
    BY <1>0, <2>1 DEF RowsSound, StaleMeansMoved
  <2>. QED BY <1>0, <2>1, <2>2, <2>3, OwnDone, RowsFrame
<1>9. ASSUME NEW c \in Clients, Answered(c), ServerStep(c) /\ BufAhead', moved[c] => moved'[c]
      PROVE  RowsSound'
  <2>1. /\ DataAccess(c) /\ UNCHANGED <<cache, op, seen, res>>
        /\ pc'[c] # "edit" /\ \A d \in Clients \ {c} : pc'[d] = pc[d]
    BY <1>0, <1>9 DEF Answered, TypeOK
  <2>2. res'[c] = "stale" => moved'[c]
    BY <1>0, <1>9, <2>1 DEF RowsSound, StaleMeansMoved
  <2>. QED BY <1>0, <1>3, <1>9, <2>1, <2>2, OwnDone, RowsFrame
<1>10. ASSUME NEW c \in Clients, Begin(c)
       PROVE  RowsSound'
  BY <1>0, <1>9, <1>10, NoServerStep DEF Begin
<1>11. ASSUME NEW c \in Clients, Committed(c) PROVE moved[c] => moved'[c]
  BY <1>11, Zenon DEF Committed, Changed
<1>12. ASSUME NEW c \in Clients, Commit(c)
       PROVE  RowsSound'
  BY <1>0, <1>9, <1>11, <1>12, CommitStep DEF Commit
<1>13. ASSUME NEW c \in Clients, RolledBack(c) PROVE moved' = moved
  BY <1>13 DEF RolledBack
<1>14. ASSUME NEW c \in Clients, Rollback(c) \/ TxStatusError(c)
       PROVE  RowsSound'
  BY <1>0, <1>9, <1>13, <1>14, RollbackStep DEF Rollback, TxStatusError
<1>15. ASSUME NEW c \in Clients, Break(c)
       PROVE  RowsSound'
  <2>1. /\ RolledBack(c) /\ stream'[c] = "broken" /\ UNCHANGED <<cache, pc, op, seen, res>>
        /\ \A d \in Clients \ {c} : stream'[d] = stream[d]
    BY <1>0, <1>15 DEF Break, TypeOK
  <2>2. res'[c] = "stale" => moved'[c]
    BY <1>0, <1>13, <2>1 DEF RowsSound, StaleMeansMoved
  <2>. QED BY <1>0, <2>1, <2>2, RollbackStep, OwnDone, RowsFrame
<1>16. ASSUME NEW c \in Clients, SendFails(c)
       PROVE  RowsSound'
  <2>1. /\ UNCHANGED <<rows, dirty, buf, moved, stream, cache>> /\ stream'[c] = "broken"
    BY <1>16 DEF SendFails, server
  <2>2. \A d \in Clients \ {c} :
          pc'[d] = pc[d] /\ op'[d] = op[d] /\ seen'[d] = seen[d] /\ res'[d] = res[d]
    BY <1>0, <1>2, <1>16 DEF SendFails, TypeOK
  <2>3. res'[c] = "stale" => moved'[c]
    BY <1>0, <1>2, <1>16, <2>1 DEF SendFails, RowsSound, StaleMeansMoved
  <2>4. ServerStep(c) /\ BufAhead'
    BY <1>0, <2>1, NoServerStep
  <2>. QED BY <1>0, <2>1, <2>2, <2>3, <2>4, OwnDone, RowsFrame
<1>17. ASSUME NEW c \in Clients, AnswerLost(c)
       PROVE  RowsSound'
  <2>1. /\ stream'[c] = "broken" /\ UNCHANGED <<cache, pc, op, seen, res>>
        /\ \A d \in Clients \ {c} : stream'[d] = stream[d]
    BY <1>0, <1>17 DEF AnswerLost, TypeOK
  <2>2. /\ ServerStep(c) /\ BufAhead'
        /\ pc[c] = "edit" \/ (moved[c] => moved'[c])
    BY <1>0, <1>11, <1>17, StoreStep, CommitStep DEF AnswerLost
  <2>3. res'[c] = "stale" => moved'[c]
    BY <1>0, <2>1, <2>2 DEF RowsSound, StaleMeansMoved, CallsSound, CallSound, InCall
  <2>. QED BY <1>0, <2>1, <2>2, <2>3, OwnDone, RowsFrame
<1>18. ASSUME NEW c \in Clients, Restart(c)
       PROVE  RowsSound'
  <2>1. /\ RolledBack(c) /\ pc'[c] = "idle" /\ res'[c] = "none"
        /\ \A d \in Clients \ {c} :
             /\ pc'[d] = pc[d] /\ op'[d] = op[d] /\ stream'[d] = stream[d]
             /\ cache'[d] = cache[d] /\ seen'[d] = seen[d] /\ res'[d] = res[d]
    BY <1>0, <1>18 DEF Restart, TypeOK
  <2>. QED BY <1>0, <2>1, RollbackStep, OwnDone, RowsFrame
<1>. QED
  BY <1>1, <1>4, <1>5, <1>6, <1>7, <1>8, <1>10, <1>12, <1>14, <1>15, <1>16, <1>17, <1>18
  DEF Next, Step

-----------------------------------------------------------------------------
(* The theorems.                                                           *)

\* The invariant is inductive.
LEMMA IInvStep == IInv /\ [Next]_vars => IInv'
<1>. SUFFICES ASSUME IInv, [Next]_vars PROVE IInv'
  OBVIOUS
<1>1. CASE Next
  BY <1>1, TypeStep, CallsStep, TxsStep, RowsStep DEF IInv
<1>2. CASE UNCHANGED vars
  <2>1. TypeOK'
    BY <1>2 DEF IInv, TypeOK, vars, server, client
  <2>2. CallsSound' /\ TxsSound'
    BY <1>2 DEF IInv, CallsSound, CallSound, InCall, TxsSound, TxSound, vars, server, client
  <2>3. RowsSound'
    BY <1>2 DEF IInv, RowsSound, BufAhead, Fresh, Latest, View, StaleMeansMoved, vars, server,
       client
  <2>. QED BY <2>1, <2>2, <2>3 DEF IInv
<1>. QED BY <1>1, <1>2

\* The state is well formed: what the service holds of a transaction is held by its
\* client's stream alone, and no row is edited in two transactions.
THEOREM CatalogTyped == Spec => []TypeOK
<1>1. IInv => TypeOK
  BY DEF IInv
<1>. QED BY <1>1, InitIInv, IInvStep, PTL DEF Spec

\* WithTransaction is all or nothing, whatever breaks: of the writes whose success
\* the lambda was told of, all are committed or none, and all of them when it
\* reports success (transaction.go, WithTransaction), for any number of clients,
\* keys and calls; only a client whose begin, commit or rollback is answered by an
\* error status is left out.
THEOREM TransactionsAtomic == Spec => []AllOrNothing
<1>1. IInv => AllOrNothing
  BY DEF IInv, TxsSound, TxSound, AllOrNothing
<1>. QED BY <1>1, InitIInv, IInvStep, PTL DEF Spec

\* An edit is refused as stale only when another client has changed the row since
\* the Get: the version cache, which a rollback, a failed edit or a lost answer
\* leaves wrong, is set again by the Get of every Upsert and Update.
THEOREM StaleOnlyWhenMoved == Spec => []VersionsSound
<1>1. IInv => VersionsSound
  BY DEF IInv, RowsSound, VersionsSound
<1>. QED BY <1>1, InitIInv, IInvStep, PTL DEF Spec

\* No lost update: an Upsert or Update of chain or contract metadata replaces
\* exactly the record that its updater was given (editRecord sends the version
\* that the Get cached).
THEOREM NoLostUpdate == Spec => UpdateFromLatest
<1>1. ASSUME IInv, NEW c \in Clients, Edited(c), op[c].key \in MetadataKeys \ odd,
             op[c].call \in {"upsert", "update"}
      PROVE  IF View(c, op[c].key) = None THEN seen[c] = None
             ELSE seen[c] = View(c, op[c].key).val
  <2>1. /\ pc[c] = "edit" /\ stream[c] # "broken" /\ Accepts(c, View(c, op[c].key))
    BY <1>1 DEF Edited, DataAccess
  <2>2. Latest(c) /\ op[c].sem \in {"insert", "upsert", "update", "delete"}
    BY <1>1, <2>1 DEF IInv, RowsSound, CallsSound, CallSound, InCall, Request
  <2>3. op[c].sem # "delete" /\ op[c].key \in Versioned /\ op[c].key \in Keys
    BY <1>1, <2>1 DEF IInv, CallsSound, CallSound, InCall, Versioned, Keys
  <2>4. CASE seen[c] = None
    BY <1>1, <2>1, <2>2, <2>4 DEF Latest, Accepts
  <2>5. CASE seen[c] # None
    <3>1. View(c, op[c].key) # None
          /\ \/ View(c, op[c].key).ver > cache[c][op[c].key]
             \/ View(c, op[c].key).val = seen[c]
      BY <1>1, <2>1, <2>2, <2>5 DEF Latest
    <3>2. View(c, op[c].key).ver = cache[c][op[c].key]
      BY <2>1, <2>2, <2>3, <3>1 DEF Accepts
    <3>3. cache[c][op[c].key] \in Nat
      BY <1>1, <2>3 DEF IInv, TypeOK
    <3>. QED BY <3>1, <3>2, <3>3
  <2>. QED BY <2>4, <2>5
<1>2. IInv /\ [Next]_vars =>
        [\A c \in Clients : Edited(c) /\ op[c].key \in MetadataKeys \ odd
             /\ op[c].call \in {"upsert", "update"} =>
             LET row == View(c, op[c].key)
             IN  IF row = None THEN seen[c] = None ELSE seen[c] = row.val]_vars
  BY <1>1
<1>. QED BY <1>2, InitIInv, IInvStep, PTL DEF Spec, UpdateFromLatest
=============================================================================

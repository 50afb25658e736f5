---------------------------- MODULE EvmContracts ----------------------------
(* The contract operations of EVM chains (read, deploy, write) on top of the  *)
(* MultiClient: a write reads the owner, estimates gas, takes a nonce,   *)
(* signs and sends a transaction and waits for its receipt; after an error it *)
(* is retried from the start, with more gas when the error was about gas.     *)
(* The nodes behind the clients and the chain itself are external: a node may *)
(* fail, lose its answer, and lag behind the others.                          *)
EXTENDS EvmClient, FiniteSets

CONSTANTS Jobs,           \* the assignments of an operation to every goroutine
          Existing,       \* qualifiers of the contracts in existingAddresses
          InputHasChain,  \* does the input name the chain (operations) or not (operations2)
          OpTries,        \* attempts of an operation with a retry policy
          DefaultGas,     \* gas_config.default_gas_limit, 0 when unset
          EstimatedGas,   \* what eth_estimateGas answers
          MaxTxGas,       \* gas_config.max_tx_gas_limit, 0 when unset
          InitialGas,     \* GasBoostConfig.InitialGasLimit
          GasIncrement,   \* GasBoostConfig.GasLimitIncrement
          NeededGas       \* what the chain needs for a transaction

VARIABLES job,          \* job[p]: what goroutine p executes
          confirmer,    \* how transactions are confirmed: "geth" or "seth"
          stage,        \* where the operation of p is
          opTry,        \* its attempt
          gas,          \* the gas override in the input of this attempt, or 0
          tx,           \* the transaction of this attempt
          res,          \* what the operation returned
          pool,         \* pool[ch][c]: the transactions node c knows and that are not mined
          mined,        \* mined[ch]: the mined ones; the n-th has nonce n
          reports,      \* successful reports, in the order they were added
          unconfirmed   \* attempts that failed after sending, without a receipt

opVars == <<stage, opTry, gas, tx, res, reports, unconfirmed>>
chainVars == <<pool, mined>>
vars == <<clients, call, job, confirmer, opVars, chainVars>>

NoTx == [att |-> 0]
NoResult == [ok |-> FALSE]
RPCStages == {"view", "read", "estimate", "nonce", "send"}

ASSUME StagesAssumption == RPCStages \subseteq Ops
ASSUME OpTriesAssumption == OpTries \in Nat \ {0}
ASSUME GasAssumption == /\ {DefaultGas, EstimatedGas, MaxTxGas} \subseteq Nat
                        /\ {InitialGas, GasIncrement, NeededGas} \subseteq Nat

Init ==
    /\ ClientInit
    /\ job \in Jobs
    /\ confirmer \in {"geth", "seth"}
    /\ stage = [p \in Callers |-> "idle"]
    /\ opTry = [p \in Callers |-> 1]
    /\ gas = [p \in Callers |-> 0]
    /\ tx = [p \in Callers |-> NoTx]
    /\ res = [p \in Callers |-> NoResult]
    /\ pool = [ch \in Chains |-> [c \in 1..NumRPCs |-> {}]]
    /\ mined = [ch \in Chains |-> << >>]
    /\ reports = << >>
    /\ unconfirmed = {}

-----------------------------------------------------------------------------
(* Gas.  One number stands for the limit and the price, which are boosted     *)
(* together and alike.                                                        *)

CapGasLimit(g) == IF MaxTxGas = 0 \/ g <= MaxTxGas THEN g ELSE MaxTxGas

\* The gas of a transaction: the override, else the deployer's default, else the estimate.
TransactGas(override) == IF override > 0 THEN override
                         ELSE CapGasLimit(IF DefaultGas > 0 THEN DefaultGas ELSE EstimatedGas)

\* attempt counts from 0, as the hook of the retry does.
nextBoostedGas(attempt, previous) ==
    IF previous > 0 THEN previous + GasIncrement
    ELSE InitialGas + attempt * GasIncrement

TooLittle(t) == t.gas < NeededGas

-----------------------------------------------------------------------------
(* Operations. *)

Tries(p) == IF job[p].retry THEN OpTries ELSE 1
IsWrite(p) == job[p].kind = "write"

\* What the idempotency hash covers: the definition and the input.
ReportKey(p) == [op |-> IF job[p].kind = "maybeDeploy" THEN "deploy" ELSE job[p].kind,
                 input |-> job[p].input,
                 chain |-> IF InputHasChain THEN ChainOf[p] ELSE "any"]

Matches(p) == {i \in DOMAIN reports : reports[i].key = ReportKey(p)}

\* A nil qualifier matches every reference.
RefExists(p) == IF job[p].qualifier = "nil" THEN Existing # {}
                ELSE job[p].qualifier \in Existing

\* With a gas limit in the options there is no eth_estimateGas.
TxStage(override) == IF override > 0 \/ DefaultGas > 0 THEN "nonce" ELSE "estimate"

FirstStage(p, override) == CASE job[p].kind = "read" -> "view"
                             [] job[p].kind = "write" -> "read"
                             [] OTHER -> TxStage(override)

\* The output: a reference for a deployment, a WriteOutput for a write.
Output(p, executed) == [chain |-> ChainOf[p], executed |-> executed, by |-> p, tx |-> tx'[p]]

ExistingRef(p) == [chain |-> ChainOf[p], executed |-> TRUE, by |-> p, tx |-> NoTx]

Succeed(p, executed) ==
    /\ stage' = [stage EXCEPT ![p] = "done"]
    /\ res' = [res EXCEPT ![p] = [ok |-> TRUE, out |-> Output(p, executed)]]
    /\ reports' = Append(reports, [key |-> ReportKey(p), out |-> Output(p, executed)])
    /\ UNCHANGED <<opTry, gas, unconfirmed>>

(* An attempt fails; kind tells errors about gas from the others, sent is     *)
(* whether a node may hold its transaction without a receipt having been seen.*)
FailAttempt(p, kind, sent) ==
    /\ unconfirmed' = unconfirmed \cup (IF sent THEN {<<p, opTry[p]>>} ELSE {})
    /\ tx' = [tx EXCEPT ![p] = NoTx]
    /\ UNCHANGED <<res, reports>>
    /\ \/ /\ opTry[p] < Tries(p)
          /\ opTry' = [opTry EXCEPT ![p] = @ + 1]
          /\ gas' = [gas EXCEPT ![p] = IF kind = "gas" THEN nextBoostedGas(opTry[p] - 1, @) ELSE @]
          /\ stage' = [stage EXCEPT ![p] = FirstStage(p, gas'[p])]
       \/ /\ opTry[p] = Tries(p)
          /\ stage' = [stage EXCEPT ![p] = "done"]
          /\ UNCHANGED <<opTry, gas>>

Started(p) == stage[p] = "idle" /\ clients[ChainOf[p]] # << >>

\* MaybeDeployContract finds the contract among the existing ones.
ReturnExisting(p) ==
    /\ Started(p)
    /\ job[p].kind = "maybeDeploy" /\ RefExists(p)
    /\ stage' = [stage EXCEPT ![p] = "done"]
    /\ res' = [res EXCEPT ![p] = [ok |-> TRUE, out |-> ExistingRef(p)]]
    /\ UNCHANGED <<clients, call, job, confirmer, opTry, gas, tx, reports,
                   unconfirmed, chainVars>>

\* ExecuteOperation returns the last successful report of the same definition and input.
ReuseReport(p) ==
    /\ Started(p)
    /\ ~(job[p].kind = "maybeDeploy" /\ RefExists(p))
    /\ Matches(p) # {}
    /\ LET last == CHOOSE i \in Matches(p) : \A j \in Matches(p) : j <= i
       IN  res' = [res EXCEPT ![p] = [ok |-> TRUE, out |-> reports[last].out]]
    /\ stage' = [stage EXCEPT ![p] = "done"]
    /\ UNCHANGED <<clients, call, job, confirmer, opTry, gas, tx, reports,
                   unconfirmed, chainVars>>

Execute(p) ==
    /\ Started(p)
    /\ ~(job[p].kind = "maybeDeploy" /\ RefExists(p))
    /\ Matches(p) = {}
    /\ stage' = [stage EXCEPT ![p] = FirstStage(p, 0)]
    /\ UNCHANGED <<clients, call, job, confirmer, opTry, gas, tx, res, reports,
                   unconfirmed, chainVars>>

-----------------------------------------------------------------------------
(* The chain and its nodes. *)

\* The nonce node c answers with counts the transactions it knows.
PendingNonceAt(ch, c) ==
    CHOOSE n \in (Len(mined[ch]) + 1)..(Len(mined[ch]) + Cardinality(pool[ch][c]) + 1) :
        /\ \A t \in pool[ch][c] : t.nonce # n
        /\ \A m \in (Len(mined[ch]) + 1)..(n - 1) : \E t \in pool[ch][c] : t.nonce = m

\* A node refuses a used nonce, a known transaction and a replacement without more gas.
Accepts(ch, c, t) == /\ t.nonce > Len(mined[ch])
                     /\ \A u \in pool[ch][c] : u.nonce = t.nonce => u.gas < t.gas

Put(ch, c, t) == pool' = [pool EXCEPT ![ch][c] = {u \in @ : u.nonce # t.nonce} \cup {t}]

Gossip(ch) ==
    \E i, j \in DOMAIN clients[ch] : \E t \in pool[ch][clients[ch][i]] :
        LET d == clients[ch][j] IN
        /\ Accepts(ch, d, t)
        /\ Put(ch, d, t)
        /\ UNCHANGED <<clients, call, job, confirmer, opVars, mined>>

Outcomes(t) == {"ok", "reverted"} \cup (IF TooLittle(t) THEN {"outOfGas"} ELSE {})

Mine(ch) ==
    \E c \in 1..NumRPCs : \E t \in pool[ch][c] : \E outcome \in Outcomes(t) :
        /\ t.nonce = Len(mined[ch]) + 1
        /\ mined' = [mined EXCEPT ![ch] = Append(@, [tx |-> t, outcome |-> outcome])]
        /\ pool' = [pool EXCEPT ![ch] = [d \in 1..NumRPCs |-> {u \in @[d] : u.nonce > t.nonce}]]
        /\ UNCHANGED <<clients, call, job, confirmer, opVars>>

-----------------------------------------------------------------------------
(* The steps of an operation. *)

BeginCall(p) ==
    /\ stage[p] \in RPCStages
    /\ Begin(p, stage[p])
    /\ UNCHANGED <<job, confirmer, opVars, chainVars>>

InCall(p, op) == stage[p] = op /\ call[p].op = op

\* One attempt failed without an effect; it is not the last one of the call.
AttemptFails(p) ==
    /\ TryAgain(p)
    /\ UNCHANGED <<job, confirmer, opVars, chainVars>>

\* Another transaction takes the nonce, and this one does not offer more gas.
Underpriced(p) == \E u \in pool[ChainOf[p]][Current(p)] :
                      u # tx[p] /\ u.nonce = tx[p].nonce /\ u.gas >= tx[p].gas

\* The error of the last attempt decides whether the operation's error is about gas;
\* a replacement that is underpriced counts as such.
ErrorKinds(p) ==
    {"other"} \cup (IF \/ InCall(p, "send") /\ (TooLittle(tx[p]) \/ Underpriced(p))
                       \/ InCall(p, "estimate") /\ EstimatedGas < NeededGas
                    THEN {"gas"} ELSE {})

CallFails(p) ==
    /\ AllFailed(p)
    /\ \E kind \in ErrorKinds(p) : FailAttempt(p, kind, stage[p] = "send")
    /\ UNCHANGED <<job, confirmer, chainVars>>

(* RetryContractCall: after an empty answer (the node does not know the       *)
(* contract yet) the node is asked again, until the deadline has passed.      *)
ReadNothing(p) ==
    /\ InCall(p, "read")
    /\ Answered(p)
    /\ UNCHANGED <<job, confirmer, opVars, chainVars>>

ReadTimesOut(p) ==
    /\ stage[p] = "read" /\ call[p] = NoCall
    /\ FailAttempt(p, "other", FALSE)
    /\ UNCHANGED <<clients, call, job, confirmer, chainVars>>

\* A caller that is not allowed prepares the transaction with simulated options.
ReadOwner(p) ==
    /\ InCall(p, "read")
    /\ Answered(p)
    /\ stage' = [stage EXCEPT ![p] = IF job[p].allowed THEN TxStage(gas[p]) ELSE "nonce"]
    /\ UNCHANGED <<job, confirmer, opTry, gas, tx, res, reports, unconfirmed, chainVars>>

\* NewRead has no such loop: what the node answers is the output, or an error.
ReadContract(p) ==
    /\ InCall(p, "view")
    /\ Answered(p)
    /\ UNCHANGED tx /\ Succeed(p, FALSE)
    /\ UNCHANGED <<job, confirmer, chainVars>>

EstimateGas(p) ==
    /\ InCall(p, "estimate")
    /\ Answered(p)
    /\ stage' = [stage EXCEPT ![p] = "nonce"]
    /\ UNCHANGED <<job, confirmer, opTry, gas, tx, res, reports, unconfirmed, chainVars>>

Sends(p) == ~IsWrite(p) \/ job[p].allowed

SignTransaction(p) ==
    /\ InCall(p, "nonce")
    /\ tx' = [tx EXCEPT ![p] = [att |-> opTry[p], by |-> p, gas |-> TransactGas(gas[p]),
                                nonce |-> PendingNonceAt(ChainOf[p], Current(p))]]
    /\ Answered(p)
    /\ IF Sends(p)
       THEN /\ stage' = [stage EXCEPT ![p] = "send"]
            /\ UNCHANGED <<opTry, gas, res, reports, unconfirmed>>
       ELSE Succeed(p, FALSE)
    /\ UNCHANGED <<job, confirmer, chainVars>>

\* A transaction whose answer was lost is signed anew, with the next nonce.
SendTransactionResigns(p) ==
    /\ InCall(p, "send")
    /\ Accepts(ChainOf[p], Current(p), tx[p])
    /\ Put(ChainOf[p], Current(p), tx[p])
    /\ \/ /\ Answered(p)
          /\ stage' = [stage EXCEPT ![p] = "confirm"]
          /\ UNCHANGED <<opTry, gas, tx, res, reports, unconfirmed>>
       \/ /\ TryAgain(p)
          /\ tx' = [tx EXCEPT ![p].nonce = @ + 1]
          /\ UNCHANGED <<stage, opTry, gas, res, reports, unconfirmed>>
    /\ UNCHANGED <<job, confirmer, mined>>

SendTransaction(p) ==
    /\ InCall(p, "send")
    /\ Accepts(ChainOf[p], Current(p), tx[p])
    /\ Put(ChainOf[p], Current(p), tx[p])
    /\ \/ /\ Answered(p)
          /\ stage' = [stage EXCEPT ![p] = "confirm"]
          /\ UNCHANGED <<opTry, gas, tx, res, reports, unconfirmed>>
       \* the node took the transaction, but its answer is lost
       \/ TryAgain(p) /\ UNCHANGED opVars
       \/ AllFailed(p) /\ FailAttempt(p, "other", TRUE)
    /\ UNCHANGED <<job, confirmer, mined>>

Receipt(p, outcome) ==
    \E i \in DOMAIN mined[ChainOf[p]] :
        mined[ChainOf[p]][i] = [tx |-> tx[p], outcome |-> outcome]

\* The reason of a revert is asked for once more; without data in the node's error
\* its text is lost, so an error about gas is not always known as one.
Confirm(p) ==
    /\ stage[p] = "confirm" /\ confirmer = "geth"
    /\ \/ Receipt(p, "ok") /\ UNCHANGED tx /\ Succeed(p, TRUE)
       \/ Receipt(p, "reverted") /\ FailAttempt(p, "other", FALSE)
       \/ \E kind \in {"gas", "other"} : Receipt(p, "outOfGas") /\ FailAttempt(p, kind, FALSE)
    /\ UNCHANGED <<clients, call, job, confirmer, chainVars>>

\* After WaitMined, seth decodes the transaction.  The status of the receipt is not
\* looked at: unless the decoding (external) fails, a revert is a success too.
ConfirmSeth(p) ==
    /\ stage[p] = "confirm" /\ confirmer = "seth"
    /\ \E outcome \in {"ok", "reverted", "outOfGas"} :
          /\ Receipt(p, outcome)
          /\ \/ UNCHANGED tx /\ Succeed(p, TRUE)
             \/ FailAttempt(p, "other", outcome = "ok")
    /\ UNCHANGED <<clients, call, job, confirmer, chainVars>>

\* WaitMined without the case of the context.
ConfirmNeverExpires(p) == FALSE /\ UNCHANGED vars

\* The wait ends with its context: nobody waits for the transaction any longer.
ConfirmExpires(p) ==
    /\ stage[p] = "confirm"
    /\ FailAttempt(p, "other", TRUE)
    /\ UNCHANGED <<clients, call, job, confirmer, chainVars>>

OpStep(p) ==
    \/ ReturnExisting(p) \/ ReuseReport(p) \/ Execute(p)
    \/ BeginCall(p) \/ AttemptFails(p) \/ CallFails(p)
    \/ ReadNothing(p) \/ ReadTimesOut(p) \/ ReadOwner(p)
    \/ ReadContract(p) \/ EstimateGas(p)
    \/ SignTransaction(p) \/ SendTransaction(p)
    \/ Confirm(p) \/ ConfirmSeth(p) \/ ConfirmExpires(p)

Finished == \A p \in Callers : stage[p] = "done" \/ clients[ChainOf[p]] = << >>

Next ==
    \/ \E p \in Callers : OpStep(p)
    \/ \E ch \in Chains : Gossip(ch) \/ Mine(ch)
    \/ Finished /\ UNCHANGED vars

Spec == Init /\ [][Next]_vars

(* The goroutines run, and the deadline of RetryContractCall passes.  Nothing *)
(* is assumed of the chain: a transaction may stay unmined and a node may     *)
(* fail for ever.                                                             *)
Fairness == \A p \in Callers : WF_vars(OpStep(p)) /\ SF_vars(ReadTimesOut(p))

FairSpec == Spec /\ Fairness

-----------------------------------------------------------------------------
(* Batches for a proposal. *)

Results == {p \in Callers : res[p].ok}

(* NewBatchOperationFromWrites: the writes that were not executed, if they    *)
(* are all for one chain.                                                     *)
Prepared(outs) == {out \in outs : ~out.executed}

NewBatchOperationFromWrites(outs) ==
    IF Cardinality({out.chain : out \in Prepared(outs)}) > 1
    THEN [ok |-> FALSE, writes |-> {}]
    ELSE [ok |-> TRUE, writes |-> Prepared(outs)]

-----------------------------------------------------------------------------
(* Properties. *)

Txs == [att : 1..OpTries, by : Callers, gas : Nat, nonce : Nat \ {0}]

TypeOK ==
    /\ ClientTypeOK
    /\ stage \in [Callers -> RPCStages \cup {"idle", "confirm", "done"}]
    /\ opTry \in [Callers -> 1..OpTries]
    /\ gas \in [Callers -> Nat]
    /\ \A p \in Callers : tx[p] \in Txs \cup {NoTx}
    /\ \A p \in Callers : stage[p] \in {"send", "confirm"} => tx[p] \in Txs
    /\ \A ch \in Chains, c \in 1..NumRPCs : pool[ch][c] \subseteq Txs
    /\ \A ch \in Chains : \A i \in DOMAIN mined[ch] : mined[ch][i].tx.nonce = i

\* What a confirmation stands for: with seth only that the transaction is mined.
MinedOk(ch, t) == \E i \in DOMAIN mined[ch] :
                      /\ mined[ch][i].tx = t
                      /\ confirmer = "geth" => mined[ch][i].outcome = "ok"

(* An operation that reports an executed transaction: that transaction is     *)
(* mined and, confirmed by geth's functor, was not reverted, although the     *)
(* receipt may come from any node, late, or after other attempts of the same  *)
(* operation.                                                                 *)
ConfirmedMined ==
    \A p \in Results : LET out == res[p].out
                       IN  (out.executed /\ out.tx # NoTx) => MinedOk(out.chain, out.tx)

(* A transaction takes effect besides the one an operation reports only if    *)
(* its attempt failed without having seen the receipt: a lost answer of       *)
(* SendTransaction, an expired wait, a transaction seth could not decode.  In *)
(* particular an attempt that is sent to many nodes takes effect once.        *)
RepeatedOnlyUnconfirmed ==
    \A ch \in Chains : \A i \in DOMAIN mined[ch] :
        LET t == mined[ch][i].tx
        IN  mined[ch][i].outcome = "ok"
            => \/ res[t.by].ok /\ res[t.by].out.tx = t
               \/ tx[t.by] = t
               \/ <<t.by, t.att>> \in unconfirmed

\* What the writes that succeeded returned, and the transactions any node ever got.
WriteOutputs == {res[p].out : p \in {q \in Results : IsWrite(q)}}
SentTo(ch) == (UNION {pool[ch][c] : c \in 1..NumRPCs})
                  \cup {mined[ch][i].tx : i \in DOMAIN mined[ch]}
SentTxs == UNION {SentTo(ch) : ch \in Chains}

(* Every write that succeeded is either executed or left for the proposal,    *)
(* never both: the batch holds the writes whose transaction no node ever got. *)
WritesOnce ==
    LET batch == NewBatchOperationFromWrites(WriteOutputs)
    IN  batch.ok
        => /\ \A out \in batch.writes : out.tx \notin SentTxs
           /\ \A out \in WriteOutputs \ batch.writes : MinedOk(out.chain, out.tx)

(* What operations report about the chain is so: a confirmed transaction   *)
(* was mined and, by geth's functor, not reverted, another attempt takes   *)
(* effect beside it only if it could not be confirmed, and a write is      *)
(* executed or left for the proposal, never both.                          *)
EffectsSound ==
  /\ TypeOK
  /\ ConfirmedMined
  /\ RepeatedOnlyUnconfirmed
  /\ WritesOnce

\* RetryWithGasBoost: "increases gas on EVM retries".
GasIncreases ==
    [][\A p \in Callers : gas'[p] # gas[p] => TransactGas(gas'[p]) > TransactGas(gas[p])]_vars

(* What a step of an operation may do to the clients and to its gas:       *)
(* reordering loses no client and puts the ones that failed last, and a    *)
(* retry offers more gas.                                                  *)
OperationSteps == ClientsKept /\ AnsweredFirst /\ GasIncreases

(* Every operation ends although nodes may fail for ever and transactions may *)
(* never be mined: its waits are bounded by deadlines.                        *)
Terminates == \A p \in Callers :
                  (clients[ChainOf[p]] # << >>) ~> (stage[p] = "done")
=============================================================================

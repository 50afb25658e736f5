----------------------------- MODULE TxConfirm ------------------------------
(***************************************************************************)
(* Sending a transaction and confirming it, in the clients the chain       *)
(* providers build: SendAndConfirmTx of the Solana and Tron clients, the   *)
(* Tron deploy and trigger helpers on top of it, and the Confirm closures  *)
(* of the Aptos, simulated EVM and zkSync providers (the EVM confirm       *)
(* functors are in EvmContracts).  The network decides, on its own,        *)
(* whether and when the transaction is executed and how.                   *)
(***************************************************************************)
EXTENDS Naturals

CONSTANTS SendAttempts,    \* RetryAttempts: 1 for the Solana RPC provider, 500 for CTF
          ConfirmAttempts  \* polls before a confirmation gives up

ASSUME ConfirmAssumption == SendAttempts \in Nat \ {0} /\ ConfirmAttempts \in Nat \ {0}

VARIABLES client, \* which client (never changes)
          net,    \* the transaction: "unsent", "pending", "ok", "reverted" or "dropped"
          deep,   \* the execution is confirmed by the network (Solana commitment)
          cpc,    \* what the client does next
          ctry,   \* attempts made in the current retry loop
          out     \* what it answered: "none", "ok", "error", or "empty": success too, but
                 \* on a result that says nothing

txVars == <<client, net, deep, cpc, ctry, out>>

Clients == {"solana", "tron", "tronDeploy", "tronTrigger", "aptos", "sim", "zksync"}
Sends(c) == c \in {"solana", "tron", "tronDeploy", "tronTrigger"}
Executed == net \in {"ok", "reverted"}

Answer(r) == cpc' = "done" /\ out' = r /\ UNCHANGED ctry
Next1(l) == cpc' = l /\ ctry' = 0 /\ UNCHANGED out
Again(n) == IF ctry + 1 < n THEN ctry' = ctry + 1 /\ UNCHANGED <<cpc, out>>
            ELSE Answer("error")

(***************************************************************************)
(* The network.                                                            *)
(***************************************************************************)
Executes ==
  /\ net = "pending"
  /\ net' \in {"ok", "reverted", "dropped"}
  /\ UNCHANGED <<client, deep, cpc, ctry, out>>

Deepens ==
  /\ Executed /\ ~deep /\ deep' = TRUE
  /\ UNCHANGED <<client, net, cpc, ctry, out>>

\* The Solana client fetches a blockhash with retries, then builds and signs.
PrepareSolana ==
  /\ client = "solana" /\ cpc = "prepare"
  /\ Next1("send") \/ Again(SendAttempts)
  /\ UNCHANGED <<client, net, deep>>

\* The Tron helpers create the transaction (triggering checks first that the
\* contract is deployed) and sign it.
PrepareTron ==
  /\ client # "solana" /\ cpc = "prepare"
  /\ Next1("send") \/ Answer("error")
  /\ UNCHANGED <<client, net, deep>>

\* The node accepts the transaction (again, when an answer was lost before).
SendOk ==
  /\ cpc = "send"
  /\ net' = IF net = "unsent" THEN "pending" ELSE net
  /\ Next1("confirm")
  /\ UNCHANGED <<client, deep>>

\* The answer is an RPC error: the Solana client retries "Blockhash not found"
\* and nothing else; a repeated transaction that was executed is refused too.
SendRefused ==
  /\ cpc = "send"
  /\ \/ Answer("error")
     \/ client = "solana" /\ net = "unsent" /\ Again(SendAttempts)
  /\ UNCHANGED <<client, net, deep>>

\* No answer, although the node may have taken the transaction: Solana sends
\* the same signed transaction again, Tron reports an error.
SendLost ==
  /\ cpc = "send"
  /\ net' \in IF net = "unsent" THEN {"unsent", "pending"} ELSE {net}
  /\ IF client = "solana" THEN Again(SendAttempts) ELSE Answer("error")
  /\ UNCHANGED <<client, deep>>

(***************************************************************************)
(* Confirming.                                                             *)
(***************************************************************************)
\* confirmTx of the Solana client: only a failed query is retried; whatever
\* status the first answered query has, the loop ends.
SolanaStatus ==
  /\ client = "solana" /\ cpc = "confirm"
  /\ Next1("fetch")
  /\ UNCHANGED <<client, net, deep>>

\* Polling clients: Tron retries an unknown transaction and an undecided
\* result, the others wait inside WaitMined or WaitForTransaction.
NotYet ==
  /\ cpc = "confirm"
  /\ client = "solana" \/ ~Executed
  /\ Again(ConfirmAttempts)
  /\ UNCHANGED <<client, net, deep>>

\* getTransactionResult at commitment confirmed.
SolanaFetch ==
  /\ client = "solana" /\ cpc = "fetch"
  /\ (Executed /\ deep /\ Answer("ok")) \/ Again(SendAttempts)
  /\ UNCHANGED <<client, net, deep>>

\* The client sees the outcome; the zkSync provider returns the receipt's
\* status as if it were a block number.
SeesOk ==
  /\ cpc = "confirm" /\ client # "solana" /\ net = "ok"
  /\ IF client = "tronDeploy" THEN Next1("check") ELSE Answer("ok")
  /\ UNCHANGED <<client, net, deep>>

\* Tron's confirmTx takes an empty result for success; which transactions the
\* node answers so, at what stage, is the node's business.
SeesEmpty ==
  /\ cpc = "confirm" /\ client \in {"tron", "tronDeploy", "tronTrigger"}
  /\ IF client = "tronDeploy" THEN Next1("check") ELSE Answer("empty")
  /\ UNCHANGED <<client, net, deep>>

SeesRevert ==
  /\ cpc = "confirm" /\ client # "solana" /\ net = "reverted"
  /\ Answer(IF client = "zksync" THEN "ok" ELSE "error")
  /\ UNCHANGED <<client, net, deep>>

\* The Tron deploy helper parses the address and checks that code is there.
CheckDeployed ==
  /\ cpc = "check"
  /\ (net = "ok" /\ Answer("ok")) \/ Answer("error")
  /\ UNCHANGED <<client, net, deep>>

\* sim: Confirm commits a block itself before it waits.
SimCommit ==
  /\ client = "sim" /\ cpc = "confirm" /\ net = "pending"
  /\ net' \in {"ok", "reverted"}
  /\ UNCHANGED <<client, deep, cpc, ctry, out>>

TxInit ==
  /\ client \in Clients
  /\ net = (IF Sends(client) THEN "unsent" ELSE "pending")
  /\ cpc = (IF Sends(client) THEN "prepare" ELSE "confirm")
  /\ deep = FALSE /\ ctry = 0 /\ out = "none"

ClientStep ==
  \/ PrepareSolana \/ PrepareTron \/ SendOk \/ SendRefused \/ SendLost \/ SolanaStatus \/ NotYet
  \/ SolanaFetch \/ SeesOk \/ SeesEmpty \/ SeesRevert \/ CheckDeployed \/ SimCommit

TxNext == ClientStep \/ Executes \/ Deepens

TxSpec == TxInit /\ [][TxNext]_txVars

\* A success answer stands for a transaction that was executed and did not
\* fail.  (The Solana client does not look at the error in the result it
\* fetches, and the zkSync provider ignores the receipt's status: for them
\* it only stands for an executed transaction; an empty result of Tron stands
\* for one that the node took, unless a contract was to be deployed, whose code
\* the client then looks for.)
SuccessMeansExecuted ==
  /\ out = "ok" => net = "ok" \/ (net = "reverted" /\ client \in {"solana", "zksync"})
  /\ out = "empty" => net # "unsent" /\ client \in {"tron", "tronTrigger"}

\* Every call is answered, whatever the network does: the retries are bounded
\* and the waits inside WaitMined and WaitForTransaction time out.
Answered == (cpc # "done") ~> (out # "none")
=============================================================================

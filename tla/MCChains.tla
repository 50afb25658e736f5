------------------------------ MODULE MCChains ------------------------------
(***************************************************************************)
(* Loading chains with two providers and three ports (a provider that      *)
(* needs two can find the pool exhausted by the other), and, from other    *)
(* initial states, one transaction sent and confirmed by any client.       *)
(***************************************************************************)
EXTENDS ChainLoading, TxConfirm

\* Everything from keys, a KMS key and no Solana programs, nothing but parts.
MCKeySets ==
  { {"evm", "tron", "programs", "wallet", "aptos", "sui", "stellar", "ton", "jwt"},
    {"kms id", "kms region", "wallet", "aptos", "ton", "auth url", "client id", "client secret"},
    {"kms id", "programs", "sui", "stellar", "auth url", "client id"},
    {"evm", "auth strategy", "auth url", "client id"} }

UsesPool(s) == /\ ~Configured(s)
               /\ \E i \in DOMAIN Plan(kind[s]) : Plan(kind[s])[i].op = "start"

\* Any provider is tried, beside one that needs two ports if it takes
\* ports itself (direct callers), beside one that ends its goroutine or one that
\* returns an error (tests), or beside the EVM one (Load); the Job Distributor
\* is loaded after the chains, so one pair of families is enough to vary its
\* configuration.
Loads ==
  /\ LoadInit
  /\ mode = "direct" => kind[2] = IF UsesPool(1) THEN "suiCTF" ELSE "evmSim"
  /\ mode = "test" => kind[2] \in {"suiCTF", "tonCTF"}
  /\ mode = "env" => kind[2] = "evmLoad" /\ (jdcfg = "without" \/ kind[1] = "cantonLoad")

NoLoad ==
  /\ mode = "none" /\ keys = {} /\ kind = [s \in Slots |-> "evmSim"]
  /\ conf = [s \in Slots |-> [port |-> FALSE, t |-> "test"]]
  /\ family = [s \in Slots |-> "ok"] /\ jdcfg = "without"
  /\ ProvInit
  /\ pc = "ready" /\ gor = [s \in Slots |-> "none"] /\ result = [s \in Slots |-> "none"]
  /\ loaded = {} /\ jd = "nil" /\ sent = 0

NoTx ==
  /\ client = "sim" /\ net = "unsent" /\ deep = FALSE /\ cpc = "done" /\ ctry = 0
  /\ out = "none"

MCSpec ==
  /\ (Loads /\ NoTx) \/ (TxInit /\ NoLoad)
  /\ [][(LoadNext /\ UNCHANGED txVars) \/ (TxNext /\ UNCHANGED loadingVars)]_<<loadingVars, txVars>>
  /\ WF_<<loadingVars, txVars>>(\/ Progress /\ UNCHANGED txVars
                                \/ ClientStep /\ UNCHANGED loadingVars)

(* What is handed out is so: a chain that is returned, an environment that   *)
(* is loaded and a transaction reported as successful are complete, whichever *)
(* calls failed before.                                                       *)
AnswersSound == ReturnedComplete /\ EnvironmentComplete /\ SuccessMeansExecuted

(* Every load and every transaction comes to an end, whatever the goroutines  *)
(* it waits for and the network do.                                           *)
AllEnd == LoadReturns /\ Answered
=============================================================================

--------------------------- MODULE ChainProviders ---------------------------
(***************************************************************************)
(* The chain providers of src/chain/*/provider: objects whose Initialize   *)
(* builds a chain once and caches it.  The RPC providers only open         *)
(* connections; the CTF providers start a container on ports taken from    *)
(* the process wide freeport pool, in a retry loop, and fail either by     *)
(* returning an error or by ending the test's goroutine (t.FailNow).       *)
(*                                                                         *)
(* Initialize of each provider is a plan, a sequence of phases read off    *)
(* its body; the actions below run any plan.  Checks that follow each      *)
(* other and fail in the same way are one phase.                           *)
(***************************************************************************)
EXTENDS Naturals, FiniteSets, Sequences

CONSTANTS Slots,        \* the providers at work, each with its own selector
          Ports,        \* the pool of free ports
          MaxAttempts,  \* container starts tried by one Initialize (10 in the code)
          MaxCalls      \* bound: Initialize calls made on one provider

\* The port of a configuration that names one: a caller picks it outside the
\* range freeport hands out.
ConfigPort == 9

ASSUME ProvidersAssumption ==
  /\ Ports \subseteq Nat /\ IsFiniteSet(Ports) /\ ConfigPort \notin Ports
  /\ MaxAttempts \in Nat \ {0} /\ MaxCalls \in Nat \ {0}

VARIABLES kind,       \* slot -> which provider it holds (never changes)
          conf,       \* slot -> [port, t]: a port is configured; T is "none", that of a
                      \* running "test", or a "zero" T, whose cleanups nobody runs
          step,       \* slot -> phase of Initialize being run, 0 outside
          stage,      \* slot -> how far the current container attempt got
          tries,      \* slot -> container attempts made by this call
          taken,      \* slot -> ports the current attempt took
          chain,      \* slot -> p.chain: "nil", "part" or "full"
          answer,     \* slot -> what the last call ended with
          calls,      \* slot -> calls of Initialize made
          handle,     \* slot -> p.Container as the number of its container, 0 = nil
          free,       \* ports in the pool
          containers, \* running containers: [slot, n, ports, cleanup]
          spent,      \* ports nobody uses or returns any more
          failed,     \* a T was marked as failed
          cancelled   \* the context was cancelled

provVars == <<kind, conf, step, stage, tries, taken, chain, answer, calls,
              handle, free, containers, spent, failed, cancelled>>

(***************************************************************************)
(* Phases.  mode says how the phase fails: "error" returns an error,       *)
(* "fatal" fails the test and ends the goroutine, "on" goes on regardless. *)
(***************************************************************************)
Check(mode, what) == [op |-> "check", mode |-> mode, node |-> FALSE, what |-> what]

\* Checks that talk to the node, which cannot succeed without a container.
Node(mode, what) == [op |-> "check", mode |-> mode, node |-> TRUE, what |-> what]

\* n ports; once: no retry; wild: the container is never registered for cleanup;
\* health: the node is checked inside the attempt and the container kept as
\* p.Container; ctx: cancelling the caller's context ends the loop.
Start(mode, n, flags) ==
  [op |-> "start", mode |-> mode, n |-> n, once |-> "once" \in flags,
   wild |-> "wild" \in flags, health |-> "health" \in flags, ctx |-> "ctx" \in flags]

Publish(c) == [op |-> "publish", chain |-> c]

AptosRPC   == << Check("error", {"config", "signer", "chain id", "client"}), Publish("full") >>
SuiRPC     == << Check("error", {"config", "signer", "chain id", "logger", "client"}), Publish("full") >>
TonRPC     == << Check("error", {"config", "liteserver", "masterchain", "signer", "wallet"}), Publish("full") >>
TronRPC    == << Check("error", {"config", "urls", "client", "address"}), Publish("full") >>
StellarRPC == << Check("error", {"config", "signer"}), Publish("full") >>
SolanaRPC  == << Check("error", {"config", "signer", "keypair file"}), Publish("full") >>
EvmRPC     == << Check("error", {"logger", "config", "chain id", "signer", "users", "client", "gas",
                                 "confirm"}), Publish("full") >>
ZkSyncRPC  == << Check("error", {"logger", "config", "chain id", "signer", "client", "gas", "confirm",
                                 "zk signer", "zk wallet"}), Publish("full") >>
\* p.chain is set before the participants are connected.
CantonRPC  == << Check("error", {"config"}), Publish("part"),
                 Check("error", {"ledger api", "admin api"}), Publish("full") >>

\* The CTF providers: startContainer, then Initialize around it.
\* Aptos: when every attempt failed, the loop is left with an empty URL.
AptosStart == << Check("fatal", {"network"}), Start("on", 2, {}),
                 Node("fatal", {"client", "ready", "docker", "fund"}) >>
AptosCTF   == << Check("error", {"config", "signer", "chain id"}) >> \o AptosStart \o << Publish("full") >>

SuiStart   == << Check("fatal", {"network", "address"}), Start("fatal", 2, {}),
                 Node("fatal", {"logger", "client", "fund"}) >>
SuiCTF     == << Check("error", {"config", "signer", "chain id"}) >> \o SuiStart \o << Publish("full") >>

TonStart   == << Check("error", {"network"}), Start("error", 1, {"ctx"}),
                 Node("error", {"liteserver", "masterchain"}) >>
TonCTF     == << Check("error", {"config", "chain id"}) >> \o TonStart
              \o << Check("error", {"wallet"}), Publish("full") >>

TronStart  == << Check("fatal", {"network"}), Start("fatal", 1, {}), Node("fatal", {"client", "ready"}) >>
TronCTF    == << Check("error", {"config", "chain id"}) >> \o TronStart
              \o << Check("error", {"urls", "client", "address"}), Publish("full") >>

StellarStart == << Check("error", {"network"}), Start("error", 1, {"ctx"}), Node("error", {"health"}) >>
StellarCTF == << Check("error", {"config", "chain id", "signer"}) >> \o StellarStart \o << Publish("full") >>

SolanaStart == << Check("fatal", {"network"}), Start("fatal", 2, {}), Node("fatal", {"health"}) >>
SolanaCTF  == << Check("error", {"config", "chain id", "signer", "keypair file"}) >> \o SolanaStart
              \o << Publish("full") >>

ZkSyncStart == << Check("fatal", {"network"}), Start("fatal", 1, {}) >>
ZkSyncCTF  == << Check("fatal", {"config", "chain id"}) >> \o ZkSyncStart
              \o << Node("fatal", {"dial", "gas price", "keys", "wallet"}), Publish("full") >>

\* No container at all: the simulated backend lives in the process.
EvmSim     == << Check("fatal", {"keys", "backend"}), Publish("full") >>

\* The only CTF provider without a retry loop, and the only one whose
\* container is not registered for cleanup.
CantonCTF  == << Check("error", {"config", "network"}), Start("error", 1, {"once", "wild"}),
                 Node("fatal", {"health"}), Publish("part"),
                 Node("error", {"ledger api", "admin api", "user", "party"}), Publish("full") >>

AnvilStart == << Check("error", {"network"}), Start("error", 1, {"health", "ctx"}) >>
Anvil      == << Check("error", {"config", "chain"}) >> \o AnvilStart
              \o << Node("error", {"chain id", "signer", "logger", "client", "gas", "users", "confirm"}),
                    Publish("full") >>

GethStart  == << Check("error", {"network"}), Start("error", 1, {"health", "ctx"}) >>
Geth       == << Check("error", {"config", "chain"}) >> \o GethStart
              \o << Node("error", {"logger", "client", "chain id", "signer", "gas", "users", "fund users",
                                   "confirm"}), Publish("full") >>

\* The loaders of engine/cld/chains: the network and what the provider's
\* configuration is made of, then a new RPC provider.
AptosLoad   == << Check("error", {"network"}) >> \o AptosRPC
SuiLoad     == << Check("error", {"network"}) >> \o SuiRPC
StellarLoad == << Check("error", {"network", "rpc url", "metadata"}) >> \o StellarRPC
SolanaLoad  == << Check("error", {"network", "programs path"}) >> \o SolanaRPC
TonLoad     == << Check("error", {"network"}) >> \o TonRPC
EvmLoad     == << Check("error", {"network", "url scheme", "signer generator"}) >> \o EvmRPC
ZkSyncLoad  == << Check("error", {"network", "url scheme", "signer generator", "zk signer generator"}) >>
               \o ZkSyncRPC
TronLoad    == << Check("error", {"network", "signer generator"}) >> \o TronRPC
CantonLoad  == << Check("error", {"network", "metadata", "participants", "auth provider"}) >> \o CantonRPC

\* Initialize of each provider.
Plan(k) ==
  CASE k = "aptosRPC" -> AptosRPC [] k = "suiRPC" -> SuiRPC
    [] k = "tonRPC" -> TonRPC [] k = "tronRPC" -> TronRPC
    [] k = "stellarRPC" -> StellarRPC [] k = "solanaRPC" -> SolanaRPC
    [] k = "evmRPC" -> EvmRPC [] k = "zksyncRPC" -> ZkSyncRPC
    [] k = "cantonRPC" -> CantonRPC [] k = "aptosCTF" -> AptosCTF
    [] k = "suiCTF" -> SuiCTF [] k = "tonCTF" -> TonCTF
    [] k = "tronCTF" -> TronCTF [] k = "stellarCTF" -> StellarCTF
    [] k = "solanaCTF" -> SolanaCTF [] k = "zksyncCTF" -> ZkSyncCTF
    [] k = "evmSim" -> EvmSim [] k = "cantonCTF" -> CantonCTF
    [] k = "anvil" -> Anvil [] k = "geth" -> Geth
    [] k = "aptosLoad" -> AptosLoad [] k = "suiLoad" -> SuiLoad
    [] k = "stellarLoad" -> StellarLoad [] k = "solanaLoad" -> SolanaLoad
    [] k = "tonLoad" -> TonLoad [] k = "evmLoad" -> EvmLoad
    [] k = "zksyncLoad" -> ZkSyncLoad [] k = "tronLoad" -> TronLoad
    [] k = "cantonLoad" -> CantonLoad

Providers == {"aptosRPC", "suiRPC", "tonRPC", "tronRPC", "stellarRPC", "solanaRPC",
              "evmRPC", "zksyncRPC", "cantonRPC", "aptosCTF", "suiCTF", "tonCTF",
              "tronCTF", "stellarCTF", "solanaCTF", "zksyncCTF", "evmSim", "cantonCTF",
              "anvil", "geth"}
LoadKinds == {"aptosLoad", "suiLoad", "stellarLoad", "solanaLoad", "tonLoad", "evmLoad",
              "zksyncLoad", "tronLoad", "cantonLoad"}
\* A port can be configured for these; T is optional for the first two.
PortKinds == {"anvil", "geth", "tonCTF", "stellarCTF"}

Phase(s) == Plan(kind[s])[step[s]]
At(s, op) == step[s] > 0 /\ Phase(s).op = op

Running(s) == \E c \in containers : c.slot = s
UsedPorts == UNION {c.ports : c \in containers}

Configured(s) == kind[s] \in PortKinds /\ conf[s].port
AttemptPorts(s) == IF Configured(s) THEN {ConfigPort} ELSE taken[s]

\* CTFAnvilChainProviderConfig.validate and its Geth twin: no port and no T.
ConfigValid(s) == kind[s] \in {"anvil", "geth"} => conf[s].port \/ conf[s].t # "none"

\* How the configurations of a provider may be combined.
Confs(k) == IF k \in {"anvil", "geth"} THEN [port : BOOLEAN, t : {"none", "test", "zero"}]
            ELSE IF k \in PortKinds THEN [port : BOOLEAN, t : {"test"}]
            ELSE {[port |-> FALSE, t |-> "test"]}

(***************************************************************************)
(* The steps of Initialize.                                                *)
(***************************************************************************)
Fail(s, mode) ==
  /\ step' = [step EXCEPT ![s] = 0]
  /\ stage' = [stage EXCEPT ![s] = "idle"]
  /\ answer' = [answer EXCEPT ![s] = IF mode = "fatal" THEN "exit" ELSE "error"]
  /\ failed' = (failed \/ mode = "fatal")

Advance(s) ==
  /\ step' = [step EXCEPT ![s] = @ + 1]
  /\ stage' = [stage EXCEPT ![s] = "idle"]
  /\ UNCHANGED <<answer, failed>>

\* Initialize is called; a provider that has a chain returns it at once.
Initialize(s) ==
  /\ step[s] = 0 /\ answer[s] # "exit" /\ calls[s] < MaxCalls
  /\ calls' = [calls EXCEPT ![s] = @ + 1]
  /\ tries' = [tries EXCEPT ![s] = 0]
  /\ step' = [step EXCEPT ![s] = IF chain[s] = "nil" THEN 1 ELSE 0]
  /\ answer' = [answer EXCEPT ![s] = IF chain[s] = "nil" THEN "none" ELSE "chain"]
  /\ UNCHANGED <<kind, conf, stage, taken, chain, handle, free, containers, spent, failed, cancelled>>

CheckPasses(s) ==
  /\ At(s, "check")
  /\ Phase(s).node => Running(s)
  /\ step[s] = 1 => ConfigValid(s)
  /\ Advance(s)
  /\ UNCHANGED <<kind, conf, tries, taken, chain, calls, handle, free, containers, spent, cancelled>>

CheckFails(s) ==
  /\ At(s, "check")
  /\ Fail(s, Phase(s).mode)
  /\ UNCHANGED <<kind, conf, tries, taken, chain, calls, handle, free, containers, spent, cancelled>>

\* The ports are interchangeable, so the lowest ones stand for any.
Lowest(n) == CHOOSE P \in SUBSET free :
               Cardinality(P) = n /\ \A p \in P, q \in free \ P : p < q

\* The pool has too few ports for the attempt that begins: freeport waits until
\* some are returned, and fails the test when it finds that there never will be.
\* Which of the two is its business, so the failure below may never come.
Waits(s) == At(s, "start") /\ stage[s] = "idle" /\ ~Configured(s) /\ Cardinality(free) < Phase(s).n

\* The attempt begins: the configured port, or ports from the pool.
TakePorts(s) ==
  /\ At(s, "start") /\ stage[s] = "idle"
  /\ tries' = [tries EXCEPT ![s] = @ + 1]
  /\ IF Waits(s)
     THEN Fail(s, "fatal") /\ UNCHANGED <<free, taken>>
     ELSE /\ taken' = [taken EXCEPT ![s] = IF Configured(s) THEN {} ELSE Lowest(Phase(s).n)]
          /\ free' = free \ taken'[s]
          /\ stage' = [stage EXCEPT ![s] = "begun"]
          /\ UNCHANGED <<step, answer, failed>>
  /\ UNCHANGED <<kind, conf, chain, calls, handle, containers, spent, cancelled>>

\* The attempt failed: another one, or what follows the retry loop.
Retry(s) ==
  IF tries[s] < MaxAttempts /\ ~Phase(s).once /\ ~(Phase(s).ctx /\ cancelled)
  THEN stage' = [stage EXCEPT ![s] = "idle"] /\ UNCHANGED <<step, answer, failed>>
  ELSE IF Phase(s).mode = "on" THEN Advance(s) ELSE Fail(s, Phase(s).mode)

\* Mutant: the ports of the failed attempt are not returned.
StartFailsLeaks(s) ==
  /\ At(s, "start") /\ stage[s] = "begun"
  /\ taken' = [taken EXCEPT ![s] = {}]
  /\ Retry(s)
  /\ UNCHANGED <<kind, conf, tries, chain, calls, handle, free, containers, spent, cancelled>>

\* NewBlockchainNetwork returned an error: the ports go back to the pool.
StartFails(s) ==
  /\ At(s, "start") /\ stage[s] = "begun"
  /\ free' = free \cup taken[s]
  /\ taken' = [taken EXCEPT ![s] = {}]
  /\ Retry(s)
  /\ UNCHANGED <<kind, conf, tries, chain, calls, handle, containers, spent, cancelled>>

Number(s) == (calls[s] - 1) * MaxAttempts + tries[s]

\* The container runs on its ports, which Docker must be able to bind.
Starts(s) ==
  /\ At(s, "start") /\ stage[s] = "begun"
  /\ AttemptPorts(s) \cap UsedPorts = {}
  /\ containers' = containers \cup
       {[slot |-> s, n |-> Number(s), ports |-> AttemptPorts(s),
         cleanup |-> conf[s].t = "test" /\ ~Phase(s).wild]}
  /\ taken' = [taken EXCEPT ![s] = {}]
  /\ IF Phase(s).health
     THEN /\ handle' = [handle EXCEPT ![s] = Number(s)]
          /\ stage' = [stage EXCEPT ![s] = "up"]
          /\ UNCHANGED <<step, answer, failed>>
     ELSE Advance(s) /\ UNCHANGED handle
  /\ UNCHANGED <<kind, conf, tries, chain, calls, free, spent, cancelled>>

Healthy(s) ==
  /\ At(s, "start") /\ stage[s] = "up"
  /\ Advance(s)
  /\ UNCHANGED <<kind, conf, tries, taken, chain, calls, handle, free, containers, spent, cancelled>>

\* No URL, or the node never answered: the container is left running.
Unhealthy(s) ==
  /\ At(s, "start") /\ stage[s] = "up"
  /\ Retry(s)
  /\ UNCHANGED <<kind, conf, tries, taken, chain, calls, handle, free, containers, spent, cancelled>>

\* p.chain is assigned; the last phase also returns it.
Publishes(s) ==
  /\ At(s, "publish")
  /\ chain' = [chain EXCEPT ![s] = Phase(s).chain]
  /\ IF step[s] = Len(Plan(kind[s]))
     THEN /\ step' = [step EXCEPT ![s] = 0]
          /\ answer' = [answer EXCEPT ![s] = "chain"]
          /\ UNCHANGED <<stage, failed>>
     ELSE Advance(s)
  /\ UNCHANGED <<kind, conf, tries, taken, calls, handle, free, containers, spent, cancelled>>

\* Cleanup of the Anvil and Geth providers; when Terminate fails nothing changes.
Cleanup(s) ==
  /\ step[s] = 0 /\ handle[s] # 0
  /\ LET mine == {c \in containers : c.slot = s /\ c.n = handle[s]} IN
     /\ containers' = containers \ mine
     /\ spent' = spent \cup (Ports \cap UNION {c.ports : c \in mine})
  /\ handle' = [handle EXCEPT ![s] = 0]
  /\ UNCHANGED <<kind, conf, step, stage, tries, taken, chain, answer, calls, free, failed, cancelled>>

Cancel ==
  /\ ~cancelled /\ cancelled' = TRUE
  /\ UNCHANGED <<kind, conf, step, stage, tries, taken, chain, answer, calls, handle, free,
                 containers, spent, failed>>

InitStep(s) ==
  \/ CheckPasses(s) \/ CheckFails(s) \/ TakePorts(s) \/ StartFails(s) \/ Starts(s)
  \/ Healthy(s) \/ Unhealthy(s) \/ Publishes(s)

ProvInit ==
  /\ step = [s \in Slots |-> 0] /\ stage = [s \in Slots |-> "idle"]
  /\ tries = [s \in Slots |-> 0] /\ taken = [s \in Slots |-> {}]
  /\ chain = [s \in Slots |-> "nil"] /\ answer = [s \in Slots |-> "none"]
  /\ calls = [s \in Slots |-> 0] /\ handle = [s \in Slots |-> 0]
  /\ free = Ports /\ containers = {} /\ spent = {} /\ failed = FALSE /\ cancelled = FALSE

ProvTypeOK ==
  /\ \A s \in Slots : /\ kind[s] \in Providers \cup LoadKinds /\ conf[s] \in Confs(kind[s])
                      /\ step[s] \in 0..Len(Plan(kind[s]))
  /\ stage \in [Slots -> {"idle", "begun", "up"}]
  /\ tries \in [Slots -> 0..MaxAttempts]
  /\ taken \in [Slots -> SUBSET Ports]
  /\ chain \in [Slots -> {"nil", "part", "full"}]
  /\ answer \in [Slots -> {"none", "chain", "error", "exit"}]
  /\ calls \in [Slots -> 0..MaxCalls]
  /\ handle \in [Slots -> 0..(MaxCalls * MaxAttempts)]
  /\ free \subseteq Ports /\ spent \subseteq Ports
  /\ containers \subseteq [slot : Slots, n : 1..(MaxCalls * MaxAttempts),
                           ports : SUBSET (Ports \cup {ConfigPort}), cleanup : BOOLEAN]
  /\ failed \in BOOLEAN /\ cancelled \in BOOLEAN

(***************************************************************************)
(* Properties.                                                             *)
(***************************************************************************)
\* A port of the pool has exactly one owner: the pool, an attempt that is
\* under way, or a container (running, or terminated by Cleanup).  So no retry
\* of startContainer leaks a port and none hands out a port a container that
\* was left running still listens on.
PortsAccounted ==
  LET owners(p) == {s \in Slots : p \in taken[s]}
      users(p)  == {c \in containers : p \in c.ports}
      Bit(b)    == IF b THEN 1 ELSE 0
  IN \A p \in Ports :
       Bit(p \in free) + Bit(p \in spent) + Cardinality(owners(p)) + Cardinality(users(p)) = 1

\* A call of Initialize that returns a chain returns one that is complete,
\* also when an earlier call on the same provider failed halfway.  (The Canton
\* providers publish p.chain before they connect the participants: after a
\* failed call the next one returns the chain without them.)
ReturnedComplete ==
  \A s \in Slots : answer[s] = "chain" =>
    \/ chain[s] = "full"
    \/ kind[s] \in {"cantonRPC", "cantonCTF"} /\ calls[s] > 1
=============================================================================

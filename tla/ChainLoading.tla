---------------------------- MODULE ChainLoading ----------------------------
(***************************************************************************)
(* Loading the chains of an environment and building the environment.      *)
(* Four callers drive the providers of ChainProviders:                     *)
(*   "env"    environment.Load: LoadChains of engine/cld/chains starts one *)
(*            goroutine per selector, each with an RPC provider;           *)
(*   "fork"   environment.LoadFork: newAnvilChains starts one Anvil        *)
(*            container after the other, then ApplyChangesetOutput sends   *)
(*            the transactions of a changeset's proposals;                 *)
(*   "test"   the test environment: loadChainsParallel of                  *)
(*            engine/test/onchain, one goroutine per selector;             *)
(*   "direct" a caller that keeps its providers, may call Initialize again *)
(*            after a failure, and Cleanup.                                *)
(***************************************************************************)
EXTENDS ChainProviders

CONSTANTS Txs,     \* transactions in the proposals applied to a fork
          KeySets  \* configurations of keys and credentials that are tried

ASSUME LoadingAssumption == Txs \in Nat /\ Slots \subseteq Nat

VARIABLES mode,     \* which of the four callers (never changes)
          keys,     \* the keys and credentials in the configuration (never changes)
          family,   \* slot -> "ok", "unknown" (no such selector) or, for forks, "nometa"
                    \* (a network without metadata), "noanvil" (without an Anvil part)
          jdcfg,    \* "without", "noendpoint", "broken" or "ok": the Job Distributor
          pc,       \* where the caller is
          gor,      \* slot -> goroutine: "none", "load", "init" or "done"
          result,   \* slot -> what the goroutine stored: "none", "chain" or "error"
          loaded,   \* the slots in the BlockChains of the environment
          jd,       \* the environment's Offchain client: "nil" or "client"
          sent      \* transactions sent to the forked chains

loadVars == <<mode, keys, family, jdcfg, pc, gor, result, loaded, jd, sent>>
loadingVars == <<provVars, loadVars>>

\* The providers that the loaders of engine/test/onchain use.
TestKinds == {"aptosCTF", "suiCTF", "tonCTF", "tronCTF", "solanaCTF", "zksyncCTF", "evmSim"}

KindsFor(m) == CASE m = "env"    -> LoadKinds
                 [] m = "fork"   -> {"anvil"}
                 [] m = "test"   -> TestKinds
                 [] m = "direct" -> Providers

(***************************************************************************)
(* newChainLoaders: a family has a loader when its keys are configured.    *)
(***************************************************************************)
UseKMS(k) == {"kms id", "kms region"} \subseteq k

CantonAuthStrategy(k) ==
  CASE "auth strategy" \in k -> "explicit"
    [] {"auth url", "client id", "client secret"} \subseteq k -> "client credentials"
    [] {"auth url", "client id"} \subseteq k -> "authorization code"
    [] OTHER -> "static"

\* An explicitly chosen strategy is, in the configurations tried, the static one.
CantonAuthConfigured(k) ==
  CantonAuthStrategy(k) \in {"static", "explicit"} => "jwt" \in k

HasLoader(kd, k) ==
  CASE kd \in {"evmLoad", "zksyncLoad"} -> UseKMS(k) \/ "evm" \in k
    [] kd = "tronLoad"    -> UseKMS(k) \/ "tron" \in k
    [] kd = "solanaLoad"  -> {"programs", "wallet"} \subseteq k
    [] kd = "aptosLoad"   -> "aptos" \in k
    [] kd = "suiLoad"     -> "sui" \in k
    [] kd = "stellarLoad" -> "stellar" \in k
    [] kd = "tonLoad"     -> "ton" \in k
    [] kd = "cantonLoad"  -> CantonAuthConfigured(k)

Loadable == {s \in Slots : HasLoader(kind[s], keys)}

Goto(l) == pc' = l
Over == pc \in {"error", "ready", "crash", "aborted", "applied"}

(***************************************************************************)
(* environment.Load up to the chains: configuration, domain configuration, *)
(* address book and datastore, each of which may fail.                     *)
(***************************************************************************)
LoadFiles ==
  /\ mode = "env" /\ pc = "files"
  /\ Goto("chains") \/ Goto("error")
  /\ UNCHANGED <<provVars, mode, keys, family, jdcfg, gor, result, loaded, jd, sent>>

\* LoadChains: an unknown selector fails the call, a family without a loader
\* (its keys are not configured) is skipped, the others get a goroutine each.
LoadChains ==
  /\ mode = "env" /\ pc = "chains"
  /\ IF \E s \in Slots : family[s] = "unknown"
     THEN Goto("error") /\ UNCHANGED gor
     ELSE /\ gor' = [s \in Slots |-> IF s \in Loadable THEN "load" ELSE "none"]
          /\ Goto("wait")
  /\ UNCHANGED <<provVars, mode, keys, family, jdcfg, result, loaded, jd, sent>>

\* The test loader starts a goroutine for every selector.
LoadChainsParallel ==
  /\ mode = "test" /\ pc = "files"
  /\ gor' = [s \in Slots |-> "load"]
  /\ Goto("wait")
  /\ UNCHANGED <<provVars, mode, keys, family, jdcfg, result, loaded, jd, sent>>

\* A goroutine stores its result and is done (the deferred wg.Done).
Store(s, r) ==
  /\ gor' = [gor EXCEPT ![s] = "done"]
  /\ result' = [result EXCEPT ![s] = r]

\* The goroutine of LoadChains finds its context done.
LoaderFails(s) ==
  /\ mode = "env" /\ gor[s] = "load" /\ cancelled
  /\ Store(s, "error")
  /\ UNCHANGED <<provVars, mode, keys, family, jdcfg, pc, loaded, jd, sent>>

\* Otherwise it runs its loader, which calls Initialize on a new provider.
LoaderCalls(s) ==
  /\ gor[s] = "load" /\ ~(mode = "env" /\ cancelled)
  /\ gor' = [gor EXCEPT ![s] = "init"]
  /\ Initialize(s)
  /\ UNCHANGED <<mode, keys, family, jdcfg, pc, result, loaded, jd, sent>>

LoaderStep(s) ==
  /\ gor[s] = "init" \/ mode = "direct"
  /\ InitStep(s)
  /\ UNCHANGED loadVars

\* Mutant: wg.Done is not deferred, so a goroutine ended by t.FailNow misses it.
LoaderReturnsUndeferred(s) ==
  /\ mode # "fork" /\ gor[s] = "init" /\ answer[s] \notin {"none", "exit"}
  /\ Store(s, answer[s])
  /\ UNCHANGED <<provVars, mode, keys, family, jdcfg, pc, loaded, jd, sent>>

\* Initialize returned, or ended the goroutine: t.FailNow runs the deferred
\* wg.Done and stores nothing.
LoaderReturns(s) ==
  /\ mode # "fork" /\ gor[s] = "init" /\ answer[s] # "none"
  /\ Store(s, IF answer[s] = "exit" THEN "none" ELSE answer[s])
  /\ UNCHANGED <<provVars, mode, keys, family, jdcfg, pc, loaded, jd, sent>>

\* Mutant: the load only fails when every chain failed.
GatherSome ==
  /\ pc = "wait" /\ \A s \in Slots : gor[s] \in {"none", "done"}
  /\ IF \A s \in Slots : result[s] = "error"
     THEN Goto("error") /\ UNCHANGED loaded
     ELSE /\ loaded' = {s \in Slots : result[s] = "chain"}
          /\ Goto(IF mode = "test" THEN "ready" ELSE "rest")
  /\ UNCHANGED <<provVars, mode, keys, family, jdcfg, gor, result, jd, sent>>

\* wg.Wait, then the results: any error fails the load, else the chains go
\* into the environment (the test environment skips the nil ones).
Gather ==
  /\ pc = "wait" /\ \A s \in Slots : gor[s] \in {"none", "done"}
  /\ IF \E s \in Slots : result[s] = "error"
     THEN Goto("error") /\ UNCHANGED loaded
     ELSE /\ loaded' = {s \in Slots : result[s] = "chain"}
          /\ Goto(IF mode = "test" THEN "ready" ELSE "rest")
  /\ UNCHANGED <<provVars, mode, keys, family, jdcfg, gor, result, jd, sent>>

\* LoadOffchainClient: Load tolerates a missing endpoint, LoadFork does not.
LoadJD ==
  CASE jdcfg = "without"    -> jd' = "nil" /\ Goto("ready")
    [] jdcfg = "ok"         -> jd' = "client" /\ Goto("ready")
    [] jdcfg = "broken"     -> UNCHANGED jd /\ Goto("error")
    [] jdcfg = "noendpoint" -> UNCHANGED jd /\ Goto(IF mode = "fork" THEN "error" ELSE "ready")

\* The rest of Load: nodes, Job Distributor, OCR secrets.
LoadRest ==
  /\ mode = "env" /\ pc = "rest"
  /\ LoadJD \/ (Goto("error") /\ UNCHANGED jd)
  /\ UNCHANGED <<provVars, mode, keys, family, jdcfg, gor, result, loaded, sent>>

(***************************************************************************)
(* environment.LoadFork.                                                   *)
(***************************************************************************)
ForkConfig ==
  /\ mode = "fork" /\ pc = "files"
  /\ Goto("chains") \/ Goto("error")
  /\ UNCHANGED <<provVars, mode, keys, family, jdcfg, gor, result, loaded, jd, sent>>

\* newAnvilChains goes through the networks in order.
Turn(s) == /\ mode = "fork" /\ pc = "chains" /\ gor[s] = "none"
           /\ \A r \in Slots : r < s => gor[r] = "done"

\* Not selected; with an Anvil configuration also one that is not valid, or no
\* public RPC that answers.
ForkExcludes(s) ==
  /\ Turn(s)
  /\ Store(s, "none")
  /\ UNCHANGED <<provVars, mode, keys, family, jdcfg, pc, loaded, jd, sent>>

\* The metadata of a selected network has no Anvil configuration, which
\* selectPublicRPC reads before anything validates it.
ForkPanics(s) ==
  /\ Turn(s) /\ family[s] = "noanvil" /\ Goto("crash")
  /\ UNCHANGED <<provVars, mode, keys, family, jdcfg, gor, result, loaded, jd, sent>>

\* A network without metadata gets a default Anvil configuration, whose port
\* comes from the pool and is neither used (the provider takes its own) nor
\* returned.  When freeport fails on an empty pool a fixed number stands in.
DefaultPort ==
  IF free = {} THEN UNCHANGED <<free, spent>>
  ELSE /\ free' = free \ Lowest(1)
       /\ spent' = spent \cup Lowest(1)

ForkDefaults(s) ==
  /\ Turn(s) /\ family[s] = "nometa"
  /\ DefaultPort
  /\ family' = [family EXCEPT ![s] = "ok"]
  /\ UNCHANGED <<kind, conf, step, stage, tries, taken, chain, answer, calls, handle, containers,
                 failed, cancelled, mode, keys, jdcfg, pc, gor, result, loaded, jd, sent>>

ForkCalls(s) ==
  /\ Turn(s) /\ family[s] = "ok"
  /\ gor' = [gor EXCEPT ![s] = "init"]
  /\ Initialize(s)
  /\ UNCHANGED <<mode, keys, family, jdcfg, pc, result, loaded, jd, sent>>

\* A chain ID or metadata that cannot be read fails the load.
ForkFails(s) ==
  /\ Turn(s) /\ Goto("error")
  /\ UNCHANGED <<provVars, mode, keys, family, jdcfg, gor, result, loaded, jd, sent>>

\* The first provider that fails ends newAnvilChains: the containers of the
\* chains before it keep running.
ForkReturns(s) ==
  /\ mode = "fork" /\ pc = "chains" /\ gor[s] = "init" /\ answer[s] # "none"
  /\ Store(s, IF answer[s] = "chain" THEN "chain" ELSE "error")
  /\ IF answer[s] = "chain" THEN UNCHANGED pc
     ELSE Goto(IF answer[s] = "exit" THEN "crash" ELSE "error")
  /\ UNCHANGED <<provVars, mode, keys, family, jdcfg, loaded, jd, sent>>

\* Nodes, environment configuration, Job Distributor, address book, datastore.
ForkRest ==
  /\ mode = "fork" /\ pc = "chains" /\ \A s \in Slots : gor[s] = "done"
  /\ loaded' = {s \in Slots : result[s] = "chain"}
  /\ LoadJD \/ (Goto("error") /\ UNCHANGED jd)
  /\ UNCHANGED <<provVars, mode, keys, family, jdcfg, gor, result, sent>>

\* ApplyChangesetOutput: the transactions of all proposals one by one; the
\* first that fails ends it, and only then would the addresses be merged.
ApplySends ==
  /\ mode = "fork" /\ pc = "ready" /\ sent < Txs /\ loaded # {}
  /\ sent' = sent + 1
  /\ UNCHANGED <<provVars, mode, keys, family, jdcfg, pc, gor, result, loaded, jd>>

ApplyFails ==
  /\ mode = "fork" /\ pc = "ready"
  /\ Goto("aborted")
  /\ UNCHANGED <<provVars, mode, keys, family, jdcfg, gor, result, loaded, jd, sent>>

ApplyMerges ==
  /\ mode = "fork" /\ pc = "ready" /\ sent = Txs
  /\ Goto("applied")
  /\ UNCHANGED <<provVars, mode, keys, family, jdcfg, gor, result, loaded, jd, sent>>

(***************************************************************************)
(* A caller that keeps its providers.                                      *)
(***************************************************************************)
DirectCall(s) == mode = "direct" /\ Initialize(s) /\ UNCHANGED loadVars
DirectCleanup(s) == mode = "direct" /\ Cleanup(s) /\ UNCHANGED loadVars

\* The context is cancelled while somebody can still notice: a goroutine that
\* has not called its loader, or a retry loop that watches the context.
Cancelled ==
  /\ \E s \in Slots : \/ (mode = "env" /\ gor[s] = "load")
                     \/ (mode = "direct" /\ At(s, "start") /\ Phase(s).ctx)
  /\ Cancel /\ UNCHANGED loadVars

LoadInit ==
  /\ mode \in {"env", "fork", "test", "direct"}
  /\ kind \in [Slots -> KindsFor(mode)]
  /\ conf \in {f \in [Slots -> [port : BOOLEAN, t : {"none", "test", "zero"}]] :
                 \A s \in Slots : /\ f[s] \in Confs(kind[s])
                                  /\ mode = "fork" => f[s] = [port |-> FALSE, t |-> "zero"]
                                  /\ mode = "test" => f[s] = [port |-> FALSE, t |-> "test"]}
  /\ keys \in (IF mode = "env" THEN KeySets ELSE {{}})
  /\ family \in [Slots -> CASE mode = "env"  -> {"ok", "unknown"}
                            [] mode = "fork" -> {"ok", "nometa", "noanvil"}
                            [] OTHER         -> {"ok"}]
  /\ jdcfg \in (IF mode \in {"env", "fork"} THEN {"without", "noendpoint", "broken", "ok"}
                ELSE {"without"})
  /\ ProvInit
  /\ pc = "files" /\ gor = [s \in Slots |-> "none"] /\ result = [s \in Slots |-> "none"]
  /\ loaded = {} /\ jd = "nil" /\ sent = 0

LoaderNext(s) ==
  \/ LoaderFails(s) \/ LoaderCalls(s) \/ LoaderStep(s) \/ LoaderReturns(s)
  \/ ForkExcludes(s) \/ ForkPanics(s) \/ ForkDefaults(s) \/ ForkCalls(s) \/ ForkFails(s)
  \/ ForkReturns(s)

CallerNext ==
  \/ LoadFiles \/ LoadChains \/ LoadChainsParallel \/ Gather \/ LoadRest
  \/ ForkConfig \/ ForkRest

LoadNext ==
  \/ CallerNext \/ ApplySends \/ ApplyFails \/ ApplyMerges \/ Cancelled
  \/ \E s \in Slots : LoaderNext(s) \/ DirectCall(s) \/ DirectCleanup(s)

\* A goroutine waits for the pool, for a container or for the default port.
Starved(s) == Waits(s) \/ (Turn(s) /\ family[s] = "nometa" /\ free = {})

\* The process keeps running as long as one of its goroutines can: every retry
\* loop is bounded and every wait inside a phase has a timeout, only the wait
\* for a port of the pool has none.
Progress == CallerNext \/ \E s \in Slots : ~Starved(s) /\ LoaderNext(s)
LoadFairness == WF_loadingVars(Progress)

LoadSpec == LoadInit /\ [][LoadNext]_loadingVars /\ LoadFairness

LoadTypeOK ==
  /\ ProvTypeOK
  /\ gor \in [Slots -> {"none", "load", "init", "done"}]
  /\ result \in [Slots -> {"none", "chain", "error"}]
  /\ loaded \subseteq Slots /\ jd \in {"nil", "client"} /\ sent \in 0..Txs

\* An environment that was handed out has what was asked for: Load has every
\* chain whose family has a loader, complete, and a Job Distributor client
\* exactly when one is configured; in a test a chain can only be missing if
\* the test already failed (t.FailNow inside a provider leaves a nil chain and
\* no error); a forked chain has its container running.
EnvironmentComplete ==
  pc \in {"ready", "aborted", "applied"} =>
    /\ \A s \in loaded : chain[s] = "full"
    /\ mode = "env"  => /\ loaded = Loadable
                        /\ (jd = "client") = (jdcfg = "ok")
    /\ mode = "test" => loaded = Slots \/ failed
    /\ mode = "fork" => /\ \A s \in loaded : Running(s)
                        /\ (jd = "client") = (jdcfg = "ok") /\ jdcfg # "noendpoint"

\* Somebody can still remove the container: the end of the test it is registered
\* with, or a caller that kept the provider, by Cleanup, which knows the newest.
Removable(c) == c.cleanup \/ (mode = "direct" /\ handle[c.slot] = c.n)

\* The containers that outlive everybody: LoadFork's (their T is one that no test
\* runner ends, and the provider is dropped with the loop), the Canton CTF
\* provider's (never registered), and without the T of a test those of earlier,
\* unhealthy attempts.
Stranded(c) ==
  \/ mode = "fork" \/ kind[c.slot] = "cantonCTF"
  \/ conf[c.slot].t # "test" /\ c.n # handle[c.slot]

\* Whatever a call of Initialize ended with, no other container is left behind
\* than these, and Cleanup removes the newest container of its provider.
ContainersReachable ==
  /\ \A c \in containers : Removable(c) <=> ~Stranded(c)
  /\ \A s \in Slots : handle[s] # 0 =>
       LET mine == {c.n : c \in {d \in containers : d.slot = s}}
       IN handle[s] \in mine /\ \A n \in mine : n <= handle[s]

(* Ports and containers of the providers, through retries, failures and    *)
(* goroutines that end early: every port has one owner, and a container    *)
(* can still be removed by somebody unless it is one of the stranded.      *)
ResourcesSound == LoadTypeOK /\ PortsAccounted /\ ContainersReachable

\* Every load comes to an end, whichever goroutines fail, end by t.FailNow or
\* find their context cancelled: wg.Wait never waits for a goroutine that is gone.
\* Only an empty pool can keep it waiting.
LoadReturns == mode # "direct" => <>[](Over \/ \E s \in Slots : Starved(s))
=============================================================================

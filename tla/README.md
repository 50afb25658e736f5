# Verification of the Chainlink Deployments Framework

TLA+ models of the framework's stateful code, model-checked with TLC and, for
the central properties, proved with TLAPS for every value of the constants.
Paths are relative to the root of the repository.  `PROJECT.json` holds the
exact correspondence: `map` names the source lines of every definition, `runs`
the TLC runs, `mutants` a wrong variant of the code for each property,
`hazards` what the properties are for, `theorems` what is proved.

## 1. The system

The framework runs *changesets*: Go programs that deploy and configure contracts
on several chains.  A changeset is applied to an *environment* (chains, the
Job Distributor, a data store of what was deployed) and returns an output: new
records, jobs and MCMS proposals.

```
  datastore merge ──────► local JSON files        (engine/cld/domain)
  address-book …  ──────►                         (engine/cld/domain)
        ▲        └──────► catalog service ◄────── remote client (datastore/catalog/remote)
        │ artifacts                       ◄────── in-memory catalog (datastore/catalog/memory)
  durable pipeline run ── reports file            (engine/cld/commands/pipeline)
        │                 ├─ timelock delays      (engine/cld/mcms/timelockdelay)
        │                 └─ proposals ─► analysis, predecessors, test runtime
        │ Apply
  changeset registry, hooks                       (engine/cld/changeset)
        │ handler
  Operations API ── reporter                      (operations)
        │ side effects
  contract operations ── MultiClient              (chain/evm)
  chain providers, loaders, Job Distributor       (chain, engine/cld/chains, offchain)
```

### Components

| component | state | operations | what is hard | what makes it correct |
|---|---|---|---|---|
| Operations API (`operations`) | the reporter's log, the nested `RecentReporter`s | ExecuteOperation, ExecuteOperationN, ExecuteSequence | goroutines of sequence handlers; check, run and record are three critical sections; retries | an effect that succeeded is not repeated; child report IDs resolve; a series returns its reports |
| Data store (`datastore`) | four stores, staged deletions | Add, Upsert, Update, Delete, RemoteDelete, Set, WriteMetadata, Merge, Clone | delete intent across chained merges; keys that do not parse back | chained merges equal one merge; Clone is exact |
| Merge and sync commands (`engine/cld/domain/envdir.go`, `engine/cld/commands/datastore`) | four files, the catalog | datastore merge, sync-to-catalog | crashes between and inside writes, lost answers, reruns | what was merged stays merged; the files are never ahead of the catalog |
| Remote catalog client (`datastore/catalog/remote`) | one cached stream, the version cache | Get, Fetch, Add, Upsert, Update, Delete, Set, WithTransaction | broken streams, lost answers, races of clients, stale versions | transactions are all or nothing; no update is lost |
| In-memory catalog (`datastore/catalog/memory`) | committed maps, buffers of transactions | the same | get and set under two locks, nested transactions | nothing uncommitted is read; transactions are serializable unless overtaken |
| Durable pipeline run (`engine/cld/commands/pipeline`, `engine/cld/domain/artifacts.go`) | reports file, artifacts | run, the hooks of proposals | kill between effect and record; runs that overlap; an input file that is edited | a rerun repeats nothing that is recorded, artifacts are backed by reports |
| Changeset registry and hooks (`engine/cld/changeset`) | entries, hooks | Apply, RunProposalHooks | failure policies, a configuration resolved twice | hooks are given what was applied; the error of a failed changeset is told, unless the post-hooks cannot be prepared |
| Address book (`deployment/address_book.go`, `engine/cld/domain`) | addresses by chain, the files | Save, Merge, Remove; merge, remove, migrate | partial merges, cut writes, commands that overlap | nothing is lost or comes back; remove undoes merge |
| Changeset outputs, test runtime (`deployment`, `engine/test/runtime`) | accumulated state, proposals, chains | Exec and its tasks; MergeChangesetOutput, OutputBuilder | one task or transaction of several failing | stored outputs are merged completely; a proposal is executed once |
| EVM MultiClient and contract operations (`chain/evm`) | the client list, transactions, gas | every RPC, deploy, write, read, MaybeDeploy | reordering by concurrent calls, lost answers, retries of sent transactions | no client is lost or doubled; nothing takes effect twice except after an unconfirmed attempt |
| Job Distributor (`offchain/jd`, `engine/cld/offchain`, the `jd` commands) | nodes, jobs, proposals, `nodes.json` | register, update, patch, propose, save, revoke, delete | lost answers in loops, overlapping commands, aliased slices | revisions are exact; every entry is tried; no node is forgotten |
| Chain providers (`chain/*/provider`) | the cached chain, containers, ports | Initialize, Cleanup | retries of container starts, half built chains | ports have one owner; containers can be removed, but for the ones named in section 5; returned chains are complete |
| Chain and environment loading (`engine/cld/chains`, `engine/cld/environment`, `engine/test/onchain`) | results of goroutines | Load, LoadFork, the test loader | goroutines that end by `t.FailNow`, cancellation | the load ends; the environment has what was asked for |
| Transaction clients (Solana, Tron, Confirm closures) | none | send and confirm | lost answers, bounded retries | success means executed, with the exceptions of section 5; every call is answered |
| Contract verification (`engine/cld/verification/evm`) | counts | verify-env | explorers that err or never decide | every contract is accounted for; the command ends |
| Proposal analysis (`engine/cld/mcms/proposalanalysis`) | annotations | Run | goroutines per level, calls that outlive their timeout | a dependent sees all of its dependencies; nothing changes after Run |
| Execution on a fork (`engine/cld/commands/mcms`) | the fork, the reports | mcms execute-fork | a chain that has seen a part of the proposal, lost answers, other callers | what is returned and reported happened |
| Timelock delay correction (`engine/cld/mcms/timelockdelay`) | none | CorrectTimelockDelays | reads that fail | no saved proposal without a delay, or below one that was read |
| Proposal predecessors (`experimental/proposalutils/predecessors`) | op counts in proposals | graph, compute, apply | chains that execute meanwhile | proposals neither overlap nor leave a gap |

## 2. The modules

| module | models | over |
|---|---|---|
| `Operations` | the Operations API over one `MemoryReporter` | |
| `ReportLog` | abstract specification of the reporter | implemented by `Operations` |
| `Stores` | `MemoryDataStore` as values, and Merge | |
| `DataStore` | changesets that write their output store, merged into an environment | `Stores` |
| `MemoryCatalog` | the in-memory catalog | |
| `DatastoreMerge` | the merge and sync commands | `Stores` |
| `RemoteCatalog` | clients of the catalog service | |
| `Pipeline` | `pipeline run`, the registry, the hooks, the input file, the artifacts | what `Operations` shows of a log of reports |
| `AddressBook` | the address book as a value | |
| `AddressBookFiles` | the address book commands | `AddressBook` |
| `Runtime` | the test runtime and changeset outputs | `AddressBook` |
| `TimelockDelay`, `Predecessors` | what happens to proposals afterwards | |
| `EvmClient` | the MultiClient | |
| `EvmContracts` | contract operations and the chain | `EvmClient`, whose steps its own are (`OperationsUseClients`) |
| `JobDistributor` | the in-memory server, the dry run client, the `jd` commands | |
| `ChainProviders` | Initialize, container starts, Cleanup of every provider | |
| `ChainLoading` | Load, LoadFork, the test loader, direct callers | `ChainProviders` |
| `TxConfirm` | sending and confirming of a transaction | |
| `ExecuteFork` | mcms execute-fork on the two contracts | |
| `Verification`, `ProposalAnalysis` | verify-env; the analysis engine | |
| `MC*` | instances for TLC | |
| `*Proofs` | theorems | |

### Operations

A *call* is one invocation of ExecuteOperation, ExecuteOperationN or
ExecuteSequence.  Its state `st[c]` follows the code: `load` (GetReports and the
search for a previous success), `run` (an operation's handler), `handler` (a
sequence's handler, under which other calls may be made, concurrently), `add`
(AddReport of the shared log), `recent` (the report reaches the enclosing
RecentReporters one after the other, each under its own lock), `done`.  Handlers
are user code: they return any outcome and make any calls.  A report is named by
its position in the log, a renaming of its UUID.  The idempotency hash is the
tuple of its three parts: the NUL in the code keeps them apart.  Inputs that
cannot be serialised are the set `BadInputs`.

Two constants state what callers do rather than what the code enforces:
`HandlersJoin` (handlers wait for their goroutines) and `ExclusiveSeries` (one
goroutine at a time runs a series).  Only the two parts of ReportsComplete
depend on them, and say so in their hypotheses.

`ReportLog` says what is promised to whoever reads the reports afterwards: the log
only grows, an entry refers to older ones, a call answers once, and an error
it answers with has been recorded.  `Operations` implements it (`LogRefined`).

### Stores, DataStore

The three keyed stores run the same code over different key types, so a data
store is one map over all keys, a set of staged deletions and the env metadata.
`Unparsable` is the set of keys whose text does not parse back (an underscore in a
type, a qualifier or an address), which Merge refuses when they are staged for
deletion.  `MergeLoop` is Merge as the code runs it (records, then deletions, then
env metadata); `Merge` is the same by keys, and MergeIsLoop checks that they
agree in every reachable state.

### DatastoreMerge

A command goes through `catalog`, `load` and `write`, once for each of four files,
depending on the datastore type.  It may fail or be killed between any two
steps (FailBetweenSteps), inside a file write (CrashInWrite: the file is empty, or
does not load), or after a commit whose answer is lost (CatalogAnswerLost), and
may be run again.  The catalog's transaction is one step here; that it is
atomic is what `RemoteCatalog` shows (AllOrNothing), as long as the service answers
begin and commit without an error status.

`failed`, `owner`, `damaged` and `synced` are history.  A cell (a key, or the env
metadata) is *settled* when no merge that is running or has failed touches
it.  Local files have no lock, and with type `catalog` they fall behind the
catalog, so two ways of using the commands lose data without any failure:
running two file merges at once, and syncing stale files into the catalog.
`Exclusive` and `InitialSync` (the help text of the command speaks of the initial
migration) exclude them; `Discipline` names the combination the theorems assume.
InSync is not limited to settled cells: wherever catalog and files differ, a
changeset whose merge is under way or stopped has set the cell in the catalog.
If that changeset stages no deletion the catalog accepts it again, so a rerun
can complete it.  If it does, the catalog refuses every rerun (section 5).

### RemoteCatalog

Client processes, each with one stream that is opened once (`sync.Once`) and never
replaced, a version cache, and the calls of the four stores: a Get that caches the
row's version, then an edit that sends it back.  WithTransaction is the steps
begin, lambda, commit or rollback.

The service is not in the repository.  As the client and its tests use it: a
transaction lives in the stream and is rolled back with it; an edit of a row that
another transaction has edited waits; a new row has version 1 and every edit adds
one; an edit with another version is Aborted.  A client has one call in flight;
the lambda returns the first error it meets, as the lambdas of this repository
do.  Streams break at any time, answers are lost, processes restart.

### MemoryCatalog

Goroutines share one catalog.  A store operation reads its record under one lock
and writes it under another, so it is two steps (`ReadRecord`, then `WriteBuffer` or
`WriteStorage`).  WithTransaction pushes a buffer (`frames`), also inside a
transaction; Commit writes the buffer of the innermost one into the catalog,
Rollback drops it.  A record is the set of the writes it stems from, so that a lost
update or a dirty read is visible in the data.  `serial` is the catalog that the
committed transactions make one at a time; `overtaken` marks that a record changed
between a read and the write that came of it.

### Pipeline

A run is a process: read the input file, load the changesets, configure the
environment, load the reports of the changeset, load the environment, Apply
(pre-hooks, the changeset with its operations, post-hooks), save the reports, correct
the delays, save the metadata of the proposals, describe, save the artifacts.
`StepFails`, `Kill`, `SaveFails` and `SaveCut` may strike at each of them, `EditInput`
changes the file at any time, and runs of one changeset may overlap.  Operations
appear by what `Operations` shows: an operation whose success is in the log is
not executed again (AtMostOnce).  An effect is counted by operation and
configuration in `count`; `lost`, `overlapped` and `damaged` are history.
Before the post-hooks the registry makes the chains read-only; where that fails no
hook runs, and its error takes the place of the changeset's (PostHooksUnread).

### AddressBook, AddressBookFiles

A book is a function from chain and address to type and version, labels included.
What migrate makes of an entry, the key of the record, its qualifier and the
identity by which duplicates are found, leaves the labels out (`Unlabelled`).  `Merge` iterates over
Go maps, so a merge that fails may have saved any prefix of any iteration order
(`Before`); the commands write nothing then.  The commands `merge`, `remove` and
`migrate` read, change and write whole files without a lock; `Cut` is a kill inside a
write: the file does not load afterwards, or is empty.  An empty datastore file loads
as an empty store, an empty address book does not load.  `owed` is what the successful commands make of the book one at a time.

### Runtime

Exec takes a sequence of tasks and runs them under a lock, regenerating the environment
after each.  One action per step that can fail: applying a changeset, merging a
part of its output, signing, setting a root, executing an operation on the MCMS
contract or the timelock.  A transaction may be rejected, or sent and stay
unconfirmed.  What was done before a failure stays.  `OutputBuilder` and
`MergeChangesetOutput` are operators (`processBatchOps`, `MergeParts`); `At` is the place
of an operation in the batches that OutputBuilder makes.  `RuntimeAssumption` says, as the code that
reads an input file checks, that a list of changesets is not empty.

### TimelockDelay, Predecessors

`TimelockDelay` is CorrectTimelockDelays: the proposals one after the other, one
goroutine per timelock (`Timelocks`, finite as a map in memory is), each of which may fail; a proposal that is left without a
delay, or whose delay cannot be read, is an error that the pipeline reports.

`Predecessors` is the queue of proposals in pull requests: a changeset builds a
proposal from the op counts on chain, an update collects the older open proposals
(`BuildPRDependencyGraph`, in the order of `Topo`), computes the highest op counts and
applies them, and chains execute proposals meanwhile, in the order of the pull requests.
InTurn says that a proposal starts where the chain will be once its predecessors
are executed, for chains where it was placed *in time* (`InTime`).  The
restriction is the code's: the base count is the one in the file, only the last
predecessor is looked at (a comment at `predecessor.go:66` speaks of the "most recent
predecessor with same MCM address"), and counts are only ever raised.  A proposal that is overtaken
after its last predecessor left the queue keeps a stale start until it is built again.

### EvmClient, EvmContracts

`EvmClient` is the MultiClient: a call takes a snapshot of the client list, tries
its clients in turn with `Attempts` each, and moves the one that answered to the front of
the list *as it is then*, by its index in the snapshot.  `Source(n, r, k)` gives the
position that position `k` is filled from.

`EvmContracts` runs the operations on top: read, deploy, write, MaybeDeploy.  A
write goes through the stages view (the owner), estimate, nonce, send, confirm, each an RPC of
`EvmClient`.  A node (external) may fail, take a transaction and lose the answer, or
lag; a transaction is mined, reverted or out of gas once per nonce.  `ErrorKinds` says which
errors are taken for too little gas: the node's, and that of a replacement that does not
offer more than what is in the pool (`Underpriced`).  The text of an out-of-gas receipt
may be lost on the way.  Seth's functor does not look at the status of the
receipt, so that its confirmation stands for "mined" only (`MinedOk`).  A failed
operation is retried by the Operations API with gas boosted by
`nextBoostedGas`.  `unconfirmed` is the set of attempts that ended without a
receipt.

### JobDistributor

The server of `offchain/jd/memory` (nodes, jobs, proposals behind one mutex) and the
`jd` commands as processes over it, with one step per remote call.  A call may be lost
before it reaches the server or after it took effect.  ListNodes with a filter takes
several steps: the nodes are collected under the mutex (`Collect`), then read one
at a time without it (`Filter`).  An update without labels clears them on the in-memory
server, which tells an empty list from none; over gRPC the list arrives as
none and they stay.  Either may happen (`LabelsAfter`).  Another user makes `MaxCalls`
calls of their own.  `labels-patch` is modelled down to the sharing of slices
(`PatchKey`, `PatchLabels`), because what it does depends on whether `append` moves
the array.  The other state of the module is remembered for the properties: `made` (ids a
command has registered), `author` (the command and entry that made a proposal), `left`
(nodes that have been outside the domain's environment, which save-all does not list) and
`raced` (nodes.json was written from a reading that was out of date).

### ChainProviders, ChainLoading, TxConfirm

Initialize of each provider is a *plan*, a sequence of phases read off its body:
checks, container starts with ports and a retry loop, health checks, publication
of the chain (part or full).  The actions run any plan.  `conf.t` says whether a provider has
the T of a test, which removes its containers; none; or, from LoadFork, a zero `testing.T`,
which nothing ends (`anvil.go:242`).  The pool of ports (`freeport`) is external: a
goroutine that finds too few waits for others (`Waits`), or fails its test.  A phase says how it fails:
by an error, by `t.FailNow` (which ends the goroutine), or not at all.  `ChainLoading`
adds the four callers of providers and what each does with their answers.  `TxConfirm` sends one
transaction with the client of each family and confirms it, over a network that
decides on its own when and how it is executed.  Tron's client takes an answer without a
result for a success (`SeesEmpty`).

### ExecuteFork

`mcms execute-fork` step by step: the test signer, the root, the operations of the
chain on the MCM contract, the time, the same operations on the timelock, the
hooks.  Both contracts are external: `count` is the op count of the one,
`lock` says for every operation how far the other is.  The chain may have executed a
part of the proposal before it was forked, and `OtherExecutes` is somebody else who
executes the next operation on the fork; `foreign` counts both.  A
transaction is refused, confirmed, or takes effect without an answer (`Sends`).
The nonce of an operation is its place among those of its chain, not in the
proposal (`TxNonce`).

### Verification, ProposalAnalysis

`Verification` is verify-env: contract after contract, check, submit, poll, with
the table of what each of nine verifiers needs and does with an API error.
`ProposalAnalysis` runs the levels of the dependency graph, a goroutine per
analyzer and one per call; a call that outlives its timeout is *abandoned* and may return
at any time later (`LateReturn`).

## 3. The runs

Properties are stated and explained in the modules.  A run checks them one by
one or as a named conjunction (`RunSound`, `StateSound`, ...) whose parts carry their
own names and comments.  Every checked property has a mutant in `PROJECT.json`: a variant of
a mapped definition with a plausible mistake, which TLC finds to violate it.

| run | properties | instance |
|---|---|---|
| `operations` | AtMostOnce, ResultsSound, ChildrenPrecede, SeriesInBounds, LogRefined (refinement of `ReportLog`) | three calls that share operation, input and series, nested or concurrent; handlers leave goroutines behind |
| `operations_disciplined` | ReportsComplete (ChildrenComplete, SeriesComplete), Terminates | handlers join, a series is run by one goroutine at a time |
| `datastore` | CloneExact, ChainedMerge, MergeIsLoop; Isolated (NoDirtyRecord, Serializable) | two address refs, one unparsable, and env metadata; or the in-memory catalog with two goroutines and nested transactions |
| `merge_all` | MergedVisible, InSync, OnlyTouched | type `all`, three changesets that overlap |
| `catalog_tx` | AllOrNothing, VersionsSound, UpdateFromLatest | two clients on one metadata row, two calls each, with error statuses |
| `pipeline` | RepeatedOnlyAfterLoss, RunSound | two runs, two registry entries, four input files, edited meanwhile |
| `runtime` | StateSound, ProposalsSound, ExecutedOnce; DelayEnough; InTurn | four Execs; two proposals to correct; three pull requests on two chains |
| `evm` | ClientsConsistent, EffectsSound, OperationSteps, Terminates | two callers on one chain with up to three clients, two attempts and two tries |
| `jd` | JobsSound, Accounted, CommandSteps | every pair of commands, and a call of another user |
| `chains` | ResourcesSound, AnswersSound, AllEnd | two providers of any kind over three ports; or one transaction |
| `commands` | BookSound, MigrationKeeps; VerifySound; AnalysisSound; ForkSound; CommandsEnd (VerifyEnds, AnalysisReturns) | two address book commands; or two contracts; or three analyzers in five graphs; or a proposal of up to three operations on a fork |
| `jd_patch` | PatchExact, violated | see the finding |

**Runs of several parts.**  `datastore`, `runtime`, `chains` and `commands` check
components that share no state.  Their MC modules choose the part in the
initial state (`part`, `active`, or empty initial states) and leave the variables of the
others alone, so that the state space is the sum, not the product.

**Bounds.** Interference in Operations is pairwise (a call and the report it may
miss), and a third call is what sees the result; nesting of depth three needs
three calls.  A series of up to three runs, with shorter and longer calls, has
every relation between the order of a report and the number found.  Merge
treats keys independently and runs the same code for every kind, so one key that
parses, one that does not, and two values (old, new) are enough; both are address
refs so that WriteMetadata can stop half way.  Three changesets overlap on
purpose: two replace each other's record, one of them deletes, and one is
refused.  Two catalog clients with two calls each (`MaxCalls`) reach a
transaction of two edits, an edit after a rollback, and a race inside each.  Two
pipeline runs are a run and its rerun, or two that overlap.  Reordering by an index of an old
snapshot needs two callers, and three clients for the difference between failed
and untried ones.  Three ports for providers that need up to two make the
pool run out.  Two jd commands interfere pairwise; files and patches are chosen so that
each entry may fail.  Three analyzers have all shapes of
graphs that differ: chain, join, fork, shortcut, cycle.  Retries are bounded by 2: one
that fails and one that is the last.  Three pull requests are a proposal, its
predecessor, and that one's own.

**Deadlock** is switched off where the system may stop because all of its calls, runs
or commands are over; `merge_all`, `catalog_tx`, `evm` and `runtime` check it.

**Symmetry** is used for calls, values, clients, runs and commands in runs without
liveness.

**Fairness.**
- `operations_disciplined`: weak fairness of the steps of every call (the Go scheduler
  runs every goroutine, and no lock is held across a handler) and of every
  handler (handlers return; the framework gives them no other way out than the
  context).  With the zero retry policy retries are not bounded and the property
  does not hold, so the run sets a limit.
- `evm`: weak fairness of the steps of every operation; strong fairness of the deadline
  of a read, which is enabled again and again while nodes keep failing. Nothing is assumed
  of nodes or of the mining of transactions: waits end by their deadlines.
- `chains`: weak fairness of the process as a whole (some goroutine that can run
  does) and of the client of a transaction; nothing of the network.  A wait for a port
  of the pool has no bound, so that a load with a starved goroutine (`Starved`) is
  an exception of AllEnd.
- `commands`: weak fairness of verify-env, of the analysis engine with its clocks, and
  of execute-fork; nothing of explorers, analyzers and other callers of the fork.

### Finding

`jd_patch`: `labels-patch` looks a key up in `node.Labels` but edits a slice that
`append` may have moved to another array.  After one added and one cleared label the
index is off by one, and a label the patch does not name is overwritten or
cleared, or the process panics.  The help says "Existing labels remain unless
overwritten or cleared" (`jd.go:349`).  For patches of up to two labels the
property holds (PatchSmall, proved for all nodes and patches), which is why LeavesScope
makes an exception of larger ones.

## 4. The proofs

**`OperationsProofs`** (from `ConstantsOK`: requests are well formed, the names of
constants are distinct).  TypeCorrect; then three inductive invariants, all in
`Operations` beside the property each is for.  ChildrenPrecede is not
inductive because children are captured long before the report is made:
`ChildrenInv` adds that every ID in a RecentReporter or captured from one is in the
log and was made under that sequence.  AtMostOnce needs `ReuseInv`: while an unforced
call is between its check and its report, every matching success in the log is
newer than what it read.  SeriesInBounds needs `SeriesInv`: a running call has
collected no more reports than the series has successes, which is a fact about
cardinalities.  LogCorrect proves the refinement of ReportLog from these and
`AnswerInv`.  ResultsCorrect (`ResultsInv`: a call that has read the log holds a
success of its own operation, input and series) is about single calls; ReportsCorrect is about who
waits for whom.  Its first half has `ExclusiveSeries` as hypothesis: while a call
runs a series, nobody else adds to it, so what it has collected is what the log
has of it (`SeriesCompleteInv`).  The second has `HandlersJoin`: when a
handler returns, no call below it is active (`ActiveBelow`, `NothingPending`), so every
child report has reached all RecentReporters above it (`ChainInv`, `CompleteInv`).

**`DataStoreProofs`** (from `StoresAssumption`).  MergeAssociative and MergeIdempotent
are algebraic facts about Merge.  ChainedCorrect follows from associativity;
CloneCorrect needs that a merged store never has a key both live and staged,
and that a staged key parses.  MergeCorrect takes the three loops of Merge as folds
over the finite set of keys and shows by induction on the processed part that they
end in what `Merge` says.  TransactionsIsolated is about the in-memory
catalog: `CatInv` is the types, `WritesSound` (what is stored stems from writes that are over,
each made in one transaction at most), `SeesSound` (nobody sees a write that was undone, or one of another
transaction that is open) and `SerialSound` (the operations of an open transaction that was not
overtaken, replayed one at a time on the catalog as it is now, make what is in its
buffer; so when it commits, it could have run alone at that moment).  The proof is for
any number of goroutines and any depth of nesting.

The same module proves the merge and sync commands (`DatastoreMerge`, from
`StoresAssumption` and `MergeAssumption`).  The invariant is MergeTypeOK, `CommandInv` (a command past the catalog has set its cells
there; one that writes holds the outcome for the cells it touches and what
the files hold for the others, and the files before `next` have it), `OneAtATime`,
`AgreeInv` (a cell on which the two differ is lost from a damaged file, awaits the
migration, or has a pending changeset that is ahead in the catalog and can be
merged) and MergedVisible.  PendingStays is the key lemma: only the step that completes
its merge takes a changeset out of `Pending`, hence a cell becomes settled only by the
success of a merge that touches it.  VisibleCorrect
and the other two have `Discipline` as hypothesis.

**`EvmProofs`** (from the assumptions of `EvmClient` and `StagesAssumption`).
OperationsUseClients: every step of `EvmContracts` is, on the variables of the
clients, a step of `EvmClient` or a stutter; so what holds of the clients under any
use holds under the operations.  ClientsStayConsistent and ClientsAreKept rest on the
fact that `Source(n, r, _)` is a permutation of `1..n` for every index `r` (SourceFacts,
SourceOnto), so that reordering by an index that is out of date loses and doubles
nothing; the inductive invariant `ClientInv` adds that the snapshot of a call is
as long as the list.  EffectsCorrect adds to `ClientInv` what an operation knows of
its own transaction: `Staged` (which of estimate, nonce, send and confirm lie behind
it), `Pooled` (a transaction in a pool is not mined yet; the attempt it belongs to is waiting for it
or ended without a receipt), `Accounted` (so is a mined one that succeeded, unless it is what
the operation returned), `OutTrue` and `WriteOut` (a result that is
recorded is true of the chain).  The central lemma, `Fate`, says that a step of an operation
leaves its attempt waiting, ends it without a receipt, or returns what was mined.
StepsCorrect adds the two steps that OperationSteps is about besides ClientsKept.
AnswersComeFirst: ReorderPlaces says where reordering puts the tried clients
and the one that answered, also when the list has moved since the snapshot was taken.
GasIncreases: gas changes only from one attempt to the next, and BoostOffersMore
compares the two; a boost from nothing offers the configured initial limit, so the theorem has
the hypothesis that this is more than what a transaction gets without
(`InitialGas > TransactGas(0)`, see section 5), which the instance of the run satisfies.

**`RemoteCatalogProofs`** (from `CatalogAssumption` and `NoneAssumption`).  Three things
must be known beside the properties.  `CallsSound`: a call that is in flight is
a request of its client.  `TxsSound`: while a transaction is open, what the
service has logged of it is what was acknowledged and nothing is applied; once it
is gone, the stream stays broken until the lambda has ended, so that
nothing of the rest is applied by itself.  `RowsSound`: what a transaction has
buffered is newer than the row (`BufAhead`), and the version that a client sends with its
edit is the one of the row unless another has moved it (`Fresh`), in which case the
version of the row is greater (`Latest`).  Versions only grow, rows are locked by the
transaction that edits them: from this TransactionsAtomic, StaleOnlyWhenMoved and
NoLostUpdate follow.  Most actions are another client's for a given client, and
one lemma (OthersFresh) covers all of these.

**`PipelineProofs`** (from `PipelineAssumption`).  RepeatedOnlyAfterLoss is about the
counts of effects and the reports on disk; a run that is between the two has them in
its log.  `KnownSound` says so: where no runs have overlapped, at most one run is at a
changeset, its log contains the reports on disk, and an effect that happened is
lost, on disk, or in that log.  `LocalSound` says for each point of a run which
configuration it holds, how far the artifacts are and what is in its log;
`RecordSound` that after the reports are saved they contain every operation of the
changeset.  RunsLeaveSound follows from the last two.

**`CommandsProofs`** (from the assumptions of the five modules).
- BookKept: the properties are about one command that was not disturbed, and
  `Fresh` says what it holds at each point, with reference to the file as it is
  now; a command that writes makes all others stale.  `UndoSound` says that the
  book on disk is the one before the merge with the artifact in it, from which
  RemoveSaved gets the former back.  MigrationExact uses the same invariant.
- VerificationTold: `InScopeBefore(Top)` is the set of contracts that are behind,
  and the total is its cardinality (`CountSound`).
- AnalysisRight: LevelsExist shows that Kahn's levels are well defined for any
  graph, LevelsGrow that they grow until they stop, and `LevelSound` that the
  goroutines of a level are the ones that were added by it.
- ForkToldTruth: Nonces shows that the nonces number the operations of the chain
  without a gap, and `OrderSound` that the MCM contract has executed exactly those
  below its count; `TimelockSound` says the same of the timelock and the reports.
- JobsCorrect and NodesAccounted (from `JDAssumption`: a command line has the arguments of
  its kind; only labels-patch and save-all have `--dry-run`) share the invariant `JDInv`.
  JobsExact says that revisions have no gap, but the next revision is the *number* of
  proposals, so that `Exact` is needed: the list of a job is the set of its
  proposals, in the order of their revisions (Counted, NextRevision).  UpsertExact
  keeps it for one proposal; BatchExact for BatchProposeJob, whose loop is a function
  defined by recursion over the nodes (StepsExist shows by induction on their number that
  such a function exists, BatchExact what it gives after each of them).  `CommandInv`
  says for each point of a command which entries it has tried and how many proposals each made (0 or 1 if it
  was reported as failed, else 1), and that the ids it holds for nodes.json
  contain all that it registered and all that it read.  Accounted is then kept by the write,
  since a file that others changed meanwhile makes it raced.
- CommandsRight has four parts.  ProposalsAreKept and DryRunsWriteNothing look at single
  steps.  SmallPatchesExact and ScopeKept need `EditInv` beside JDInv: what a command
  listed is still true of a node that no other command has touched since, the nodes it
  has yet to patch are listed and named once each, and nodes, labels and requests have their
  types (which is why `JDAssumption` also types files and command lines).  The rest is
  about the loop of labels-patch.  The first label of a patch is looked up and edited in
  one array, so it is exact when no key occurs twice; after it, the index that `node.Labels` gives for
  another key names that key in `labels` too, whether the first edit was an append, with or
  without a new array, a removal or a replacement.  So two labels are exact in either
  order, and a third is not (see the finding).  ScopeKept uses the same
  lemmas for a patch, and for registration and update what becomes of the *last* label of a
  key when labels are put in front of or behind others, since that is the one the server compares.

**`RuntimeProofs`** (from `RuntimeAssumption`, `AddressBookAssumption`,
`DelayAssumption` and `PredecessorsAssumption`; changesets, chains, timelocks and proposals are arbitrary, the last two
finite).
- ExecutionSound: `RunInv` is `StateInv /\ TaskInv`.  StateInv says that what the
  chains have done for a proposal is a part of it (`Within`) and that all of a proposal that is
  marked as executed was done (`ExecutedDone`).  TaskInv says what the running
  task holds: `CallType`, `TaskSound`, and `Progress`, which compares the chains with
  `Reached`, the place in signing, roots, operations and timelock that the task has come
  to; `PendingFresh` says that SignAndExecute visits every proposal that is not executed
  once.  ExecutedOnce then follows because a step never undoes `ExecutedDone` (KeepsExecuted).
- ProposalsAreSound has the hypothesis `AskedOnce`, which the instance of the run
  satisfies, and the invariant `SignInv`: what the first signer has signed was executed or is
  being executed, unless its execution failed (`SignedFor`), so nobody signs twice.
- StateIsSound: `MergedInv` (every output that was stored is in the state), which survives because
  nothing is taken out of the state (`Grows`); that the parts of a batch keep the order of
  the builder is a fact about `At` and the places it picks (`AtPicks`, `SpecKept`).
- DelaysAreEnough: `DelayInv`, that the proposals before the current one are
  corrected and the others untouched; the maximum of a finite set exists by
  induction on it (`MaxOf`).
- QueueTurns: every open proposal has a place on each of its chains, the count it was executed at
  or else its turn (`PlaceOf`), and no step moves one (UpdatePlaces, and in ExecuteStep:
  what the op count gains the sum of the waiting operations loses).  `QueueInv` says that
  a proposal never starts beyond its place, and that what an update has
  collected, computed against the file as it is, leads to the place or not beyond it
  (`Placed`).  That needs two facts about the numbers: places do not overlap
  (PlacesApart), so the operations of all predecessors that start at or after a
  proposal fit below its place (SumFits, CountedFits); and an update in time counts exactly
  those that wait, or ends at the last of them (CollectCounts).  TopoAscends shows that the order
  of Kahn's algorithm is that of the numbers for every graph of these, and the lemmas on sums are
  inductions on the number of elements.

**`ChainProofs`** (from `ProvidersAssumption` and the other assumptions of the three modules).
- PlansAre gives the shape of the plan of every provider: one retry loop at most, which
  phases it has, that the complete chain is published last and only there.
- LoadResources: `LoadInv` has three parts.  `ProvInv` is the providers': `PortsOwned` (a
  port of the pool is free, spent, taken by a goroutine or bound by a container,
  and in one of these places only), from which the count in ResourcesSound
  follows, and for each provider what its stage implies (`StageOK`: ports are
  held during an attempt only; `NumberedOK`, `HandleOK`: the container a provider
  knows is its last), from which it follows that the containers nobody can remove
  are exactly the `Stranded` ones.  `GoroutineOK` says how far the goroutine of a chain is and `CallerOK`
  what its caller has by then.  The pool (`freeport`) has no port that
  the example configurations name (8545, 8546), which is an assumption.
- LoadAnswers: that a loaded chain is complete follows from `LoadInv`; for transactions,
  `TxSound` knows what a client that has been told of a success works on.

The proof of LoadInv needed a correction of the model: the goroutine of a provider could return
to a fork through the action of the other callers, and so past the handling
of its failure.  That of ScopeKept corrected the property: LeavesScope had left out an
update whose labels name the product or the environment and a patch of more than two labels,
which the instance of `jd` did not reach; an update without labels, which may clear them all,
is the third exception.

All these invariants were checked by TLC on the instances of the runs before they
were proved.  NatSet is induction on a set of numbers that is defined for
the purpose, which takes the place of the library's induction theorem.

**Model-checked only.**
- Liveness (Terminates, AllEnd, CommandsEnd) is out of the prover's reach.
- PatchExact does not hold (see the finding).

## 5. Deviations met while modelling

The models do what the code does; where that is not what one may expect, the property
names the exception.

- **Catalog.** `ThrowAndCatch` does not look at the status of the answers to begin, commit and
  rollback; AllOrNothing exempts transactions with such an answer.  A metadata update that
  loses a race gets a stale error, although the documentation of the updater promises "automatic
  handling of any data races"; no update is lost, though.  After a rolled back Set of
  the env metadata the version cache says 1 although there is no row, and a later
  Upsert that finds no row may replace one it has never seen.
- **Merge commands.** A changeset that stages a deletion cannot be merged again once
  its catalog transaction is committed: the deletion finds no row and the
  transaction is rolled back (`catalog_syncer.go:38`, `63`, `88`, `chain_metadata_store.go:371`).  If
  the command stopped before the files were written, they stay behind the
  catalog until another merge sets the same cells.  InSync says that this is the only
  way to differ for good.
- **In-memory catalog.** An operation reads and writes under two locks, so
  concurrent updaters lose updates; a nested WithTransaction commits on its own
  although the outer one rolls back.
- **Pipeline.** Where the chains cannot be made read-only for the post-hooks, runPostHooks
  returns that error also when Apply failed (`registry.go:253-256`), so Apply's error is not
  told, although the comment says that post-hooks never mask it (`registry.go:175`).
- **Address book.** A datastore file that a kill has left empty loads as an empty store
  (`envdir.go:171-192`), so the next command goes on from nothing; an empty address book
  is refused.
- **Job Distributor.** An update without labels clears them on the in-memory
  server (`memory_client.go:411`, `jd.go:769-770`), which can take a node out of its domain
  and environment.  ListNodes reads its nodes after it has released the mutex
  (`memory_client.go:370-380`), so an answer may mix two states.
- **MultiClient, operations.** A revert whose error has no data leaves "%!s(<nil>)" for a text
  (`helpers.go:80`), so out of gas is not recognised and not boosted; an underpriced
  replacement is boosted as if gas were missing (`gas_boost.go:181-190`).  Seth's functor
  does not look at the status of the receipt (`confirm_functor.go:162-171`).  The gas boost may offer less than a configured default
  (`gas_boost.go:142`); MaybeDeployContract may reuse the report of another chain when
  the input does not name the chain (`deploy.go:277`, constant `InputHasChain`).
- **Test runtime.** Exec is not atomic: what tasks did before a failure stays, and the
  environment is stale until a task succeeds.
- **Providers.** Canton publishes its chain before it connects the participants,
  and its CTF provider registers no container for removal and does not retry; LoadFork takes a port
  for a default Anvil configuration that is never used, leaves all its containers running, since
  the T it gives to its providers is one that no test ends and the providers are local
  (`anvil.go:242`, `250`), panics on a network without an Anvil configuration in its
  metadata (`anvil.go:288`), and returns an error for a missing Job Distributor endpoint
  although it logs that it skips it (`fork.go:113`); the test loader returns a nil
  chain and no error after `t.FailNow` in a provider.
- **Transactions.** The Tron client takes an empty result for a success
  (`client.go:107`, a TODO there).  The Solana client does not look at the error of the result it fetched,
  and `confirmTx` stops at the first query that is answered; the zkSync provider's Confirm
  ignores the status of the receipt.
- **Fork.** executeChainCommand returns at the first operation that was executed
  before, without an error, and leaves the rest out; its comment (`operations.go:82`)
  speaks of "all operations".  For a bypass or a cancellation the command
  then returns nil; a scheduled proposal still fails at the operations that are not
  scheduled.  An error of IsOperationDone is taken for "not done" (`operations.go:204`).
- **Verification.** Six verifiers read an API error as "not verified" and submit
  again; verify-env returns nil although contracts failed.
- **Predecessors.** See section 2.

## 6. What is left out of the modelled parts

- Operations: reports that no longer decode into the types of an operation,
  what an input hook does, the order and multiplicity of ExecutionReports.
- Data store: the order of records, filters, labels, conversions of metadata.
- Merge commands: the order of the catalog's calls inside the transaction; the
  JSON text of the files.
- Remote catalog: HMAC of the first request, conversion to protobuf, concurrent use
  of one client.
- Pipeline: registration (before the run), the hook timeout (cancels a context a hook may
  ignore), YAML conversion, generated input files.
- Address book: labels as such; they are part of a value of type and version, and `Unlabelled`
  is that value without them.
- EVM: delays of retry policies, deployment through the zkSync SDK.
- Job Distributor: chain configurations, keypairs, job labels, read-only
  commands, the token source.
- Providers: the generators of keys and signers are their success or failure.
- Verification: what is submitted.  Proposal analysis: renderers and example analyzers.
- Predecessors: one MCM contract per chain; the job that collects the pull
  requests is outside of the repository.

## 7. Not modelled

| part | why |
|---|---|
| sequence utilities, resolvers | no state; they chain parts that are modelled |
| KMS signing | one external call and the arithmetic of signatures |
| Canton authentication | an OAuth exchange with an external server |
| decoding and description of proposals | formatting |
| MCMS commands but execute-fork and the hooks | decoding and conversion around the external mcms library |
| code generator | templates |
| CRE runner | downloads and an external command |
| configuration | reading of files |

## 8. Plan

Every invariant and action property that the passing runs check is proved, except liveness.
What is left is breadth: the parts of section 7 that have some control of their own (the
resolvers of sequences, the other MCMS commands) and the chain configurations and
job labels of the Job Distributor.

------------------------------- MODULE Runtime -------------------------------
(***************************************************************************)
(* The test runtime (engine/test/runtime): Exec runs tasks one after the   *)
(* other on an environment.  A task applies changesets and merges their    *)
(* outputs into the state, signs a proposal, or executes proposals on the  *)
(* chains (engine/test/internal/mcmsutils).  Outputs are put together by   *)
(* deployment.MergeChangesetOutput and by OutputBuilder.                   *)
(*                                                                         *)
(* Exec holds a lock, so one call runs at a time.  Everything that a task  *)
(* does may fail, and what it did before stays.  The environment holds the *)
(* address book of the state itself, but a datastore of its own.           *)
(***************************************************************************)
EXTENDS AddressBook, Naturals, Sequences

CONSTANTS
  Calls,      \* arguments of Exec: sequences of tasks
  MaxExecs,   \* bound: calls of Exec
  EnvChains,  \* the chains of the environment
  Signers     \* the keys of SignAndExecuteProposalsTask

\* The arguments: batches of transactions, specs of timelock proposals, proposals
\* as changesets make them, the parts of changesets, and tasks.  A datastore has
\* records of a kind on a chain.
BatchOps == Seq([chain : Chains, txs : Seq(Nat)])
Specs == [merge : BOOLEAN, action : STRING, ops : BatchOps, valid : BOOLEAN]
NewProposals == [kind : {"mcms", "timelock"}, ops : BatchOps, action : STRING,
                 encodable : BOOLEAN, sigs : {<< >>}, executed : {FALSE}]
Parts == [book : {None} \cup Book, ds : {None} \cup SUBSET (STRING \X Chains),
          mcms : Seq(NewProposals), specs : Seq(Specs)]
Changesets == [composed : BOOLEAN, parts : Seq(Parts) \ {<< >>}]
Tasks == [kind : {"changesets"}, css : Seq(Changesets) \ {<< >>}]
           \cup [kind : {"signAndExecute"}]
           \cup [kind : {"sign"}, id : Nat, keys : Seq(STRING)]
           \cup [kind : {"execute"}, id : Nat]

ASSUME RuntimeAssumption ==
  /\ Calls \subseteq Seq(Tasks) \ {<< >>}
  /\ MaxExecs \in Nat
  /\ Signers \in Seq(STRING) \ {<< >>}

\* deployment/output_builder.go

\* The elements of a sequence at the places I, in their order.
At(s, I) ==
  LET sel[i \in 0..Len(s)] ==
        IF i = 0 THEN << >> ELSE IF i \in I THEN Append(sel[i - 1], s[i]) ELSE sel[i - 1]
  IN sel[Len(s)]

\* Batch operations without transactions are left out.
filterNonEmptyBatchOps(ops) == At(ops, {i \in DOMAIN ops : ops[i].txs # << >>})

\* The chains of operations in the order in which they appear first.
chainOrder(ops) ==
  At([i \in DOMAIN ops |-> ops[i].chain],
     {i \in DOMAIN ops : \A j \in 1..(i - 1) : ops[j].chain # ops[i].chain})

txPerChain(ops, c) ==
  LET txs[i \in 0..Len(ops)] ==
        IF i = 0 THEN << >>
        ELSE IF ops[i].chain = c THEN txs[i - 1] \o ops[i].txs ELSE txs[i - 1]
  IN txs[Len(ops)]

mergeBatchOpsPerChain(ops) ==
  LET kept == filterNonEmptyBatchOps(ops)
      order == chainOrder(kept)
  IN [i \in 1..Len(order) |-> [chain |-> order[i], txs |-> txPerChain(kept, order[i])]]

processBatchOps(spec) ==
  IF spec.merge THEN mergeBatchOpsPerChain(spec.ops) ELSE filterNonEmptyBatchOps(spec.ops)

\* buildTimelockProposal: the input is valid, and there is a reader for the family
\* of every chain, which finds its timelock.
Buildable(spec) ==
  /\ spec.valid
  /\ \A i \in 1..Len(processBatchOps(spec)) : Family[processBatchOps(spec)[i].chain] = "evm"

\* The specs that become proposals.
Built(specs) == At(specs, {i \in DOMAIN specs : processBatchOps(specs[i]) # << >>})

BuildFails(specs) == \E i \in 1..Len(Built(specs)) : ~Buildable(Built(specs)[i])

Proposal(kind, ops, action, encodable) ==
  [kind |-> kind, ops |-> ops, action |-> action, encodable |-> encodable,
   sigs |-> << >>, executed |-> FALSE]

Build(specs) ==
  [i \in 1..Len(Built(specs)) |->
     Proposal("timelock", processBatchOps(Built(specs)[i]), Built(specs)[i].action, TRUE)]
-----------------------------------------------------------------------------
VARIABLES
  \* State
  book, ds, proposals, outputs,
  envDs,     \* the datastore of currentEnv
  \* the call of Exec that runs
  execs,     \* calls so far
  tasks,     \* its tasks, the first is the one that runs
  pc, taskEnv,
  cs, part,  \* the changeset and the part of it that comes next
  dest,      \* the output so far
  pending,   \* proposals to sign and execute
  roots,     \* chains whose root is still to be set
  opIdx,     \* the operation that comes next
  res,
  \* the chains
  sent,      \* transactions that were sent for a proposal
  rooted, mcmsDone, timelockDone,  \* what took effect
  \* history
  dirty,     \* a call has failed since the environment was generated
  broken     \* proposals whose execution failed

state == <<book, ds, proposals, outputs>>
run == <<tasks, taskEnv, cs, part, dest, pending, roots, opIdx>>
chain == <<sent, rooted, mcmsDone, timelockDone>>
vars == <<book, ds, proposals, outputs, envDs, execs, tasks, pc, taskEnv, cs, part, dest,
          pending, roots, opIdx, res, sent, rooted, mcmsDone, timelockDone,
          dirty, broken>>

NoOutput == [book |-> None, ds |-> None, mcms |-> << >>, timelock |-> << >>]

Ids == DOMAIN proposals

TypeOK ==
  /\ book \in Book
  /\ pc \in {"idle", "task", "apply", "merge", "sign", "exec", "root", "op", "proxies",
             "ready", "timelock", "mark"}
  /\ (pc = "idle") = (tasks = << >>)
  /\ \A i \in Ids : proposals[i].sigs \in Seq(STRING) /\ proposals[i].executed \in BOOLEAN
  /\ \A i \in 1..Len(pending) : pending[i] \in Ids
  /\ roots \subseteq Chains
  /\ pc \in {"op", "timelock"} => opIdx \in 1..Len(proposals[Head(pending)].ops)
  /\ Len(sent) = Len(proposals)
  /\ execs \in 0..MaxExecs

Init ==
  /\ book = EmptyBook /\ ds = {} /\ proposals = << >> /\ outputs = {}
  /\ envDs = {} /\ execs = 0
  /\ tasks = << >> /\ pc = "idle" /\ taskEnv = {}
  /\ cs = 1 /\ part = 1 /\ dest = NoOutput
  /\ pending = << >> /\ roots = {} /\ opIdx = 1 /\ res = "none"
  /\ sent = << >> /\ rooted = << >> /\ mcmsDone = << >> /\ timelockDone = << >>
  /\ dirty = FALSE /\ broken = {}

Reset ==
  /\ taskEnv' = {} /\ cs' = 1 /\ part' = 1 /\ dest' = NoOutput
  /\ pending' = << >> /\ roots' = {} /\ opIdx' = 1

\* Exec returns the error of a task.
Fail ==
  /\ pc' = "idle" /\ tasks' = << >> /\ res' = "error"
  /\ dirty' = (dirty \/ envDs # ds')
  /\ Reset
  /\ UNCHANGED <<envDs, execs>>

\* A task has succeeded: a new environment is generated, and the next task runs.
Succeed ==
  /\ envDs' = ds' /\ dirty' = FALSE
  /\ tasks' = Tail(tasks)
  /\ pc' = IF Len(tasks) = 1 THEN "idle" ELSE "task"
  /\ res' = IF Len(tasks) = 1 THEN "ok" ELSE res
  /\ Reset
  /\ UNCHANGED execs

Exec(call) ==
  /\ pc = "idle" /\ execs < MaxExecs
  /\ execs' = execs + 1
  /\ tasks' = call /\ pc' = "task" /\ res' = "none"
  /\ UNCHANGED <<state, envDs, taskEnv, cs, part, dest, pending, roots, opIdx, chain,
                 dirty, broken>>

Task == Head(tasks)
-----------------------------------------------------------------------------
\* changesetTask and registeredChangesetsTask

\* Init of the provider and the parsing of the input may fail.
BeginChangesets ==
  /\ pc = "task" /\ Task.kind = "changesets"
  /\ UNCHANGED <<state, chain, broken>>
  /\ \/ /\ pc' = "apply" /\ taskEnv' = envDs
        /\ UNCHANGED <<envDs, execs, tasks, cs, part, dest, pending, roots, opIdx, res, dirty>>
     \/ Fail

Changeset == Task.css[cs]

\* Preconditions or a part of the changeset fail.
ApplyFails ==
  /\ pc = "apply"
  /\ UNCHANGED <<state, chain, broken>>
  /\ Fail

PartOutput(p) ==
  [book |-> p.book, ds |-> p.ds, mcms |-> p.mcms, timelock |-> Build(p.specs)]

\* A changeset that returns what its only part returned.
ApplySimple ==
  /\ pc = "apply" /\ ~Changeset.composed
  /\ ~BuildFails(Changeset.parts[1].specs)
  /\ dest' = PartOutput(Changeset.parts[1])
  /\ pc' = "merge"
  /\ UNCHANGED <<state, envDs, execs, tasks, taskEnv, cs, part, pending, roots, opIdx, res,
                 chain, dirty, broken>>

NextPart ==
  /\ part' = part + 1
  /\ pc' = IF part = Len(Changeset.parts) THEN "merge" ELSE "apply"

\* deployment.MergeChangesetOutput.  The first address book becomes that of the
\* output; the others are merged into it and into the address book of the
\* environment.  Datastores are left alone.
MergeParts ==
  /\ pc = "apply" /\ Changeset.composed
  /\ UNCHANGED <<ds, proposals, outputs, chain, broken>>
  /\ ~BuildFails(Changeset.parts[part].specs)
  /\ LET src == PartOutput(Changeset.parts[part])
         props == [dest EXCEPT !.mcms = @ \o src.mcms, !.timelock = @ \o src.timelock] IN
       \/ /\ dest.book = None \/ src.book = None
          /\ dest' = [props EXCEPT !.book = IF @ = None THEN src.book ELSE @]
          /\ NextPart
          /\ UNCHANGED <<book, envDs, execs, tasks, taskEnv, cs, pending, roots, opIdx, res,
                         dirty>>
       \/ /\ dest.book # None /\ src.book # None
          /\ \E m \in Merge(dest.book, src.book) :
               \/ /\ ~m.ok /\ Fail /\ UNCHANGED <<book>>
               \/ /\ m.ok
                  /\ \E e \in Merge(book, src.book) :
                       /\ book' = e.book
                       /\ \/ /\ ~e.ok /\ Fail
                          \/ /\ e.ok
                             /\ dest' = [props EXCEPT !.book = m.book]
                             /\ NextPart
                             /\ UNCHANGED <<envDs, execs, tasks, taskEnv, cs, pending, roots,
                                            opIdx, res, dirty>>

\* mergeProposals: MCMS proposals and then timelock proposals, up to the first that
\* does not encode.
Stored(out) ==
  LET all == out.mcms \o out.timelock
      bad == {i \in 1..Len(all) : ~all[i].encodable}
  IN IF bad = {} THEN all
     ELSE SubSeq(all, 1, (CHOOSE i \in bad : \A j \in bad : i <= j) - 1)

\* Mutant: the output is stored first.
StoresOutputFirst(ok) == TRUE

\* updateOutput comes last.
StoresOutput(ok) == ok

NextChangeset ==
  IF cs < Len(Task.css)
    THEN /\ cs' = cs + 1 /\ part' = 1 /\ dest' = NoOutput
         /\ pc' = "apply" /\ taskEnv' = ds'
         /\ UNCHANGED <<envDs, execs, tasks, pending, roots, opIdx, res, dirty>>
    ELSE Succeed

\* State.MergeChangesetOutput
MergeChangesetOutput ==
  /\ pc = "merge"
  /\ \E m \in IF dest.book = None THEN {[book |-> book, ok |-> TRUE]}
                                  ELSE Merge(book, dest.book) :
       LET new == Stored(dest)
           ok == m.ok /\ Len(new) = Len(dest.mcms) + Len(dest.timelock) IN
       /\ book' = m.book
       /\ ds' = IF m.ok /\ dest.ds # None THEN ds \cup dest.ds ELSE ds
       /\ proposals' = IF m.ok THEN proposals \o new ELSE proposals
       /\ sent' = [i \in 1..Len(proposals') |-> IF i \in Ids THEN sent[i] ELSE 0]
       /\ rooted' = [i \in 1..Len(proposals') |-> IF i \in Ids THEN rooted[i] ELSE {}]
       /\ mcmsDone' = [i \in 1..Len(proposals') |-> IF i \in Ids THEN mcmsDone[i] ELSE {}]
       /\ timelockDone' =
            [i \in 1..Len(proposals') |-> IF i \in Ids THEN timelockDone[i] ELSE {}]
       /\ outputs' = IF StoresOutput(ok)
                       THEN outputs \cup {[id |-> <<execs, Len(tasks), cs>>, out |-> dest,
                                           at |-> Len(proposals)]}
                       ELSE outputs
       /\ IF ok THEN NextChangeset ELSE Fail
  /\ UNCHANGED broken
-----------------------------------------------------------------------------
\* signProposalTask, executeProposalTask, signAndExecuteProposalTask

IsPending(i) == ~proposals[i].executed

GetPendingProposals == At([i \in Ids |-> i], {i \in Ids : IsPending(i)})

Targets ==
  IF Task.kind = "signAndExecute" THEN GetPendingProposals ELSE <<Task.id>>

BeginProposals ==
  /\ pc = "task" /\ Task.kind # "changesets"
  /\ UNCHANGED <<state, chain, broken>>
  /\ \/ /\ Targets = << >>
        /\ Succeed
     \/ /\ Targets # << >> /\ Targets[1] \in Ids
        /\ pending' = Targets /\ taskEnv' = envDs
        /\ pc' = IF Task.kind = "execute" THEN "exec" ELSE "sign"
        /\ UNCHANGED <<envDs, execs, tasks, cs, part, dest, roots, opIdx, res, dirty>>
     \/ /\ Targets # << >> /\ Targets[1] \notin Ids
        /\ Fail

Id == Head(pending)

Keys == IF Task.kind = "sign" THEN Task.keys ELSE Signers

\* All keys sign a copy of the proposal.
Signed(sigs, keys, ok) == IF ok THEN sigs \o keys ELSE sigs

SignProposal ==
  /\ pc = "sign"
  /\ UNCHANGED <<book, ds, outputs, chain, broken>>
  /\ \E ok \in BOOLEAN :
       /\ proposals' = [proposals EXCEPT ![Id].sigs = Signed(@, Keys, ok)]
       /\ \/ ok /\ Task.kind = "sign" /\ Succeed
          \/ /\ ok /\ Task.kind = "signAndExecute"
             /\ pc' = "exec"
             /\ UNCHANGED <<envDs, execs, tasks, taskEnv, cs, part, dest, pending, roots,
                            opIdx, res, dirty>>
          \/ ~ok /\ Fail

P == proposals[Id]

ChainMetadata(p) == {p.ops[i].chain : i \in 1..Len(p.ops)}

ExecFails ==
  /\ broken' = broken \cup {Id}
  /\ Fail

Keep == UNCHANGED <<envDs, execs, tasks, taskEnv, cs, part, dest, pending, res, dirty, broken>>

\* Mutant: an executed proposal is executed again.
ExecutableAlways(p) == ChainMetadata(p) \subseteq EnvChains

\* The proposal was not executed, and the environment has its chains.
Executable(p) == ~p.executed /\ ChainMetadata(p) \subseteq EnvChains

\* executeProposalTask.Run and ExecuteMCMS up to the first transaction.
ExecuteProposal ==
  /\ pc = "exec"
  /\ UNCHANGED <<state, chain>>
  /\ \/ /\ Executable(P)
        /\ pc' = "root" /\ roots' = ChainMetadata(P)
        /\ Keep /\ UNCHANGED opIdx
     \/ /\ ~P.executed
        /\ ExecFails
     \/ /\ P.executed
        /\ Fail /\ UNCHANGED broken

\* The transaction is rejected, is accepted but not confirmed, or both succeed.
Outcomes == {"rejected", "unconfirmed", "ok"}

Send(o) == sent' = [sent EXCEPT ![Id] = IF o = "rejected" THEN @ ELSE @ + 1]

SetRoot(c) ==
  /\ pc = "root" /\ c \in roots
  /\ UNCHANGED <<state, mcmsDone, timelockDone>>
  /\ \E o \in Outcomes :
       /\ Send(o)
       /\ rooted' = [rooted EXCEPT ![Id] = IF o = "rejected" THEN @ ELSE @ \cup {c}]
       /\ \/ /\ o = "ok"
             /\ roots' = roots \ {c}
             /\ pc' = IF roots = {c} THEN "op" ELSE "root"
             /\ opIdx' = 1 /\ Keep
          \/ o # "ok" /\ ExecFails

\* Mutant: transactions are not confirmed.
AdvancesUnconfirmed(o) == TRUE

Advances(o) == o = "ok"

\* What comes after the last operation on the MCMS contracts.
AfterMCMS(p) ==
  IF p.kind = "timelock" /\ p.action = "schedule" THEN "proxies" ELSE "mark"

ExecuteOp ==
  /\ pc = "op"
  /\ UNCHANGED <<state, rooted, timelockDone>>
  /\ \E o \in Outcomes :
       /\ Send(o)
       /\ mcmsDone' = [mcmsDone EXCEPT ![Id] = IF o = "rejected" THEN @ ELSE @ \cup {opIdx}]
       /\ \/ /\ Advances(o) /\ opIdx < Len(P.ops)
             /\ opIdx' = opIdx + 1
             /\ UNCHANGED pc /\ Keep
          \/ /\ Advances(o) /\ opIdx = Len(P.ops)
             /\ opIdx' = 1
             /\ pc' = AfterMCMS(P) /\ Keep
          \/ ~Advances(o) /\ ExecFails
       /\ IF Advances(o) THEN UNCHANGED roots ELSE TRUE

\* findCallProxyAddressForTimelock: one timelock with the address of the proposal
\* and one call proxy with its qualifier, in the datastore of the environment.
CallProxyFound(c) == <<"RBACTimelock", c>> \in taskEnv /\ <<"CallProxy", c>> \in taskEnv

FindCallProxies ==
  /\ pc = "proxies"
  /\ UNCHANGED <<state, chain>>
  /\ \/ /\ \A c \in ChainMetadata(P) : Family[c] = "evm" => CallProxyFound(c)
        /\ pc' = "ready" /\ Keep /\ UNCHANGED <<roots, opIdx>>
     \/ /\ \E c \in ChainMetadata(P) : Family[c] = "evm" /\ ~CallProxyFound(c)
        /\ ExecFails

\* IsReady is asked until it says so, or the attempts are used up.
IsReady ==
  /\ pc = "ready"
  /\ UNCHANGED <<state, chain>>
  /\ \/ pc' = "timelock" /\ Keep /\ UNCHANGED <<roots, opIdx>>
     \/ ExecFails

ExecuteTimelockOp ==
  /\ pc = "timelock"
  /\ UNCHANGED <<state, rooted, mcmsDone>>
  /\ \E o \in Outcomes :
       /\ Send(o)
       /\ timelockDone' =
            [timelockDone EXCEPT ![Id] = IF o = "rejected" THEN @ ELSE @ \cup {opIdx}]
       /\ \/ /\ o = "ok" /\ opIdx < Len(P.ops)
             /\ opIdx' = opIdx + 1
             /\ UNCHANGED <<pc, roots>> /\ Keep
          \/ /\ o = "ok" /\ opIdx = Len(P.ops)
             /\ opIdx' = 1
             /\ pc' = "mark" /\ UNCHANGED roots /\ Keep
          \/ o # "ok" /\ ExecFails

\* The next pending proposal, or the end of the task.
MarkProposalExecuted ==
  /\ pc = "mark"
  /\ UNCHANGED <<book, ds, outputs, chain, broken>>
  /\ proposals' = [proposals EXCEPT ![Id].executed = TRUE]
  /\ \/ /\ Len(pending) > 1
        /\ pending' = Tail(pending) /\ pc' = "sign"
        /\ UNCHANGED <<envDs, execs, tasks, taskEnv, cs, part, dest, roots, opIdx, res, dirty>>
     \/ /\ Len(pending) = 1
        /\ Succeed

Done ==
  /\ pc = "idle" /\ execs = MaxExecs
  /\ UNCHANGED vars

Next ==
  \/ \E call \in Calls : Exec(call)
  \/ BeginChangesets \/ ApplyFails \/ ApplySimple \/ MergeParts \/ MergeChangesetOutput
  \/ BeginProposals \/ SignProposal \/ ExecuteProposal \/ ExecuteOp
  \/ \E c \in Chains : SetRoot(c)
  \/ FindCallProxies \/ IsReady \/ ExecuteTimelockOp \/ MarkProposalExecuted
  \/ Done

Spec == Init /\ [][Next]_vars
-----------------------------------------------------------------------------
\* A stored output is in the state with all of its parts: its addresses, its
\* records, and its proposals, each with the transactions of its specs in order.
OutputsMerged ==
  \A o \in outputs :
    /\ o.out.book # None =>
         \A p \in Entries(o.out.book) : book[Standard(p)] = o.out.book[p]
    /\ o.out.ds # None => o.out.ds \subseteq ds
    /\ LET all == o.out.mcms \o o.out.timelock IN
         /\ o.at + Len(all) <= Len(proposals)
         /\ \A i \in 1..Len(all) : proposals[o.at + i].ops = all[i].ops

\* A proposal is marked as executed only when every root is set, every operation
\* took effect on the MCMS contracts and, if it was scheduled, on the timelocks,
\* and all of it was confirmed: at least one transaction each was sent.
ExecutedDone ==
  \A i \in Ids :
    proposals[i].executed =>
      LET p == proposals[i] IN
      /\ rooted[i] = ChainMetadata(p)
      /\ mcmsDone[i] = 1..Len(p.ops)
      /\ AfterMCMS(p) = "proxies" => timelockDone[i] = 1..Len(p.ops)

\* Nothing is sent for a proposal that is marked as executed, by whatever tasks and
\* calls come later, and a proposal stays marked.
ExecutedOnce ==
  [][\A i \in Ids :
       proposals[i].executed => proposals'[i].executed /\ sent'[i] = sent[i]]_vars

\* A task works on the datastore of the state, unless a call failed before and no
\* task has succeeded since.
EnvFresh ==
  /\ envDs # ds => (pc # "task" /\ pc # "idle") \/ dirty
  /\ pc = "apply" /\ cs > 1 => taskEnv = ds

\* The first key of SignAndExecuteProposalsTask is given to it once, and to no
\* task that only signs.
AskedOnce ==
  /\ \A j \in DOMAIN Signers : Signers[j] = Signers[1] => j = 1
  /\ \A call \in Calls : \A j \in DOMAIN call :
       call[j].kind = "sign" => \A k \in DOMAIN call[j].keys : call[j].keys[k] # Signers[1]

\* A key signs a proposal twice only when the execution of the proposal has
\* failed, and was tried again, or when it was asked to.
SignedAgainOnlyAfterFailure ==
  \A i \in Ids \ broken : \A j, k \in DOMAIN proposals[i].sigs :
    proposals[i].sigs[j] = Signers[1] /\ proposals[i].sigs[k] = Signers[1] => j = k

\* The batch operations that are built are one per chain when they are merged,
\* none is empty, and every chain has its transactions in the order of the spec.
BatchesKept ==
  pc = "apply" =>
    \A i \in 1..Len(Changeset.parts[part].specs) :
      LET spec == Changeset.parts[part].specs[i]
          ops == processBatchOps(spec) IN
      /\ \A c \in Chains : txPerChain(ops, c) = txPerChain(spec.ops, c)
      /\ \A j \in 1..Len(ops) : ops[j].txs # << >>
      /\ \A j, k \in 1..Len(ops) :
           (j < k /\ spec.merge) =>
             /\ ops[j].chain # ops[k].chain
             /\ \E m \in 1..Len(spec.ops) :
                  /\ spec.ops[m].chain = ops[j].chain /\ spec.ops[m].txs # << >>
                  /\ \A n \in 1..m : spec.ops[n].chain = ops[k].chain => spec.ops[n].txs = << >>

(* The state of a test runtime after any sequence of calls, failed ones    *)
(* included: every stored output is in it, with all transactions of its    *)
(* proposals, and the next task works on an environment made from it.      *)
StateSound == TypeOK /\ OutputsMerged /\ EnvFresh /\ BatchesKept

(* A proposal marked as executed took effect in all of its parts, and a    *)
(* proposal is signed a second time only if its execution failed.          *)
ProposalsSound == ExecutedDone /\ SignedAgainOnlyAfterFailure
=============================================================================

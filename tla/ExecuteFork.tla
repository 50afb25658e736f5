----------------------------- MODULE ExecuteFork -----------------------------
(***************************************************************************)
(* mcms execute-fork: a timelock proposal is executed on a fork of one     *)
(* chain.  The root of the proposal is set on the MCM contract, its        *)
(* operations are executed there, which schedules them on the timelock;    *)
(* the time of the fork is moved and the timelock executes them.  The      *)
(* chain may have seen a part of the proposal before it was forked.        *)
(***************************************************************************)
EXTENDS Naturals, Sequences, FiniteSets

CONSTANT Forks  \* what the command may be started with; see ForkTypes

\* ops: for each operation, whether it is one of the selected chain; test and
\* salt: the flags; override: OverridePreviousRoot in the file; valid: signed by
\* the signers of the contract and not expired; hooks: LoadChangesets is set.
ForkTypes ==
  [chain : {"evm", "zksync", "other"}, ops : Seq(BOOLEAN), action : {"schedule", "bypass", "cancel"},
   test : BOOLEAN, salt : BOOLEAN, override : BOOLEAN, valid : BOOLEAN, hooks : BOOLEAN]

ASSUME ForksAssumption == Forks \subseteq ForkTypes

VARIABLES fork,     \* what this run was started with, rigid
          foreign,  \* history: operations executed by others, most of them before the fork
          fpc,      \* what the command does next
          fop,      \* the operation it is at
          root,     \* external: the root on the MCM contract: "file", "new" (as signed here) or "old"
          count,    \* external: operations of the proposal the MCM contract has executed
          lock,     \* external: operation -> "unset", "pending", "ready" or "done"
          owner,    \* external: the owner of the MCM contract, "orig" or "test"
          signer,   \* external: whose signatures it accepts, "orig" or "test"
          reports,  \* the reports of timelockExecuteChainCommand: [op, ok]
          given,    \* what the hooks of the proposal were given, << >> or <<reports>>
          failed,   \* execErr # nil
          fout      \* what the command returned: "none", "nil" or "error"

chainVars == <<root, count, lock, owner, signer>>
forkVars == <<fork, foreign, fpc, fop, chainVars, reports, given, failed, fout>>

ProposalOps == 1 .. Len(fork.ops)
Mine == {i \in ProposalOps : fork.ops[i]}

\* TxNonce, counted from the proposal's StartingOpCount.
TxNonce(i) == Cardinality({j \in Mine : j < i})

\* The operations get new identifiers with a random salt, and so the proposal a
\* new root; the test signer sets OverridePreviousRoot, which is in the root too.
Salted == fork.salt /\ fork.action = "schedule"
Root == IF Salted \/ (fork.test /\ ~fork.override) THEN "new" ELSE "file"

\* What is on the chain when it is forked: nothing of the proposal, a part of it
\* under its own root, or all of it.
ForkInit(S) ==
  /\ fork \in S
  /\ foreign \in 0 .. Cardinality(Mine) /\ count = foreign
  /\ root \in (IF count \in {0, Cardinality(Mine)} THEN {"file", "old"} ELSE {"file"})
  /\ lock \in [ProposalOps -> {"unset", "pending", "ready", "done"}]
  /\ \A i \in ProposalOps :
       LET seen == i \in Mine /\ TxNonce(i) < count /\ ~Salted IN
       /\ seen <=> lock[i] # "unset"
       /\ seen /\ fork.action # "schedule" => lock[i] = "done"
  /\ fpc = "load" /\ fop = 1 /\ owner = "orig" /\ signer = "orig"
  /\ reports = << >> /\ given = << >> /\ failed = FALSE /\ fout = "none"

Ends(o) == fpc' = "done" /\ fout' = o
Goes(l) == fpc' = l /\ UNCHANGED fout
Rigid == UNCHANGED <<fork, foreign>>
Same == UNCHANGED <<reports, given, failed>> /\ Rigid

\* LoadProposalConfig, with the environment of the fork.
Load ==
  /\ fpc = "load"
  /\ Goes("start") \/ Ends("error")
  /\ UNCHANGED <<fop, chainVars>> /\ Same

\* Chains that are not EVM, or need another node than Anvil, are left alone.
StartFork ==
  /\ fpc = "start"
  /\ \/ fork.chain # "evm" /\ Ends("nil")
     \/ fork.chain # "other" /\ Ends("error")
     \/ fork.chain = "evm" /\ Goes(IF fork.test THEN "owner" ELSE "root")
  /\ UNCHANGED <<fop, chainVars>> /\ Same

\* SetMCMSigner writes the slot of the owner,
SetOwner ==
  /\ fpc = "owner"
  /\ \/ owner' = "test" /\ Goes("config")
     \/ UNCHANGED owner /\ Ends("error")
  /\ UNCHANGED <<fop, root, count, lock, signer>> /\ Same

\* sets the signers as the owner, and writes the slot back, whatever happened,
\* unless that write fails, which is only logged.  That the transaction is mined
\* is not that it succeeded.
SetSigner ==
  /\ fpc = "config"
  /\ owner' \in {"orig", owner}
  /\ \/ signer' = "test" /\ (Goes("sign") \/ Ends("error"))
     \/ UNCHANGED signer /\ (Goes("sign") \/ Ends("error"))
  /\ UNCHANGED <<fop, root, count, lock>> /\ Same

\* The proposal is signed with the test key, which must be a quorum; the
\* deployer key of the chain is replaced too.
Sign ==
  /\ fpc = "sign"
  /\ (signer = "test" /\ Goes("root")) \/ Ends("error")
  /\ UNCHANGED <<fop, chainVars>> /\ Same

(***************************************************************************)
(* A transaction is refused, or takes effect and is confirmed, or takes    *)
(* effect without that being seen.  confirmTransaction takes a receipt of  *)
(* success for a confirmation that failed.                                 *)
(***************************************************************************)
Sends(effect, none, confirmed, unconfirmed) ==
  \/ effect /\ (confirmed \/ unconfirmed)
  \/ none /\ unconfirmed

\* external: the contract takes a root signed by its signers when no operation
\* of it has been executed.
RootAccepted == count = 0 /\ (IF fork.test THEN signer = "test" ELSE fork.valid)

SetRoot ==
  /\ fpc = "root"
  /\ IF root = Root
     THEN (Goes("exec") \/ Ends("error")) /\ UNCHANGED root
     ELSE Sends(RootAccepted /\ root' = Root, UNCHANGED root, Goes("exec"), Ends("error"))
  /\ fop' = 1
  /\ UNCHANGED <<count, lock, owner, signer>> /\ Same

\* checkTxNonce: an operation that was executed before ends executeChainCommand,
\* and the ones after it are not looked at.
CheckNonce ==
  /\ fpc = "exec" /\ fop \in Mine
  /\ \/ TxNonce(fop) < count /\ Goes("time")
     \/ TxNonce(fop) = count /\ Goes("execute")
     \/ Ends("error")
  /\ UNCHANGED <<fop, chainVars>> /\ Same

\* An operation of another chain; the end of the operations.
SkipOp ==
  /\ fpc \in {"exec", "timelock"} /\ fop \in ProposalOps \ Mine
  /\ fop' = fop + 1
  /\ UNCHANGED <<fpc, fout, chainVars>> /\ Same

EndOps ==
  /\ fpc = "exec" /\ fop \notin ProposalOps
  /\ Goes("time")
  /\ UNCHANGED <<fop, chainVars>> /\ Same

\* external: what the operation i does when the MCM contract executes it.
Executes(i) ==
  /\ count' = count + 1
  /\ lock' = [lock EXCEPT ![i] = IF fork.action = "schedule" THEN "pending" ELSE "done"]

\* The contract refuses an operation that is not the next one.  Of the answers
\* to that, PostOpCountReached is taken for success.
Execute ==
  /\ fpc = "execute"
  /\ \/ /\ count = Cardinality(Mine)
        /\ fop' = fop + 1 /\ Goes("exec") /\ UNCHANGED <<count, lock>>
     \/ Sends(TxNonce(fop) = count /\ Executes(fop), UNCHANGED <<count, lock>>,
              fop' = fop + 1 /\ Goes("exec"), UNCHANGED fop /\ Ends("error"))
  /\ UNCHANGED <<root, owner, signer>> /\ Same

\* external: execute is open to everyone that reaches the node of the fork.
OtherExecutes ==
  /\ fpc \in {"exec", "execute"} /\ root = Root
  /\ \E i \in Mine : TxNonce(i) = count /\ Executes(i)
  /\ foreign' = foreign + 1
  /\ UNCHANGED <<fork, fpc, fop, fout, root, owner, signer, reports, given, failed>>

\* The time is moved by the delay of the proposal; only what was scheduled is
\* left to do.
MoveTime ==
  /\ fpc = "time"
  /\ lock' = [i \in ProposalOps |-> IF lock[i] = "pending" THEN "ready" ELSE lock[i]]
  /\ \/ Ends("error")
     \/ fork.action # "schedule" /\ Ends("nil")
     \/ fork.action = "schedule" /\ Goes("options")
  /\ UNCHANGED <<fop, root, count, owner, signer>> /\ Same

Fails == failed' = TRUE /\ Goes("hooks")

\* The executable, the call proxy and the identifiers of the operations.
TimelockOptions ==
  /\ fpc = "options" /\ fop' = 1
  /\ (Goes("timelock") /\ UNCHANGED failed) \/ Fails
  /\ UNCHANGED <<chainVars, reports, given>> /\ Rigid

\* Mutant: it is "done".
TimelockOpSkips ==
  /\ fpc = "timelock" /\ fop \in Mine
  /\ \/ fop' = fop + 1 /\ UNCHANGED <<fpc, fout, reports>>
     \/ /\ reports' = Append(reports, [op |-> fop, ok |-> TRUE])
        /\ Goes("ready") /\ UNCHANGED fop
  /\ UNCHANGED <<chainVars, given, failed>> /\ Rigid

\* IsOperationDone: an error of the node is "not done".
TimelockOp ==
  /\ fpc = "timelock" /\ fop \in Mine
  /\ \/ /\ lock[fop] = "done"
        /\ fop' = fop + 1 /\ UNCHANGED <<fpc, fout, reports>>
     \/ /\ reports' = Append(reports, [op |-> fop, ok |-> TRUE])
        /\ Goes("ready") /\ UNCHANGED fop
  /\ UNCHANGED <<chainVars, given, failed>> /\ Rigid

\* The report of the operation becomes one of a failure.
ReportFails == reports' = [reports EXCEPT ![Len(reports)].ok = FALSE] /\ Fails

IsReady ==
  /\ fpc = "ready"
  /\ \/ lock[fop] = "ready" /\ Goes("fire") /\ UNCHANGED <<reports, failed>>
     \/ ReportFails
  /\ UNCHANGED <<fop, chainVars, given>> /\ Rigid

TimelockExecute ==
  /\ fpc = "fire"
  /\ Sends(lock' = [lock EXCEPT ![fop] = "done"], UNCHANGED lock,
           fop' = fop + 1 /\ Goes("timelock") /\ UNCHANGED <<reports, failed>>,
           UNCHANGED fop /\ ReportFails)
  /\ UNCHANGED <<root, count, owner, signer, given>> /\ Rigid

EndTimelock ==
  /\ fpc = "timelock" /\ fop \notin ProposalOps
  /\ Goes("hooks")
  /\ UNCHANGED <<fop, chainVars>> /\ Same

\* A failure is diagnosed, and returned whatever the diagnosis.
Result == IF failed THEN "error" ELSE "nil"

\* The hooks run also after a failure, where there are any and the fork has a
\* client for them; an error of theirs is logged.
Hooks ==
  /\ fpc = "hooks"
  /\ (fork.hooks /\ given' = <<reports>>) \/ UNCHANGED given
  /\ Ends(Result)
  /\ UNCHANGED <<fop, chainVars, reports, failed>> /\ Rigid

ForkStep ==
  \/ Load \/ StartFork \/ SetOwner \/ SetSigner \/ Sign \/ SetRoot \/ CheckNonce \/ SkipOp \/ EndOps
  \/ Execute \/ MoveTime \/ TimelockOptions \/ TimelockOp \/ IsReady \/ TimelockExecute
  \/ EndTimelock \/ Hooks

ForkNext == ForkStep \/ OtherExecutes

ForkSpec == ForkInit(Forks) /\ [][ForkNext]_forkVars

ForkTypeOK ==
  /\ fork \in Forks
  /\ fpc \in {"load", "start", "owner", "config", "sign", "root", "exec", "execute", "time", "options",
             "timelock", "ready", "fire", "hooks", "done"}
  /\ fop \in 1 .. Len(fork.ops) + 1
  /\ root \in {"file", "new", "old"}
  /\ count \in 0 .. Cardinality(Mine) /\ foreign \in 0 .. count
  /\ lock \in [ProposalOps -> {"unset", "pending", "ready", "done"}]
  /\ owner \in {"orig", "test"} /\ signer \in {"orig", "test"}
  /\ reports \in Seq([op : ProposalOps, ok : BOOLEAN]) /\ given \in {<< >>, <<reports>>}
  /\ failed \in BOOLEAN /\ fout \in {"none", "nil", "error"}

\* The command returns nil for an EVM chain only when every operation of the
\* chain took effect: a scheduled one is done on the timelock, whatever the
\* chain had seen, whoever executed it and whichever answers were lost.  One that
\* is not scheduled was executed by the MCM contract, unless others had executed
\* some of the proposal and not all of it: then the rest is left out without an
\* error (operations.go, the return on ErrOperationAlreadyExecuted).
ForkTold ==
  fout = "nil" /\ fork.chain = "evm" =>
    \/ \A i \in Mine : lock[i] = "done"
    \/ fork.action # "schedule" /\ foreign > 0 /\ count < Cardinality(Mine)

\* timelockExecuteChainCommand reports what it tried and nothing else, in order:
\* an operation reported as a success is done, or is the one being executed; only
\* the last report may be a failure, and then the command fails.
ReportsSound ==
  \A k \in 1 .. Len(reports) :
    /\ reports[k].op \in Mine
    /\ k > 1 => reports[k - 1].op < reports[k].op
    /\ reports[k].ok => lock[reports[k].op] = "done" \/ (k = Len(reports) /\ fpc \in {"ready", "fire"})
    /\ ~reports[k].ok => k = Len(reports) /\ failed

\* The hooks of the proposal see how the execution ended: they get all reports,
\* and when an operation failed the last one says so.
HooksTold ==
  given # << >> =>
    /\ given = <<reports>>
    /\ failed /\ Len(reports) > 0 => ~reports[Len(reports)].ok

ForkSound == ForkTypeOK /\ ForkTold /\ ReportsSound /\ HooksTold
=============================================================================

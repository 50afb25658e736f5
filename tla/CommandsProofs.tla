--------------------------- MODULE CommandsProofs ---------------------------
(***************************************************************************)
(* Five parts of the command line, each for any size of its inputs: the    *)
(* execution of a proposal on a fork, the address book commands, contract  *)
(* verification, the analysis of a proposal and the commands of the Job    *)
(* Distributor.                                                            *)
(***************************************************************************)
EXTENDS AddressBookFiles, Verification, ProposalAnalysis, ExecuteFork, JobDistributor,
        FiniteSetTheorems, WellFoundedInduction, TLAPS

-----------------------------------------------------------------------------
(* execute-fork.                                                           *)

\* The operations of the chain before i.
Earlier(i) == {j \in Mine : j < i}

\* What the proof uses of TxNonce: it numbers the operations of the chain.
NonceFacts ==
  /\ Cardinality(Mine) \in Nat /\ Mine \subseteq ProposalOps
  /\ Len(fork.ops) \in Nat
  /\ \A i \in Nat : TxNonce(i) \in Nat
  /\ \A i \in Mine : TxNonce(i) < Cardinality(Mine) /\ TxNonce(i + 1) = TxNonce(i) + 1
  /\ \A i \in ProposalOps \ Mine : TxNonce(i + 1) = TxNonce(i)
  /\ \A i, j \in Mine : TxNonce(i) = TxNonce(j) => i = j
  /\ TxNonce(1) = 0 /\ TxNonce(Len(fork.ops) + 1) = Cardinality(Mine)

\* The operations that come before another are finitely many, and the next one
\* has one more before it, itself, when it is of the chain.
LEMMA EarlierFinite ==
  ASSUME fork \in Forks
  PROVE  /\ Len(fork.ops) \in Nat /\ Mine \subseteq ProposalOps
         /\ IsFiniteSet(Mine) /\ Cardinality(Mine) \in Nat
         /\ \A i \in Nat : /\ IsFiniteSet(Earlier(i)) /\ Cardinality(Earlier(i)) \in Nat
                           /\ i \in Mine => Earlier(i + 1) = Earlier(i) \cup {i} /\ i \notin Earlier(i)
                           /\ i \notin Mine => Earlier(i + 1) = Earlier(i)
<1>1. fork.ops \in Seq(BOOLEAN) BY ForksAssumption DEF ForkTypes
<1>2. Len(fork.ops) \in Nat BY <1>1
<1>3. Mine \subseteq ProposalOps BY DEF Mine
<1>4. IsFiniteSet(ProposalOps) BY <1>2, FS_Interval DEF ProposalOps
<1>5. IsFiniteSet(Mine) BY <1>3, <1>4, FS_Subset
<1>6. ASSUME NEW i \in Nat
      PROVE  /\ IsFiniteSet(Earlier(i))
             /\ i \in Mine => Earlier(i + 1) = Earlier(i) \cup {i} /\ i \notin Earlier(i)
             /\ i \notin Mine => Earlier(i + 1) = Earlier(i)
  <2>1. IsFiniteSet(Earlier(i)) BY <1>5, FS_Subset DEF Earlier
  <2>2. \A j \in Mine : j \in Nat BY <1>2, <1>3 DEF ProposalOps
  <2>3. \A j \in Mine : j < i + 1 <=> j < i \/ j = i BY <2>2
  <2>4. ~(i < i) OBVIOUS
  <2> QED BY <2>1, <2>3, <2>4 DEF Earlier
<1> QED BY <1>2, <1>3, <1>5, <1>6, FS_CardinalityType

\* The nonces are numbers from 0, without gaps and without repetition.
LEMMA Nonces ==
  ASSUME fork \in Forks PROVE NonceFacts
<1>0. \A i : TxNonce(i) = Cardinality(Earlier(i)) BY DEF TxNonce, Earlier
<1>1. /\ Len(fork.ops) \in Nat /\ Mine \subseteq ProposalOps /\ ProposalOps = 1 .. Len(fork.ops)
      /\ IsFiniteSet(Mine) /\ Cardinality(Mine) \in Nat
  BY EarlierFinite DEF ProposalOps
<1>2. \A i \in Mine : i \in Nat /\ i >= 1 /\ i <= Len(fork.ops) BY <1>1
<1>3. ASSUME NEW i \in Mine PROVE TxNonce(i + 1) = TxNonce(i) + 1
  <2>1. i \in Nat BY <1>2
  <2>2. IsFiniteSet(Earlier(i)) /\ Earlier(i + 1) = Earlier(i) \cup {i} /\ i \notin Earlier(i)
    BY <2>1, EarlierFinite
  <2>3. Cardinality(Earlier(i) \cup {i}) = Cardinality(Earlier(i)) + 1 BY <2>2, FS_AddElement
  <2> QED BY <2>2, <2>3, <1>0
<1>4. \A i \in ProposalOps \ Mine : TxNonce(i + 1) = TxNonce(i)
  <2>1. \A i \in ProposalOps : i \in Nat BY <1>1
  <2> QED BY <2>1, <1>0, EarlierFinite, Zenon
<1>5. \A i \in Nat : TxNonce(i) \in Nat BY <1>0, EarlierFinite
<1>6. ASSUME NEW i \in Nat, NEW j \in Nat, i < j PROVE TxNonce(i) <= TxNonce(j)
  <2>1. Earlier(i) \subseteq Earlier(j) BY <1>2, <1>6 DEF Earlier
  <2>2. IsFiniteSet(Earlier(j)) BY EarlierFinite
  <2>3. Cardinality(Earlier(i)) <= Cardinality(Earlier(j)) BY <2>1, <2>2, FS_Subset
  <2> QED BY <2>3, <1>0
<1>7. ASSUME NEW i \in Mine, NEW j \in Mine, i < j PROVE TxNonce(i) < TxNonce(j)
  <2>1. i \in Nat /\ j \in Nat BY <1>2
  <2>2. i + 1 = j \/ i + 1 < j BY <2>1, <1>7
  <2>3. TxNonce(i + 1) <= TxNonce(j) BY <2>1, <2>2, <1>6, <1>5
  <2> QED BY <2>1, <2>3, <1>3, <1>5
<1>8. ASSUME NEW i \in Mine, NEW j \in Mine, TxNonce(i) = TxNonce(j) PROVE i = j
  <2>1. i \in Nat /\ j \in Nat /\ TxNonce(i) \in Nat /\ TxNonce(j) \in Nat BY <1>2, <1>5
  <2>2. i < j \/ j < i \/ i = j BY <2>1
  <2> QED BY <2>1, <2>2, <1>7, <1>8
<1>9. TxNonce(1) = 0
  <2>1. Earlier(1) = {} BY <1>2 DEF Earlier
  <2> QED BY <2>1, <1>0, FS_EmptySet
<1>10. TxNonce(Len(fork.ops) + 1) = Cardinality(Mine)
  <2>1. \A i \in Mine : i < Len(fork.ops) + 1 BY <1>1, <1>2
  <2>2. Earlier(Len(fork.ops) + 1) = Mine BY <2>1, Zenon DEF Earlier
  <2> QED BY <2>2, <1>0
<1>11. ASSUME NEW i \in Mine PROVE TxNonce(i) < Cardinality(Mine)
  <2> DEFINE m == i + 1
             n == Len(fork.ops) + 1
  <2>1. m \in Nat /\ n \in Nat /\ i \in Nat /\ (m = n \/ m < n) BY <1>1, <1>2
  <2>2. TxNonce(m) = TxNonce(i) + 1 /\ TxNonce(n) = Cardinality(Mine) BY <1>3, <1>10
  <2> HIDE DEF m, n
  <2>3. TxNonce(m) = TxNonce(n) \/ TxNonce(m) <= TxNonce(n) BY <2>1, <1>6, Zenon
  <2>4. TxNonce(i) \in Nat /\ TxNonce(m) \in Nat /\ TxNonce(n) \in Nat BY <2>1, <1>5
  <2> QED BY <2>2, <2>3, <2>4
<1> QED BY <1>1, <1>3, <1>4, <1>5, <1>8, <1>9, <1>10, <1>11 DEF NonceFacts

\* Before the root is set, the operations that the contract has executed are those
\* that others had before the fork; a salted proposal is a new one.
Unstarted == {"load", "start", "owner", "config", "sign", "root"}

\* The contract executes the operations of the chain in order, and a command that
\* is alone executes the one that it is at.
OrderSound ==
  /\ fpc \in Unstarted => /\ count = foreign /\ root # "new"
                          /\ Salted => \A i \in Mine : lock[i] = "unset"
  /\ fpc \in {"exec", "execute", "time"} \/ (fpc \in Unstarted /\ ~Salted) =>
       \A i \in Mine : lock[i] # "unset" <=> TxNonce(i) < count
  /\ fpc \in {"exec", "execute"} /\ foreign = 0 => count = TxNonce(fop)
  /\ fpc = "time" /\ foreign = 0 => count = Cardinality(Mine)
  /\ fpc = "execute" => fop \in Mine
  /\ fork.action # "schedule" => \A i \in Mine : lock[i] \in {"unset", "done"}
  /\ fout = "none" <=> fpc # "done"

\* The timelock executes one operation after the other.
TimelockSound ==
  /\ fpc \in Unstarted \cup {"exec", "execute", "time", "options"} => reports = << >>
  /\ fpc \in {"options", "timelock", "ready", "fire", "hooks"} => fork.action = "schedule"
  /\ fpc \in {"ready", "fire"} =>
       fop \in Mine /\ Len(reports) > 0 /\ reports[Len(reports)] = [op |-> fop, ok |-> TRUE]
  /\ fpc \in {"timelock", "ready", "fire"} => \A i \in Mine : i < fop => lock[i] = "done"
  /\ fpc = "timelock" => \A k \in 1 .. Len(reports) : reports[k].op < fop /\ reports[k].ok
  /\ fpc = "hooks" /\ ~failed => \A i \in Mine : lock[i] = "done"
  /\ failed => /\ fpc \in {"hooks", "done"} /\ fout # "nil"
               /\ Len(reports) > 0 => ~reports[Len(reports)].ok
  /\ given # << >> => fpc = "done"

ForkInv == ForkSound /\ OrderSound /\ TimelockSound

\* The proposal does not change during a run.
LEMMA ForkRigid ==
  ASSUME fork' = fork
  PROVE  /\ Mine' = Mine /\ ProposalOps' = ProposalOps /\ (Salted <=> Salted') /\ Root' = Root
         /\ \A i : TxNonce(i)' = TxNonce(i)
BY DEF Mine, ProposalOps, Salted, Root, TxNonce

\* The contract executes the operation i, which is the next one.
NextExecuted(i) == i \in Mine /\ TxNonce(i) = count /\ Executes(i)

\* After that the operations executed are again those below the count.
Executed ==
  /\ count' = count + 1 /\ count' \in 0 .. Cardinality(Mine) /\ foreign \in 0 .. count'
  /\ foreign + 1 \in 0 .. count'
  /\ lock' \in [ProposalOps -> {"unset", "pending", "ready", "done"}]
  /\ \A j \in Mine : lock'[j] # "unset" <=> TxNonce(j) < count'
  /\ fork.action # "schedule" => \A j \in Mine : lock'[j] \in {"unset", "done"}

\* The next operation is then the one after i, and i is in the timelock or done.
LEMMA ExecutedOrder ==
  ASSUME NonceFacts, ForkTypeOK, NEW i, NextExecuted(i),
         \A j \in Mine : lock[j] # "unset" <=> TxNonce(j) < count,
         fork.action # "schedule" => \A j \in Mine : lock[j] \in {"unset", "done"}
  PROVE  Executed
<1> DEFINE v == IF fork.action = "schedule" THEN "pending" ELSE "done"
<1>1. v \in {"pending", "done"} /\ (fork.action # "schedule" => v = "done") OBVIOUS
<1>2. i \in Mine /\ i \in ProposalOps /\ TxNonce(i) = count /\ count' = count + 1 /\ lock' = [lock EXCEPT ![i] = v]
  BY DEF NextExecuted, Executes, NonceFacts
<1> HIDE DEF v
<1>3. count \in Nat /\ Cardinality(Mine) \in Nat /\ count < Cardinality(Mine) /\ foreign \in 0 .. count
  BY <1>2 DEF ForkTypeOK, NonceFacts
<1>4. lock' \in [ProposalOps -> {"unset", "pending", "ready", "done"}] BY <1>1, <1>2 DEF ForkTypeOK
<1>5. ASSUME NEW j \in Mine
      PROVE  /\ lock'[j] = IF j = i THEN v ELSE lock[j]
             /\ TxNonce(j) \in Nat /\ (TxNonce(j) = count => j = i)
  <2>1. lock'[j] = IF j = i THEN v ELSE lock[j] BY <1>2 DEF ForkTypeOK, NonceFacts
  <2>2. j \in Nat BY DEF NonceFacts, ProposalOps
  <2> QED BY <1>2, <2>1, <2>2 DEF NonceFacts
<1>6. \A j \in Mine : lock'[j] # "unset" <=> TxNonce(j) < count + 1 BY <1>1, <1>2, <1>3, <1>5
<1>7. fork.action # "schedule" => \A j \in Mine : lock'[j] \in {"unset", "done"} BY <1>1, <1>5
<1>8. count + 1 \in 0 .. Cardinality(Mine) /\ foreign \in 0 .. count + 1 /\ foreign + 1 \in 0 .. count + 1
  BY <1>3
<1> QED BY <1>2, <1>4, <1>6, <1>7, <1>8 DEF Executed

\* The reports are in the order of the operations.
LEMMA ReportsOrdered ==
  ASSUME ReportsSound, Len(reports) \in Nat, Mine \subseteq Nat,
         NEW k \in 1 .. Len(reports), k # Len(reports)
  PROVE  reports[k].op < reports[Len(reports)].op
<1> DEFINE n == Len(reports)
           Bad == {d \in Nat : \E j \in 1 .. n : j + d + 1 = n /\ ~(reports[j].op < reports[n].op)}
<1>1. \A j \in 1 .. n : reports[j].op \in Nat BY DEF ReportsSound
<1>2. SUFFICES ASSUME Bad # {} PROVE FALSE
  <2>1. n - k - 1 \in Nat /\ k + (n - k - 1) + 1 = n OBVIOUS
  <2> QED BY <2>1
<1>3. PICK d \in Bad : \A e \in Bad : ~(<<e, d>> \in OpToRel(<, Nat))
  BY <1>2, NatLessThanWellFounded, WFMin, Zenon
<1>4. \A e \in Nat : e < d => <<e, d>> \in OpToRel(<, Nat) BY Zenon DEF OpToRel
<1>5. PICK j \in 1 .. n : j + d + 1 = n /\ ~(reports[j].op < reports[n].op) BY <1>3
<1>6. j + 1 \in 1 .. n /\ d \in Nat /\ j \in Nat BY <1>5
<1>7. reports[j].op < reports[j + 1].op
  <2>1. j + 1 > 1 /\ (j + 1) - 1 = j BY <1>6
  <2> QED BY <1>6, <2>1 DEF ReportsSound
<1>8. CASE d = 0 BY <1>5, <1>6, <1>7, <1>8
<1>9. CASE d # 0
  <2>1. d - 1 \in Nat /\ d - 1 < d /\ (j + 1) + (d - 1) + 1 = n BY <1>5, <1>6, <1>9
  <2>2. ~(d - 1 \in Bad) BY <1>3, <1>4, <2>1
  <2>3. reports[j + 1].op < reports[n].op BY <2>1, <2>2, <1>6
  <2>4. reports[j].op \in Nat /\ reports[j + 1].op \in Nat /\ reports[n].op \in Nat BY <1>1, <1>6
  <2> QED BY <1>5, <1>7, <2>3, <2>4
<1> QED BY <1>8, <1>9

\* The report of an operation that failed: it is the last one, and the command
\* fails.  Its transaction may have taken effect.
LEMMA ReportFailsSound ==
  ASSUME ForkInv, NonceFacts, fpc \in {"ready", "fire"}, ReportFails, fout' = fout,
         Mine' = Mine, ProposalOps' = ProposalOps, \A i : TxNonce(i)' = TxNonce(i),
         UNCHANGED <<fork, fop, root, count, owner, signer, given, foreign>>,
         lock' \in [ProposalOps -> {"unset", "pending", "ready", "done"}],
         \A i \in ProposalOps : lock'[i] = lock[i] \/ lock'[i] = "done"
  PROVE  ForkInv'
<1> USE DEF ForkInv, ForkSound
<1>1. fpc' = "hooks" /\ failed' = TRUE /\ reports' = [reports EXCEPT ![Len(reports)].ok = FALSE]
  BY DEF ReportFails, Fails, Goes
<1> DEFINE n == Len(reports)
           R == [op : ProposalOps, ok : BOOLEAN]
<1>2. /\ reports \in Seq(R) /\ n \in Nat /\ n > 0 /\ reports[n] = [op |-> fop, ok |-> TRUE] /\ fop \in Mine
      /\ given = << >> /\ fork.action = "schedule" /\ fop \in ProposalOps
  <2>1. reports \in Seq(R) BY DEF ForkTypeOK
  <2>2. n > 0 /\ reports[n] = [op |-> fop, ok |-> TRUE] /\ fop \in Mine /\ fork.action = "schedule"
    BY DEF TimelockSound
  <2>3. given = << >> BY DEF TimelockSound
  <2>4. fop \in ProposalOps BY <2>2 DEF NonceFacts
  <2>5. n \in Nat BY <2>1
  <2> QED BY <2>1, <2>2, <2>3, <2>4, <2>5
<1> DEFINE x == [reports[n] EXCEPT !.ok = FALSE]
<1>3. reports' = [reports EXCEPT ![n] = x] BY <1>1, Zenon
<1>4. x \in R /\ x.op = fop /\ x.ok = FALSE
  <2>1. reports[n] \in R /\ reports[n].op = fop BY <1>2
  <2> QED BY <2>1
<1> HIDE DEF R, x
<1>5. /\ reports' \in Seq(R) /\ Len(reports') = n /\ reports'[n].op = fop /\ reports'[n].ok = FALSE
      /\ \A k \in 1 .. n : k # n => reports'[k] = reports[k]
  BY <1>2, <1>3, <1>4
<1>6. ForkTypeOK' BY <1>1, <1>2, <1>5 DEF ForkTypeOK, R
<1>7. OrderSound' BY <1>1, <1>2 DEF OrderSound, Unstarted
<1>8. TimelockSound' BY <1>1, <1>2, <1>5 DEF TimelockSound, OrderSound, Unstarted
<1>9. (ForkTold /\ HooksTold)' BY <1>1, <1>2 DEF ForkTold, HooksTold, OrderSound
<1>10. ReportsSound'
  <2> SUFFICES ASSUME NEW k \in 1 .. n
               PROVE  /\ reports'[k].op \in Mine
                      /\ k > 1 => reports'[k - 1].op < reports'[k].op
                      /\ reports'[k].ok => lock'[reports'[k].op] = "done"
                      /\ ~reports'[k].ok => k = n
    BY <1>1, <1>5 DEF ReportsSound
  <2>1. reports'[k].op = reports[k].op /\ (k # n => reports'[k].ok = reports[k].ok) BY <1>2, <1>5
  <2>2. k > 1 => k - 1 \in 1 .. n /\ k - 1 # n BY <1>2
  <2>3. k > 1 => reports'[k - 1].op = reports[k - 1].op BY <1>5, <2>2
  <2>4. reports[k].op \in Mine /\ (k > 1 => reports[k - 1].op < reports[k].op) BY DEF ReportsSound
  <2>5. ~reports'[n].ok BY <1>5
  <2>6. k # n /\ reports[k].ok => lock[reports[k].op] = "done" BY DEF ReportsSound
  <2>7. ~reports[k].ok => k = n BY DEF ReportsSound
  <2>8. reports[k].op \in ProposalOps BY <2>4 DEF NonceFacts
  <2> QED BY <2>1, <2>3, <2>4, <2>5, <2>6, <2>7, <2>8
<1> QED BY <1>6, <1>7, <1>8, <1>9, <1>10

\* Every step of the command and of the others keeps the invariant.
LEMMA ForkStepSound ==
  ASSUME ForkInv, [ForkNext]_forkVars PROVE ForkInv'
<1> USE DEF ForkInv, ForkSound
<1>a. fork' = fork
  BY DEF ForkNext, ForkStep, forkVars, Same, Rigid, OtherExecutes,
     Load, StartFork, SetOwner, SetSigner, Sign, SetRoot, CheckNonce, SkipOp, EndOps, Execute,
     MoveTime, TimelockOptions, TimelockOp, IsReady, TimelockExecute, EndTimelock, Hooks
<1>b. /\ Mine' = Mine /\ ProposalOps' = ProposalOps /\ (Salted <=> Salted') /\ Root' = Root
      /\ \A i : TxNonce(i)' = TxNonce(i)
  BY <1>a, ForkRigid
<1>c. NonceFacts BY Nonces DEF ForkTypeOK
<1>d. /\ Len(fork.ops) \in Nat /\ 1 \in 1 .. Len(fork.ops) + 1
      /\ \A i \in Mine : i \in Nat /\ i >= 1 /\ i <= Len(fork.ops)
  <2>1. Len(fork.ops) \in Nat BY <1>c DEF NonceFacts
  <2>2. \A i \in Mine : i \in 1 .. Len(fork.ops) BY <1>c DEF NonceFacts, ProposalOps
  <2> QED BY <2>1, <2>2
<1>1. CASE Load \/ StartFork \/ SetOwner \/ SetSigner \/ Sign
  <2>1. /\ fpc \in Unstarted
        /\ UNCHANGED <<fop, root, count, lock, reports, given, failed, foreign>>
        /\ owner' \in {"orig", "test"} /\ signer' \in {"orig", "test"}
        /\ \/ fpc' \in Unstarted /\ fout' = fout
           \/ fpc' = "done" /\ fout' = "error"
           \/ fpc' = "done" /\ fout' = "nil" /\ fork.chain # "evm"
    BY <1>1 DEF Load, StartFork, SetOwner, SetSigner, Sign, Ends, Goes, Same, Rigid, chainVars,
                ForkTypeOK, Unstarted
  <2>2. ForkTypeOK' BY <2>1, <1>a, <1>b DEF ForkTypeOK, Unstarted
  <2>3. OrderSound' BY <2>1, <1>a, <1>b DEF OrderSound, Unstarted
  <2>4. TimelockSound' BY <2>1, <1>a, <1>b DEF TimelockSound, OrderSound, Unstarted
  <2>5. (ForkTold /\ ReportsSound /\ HooksTold)'
    BY <2>1, <1>a, <1>b DEF ForkTold, ReportsSound, HooksTold, TimelockSound, Unstarted
  <2> QED BY <2>2, <2>3, <2>4, <2>5
<1>6. CASE SetRoot
  <2>1. /\ fpc = "root" /\ fop' = 1 /\ UNCHANGED <<count, lock, owner, signer, reports, given, failed, foreign>>
        /\ (fpc' = "exec" /\ fout' = fout) \/ (fpc' = "done" /\ fout' = "error")
        /\ fpc' = "exec" => (root = Root /\ root' = root) \/ (count = 0 /\ root' = Root)
        /\ root' \in {root, Root}
    BY <1>6 DEF SetRoot, Sends, RootAccepted, Ends, Goes, Same, Rigid, chainVars
  <2>2. ForkTypeOK' BY <2>1, <1>a, <1>b, <1>d DEF ForkTypeOK, Root
  <2>3. ASSUME fpc' = "exec", NEW i \in Mine PROVE lock[i] # "unset" <=> TxNonce(i) < count
    <3>1. CASE ~Salted BY <2>1, <3>1 DEF OrderSound, Unstarted
    <3>2. CASE Salted
      <4>1. Root = "new" /\ root # "new" BY <3>2, <2>1 DEF Root, OrderSound, Unstarted
      <4>2. count = 0 BY <4>1, <2>1, <2>3
      <4>3. lock[i] = "unset" BY <3>2, <2>1 DEF OrderSound, Unstarted
      <4>4. TxNonce(i) \in Nat BY <1>c DEF NonceFacts, ProposalOps
      <4> QED BY <4>2, <4>3, <4>4
    <3> QED BY <3>1, <3>2
  <2>4. count = foreign /\ TxNonce(1) = 0 BY <2>1, <1>c DEF OrderSound, Unstarted, NonceFacts
  <2>5. OrderSound' BY <2>1, <2>3, <2>4, <1>a, <1>b DEF OrderSound, Unstarted
  <2>6. TimelockSound' BY <2>1, <1>a, <1>b DEF TimelockSound, Unstarted
  <2>7. (ForkTold /\ ReportsSound /\ HooksTold)'
    BY <2>1, <1>a, <1>b DEF ForkTold, ReportsSound, HooksTold, TimelockSound, Unstarted, OrderSound
  <2> QED BY <2>2, <2>5, <2>6, <2>7
<1>7. CASE CheckNonce
  <2>1. /\ fpc = "exec" /\ fop \in Mine
        /\ UNCHANGED <<fop, root, count, lock, owner, signer, reports, given, failed, foreign>>
        /\ \/ fpc' = "time" /\ fout' = fout /\ TxNonce(fop) < count
           \/ fpc' = "execute" /\ fout' = fout
           \/ fpc' = "done" /\ fout' = "error"
    BY <1>7 DEF CheckNonce, Ends, Goes, Same, Rigid, chainVars
  <2>2. ForkTypeOK' BY <2>1, <1>a, <1>b DEF ForkTypeOK
  <2>3. fpc' = "time" => foreign # 0
    <3>1. TxNonce(fop) \in Nat /\ count \in Nat
      BY <2>1, <1>c DEF NonceFacts, ForkTypeOK, ProposalOps
    <3> QED BY <2>1, <3>1 DEF OrderSound
  <2>4. OrderSound' BY <2>1, <2>3, <1>a, <1>b DEF OrderSound, Unstarted
  <2>5. TimelockSound' BY <2>1, <1>a, <1>b DEF TimelockSound, Unstarted
  <2>6. (ForkTold /\ ReportsSound /\ HooksTold)'
    BY <2>1, <1>a, <1>b DEF ForkTold, ReportsSound, HooksTold, OrderSound
  <2> QED BY <2>2, <2>4, <2>5, <2>6
<1>8. CASE SkipOp
  <2>1. /\ fpc \in {"exec", "timelock"} /\ fop \in ProposalOps \ Mine /\ fop' = fop + 1
        /\ UNCHANGED <<fpc, fout, root, count, lock, owner, signer, reports, given, failed, foreign>>
    BY <1>8 DEF SkipOp, Ends, Goes, Same, Rigid, chainVars
  <2>2. fop \in Nat /\ fop >= 1 /\ fop <= Len(fork.ops) /\ Len(fork.ops) \in Nat
    BY <2>1, <1>c DEF NonceFacts, ProposalOps
  <2>3. fop + 1 \in 1 .. Len(fork.ops) + 1 BY <2>2
  <2>4. ForkTypeOK' BY <2>1, <2>3, <1>a, <1>b DEF ForkTypeOK
  <2>5. TxNonce(fop + 1) = TxNonce(fop) BY <2>1, <1>c DEF NonceFacts
  <2>6. OrderSound' BY <2>1, <2>5, <1>a, <1>b DEF OrderSound, Unstarted
  <2>7. \A i \in Mine : i \in Nat /\ (i < fop + 1 => i < fop)
    <3>1. \A i \in Mine : i \in Nat /\ i # fop BY <2>1, <1>c DEF NonceFacts, ProposalOps
    <3> QED BY <3>1, <2>2
  <2>8. \A k \in 1 .. Len(reports) : reports[k].op \in Nat BY <2>7 DEF ReportsSound
  <2>9. \A k \in 1 .. Len(reports) : reports[k].op < fop => reports[k].op < fop + 1 BY <2>2, <2>8
  <2>10. TimelockSound' BY <2>1, <2>7, <2>9, <1>a, <1>b DEF TimelockSound, Unstarted
  <2>11. (ForkTold /\ ReportsSound /\ HooksTold)'
    BY <2>1, <1>a, <1>b DEF ForkTold, ReportsSound, HooksTold, OrderSound
  <2> QED BY <2>4, <2>6, <2>10, <2>11
<1>9. CASE EndOps
  <2>1. /\ fpc = "exec" /\ fop \notin ProposalOps /\ fpc' = "time" /\ fout' = fout
        /\ UNCHANGED <<fop, root, count, lock, owner, signer, reports, given, failed, foreign>>
    BY <1>9 DEF EndOps, Ends, Goes, Same, Rigid, chainVars
  <2>2. fop = Len(fork.ops) + 1
    <3>1. fop \in 1 .. Len(fork.ops) + 1 /\ ~(fop \in 1 .. Len(fork.ops))
      BY <2>1 DEF ProposalOps, ForkTypeOK
    <3> QED BY <3>1, <1>d
  <2>3. TxNonce(fop) = Cardinality(Mine) BY <2>2, <1>c DEF NonceFacts
  <2>4. ForkTypeOK' BY <2>1, <1>a, <1>b DEF ForkTypeOK
  <2>5. OrderSound' BY <2>1, <2>3, <1>a, <1>b DEF OrderSound, Unstarted
  <2>6. TimelockSound' BY <2>1, <1>a, <1>b DEF TimelockSound, Unstarted
  <2>7. (ForkTold /\ ReportsSound /\ HooksTold)'
    BY <2>1, <1>a, <1>b DEF ForkTold, ReportsSound, HooksTold, OrderSound
  <2> QED BY <2>4, <2>5, <2>6, <2>7
<1>10. CASE Execute
  <2>1. /\ fpc = "execute" /\ UNCHANGED <<root, owner, signer, reports, given, failed, foreign>>
        /\ \/ fop' = fop + 1 /\ fpc' = "exec" /\ fout' = fout
           \/ fop' = fop /\ fpc' = "done" /\ fout' = "error"
        /\ \/ UNCHANGED <<count, lock>> /\ (fpc' = "exec" => count = Cardinality(Mine))
           \/ TxNonce(fop) = count /\ Executes(fop)
    BY <1>10 DEF Execute, Sends, Ends, Goes, Same, Rigid, chainVars
  <2>2. fop \in Mine BY <2>1 DEF OrderSound
  <2>3. /\ fop \in Nat /\ fop + 1 \in 1 .. Len(fork.ops) + 1 /\ TxNonce(fop) \in Nat
        /\ TxNonce(fop) < Cardinality(Mine) /\ TxNonce(fop + 1) = TxNonce(fop) + 1
    <3>1. fop \in Nat /\ fop + 1 \in 1 .. Len(fork.ops) + 1 BY <2>2, <1>d
    <3> QED BY <2>2, <3>1, <1>c DEF NonceFacts
  <2>4. CASE UNCHANGED <<count, lock>> /\ (fpc' = "exec" => count = Cardinality(Mine))
    <3>1. fpc' = "exec" => foreign # 0 BY <2>1, <2>3, <2>4 DEF OrderSound
    <3>2. ForkTypeOK' BY <2>1, <2>3, <2>4, <1>a, <1>b DEF ForkTypeOK
    <3>3. OrderSound' BY <2>1, <2>4, <3>1, <1>a, <1>b DEF OrderSound, Unstarted
    <3>4. TimelockSound' BY <2>1, <2>4, <1>a, <1>b DEF TimelockSound, Unstarted
    <3>5. (ForkTold /\ ReportsSound /\ HooksTold)'
      BY <2>1, <2>4, <1>a, <1>b
         DEF ForkTold, ReportsSound, HooksTold, TimelockSound, Unstarted, OrderSound
    <3> QED BY <3>2, <3>3, <3>4, <3>5
  <2>5. CASE TxNonce(fop) = count /\ Executes(fop)
    <3>1. ForkTypeOK' /\ OrderSound' \* the next operation
      <4>1. NextExecuted(fop) BY <2>5, <2>2 DEF NextExecuted
      <4>2. Executed BY <2>1, <4>1, <1>c, ExecutedOrder DEF OrderSound
      <4>3. ForkTypeOK' BY <2>1, <2>3, <4>2, <1>a, <1>b DEF ForkTypeOK, Executed
      <4>4. OrderSound' BY <2>1, <2>3, <2>5, <4>2, <1>a, <1>b DEF OrderSound, Executed, Unstarted
      <4> QED BY <4>3, <4>4
    <3>2. TimelockSound' BY <2>1, <1>a, <1>b DEF TimelockSound, Unstarted
    <3>3. (ForkTold /\ ReportsSound /\ HooksTold)'
      BY <2>1, <1>a, <1>b DEF ForkTold, ReportsSound, HooksTold, TimelockSound, Unstarted,
         OrderSound
    <3> QED BY <3>1, <3>2, <3>3
  <2> QED BY <2>1, <2>4, <2>5
<1>11. CASE MoveTime
  <2>1. /\ fpc = "time" /\ UNCHANGED <<fop, root, count, owner, signer, reports, given, failed, foreign>>
        /\ lock' = [i \in ProposalOps |-> IF lock[i] = "pending" THEN "ready" ELSE lock[i]]
        /\ \/ fpc' = "done" /\ fout' = "error"
           \/ fork.action # "schedule" /\ fpc' = "done" /\ fout' = "nil"
           \/ fork.action = "schedule" /\ fpc' = "options" /\ fout' = fout
    BY <1>11 DEF MoveTime, Ends, Goes, Same, Rigid, chainVars
  <2>2. lock' \in [ProposalOps -> {"unset", "pending", "ready", "done"}] BY <2>1 DEF ForkTypeOK
  <2>3. \A i \in Mine : i \in ProposalOps BY <1>c DEF NonceFacts
  <2>4. fork.action # "schedule" => \A i \in Mine : lock[i] \in {"unset", "done"} /\ lock'[i] = lock[i]
    BY <2>1, <2>3 DEF OrderSound
  <2>5. ForkTypeOK' BY <2>1, <2>2, <1>a, <1>b DEF ForkTypeOK
  <2>6. OrderSound' BY <2>1, <2>4, <1>a, <1>b DEF OrderSound, Unstarted
  <2>7. TimelockSound' BY <2>1, <1>a, <1>b DEF TimelockSound, Unstarted
  <2>8. ASSUME fpc' = "done", fout' = "nil", foreign = 0 \/ count = Cardinality(Mine), NEW i \in Mine
        PROVE  lock'[i] = "done"
    <3>1. count = Cardinality(Mine) /\ TxNonce(i) < Cardinality(Mine)
      BY <2>1, <2>8, <1>c DEF OrderSound, NonceFacts
    <3>2. lock[i] # "unset" BY <2>1, <3>1 DEF OrderSound
    <3> QED BY <2>1, <2>8, <2>4, <3>2
  <2>9. ForkTold'
    <3>1. foreign \in Nat /\ count \in Nat /\ count <= Cardinality(Mine) /\ Cardinality(Mine) \in Nat
      BY <1>c DEF ForkTypeOK, NonceFacts
    <3>2. foreign = 0 \/ count = Cardinality(Mine) \/ (foreign > 0 /\ count < Cardinality(Mine))
      BY <3>1
    <3> QED BY <2>1, <2>8, <3>2, <1>a, <1>b DEF ForkTold, OrderSound
  <2>10. (ReportsSound /\ HooksTold)'
    BY <2>1, <1>a, <1>b DEF ReportsSound, HooksTold, TimelockSound, Unstarted
  <2> QED BY <2>5, <2>6, <2>7, <2>9, <2>10
<1>12. CASE TimelockOptions
  <2>1. /\ fpc = "options" /\ fop' = 1 /\ fout' = fout
        /\ UNCHANGED <<root, count, lock, owner, signer, reports, given, foreign>>
        /\ (fpc' = "timelock" /\ failed' = failed) \/ (fpc' = "hooks" /\ failed' = TRUE)
    BY <1>12 DEF TimelockOptions, Fails, Ends, Goes, Same, Rigid, chainVars
  <2>2. \A i \in Mine : ~(i < 1) BY <1>d
  <2>3. reports = << >> BY <2>1 DEF TimelockSound
  <2>4. ForkTypeOK' BY <2>1, <1>a, <1>b, <1>d DEF ForkTypeOK
  <2>5. OrderSound' BY <2>1, <1>a, <1>b DEF OrderSound, Unstarted
  <2>6. TimelockSound' BY <2>1, <2>2, <2>3, <1>a, <1>b DEF TimelockSound, OrderSound, Unstarted
  <2>7. (ForkTold /\ ReportsSound /\ HooksTold)'
    BY <2>1, <2>3, <1>a, <1>b DEF ForkTold, ReportsSound, HooksTold, TimelockSound, OrderSound
  <2> QED BY <2>4, <2>5, <2>6, <2>7
<1>13. CASE TimelockOp
  <2> DEFINE r == [op |-> fop, ok |-> TRUE]
  <2>1. /\ fpc = "timelock" /\ fop \in Mine /\ fout' = fout
        /\ UNCHANGED <<root, count, lock, owner, signer, given, failed, foreign>>
        /\ \/ lock[fop] = "done" /\ fop' = fop + 1 /\ fpc' = fpc /\ reports' = reports
           \/ reports' = Append(reports, r) /\ fpc' = "ready" /\ fop' = fop
    BY <1>13 DEF TimelockOp, Ends, Goes, Same, Rigid, chainVars
  <2>2. fop \in Nat /\ fop \in ProposalOps /\ fop + 1 \in 1 .. Len(fork.ops) + 1
    <3>1. fop \in ProposalOps BY <2>1, <1>c DEF NonceFacts
    <3> QED BY <2>1, <3>1, <1>d
  <2>3. given = << >> BY <2>1 DEF TimelockSound
  <2>4. reports \in Seq([op : ProposalOps, ok : BOOLEAN]) /\ r \in [op : ProposalOps, ok : BOOLEAN]
    BY <2>2 DEF ForkTypeOK
  <2>5. CASE lock[fop] = "done" /\ fop' = fop + 1 /\ fpc' = fpc /\ reports' = reports
    <3>1. ForkTypeOK' BY <2>1, <2>2, <2>5, <1>a, <1>b DEF ForkTypeOK
    <3>2. OrderSound' BY <2>1, <2>5, <1>a, <1>b DEF OrderSound, Unstarted
    <3>3. \A i \in Mine : i < fop + 1 => i < fop \/ i = fop BY <2>2, <1>d
    <3>4. \A k \in 1 .. Len(reports) : reports[k].op \in Nat BY <1>d DEF ReportsSound
    <3>5. \A k \in 1 .. Len(reports) : reports[k].op < fop => reports[k].op < fop + 1 BY <2>2, <3>4
    <3>6. TimelockSound' BY <2>1, <2>5, <3>3, <3>5, <1>a, <1>b DEF TimelockSound, Unstarted
    <3>7. (ForkTold /\ ReportsSound /\ HooksTold)'
      BY <2>1, <2>5, <1>a, <1>b DEF ForkTold, ReportsSound, HooksTold, OrderSound
    <3> QED BY <3>1, <3>2, <3>6, <3>7
  <2>6. CASE reports' = Append(reports, r) /\ fpc' = "ready" /\ fop' = fop
    <3> HIDE DEF r
    <3>1. reports' \in Seq([op : ProposalOps, ok : BOOLEAN]) BY <2>4, <2>6
    <3>2. /\ Len(reports) \in Nat /\ Len(reports') = Len(reports) + 1 /\ reports'[Len(reports')] = r
          /\ \A k \in 1 .. Len(reports) : reports'[k] = reports[k]
      BY <2>4, <2>6
    <3>3. r.op = fop /\ r.ok /\ r = [op |-> fop, ok |-> TRUE] BY DEF r
    <3>4. ForkTypeOK' BY <2>1, <2>3, <2>6, <3>1, <1>a, <1>b DEF ForkTypeOK
    <3>5. OrderSound' BY <2>1, <2>6, <1>a, <1>b DEF OrderSound, Unstarted
    <3>6. ~failed BY <2>1 DEF TimelockSound
    <3>7. TimelockSound'
      BY <2>1, <2>3, <2>6, <3>2, <3>3, <3>6, <1>a, <1>b DEF TimelockSound, Unstarted
    <3>8. ReportsSound'
      <4>1. \A k \in 1 .. Len(reports) : /\ reports[k].op \in Mine /\ reports[k].op < fop /\ reports[k].ok
                                         /\ k > 1 => reports[k - 1].op < reports[k].op
                                         /\ lock[reports[k].op] = "done"
        BY <2>1 DEF ReportsSound, TimelockSound
      <4> SUFFICES ASSUME NEW k \in 1 .. Len(reports')
                   PROVE  /\ reports'[k].op \in Mine
                          /\ k > 1 => reports'[k - 1].op < reports'[k].op
                          /\ reports'[k].ok => lock[reports'[k].op] = "done" \/ k = Len(reports')
                          /\ reports'[k].ok
        BY <2>1, <2>6, <1>b DEF ReportsSound
      <4>2. CASE k = Len(reports')
        <5>1. k > 1 => k - 1 \in 1 .. Len(reports) BY <3>2, <4>2
        <5> QED BY <3>2, <3>3, <4>1, <4>2, <5>1, <2>1
      <4>3. CASE k # Len(reports')
        <5>1. k \in 1 .. Len(reports) /\ (k > 1 => k - 1 \in 1 .. Len(reports)) BY <3>2, <4>3
        <5> QED BY <3>2, <4>1, <5>1
      <4> QED BY <4>2, <4>3
    <3>9. (ForkTold /\ HooksTold)'
      BY <2>1, <2>3, <2>6, <1>a, <1>b DEF ForkTold, HooksTold, OrderSound
    <3> QED BY <3>4, <3>5, <3>7, <3>8, <3>9
  <2> QED BY <2>1, <2>5, <2>6
<1>14. CASE IsReady
  <2>1. /\ fpc = "ready" /\ fout' = fout
        /\ UNCHANGED <<fop, root, count, lock, owner, signer, given, foreign>>
        /\ \/ fpc' = "fire" /\ UNCHANGED <<reports, failed>>
           \/ ReportFails
    BY <1>14 DEF IsReady, ReportFails, Fails, Ends, Goes, Same, Rigid, chainVars
  <2>2. CASE fpc' = "fire" /\ UNCHANGED <<reports, failed>>
    <3>1. ForkTypeOK' BY <2>1, <2>2, <1>a, <1>b DEF ForkTypeOK
    <3>2. OrderSound' BY <2>1, <2>2, <1>a, <1>b DEF OrderSound, Unstarted
    <3>3. TimelockSound' BY <2>1, <2>2, <1>a, <1>b DEF TimelockSound, Unstarted
    <3>4. (ForkTold /\ ReportsSound /\ HooksTold)'
      BY <2>1, <2>2, <1>a, <1>b DEF ForkTold, ReportsSound, HooksTold, OrderSound
    <3> QED BY <3>1, <3>2, <3>3, <3>4
  <2>3. CASE ReportFails
    <3>1. lock' \in [ProposalOps -> {"unset", "pending", "ready", "done"}] BY <2>1 DEF ForkTypeOK
    <3>2. \A i \in ProposalOps : lock'[i] = lock[i] \/ lock'[i] = "done" BY <2>1
    <3> QED BY <2>1, <2>3, <3>1, <3>2, <1>a, <1>b, <1>c, ReportFailsSound
  <2> QED BY <2>1, <2>2, <2>3
<1>15. CASE TimelockExecute
  <2>1. /\ fpc = "fire" /\ fout' = fout /\ UNCHANGED <<root, count, owner, signer, given, foreign>>
        /\ lock' = lock \/ lock' = [lock EXCEPT ![fop] = "done"]
        /\ \/ /\ lock' = [lock EXCEPT ![fop] = "done"]
              /\ fop' = fop + 1 /\ fpc' = "timelock" /\ UNCHANGED <<reports, failed>>
           \/ fop' = fop /\ ReportFails
    BY <1>15 DEF TimelockExecute, Sends, ReportFails, Fails, Ends, Goes, Same, Rigid, chainVars
  <2>2. fop \in Mine /\ fop \in ProposalOps /\ fop \in Nat /\ fop + 1 \in 1 .. Len(fork.ops) + 1
    <3>1. fop \in Mine BY <2>1 DEF TimelockSound
    <3>2. fop \in ProposalOps BY <3>1, <1>c DEF NonceFacts
    <3> QED BY <3>1, <3>2, <1>d
  <2>3. CASE fop' = fop /\ ReportFails
    <3>1. \A i \in ProposalOps : lock'[i] = lock[i] \/ lock'[i] = "done" BY <2>1 DEF ForkTypeOK
    <3>2. lock' \in [ProposalOps -> {"unset", "pending", "ready", "done"}] BY <2>1 DEF ForkTypeOK
    <3> QED BY <2>1, <2>3, <3>1, <3>2, <1>a, <1>b, <1>c, ReportFailsSound
  <2>4. CASE /\ lock' = [lock EXCEPT ![fop] = "done"]
             /\ fop' = fop + 1 /\ fpc' = "timelock" /\ UNCHANGED <<reports, failed>>
    <3>1. /\ lock' \in [ProposalOps -> {"unset", "pending", "ready", "done"}]
          /\ \A i \in Mine : lock'[i] = IF i = fop THEN "done" ELSE lock[i]
      BY <2>4, <1>c DEF ForkTypeOK, NonceFacts
    <3>2. /\ Len(reports) \in Nat /\ Len(reports) > 0 /\ reports[Len(reports)].op = fop
          /\ reports[Len(reports)].ok /\ ~failed /\ given = << >> /\ fork.action = "schedule"
      BY <2>1 DEF TimelockSound, ForkTypeOK
    <3>3. ForkTypeOK' BY <2>1, <2>2, <2>4, <3>1, <1>a, <1>b DEF ForkTypeOK
    <3>4. OrderSound' BY <2>1, <2>4, <3>2, <1>a, <1>b DEF OrderSound, Unstarted
    <3>5. \A i \in Mine : i < fop + 1 => i < fop \/ i = fop BY <2>2, <1>d
    <3>6. ASSUME NEW k \in 1 .. Len(reports)
          PROVE  reports[k].op \in Mine /\ reports[k].op < fop + 1 /\ reports[k].ok /\ lock'[reports[k].op] = "done"
      <4>1. reports[k].op \in Mine /\ reports[k].op \in Nat BY <1>d DEF ReportsSound
      <4>2. reports[k].ok BY <3>2 DEF ReportsSound
      <4>3. CASE k = Len(reports) BY <3>1, <3>2, <4>1, <4>2, <4>3, <2>2
      <4>4. CASE k # Len(reports)
        <5>1. lock[reports[k].op] = "done" BY <4>2, <4>4 DEF ReportsSound
        <5>2. reports[k].op < fop BY <3>2, <4>4, <2>2, <1>d, ReportsOrdered
        <5> QED BY <4>1, <4>2, <5>1, <5>2, <3>1, <2>2
      <4> QED BY <4>3, <4>4
    <3>7. TimelockSound'
      BY <2>1, <2>4, <3>1, <3>2, <3>5, <3>6, <1>a, <1>b DEF TimelockSound, Unstarted
    <3>8. ReportsSound' BY <2>1, <2>4, <3>2, <3>6, <1>a, <1>b DEF ReportsSound
    <3>9. (ForkTold /\ HooksTold)'
      BY <2>1, <2>4, <3>2, <1>a, <1>b DEF ForkTold, HooksTold, OrderSound
    <3> QED BY <3>3, <3>4, <3>7, <3>8, <3>9
  <2> QED BY <2>1, <2>3, <2>4
<1>16. CASE EndTimelock
  <2>1. /\ fpc = "timelock" /\ fop \notin ProposalOps /\ fpc' = "hooks" /\ fout' = fout
        /\ UNCHANGED <<fop, root, count, lock, owner, signer, reports, given, failed, foreign>>
    BY <1>16 DEF EndTimelock, Ends, Goes, Same, Rigid, chainVars
  <2>2. \A i \in Mine : i < fop
    <3>1. fop \in 1 .. Len(fork.ops) + 1 /\ ~(fop \in 1 .. Len(fork.ops))
      BY <2>1 DEF ProposalOps, ForkTypeOK
    <3> QED BY <3>1, <1>d
  <2>3. ForkTypeOK' BY <2>1, <1>a, <1>b DEF ForkTypeOK
  <2>4. OrderSound' BY <2>1, <1>a, <1>b DEF OrderSound, Unstarted
  <2>5. TimelockSound' BY <2>1, <2>2, <1>a, <1>b DEF TimelockSound, Unstarted
  <2>6. (ForkTold /\ ReportsSound /\ HooksTold)'
    BY <2>1, <1>a, <1>b DEF ForkTold, ReportsSound, HooksTold, OrderSound
  <2> QED BY <2>3, <2>4, <2>5, <2>6
<1>17. CASE Hooks
  <2>1. /\ fpc = "hooks" /\ fpc' = "done" /\ fout' = (IF failed THEN "error" ELSE "nil")
        /\ given' = <<reports>> \/ given' = given
        /\ UNCHANGED <<fop, root, count, lock, owner, signer, reports, failed, foreign>>
    BY <1>17 DEF Hooks, Result, Ends, Goes, Same, Rigid, chainVars
  <2>2. given = << >> BY <2>1 DEF TimelockSound
  <2>3. ForkTypeOK' BY <2>1, <2>2, <1>a, <1>b DEF ForkTypeOK
  <2>4. OrderSound' BY <2>1, <1>a, <1>b DEF OrderSound, Unstarted
  <2>5. TimelockSound' BY <2>1, <1>a, <1>b DEF TimelockSound, Unstarted
  <2>6. (ForkTold /\ ReportsSound /\ HooksTold)'
    BY <2>1, <2>2, <1>a, <1>b DEF ForkTold, ReportsSound, HooksTold, OrderSound, TimelockSound
  <2> QED BY <2>3, <2>4, <2>5, <2>6
<1>18. CASE OtherExecutes
  <2>1. /\ fpc \in {"exec", "execute"} /\ foreign' = foreign + 1
        /\ UNCHANGED <<fpc, fop, fout, root, owner, signer, reports, given, failed>>
    BY <1>18 DEF OtherExecutes
  <2>2. PICK i \in Mine : NextExecuted(i) BY <1>18 DEF OtherExecutes, NextExecuted
  <2>3. Executed BY <2>1, <2>2, <1>c, ExecutedOrder DEF OrderSound
  <2>4. foreign + 1 # 0 BY DEF ForkTypeOK
  <2>5. ForkTypeOK' BY <2>1, <2>3, <1>a, <1>b DEF ForkTypeOK, Executed
  <2>6. OrderSound' BY <2>1, <2>3, <2>4, <1>a, <1>b DEF OrderSound, Executed, Unstarted
  <2>7. TimelockSound' BY <2>1, <1>a, <1>b DEF TimelockSound, Unstarted
  <2>8. (ForkTold /\ ReportsSound /\ HooksTold)'
    BY <2>1, <1>a, <1>b DEF ForkTold, ReportsSound, HooksTold, TimelockSound, OrderSound, Unstarted
  <2> QED BY <2>5, <2>6, <2>7, <2>8
<1>19. CASE UNCHANGED forkVars
  BY <1>19, <1>a, <1>b DEF forkVars, chainVars, ForkTypeOK, OrderSound, TimelockSound, ForkTold,
     ReportsSound,
                           HooksTold
<1> QED
  BY <1>1, <1>6, <1>7, <1>8, <1>9, <1>10, <1>11, <1>12, <1>13, <1>14, <1>15, <1>16, <1>17, <1>18,
     <1>19 DEF ForkNext, ForkStep

\* What execute-fork returns, reports and gives to the hooks is what happened on
\* the chain, for any proposal, whatever the chain has seen of it, whoever else
\* executes it meanwhile, and wherever a request fails or its answer is lost.
THEOREM ForkToldTruth == ForkSpec => []ForkSound
<1>1. ForkInit(Forks) => ForkInv
  <2> SUFFICES ASSUME ForkInit(Forks) PROVE ForkInv OBVIOUS
  <2>1. fork \in Forks /\ NonceFacts BY Nonces DEF ForkInit
  <2>2. /\ fpc = "load" /\ fop = 1 /\ owner = "orig" /\ signer = "orig" /\ reports = << >> /\ given = << >>
        /\ failed = FALSE /\ fout = "none" /\ count = foreign /\ foreign \in 0 .. Cardinality(Mine)
        /\ root \in {"file", "old"} /\ lock \in [ProposalOps -> {"unset", "pending", "ready", "done"}]
    BY DEF ForkInit
  <2>3. \A i \in ProposalOps :
          /\ i \in Mine /\ TxNonce(i) < count /\ ~Salted <=> lock[i] # "unset"
          /\ lock[i] # "unset" /\ fork.action # "schedule" => lock[i] = "done"
    BY DEF ForkInit
  <2>4. \A i \in Mine : i \in ProposalOps BY <2>1 DEF NonceFacts
  <2>5. 1 \in 1 .. Len(fork.ops) + 1 /\ count \in 0 .. Cardinality(Mine) /\ foreign \in 0 .. count
    <3>1. Len(fork.ops) \in Nat /\ Cardinality(Mine) \in Nat BY <2>1 DEF NonceFacts
    <3> QED BY <2>2, <3>1
  <2>6. ForkTypeOK
    <3>1. << >> \in Seq([op : ProposalOps, ok : BOOLEAN]) OBVIOUS
    <3> QED BY <2>1, <2>2, <2>5, <3>1 DEF ForkTypeOK
  <2>7. OrderSound BY <2>2, <2>3, <2>4 DEF OrderSound, Unstarted
  <2>8. TimelockSound BY <2>2 DEF TimelockSound, Unstarted
  <2>9. ForkTold /\ ReportsSound /\ HooksTold BY <2>2 DEF ForkTold, ReportsSound, HooksTold
  <2> QED BY <2>6, <2>7, <2>8, <2>9 DEF ForkInv, ForkSound
<1>2. ForkInv /\ [ForkNext]_forkVars => ForkInv' BY ForkStepSound
<1>3. ForkInv => ForkSound BY DEF ForkInv
<1> QED BY <1>1, <1>2, <1>3, PTL DEF ForkSpec

-----------------------------------------------------------------------------
(* contract verify-env.                                                    *)

ContractSet == [ref : STRING, ex : [type : STRING, has : SUBSET STRING]]

Working == {"check", "args", "submit", "poll", "delay"}

\* The contracts in scope before the n-th.
InScopeBefore(n) == {c \in DOMAIN contracts : ToVerify(c) /\ c < n}

\* The command has counted the contracts before this one.
Top == IF vpc \in Working THEN cur + 1 ELSE cur

VerType ==
  /\ contracts \in Seq(ContractSet)
  /\ vpc \in Working \cup {"idle", "next"}
  /\ cur \in Nat \ {0} /\ cur <= Len(contracts) + 1 /\ total \in Nat
  /\ job \in [DOMAIN contracts -> {"none", "pending", "failed"}]
  /\ vruns \in Nat /\ vout \in {"none", "nil", "error"}

\* Where the command is: at a contract that it has counted, or between two.
PlaceSound ==
  /\ vpc \in Working => cur \in DOMAIN contracts /\ ToVerify(cur)
  /\ vpc # "idle" => vout = "none" /\ vruns > 0
  /\ vout = "nil" => cur = Len(contracts) + 1
  /\ vpc = "poll" /\ job[cur] = "none" => cur \in verified
  /\ vpc \in {"args", "submit"} /\ known => V.trouble = "no"

CountSound ==
  vruns > 0 /\ vout # "error" =>
    /\ total = Cardinality(InScopeBefore(Top)) /\ failing \subseteq InScopeBefore(Top)
    /\ \A c \in InScopeBefore(Top) :
         c \in failing \/ c \in verified \/ (c = cur /\ vpc \in Working \ {"delay"})

VerInv == VerType /\ PlaceSound /\ CountSound
\* The contracts do not change during a run.
LEMMA ContractsRigid ==
  ASSUME contracts' = contracts
  PROVE  /\ \A c : ToVerify(c)' <=> ToVerify(c)
         /\ \A n : InScopeBefore(n)' = InScopeBefore(n)
         /\ cur' = cur => V' = V
BY DEF ToVerify, InScopeBefore, V

\* A contract in scope counts one more.
LEMMA ScopeCount ==
  ASSUME contracts \in Seq(ContractSet), NEW n \in DOMAIN contracts
  PROVE  /\ Cardinality(InScopeBefore(n)) \in Nat
         /\ InScopeBefore(n) \subseteq InScopeBefore(n + 1)
         /\ ToVerify(n) => /\ InScopeBefore(n + 1) = InScopeBefore(n) \cup {n}
                           /\ Cardinality(InScopeBefore(n + 1)) = Cardinality(InScopeBefore(n)) + 1
         /\ ~ToVerify(n) => InScopeBefore(n + 1) = InScopeBefore(n)
<1>1. Len(contracts) \in Nat /\ DOMAIN contracts = 1 .. Len(contracts) OBVIOUS
<1>2. IsFiniteSet(DOMAIN contracts) BY <1>1, FS_Interval
<1>3. IsFiniteSet(InScopeBefore(n)) BY <1>2, FS_Subset DEF InScopeBefore
<1>4. Cardinality(InScopeBefore(n)) \in Nat BY <1>3, FS_CardinalityType
<1>5. \A c \in DOMAIN contracts : c < n + 1 <=> c < n \/ c = n BY <1>1
<1>6. ~(n < n) BY <1>1
<1>7. ToVerify(n) => InScopeBefore(n + 1) = InScopeBefore(n) \cup {n} BY <1>5 DEF InScopeBefore
<1>8. ~ToVerify(n) => InScopeBefore(n + 1) = InScopeBefore(n) BY <1>5 DEF InScopeBefore
<1>9. n \notin InScopeBefore(n) BY <1>6 DEF InScopeBefore
<1>10. Cardinality(InScopeBefore(n) \cup {n}) = Cardinality(InScopeBefore(n)) + 1
  BY <1>3, <1>9, FS_AddElement
<1>11. ToVerify(n) => Cardinality(InScopeBefore(n + 1)) = Cardinality(InScopeBefore(n)) + 1
  BY <1>7, <1>10
<1>12. InScopeBefore(n) \subseteq InScopeBefore(n + 1) BY <1>5 DEF InScopeBefore
<1> QED BY <1>4, <1>7, <1>8, <1>11, <1>12

\* A verifier reads an API error of IsVerified as an error, or as "not verified".
LEMMA TroubleKinds ==
  ASSUME ToVerify(cur) PROVE V.trouble \in {"error", "no"}
<1>1. \A s \in {"etherscan", "routescan", "blockscout", "btrscan", "coredao", "l2scan", "socialscan",
                "oklink", "sourcify"} : Verifiers[s].trouble \in {"error", "no"}
  BY DEF Verifiers, Verifier, Etherscan, Routescan, Blockscout, BtrScan, CoreDAO, L2Scan,
     SocialScan,
         OkLink, Sourcify
<1>2. Strategy(contracts[cur].ex) \in {"etherscan", "routescan", "blockscout", "btrscan", "coredao",
                                       "l2scan", "socialscan", "oklink", "sourcify"}
  BY DEF ToVerify, Strategy
<1> QED BY <1>1, <1>2 DEF V

\* A step that stays at a contract, whichever verifier makes it.
LEMMA AtContract ==
  ASSUME VerInv, vpc \in Working, vpc' \in Working,
         UNCHANGED <<contracts, cur, total, vruns, vout>>,
         verified \subseteq verified', failing' \in {failing, failing \cup {cur}},
         job' \in [DOMAIN contracts -> {"none", "pending", "failed"}],
         vpc = "delay" \/ vpc' = "delay" => cur \in failing' \/ cur \in verified',
         vpc' = "poll" /\ job'[cur] = "none" => cur \in verified',
         vpc' \in {"args", "submit"} /\ known' => V.trouble = "no"
  PROVE  VerInv'
<1>1. /\ \A c : ToVerify(c)' <=> ToVerify(c)
      /\ \A n : InScopeBefore(n)' = InScopeBefore(n)
      /\ V' = V /\ DOMAIN contracts' = DOMAIN contracts
  BY ContractsRigid
<1>2. VerType' BY DEF VerInv, VerType
<1>3. PlaceSound' BY <1>1 DEF VerInv, PlaceSound, Working
<1>4. Top = cur + 1 /\ Top' = cur + 1 BY DEF Top
<1>5. cur \in DOMAIN contracts /\ ToVerify(cur) /\ vout = "none" /\ vruns > 0
  BY DEF VerInv, PlaceSound, Working
<1>6. cur \in InScopeBefore(cur + 1) BY <1>5, ScopeCount DEF VerInv, VerType
<1>7. /\ total = Cardinality(InScopeBefore(cur + 1)) /\ failing \subseteq InScopeBefore(cur + 1)
      /\ \A c \in InScopeBefore(cur + 1) : c \in failing \/ c \in verified \/ (c = cur /\ vpc # "delay")
  BY <1>4, <1>5 DEF VerInv, CountSound
<1>8. InScopeBefore(Top)' = InScopeBefore(cur + 1) BY <1>1, <1>4
<1>9. CountSound' BY <1>6, <1>7, <1>8 DEF CountSound
<1> QED BY <1>2, <1>3, <1>9 DEF VerInv

\* Every step keeps the invariant.
LEMMA VerStepSound ==
  ASSUME VerInv, [VerNext]_verVars PROVE VerInv'
<1> USE DEF VerInv
<1>a. contracts' = contracts
  BY DEF VerNext, VerStep, verVars, Stay, Submitted, SkipRef, NextRef, RequestFails, Check, Args,
     Submit,
         SubmitNow, SubmitLost, PollAgain, PollOk, PollFails, Delay, Summary, Begin, VCancel,
         Decides
<1>b. /\ \A c : ToVerify(c)' <=> ToVerify(c)
      /\ \A n : InScopeBefore(n)' = InScopeBefore(n)
      /\ cur' = cur => V' = V
  BY <1>a, ContractsRigid
<1>c. job \in [DOMAIN contracts -> {"none", "pending", "failed"}] /\ DOMAIN contracts = 1 .. Len(contracts)
  BY DEF VerType
<1> USE DEF Working, Stay, Step, Returns
<1>1. CASE RequestFails BY <1>1, <1>c, AtContract DEF RequestFails, PlaceSound
<1>2. CASE Check
  <2>1. V.trouble \in {"error", "no"} BY <1>2, TroubleKinds DEF Check, PlaceSound
  <2> QED BY <1>2, <1>c, <2>1, AtContract DEF Check
<1>3. CASE Args BY <1>3, <1>c, AtContract DEF Args, PlaceSound
<1>4. CASE Submit \/ SubmitLost
  <2>1. cur \in DOMAIN contracts BY <1>4 DEF Submit, SubmitLost, PlaceSound
  <2>2. job' \in [DOMAIN contracts -> {"none", "pending", "failed"}] /\ job'[cur] = "pending"
    BY <1>4, <1>c, <2>1 DEF Submit, SubmitLost, Submitted
  <2> QED BY <1>4, <2>2, AtContract DEF Submit, SubmitLost, Submitted
<1>5. CASE SubmitNow BY <1>5, <1>c, AtContract DEF SubmitNow
<1>6. CASE PollAgain BY <1>6, <1>c, AtContract DEF PollAgain, PlaceSound
<1>7. CASE PollOk BY <1>7, <1>c, AtContract DEF PollOk, PlaceSound
<1>8. CASE PollFails BY <1>8, <1>c, AtContract DEF PollFails, PlaceSound
<1>9. CASE SkipRef
  <2>1. /\ vpc = "next" /\ vpc' = "next" /\ cur' = cur + 1 /\ cur <= Len(contracts) /\ ~ToVerify(cur)
        /\ UNCHANGED <<total, failing, vout, verified, job, vruns>>
    BY <1>9 DEF SkipRef
  <2>2. cur \in DOMAIN contracts BY <2>1, <1>c DEF VerType
  <2>3. InScopeBefore(cur + 1) = InScopeBefore(cur) BY <2>1, <2>2, ScopeCount DEF VerType
  <2>4. VerType' BY <2>1, <1>a, <1>c DEF VerType
  <2>5. PlaceSound' BY <2>1, <1>a DEF PlaceSound
  <2>6. InScopeBefore(Top) = InScopeBefore(cur) /\ InScopeBefore(Top)' = InScopeBefore(cur)
    BY <2>1, <2>3, <1>b DEF Top
  <2>7. CountSound' BY <2>1, <2>6 DEF CountSound
  <2> QED BY <2>4, <2>5, <2>7
<1>10. CASE NextRef
  <2>1. /\ vpc = "next" /\ cur <= Len(contracts) /\ ToVerify(cur) /\ total' = total + 1
        /\ UNCHANGED <<vout, verified, job, vruns>>
        /\ \/ vpc' = "check" /\ cur' = cur /\ failing' = failing
           \/ vpc' = "next" /\ cur' = cur + 1 /\ failing' = failing \cup {cur}
    BY <1>10 DEF NextRef
  <2>2. cur \in DOMAIN contracts BY <2>1, <1>c DEF VerType
  <2>3. /\ InScopeBefore(cur + 1) = InScopeBefore(cur) \cup {cur}
        /\ Cardinality(InScopeBefore(cur + 1)) = Cardinality(InScopeBefore(cur)) + 1
    BY <2>1, <2>2, ScopeCount DEF VerType
  <2>4. VerType' BY <2>1, <1>a, <1>c DEF VerType
  <2>5. PlaceSound' BY <2>1, <2>2, <1>a, <1>b DEF PlaceSound
  <2>6. InScopeBefore(Top) = InScopeBefore(cur) /\ InScopeBefore(Top)' = InScopeBefore(cur + 1)
    BY <2>1, <1>b DEF Top
  <2>7. /\ total = Cardinality(InScopeBefore(cur)) /\ failing \subseteq InScopeBefore(cur)
        /\ \A c \in InScopeBefore(cur) : c \in failing \/ c \in verified
    BY <2>1, <2>6 DEF CountSound, PlaceSound
  <2>8. CountSound' BY <2>1, <2>3, <2>6, <2>7 DEF CountSound
  <2> QED BY <2>4, <2>5, <2>8
<1>11. CASE Delay
  <2>1. /\ vpc = "delay" /\ UNCHANGED <<total, failing, verified, job, vruns>>
        /\ \/ vpc' = "next" /\ cur' = cur + 1 /\ vout' = vout
           \/ vpc' = "idle" /\ cur' = cur /\ vout' = "error"
    BY <1>11 DEF Delay
  <2>2. cur \in DOMAIN contracts /\ vout = "none" BY <2>1 DEF PlaceSound
  <2>3. VerType' BY <2>1, <2>2, <1>a, <1>c DEF VerType
  <2>4. PlaceSound' BY <2>1, <2>2, <1>a, <1>b DEF PlaceSound
  <2>5. vpc' = "next" => InScopeBefore(Top) = InScopeBefore(cur + 1) /\ InScopeBefore(Top)' = InScopeBefore(cur + 1)
    BY <2>1, <1>b DEF Top
  <2>6. CountSound' BY <2>1, <2>2, <2>5 DEF CountSound
  <2> QED BY <2>3, <2>4, <2>6
<1>12. CASE Summary
  <2>1. /\ vpc = "next" /\ cur > Len(contracts) /\ vpc' = "idle" /\ vout' = "nil"
        /\ UNCHANGED <<cur, total, failing, verified, job, vruns>>
    BY <1>12 DEF Summary
  <2>2. cur = Len(contracts) + 1 BY <2>1, <1>c DEF VerType
  <2>3. VerType' BY <2>1, <1>a DEF VerType
  <2>4. PlaceSound' BY <2>1, <2>2, <1>a, <1>b DEF PlaceSound
  <2>5. InScopeBefore(Top) = InScopeBefore(cur) /\ InScopeBefore(Top)' = InScopeBefore(cur)
    BY <2>1, <1>b DEF Top
  <2>6. CountSound' BY <2>1, <2>5 DEF CountSound, PlaceSound
  <2> QED BY <2>3, <2>4, <2>6
<1>13. CASE Begin
  <2>1. /\ vpc = "idle" /\ vruns' = vruns + 1 /\ cur' = 1 /\ total' = 0 /\ failing' = {}
        /\ UNCHANGED <<verified, job>>
        /\ (vpc' = "next" /\ vout' = "none") \/ (vpc' = "idle" /\ vout' = "error")
    BY <1>13 DEF Begin
  <2>2. VerType' BY <2>1, <1>a, <1>c DEF VerType
  <2>3. PlaceSound' BY <2>1, <1>a DEF PlaceSound, VerType
  <2>4. InScopeBefore(1) = {} BY <1>c DEF InScopeBefore, VerType
  <2>5. InScopeBefore(Top)' = {} BY <2>1, <2>4, <1>b DEF Top
  <2>6. CountSound' BY <2>1, <2>5, FS_EmptySet DEF CountSound
  <2> QED BY <2>2, <2>3, <2>6
<1>14. CASE \E c \in DOMAIN contracts : Decides(c)
  <2>1. PICK c \in DOMAIN contracts : Decides(c) BY <1>14
  <2>2. /\ UNCHANGED <<vpc, cur, total, failing, known, vruns, vout>> /\ verified \subseteq verified'
        /\ job' \in [DOMAIN contracts -> {"none", "pending", "failed"}]
        /\ \A d \in DOMAIN contracts : job'[d] = "none" => job[d] = "none" \/ d \in verified'
    BY <2>1, <1>c DEF Decides
  <2>3. VerType' BY <2>2, <1>a DEF VerType
  <2>4. PlaceSound' BY <2>2, <1>a, <1>b DEF PlaceSound
  <2>5. InScopeBefore(Top)' = InScopeBefore(Top) BY <2>2, <1>b DEF Top
  <2>6. CountSound' BY <2>2, <2>5 DEF CountSound
  <2> QED BY <2>3, <2>4, <2>6
<1>15. CASE VCancel \/ UNCHANGED verVars
  <2>1. UNCHANGED <<vpc, cur, total, failing, known, vruns, vout, verified, job>>
    BY <1>15 DEF VCancel, verVars
  <2>2. InScopeBefore(Top)' = InScopeBefore(Top) BY <2>1, <1>b DEF Top
  <2> QED BY <2>1, <2>2, <1>a, <1>b DEF VerType, PlaceSound, CountSound
<1> QED
  BY <1>1, <1>2, <1>3, <1>4, <1>5, <1>6, <1>7, <1>8, <1>9, <1>10, <1>11, <1>12, <1>13, <1>14, <1>15
  DEF VerNext, VerStep

\* The summary of verify-env accounts for every contract of any environment as
\* what its explorer said, with any number of runs, polls and retries.
THEOREM VerificationTold == VerSpec => []VerifySound
<1>1. VerInit(Seq(ContractSet)) => VerInv
  <2> SUFFICES ASSUME VerInit(Seq(ContractSet)) PROVE VerInv OBVIOUS
  <2>1. VerType BY DEF VerInit, VerType, Working
  <2>2. PlaceSound BY DEF VerInit, PlaceSound, Working
  <2>3. CountSound BY DEF VerInit, CountSound
  <2> QED BY <2>1, <2>2, <2>3 DEF VerInv
<1>2. VerInv /\ [VerNext]_verVars => VerInv' BY VerStepSound
<1>3. VerInv => VerifySound
  <2> SUFFICES ASSUME VerInv PROVE VerifySound OBVIOUS
  <2>1. NotResubmitted BY DEF VerInv, PlaceSound, NotResubmitted
  <2> DEFINE seen == {c \in DOMAIN contracts : ToVerify(c) /\ (c < cur \/ (c = cur /\ vpc \in Working))}
             told == {c \in DOMAIN contracts : ToVerify(c) /\ (c < cur \/ (c = cur /\ vpc = "delay"))} \ failing
  <2>2. DOMAIN contracts = 1 .. Len(contracts) /\ Len(contracts) \in Nat /\ cur \in Nat
    BY DEF VerInv, VerType
  <2>3. \A c \in DOMAIN contracts : c < Top <=> (c < cur \/ (c = cur /\ vpc \in Working))
    BY <2>2 DEF Top
  <2>4. seen = InScopeBefore(Top) BY <2>3 DEF InScopeBefore
  <2>5. ASSUME vruns > 0, vout # "error"
        PROVE  /\ total = Cardinality(seen) /\ failing \subseteq seen
               /\ vout = "nil" => \A c \in DOMAIN contracts : ToVerify(c) => c \in seen
               /\ told \subseteq verified
    <3>1. total = Cardinality(seen) /\ failing \subseteq seen BY <2>4, <2>5 DEF VerInv, CountSound
    <3>2. vout = "nil" => \A c \in DOMAIN contracts : ToVerify(c) => c \in seen
      BY <2>2 DEF VerInv, PlaceSound
    <3>3. told \subseteq verified
      <4>1. \A c \in seen : c \in failing \/ c \in verified \/ (c = cur /\ vpc \in Working \ {"delay"})
        BY <2>4, <2>5 DEF VerInv, CountSound
      <4>2. told \subseteq seen BY DEF Working
      <4>3. \A c \in told : ~(c = cur /\ vpc \in Working \ {"delay"}) BY <2>2
      <4> QED BY <4>1, <4>2, <4>3
    <3> QED BY <3>1, <3>2, <3>3
  <2>6. VerifyAccounted BY <2>5, Zenon DEF VerifyAccounted, Working
  <2> QED BY <2>1, <2>6 DEF VerifySound
<1> QED BY <1>1, <1>2, <1>3, PTL DEF VerSpec, ContractSet
-----------------------------------------------------------------------------
(* The address book commands.                                              *)

FilesType ==
  /\ book \in Book /\ owed \in Book /\ refs \subseteq AddressRef /\ meta \subseteq Metadata
  /\ damaged \subseteq DatastoreFiles \cup {"book"}
  /\ artifacts \in [Changesets -> Seq(Outputs)]
  /\ stale \in [Commands -> BOOLEAN] /\ spoiled \in BOOLEAN

CommandType ==
  /\ pc \in [Commands -> {"idle", "read", "artifact", "datastore", "write", "files", "done"}]
  /\ op \in [Commands -> Ops \cup {None}]
  /\ myBook \in [Commands -> Book] /\ art \in [Commands -> Book]
  /\ myRefs \in [Commands -> SUBSET AddressRef] /\ next \in [Commands -> 1 .. 4]
  /\ DOMAIN res = Commands

\* What a command does fits what it was started for.
OpSound(c) ==
  /\ pc[c] # "idle" => op[c] \in Ops
  /\ pc[c] \in {"artifact", "write"} => op[c].kind \in {"merge", "remove"} /\ op[c].cs \in Changesets
  /\ pc[c] \in {"datastore", "files"} => op[c].kind = "migrate" /\ op[c].opts \in Options
  /\ IF pc[c] = "files" THEN next[c] <= Len(FilesOf(op[c].opts)) ELSE next[c] = 1
  /\ (res[c] # "none") = (pc[c] = "done")

\* As long as no other command writes, a command works on what is in the files;
\* a migration of everything has written the refs before the other files.
Fresh(c) ==
  ~stale[c] =>
    /\ pc[c] \in {"artifact", "datastore"} => myBook[c] = book /\ "book" \notin damaged
    /\ pc[c] = "write" =>
         /\ "book" \notin damaged
         /\ op[c].kind = "merge" => AllSave(book, art[c], Entries(art[c]))
                                    /\ myBook[c] = Saved(book, art[c], Entries(art[c]))
         /\ op[c].kind = "remove" => myBook[c] = Remove(book, art[c])
    /\ pc[c] = "files" =>
         /\ next[c] = 1 =>
              myRefs[c] = KeptRefs(op[c].opts, refs) \cup AddedRefs(op[c].opts, refs, book)
         /\ next[c] # 1 =>
              refs = myRefs[c] /\ ~addressRefsOnly(op[c].opts) /\ Covered(op[c].opts, book, refs)

\* The merge that was the last change of the book saved the artifact that would
\* be removed now, and so it is the one that a command removes.
UndoSound ==
  undo # None =>
    LET o == LoadArtifact(undo.cs) IN
    /\ undo.cs \in Changesets /\ undo.book \in Book /\ AllSave(undo.book, o, Entries(o))
    /\ book = Saved(undo.book, o, Entries(o))

UndoFresh(c) ==
  pc[c] = "write" /\ ~stale[c] /\ undo # None /\ undo.cs = op[c].cs => art[c] = LoadArtifact(op[c].cs)

BookInv ==
  /\ FilesType /\ CommandType /\ BookExact /\ UndoSound
  /\ \A c \in Commands : OpSound(c) /\ Fresh(c) /\ UndoFresh(c)
\* Saving and removing entries gives a book.
LEMMA BookType ==
  ASSUME NEW b \in Book, NEW o \in Book
  PROVE  /\ Remove(b, o) \in Book /\ Saved(b, o, Entries(o)) \in Book /\ EmptyBook \in Book
         /\ \A p \in Entries(o) : p \in Places /\ o[p] \in TVs
<1>1. ASSUME NEW p \in Places, \E q \in Entries(o) : Standard(q) = p
      PROVE  o[CHOOSE q \in Entries(o) : Standard(q) = p] \in TVs \cup {None}
  BY <1>1 DEF Book, Entries
<1>2. Saved(b, o, Entries(o)) \in Book BY <1>1, Zenon DEF Saved, Book
<1>3. Remove(b, o) \in Book BY DEF Remove, Book
<1>4. EmptyBook \in Book BY DEF EmptyBook, Book
<1>5. \A p \in Entries(o) : p \in Places /\ o[p] \in TVs BY DEF Entries, Book
<1> QED BY <1>2, <1>3, <1>4, <1>5

\* A merge that succeeds has saved every entry.
LEMMA MergeSaves ==
  ASSUME NEW b, NEW o, NEW m \in Merge(b, o), m.ok
  PROVE  AllSave(b, o, Entries(o)) /\ m.book = Saved(b, o, Entries(o))
<1>1. CASE AllSave(b, o, Entries(o))
  <2>1. m \in {[book |-> Saved(b, o, Entries(o)), ok |-> TRUE]} BY <1>1 DEF Merge
  <2> QED BY <1>1, <2>1
<1>2. CASE ~AllSave(b, o, Entries(o))
  <2>1. \E S : m = [book |-> Saved(b, o, S), ok |-> FALSE] BY <1>2, Zenon DEF Merge
  <2> QED BY <2>1
<1> QED BY <1>1, <1>2

\* Removing what was saved gives back the book of before, when the addresses
\* are written as save writes them.
LEMMA RemoveSaved ==
  ASSUME NEW b \in Book, NEW o \in Book, AllSave(b, o, Entries(o)),
         \A p \in Entries(o) : Standard(p) = p
  PROVE  /\ CanRemove(Saved(b, o, Entries(o)), o)
         /\ Remove(Saved(b, o, Entries(o)), o) = b
<1> DEFINE E == Entries(o)
           s == Saved(b, o, E)
<1>1. \A p \in E : p \in Places /\ o[p] # None /\ b[p] = None
  BY DEF Entries, AllSave, CanSave
<1>2. ASSUME NEW p \in E PROVE s[p] = o[p]
  <2>1. \A q \in E : Standard(q) = p <=> q = p OBVIOUS
  <2>2. (CHOOSE q \in E : Standard(q) = p) = p BY <2>1
  <2>3. p \in Places /\ \E q \in E : Standard(q) = p BY <1>1
  <2> QED BY <2>2, <2>3, Zenon DEF Saved
<1>3. ASSUME NEW p \in Places, p \notin E PROVE s[p] = b[p] /\ o[p] = None
  <2>1. ~\E q \in E : Standard(q) = p BY <1>3
  <2>2. s[p] = b[p] BY <2>1, Zenon DEF Saved
  <2> QED BY <2>2, <1>3 DEF Entries
<1>4. CanRemove(s, o)
  <2>1. \A p \in E : p \in Places /\ s[p] # None BY <1>1, <1>2
  <2> QED BY <2>1 DEF CanRemove, Entries
<1>5. Remove(s, o) = b
  <2> HIDE DEF s
  <2>1. \A p \in Places : (IF o[p] # None THEN None ELSE s[p]) = b[p]
    <3> SUFFICES ASSUME NEW p \in Places PROVE (IF o[p] # None THEN None ELSE s[p]) = b[p] OBVIOUS
    <3>1. CASE p \in E BY <1>1, <3>1
    <3>2. CASE p \notin E BY <1>3, <3>2
    <3> QED BY <3>1, <3>2
  <2>2. b = [p \in Places |-> b[p]] BY DEF Book
  <2> QED BY <2>1, <2>2, Zenon DEF Remove
<1> QED BY <1>4, <1>5

\* The artifact of a changeset is a book.
LEMMA ArtifactType ==
  ASSUME FilesType, NEW s \in Changesets PROVE LoadArtifact(s) \in Book
<1>1. artifacts[s] \in Seq(Outputs) /\ Outputs \subseteq Book BY FilesAssumption DEF FilesType
<1>2. CASE artifacts[s] = << >> BY <1>2, BookType DEF LoadArtifact, FilesType
<1>3. CASE artifacts[s] # << >> BY <1>1, <1>3 DEF LoadArtifact
<1> QED BY <1>2, <1>3

\* A migration makes refs.
LEMMA RefsType ==
  ASSUME NEW opts \in Options, NEW b \in Book, NEW rs \in SUBSET AddressRef
  PROVE  KeptRefs(opts, rs) \cup AddedRefs(opts, rs, b) \in SUBSET AddressRef
<1>1. KeptRefs(opts, rs) \subseteq rs BY DEF KeptRefs
<1>2. \A p \in Entries(b) : p \in Places /\ b[p] \in TVs BY BookType
<1>3. \A p \in Entries(b) : p[1] \in Chains /\ p[2] \in Addresses BY <1>2 DEF Places
<1>6. \A t \in TVs : Unlabelled[t] \in TVs BY FilesAssumption
<1>4. \A p \in Entries(b) : ToAddressRef(p, b[p]) \in AddressRef
  BY <1>2, <1>3, <1>6 DEF ToAddressRef, AddressRef
<1>5. AddedRefs(opts, rs, b) \subseteq AddressRef BY <1>4 DEF AddedRefs
<1> QED BY <1>1, <1>5

\* After a migration every address in scope has a ref.
LEMMA MigrationCovers ==
  ASSUME NEW opts \in Options, NEW b \in Book, NEW rs \in SUBSET AddressRef
  PROVE  Covered(opts, b, KeptRefs(opts, rs) \cup AddedRefs(opts, rs, b))
<1> SUFFICES ASSUME NEW p \in Entries(b), InScope(opts, p[1])
             PROVE  \E r \in KeptRefs(opts, rs) \cup AddedRefs(opts, rs, b) :
                      IdentityOf(r) = addressRefIdentity(p[1], p[2], b[p])
  BY DEF Covered
<1>1. CASE opts.preserve /\ \E r \in rs : IdentityOf(r) = addressRefIdentity(p[1], p[2], b[p])
  BY <1>1 DEF KeptRefs
<1>2. CASE ~(opts.preserve /\ \E r \in rs : IdentityOf(r) = addressRefIdentity(p[1], p[2], b[p]))
  <2>1. ToAddressRef(p, b[p]) \in AddedRefs(opts, rs, b) BY <1>2, Zenon DEF AddedRefs
  <2>2. IdentityOf(ToAddressRef(p, b[p])) = addressRefIdentity(p[1], p[2], b[p])
    BY DEF IdentityOf, ToAddressRef
  <2> QED BY <2>1, <2>2
<1> QED BY <1>1, <1>2

\* What the step of one command leaves of another.
Elsewhere(c) ==
  \A d \in Commands \ {c} :
    /\ pc'[d] = pc[d] /\ op'[d] = op[d] /\ myBook'[d] = myBook[d] /\ myRefs'[d] = myRefs[d]
    /\ next'[d] = next[d] /\ res'[d] = res[d] /\ art'[d] = art[d]

\* The files are as they were, or who has read them is stale.
Quiet(c) ==
  \/ UNCHANGED <<book, refs, damaged, stale, undo, artifacts>>
  \/ Spoils(c)

\* The other commands keep what they rely on.
LEMMA OthersKept ==
  ASSUME BookInv, NEW c \in Commands, Elsewhere(c), Quiet(c), NEW d \in Commands, d # c
  PROVE  OpSound(d)' /\ Fresh(d)' /\ UndoFresh(d)'
<1>1. /\ pc'[d] = pc[d] /\ op'[d] = op[d] /\ myBook'[d] = myBook[d] /\ myRefs'[d] = myRefs[d]
      /\ next'[d] = next[d] /\ res'[d] = res[d] /\ art'[d] = art[d]
  BY Zenon DEF Elsewhere
<1>2. OpSound(d) /\ Fresh(d) /\ UndoFresh(d) BY DEF BookInv
<1>3. OpSound(d)' BY <1>1, <1>2, Zenon DEF OpSound
<1>4. CASE UNCHANGED <<book, refs, damaged, stale, undo, artifacts>>
  <2>1. Fresh(d)' BY <1>1, <1>2, <1>4 DEF Fresh, Covered
  <2>2. UndoFresh(d)' BY <1>1, <1>2, <1>4 DEF UndoFresh, LoadArtifact
  <2> QED BY <1>3, <2>1, <2>2
<1>5. CASE Spoils(c)
  <2>1. pc[d] \notin {"idle", "read", "done"} => stale'[d] BY <1>5, Zenon DEF Spoils
  <2>2. Fresh(d)' BY <1>1, <2>1 DEF Fresh
  <2>3. UndoFresh(d)' BY <1>1, <2>1 DEF UndoFresh
  <2> QED BY <1>3, <2>2, <2>3
<1> QED BY <1>4, <1>5 DEF Quiet
\* A command that ends, for whatever reason.
LEMMA Ended ==
  ASSUME BookInv, NEW c \in Commands, pc[c] # "idle", op' = op, NEW r, r # "none", End(c, r)
  PROVE  CommandType' /\ Elsewhere(c) /\ OpSound(c)' /\ Fresh(c)' /\ UndoFresh(c)'
<1>1. CommandType BY DEF BookInv
<1>2. EmptyBook \in Book BY BookType DEF BookInv, FilesType
<1>3. CommandType' BY <1>1, <1>2 DEF CommandType, End, Go
<1>4. pc'[c] = "done" /\ res'[c] = r /\ next'[c] = 1 BY <1>1 DEF CommandType, End, Go
<1>5. OpSound(c)' BY <1>4 DEF BookInv, OpSound
<1>6. Fresh(c)' /\ UndoFresh(c)' BY <1>4 DEF Fresh, UndoFresh
<1>7. Elsewhere(c) BY <1>1 DEF Elsewhere, CommandType, End, Go
<1> QED BY <1>3, <1>5, <1>6, <1>7

\* The steps that leave the files alone.
LEMMA ReadSteps ==
  ASSUME BookInv, NEW c \in Commands,
         (\E o \in Ops : Start(c, o)) \/ ReadBook(c) \/ MergeArtifact(c) \/ RemoveArtifact(c) \/ Convert(c)
  PROVE  /\ CommandType' /\ Elsewhere(c) /\ OpSound(c)' /\ Fresh(c)' /\ UndoFresh(c)'
         /\ UNCHANGED <<book, refs, meta, damaged, artifacts, stale, spoiled, owed, undo>>
<1>a. /\ CommandType /\ FilesType /\ OpSound(c) /\ Fresh(c) /\ UndoFresh(c) BY DEF BookInv
<1>b. UNCHANGED <<book, refs, meta, damaged, artifacts, stale, spoiled, owed, undo>>
  BY DEF Start, ReadBook, MergeArtifact, RemoveArtifact, Convert
<1>1. CASE \E o \in Ops : Start(c, o)
  <2>1. PICK o \in Ops : Start(c, o) BY <1>1
  <2>2. CommandType' BY <1>a, <2>1 DEF CommandType, Start, Go
  <2>3. Elsewhere(c) BY <1>a, <2>1 DEF CommandType, Start, Go, Elsewhere
  <2>4. pc[c] = "idle" /\ pc'[c] = "read" /\ op'[c] = o /\ res' = res /\ next' = next
    BY <1>a, <2>1 DEF CommandType, Start, Go
  <2> QED BY <1>a, <1>b, <2>2, <2>3, <2>4 DEF OpSound, Fresh, UndoFresh
<1>2. CASE ReadBook(c)
  <2>1. pc[c] = "read" /\ op' = op BY <1>2 DEF ReadBook
  <2>2. CASE End(c, "unreadable") BY <1>b, <2>1, <2>2, Ended
  <2>3. CASE /\ "book" \notin damaged /\ myBook' = [myBook EXCEPT ![c] = book]
             /\ Go(c, IF op[c].kind = "migrate" THEN "datastore" ELSE "artifact")
             /\ UNCHANGED <<myRefs, next, res, art>>
    <3>1. CommandType' BY <1>a, <2>1, <2>3 DEF CommandType, Go, FilesType
    <3>2. Elsewhere(c) BY <1>a, <2>1, <2>3 DEF CommandType, Go, Elsewhere
    <3>3. /\ pc'[c] = (IF op[c].kind = "migrate" THEN "datastore" ELSE "artifact")
          /\ myBook'[c] = book /\ op'[c] = op[c] /\ res'[c] = res[c] /\ next'[c] = next[c]
      BY <1>a, <2>1, <2>3 DEF CommandType, Go
    <3>4. op[c] \in Ops BY <1>a, <2>1 DEF OpSound
    <3>5. /\ op[c].kind = "migrate" => op[c].opts \in Options
          /\ op[c].kind # "migrate" => op[c].kind \in {"merge", "remove"} /\ op[c].cs \in Changesets
      BY <3>4 DEF Ops
    <3>6. OpSound(c)' BY <1>a, <2>1, <3>3, <3>4, <3>5 DEF OpSound
    <3>7. Fresh(c)' /\ UndoFresh(c)' BY <1>b, <2>3, <3>3 DEF Fresh, UndoFresh
    <3> QED BY <1>b, <3>1, <3>2, <3>6, <3>7
  <2> QED BY <1>2, <2>2, <2>3 DEF ReadBook
<1>3. CASE MergeArtifact(c)
  <2>1. pc[c] = "artifact" /\ op[c].kind = "merge" /\ op' = op BY <1>3 DEF MergeArtifact
  <2> DEFINE o == LoadArtifact(op[c].cs)
  <2>2. op[c].cs \in Changesets /\ op[c] \in Ops BY <1>a, <2>1 DEF OpSound
  <2>3. o \in Book /\ myBook[c] \in Book BY <1>a, <2>2, ArtifactType DEF CommandType
  <2>4. PICK m \in Merge(myBook[c], o) :
          \/ /\ m.ok /\ myBook' = [myBook EXCEPT ![c] = m.book] /\ art' = [art EXCEPT ![c] = o]
             /\ Go(c, "write") /\ UNCHANGED <<myRefs, next, res>>
          \/ End(c, "error")
    BY <1>3 DEF MergeArtifact, MergeOutcomes
  <2> HIDE DEF o
  <2>5. CASE End(c, "error") BY <1>b, <2>1, <2>5, Ended
  <2>6. CASE /\ m.ok /\ myBook' = [myBook EXCEPT ![c] = m.book] /\ art' = [art EXCEPT ![c] = o]
             /\ Go(c, "write") /\ UNCHANGED <<myRefs, next, res>>
    <3>1. AllSave(myBook[c], o, Entries(o)) /\ m.book = Saved(myBook[c], o, Entries(o))
      BY <2>6, MergeSaves
    <3>2. m.book \in Book BY <2>3, <3>1, BookType
    <3>3. CommandType' BY <1>a, <2>1, <2>3, <2>6, <3>2 DEF CommandType, Go
    <3>4. Elsewhere(c) BY <1>a, <2>1, <2>6 DEF CommandType, Go, Elsewhere
    <3>5. pc'[c] = "write" /\ myBook'[c] = m.book /\ art'[c] = o /\ op'[c] = op[c] /\ res'[c] = res[c]
          /\ next'[c] = next[c]
      BY <1>a, <2>1, <2>6 DEF CommandType, Go
    <3>6. OpSound(c)' BY <1>a, <2>1, <2>2, <3>5 DEF OpSound
    <3>7. Fresh(c)' BY <1>a, <1>b, <2>1, <3>1, <3>5 DEF Fresh
    <3>8. UndoFresh(c)' BY <1>b, <3>5, Zenon DEF UndoFresh, LoadArtifact, o
    <3> QED BY <1>b, <3>3, <3>4, <3>6, <3>7, <3>8
  <2> QED BY <2>4, <2>5, <2>6
<1>4. CASE RemoveArtifact(c)
  <2>1. pc[c] = "artifact" /\ op[c].kind = "remove" /\ op' = op BY <1>4 DEF RemoveArtifact
  <2> DEFINE o == LoadArtifact(op[c].cs)
  <2>2. op[c].cs \in Changesets /\ op[c] \in Ops BY <1>a, <2>1 DEF OpSound
  <2>3. o \in Book /\ myBook[c] \in Book BY <1>a, <2>2, ArtifactType DEF CommandType
  <2>4. \/ /\ myBook' = [myBook EXCEPT ![c] = Remove(@, o)] /\ art' = [art EXCEPT ![c] = o]
           /\ Go(c, "write") /\ UNCHANGED <<myRefs, next, res>>
        \/ End(c, "absent")
    BY <1>4 DEF RemoveArtifact
  <2> HIDE DEF o
  <2>5. CASE End(c, "absent") BY <1>b, <2>1, <2>5, Ended
  <2>6. CASE /\ myBook' = [myBook EXCEPT ![c] = Remove(@, o)] /\ art' = [art EXCEPT ![c] = o]
             /\ Go(c, "write") /\ UNCHANGED <<myRefs, next, res>>
    <3>1. Remove(myBook[c], o) \in Book BY <2>3, BookType
    <3>2. CommandType' BY <1>a, <2>1, <2>3, <2>6, <3>1 DEF CommandType, Go
    <3>3. Elsewhere(c) BY <1>a, <2>1, <2>6 DEF CommandType, Go, Elsewhere
    <3>4. /\ pc'[c] = "write" /\ myBook'[c] = Remove(myBook[c], o) /\ art'[c] = o
          /\ op'[c] = op[c] /\ res'[c] = res[c] /\ next'[c] = next[c]
      BY <1>a, <2>1, <2>6 DEF CommandType, Go
    <3>5. OpSound(c)' BY <1>a, <2>1, <2>2, <3>4 DEF OpSound
    <3>6. Fresh(c)' BY <1>a, <1>b, <2>1, <3>4 DEF Fresh
    <3>7. UndoFresh(c)' BY <1>b, <3>4, Zenon DEF UndoFresh, LoadArtifact, o
    <3> QED BY <1>b, <3>2, <3>3, <3>5, <3>6, <3>7
  <2> QED BY <2>4, <2>5, <2>6
<1>5. CASE Convert(c)
  <2> DEFINE opts == op[c].opts
             new == KeptRefs(opts, refs) \cup AddedRefs(opts, refs, myBook[c])
  <2>1. pc[c] = "datastore" /\ op' = op BY <1>5 DEF Convert
  <2>2. opts \in Options /\ op[c] \in Ops /\ op[c].kind = "migrate" BY <1>a, <2>1 DEF OpSound
  <2>3. new \in SUBSET AddressRef BY <1>a, <2>2, RefsType DEF CommandType, FilesType
  <2>4. \/ /\ myRefs' = [myRefs EXCEPT ![c] = new]
           /\ Go(c, "files") /\ UNCHANGED <<myBook, next, res, art>>
        \/ End(c, "error")
    BY <1>5 DEF Convert
  <2> HIDE DEF new
  <2>5. CASE End(c, "error") BY <1>b, <2>1, <2>5, Ended
  <2>6. CASE /\ myRefs' = [myRefs EXCEPT ![c] = new]
             /\ Go(c, "files") /\ UNCHANGED <<myBook, next, res, art>>
    <3>1. CommandType' BY <1>a, <2>1, <2>3, <2>6 DEF CommandType, Go
    <3>2. Elsewhere(c) BY <1>a, <2>1, <2>6 DEF CommandType, Go, Elsewhere
    <3>3. pc'[c] = "files" /\ myRefs'[c] = new /\ next'[c] = next[c] /\ op'[c] = op[c] /\ res'[c] = res[c]
      BY <1>a, <2>1, <2>6 DEF CommandType, Go
    <3>4. next[c] = 1 BY <1>a, <2>1 DEF OpSound
    <3>5. OpSound(c)' BY <1>a, <2>1, <2>2, <3>3, <3>4 DEF OpSound, FilesOf
    <3>6. Fresh(c)' BY <1>a, <1>b, <2>1, <3>3, <3>4 DEF Fresh, new
    <3>7. UndoFresh(c)' BY <3>3 DEF UndoFresh
    <3> QED BY <1>b, <3>1, <3>2, <3>5, <3>6, <3>7
  <2> QED BY <2>4, <2>5, <2>6
<1> QED BY <1>1, <1>2, <1>3, <1>4, <1>5

\* The files of a migration, the refs first.
LEMMA FileNames ==
  ASSUME NEW opts
  PROVE  LET files == FilesOf(opts) IN
         /\ Len(files) \in {1, 4} /\ (addressRefsOnly(opts) => Len(files) = 1)
         /\ \A k \in 1 .. Len(files) : files[k] \in DatastoreFiles /\ (files[k] = "refs" <=> k = 1)
<1>1. CASE addressRefsOnly(opts) BY <1>1 DEF FilesOf, DatastoreFiles
<1>2. CASE ~addressRefsOnly(opts) BY <1>2 DEF FilesOf, DatastoreFiles
<1> QED BY <1>1, <1>2

\* The steps that write.
LEMMA WriteSteps ==
  ASSUME BookInv, NEW c \in Commands, WriteBook(c) \/ WriteFile(c) \/ Cut(c)
  PROVE  /\ CommandType' /\ Elsewhere(c) /\ OpSound(c)' /\ Fresh(c)' /\ UndoFresh(c)'
         /\ Spoils(c) /\ FilesType' /\ BookExact' /\ UndoSound'
<1>a. /\ CommandType /\ FilesType /\ OpSound(c) /\ Fresh(c) /\ BookExact /\ UndoSound BY DEF BookInv
<1>b. Spoils(c) /\ op' = op /\ artifacts' = artifacts BY DEF WriteBook, WriteFile, Cut
<1>c. stale' \in [Commands -> BOOLEAN] /\ (stale'[c] <=> stale[c])
  BY <1>a, <1>b, Zenon DEF Spoils, FilesType
<1>d. damaged' \subseteq DatastoreFiles \cup {"book"}
  <2>1. \A x : damaged' = damaged \ {x} => damaged' \subseteq DatastoreFiles \cup {"book"}
    BY <1>a DEF FilesType
  <2>2. CASE Cut(c)
    <3>1. pc[c] = "files" => FilesOf(op[c].opts)[next[c]] \in DatastoreFiles
      BY <1>a, FileNames DEF OpSound, CommandType
    <3> DEFINE f == IF pc[c] = "write" THEN "book" ELSE FilesOf(op[c].opts)[next[c]]
    <3>2. f \in DatastoreFiles \cup {"book"} BY <2>2, <3>1 DEF Cut
    <3>3. damaged' \in {damaged, damaged \cup {f}, damaged \ {f}}
      BY <2>2 DEF Cut
    <3> HIDE DEF f
    <3> QED BY <1>a, <3>2, <3>3 DEF FilesType
  <2> QED BY <2>1, <2>2 DEF WriteBook, WriteFile
<1>1. CASE WriteBook(c)
  <2>1. pc[c] = "write" /\ book' = myBook[c] /\ refs' = refs /\ meta' = meta /\ End(c, "ok")
    BY <1>1 DEF WriteBook
  <2>2. myBook[c] \in Book /\ art[c] \in Book BY <1>a DEF CommandType
  <2>3. owed' \in Book BY <1>1, <1>a, <2>2, BookType DEF WriteBook, FilesType
  <2>4. spoiled' \in BOOLEAN BY <1>1, <1>a, Zenon DEF WriteBook, FilesType
  <2>5. FilesType' BY <1>a, <1>b, <1>c, <1>d, <2>1, <2>2, <2>3, <2>4 DEF FilesType
  <2>6. op[c].kind \in {"merge", "remove"} /\ op[c].cs \in Changesets BY <1>a, <2>1 DEF OpSound
  <2>7. BookExact'
    <3> SUFFICES ASSUME ~spoiled' PROVE book' = owed' BY DEF BookExact
    <3>1. ~spoiled /\ ~stale[c] BY <1>1 DEF WriteBook
    <3>2. "book" \notin damaged /\ book = owed BY <1>a, <2>1, <3>1 DEF Fresh, BookExact
    <3> QED BY <1>1, <1>a, <2>1, <2>6, <3>1, <3>2 DEF WriteBook, Fresh
  <2>8. UndoSound'
    <3> SUFFICES ASSUME undo' # None
                 PROVE  LET o == LoadArtifact(undo'.cs) IN
                        /\ undo'.cs \in Changesets /\ undo'.book \in Book
                        /\ AllSave(undo'.book, o, Entries(o)) /\ book' = Saved(undo'.book, o, Entries(o))
      BY <1>b DEF UndoSound, LoadArtifact
    <3>1. /\ op[c].kind = "merge" /\ ~stale[c] /\ art[c] = LoadArtifact(op[c].cs)
          /\ undo' = [cs |-> op[c].cs, book |-> book]
      BY <1>1 DEF WriteBook
    <3>2. undo'.cs = op[c].cs /\ undo'.book = book BY <3>1
    <3>3. AllSave(book, art[c], Entries(art[c])) /\ book' = Saved(book, art[c], Entries(art[c]))
      BY <1>a, <2>1, <3>1 DEF Fresh
    <3> QED BY <1>a, <2>6, <3>1, <3>2, <3>3 DEF FilesType
  <2>9. /\ CommandType' /\ Elsewhere(c) /\ OpSound(c)' /\ Fresh(c)' /\ UndoFresh(c)'
    BY <1>b, <2>1, Ended
  <2> QED BY <1>b, <2>5, <2>7, <2>8, <2>9
<1>2. CASE WriteFile(c)
  <2> DEFINE files == FilesOf(op[c].opts)
             f == files[next[c]]
  <2>1. /\ pc[c] = "files" /\ refs' = (IF f = "refs" THEN myRefs[c] ELSE refs) /\ meta' = meta \ {f}
        /\ damaged' = damaged \ {f} /\ UNCHANGED <<book, spoiled, owed, undo>>
        /\ \/ /\ next[c] < Len(files) /\ next' = [next EXCEPT ![c] = @ + 1]
              /\ UNCHANGED <<pc, res, myBook, myRefs, art>>
           \/ End(c, "ok")
    BY <1>2 DEF WriteFile
  <2>2. /\ next[c] \in 1 .. Len(files) /\ op[c].opts \in Options /\ op[c] \in Ops /\ op[c].kind = "migrate"
        /\ myRefs[c] \in SUBSET AddressRef
    BY <1>a, <2>1 DEF OpSound, CommandType, FilesOf
  <2>3. /\ Len(files) \in {1, 4} /\ (addressRefsOnly(op[c].opts) => Len(files) = 1)
        /\ \A k \in 1 .. Len(files) : files[k] \in DatastoreFiles /\ (files[k] = "refs" <=> k = 1)
    BY FileNames
  <2>4. f \in DatastoreFiles /\ f # "book" /\ (f = "refs" <=> next[c] = 1)
    BY <2>2, <2>3 DEF DatastoreFiles
  <2> HIDE DEF f, files
  <2>5. FilesType' BY <1>a, <1>b, <1>c, <1>d, <2>1, <2>2 DEF FilesType
  <2>6. BookExact' BY <1>a, <2>1, <2>4 DEF BookExact
  <2>7. UndoSound' BY <1>a, <1>b, <2>1 DEF UndoSound, LoadArtifact
  <2>8. CASE End(c, "ok")
    <3>1. CommandType' /\ Elsewhere(c) /\ OpSound(c)' /\ Fresh(c)' /\ UndoFresh(c)'
      BY <1>b, <2>1, <2>8, Ended
    <3> QED BY <1>b, <2>5, <2>6, <2>7, <3>1
  <2>9. CASE /\ next[c] < Len(files) /\ next' = [next EXCEPT ![c] = @ + 1]
             /\ UNCHANGED <<pc, res, myBook, myRefs, art>>
    <3>1. next[c] + 1 \in 1 .. 4 /\ next[c] + 1 <= Len(files) /\ next[c] + 1 # 1 /\ Len(files) = 4
      BY <2>2, <2>3, <2>9
    <3>2. CommandType' BY <1>a, <1>b, <2>9, <3>1 DEF CommandType
    <3>3. Elsewhere(c) BY <1>a, <1>b, <2>9 DEF CommandType, Elsewhere
    <3>4. next'[c] = next[c] + 1 BY <1>a, <2>9 DEF CommandType
    <3>5. OpSound(c)' BY <1>a, <1>b, <2>1, <2>9, <3>1, <3>4 DEF OpSound, files
    <3>6. ~addressRefsOnly(op[c].opts) BY <2>3, <3>1
    <3>7. ~stale[c] => refs' = myRefs[c] /\ Covered(op[c].opts, book, refs')
      <4>1. CASE next[c] = 1
        <5>1. refs' = myRefs[c] BY <2>1, <2>4, <4>1
        <5>2. ~stale[c] => myRefs[c] = KeptRefs(op[c].opts, refs) \cup AddedRefs(op[c].opts, refs, book)
          BY <1>a, <2>1, <4>1 DEF Fresh
        <5>3. book \in Book /\ refs \in SUBSET AddressRef BY <1>a DEF FilesType
        <5>4. Covered(op[c].opts, book,
                      KeptRefs(op[c].opts, refs) \cup AddedRefs(op[c].opts, refs, book))
          BY <2>2, <5>3, MigrationCovers
        <5> QED BY <5>1, <5>2, <5>4
      <4>2. CASE next[c] # 1 BY <1>a, <2>1, <2>4, <4>2 DEF Fresh
      <4> QED BY <4>1, <4>2
    <3>8. Fresh(c)' BY <1>b, <1>c, <2>1, <2>9, <3>1, <3>4, <3>6, <3>7 DEF Fresh, Covered
    <3>9. UndoFresh(c)' BY <2>1, <2>9 DEF UndoFresh
    <3> QED BY <1>b, <2>5, <2>6, <2>7, <3>2, <3>3, <3>5, <3>8, <3>9
  <2> QED BY <2>1, <2>8, <2>9
<1>3. CASE Cut(c)
  <2>1. /\ pc[c] \in {"write", "files"} /\ End(c, "cut") /\ undo' = None
        /\ UNCHANGED <<book, spoiled, owed>>
    BY <1>3 DEF Cut
  <2>6. /\ "book" \in damaged => "book" \in damaged'
        /\ refs' \in {refs, {}} /\ meta' \subseteq meta
    BY <1>3 DEF Cut
  <2>2. FilesType' BY <1>a, <1>b, <1>c, <1>d, <2>1, <2>6 DEF FilesType
  <2>3. BookExact' BY <1>a, <2>1, <2>6 DEF BookExact
  <2>4. UndoSound' BY <2>1 DEF UndoSound
  <2>5. CommandType' /\ Elsewhere(c) /\ OpSound(c)' /\ Fresh(c)' /\ UndoFresh(c)'
    BY <1>b, <2>1, Ended
  <2> QED BY <1>b, <2>2, <2>3, <2>4, <2>5
<1> QED BY <1>1, <1>2, <1>3

\* Every step keeps the invariant.
LEMMA BookStep ==
  ASSUME BookInv, [Next]_vars PROVE BookInv'
<1>1. ASSUME NEW s \in Changesets, SaveAddressBook(s) PROVE BookInv'
  <2>1. /\ \E b \in Outputs : artifacts' = [artifacts EXCEPT ![s] = Append(@, b)]
        /\ undo' = (IF undo # None /\ undo.cs = s THEN None ELSE undo)
        /\ UNCHANGED <<book, refs, meta, damaged, pc, op, myBook, myRefs, next, res, art, stale, spoiled, owed>>
    BY <1>1 DEF SaveAddressBook, proc
  <2>2. FilesType' /\ \A t \in Changesets \ {s} : artifacts'[t] = artifacts[t]
    BY <2>1 DEF BookInv, FilesType
  <2>3. \A t \in Changesets \ {s} : LoadArtifact(t)' = LoadArtifact(t) BY <2>2 DEF LoadArtifact
  <2>4. CommandType' /\ BookExact' BY <2>1 DEF BookInv, CommandType, BookExact
  <2>5. UndoSound'
    <3>1. CASE undo' = None BY <3>1 DEF UndoSound
    <3>2. CASE undo' # None
      <4>1. undo' = undo /\ undo.cs # s /\ undo # None BY <2>1, <3>2
      <4>2. undo.cs \in Changesets \ {s} BY <4>1 DEF BookInv, UndoSound
      <4>3. LoadArtifact(undo.cs)' = LoadArtifact(undo.cs) BY <2>3, <4>1, <4>2
      <4>4. book' = book BY <2>1
      <4> QED BY <4>1, <4>3, <4>4 DEF BookInv, UndoSound
    <3> QED BY <3>1, <3>2
  <2>6. ASSUME NEW d \in Commands PROVE OpSound(d)' /\ Fresh(d)' /\ UndoFresh(d)'
    <3>1. OpSound(d)' /\ Fresh(d)' BY <2>1 DEF BookInv, OpSound, Fresh, Covered
    <3>2. UndoFresh(d)'
      <4> SUFFICES ASSUME pc[d] = "write", ~stale[d], undo' # None, undo'.cs = op[d].cs
                   PROVE  art[d] = LoadArtifact(op[d].cs)'
        BY <2>1 DEF UndoFresh
      <4>1. undo' = undo /\ undo.cs # s BY <2>1
      <4>2. op[d].cs \in Changesets BY DEF BookInv, OpSound
      <4> QED BY <2>1, <2>3, <4>1, <4>2 DEF BookInv, UndoFresh
    <3> QED BY <3>1, <3>2
  <2> QED BY <2>2, <2>4, <2>5, <2>6 DEF BookInv
<1>2. ASSUME NEW c \in Commands,
             (\E o \in Ops : Start(c, o)) \/ ReadBook(c) \/ MergeArtifact(c) \/ RemoveArtifact(c) \/ Convert(c)
      PROVE  BookInv'
  <2>1. /\ CommandType' /\ Elsewhere(c) /\ OpSound(c)' /\ Fresh(c)' /\ UndoFresh(c)'
        /\ UNCHANGED <<book, refs, meta, damaged, artifacts, stale, spoiled, owed, undo>>
    BY <1>2, ReadSteps
  <2>2. Quiet(c) BY <2>1 DEF Quiet
  <2>3. \A d \in Commands : OpSound(d)' /\ Fresh(d)' /\ UndoFresh(d)' BY <2>1, <2>2, OthersKept
  <2>4. FilesType' /\ BookExact' /\ UndoSound'
    BY <2>1 DEF BookInv, FilesType, BookExact, UndoSound, LoadArtifact
  <2> QED BY <2>1, <2>3, <2>4 DEF BookInv
<1>3. ASSUME NEW c \in Commands, WriteBook(c) \/ WriteFile(c) \/ Cut(c) PROVE BookInv'
  <2>1. /\ CommandType' /\ Elsewhere(c) /\ OpSound(c)' /\ Fresh(c)' /\ UndoFresh(c)'
        /\ Spoils(c) /\ FilesType' /\ BookExact' /\ UndoSound'
    BY <1>3, WriteSteps
  <2>2. Quiet(c) BY <2>1 DEF Quiet
  <2>3. \A d \in Commands : OpSound(d)' /\ Fresh(d)' /\ UndoFresh(d)' BY <2>1, <2>2, OthersKept
  <2> QED BY <2>1, <2>3 DEF BookInv
<1>4. CASE UNCHANGED vars
  BY <1>4 DEF vars, BookInv, FilesType, CommandType, BookExact, UndoSound, OpSound, Fresh,
     UndoFresh,
              Covered, LoadArtifact
<1> QED BY <1>1, <1>2, <1>3, <1>4 DEF Next
\* The invariant of the address book commands.
LEMMA BookInvariant == Spec => []BookInv
<1>1. Init => BookInv
  <2> SUFFICES ASSUME Init PROVE BookInv OBVIOUS
  <2>1. FilesType
    <3>1. << >> \in Seq(Outputs) OBVIOUS
    <3>2. book \in Book /\ refs \subseteq AddressRef BY FilesAssumption DEF Init
    <3> QED BY <3>1, <3>2 DEF Init, FilesType
  <2>2. EmptyBook \in Book BY <2>1, BookType DEF FilesType
  <2>3. CommandType BY <2>2 DEF Init, CommandType
  <2>4. BookExact /\ UndoSound BY DEF Init, BookExact, UndoSound
  <2>5. \A c \in Commands : OpSound(c) /\ Fresh(c) /\ UndoFresh(c)
    BY DEF Init, OpSound, Fresh, UndoFresh
  <2> QED BY <2>1, <2>3, <2>4, <2>5 DEF BookInv
<1>2. BookInv /\ [Next]_vars => BookInv' BY BookStep
<1> QED BY <1>1, <1>2, PTL DEF Spec

\* Where no two commands overlapped and no write was cut, the address book on disk
\* is what the successful commands make of it, and `remove` after `merge` gives
\* back the book of before: for any books, chains and addresses, and any number
\* of processes.
THEOREM BookKept == Spec => []BookSound
<1>1. BookInv => BookSound
  <2> SUFFICES ASSUME BookInv PROVE BookSound OBVIOUS
  <2>1. TypeOK BY DEF BookInv, FilesType, CommandType, OpSound, TypeOK
  <2>2. RemoveUndoes
    <3> SUFFICES ASSUME NEW c \in Commands,
                        pc[c] \in {"artifact", "write"}, op[c].kind = "remove", ~stale[c],
                        undo # None, undo.cs = op[c].cs,
                        \A p \in Entries(IF pc[c] = "artifact" THEN LoadArtifact(op[c].cs) ELSE art[c]) :
                          Standard(p) = p
                 PROVE  IF pc[c] = "artifact" THEN CanRemove(myBook[c], LoadArtifact(op[c].cs))
                                              ELSE myBook[c] = undo.book
      BY DEF RemoveUndoes
    <3> DEFINE o == LoadArtifact(op[c].cs)
    <3>1. undo.book \in Book /\ AllSave(undo.book, o, Entries(o)) /\ book = Saved(undo.book, o, Entries(o))
      BY DEF BookInv, UndoSound
    <3>2. o \in Book BY ArtifactType DEF BookInv, OpSound
    <3>3. pc[c] = "write" => art[c] = o BY DEF BookInv, UndoFresh
    <3>4. \A p \in Entries(o) : Standard(p) = p BY <3>3
    <3> HIDE DEF o
    <3>5. CanRemove(book, o) /\ Remove(book, o) = undo.book BY <3>1, <3>2, <3>4, RemoveSaved
    <3>6. pc[c] = "artifact" => myBook[c] = book BY DEF BookInv, Fresh
    <3>7. pc[c] = "write" => myBook[c] = Remove(book, art[c]) BY DEF BookInv, Fresh
    <3> QED BY <3>3, <3>5, <3>6, <3>7 DEF o
  <2> QED BY <2>1, <2>2 DEF BookSound, BookInv
<1> QED BY <1>1, BookInvariant, PTL

\* A migration that no other command disturbed loses no ref that it should keep,
\* adds none whose contract is there, has one for every address in scope, and
\* touches the metadata only when it migrates everything.
THEOREM MigrationExact == Spec => MigrationKeeps
<1>1. ASSUME BookInv, NEW c \in Commands, WriteFile(c), ~stale[c] PROVE MigratesWell(c)
  <2> DEFINE opts == op[c].opts
             f == FilesOf(opts)[next[c]]
  <2>1. /\ pc[c] = "files" /\ refs' = (IF f = "refs" THEN myRefs[c] ELSE refs) /\ meta' = meta \ {f}
    BY <1>1 DEF WriteFile
  <2>2. /\ next[c] \in 1 .. Len(FilesOf(opts)) /\ opts \in Options /\ book \in Book
        /\ refs \in SUBSET AddressRef /\ meta \subseteq Metadata
    BY <1>1, <2>1, FileNames DEF BookInv, OpSound, FilesType, CommandType
  <2>3. f = "refs" <=> next[c] = 1 BY <2>2, FileNames
  <2>4. Fresh(c) BY <1>1 DEF BookInv
  <2> HIDE DEF f
  <2>5. CASE next[c] = 1
    <3> DEFINE kept == KeptRefs(opts, refs)
               added == AddedRefs(opts, refs, book)
    <3>1. refs' = kept \cup added BY <1>1, <2>1, <2>3, <2>4, <2>5 DEF Fresh
    <3>2. Covered(opts, book, kept \cup added) BY <2>2, MigrationCovers
    <3>3. opts.preserve => kept = refs BY DEF KeptRefs
    <3>4. opts.preserve => \A r \in added : \A s \in refs : IdentityOf(r) # IdentityOf(s)
      BY DEF AddedRefs, IdentityOf, ToAddressRef, addressRefIdentity
    <3>5. opts.chain # NoChain => \A r \in added : r.chain = opts.chain
      BY DEF AddedRefs, ToAddressRef, InScope
    <3>6. opts.chain # NoChain => kept = refs \/ kept = {r \in refs : r.chain # opts.chain}
      BY DEF KeptRefs
    <3>7. meta' = meta BY <2>1, <2>2, <2>3, <2>5 DEF Metadata
    <3> HIDE DEF kept, added
    <3>8. opts.chain # NoChain => {r \in refs' : r.chain # opts.chain} = {r \in refs : r.chain # opts.chain}
      BY <3>1, <3>5, <3>6
    <3> QED BY <3>1, <3>2, <3>3, <3>4, <3>7, <3>8 DEF MigratesWell
  <2>6. CASE next[c] # 1
    <3>1. refs' = refs BY <2>1, <2>3, <2>6
    <3>2. ~addressRefsOnly(opts) /\ Covered(opts, book, refs) BY <1>1, <2>1, <2>4, <2>6 DEF Fresh
    <3>3. ~opts.preserve /\ opts.chain = NoChain BY <3>2 DEF addressRefsOnly
    <3> QED BY <3>1, <3>2, <3>3 DEF MigratesWell
  <2> QED BY <2>5, <2>6
<1>2. BookInv /\ [Next]_vars => [\A c \in Commands : WriteFile(c) /\ ~stale[c] => MigratesWell(c)]_vars
  BY <1>1
<1>3. Spec => [][Next]_vars BY PTL DEF Spec
<1> QED BY <1>2, <1>3, BookInvariant, PTL DEF MigrationKeeps
-----------------------------------------------------------------------------
(* The analysis of a proposal.                                             *)

AnType ==
  /\ kinds \in [Analyzers -> DOMAIN NodesOf] /\ deps \in [Analyzers -> SUBSET Analyzers]
  /\ registered \subseteq Analyzers /\ failedIDs \subseteq Analyzers
  /\ phase \in {"setup", "levels", "returned"} /\ level \in 1 .. Num + 1
  /\ open \in BOOLEAN /\ acancel \in BOOLEAN /\ answer \in {"none", "nil", "error"}
  /\ status \in [Analyzers -> {"none", "node", "can", "analyze", "ok", "error", "skipped"}]
  /\ at \in [Analyzers -> Nat \ {0}] /\ DOMAIN saw = Analyzers

\* The analyzers of the levels before this one have ended, and those of later
\* ones have not begun; an ID counts as failed when its analyzer did not succeed.
Begun == Processed[IF open THEN level ELSE level - 1]

LevelSound ==
  /\ phase = "setup" => level = 1 /\ ~open
  /\ open => level <= Num /\ phase = "levels"
  /\ phase = "levels" \/ level > 1 => ValidGraph
  /\ \A a \in Analyzers :
       /\ status[a] = "none" <=> a \notin Begun
       /\ a \in Processed[level - 1] => /\ status[a] \in {"ok", "error", "skipped"}
                                        /\ status[a] # "ok" => a \in failedIDs
       /\ a \in failedIDs => status[a] \in {"error", "skipped"}
       /\ status[a] = "skipped" => a \in failedIDs /\ HasFailedDep(a)
       /\ status[a] \notin {"none", "skipped"} => \A d \in deps[a] : status[d] = "ok"

\* How Run has ended.
ReturnSound ==
  phase = "returned" /\ level > 1 =>
    /\ ~acancel => registered \subseteq Begun
    /\ (answer = "nil") = (\A a \in registered : status[a] = "ok")

\* The goroutine of an analyzer goes from node to node.
NodesSound ==
  \A a \in Analyzers :
    /\ \A i \in DOMAIN Nodes(a) : i < at[a] => <<Nodes(a)[i], a>> \in notes \cup declined
    /\ status[a] = "ok" => at[a] > Len(Nodes(a))

AnInv == AnType /\ LevelSound /\ ReturnSound /\ NodesSound /\ DependenciesSettled
\* Induction over the numbers, for a set of them.
LEMMA NatSet ==
  ASSUME NEW S, 0 \in S, \A n \in Nat : n \in S => n + 1 \in S
  PROVE  Nat \subseteq S
<1> SUFFICES ASSUME Nat \ S # {} PROVE FALSE OBVIOUS
<1> DEFINE T == Nat \ S
<1>1. PICK n \in T : \A m \in T : ~(<<m, n>> \in OpToRel(<, Nat))
  BY NatLessThanWellFounded, WFMin, Zenon
<1>2. n \in Nat /\ n # 0 /\ n \notin S OBVIOUS
<1>3. n - 1 \in Nat /\ n - 1 < n /\ (n - 1) + 1 = n BY <1>2
<1>4. <<n - 1, n>> \in OpToRel(<, Nat) BY <1>2, <1>3, Zenon DEF OpToRel
<1>5. n - 1 \in S BY <1>1, <1>3, <1>4
<1>6. (n - 1) + 1 \in S BY <1>3, <1>5
<1> QED BY <1>2, <1>3, <1>6

\* Kahn's algorithm is defined for any graph: its levels grow, and a level that
\* is empty is the last one.
LEMMA LevelsExist ==
  /\ Num \in Nat
  /\ DOMAIN Processed = 0 .. Num
  /\ Processed[0] = {}
  /\ \A n \in 1 .. Num : Processed[n] = Processed[n-1] \cup {a \in registered : Ready(a, Processed[n-1])}
<1>1. Num \in Nat BY AnalysisAssumption, FS_CardinalityType DEF Num
<1> DEFINE Grown(f, n) == IF n = 0 THEN {} ELSE f[n-1] \cup {a \in registered : Ready(a, f[n-1])}
           Is(f, m) == f = [n \in 0 .. m |-> Grown(f, n)]
           S == {m \in Nat : \E f : Is(f, m)}
<1>2. 0 \in S
  <2> DEFINE e == [n \in 0 .. 0 |-> {}]
  <2>1. DOMAIN e = 0 .. 0 /\ \A n \in 0 .. 0 : e[n] = Grown(e, n) OBVIOUS
  <2>2. e = [n \in 0 .. 0 |-> Grown(e, n)] BY <2>1
  <2> QED BY <2>2
<1>3. ASSUME NEW m \in Nat, m \in S PROVE m + 1 \in S
  <2>0. PICK f : Is(f, m) BY <1>3
  <2>1. DOMAIN f = 0 .. m /\ \A n \in 0 .. m : f[n] = Grown(f, n) BY <2>0, Zenon
  <2> DEFINE last == f[m] \cup {a \in registered : Ready(a, f[m])}
             g == [n \in 0 .. m + 1 |-> IF n = m + 1 THEN last ELSE f[n]]
  <2> HIDE DEF last
  <2>2. /\ DOMAIN g = 0 .. m + 1 /\ g[m + 1] = last /\ \A n \in 0 .. m : g[n] = f[n]
        /\ g = [n \in 0 .. m + 1 |-> g[n]]
    OBVIOUS
  <2> HIDE DEF g
  <2>3. ASSUME NEW n \in 0 .. m + 1 PROVE g[n] = Grown(g, n)
    <3>1. CASE n = m + 1
      <4>0. m \in 0 .. m /\ n # 0 /\ n - 1 = m BY <3>1
      <4>1. g[n-1] = f[m] BY <2>2, <4>0
      <4> QED BY <2>2, <3>1, <4>0, <4>1 DEF last
    <3>2. CASE n # m + 1
      <4>1. n \in 0 .. m /\ (n # 0 => n - 1 \in 0 .. m) BY <3>2
      <4>2. g[n] = f[n] /\ f[n] = Grown(f, n) BY <2>1, <2>2, <4>1
      <4>3. n # 0 => g[n-1] = f[n-1] BY <2>2, <4>1
      <4> QED BY <4>2, <4>3
    <3> QED BY <3>1, <3>2
  <2>4. g = [n \in 0 .. m + 1 |-> Grown(g, n)]
    <3> HIDE DEF Grown
    <3> QED BY <2>2, <2>3
  <2>5. \E h : Is(h, m + 1) BY <2>4, Zenon
  <2>6. m + 1 \in Nat OBVIOUS
  <2> HIDE DEF Is
  <2> QED BY <2>5, <2>6
<1>4. Num \in S
  <2> HIDE DEF S
  <2> QED BY <1>1, <1>2, <1>3, NatSet
<1>5. \E f : Is(f, Num) BY <1>4
<1>6. Is(CHOOSE f : Is(f, Num), Num)
  <2> HIDE DEF Is
  <2> QED BY <1>5, Zenon
<1>7. Processed = CHOOSE f : Is(f, Num) BY Zenon DEF Processed
<1>8. Processed = [n \in 0 .. Num |-> Grown(Processed, n)] BY <1>6, <1>7, Zenon
<1>9. DOMAIN Processed = 0 .. Num /\ \A n \in 0 .. Num : Processed[n] = Grown(Processed, n)
  BY <1>8, Zenon
<1>10. Processed[0] = {} BY <1>1, <1>9
<1>11. ASSUME NEW n \in 1 .. Num
       PROVE  Processed[n] = Processed[n-1] \cup {a \in registered : Ready(a, Processed[n-1])}
  <2>1. n \in 0 .. Num /\ n # 0 BY <1>1
  <2> QED BY <1>9, <2>1
<1> QED BY <1>1, <1>9, <1>10, <1>11

\* The graph does not change while the analyzers run.
LEMMA LevelsRigid ==
  ASSUME deps' = deps, registered' = registered
  PROVE  /\ Processed' = Processed /\ (ValidGraph <=> ValidGraph')
         /\ \A n : Level(n)' = Level(n)
<1>1. Processed' = Processed BY Zenon DEF Processed, Ready
<1> QED BY <1>1, LevelsExist DEF ValidGraph, Level

\* The levels grow; each analyzer of a level depends on those before it; and
\* what is registered has a level, however early an empty one comes.
LEMMA LevelsGrow ==
  ASSUME registered \subseteq Analyzers, NEW n \in 1 .. Num
  PROVE  /\ Processed[n] = Processed[n-1] \cup Level(n)
         /\ Level(n) \subseteq registered
         /\ \A a \in Level(n) : deps[a] \subseteq Processed[n-1] /\ a \notin Processed[n-1]
         /\ Level(n) = {} => Processed[Num] = Processed[n-1]
<1>1. Processed[n] = Processed[n-1] \cup {a \in registered : Ready(a, Processed[n-1])}
  BY LevelsExist
<1>2. Processed[n] = Processed[n-1] \cup Level(n) /\ Level(n) \subseteq registered
      /\ \A a \in Level(n) : deps[a] \subseteq Processed[n-1] /\ a \notin Processed[n-1]
  BY <1>1 DEF Level, Ready
<1>3. ASSUME Level(n) = {} PROVE Processed[Num] = Processed[n-1]
  <2> DEFINE S == {k \in Nat : n + k <= Num => Processed[n + k] = Processed[n-1]}
  <2>1. Num \in Nat /\ n \in Nat /\ n <= Num BY LevelsExist
  <2>2. 0 \in S
    <3>1. n + 0 = n BY <2>1
    <3> QED BY <1>2, <1>3, <3>1
  <2>3. ASSUME NEW k \in Nat, k \in S PROVE k + 1 \in S
    <3> SUFFICES ASSUME n + (k + 1) <= Num PROVE Processed[n + (k + 1)] = Processed[n-1] OBVIOUS
    <3> DEFINE j == n + (k + 1)
    <3>1. j \in 1 .. Num /\ j - 1 = n + k /\ n + k <= Num BY <2>1
    <3>2. Processed[j - 1] = Processed[n - 1] BY <2>3, <3>1
    <3> HIDE DEF j
    <3>3. Processed[j] = Processed[j-1] \cup {a \in registered : Ready(a, Processed[j-1])}
      BY <3>1, LevelsExist
    <3>4. Processed[j] = Processed[n] BY <1>1, <3>2, <3>3
    <3>5. Processed[j] = Processed[n-1] BY <1>2, <1>3, <3>4
    <3> QED BY <3>5 DEF j
  <2> HIDE DEF S
  <2>4. Nat \subseteq S BY <2>2, <2>3, NatSet
  <2>5. Num - n \in S /\ n + (Num - n) = Num BY <2>1, <2>4
  <2> QED BY <2>5 DEF S
<1> QED BY <1>2, <1>3
\* A goroutine that runs is one of the level, which is open; its steps leave the
\* levels as they are.
LEMMA GoroutineLevels ==
  ASSUME AnInv, NEW a \in Analyzers, status[a] \in {"node", "can", "analyze"},
         NEW s \in {"node", "can", "analyze", "ok", "error"}, Becomes(a, s), UNCHANGED rest
  PROVE  /\ LevelSound' /\ ReturnSound' /\ status' \in [Analyzers -> {"none", "node", "can", "analyze",
                                                                     "ok", "error", "skipped"}]
         /\ status'[a] = s /\ \A b \in Analyzers \ {a} : status'[b] = status[b]
         /\ \A b \in Analyzers : status[b] \in {"can", "analyze"} => a \notin deps[b]
<1>1. AnType /\ LevelSound BY DEF AnInv
<1>2. UNCHANGED <<kinds, deps, registered, phase, level, open, failedIDs, acancel, answer>>
  BY DEF rest
<1>3. Processed' = Processed /\ (ValidGraph <=> ValidGraph') BY <1>2, LevelsRigid
<1>4. /\ status' \in [Analyzers -> {"none", "node", "can", "analyze", "ok", "error", "skipped"}]
      /\ status'[a] = s /\ \A b \in Analyzers \ {a} : status'[b] = status[b]
  BY <1>1 DEF AnType, Becomes
<1>5. a \in Begun /\ a \notin Processed[level - 1] /\ a \notin failedIDs BY <1>1 DEF LevelSound
<1>6. open /\ phase = "levels" BY <1>1, <1>5 DEF LevelSound, Begun
<1>7. Begun' = Begun BY <1>2, <1>3 DEF Begun
<1>8. \A b \in Analyzers : deps[b] \subseteq Analyzers BY <1>1 DEF AnType
<1>9. ASSUME NEW b \in Analyzers
      PROVE  /\ status'[b] = "none" <=> b \notin Begun
             /\ b \in Processed[level - 1] => /\ status'[b] \in {"ok", "error", "skipped"}
                                              /\ status'[b] # "ok" => b \in failedIDs
             /\ b \in failedIDs => status'[b] \in {"error", "skipped"}
             /\ status'[b] = "skipped" => b \in failedIDs /\ HasFailedDep(b)
  <2>1. CASE b = a BY <1>4, <1>5, <2>1
  <2>2. CASE b # a BY <1>1, <1>4, <2>2 DEF LevelSound
  <2> QED BY <2>1, <2>2
<1>10. ASSUME NEW b \in Analyzers, status'[b] \notin {"none", "skipped"}
       PROVE  \A d \in deps[b] : status'[d] = "ok"
  <2>1. status[b] \notin {"none", "skipped"} BY <1>4, <1>10
  <2>2. \A d \in deps[b] : status[d] = "ok" BY <1>1, <2>1 DEF LevelSound
  <2>3. \A d \in deps[b] : d # a /\ d \in Analyzers BY <1>8, <2>2
  <2> QED BY <1>4, <2>2, <2>3
<1>11. LevelSound'
  <2>1. \A b : HasFailedDep(b)' <=> HasFailedDep(b) BY <1>2 DEF HasFailedDep
  <2> QED BY <1>1, <1>2, <1>3, <1>7, <1>9, <1>10, <2>1 DEF LevelSound
<1>12. ReturnSound' BY <1>2, <1>6 DEF ReturnSound
<1>13. \A b \in Analyzers : status[b] \in {"can", "analyze"} => a \notin deps[b]
  BY <1>1 DEF LevelSound
<1> QED BY <1>4, <1>11, <1>12, <1>13

\* The steps of a goroutine.
LEMMA GoroutineSteps ==
  ASSUME AnInv, NEW a \in Analyzers,
         NextNode(a) \/ Decline(a) \/ Accept(a) \/ Annotate(a) \/ Fail(a) \/ Timeout(a)
  PROVE  AnInv'
<1>1. AnType /\ NodesSound /\ DependenciesSettled BY DEF AnInv
<1>2. UNCHANGED <<kinds, deps, registered, phase, level, open, failedIDs, acancel, answer>> /\ UNCHANGED rest
  BY DEF NextNode, Decline, Accept, Annotate, Fail, Timeout, rest
<1>3. \A b : Nodes(b)' = Nodes(b) BY <1>2 DEF Nodes
<1>4. status[a] \in {"node", "can", "analyze"}
  BY DEF NextNode, Decline, Accept, Annotate, Fail, Timeout
<1>5. at[a] \in Nat BY <1>1 DEF AnType
<1>6. Num' = Num BY DEF Num
<1>7. CASE Decline(a) \/ Annotate(a)
  <2>1. /\ Becomes(a, "node") /\ at' = [at EXCEPT ![a] = @ + 1] /\ saw' = saw
        /\ notes \cup declined \cup {<<Node(a), a>>} = notes' \cup declined'
        /\ notes' = notes \/ (notes' = notes \cup {<<Node(a), a>>})
    BY <1>7 DEF Decline, Annotate
  <2>2. /\ LevelSound' /\ ReturnSound' /\ status'[a] = "node" /\ \A b \in Analyzers \ {a} : status'[b] = status[b]
        /\ status' \in [Analyzers -> {"none", "node", "can", "analyze", "ok", "error", "skipped"}]
        /\ \A b \in Analyzers : status[b] \in {"can", "analyze"} => a \notin deps[b]
    BY <1>2, <1>4, <2>1, GoroutineLevels
  <2>3. at' \in [Analyzers -> Nat \ {0}] /\ at'[a] = at[a] + 1 /\ \A b \in Analyzers \ {a} : at'[b] = at[b]
    BY <1>1, <2>1 DEF AnType
  <2>4. AnType' BY <1>1, <1>2, <1>6, <2>1, <2>2, <2>3 DEF AnType
  <2>5. ASSUME NEW b \in Analyzers
        PROVE  /\ \A i \in DOMAIN Nodes(b) : i < at'[b] => <<Nodes(b)[i], b>> \in notes' \cup declined'
               /\ status'[b] = "ok" => at'[b] > Len(Nodes(b))
    <3>1. CASE b = a
      <4>1. DOMAIN Nodes(a) \subseteq Nat BY <1>1, AnalysisAssumption DEF AnType, Nodes
      <4>2. \A i \in DOMAIN Nodes(a) : i < at[a] + 1 => i < at[a] \/ i = at[a] BY <1>5, <4>1
      <4> QED BY <1>1, <2>1, <2>2, <2>3, <3>1, <4>2 DEF NodesSound, Node
    <3>2. CASE b # a BY <1>1, <2>1, <2>2, <2>3, <3>2 DEF NodesSound
    <3> QED BY <3>1, <3>2
  <2>6. NodesSound' BY <1>3, <2>5 DEF NodesSound
  <2>7. ASSUME NEW b \in Analyzers, status'[b] \in {"can", "analyze"}
        PROVE  saw'[b] = {x \in notes' : x[1] \in Scope(Node(b)') /\ x[2] \in deps[b]}
    <3>1. b # a /\ status[b] \in {"can", "analyze"} BY <2>2, <2>7
    <3>2. Node(b)' = Node(b) /\ a \notin deps[b] BY <1>3, <2>2, <2>3, <3>1 DEF Node
    <3>3. saw'[b] = {x \in notes : x[1] \in Scope(Node(b)) /\ x[2] \in deps[b]}
      BY <1>1, <2>1, <3>1 DEF DependenciesSettled
    <3>4. <<Node(a), a>>[2] \notin deps[b] BY <3>2
    <3> QED BY <2>1, <3>2, <3>3, <3>4
  <2>8. DependenciesSettled' BY <1>2, <2>7 DEF DependenciesSettled, Scope
  <2> QED BY <2>2, <2>4, <2>6, <2>8 DEF AnInv
<1>8. ASSUME NEW s \in {"can", "analyze", "ok", "error"}, Becomes(a, s), UNCHANGED <<at, notes, declined>>,
             DOMAIN saw' = Analyzers, \A b \in Analyzers \ {a} : saw'[b] = saw[b],
             s = "ok" => at[a] > Len(Nodes(a)),
             s = "can" => saw'[a] = DependencyAnnotations(a),
             s = "analyze" => status[a] = "can" /\ saw' = saw
      PROVE  AnInv'
  <2>1. /\ LevelSound' /\ ReturnSound' /\ status'[a] = s /\ \A b \in Analyzers \ {a} : status'[b] = status[b]
        /\ status' \in [Analyzers -> {"none", "node", "can", "analyze", "ok", "error", "skipped"}]
    BY <1>2, <1>4, <1>8, GoroutineLevels
  <2>2. AnType' BY <1>1, <1>2, <1>6, <1>8, <2>1 DEF AnType
  <2>3. ASSUME NEW b \in Analyzers
        PROVE  /\ \A i \in DOMAIN Nodes(b) : i < at[b] => <<Nodes(b)[i], b>> \in notes \cup declined
               /\ status'[b] = "ok" => at[b] > Len(Nodes(b))
    BY <1>1, <1>8, <2>1 DEF NodesSound
  <2>4. NodesSound' BY <1>3, <1>8, <2>3 DEF NodesSound
  <2>5. ASSUME NEW b \in Analyzers, status'[b] \in {"can", "analyze"}
        PROVE  saw'[b] = {x \in notes : x[1] \in Scope(Node(b)) /\ x[2] \in deps[b]}
    BY <1>1, <1>8, <2>1, <2>5 DEF DependenciesSettled, DependencyAnnotations
  <2>6. \A b : Node(b)' = Node(b) BY <1>3, <1>8 DEF Node
  <2>7. DependenciesSettled' BY <1>2, <1>8, <2>5, <2>6 DEF DependenciesSettled, Scope
  <2> QED BY <2>1, <2>2, <2>4, <2>7 DEF AnInv
<1>9. CASE NextNode(a)
  <2>1. at[a] > Len(Nodes(a)) \/ ~(at[a] > Len(Nodes(a))) OBVIOUS
  <2>2. CASE Becomes(a, "can") /\ saw' = [saw EXCEPT ![a] = DependencyAnnotations(a)]
    BY <1>1, <1>8, <1>9, <2>2 DEF NextNode, AnType
  <2>3. CASE ((Becomes(a, "ok") /\ at[a] > Len(Nodes(a))) \/ Becomes(a, "error")) /\ saw' = saw
    BY <1>1, <1>8, <1>9, <2>3 DEF NextNode, AnType
  <2> QED BY <1>9, <2>2, <2>3 DEF NextNode
<1>10. CASE Accept(a) \/ Fail(a) \/ Timeout(a)
  BY <1>1, <1>8, <1>10 DEF Accept, Fail, Timeout, AnType
<1> QED BY <1>7, <1>9, <1>10

\* A level begins, or there is none left and Run returns.
LEMMA BeginLevelStep ==
  ASSUME AnInv, BeginLevel PROVE AnInv'
<1>1. AnType /\ LevelSound /\ NodesSound /\ DependenciesSettled BY DEF AnInv
<1>2. /\ phase = "levels" /\ ~open
      /\ UNCHANGED <<kinds, deps, registered, level, at, saw, notes, abandoned, acancel, declined>>
  BY DEF BeginLevel
<1>3. Processed' = Processed /\ (ValidGraph <=> ValidGraph') BY <1>2, LevelsRigid
<1>4. /\ \A b : Nodes(b)' = Nodes(b) /\ Node(b)' = Node(b)
      /\ Num' = Num /\ Num \in Nat /\ level \in Nat \ {0} /\ level <= Num + 1
  BY <1>1, <1>2, LevelsExist DEF Nodes, Node, Num, AnType
<1>5. Begun = Processed[level - 1] BY <1>2 DEF Begun
<1>6. ValidGraph BY <1>1, <1>2 DEF LevelSound
<1> DEFINE S == IF level > Num THEN {} ELSE Level(level)
<1>7. CASE /\ S # {} /\ open' = TRUE /\ phase' = phase /\ answer' = answer
           /\ status' = [a \in Analyzers |-> IF a \notin S THEN status[a]
                                             ELSE IF HasFailedDep(a) THEN "skipped" ELSE "node"]
           /\ failedIDs' = failedIDs \cup Skipped(S)
  <2>1. level \in 1 .. Num /\ S = Level(level) BY <1>4, <1>7
  <2>2. /\ Processed[level] = Processed[level-1] \cup S /\ S \subseteq registered
        /\ \A a \in S : deps[a] \subseteq Processed[level-1] /\ a \notin Processed[level-1]
    BY <1>1, <2>1, LevelsGrow DEF AnType
  <2> HIDE DEF S
  <2>3. Begun' = Processed[level] BY <1>2, <1>3, <1>7 DEF Begun
  <2>4. S \subseteq Analyzers /\ \A a \in S : status[a] = "none"
    BY <1>1, <1>5, <2>2 DEF LevelSound, AnType
  <2>5. \A a \in Analyzers : status'[a] = IF a \notin S THEN status[a]
                                          ELSE IF HasFailedDep(a) THEN "skipped" ELSE "node"
    BY <1>7
  <2>6. \A a \in Analyzers : a \in failedIDs' <=> a \in failedIDs \/ (a \in S /\ HasFailedDep(a))
    BY <1>7, <2>4 DEF Skipped
  <2>7. AnType'
    <3>1. failedIDs' \subseteq Analyzers BY <1>1, <1>7, <2>4 DEF AnType, Skipped
    <3>2. status' \in [Analyzers -> {"none", "node", "can", "analyze", "ok", "error", "skipped"}]
      BY <1>1, <1>7 DEF AnType
    <3> QED BY <1>1, <1>2, <1>4, <1>7, <3>1, <3>2 DEF AnType
  <2>8. \A a \in Analyzers : deps[a] \subseteq Analyzers BY <1>1 DEF AnType
  <2>9. ASSUME NEW a \in Analyzers
        PROVE  /\ status'[a] = "none" <=> a \notin Processed[level]
               /\ a \in Processed[level - 1] => /\ status'[a] \in {"ok", "error", "skipped"}
                                                /\ status'[a] # "ok" => a \in failedIDs'
               /\ a \in failedIDs' => status'[a] \in {"error", "skipped"}
               /\ status'[a] = "skipped" => a \in failedIDs' /\ HasFailedDep(a)
    BY <1>1, <1>5, <2>2, <2>4, <2>5, <2>6 DEF LevelSound
  <2>10. ASSUME NEW a \in Analyzers, status'[a] \notin {"none", "skipped"}, NEW d \in deps[a]
         PROVE  status'[d] = "ok"
    <3>1. d \in Analyzers BY <2>8
    <3>2. CASE a \in S
      <4>1. ~HasFailedDep(a) /\ d \in Processed[level-1] /\ d \notin S BY <2>2, <2>5, <2>10, <3>2
      <4>2. d \notin failedIDs BY <4>1 DEF HasFailedDep
      <4>3. status[d] = "ok" BY <1>1, <3>1, <4>1, <4>2 DEF LevelSound
      <4> QED BY <2>5, <3>1, <4>1, <4>3
    <3>3. CASE a \notin S
      <4>1. status[a] \notin {"none", "skipped"} BY <2>5, <2>10, <3>3
      <4>2. status[d] = "ok" BY <1>1, <4>1 DEF LevelSound
      <4> QED BY <2>4, <2>5, <3>1, <4>2
    <3> QED BY <3>2, <3>3
  <2>11. \A a : HasFailedDep(a) => HasFailedDep(a)' BY <1>2, <1>7 DEF HasFailedDep
  <2>12. LevelSound' BY <1>2, <1>3, <1>6, <1>7, <2>1, <2>3, <2>9, <2>10, <2>11 DEF LevelSound
  <2>13. ReturnSound' BY <1>2, <1>7 DEF ReturnSound
  <2>14. NodesSound' BY <1>1, <1>2, <1>4, <2>5 DEF NodesSound
  <2>15. DependenciesSettled' BY <1>1, <1>2, <1>4, <2>5 DEF DependenciesSettled, Scope
  <2> QED BY <2>7, <2>12, <2>13, <2>14, <2>15 DEF AnInv
<1>8. CASE /\ S = {} \/ acancel
           /\ phase' = "returned" /\ UNCHANGED <<open, status, failedIDs>>
           /\ answer' = IF S = {} /\ \A a \in registered : status[a] = "ok" THEN "nil" ELSE "error"
  <2>1. AnType' BY <1>1, <1>2, <1>4, <1>8 DEF AnType
  <2>2. Begun' = Processed[level-1] BY <1>2, <1>3, <1>8 DEF Begun
  <2>3. \A a : HasFailedDep(a)' <=> HasFailedDep(a) BY <1>2, <1>8 DEF HasFailedDep
  <2>4. LevelSound' BY <1>1, <1>2, <1>3, <1>5, <1>8, <2>2, <2>3 DEF LevelSound
  <2>5. ReturnSound'
    <3>1. S = {} => registered \subseteq Processed[level-1]
      <4>1. CASE level > Num
        <5>1. level - 1 = Num BY <1>4, <4>1
        <5> QED BY <1>6, <5>1 DEF ValidGraph
      <4>2. CASE ~(level > Num)
        <5>1. level \in 1 .. Num BY <1>4, <4>2
        <5> QED BY <1>1, <1>6, <4>2, <5>1, LevelsGrow DEF ValidGraph, AnType
      <4> QED BY <4>1, <4>2
    <3>2. S # {} => \E a \in registered : status[a] = "none"
      <4> SUFFICES ASSUME S # {} PROVE \E a \in registered : status[a] = "none" OBVIOUS
      <4>1. level \in 1 .. Num /\ S = Level(level) BY <1>4
      <4>2. PICK a \in Level(level) : TRUE BY <4>1
      <4>3. a \in registered /\ a \notin Processed[level-1] BY <1>1, <4>1, LevelsGrow DEF AnType
      <4>4. a \in Analyzers BY <1>1, <4>3 DEF AnType
      <4> QED BY <1>1, <1>5, <4>3, <4>4 DEF LevelSound
    <3> HIDE DEF S
    <3> QED BY <1>2, <1>8, <2>2, <3>1, <3>2 DEF ReturnSound
  <2>6. NodesSound' BY <1>1, <1>2, <1>4, <1>8 DEF NodesSound
  <2>7. DependenciesSettled' BY <1>1, <1>2, <1>4, <1>8 DEF DependenciesSettled, Scope
  <2> QED BY <2>1, <2>4, <2>5, <2>6, <2>7 DEF AnInv
<1> QED BY <1>7, <1>8 DEF BeginLevel

\* A level ends when all of its analyzers have.
LEMMA EndLevelStep ==
  ASSUME AnInv, EndLevel PROVE AnInv'
<1>1. AnType /\ LevelSound /\ NodesSound /\ DependenciesSettled BY DEF AnInv
<1>2. /\ phase = "levels" /\ open /\ open' = FALSE /\ level' = level + 1
      /\ \A a \in Level(level) : status[a] \in {"ok", "error", "skipped"}
      /\ failedIDs' = failedIDs \cup {a \in Level(level) : status[a] = "error"}
      /\ UNCHANGED <<kinds, deps, registered, phase, status, at, saw, notes, acancel, answer, declined>>
  BY DEF EndLevel
<1>3. Processed' = Processed /\ (ValidGraph <=> ValidGraph') BY <1>2, LevelsRigid
<1>4. /\ \A b : Nodes(b)' = Nodes(b) /\ Node(b)' = Node(b)
      /\ Num' = Num /\ Num \in Nat /\ level \in 1 .. Num /\ (level + 1) - 1 = level
  BY <1>1, <1>2, LevelsExist DEF Nodes, Node, Num, AnType, LevelSound
<1>5. /\ Processed[level] = Processed[level-1] \cup Level(level) /\ Level(level) \subseteq registered
  BY <1>1, <1>4, LevelsGrow DEF AnType
<1>6. Begun = Processed[level] /\ Begun' = Processed[level] BY <1>2, <1>3, <1>4 DEF Begun
<1>7. AnType'
  <2>1. level + 1 \in 1 .. Num + 1 BY <1>4
  <2>2. failedIDs' \subseteq Analyzers BY <1>1, <1>2, <1>5 DEF AnType
  <2> QED BY <1>1, <1>2, <1>4, <2>1, <2>2 DEF AnType
<1>8. \A a : HasFailedDep(a) => HasFailedDep(a)' BY <1>2 DEF HasFailedDep
<1>9. ASSUME NEW a \in Analyzers
      PROVE  /\ a \in Processed[level] => /\ status[a] \in {"ok", "error", "skipped"}
                                          /\ status[a] # "ok" => a \in failedIDs'
             /\ a \in failedIDs' => status[a] \in {"error", "skipped"}
  BY <1>1, <1>2, <1>5 DEF LevelSound
<1>10. ValidGraph BY <1>1, <1>2 DEF LevelSound
<1>11. LevelSound' BY <1>1, <1>2, <1>3, <1>4, <1>6, <1>8, <1>9, <1>10 DEF LevelSound
<1>12. ReturnSound' BY <1>2 DEF ReturnSound
<1>13. NodesSound' BY <1>1, <1>2, <1>4 DEF NodesSound
<1>14. DependenciesSettled' BY <1>1, <1>2, <1>4 DEF DependenciesSettled, Scope
<1> QED BY <1>7, <1>11, <1>12, <1>13, <1>14 DEF AnInv

\* Every step keeps the invariant.
LEMMA AnStepSound ==
  ASSUME AnInv, [AnNext]_anVars PROVE AnInv'
<1>1. AnType /\ LevelSound /\ ReturnSound /\ NodesSound /\ DependenciesSettled BY DEF AnInv
<1>2. ASSUME UNCHANGED <<kinds, deps, level, open, status, at, saw, notes, failedIDs, declined>>,
             registered' \subseteq Analyzers, phase' \in {"setup", "levels", "returned"},
             acancel' \in BOOLEAN, answer' \in {"none", "nil", "error"},
             LevelSound', ReturnSound'
      PROVE  AnInv'
  <2>1. AnType' BY <1>1, <1>2 DEF AnType, Num
  <2>2. \A b : Nodes(b)' = Nodes(b) /\ Node(b)' = Node(b) BY <1>2 DEF Nodes, Node
  <2>3. NodesSound' BY <1>1, <1>2, <2>2 DEF NodesSound
  <2>4. DependenciesSettled' BY <1>1, <1>2, <2>2 DEF DependenciesSettled, Scope
  <2> QED BY <1>2, <2>1, <2>3, <2>4 DEF AnInv
<1>3. ASSUME UNCHANGED <<kinds, deps, registered, phase, level, open, status, at, saw, notes, failedIDs,
                         declined, answer>>,
             acancel' = acancel \/ (acancel' = TRUE /\ phase = "levels")
      PROVE  AnInv'
  <2>1. Processed' = Processed /\ (ValidGraph <=> ValidGraph') BY <1>3, LevelsRigid
  <2>2. Begun' = Begun /\ \A a : HasFailedDep(a)' <=> HasFailedDep(a)
    BY <1>3, <2>1 DEF Begun, HasFailedDep
  <2>3. LevelSound' BY <1>1, <1>3, <2>1, <2>2 DEF LevelSound
  <2>4. ReturnSound' BY <1>1, <1>3, <2>2 DEF ReturnSound
  <2>5. acancel' \in BOOLEAN BY <1>1, <1>3, Zenon DEF AnType
  <2> QED BY <1>1, <1>2, <1>3, <2>3, <2>4, <2>5 DEF AnType
<1>4. CASE BeginLevel BY <1>4, BeginLevelStep
<1>5. CASE EndLevel BY <1>5, EndLevelStep
<1>6. CASE Run
  <2>1. /\ phase = "setup" /\ UNCHANGED <<kinds, deps, registered, level, open, status, at, saw, notes,
                                          failedIDs, acancel, declined>>
        /\ \/ ValidGraph /\ phase' = "levels" /\ answer' = answer
           \/ phase' = "returned" /\ answer' = "error"
    BY <1>6 DEF Run
  <2>2. Processed' = Processed /\ (ValidGraph <=> ValidGraph') BY <2>1, LevelsRigid
  <2>3. Begun' = Begun /\ (\A a : HasFailedDep(a)' <=> HasFailedDep(a)) /\ level = 1 /\ ~open
    BY <1>1, <2>1, <2>2 DEF Begun, HasFailedDep, LevelSound
  <2>4. LevelSound' BY <1>1, <2>1, <2>2, <2>3 DEF LevelSound
  <2>5. ReturnSound' BY <2>1, <2>3 DEF ReturnSound
  <2> QED BY <1>1, <1>2, <2>1, <2>4, <2>5 DEF AnType
<1>7. ASSUME NEW a \in Analyzers, Register(a) PROVE AnInv'
  <2>1. /\ phase = "setup" /\ registered' = registered \cup {a}
        /\ UNCHANGED <<kinds, deps, phase, level, open, status, at, saw, notes, failedIDs, acancel, declined, answer>>
    BY <1>7 DEF Register
  <2>2. level = 1 /\ ~open /\ level - 1 = 0 BY <1>1, <2>1 DEF LevelSound
  <2>3. Processed[0] = {} /\ Processed[0]' = {}
    <3>1. Processed[0] = {} BY LevelsExist
    <3>2. (Processed[0] = {})' BY <3>1, LevelsExist, PTL
    <3> QED BY <3>1, <3>2
  <2>4. Processed[level - 1]' = Processed[level - 1] /\ Begun' = Begun BY <2>1, <2>2, <2>3 DEF Begun
  <2>5. \A b : HasFailedDep(b)' <=> HasFailedDep(b) BY <2>1 DEF HasFailedDep
  <2>6. LevelSound' BY <1>1, <2>1, <2>2, <2>4, <2>5 DEF LevelSound
  <2>7. ReturnSound' BY <2>1 DEF ReturnSound
  <2> QED BY <1>1, <1>2, <2>1, <2>6, <2>7 DEF AnType
<1>8. ASSUME NEW a \in Analyzers,
             NextNode(a) \/ Decline(a) \/ Accept(a) \/ Annotate(a) \/ Fail(a) \/ Timeout(a)
      PROVE  AnInv'
  BY <1>8, GoroutineSteps
<1>9. CASE ACancel BY <1>3, <1>9 DEF ACancel
<1>10. CASE (\E c \in abandoned : LateReturn(c)) \/ UNCHANGED anVars
  BY <1>3, <1>10 DEF LateReturn, rest, anVars
<1> QED BY <1>4, <1>5, <1>6, <1>7, <1>8, <1>9, <1>10 DEF AnNext, AnStep

\* Analyzers run after their dependencies and see all of their annotations, and
\* Run returns nil exactly when every analyzer has been to every node: for any
\* analyzers, with any dependencies, and any proposal.
THEOREM AnalysisRight == AnSpec => []AnalysisSound
<1> DEFINE Configs == [kinds : [Analyzers -> DOMAIN NodesOf], deps : [Analyzers -> SUBSET Analyzers]]
<1>1. AnInit(Configs) => AnInv
  <2> SUFFICES ASSUME AnInit(Configs) PROVE AnInv OBVIOUS
  <2>1. Num \in Nat /\ Processed[0] = {} BY LevelsExist
  <2>2. AnType
    <3>1. PICK c \in Configs : kinds = c.kinds /\ deps = c.deps BY DEF AnInit
    <3>2. kinds \in [Analyzers -> DOMAIN NodesOf] /\ deps \in [Analyzers -> SUBSET Analyzers]
      BY <3>1
    <3>3. level = 1 /\ 1 \in 1 .. Num + 1 BY <2>1 DEF AnInit
    <3>4. /\ status \in [Analyzers -> {"none", "node", "can", "analyze", "ok", "error", "skipped"}]
          /\ at \in [Analyzers -> Nat \ {0}] /\ DOMAIN saw = Analyzers
      BY DEF AnInit
    <3> HIDE DEF Configs
    <3> QED BY <3>2, <3>3, <3>4 DEF AnInit, AnType
  <2>3. Begun = {} BY <2>1 DEF AnInit, Begun
  <2>4. LevelSound BY <2>1, <2>3 DEF AnInit, LevelSound
  <2>5. ReturnSound /\ DependenciesSettled BY DEF AnInit, ReturnSound, DependenciesSettled
  <2>6. NodesSound
    <3>1. \A a \in Analyzers : DOMAIN Nodes(a) \subseteq Nat \ {0}
      BY <2>2, AnalysisAssumption DEF AnType, Nodes
    <3> QED BY <3>1 DEF AnInit, NodesSound
  <2> QED BY <2>2, <2>4, <2>5, <2>6 DEF AnInv
<1>2. AnInv /\ [AnNext]_anVars => AnInv' BY AnStepSound
<1>3. AnInv => AnalysisSound
  <2> SUFFICES ASSUME AnInv PROVE AnalysisSound OBVIOUS
  <2>1. DependenciesSettled BY DEF AnInv
  <2>2. registered \subseteq Analyzers /\ \A a \in Analyzers : deps[a] \subseteq Analyzers
    BY DEF AnInv, AnType
  <2>3. RunsAfterDependencies
    <3>1. \A a \in Analyzers : status[a] \notin {"none", "skipped"} => \A d \in deps[a] : status[d] = "ok"
      BY DEF AnInv, LevelSound
    <3>2. ASSUME NEW a \in registered, phase = "returned", level > 1, ~acancel,
                 status[a] \in {"none", "skipped"}
          PROVE  \E d \in deps[a] : status[d] # "ok"
      <4>1. a \in Analyzers /\ a \in Begun BY <2>2, <3>2 DEF AnInv, ReturnSound
      <4>2. status[a] = "skipped" BY <3>2, <4>1 DEF AnInv, LevelSound
      <4>3. HasFailedDep(a) BY <4>1, <4>2 DEF AnInv, LevelSound
      <4>4. PICK d \in deps[a] : d \in failedIDs BY <4>3 DEF HasFailedDep
      <4>5. d \in Analyzers BY <2>2, <4>1
      <4> QED BY <4>4, <4>5 DEF AnInv, LevelSound
    <3> QED BY <3>1, <3>2 DEF RunsAfterDependencies
  <2>4. AnalysisComplete
    <3> SUFFICES ASSUME phase = "returned", level > 1
                 PROVE  IF answer = "nil"
                        THEN \A a \in registered : \A i \in DOMAIN Nodes(a) : <<Nodes(a)[i], a>> \in notes \cup declined
                        ELSE \E a \in registered : status[a] # "ok"
      BY DEF AnalysisComplete
    <3>1. (answer = "nil") = (\A a \in registered : status[a] = "ok") BY DEF AnInv, ReturnSound
    <3>2. ASSUME NEW a \in registered, status[a] = "ok", NEW i \in DOMAIN Nodes(a)
          PROVE  <<Nodes(a)[i], a>> \in notes \cup declined
      <4>1. a \in Analyzers /\ at[a] > Len(Nodes(a)) BY <2>2, <3>2 DEF AnInv, NodesSound
      <4>2. Nodes(a) \in Seq(DOMAIN Parent) /\ at[a] \in Nat
        BY <4>1, AnalysisAssumption DEF AnInv, AnType, Nodes
      <4>3. i < at[a] BY <4>1, <4>2
      <4> QED BY <4>1, <4>3 DEF AnInv, NodesSound
    <3> QED BY <3>1, <3>2
  <2> QED BY <2>1, <2>3, <2>4 DEF AnalysisSound
<1> QED BY <1>1, <1>2, <1>3, PTL DEF AnSpec

-----------------------------------------------------------------------------
(* The commands of the Job Distributor.                                    *)

Uuids == {Uuid[s] : s \in DOMAIN Uuid}
JobRecords == [uuid : Uuids, node : Nat, deleted : BOOLEAN, proposals : Seq(Nat)]
ProposalRecords == [job : Nat, rev : Nat, status : {"PROPOSED", "REVOKED"}, spec : DOMAIN Uuid]

\* A job lists its own proposals, in the order of their revisions.
Lists(js, ps, j) ==
  /\ js[j].proposals # <<>>
  /\ SeqRange(js[j].proposals) = proposalsByJob(ps, j)
  /\ \A n \in 1..Len(js[j].proposals) :
       /\ ps[js[j].proposals[n]].rev = n
       /\ Uuid[ps[js[j].proposals[n]].spec] = js[j].uuid

\* What JobsExact says of the variables, for any jobs and proposals.
Exact(js, ps) ==
  /\ js \in Seq(JobRecords) /\ ps \in Seq(ProposalRecords)
  /\ \A i \in 1..Len(ps) : ps[i].job \in 1..Len(js)
  /\ \A i, j \in 1..Len(js) : js[i].uuid = js[j].uuid /\ js[i].node = js[j].node => i = j
  /\ \A j \in 1..Len(js) : Lists(js, ps, j)

\* A job has as many proposals as it lists: the next revision is one more.
LEMMA Counted ==
  ASSUME NEW js, NEW ps, Exact(js, ps), NEW j \in 1..Len(js)
  PROVE  /\ js[j].proposals \in Seq(Nat) /\ Len(js[j].proposals) \in Nat
         /\ Cardinality(proposalsByJob(ps, j)) = Len(js[j].proposals)
         /\ \A n \in 1..Len(js[j].proposals) : js[j].proposals[n] \in 1..Len(ps)
<1> DEFINE q == js[j].proposals
<1>1. q \in Seq(Nat)
  <2>1. js[j] \in JobRecords BY DEF Exact
  <2> QED BY <2>1 DEF JobRecords
<1>2. Len(q) \in Nat /\ DOMAIN q = 1..Len(q) BY <1>1
<1>3. SeqRange(q) = proposalsByJob(ps, j) /\ \A n \in 1..Len(q) : ps[q[n]].rev = n
  BY DEF Exact, Lists
<1>4. DOMAIN ps = 1..Len(ps) BY DEF Exact
<1> HIDE DEF q
<1>5. \A n \in 1..Len(q) : q[n] \in SeqRange(q) BY <1>2 DEF SeqRange
<1>6. \A n \in 1..Len(q) : q[n] \in 1..Len(ps) BY <1>3, <1>4, <1>5 DEF proposalsByJob
<1> DEFINE f == [n \in 1..Len(q) |-> q[n]]
<1> HIDE DEF f
<1>7. \A n \in 1..Len(q) : f[n] = q[n] BY DEF f
<1>8. Cardinality(SeqRange(q)) = Len(q)
  <2>1. f \in [1..Len(q) -> SeqRange(q)] BY <1>5 DEF f
  <2>2. \A a, b \in 1..Len(q) : f[a] = f[b] => a = b
    <3>1. \A a \in 1..Len(q) : ps[f[a]].rev = a BY <1>3, <1>7
    <3> QED BY <3>1, Zenon
  <2>3. \A e \in SeqRange(q) : \E n \in 1..Len(q) : f[n] = e BY <1>2, <1>7 DEF SeqRange
  <2>4. f \in Bijection(1..Len(q), SeqRange(q))
    BY <2>1, <2>2, <2>3, Zenon DEF Bijection, Injection, Surjection, IsInjective
  <2>5. ExistsBijection(1..Len(q), SeqRange(q)) BY <2>4, Zenon DEF ExistsBijection
  <2> QED BY <1>2, <2>5, FS_CountingElements
<1> QED BY <1>1, <1>2, <1>3, <1>6, <1>8 DEF q

\* Another proposal changes nothing for the jobs it is not of.
LEMMA OtherJob ==
  ASSUME NEW js, NEW ps, Exact(js, ps), NEW k \in 1..Len(js), NEW q, q \in ProposalRecords,
         q.job # k, NEW entry, entry = js[k], NEW js2, js2[k] = entry
  PROVE  Lists(js2, Append(ps, q), k)
<1> DEFINE ps2 == Append(ps, q)
<1>1. ps \in Seq(ProposalRecords) /\ Len(ps) \in Nat BY DEF Exact
<1>2. /\ DOMAIN ps = 1..Len(ps) /\ DOMAIN ps2 = 1..(Len(ps) + 1)
      /\ \A i \in 1..Len(ps) : ps2[i] = ps[i]
      /\ ps2[Len(ps) + 1] = q
  BY <1>1
<1> HIDE DEF ps2
<1>3. proposalsByJob(ps2, k) = proposalsByJob(ps, k)
  <2>1. \A i : i \in 1..(Len(ps) + 1) <=> i \in 1..Len(ps) \/ i = Len(ps) + 1 BY <1>1
  <2> QED BY <1>2, <2>1, Zenon DEF proposalsByJob
<1>4. \A n \in 1..Len(entry.proposals) : ps2[entry.proposals[n]] = ps[entry.proposals[n]]
  BY <1>2, Counted
<1>5. Lists(js, ps, k) BY DEF Exact
<1> QED BY <1>3, <1>4, <1>5 DEF Lists, ps2

\* A proposal for a job that is there gets the next revision of it.
LEMMA NextRevision ==
  ASSUME NEW js, NEW ps, Exact(js, ps), NEW j \in 1..Len(js), NEW q \in ProposalRecords,
         q.job = j, q.rev = getNextRevisionNum(ps, j), Uuid[q.spec] = js[j].uuid,
         NEW js2, js2[j].proposals = Append(js[j].proposals, Len(ps) + 1), js2[j].uuid = js[j].uuid
  PROVE  Lists(js2, Append(ps, q), j)
<1> DEFINE ps2 == Append(ps, q)
           own == js[j].proposals
           m == Len(own)
           own2 == Append(own, Len(ps) + 1)
<1>1. ps \in Seq(ProposalRecords) /\ Len(ps) \in Nat BY DEF Exact
<1>2. /\ DOMAIN ps = 1..Len(ps) /\ DOMAIN ps2 = 1..(Len(ps) + 1)
      /\ \A i \in 1..Len(ps) : ps2[i] = ps[i]
      /\ ps2[Len(ps) + 1] = q
  BY <1>1
<1> HIDE DEF ps2
<1>3. /\ own \in Seq(Nat) /\ m \in Nat /\ q.rev = m + 1
      /\ \A n \in 1..m : own[n] \in 1..Len(ps)
  BY Counted DEF getNextRevisionNum
<1>4. SeqRange(own) = proposalsByJob(ps, j)
      /\ \A n \in 1..m : ps[own[n]].rev = n /\ Uuid[ps[own[n]].spec] = js[j].uuid
  BY DEF Exact, Lists
<1>5. /\ DOMAIN own = 1..m /\ DOMAIN own2 = 1..(m + 1) /\ Len(own2) = m + 1
      /\ \A n \in 1..m : own2[n] = own[n]
      /\ own2[m + 1] = Len(ps) + 1
  BY <1>1, <1>3
<1> HIDE DEF own, m, own2
<1>6. \A n : n \in 1..(m + 1) <=> n \in 1..m \/ n = m + 1 BY <1>3
<1>7. SeqRange(own2) = SeqRange(own) \cup {Len(ps) + 1}
  BY <1>5, <1>6, Zenon DEF SeqRange
<1>8. proposalsByJob(ps2, j) = proposalsByJob(ps, j) \cup {Len(ps) + 1}
  <2>1. \A i : i \in 1..(Len(ps) + 1) <=> i \in 1..Len(ps) \/ i = Len(ps) + 1 BY <1>1
  <2> QED BY <1>2, <2>1, Zenon DEF proposalsByJob
<1>9. \A n \in 1..(m + 1) : ps2[own2[n]].rev = n /\ Uuid[ps2[own2[n]].spec] = js[j].uuid
  <2>1. ASSUME NEW n \in 1..m PROVE ps2[own2[n]].rev = n /\ Uuid[ps2[own2[n]].spec] = js[j].uuid
    BY <1>2, <1>3, <1>4, <1>5
  <2>2. ps2[own2[m + 1]] = q BY <1>2, <1>5
  <2> QED BY <1>3, <1>6, <2>1, <2>2
<1>10. js2[j].proposals = own2 BY DEF own2, own
<1>11. SeqRange(own2) = proposalsByJob(ps2, j) BY <1>4, <1>7, <1>8
<1>12. own2 # <<>>
  <2>1. Len(<<>>) = 0 OBVIOUS
  <2> QED BY <1>3, <1>5, <2>1
<1> QED BY <1>5, <1>9, <1>10, <1>11, <1>12 DEF Lists, ps2

\* The parts of upsertProposal.
Found(st, id, spec) == {j \in DOMAIN st.jobs : st.jobs[j].uuid = Uuid[spec] /\ st.jobs[j].node = id}
NewProposal(st, j, spec) ==
  [job |-> j, rev |-> getNextRevisionNum(st.props, j), status |-> "PROPOSED", spec |-> spec]
NewJob(id, spec, p) == [uuid |-> Uuid[spec], node |-> id, deleted |-> FALSE, proposals |-> <<p>>]

\* What a proposal makes of the jobs and proposals before.
Proposed(st, r) ==
  /\ Exact(r.jobs, r.props)
  /\ Len(r.props) = Len(st.props) + 1
  /\ \A i \in 1..Len(st.props) : r.props[i] = st.props[i]

\* A proposal to a node finds the job with its externalJobID there, or makes it.
LEMMA UpsertExact ==
  ASSUME NEW st, Exact(st.jobs, st.props), NEW id \in Nat, NEW spec \in DOMAIN Uuid
  PROVE  Proposed(st, upsertProposal(st, id, spec))
<1> DEFINE js == st.jobs
           ps == st.props
           p == Len(ps) + 1
           found == Found(st, id, spec)
<1>1. /\ js \in Seq(JobRecords) /\ Len(js) \in Nat /\ DOMAIN js = 1..Len(js)
      /\ ps \in Seq(ProposalRecords) /\ Len(ps) \in Nat /\ DOMAIN ps = 1..Len(ps) /\ p \in Nat
      /\ \A i \in 1..Len(ps) : ps[i].job \in 1..Len(js)
      /\ \A i, j \in 1..Len(js) : js[i].uuid = js[j].uuid /\ js[i].node = js[j].node => i = j
  BY DEF Exact
<1>2. \A j \in 1..Len(js) : js[j] \in JobRecords BY <1>1
<1>3. Uuid[spec] \in Uuids BY DEF Uuids
<1>4. ASSUME NEW q \in ProposalRecords
      PROVE  /\ Append(ps, q) \in Seq(ProposalRecords) /\ Len(Append(ps, q)) = Len(ps) + 1
             /\ \A i \in 1..Len(ps) : Append(ps, q)[i] = ps[i]
             /\ Append(ps, q)[Len(ps) + 1] = q
  BY <1>1
<1>5. CASE found # {}
  <2> DEFINE j == CHOOSE x \in found : TRUE
             q == NewProposal(st, j, spec)
             js2 == [js EXCEPT ![j].proposals = Append(@, p)]
  <2>1. j \in 1..Len(js) /\ js[j].uuid = Uuid[spec] /\ js[j].node = id
    BY <1>1, <1>5, Zenon DEF Found
  <2>2. upsertProposal(st, id, spec) = [jobs |-> js2, props |-> Append(ps, q)]
    BY <1>5 DEF upsertProposal, Found, NewProposal
  <2> HIDE DEF j
  <2>3. js[j].proposals \in Seq(Nat) /\ getNextRevisionNum(ps, j) \in Nat
    BY <2>1, Counted DEF getNextRevisionNum
  <2>4. q \in ProposalRecords /\ q.job = j /\ q.rev = getNextRevisionNum(ps, j) /\ q.spec = spec
    BY <1>1, <2>1, <2>3 DEF NewProposal, ProposalRecords
  <2>a. PICK entry : entry = [js[j] EXCEPT !.proposals = Append(@, p)] OBVIOUS
  <2>b. js[j] \in JobRecords /\ Append(js[j].proposals, p) \in Seq(Nat) BY <1>1, <1>2, <2>1, <2>3
  <2>c. /\ entry \in JobRecords /\ entry.proposals = Append(js[j].proposals, p)
        /\ entry.uuid = js[j].uuid /\ entry.node = js[j].node
    BY <2>a, <2>b DEF JobRecords
  <2>d. js2 = [js EXCEPT ![j] = entry] BY <2>a
  <2> HIDE DEF q, js2
  <2>5. /\ js2 \in Seq(JobRecords) /\ Len(js2) = Len(js)
        /\ \A k \in 1..Len(js) : k # j => js2[k] = js[k]
        /\ js2[j] = entry
    BY <1>1, <2>1, <2>c, <2>d
  <2>6. js2[j].proposals = Append(js[j].proposals, p) /\ js2[j].uuid = js[j].uuid /\ js2[j].node = js[j].node
    BY <2>c, <2>5
  <2>7. \A k \in 1..Len(js) : js2[k].uuid = js[k].uuid /\ js2[k].node = js[k].node
    BY <2>5, <2>6
  <2>8. \A a, b \in 1..Len(js2) : js2[a].uuid = js2[b].uuid /\ js2[a].node = js2[b].node => a = b
    BY <1>1, <2>5, <2>7
  <2>9. \A i \in 1..Len(Append(ps, q)) : Append(ps, q)[i].job \in 1..Len(js2)
    BY <1>1, <1>4, <2>1, <2>4, <2>5
  <2>10. \A k \in 1..Len(js2) : Lists(js2, Append(ps, q), k)
    <3>1. Lists(js2, Append(ps, q), j) BY <2>1, <2>4, <2>6, NextRevision, Zenon
    <3>2. ASSUME NEW k \in 1..Len(js), k # j PROVE Lists(js2, Append(ps, q), k)
      <4>1. js2[k] = js[k] BY <2>5, <3>2
      <4> QED BY <2>4, <3>2, <4>1, OtherJob, Zenon
    <3> QED BY <2>5, <3>1, <3>2, Zenon
  <2>11. Exact(js2, Append(ps, q)) BY <1>4, <2>4, <2>5, <2>8, <2>9, <2>10 DEF Exact
  <2> QED BY <1>4, <2>2, <2>4, <2>11 DEF Proposed
<1>6. CASE found = {}
  <2> DEFINE j == Len(js) + 1
             q == NewProposal(st, j, spec)
             entry == NewJob(id, spec, p)
             js2 == Append(js, entry)
  <2>1. upsertProposal(st, id, spec) = [jobs |-> js2, props |-> Append(ps, q)]
    BY <1>6 DEF upsertProposal, Found, NewProposal, NewJob
  <2>2. proposalsByJob(ps, j) = {}
    <3>1. \A i \in DOMAIN ps : ps[i].job # j BY <1>1
    <3> QED BY <3>1 DEF proposalsByJob
  <2>3. getNextRevisionNum(ps, j) = 1
    <3>1. getNextRevisionNum(ps, j) = Cardinality(proposalsByJob(ps, j)) + 1
      BY DEF getNextRevisionNum
    <3>2. Cardinality({}) = 0 BY FS_EmptySet
    <3>3. getNextRevisionNum(ps, j) = 0 + 1 BY <2>2, <3>1, <3>2, Zenon
    <3> QED BY <3>3
  <2>4. q \in ProposalRecords /\ q.job = j /\ q.rev = 1 /\ q.spec = spec
    BY <1>1, <2>3 DEF NewProposal, ProposalRecords
  <2>5. entry \in JobRecords /\ entry.uuid = Uuid[spec] /\ entry.node = id /\ entry.proposals = <<p>>
    BY <1>1, <1>3 DEF NewJob, JobRecords
  <2>6. /\ js2 \in Seq(JobRecords) /\ Len(js2) = j
        /\ \A k \in 1..Len(js) : js2[k] = js[k]
        /\ js2[j] = entry
    BY <1>1, <2>5
  <2>7. j \in Nat /\ \A k : k \in 1..j <=> k \in 1..Len(js) \/ k = j BY <1>1
  <2> HIDE DEF q, entry, js2, j
  <2>8. \A k \in 1..Len(js) : ~(js[k].uuid = Uuid[spec] /\ js[k].node = id)
    BY <1>1, <1>6 DEF Found
  <2>9. \A a, b \in 1..Len(js2) : js2[a].uuid = js2[b].uuid /\ js2[a].node = js2[b].node => a = b
    <3>1. \A k \in 1..Len(js) : js2[k].uuid = js[k].uuid /\ js2[k].node = js[k].node BY <2>6
    <3>2. js2[j].uuid = Uuid[spec] /\ js2[j].node = id BY <2>5, <2>6
    <3>3. SUFFICES ASSUME NEW a \in 1..j, NEW b \in 1..j,
                          js2[a].uuid = js2[b].uuid, js2[a].node = js2[b].node
                   PROVE  a = b
      BY <2>6
    <3>4. CASE a \in 1..Len(js) /\ b \in 1..Len(js) BY <1>1, <3>1, <3>3, <3>4
    <3>5. CASE a = j /\ b \in 1..Len(js) BY <2>8, <3>1, <3>2, <3>3, <3>5
    <3>6. CASE a \in 1..Len(js) /\ b = j BY <2>8, <3>1, <3>2, <3>3, <3>6
    <3> QED BY <2>7, <3>4, <3>5, <3>6
  <2>10. \A i \in 1..Len(Append(ps, q)) : Append(ps, q)[i].job \in 1..Len(js2)
    BY <1>1, <1>4, <2>4, <2>6, <2>7
  <2>11. \A k \in 1..Len(js2) : Lists(js2, Append(ps, q), k)
    <3>1. ASSUME NEW k \in 1..Len(js) PROVE Lists(js2, Append(ps, q), k)
      <4>1. js2[k] = js[k] /\ k # j BY <1>1, <2>6 DEF j
      <4> QED BY <2>4, <4>1, OtherJob, Zenon
    <3>2. Lists(js2, Append(ps, q), j)
      <4>1. proposalsByJob(Append(ps, q), j) = {p}
        <5>1. DOMAIN Append(ps, q) = 1..p BY <1>1
        <5>2. \A i : i \in 1..p <=> i \in 1..Len(ps) \/ i = p BY <1>1
        <5>3. \A i \in 1..Len(ps) : Append(ps, q)[i].job # j BY <1>1, <1>4, <2>4 DEF j
        <5>4. Append(ps, q)[p].job = j BY <1>4, <2>4
        <5> QED BY <5>1, <5>2, <5>3, <5>4, Zenon DEF proposalsByJob
      <4>2. SeqRange(<<p>>) = {p} BY DEF SeqRange
      <4>3. Len(<<p>>) = 1 /\ <<p>>[1] = p /\ <<p>> # <<>> /\ \A n \in 1..1 : n = 1 OBVIOUS
      <4>4. Append(ps, q)[p] = q BY <1>4, <2>4
      <4> QED BY <2>4, <2>5, <2>6, <4>1, <4>2, <4>3, <4>4 DEF Lists
    <3> QED BY <2>6, <2>7, <3>1, <3>2
  <2>12. Exact(js2, Append(ps, q)) BY <1>4, <2>4, <2>6, <2>9, <2>10, <2>11 DEF Exact
  <2> QED BY <1>4, <2>1, <2>4, <2>12 DEF Proposed
<1> QED BY <1>5, <1>6

\* A value that is computed in m steps, from a and by h, exists.
StepsOf(m, T) == [(1..m) \X T -> T]
Computes(g, m, a, h) == g[0] = a /\ \A i \in 1..m : g[i] = h[<<i, g[i - 1]>>]

\* Such a computation can be written as a function: by induction over m.
LEMMA StepsExist ==
  ASSUME NEW T, NEW m \in Nat, NEW a \in T, NEW h \in StepsOf(m, T)
  PROVE  \E g \in [0..m -> T] : Computes(g, m, a, h)
<1> DEFINE Is(g, n) == g \in [0..n -> T] /\ g[0] = a /\ \A i \in 1..n : g[i] = h[<<i, g[i - 1]>>]
           S == {n \in Nat : n <= m => \E g : Is(g, n)}
<1>1. 0 \in S
  <2>1. Is([i \in 0..0 |-> a], 0) OBVIOUS
  <2> QED BY <2>1
<1>2. ASSUME NEW n \in Nat, n \in S PROVE n + 1 \in S
  <2> SUFFICES ASSUME n + 1 <= m PROVE \E g : Is(g, n + 1) OBVIOUS
  <2>1. PICK g : Is(g, n) BY <1>2
  <2>2. g[n] \in T BY <2>1
  <2> DEFINE e == h[<<n + 1, g[n]>>]
             f == [i \in 0..(n + 1) |-> IF i = n + 1 THEN e ELSE g[i]]
  <2>3. <<n + 1, g[n]>> \in (1..m) \X T BY <2>2
  <2>4. e \in T BY <2>3 DEF StepsOf
  <2> HIDE DEF e
  <2>5. f \in [0..(n + 1) -> T] BY <2>1, <2>4
  <2>6. f[0] = a BY <2>1
  <2>7. ASSUME NEW i \in 1..(n + 1) PROVE f[i] = h[<<i, f[i - 1]>>]
    <3>1. CASE i = n + 1
      <4>1. f[i] = e /\ f[i - 1] = g[n] BY <3>1
      <4> QED BY <3>1, <4>1 DEF e
    <3>2. CASE i # n + 1
      <4>1. i \in 1..n /\ f[i] = g[i] /\ f[i - 1] = g[i - 1] BY <3>2
      <4> QED BY <2>1, <4>1
    <3> QED BY <3>1, <3>2
  <2> HIDE DEF f
  <2>8. Is(f, n + 1) BY <2>5, <2>6, <2>7
  <2> QED BY <2>8
<1> HIDE DEF S
<1>3. Nat \subseteq S BY <1>1, <1>2, NatSet
<1>4. m \in S BY <1>3
<1> QED BY <1>4 DEF S, Computes

\* The jobs and proposals, and what they become one node after the other.
ExactStores ==
  {st \in [jobs : Seq(JobRecords), props : Seq(ProposalRecords)] : Exact(st.jobs, st.props)}
Batched(after, ids, spec) ==
  /\ after[0] = Store
  /\ \A i \in 1..Len(ids) : after[i] = upsertProposal(after[i - 1], ids[i], spec)
  /\ Stored(after[Len(ids)])

\* The recursive function of BatchProposeJob is that computation.
LEMMA BatchSteps ==
  ASSUME NEW ids \in Seq(Nat), NEW spec \in DOMAIN Uuid, Exact(jobs, props), BatchProposeJob(ids, spec)
  PROVE  \E after : Batched(after, ids, spec)
<1> DEFINE m == Len(ids)
           T == ExactStores
           After(f) == [n \in 0..m |-> IF n = 0 THEN Store ELSE upsertProposal(f[n - 1], ids[n], spec)]
           h == [p \in (1..m) \X T |-> upsertProposal(p[2], ids[p[1]], spec)]
<1>0. m \in Nat /\ \A i \in 1..m : ids[i] \in Nat OBVIOUS
<1>1. h \in [(1..m) \X T -> T]
  <2>1. ASSUME NEW p \in (1..m) \X T PROVE upsertProposal(p[2], ids[p[1]], spec) \in T
    <3>1. PICK st \in T, id \in Nat : st = p[2] /\ id = ids[p[1]] BY <1>0
    <3>2. Exact(st.jobs, st.props) BY DEF ExactStores
    <3>3. Proposed(st, upsertProposal(st, id, spec)) BY <3>2, UpsertExact
    <3>4. PICK js, ps : upsertProposal(st, id, spec) = [jobs |-> js, props |-> ps]
      BY DEF upsertProposal
    <3>5. Exact(js, ps) BY <3>3, <3>4 DEF Proposed
    <3>6. js \in Seq(JobRecords) /\ ps \in Seq(ProposalRecords) BY <3>5 DEF Exact
    <3>7. [jobs |-> js, props |-> ps] \in ExactStores BY <3>5, <3>6 DEF ExactStores
    <3> QED BY <3>1, <3>4, <3>7
  <2> QED BY <2>1
<1>2. \A i \in 1..m, q \in T : h[<<i, q>>] = upsertProposal(q, ids[i], spec) OBVIOUS
<1> HIDE DEF h
<1>3. Store \in T BY DEF ExactStores, Store, Exact
<1> HIDE DEF T
<1>4. PICK g \in [0..m -> T] :
        g[0] = Store /\ \A i \in 1..m : g[i] = h[<<i, g[i - 1]>>]
  <2>1. h \in StepsOf(m, T) BY <1>1 DEF StepsOf
  <2>2. ASSUME NEW n \in Nat, NEW S, NEW a \in S, h \in StepsOf(n, S)
        PROVE  \E g \in [0..n -> S] : Computes(g, n, a, h)
    BY <2>2, StepsExist, Zenon
  <2>3. \E g \in [0..m -> T] : Computes(g, m, Store, h)
    <3> HIDE DEF m
    <3> QED BY <1>0, <1>3, <2>1, <2>2, Zenon
  <2> QED BY <2>3, Zenon DEF Computes
<1>5. ASSUME NEW i \in 1..m PROVE g[i] = upsertProposal(g[i - 1], ids[i], spec)
  <2>1. i - 1 \in 0..m BY <1>0
  <2>2. g[i - 1] \in T BY <1>4, <2>1
  <2> QED BY <1>2, <1>4, <2>2
<1>6. g = After(g)
  <2>1. ASSUME NEW i \in 0..m PROVE g[i] = After(g)[i]
    <3>1. After(g)[i] = IF i = 0 THEN Store ELSE upsertProposal(g[i - 1], ids[i], spec) BY Zenon
    <3>2. i = 0 \/ i \in 1..m BY <1>0
    <3> HIDE DEF After
    <3> QED BY <1>0, <1>4, <1>5, <3>1, <3>2
  <2>2. g = [i \in 0..m |-> g[i]] BY <1>4
  <2>3. After(g) = [i \in 0..m |-> After(g)[i]] BY Zenon
  <2> QED BY <2>1, <2>2, <2>3, Zenon
<1> DEFINE after == CHOOSE f : f = After(f)
<1>7. after = After(after)
  <2> HIDE DEF After
  <2> QED BY <1>6, Zenon
<1>8. Stored(after[m]) BY Zenon DEF BatchProposeJob
<1> HIDE DEF after
<1>9. \A i \in 0..m : after[i] = IF i = 0 THEN Store ELSE upsertProposal(after[i - 1], ids[i], spec)
  <2>1. \A i \in 0..m : After(after)[i] = IF i = 0 THEN Store
                                          ELSE upsertProposal(after[i - 1], ids[i], spec)
    BY Zenon
  <2> QED BY <1>7, <2>1, Zenon
<1>10. after[0] = Store BY <1>0, <1>9
<1>11. ASSUME NEW i \in 1..m PROVE after[i] = upsertProposal(after[i - 1], ids[i], spec)
  <2>1. i \in 0..m /\ i # 0 BY <1>0
  <2> QED BY <1>9, <2>1
<1>12. Batched(after, ids, spec) BY <1>8, <1>10, <1>11 DEF Batched
<1> QED BY <1>12

\* Proposals are added at the end, and those that are there stay as they are.
Longer(n) ==
  /\ Exact(jobs', props')
  /\ Len(props') = Len(props) + n
  /\ \A i \in 1..Len(props) : props'[i] = props[i]

\* A batch adds a proposal for each of its nodes.
LEMMA BatchExact ==
  ASSUME NEW ids \in Seq(Nat), NEW spec \in DOMAIN Uuid, Exact(jobs, props), BatchProposeJob(ids, spec)
  PROVE  Longer(Len(ids))
<1>1. PICK after : Batched(after, ids, spec) BY BatchSteps, Zenon
<1> DEFINE m == Len(ids)
           k == Len(props)
           Kept(st, n) == /\ Exact(st.jobs, st.props) /\ Len(st.props) = k + n
                          /\ \A i \in 1..k : st.props[i] = props[i]
           Good == {n \in Nat : n <= m => Kept(after[n], n)}
<1>2. m \in Nat /\ k \in Nat /\ \A i \in 1..m : ids[i] \in Nat BY DEF Exact
<1>3. 0 \in Good BY <1>1, <1>2 DEF Batched, Store
<1>4. ASSUME NEW n \in Nat, n \in Good PROVE n + 1 \in Good
  <2> SUFFICES ASSUME n + 1 <= m PROVE Kept(after[n + 1], n + 1) OBVIOUS
  <2>1. n + 1 \in 1..m /\ (n + 1) - 1 = n BY <1>2
  <2>2. after[n + 1] = upsertProposal(after[n], ids[n + 1], spec) BY <1>1, <2>1 DEF Batched
  <2>a. n <= m BY <1>2
  <2>3. Kept(after[n], n) BY <1>4, <2>a
  <2>4. Proposed(after[n], after[n + 1])
    <3>1. ids[n + 1] \in Nat BY <1>2, <2>1
    <3> QED BY <2>2, <2>3, <3>1, UpsertExact
  <2>5. \A i \in 1..k : i \in 1..(k + n) BY <1>2
  <2> QED BY <1>2, <2>3, <2>4, <2>5 DEF Proposed
<1> HIDE DEF Good
<1>5. m \in Good BY <1>2, <1>3, <1>4, NatSet
<1>6. Kept(after[m], m) BY <1>2, <1>5 DEF Good
<1>7. jobs' = after[m].jobs /\ props' = after[m].props BY <1>1 DEF Batched, Stored
<1> QED BY <1>6, <1>7 DEF Longer

-----------------------------------------------------------------------------
(* Why JobsSound and Accounted hold: what is true of the server and the     *)
(* file, and of each command.                                              *)

NodeFields == {"name", "key", "enabled", "labels"}
RunFields == {"pc", "cmd", "todo", "listed", "ids", "failed", "base", "tried", "res"}
Makers == (Cmds \X Nat) \cup {<<>>}

\* Nodes outside the domain's environment are remembered, and there is a
\* maker for every proposal.
ServerInv ==
  /\ IsSeq(nodes) /\ \A id \in Ids : DOMAIN nodes[id] = NodeFields
  /\ Exact(jobs, props)
  /\ author \in Seq(Makers) /\ Len(author) = Len(props)
  /\ file \subseteq Ids /\ OutOfScope(nodes) \subseteq left
  /\ run = [c \in Cmds |-> run[c]] /\ made = [c \in Cmds |-> made[c]]

\* A command is where its command line leads it.
Doing(p) ==
  /\ DOMAIN p = RunFields
  /\ p.res \in {"", "ok", "err", "panic"} /\ p.tried \in Nat
  /\ p.pc = "idle" => p = Idle
  /\ p.pc \notin {"idle", "done"} => p.cmd \in CommandLines
  /\ p.pc = "done" => p.cmd \in CommandLines \cup {NoCommand}
  /\ p.pc \in {"register", "read"} => p.cmd.kind = "register"
  /\ p.pc = "propose" => p.cmd.kind \in {"propose", "batchpropose"}
  /\ p.pc = "write" => p.cmd.kind = "register" \/ (p.cmd.kind = "saveall" /\ ~p.cmd.dry)
  /\ p.pc \in {"patch", "update", "batchupdate"} => p.cmd.kind = p.pc
  /\ p.pc = "list" => /\ p.cmd.kind \notin {"register", "batchpropose"}
                      /\ p.ids = {} /\ p.tried = 0
  /\ p.pc = "filter" => p.cmd.kind \in {"patch", "propose", "saveall"} /\ p.tried = 0

\* The entries that command c, in the state p, has tried are accounted for, and it
\* has proposed no other.
Wanted(p) == IF p.cmd.kind = "propose" THEN Cardinality(p.ids) ELSE Len(p.cmd.jobs)
Tried(c, p) ==
  \A n \in 1..p.tried : Cardinality(MadeBy(c, n)) \in (IF n \in p.failed THEN {0, 1} ELSE {1})
Proposing(c, p) ==
  /\ p.pc = "propose" => /\ p.todo \in Seq(JobEntries) /\ p.todo # <<>>
                         /\ p.tried + Len(p.todo) = Wanted(p)
                         /\ ~p.cmd.dryClient => Tried(c, p)
  /\ p.pc = "done" /\ p.cmd.kind \in {"propose", "batchpropose"} /\ ~p.cmd.dryClient
       /\ (p.cmd.kind = "propose" => p.ids # {})
     => p.tried = Wanted(p) /\ Tried(c, p) /\ (p.res = "ok" <=> p.failed = {})
  /\ \A n \in Nat : n > p.tried => MadeBy(c, n) = {}

\* The ids a command has for nodes.json: those it was given, and those that were
\* in the file or on the server when it looked.
Registering(c, p) ==
  /\ made[c] \subseteq Ids
  /\ made[c] # {} => p.cmd.kind = "register" /\ p.pc \in {"register", "read", "write", "done"}
  /\ p.pc \in {"register", "read", "write"} =>
       /\ p.ids \subseteq Ids
       /\ p.cmd.kind = "register" => made[c] \subseteq p.ids
  /\ p.pc = "register" => IsSeq(p.todo) /\ p.todo # <<>>
  /\ p.pc = "write" /\ p.cmd.kind = "register" => p.base \subseteq p.ids
  /\ p.pc = "write" /\ p.cmd.kind = "saveall" => 1..Len(p.listed) \subseteq p.ids \cup left
  /\ p.pc = "filter" =>
       /\ IsSeq(p.listed) /\ DOMAIN p.listed \subseteq Ids /\ p.ids \cup p.base \subseteq DOMAIN p.listed
       /\ p.cmd.kind = "saveall" => DOMAIN p.listed \subseteq p.ids \cup p.base \cup left

CommandInv(c, p) == Doing(p) /\ Proposing(c, p) /\ Registering(c, p)

JDInv == ServerInv /\ (\A c \in Cmds : CommandInv(c, run[c])) /\ Accounted

\* What the invariant is for.
LEMMA JDInvSound == JDInv => JobsSound
<1> SUFFICES ASSUME JDInv PROVE JobsSound OBVIOUS
<1>1. Exact(jobs, props) BY DEF JDInv, ServerInv
<1>2. DOMAIN jobs = 1..Len(jobs) /\ DOMAIN props = 1..Len(props) BY <1>1 DEF Exact
<1>3. JDTypeOK
  <2>1. \A i \in DOMAIN props : /\ props[i].job \in DOMAIN jobs
                                /\ props[i].status \in {"PROPOSED", "REVOKED"}
                                /\ props[i].spec \in DOMAIN Uuid
    <3>1. \A i \in DOMAIN props : props[i] \in ProposalRecords BY <1>1 DEF Exact
    <3> QED BY <1>1, <1>2, <3>1 DEF Exact, ProposalRecords
  <2>2. \A j \in DOMAIN jobs : jobs[j].node \in Nat /\ jobs[j].deleted \in BOOLEAN
    <3>1. \A j \in DOMAIN jobs : jobs[j] \in JobRecords BY <1>1 DEF Exact
    <3> QED BY <3>1 DEF JobRecords
  <2>3. \A c \in Cmds : run[c].res \in {"", "ok", "err", "panic"} /\ made[c] \subseteq Ids
    BY DEF JDInv, CommandInv, Doing, Registering
  <2>4. file \subseteq Ids /\ Len(author) = Len(props) /\ \A id \in Ids : DOMAIN nodes[id] = NodeFields
    BY DEF JDInv, ServerInv
  <2> QED BY <2>1, <2>2, <2>3, <2>4 DEF JDTypeOK, NodeFields
<1>4. JobsExact
  <2>1. \A j \in DOMAIN jobs : DOMAIN jobs[j].proposals = 1..Len(jobs[j].proposals)
    BY <1>1, <1>2, Counted
  <2>2. \A i, j \in 1..Len(jobs) : jobs[i].uuid = jobs[j].uuid /\ jobs[i].node = jobs[j].node => i = j
    BY <1>1 DEF Exact
  <2>3. ASSUME NEW j \in 1..Len(jobs)
        PROVE  /\ SeqRange(jobs[j].proposals) = proposalsByJob(props, j)
               /\ \A n \in 1..Len(jobs[j].proposals) :
                    /\ props[jobs[j].proposals[n]].rev = n
                    /\ Uuid[props[jobs[j].proposals[n]].spec] = jobs[j].uuid
    <3>1. Lists(jobs, props, j) BY <1>1 DEF Exact
    <3> QED BY <3>1, Zenon DEF Lists
  <2> QED BY <1>2, <2>1, <2>2, <2>3 DEF JobsExact
<1>5. ProposedAll
  <2> SUFFICES ASSUME NEW c \in Cmds,
                      run[c].pc = "done", run[c].cmd.kind \in {"propose", "batchpropose"},
                      ~run[c].cmd.dryClient, run[c].cmd.kind = "propose" => run[c].ids # {}
               PROVE  /\ run[c].tried = Wanted(run[c])
                      /\ \A n \in 1..Wanted(run[c]) :
                           Cardinality(MadeBy(c, n)) \in (IF n \in run[c].failed THEN {0, 1} ELSE {1})
                      /\ run[c].res = "ok" <=> run[c].failed = {}
    BY DEF ProposedAll, Wanted
  <2>1. Proposing(c, run[c]) BY DEF JDInv, CommandInv
  <2> QED BY <2>1 DEF Proposing, Tried
<1> QED BY <1>3, <1>4, <1>5 DEF JobsSound

\* Before any command.
LEMMA JDStart == JDInit => JDInv
<1> SUFFICES ASSUME JDInit PROVE JDInv OBVIOUS
<1> DEFINE n == Len(InitialNodes)
<1>1. n \in Nat /\ DOMAIN InitialNodes = 1..n BY JDAssumption
<1>2. DOMAIN nodes = 1..n /\ IsSeq(nodes) /\ \A id \in Ids : DOMAIN nodes[id] = NodeFields
  <2>1. PICK disabled : nodes = [i \in DOMAIN InitialNodes |->
                  [NewNode(InitialNodes[i]) EXCEPT !.enabled = i \notin disabled]]
    BY DEF JDInit
  <2>2. DOMAIN nodes = 1..n /\ nodes \in [1..n -> SeqRange(nodes)] BY <1>1, <2>1 DEF SeqRange
  <2>3. \A id \in Ids : DOMAIN nodes[id] = NodeFields BY <2>1 DEF NewNode, NodeFields, Ids
  <2>4. nodes \in Seq(SeqRange(nodes)) BY <1>1, <2>2
  <2> QED BY <2>2, <2>3, <2>4 DEF IsSeq
<1>3. jobs = <<>> /\ props = <<>> /\ author = <<>> BY DEF JDInit
<1>4. Exact(jobs, props) BY <1>3 DEF Exact
<1>5. ServerInv
  <2>1. author \in Seq(Makers) /\ Len(author) = Len(props) BY <1>3
  <2>2. file = Ids /\ left = OutOfScope(nodes) BY <1>1, <1>2 DEF JDInit, Ids
  <2>3. run = [c \in Cmds |-> run[c]] /\ made = [c \in Cmds |-> made[c]] BY DEF JDInit
  <2> QED BY <1>2, <1>4, <2>1, <2>2, <2>3 DEF ServerInv
<1>6. ASSUME NEW c \in Cmds PROVE CommandInv(c, run[c])
  <2>1. run[c] = Idle /\ made[c] = {} BY DEF JDInit
  <2>2. Doing(Idle) BY DEF Doing, Idle, NoCommand, RunFields
  <2>3. \A k \in Nat : MadeBy(c, k) = {} BY <1>3 DEF MadeBy
  <2>4. Proposing(c, Idle) BY <2>3 DEF Proposing, Idle
  <2>5. Registering(c, Idle) BY <2>1 DEF Registering, Idle
  <2> QED BY <2>1, <2>2, <2>4, <2>5 DEF CommandInv
<1>7. Accounted BY <1>1, <1>2 DEF Accounted, JDInit, Ids
<1> QED BY <1>5, <1>6, <1>7 DEF JDInv

\* A command that has ended keeps what it was given and what it tried.
LEMMA Finished ==
  ASSUME NEW p, DOMAIN p = RunFields, NEW result, NEW q, q = Finish(p, result)
  PROVE  /\ DOMAIN q = RunFields /\ q.pc = "done" /\ q.res = result
         /\ q.cmd = p.cmd /\ q.ids = p.ids /\ q.failed = p.failed /\ q.tried = p.tried
BY DEF Finish, RunFields

\* A command's step leaves what is known of the other commands, when it only adds
\* nodes, and proposals of its own.
OthersAlone(c) ==
  /\ Ids \subseteq Ids' /\ left \subseteq left'
  /\ made' = [d \in Cmds |-> made'[d]]
  /\ \A d \in Cmds : d # c => made'[d] = made[d] /\ \A n \in Nat : MadeBy(d, n)' = MadeBy(d, n)

\* What is known of a command that does nothing.
LEMMA Bystander ==
  ASSUME NEW d \in Cmds, NEW p, CommandInv(d, p), Ids \subseteq Ids', left \subseteq left',
         made'[d] = made[d], \A n \in Nat : MadeBy(d, n)' = MadeBy(d, n)
  PROVE  CommandInv(d, p)'
<1>1. Doing(p)' BY DEF CommandInv, Doing
<1>2. Proposing(d, p)'
  <2>1. p.tried \in Nat BY DEF CommandInv, Doing
  <2>2. \A n \in 1..p.tried : n \in Nat BY <2>1
  <2>3. Tried(d, p) => Tried(d, p)' BY <2>2 DEF Tried
  <2>4. Wanted(p)' = Wanted(p) BY DEF Wanted
  <2> QED BY <2>3, <2>4 DEF CommandInv, Proposing
<1>3. Registering(d, p)' BY DEF CommandInv, Registering
<1> QED BY <1>1, <1>2, <1>3 DEF CommandInv

\* A step of command c, which leads it to q.
LEMMA CommandMoves ==
  ASSUME JDInv, NEW c \in Cmds, NEW q, run' = [run EXCEPT ![c] = q], OthersAlone(c),
         CommandInv(c, q)', ServerInv', Accounted'
  PROVE  JDInv'
<1>1. run = [d \in Cmds |-> run[d]] BY DEF JDInv, ServerInv
<1>2. run'[c] = q /\ \A d \in Cmds : d # c => run'[d] = run[d] BY <1>1
<1>3. ASSUME NEW d \in Cmds PROVE CommandInv(d, run[d])'
  <2>1. CASE d = c BY <1>2, <2>1
  <2>2. CASE d # c
    <3>1. PICK p : p = run[d] OBVIOUS
    <3>2. CommandInv(d, p) BY <3>1 DEF JDInv
    <3>3. CommandInv(d, p)' BY <2>2, <3>2, Bystander DEF OthersAlone
    <3>4. run'[d] = p BY <1>2, <2>2, <3>1
    <3> QED BY <3>3, <3>4
  <2> QED BY <2>1, <2>2
<1> QED BY <1>3 DEF JDInv

\* A step of command c that changes nothing else.
LEMMA QuietStep ==
  ASSUME JDInv, NEW c \in Cmds, NEW q, run' = [run EXCEPT ![c] = q],
         UNCHANGED <<server, file, made, author, left, raced>>,
         CommandInv(c, q), made[c] # {} /\ q.pc = "done" => q.res # "ok"
  PROVE  JDInv'
<1>0. run = [d \in Cmds |-> run[d]] /\ made = [d \in Cmds |-> made[d]] /\ ServerInv
  BY DEF JDInv, ServerInv
<1>1. ServerInv'
  <2>1. run' = [d \in Cmds |-> run'[d]] BY <1>0
  <2> QED BY <1>0, <2>1 DEF ServerInv, server, Ids, OutOfScope, IsSeq, SeqRange
<1>2. \A d \in Cmds, n \in Nat : MadeBy(d, n)' = MadeBy(d, n) BY DEF MadeBy
<1>3. OthersAlone(c) BY <1>0, <1>2 DEF OthersAlone, Ids, server
<1>4. CommandInv(c, q)'
  <2>1. made' = made /\ Ids' = Ids /\ left' = left BY DEF Ids, server
  <2> QED BY <1>2, <2>1, Bystander
<1>5. Accounted'
  <2>1. SUFFICES ASSUME ~raced, NEW id \in Ids, id \notin file \union left
                 PROVE  \E d \in Cmds : id \in made[d] /\ (run'[d].pc # "done" \/ run'[d].res # "ok")
    BY DEF Accounted, Ids, server
  <2>2. PICK d \in Cmds : id \in made[d] /\ (run[d].pc # "done" \/ run[d].res # "ok")
    BY <2>1 DEF JDInv, Accounted
  <2>3. CASE d = c
    <3>1. run'[c] = q BY <1>0
    <3> QED BY <2>2, <2>3, <3>1
  <2>4. CASE d # c
    <3>1. run'[d] = run[d] BY <1>0, <2>4
    <3> QED BY <2>2, <3>1
  <2> QED BY <2>3, <2>4
<1> QED BY <1>1, <1>3, <1>4, <1>5, CommandMoves

\* A command that ends without a proposal to make.
LEMMA QuietEnd ==
  ASSUME NEW c \in Cmds, NEW p, DOMAIN p = RunFields, p.tried \in Nat,
         p.cmd \in CommandLines \cup {NoCommand}, NEW result \in {"ok", "err", "panic"},
         p.cmd.kind # "batchpropose", p.cmd.kind = "propose" => p.ids = {},
         \A n \in Nat : n > p.tried => MadeBy(c, n) = {},
         made[c] \subseteq Ids, made[c] # {} => p.cmd.kind = "register",
         NEW q, q = Finish(p, result)
  PROVE  CommandInv(c, q)
<1>1. /\ DOMAIN q = RunFields /\ q.pc = "done" /\ q.res = result
      /\ q.cmd = p.cmd /\ q.ids = p.ids /\ q.failed = p.failed /\ q.tried = p.tried
  BY Finished
<1>2. Doing(q) BY <1>1 DEF Doing
<1>3. Proposing(c, q) BY <1>1 DEF Proposing
<1>4. Registering(c, q) BY <1>1 DEF Registering
<1> QED BY <1>2, <1>3, <1>4 DEF CommandInv

\* A command that has not started.
LEMMA IdleFacts ==
  /\ Idle.pc = "idle" /\ Idle.cmd = NoCommand /\ Idle.ids = {} /\ Idle.tried = 0
  /\ DOMAIN Idle = RunFields
  /\ NoCommand.kind = "none"
<1>1. Idle.cmd = NoCommand BY DEF Idle
<1>2. DOMAIN Idle = RunFields /\ Idle.pc = "idle" /\ Idle.ids = {} /\ Idle.tried = 0
  BY DEF Idle, RunFields
<1>3. NoCommand.kind = "none" BY DEF NoCommand
<1> QED BY <1>1, <1>2, <1>3

\* What is known of a command.
LEMMA Known ==
  ASSUME JDInv, NEW c \in Cmds, NEW p, p = run[c]
  PROVE  /\ Doing(p) /\ Proposing(c, p) /\ Registering(c, p)
         /\ DOMAIN p = RunFields /\ p.tried \in Nat /\ p.cmd \in CommandLines \cup {NoCommand}
         /\ \A n \in Nat : n > p.tried => MadeBy(c, n) = {}
         /\ made[c] \subseteq Ids /\ (made[c] # {} => p.cmd.kind = "register")
         /\ \A q : run' = [run EXCEPT ![c] = q] => run'[c] = q
<1>1. CommandInv(c, p) BY DEF JDInv
<1>2. p.pc = "idle" => p.cmd = NoCommand BY <1>1, IdleFacts DEF CommandInv, Doing
<1>3. run = [d \in Cmds |-> run[d]] BY DEF JDInv, ServerInv
<1> QED BY <1>1, <1>2, <1>3 DEF CommandInv, Doing, Proposing, Registering

\* A list of anything is a list of what is in it.
LEMMA TypedList ==
  ASSUME NEW T, NEW s \in Seq(T)
  PROVE  IsSeq(s)
<1>1. \A i \in DOMAIN s : s[i] \in SeqRange(s) BY Zenon DEF SeqRange
<1>2. \A A, B : \A q \in Seq(A) : (\A i \in DOMAIN q : q[i] \in B) => q \in Seq(B) OBVIOUS
<1> QED BY <1>1, <1>2, Zenon DEF IsSeq

\* The command lines.
LEMMA LineTypes ==
  ASSUME NEW k \in CommandLines
  PROVE  /\ k.kind = "register" => IsSeq(k.nodes)
         /\ k.kind = "propose" => k.spec \in DOMAIN Uuid
         /\ k.kind = "batchpropose" => k.jobs \in Seq(JobEntries)
         /\ k.kind \in {"register", "patch", "propose", "batchpropose", "update", "batchupdate", "saveall"}
<1>1. k.kind = "register" => k.nodes \in Seq(NodeArgs) BY JDAssumption
<1>2. k.kind = "register" => IsSeq(k.nodes) BY <1>1, TypedList
<1> QED BY <1>2, JDAssumption

LEMMA StartStep ==
  ASSUME JDInv, NEW c \in Cmds, StartCommand(c)
  PROVE  JDInv'
<1>1. PICK k \in CommandLines :
        /\ run[c].pc = "idle"
        /\ run' = [run EXCEPT ![c] =
             IF k.kind = "batchpropose" /\ k.jobs = <<>>
             THEN Finish([@ EXCEPT !.cmd = k], "ok")
             ELSE [@ EXCEPT !.pc = FirstStep(k), !.cmd = k,
                            !.todo = IF k.kind = "register" THEN k.nodes
                                     ELSE IF k.kind = "batchpropose" THEN k.jobs ELSE <<>>]]
  BY DEF StartCommand
<1>2. UNCHANGED <<server, file, made, author, left, raced>> BY DEF StartCommand
<1>3. run[c] = Idle /\ made[c] = {}
  <2>1. run[c] = Idle BY <1>1, Known DEF Doing
  <2> QED BY <2>1, Known, IdleFacts
<1>4. \A n \in Nat : n > 0 => MadeBy(c, n) = {} BY <1>3, Known, IdleFacts
<1>5. CASE k.kind = "batchpropose" /\ k.jobs = <<>>
  <2>1. PICK p : p = [Idle EXCEPT !.cmd = k] OBVIOUS
  <2>2. /\ DOMAIN p = RunFields /\ p.cmd = k /\ p.ids = {} /\ p.failed = {} /\ p.tried = 0
    BY <2>1 DEF Idle, RunFields
  <2>3. PICK q : q = Finish(p, "ok") OBVIOUS
  <2>4. /\ DOMAIN q = RunFields /\ q.pc = "done" /\ q.res = "ok"
        /\ q.cmd = p.cmd /\ q.ids = p.ids /\ q.failed = p.failed /\ q.tried = p.tried
    BY <2>2, <2>3, Finished
  <2>5. Doing(q) BY <2>2, <2>4 DEF Doing
  <2>6. Proposing(c, q)
    <3>1. Wanted(q) = 0 BY <1>5, <2>2, <2>4 DEF Wanted
    <3>2. Tried(c, q) BY <2>2, <2>4 DEF Tried
    <3> QED BY <1>4, <2>2, <2>4, <3>1, <3>2 DEF Proposing
  <2>7. Registering(c, q) BY <1>3, <2>4 DEF Registering
  <2>8. run' = [run EXCEPT ![c] = q] BY <1>1, <1>3, <1>5, <2>1, <2>3
  <2> QED BY <1>2, <1>3, <2>5, <2>6, <2>7, <2>8, QuietStep DEF CommandInv
<1>6. CASE ~(k.kind = "batchpropose" /\ k.jobs = <<>>)
  <2>1. PICK todo : todo = IF k.kind = "register" THEN k.nodes
                           ELSE IF k.kind = "batchpropose" THEN k.jobs ELSE <<>>
    OBVIOUS
  <2>2. PICK q : q = [Idle EXCEPT !.pc = FirstStep(k), !.cmd = k, !.todo = todo] OBVIOUS
  <2>3. run' = [run EXCEPT ![c] = q] BY <1>1, <1>3, <1>6, <2>1, <2>2
  <2>4. /\ DOMAIN q = RunFields /\ q.cmd = k /\ q.todo = todo /\ q.pc = FirstStep(k)
        /\ q.ids = {} /\ q.failed = {} /\ q.tried = 0 /\ q.res = ""
    BY <2>2 DEF Idle, RunFields
  <2>a. PICK place : place = FirstStep(k) OBVIOUS
  <2>b. q.pc = place /\ q.res = "" /\ q.cmd = k BY <2>4, <2>a
  <2>c. q.tried = 0 BY <2>4
  <2>d. DOMAIN q = RunFields /\ q.ids = {} BY <2>4
  <2>5. /\ q.pc \in {"register", "read", "propose", "list"}
        /\ q.pc = "register" <=> k.kind = "register" /\ k.nodes # <<>>
        /\ q.pc = "read" <=> k.kind = "register" /\ k.nodes = <<>>
        /\ q.pc = "propose" <=> k.kind = "batchpropose"
    <3>1. CASE k.kind = "register" BY <2>4, <3>1 DEF FirstStep
    <3>2. CASE k.kind = "batchpropose" BY <2>4, <3>2 DEF FirstStep
    <3>3. CASE k.kind \notin {"register", "batchpropose"} BY <2>4, <3>3 DEF FirstStep
    <3> QED BY <3>1, <3>2, <3>3
  <2>e. /\ place \in {"register", "read", "propose", "list"}
        /\ place \in {"register", "read"} <=> k.kind = "register"
        /\ place = "propose" <=> k.kind = "batchpropose"
    BY <2>5, <2>b
  <2>6. Doing(q)
    <3>1. q.tried \in Nat BY <2>c
    <3> QED BY <2>b, <2>c, <2>d, <2>e, <3>1, Zenon DEF Doing
  <2>7. Proposing(c, q)
    <3>1. q.pc = "propose" => /\ q.todo \in Seq(JobEntries) /\ q.todo # <<>>
                              /\ q.tried + Len(q.todo) = Wanted(q)
      <4>1. SUFFICES ASSUME k.kind = "batchpropose"
                     PROVE  todo \in Seq(JobEntries) /\ todo # <<>> /\ q.tried + Len(todo) = Wanted(q)
        BY <2>4, <2>5
      <4>2. todo = k.jobs /\ todo \in Seq(JobEntries) BY <2>1, <4>1, LineTypes
      <4>3. Len(todo) \in Nat BY <4>2
      <4>4. Wanted(q) = Len(todo) BY <2>4, <4>1, <4>2 DEF Wanted
      <4>5. q.tried + Len(todo) = Len(todo) 
        <5>1. 0 + Len(todo) = Len(todo) BY <4>3
        <5> QED BY <2>c, <5>1, Zenon
      <4> QED BY <1>6, <4>1, <4>2, <4>4, <4>5
    <3>2. Tried(c, q)
      <4>1. 1..0 = {} OBVIOUS
      <4> QED BY <2>c, <4>1, Zenon DEF Tried
    <3> QED BY <1>4, <2>4, <2>5, <3>1, <3>2 DEF Proposing
  <2>8. Registering(c, q)
    <3>1. q.pc = "register" => IsSeq(q.todo) /\ q.todo # <<>> BY <2>1, <2>4, <2>5, LineTypes
    <3> QED BY <1>3, <2>4, <2>5, <3>1 DEF Registering
  <2> QED BY <1>2, <1>3, <2>3, <2>6, <2>7, <2>8, QuietStep DEF CommandInv
<1> QED BY <1>5, <1>6

LEMMA FailingSteps ==
  ASSUME JDInv, NEW c \in Cmds, LoadFails(c) \/ ListFails(c)
  PROVE  JDInv'
<1>1. PICK result \in {"err", "panic"} : run' = [run EXCEPT ![c] = Finish(run[c], result)]
  BY DEF LoadFails, ListFails
<1>2. run[c].pc \in {"idle", "list"} /\ UNCHANGED <<server, file, made, author, left, raced>>
  BY DEF LoadFails, ListFails
<1>3. PICK p : p = run[c] OBVIOUS
<1>4. PICK q : q = Finish(p, result) OBVIOUS
<1>5. p.cmd.kind # "batchpropose" /\ (p.cmd.kind = "propose" => p.ids = {})
  <2>1. p.pc = "idle" => p = Idle BY <1>3, Known DEF Doing
  <2>2. p.pc = "list" => p.cmd.kind # "batchpropose" /\ p.ids = {} BY <1>3, Known DEF Doing
  <2> QED BY <1>2, <1>3, <2>1, <2>2, IdleFacts
<1>6. q.res = result BY <1>3, <1>4, Known, Finished
<1>7. CommandInv(c, q) BY <1>3, <1>4, <1>5, Known, QuietEnd
<1>8. run' = [run EXCEPT ![c] = q] BY <1>1, <1>3, <1>4
<1> QED BY <1>2, <1>6, <1>7, <1>8, QuietStep

\* A command that is on its way, and proposes nothing.
LEMMA Onward ==
  ASSUME NEW c \in Cmds, NEW q, DOMAIN q = RunFields, q.res \in {"", "ok", "err", "panic"},
         q.tried \in Nat, q.cmd \in CommandLines,
         q.pc \in {"register", "read", "write", "patch", "update", "batchupdate"},
         q.pc \in {"register", "read"} => q.cmd.kind = "register",
         q.pc = "write" => q.cmd.kind = "register" \/ (q.cmd.kind = "saveall" /\ ~q.cmd.dry),
         q.pc \in {"patch", "update", "batchupdate"} => q.cmd.kind = q.pc,
         \A n \in Nat : n > q.tried => MadeBy(c, n) = {}, Registering(c, q)
  PROVE  CommandInv(c, q)
<1>1. Doing(q) BY DEF Doing
<1>2. Proposing(c, q) BY DEF Proposing
<1> QED BY <1>1, <1>2 DEF CommandInv

LEMMA ReadStep ==
  ASSUME JDInv, NEW c \in Cmds, ReadNodes(c)
  PROVE  JDInv'
<1>1. PICK p : p = run[c] OBVIOUS
<1>2. PICK q : q = [p EXCEPT !.pc = "write", !.base = file, !.ids = @ \union file] OBVIOUS
<1>3. run' = [run EXCEPT ![c] = q] /\ p.pc = "read"
  <2>1. run' = [run EXCEPT ![c].pc = "write", ![c].base = file, ![c].ids = @ \union file]
        /\ run[c].pc = "read"
    BY DEF ReadNodes
  <2>2. c \in DOMAIN run BY DEF JDInv, ServerInv
  <2> QED BY <1>1, <1>2, <2>1, <2>2
<1>4. UNCHANGED <<server, file, made, author, left, raced>> BY DEF ReadNodes
<1>5. Doing(p) /\ Registering(c, p) /\ DOMAIN p = RunFields BY <1>1, Known
<1>6. /\ DOMAIN q = RunFields /\ q.pc = "write" /\ q.base = file /\ q.ids = p.ids \union file
      /\ q.cmd = p.cmd /\ q.tried = p.tried /\ q.res = p.res
  BY <1>1, <1>2, <1>5 DEF RunFields
<1>7. p.cmd \in CommandLines /\ p.cmd.kind = "register" /\ p.tried \in Nat
      /\ p.res \in {"", "ok", "err", "panic"}
  BY <1>3, <1>5 DEF Doing
<1>8. file \subseteq Ids BY DEF JDInv, ServerInv
<1>9. Registering(c, q)
  <2>1. made[c] \subseteq Ids /\ p.ids \subseteq Ids /\ made[c] \subseteq p.ids
    BY <1>3, <1>5, <1>7 DEF Registering
  <2> QED BY <1>6, <1>7, <1>8, <2>1 DEF Registering
<1>10. \A n \in Nat : n > q.tried => MadeBy(c, n) = {} BY <1>1, <1>6, Known
<1>11. q.cmd \in CommandLines /\ q.cmd.kind = "register" /\ q.tried \in Nat
       /\ q.res \in {"", "ok", "err", "panic"}
  BY <1>6, <1>7
<1>12. CommandInv(c, q) BY <1>6, <1>9, <1>10, <1>11, Onward
<1> QED BY <1>3, <1>4, <1>6, <1>12, QuietStep

LEMMA WriteStep ==
  ASSUME JDInv, NEW c \in Cmds, WriteNodes(c)
  PROVE  JDInv'
<1>1. PICK p : p = run[c] OBVIOUS
<1>2. PICK q : q = Finish(p, "ok") OBVIOUS
<1>3. run' = [run EXCEPT ![c] = q] /\ p.pc = "write" /\ file' = p.ids BY <1>1, <1>2 DEF WriteNodes
<1>4. UNCHANGED <<server, made, author, left>> BY DEF WriteNodes
<1>5. ~raced' => ~raced /\ file = p.base /\ (p.cmd.kind = "saveall" => Len(nodes) = Len(p.listed))
  BY <1>1 DEF WriteNodes
<1>6. Doing(p) /\ Registering(c, p) /\ DOMAIN p = RunFields BY <1>1, Known
<1>7. /\ DOMAIN q = RunFields /\ q.pc = "done" /\ q.res = "ok"
      /\ q.cmd = p.cmd /\ q.ids = p.ids /\ q.failed = p.failed /\ q.tried = p.tried
  BY <1>2, <1>6, Finished
<1>8. p.cmd \in CommandLines /\ p.cmd.kind \in {"register", "saveall"} /\ p.tried \in Nat
  BY <1>3, <1>6 DEF Doing
<1>9. /\ p.ids \subseteq Ids /\ made[c] \subseteq Ids
      /\ p.cmd.kind = "register" => made[c] \subseteq p.ids /\ p.base \subseteq p.ids
      /\ p.cmd.kind = "saveall" => made[c] = {} /\ 1..Len(p.listed) \subseteq p.ids \cup left
  BY <1>3, <1>6, <1>8 DEF Registering
<1>10. run = [d \in Cmds |-> run[d]] /\ made = [d \in Cmds |-> made[d]] /\ ServerInv
  BY DEF JDInv, ServerInv
<1>11. ServerInv'
  <2>1. run' = [d \in Cmds |-> run'[d]] BY <1>3, <1>10
  <2> QED BY <1>3, <1>4, <1>9, <1>10, <2>1 DEF ServerInv, server, Ids, OutOfScope, IsSeq, SeqRange
<1>12. \A d \in Cmds, n \in Nat : MadeBy(d, n)' = MadeBy(d, n) BY <1>4 DEF MadeBy
<1>13. OthersAlone(c) BY <1>4, <1>10, <1>12 DEF OthersAlone, Ids, server
<1>14. \A n \in Nat : n > p.tried => MadeBy(c, n) = {} BY <1>1, Known
<1>15. CommandInv(c, q)
  <2>1. made[c] # {} => p.cmd.kind = "register" BY <1>8, <1>9
  <2>2. p.cmd.kind # "batchpropose" /\ p.cmd.kind # "propose" BY <1>8
  <2> QED BY <1>2, <1>6, <1>8, <1>9, <1>14, <2>1, <2>2, QuietEnd
<1>16. CommandInv(c, q)'
  <2>1. made' = made /\ Ids' = Ids /\ left' = left BY <1>4 DEF Ids, server
  <2> QED BY <1>12, <1>15, <2>1, Bystander
<1>17. Accounted'
  <2>1. Ids' = Ids /\ left' = left /\ made' = made /\ file' = p.ids BY <1>3, <1>4 DEF Ids, server
  <2>2. SUFFICES ASSUME ~raced', NEW id \in Ids, id \notin p.ids \cup left
                 PROVE  \E d \in Cmds : id \in made[d] /\ (run'[d].pc # "done" \/ run'[d].res # "ok")
    BY <2>1 DEF Accounted
  <2>3. ~raced /\ file = p.base BY <1>5, <2>2
  <2>4. CASE p.cmd.kind = "register"
    <3>1. id \notin file \cup left /\ id \notin made[c] BY <1>9, <2>2, <2>3, <2>4
    <3>2. PICK d \in Cmds : id \in made[d] /\ (run[d].pc # "done" \/ run[d].res # "ok")
      BY <2>3, <3>1 DEF JDInv, Accounted
    <3>3. d # c BY <3>1, <3>2
    <3>4. run'[d] = run[d] BY <1>3, <1>10, <3>3
    <3> QED BY <3>2, <3>4
  <2>5. CASE p.cmd.kind = "saveall"
    <3>1. Len(nodes) = Len(p.listed) BY <1>5, <2>2, <2>5
    <3>2. Ids = 1..Len(nodes) BY <1>10 DEF Ids, ServerInv, IsSeq
    <3> QED BY <1>9, <2>2, <2>5, <3>1, <3>2
  <2> QED BY <1>8, <2>4, <2>5
<1> QED BY <1>3, <1>11, <1>13, <1>16, <1>17, CommandMoves

\* Lists: one entry more, or one less.
LEMMA Longest ==
  ASSUME NEW s, IsSeq(s), NEW e
  PROVE  /\ IsSeq(Append(s, e)) /\ Len(s) \in Nat /\ DOMAIN s = 1..Len(s)
         /\ DOMAIN Append(s, e) = 1..(Len(s) + 1)
         /\ \A i \in 1..Len(s) : Append(s, e)[i] = s[i]
         /\ Append(s, e)[Len(s) + 1] = e
<1> DEFINE S == SeqRange(s) \cup {e}
<1>1. \A T : \A q \in Seq(T) : q \in Seq(T \cup {e}) OBVIOUS
<1>2. s \in Seq(S) /\ e \in S BY <1>1, Zenon DEF IsSeq
<1>3. \A T : \A q \in Seq(T), x \in T :
        /\ Len(q) \in Nat /\ DOMAIN q = 1..Len(q) /\ Len(Append(q, x)) = Len(q) + 1
        /\ DOMAIN Append(q, x) = 1..(Len(q) + 1) /\ \A i \in 1..Len(q) : Append(q, x)[i] = q[i]
        /\ Append(q, x)[Len(q) + 1] = x
  OBVIOUS
<1> HIDE DEF S
<1>4. /\ Len(s) \in Nat /\ DOMAIN s = 1..Len(s) /\ Len(Append(s, e)) = Len(s) + 1
      /\ DOMAIN Append(s, e) = 1..(Len(s) + 1) /\ \A i \in 1..Len(s) : Append(s, e)[i] = s[i]
      /\ Append(s, e)[Len(s) + 1] = e
  BY <1>2, <1>3, Zenon
<1>5. IsSeq(Append(s, e))
  <2>1. \A T, U : \A q \in Seq(T) : (\A i \in DOMAIN q : q[i] \in U) => q \in Seq(U) OBVIOUS
  <2>2. \A T : \A q \in Seq(T), x \in T : Append(q, x) \in Seq(T) OBVIOUS
  <2>3. Append(s, e) \in Seq(S) BY <1>2, <2>2, Zenon
  <2>4. \A i \in DOMAIN Append(s, e) : Append(s, e)[i] \in SeqRange(Append(s, e)) BY Zenon DEF SeqRange
  <2> QED BY <2>1, <2>3, <2>4, Zenon DEF IsSeq
<1> QED BY <1>4, <1>5

LEMMA Shorter ==
  ASSUME NEW s, IsSeq(s), s # <<>>
  PROVE  /\ Len(s) \in Nat \ {0} /\ IsSeq(Tail(s)) /\ Len(Tail(s)) = Len(s) - 1
         /\ Tail(s) = <<>> <=> Len(s) = 1
<1>1. \A T : \A q \in Seq(T) : q # <<>> =>
        /\ Len(q) \in Nat \ {0} /\ Tail(q) \in Seq(T) /\ Len(Tail(q)) = Len(q) - 1
        /\ Tail(q) = <<>> <=> Len(q) = 1
  <2>1. \A T : \A q \in Seq(T) : q # <<>> =>
          Len(q) \in Nat \ {0} /\ Tail(q) \in Seq(T) /\ Len(Tail(q)) = Len(q) - 1
    OBVIOUS
  <2>2. \A T : \A q \in Seq(T) : q = <<>> <=> Len(q) = 0 OBVIOUS
  <2>3. \A n \in Nat \ {0} : n - 1 = 0 <=> n = 1 OBVIOUS
  <2> QED BY <2>1, <2>2, <2>3, Zenon
<1>2. /\ Len(s) \in Nat \ {0} /\ Tail(s) \in Seq(SeqRange(s)) /\ Len(Tail(s)) = Len(s) - 1
      /\ Tail(s) = <<>> <=> Len(s) = 1
  BY <1>1, Zenon DEF IsSeq
<1>3. \A T, U : \A q \in Seq(T) : (\A i \in DOMAIN q : q[i] \in U) => q \in Seq(U) OBVIOUS
<1>4. \A i \in DOMAIN Tail(s) : Tail(s)[i] \in SeqRange(Tail(s)) BY Zenon DEF SeqRange
<1>5. IsSeq(Tail(s)) BY <1>2, <1>3, <1>4, Zenon DEF IsSeq
<1> QED BY <1>2, <1>5

\* A command that is on its way, or that ends, after a step that adds to what it made.
LEMMA OnwardNext ==
  ASSUME NEW c \in Cmds, NEW q, DOMAIN q = RunFields, q.res \in {"", "ok", "err", "panic"},
         q.tried \in Nat, q.cmd \in CommandLines,
         q.pc \in {"register", "read", "write", "patch", "update", "batchupdate", "done"},
         q.pc \in {"register", "read"} => q.cmd.kind = "register",
         q.pc = "write" => q.cmd.kind = "register" \/ (q.cmd.kind = "saveall" /\ ~q.cmd.dry),
         q.pc \in {"patch", "update", "batchupdate"} => q.cmd.kind = q.pc,
         q.pc = "done" => q.cmd.kind \notin {"propose", "batchpropose"},
         \A n \in Nat : n > q.tried => MadeBy(c, n) = {}, author' = author, Registering(c, q)'
  PROVE  CommandInv(c, q)'
<1>1. Doing(q)' BY DEF Doing
<1>2. \A n \in Nat : n > q.tried => MadeBy(c, n)' = {} BY DEF MadeBy
<1>3. Proposing(c, q)' BY <1>2 DEF Proposing
<1> QED BY <1>1, <1>3 DEF CommandInv

LEMMA RegisterStep ==
  ASSUME JDInv, NEW c \in Cmds, RegisterNode(c)
  PROVE  JDInv'
<1>1. PICK p : p = run[c] OBVIOUS
<1>2. PICK n, id : n = Head(p.todo) /\ id = Len(nodes) + 1 OBVIOUS
<1>3. PICK out \in Outcomes :
        /\ p.pc = "register"
        /\ IF Applied(c, out)
           THEN /\ nodes' = Append(nodes, NewNode(n))
                /\ made' = [made EXCEPT ![c] = @ \union {id}]
                /\ left' = left \union OutOfScope(nodes')
           ELSE UNCHANGED <<nodes, made, left>>
        /\ run' = [run EXCEPT ![c] =
             IF ~(out = "answered" /\ ~p.cmd.dryClient) THEN Finish(p, "err")
             ELSE [p EXCEPT !.ids = @ \union {id}, !.todo = Tail(@),
                            !.pc = IF Len(p.todo) = 1 THEN "read" ELSE "register"]]
        /\ UNCHANGED <<jobs, props, file, author, touched, raced>>
  BY <1>1, <1>2 DEF RegisterNode
<1>4. Doing(p) /\ Registering(c, p) /\ DOMAIN p = RunFields /\ p.tried \in Nat BY <1>1, Known
<1>5. p.cmd \in CommandLines /\ p.cmd.kind = "register" /\ p.res \in {"", "ok", "err", "panic"}
  BY <1>3, <1>4 DEF Doing
<1>6. /\ made[c] \subseteq Ids /\ p.ids \subseteq Ids /\ made[c] \subseteq p.ids
      /\ IsSeq(p.todo) /\ p.todo # <<>>
  BY <1>3, <1>4, <1>5 DEF Registering
<1>7. \A m \in Nat : m > p.tried => MadeBy(c, m) = {} BY <1>1, Known
<1>8. CASE ~Applied(c, out)
  <2>1. ~(out = "answered" /\ ~p.cmd.dryClient) BY <1>1, <1>8 DEF Applied
  <2>2. PICK q : q = Finish(p, "err") OBVIOUS
  <2>3. run' = [run EXCEPT ![c] = q] BY <1>3, <2>1, <2>2
  <2>4. UNCHANGED <<server, file, made, author, left, raced>> BY <1>3, <1>8 DEF server
  <2>5. q.res = "err" BY <1>4, <2>2, Finished
  <2>6. CommandInv(c, q) BY <1>4, <1>5, <1>6, <1>7, <2>2, QuietEnd
  <2> QED BY <2>3, <2>4, <2>5, <2>6, QuietStep
<1>9. CASE Applied(c, out)
  <2>1. /\ nodes' = Append(nodes, NewNode(n))
        /\ made' = [made EXCEPT ![c] = @ \union {id}]
        /\ left' = left \union OutOfScope(nodes')
    BY <1>3, <1>9
  <2>2. run = [d \in Cmds |-> run[d]] /\ made = [d \in Cmds |-> made[d]] /\ ServerInv
    BY DEF JDInv, ServerInv
  <2>3. /\ Len(nodes) \in Nat /\ Ids = 1..Len(nodes) /\ IsSeq(nodes)' /\ Ids' = 1..(Len(nodes) + 1)
        /\ \A i \in 1..Len(nodes) : nodes'[i] = nodes[i]
        /\ nodes'[Len(nodes) + 1] = NewNode(n)
    <3>1. IsSeq(nodes) BY <2>2 DEF ServerInv
    <3>2. PICK s, e : s = nodes /\ e = NewNode(n) OBVIOUS
    <3>3. /\ IsSeq(Append(s, e)) /\ Len(s) \in Nat /\ DOMAIN s = 1..Len(s)
          /\ DOMAIN Append(s, e) = 1..(Len(s) + 1)
          /\ \A i \in 1..Len(s) : Append(s, e)[i] = s[i]
          /\ Append(s, e)[Len(s) + 1] = e
      <4>1. IsSeq(s) BY <3>1, <3>2 DEF IsSeq, SeqRange
      <4> QED BY <4>1, Longest
    <3>4. nodes' = Append(s, e) BY <2>1, <3>2
    <3>5. IsSeq(nodes)' <=> IsSeq(nodes') BY DEF IsSeq, SeqRange
    <3> QED BY <3>2, <3>3, <3>4, <3>5 DEF Ids
  <2>4. Ids' = Ids \cup {id} BY <1>2, <2>3
  <2>5. made'[c] = made[c] \cup {id} /\ \A d \in Cmds : d # c => made'[d] = made[d] BY <2>1, <2>2
  <2>6. made' = [d \in Cmds |-> made'[d]] BY <2>1, <2>2
  <2>7. PICK q : run' = [run EXCEPT ![c] = q] /\ q = IF ~(out = "answered" /\ ~p.cmd.dryClient) THEN Finish(p, "err")
             ELSE [p EXCEPT !.ids = @ \union {id}, !.todo = Tail(@),
                            !.pc = IF Len(p.todo) = 1 THEN "read" ELSE "register"]
    BY <1>3
  <2>8. ServerInv'
    <3>1. run' = [d \in Cmds |-> run'[d]] BY <2>2, <2>7
    <3>2. \A i \in Ids' : DOMAIN nodes'[i] = NodeFields
      <4>1. DOMAIN NewNode(n) = NodeFields BY DEF NewNode, NodeFields
      <4>2. \A i \in 1..Len(nodes) : DOMAIN nodes'[i] = NodeFields BY <2>2, <2>3 DEF ServerInv
      <4> QED BY <1>2, <2>3, <2>4, <4>1, <4>2
    <3>3. file' \subseteq Ids' BY <1>3, <2>2, <2>4 DEF ServerInv
    <3>4. OutOfScope(nodes)' \subseteq left' BY <2>1 DEF OutOfScope
    <3>5. (Exact(jobs, props))' /\ (author \in Seq(Makers) /\ Len(author) = Len(props))'
      BY <1>3, <2>2 DEF ServerInv
    <3> QED BY <2>3, <2>6, <3>1, <3>2, <3>3, <3>4, <3>5 DEF ServerInv
  <2>9. \A d \in Cmds, m \in Nat : MadeBy(d, m)' = MadeBy(d, m) BY <1>3 DEF MadeBy
  <2>10. OthersAlone(c) BY <2>1, <2>4, <2>5, <2>6, <2>9 DEF OthersAlone
  <2>11. CommandInv(c, q)' /\ (q.pc # "done" \/ q.res # "ok")
    <3>1. CASE ~(out = "answered" /\ ~p.cmd.dryClient)
      <4>1. q = Finish(p, "err") BY <2>7, <3>1
      <4>2. /\ DOMAIN q = RunFields /\ q.pc = "done" /\ q.res = "err"
            /\ q.cmd = p.cmd /\ q.tried = p.tried
        BY <1>4, <4>1, Finished
      <4>3. Registering(c, q)' BY <1>5, <1>6, <2>4, <2>5, <4>2 DEF Registering
      <4>4. CommandInv(c, q)' BY <1>3, <1>4, <1>5, <1>7, <4>2, <4>3, OnwardNext
      <4> QED BY <4>2, <4>4
    <3>2. CASE out = "answered" /\ ~p.cmd.dryClient
      <4>1. PICK place : place = IF Len(p.todo) = 1 THEN "read" ELSE "register" OBVIOUS
      <4>2. q = [p EXCEPT !.ids = @ \union {id}, !.todo = Tail(@), !.pc = place] BY <2>7, <3>2, <4>1
      <4>3. /\ DOMAIN q = RunFields /\ q.pc = place /\ q.res = p.res /\ q.cmd = p.cmd
            /\ q.tried = p.tried /\ q.ids = p.ids \cup {id} /\ q.todo = Tail(p.todo)
        BY <1>4, <4>2 DEF RunFields
      <4>4. place \in {"read", "register"} /\ (place = "register" => Len(p.todo) # 1) BY <4>1
      <4>5. place = "register" => IsSeq(q.todo) /\ q.todo # <<>> BY <1>6, <4>3, <4>4, Shorter
      <4>6. Registering(c, q)' BY <1>5, <1>6, <2>4, <2>5, <4>3, <4>4, <4>5 DEF Registering, IsSeq, SeqRange
      <4>7. CommandInv(c, q)' BY <1>3, <1>4, <1>5, <1>7, <4>3, <4>4, <4>6, OnwardNext
      <4> QED BY <4>3, <4>4, <4>7
    <3> QED BY <3>1, <3>2
  <2>12. Accounted'
    <3>1. file' = file /\ raced' = raced /\ left \subseteq left' BY <1>3, <2>1
    <3>2. SUFFICES ASSUME ~raced, NEW i \in Ids', i \notin file \cup left
                   PROVE  \E d \in Cmds : i \in made'[d] /\ (run'[d].pc # "done" \/ run'[d].res # "ok")
      BY <3>1 DEF Accounted
    <3>3. run'[c] = q /\ \A d \in Cmds : d # c => run'[d] = run[d] BY <2>2, <2>7
    <3>4. CASE i = id BY <2>5, <2>11, <3>3, <3>4
    <3>5. CASE i \in Ids
      <4>1. PICK d \in Cmds : i \in made[d] /\ (run[d].pc # "done" \/ run[d].res # "ok")
        BY <3>2, <3>5 DEF JDInv, Accounted
      <4>2. CASE d = c BY <2>5, <2>11, <3>3, <4>1, <4>2
      <4>3. CASE d # c BY <2>5, <3>3, <4>1, <4>3
      <4> QED BY <4>2, <4>3
    <3> QED BY <2>4, <3>2, <3>4, <3>5
  <2> QED BY <2>7, <2>8, <2>10, <2>11, <2>12, CommandMoves
<1> QED BY <1>8, <1>9

\* The nodes that save-all does not list are outside the domain's environment.
LEMMA NotListed ==
  ASSUME NEW k \in CommandLines, k.kind = "saveall", NEW id \in Ids,
         ~nodeMatchesFilter(id, nodes[id], FilterOf(k))
  PROVE  id \in OutOfScope(nodes)
<1>1. FilterOf(k) = [ids |-> {}, enabled |-> FALSE, sels |-> NodeScope] BY DEF FilterOf
<1>2. PICK f : f = FilterOf(k) OBVIOUS
<1>3. f.ids = {} /\ f.enabled = FALSE /\ f.sels = NodeScope BY <1>1, <1>2
<1>4. ~nodeMatchesFilter(id, nodes[id], f) BY <1>2
<1>5. \E sel \in NodeScope : ~matchesSelector(nodes[id].labels, sel)
  BY <1>3, <1>4, Zenon DEF nodeMatchesFilter
<1> QED BY <1>5, Zenon DEF OutOfScope, Ids

\* The command c, which listed the nodes, goes on with what it has to do.
Listed(p, found, seen, q, place, todo, base) ==
  /\ DOMAIN q = RunFields /\ q.pc = place /\ q.todo = todo /\ q.base = base
  /\ q.cmd = p.cmd /\ q.ids = found /\ q.listed = seen
  /\ q.tried = p.tried /\ q.res = p.res

LEMMA ListedPropose ==
  ASSUME JDInv, NEW c \in Cmds, NEW p, p = run[c], p.pc \in {"list", "filter"}, p.cmd.kind = "propose",
         NEW found, found \subseteq Ids, NEW seen, NEW order \in Orders(found), NEW todo,
         todo = [i \in DOMAIN order |-> [node |-> order[i], spec |-> p.cmd.spec]],
         NEW q, NEW base, Listed(p, found, seen, q, "propose", todo, base), todo # <<>>
  PROVE  CommandInv(c, q)
<1>1. Doing(p) /\ p.tried \in Nat BY Known
<1>2. p.cmd \in CommandLines /\ p.tried = 0 BY <1>1 DEF Doing
<1>3. p.cmd.spec \in DOMAIN Uuid BY <1>2, LineTypes
<1>4. Ids \subseteq Nat /\ IsFiniteSet(found)
  <2>1. Ids = 1..Len(nodes) /\ Len(nodes) \in Nat BY DEF JDInv, ServerInv, IsSeq, Ids
  <2>a. PICK n \in Nat : n = Len(nodes) BY <2>1
  <2>b. IsFiniteSet(1..n) BY FS_Interval
  <2>2. IsFiniteSet(Ids) BY <2>1, <2>a, <2>b
  <2>3. IsFiniteSet(found) BY <2>2, FS_Subset
  <2> QED BY <2>1, <2>3
<1>5. PICK m : m = Cardinality(found) OBVIOUS
<1>6. m \in Nat BY <1>4, <1>5, FS_CardinalityType
<1>7. order \in [1..m -> found] BY <1>5 DEF Orders
<1>8. todo \in Seq(JobEntries) /\ Len(todo) = m
  <2>1. \A i \in 1..m : order[i] \in Nat BY <1>4, <1>7
  <2>2. todo = [i \in 1..m |-> [node |-> order[i], spec |-> p.cmd.spec]] BY <1>7
  <2>3. todo \in [1..m -> JobEntries] BY <1>3, <2>1, <2>2 DEF JobEntries
  <2> QED BY <1>6, <2>3
<1>9. q.pc = "propose" /\ q.cmd = p.cmd /\ q.ids = found /\ q.todo = todo BY DEF Listed
<1>10. q.tried = 0 /\ q.res = p.res /\ DOMAIN q = RunFields BY <1>2 DEF Listed
<1>11. Doing(q) BY <1>1, <1>2, <1>9, <1>10 DEF Doing
<1>12. Proposing(c, q)
  <2>1. Wanted(q) = m BY <1>5, <1>9 DEF Wanted
  <2>2. q.tried + Len(todo) = Wanted(q)
    <3>1. 0 + Len(todo) = m BY <1>6, <1>8
    <3> QED BY <1>10, <2>1, <3>1, Zenon
  <2>3. Tried(c, q)
    <3>1. 1..0 = {} OBVIOUS
    <3> QED BY <1>10, <3>1, Zenon DEF Tried
  <2>4. \A n \in Nat : n > 0 => MadeBy(c, n) = {} BY <1>2, Known
  <2>5. \A n \in Nat : n > q.tried => MadeBy(c, n) = {} BY <1>10, <2>4
  <2> QED BY <1>8, <1>9, <2>2, <2>3, <2>5 DEF Proposing
<1>13. Registering(c, q)
  <2>1. made[c] \subseteq Ids /\ made[c] = {} BY Known
  <2> QED BY <1>9, <2>1 DEF Registering
<1> QED BY <1>11, <1>12, <1>13 DEF CommandInv

LEMMA ListedOther ==
  ASSUME JDInv, NEW c \in Cmds, NEW p, p = run[c], p.pc \in {"list", "filter"},
         NEW found, found \subseteq Ids, NEW seen,
         p.cmd.kind = "saveall" => 1..Len(seen) \subseteq found \cup left,
         NEW place, NEW todo, NEW base, NEW q, Listed(p, found, seen, q, place, todo, base),
         \/ place = "write" /\ p.cmd.kind = "saveall" /\ ~p.cmd.dry
         \/ place \in {"patch", "update", "batchupdate"} /\ p.cmd.kind = place
  PROVE  CommandInv(c, q)
<1>1. Doing(p) /\ p.tried \in Nat BY Known
<1>2. p.cmd \in CommandLines /\ p.res \in {"", "ok", "err", "panic"} BY <1>1 DEF Doing
<1>3. q.pc = place /\ q.cmd = p.cmd /\ q.ids = found /\ q.listed = seen BY DEF Listed
<1>4. q.tried = p.tried /\ q.res = p.res /\ DOMAIN q = RunFields BY DEF Listed
<1>5. \A n \in Nat : n > q.tried => MadeBy(c, n) = {}
  <2>1. \A n \in Nat : n > p.tried => MadeBy(c, n) = {} BY Known
  <2> QED BY <1>4, <2>1
<1>6. Registering(c, q)
  <2>1. made[c] = {} BY Known
  <2> QED BY <1>3, <2>1 DEF Registering
<1> QED BY <1>2, <1>1, <1>3, <1>4, <1>5, <1>6, Onward

\* The nodes a listing answers with are numbered as those it collected.
LEMMA SeenLength ==
  ASSUME NEW n \in Nat, NEW f
  PROVE  IsSeq([i \in 1..n |-> f[i]]) /\ Len([i \in 1..n |-> f[i]]) = n
<1>1. PICK g : g = [i \in 1..n |-> f[i]] OBVIOUS
<1>2. DOMAIN g = 1..n BY <1>1
<1>3. \A i \in 1..n : g[i] \in SeqRange(g) BY <1>2, Zenon DEF SeqRange
<1>4. g \in [1..n -> SeqRange(g)] BY <1>1, <1>3
<1>5. \A T : \A h \in [1..n -> T] : h \in Seq(T) /\ Len(h) = n OBVIOUS
<1>6. g \in Seq(SeqRange(g)) /\ Len(g) = n BY <1>4, <1>5, Zenon
<1> QED BY <1>1, <1>6, Zenon DEF IsSeq

\* The answer leads the command where its kind does.
LEMMA AnswerStep ==
  ASSUME JDInv, NEW c \in Cmds, run[c].pc \in {"list", "filter"},
         NEW found, found \subseteq Ids, NEW seen, Answer(c, found, seen),
         run[c].cmd.kind = "saveall" => 1..Len(seen) \subseteq found \cup left
  PROVE  JDInv'
<1>1. PICK p : p = run[c] OBVIOUS
<1>a. PICK order \in Orders(found) :
        run' = [run EXCEPT ![c] = Onwards([run[c] EXCEPT !.listed = seen, !.ids = found],
                                          AfterList(p.cmd, found, order))]
  BY <1>1, Zenon DEF Answer
<1>b. p.pc \in {"list", "filter"} BY <1>1
<1>c. PICK goal, p0 :
        goal = AfterList(p.cmd, found, order) /\ p0 = [p EXCEPT !.listed = seen, !.ids = found]
  OBVIOUS
<1>3. /\ p.pc \in {"list", "filter"}
      /\ goal = AfterList(p.cmd, found, order)
      /\ p0 = [p EXCEPT !.listed = seen, !.ids = found]
      /\ run' = [run EXCEPT ![c] = Onwards(p0, goal)]
  BY <1>1, <1>a, <1>b, <1>c
<1>4. UNCHANGED <<server, file, made, author, left, raced>> BY DEF Answer
<1>5. Doing(p) /\ DOMAIN p = RunFields /\ p.tried \in Nat /\ made[c] \subseteq Ids BY <1>1, Known
<1>6. p.cmd \in CommandLines /\ p.cmd.kind \notin {"register", "batchpropose"} BY <1>3, <1>5 DEF Doing
<1>7. p.cmd.kind \in {"patch", "propose", "saveall", "update", "batchupdate"} BY <1>6, LineTypes
<1>8. made[c] = {} BY <1>1, <1>6, Known
<1>9. /\ DOMAIN p0 = RunFields /\ p0.pc = p.pc /\ p0.cmd = p.cmd /\ p0.ids = found /\ p0.listed = seen
      /\ p0.tried = p.tried /\ p0.res = p.res
  BY <1>3, <1>5 DEF RunFields
<1>10. /\ p.cmd.kind = "patch" => goal[1] \in {"end", "patch"}
       /\ p.cmd.kind = "propose" =>
            goal = <<"propose", [i \in DOMAIN order |-> [node |-> order[i], spec |-> p.cmd.spec]]>>
       /\ p.cmd.kind = "saveall" => goal[1] \in {"end", "write"} /\ (goal[1] = "write" => ~p.cmd.dry)
       /\ p.cmd.kind = "update" => goal[1] \in {"end", "update"}
       /\ p.cmd.kind = "batchupdate" => goal[1] = "batchupdate"
  BY <1>3 DEF AfterList
<1>11. CASE goal[1] = "end" \/ (goal[1] # "write" /\ goal[2] = <<>>)
  <2>1. PICK result \in {"ok", "err"} : run' = [run EXCEPT ![c] = Finish(p0, result)]
    <3>1. PICK result \in {"ok", "err"} : Onwards(p0, goal) = Finish(p0, result)
      BY <1>11 DEF Onwards
    <3> QED BY <1>3, <3>1
  <2>2. p.cmd.kind = "propose" => found = {}
    <3>1. SUFFICES ASSUME p.cmd.kind = "propose" PROVE found = {} OBVIOUS
    <3>2. PICK todo : todo = [i \in DOMAIN order |-> [node |-> order[i], spec |-> p.cmd.spec]] OBVIOUS
    <3>3. goal = <<"propose", todo>> BY <1>10, <3>1, <3>2
    <3>4. todo = <<>> BY <1>11, <3>3
    <3>5. DOMAIN order = {} BY <3>2, <3>4
    <3>6. SeqRange(order) = found BY DEF Orders
    <3> QED BY <3>5, <3>6 DEF SeqRange
  <2>3. PICK q : q = Finish(p0, result) OBVIOUS
  <2>4. p0.cmd.kind # "batchpropose" /\ (p0.cmd.kind = "propose" => p0.ids = {}) BY <1>6, <1>9, <2>2
  <2>5. \A n \in Nat : n > p0.tried => MadeBy(c, n) = {}
    <3>1. \A n \in Nat : n > p.tried => MadeBy(c, n) = {} BY <1>1, Known
    <3> QED BY <1>9, <3>1
  <2>6. p0.tried \in Nat /\ p0.cmd \in CommandLines BY <1>5, <1>6, <1>9
  <2>7. CommandInv(c, q) BY <1>5, <1>8, <1>9, <2>3, <2>4, <2>5, <2>6, QuietEnd
  <2> QED BY <1>4, <1>8, <2>1, <2>3, <2>7, QuietStep
<1>12. CASE ~(goal[1] = "end" \/ (goal[1] # "write" /\ goal[2] = <<>>))
  <2>1. PICK place, todo, base : place = goal[1] /\ todo = goal[2]
                              /\ base = IF p.cmd.kind = "saveall" THEN file ELSE {}
    OBVIOUS
  <2>2. PICK q : q = [p0 EXCEPT !.pc = place, !.todo = todo, !.base = base] OBVIOUS
  <2>3. run' = [run EXCEPT ![c] = q]
    <3>1. Onwards(p0, goal) = q BY <1>9, <1>12, <2>1, <2>2 DEF Onwards
    <3> QED BY <1>3, <3>1
  <2>4. Listed(p, found, seen, q, place, todo, base) BY <1>9, <2>2 DEF Listed, RunFields
  <2>5. CommandInv(c, q)
    <3>1. CASE p.cmd.kind = "propose"
      <4>1. place = "propose" /\ todo = [i \in DOMAIN order |-> [node |-> order[i], spec |-> p.cmd.spec]]
        BY <1>10, <2>1, <3>1
      <4>2. todo # <<>> BY <1>12, <2>1, <4>1
      <4>3. Listed(p, found, seen, q, "propose", todo, base) BY <2>4, <4>1
      <4> QED BY <1>1, <1>3, <3>1, <4>1, <4>2, <4>3, ListedPropose
    <3>2. CASE p.cmd.kind # "propose"
      <4>1. \/ place = "write" /\ p.cmd.kind = "saveall" /\ ~p.cmd.dry
            \/ place \in {"patch", "update", "batchupdate"} /\ p.cmd.kind = place
        BY <1>7, <1>10, <1>12, <2>1, <3>2
      <4> QED BY <1>1, <1>3, <2>4, <4>1, ListedOther
    <3> QED BY <3>1, <3>2
  <2> QED BY <1>4, <1>8, <2>3, <2>5, QuietStep
<1> QED BY <1>11, <1>12

\* A listing, in one step or node by node: save-all has every node that is in scope.
LEMMA ListStep ==
  ASSUME JDInv, NEW c \in Cmds, List(c)
  PROVE  JDInv'
<1>1. PICK found : found = {id \in Ids : nodeMatchesFilter(id, nodes[id], FilterOf(run[c].cmd))}
  OBVIOUS
<1>2. found \subseteq Ids BY <1>1
<1>3. run[c].pc = "list" /\ run[c].cmd.kind # "saveall" /\ Answer(c, found, nodes)
  BY <1>1 DEF List
<1> QED BY <1>2, <1>3, AnswerStep

LEMMA CollectStep ==
  ASSUME JDInv, NEW c \in Cmds, Collect(c)
  PROVE  JDInv'
<1>1. PICK p : p = run[c] OBVIOUS
<1>2. PICK q : q = [p EXCEPT !.pc = "filter", !.listed = nodes, !.base = Ids] OBVIOUS
<1>3. /\ p.pc = "list" /\ p.cmd.kind \in {"patch", "propose", "saveall"}
      /\ run' = [run EXCEPT ![c] = q]
  <2>1. c \in DOMAIN run BY DEF JDInv, ServerInv
  <2> QED BY <1>1, <1>2, <2>1 DEF Collect
<1>4. UNCHANGED <<server, file, made, author, left, raced>> BY DEF Collect
<1>5. Doing(p) /\ DOMAIN p = RunFields BY <1>1, Known
<1>6. /\ DOMAIN q = RunFields /\ q.pc = "filter" /\ q.listed = nodes /\ q.base = Ids
      /\ q.ids = p.ids /\ q.cmd = p.cmd /\ q.tried = p.tried /\ q.res = p.res
  BY <1>2, <1>5 DEF RunFields
<1>7. /\ p.cmd \in CommandLines /\ p.tried = 0 /\ p.ids = {}
      /\ p.res \in {"", "ok", "err", "panic"}
  BY <1>3, <1>5 DEF Doing
<1>8. made[c] = {} BY <1>1, <1>3, Known
<1>9. Doing(q) BY <1>3, <1>5, <1>6, <1>7 DEF Doing
<1>10. Proposing(c, q)
  <2>1. \A n \in Nat : n > 0 => MadeBy(c, n) = {} BY <1>1, <1>7, Known
  <2> QED BY <1>6, <1>7, <2>1 DEF Proposing
<1>11. Registering(c, q)
  <2>1. IsSeq(nodes) /\ DOMAIN nodes = Ids BY DEF JDInv, ServerInv, Ids
  <2>2. IsSeq(q.listed) BY <1>6, <2>1
  <2> QED BY <1>6, <1>7, <1>8, <2>1, <2>2 DEF Registering
<1>12. CommandInv(c, q) BY <1>9, <1>10, <1>11 DEF CommandInv
<1> QED BY <1>3, <1>4, <1>8, <1>12, QuietStep

LEMMA FilterStep ==
  ASSUME JDInv, NEW c \in Cmds, Filter(c)
  PROVE  JDInv'
<1>1. PICK p : p = run[c] OBVIOUS
<1>2. PICK id \in p.base :
        run' = [run EXCEPT ![c].base = @ \ {id},
                           ![c].ids = IF nodeMatchesFilter(id, nodes[id], FilterOf(run[c].cmd))
                                      THEN @ \union {id} ELSE @]
  BY <1>1 DEF Filter
<1>3. PICK fits \in BOOLEAN : fits = nodeMatchesFilter(id, nodes[id], FilterOf(p.cmd))
  BY DEF nodeMatchesFilter
<1>4. PICK q : q = [p EXCEPT !.base = @ \ {id}, !.ids = IF fits THEN @ \union {id} ELSE @] OBVIOUS
<1>5. run' = [run EXCEPT ![c] = q] /\ p.pc = "filter"
  <2>1. c \in DOMAIN run BY DEF JDInv, ServerInv
  <2>2. run' = [run EXCEPT ![c].base = @ \ {id}, ![c].ids = IF fits THEN @ \union {id} ELSE @]
    BY <1>1, <1>2, <1>3
  <2>3. p.pc = "filter" BY <1>1 DEF Filter
  <2> QED BY <1>1, <1>4, <2>1, <2>2, <2>3
<1>6. UNCHANGED <<server, file, made, author, left, raced>> BY DEF Filter
<1>7. Doing(p) /\ Registering(c, p) /\ DOMAIN p = RunFields BY <1>1, Known
<1>8. /\ DOMAIN q = RunFields /\ q.pc = "filter" /\ q.listed = p.listed /\ q.base = p.base \ {id}
      /\ q.ids = (IF fits THEN p.ids \union {id} ELSE p.ids)
      /\ q.cmd = p.cmd /\ q.tried = p.tried /\ q.res = p.res
  BY <1>4, <1>5, <1>7 DEF RunFields
<1>9. /\ p.cmd \in CommandLines /\ p.tried = 0 /\ p.cmd.kind \in {"patch", "propose", "saveall"}
      /\ p.res \in {"", "ok", "err", "panic"}
  BY <1>5, <1>7 DEF Doing
<1>10. made[c] = {} BY <1>1, <1>9, Known
<1>11. /\ IsSeq(p.listed) /\ DOMAIN p.listed \subseteq Ids /\ p.ids \cup p.base \subseteq DOMAIN p.listed
       /\ p.cmd.kind = "saveall" => DOMAIN p.listed \subseteq p.ids \cup p.base \cup left
  BY <1>5, <1>7 DEF Registering
<1>12. Doing(q) BY <1>5, <1>7, <1>8, <1>9 DEF Doing
<1>13. Proposing(c, q)
  <2>1. \A n \in Nat : n > 0 => MadeBy(c, n) = {} BY <1>1, <1>9, Known
  <2> QED BY <1>8, <1>9, <2>1 DEF Proposing
<1>14. p.cmd.kind = "saveall" /\ ~fits => id \in left
  <2>1. SUFFICES ASSUME p.cmd.kind = "saveall", ~fits PROVE id \in left OBVIOUS
  <2>2. id \in Ids BY <1>2, <1>11
  <2>3. ~nodeMatchesFilter(id, nodes[id], FilterOf(p.cmd)) BY <1>3, <2>1
  <2>4. id \in OutOfScope(nodes) BY <1>9, <2>1, <2>2, <2>3, NotListed
  <2> QED BY <2>4 DEF JDInv, ServerInv
<1>15. Registering(c, q)
  <2>1. q.ids \cup q.base \subseteq DOMAIN q.listed BY <1>2, <1>8, <1>11
  <2>2. q.cmd.kind = "saveall" => DOMAIN q.listed \subseteq q.ids \cup q.base \cup left
    BY <1>8, <1>11, <1>14
  <2>3. IsSeq(q.listed) /\ DOMAIN q.listed \subseteq Ids BY <1>8, <1>11
  <2> QED BY <1>8, <1>10, <2>1, <2>2, <2>3 DEF Registering
<1>16. CommandInv(c, q) BY <1>12, <1>13, <1>15 DEF CommandInv
<1> QED BY <1>5, <1>6, <1>10, <1>16, QuietStep

LEMMA FilteredStep ==
  ASSUME JDInv, NEW c \in Cmds, Filtered(c)
  PROVE  JDInv'
<1>1. PICK p : p = run[c] OBVIOUS
<1>2. PICK n, seen : n = Len(p.listed) /\ seen = [i \in 1..n |-> nodes[i]] OBVIOUS
<1>3. p.pc = "filter" /\ p.base = {} /\ Registering(c, p) BY <1>1, Known DEF Filtered
<1>4. /\ IsSeq(p.listed) /\ DOMAIN p.listed \subseteq Ids /\ p.ids \subseteq DOMAIN p.listed
      /\ p.cmd.kind = "saveall" => DOMAIN p.listed \subseteq p.ids \cup left
  BY <1>3 DEF Registering
<1>5. n \in Nat /\ DOMAIN p.listed = 1..n BY <1>2, <1>4 DEF IsSeq
<1>6. Len(seen) = n BY <1>2, <1>5, SeenLength
<1>7. Answer(c, p.ids, seen) BY <1>1, <1>2, <1>5 DEF Filtered
<1>8. p.ids \subseteq Ids BY <1>4
<1>9. p.cmd.kind = "saveall" => 1..Len(seen) \subseteq p.ids \cup left BY <1>4, <1>5, <1>6
<1> QED BY <1>1, <1>3, <1>7, <1>8, <1>9, AnswerStep

\* The nodes, when one of them is updated.
LEMMA UpdatedNodes ==
  ASSUME ServerInv, NEW id, NEW req, UpdateNode(id, req)
  PROVE  IsSeq(nodes)' /\ Ids' = Ids /\ \A i \in Ids' : DOMAIN nodes'[i] = NodeFields
<1>1. PICK labels :
        nodes' = [nodes EXCEPT ![id].name = IF req.name = "" THEN @ ELSE req.name,
                               ![id].key = IF req.key = "" THEN @ ELSE req.key,
                               ![id].labels = labels]
  BY DEF UpdateNode
<1>2. IsSeq(nodes) /\ \A i \in Ids : DOMAIN nodes[i] = NodeFields BY DEF ServerInv
<1>3. DOMAIN nodes = 1..Len(nodes) /\ Len(nodes) \in Nat BY <1>2 DEF IsSeq
<1>4. DOMAIN nodes' = DOMAIN nodes BY <1>1
<1>5. \A i \in DOMAIN nodes : DOMAIN nodes'[i] = DOMAIN nodes[i] BY <1>1
<1>6. nodes' \in Seq(SeqRange(nodes'))
  <2>1. nodes' = [i \in DOMAIN nodes |-> nodes'[i]] BY <1>1
  <2>2. \A i \in DOMAIN nodes : nodes'[i] \in SeqRange(nodes') BY <1>4, Zenon DEF SeqRange
  <2>3. nodes' \in [1..Len(nodes) -> SeqRange(nodes')] BY <1>3, <2>1, <2>2
  <2>4. \A T : \A n \in Nat : \A f \in [1..n -> T] : f \in Seq(T) OBVIOUS
  <2> QED BY <1>3, <2>3, <2>4, Zenon
<1> QED BY <1>2, <1>4, <1>5, <1>6 DEF IsSeq, SeqRange, Ids

\* The commands that change nodes.
Updating(p) == p.pc \in {"patch", "update", "batchupdate"}

\* Where an update leads the command p.
AfterUpdate(p, q) ==
  \/ \E result \in {"ok", "err", "panic"} : q = Finish(p, result)
  \/ q = [p EXCEPT !.todo = Tail(@)]

LEMMA AfterUpdateFacts ==
  ASSUME JDInv, NEW c \in Cmds, NEW p, p = run[c], Updating(p), NEW q, AfterUpdate(p, q)
  PROVE  /\ DOMAIN q = RunFields /\ q.res \in {"", "ok", "err", "panic"} /\ q.tried \in Nat
         /\ q.cmd \in CommandLines /\ q.cmd.kind \in {"patch", "update", "batchupdate"}
         /\ q.pc \in {q.cmd.kind, "done"}
         /\ made[c] = {} /\ \A n \in Nat : n > q.tried => MadeBy(c, n) = {}
<1>1. Doing(p) /\ DOMAIN p = RunFields /\ p.tried \in Nat BY Known
<1>2. /\ p.cmd \in CommandLines /\ p.res \in {"", "ok", "err", "panic"}
      /\ p.cmd.kind = p.pc /\ p.pc \in {"patch", "update", "batchupdate"}
  BY <1>1 DEF Doing, Updating
<1>3. made[c] = {} BY <1>2, Known
<1>4. \A n \in Nat : n > p.tried => MadeBy(c, n) = {} BY Known
<1>5. CASE \E result \in {"ok", "err", "panic"} : q = Finish(p, result)
  <2>1. PICK result \in {"ok", "err", "panic"} : q = Finish(p, result) BY <1>5
  <2>2. /\ DOMAIN q = RunFields /\ q.pc = "done" /\ q.res = result
        /\ q.cmd = p.cmd /\ q.tried = p.tried
    BY <1>1, <2>1, Finished
  <2> QED BY <1>1, <1>2, <1>3, <1>4, <2>2
<1>6. CASE q = [p EXCEPT !.todo = Tail(@)]
  <2>1. DOMAIN q = RunFields /\ q.pc = p.pc /\ q.res = p.res /\ q.cmd = p.cmd /\ q.tried = p.tried
    BY <1>1, <1>6 DEF RunFields
  <2> QED BY <1>1, <1>2, <1>3, <1>4, <2>1
<1> QED BY <1>5, <1>6 DEF AfterUpdate

\* A step of such a command that changes nothing else.
LEMMA UpdateQuiet ==
  ASSUME JDInv, NEW c \in Cmds, NEW p, p = run[c], Updating(p), NEW q, AfterUpdate(p, q),
         run' = [run EXCEPT ![c] = q], UNCHANGED <<server, file, made, author, left, raced>>
  PROVE  JDInv'
<1>1. /\ DOMAIN q = RunFields /\ q.res \in {"", "ok", "err", "panic"} /\ q.tried \in Nat
      /\ q.cmd \in CommandLines /\ q.cmd.kind \in {"patch", "update", "batchupdate"}
      /\ q.pc \in {q.cmd.kind, "done"}
      /\ made[c] = {} /\ \A n \in Nat : n > q.tried => MadeBy(c, n) = {}
  BY AfterUpdateFacts
<1>2. Doing(q) BY <1>1 DEF Doing
<1>3. Proposing(c, q) BY <1>1 DEF Proposing
<1>4. Registering(c, q) BY <1>1 DEF Registering
<1> QED BY <1>1, <1>2, <1>3, <1>4, QuietStep DEF CommandInv

LEMMA SendStep ==
  ASSUME JDInv, NEW c \in Cmds, Updating(run[c]), NEW id, NEW req, NEW out \in Outcomes,
         SendUpdate(c, id, req, out)
  PROVE  JDInv'
<1>1. PICK p : p = run[c] OBVIOUS
<1>2. PICK q : AfterUpdate(p, q) /\ run' = [run EXCEPT ![c] = q]
  <2>1. run' = [run EXCEPT ![c] = IF out # "answered" THEN Finish(p, "err")
                                  ELSE IF Len(p.todo) = 1 THEN Finish(p, "ok")
                                  ELSE [p EXCEPT !.todo = Tail(@)]]
    BY <1>1 DEF SendUpdate
  <2>2. PICK q : q = IF out # "answered" THEN Finish(p, "err")
                     ELSE IF Len(p.todo) = 1 THEN Finish(p, "ok")
                     ELSE [p EXCEPT !.todo = Tail(@)]
    OBVIOUS
  <2>3. AfterUpdate(p, q) BY <2>2 DEF AfterUpdate
  <2> QED BY <2>1, <2>2, <2>3
<1>3. UNCHANGED <<jobs, props, file, made, author, raced>> BY DEF SendUpdate
<1>4. CASE ~Applied(c, out)
  <2>1. UNCHANGED <<server, file, made, author, left, raced>> BY <1>3, <1>4 DEF SendUpdate, server
  <2> QED BY <1>1, <1>2, <2>1, UpdateQuiet
<1>5. CASE Applied(c, out)
  <2>1. UpdateNode(id, req) /\ left' = left \union OutOfScope(nodes') BY <1>5 DEF SendUpdate, NodesChanged
  <2>2. run = [d \in Cmds |-> run[d]] /\ made = [d \in Cmds |-> made[d]] /\ ServerInv
    BY DEF JDInv, ServerInv
  <2>3. IsSeq(nodes)' /\ Ids' = Ids /\ \A i \in Ids' : DOMAIN nodes'[i] = NodeFields
    BY <2>1, <2>2, UpdatedNodes
  <2>4. ServerInv'
    <3>1. run' = [d \in Cmds |-> run'[d]] /\ made' = [d \in Cmds |-> made'[d]] BY <1>2, <1>3, <2>2
    <3>2. OutOfScope(nodes)' \subseteq left' BY <2>1 DEF OutOfScope
    <3>3. (Exact(jobs, props))' /\ (author \in Seq(Makers) /\ Len(author) = Len(props))'
      BY <1>3, <2>2 DEF ServerInv
    <3>4. file' \subseteq Ids' BY <1>3, <2>2, <2>3 DEF ServerInv
    <3> QED BY <2>3, <3>1, <3>2, <3>3, <3>4 DEF ServerInv
  <2>5. \A d \in Cmds, m \in Nat : MadeBy(d, m)' = MadeBy(d, m) BY <1>3 DEF MadeBy
  <2>6. OthersAlone(c) BY <1>3, <2>1, <2>2, <2>3, <2>5 DEF OthersAlone
  <2>7. /\ DOMAIN q = RunFields /\ q.res \in {"", "ok", "err", "panic"} /\ q.tried \in Nat
        /\ q.cmd \in CommandLines /\ q.cmd.kind \in {"patch", "update", "batchupdate"}
        /\ q.pc \in {q.cmd.kind, "done"}
        /\ made[c] = {} /\ \A n \in Nat : n > q.tried => MadeBy(c, n) = {}
    BY <1>1, <1>2, AfterUpdateFacts
  <2>8. Registering(c, q)' BY <1>3, <2>7 DEF Registering
  <2>9. CommandInv(c, q)' BY <1>3, <2>7, <2>8, OnwardNext
  <2>10. Accounted'
    <3>1. Ids' = Ids /\ file' = file /\ raced' = raced /\ made' = made /\ left \subseteq left'
      BY <1>3, <2>1, <2>3
    <3>2. SUFFICES ASSUME ~raced, NEW i \in Ids, i \notin file \cup left
                   PROVE  \E d \in Cmds : i \in made[d] /\ (run'[d].pc # "done" \/ run'[d].res # "ok")
      BY <3>1 DEF Accounted
    <3>3. PICK d \in Cmds : i \in made[d] /\ (run[d].pc # "done" \/ run[d].res # "ok")
      BY <3>2 DEF JDInv, Accounted
    <3>4. d # c BY <2>7, <3>3
    <3>5. run'[d] = run[d] BY <1>2, <2>2, <3>4
    <3> QED BY <3>3, <3>5
  <2> QED BY <1>2, <2>4, <2>6, <2>9, <2>10, CommandMoves
<1> QED BY <1>4, <1>5

\* labels-patch, update and batch-update.
LEMMA UpdateSteps ==
  ASSUME JDInv, NEW c \in Cmds, Patch(c) \/ Update(c) \/ BatchUpdate(c)
  PROVE  JDInv'
<1>1. CASE Patch(c)
  <2>1. Updating(run[c]) BY <1>1 DEF Patch, Updating
  <2>2. PICK p, id, order : p = run[c] /\ id = Head(p.todo)
          /\ LET st == PatchLabels(p.listed[id].labels, p.cmd.patch, order)
             IN  CASE st.panic ->
                      /\ run' = [run EXCEPT ![c] = Finish(p, "panic")]
                      /\ UNCHANGED <<server, file, made, author, touched, left, raced>>
                 [] ~st.panic /\ p.cmd.dry ->
                      /\ run' = [run EXCEPT ![c] =
                           IF Len(p.todo) = 1 THEN Finish(p, "ok") ELSE [p EXCEPT !.todo = Tail(@)]]
                      /\ UNCHANGED <<server, file, made, author, touched, left, raced>>
                 [] ~st.panic /\ ~p.cmd.dry ->
                      \E out \in Outcomes :
                        SendUpdate(c, id, [name |-> p.listed[id].name, key |-> p.listed[id].key,
                                           labels |-> st.labels], out)
    BY <1>1, Zenon DEF Patch
  <2>3. PICK st : st = PatchLabels(p.listed[id].labels, p.cmd.patch, order) OBVIOUS
  <2>4. CASE st.panic
    <3>1. run' = [run EXCEPT ![c] = Finish(p, "panic")]
          /\ UNCHANGED <<server, file, made, author, left, raced>>
      BY <2>2, <2>3, <2>4
    <3>2. PICK q : q = Finish(p, "panic") OBVIOUS
    <3>3. AfterUpdate(p, q) BY <3>2 DEF AfterUpdate
    <3> QED BY <2>1, <2>2, <3>1, <3>2, <3>3, UpdateQuiet
  <2>5. CASE ~st.panic /\ p.cmd.dry
    <3>1. /\ run' = [run EXCEPT ![c] =
                       IF Len(p.todo) = 1 THEN Finish(p, "ok") ELSE [p EXCEPT !.todo = Tail(@)]]
          /\ UNCHANGED <<server, file, made, author, left, raced>>
      BY <2>2, <2>3, <2>5
    <3>2. PICK q : q = IF Len(p.todo) = 1 THEN Finish(p, "ok") ELSE [p EXCEPT !.todo = Tail(@)] OBVIOUS
    <3>3. AfterUpdate(p, q) BY <3>2 DEF AfterUpdate
    <3> QED BY <2>1, <2>2, <3>1, <3>2, <3>3, UpdateQuiet
  <2>6. CASE ~st.panic /\ ~p.cmd.dry
    <3>1. PICK req : req = [name |-> p.listed[id].name, key |-> p.listed[id].key, labels |-> st.labels]
      OBVIOUS
    <3>2. PICK out \in Outcomes : SendUpdate(c, id, req, out) BY <2>2, <2>3, <2>6, <3>1
    <3> QED BY <2>1, <3>2, SendStep
  <2> QED BY <2>4, <2>5, <2>6
<1>2. CASE Update(c)
  <2>1. Updating(run[c]) BY <1>2 DEF Update, Updating
  <2>2. PICK p, id, req : p = run[c] /\ id = p.cmd.id /\ req = UpdateRequest(p.cmd, p.listed[p.cmd.id])
    OBVIOUS
  <2>3. CASE p.cmd.args # "ok"
    <3>1. p.cmd.args \in {"err", "panic"}
      <4>1. Doing(p) /\ p.pc = "update" BY <1>2, <2>2, Known DEF Update
      <4>2. p.cmd \in CommandLines /\ p.cmd.kind = "update" BY <4>1 DEF Doing
      <4>3. p.cmd.args \in {"ok", "err", "panic"} BY <4>2, JDAssumption
      <4> QED BY <2>3, <4>3
    <3>2. run' = [run EXCEPT ![c] = Finish(p, p.cmd.args)]
          /\ UNCHANGED <<server, file, made, author, touched, left, raced>>
      BY <1>2, <2>2, <2>3, Zenon DEF Update
    <3>3. PICK q : q = Finish(p, p.cmd.args) OBVIOUS
    <3>4. AfterUpdate(p, q) BY <3>1, <3>3 DEF AfterUpdate
    <3> QED BY <2>1, <2>2, <3>2, <3>3, <3>4, UpdateQuiet
  <2>4. CASE p.cmd.args = "ok"
    <3>1. PICK out \in Outcomes : SendUpdate(c, id, req, out) BY <1>2, <2>2, <2>4 DEF Update
    <3> QED BY <2>1, <3>1, SendStep
  <2> QED BY <2>3, <2>4
<1>3. CASE BatchUpdate(c)
  <2>1. Updating(run[c]) BY <1>3 DEF BatchUpdate, Updating
  <2>2. PICK p, r : p = run[c] /\ r = Head(p.todo) OBVIOUS
  <2>3. CASE run' = [run EXCEPT ![c] = Finish(p, "err")]
             /\ UNCHANGED <<server, file, made, author, touched, left, raced>>
    <3>1. PICK q : q = Finish(p, "err") OBVIOUS
    <3>2. AfterUpdate(p, q) BY <3>1 DEF AfterUpdate
    <3> QED BY <2>1, <2>2, <2>3, <3>1, <3>2, UpdateQuiet
  <2>4. CASE \E id : \E out \in Outcomes : SendUpdate(c, id, ConfigRequest(r), out)
    <3>1. PICK id : \E out \in Outcomes : SendUpdate(c, id, ConfigRequest(r), out) BY <2>4
    <3>2. PICK req : req = ConfigRequest(r) OBVIOUS
    <3>3. PICK out \in Outcomes : SendUpdate(c, id, req, out) BY <3>1, <3>2
    <3> QED BY <2>1, <3>3, SendStep
  <2> QED BY <1>3, <2>2, <2>3, <2>4 DEF BatchUpdate
<1> QED BY <1>1, <1>2, <1>3

\* The proposal that an entry of a command makes.
LEMMA Authored ==
  ASSUME author \in Seq(Makers), NEW c \in Cmds, NEW n \in Nat, MadeBy(c, n) = {},
         author' = Append(author, <<c, n>>)
  PROVE  /\ author' \in Seq(Makers) /\ Len(author') = Len(author) + 1
         /\ Cardinality(MadeBy(c, n)') = 1
         /\ \A d \in Cmds, m \in Nat : d # c \/ m # n => MadeBy(d, m)' = MadeBy(d, m)
<1>1. PICK k \in Nat : k = Len(author) OBVIOUS
<1>2. <<c, n>> \in Makers BY DEF Makers
<1>3. /\ author' \in Seq(Makers) /\ Len(author') = k + 1 /\ DOMAIN author = 1..k
      /\ DOMAIN author' = 1..(k + 1) /\ \A i \in 1..k : author'[i] = author[i]
      /\ author'[k + 1] = <<c, n>>
  BY <1>1, <1>2
<1>4. \A i : i \in 1..(k + 1) <=> i \in 1..k \/ i = k + 1 OBVIOUS
<1>5. MadeBy(c, n)' = {k + 1}
  <2>1. \A i \in 1..k : author[i] # <<c, n>> BY <1>3 DEF MadeBy
  <2>2. \A i : i \in MadeBy(c, n)' <=> i \in 1..(k + 1) /\ author'[i] = <<c, n>> BY <1>3 DEF MadeBy
  <2>3. \A i : i \in MadeBy(c, n)' <=> i = k + 1 BY <1>3, <1>4, <2>1, <2>2
  <2> QED BY <2>3
<1>6. Cardinality({k + 1}) = 1 BY FS_Singleton
<1>7. ASSUME NEW d \in Cmds, NEW m \in Nat, d # c \/ m # n PROVE MadeBy(d, m)' = MadeBy(d, m)
  <2>1. <<c, n>> # <<d, m>> BY <1>7
  <2>2. \A i : i \in MadeBy(d, m)' <=> i \in 1..(k + 1) /\ author'[i] = <<d, m>> BY <1>3 DEF MadeBy
  <2>3. \A i : i \in MadeBy(d, m) <=> i \in 1..k /\ author[i] = <<d, m>> BY <1>3 DEF MadeBy
  <2>4. \A i : i \in MadeBy(d, m)' <=> i \in MadeBy(d, m) BY <1>3, <1>4, <2>1, <2>2, <2>3
  <2> QED BY <2>4
<1> QED BY <1>1, <1>3, <1>5, <1>6, <1>7

\* The state of the command p after its next entry, which is tried.
TriedNext(p, bad, q) ==
  /\ DOMAIN q = RunFields /\ q.cmd = p.cmd /\ q.ids = p.ids /\ q.failed = bad
  /\ q.tried = p.tried + 1
  /\ \/ /\ Tail(p.todo) # <<>> /\ q.pc = p.pc /\ q.res = p.res /\ q.todo = Tail(p.todo)
     \/ /\ Tail(p.todo) = <<>> /\ q.pc = "done" /\ q.res = (IF bad = {} THEN "ok" ELSE "err")

\* A propose command goes on, or ends with what failed.
GoesOn(p, q) ==
  /\ DOMAIN q = RunFields /\ q.cmd = p.cmd /\ q.ids = p.ids /\ q.failed = p.failed
  /\ q.tried = p.tried
  /\ \/ /\ p.todo # <<>> /\ q.pc = p.pc /\ q.res = p.res /\ q.todo = p.todo
     \/ /\ p.todo = <<>> /\ q.pc = "done" /\ q.res = (IF p.failed = {} THEN "ok" ELSE "err")

LEMMA AfterProposeEnds ==
  ASSUME NEW p, DOMAIN p = RunFields, NEW q, q = AfterPropose(p)
  PROVE  GoesOn(p, q)
<1>1. CASE p.todo # <<>>
  <2>1. q = p BY <1>1 DEF AfterPropose
  <2> QED BY <1>1, <2>1 DEF GoesOn
<1>2. CASE p.todo = <<>>
  <2>1. PICK result : result = IF p.failed = {} THEN "ok" ELSE "err" OBVIOUS
  <2>2. q = Finish(p, result) BY <1>2, <2>1 DEF AfterPropose
  <2>3. /\ DOMAIN q = RunFields /\ q.pc = "done" /\ q.res = result
        /\ q.cmd = p.cmd /\ q.ids = p.ids /\ q.failed = p.failed /\ q.tried = p.tried
    BY <2>2, Finished
  <2> QED BY <1>2, <2>1, <2>3 DEF GoesOn
<1> QED BY <1>1, <1>2

LEMMA AfterProposeFacts ==
  ASSUME NEW p, DOMAIN p = RunFields, NEW bad, NEW n, n = p.tried + 1,
         NEW q0, q0 = [p EXCEPT !.failed = bad, !.tried = n, !.todo = Tail(@)],
         NEW q, q = AfterPropose(q0)
  PROVE  TriedNext(p, bad, q)
<1>1. /\ DOMAIN q0 = RunFields /\ q0.cmd = p.cmd /\ q0.ids = p.ids /\ q0.failed = bad
      /\ q0.tried = n /\ q0.todo = Tail(p.todo) /\ q0.pc = p.pc /\ q0.res = p.res
  BY DEF RunFields
<1>2. GoesOn(q0, q) BY <1>1, AfterProposeEnds, Zenon
<1> QED BY <1>1, <1>2, Zenon DEF TriedNext, GoesOn

\* There is one entry less to propose, and one more tried.
LEMMA OneLess ==
  ASSUME NEW t \in Nat, NEW s \in Seq(JobEntries), s # <<>>, NEW w, t + Len(s) = w
  PROVE  /\ Tail(s) \in Seq(JobEntries) /\ (t + 1) + Len(Tail(s)) = w
         /\ Tail(s) = <<>> => t + 1 = w
<1>1. Len(s) \in Nat \ {0} /\ Tail(s) \in Seq(JobEntries) /\ Len(Tail(s)) = Len(s) - 1 OBVIOUS
<1>2. (t + 1) + Len(Tail(s)) = w BY <1>1
<1>3. ASSUME Tail(s) = <<>> PROVE t + 1 = w
  <2>1. Len(<<>>) = 0 OBVIOUS
  <2>2. Len(Tail(s)) = 0 BY <1>3, <2>1
  <2>3. (t + 1) + 0 = w BY <1>2, <2>2, Zenon
  <2>4. (t + 1) + 0 = t + 1 OBVIOUS
  <2> QED BY <2>3, <2>4, Zenon
<1> QED BY <1>1, <1>2, <1>3

\* Command c, in the state p, tries its entry n, and the entries before are as they were.
Tries(c, p, n, bad) ==
  /\ p.tried \in Nat /\ n = p.tried + 1
  /\ p.todo \in Seq(JobEntries) /\ p.todo # <<>> /\ p.pc = "propose"
  /\ p.tried + Len(p.todo) = Wanted(p)
  /\ p.cmd.kind \in {"propose", "batchpropose"} /\ p.cmd \in CommandLines
  /\ p.res \in {"", "ok", "err", "panic"}
  /\ ~p.cmd.dryClient => Tried(c, p)
  /\ bad \in {p.failed, p.failed \cup {n}}
  /\ \A m \in Nat : m > p.tried => MadeBy(c, m) = {}
  /\ \A m \in Nat : m # n => MadeBy(c, m)' = MadeBy(c, m)
  /\ ~p.cmd.dryClient => Cardinality(MadeBy(c, n)') \in (IF n \in bad THEN {0, 1} ELSE {1})

\* What was true of the entries before is true of them with the next one.
LEMMA TriedOn ==
  ASSUME NEW c \in Cmds, NEW p, NEW q, NEW bad, NEW n, TriedNext(p, bad, q), Tries(c, p, n, bad)
  PROVE  Doing(q)' /\ Proposing(c, q)'
<1>1. PICK t \in Nat : t = p.tried /\ n = t + 1 BY Zenon DEF Tries
<1>2. /\ q.cmd = p.cmd /\ q.ids = p.ids /\ q.failed = bad /\ q.tried = n /\ DOMAIN q = RunFields
  BY <1>1, Zenon DEF TriedNext
<1>3. \/ q.pc = "propose" /\ q.res = p.res /\ q.todo = Tail(p.todo) /\ Tail(p.todo) # <<>>
      \/ q.pc = "done" /\ Tail(p.todo) = <<>> /\ q.res = (IF bad = {} THEN "ok" ELSE "err")
  BY Zenon DEF TriedNext, Tries
<1>4. p.cmd.kind \in {"propose", "batchpropose"} /\ p.cmd \in CommandLines
      /\ p.res \in {"", "ok", "err", "panic"}
  BY Zenon DEF Tries
<1>5. n \in Nat BY <1>1
<1>6. Doing(q)'
  <2>1. q.pc \in {"propose", "done"} /\ q.res \in {"", "ok", "err", "panic"} BY <1>3, <1>4
  <2>2. q.tried \in Nat /\ q.cmd \in CommandLines BY <1>2, <1>4, <1>5
  <2> QED BY <1>2, <1>4, <2>1, <2>2 DEF Doing
<1>7. PICK w : w = Wanted(p) OBVIOUS
<1>8. Wanted(q) = w BY <1>2, <1>7, Zenon DEF Wanted
<1>9. /\ Tail(p.todo) \in Seq(JobEntries) /\ n + Len(Tail(p.todo)) = w
      /\ Tail(p.todo) = <<>> => n = w
  <2>1. PICK s \in Seq(JobEntries) : s = p.todo /\ s # <<>> /\ t + Len(s) = w
    BY <1>1, <1>7, Zenon DEF Tries
  <2> QED BY <1>1, <2>1, OneLess
<1>10. ~q.cmd.dryClient => Tried(c, q)'
  <2>1. SUFFICES ASSUME ~p.cmd.dryClient, NEW m \in 1..n
                 PROVE  Cardinality(MadeBy(c, m)') \in (IF m \in bad THEN {0, 1} ELSE {1})
    BY <1>2, Zenon DEF Tried
  <2>2. CASE m = n BY <2>1, <2>2, Zenon DEF Tries
  <2>3. CASE m # n
    <3>1. m \in 1..t /\ m \in Nat BY <1>1, <2>3
    <3>2. Tried(c, p) BY <2>1, Zenon DEF Tries
    <3>3. Cardinality(MadeBy(c, m)) \in (IF m \in p.failed THEN {0, 1} ELSE {1})
      BY <1>1, <3>1, <3>2, Zenon DEF Tried
    <3>4. MadeBy(c, m)' = MadeBy(c, m) BY <2>3, <3>1, Zenon DEF Tries
    <3>5. bad \in {p.failed, p.failed \cup {n}} BY Zenon DEF Tries
    <3>6. m \in bad <=> m \in p.failed BY <2>3, <3>5
    <3> QED BY <3>3, <3>4, <3>6
  <2> QED BY <2>2, <2>3
<1>11. \A m \in Nat : m > n => MadeBy(c, m)' = {}
  <2>1. SUFFICES ASSUME NEW m \in Nat, m > n PROVE MadeBy(c, m)' = {} OBVIOUS
  <2>2. m > t /\ m # n BY <1>1, <2>1
  <2>3. MadeBy(c, m) = {} BY <1>1, <2>2, Zenon DEF Tries
  <2>4. MadeBy(c, m)' = MadeBy(c, m) BY <2>2, Zenon DEF Tries
  <2> QED BY <2>3, <2>4
<1>12. Proposing(c, q)'
  <2>1. q.pc = "propose" => /\ q.todo \in Seq(JobEntries) /\ q.todo # <<>>
                            /\ n + Len(q.todo) = w
    BY <1>3, <1>9
  <2>2. q.pc = "done" => n = w /\ (q.res = "ok" <=> bad = {})
    BY <1>3, <1>9
  <2>3. Wanted(q)' = w BY <1>8, Zenon DEF Wanted
  <2> QED BY <1>2, <1>10, <1>11, <2>1, <2>2, <2>3, Zenon DEF Proposing
<1> QED BY <1>6, <1>12

LEMMA ProposeStep ==
  ASSUME JDInv, NEW c \in Cmds, Propose(c)
  PROVE  JDInv'
<1>1. PICK p, entry, n : p = run[c] /\ entry = Head(p.todo) /\ n = p.tried + 1 OBVIOUS
<1>a. PICK out \in Outcomes : \E applied, bad :
        /\ p.pc = "propose"
        /\ applied = (Applied(c, out) /\ Uuid[entry.spec] # NoUuid)
        /\ bad = IF out = "answered" /\ (applied \/ p.cmd.dryClient) THEN p.failed
                    ELSE p.failed \union {n}
        /\ IF applied
           THEN /\ Stored(upsertProposal(Store, entry.node, entry.spec))
                /\ author' = Append(author, <<c, n>>)
           ELSE UNCHANGED <<jobs, props, author>>
        /\ run' = [run EXCEPT ![c] =
                     AfterPropose([p EXCEPT !.failed = bad, !.tried = n, !.todo = Tail(@)])]
        /\ UNCHANGED <<nodes, file, made, touched, left, raced>>
  BY <1>1, Zenon DEF Propose
<1>2. PICK applied, bad :
        /\ p.pc = "propose"
        /\ applied = (Applied(c, out) /\ Uuid[entry.spec] # NoUuid)
        /\ bad = IF out = "answered" /\ (applied \/ p.cmd.dryClient) THEN p.failed
                    ELSE p.failed \union {n}
        /\ IF applied
           THEN /\ Stored(upsertProposal(Store, entry.node, entry.spec))
                /\ author' = Append(author, <<c, n>>)
           ELSE UNCHANGED <<jobs, props, author>>
        /\ run' = [run EXCEPT ![c] =
                     AfterPropose([p EXCEPT !.failed = bad, !.tried = n, !.todo = Tail(@)])]
        /\ UNCHANGED <<nodes, file, made, touched, left, raced>>
  BY <1>a, Zenon
<1>3. PICK q : q = AfterPropose([p EXCEPT !.failed = bad, !.tried = n, !.todo = Tail(@)]) OBVIOUS
<1>4. run' = [run EXCEPT ![c] = q] BY <1>2, <1>3
<1>5. Doing(p) /\ Proposing(c, p) /\ DOMAIN p = RunFields /\ p.tried \in Nat /\ made[c] \subseteq Ids
  BY <1>1, Known
<1>6. /\ p.cmd \in CommandLines /\ p.cmd.kind \in {"propose", "batchpropose"}
      /\ p.res \in {"", "ok", "err", "panic"}
  BY <1>2, <1>5 DEF Doing
<1>7. /\ p.todo \in Seq(JobEntries) /\ p.todo # <<>> /\ p.tried + Len(p.todo) = Wanted(p)
      /\ ~p.cmd.dryClient => Tried(c, p)
  BY <1>2, <1>5 DEF Proposing
<1>8. \A m \in Nat : m > p.tried => MadeBy(c, m) = {} BY <1>1, Known
<1>9. made[c] = {} BY <1>1, <1>6, Known
<1>10. n \in Nat /\ n > p.tried /\ MadeBy(c, n) = {} BY <1>1, <1>5, <1>8
<1>11. entry.node \in Nat /\ entry.spec \in DOMAIN Uuid
  <2>1. entry \in JobEntries BY <1>1, <1>7
  <2> QED BY <2>1 DEF JobEntries
<1>12. run = [d \in Cmds |-> run[d]] /\ made = [d \in Cmds |-> made[d]] /\ ServerInv
  BY DEF JDInv, ServerInv
<1>13. /\ (Exact(jobs, props))' /\ (author \in Seq(Makers) /\ Len(author) = Len(props))'
       /\ \A d \in Cmds, m \in Nat : d # c \/ m # n => MadeBy(d, m)' = MadeBy(d, m)
       /\ Cardinality(MadeBy(c, n)') = IF applied THEN 1 ELSE 0
  <2>1. CASE applied
    <3>1. Stored(upsertProposal(Store, entry.node, entry.spec)) /\ author' = Append(author, <<c, n>>)
      BY <1>2, <2>1
    <3>2. PICK st, id, spec : st = Store /\ id = entry.node /\ spec = entry.spec OBVIOUS
    <3>3. st.jobs = jobs /\ st.props = props BY <3>2 DEF Store
    <3>4. Exact(st.jobs, st.props) BY <1>12, <3>3 DEF ServerInv
    <3>5. Proposed(st, upsertProposal(st, id, spec)) BY <1>11, <3>2, <3>4, UpsertExact
    <3>6. PICK r : r = upsertProposal(st, id, spec) OBVIOUS
    <3>7. jobs' = r.jobs /\ props' = r.props BY <3>1, <3>2, <3>6 DEF Stored
    <3>8. Exact(jobs', props') /\ Len(props') = Len(props) + 1 BY <3>3, <3>5, <3>6, <3>7 DEF Proposed
    <3>9. author \in Seq(Makers) /\ Len(author) = Len(props) BY <1>12 DEF ServerInv
    <3>10. /\ author' \in Seq(Makers) /\ Len(author') = Len(author) + 1
           /\ Cardinality(MadeBy(c, n)') = 1
           /\ \A d \in Cmds, m \in Nat : d # c \/ m # n => MadeBy(d, m)' = MadeBy(d, m)
      BY <1>10, <3>1, <3>9, Authored
    <3> QED BY <2>1, <3>8, <3>9, <3>10
  <2>2. CASE ~applied
    <3>1. UNCHANGED <<jobs, props, author>> BY <1>2, <2>2
    <3>2. \A d \in Cmds, m \in Nat : MadeBy(d, m)' = MadeBy(d, m) BY <3>1 DEF MadeBy
    <3>3. Cardinality({}) = 0 BY FS_EmptySet
    <3>4. MadeBy(c, n)' = {} BY <1>10, <3>2
    <3>5. Cardinality(MadeBy(c, n)') = 0 BY <3>3, <3>4
    <3> QED BY <1>12, <2>2, <3>1, <3>2, <3>5 DEF ServerInv
  <2> QED BY <2>1, <2>2
<1>14. Doing(q)' /\ Proposing(c, q)'
  <2>1. TriedNext(p, bad, q)
    <3>1. PICK q0 : q0 = [p EXCEPT !.failed = bad, !.tried = n, !.todo = Tail(@)] OBVIOUS
    <3>2. q = AfterPropose(q0) BY <1>3, <3>1
    <3> QED BY <1>1, <1>5, <3>1, <3>2, AfterProposeFacts
  <2>2. bad \in {p.failed, p.failed \cup {p.tried + 1}} BY <1>1, <1>2
  <2>3. \A m \in Nat : m # p.tried + 1 => MadeBy(c, m)' = MadeBy(c, m) BY <1>1, <1>13
  <2>4. ~p.cmd.dryClient => (applied \/ n \in bad) BY <1>2
  <2>5. ~p.cmd.dryClient =>
          Cardinality(MadeBy(c, p.tried + 1)') \in (IF p.tried + 1 \in bad THEN {0, 1} ELSE {1})
    BY <1>1, <1>13, <2>4
  <2>6. Tries(c, p, n, bad)
    BY <1>1, <1>2, <1>5, <1>6, <1>7, <1>8, <2>2, <2>3, <2>5, Zenon DEF Tries
  <2> QED BY <2>1, <2>6, TriedOn
<1>15. CommandInv(c, q)'
  <2>1. q.cmd = p.cmd /\ q.pc \in {"propose", "done"}
    <3>1. PICK q0 : q0 = [p EXCEPT !.failed = bad, !.tried = n, !.todo = Tail(@)] OBVIOUS
    <3>2. q = AfterPropose(q0) BY <1>3, <3>1
    <3>3. TriedNext(p, bad, q) BY <1>1, <1>5, <3>1, <3>2, AfterProposeFacts
    <3> QED BY <1>2, <3>3 DEF TriedNext
  <2>2. made'[c] = {} BY <1>2, <1>9
  <2>3. Registering(c, q)' BY <2>1, <2>2 DEF Registering
  <2> QED BY <1>14, <2>3 DEF CommandInv
<1>16. ServerInv'
  <2>1. run' = [d \in Cmds |-> run'[d]] /\ made' = [d \in Cmds |-> made'[d]] BY <1>2, <1>4, <1>12
  <2>2. nodes' = nodes /\ file' = file /\ left' = left BY <1>2
  <2>3. Ids' = Ids /\ OutOfScope(nodes)' = OutOfScope(nodes) /\ (IsSeq(nodes))' = IsSeq(nodes)
    BY <2>2 DEF Ids, OutOfScope, IsSeq, SeqRange
  <2> QED BY <1>12, <1>13, <2>1, <2>2, <2>3 DEF ServerInv
<1>17. OthersAlone(c) BY <1>2, <1>12, <1>13 DEF OthersAlone, Ids
<1>18. Accounted'
  <2>1. Ids' = Ids /\ file' = file /\ raced' = raced /\ made' = made /\ left' = left BY <1>2 DEF Ids
  <2>2. SUFFICES ASSUME ~raced, NEW i \in Ids, i \notin file \cup left
                 PROVE  \E d \in Cmds : i \in made[d] /\ (run'[d].pc # "done" \/ run'[d].res # "ok")
    BY <2>1 DEF Accounted
  <2>3. PICK d \in Cmds : i \in made[d] /\ (run[d].pc # "done" \/ run[d].res # "ok")
    BY <2>2 DEF JDInv, Accounted
  <2>4. d # c BY <1>9, <2>3
  <2>5. run'[d] = run[d] BY <1>4, <1>12, <2>4
  <2> QED BY <2>3, <2>5
<1> QED BY <1>4, <1>15, <1>16, <1>17, <1>18, CommandMoves

\* Jobs and proposals that differ in what is deleted and in the status.
LEMMA SameLists ==
  ASSUME NEW js, NEW ps, Exact(js, ps), NEW js2 \in Seq(JobRecords), NEW ps2 \in Seq(ProposalRecords),
         Len(js2) = Len(js), Len(ps2) = Len(ps),
         \A j \in 1..Len(js) : /\ js2[j].uuid = js[j].uuid /\ js2[j].node = js[j].node
                               /\ js2[j].proposals = js[j].proposals,
         \A i \in 1..Len(ps) : ps2[i].job = ps[i].job /\ ps2[i].rev = ps[i].rev /\ ps2[i].spec = ps[i].spec
  PROVE  Exact(js2, ps2)
<1>1. /\ \A i \in 1..Len(ps) : ps[i].job \in 1..Len(js)
      /\ \A i, j \in 1..Len(js) : js[i].uuid = js[j].uuid /\ js[i].node = js[j].node => i = j
      /\ \A j \in 1..Len(js) : Lists(js, ps, j)
      /\ DOMAIN ps = 1..Len(ps)
  BY DEF Exact
<1>2. DOMAIN ps2 = 1..Len(ps) OBVIOUS
<1>3. ASSUME NEW j \in 1..Len(js) PROVE Lists(js2, ps2, j)
  <2>1. js2[j].proposals = js[j].proposals /\ js2[j].uuid = js[j].uuid OBVIOUS
  <2>2. proposalsByJob(ps2, j) = proposalsByJob(ps, j)
    <3>1. \A i \in 1..Len(ps) : ps2[i].job = ps[i].job OBVIOUS
    <3> QED BY <1>1, <1>2, <3>1, Zenon DEF proposalsByJob
  <2>3. js[j].proposals # <<>> /\ SeqRange(js[j].proposals) = proposalsByJob(ps, j)
        /\ \A n \in 1..Len(js[j].proposals) : /\ ps[js[j].proposals[n]].rev = n
                                              /\ Uuid[ps[js[j].proposals[n]].spec] = js[j].uuid
    BY <1>1 DEF Lists
  <2>4. \A n \in 1..Len(js[j].proposals) : js[j].proposals[n] \in 1..Len(ps) BY Counted
  <2>5. \A n \in 1..Len(js[j].proposals) : /\ ps2[js[j].proposals[n]].rev = n
                                           /\ Uuid[ps2[js[j].proposals[n]].spec] = js[j].uuid
    BY <2>3, <2>4
  <2> QED BY <2>1, <2>2, <2>3, <2>5 DEF Lists
<1>4. \A i \in 1..Len(ps2) : ps2[i].job \in 1..Len(js2) BY <1>1
<1>5. \A i, j \in 1..Len(js2) : js2[i].uuid = js2[j].uuid /\ js2[i].node = js2[j].node => i = j
  BY <1>1
<1> QED BY <1>3, <1>4, <1>5 DEF Exact

\* A step that is no command's, and leaves the file and which nodes there are.
LEMMA OtherMoves ==
  ASSUME JDInv, UNCHANGED <<run, made, file, raced, left>>, Ids' = Ids, ServerInv',
         \A d \in Cmds, n \in Nat : MadeBy(d, n)' = MadeBy(d, n)
  PROVE  JDInv'
<1>1. ASSUME NEW d \in Cmds PROVE CommandInv(d, run[d])'
  <2>1. PICK p : p = run[d] OBVIOUS
  <2>2. CommandInv(d, p) BY <2>1 DEF JDInv
  <2>3. CommandInv(d, p)' BY <2>2, Bystander
  <2> QED BY <2>1, <2>3
<1>2. Accounted' BY DEF JDInv, Accounted
<1> QED BY <1>1, <1>2 DEF JDInv

LEMMA RevokeStep ==
  ASSUME JDInv, NEW j \in DOMAIN jobs, RevokeJob(j), run' = run
  PROVE  JDInv'
<1>1. PICK i : i = getHighestRevisionProposalByJobID(j) OBVIOUS
<1>2. props' = [props EXCEPT ![i].status = "REVOKED"]
      /\ UNCHANGED <<nodes, jobs, run, file, made, author, left, raced>>
  BY <1>1 DEF RevokeJob
<1>3. ServerInv /\ Exact(jobs, props) BY DEF JDInv, ServerInv
<1>4. jobs \in Seq(JobRecords) /\ props \in Seq(ProposalRecords) BY <1>3 DEF Exact
<1>5. /\ props' \in Seq(ProposalRecords) /\ Len(props') = Len(props)
      /\ \A k \in 1..Len(props) : /\ props'[k].job = props[k].job /\ props'[k].rev = props[k].rev
                                  /\ props'[k].spec = props[k].spec
  <2>1. ASSUME NEW k \in 1..Len(props)
        PROVE  /\ props'[k] \in ProposalRecords
               /\ props'[k].job = props[k].job /\ props'[k].rev = props[k].rev
               /\ props'[k].spec = props[k].spec
    <3>1. props[k] \in ProposalRecords BY <1>4
    <3>2. k \in DOMAIN props BY <1>4
    <3>3. CASE k = i
      <4>1. props'[k] = [props[k] EXCEPT !.status = "REVOKED"] BY <1>2, <3>2, <3>3
      <4> QED BY <3>1, <4>1 DEF ProposalRecords
    <3>4. CASE k # i
      <4>1. props'[k] = props[k] BY <1>2, <3>2, <3>4
      <4> QED BY <3>1, <4>1
    <3> QED BY <3>3, <3>4
  <2>2. DOMAIN props = 1..Len(props) /\ Len(props) \in Nat BY <1>4
  <2>3. props' = [k \in 1..Len(props) |-> props'[k]] BY <1>2, <2>2
  <2>4. props' \in [1..Len(props) -> ProposalRecords] BY <2>1, <2>3
  <2>5. \A T : \A n \in Nat : \A f \in [1..n -> T] : f \in Seq(T) /\ Len(f) = n OBVIOUS
  <2> QED BY <2>1, <2>2, <2>4, <2>5
<1>6. (Exact(jobs, props))'
  <2>1. Exact(jobs, props') BY <1>3, <1>4, <1>5, SameLists
  <2> QED BY <1>2, <2>1
<1>7. ServerInv'
  <2>1. Ids' = Ids /\ OutOfScope(nodes)' = OutOfScope(nodes) /\ (IsSeq(nodes))' = IsSeq(nodes)
    BY <1>2 DEF Ids, OutOfScope, IsSeq, SeqRange
  <2> QED BY <1>2, <1>3, <1>5, <1>6, <2>1 DEF ServerInv
<1>8. Ids' = Ids /\ \A d \in Cmds, n \in Nat : MadeBy(d, n)' = MadeBy(d, n) BY <1>2 DEF MadeBy, Ids
<1> QED BY <1>2, <1>7, <1>8, OtherMoves

LEMMA DeleteStep ==
  ASSUME JDInv, NEW j \in DOMAIN jobs, DeleteJob(j), run' = run
  PROVE  JDInv'
<1>1. jobs' = [jobs EXCEPT ![j].deleted = TRUE]
      /\ UNCHANGED <<nodes, props, run, file, made, author, left, raced>>
  BY DEF DeleteJob
<1>2. ServerInv /\ Exact(jobs, props) BY DEF JDInv, ServerInv
<1>3. jobs \in Seq(JobRecords) /\ props \in Seq(ProposalRecords) BY <1>2 DEF Exact
<1>4. PICK entry : entry = [jobs[j] EXCEPT !.deleted = TRUE] OBVIOUS
<1>5. jobs[j] \in JobRecords /\ j \in 1..Len(jobs) BY <1>3
<1>6. /\ entry \in JobRecords /\ entry.uuid = jobs[j].uuid /\ entry.node = jobs[j].node
      /\ entry.proposals = jobs[j].proposals
  BY <1>4, <1>5 DEF JobRecords
<1>7. jobs' = [jobs EXCEPT ![j] = entry] BY <1>1, <1>4
<1>8. /\ jobs' \in Seq(JobRecords) /\ Len(jobs') = Len(jobs)
      /\ \A k \in 1..Len(jobs) : k # j => jobs'[k] = jobs[k]
      /\ jobs'[j] = entry
  BY <1>3, <1>5, <1>6, <1>7
<1>9. \A k \in 1..Len(jobs) : /\ jobs'[k].uuid = jobs[k].uuid /\ jobs'[k].node = jobs[k].node
                              /\ jobs'[k].proposals = jobs[k].proposals
  BY <1>6, <1>8
<1>10. (Exact(jobs, props))'
  <2>1. Exact(jobs', props) BY <1>2, <1>3, <1>8, <1>9, SameLists
  <2> QED BY <1>1, <2>1
<1>11. ServerInv'
  <2>1. Ids' = Ids /\ OutOfScope(nodes)' = OutOfScope(nodes) /\ (IsSeq(nodes))' = IsSeq(nodes)
    BY <1>1 DEF Ids, OutOfScope, IsSeq, SeqRange
  <2> QED BY <1>1, <1>2, <1>10, <2>1 DEF ServerInv
<1>12. Ids' = Ids /\ \A d \in Cmds, n \in Nat : MadeBy(d, n)' = MadeBy(d, n) BY <1>1 DEF MadeBy, Ids
<1> QED BY <1>1, <1>11, <1>12, OtherMoves

LEMMA EnableStep ==
  ASSUME JDInv, NEW id \in Ids, NEW on, SetEnabled(id, on), run' = run
  PROVE  JDInv'
<1>1. nodes' = [nodes EXCEPT ![id].enabled = on]
      /\ UNCHANGED <<jobs, props, run, file, made, author, left, raced>>
  BY DEF SetEnabled
<1>2. ServerInv BY DEF JDInv
<1>3. IsSeq(nodes) /\ \A i \in Ids : DOMAIN nodes[i] = NodeFields BY <1>2 DEF ServerInv
<1>4. DOMAIN nodes = 1..Len(nodes) /\ Len(nodes) \in Nat BY <1>3 DEF IsSeq
<1>5. DOMAIN nodes' = DOMAIN nodes BY <1>1
<1>6. \A i \in DOMAIN nodes : DOMAIN nodes'[i] = DOMAIN nodes[i] /\ nodes'[i].labels = nodes[i].labels
  <2>1. \A i \in DOMAIN nodes : DOMAIN nodes'[i] = DOMAIN nodes[i] BY <1>1
  <2>2. \A i \in DOMAIN nodes : nodes'[i].labels = nodes[i].labels BY <1>1, <1>3 DEF NodeFields, Ids
  <2> QED BY <2>1, <2>2
<1>7. IsSeq(nodes)'
  <2>1. nodes' = [i \in DOMAIN nodes |-> nodes'[i]] BY <1>1
  <2>2. \A i \in DOMAIN nodes : nodes'[i] \in SeqRange(nodes') BY <1>5, Zenon DEF SeqRange
  <2>3. nodes' \in [1..Len(nodes) -> SeqRange(nodes')] BY <1>4, <2>1, <2>2
  <2>4. \A T : \A n \in Nat : \A f \in [1..n -> T] : f \in Seq(T) OBVIOUS
  <2>5. nodes' \in Seq(SeqRange(nodes')) BY <1>4, <2>3, <2>4, Zenon
  <2> QED BY <2>5 DEF IsSeq, SeqRange
<1>8. OutOfScope(nodes)' = OutOfScope(nodes)
  <2>1. \A i \in DOMAIN nodes, sel \in NodeScope :
          matchesSelector(nodes'[i].labels, sel) <=> matchesSelector(nodes[i].labels, sel)
    BY <1>6
  <2>2. OutOfScope(nodes') = OutOfScope(nodes) BY <1>5, <2>1, Zenon DEF OutOfScope
  <2>3. OutOfScope(nodes)' = OutOfScope(nodes') BY DEF OutOfScope
  <2> QED BY <2>2, <2>3
<1>9. Ids' = Ids BY <1>5 DEF Ids
<1>10. ServerInv'
  <2>1. \A i \in Ids : DOMAIN nodes'[i] = NodeFields BY <1>3, <1>6 DEF Ids
  <2> QED BY <1>1, <1>2, <1>7, <1>8, <1>9, <2>1 DEF ServerInv
<1>11. \A d \in Cmds, n \in Nat : MadeBy(d, n)' = MadeBy(d, n) BY <1>1 DEF MadeBy
<1> QED BY <1>1, <1>9, <1>10, <1>11, OtherMoves

LEMMA BatchStep ==
  ASSUME JDInv, NEW s \in DOMAIN Uuid, BatchProposeJob([id \in Ids |-> id], s), run' = run
  PROVE  JDInv'
<1>1. PICK ids : ids = [id \in Ids |-> id] OBVIOUS
<1>2. BatchProposeJob(ids, s) BY <1>1
<1>3. ServerInv /\ Exact(jobs, props) BY DEF JDInv, ServerInv
<1>4. Ids = 1..Len(nodes) /\ Len(nodes) \in Nat BY <1>3 DEF ServerInv, IsSeq, Ids
<1>5. ids \in Seq(Nat) /\ Len(ids) = Len(nodes) /\ DOMAIN ids = Ids BY <1>1, <1>4
<1>6. Longer(Len(ids)) BY <1>2, <1>3, <1>5, BatchExact
<1>7. /\ author' = author \o [n \in DOMAIN ids |-> <<>>]
      /\ UNCHANGED <<nodes, run, file, made, left, raced>>
  BY <1>2 DEF BatchProposeJob
<1>8. author \in Seq(Makers) /\ Len(author) = Len(props) BY <1>3 DEF ServerInv
<1>9. PICK nobody : nobody = [n \in DOMAIN ids |-> <<>>] OBVIOUS
<1>10. PICK m \in Nat, k \in Nat : m = Len(ids) /\ k = Len(author) BY <1>5, <1>8
<1>11. nobody \in Seq(Makers) /\ Len(nobody) = m /\ DOMAIN nobody = 1..m
       /\ \A i \in 1..m : nobody[i] = <<>>
  <2>1. nobody = [n \in 1..m |-> <<>>] BY <1>4, <1>5, <1>9, <1>10
  <2>2. <<>> \in Makers BY DEF Makers
  <2>3. nobody \in [1..m -> Makers] BY <2>1, <2>2
  <2> QED BY <2>1, <2>3
<1>12. /\ author' \in Seq(Makers) /\ Len(author') = k + m /\ DOMAIN author' = 1..(k + m)
       /\ DOMAIN author = 1..k
       /\ \A i \in 1..k : author'[i] = author[i]
       /\ \A i \in 1..(k + m) : i \notin 1..k => author'[i] = <<>>
  <2>1. author' = author \o nobody BY <1>7, <1>9
  <2>a. \A T : \A q, r \in Seq(T) : q \o r \in Seq(T) /\ Len(q \o r) = Len(q) + Len(r) OBVIOUS
  <2>2. author' \in Seq(Makers) /\ Len(author') = k + m 
    <3>1. author \o nobody \in Seq(Makers) /\ Len(author \o nobody) = Len(author) + Len(nobody)
      BY <1>8, <1>11, <2>a, Zenon
    <3>2. Len(author) = k /\ Len(nobody) = m BY <1>10, <1>11
    <3> QED BY <2>1, <3>1, <3>2
  <2>3. \A i \in 1..k : author'[i] = author[i] BY <1>8, <1>10, <1>11, <2>1
  <2>4. ASSUME NEW i \in 1..(k + m), i \notin 1..k PROVE author'[i] = <<>>
    <3>1. author'[i] = nobody[i - k]
      <4>1. \A T : \A q, r \in Seq(T) : \A j \in 1..(Len(q) + Len(r)) :
              j \notin 1..Len(q) => (q \o r)[j] = r[j - Len(q)]
        OBVIOUS
      <4>2. Len(author) = k /\ Len(nobody) = m BY <1>10, <1>11
      <4>3. (author \o nobody)[i] = nobody[i - Len(author)]
        BY <1>8, <1>11, <2>4, <4>1, <4>2, Zenon
      <4> QED BY <2>1, <4>2, <4>3
    <3>2. i - k \in 1..m BY <2>4
    <3> QED BY <1>11, <3>1, <3>2
  <2> QED BY <1>8, <1>10, <2>2, <2>3, <2>4
<1>13. ASSUME NEW d \in Cmds, NEW n \in Nat PROVE MadeBy(d, n)' = MadeBy(d, n)
  <2>1. <<>> # <<d, n>> OBVIOUS
  <2>2. \A i : i \in MadeBy(d, n)' <=> i \in 1..(k + m) /\ author'[i] = <<d, n>>
    BY <1>12 DEF MadeBy
  <2>3. \A i : i \in MadeBy(d, n) <=> i \in 1..k /\ author[i] = <<d, n>> BY <1>12 DEF MadeBy
  <2>4. \A i : i \in 1..k => i \in 1..(k + m) BY <1>10
  <2>5. \A i : i \in MadeBy(d, n)' <=> i \in MadeBy(d, n)
    <3>1. ASSUME NEW i, i \in 1..(k + m), author'[i] = <<d, n>> PROVE i \in 1..k
      BY <1>12, <2>1, <3>1
    <3>2. \A i \in 1..k : author'[i] = author[i] BY <1>12
    <3> QED BY <2>2, <2>3, <2>4, <3>1, <3>2, Zenon
  <2> QED BY <2>5
<1>14. ServerInv'
  <2>1. (Exact(jobs, props))' /\ Len(props') = Len(props) + m BY <1>6, <1>10 DEF Longer
  <2>2. Ids' = Ids /\ OutOfScope(nodes)' = OutOfScope(nodes) /\ (IsSeq(nodes))' = IsSeq(nodes)
    BY <1>7 DEF Ids, OutOfScope, IsSeq, SeqRange
  <2>3. (author \in Seq(Makers) /\ Len(author) = Len(props))' BY <1>8, <1>10, <1>12, <2>1
  <2> QED BY <1>3, <1>7, <2>1, <2>2, <2>3 DEF ServerInv
<1>15. Ids' = Ids BY <1>7 DEF Ids
<1> QED BY <1>7, <1>13, <1>14, <1>15, OtherMoves

\* Every step keeps what is known of the server and of the commands.
LEMMA JDKept == JDInv /\ [JDNext]_jdVars => JDInv'
<1> SUFFICES ASSUME JDInv, [JDNext]_jdVars PROVE JDInv' OBVIOUS
<1>1. CASE UNCHANGED jdVars
  <2>1. UNCHANGED <<nodes, jobs, props, file, run, made, author, left, raced>> BY <1>1 DEF jdVars
  <2>2. \A d \in Cmds, n \in Nat : MadeBy(d, n)' = MadeBy(d, n) BY <2>1 DEF MadeBy
  <2>3. Ids' = Ids /\ OutOfScope(nodes)' = OutOfScope(nodes) /\ (IsSeq(nodes))' = IsSeq(nodes)
    BY <2>1 DEF Ids, OutOfScope, IsSeq, SeqRange
  <2>4. ServerInv' BY <2>1, <2>3 DEF ServerInv, JDInv
  <2> QED BY <2>1, <2>2, <2>3, <2>4, OtherMoves
<1>2. ASSUME NEW c \in Cmds, CommandStep(c) PROVE JDInv'
  <2>1. CASE StartCommand(c) BY <2>1, StartStep
  <2>2. CASE LoadFails(c) \/ ListFails(c) BY <2>2, FailingSteps
  <2>3. CASE List(c) BY <2>3, ListStep
  <2>4. CASE RegisterNode(c) BY <2>4, RegisterStep
  <2>5. CASE ReadNodes(c) BY <2>5, ReadStep
  <2>6. CASE WriteNodes(c) BY <2>6, WriteStep
  <2>7. CASE Patch(c) \/ Update(c) \/ BatchUpdate(c) BY <2>7, UpdateSteps
  <2>8. CASE Propose(c) BY <2>8, ProposeStep
  <2>9. CASE Collect(c) BY <2>9, CollectStep
  <2>10. CASE Filter(c) BY <2>10, FilterStep
  <2>11. CASE Filtered(c) BY <2>11, FilteredStep
  <2> QED BY <1>2, <2>1, <2>2, <2>3, <2>4, <2>5, <2>6, <2>7, <2>8, <2>9, <2>10, <2>11 DEF CommandStep
<1>3. ASSUME OtherCall, run' = run PROVE JDInv'
  <2>1. ASSUME NEW j \in DOMAIN jobs, RevokeJob(j) PROVE JDInv' BY <1>3, <2>1, RevokeStep
  <2>2. ASSUME NEW j \in DOMAIN jobs, DeleteJob(j) PROVE JDInv' BY <1>3, <2>2, DeleteStep
  <2>3. ASSUME NEW id \in Ids, DisableNode(id) \/ EnableNode(id) PROVE JDInv'
    BY <1>3, <2>3, EnableStep DEF DisableNode, EnableNode
  <2>4. ASSUME NEW s \in DOMAIN Uuid, BatchProposeJob([id \in Ids |-> id], s) PROVE JDInv'
    BY <1>3, <2>4, BatchStep
  <2> QED BY <1>3, <2>1, <2>2, <2>3, <2>4 DEF OtherCall
<1> QED BY <1>1, <1>2, <1>3 DEF JDNext

LEMMA JDInvariant == JDSpec => []JDInv
<1>1. JDInit => JDInv BY JDStart
<1>2. JDInv /\ [JDNext]_jdVars => JDInv' BY JDKept
<1> QED BY <1>1, <1>2, PTL DEF JDSpec

\* However commands and other users propose, revoke and delete, and whichever calls
\* and answers are lost, a node has one job per externalJobID, its revisions are
\* 1, 2, ..., and a propose command has tried every entry once (upsertProposal,
\* proposeJobs).
THEOREM JobsCorrect == JDSpec => []JobsSound
<1>1. JDInv => JobsSound BY JDInvSound
<1> QED BY <1>1, JDInvariant, PTL

\* Whatever commands register, save and relabel nodes meanwhile, a node whose
\* registration succeeded is in nodes.json, unless it left the domain's environment
\* or the file was written from an out of date reading (SaveToFile, save-all).
THEOREM NodesAccounted == JDSpec => []Accounted
<1>1. JDInv => Accounted BY DEF JDInv
<1> QED BY <1>1, JDInvariant, PTL

\* What ProposalsKept says of a step.
KeptProposals ==
  /\ \A i \in DOMAIN props :
       /\ i \in DOMAIN props'
       /\ [props'[i] EXCEPT !.status = props[i].status] = props[i]
  /\ \A i \in DOMAIN props :
       props'[i].status # props[i].status =>
         \A k \in proposalsByJob(props, props[i].job) : props[k].rev <= props[i].rev

\* A step that changes no proposal.
LEMMA KeptAll ==
  ASSUME JDInv, \A i \in 1..Len(props) : i \in DOMAIN props' /\ props'[i] = props[i]
  PROVE  KeptProposals
<1>1. props \in Seq(ProposalRecords) BY DEF JDInv, ServerInv, Exact
<1>2. DOMAIN props = 1..Len(props) /\ \A i \in 1..Len(props) : props[i] \in ProposalRecords BY <1>1
<1>3. \A r \in ProposalRecords : [r EXCEPT !.status = r.status] = r BY DEF ProposalRecords
<1> QED BY <1>2, <1>3 DEF KeptProposals

\* The proposal that is revoked is the latest of its job.
LEMMA RevokeKept ==
  ASSUME JDInv, NEW j \in DOMAIN jobs, RevokeJob(j)
  PROVE  KeptProposals
<1>1. PICK i : i = getHighestRevisionProposalByJobID(j) OBVIOUS
<1>2. props' = [props EXCEPT ![i].status = "REVOKED"] BY <1>1 DEF RevokeJob
<1>3. Exact(jobs, props) BY DEF JDInv, ServerInv
<1>4. /\ props \in Seq(ProposalRecords) /\ DOMAIN props = 1..Len(props) /\ DOMAIN jobs = 1..Len(jobs)
      /\ \A k \in 1..Len(props) : props[k] \in ProposalRecords
  BY <1>3 DEF Exact
<1>5. i \in proposalsByJob(props, j) /\ \A k \in proposalsByJob(props, j) : props[k].rev <= props[i].rev
  <2>1. PICK q, m : q = jobs[j].proposals /\ m = Len(q) OBVIOUS
  <2>2. /\ q \in Seq(Nat) /\ m \in Nat /\ \A n \in 1..m : q[n] \in 1..Len(props)
    BY <1>3, <1>4, <2>1, Counted
  <2>3. /\ q # <<>> /\ SeqRange(q) = proposalsByJob(props, j)
        /\ \A n \in 1..m : props[q[n]].rev = n
    BY <1>3, <1>4, <2>1 DEF Exact, Lists
  <2>4. m # 0 /\ DOMAIN q = 1..m BY <2>1, <2>2, <2>3
  <2>5. m \in 1..m BY <2>2, <2>4
  <2>6. PICK x : x = q[m] OBVIOUS
  <2>7. x \in proposalsByJob(props, j) /\ props[x].rev = m BY <2>3, <2>4, <2>5, <2>6 DEF SeqRange
  <2>8. \A k \in proposalsByJob(props, j) : props[k].rev <= props[x].rev
    <3>1. SUFFICES ASSUME NEW n \in 1..m PROVE props[q[n]].rev <= m
      BY <2>3, <2>4, <2>7 DEF SeqRange
    <3>2. props[q[n]].rev = n BY <2>3
    <3> QED BY <2>2, <3>1, <3>2
  <2> QED BY <1>1, <2>7, <2>8, Zenon DEF getHighestRevisionProposalByJobID
<1>6. i \in 1..Len(props) /\ props[i].job = j BY <1>4, <1>5 DEF proposalsByJob
<1>7. PICK r : r = [props[i] EXCEPT !.status = "REVOKED"] OBVIOUS
<1>8. DOMAIN props' = DOMAIN props /\ props'[i] = r /\ \A k \in DOMAIN props : k # i => props'[k] = props[k]
  BY <1>2, <1>4, <1>6, <1>7
<1>9. \A k \in DOMAIN props : [props'[k] EXCEPT !.status = props[k].status] = props[k]
  <2>1. [r EXCEPT !.status = props[i].status] = props[i]
    <3>1. props[i] \in ProposalRecords BY <1>4, <1>6
    <3> QED BY <1>7, <3>1 DEF ProposalRecords
  <2>2. \A p \in ProposalRecords : [p EXCEPT !.status = p.status] = p BY DEF ProposalRecords
  <2> QED BY <1>4, <1>8, <2>1, <2>2
<1>10. \A k \in DOMAIN props : props'[k].status # props[k].status => k = i BY <1>8
<1> QED BY <1>5, <1>6, <1>8, <1>9, <1>10 DEF KeptProposals

\* A proposal is added at the end.
LEMMA ProposeKept ==
  ASSUME JDInv, NEW c \in Cmds, Propose(c)
  PROVE  KeptProposals
<1>1. PICK p, entry : p = run[c] /\ entry = Head(p.todo) OBVIOUS
<1>2. p.pc = "propose" /\ (props' = props \/ Stored(upsertProposal(Store, entry.node, entry.spec)))
  BY <1>1, Zenon DEF Propose
<1>3. Exact(jobs, props) BY DEF JDInv, ServerInv
<1>4. DOMAIN props = 1..Len(props) /\ Len(props) \in Nat BY <1>3 DEF Exact
<1>5. CASE props' = props BY <1>4, <1>5, KeptAll
<1>6. CASE Stored(upsertProposal(Store, entry.node, entry.spec))
  <2>1. entry \in JobEntries
    <3>1. p.todo \in Seq(JobEntries) /\ p.todo # <<>> BY <1>1, <1>2, Known DEF Proposing
    <3> QED BY <1>1, <3>1
  <2>a. PICK id \in Nat, spec \in DOMAIN Uuid : id = entry.node /\ spec = entry.spec
    BY <2>1 DEF JobEntries
  <2>2. PICK st : st = Store /\ id = entry.node /\ spec = entry.spec BY <2>a
  <2>3. st.jobs = jobs /\ st.props = props BY <2>2 DEF Store
  <2>4. Exact(st.jobs, st.props) BY <1>3, <2>3
  <2>5. PICK r : r = upsertProposal(st, id, spec) OBVIOUS
  <2>6. Proposed(st, r) BY <2>4, <2>5, UpsertExact
  <2>7. props' = r.props BY <1>6, <2>2, <2>5 DEF Stored
  <2>8. Exact(r.jobs, props') /\ Len(props') = Len(props) + 1
        /\ \A i \in 1..Len(props) : props'[i] = props[i]
    BY <2>3, <2>6, <2>7 DEF Proposed
  <2>9. DOMAIN props' = 1..(Len(props) + 1) BY <2>8 DEF Exact
  <2>10. \A i \in 1..Len(props) : i \in DOMAIN props' BY <1>4, <2>9
  <2> QED BY <2>8, <2>10, KeptAll
<1> QED BY <1>2, <1>5, <1>6

\* The other steps of a command change no proposal.
LEMMA CommandKept ==
  ASSUME JDInv, NEW c \in Cmds, CommandStep(c)
  PROVE  KeptProposals
<1>0. props' = props => KeptProposals
  <2>1. DOMAIN props = 1..Len(props) BY DEF JDInv, ServerInv, Exact
  <2> QED BY <2>1, KeptAll
<1>1. CASE StartCommand(c) \/ LoadFails(c) \/ ListFails(c) \/ ReadNodes(c) \/ WriteNodes(c)
  BY <1>0, <1>1, Zenon DEF StartCommand, LoadFails, ListFails, ReadNodes, WriteNodes, server
<1>a. CASE List(c) \/ Collect(c) \/ Filter(c) \/ Filtered(c)
  BY <1>0, <1>a, Zenon DEF List, Collect, Filter, Filtered, Answer, server
<1>2. CASE RegisterNode(c) BY <1>0, <1>2, Zenon DEF RegisterNode
<1>3. ASSUME NEW id, NEW req, NEW out \in Outcomes, SendUpdate(c, id, req, out) PROVE KeptProposals
  BY <1>0, <1>3 DEF SendUpdate
<1>4. CASE Patch(c)
  <2>1. PICK p, id, order : p = run[c] /\ id = Head(p.todo)
          /\ LET st == PatchLabels(p.listed[id].labels, p.cmd.patch, order)
             IN  CASE st.panic ->
                      /\ run' = [run EXCEPT ![c] = Finish(p, "panic")]
                      /\ UNCHANGED <<server, file, made, author, touched, left, raced>>
                 [] ~st.panic /\ p.cmd.dry ->
                      /\ run' = [run EXCEPT ![c] =
                           IF Len(p.todo) = 1 THEN Finish(p, "ok") ELSE [p EXCEPT !.todo = Tail(@)]]
                      /\ UNCHANGED <<server, file, made, author, touched, left, raced>>
                 [] ~st.panic /\ ~p.cmd.dry ->
                      \E out \in Outcomes :
                        SendUpdate(c, id, [name |-> p.listed[id].name, key |-> p.listed[id].key,
                                           labels |-> st.labels], out)
    BY <1>4, Zenon DEF Patch
  <2>2. PICK st : st = PatchLabels(p.listed[id].labels, p.cmd.patch, order) OBVIOUS
  <2>3. CASE st.panic \/ p.cmd.dry BY <1>0, <2>1, <2>2, <2>3 DEF server
  <2>4. CASE ~st.panic /\ ~p.cmd.dry
    <3>1. PICK req : req = [name |-> p.listed[id].name, key |-> p.listed[id].key, labels |-> st.labels]
      OBVIOUS
    <3>2. PICK out \in Outcomes : SendUpdate(c, id, req, out) BY <2>1, <2>2, <2>4, <3>1
    <3> QED BY <1>3, <3>2
  <2> QED BY <2>3, <2>4
<1>5. CASE Update(c) BY <1>0, <1>5, Zenon DEF Update, SendUpdate, server
<1>6. CASE BatchUpdate(c) BY <1>0, <1>6, Zenon DEF BatchUpdate, SendUpdate, server
<1>7. CASE Propose(c) BY <1>7, ProposeKept
<1> QED BY <1>1, <1>a, <1>2, <1>4, <1>5, <1>6, <1>7 DEF CommandStep

LEMMA StepKept == JDInv /\ [JDNext]_jdVars => KeptProposals \/ UNCHANGED jdVars
<1> SUFFICES ASSUME JDInv, JDNext PROVE KeptProposals BY DEF jdVars
<1>1. ASSUME NEW c \in Cmds, CommandStep(c) PROVE KeptProposals BY <1>1, CommandKept
<1>0. props' = props => KeptProposals
  <2>1. DOMAIN props = 1..Len(props) BY DEF JDInv, ServerInv, Exact
  <2> QED BY <2>1, KeptAll
<1>2. ASSUME OtherCall PROVE KeptProposals
  <2>1. ASSUME NEW j \in DOMAIN jobs, RevokeJob(j) PROVE KeptProposals BY <2>1, RevokeKept
  <2>2. ASSUME NEW j \in DOMAIN jobs, DeleteJob(j) PROVE KeptProposals BY <1>0, <2>2 DEF DeleteJob
  <2>3. ASSUME NEW id \in Ids, DisableNode(id) \/ EnableNode(id) PROVE KeptProposals
    BY <1>0, <2>3 DEF DisableNode, EnableNode, SetEnabled
  <2>4. ASSUME NEW s \in DOMAIN Uuid, BatchProposeJob([id \in Ids |-> id], s) PROVE KeptProposals
    <3>1. PICK ids : ids = [id \in Ids |-> id] OBVIOUS
    <3>2. Exact(jobs, props) /\ Ids = 1..Len(nodes) /\ Len(nodes) \in Nat
      BY DEF JDInv, ServerInv, IsSeq, Ids
    <3>3. ids \in Seq(Nat) /\ Len(ids) \in Nat BY <3>1, <3>2
    <3>4. Longer(Len(ids)) BY <2>4, <3>1, <3>2, <3>3, BatchExact
    <3>5. Len(props) \in Nat BY <3>2 DEF Exact
    <3>6. DOMAIN props' = 1..(Len(props) + Len(ids)) BY <3>4 DEF Longer, Exact
    <3>7. \A i \in 1..Len(props) : i \in DOMAIN props' /\ props'[i] = props[i]
      BY <3>3, <3>4, <3>5, <3>6 DEF Longer
    <3> QED BY <3>7, KeptAll
  <2> QED BY <1>2, <2>1, <2>2, <2>3, <2>4 DEF OtherCall
<1> QED BY <1>1, <1>2 DEF JDNext

\* No step removes a proposal or changes its job, revision or spec, and only the latest
\* of a job is revoked (RevokeJob takes the highest revision).
THEOREM ProposalsAreKept == JDSpec => ProposalsKept
<1>1. JDInv /\ [JDNext]_jdVars => KeptProposals \/ UNCHANGED jdVars BY StepKept
<1>2. JDInv /\ [JDNext]_jdVars => [KeptProposals]_jdVars BY <1>1
<1>3. JDSpec => [][KeptProposals]_jdVars BY <1>2, JDInvariant, PTL DEF JDSpec
<1> QED BY <1>3 DEF ProposalsKept, KeptProposals

\* What DryRunWritesNothing says of a step, for the command that takes it.
WritesNothing(c) ==
  run[c].pc # "idle" /\ (run[c].cmd.dry \/ run[c].cmd.dryClient)
    => UNCHANGED server /\ (run[c].cmd.dry => UNCHANGED file)

\* An update with the dry-run client.
LEMMA DrySend ==
  ASSUME NEW c \in Cmds, NEW id, NEW req, NEW out \in Outcomes, SendUpdate(c, id, req, out),
         ~run[c].cmd.dry
  PROVE  WritesNothing(c)
<1>1. UNCHANGED <<jobs, props, file>> BY DEF SendUpdate
<1>2. run[c].cmd.dryClient => UNCHANGED nodes BY Zenon DEF SendUpdate, Applied
<1> QED BY <1>1, <1>2 DEF WritesNothing, server

\* Only labels-patch and save-all have --dry-run.
LEMMA DryKind ==
  ASSUME JDInv, NEW c \in Cmds, run[c].pc \notin {"idle", "done"}, run[c].cmd.dry
  PROVE  run[c].cmd.kind \in {"patch", "saveall"}
<1>1. run[c].cmd \in CommandLines BY Known DEF Doing
<1> QED BY <1>1, JDAssumption

LEMMA DryStep ==
  ASSUME JDInv, NEW c \in Cmds, CommandStep(c)
  PROVE  WritesNothing(c)
<1>0. PICK p : p = run[c] /\ Doing(p) BY Known
<1>1. CASE StartCommand(c) \/ LoadFails(c)
  BY <1>1, Zenon DEF StartCommand, LoadFails, WritesNothing
<1>2. CASE ListFails(c) \/ ReadNodes(c)
  BY <1>2, Zenon DEF ListFails, ReadNodes, WritesNothing
<1>a. CASE List(c) \/ Collect(c) \/ Filter(c) \/ Filtered(c)
  BY <1>a, Zenon DEF List, Collect, Filter, Filtered, Answer, WritesNothing
<1>3. CASE RegisterNode(c)
  <2>1. run[c].pc = "register" /\ UNCHANGED <<jobs, props, file>> BY <1>3, Zenon DEF RegisterNode
  <2>2. run[c].cmd.kind = "register" BY <1>0, <2>1 DEF Doing
  <2>3. ~run[c].cmd.dry BY <2>1, <2>2, DryKind
  <2>4. run[c].cmd.dryClient => UNCHANGED nodes BY <1>3, Zenon DEF RegisterNode, Applied
  <2> QED BY <2>1, <2>3, <2>4 DEF WritesNothing, server
<1>4. CASE WriteNodes(c)
  <2>1. run[c].pc = "write" /\ UNCHANGED server BY <1>4 DEF WriteNodes
  <2>2. run[c].cmd.kind = "register" \/ ~run[c].cmd.dry BY <1>0, <2>1 DEF Doing
  <2>3. ~run[c].cmd.dry BY <2>1, <2>2, DryKind
  <2> QED BY <2>1, <2>3 DEF WritesNothing
<1>5. CASE Patch(c)
  <2>1. PICK id, order :
          LET st == PatchLabels(p.listed[id].labels, p.cmd.patch, order)
             IN  CASE st.panic ->
                      /\ run' = [run EXCEPT ![c] = Finish(p, "panic")]
                      /\ UNCHANGED <<server, file, made, author, touched, left, raced>>
                 [] ~st.panic /\ p.cmd.dry ->
                      /\ run' = [run EXCEPT ![c] =
                           IF Len(p.todo) = 1 THEN Finish(p, "ok") ELSE [p EXCEPT !.todo = Tail(@)]]
                      /\ UNCHANGED <<server, file, made, author, touched, left, raced>>
                 [] ~st.panic /\ ~p.cmd.dry ->
                      \E out \in Outcomes :
                        SendUpdate(c, id, [name |-> p.listed[id].name, key |-> p.listed[id].key,
                                           labels |-> st.labels], out)
    BY <1>0, <1>5, Zenon DEF Patch
  <2>2. PICK st : st = PatchLabels(p.listed[id].labels, p.cmd.patch, order) OBVIOUS
  <2>3. CASE st.panic \/ p.cmd.dry BY <2>1, <2>2, <2>3 DEF WritesNothing
  <2>4. CASE ~st.panic /\ ~p.cmd.dry
    <3>1. PICK req : req = [name |-> p.listed[id].name, key |-> p.listed[id].key, labels |-> st.labels]
      OBVIOUS
    <3>2. PICK out \in Outcomes : SendUpdate(c, id, req, out) BY <2>1, <2>2, <2>4, <3>1
    <3> QED BY <1>0, <2>4, <3>2, DrySend
  <2> QED BY <2>3, <2>4
<1>6. CASE Update(c)
  <2>1. PICK id, req : id = run[c].cmd.id /\ req = UpdateRequest(run[c].cmd, run[c].listed[run[c].cmd.id])
    OBVIOUS
  <2>2. /\ run[c].pc = "update"
        /\ \/ UNCHANGED <<server, file>>
           \/ \E out \in Outcomes : SendUpdate(c, id, req, out)
    BY <1>6, <2>1 DEF Update
  <2>3. run[c].cmd.kind = "update" BY <1>0, <2>2 DEF Doing
  <2>4. ~run[c].cmd.dry BY <2>2, <2>3, DryKind
  <2>5. CASE UNCHANGED <<server, file>> BY <2>5 DEF WritesNothing
  <2>6. CASE \E out \in Outcomes : SendUpdate(c, id, req, out) BY <2>4, <2>6, DrySend
  <2> QED BY <2>2, <2>5, <2>6
<1>7. CASE BatchUpdate(c)
  <2>1. run[c].pc = "batchupdate" BY <1>7 DEF BatchUpdate
  <2>2. run[c].cmd.kind = "batchupdate" BY <1>0, <2>1 DEF Doing
  <2>3. ~run[c].cmd.dry BY <2>1, <2>2, DryKind
  <2>4. PICK req : req = ConfigRequest(Head(run[c].todo)) OBVIOUS
  <2>5. \/ UNCHANGED <<server, file>>
        \/ \E id : \E out \in Outcomes : SendUpdate(c, id, req, out)
    BY <1>7, <2>4 DEF BatchUpdate
  <2>6. CASE UNCHANGED <<server, file>> BY <2>6 DEF WritesNothing
  <2>7. CASE \E id : \E out \in Outcomes : SendUpdate(c, id, req, out)
    BY <2>3, <2>7, DrySend
  <2> QED BY <2>5, <2>6, <2>7
<1>8. CASE Propose(c)
  <2>1. run[c].pc = "propose" /\ UNCHANGED <<nodes, file>> BY <1>8, Zenon DEF Propose
  <2>2. run[c].cmd.kind \in {"propose", "batchpropose"} BY <1>0, <2>1 DEF Doing
  <2>3. ~run[c].cmd.dry BY <2>1, <2>2, DryKind
  <2>4. run[c].cmd.dryClient => UNCHANGED <<jobs, props>> BY <1>8, Zenon DEF Propose, Applied
  <2> QED BY <2>1, <2>3, <2>4 DEF WritesNothing, server
<1> QED BY <1>1, <1>a, <1>2, <1>3, <1>4, <1>5, <1>6, <1>7, <1>8 DEF CommandStep

\* A step of another command, or of another user, is not one of c.
LEMMA OwnStep ==
  ASSUME JDInv, NEW c \in Cmds, NEW d \in Cmds, CommandStep(d), run'[c] # run[c]
  PROVE  c = d
<1>1. run = [e \in Cmds |-> run[e]] BY DEF JDInv, ServerInv
<1>2. \A q : run' = [run EXCEPT ![d] = q] => c = d BY <1>1
<1>3. CASE StartCommand(d) \/ LoadFails(d) \/ ListFails(d) \/ List(d) \/ Filtered(d)
  BY <1>2, <1>3, Zenon DEF StartCommand, LoadFails, ListFails, List, Filtered, Answer
<1>4. CASE ReadNodes(d) \/ Collect(d) BY <1>1, <1>4 DEF ReadNodes, Collect
<1>a. CASE Filter(d)
  <2>1. PICK id, ids : run' = [run EXCEPT ![d].base = @ \ {id}, ![d].ids = ids]
    BY <1>1, <1>a DEF Filter
  <2> QED BY <1>1, <2>1
<1>5. CASE RegisterNode(d) \/ WriteNodes(d) \/ Propose(d)
  BY <1>2, <1>5, Zenon DEF RegisterNode, WriteNodes, Propose
<1>6. ASSUME NEW id, NEW req, NEW out \in Outcomes, SendUpdate(d, id, req, out) PROVE c = d
  BY <1>2, <1>6, Zenon DEF SendUpdate
<1>7. CASE Patch(d)
  <2>1. PICK p, id, order : p = run[d] /\ id = Head(p.todo)
          /\ LET st == PatchLabels(p.listed[id].labels, p.cmd.patch, order)
             IN  CASE st.panic ->
                      /\ run' = [run EXCEPT ![d] = Finish(p, "panic")]
                      /\ UNCHANGED <<server, file, made, author, touched, left, raced>>
                 [] ~st.panic /\ p.cmd.dry ->
                      /\ run' = [run EXCEPT ![d] =
                           IF Len(p.todo) = 1 THEN Finish(p, "ok") ELSE [p EXCEPT !.todo = Tail(@)]]
                      /\ UNCHANGED <<server, file, made, author, touched, left, raced>>
                 [] ~st.panic /\ ~p.cmd.dry ->
                      \E out \in Outcomes :
                        SendUpdate(d, id, [name |-> p.listed[id].name, key |-> p.listed[id].key,
                                           labels |-> st.labels], out)
    BY <1>7, Zenon DEF Patch
  <2>2. PICK st : st = PatchLabels(p.listed[id].labels, p.cmd.patch, order) OBVIOUS
  <2>3. CASE st.panic \/ p.cmd.dry BY <1>2, <2>1, <2>2, <2>3
  <2>4. CASE ~st.panic /\ ~p.cmd.dry
    <3>1. PICK req : req = [name |-> p.listed[id].name, key |-> p.listed[id].key, labels |-> st.labels]
      OBVIOUS
    <3>2. PICK out \in Outcomes : SendUpdate(d, id, req, out) BY <2>1, <2>2, <2>4, <3>1
    <3> QED BY <1>6, <3>2
  <2> QED BY <2>3, <2>4
<1>8. CASE Update(d) \/ BatchUpdate(d)
  BY <1>2, <1>8, Zenon DEF Update, BatchUpdate, SendUpdate
<1> QED BY <1>3, <1>4, <1>a, <1>5, <1>7, <1>8 DEF CommandStep

\* A command with --dry-run, or with the dry-run client, changes nothing on the server,
\* and with --dry-run it does not write nodes.json (DryRunJobDistributor, dryRun).
THEOREM DryRunsWriteNothing == JDSpec => DryRunWritesNothing
<1> DEFINE A == \A c \in Cmds :
                  (run'[c] # run[c] /\ run[c].pc # "idle" /\ (run[c].cmd.dry \/ run[c].cmd.dryClient))
                  => UNCHANGED server /\ (run[c].cmd.dry => UNCHANGED file)
<1>1. ASSUME JDInv, JDNext PROVE A
  <2>1. SUFFICES ASSUME NEW c \in Cmds, run'[c] # run[c] PROVE WritesNothing(c)
    BY DEF WritesNothing
  <2>2. PICK d \in Cmds : CommandStep(d) BY <1>1, <2>1 DEF JDNext
  <2>3. c = d BY <1>1, <2>1, <2>2, OwnStep
  <2> QED BY <1>1, <2>2, <2>3, DryStep
<1>2. JDInv /\ [JDNext]_jdVars => [A]_jdVars BY <1>1
<1>3. JDSpec => [][A]_jdVars BY <1>2, JDInvariant, PTL DEF JDSpec
<1> QED BY <1>3 DEF DryRunWritesNothing

-----------------------------------------------------------------------------
(* What a patch and an update make of the labels of a node.                *)

\* The strings: the provers do not know that those of RegisterNode are among them.
Text == STRING \cup {"product", "domain", "environment", "env", "type"}
TextLabels == [key : Text, val : Text]
Labelled == Seq(TextLabels)
Keys(labels) == [i \in DOMAIN labels |-> labels[i].key]

\* A set of positions has a last one, and a first one.
LEMMA Extremes ==
  ASSUME NEW n \in Nat, NEW S, S \subseteq 1..n, S # {}
  PROVE  /\ \E m \in S : \A j \in S : j <= m
         /\ \E m \in S : \A j \in 1..(m - 1) : j \notin S
<1> DEFINE T == {k \in Nat : \A U : U \subseteq 1..k /\ U # {} =>
                   /\ \E m \in U : \A j \in U : j <= m
                   /\ \E m \in U : \A j \in 1..(m - 1) : j \notin U}
<1>1. 0 \in T OBVIOUS
<1>2. ASSUME NEW k \in Nat, k \in T PROVE k + 1 \in T
  <2>1. SUFFICES ASSUME NEW U, U \subseteq 1..(k + 1), U # {}
                 PROVE  /\ \E m \in U : \A j \in U : j <= m
                        /\ \E m \in U : \A j \in 1..(m - 1) : j \notin U
    OBVIOUS
  <2>2. PICK W : W = U \ {k + 1} OBVIOUS
  <2>3. W \subseteq 1..k BY <2>1, <2>2
  <2>4. CASE W = {}
    <3>1. U = {k + 1} BY <2>1, <2>2, <2>4
    <3>2. \A j \in 1..((k + 1) - 1) : j # k + 1 OBVIOUS
    <3> QED BY <3>1, <3>2
  <2>5. CASE W # {}
    <3>1. /\ \E m \in W : \A j \in W : j <= m
          /\ \E m \in W : \A j \in 1..(m - 1) : j \notin W
      BY <1>2, <2>3, <2>5
    <3>2. \E m \in U : \A j \in U : j <= m
      <4>1. CASE k + 1 \in U
        <5>1. \A j \in U : j <= k + 1 BY <2>1
        <5> QED BY <4>1, <5>1
      <4>2. CASE k + 1 \notin U BY <2>2, <3>1, <4>2
      <4> QED BY <4>1, <4>2
    <3>3. PICK m \in W : \A j \in 1..(m - 1) : j \notin W BY <3>1
    <3>4. m \in U /\ m \in 1..k BY <2>2, <2>3, <3>3
    <3>5. \A j \in 1..(m - 1) : j # k + 1 BY <3>4
    <3>6. \A j \in 1..(m - 1) : j \notin U BY <2>2, <3>3, <3>5
    <3> QED BY <3>2, <3>4, <3>6
  <2> QED BY <2>4, <2>5
<1> HIDE DEF T
<1>3. n \in T BY <1>1, <1>2, NatSet
<1> QED BY <1>3 DEF T

\* i is the first position of k, or 0 when there is none.
FirstIs(keys, k, i) ==
  \/ i = 0 /\ \A j \in 1..Len(keys) : keys[j] # k
  \/ i \in 1..Len(keys) /\ keys[i] = k /\ \A j \in 1..(i - 1) : keys[j] # k

\* What FirstIndex finds.
LEMMA FirstFound ==
  ASSUME NEW keys \in Seq(Text), NEW k
  PROVE  FirstIs(keys, k, FirstIndex(keys, k))
<1>1. Len(keys) \in Nat /\ DOMAIN keys = 1..Len(keys) OBVIOUS
<1>2. PICK S : S = {i \in 1..Len(keys) : keys[i] = k} OBVIOUS
<1>3. CASE S = {}
  <2>1. ~ \E i \in DOMAIN keys : keys[i] = k BY <1>1, <1>2, <1>3
  <2>2. FirstIndex(keys, k) = 0 BY <2>1, Zenon DEF FirstIndex
  <2> QED BY <1>1, <2>1, <2>2 DEF FirstIs
<1>4. CASE S # {}
  <2>a. S \subseteq 1..Len(keys) BY <1>2
  <2>1. PICK m \in S : \A j \in 1..(m - 1) : j \notin S BY <1>1, <2>a, <1>4, Extremes, Zenon
  <2>2. m \in 1..Len(keys) /\ keys[m] = k BY <1>2, <2>1
  <2>3. \A j \in 1..(m - 1) : j \in 1..Len(keys) BY <1>1, <2>2
  <2>4. \A j \in 1..(m - 1) : keys[j] # k BY <1>2, <2>1, <2>3
  <2>5. m \in DOMAIN keys /\ keys[m] = k /\ \A j \in 1..(m - 1) : keys[j] # k BY <1>1, <2>2, <2>4
  <2>6. PICK i : i = FirstIndex(keys, k) OBVIOUS
  <2>7. i \in DOMAIN keys /\ keys[i] = k /\ \A j \in 1..(i - 1) : keys[j] # k
    BY <2>5, <2>6, Zenon DEF FirstIndex
  <2> QED BY <1>1, <2>6, <2>7 DEF FirstIs
<1> QED BY <1>3, <1>4

\* There is only one such position.
LEMMA FirstOnly ==
  ASSUME NEW keys \in Seq(Text), NEW k, NEW i, FirstIs(keys, k, i)
  PROVE  i = FirstIndex(keys, k)
<1>1. PICK j : j = FirstIndex(keys, k) /\ FirstIs(keys, k, j) BY FirstFound
<1>2. Len(keys) \in Nat OBVIOUS
<1>3. i = j
  <2>1. CASE i = 0 BY <1>1, <1>2, <2>1 DEF FirstIs
  <2>2. CASE j = 0 BY <1>1, <1>2, <2>2 DEF FirstIs
  <2>3. CASE i # 0 /\ j # 0
    <3>1. /\ i \in 1..Len(keys) /\ keys[i] = k /\ \A x \in 1..(i - 1) : keys[x] # k
          /\ j \in 1..Len(keys) /\ keys[j] = k /\ \A x \in 1..(j - 1) : keys[x] # k
      BY <1>1, <2>3 DEF FirstIs
    <3>2. ~(i < j) BY <1>2, <3>1
    <3>3. ~(j < i) BY <1>2, <3>1
    <3> QED BY <1>2, <3>1, <3>2, <3>3
  <2> QED BY <2>1, <2>2, <2>3
<1> QED BY <1>1, <1>3

\* The label that counts is the last one of its key.
LEMMA LastFound ==
  ASSUME NEW labels \in Labelled, NEW k, HasKey(labels, k)
  PROVE  /\ LastIndex(labels, k) \in 1..Len(labels)
         /\ labels[LastIndex(labels, k)].key = k
         /\ \A j \in 1..Len(labels) : labels[j].key = k => j <= LastIndex(labels, k)
<1>1. Len(labels) \in Nat /\ DOMAIN labels = 1..Len(labels) BY DEF Labelled
<1>2. PICK S : S = {i \in 1..Len(labels) : labels[i].key = k} OBVIOUS
<1>3. S # {} BY <1>1, <1>2 DEF HasKey
<1>4. PICK m \in S : \A j \in S : j <= m BY <1>1, <1>2, <1>3, Extremes
<1>5. m \in DOMAIN labels /\ labels[m].key = k
      /\ \A j \in DOMAIN labels : labels[j].key = k => j <= m
  BY <1>1, <1>2, <1>4
<1>6. PICK i : i = LastIndex(labels, k) OBVIOUS
<1>7. i \in DOMAIN labels /\ labels[i].key = k
      /\ \A j \in DOMAIN labels : labels[j].key = k => j <= i
  BY <1>5, <1>6, Zenon DEF LastIndex
<1> QED BY <1>1, <1>6, <1>7

\* The map of the labels, key by key.
LEMMA MapFacts ==
  ASSUME NEW labels \in Labelled
  PROVE  /\ \A k : k \in DOMAIN LabelMap(labels) <=> HasKey(labels, k)
         /\ \A k : HasKey(labels, k) => LabelMap(labels)[k] = labels[LastIndex(labels, k)].val
<1>1. \A k : k \in {labels[i].key : i \in DOMAIN labels} <=> HasKey(labels, k) BY Zenon DEF HasKey
<1> QED BY <1>1, Zenon DEF LabelMap

\* The labels L and M say the same of the key k.
Agree(L, M, k) ==
  /\ HasKey(L, k) <=> HasKey(M, k)
  /\ HasKey(L, k) => LabelMap(L)[k] = LabelMap(M)[k]

\* Nothing changes for k when the labels of that key are moved in order: the label
\* at i in L is at to[i] in M.
LEMMA AgreeWhen ==
  ASSUME NEW L \in Labelled, NEW M \in Labelled, NEW k, NEW to,
         \A i \in 1..Len(L) : L[i].key = k => to[i] \in 1..Len(M) /\ M[to[i]] = L[i],
         \A j \in 1..Len(M) : M[j].key = k => \E i \in 1..Len(L) : L[i].key = k /\ to[i] = j,
         \A i, j \in 1..Len(L) : L[i].key = k /\ L[j].key = k /\ i <= j => to[i] <= to[j]
  PROVE  Agree(L, M, k)
<1>1. /\ Len(L) \in Nat /\ DOMAIN L = 1..Len(L) /\ Len(M) \in Nat /\ DOMAIN M = 1..Len(M)
  BY DEF Labelled
<1>2. HasKey(L, k) <=> HasKey(M, k) BY <1>1 DEF HasKey
<1>3. ASSUME HasKey(L, k) PROVE LabelMap(L)[k] = LabelMap(M)[k]
  <2>1. PICK a, b : a = LastIndex(L, k) /\ b = LastIndex(M, k) OBVIOUS
  <2>2. a \in 1..Len(L) /\ L[a].key = k /\ \A j \in 1..Len(L) : L[j].key = k => j <= a
    BY <1>3, <2>1, LastFound
  <2>3. b \in 1..Len(M) /\ M[b].key = k /\ \A j \in 1..Len(M) : M[j].key = k => j <= b
    BY <1>2, <1>3, <2>1, LastFound
  <2>4. to[a] \in 1..Len(M) /\ M[to[a]] = L[a] BY <2>2
  <2>5. PICK i \in 1..Len(L) : L[i].key = k /\ to[i] = b BY <2>3
  <2>6. b <= to[a] BY <2>2, <2>5
  <2>7. to[a] <= b BY <2>2, <2>3, <2>4
  <2>8. to[a] = b BY <1>1, <2>3, <2>4, <2>6, <2>7
  <2>9. LabelMap(L)[k] = L[a].val /\ LabelMap(M)[k] = M[b].val
    BY <1>2, <1>3, <2>1, MapFacts
  <2> QED BY <2>4, <2>8, <2>9
<1> QED BY <1>2, <1>3 DEF Agree

\* An empty value clears the label.
Clears(v) == v = ""

\* What a patch of one label makes of the labels: the first of its key, at i, is set
\* or removed, or, when i is 0, one is added.
EditAt(L, k, v, i) ==
  IF Clears(v) THEN IF i = 0 THEN L ELSE Without(L, i)
  ELSE IF i = 0 THEN Append(L, Label(k, v)) ELSE [L EXCEPT ![i].val = v]
Edit(L, k, v) == EditAt(L, k, v, FirstIndex(Keys(L), k))

\* The four ways to get from the labels L to M.
Removed(L, M, i) ==
  /\ i \in 1..Len(L) /\ Len(M) = Len(L) - 1
  /\ \A j \in 1..(Len(L) - 1) : M[j] = IF j < i THEN L[j] ELSE L[j + 1]
Added(L, M, label) ==
  /\ Len(M) = Len(L) + 1 /\ M[Len(L) + 1] = label
  /\ \A j \in 1..Len(L) : M[j] = L[j]
Set(L, M, i, label) ==
  /\ i \in 1..Len(L) /\ Len(M) = Len(L) /\ M[i] = label
  /\ \A j \in 1..Len(L) : j # i => M[j] = L[j]
Edited(L, M, k, v, i) ==
  /\ M \in Labelled
  /\ \/ Clears(v) /\ i = 0 /\ M = L
     \/ Clears(v) /\ Removed(L, M, i)
     \/ ~Clears(v) /\ i = 0 /\ Added(L, M, Label(k, v))
     \/ ~Clears(v) /\ Set(L, M, i, Label(L[i].key, v))

\* The keys of labels.
LEMMA KeysTyped ==
  ASSUME NEW L \in Labelled
  PROVE  /\ Keys(L) \in Seq(Text) /\ Len(Keys(L)) = Len(L) /\ Len(L) \in Nat
         /\ \A j \in 1..Len(L) : Keys(L)[j] = L[j].key /\ L[j] \in TextLabels
<1>1. Len(L) \in Nat /\ DOMAIN L = 1..Len(L) /\ \A j \in 1..Len(L) : L[j] \in TextLabels
  BY DEF Labelled
<1>2. \A j \in 1..Len(L) : L[j].key \in Text BY <1>1 DEF TextLabels
<1>3. Keys(L) = [j \in 1..Len(L) |-> L[j].key] BY <1>1 DEF Keys
<1>4. Keys(L) \in [1..Len(L) -> Text] BY <1>2, <1>3
<1> QED BY <1>1, <1>3, <1>4

\* Every case of an edit.
LEMMA EditCases ==
  ASSUME NEW L \in Labelled, NEW k \in Text, NEW v \in Text, NEW i \in 0..Len(L)
  PROVE  Edited(L, EditAt(L, k, v, i), k, v, i)
<1>1. PICK n, M : n = Len(L) /\ M = EditAt(L, k, v, i) OBVIOUS
<1>2. /\ L \in Seq(TextLabels) /\ n \in Nat /\ DOMAIN L = 1..n
      /\ \A j \in 1..n : L[j] \in TextLabels
  BY <1>1 DEF Labelled
<1>3. i = 0 \/ i \in 1..n BY <1>1, <1>2
<1>4. M = IF Clears(v) THEN IF i = 0 THEN L ELSE Without(L, i)
          ELSE IF i = 0 THEN Append(L, Label(k, v)) ELSE [L EXCEPT ![i].val = v]
  BY <1>1, Zenon DEF EditAt
<1>5. Label(k, v) \in TextLabels BY DEF Label, TextLabels
<1>6. CASE Clears(v) /\ i = 0 BY <1>1, <1>4, <1>6 DEF Edited
<1>7. CASE Clears(v) /\ i # 0
  <2>1. i \in 1..n BY <1>3, <1>7
  <2>2. M = [j \in 1..(n - 1) |-> IF j < i THEN L[j] ELSE L[j + 1]] BY <1>1, <1>4, <1>7 DEF Without
  <2>3. \A j \in 1..(n - 1) : (IF j < i THEN L[j] ELSE L[j + 1]) \in TextLabels
    <3>1. \A j \in 1..(n - 1) : j \in 1..n /\ j + 1 \in 1..n BY <1>2
    <3> QED BY <1>2, <3>1
  <2>4. M \in [1..(n - 1) -> TextLabels] BY <2>2, <2>3
  <2>5. n - 1 \in Nat BY <1>2, <2>1
  <2>6. M \in Labelled /\ Len(M) = n - 1 BY <2>4, <2>5 DEF Labelled
  <2>7. Removed(L, M, i) BY <1>1, <2>1, <2>2, <2>6 DEF Removed
  <2> QED BY <1>1, <1>7, <2>6, <2>7 DEF Edited
<1>8. CASE ~Clears(v) /\ i = 0
  <2>1. M = Append(L, Label(k, v)) BY <1>4, <1>8
  <2>a. PICK e \in TextLabels : e = Label(k, v) BY <1>5
  <2>b. M = Append(L, e) BY <2>1, <2>a
  <2>c. /\ M \in Seq(TextLabels) /\ Len(M) = n + 1 /\ M[n + 1] = e
        /\ \A j \in 1..n : M[j] = L[j]
    BY <1>1, <1>2, <2>b
  <2>2. M \in Labelled /\ Added(L, M, Label(k, v)) BY <1>1, <2>a, <2>c DEF Labelled, Added
  <2> QED BY <1>1, <1>8, <2>2 DEF Edited
<1>9. CASE ~Clears(v) /\ i # 0
  <2>1. i \in 1..n BY <1>3, <1>9
  <2>2. M = [L EXCEPT ![i].val = v] BY <1>4, <1>9
  <2>3. PICK e : e = [L[i] EXCEPT !.val = v] OBVIOUS
  <2>4. e = Label(L[i].key, v) /\ e \in TextLabels
    <3>1. L[i] \in TextLabels BY <1>2, <2>1
    <3> QED BY <2>1, <2>3, <3>1 DEF TextLabels, Label
  <2>5. M = [L EXCEPT ![i] = e] BY <2>2, <2>3
  <2>6. M \in Seq(TextLabels) /\ Len(M) = n /\ M[i] = e /\ \A j \in 1..n : j # i => M[j] = L[j]
    BY <1>1, <1>2, <2>1, <2>4, <2>5
  <2>7. Set(L, M, i, Label(L[i].key, v)) BY <1>1, <2>1, <2>4, <2>6 DEF Set
  <2> QED BY <1>1, <1>9, <2>6, <2>7 DEF Edited, Labelled
<1> QED BY <1>1, <1>6, <1>7, <1>8, <1>9

\* Where the first label of a key is.
LEMMA KeyFound ==
  ASSUME NEW L \in Labelled, NEW k, NEW i, i = FirstIndex(Keys(L), k)
  PROVE  /\ i \in 0..Len(L)
         /\ i = 0 => \A j \in 1..Len(L) : L[j].key # k
         /\ i # 0 => i \in 1..Len(L) /\ L[i].key = k /\ \A j \in 1..(i - 1) : L[j].key # k
<1>1. FirstIs(Keys(L), k, i) BY KeysTyped, FirstFound
<1>2. Len(L) \in Nat BY KeysTyped
<1>3. i \in 1..Len(L) => \A j \in 1..(i - 1) : j \in 1..Len(L) BY <1>2
<1> QED BY <1>1, <1>2, <1>3, KeysTyped DEF FirstIs

\* The labels of other keys stay as they are.
LEMMA EditOther ==
  ASSUME NEW L \in Labelled, NEW k \in Text, NEW v \in Text, NEW q, q # k
  PROVE  Agree(L, Edit(L, k, v), q)
<1>1. PICK i, n, M : i = FirstIndex(Keys(L), k) /\ n = Len(L) /\ M = Edit(L, k, v) OBVIOUS
<1>a. /\ i \in 0..n
      /\ i = 0 => \A j \in 1..n : L[j].key # k
      /\ i # 0 => i \in 1..n /\ L[i].key = k
  BY <1>1, KeyFound
<1>2. Edited(L, M, k, v, i) BY <1>1, <1>a, EditCases DEF Edit
<1>3. n \in Nat /\ M \in Labelled BY <1>1, <1>2, KeysTyped DEF Edited
<1>4. Label(k, v).key = k BY DEF Label
<1>5. PICK same : same = [j \in 1..n |-> j] OBVIOUS
<1>6. CASE M = L
  <2>1. \A j \in 1..n : same[j] = j BY <1>5
  <2>2. Agree(L, M, q) BY <1>6 DEF Agree
  <2> QED BY <1>1, <2>2
<1>7. CASE Added(L, M, Label(k, v)) \/ Set(L, M, i, Label(L[i].key, v))
  <2>1. \A j \in 1..n : same[j] = j BY <1>5
  <2>2. /\ \A j \in 1..n : L[j].key = q => j \in 1..Len(M) /\ M[j] = L[j]
        /\ \A j \in 1..Len(M) : M[j].key = q => j \in 1..n /\ L[j].key = q
    <3>1. CASE Added(L, M, Label(k, v))
      BY <1>1, <1>3, <1>4, <3>1 DEF Added
    <3>2. CASE Set(L, M, i, Label(L[i].key, v))
      <4>1. i \in 1..n /\ i # 0 /\ L[i].key = k BY <1>1, <1>3, <1>a, <3>2 DEF Set
      <4>2. Set(L, M, i, Label(k, v)) BY <3>2, <4>1
      <4> QED BY <1>1, <1>3, <1>4, <4>1, <4>2 DEF Set
    <3> QED BY <1>7, <3>1, <3>2
  <2>3. /\ \A j \in 1..n : L[j].key = q => same[j] \in 1..Len(M) /\ M[same[j]] = L[j]
        /\ \A j \in 1..Len(M) : M[j].key = q => \E x \in 1..n : L[x].key = q /\ same[x] = j
        /\ \A x, y \in 1..n : L[x].key = q /\ L[y].key = q /\ x <= y => same[x] <= same[y]
    BY <2>1, <2>2
  <2> QED BY <1>1, <1>3, <2>3, AgreeWhen
<1>8. CASE Removed(L, M, i)
  <2>1. /\ i \in 1..n /\ Len(M) = n - 1
        /\ \A j \in 1..(n - 1) : M[j] = IF j < i THEN L[j] ELSE L[j + 1]
    BY <1>1, <1>8 DEF Removed
  <2>2. L[i].key = k BY <1>a, <2>1
  <2>3. PICK to : to = [j \in 1..n |-> IF j < i THEN j ELSE j - 1] OBVIOUS
  <2>4. \A j \in 1..n : to[j] = IF j < i THEN j ELSE j - 1 BY <2>3
  <2>5. \A j \in 1..n : L[j].key = q => to[j] \in 1..Len(M) /\ M[to[j]] = L[j]
    <3>1. SUFFICES ASSUME NEW j \in 1..n, L[j].key = q
                   PROVE  to[j] \in 1..Len(M) /\ M[to[j]] = L[j]
      OBVIOUS
    <3>2. j # i BY <2>2, <3>1
    <3>3. CASE j < i
      <4>1. to[j] = j /\ j \in 1..(n - 1) BY <1>3, <2>1, <2>4, <3>3
      <4> QED BY <2>1, <3>3, <4>1
    <3>4. CASE ~(j < i)
      <4>1. to[j] = j - 1 /\ j - 1 \in 1..(n - 1) /\ ~(j - 1 < i) /\ (j - 1) + 1 = j
        BY <1>3, <2>1, <2>4, <3>2, <3>4
      <4> QED BY <2>1, <4>1
    <3> QED BY <3>3, <3>4
  <2>6. \A j \in 1..Len(M) : M[j].key = q => \E x \in 1..n : L[x].key = q /\ to[x] = j
    <3>1. SUFFICES ASSUME NEW j \in 1..(n - 1), M[j].key = q
                   PROVE  \E x \in 1..n : L[x].key = q /\ to[x] = j
      BY <2>1
    <3>2. CASE j < i
      <4>1. j \in 1..n /\ to[j] = j /\ M[j] = L[j] BY <1>3, <2>1, <2>4, <3>2
      <4> QED BY <3>1, <4>1
    <3>3. CASE ~(j < i)
      <4>1. j + 1 \in 1..n /\ to[j + 1] = j /\ M[j] = L[j + 1] BY <1>3, <2>1, <2>4, <3>3
      <4> QED BY <3>1, <4>1
    <3> QED BY <3>2, <3>3
  <2>7. \A x, y \in 1..n : x <= y => to[x] <= to[y] BY <1>3, <2>1, <2>4
  <2> QED BY <1>1, <1>3, <2>5, <2>6, <2>7, AgreeWhen
<1> QED BY <1>2, <1>6, <1>7, <1>8 DEF Edited

\* When no key occurs twice, the label is set, or gone, and no key occurs twice.
LEMMA EditOwn ==
  ASSUME NEW L \in Labelled, NEW k \in Text, NEW v \in Text, UniqueKeys(L)
  PROVE  /\ UniqueKeys(Edit(L, k, v))
         /\ HasKey(Edit(L, k, v), k) <=> ~Clears(v)
         /\ ~Clears(v) => LabelMap(Edit(L, k, v))[k] = v
<1>1. PICK i, n, M : i = FirstIndex(Keys(L), k) /\ n = Len(L) /\ M = Edit(L, k, v) OBVIOUS
<1>a. /\ i \in 0..n
      /\ i = 0 => \A j \in 1..n : L[j].key # k
      /\ i # 0 => i \in 1..n /\ L[i].key = k
  BY <1>1, KeyFound
<1>2. Edited(L, M, k, v, i) BY <1>1, <1>a, EditCases DEF Edit
<1>3. n \in Nat /\ M \in Labelled /\ DOMAIN L = 1..n BY <1>1, <1>2, KeysTyped DEF Edited, Labelled
<1>4. Label(k, v).key = k /\ Label(k, v).val = v BY DEF Label
<1>5. /\ i = 0 => \A j \in 1..n : L[j].key # k
      /\ i # 0 => i \in 1..n /\ L[i].key = k
  BY <1>a
<1>6. \A x, y \in 1..n : L[x].key = L[y].key => x = y BY <1>3 DEF UniqueKeys
<1>7. DOMAIN M = 1..Len(M) BY <1>3 DEF Labelled
<1>8. /\ \A x, y \in 1..Len(M) : M[x].key = M[y].key => x = y
      /\ Clears(v) => \A j \in 1..Len(M) : M[j].key # k
      /\ ~Clears(v) => \E j \in 1..Len(M) : M[j] = Label(k, v)
  <2>1. CASE Clears(v) /\ i = 0 /\ M = L BY <1>1, <1>5, <1>6, <2>1
  <2>2. CASE Clears(v) /\ Removed(L, M, i)
    <3>1. /\ i \in 1..n /\ Len(M) = n - 1
          /\ \A j \in 1..(n - 1) : M[j] = IF j < i THEN L[j] ELSE L[j + 1]
      BY <1>1, <2>2 DEF Removed
    <3>2. PICK place : place = [j \in 1..(n - 1) |-> IF j < i THEN j ELSE j + 1] OBVIOUS
    <3>3. \A j \in 1..(n - 1) : place[j] = IF j < i THEN j ELSE j + 1 BY <3>2
    <3>4. \A j \in 1..(n - 1) : place[j] \in 1..n /\ place[j] # i /\ M[j] = L[place[j]] BY <1>3, <3>1, <3>3
    <3>5. \A x, y \in 1..(n - 1) : place[x] = place[y] => x = y BY <1>3, <3>1, <3>3
    <3>6. i # 0 BY <3>1
    <3>7. ASSUME NEW x \in 1..(n - 1), NEW y \in 1..(n - 1), M[x].key = M[y].key PROVE x = y
      <4>1. place[x] \in 1..n /\ place[y] \in 1..n /\ M[x] = L[place[x]] /\ M[y] = L[place[y]] BY <3>4
      <4>2. L[place[x]].key = L[place[y]].key BY <3>7, <4>1
      <4>3. place[x] = place[y] BY <1>6, <4>1, <4>2, Zenon
      <4> QED BY <3>5, <4>3, Zenon
    <3>8. \A j \in 1..(n - 1) : M[j].key # k BY <1>5, <1>6, <3>4, <3>6, Zenon
    <3> QED BY <2>2, <3>1, <3>7, <3>8
  <2>3. CASE ~Clears(v) /\ i = 0 /\ Added(L, M, Label(k, v))
    <3>1. Len(M) = n + 1 /\ M[n + 1] = Label(k, v) /\ \A j \in 1..n : M[j] = L[j]
      BY <1>1, <2>3 DEF Added
    <3>2. \A j \in 1..n : L[j].key # k BY <1>5, <2>3
    <3>3. \A j \in 1..(n + 1) : j \in 1..n \/ j = n + 1 BY <1>3
    <3>4. n + 1 \in 1..(n + 1) BY <1>3
    <3>5. \A x, y \in 1..(n + 1) : M[x].key = M[y].key => x = y
      BY <1>4, <1>6, <3>1, <3>2, <3>3, Zenon
    <3> QED BY <2>3, <3>1, <3>4, <3>5
  <2>4. CASE ~Clears(v) /\ Set(L, M, i, Label(L[i].key, v))
    <3>a. L[i].key = k BY <1>1, <1>3, <1>5, <2>4 DEF Set
    <3>1. /\ i \in 1..n /\ Len(M) = n /\ M[i] = Label(k, v)
          /\ \A j \in 1..n : j # i => M[j] = L[j]
      BY <1>1, <2>4, <3>a DEF Set
    <3>2. L[i].key = k BY <1>5, <3>1
    <3>3. \A j \in 1..n : M[j].key = L[j].key BY <1>4, <3>1, <3>2
    <3> QED BY <1>6, <2>4, <3>1, <3>3
  <2> QED BY <1>2, <2>1, <2>2, <2>3, <2>4 DEF Edited
<1>9. UniqueKeys(M) BY <1>7, <1>8 DEF UniqueKeys
<1>10. HasKey(M, k) <=> ~Clears(v) BY <1>4, <1>7, <1>8 DEF HasKey
<1>11. ASSUME ~Clears(v) PROVE LabelMap(M)[k] = v
  <2>1. PICK j \in 1..Len(M) : M[j] = Label(k, v) BY <1>8, <1>11
  <2>2. LastIndex(M, k) \in 1..Len(M) /\ M[LastIndex(M, k)].key = k
    BY <1>3, <1>10, <1>11, LastFound
  <2>3. LastIndex(M, k) = j BY <1>4, <1>8, <2>1, <2>2
  <2> QED BY <1>3, <1>4, <1>10, <1>11, <2>1, <2>3, MapFacts
<1> QED BY <1>1, <1>9, <1>10, <1>11

\* What the loop of labels-patch holds, with the capacity cap of the slice.
PatchStates(cap) ==
  [labels : Labelled, shared : BOOLEAN, cap : {cap}, panic : BOOLEAN, base : Seq(Text)]

\* One iteration, which finds the key at i, leads from st to r.
Advanced(st, r, k, v, i) ==
  /\ r.labels = EditAt(st.labels, k, v, i) /\ ~r.panic
  /\ Clears(v) /\ i = 0 => r.base = st.base
  /\ ~(Clears(v) /\ i = 0) => r.base = IF r.shared THEN Seen(st.base, r.labels) ELSE st.base
  /\ Clears(v) \/ i # 0 => r.shared = st.shared

\* What the array shows through the old slice.
LEMMA SeenTyped ==
  ASSUME NEW base \in Seq(Text), NEW L \in Labelled
  PROVE  /\ Seen(base, L) \in Seq(Text) /\ Len(Seen(base, L)) = Len(base) /\ Len(base) \in Nat
         /\ \A j \in 1..Len(base) : Seen(base, L)[j] = IF j <= Len(L) THEN L[j].key ELSE base[j]
<1>1. DOMAIN base = 1..Len(base) /\ Len(base) \in Nat /\ \A j \in 1..Len(base) : base[j] \in Text
  OBVIOUS
<1>2. \A j \in 1..Len(base) : (IF j <= Len(L) THEN L[j].key ELSE base[j]) \in Text
  <2>1. Len(L) \in Nat /\ \A j \in 1..Len(L) : L[j] \in TextLabels BY KeysTyped
  <2>2. \A j \in 1..Len(L) : L[j].key \in Text BY <2>1 DEF TextLabels
  <2>3. \A j \in 1..Len(base) : j <= Len(L) => j \in 1..Len(L) BY <1>1, <2>1
  <2> QED BY <1>1, <2>2, <2>3
<1>3. Seen(base, L) = [j \in 1..Len(base) |-> IF j <= Len(L) THEN L[j].key ELSE base[j]]
  BY <1>1 DEF Seen
<1>4. Seen(base, L) \in [1..Len(base) -> Text] BY <1>2, <1>3
<1> QED BY <1>1, <1>3, <1>4

\* One iteration of the loop.
LEMMA PatchKeyStep ==
  ASSUME NEW cap, NEW st \in PatchStates(cap), NEW k \in Text, NEW v \in Text, NEW i,
         i = FirstIndex(st.base, k), NEW r, r = PatchKey(st, k, v)
  PROVE  /\ r \in PatchStates(cap)
         /\ ~st.panic /\ i <= Len(st.labels) => Advanced(st, r, k, v, i)
<1>1. /\ st.labels \in Labelled /\ st.shared \in BOOLEAN /\ st.cap = cap /\ st.panic \in BOOLEAN
      /\ st.base \in Seq(Text)
  BY DEF PatchStates
<1>2. PICK L, n, M : L = st.labels /\ n = Len(L) /\ M = EditAt(L, k, v, i) OBVIOUS
<1>3. PICK sh : sh = IF Clears(v) \/ i # 0 THEN st.shared ELSE st.shared /\ n < st.cap OBVIOUS
<1>4. PICK moved : moved = [labels |-> M, shared |-> sh, cap |-> st.cap, panic |-> FALSE,
                            base |-> IF sh THEN Seen(st.base, M) ELSE st.base]
  OBVIOUS
<1>5. r = IF st.panic \/ i > n THEN [st EXCEPT !.panic = TRUE]
          ELSE IF Clears(v) /\ i = 0 THEN st ELSE moved
  <2>1. CASE st.panic \/ i > n BY <1>2, <2>1, Zenon DEF PatchKey
  <2>2. CASE ~(st.panic \/ i > n) /\ Clears(v) /\ i = 0
    BY <1>2, <2>2, Zenon DEF PatchKey, Clears
  <2>3. CASE ~(st.panic \/ i > n) /\ Clears(v) /\ i # 0
    <3>1. M = Without(L, i) /\ sh = st.shared BY <1>2, <1>3, <2>3 DEF EditAt
    <3> QED BY <1>2, <1>4, <2>3, <3>1, Zenon DEF PatchKey, Clears
  <2>4. CASE ~(st.panic \/ i > n) /\ ~Clears(v) /\ i = 0
    <3>1. M = Append(L, Label(k, v)) /\ sh = (st.shared /\ n < st.cap) BY <1>2, <1>3, <2>4 DEF EditAt
    <3> QED BY <1>2, <1>4, <2>4, <3>1, Zenon DEF PatchKey, Clears
  <2>5. CASE ~(st.panic \/ i > n) /\ ~Clears(v) /\ i # 0
    <3>1. M = [L EXCEPT ![i].val = v] /\ sh = st.shared BY <1>2, <1>3, <2>5 DEF EditAt
    <3> QED BY <1>2, <1>4, <2>5, <3>1, Zenon DEF PatchKey, Clears
  <2> QED BY <2>1, <2>2, <2>3, <2>4, <2>5
<1>6. n \in Nat /\ L \in Labelled BY <1>1, <1>2, KeysTyped
<1>a. i \in Nat
  <2>1. FirstIs(st.base, k, i) /\ Len(st.base) \in Nat BY <1>1, FirstFound
  <2> QED BY <2>1 DEF FirstIs
<1>7. CASE st.panic \/ i > n
  <2>1. r = [st EXCEPT !.panic = TRUE] BY <1>5, <1>7
  <2>2. r \in PatchStates(cap) BY <2>1 DEF PatchStates
  <2>3. ~(~st.panic /\ i <= n) BY <1>6, <1>7, <1>a
  <2> QED BY <1>2, <2>2, <2>3
<1>8. CASE ~(st.panic \/ i > n)
  <2>1. i \in 0..n
    <3>1. FirstIs(st.base, k, i) BY <1>1, FirstFound
    <3>2. Len(st.base) \in Nat BY <1>1
    <3> QED BY <1>6, <1>8, <3>1, <3>2 DEF FirstIs
  <2>2. M \in Labelled BY <1>2, <1>6, <2>1, EditCases DEF Edited
  <2>3. CASE Clears(v) /\ i = 0
    <3>1. r = st BY <1>5, <1>8, <2>3
    <3>2. M = L BY <1>2, <2>3 DEF EditAt
    <3> QED BY <1>2, <1>8, <2>3, <3>1, <3>2 DEF Advanced
  <2>4. CASE ~(Clears(v) /\ i = 0)
    <3>1. r = moved BY <1>5, <1>8, <2>4
    <3>2. /\ r.labels = M /\ r.shared = sh /\ r.cap = st.cap /\ ~r.panic
          /\ r.base = IF sh THEN Seen(st.base, M) ELSE st.base
      BY <1>4, <3>1
    <3>3. sh \in BOOLEAN BY <1>1, <1>3
    <3>4. (IF sh THEN Seen(st.base, M) ELSE st.base) \in Seq(Text) BY <1>1, <2>2, SeenTyped
    <3>5. moved \in PatchStates(cap) BY <1>1, <1>4, <2>2, <3>3, <3>4 DEF PatchStates
    <3>6. Clears(v) \/ i # 0 => sh = st.shared BY <1>3
    <3>7. Advanced(st, r, k, v, i) BY <1>2, <2>4, <3>2, <3>6 DEF Advanced
    <3> QED BY <3>1, <3>5, <3>7
  <2> QED BY <2>3, <2>4
<1> QED BY <1>7, <1>8

\* The keys that base shows are those of L, but for the key k and what is behind them.
Tracks(base, L, k) == \A q : q # k => FirstIndex(base, q) = FirstIndex(Keys(L), q)

\* The first iteration begins with base and labels as one.
LEMMA FirstTracks ==
  ASSUME NEW cap, NEW st \in PatchStates(cap), NEW k \in Text, NEW v \in Text,
         st.shared, st.base = Keys(st.labels),
         NEW r \in PatchStates(cap), Advanced(st, r, k, v, FirstIndex(Keys(st.labels), k))
  PROVE  Tracks(r.base, r.labels, k)
<1>1. PICK L, M, i, n : /\ L = st.labels /\ M = r.labels /\ i = FirstIndex(Keys(L), k) /\ n = Len(L)
  OBVIOUS
<1>2. L \in Labelled /\ M \in Labelled /\ r.base \in Seq(Text) BY <1>1 DEF PatchStates
<1>3. /\ n \in Nat /\ Keys(L) \in Seq(Text) /\ Len(Keys(L)) = n
      /\ \A j \in 1..n : Keys(L)[j] = L[j].key
  BY <1>1, <1>2, KeysTyped
<1>4. /\ i \in 0..n
      /\ i # 0 => i \in 1..n /\ L[i].key = k
  BY <1>1, <1>2, KeyFound
<1>5. Edited(L, M, k, v, i) BY <1>1, <1>2, <1>4, EditCases DEF Advanced
<1>6. /\ Len(M) \in Nat /\ Keys(M) \in Seq(Text) /\ Len(Keys(M)) = Len(M)
      /\ \A j \in 1..Len(M) : Keys(M)[j] = M[j].key
  BY <1>2, KeysTyped
<1>7. /\ Clears(v) /\ i = 0 => r.base = Keys(L)
      /\ ~(Clears(v) /\ i = 0) => r.base = IF r.shared THEN Seen(Keys(L), M) ELSE Keys(L)
      /\ Clears(v) \/ i # 0 => r.shared
  BY <1>1 DEF Advanced
<1>8. /\ Len(Seen(Keys(L), M)) = n
      /\ \A j \in 1..n : Seen(Keys(L), M)[j] = IF j <= Len(M) THEN M[j].key ELSE L[j].key
  BY <1>2, <1>3, SeenTyped
<1>9. ASSUME NEW q, q # k PROVE FirstIndex(r.base, q) = FirstIndex(Keys(M), q)
  <2>1. PICK f : f = FirstIndex(Keys(M), q) /\ FirstIs(Keys(M), q, f) BY <1>6, FirstFound
  <2>2. /\ f = 0 => \A j \in 1..Len(M) : M[j].key # q
        /\ f # 0 => f \in 1..Len(M) /\ M[f].key = q /\ \A j \in 1..(f - 1) : M[j].key # q
    <3>1. f \in 1..Len(M) => \A j \in 1..(f - 1) : j \in 1..Len(M) BY <1>6
    <3> QED BY <1>6, <2>1, <3>1 DEF FirstIs
  <2>3. FirstIs(r.base, q, f)
    <3>1. CASE Clears(v) /\ i = 0
      <4>1. M = L BY <1>4, <1>5, <3>1 DEF Edited, Removed
      <4> QED BY <1>7, <2>1, <3>1, <4>1
    <3>2. CASE Clears(v) /\ i # 0
      <4>1. Removed(L, M, i) BY <1>5, <3>2 DEF Edited
      <4>2. /\ i \in 1..n /\ Len(M) = n - 1
            /\ \A j \in 1..(n - 1) : M[j] = IF j < i THEN L[j] ELSE L[j + 1]
        BY <1>1, <4>1 DEF Removed
      <4>3. r.base = Seen(Keys(L), M) BY <1>7, <3>2
      <4>4. Len(r.base) = n /\ r.base[n] = L[n].key /\ \A j \in 1..(n - 1) : r.base[j] = M[j].key
        <5>1. n \in 1..n /\ ~(n <= n - 1) /\ \A j \in 1..(n - 1) : j \in 1..n /\ j <= n - 1 BY <1>3, <4>2
        <5> QED BY <1>8, <4>2, <4>3, <5>1
      <4>5. CASE f # 0
        <5>1. f \in 1..n /\ \A j \in 1..(f - 1) : j \in 1..(n - 1) BY <1>3, <2>2, <4>2, <4>5
        <5>2. f \in 1..(n - 1) BY <2>2, <4>2, <4>5
        <5> QED BY <2>2, <4>4, <4>5, <5>1, <5>2 DEF FirstIs
      <4>6. CASE f = 0
        <5>1. \A j \in 1..(n - 1) : M[j].key # q BY <2>2, <4>2, <4>6
        <5>2. L[n].key # q
          <6>1. CASE i = n BY <1>4, <1>9, <3>2, <6>1
          <6>2. CASE i # n
            <7>1. n - 1 \in 1..(n - 1) /\ ~(n - 1 < i) /\ (n - 1) + 1 = n BY <1>3, <4>2, <6>2
            <7>2. M[n - 1] = L[n] BY <4>2, <7>1
            <7> QED BY <5>1, <7>1, <7>2
          <6> QED BY <6>1, <6>2
        <5>3. \A j \in 1..n : j \in 1..(n - 1) \/ j = n BY <1>3
        <5> QED BY <4>4, <4>6, <5>1, <5>2, <5>3 DEF FirstIs
      <4> QED BY <4>5, <4>6
    <3>3. CASE ~Clears(v) /\ i # 0
      <4>1. Set(L, M, i, Label(L[i].key, v)) BY <1>5, <3>3 DEF Edited
      <4>2. Len(M) = n /\ \A j \in 1..n : M[j].key = L[j].key BY <1>1, <4>1 DEF Set, Label
      <4>3. r.base = Seen(Keys(L), M) BY <1>7, <3>3
      <4>4. Len(r.base) = n /\ \A j \in 1..n : r.base[j] = M[j].key BY <1>3, <1>8, <4>2, <4>3
      <4>5. f \in 1..n => \A j \in 1..(f - 1) : j \in 1..n BY <1>3
      <4> QED BY <2>2, <4>2, <4>4, <4>5 DEF FirstIs
    <3>4. CASE ~Clears(v) /\ i = 0
      <4>1. Added(L, M, Label(k, v)) BY <1>4, <1>5, <3>4 DEF Edited, Set
      <4>2. /\ Len(M) = n + 1 /\ M[n + 1].key = k /\ \A j \in 1..n : M[j] = L[j]
        BY <1>1, <4>1 DEF Added, Label
      <4>3. Len(r.base) = n /\ \A j \in 1..n : r.base[j] = M[j].key
        <5>1. \A j \in 1..n : j <= Len(M) BY <1>3, <4>2
        <5>2. r.base = Seen(Keys(L), M) \/ r.base = Keys(L) BY <1>7, <3>4
        <5> QED BY <1>3, <1>8, <4>2, <5>1, <5>2
      <4>4. f # 0 => f \in 1..n /\ \A j \in 1..(f - 1) : j \in 1..n
        <5>1. f # 0 => f \in 1..(n + 1) /\ f # n + 1 BY <1>9, <2>2, <4>2
        <5> QED BY <1>3, <5>1
      <4>5. \A j \in 1..n : j \in 1..Len(M) BY <1>3, <4>2
      <4> QED BY <2>2, <4>3, <4>4, <4>5 DEF FirstIs
    <3> QED BY <3>1, <3>2, <3>3, <3>4
  <2> QED BY <1>2, <2>1, <2>3, FirstOnly
<1> QED BY <1>1, <1>9 DEF Tracks

\* The orders in which a map is ranged over.
LEMMA OrderFacts ==
  ASSUME NEW S, IsFiniteSet(S), NEW order \in Orders(S)
  PROVE  /\ Len(order) = Cardinality(S) /\ Len(order) \in Nat /\ order \in Seq(S)
         /\ \A i, j \in 1..Len(order) : order[i] = order[j] => i = j
         /\ \A i \in 1..Len(order) : order[i] \in S
         /\ \A e \in S : \E i \in 1..Len(order) : order[i] = e
<1>1. PICK n \in Nat : n = Cardinality(S) BY FS_CardinalityType
<1>2. order \in [1..n -> S] /\ SeqRange(order) = S BY <1>1 DEF Orders
<1>3. Len(order) = n /\ order \in Seq(S) /\ DOMAIN order = 1..n BY <1>2
<1>4. \A e \in S : \E i \in 1..n : order[i] = e BY <1>2, <1>3 DEF SeqRange
<1>5. order \in Surjection(1..n, S) BY <1>2, <1>4 DEF Surjection
<1>6. IsFiniteSet(1..n) /\ Cardinality(1..n) = n
  <2>1. 1 \in Int /\ n \in Int /\ (IF 1 > n THEN 0 ELSE n - 1 + 1) = n BY <1>1
  <2> QED BY <2>1, FS_Interval
<1>7. order \in Injection(1..n, S) BY <1>1, <1>5, <1>6, FS_SurjSameCardinalityImpliesInj
<1>8. \A i, j \in 1..n : order[i] = order[j] => i = j BY <1>7, Zenon DEF Injection, IsInjective
<1>9. \A i \in 1..n : order[i] \in S BY <1>2
<1> QED BY <1>1, <1>3, <1>4, <1>8, <1>9

\* The loop of labels-patch, iteration by iteration.
Loop(step, m, cap, L, patch, order) ==
  /\ step \in [0..m -> PatchStates(cap)]
  /\ step[0].labels = L /\ step[0].base = Keys(L) /\ step[0].shared /\ ~step[0].panic
  /\ \A i \in 1..m : step[i] = PatchKey(step[i - 1], order[i], patch[order[i]])
  /\ PatchLabels(L, patch, order) = step[m]

\* The iterations of the loop, one after the other.
LEMMA LoopSteps ==
  ASSUME NEW L \in Labelled, NEW patch, NEW m \in Nat, NEW order, m = Len(order),
         \A i \in 1..m : order[i] \in Text /\ patch[order[i]] \in Text
  PROVE  \E cap, step : Loop(step, m, cap, L, patch, order)
<1> DEFINE cap == IF L = <<>> THEN 0 ELSE Capacity(Len(L))
           start == [labels |-> L, shared |-> TRUE, panic |-> FALSE,
                     base |-> [i \in DOMAIN L |-> L[i].key], cap |-> cap]
           T == PatchStates(cap)
           After(f) == [n \in 0..m |-> IF n = 0 THEN start ELSE PatchKey(f[n - 1], order[n], patch[order[n]])]
           h == [p \in (1..m) \X T |-> PatchKey(p[2], order[p[1]], patch[order[p[1]]])]
<1>a. PatchLabels(L, patch, order) = (CHOOSE f : f = After(f))[m] BY Zenon DEF PatchLabels
<1>b. start.labels = L /\ start.base = Keys(L) /\ start.shared = TRUE /\ start.panic = FALSE /\ start.cap = cap
  BY DEF Keys
<1> HIDE DEF cap
<1>3. start \in T
  <2>1. Keys(L) \in Seq(Text) BY KeysTyped
  <2>2. start = [labels |-> L, shared |-> TRUE, panic |-> FALSE, base |-> Keys(L), cap |-> cap]
    BY Zenon DEF Keys
  <2> QED BY <2>1, <2>2 DEF PatchStates
<1> HIDE DEF start
<1>1. h \in [(1..m) \X T -> T]
  <2>1. ASSUME NEW p \in (1..m) \X T PROVE PatchKey(p[2], order[p[1]], patch[order[p[1]]]) \in T
    <3>1. PICK st \in T, i \in 1..m : st = p[2] /\ i = p[1] OBVIOUS
    <3>2. order[i] \in Text /\ patch[order[i]] \in Text OBVIOUS
    <3>3. PatchKey(st, order[i], patch[order[i]]) \in T BY <3>2, PatchKeyStep
    <3> QED BY <3>1, <3>3
  <2> HIDE DEF T
  <2> QED BY <2>1
<1>2. \A i \in 1..m, q \in T : h[<<i, q>>] = PatchKey(q, order[i], patch[order[i]])
  <2> HIDE DEF T
  <2> QED OBVIOUS
<1> HIDE DEF h
<1> HIDE DEF T
<1>4. PICK g \in [0..m -> T] :
        g[0] = start /\ \A i \in 1..m : g[i] = h[<<i, g[i - 1]>>]
  <2>1. h \in StepsOf(m, T) BY <1>1 DEF StepsOf
  <2>2. ASSUME NEW n \in Nat, NEW S, NEW a \in S, h \in StepsOf(n, S)
        PROVE  \E g \in [0..n -> S] : Computes(g, n, a, h)
    BY <2>2, StepsExist, Zenon
  <2>3. \E g \in [0..m -> T] : Computes(g, m, start, h) BY <1>3, <2>1, <2>2, Zenon
  <2> QED BY <2>3, Zenon DEF Computes
<1>5. ASSUME NEW i \in 1..m PROVE g[i] = PatchKey(g[i - 1], order[i], patch[order[i]])
  <2>1. i - 1 \in 0..m OBVIOUS
  <2>2. g[i - 1] \in T BY <1>4, <2>1
  <2> QED BY <1>2, <1>4, <2>2
<1>6. g = After(g)
  <2>1. ASSUME NEW i \in 0..m PROVE g[i] = After(g)[i]
    <3>1. After(g)[i] = IF i = 0 THEN start ELSE PatchKey(g[i - 1], order[i], patch[order[i]]) BY Zenon
    <3>2. i = 0 \/ i \in 1..m OBVIOUS
    <3> HIDE DEF After
    <3> QED BY <1>4, <1>5, <3>1, <3>2
  <2>2. g = [i \in 0..m |-> g[i]] BY <1>4
  <2>3. After(g) = [i \in 0..m |-> After(g)[i]] BY Zenon
  <2> QED BY <2>1, <2>2, <2>3, Zenon
<1> DEFINE step == CHOOSE f : f = After(f)
<1>7. step = After(step)
  <2> HIDE DEF After
  <2> QED BY <1>6, Zenon
<1>8. PatchLabels(L, patch, order) = step[m] BY <1>a
<1> HIDE DEF step
<1>9. \A i \in 0..m : step[i] = IF i = 0 THEN start ELSE PatchKey(step[i - 1], order[i], patch[order[i]])
  <2>1. \A i \in 0..m : After(step)[i] = IF i = 0 THEN start
                                         ELSE PatchKey(step[i - 1], order[i], patch[order[i]])
    BY Zenon
  <2> QED BY <1>7, <2>1, Zenon
<1>10. step[0] = start BY <1>9
<1>11. ASSUME NEW i \in 1..m PROVE step[i] = PatchKey(step[i - 1], order[i], patch[order[i]])
  <2>1. i \in 0..m /\ i # 0 OBVIOUS
  <2> QED BY <1>9, <2>1
<1>12. step \in [0..m -> T]
  <2> DEFINE Typed == {n \in Nat : n <= m => step[n] \in T}
  <2>1. 0 \in Typed BY <1>3, <1>10
  <2>2. ASSUME NEW n \in Nat, n \in Typed PROVE n + 1 \in Typed
    <3>1. SUFFICES ASSUME n + 1 <= m PROVE step[n + 1] \in T OBVIOUS
    <3>2. n <= m /\ n + 1 \in 1..m /\ (n + 1) - 1 = n BY <3>1
    <3>3. step[n] \in T BY <2>2, <3>2
    <3>4. step[n + 1] = PatchKey(step[n], order[n + 1], patch[order[n + 1]]) BY <1>11, <3>2
    <3>5. order[n + 1] \in Text /\ patch[order[n + 1]] \in Text BY <3>2
    <3> QED BY <3>3, <3>4, <3>5, PatchKeyStep DEF T
  <2> HIDE DEF Typed
  <2>3. Nat \subseteq Typed BY <2>1, <2>2, NatSet
  <2>4. \A n \in 0..m : step[n] \in T BY <2>3 DEF Typed
  <2>5. step = [n \in 0..m |-> step[n]] BY <1>7, Zenon
  <2> QED BY <2>4, <2>5
<1>13. Loop(step, m, cap, L, patch, order) BY <1>b, <1>8, <1>10, <1>11, <1>12 DEF Loop, T
<1> QED BY <1>13

\* The map of new labels of a labels-patch.
IsPatch(patch) ==
  /\ IsFiniteSet(DOMAIN patch)
  /\ \A k \in DOMAIN patch : k \in Text /\ patch[k] \in Text

\* The labels M are the labels L, patched: labels of other keys are as they were, and
\* so are, when no key occurs twice, those of the patch as it says.
PatchedTo(L, M, patch) ==
  /\ \A q : q \notin DOMAIN patch => Agree(L, M, q)
  /\ UniqueKeys(L) => \A q \in DOMAIN patch : /\ HasKey(M, q) <=> ~Clears(patch[q])
                                              /\ ~Clears(patch[q]) => LabelMap(M)[q] = patch[q]

\* The first iteration edits the labels.
LEMMA FirstEdit ==
  ASSUME NEW cap, NEW st \in PatchStates(cap), NEW j \in Text, NEW v \in Text,
         st.shared, ~st.panic, st.base = Keys(st.labels), NEW r, r = PatchKey(st, j, v)
  PROVE  /\ r \in PatchStates(cap) /\ r.labels = Edit(st.labels, j, v) /\ ~r.panic
         /\ Tracks(r.base, r.labels, j)
<1>1. PICK L, i : L = st.labels /\ i = FirstIndex(Keys(L), j) OBVIOUS
<1>2. L \in Labelled BY <1>1 DEF PatchStates
<1>3. i \in 0..Len(L) /\ Len(L) \in Nat BY <1>1, <1>2, KeyFound, KeysTyped
<1>4. r \in PatchStates(cap) /\ Advanced(st, r, j, v, i)
  <2>1. i = FirstIndex(st.base, j) /\ i <= Len(st.labels) BY <1>1, <1>3
  <2> QED BY <2>1, PatchKeyStep
<1>5. r.labels = Edit(L, j, v) /\ ~r.panic BY <1>1, <1>4 DEF Advanced, Edit
<1>6. Tracks(r.base, r.labels, j) BY <1>1, <1>4, FirstTracks
<1> QED BY <1>1, <1>4, <1>5, <1>6

\* So does the second.
LEMMA SecondEdit ==
  ASSUME NEW cap, NEW st \in PatchStates(cap), NEW j, NEW k \in Text, NEW w \in Text, k # j,
         ~st.panic, Tracks(st.base, st.labels, j), NEW z, z = PatchKey(st, k, w)
  PROVE  z.labels = Edit(st.labels, k, w) /\ ~z.panic
<1>1. PICK M, f : M = st.labels /\ f = FirstIndex(st.base, k) OBVIOUS
<1>2. M \in Labelled BY <1>1 DEF PatchStates
<1>3. f = FirstIndex(Keys(M), k) BY <1>1 DEF Tracks
<1>4. f \in 0..Len(M) /\ Len(M) \in Nat BY <1>2, <1>3, KeyFound, KeysTyped
<1>5. Advanced(st, z, k, w, f)
  <2>1. f <= Len(st.labels) BY <1>1, <1>4
  <2> QED BY <1>1, <2>1, PatchKeyStep
<1> QED BY <1>1, <1>3, <1>5 DEF Advanced, Edit

\* What one edit of a list of labels makes of it.
LEMMA OneEdit ==
  ASSUME NEW L \in Labelled, NEW j \in Text, NEW v \in Text, NEW patch,
         DOMAIN patch = {j}, patch[j] = v
  PROVE  PatchedTo(L, Edit(L, j, v), patch)
<1>1. PICK M : M = Edit(L, j, v) OBVIOUS
<1>2. \A q : q # j => Agree(L, M, q) BY <1>1, EditOther
<1>3. UniqueKeys(L) => /\ HasKey(M, j) <=> ~Clears(v)
                       /\ ~Clears(v) => LabelMap(M)[j] = v
  BY <1>1, EditOwn
<1> QED BY <1>1, <1>2, <1>3, Zenon DEF PatchedTo

\* And what two make of it.
LEMMA TwoEdits ==
  ASSUME NEW L \in Labelled, NEW j \in Text, NEW v \in Text, NEW k \in Text, NEW w \in Text,
         j # k, NEW patch, DOMAIN patch = {j, k}, patch[j] = v, patch[k] = w
  PROVE  PatchedTo(L, Edit(Edit(L, j, v), k, w), patch)
<1>1. PICK M : M = Edit(L, j, v) OBVIOUS
<1>2. PICK R : R = Edit(M, k, w) OBVIOUS
<1>3. M \in Labelled BY <1>1, KeyFound, EditCases DEF Edited, Edit
<1>4. \A q : q # j => Agree(L, M, q) BY <1>1, EditOther
<1>5. \A q : q # k => Agree(M, R, q) BY <1>2, <1>3, EditOther
<1>6. ASSUME UniqueKeys(L)
      PROVE  /\ UniqueKeys(M)
             /\ HasKey(M, j) <=> ~Clears(v)
             /\ ~Clears(v) => LabelMap(M)[j] = v
  BY <1>1, <1>6, EditOwn
<1>7. ASSUME UniqueKeys(L)
      PROVE  /\ HasKey(R, k) <=> ~Clears(w)
             /\ ~Clears(w) => LabelMap(R)[k] = w
  <2>1. UniqueKeys(M) BY <1>6, <1>7
  <2> QED BY <1>2, <1>3, <2>1, EditOwn
<1>8. \A q : q # j /\ q # k => Agree(L, R, q) BY <1>4, <1>5 DEF Agree
<1>9. ASSUME UniqueKeys(L)
      PROVE  /\ HasKey(R, j) <=> ~Clears(v)
             /\ ~Clears(v) => LabelMap(R)[j] = v
  <2>1. Agree(M, R, j) BY <1>5
  <2>2. /\ HasKey(M, j) <=> ~Clears(v)
        /\ ~Clears(v) => LabelMap(M)[j] = v
    BY <1>6, <1>9
  <2> QED BY <2>1, <2>2, Zenon DEF Agree
<1>10. ASSUME UniqueKeys(L), NEW q \in DOMAIN patch
       PROVE  /\ HasKey(R, q) <=> ~Clears(patch[q])
              /\ ~Clears(patch[q]) => LabelMap(R)[q] = patch[q]
  <2>1. CASE q = j BY <1>9, <1>10, <2>1, Zenon
  <2>2. CASE q = k BY <1>7, <1>10, <2>2, Zenon
  <2> QED BY <2>1, <2>2, Zenon
<1>11. \A q : q \notin DOMAIN patch => q # j /\ q # k OBVIOUS
<1> QED BY <1>1, <1>2, <1>8, <1>10, <1>11, Zenon DEF PatchedTo

\* A patch makes labels of labels, and one of up to two labels does what it says, in
\* whatever order the labels are ranged over.
LEMMA PatchSound ==
  ASSUME NEW L \in Labelled, NEW patch, IsPatch(patch), NEW order \in Orders(DOMAIN patch),
         NEW st, st = PatchLabels(L, patch, order)
  PROVE  /\ st.labels \in Labelled
         /\ Cardinality(DOMAIN patch) <= 2 => ~st.panic /\ PatchedTo(L, st.labels, patch)
<1>0. PICK S : S = DOMAIN patch OBVIOUS
<1>1. PICK m : m = Len(order) OBVIOUS
<1>2. /\ m = Cardinality(S) /\ m \in Nat /\ order \in Seq(S)
      /\ \A i, j \in 1..m : order[i] = order[j] => i = j
      /\ \A i \in 1..m : order[i] \in S
      /\ \A e \in S : \E i \in 1..m : order[i] = e
  <2>1. IsFiniteSet(S) /\ order \in Orders(S) BY <1>0 DEF IsPatch
  <2> QED BY <1>1, <2>1, OrderFacts
<1>3. \A i \in 1..m : order[i] \in S BY <1>2
<1>4. \A i \in 1..m : order[i] \in Text /\ patch[order[i]] \in Text BY <1>0, <1>3 DEF IsPatch
<1>5. PICK cap, step : Loop(step, m, cap, L, patch, order) BY <1>1, <1>2, <1>4, LoopSteps
<1>6. st = step[m] /\ \A i \in 0..m : step[i] \in PatchStates(cap) BY <1>5 DEF Loop
<1>7. st.labels \in Labelled
  <2>1. m \in 0..m BY <1>2
  <2> QED BY <1>6, <2>1 DEF PatchStates
<1>8. ASSUME m <= 2 PROVE ~st.panic /\ PatchedTo(L, st.labels, patch)
  <2>1. /\ step[0].labels = L /\ step[0].base = Keys(L) /\ step[0].shared /\ ~step[0].panic
        /\ step[0] \in PatchStates(cap)
        /\ \A i \in 1..m : step[i] = PatchKey(step[i - 1], order[i], patch[order[i]])
    BY <1>2, <1>5, <1>6 DEF Loop
  <2>2. CASE m = 0
    <3>1. S = {}
      <4>1. 1..0 = {} OBVIOUS
      <4> QED BY <1>2, <2>2, <4>1
    <3>2. PatchedTo(L, L, patch) BY <1>0, <3>1, Zenon DEF PatchedTo, Agree
    <3> QED BY <1>6, <2>1, <2>2, <3>2
  <2>a. ASSUME m # 0
        PROVE  /\ step[1] \in PatchStates(cap)
               /\ step[1].labels = Edit(L, order[1], patch[order[1]]) /\ ~step[1].panic
               /\ Tracks(step[1].base, step[1].labels, order[1])
    <3>1. 1 \in 1..m /\ 1 - 1 = 0 BY <1>2, <2>a
    <3>2. PICK j, v : j = order[1] /\ v = patch[order[1]] OBVIOUS
    <3>3. j \in Text /\ v \in Text /\ step[1] = PatchKey(step[0], j, v)
      BY <1>4, <2>1, <3>1, <3>2
    <3>4. PICK s0, s1 : s0 = step[0] /\ s1 = step[1] OBVIOUS
    <3>5. /\ s0 \in PatchStates(cap) /\ s0.shared /\ ~s0.panic /\ s0.base = Keys(s0.labels)
          /\ s0.labels = L /\ s1 = PatchKey(s0, j, v)
      BY <2>1, <3>3, <3>4
    <3>6. /\ s1 \in PatchStates(cap) /\ s1.labels = Edit(s0.labels, j, v) /\ ~s1.panic
          /\ Tracks(s1.base, s1.labels, j)
      BY <3>3, <3>5, FirstEdit
    <3> QED BY <3>2, <3>4, <3>5, <3>6
  <2>3. CASE m = 1
    <3>1. PICK j, v : j = order[1] /\ v = patch[order[1]] OBVIOUS
    <3>2. j \in Text /\ v \in Text /\ S = {j}
      <4>1. \A i : i \in 1..1 <=> i = 1 OBVIOUS
      <4> QED BY <1>2, <1>3, <1>4, <2>3, <3>1, <4>1
    <3>3. step[1].labels = Edit(L, j, v) /\ ~step[1].panic BY <2>3, <2>a, <3>1
    <3>4. patch[j] = v /\ DOMAIN patch = {j} BY <1>0, <3>1, <3>2
    <3>5. PatchedTo(L, Edit(L, j, v), patch) BY <3>2, <3>4, OneEdit
    <3> QED BY <1>6, <2>3, <3>3, <3>5
  <2>4. CASE m = 2
    <3>1. PICK j, v, k, w : j = order[1] /\ v = patch[order[1]] /\ k = order[2] /\ w = patch[order[2]]
      OBVIOUS
    <3>2. \A i : i \in 1..2 <=> i = 1 \/ i = 2 OBVIOUS
    <3>3. /\ j \in Text /\ v \in Text /\ k \in Text /\ w \in Text /\ S = {j, k}
      BY <1>2, <1>3, <1>4, <2>4, <3>1, <3>2
    <3>4. j # k
      <4>1. order[1] = order[2] => 1 = 2 BY <1>2, <2>4, <3>2
      <4> QED BY <3>1, <4>1
    <3>5. step[2] = PatchKey(step[1], k, w)
      <4>1. 2 - 1 = 1 OBVIOUS
      <4> QED BY <2>1, <2>4, <3>1, <3>2, <4>1
    <3>6. PICK s1, s2 : s1 = step[1] /\ s2 = step[2] OBVIOUS
    <3>7. /\ s1 \in PatchStates(cap) /\ s1.labels = Edit(L, j, v) /\ ~s1.panic
          /\ Tracks(s1.base, s1.labels, j) /\ s2 = PatchKey(s1, k, w)
      BY <2>4, <2>a, <3>1, <3>5, <3>6
    <3>8. s2.labels = Edit(s1.labels, k, w) /\ ~s2.panic BY <3>3, <3>4, <3>7, SecondEdit
    <3>9. patch[j] = v /\ patch[k] = w /\ DOMAIN patch = {j, k} BY <1>0, <3>1, <3>3
    <3>10. PatchedTo(L, Edit(Edit(L, j, v), k, w), patch) BY <3>3, <3>4, <3>9, TwoEdits
    <3> QED BY <1>6, <2>4, <3>6, <3>7, <3>8, <3>10
  <2> QED BY <1>2, <1>8, <2>2, <2>3, <2>4
<1> QED BY <1>0, <1>2, <1>7, <1>8

\* The map of the new labels is the one the documentation promises.
LEMMA PatchedMap ==
  ASSUME NEW L \in Labelled, NEW M \in Labelled, NEW patch, PatchedTo(L, M, patch), UniqueKeys(L)
  PROVE  LabelMap(M) = Patched(LabelMap(L), patch)
<1>1. PICK l, m, S : l = LabelMap(L) /\ m = LabelMap(M) /\ S = DOMAIN patch OBVIOUS
<1>2. /\ \A k : k \in DOMAIN l <=> HasKey(L, k)
      /\ \A k : k \in DOMAIN m <=> HasKey(M, k)
  BY <1>1, MapFacts
<1>3. \A k : k \notin S => /\ HasKey(L, k) <=> HasKey(M, k)
                           /\ HasKey(L, k) => l[k] = m[k]
  BY <1>1, Zenon DEF PatchedTo, Agree
<1>4. \A k \in S : /\ HasKey(M, k) <=> ~Clears(patch[k])
                   /\ ~Clears(patch[k]) => m[k] = patch[k]
  BY <1>1, Zenon DEF PatchedTo
<1>5. PICK D : D = {x \in DOMAIN l \union S : x \notin S \/ ~Clears(patch[x])} OBVIOUS
<1>6. Patched(l, patch) = [k \in D |-> IF k \in S THEN patch[k] ELSE l[k]]
  BY <1>1, <1>5, Zenon DEF Patched, Clears
<1>7. ASSUME NEW k PROVE k \in DOMAIN m <=> k \in D
  <2>1. CASE k \in S BY <1>2, <1>4, <1>5, <2>1, Zenon
  <2>2. CASE k \notin S BY <1>2, <1>3, <1>5, <2>2, Zenon
  <2> QED BY <2>1, <2>2, Zenon
<1>8. DOMAIN m = D BY <1>7, Zenon
<1>9. ASSUME NEW k \in D PROVE m[k] = IF k \in S THEN patch[k] ELSE l[k]
  <2>1. CASE k \in S
    <3>1. ~Clears(patch[k]) BY <1>5, <2>1, Zenon
    <3> QED BY <1>4, <2>1, <3>1, Zenon
  <2>2. CASE k \notin S
    <3>1. HasKey(L, k) BY <1>2, <1>3, <1>7, <1>9, <2>2, Zenon
    <3> QED BY <1>3, <2>2, <3>1, Zenon
  <2> QED BY <2>1, <2>2, Zenon
<1>10. m = [k \in DOMAIN m |-> m[k]]
  <2>1. DOMAIN m = {M[i].key : i \in DOMAIN M} BY <1>1, Zenon DEF LabelMap
  <2> QED BY <1>1, Zenon DEF LabelMap
<1>11. m = [k \in D |-> IF k \in S THEN patch[k] ELSE l[k]] BY <1>8, <1>9, <1>10, Zenon
<1> QED BY <1>1, <1>6, <1>11

\* What the scope of a node depends on.
Scoped(L) == \A sel \in NodeScope : matchesSelector(L, sel)
ScopeKeys == {"product", "environment"}

\* A node is in scope when the two labels have their values.
LEMMA ScopedWhen ==
  ASSUME NEW L
  PROVE  Scoped(L) <=> /\ "product" \in DOMAIN LabelMap(L) /\ LabelMap(L)["product"] = "domain"
                       /\ "environment" \in DOMAIN LabelMap(L) /\ LabelMap(L)["environment"] = "env"
<1>1. PICK m : m = LabelMap(L) OBVIOUS
<1>2. ASSUME NEW k, NEW v
      PROVE  matchesSelector(L, [key |-> k, op |-> "EQ", vals |-> {v}]) <=> k \in DOMAIN m /\ m[k] = v
  <2>1. PICK sel : sel = [key |-> k, op |-> "EQ", vals |-> {v}] OBVIOUS
  <2>2. sel.key = k /\ sel.op = "EQ" /\ sel.vals = {v} BY <2>1
  <2>3. matchesSelector(L, sel) <=> sel.key \in DOMAIN m /\ m[sel.key] \in sel.vals
    BY <1>1, <2>2 DEF matchesSelector
  <2> QED BY <2>1, <2>2, <2>3
<1>3. Scoped(L) <=> /\ matchesSelector(L, [key |-> "product", op |-> "EQ", vals |-> {"domain"}])
                    /\ matchesSelector(L, [key |-> "environment", op |-> "EQ", vals |-> {"env"}])
  BY Zenon DEF Scoped, NodeScope
<1> QED BY <1>1, <1>2, <1>3

\* Labels that say the same of the two keys are in scope together.
LEMMA SameScope ==
  ASSUME NEW L \in Labelled, NEW M \in Labelled, \A q \in ScopeKeys : Agree(L, M, q), Scoped(L)
  PROVE  Scoped(M)
<1>1. PICK l, m : l = LabelMap(L) /\ m = LabelMap(M) OBVIOUS
<1>2. \A q \in ScopeKeys : q \in DOMAIN l => q \in DOMAIN m /\ m[q] = l[q]
  BY <1>1, MapFacts DEF Agree
<1>3. "product" \in ScopeKeys /\ "environment" \in ScopeKeys BY DEF ScopeKeys
<1> QED BY <1>1, <1>2, <1>3, ScopedWhen

\* Labels that are added, and name neither key, do not change the scope.
LEMMA ScopeAdded ==
  ASSUME NEW L \in Labelled, NEW E \in Labelled, \A q \in ScopeKeys : ~HasKey(E, q), Scoped(L)
  PROVE  L \o E \in Labelled /\ Scoped(L \o E)
<1>1. PICK n, m, M : n = Len(L) /\ m = Len(E) /\ M = L \o E OBVIOUS
<1>2. /\ n \in Nat /\ m \in Nat /\ M \in Labelled /\ Len(M) = n + m
      /\ \A i \in 1..n : M[i] = L[i]
      /\ \A i \in 1..m : M[n + i] = E[i]
      /\ DOMAIN E = 1..m
  BY <1>1 DEF Labelled
<1>3. ASSUME NEW q \in ScopeKeys PROVE Agree(L, M, q)
  <2>1. PICK to : to = [i \in 1..n |-> i] OBVIOUS
  <2>2. \A i \in 1..n : to[i] = i BY <2>1
  <2>3. \A i \in 1..n : i \in 1..Len(M) BY <1>2
  <2>4. \A j \in 1..Len(M) : M[j].key = q => j \in 1..n
    <3>1. SUFFICES ASSUME NEW j \in 1..(n + m), j \notin 1..n PROVE M[j].key # q BY <1>2
    <3>2. PICK i \in 1..m : j = n + i
      <4>1. j - n \in 1..m /\ j = n + (j - n) BY <1>2, <3>1
      <4> QED BY <4>1
    <3>3. ~HasKey(E, q) OBVIOUS
    <3>4. E[i].key # q BY <1>2, <3>3 DEF HasKey
    <3> QED BY <1>2, <3>2, <3>4
  <2>5. /\ \A i \in 1..n : L[i].key = q => to[i] \in 1..Len(M) /\ M[to[i]] = L[i]
        /\ \A j \in 1..Len(M) : M[j].key = q => \E i \in 1..n : L[i].key = q /\ to[i] = j
        /\ \A i, j \in 1..n : L[i].key = q /\ L[j].key = q /\ i <= j => to[i] <= to[j]
    BY <1>2, <2>2, <2>3, <2>4
  <2> QED BY <1>1, <1>2, <2>5, AgreeWhen
<1>4. Scoped(M) BY <1>2, <1>3, SameScope
<1> QED BY <1>1, <1>2, <1>4

\* The labels a registration makes are in scope, unless the extra ones are not.
LEMMA ScopeRegistered ==
  ASSUME NEW E \in Labelled, NEW type \in Text
  PROVE  /\ NodeLabels(E, type) \in Labelled
         /\ (\A q \in ScopeKeys : ~HasKey(E, q)) => Scoped(NodeLabels(E, type))
<1>1. PICK a, b, c : a = Label("product", "domain") /\ b = Label("environment", "env")
                   /\ c = Label("type", type)
  OBVIOUS
<1>a. \A k, v \in Text : Label(k, v) \in TextLabels /\ Label(k, v).key = k /\ Label(k, v).val = v
  BY DEF Label, TextLabels
<1>2. /\ a \in TextLabels /\ a.key = "product" /\ a.val = "domain"
      /\ b \in TextLabels /\ b.key = "environment" /\ b.val = "env"
      /\ c \in TextLabels /\ c.key = "type"
  <2>1. "product" \in Text /\ "domain" \in Text /\ "environment" \in Text /\ "env" \in Text
        /\ "type" \in Text
    BY DEF Text
  <2>2. a \in TextLabels /\ a.key = "product" /\ a.val = "domain" BY <1>1, <1>a, <2>1, Zenon
  <2>3. b \in TextLabels /\ b.key = "environment" /\ b.val = "env" BY <1>1, <1>a, <2>1, Zenon
  <2>4. c \in TextLabels /\ c.key = "type" BY <1>1, <1>a, <2>1, Zenon
  <2> QED BY <2>2, <2>3, <2>4
<1>3. PICK first, last : first = <<a, b>> /\ last = <<c>> OBVIOUS
<1>4. first \in Labelled /\ last \in Labelled BY <1>2, <1>3 DEF Labelled
<1>5. /\ Len(first) = 2 /\ first[1] = a /\ first[2] = b
      /\ DOMAIN last = {1} /\ last[1] = c
  BY <1>3
<1>6. NodeLabels(E, type) = (first \o E) \o last BY <1>1, <1>3 DEF NodeLabels
<1>7. first \o E \in Labelled /\ (first \o E) \o last \in Labelled BY <1>4 DEF Labelled
<1>8. Scoped(first)
  <2>1. \A i : i \in 1..2 <=> i = 1 \/ i = 2 OBVIOUS
  <2>2. DOMAIN first = 1..2 BY <1>3
  <2>3. HasKey(first, "product") /\ HasKey(first, "environment") BY <1>2, <1>5, <2>1, <2>2 DEF HasKey
  <2>4. LastIndex(first, "product") = 1
    <3>1. PICK i : i = LastIndex(first, "product") OBVIOUS
    <3>2. i \in 1..2 /\ first[i].key = "product" BY <1>4, <1>5, <2>3, <3>1, LastFound
    <3> QED BY <1>2, <1>5, <2>1, <3>1, <3>2
  <2>5. LastIndex(first, "environment") = 2
    <3>1. PICK i : i = LastIndex(first, "environment") OBVIOUS
    <3>2. i \in 1..2 /\ first[i].key = "environment" BY <1>4, <1>5, <2>3, <3>1, LastFound
    <3> QED BY <1>2, <1>5, <2>1, <3>1, <3>2
  <2>6. LabelMap(first)["product"] = first[1].val /\ LabelMap(first)["environment"] = first[2].val
    BY <1>4, <2>3, <2>4, <2>5, MapFacts
  <2>7. "product" \in DOMAIN LabelMap(first) /\ "environment" \in DOMAIN LabelMap(first)
    BY <1>4, <2>3, MapFacts
  <2> QED BY <1>2, <1>5, <2>6, <2>7, ScopedWhen
<1>9. \A q \in ScopeKeys : ~HasKey(last, q) BY <1>2, <1>5 DEF HasKey, ScopeKeys
<1>10. ASSUME \A q \in ScopeKeys : ~HasKey(E, q) PROVE Scoped((first \o E) \o last)
  <2>1. Scoped(first \o E) BY <1>4, <1>8, <1>10, ScopeAdded
  <2>2. PICK M : M = first \o E OBVIOUS
  <2> QED BY <1>4, <1>7, <1>9, <2>1, <2>2, ScopeAdded
<1> QED BY <1>6, <1>7, <1>10

-----------------------------------------------------------------------------
(* What a command relies on when it changes a node: what it has listed,    *)
(* and that the node is still so unless another command changed it.        *)

TypedNode(n) ==
  /\ n = [name |-> n.name, key |-> n.key, enabled |-> n.enabled, labels |-> n.labels]
  /\ n.labels \in Labelled
TypedNodes(ns) == \A id \in DOMAIN ns : TypedNode(ns[id])

\* The nodes n and m differ at most in being enabled.
AsListed(n, m) == n.name = m.name /\ n.key = m.key /\ n.labels = m.labels

\* The nodes that command c, in the state p, has still to patch, each once.
ToPatch(c, p) ==
  /\ p.todo \in Seq(DOMAIN p.listed)
  /\ \A i, j \in 1..Len(p.todo) : p.todo[i] = p.todo[j] => i = j
  /\ \A i \in 1..Len(p.todo) :
       p.todo[i] \notin touched[c] => AsListed(nodes[p.todo[i]], p.listed[p.todo[i]])

EditingInv(c, p) ==
  /\ p.pc = "register" => p.todo \in Seq(NodeArgs)
  /\ Updating(p) => /\ DOMAIN p.listed \subseteq Ids /\ TypedNodes(p.listed)
                    /\ p.todo # <<>>
  /\ p.pc = "patch" => ToPatch(c, p)
  /\ p.pc = "update" => p.cmd.id \in DOMAIN p.listed /\ p.todo = <<p.cmd.id>>
  /\ p.pc = "batchupdate" => p.todo \in Seq(NodeRequests)

EditInv ==
  /\ TypedNodes(nodes)
  /\ touched = [c \in Cmds |-> touched[c]]
  /\ \A c \in Cmds : EditingInv(c, run[c])

\* What is known of the command c.
LEMMA EditKnown ==
  ASSUME JDInv, EditInv, NEW c \in Cmds, NEW p, p = run[c]
  PROVE  /\ EditingInv(c, p)
         /\ p.pc \notin {"idle", "done"} => p.cmd \in CommandLines
         /\ p.pc = "register" => p.todo \in Seq(NodeArgs) /\ p.todo # <<>>
         /\ \A q : run' = [run EXCEPT ![c] = q] => run'[c] = q
         /\ \A d \in Cmds : \A q : d # c /\ run' = [run EXCEPT ![c] = q] => run'[d] = run[d]
<1>1. EditingInv(c, p) BY DEF EditInv
<1>2. Doing(p) /\ Registering(c, p) BY Known
<1>3. run = [d \in Cmds |-> run[d]] BY DEF JDInv, ServerInv
<1>4. p.pc \notin {"idle", "done"} => p.cmd \in CommandLines BY <1>2 DEF Doing
<1>5. p.pc = "register" => p.todo \in Seq(NodeArgs) /\ p.todo # <<>>
  BY <1>1, <1>2, Zenon DEF EditingInv, Registering
<1>6. \A q : run' = [run EXCEPT ![c] = q] =>
        run'[c] = q /\ \A d \in Cmds : d # c => run'[d] = run[d]
  BY <1>3
<1> QED BY <1>1, <1>4, <1>5, <1>6, Zenon

\* For the command d, a step of others changes a node only when it is touched.
EditAlone(d) ==
  /\ Ids \subseteq Ids'
  /\ \A i \in Ids : i \notin touched'[d] => i \notin touched[d] /\ AsListed(nodes'[i], nodes[i])

\* What is known of a command that another step leaves alone.
LEMMA EditBystander ==
  ASSUME NEW d \in Cmds, NEW p, EditingInv(d, p), EditAlone(d)
  PROVE  EditingInv(d, p)'
<1>1. p.pc = "patch" => ToPatch(d, p)'
  <2>1. SUFFICES ASSUME p.pc = "patch", NEW i \in 1..Len(p.todo), p.todo[i] \notin touched'[d]
                 PROVE  AsListed(nodes'[p.todo[i]], p.listed[p.todo[i]])
    BY DEF EditingInv, ToPatch
  <2>2. p.todo \in Seq(DOMAIN p.listed) /\ DOMAIN p.listed \subseteq Ids
    BY <2>1 DEF EditingInv, ToPatch, Updating
  <2>3. PICK id : id = p.todo[i] OBVIOUS
  <2>4. id \in Ids BY <2>2, <2>3
  <2>5. id \notin touched[d] /\ AsListed(nodes'[id], nodes[id]) BY <2>1, <2>3, <2>4 DEF EditAlone
  <2>6. AsListed(nodes[id], p.listed[id]) BY <2>1, <2>3, <2>5 DEF EditingInv, ToPatch
  <2> QED BY <2>3, <2>5, <2>6 DEF AsListed
<1>2. Updating(p) => DOMAIN p.listed \subseteq Ids' BY DEF EditingInv, EditAlone
<1> QED BY <1>1, <1>2 DEF EditingInv

\* A step of the command c, which leads it to q.
LEMMA EditMoves ==
  ASSUME JDInv, EditInv, NEW c \in Cmds, NEW q, run' = [run EXCEPT ![c] = q],
         \A d \in Cmds : d # c => EditAlone(d), EditingInv(c, q)', TypedNodes(nodes)',
         touched' = [d \in Cmds |-> touched'[d]]
  PROVE  EditInv'
<1>1. ASSUME NEW d \in Cmds PROVE EditingInv(d, run[d])'
  <2>1. CASE d = c
    <3>1. run'[c] = q BY EditKnown
    <3> QED BY <2>1, <3>1
  <2>2. CASE d # c
    <3>1. PICK p : p = run[d] OBVIOUS
    <3>2. EditingInv(d, p) BY <3>1 DEF EditInv
    <3>3. EditingInv(d, p)' BY <2>2, <3>2, EditBystander
    <3>4. run'[d] = p BY <2>2, <3>1, EditKnown
    <3> QED BY <3>3, <3>4
  <2> QED BY <2>1, <2>2
<1> QED BY <1>1 DEF EditInv

\* A step that changes no node.
LEMMA EditQuiet ==
  ASSUME JDInv, EditInv, NEW c \in Cmds, NEW q, run' = [run EXCEPT ![c] = q],
         nodes' = nodes, touched' = touched, EditingInv(c, q)
  PROVE  EditInv'
<1>1. \A d \in Cmds : EditAlone(d) BY DEF EditAlone, AsListed, Ids
<1>2. EditingInv(c, q)' BY <1>1, EditBystander
<1>3. TypedNodes(nodes)' BY DEF EditInv, TypedNodes
<1>4. touched' = [d \in Cmds |-> touched'[d]] BY DEF EditInv
<1> QED BY <1>1, <1>2, <1>3, <1>4, EditMoves

\* A command that has ended, or does not work on a list of nodes.
LEMMA EditElsewhere ==
  ASSUME NEW c, NEW q, q.pc \notin {"register", "patch", "update", "batchupdate"}
  PROVE  EditingInv(c, q) /\ EditingInv(c, q)'
BY DEF EditingInv, Updating

\* The labels of a command line.
LEMMA LabelsTyped == Seq(LabelRecords) \subseteq Labelled
<1>1. LabelRecords \subseteq TextLabels BY DEF LabelRecords, TextLabels, Text
<1>2. \A T, U : T \subseteq U => Seq(T) \subseteq Seq(U) OBVIOUS
<1> QED BY <1>1, <1>2, Zenon DEF Labelled

\* The arguments that change labels.
LEMMA LineTyped ==
  ASSUME NEW k \in CommandLines
  PROVE  /\ k.kind = "register" => k.nodes \in Seq(NodeArgs)
         /\ k.kind = "patch" => IsPatch(k.patch)
         /\ k.kind = "update" => k.labels \in Labelled
         /\ k.kind = "batchupdate" => k.requests \in Seq(NodeRequests)
<1>1. k.kind = "patch" => IsPatch(k.patch)
  <2>1. SUFFICES ASSUME k.kind = "patch" PROVE IsPatch(k.patch) OBVIOUS
  <2>2. IsFiniteSet(DOMAIN k.patch) BY <2>1, JDAssumption
  <2>3. ASSUME NEW key \in DOMAIN k.patch PROVE key \in Text /\ k.patch[key] \in Text
    <3>1. PICK r : r = [key |-> key, val |-> k.patch[key]] OBVIOUS
    <3>2. r \in LabelRecords BY <2>1, <3>1, JDAssumption
    <3>3. r.key \in STRING /\ r.val \in STRING BY <3>2 DEF LabelRecords
    <3>4. key \in STRING /\ k.patch[key] \in STRING BY <3>1, <3>3
    <3> QED BY <3>4 DEF Text
  <2> QED BY <2>2, <2>3 DEF IsPatch
<1>2. k.kind = "update" => k.labels \in Labelled
  <2>1. SUFFICES ASSUME k.kind = "update" PROVE k.labels \in Labelled OBVIOUS
  <2>2. PICK r : r = [name |-> k.name, key |-> k.key, labels |-> k.labels] OBVIOUS
  <2>3. r \in NodeConfigs BY <2>1, <2>2, JDAssumption
  <2>4. r.labels \in Seq(LabelRecords) BY <2>3 DEF NodeConfigs
  <2> QED BY <2>2, <2>4, LabelsTyped
<1> QED BY <1>1, <1>2, JDAssumption

\* The nodes that the server starts with and those that are registered are typed.
LEMMA NodeTyped ==
  ASSUME NEW n \in NodeArgs, NEW m, m = NewNode(n)
  PROVE  m.labels = NodeLabels(n.extra, n.type) /\ TypedNode(m)
<1>1. PICK E, t : E = n.extra /\ t = n.type OBVIOUS
<1>2. E \in Seq(LabelRecords) /\ t \in STRING BY <1>1 DEF NodeArgs
<1>3. E \in Labelled BY <1>2, LabelsTyped
<1>4. t \in Text BY <1>2 DEF Text
<1>5. NodeLabels(E, t) \in Labelled BY <1>3, <1>4, ScopeRegistered
<1>6. m.labels = NodeLabels(E, t) BY <1>1 DEF NewNode
<1>7. m = [name |-> m.name, key |-> m.key, enabled |-> m.enabled, labels |-> m.labels] BY DEF NewNode
<1> QED BY <1>1, <1>5, <1>6, <1>7 DEF TypedNode

\* Before any command.
LEMMA EditStart == JDInit => EditInv
<1> SUFFICES ASSUME JDInit PROVE EditInv OBVIOUS
<1>1. InitialNodes \in Seq(NodeArgs) BY JDAssumption
<1>2. PICK disabled : nodes = [i \in DOMAIN InitialNodes |->
                [NewNode(InitialNodes[i]) EXCEPT !.enabled = i \notin disabled]]
  BY DEF JDInit
<1>3. TypedNodes(nodes)
  <2>1. SUFFICES ASSUME NEW i \in DOMAIN InitialNodes PROVE TypedNode(nodes[i])
    BY <1>2 DEF TypedNodes
  <2>2. PICK n, m : n = InitialNodes[i] /\ m = NewNode(n) OBVIOUS
  <2>3. n \in NodeArgs BY <1>1, <2>2
  <2>4. nodes[i] = [m EXCEPT !.enabled = i \notin disabled] BY <1>2, <2>2
  <2>5. TypedNode(m) BY <2>2, <2>3, NodeTyped
  <2> QED BY <2>4, <2>5 DEF TypedNode
<1>4. touched = [c \in Cmds |-> touched[c]] /\ \A c \in Cmds : run[c] = Idle BY DEF JDInit
<1>5. \A c \in Cmds : EditingInv(c, run[c])
  <2>1. Idle.pc = "idle" BY IdleFacts
  <2> QED BY <1>4, <2>1, EditElsewhere
<1> QED BY <1>3, <1>4, <1>5 DEF EditInv

\* What an UpdateNode call makes of a node.
LEMMA NodeUpdated ==
  ASSUME ServerInv, TypedNodes(nodes), NEW id, NEW req, UpdateNode(id, req)
  PROVE  /\ DOMAIN nodes' = Ids /\ Ids' = Ids
         /\ \A i \in Ids : i # id => nodes'[i] = nodes[i]
         /\ id \in Ids =>
              /\ nodes'[id].labels \in LabelsAfter(nodes[id].labels, req.labels)
              /\ nodes'[id].name \in {nodes[id].name, req.name}
              /\ nodes'[id].key \in {nodes[id].key, req.key}
              /\ AsListed(nodes'[id], nodes[id]) => nodes'[id] = nodes[id]
         /\ req.labels \in Labelled => TypedNodes(nodes)'
         /\ id \notin Ids => nodes' = nodes
<1>1. PICK l \in LabelsAfter(nodes[id].labels, req.labels) :
        nodes' = [nodes EXCEPT ![id].name = IF Clears(req.name) THEN @ ELSE req.name,
                               ![id].key = IF Clears(req.key) THEN @ ELSE req.key,
                               ![id].labels = l]
  BY Zenon DEF UpdateNode, Clears
<1>2. nodes = [i \in Ids |-> nodes[i]] /\ Ids = DOMAIN nodes
  BY DEF ServerInv, IsSeq, Ids
<1>3. DOMAIN nodes' = Ids /\ Ids' = Ids BY <1>1 DEF Ids
<1>4. \A i \in Ids : i # id => nodes'[i] = nodes[i] BY <1>1, <1>2
<1>5. id \notin Ids => nodes' = nodes BY <1>1, <1>2
<1>6. ASSUME id \in Ids
      PROVE  /\ nodes'[id].labels = l
             /\ nodes'[id].name \in {nodes[id].name, req.name}
             /\ nodes'[id].key \in {nodes[id].key, req.key}
             /\ AsListed(nodes'[id], nodes[id]) => nodes'[id] = nodes[id]
             /\ req.labels \in Labelled => TypedNode(nodes'[id])
  <2>1. PICK n : n = nodes[id] OBVIOUS
  <2>2. n = [name |-> n.name, key |-> n.key, enabled |-> n.enabled, labels |-> n.labels]
    BY <1>2, <1>6, <2>1 DEF TypedNodes, TypedNode
  <2>3. nodes'[id] = [n EXCEPT !.name = IF Clears(req.name) THEN @ ELSE req.name,
                               !.key = IF Clears(req.key) THEN @ ELSE req.key,
                               !.labels = l]
    BY <1>1, <1>2, <1>6, <2>1, <2>2
  <2>4. PICK a, b : /\ a = IF Clears(req.name) THEN n.name ELSE req.name
                    /\ b = IF Clears(req.key) THEN n.key ELSE req.key
    OBVIOUS
  <2>5. nodes'[id] = [name |-> a, key |-> b, enabled |-> n.enabled, labels |-> l]
    BY <2>2, <2>3, <2>4
  <2>6. AsListed(nodes'[id], n) => nodes'[id] = n BY <2>2, <2>5 DEF AsListed
  <2>7. l \in Labelled => TypedNode(nodes'[id]) BY <2>5 DEF TypedNode
  <2>8. n.labels \in Labelled BY <1>2, <1>6, <2>1 DEF TypedNodes, TypedNode
  <2>9. req.labels \in Labelled => l \in Labelled BY <1>1, <2>1, <2>8 DEF LabelsAfter
  <2> QED BY <2>1, <2>4, <2>5, <2>6, <2>7, <2>9
<1>7. req.labels \in Labelled => TypedNodes(nodes)'
  <2>1. SUFFICES ASSUME req.labels \in Labelled, NEW i \in Ids PROVE TypedNode(nodes'[i])
    BY <1>3 DEF TypedNodes
  <2>2. TypedNode(nodes[i]) BY <1>2 DEF TypedNodes
  <2>3. i # id => TypedNode(nodes'[i]) BY <1>4, <2>2
  <2> QED BY <1>6, <2>1, <2>3
<1> QED BY <1>1, <1>3, <1>4, <1>5, <1>6, <1>7

\* The rest of a list.
LEMMA TailFacts ==
  ASSUME NEW T, NEW s \in Seq(T), s # <<>>
  PROVE  /\ Len(s) \in Nat /\ 1 \in 1..Len(s) /\ Head(s) = s[1] /\ Head(s) \in T
         /\ Tail(s) \in Seq(T) /\ (Len(s) # 1 => Tail(s) # <<>>)
         /\ \A i \in 1..Len(Tail(s)) : i + 1 \in 1..Len(s) /\ i + 1 # 1 /\ Tail(s)[i] = s[i + 1]
<1>1. Len(s) \in Nat /\ Len(s) # 0 OBVIOUS
<1>2. Tail(s) \in Seq(T) /\ Len(Tail(s)) = Len(s) - 1 OBVIOUS
<1>3. Len(s) # 1 => Len(Tail(s)) # 0 BY <1>1, <1>2
<1> QED BY <1>1, <1>2, <1>3

\* A command goes on to the next of its list, and has changed at most the first node.
LEMMA EditNext ==
  ASSUME NEW c \in Cmds, NEW p, EditingInv(c, p), Updating(p), Len(p.todo) # 1,
         DOMAIN p = RunFields, NEW q, q = [p EXCEPT !.todo = Tail(@)],
         p.pc \in {"patch", "batchupdate"},
         Ids \subseteq Ids', touched'[c] = touched[c],
         p.pc = "patch" => \A i \in Ids : i # Head(p.todo) => nodes'[i] = nodes[i]
  PROVE  EditingInv(c, q)'
<1>1. /\ q.pc = p.pc /\ q.todo = Tail(p.todo) /\ q.listed = p.listed /\ q.cmd = p.cmd
  BY DEF RunFields
<1>2. /\ DOMAIN p.listed \subseteq Ids /\ TypedNodes(p.listed) /\ p.todo # <<>>
      /\ p.pc = "patch" => ToPatch(c, p)
      /\ p.pc = "batchupdate" => p.todo \in Seq(NodeRequests)
  BY DEF EditingInv
<1>3. CASE p.pc = "batchupdate"
  <2>1. q.todo \in Seq(NodeRequests) /\ q.todo # <<>> BY <1>1, <1>2, <1>3, TailFacts
  <2> QED BY <1>1, <1>2, <1>3, <2>1 DEF EditingInv, Updating
<1>4. CASE p.pc = "patch"
  <2>1. PICK S, s, t : S = DOMAIN p.listed /\ s = p.todo /\ t = Tail(s) OBVIOUS
  <2>2. /\ s \in Seq(S) /\ s # <<>> /\ S \subseteq Ids
        /\ \A i, j \in 1..Len(s) : s[i] = s[j] => i = j
        /\ \A i \in 1..Len(s) : s[i] \notin touched[c] => AsListed(nodes[s[i]], p.listed[s[i]])
    BY <1>2, <1>4, <2>1 DEF ToPatch
  <2>3. /\ Len(s) \in Nat /\ 1 \in 1..Len(s) /\ Head(s) = s[1]
        /\ t \in Seq(S) /\ t # <<>> /\ Len(t) \in Nat
        /\ \A i \in 1..Len(t) : i + 1 \in 1..Len(s) /\ i + 1 # 1 /\ t[i] = s[i + 1]
    BY <2>1, <2>2, TailFacts
  <2>4. \A i, j \in 1..Len(t) : t[i] = t[j] => i = j
    <3>1. SUFFICES ASSUME NEW i \in 1..Len(t), NEW j \in 1..Len(t), t[i] = t[j] PROVE i = j OBVIOUS
    <3>2. i + 1 = j + 1 BY <2>2, <2>3, <3>1
    <3> QED BY <3>2
  <2>5. ASSUME NEW i \in 1..Len(t), t[i] \notin touched'[c]
        PROVE  AsListed(nodes'[t[i]], p.listed[t[i]])
    <3>1. PICK k : k = i + 1 OBVIOUS
    <3>2. k \in 1..Len(s) /\ k # 1 /\ t[i] = s[k] BY <2>3, <3>1
    <3>3. s[k] # Head(s) /\ s[k] \in Ids BY <2>2, <2>3, <3>2
    <3>4. nodes'[s[k]] = nodes[s[k]] BY <1>4, <2>1, <3>3
    <3>5. AsListed(nodes[s[k]], p.listed[s[k]]) BY <2>2, <2>5, <3>2
    <3> QED BY <3>2, <3>4, <3>5
  <2>6. ToPatch(c, q)'
    <3>1. q.todo = t /\ q.listed = p.listed /\ DOMAIN q.listed = S BY <1>1, <2>1
    <3>2. q.todo \in Seq(DOMAIN q.listed) BY <2>3, <3>1
    <3>3. \A i, j \in 1..Len(q.todo) : q.todo[i] = q.todo[j] => i = j BY <2>4, <3>1
    <3>4. \A i \in 1..Len(q.todo) :
            q.todo[i] \notin touched'[c] => AsListed(nodes'[q.todo[i]], q.listed[q.todo[i]])
      BY <2>5, <3>1
    <3> QED BY <3>2, <3>3, <3>4, Zenon DEF ToPatch
  <2> QED BY <1>1, <1>2, <1>4, <2>1, <2>3, <2>6 DEF EditingInv, Updating
<1> QED BY <1>3, <1>4

\* The command c, in the state p, sends an UpdateNode call, or changes nothing.
SendsUpdate(c, id, req) == \E out \in Outcomes : SendUpdate(c, id, req, out)
Stays(c, p) ==
  /\ nodes' = nodes /\ touched' = touched /\ left' = left
  /\ \E q : /\ run' = [run EXCEPT ![c] = q]
            /\ \/ q.pc = "done"
               \/ q = [p EXCEPT !.todo = Tail(@)] /\ Len(p.todo) # 1

\* What labels-patch sends for the next node, as it has listed it.
PatchRequest(p, req) ==
  LET old == p.listed[Head(p.todo)]
  IN  /\ Head(p.todo) \in DOMAIN p.listed /\ TypedNode(old)
      /\ req.name = old.name /\ req.key = old.key /\ req.labels \in Labelled
      /\ Cardinality(DOMAIN p.cmd.patch) <= 2 => PatchedTo(old.labels, req.labels, p.cmd.patch)

\* A command that has ended, or goes on after a step that changes nothing.
LEMMA FinishDone ==
  ASSUME NEW p, DOMAIN p = RunFields, NEW result
  PROVE  Finish(p, result).pc = "done"
BY Finished

\* A step of labels-patch.
LEMMA PatchSends ==
  ASSUME JDInv, EditInv, NEW c \in Cmds, NEW p, p = run[c], Patch(c)
  PROVE  /\ p.pc = "patch"
         /\ Stays(c, p) \/ \E req : SendsUpdate(c, Head(p.todo), req) /\ PatchRequest(p, req)
<1>1. p.pc = "patch" BY DEF Patch
<1>2. PICK id : id = Head(p.todo) OBVIOUS
<1>3. PICK order \in Orders(DOMAIN p.cmd.patch) :
          LET st == PatchLabels(p.listed[id].labels, p.cmd.patch, order)
             IN  CASE st.panic ->
                      /\ run' = [run EXCEPT ![c] = Finish(p, "panic")]
                      /\ UNCHANGED <<server, file, made, author, touched, left, raced>>
                 [] ~st.panic /\ p.cmd.dry ->
                      /\ run' = [run EXCEPT ![c] =
                           IF Len(p.todo) = 1 THEN Finish(p, "ok") ELSE [p EXCEPT !.todo = Tail(@)]]
                      /\ UNCHANGED <<server, file, made, author, touched, left, raced>>
                 [] ~st.panic /\ ~p.cmd.dry ->
                      \E out \in Outcomes :
                        SendUpdate(c, id, [name |-> p.listed[id].name, key |-> p.listed[id].key,
                                           labels |-> st.labels], out)
  BY <1>2, Zenon DEF Patch
<1>4. PICK old, patch : old = p.listed[id] /\ patch = p.cmd.patch OBVIOUS
<1>5. PICK st : st = PatchLabels(p.listed[id].labels, p.cmd.patch, order) OBVIOUS
<1>6. id \in DOMAIN p.listed /\ TypedNode(old)
  <2>1. /\ p.todo # <<>> /\ p.todo \in Seq(DOMAIN p.listed) /\ TypedNodes(p.listed)
    BY <1>1, EditKnown DEF EditingInv, ToPatch, Updating
  <2>2. id \in DOMAIN p.listed BY <1>2, <2>1, TailFacts
  <2> QED BY <1>4, <2>1, <2>2 DEF TypedNodes
<1>7. IsPatch(patch)
  <2>1. p.cmd.kind = "patch" /\ p.cmd \in CommandLines BY <1>1, Known DEF Doing
  <2> QED BY <1>4, <2>1, LineTyped
<1>8. DOMAIN p = RunFields BY Known
<1>9. CASE st.panic
  <2>1. run' = [run EXCEPT ![c] = Finish(p, "panic")] /\ nodes' = nodes /\ touched' = touched
        /\ left' = left
    BY <1>3, <1>5, <1>9 DEF server
  <2> QED BY <1>1, <1>8, <2>1, FinishDone DEF Stays
<1>10. CASE ~st.panic /\ p.cmd.dry
  <2>1. /\ run' = [run EXCEPT ![c] =
                     IF Len(p.todo) = 1 THEN Finish(p, "ok") ELSE [p EXCEPT !.todo = Tail(@)]]
        /\ nodes' = nodes /\ touched' = touched /\ left' = left
    BY <1>3, <1>5, <1>10 DEF server
  <2>2. PICK q : q = IF Len(p.todo) = 1 THEN Finish(p, "ok") ELSE [p EXCEPT !.todo = Tail(@)] OBVIOUS
  <2>3. q.pc = "done" \/ (q = [p EXCEPT !.todo = Tail(@)] /\ Len(p.todo) # 1)
    BY <1>8, <2>2, FinishDone
  <2> QED BY <1>1, <2>1, <2>2, <2>3 DEF Stays
<1>11. CASE ~st.panic /\ ~p.cmd.dry
  <2>1. PICK req : req = [name |-> p.listed[id].name, key |-> p.listed[id].key, labels |-> st.labels]
    OBVIOUS
  <2>2. PICK out \in Outcomes : SendUpdate(c, id, req, out) BY <1>3, <1>5, <1>11, <2>1
  <2>3. /\ st.labels \in Labelled
        /\ Cardinality(DOMAIN patch) <= 2 => PatchedTo(old.labels, st.labels, patch)
    <3>1. PICK L : L = old.labels OBVIOUS
    <3>2. L \in Labelled BY <1>6, <3>1 DEF TypedNode
    <3>3. st = PatchLabels(L, patch, order) /\ order \in Orders(DOMAIN patch) BY <1>4, <1>5, <3>1
    <3>4. /\ st.labels \in Labelled
          /\ Cardinality(DOMAIN patch) <= 2 => PatchedTo(L, st.labels, patch)
      BY <1>7, <3>2, <3>3, PatchSound
    <3> QED BY <3>1, <3>4
  <2>4. req.name = old.name /\ req.key = old.key /\ req.labels = st.labels BY <1>4, <2>1
  <2>5. PatchRequest(p, req) BY <1>2, <1>4, <1>6, <2>3, <2>4 DEF PatchRequest
  <2> QED BY <1>1, <1>2, <2>2, <2>5 DEF SendsUpdate
<1> QED BY <1>9, <1>10, <1>11

\* A step of update: the node is one that was found.
LEMMA UpdateSends ==
  ASSUME JDInv, EditInv, NEW c \in Cmds, NEW p, p = run[c], Update(c)
  PROVE  /\ p.pc = "update" /\ p.cmd \in CommandLines /\ p.cmd.kind = "update"
         /\ p.cmd.id \in DOMAIN p.listed /\ TypedNode(p.listed[p.cmd.id]) /\ p.cmd.labels \in Labelled
         /\ \/ Stays(c, p)
            \/ \E req : /\ SendsUpdate(c, p.cmd.id, req)
                        /\ req = UpdateRequest(p.cmd, p.listed[p.cmd.id])
                        /\ req.labels \in Labelled
<1>1. PICK id, old, req : id = p.cmd.id /\ old = p.listed[id] /\ req = UpdateRequest(p.cmd, old)
  OBVIOUS
<1>2. p.pc = "update" BY DEF Update
<1>a. Stays(c, p) \/ SendsUpdate(c, id, req)
  <2>1. CASE p.cmd.args # "ok"
    <3>1. run' = [run EXCEPT ![c] = Finish(p, p.cmd.args)]
          /\ UNCHANGED <<server, file, made, author, touched, left, raced>>
      BY <2>1, Zenon DEF Update
    <3>2. nodes' = nodes /\ touched' = touched /\ left' = left BY <3>1 DEF server
    <3>3. DOMAIN p = RunFields BY Known
    <3>4. Finish(p, p.cmd.args).pc = "done" BY <3>3, FinishDone
    <3> QED BY <3>1, <3>2, <3>4, Zenon DEF Stays
  <2>2. CASE p.cmd.args = "ok" BY <1>1, <2>2 DEF Update, SendsUpdate
  <2> QED BY <2>1, <2>2
<1>3. p.cmd.kind = "update" /\ p.cmd \in CommandLines BY <1>2, Known DEF Doing
<1>4. p.cmd.labels \in Labelled BY <1>3, LineTyped
<1>5. id \in DOMAIN p.listed /\ TypedNode(old)
  <2>1. p.cmd.id \in DOMAIN p.listed /\ TypedNodes(p.listed)
    BY <1>2, EditKnown DEF EditingInv, Updating
  <2> QED BY <1>1, <2>1 DEF TypedNodes
<1>6. req.labels \in Labelled
  <2>1. old.labels \in Labelled BY <1>5 DEF TypedNode
  <2>2. old.labels \o p.cmd.labels \in Labelled BY <1>4, <2>1 DEF Labelled
  <2>3. <<>> \in Labelled BY DEF Labelled
  <2>4. req.labels \in {<<>>, old.labels, old.labels \o p.cmd.labels} BY <1>1 DEF UpdateRequest
  <2> QED BY <2>1, <2>2, <2>3, <2>4
<1> QED BY <1>1, <1>2, <1>a, <1>3, <1>4, <1>5, <1>6

\* A step of batch-update.
LEMMA BatchSends ==
  ASSUME JDInv, EditInv, NEW c \in Cmds, NEW p, p = run[c], BatchUpdate(c)
  PROVE  /\ p.pc = "batchupdate"
         /\ Stays(c, p) \/ \E id, req : SendsUpdate(c, id, req) /\ req.labels \in Labelled
<1>1. PICK r, req : r = Head(p.todo) /\ req = ConfigRequest(r) OBVIOUS
<1>2. p.pc = "batchupdate" BY DEF BatchUpdate
<1>3. p.todo # <<>> /\ p.todo \in Seq(NodeRequests) BY <1>2, EditKnown DEF EditingInv, Updating
<1>4. req.labels \in Labelled
  <2>1. r \in NodeRequests BY <1>1, <1>3, TailFacts
  <2>2. r.cfg \in NodeConfigs BY <2>1 DEF NodeRequests
  <2>3. r.cfg.labels \in Seq(LabelRecords) BY <2>2 DEF NodeConfigs
  <2>4. req.labels = r.cfg.labels BY <1>1 DEF ConfigRequest
  <2> QED BY <2>3, <2>4, LabelsTyped
<1>5. \/ /\ run' = [run EXCEPT ![c] = Finish(p, "err")]
         /\ UNCHANGED <<server, file, made, author, touched, left, raced>>
      \/ \E id : \E out \in Outcomes : SendUpdate(c, id, req, out)
  BY <1>1, Zenon DEF BatchUpdate
<1>6. CASE run' = [run EXCEPT ![c] = Finish(p, "err")]
           /\ UNCHANGED <<server, file, made, author, touched, left, raced>>
  <2>1. DOMAIN p = RunFields BY Known
  <2>2. nodes' = nodes /\ touched' = touched /\ left' = left BY <1>6 DEF server
  <2> QED BY <1>2, <1>6, <2>1, <2>2, FinishDone DEF Stays
<1>7. CASE \E id : \E out \in Outcomes : SendUpdate(c, id, req, out)
  BY <1>2, <1>4, <1>7 DEF SendsUpdate
<1> QED BY <1>5, <1>6, <1>7

\* A command that changes nodes moves with each call: it ends, or has one entry less.
LEMMA UpdatingMoves ==
  ASSUME JDInv, EditInv, NEW c \in Cmds, NEW p, p = run[c], Updating(p), NEW q,
         q.pc = "done" \/ (q = [p EXCEPT !.todo = Tail(@)] /\ Len(p.todo) # 1)
  PROVE  q # p /\ (q.pc # "done" => p.pc \in {"patch", "batchupdate"})
<1>1. DOMAIN p = RunFields BY Known
<1>2. EditingInv(c, p) BY EditKnown
<1>3. CASE q.pc = "done" BY <1>3 DEF Updating
<1>4. CASE q = [p EXCEPT !.todo = Tail(@)] /\ Len(p.todo) # 1
  <2>1. p.pc # "update"
    <3>1. SUFFICES ASSUME p.pc = "update" PROVE Len(p.todo) = 1 BY <1>4
    <3>2. PICK id : p.todo = <<id>> BY <1>2, <3>1 DEF EditingInv
    <3> QED BY <3>2
  <2>2. PICK T : p.todo \in Seq(T) BY <1>2, <2>1 DEF EditingInv, ToPatch, Updating
  <2>3. PICK s : s = p.todo OBVIOUS
  <2>4. s \in Seq(T) /\ s # <<>> BY <1>2, <2>2, <2>3 DEF EditingInv
  <2>5. Len(Tail(s)) = Len(s) - 1 /\ Len(s) \in Nat BY <2>4
  <2>6. Tail(s) # s BY <2>5
  <2>7. q.todo = Tail(s) BY <1>1, <1>4, <2>3 DEF RunFields
  <2> QED BY <2>1, <2>3, <2>6, <2>7 DEF Updating
<1> QED BY <1>3, <1>4

\* What a call of such a command does.
LEMMA Sent ==
  ASSUME JDInv, EditInv, NEW c \in Cmds, NEW p, p = run[c], Updating(p), NEW id, NEW req,
         SendsUpdate(c, id, req)
  PROVE  /\ \E q : /\ run' = [run EXCEPT ![c] = q]
                   /\ q.pc = "done" \/ (q = [p EXCEPT !.todo = Tail(@)] /\ Len(p.todo) # 1)
         /\ run'[c] # p
         /\ \/ nodes' = nodes /\ touched' = touched /\ left' = left
            \/ UpdateNode(id, req) /\ NodesChanged(c, id)
<1>1. PICK out \in Outcomes : SendUpdate(c, id, req, out) BY DEF SendsUpdate
<1>2. PICK q : q = IF out # "answered" THEN Finish(p, "err")
                   ELSE IF Len(p.todo) = 1 THEN Finish(p, "ok")
                   ELSE [p EXCEPT !.todo = Tail(@)]
  OBVIOUS
<1>3. run' = [run EXCEPT ![c] = q] BY <1>1, <1>2, Zenon DEF SendUpdate
<1>4. DOMAIN p = RunFields BY Known
<1>5. q.pc = "done" \/ (q = [p EXCEPT !.todo = Tail(@)] /\ Len(p.todo) # 1)
  BY <1>2, <1>4, FinishDone
<1>6. run'[c] # p
  <2>1. run'[c] = q BY <1>3, EditKnown
  <2>2. q # p BY <1>5, UpdatingMoves
  <2> QED BY <2>1, <2>2
<1>7. \/ nodes' = nodes /\ touched' = touched /\ left' = left
      \/ UpdateNode(id, req) /\ NodesChanged(c, id)
  BY <1>1 DEF SendUpdate
<1> QED BY <1>3, <1>5, <1>6, <1>7

\* A step that leads the command on, and changes at most the node it is at.
LEMMA EditOn ==
  ASSUME JDInv, EditInv, NEW c \in Cmds, NEW p, p = run[c], Updating(p), NEW q,
         run' = [run EXCEPT ![c] = q],
         q.pc = "done" \/ (q = [p EXCEPT !.todo = Tail(@)] /\ Len(p.todo) # 1),
         \A d \in Cmds : d # c => EditAlone(d), TypedNodes(nodes)',
         touched' = [d \in Cmds |-> touched'[d]], Ids' = Ids, touched'[c] = touched[c],
         p.pc = "patch" => \A i \in Ids : i # Head(p.todo) => nodes'[i] = nodes[i]
  PROVE  EditInv'
<1>1. EditingInv(c, q)'
  <2>1. CASE q.pc = "done" BY <2>1, EditElsewhere
  <2>2. CASE q.pc # "done"
    <3>1. p.pc \in {"patch", "batchupdate"} BY <2>2, UpdatingMoves
    <3>2. EditingInv(c, p) /\ DOMAIN p = RunFields BY EditKnown, Known
    <3> QED BY <2>2, <3>1, <3>2, EditNext
  <2> QED BY <2>1, <2>2
<1> QED BY <1>1, EditMoves

\* A step that changes nothing else.
LEMMA EditStays ==
  ASSUME JDInv, EditInv, NEW c \in Cmds, NEW p, p = run[c], Updating(p), Stays(c, p)
  PROVE  EditInv'
<1>1. PICK q : /\ run' = [run EXCEPT ![c] = q]
               /\ q.pc = "done" \/ (q = [p EXCEPT !.todo = Tail(@)] /\ Len(p.todo) # 1)
  BY DEF Stays
<1>2. nodes' = nodes /\ touched' = touched BY DEF Stays
<1>3. \A d \in Cmds : EditAlone(d) BY <1>2 DEF EditAlone, AsListed, Ids
<1>4. TypedNodes(nodes)' /\ Ids' = Ids BY <1>2 DEF EditInv, TypedNodes, Ids
<1>5. touched' = [d \in Cmds |-> touched'[d]] BY <1>2 DEF EditInv
<1> QED BY <1>1, <1>2, <1>3, <1>4, <1>5, EditOn

\* A step that updates a node touches it for all the other commands.
LEMMA EditSends ==
  ASSUME JDInv, EditInv, NEW c \in Cmds, NEW p, p = run[c], Updating(p), NEW id, NEW req,
         SendsUpdate(c, id, req), req.labels \in Labelled, p.pc = "patch" => id = Head(p.todo)
  PROVE  EditInv'
<1>1. PICK q : /\ run' = [run EXCEPT ![c] = q]
               /\ q.pc = "done" \/ (q = [p EXCEPT !.todo = Tail(@)] /\ Len(p.todo) # 1)
  BY Sent
<1>2. CASE nodes' = nodes /\ touched' = touched /\ left' = left
  BY <1>1, <1>2, EditStays DEF Stays
<1>3. CASE UpdateNode(id, req) /\ NodesChanged(c, id)
  <2>1. /\ Ids' = Ids /\ TypedNodes(nodes)'
        /\ \A i \in Ids : i # id => nodes'[i] = nodes[i]
    BY <1>3, NodeUpdated DEF JDInv, EditInv
  <2>2. touched' = [d \in Cmds |-> IF d = c THEN touched[d] ELSE touched[d] \union {id}]
    BY <1>3 DEF NodesChanged
  <2>3. ASSUME NEW d \in Cmds, d # c PROVE EditAlone(d)
    <3>1. touched'[d] = touched[d] \cup {id} BY <2>2, <2>3
    <3> QED BY <2>1, <3>1 DEF EditAlone, AsListed
  <2>4. touched' = [d \in Cmds |-> touched'[d]] /\ touched'[c] = touched[c] BY <2>2
  <2> QED BY <1>1, <2>1, <2>3, <2>4, EditOn
<1> QED BY <1>2, <1>3, Sent

\* labels-patch, update and batch-update.
LEMMA EditUpdating ==
  ASSUME JDInv, EditInv, NEW c \in Cmds, Patch(c) \/ Update(c) \/ BatchUpdate(c)
  PROVE  EditInv'
<1>1. PICK p : p = run[c] OBVIOUS
<1>2. CASE Patch(c)
  <2>1. p.pc = "patch" /\ Updating(p) BY <1>1, <1>2, PatchSends DEF Updating
  <2>2. CASE Stays(c, p) BY <1>1, <2>1, <2>2, EditStays
  <2>3. CASE \E req : SendsUpdate(c, Head(p.todo), req) /\ PatchRequest(p, req)
    <3>1. PICK id, req : id = Head(p.todo) /\ SendsUpdate(c, id, req) /\ PatchRequest(p, req)
      BY <2>3
    <3>2. req.labels \in Labelled BY <3>1 DEF PatchRequest
    <3> QED BY <1>1, <2>1, <3>1, <3>2, EditSends
  <2> QED BY <1>1, <1>2, <2>2, <2>3, PatchSends
<1>3. CASE Update(c)
  <2>1. p.pc = "update" /\ Updating(p) BY <1>1, <1>3, UpdateSends DEF Updating
  <2>2. CASE Stays(c, p) BY <1>1, <2>1, <2>2, EditStays
  <2>3. CASE \E id, req : SendsUpdate(c, id, req) /\ req.labels \in Labelled
    BY <1>1, <2>1, <2>3, EditSends
  <2> QED BY <1>1, <1>3, <2>2, <2>3, UpdateSends
<1>4. CASE BatchUpdate(c)
  <2>1. p.pc = "batchupdate" /\ Updating(p) BY <1>1, <1>4, BatchSends DEF Updating
  <2>2. CASE Stays(c, p) BY <1>1, <2>1, <2>2, EditStays
  <2>3. CASE \E id, req : SendsUpdate(c, id, req) /\ req.labels \in Labelled
    BY <1>1, <2>1, <2>3, EditSends
  <2> QED BY <1>1, <1>4, <2>2, <2>3, BatchSends
<1> QED BY <1>2, <1>3, <1>4

\* What RegisterNode does to the nodes, and where it leads the command.
LEMMA Registered ==
  ASSUME JDInv, EditInv, NEW c \in Cmds, NEW p, p = run[c], RegisterNode(c),
         NEW n, n = Head(p.todo)
  PROVE  /\ p.pc = "register" /\ n \in NodeArgs /\ touched' = touched
         /\ \E q : /\ run' = [run EXCEPT ![c] = q] /\ q # p
                   /\ \/ q.pc \in {"done", "read"}
                      \/ q.pc = "register" /\ q.todo \in Seq(NodeArgs)
         /\ \/ nodes' = nodes /\ left' = left
            \/ nodes' = Append(nodes, NewNode(n)) /\ left' = left \union OutOfScope(nodes')
<1>1. PICK id : id = Len(nodes) + 1 OBVIOUS
<1>2. PICK out \in Outcomes :
        /\ p.pc = "register"
        /\ IF Applied(c, out)
           THEN /\ nodes' = Append(nodes, NewNode(n))
                /\ made' = [made EXCEPT ![c] = @ \union {id}]
                /\ left' = left \union OutOfScope(nodes')
           ELSE UNCHANGED <<nodes, made, left>>
        /\ run' = [run EXCEPT ![c] =
             IF ~(out = "answered" /\ ~p.cmd.dryClient) THEN Finish(p, "err")
             ELSE [p EXCEPT !.ids = @ \union {id}, !.todo = Tail(@),
                            !.pc = IF Len(p.todo) = 1 THEN "read" ELSE "register"]]
        /\ UNCHANGED <<jobs, props, file, author, touched, raced>>
  BY <1>1 DEF RegisterNode
<1>3. DOMAIN p = RunFields /\ p.todo \in Seq(NodeArgs) /\ p.todo # <<>>
  BY <1>2, Known, EditKnown
<1>4. PICK s, t : s = p.todo /\ t = Tail(s) OBVIOUS
<1>5. n \in NodeArgs /\ t \in Seq(NodeArgs) /\ t # s
  <2>1. s \in Seq(NodeArgs) /\ s # <<>> BY <1>3, <1>4
  <2>2. Len(Tail(s)) = Len(s) - 1 /\ Len(s) \in Nat BY <2>1
  <2>3. Head(s) \in NodeArgs /\ Tail(s) \in Seq(NodeArgs) BY <2>1, TailFacts
  <2>4. Tail(s) # s BY <2>2
  <2>5. n = Head(s) BY <1>4
  <2> QED BY <1>4, <2>3, <2>4, <2>5, Zenon
<1>6. PICK q : q = IF ~(out = "answered" /\ ~p.cmd.dryClient) THEN Finish(p, "err")
             ELSE [p EXCEPT !.ids = @ \union {id}, !.todo = Tail(@),
                            !.pc = IF Len(p.todo) = 1 THEN "read" ELSE "register"]
  OBVIOUS
<1>7. run' = [run EXCEPT ![c] = q] BY <1>2, <1>6
<1>8. q # p /\ (q.pc \in {"done", "read"} \/ (q.pc = "register" /\ q.todo \in Seq(NodeArgs)))
  <2>1. CASE ~(out = "answered" /\ ~p.cmd.dryClient)
    <3>1. q.pc = "done" BY <1>3, <1>6, <2>1, FinishDone
    <3> QED BY <1>2, <3>1
  <2>2. CASE out = "answered" /\ ~p.cmd.dryClient
    <3>1. q.todo = t /\ q.pc \in {"read", "register"} BY <1>3, <1>4, <1>6, <2>2 DEF RunFields
    <3> QED BY <1>4, <1>5, <3>1
  <2> QED BY <2>1, <2>2
<1> QED BY <1>2, <1>5, <1>7, <1>8

\* A registration adds a node.
LEMMA EditRegisters ==
  ASSUME JDInv, EditInv, NEW c \in Cmds, RegisterNode(c)
  PROVE  EditInv'
<1>1. PICK p, n, m : p = run[c] /\ n = Head(p.todo) /\ m = NewNode(n) OBVIOUS
<1>2. PICK q : /\ run' = [run EXCEPT ![c] = q]
               /\ \/ q.pc \in {"done", "read"}
                  \/ q.pc = "register" /\ q.todo \in Seq(NodeArgs)
  BY <1>1, Registered
<1>3. touched' = touched /\ n \in NodeArgs BY <1>1, Registered
<1>4. EditingInv(c, q) /\ EditingInv(c, q)' BY <1>2 DEF EditingInv, Updating
<1>5. CASE nodes' = nodes BY <1>2, <1>3, <1>4, <1>5, EditQuiet
<1>6. CASE nodes' = Append(nodes, m)
  <2>1. PICK s, k : s = nodes /\ k = Len(nodes) OBVIOUS
  <2>2. /\ k \in Nat /\ Ids = 1..k /\ Ids' = 1..(k + 1)
        /\ \A i \in 1..k : nodes'[i] = nodes[i]
        /\ nodes'[k + 1] = m
    <3>1. IsSeq(s) BY <2>1 DEF JDInv, ServerInv, IsSeq, SeqRange
    <3>2. /\ Len(s) \in Nat /\ DOMAIN s = 1..Len(s)
          /\ DOMAIN Append(s, m) = 1..(Len(s) + 1)
          /\ \A i \in 1..Len(s) : Append(s, m)[i] = s[i]
          /\ Append(s, m)[Len(s) + 1] = m
      BY <3>1, Longest
    <3> QED BY <1>6, <2>1, <3>2 DEF Ids
  <2>3. TypedNode(m) BY <1>1, <1>3, NodeTyped
  <2>4. TypedNodes(nodes)'
    <3>1. SUFFICES ASSUME NEW i \in 1..(k + 1) PROVE TypedNode(nodes'[i])
      BY <2>2 DEF TypedNodes, Ids
    <3>2. i \in 1..k \/ i = k + 1 BY <2>2
    <3>3. \A j \in 1..k : TypedNode(nodes[j]) BY <2>2 DEF EditInv, TypedNodes, Ids
    <3> QED BY <2>2, <2>3, <3>2, <3>3
  <2>5. \A d \in Cmds : EditAlone(d) BY <1>3, <2>2 DEF EditAlone, AsListed
  <2>6. touched' = [d \in Cmds |-> touched'[d]] BY <1>3 DEF EditInv
  <2> QED BY <1>2, <1>4, <2>4, <2>5, <2>6, EditMoves
<1> QED BY <1>1, <1>5, <1>6, Registered

\* The command has the answer to its listing: nobody has touched the nodes since.
LEMMA EditAnswers ==
  ASSUME JDInv, EditInv, NEW c \in Cmds, run[c].pc \in {"list", "filter"}, NEW found, NEW seen,
         Answer(c, found, seen), found \subseteq DOMAIN seen, DOMAIN seen \subseteq Ids,
         \A id \in DOMAIN seen : seen[id] = nodes[id],
         run[c].cmd.kind = "update" => found \subseteq {run[c].cmd.id}
  PROVE  EditInv'
<1>1. PICK p : p = run[c] OBVIOUS
<1>3. PICK order \in Orders(found) :
        run' = [run EXCEPT ![c] = Onwards([run[c] EXCEPT !.listed = seen, !.ids = found],
                                          AfterList(p.cmd, found, order))]
  BY <1>1, Zenon DEF Answer
<1>4. /\ p.pc \in {"list", "filter"} /\ nodes' = nodes /\ touched' = [touched EXCEPT ![c] = {}]
  BY <1>1 DEF Answer, server
<1>5. PICK goal, p0, q :
        /\ goal = AfterList(p.cmd, found, order) /\ p0 = [p EXCEPT !.listed = seen, !.ids = found]
        /\ q = Onwards(p0, goal)
  OBVIOUS
<1>6. run' = [run EXCEPT ![c] = q] BY <1>1, <1>3, <1>5
<1>7. Doing(p) /\ DOMAIN p = RunFields BY <1>1, Known
<1>8. p.cmd \in CommandLines /\ p.cmd.kind \in {"patch", "propose", "saveall", "update", "batchupdate"}
  <2>1. p.cmd \in CommandLines /\ p.cmd.kind \notin {"register", "batchpropose"} BY <1>4, <1>7 DEF Doing
  <2> QED BY <2>1, LineTypes
<1>9. DOMAIN p0 = RunFields /\ p0.cmd = p.cmd /\ p0.listed = seen BY <1>5, <1>7 DEF RunFields
<1>10. TypedNodes(nodes) /\ touched = [d \in Cmds |-> touched[d]] BY DEF EditInv
<1>11. EditingInv(c, q)'
  <2>1. CASE goal[1] = "end" \/ (goal[1] # "write" /\ goal[2] = <<>>)
    <3>1. PICK result : q = Finish(p0, result) BY <1>5, <2>1 DEF Onwards
    <3>2. q.pc = "done" BY <1>9, <3>1, FinishDone
    <3> QED BY <3>2, EditElsewhere
  <2>2. CASE ~(goal[1] = "end" \/ (goal[1] # "write" /\ goal[2] = <<>>))
    <3>1. q = [p0 EXCEPT !.pc = goal[1], !.todo = goal[2],
                         !.base = IF p0.cmd.kind = "saveall" THEN file ELSE {}]
      BY <1>5, <2>2 DEF Onwards
    <3>2. q.pc = goal[1] /\ q.todo = goal[2] /\ q.listed = seen /\ q.cmd = p.cmd
      BY <1>9, <3>1 DEF RunFields
    <3>3. CASE p.cmd.kind = "propose"
      <4>1. goal[1] = "propose" BY <1>5, <3>3 DEF AfterList
      <4> QED BY <3>2, <4>1, EditElsewhere
    <3>4. CASE p.cmd.kind = "saveall"
      <4>1. goal[1] = "write" BY <1>5, <2>2, <3>4 DEF AfterList
      <4> QED BY <3>2, <4>1, EditElsewhere
    <3>a. touched'[c] = {} BY <1>4, <1>10
    <3>b. Ids' = Ids /\ DOMAIN q.listed \subseteq Ids /\ TypedNodes(q.listed)
      BY <1>4, <1>10, <3>2 DEF Ids, TypedNodes
    <3>5. CASE p.cmd.kind = "patch"
      <4>1. goal = <<"patch", order>> BY <1>5, <2>2, <3>5 DEF AfterList
      <4>2. q.pc = "patch" /\ q.todo = order /\ order # <<>> BY <2>2, <3>2, <4>1
      <4>3. found \subseteq Ids /\ IsFiniteSet(found)
        <5>1. PICK k : k = Len(nodes) OBVIOUS
        <5>2. k \in Nat /\ Ids = 1..k BY <5>1 DEF JDInv, ServerInv, IsSeq, Ids
        <5>3. found \subseteq 1..k BY <5>2
        <5>4. IsFiniteSet(1..k) BY <5>2, FS_Interval
        <5> QED BY <5>2, <5>3, <5>4, FS_Subset
      <4>4. /\ order \in Seq(found)
            /\ \A i, j \in 1..Len(order) : order[i] = order[j] => i = j
            /\ \A i \in 1..Len(order) : order[i] \in found
        BY <4>3, OrderFacts
      <4>5. order \in Seq(DOMAIN seen)
        <5>1. \A T, U : T \subseteq U => Seq(T) \subseteq Seq(U) OBVIOUS
        <5> QED BY <4>4, <5>1, Zenon
      <4>6. \A i \in 1..Len(order) : AsListed(nodes'[order[i]], q.listed[order[i]])
        BY <1>4, <3>2, <4>4 DEF AsListed
      <4>7. ToPatch(c, q)'
        <5>1. q.todo \in Seq(DOMAIN q.listed) BY <3>2, <4>2, <4>5
        <5>2. \A i, j \in 1..Len(q.todo) : q.todo[i] = q.todo[j] => i = j BY <4>2, <4>4
        <5>3. \A i \in 1..Len(q.todo) :
                q.todo[i] \notin touched'[c] => AsListed(nodes'[q.todo[i]], q.listed[q.todo[i]])
          BY <4>2, <4>6
        <5> QED BY <5>1, <5>2, <5>3, Zenon DEF ToPatch
      <4> QED BY <3>b, <4>2, <4>7 DEF EditingInv, Updating
    <3>6. CASE p.cmd.kind = "update"
      <4>1. goal = <<"update", <<p.cmd.id>> >> /\ found # {} BY <1>5, <2>2, <3>6 DEF AfterList
      <4>2. q.pc = "update" /\ q.todo = <<p.cmd.id>> /\ q.todo # <<>> BY <3>2, <4>1
      <4>3. p.cmd.id \in DOMAIN seen BY <1>1, <3>6, <4>1
      <4> QED BY <3>2, <3>b, <4>2, <4>3 DEF EditingInv, Updating
    <3>7. CASE p.cmd.kind = "batchupdate"
      <4>1. goal = <<"batchupdate", p.cmd.requests>> BY <1>5, <3>7 DEF AfterList
      <4>2. q.pc = "batchupdate" /\ q.todo = p.cmd.requests /\ q.todo # <<>> BY <2>2, <3>2, <4>1
      <4>3. q.todo \in Seq(NodeRequests) BY <1>8, <3>7, <4>2, LineTyped
      <4> QED BY <3>b, <4>2, <4>3 DEF EditingInv, Updating
    <3> QED BY <1>8, <3>3, <3>4, <3>5, <3>6, <3>7
  <2> QED BY <2>1, <2>2
<1>12. \A d \in Cmds : d # c => EditAlone(d)
  <2>1. \A d \in Cmds : d # c => touched'[d] = touched[d] BY <1>4, <1>10
  <2> QED BY <1>4, <2>1 DEF EditAlone, AsListed, Ids
<1>13. TypedNodes(nodes)' BY <1>4, <1>10 DEF TypedNodes
<1>14. touched' = [d \in Cmds |-> touched'[d]] BY <1>4, <1>10
<1> QED BY <1>6, <1>11, <1>12, <1>13, <1>14, EditMoves

\* The two kinds of listing.
LEMMA EditLists ==
  ASSUME JDInv, EditInv, NEW c \in Cmds, List(c) \/ Filtered(c)
  PROVE  EditInv'
<1>1. CASE List(c)
  <2>1. PICK f, found : f = FilterOf(run[c].cmd) /\ found = {id \in Ids : nodeMatchesFilter(id, nodes[id], f)}
    OBVIOUS
  <2>2. run[c].pc = "list" /\ Answer(c, found, nodes) BY <1>1, <2>1 DEF List
  <2>3. run[c].cmd.kind = "update" => found \subseteq {run[c].cmd.id}
    <3>1. SUFFICES ASSUME run[c].cmd.kind = "update", NEW id \in found PROVE id = run[c].cmd.id
      OBVIOUS
    <3>2. f.ids = {run[c].cmd.id} BY <2>1, <3>1 DEF FilterOf
    <3>3. nodeMatchesFilter(id, nodes[id], f) BY <2>1
    <3>4. f.ids = {} \/ id \in f.ids BY <3>3, Zenon DEF nodeMatchesFilter
    <3> QED BY <3>2, <3>4
  <2>4. found \subseteq Ids /\ DOMAIN nodes = Ids BY <2>1 DEF Ids
  <2> QED BY <2>2, <2>3, <2>4, EditAnswers
<1>2. CASE Filtered(c)
  <2>1. PICK p : p = run[c] OBVIOUS
  <2>2. PICK seen : seen = [id \in DOMAIN p.listed |-> nodes[id]] OBVIOUS
  <2>3. p.pc = "filter" /\ Answer(c, p.ids, seen) BY <1>2, <2>1, <2>2 DEF Filtered
  <2>4. Doing(p) /\ Registering(c, p) BY <2>1, Known
  <2>5. p.cmd.kind # "update" BY <2>3, <2>4 DEF Doing
  <2>6. DOMAIN p.listed \subseteq Ids /\ p.ids \subseteq DOMAIN p.listed BY <2>3, <2>4 DEF Registering
  <2>7. DOMAIN seen = DOMAIN p.listed /\ \A id \in DOMAIN seen : seen[id] = nodes[id] BY <2>2
  <2> QED BY <2>1, <2>3, <2>5, <2>6, <2>7, EditAnswers
<1> QED BY <1>1, <1>2

\* The other steps of a command change no node.
LEMMA EditOthers ==
  ASSUME JDInv, EditInv, NEW c \in Cmds,
         \/ StartCommand(c) \/ LoadFails(c) \/ ListFails(c) \/ Collect(c) \/ Filter(c)
         \/ ReadNodes(c) \/ WriteNodes(c) \/ Propose(c)
  PROVE  EditInv'
<1>1. PICK p : p = run[c] OBVIOUS
<1>2. DOMAIN p = RunFields BY <1>1, Known
<1>3. nodes' = nodes /\ touched' = touched
  BY DEF StartCommand, LoadFails, ListFails, Collect, Filter, ReadNodes, WriteNodes, Propose, server
<1>4. ASSUME NEW q, run' = [run EXCEPT ![c] = q], EditingInv(c, q) PROVE EditInv'
  BY <1>3, <1>4, EditQuiet
<1>5. ASSUME NEW result, run' = [run EXCEPT ![c] = Finish(p, result)] PROVE EditInv'
  <2>1. PICK q : q = Finish(p, result) OBVIOUS
  <2>2. q.pc = "done" BY <1>2, <2>1, FinishDone
  <2> QED BY <1>4, <1>5, <2>1, <2>2, EditElsewhere
<1>6. CASE StartCommand(c)
  <2>1. PICK k \in CommandLines :
          /\ p.pc = "idle"
          /\ run' = [run EXCEPT ![c] =
               IF k.kind = "batchpropose" /\ k.jobs = <<>>
               THEN Finish([p EXCEPT !.cmd = k], "ok")
               ELSE [p EXCEPT !.pc = FirstStep(k), !.cmd = k,
                              !.todo = IF k.kind = "register" THEN k.nodes
                                       ELSE IF k.kind = "batchpropose" THEN k.jobs ELSE <<>>]]
    BY <1>1, <1>6 DEF StartCommand
  <2>2. CASE k.kind = "batchpropose" /\ k.jobs = <<>>
    <3>1. PICK p0, q : p0 = [p EXCEPT !.cmd = k] /\ q = Finish(p0, "ok") OBVIOUS
    <3>2. DOMAIN p0 = RunFields BY <1>2, <3>1
    <3>3. q.pc = "done" BY <3>1, <3>2, FinishDone
    <3> QED BY <1>4, <2>1, <2>2, <3>1, <3>3, EditElsewhere
  <2>3. CASE ~(k.kind = "batchpropose" /\ k.jobs = <<>>)
    <3>1. PICK place, todo, q :
            /\ place = FirstStep(k)
            /\ todo = IF k.kind = "register" THEN k.nodes
                      ELSE IF k.kind = "batchpropose" THEN k.jobs ELSE <<>>
            /\ q = [p EXCEPT !.pc = place, !.cmd = k, !.todo = todo]
      OBVIOUS
    <3>2. run' = [run EXCEPT ![c] = q] BY <2>1, <2>3, <3>1
    <3>3. q.pc = place /\ q.todo = todo BY <1>2, <3>1 DEF RunFields
    <3>4. /\ place \in {"register", "read", "propose", "list"}
          /\ place = "register" => k.kind = "register"
      <4>1. CASE k.kind = "register" BY <3>1, <4>1 DEF FirstStep
      <4>2. CASE k.kind = "batchpropose" BY <3>1, <4>2 DEF FirstStep
      <4>3. CASE k.kind \notin {"register", "batchpropose"} BY <3>1, <4>3 DEF FirstStep
      <4> QED BY <4>1, <4>2, <4>3
    <3>5. CASE place = "register"
      <4>1. todo = k.nodes /\ todo \in Seq(NodeArgs) BY <3>1, <3>4, <3>5, LineTyped
      <4>2. EditingInv(c, q) BY <3>3, <3>5, <4>1 DEF EditingInv, Updating
      <4> QED BY <1>4, <3>2, <4>2
    <3>6. CASE place # "register" BY <1>4, <3>2, <3>3, <3>4, <3>6, EditElsewhere
    <3> QED BY <3>5, <3>6
  <2> QED BY <2>2, <2>3
<1>7. CASE LoadFails(c) \/ ListFails(c) \/ WriteNodes(c)
  <2>1. \E result : run' = [run EXCEPT ![c] = Finish(p, result)]
    BY <1>1, <1>7 DEF LoadFails, ListFails, WriteNodes
  <2> QED BY <1>5, <2>1
<1>8. CASE ReadNodes(c)
  <2>1. PICK q : q = [p EXCEPT !.pc = "write", !.base = file, !.ids = @ \union file] OBVIOUS
  <2>2. run' = [run EXCEPT ![c] = q]
    <3>1. run' = [run EXCEPT ![c].pc = "write", ![c].base = file, ![c].ids = @ \union file]
      BY <1>8 DEF ReadNodes
    <3>2. c \in DOMAIN run BY DEF JDInv, ServerInv
    <3> QED BY <1>1, <2>1, <3>1, <3>2
  <2>3. q.pc = "write" BY <1>2, <2>1 DEF RunFields
  <2> QED BY <1>4, <2>2, <2>3, EditElsewhere
<1>9. CASE Propose(c)
  <2>a. PICK bad, n :
          /\ p.pc = "propose"
          /\ run' = [run EXCEPT ![c] =
               AfterPropose([p EXCEPT !.failed = bad, !.tried = n, !.todo = Tail(@)])]
    BY <1>1, <1>9, Zenon DEF Propose
  <2>1. PICK q, q0 :
          /\ p.pc = "propose"
          /\ q0 = [p EXCEPT !.failed = bad, !.tried = n, !.todo = Tail(@)]
          /\ q = AfterPropose(q0) /\ run' = [run EXCEPT ![c] = q]
    BY <2>a
  <2>2. DOMAIN q0 = RunFields /\ q0.pc = "propose" BY <1>2, <2>1 DEF RunFields
  <2>3. q = q0 \/ \E result : q = Finish(q0, result) BY <2>1 DEF AfterPropose
  <2>4. q.pc \in {"propose", "done"} BY <2>2, <2>3, FinishDone
  <2> QED BY <1>4, <2>1, <2>4, EditElsewhere
<1>10. CASE Collect(c)
  <2>1. PICK q : q = [p EXCEPT !.pc = "filter", !.listed = nodes, !.base = Ids] OBVIOUS
  <2>2. run' = [run EXCEPT ![c] = q]
    <3>1. c \in DOMAIN run BY DEF JDInv, ServerInv
    <3> QED BY <1>1, <1>10, <2>1, <3>1 DEF Collect
  <2>3. q.pc = "filter" BY <1>2, <2>1 DEF RunFields
  <2> QED BY <1>4, <2>2, <2>3, EditElsewhere
<1>11. CASE Filter(c)
  <2>1. PICK id, ids : p.pc = "filter" /\ run' = [run EXCEPT ![c].base = @ \ {id}, ![c].ids = ids]
    BY <1>1, <1>11 DEF Filter
  <2>2. PICK q : q = [p EXCEPT !.base = @ \ {id}, !.ids = ids] OBVIOUS
  <2>3. run' = [run EXCEPT ![c] = q]
    <3>1. c \in DOMAIN run BY DEF JDInv, ServerInv
    <3> QED BY <1>1, <2>1, <2>2, <3>1
  <2>4. q.pc = "filter" BY <1>2, <2>1, <2>2 DEF RunFields
  <2> QED BY <1>4, <2>3, <2>4, EditElsewhere
<1> QED BY <1>6, <1>7, <1>8, <1>9, <1>10, <1>11

\* The calls of other users change no labels.
LEMMA EditOtherCall ==
  ASSUME JDInv, EditInv, OtherCall, run' = run
  PROVE  EditInv'
<1>1. \A c \in Cmds : EditingInv(c, run[c]) /\ touched = [d \in Cmds |-> touched[d]] /\ TypedNodes(nodes)
  BY DEF EditInv
<1>2. ASSUME touched' = touched, Ids' = Ids, TypedNodes(nodes)',
             \A i \in Ids : AsListed(nodes'[i], nodes[i])
      PROVE  EditInv'
  <2>1. \A c \in Cmds : EditAlone(c) BY <1>2 DEF EditAlone
  <2>2. ASSUME NEW c \in Cmds PROVE EditingInv(c, run[c])'
    <3>1. PICK p : p = run[c] OBVIOUS
    <3>2. EditingInv(c, p)' BY <1>1, <2>1, <3>1, EditBystander
    <3>3. run'[c] = p BY <3>1
    <3> QED BY <3>2, <3>3
  <2>3. touched' = [d \in Cmds |-> touched'[d]] BY <1>2 DEF EditInv
  <2> QED BY <1>2, <2>2, <2>3 DEF EditInv
<1>3. ASSUME nodes' = nodes, touched' = touched PROVE EditInv'
  <2>1. Ids' = Ids /\ TypedNodes(nodes)' /\ \A i \in Ids : AsListed(nodes'[i], nodes[i])
    BY <1>3 DEF EditInv, TypedNodes, AsListed, Ids
  <2> QED BY <1>2, <1>3, <2>1
<1>4. ASSUME NEW j, RevokeJob(j) \/ DeleteJob(j) PROVE EditInv'
  BY <1>3, <1>4 DEF RevokeJob, DeleteJob
<1>5. ASSUME NEW s, BatchProposeJob([id \in Ids |-> id], s) PROVE EditInv'
  <2>1. nodes' = nodes /\ touched' = touched BY <1>5, Zenon DEF BatchProposeJob
  <2> QED BY <1>3, <2>1
<1>6. ASSUME NEW id \in Ids, NEW on, SetEnabled(id, on) PROVE EditInv'
  <2>1. nodes' = [nodes EXCEPT ![id].enabled = on] /\ touched' = touched BY <1>6 DEF SetEnabled
  <2>2. Ids' = Ids BY <2>1 DEF Ids
  <2>3. ASSUME NEW i \in Ids PROVE TypedNode(nodes'[i]) /\ AsListed(nodes'[i], nodes[i])
    <3>1. PICK n : n = nodes[i] OBVIOUS
    <3>2. TypedNode(n) BY <3>1 DEF EditInv, TypedNodes, Ids
    <3>3. nodes'[i] = n \/ nodes'[i] = [n EXCEPT !.enabled = on] BY <2>1, <3>1 DEF Ids
    <3> QED BY <3>1, <3>2, <3>3 DEF TypedNode, AsListed
  <2>4. TypedNodes(nodes)' BY <2>2, <2>3 DEF TypedNodes, Ids
  <2> QED BY <1>2, <2>1, <2>2, <2>3, <2>4
<1> QED BY <1>4, <1>5, <1>6 DEF OtherCall, DisableNode, EnableNode

\* Every step.
LEMMA EditKept == JDInv /\ EditInv /\ [JDNext]_jdVars => EditInv'
<1> SUFFICES ASSUME JDInv, EditInv, [JDNext]_jdVars PROVE EditInv' OBVIOUS
<1>1. ASSUME NEW c \in Cmds, CommandStep(c) PROVE EditInv'
  BY <1>1, EditOthers, EditLists, EditRegisters, EditUpdating DEF CommandStep
<1>2. CASE OtherCall /\ run' = run BY <1>2, EditOtherCall
<1>3. CASE UNCHANGED jdVars
  <2>1. nodes' = nodes /\ run' = run /\ touched' = touched BY <1>3 DEF jdVars
  <2>2. \A c \in Cmds : EditAlone(c) BY <2>1 DEF EditAlone, AsListed, Ids
  <2>3. ASSUME NEW c \in Cmds PROVE EditingInv(c, run[c])'
    <3>1. PICK p : p = run[c] OBVIOUS
    <3>2. EditingInv(c, p) BY <3>1 DEF EditInv
    <3>3. EditingInv(c, p)' BY <2>2, <3>2, EditBystander
    <3>4. run'[c] = p BY <2>1, <3>1
    <3> QED BY <3>3, <3>4
  <2> QED BY <2>1, <2>3 DEF EditInv, TypedNodes
<1> QED BY <1>1, <1>2, <1>3 DEF JDNext

\* What a command has listed can be relied on, wherever the node is not touched.
LEMMA EditInvariant == JDSpec => []EditInv
<1>1. JDInit => EditInv BY EditStart
<1>2. JDInv /\ EditInv /\ [JDNext]_jdVars => EditInv' BY EditKept
<1> QED BY <1>1, <1>2, JDInvariant, PTL DEF JDSpec

\* The steps of a command that is at a place.
LEMMA StepAt ==
  ASSUME NEW c, NEW p, p = run[c], CommandStep(c)
  PROVE  /\ p.pc = "patch" => Patch(c)
         /\ \/ RegisterNode(c) \/ Patch(c) \/ Update(c) \/ BatchUpdate(c)
            \/ nodes' = nodes /\ left' = left
<1>1. CASE StartCommand(c) \/ LoadFails(c) \/ ListFails(c) \/ ReadNodes(c) \/ WriteNodes(c) \/ Propose(c)
  <2>1. nodes' = nodes /\ left' = left
    BY <1>1 DEF StartCommand, LoadFails, ListFails, ReadNodes, WriteNodes, Propose, server
  <2>2. p.pc \in {"idle", "list", "read", "write", "propose"}
    BY <1>1 DEF StartCommand, LoadFails, ListFails, ReadNodes, WriteNodes, Propose
  <2> QED BY <2>1, <2>2
<1>4. CASE List(c) \/ Collect(c) \/ Filter(c) \/ Filtered(c)
  <2>1. nodes' = nodes /\ left' = left
    BY <1>4, Zenon DEF List, Collect, Filter, Filtered, Answer, server
  <2>2. p.pc \in {"list", "filter"} BY <1>4, Zenon DEF List, Collect, Filter, Filtered
  <2> QED BY <2>1, <2>2
<1>2. CASE RegisterNode(c) \/ Update(c) \/ BatchUpdate(c)
  <2>1. p.pc \in {"register", "update", "batchupdate"}
    BY <1>2 DEF RegisterNode, Update, BatchUpdate
  <2> QED BY <1>2, <2>1
<1>3. CASE Patch(c) BY <1>3
<1> QED BY <1>1, <1>2, <1>3, <1>4 DEF CommandStep

\* A patch of at most two labels gives the node, which nobody else has changed, the labels
\* that the documentation promises.
LEMMA SmallPatch ==
  ASSUME JDInv, EditInv, JDNext, NEW c \in Cmds, NEW id \in Ids, PatchesAlone(c, id),
         Cardinality(DOMAIN run[c].cmd.patch) <= 2
  PROVE  PatchDone(c, id)
<1>1. PICK p, patch : p = run[c] /\ patch = p.cmd.patch OBVIOUS
<1>2. /\ p.pc = "patch" /\ run'[c] # p /\ Head(p.todo) = id /\ nodes'[id] # nodes[id]
      /\ id \notin touched[c] /\ UniqueKeys(nodes[id].labels) /\ Cardinality(DOMAIN patch) <= 2
  BY <1>1 DEF PatchesAlone
<1>3. Patch(c)
  <2>1. PICK d \in Cmds : CommandStep(d) BY <1>1, <1>2 DEF JDNext
  <2>2. c = d BY <1>1, <1>2, <2>1, OwnStep
  <2> QED BY <1>1, <1>2, <2>1, <2>2, StepAt
<1>4. nodes' # nodes BY <1>2
<1>5. PICK req : SendsUpdate(c, id, req) /\ PatchRequest(p, req)
  BY <1>1, <1>2, <1>3, <1>4, PatchSends DEF Stays
<1>6. UpdateNode(id, req) BY <1>1, <1>2, <1>4, <1>5, Sent DEF Updating
<1>7. /\ nodes'[id].labels \in LabelsAfter(nodes[id].labels, req.labels)
      /\ nodes'[id].name \in {nodes[id].name, req.name}
      /\ nodes'[id].key \in {nodes[id].key, req.key}
      /\ AsListed(nodes'[id], nodes[id]) => nodes'[id] = nodes[id]
  BY <1>6, NodeUpdated DEF JDInv, EditInv
<1>8. PICK old : old = p.listed[id] OBVIOUS
<1>9. /\ req.name = old.name /\ req.key = old.key /\ req.labels \in Labelled
      /\ old.labels \in Labelled /\ PatchedTo(old.labels, req.labels, patch)
  BY <1>1, <1>2, <1>5, <1>8 DEF PatchRequest, TypedNode
<1>10. AsListed(nodes[id], old)
  <2>1. EditingInv(c, p) BY <1>1, EditKnown
  <2>2. PICK s : s = p.todo OBVIOUS
  <2>3. s \in Seq(DOMAIN p.listed) /\ s # <<>>
    BY <1>2, <2>1, <2>2 DEF EditingInv, Updating, ToPatch
  <2>4. 1 \in 1..Len(s) /\ s[1] = id BY <1>2, <2>2, <2>3, TailFacts
  <2>5. s[1] \notin touched[c] => AsListed(nodes[s[1]], p.listed[s[1]])
    BY <1>2, <2>1, <2>2, <2>4 DEF EditingInv, ToPatch
  <2> QED BY <1>2, <1>8, <2>4, <2>5
<1>11. nodes'[id].labels = req.labels
  <2>1. SUFFICES ASSUME nodes'[id].labels = nodes[id].labels PROVE FALSE BY <1>7 DEF LabelsAfter
  <2>2. AsListed(nodes'[id], nodes[id]) BY <1>7, <1>9, <1>10, <2>1 DEF AsListed
  <2> QED BY <1>2, <1>7, <2>2
<1>12. PICK L, M : L = nodes[id].labels /\ M = nodes'[id].labels OBVIOUS
<1>13. L \in Labelled /\ M \in Labelled /\ PatchedTo(L, M, patch) /\ UniqueKeys(L)
  BY <1>2, <1>9, <1>10, <1>11, <1>12 DEF AsListed
<1>14. LabelMap(M) = Patched(LabelMap(L), patch) BY <1>13, PatchedMap
<1> QED BY <1>1, <1>12, <1>14 DEF PatchDone

\* The nodes out of scope.
LEMMA ScopeFacts ==
  ASSUME NEW ns, NEW id
  PROVE  id \in OutOfScope(ns) <=> id \in DOMAIN ns /\ ~Scoped(ns[id].labels)
BY Zenon DEF OutOfScope, Scoped

\* An update that leaves a node in scope takes no node out of it.
LEMMA NoneLeft ==
  ASSUME JDInv, EditInv, NEW id, NEW req, UpdateNode(id, req), left' = left \union OutOfScope(nodes'),
         id \in Ids /\ Scoped(nodes[id].labels) => Scoped(req.labels)
  PROVE  left' = left
<1>1. OutOfScope(nodes) \subseteq left BY DEF JDInv, ServerInv
<1>2. /\ DOMAIN nodes' = Ids
      /\ \A i \in Ids : i # id => nodes'[i] = nodes[i]
      /\ id \in Ids => nodes'[id].labels \in {nodes[id].labels, req.labels}
  BY NodeUpdated DEF JDInv, EditInv, LabelsAfter
<1>3. SUFFICES ASSUME NEW i, i \in OutOfScope(nodes') PROVE i \in OutOfScope(nodes) BY <1>1
<1>4. i \in Ids /\ ~Scoped(nodes'[i].labels) BY <1>2, <1>3, ScopeFacts
<1>5. ~Scoped(nodes[i].labels)
  <2>1. CASE i # id BY <1>2, <1>4, <2>1
  <2>2. CASE i = id BY <1>2, <1>4, <2>2
  <2> QED BY <2>1, <2>2
<1> QED BY <1>4, <1>5, ScopeFacts DEF Ids

\* The labels that decide the scope, and what LeavesScope says of the command c.
Named(labels) == \E key \in ScopeKeys : HasKey(labels, key)
Leaves(c, p) ==
  /\ run'[c] # p
  /\ \/ p.pc = "batchupdate"
     \/ p.pc = "register" /\ Named(Head(p.todo).extra)
     \/ /\ p.pc = "update" /\ "label" \in p.cmd.types
        /\ Named(p.cmd.labels) \/ p.cmd.labels = <<>>
     \/ p.pc = "patch" /\ ScopeKeys \cap DOMAIN p.cmd.patch # {}
     \/ p.pc = "patch" /\ Cardinality(DOMAIN p.cmd.patch) > 2
     \/ p.pc \in {"patch", "update"} /\ p.listed # nodes

\* A registration that takes its node out of scope.
LEMMA RegisterLeaves ==
  ASSUME JDInv, EditInv, NEW c \in Cmds, NEW p, p = run[c], RegisterNode(c), left' # left
  PROVE  Leaves(c, p)
<1>1. PICK n, m : n = Head(p.todo) /\ m = NewNode(n) OBVIOUS
<1>2. p.pc = "register" /\ n \in NodeArgs BY <1>1, Registered
<1>3. run'[c] # p
  <2>1. PICK q : /\ run' = [run EXCEPT ![c] = q] /\ q # p
                 /\ \/ q.pc \in {"done", "read"}
                    \/ q.pc = "register" /\ q.todo \in Seq(NodeArgs)
    BY <1>1, Registered
  <2> QED BY <2>1, EditKnown
<1>4. nodes' = Append(nodes, m) /\ left' = left \union OutOfScope(nodes')
  BY <1>1, Registered
<1>5. OutOfScope(nodes) \subseteq left BY DEF JDInv, ServerInv
<1>6. SUFFICES ASSUME ~Named(n.extra) PROVE FALSE BY <1>1, <1>2, <1>3 DEF Leaves
<1>7. Scoped(m.labels)
  <2>1. PICK E, t : E = n.extra /\ t = n.type OBVIOUS
  <2>2. E \in Seq(LabelRecords) /\ t \in STRING BY <1>2, <2>1 DEF NodeArgs
  <2>3. E \in Labelled /\ t \in Text BY <2>2, LabelsTyped DEF Text
  <2>4. \A k \in ScopeKeys : ~HasKey(E, k) BY <1>6, <2>1 DEF Named
  <2>5. Scoped(NodeLabels(E, t)) BY <2>3, <2>4, ScopeRegistered
  <2>6. m.labels = NodeLabels(E, t) BY <1>1, <1>2, <2>1, NodeTyped
  <2> QED BY <2>5, <2>6
<1>8. PICK s : s = nodes OBVIOUS
<1>9. IsSeq(s) BY <1>8 DEF JDInv, ServerInv, IsSeq, SeqRange
<1>10. /\ Len(s) \in Nat /\ DOMAIN s = 1..Len(s)
       /\ DOMAIN Append(s, m) = 1..(Len(s) + 1)
       /\ \A i \in 1..Len(s) : Append(s, m)[i] = s[i]
       /\ Append(s, m)[Len(s) + 1] = m
  BY <1>9, Longest
<1>11. ASSUME NEW i, i \in OutOfScope(nodes') PROVE i \in OutOfScope(nodes)
  <2>1. i \in 1..(Len(s) + 1) /\ ~Scoped(nodes'[i].labels) BY <1>4, <1>8, <1>10, <1>11, ScopeFacts
  <2>2. i # Len(s) + 1 BY <1>4, <1>7, <1>8, <1>10, <2>1
  <2>3. i \in 1..Len(s) BY <1>10, <2>1, <2>2
  <2>4. i \in DOMAIN nodes /\ ~Scoped(nodes[i].labels) BY <1>4, <1>8, <1>10, <2>1, <2>3
  <2> QED BY <2>4, ScopeFacts
<1> QED BY <1>4, <1>5, <1>11

\* A patch that takes a node out of scope.
LEMMA PatchLeaves ==
  ASSUME JDInv, EditInv, NEW c \in Cmds, NEW p, p = run[c], Patch(c), left' # left
  PROVE  Leaves(c, p)
<1>1. p.pc = "patch" BY PatchSends
<1>2. PICK id, req : id = Head(p.todo) /\ SendsUpdate(c, id, req) /\ PatchRequest(p, req)
  BY PatchSends DEF Stays
<1>3. run'[c] # p /\ UpdateNode(id, req) /\ NodesChanged(c, id) BY <1>1, <1>2, Sent DEF Updating
<1>4. left' = left \union OutOfScope(nodes') BY <1>3 DEF NodesChanged
<1>5. PICK patch, n : patch = p.cmd.patch /\ n = Cardinality(DOMAIN patch) OBVIOUS
<1>6. n \in Nat
  <2>1. p.cmd.kind = "patch" /\ p.cmd \in CommandLines BY <1>1, Known DEF Doing
  <2>2. IsFiniteSet(DOMAIN patch) BY <1>5, <2>1, LineTyped DEF IsPatch
  <2> QED BY <1>5, <2>2, FS_CardinalityType
<1>7. SUFFICES ASSUME ScopeKeys \cap DOMAIN patch = {}, n <= 2, p.listed = nodes PROVE FALSE
  <2>1. n > 2 \/ n <= 2 BY <1>6
  <2> QED BY <1>1, <1>3, <1>5, <2>1 DEF Leaves
<1>8. PICK old : old = p.listed[id] OBVIOUS
<1>9. PatchedTo(old.labels, req.labels, patch) /\ old.labels \in Labelled /\ req.labels \in Labelled
  BY <1>2, <1>5, <1>7, <1>8 DEF PatchRequest, TypedNode
<1>10. PICK L, M : L = old.labels /\ M = req.labels OBVIOUS
<1>11. \A k \in ScopeKeys : Agree(L, M, k) BY <1>7, <1>9, <1>10 DEF PatchedTo
<1>12. Scoped(L) => Scoped(M) BY <1>9, <1>10, <1>11, SameScope
<1>13. Scoped(nodes[id].labels) => Scoped(req.labels) BY <1>7, <1>8, <1>10, <1>12
<1> QED BY <1>3, <1>4, <1>13, NoneLeft

\* An update that takes a node out of scope.
LEMMA UpdateLeaves ==
  ASSUME JDInv, EditInv, NEW c \in Cmds, NEW p, p = run[c], Update(c), left' # left
  PROVE  Leaves(c, p)
<1>1. PICK k, id, old : k = p.cmd /\ id = k.id /\ old = p.listed[id] OBVIOUS
<1>2. p.pc = "update" /\ TypedNode(old) /\ k.labels \in Labelled BY <1>1, UpdateSends
<1>3. PICK req : SendsUpdate(c, id, req) /\ req = UpdateRequest(k, old)
  BY <1>1, UpdateSends DEF Stays
<1>4. run'[c] # p /\ (left' = left \/ (UpdateNode(id, req) /\ NodesChanged(c, id)))
  BY <1>2, <1>3, Sent DEF Updating
<1>5. UpdateNode(id, req) /\ left' = left \union OutOfScope(nodes') BY <1>4 DEF NodesChanged
<1>6. SUFFICES ASSUME "label" \in k.types => ~Named(k.labels) /\ k.labels # <<>>, p.listed = nodes
               PROVE  FALSE
  BY <1>1, <1>2, <1>4 DEF Leaves
<1>7. PICK L, E : L = old.labels /\ E = k.labels OBVIOUS
<1>8. L \in Labelled /\ E \in Labelled BY <1>2, <1>7 DEF TypedNode
<1>9. req.labels = IF "label" \in k.types THEN L \o E ELSE L BY <1>3, <1>6, <1>7 DEF UpdateRequest
<1>10. "label" \in k.types /\ Scoped(L) => Scoped(L \o E)
  <2>1. SUFFICES ASSUME "label" \in k.types, Scoped(L) PROVE Scoped(L \o E) OBVIOUS
  <2>2. \A q \in ScopeKeys : ~HasKey(E, q) BY <1>6, <1>7, <2>1 DEF Named
  <2> QED BY <1>8, <2>1, <2>2, ScopeAdded
<1>11. Scoped(L) => Scoped(req.labels) BY <1>9, <1>10
<1>12. nodes[id].labels = L BY <1>1, <1>6, <1>7
<1> QED BY <1>5, <1>11, <1>12, NoneLeft

\* A batch-update replaces all labels.
LEMMA BatchLeaves ==
  ASSUME JDInv, EditInv, NEW c \in Cmds, NEW p, p = run[c], BatchUpdate(c), left' # left
  PROVE  Leaves(c, p)
<1>1. p.pc = "batchupdate" BY BatchSends
<1>2. PICK id, req : SendsUpdate(c, id, req) BY BatchSends DEF Stays
<1>3. run'[c] # p BY <1>1, <1>2, Sent DEF Updating
<1> QED BY <1>1, <1>3 DEF Leaves

\* Whoever takes a node out of scope.
LEMMA LeavesWhen ==
  ASSUME JDInv, EditInv, JDNext, left' # left
  PROVE  \E c \in Cmds : Leaves(c, run[c])
<1>1. CASE OtherCall
  <2>1. left' = left
    BY <1>1, Zenon DEF OtherCall, RevokeJob, DeleteJob, DisableNode, EnableNode, SetEnabled, BatchProposeJob
  <2> QED BY <2>1
<1>2. ASSUME NEW c \in Cmds, CommandStep(c) PROVE Leaves(c, run[c])
  BY <1>2, StepAt, RegisterLeaves, PatchLeaves, UpdateLeaves, BatchLeaves
<1> QED BY <1>1, <1>2 DEF JDNext

\* A patch of at most two labels does what the documentation of labels-patch says, in
\* whatever order the map is ranged over and although the loop edits the slice it
\* searches, when nobody else has changed the node.
THEOREM SmallPatchesExact == JDSpec => PatchSmall
<1> DEFINE A == \A c \in Cmds, id \in Ids :
                  PatchesAlone(c, id) /\ Cardinality(DOMAIN run[c].cmd.patch) <= 2 => PatchDone(c, id)
<1>1. ASSUME JDInv, EditInv, JDNext PROVE A BY <1>1, SmallPatch
<1>2. JDInv /\ EditInv /\ [JDNext]_jdVars => [A]_jdVars BY <1>1
<1>3. JDSpec => [][A]_jdVars BY <1>2, JDInvariant, EditInvariant, PTL DEF JDSpec
<1> QED BY <1>3 DEF PatchSmall

\* A node leaves the domain and the environment only by a command that names one of the
\* two labels, replaces or clears all labels, patches more than two, or works on an old
\* listing.
THEOREM ScopeKept == JDSpec => LeavesScope
<1> DEFINE A == left' # left => \E c \in Cmds : Leaves(c, run[c])
           B == left' # left =>
                  \E c \in Cmds :
                    LET p == run[c]
                        named(labels) == \E key \in {"product", "environment"} : HasKey(labels, key)
                    IN  /\ run'[c] # p
                        /\ \/ p.pc = "batchupdate"
                           \/ p.pc = "register" /\ named(Head(p.todo).extra)
                           \/ /\ p.pc = "update" /\ "label" \in p.cmd.types
                              /\ named(p.cmd.labels) \/ p.cmd.labels = <<>>
                           \/ p.pc = "patch" /\ {"product", "environment"} \cap DOMAIN p.cmd.patch # {}
                           \/ p.pc = "patch" /\ Cardinality(DOMAIN p.cmd.patch) > 2
                           \/ p.pc \in {"patch", "update"} /\ p.listed # nodes
<1>1. ASSUME JDInv, EditInv, JDNext PROVE A BY <1>1, LeavesWhen
<1>2. A => B BY Zenon DEF Leaves, Named, ScopeKeys
<1>3. JDInv /\ EditInv /\ [JDNext]_jdVars => [B]_jdVars BY <1>1, <1>2
<1>4. JDSpec => [][B]_jdVars BY <1>3, JDInvariant, EditInvariant, PTL DEF JDSpec
<1> QED BY <1>4 DEF LeavesScope

\* What a step of a command never does, whatever others do meanwhile.
THEOREM CommandsRight == JDSpec => CommandSteps
BY SmallPatchesExact, ScopeKept, DryRunsWriteNothing, ProposalsAreKept DEF CommandSteps
============================================================================

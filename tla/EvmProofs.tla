------------------------------ MODULE EvmProofs ------------------------------
(* The list of RPC clients of a MultiClient stays a permutation of the        *)
(* clients that were dialed, for any number of goroutines and endpoints, and  *)
(* also under the contract operations; and what the contract operations       *)
(* report about the chain is so.                                              *)
EXTENDS EvmContracts, TLAPS, FiniteSetTheorems, WellFoundedInduction

USE NumRPCsAssumption, AttemptsAssumption, ChainOfAssumption, OpsAssumption

\* A list of clients is a sequence.
LEMMA FunctionIsList ==
    ASSUME NEW n \in 0..NumRPCs, NEW s \in [1..n -> 1..NumRPCs]
    PROVE  s \in Seq(1..NumRPCs) /\ Len(s) = n
OBVIOUS

\* What is needed of a list of clients.
LEMMA ListFacts ==
    ASSUME NEW s \in ClientLists
    PROVE  /\ Len(s) \in 0..NumRPCs
           /\ s \in [1..Len(s) -> 1..NumRPCs]
           /\ DOMAIN s = 1..Len(s)
<1>1. PICK n \in 0..NumRPCs : s \in [1..n -> 1..NumRPCs]
  BY DEF ClientLists
<1>2. s \in Seq(1..NumRPCs) /\ Len(s) = n
  BY <1>1
<1> QED BY <1>1, <1>2

\* Source maps the places of a list to its places, and every place is used once.
LEMMA SourceFacts ==
    ASSUME NEW n \in Nat, NEW r \in 2..n, NEW k \in 1..n
    PROVE  /\ Source(n, r, k) \in 1..n
           /\ \A m \in 1..n : Source(n, r, k) = Source(n, r, m) => k = m
BY DEF Source

\* Every place of the old list is the source of one of the new list.
LEMMA SourceOnto ==
    ASSUME NEW n \in Nat, NEW r \in 2..n, NEW m \in 1..n
    PROVE  \E k \in 1..n : Source(n, r, k) = m
<1>1. CASE m >= r
  <2>1. m - r + 1 \in 1..n /\ Source(n, r, m - r + 1) = m
    BY <1>1 DEF Source
  <2> QED BY <2>1
<1>2. CASE m < r /\ m > 1
  <2>1. m + n - r \in 1..n /\ Source(n, r, m + n - r) = m
    BY <1>2 DEF Source
  <2> QED BY <2>1
<1>3. CASE m = 1
  <2>1. n \in 1..n /\ Source(n, r, n) = 1
    BY <1>3 DEF Source
  <2> QED BY <2>1, <1>3
<1> QED BY <1>1, <1>2, <1>3

NoDuplicatesIn(list) == \A i, j \in DOMAIN list : list[i] = list[j] => i = j
Members(list) == {list[k] : k \in DOMAIN list}

\* Reordering keeps the length and the clients of a list, and lists each once.
LEMMA ReorderFacts ==
    ASSUME NEW s \in ClientLists, NEW r \in 1..Len(s), NoDuplicatesIn(s)
    PROVE  /\ reorderRPCs(s, r) \in ClientLists
           /\ Len(reorderRPCs(s, r)) = Len(s)
           /\ NoDuplicatesIn(reorderRPCs(s, r))
           /\ Members(reorderRPCs(s, r)) = Members(s)
<1>1. CASE r < 2
  BY <1>1 DEF reorderRPCs
<1>2. CASE r >= 2
  <2> DEFINE n == Len(s)
             t == reorderRPCs(s, r)
  <2>1. n \in 0..NumRPCs /\ s \in [1..n -> 1..NumRPCs] /\ DOMAIN s = 1..n
    BY ListFacts
  <2>2. r \in 2..n /\ n \in Nat
    BY <1>2, <2>1
  <2>3. t = [k \in 1..n |-> s[Source(n, r, k)]]
    BY <1>2, <2>1 DEF reorderRPCs
  <2>4. \A k \in 1..n : Source(n, r, k) \in 1..n
    BY <2>2, SourceFacts
  <2> HIDE DEF n, t
  <2>5. t \in [1..n -> 1..NumRPCs]
    BY <2>1, <2>3, <2>4
  <2>6. t \in ClientLists
    BY <2>1, <2>5 DEF ClientLists
  <2>7. Len(t) = n
    BY <2>1, <2>5, FunctionIsList
  <2>8. NoDuplicatesIn(t)
    <3> SUFFICES ASSUME NEW i \in 1..n, NEW j \in 1..n, t[i] = t[j]
                 PROVE  i = j
      BY <2>5 DEF NoDuplicatesIn
    <3>1. s[Source(n, r, i)] = s[Source(n, r, j)]
      BY <2>3
    <3>2. Source(n, r, i) = Source(n, r, j)
      BY <3>1, <2>1, <2>4 DEF NoDuplicatesIn
    <3> QED BY <3>2, <2>2, SourceFacts
  <2>9. Members(t) = Members(s)
    <3>1. ASSUME NEW k \in 1..n PROVE t[k] \in Members(s)
      BY <2>1, <2>3, <2>4 DEF Members
    <3>2. ASSUME NEW m \in 1..n PROVE s[m] \in Members(t)
      <4>1. PICK k \in 1..n : Source(n, r, k) = m
        BY <2>2, SourceOnto
      <4> QED BY <4>1, <2>3, <2>5 DEF Members
    <3> QED BY <3>1, <3>2, <2>1, <2>5 DEF Members
  <2> QED BY <2>6, <2>7, <2>8, <2>9 DEF n, t
<1> QED BY <1>1, <1>2, ListFacts

-----------------------------------------------------------------------------
(* The inductive invariant: what ClientsConsistent says, and that every       *)
(* snapshot is as long as the list it was taken from.                         *)

SnapshotsFit ==
    \A p \in Callers : call[p] # NoCall =>
        /\ Len(call[p].snap) = Len(clients[ChainOf[p]])
        /\ call[p].idx \in 1..Len(call[p].snap)
        /\ call[p].try \in 1..Attempts

ClientInv == ClientTypeOK /\ NoDuplicates /\ SnapshotsFit

\* NewMultiClient lists every client that was dialed once.
LEMMA ClientInitInv == ClientInit => ClientInv
<1> SUFFICES ASSUME ClientInit PROVE ClientInv
  OBVIOUS
<1>1. Dialed \subseteq ClientLists
  BY DEF Dialed, ClientLists
<1>2. << >> \in ClientLists
  BY DEF ClientLists
<1>3. ClientTypeOK
  BY <1>1, <1>2 DEF ClientInit, ClientTypeOK, NoCall
<1>4. ASSUME NEW s \in Dialed, NEW i \in DOMAIN s, NEW j \in DOMAIN s, s[i] = s[j]
      PROVE  i = j
  <2>1. s \in [1..Len(s) -> 1..NumRPCs] /\ DOMAIN s = 1..Len(s) /\ Len(s) \in Nat
    BY <1>1, ListFacts
  <2>2. (i < j => s[i] < s[j]) /\ (j < i => s[j] < s[i])
    BY DEF Dialed, Increasing
  <2> QED BY <2>1, <2>2, <1>4
<1>5. NoDuplicates
  BY <1>4 DEF NoDuplicates, ClientInit
<1>6. SnapshotsFit
  BY DEF SnapshotsFit, ClientInit
<1> QED BY <1>3, <1>5, <1>6 DEF ClientInv

\* A step of a client keeps the invariant and the clients of every chain.
LEMMA ClientStepInv ==
    ASSUME ClientInv, [ClientNext]_clientVars
    PROVE  ClientInv' /\ \A ch \in Chains : SameClients(ch)
<1> USE DEF ClientInv
<1>0. /\ \A ch \in Chains : clients[ch] \in ClientLists
      /\ \A p \in Callers : ChainOf[p] \in Chains
  BY DEF ClientTypeOK
<1>1. CASE UNCHANGED clientVars
  BY <1>1 DEF clientVars, ClientTypeOK, NoDuplicates, SnapshotsFit, SameClients
<1>2. ASSUME NEW p \in Callers, NEW op \in Ops, Begin(p, op)
      PROVE  ClientInv' /\ \A ch \in Chains : SameClients(ch)
  <2>1. Len(clients[ChainOf[p]]) \in 1..NumRPCs
    BY <1>0, <1>2, ListFacts DEF Begin
  <2>2. ClientTypeOK'
    BY <1>0, <1>2, <2>1 DEF Begin, ClientTypeOK
  <2>3. SnapshotsFit'
    BY <1>0, <1>2, <2>1 DEF Begin, SnapshotsFit, ClientTypeOK
  <2> QED BY <1>2, <2>2, <2>3 DEF Begin, NoDuplicates, SameClients
<1>3. ASSUME NEW p \in Callers, Answered(p)
      PROVE  ClientInv' /\ \A ch \in Chains : SameClients(ch)
  <2> DEFINE c == ChainOf[p]
             new == reorderRPCs(clients[c], call[p].idx)
  <2>1. c \in Chains /\ clients[c] \in ClientLists /\ call[p].idx \in 1..Len(clients[c])
    BY <1>0, <1>3 DEF Answered, SnapshotsFit
  <2>2. NoDuplicatesIn(clients[c])
    BY <2>1 DEF NoDuplicates, NoDuplicatesIn
  <2>3. /\ new \in ClientLists
        /\ Len(new) = Len(clients[c])
        /\ NoDuplicatesIn(new)
        /\ Members(new) = Members(clients[c])
    BY <2>1, <2>2, ReorderFacts
  <2>4. clients' = [clients EXCEPT ![c] = new] /\ call' = [call EXCEPT ![p] = NoCall]
    BY <1>3 DEF Answered
  <2> HIDE DEF c, new
  <2>5. << >> \in ClientLists
    BY DEF ClientLists
  <2>6. ClientTypeOK'
    BY <2>1, <2>3, <2>4, <2>5 DEF ClientTypeOK, NoCall
  <2>7. ASSUME NEW ch \in Chains
        PROVE  /\ NoDuplicatesIn(clients'[ch])
               /\ Members(clients'[ch]) = Members(clients[ch])
               /\ Len(clients'[ch]) = Len(clients[ch])
    <3>1. CASE ch = c
      BY <3>1, <2>1, <2>3, <2>4 DEF ClientTypeOK
    <3>2. CASE ch # c
      BY <3>2, <2>1, <2>4 DEF ClientTypeOK, NoDuplicates, NoDuplicatesIn
    <3> QED BY <3>1, <3>2
  <2>8. NoDuplicates' /\ \A ch \in Chains : SameClients(ch)
    BY <2>7 DEF NoDuplicates, NoDuplicatesIn, SameClients, Members
  <2>9. SnapshotsFit'
    <3> SUFFICES ASSUME NEW q \in Callers, call'[q] # NoCall
                 PROVE  /\ Len(call'[q].snap) = Len(clients'[ChainOf[q]])
                        /\ call'[q].idx \in 1..Len(call'[q].snap)
                        /\ call'[q].try \in 1..Attempts
      BY DEF SnapshotsFit
    <3>1. call'[q] = call[q] /\ call[q] # NoCall
      BY <2>4 DEF ClientTypeOK
    <3> QED BY <1>0, <3>1, <2>7 DEF SnapshotsFit
  <2> QED BY <2>6, <2>8, <2>9
<1>4. ASSUME NEW p \in Callers, TryAgain(p)
      PROVE  ClientInv' /\ \A ch \in Chains : SameClients(ch)
  <2>1. /\ Len(call[p].snap) \in 0..NumRPCs
        /\ call[p] \in [op : Ops \cup {"none"}, snap : ClientLists,
                        idx : 0..NumRPCs, try : 0..Attempts]
    BY ListFacts DEF ClientTypeOK
  <2>2. /\ call[p].idx \in 1..Len(call[p].snap)
        /\ call[p].try \in 1..Attempts
        /\ Len(call[p].snap) = Len(clients[ChainOf[p]])
    BY <1>4 DEF TryAgain, SnapshotsFit
  <2>3. /\ call' = [call EXCEPT ![p] = call'[p]]
        /\ call'[p].op = call[p].op /\ call'[p].snap = call[p].snap
        /\ call'[p] \in [op : Ops \cup {"none"}, snap : ClientLists,
                         idx : 1..Len(call[p].snap), try : 1..Attempts]
    <3>1. CASE /\ call[p].try < Attempts
               /\ call' = [call EXCEPT ![p].try = @ + 1]
      <4>1. call[p].try + 1 \in 1..Attempts
        BY <2>2, <3>1
      <4> QED BY <2>1, <2>2, <3>1, <4>1 DEF ClientTypeOK
    <3>2. CASE /\ call[p].idx < Len(call[p].snap)
               /\ call' = [call EXCEPT ![p] = [call[p] EXCEPT !.try = 1, !.idx = call[p].idx + 1]]
      <4>1. call[p].idx + 1 \in 1..Len(call[p].snap)
        BY <2>1, <2>2, <3>2
      <4>2. call'[p] = [call[p] EXCEPT !.try = 1, !.idx = call[p].idx + 1]
        BY <3>2 DEF ClientTypeOK
      <4>3. call' = [call EXCEPT ![p] = call'[p]]
        BY <3>2, <4>2 DEF ClientTypeOK
      <4>4. 1 \in 1..Attempts
        OBVIOUS
      <4> QED BY <2>1, <4>1, <4>2, <4>3, <4>4
    <3> QED BY <1>4, <3>1, <3>2 DEF TryAgain
  <2>4. clients' = clients
    BY <1>4 DEF TryAgain
  <2>5. call'[p] \in [op : Ops \cup {"none"}, snap : ClientLists,
                      idx : 0..NumRPCs, try : 0..Attempts]
    BY <2>1, <2>3
  <2>7. ClientTypeOK'
    BY <2>3, <2>4, <2>5 DEF ClientTypeOK
  <2>6. SnapshotsFit'
    BY <2>2, <2>3, <2>4 DEF ClientTypeOK, SnapshotsFit
  <2> QED BY <2>4, <2>7, <2>6 DEF NoDuplicates, SameClients
<1>5. ASSUME NEW p \in Callers, AllFailed(p)
      PROVE  ClientInv' /\ \A ch \in Chains : SameClients(ch)
  <2>1. << >> \in ClientLists
    BY DEF ClientLists
  <2>2. ClientTypeOK'
    BY <1>5, <2>1 DEF AllFailed, ClientTypeOK, NoCall
  <2>3. SnapshotsFit'
    BY <1>5 DEF AllFailed, ClientTypeOK, SnapshotsFit
  <2> QED BY <1>5, <2>2, <2>3 DEF AllFailed, NoDuplicates, SameClients
<1> QED BY <1>1, <1>2, <1>3, <1>4, <1>5 DEF ClientNext

\* The index of a call is in the list that the call will reorder.
LEMMA ClientInvConsistent == ClientInv => ClientsConsistent
<1> SUFFICES ASSUME ClientInv, NEW p \in Callers, call[p] # NoCall
             PROVE  call[p].idx \in DOMAIN clients[ChainOf[p]]
  BY DEF ClientInv, ClientsConsistent, IndexInList
<1>1. DOMAIN clients[ChainOf[p]] = 1..Len(clients[ChainOf[p]])
  BY ListFacts DEF ClientInv, ClientTypeOK
<1> QED BY <1>1 DEF ClientInv, SnapshotsFit

-----------------------------------------------------------------------------
(* The contract operations use the clients as ClientNext says. *)

\* A step of an operation takes at most one step of one MultiClient.
LEMMA StepIsClientStep == [Next]_vars => [ClientNext]_clientVars
<1> SUFFICES ASSUME [Next]_vars PROVE [ClientNext]_clientVars
  OBVIOUS
<1> USE DEF clientVars
<1>1. CASE UNCHANGED vars
  BY <1>1 DEF vars
<1>2. ASSUME NEW ch \in Chains, Gossip(ch) \/ Mine(ch) PROVE UNCHANGED clientVars
  BY <1>2 DEF Gossip, Mine
<1>3. ASSUME NEW p \in Callers, BeginCall(p) PROVE ClientNext
  BY <1>3, StagesAssumption DEF BeginCall, ClientNext
<1>4. ASSUME NEW p \in Callers, AttemptFails(p) PROVE ClientNext
  BY <1>4 DEF AttemptFails, ClientNext
<1>5. ASSUME NEW p \in Callers, CallFails(p) PROVE ClientNext
  BY <1>5 DEF CallFails, ClientNext
<1>6. ASSUME NEW p \in Callers, ReadNothing(p) \/ ReadOwner(p) PROVE ClientNext
  BY <1>6 DEF ReadNothing, ReadOwner, ClientNext
<1>7. ASSUME NEW p \in Callers, ReadContract(p) \/ EstimateGas(p) PROVE ClientNext
  BY <1>7 DEF ReadContract, EstimateGas, ClientNext
<1>8. ASSUME NEW p \in Callers, SignTransaction(p) PROVE ClientNext
  BY <1>8 DEF SignTransaction, ClientNext
<1>9. ASSUME NEW p \in Callers, SendTransaction(p) PROVE ClientNext
  BY <1>9 DEF SendTransaction, ClientNext
<1>10. ASSUME NEW p \in Callers,
              \/ ReturnExisting(p) \/ ReuseReport(p) \/ Execute(p)
              \/ ReadTimesOut(p) \/ Confirm(p) \/ ConfirmSeth(p) \/ ConfirmExpires(p)
       PROVE  UNCHANGED clientVars
  BY <1>10 DEF ReturnExisting, ReuseReport, Execute, ReadTimesOut, Confirm,
               ConfirmSeth, ConfirmExpires
<1> QED BY <1>1, <1>2, <1>3, <1>4, <1>5, <1>6, <1>7, <1>8, <1>9, <1>10 DEF Next, OpStep, vars

(* The contract operations implement the specification of the clients: every  *)
(* step of an operation is a step of retryWithBackups or leaves it alone.     *)
THEOREM OperationsUseClients == Spec => ClientSpec
<1>1. Init => ClientInit
  BY DEF Init
<1> QED BY <1>1, StepIsClientStep, PTL DEF Spec, ClientSpec

(* For any number of endpoints, goroutines and attempts: concurrent calls     *)
(* never lose a client or list it twice, and reorderRPCs never uses an index  *)
(* outside of the list.                                                       *)
THEOREM ClientsStayConsistent == Spec => []ClientsConsistent
<1>1. ClientInv /\ [ClientNext]_clientVars => ClientInv'
  BY ClientStepInv
<1>2. ClientSpec => []ClientInv
  BY <1>1, ClientInitInv, PTL DEF ClientSpec
<1> QED BY <1>2, ClientInvConsistent, OperationsUseClients, PTL

\* The same clients are listed for ever, in whatever order.
THEOREM ClientsAreKept == Spec => ClientsKept
<1>1. ClientInv /\ [ClientNext]_clientVars => ClientInv'
  BY ClientStepInv
<1>2. ClientInv /\ [ClientNext]_clientVars => [\A ch \in Chains : SameClients(ch)]_clientVars
  BY ClientStepInv
<1>3. ClientSpec => ClientsKept
  BY <1>1, <1>2, ClientInitInv, PTL DEF ClientSpec, ClientsKept
<1> QED BY <1>3, OperationsUseClients, PTL

\* The client that answered comes first, the ones after it next, and those before
\* it, which failed, last.
LEMMA ReorderPlaces ==
    ASSUME NEW s \in ClientLists, NEW r \in 2..Len(s), NoDuplicatesIn(s)
    PROVE  /\ reorderRPCs(s, r)[1] = s[r]
           /\ \A i \in 1..(r - 1), j \in (r + 1)..Len(s) :
                  Position(reorderRPCs(s, r), s[i]) > Position(reorderRPCs(s, r), s[j])
<1> DEFINE n == Len(s)
           t == reorderRPCs(s, r)
<1>1. n \in Nat /\ s \in [1..n -> 1..NumRPCs] /\ DOMAIN s = 1..n /\ r \in 2..n
  BY ListFacts
<1>2. t = [k \in 1..n |-> s[Source(n, r, k)]]
  BY <1>1 DEF reorderRPCs
<1>3. NoDuplicatesIn(t)
  BY <1>1, ReorderFacts
<1> HIDE DEF n, t
<1>4. DOMAIN t = 1..n
  BY <1>2
<1>5. t[1] = s[r]
  BY <1>1, <1>2 DEF Source
\* A client is found at the place its old place is the source of.
<1>6. ASSUME NEW m \in 1..n, NEW k \in 1..n, Source(n, r, k) = m
      PROVE  Position(t, s[m]) = k
  <2>1. t[k] = s[m]
    BY <1>2, <1>6
  <2>2. \A l \in DOMAIN t : t[l] = s[m] => l = k
    BY <1>3, <1>4, <2>1 DEF NoDuplicatesIn
  <2> QED BY <1>4, <2>1, <2>2 DEF Position
<1>7. ASSUME NEW i \in 1..(r - 1), NEW j \in (r + 1)..n
      PROVE  Position(t, s[i]) > Position(t, s[j])
  <2>1. j \in 1..n /\ j - r + 1 \in 1..n /\ Source(n, r, j - r + 1) = j
    BY <1>1 DEF Source
  <2>2. Position(t, s[j]) = j - r + 1
    BY <1>6, <2>1
  <2>3. CASE i = 1
    <3>1. 1 \in 1..n /\ n \in 1..n /\ Source(n, r, n) = 1
      BY <1>1 DEF Source
    <3>2. Position(t, s[i]) = n
      BY <1>6, <2>3, <3>1
    <3> QED BY <1>1, <2>2, <3>2
  <2>4. CASE i > 1
    <3>1. i \in 1..n /\ i + n - r \in 1..n /\ Source(n, r, i + n - r) = i
      BY <1>1, <2>4 DEF Source
    <3>2. Position(t, s[i]) = i + n - r
      BY <1>6, <3>1
    <3> QED BY <1>1, <2>2, <2>4, <3>2
  <2> QED BY <2>3, <2>4
<1> QED BY <1>5, <1>7 DEF n, t

\* Only the answer to a call reorders the list, and puts the clients that failed
\* before it last.
LEMMA AnswerFirst ==
    ASSUME ClientInv, [ClientNext]_clientVars, NEW p \in Callers
    PROVE  FailedLast(p)
<1> DEFINE old == call[p].snap
           new == clients'[ChainOf[p]]
<1> SUFFICES ASSUME call[p] # NoCall, call'[p] = NoCall, old = clients[ChainOf[p]], new # old
             PROVE  /\ new[1] = Current(p)
                    /\ \A i \in 1..(call[p].idx - 1), j \in (call[p].idx + 1)..Len(old) :
                           Position(new, old[i]) > Position(new, old[j])
  BY DEF FailedLast
<1>1. /\ ChainOf[p] \in Chains /\ old \in ClientLists
      /\ call[p].idx \in 1..Len(old) /\ Len(old) \in 0..NumRPCs
      /\ clients \in [Chains -> ClientLists] /\ DOMAIN call = Callers
  BY ListFacts DEF ClientInv, ClientTypeOK, SnapshotsFit
<1>2. ClientNext
  BY DEF clientVars
<1>3. PICK q \in Callers : \/ \E op \in Ops : Begin(q, op)
                           \/ Answered(q) \/ TryAgain(q) \/ AllFailed(q)
  BY <1>2 DEF ClientNext
<1>4. q = p
  BY <1>1, <1>3 DEF Begin, Answered, TryAgain, AllFailed
<1>5. clients' # clients
  OBVIOUS
<1>6. Answered(p)
  BY <1>3, <1>4, <1>5 DEF Begin, TryAgain, AllFailed
<1>7. new = reorderRPCs(old, call[p].idx)
  BY <1>1, <1>6 DEF Answered
<1>8. call[p].idx \in 2..Len(old)
  BY <1>1, <1>7 DEF reorderRPCs
<1>9. NoDuplicatesIn(old)
  BY <1>1 DEF ClientInv, NoDuplicates, NoDuplicatesIn
<1> QED BY <1>1, <1>7, <1>8, <1>9, ReorderPlaces DEF Current

\* An answered call puts its client first and those that failed last.
THEOREM AnswersComeFirst == Spec => AnsweredFirst
<1>1. ClientInv /\ [ClientNext]_clientVars => ClientInv'
  BY ClientStepInv
<1>2. ClientInv /\ [ClientNext]_clientVars => [\A p \in Callers : FailedLast(p)]_clientVars
  BY AnswerFirst
<1>3. ClientSpec => AnsweredFirst
  BY <1>1, <1>2, ClientInitInv, PTL DEF ClientSpec, AnsweredFirst
<1> QED BY <1>3, OperationsUseClients, PTL

-----------------------------------------------------------------------------
(* The operators of the contract operations. *)

\* A finite pool leaves a nonce free right after the ones that are taken.
LEMMA FreeNonce ==
    ASSUME NEW L \in Nat, NEW S, IsFiniteSet(S), \A t \in S : t.nonce \in Nat
    PROVE  \E n \in (L + 1)..(L + Cardinality(S) + 1) :
               /\ \A t \in S : t.nonce # n
               /\ \A m \in (L + 1)..(n - 1) : \E t \in S : t.nonce = m
<1> DEFINE N == {t.nonce : t \in S}
           I == (L + 1)..(L + Cardinality(S) + 1)
           f == [t \in S |-> t.nonce]
           D == I \ N
           R == OpToRel(<, Nat)
<1>1. Cardinality(S) \in Nat
  BY FS_CardinalityType
<1>2. f \in Surjection(S, N)
  BY DEF Surjection
<1> HIDE DEF f
<1>3. IsFiniteSet(N) /\ Cardinality(N) <= Cardinality(S)
  <2> HIDE DEF N
  <2> QED BY <1>2, FS_Surjection
<1>4. IsFiniteSet(I) /\ Cardinality(I) = Cardinality(S) + 1
  <2>1. L + 1 \in Int /\ L + Cardinality(S) + 1 \in Int
    BY <1>1
  <2>2. ~(L + 1 > L + Cardinality(S) + 1)
        /\ (L + Cardinality(S) + 1) - (L + 1) + 1 = Cardinality(S) + 1
    BY <1>1
  <2> QED BY <2>1, <2>2, FS_Interval
<1>5. D # {}
  <2> SUFFICES ASSUME D = {} PROVE FALSE
    OBVIOUS
  <2>1. I \in SUBSET N
    OBVIOUS
  <2> HIDE DEF N, I, D
  <2>2. Cardinality(I) <= Cardinality(N) /\ Cardinality(N) \in Nat
    BY <1>3, <2>1, FS_Subset, FS_CardinalityType
  <2> QED BY <1>1, <1>3, <1>4, <2>2
<1>6. D \subseteq Nat
  BY <1>1
<1>7. IsWellFoundedOn(R, Nat)
  BY NatLessThanWellFounded
<1>12. \A x, y \in Nat : <<x, y>> \in R <=> x < y
  BY DEF OpToRel
<1> HIDE DEF R
<1>8. PICK n \in D : \A m \in D : ~(<<m, n>> \in R)
  <2> HIDE DEF D
  <2> QED BY <1>5, <1>6, <1>7, WFMin
<1>9. \A m \in D : ~(m < n)
  BY <1>6, <1>8, <1>12
<1>10. n \in I /\ \A t \in S : t.nonce # n
  BY <1>8
<1>11. ASSUME NEW m \in (L + 1)..(n - 1) PROVE \E t \in S : t.nonce = m
  <2>1. m \in I /\ m < n
    BY <1>1, <1>10
  <2> QED BY <1>9, <2>1
<1> QED BY <1>10, <1>11

\* What a transaction offers is a number.
LEMMA TransactGasType ==
    ASSUME NEW g \in Nat
    PROVE  TransactGas(g) \in Nat
BY GasAssumption DEF TransactGas, CapGasLimit

\* So is what a retry offers.
LEMMA BoostType ==
    ASSUME NEW n \in 1..OpTries, NEW g \in Nat
    PROVE  nextBoostedGas(n - 1, g) \in Nat
<1>1. n - 1 \in Nat /\ InitialGas \in Nat /\ GasIncrement \in Nat
  BY OpTriesAssumption, GasAssumption
<1>2. \A a, b \in Nat : a * b \in Nat
  OBVIOUS
<1>3. (n - 1) * GasIncrement \in Nat
  BY <1>1, <1>2
<1> QED BY <1>1, <1>3 DEF nextBoostedGas

\* A set of places of a list has a last one.
LEMMA GreatestPlace ==
    ASSUME NEW n \in Nat, NEW S \in SUBSET (1..n), S # {}
    PROVE  (CHOOSE i \in S : \A j \in S : j <= i) \in S
<1> DEFINE R == OpToRel(<, Nat)
           T == {n - i : i \in S}
<1>1. IsWellFoundedOn(R, Nat)
  BY NatLessThanWellFounded
<1>2. \A x, y \in Nat : <<x, y>> \in R <=> x < y
  BY DEF OpToRel
<1> HIDE DEF R
<1>3. \A i \in S : n - i \in Nat /\ n - i \in T
  OBVIOUS
<1>4. T \subseteq Nat /\ T # {}
  BY <1>3
<1>5. PICK m \in T : \A y \in T : ~(<<y, m>> \in R)
  <2> HIDE DEF T
  <2> QED BY <1>1, <1>4, WFMin
<1>6. PICK i \in S : m = n - i
  OBVIOUS
<1>7. \A j \in S : ~(n - j < m)
  BY <1>2, <1>3, <1>4, <1>5
<1>8. \A j \in S : j <= i
  BY <1>6, <1>7
<1> QED BY <1>8

-----------------------------------------------------------------------------
(* What operations report about the chain. *)

\* What an operation returns.
Outs == [chain : Chains, executed : BOOLEAN, by : Callers, tx : Txs \cup {NoTx}]

MinedTxs == [tx : Txs, outcome : {"ok", "reverted", "outOfGas"}]

Reported == [key : {ReportKey(p) : p \in Callers}, out : Outs]

\* Every variable has its type, with the shapes of functions and sequences.
OpShapes ==
    /\ stage \in [Callers -> RPCStages \cup {"idle", "confirm", "done"}]
    /\ opTry \in [Callers -> 1..OpTries]
    /\ gas \in [Callers -> Nat]
    /\ tx \in [Callers -> Txs \cup {NoTx}]
    /\ res \in [Callers -> {NoResult} \cup [ok : {TRUE}, out : Outs]]
    /\ reports \in Seq(Reported)

ChainShapes ==
    /\ pool \in [Chains -> [1..NumRPCs -> SUBSET Txs]]
    /\ \A ch \in Chains, c \in 1..NumRPCs : IsFiniteSet(pool[ch][c])
    /\ mined \in [Chains -> Seq(MinedTxs)]
    /\ \A ch \in Chains : \A i \in DOMAIN mined[ch] : mined[ch][i].tx.nonce = i

\* Where the operation of p is tells what it has.
Staged(p) ==
    /\ call[p] # NoCall => stage[p] \in RPCStages
    /\ stage[p] # "done" => res[p] = NoResult
    /\ stage[p] = "view" => job[p].kind = "read"
    /\ stage[p] \in {"send", "confirm"} =>
           tx[p] \in Txs /\ tx[p].by = p /\ tx[p].att = opTry[p] /\ Sends(p)

\* The attempt of t goes on, ended without a receipt, or is what was returned.
Waiting(t) == stage[t.by] \in {"send", "confirm"} /\ tx[t.by] = t
Unseen(t) == <<t.by, t.att>> \in unconfirmed
Returned(t) == res[t.by].ok /\ res[t.by].out.tx = t

\* Transactions in a pool are not mined yet and belong to an attempt.
Pooled(ch, t) ==
    /\ t.nonce > Len(mined[ch])
    /\ ch = ChainOf[t.by] /\ Sends(t.by)
    /\ Waiting(t) \/ Unseen(t)

Accounted(ch, m) ==
    /\ ch = ChainOf[m.tx.by] /\ Sends(m.tx.by)
    /\ m.outcome = "ok" => Waiting(m.tx) \/ Unseen(m.tx) \/ Returned(m.tx)

\* What an output says about the chain is so.
OutTrue(out) == out.executed /\ out.tx # NoTx => MinedOk(out.chain, out.tx)
WriteOut(out) == out.tx \in Txs /\ (out.executed \/ ~Sends(out.tx.by))

EffectsInv ==
    /\ ClientTypeOK
    /\ OpShapes /\ ChainShapes
    /\ \A p \in Callers : Staged(p)
    /\ \A ch \in Chains, c \in 1..NumRPCs : \A t \in pool[ch][c] : Pooled(ch, t)
    /\ \A ch \in Chains : \A i \in DOMAIN mined[ch] : Accounted(ch, mined[ch][i])
    /\ \A i \in DOMAIN reports :
           /\ OutTrue(reports[i].out)
           /\ reports[i].key.op = "write" => WriteOut(reports[i].out)
    /\ \A p \in Results : OutTrue(res[p].out) /\ (IsWrite(p) => WriteOut(res[p].out))

\* An operation starts with one of its own stages.
LEMMA FirstStageType ==
    ASSUME NEW p \in Callers, NEW g
    PROVE  /\ FirstStage(p, g) \in {"view", "read", "nonce", "estimate"}
           /\ FirstStage(p, g) = "view" => job[p].kind = "read"
BY DEF FirstStage, TxStage

\* A caller in a call talks to one of the nodes.
LEMMA CurrentType ==
    ASSUME ClientInv, NEW p \in Callers, call[p] # NoCall
    PROVE  Current(p) \in 1..NumRPCs
<1>1. call[p].snap \in ClientLists /\ call[p].idx \in 1..Len(call[p].snap)
  BY DEF ClientInv, ClientTypeOK, SnapshotsFit
<1> QED BY <1>1, ListFacts DEF Current

\* Only what a step says of p it does to p: the others stay as they are.
Alike(p) == /\ stage'[p] = stage[p] /\ opTry'[p] = opTry[p] /\ gas'[p] = gas[p]
            /\ tx'[p] = tx[p] /\ res'[p] = res[p]

\* Transactions of operations are not mistaken for none.
LEMMA TxFacts ==
    ASSUME NEW t \in Txs
    PROVE  t # NoTx /\ t.by \in Callers /\ t.att \in 1..OpTries /\ t.nonce \in Nat /\ t.nonce > 0
<1>1. t.att \in 1..OpTries /\ NoTx.att = 0
  BY DEF Txs, NoTx
<1> QED BY <1>1, OpTriesAssumption DEF Txs

\* An attempt that fails leaves the shapes.
LEMMA FailShapes ==
    ASSUME OpShapes, NEW p \in Callers, NEW kind, NEW sent, FailAttempt(p, kind, sent),
           job' = job
    PROVE  OpShapes'
<1> USE DEF OpShapes
<1>1. /\ tx' = [tx EXCEPT ![p] = NoTx] /\ res' = res /\ reports' = reports
  BY DEF FailAttempt
<1>2. tx' \in [Callers -> Txs \cup {NoTx}]
  BY <1>1
<1>3. Reported' = Reported
  BY DEF Reported, ReportKey
<1>4. CASE /\ opTry[p] < Tries(p)
           /\ opTry' = [opTry EXCEPT ![p] = @ + 1]
           /\ gas' = [gas EXCEPT ![p] = IF kind = "gas" THEN nextBoostedGas(opTry[p] - 1, @) ELSE @]
           /\ stage' = [stage EXCEPT ![p] = FirstStage(p, gas'[p])]
  <2>1. opTry[p] + 1 \in 1..OpTries
    BY <1>4, OpTriesAssumption DEF Tries
  <2>2. nextBoostedGas(opTry[p] - 1, gas[p]) \in Nat
    BY BoostType
  <2>3. FirstStage(p, gas'[p]) \in RPCStages
    BY FirstStageType DEF RPCStages
  <2> QED BY <1>1, <1>2, <1>3, <1>4, <2>1, <2>2, <2>3
<1>5. CASE stage' = [stage EXCEPT ![p] = "done"] /\ UNCHANGED <<opTry, gas>>
  BY <1>1, <1>2, <1>3, <1>5
<1> QED BY <1>4, <1>5 DEF FailAttempt

\* An operation that succeeds leaves the shapes.
LEMMA SucceedShapes ==
    ASSUME OpShapes, NEW p \in Callers, NEW executed \in BOOLEAN, Succeed(p, executed),
           tx' \in [Callers -> Txs \cup {NoTx}], job' = job
    PROVE  OpShapes' /\ Output(p, executed) \in Outs
<1> USE DEF OpShapes
<1>1. Output(p, executed) \in Outs
  BY DEF Output, Outs
<1>2. [key |-> ReportKey(p), out |-> Output(p, executed)] \in Reported
  BY <1>1 DEF Reported
<1>3. Reported' = Reported
  BY DEF Reported, ReportKey
<1>4. reports' \in Seq(Reported)
  BY <1>2 DEF Succeed
<1>5. PICK o \in Outs : o = Output(p, executed)
  BY <1>1
<1>6. /\ stage' = [stage EXCEPT ![p] = "done"]
      /\ res' = [res EXCEPT ![p] = [ok |-> TRUE, out |-> o]]
      /\ UNCHANGED <<opTry, gas>>
  BY <1>5 DEF Succeed
<1>7. [ok |-> TRUE, out |-> o] \in [ok : {TRUE}, out : Outs]
  OBVIOUS
<1>8. res' \in [Callers -> {NoResult} \cup [ok : {TRUE}, out : Outs]]
  BY <1>6, <1>7
<1> QED BY <1>1, <1>3, <1>4, <1>6, <1>8

\* The nonce that a node answers with.
LEMMA NonceType ==
    ASSUME ChainShapes, NEW ch \in Chains, NEW c \in 1..NumRPCs
    PROVE  PendingNonceAt(ch, c) \in Nat \ {0}
<1> DEFINE L == Len(mined[ch])
           S == pool[ch][c]
<1>1. L \in Nat /\ IsFiniteSet(S) /\ S \subseteq Txs
  BY DEF ChainShapes
<1>2. \A t \in S : t.nonce \in Nat
  BY <1>1, TxFacts
<1>3. Cardinality(S) \in Nat
  BY <1>1, FS_CardinalityType
<1> HIDE DEF L, S
<1>4. \E n \in (L + 1)..(L + Cardinality(S) + 1) :
          /\ \A t \in S : t.nonce # n
          /\ \A m \in (L + 1)..(n - 1) : \E t \in S : t.nonce = m
  BY <1>1, <1>2, FreeNonce
<1>5. PendingNonceAt(ch, c) \in (L + 1)..(L + Cardinality(S) + 1)
  BY <1>4 DEF PendingNonceAt, L, S
<1>6. \A n \in (L + 1)..(L + Cardinality(S) + 1) : n \in Nat \ {0}
  BY <1>1, <1>3
<1> QED BY <1>5, <1>6

\* What an operation is for does not change, nor what was mined.
LEMMA SameJob ==
    ASSUME NEW p \in Callers, OpStep(p)
    PROVE  job' = job /\ mined' = mined /\ confirmer' = confirmer
<1>1. CASE ReturnExisting(p) \/ ReuseReport(p) \/ Execute(p) \/ BeginCall(p) \/ AttemptFails(p)
  BY <1>1 DEF ReturnExisting, ReuseReport, Execute, BeginCall, AttemptFails, chainVars
<1>2. CASE CallFails(p) \/ ReadNothing(p) \/ ReadTimesOut(p) \/ ReadOwner(p) \/ ReadContract(p)
  BY <1>2 DEF CallFails, ReadNothing, ReadTimesOut, ReadOwner, ReadContract, chainVars
<1>3. CASE EstimateGas(p) \/ SignTransaction(p) \/ SendTransaction(p)
  BY <1>3 DEF EstimateGas, SignTransaction, SendTransaction, chainVars
<1>4. CASE Confirm(p) \/ ConfirmSeth(p) \/ ConfirmExpires(p)
  BY <1>4 DEF Confirm, ConfirmSeth, ConfirmExpires, chainVars
<1> QED BY <1>1, <1>2, <1>3, <1>4 DEF OpStep

\* The step of an operation leaves the shapes of the operations.
LEMMA OpShapesStep ==
    ASSUME OpShapes, ChainShapes, ClientInv, NEW p \in Callers, OpStep(p)
    PROVE  OpShapes'
<1> USE DEF OpShapes
<1>1. Reported' = Reported
  BY SameJob DEF Reported, ReportKey
<1>2. CASE ReturnExisting(p)
  <2>1. ExistingRef(p) \in Outs
    BY DEF ExistingRef, Outs
  <2> QED BY <1>1, <1>2, <2>1 DEF ReturnExisting
<1>3. CASE ReuseReport(p)
  <2>1. PICK M, l : M = Matches(p) /\ l = CHOOSE i \in M : \A j \in M : j <= i
    OBVIOUS
  <2>2. /\ M \in SUBSET (1..Len(reports)) /\ M # {} /\ Len(reports) \in Nat
        /\ \A i \in 1..Len(reports) : reports[i] \in Reported
    <3>1. reports \in Seq(Reported)
      OBVIOUS
    <3> HIDE DEF OpShapes
    <3>2. /\ DOMAIN reports = 1..Len(reports) /\ Len(reports) \in Nat
          /\ \A i \in 1..Len(reports) : reports[i] \in Reported
      BY <3>1
    <3>3. M # {} /\ M \subseteq DOMAIN reports
      BY <1>3, <2>1 DEF ReuseReport, Matches
    <3> QED BY <3>2, <3>3
  <2>3. l \in M
    BY <2>1, <2>2, GreatestPlace
  <2>4. reports[l].out \in Outs
    <3>1. reports[l] \in Reported
      BY <2>2, <2>3
    <3> QED BY <3>1 DEF Reported
  <2>5. res' = [res EXCEPT ![p] = [ok |-> TRUE, out |-> reports[l].out]]
    BY <1>3, <2>1 DEF ReuseReport
  <2>6. res' \in [Callers -> {NoResult} \cup [ok : {TRUE}, out : Outs]]
    BY <2>4, <2>5
  <2> QED BY <1>1, <1>3, <2>6 DEF ReuseReport
<1>4. CASE Execute(p)
  BY <1>1, <1>4, FirstStageType DEF Execute, RPCStages
<1>5. CASE BeginCall(p) \/ AttemptFails(p) \/ ReadNothing(p)
  BY <1>1, <1>5 DEF BeginCall, AttemptFails, ReadNothing, opVars
<1>6. CASE CallFails(p)
  BY <1>6, FailShapes DEF CallFails
<1>7. CASE ReadTimesOut(p)
  BY <1>7, FailShapes DEF ReadTimesOut
<1>8. CASE ReadOwner(p) \/ EstimateGas(p)
  BY <1>1, <1>8 DEF ReadOwner, EstimateGas, TxStage, RPCStages
<1>9. CASE ReadContract(p)
  BY <1>9, SucceedShapes DEF ReadContract
<1>10. CASE SignTransaction(p)
  <2>1. call[p] # NoCall
    BY <1>10, StagesAssumption DEF SignTransaction, InCall, NoCall, RPCStages
  <2>2. PICK n : n = PendingNonceAt(ChainOf[p], Current(p))
    OBVIOUS
  <2>3. n \in Nat \ {0}
    BY <2>1, <2>2, CurrentType, NonceType
  <2>4. TransactGas(gas[p]) \in Nat
    BY TransactGasType
  <2>5. tx' = [tx EXCEPT ![p] = [att |-> opTry[p], by |-> p, gas |-> TransactGas(gas[p]),
                                 nonce |-> n]]
    BY <1>10, <2>2 DEF SignTransaction
  <2>6. tx' \in [Callers -> Txs \cup {NoTx}]
    BY <2>3, <2>4, <2>5 DEF Txs
  <2>7. job' = job
    BY <1>10 DEF SignTransaction
  <2>8. CASE Sends(p)
    BY <1>1, <1>10, <2>6, <2>8 DEF SignTransaction, RPCStages
  <2>9. CASE ~Sends(p)
    BY <1>10, <2>6, <2>7, <2>9, SucceedShapes DEF SignTransaction
  <2> QED BY <2>8, <2>9
<1>11. CASE SendTransaction(p)
  <2>1. job' = job
    BY <1>11 DEF SendTransaction
  <2>2. CASE FailAttempt(p, "other", TRUE)
    BY <2>1, <2>2, FailShapes
  <2>3. CASE UNCHANGED opVars \/ (stage' = [stage EXCEPT ![p] = "confirm"]
                                  /\ UNCHANGED <<opTry, gas, tx, res, reports, unconfirmed>>)
    BY <1>1, <2>3 DEF opVars
  <2> QED BY <1>11, <2>2, <2>3 DEF SendTransaction
<1>12. CASE Confirm(p) \/ ConfirmSeth(p) \/ ConfirmExpires(p)
  <2>1. job' = job
    BY <1>12 DEF Confirm, ConfirmSeth, ConfirmExpires
  <2>2. \/ UNCHANGED tx /\ Succeed(p, TRUE)
        \/ \E kind, sent : FailAttempt(p, kind, sent)
    BY <1>12 DEF Confirm, ConfirmSeth, ConfirmExpires
  <2> QED BY <2>1, <2>2, FailShapes, SucceedShapes
<1> QED BY <1>2, <1>3, <1>4, <1>5, <1>6, <1>7, <1>8, <1>9, <1>10, <1>11, <1>12 DEF OpStep

-----------------------------------------------------------------------------
(* What the step of an operation does to the operation and to the pools, in   *)
(* one of seven ways.                                                         *)

\* Before its transaction is sent, and before it ends.
Calm(p) == stage[p] \notin {"send", "confirm", "done"}

Talks == UNCHANGED opVars /\ pool' = pool

Moves(p) ==
    /\ Calm(p)
    /\ \E s \in {"view", "read", "nonce", "estimate"} :
           stage' = [stage EXCEPT ![p] = s] /\ (s = "view" => job[p].kind = "read")
    /\ UNCHANGED <<opTry, gas, tx, res, reports, unconfirmed, pool>>

ReturnsOld(p) ==
    /\ Calm(p)
    /\ stage' = [stage EXCEPT ![p] = "done"]
    /\ \E o \in Outs : /\ OutTrue(o) /\ (IsWrite(p) => WriteOut(o))
                       /\ res' = [res EXCEPT ![p] = [ok |-> TRUE, out |-> o]]
    /\ UNCHANGED <<opTry, gas, tx, reports, unconfirmed, pool>>

Fails(p) ==
    /\ stage[p] # "done" /\ pool' = pool
    /\ \E kind, sent \in {"gas", "other", TRUE, FALSE} :
           /\ FailAttempt(p, kind, sent)
           /\ \/ Calm(p)
              \/ sent = TRUE
              \/ stage[p] = "confirm" /\ (Receipt(p, "reverted") \/ Receipt(p, "outOfGas"))

\* A receipt that counts as a success.
Seen(p) == \E outcome \in {"ok", "reverted", "outOfGas"} :
               Receipt(p, outcome) /\ (confirmer = "geth" => outcome = "ok")

Succeeds(p) ==
    /\ pool' = pool
    /\ tx' \in [Callers -> Txs \cup {NoTx}]
    /\ \E t : tx' = [tx EXCEPT ![p] = t]
    /\ \/ /\ Calm(p) /\ Succeed(p, FALSE)
          /\ IsWrite(p) => tx'[p] \in Txs /\ tx'[p].by = p /\ ~Sends(p)
       \/ /\ stage[p] = "confirm" /\ Succeed(p, TRUE)
          /\ Seen(p) /\ tx' = tx

Signs(p) ==
    /\ Calm(p) /\ Sends(p)
    /\ stage' = [stage EXCEPT ![p] = "send"]
    /\ \E t \in Txs : t.by = p /\ t.att = opTry[p] /\ tx' = [tx EXCEPT ![p] = t]
    /\ UNCHANGED <<opTry, gas, res, reports, unconfirmed, pool>>

Delivers(p) ==
    /\ stage[p] = "send"
    /\ \E c \in 1..NumRPCs : Accepts(ChainOf[p], c, tx[p]) /\ Put(ChainOf[p], c, tx[p])
    /\ \/ UNCHANGED opVars
       \/ /\ stage' = [stage EXCEPT ![p] = "confirm"]
          /\ UNCHANGED <<opTry, gas, tx, res, reports, unconfirmed>>
       \/ FailAttempt(p, "other", TRUE)

Effect(p) == \/ Talks \/ Moves(p) \/ ReturnsOld(p) \/ Fails(p) \/ Succeeds(p)
             \/ Signs(p) \/ Delivers(p)

\* A write is not mistaken for another operation.
LEMMA WriteKey ==
    ASSUME NEW p \in Callers
    PROVE  (ReportKey(p).op = "write") = IsWrite(p)
BY DEF ReportKey, IsWrite

\* A report found again says of the chain what is so.
LEMMA ReuseEffect ==
    ASSUME EffectsInv, NEW p \in Callers, ReuseReport(p)
    PROVE  ReturnsOld(p)
<1>1. PICK M, l : M = Matches(p) /\ l = CHOOSE i \in M : \A j \in M : j <= i
  OBVIOUS
<1>2. reports \in Seq(Reported)
  BY DEF EffectsInv, OpShapes
<1>3. /\ DOMAIN reports = 1..Len(reports) /\ Len(reports) \in Nat
      /\ \A i \in 1..Len(reports) : reports[i] \in Reported
  BY <1>2
<1>4. M \in SUBSET (1..Len(reports)) /\ M # {}
  BY <1>1, <1>3 DEF ReuseReport, Matches
<1>5. l \in M
  BY <1>1, <1>3, <1>4, GreatestPlace
<1>6. l \in DOMAIN reports /\ reports[l].key = ReportKey(p)
  BY <1>1, <1>5 DEF Matches
<1>7. reports[l].out \in Outs
  BY <1>3, <1>6 DEF Reported
<1>8. OutTrue(reports[l].out) /\ (IsWrite(p) => WriteOut(reports[l].out))
  BY <1>6, WriteKey DEF EffectsInv
<1>9. /\ stage[p] = "idle" /\ stage' = [stage EXCEPT ![p] = "done"]
      /\ res' = [res EXCEPT ![p] = [ok |-> TRUE, out |-> reports[l].out]]
      /\ UNCHANGED <<opTry, gas, tx, reports, unconfirmed, pool>>
  BY <1>1 DEF ReuseReport, Started, chainVars
<1> QED BY <1>7, <1>8, <1>9 DEF ReturnsOld, Calm

\* Signing a transaction starts sending it, or ends a write left to others.
LEMMA SignEffect ==
    ASSUME EffectsInv, ClientInv, NEW p \in Callers, SignTransaction(p)
    PROVE  Signs(p) \/ Succeeds(p)
<1>0. /\ opTry \in [Callers -> 1..OpTries] /\ gas \in [Callers -> Nat]
      /\ tx \in [Callers -> Txs \cup {NoTx}] /\ ChainShapes
  BY DEF EffectsInv, OpShapes
<1>1. call[p] # NoCall /\ Calm(p)
  BY StagesAssumption DEF SignTransaction, InCall, NoCall, RPCStages, Calm
<1>2. PICK n : n = PendingNonceAt(ChainOf[p], Current(p))
  OBVIOUS
<1>3. n \in Nat \ {0}
  BY <1>0, <1>1, <1>2, CurrentType, NonceType
<1>4. TransactGas(gas[p]) \in Nat
  BY <1>0, TransactGasType
<1>5. PICK t : t = [att |-> opTry[p], by |-> p, gas |-> TransactGas(gas[p]), nonce |-> n]
  OBVIOUS
<1>6. t \in Txs /\ t.by = p /\ t.att = opTry[p]
  BY <1>0, <1>3, <1>4, <1>5 DEF Txs
<1>7. tx' = [tx EXCEPT ![p] = t] /\ pool' = pool
  BY <1>2, <1>5 DEF SignTransaction, chainVars
<1>8. CASE Sends(p)
  BY <1>1, <1>6, <1>7, <1>8 DEF SignTransaction, Signs
<1>9. CASE ~Sends(p)
  <2>1. Succeed(p, FALSE)
    BY <1>9 DEF SignTransaction
  <2>2. tx' \in [Callers -> Txs \cup {NoTx}] /\ tx'[p] = t
    BY <1>0, <1>6, <1>7
  <2> QED BY <1>1, <1>6, <1>7, <1>9, <2>1, <2>2 DEF Succeeds
<1> QED BY <1>8, <1>9

\* The step of an operation has one of the effects.
LEMMA OpEffect ==
    ASSUME EffectsInv, ClientInv, NEW p \in Callers, OpStep(p)
    PROVE  Effect(p)
<1>1. CASE ReturnExisting(p)
  <2>1. ExistingRef(p) \in Outs /\ ExistingRef(p).tx = NoTx
    BY DEF ExistingRef, Outs
  <2>2. OutTrue(ExistingRef(p)) /\ ~IsWrite(p)
    BY <1>1, <2>1 DEF OutTrue, ReturnExisting, IsWrite
  <2>3. PICK o : o = ExistingRef(p)
    OBVIOUS
  <2> QED BY <1>1, <2>1, <2>2, <2>3
          DEF ReturnExisting, Started, ReturnsOld, Calm, chainVars, Effect
<1>2. CASE ReuseReport(p)
  BY <1>2, ReuseEffect DEF Effect
<1>3. CASE Execute(p)
  <2>1. PICK s : s = FirstStage(p, 0)
    OBVIOUS
  <2>2. s \in {"view", "read", "nonce", "estimate"} /\ (s = "view" => job[p].kind = "read")
    BY <2>1, FirstStageType
  <2>3. Moves(p)
    BY <1>3, <2>1, <2>2 DEF Execute, Started, Moves, Calm, chainVars
  <2> QED BY <2>3 DEF Effect
<1>4. CASE BeginCall(p) \/ AttemptFails(p) \/ ReadNothing(p)
  BY <1>4 DEF BeginCall, AttemptFails, ReadNothing, Talks, chainVars, Effect
<1>5. CASE CallFails(p)
  <2>1. PICK kind \in ErrorKinds(p) : FailAttempt(p, kind, stage[p] = "send")
    BY <1>5 DEF CallFails
  <2>2. kind \in {"gas", "other"} /\ pool' = pool
    BY <1>5 DEF CallFails, ErrorKinds, chainVars
  <2>3. stage[p] \notin {"confirm", "done"}
    <3>1. stage[p] \in RPCStages
      BY <1>5 DEF CallFails, AllFailed, EffectsInv, Staged
    <3> QED BY <3>1 DEF RPCStages
  <2>4. CASE stage[p] = "send"
    BY <2>1, <2>2, <2>3, <2>4 DEF Fails, Effect
  <2>5. CASE stage[p] # "send"
    BY <2>1, <2>2, <2>3, <2>5 DEF Fails, Effect, Calm
  <2> QED BY <2>4, <2>5
<1>6. CASE ReadTimesOut(p)
  BY <1>6 DEF ReadTimesOut, Fails, Effect, Calm, chainVars
<1>7. CASE ReadOwner(p) \/ EstimateGas(p)
  BY <1>7 DEF ReadOwner, EstimateGas, InCall, TxStage, Moves, Effect, Calm, chainVars
<1>8. CASE ReadContract(p)
  <2>1. stage[p] = "view" /\ tx' = tx /\ Succeed(p, FALSE) /\ pool' = pool
    BY <1>8 DEF ReadContract, InCall, chainVars
  <2>2. ~IsWrite(p)
    BY <2>1 DEF EffectsInv, Staged, IsWrite
  <2>3. tx' \in [Callers -> Txs \cup {NoTx}] /\ tx' = [tx EXCEPT ![p] = tx[p]]
    BY <2>1 DEF EffectsInv, OpShapes
  <2> QED BY <2>1, <2>2, <2>3 DEF Succeeds, Effect, Calm
<1>9. CASE SignTransaction(p)
  BY <1>9, SignEffect DEF Effect
<1>10. CASE SendTransaction(p)
  <2>1. call[p] # NoCall
    BY <1>10, StagesAssumption DEF SendTransaction, InCall, NoCall, RPCStages
  <2>2. Current(p) \in 1..NumRPCs
    BY <2>1, CurrentType
  <2> QED BY <1>10, <2>2 DEF SendTransaction, InCall, Delivers, Effect
<1>11. CASE Confirm(p) \/ ConfirmSeth(p) \/ ConfirmExpires(p)
  <2>1. stage[p] = "confirm" /\ pool' = pool
    BY <1>11 DEF Confirm, ConfirmSeth, ConfirmExpires, chainVars
  <2>2. CASE Seen(p) /\ UNCHANGED tx /\ Succeed(p, TRUE)
    <3>1. tx' \in [Callers -> Txs \cup {NoTx}] /\ tx' = [tx EXCEPT ![p] = tx[p]]
      BY <2>2 DEF EffectsInv, OpShapes
    <3> QED BY <2>1, <2>2, <3>1 DEF Succeeds, Effect
  <2>3. CASE FailAttempt(p, "other", TRUE)
    BY <2>1, <2>3 DEF Fails, Effect
  <2>4. CASE \/ Receipt(p, "reverted") /\ FailAttempt(p, "other", FALSE)
             \/ Receipt(p, "outOfGas") /\ FailAttempt(p, "gas", FALSE)
             \/ Receipt(p, "outOfGas") /\ FailAttempt(p, "other", FALSE)
    BY <2>1, <2>4 DEF Fails, Effect
  <2>5. CASE Confirm(p)
    BY <2>2, <2>4, <2>5 DEF Confirm, Seen
  <2>6. CASE ConfirmSeth(p)
    <3>1. PICK outcome \in {"ok", "reverted", "outOfGas"} :
              /\ Receipt(p, outcome) /\ confirmer = "seth"
              /\ \/ UNCHANGED tx /\ Succeed(p, TRUE)
                 \/ FailAttempt(p, "other", outcome = "ok")
      BY <2>6 DEF ConfirmSeth
    <3>2. CASE UNCHANGED tx /\ Succeed(p, TRUE)
      BY <2>2, <3>1, <3>2 DEF Seen
    <3>3. CASE FailAttempt(p, "other", outcome = "ok")
      <4>1. CASE outcome = "ok"
        <5>1. (outcome = "ok") = TRUE
          BY <4>1
        <5> QED BY <2>3, <3>3, <5>1
      <4>2. CASE outcome # "ok"
        <5>1. (outcome = "ok") = FALSE
          BY <4>2
        <5>2. FailAttempt(p, "other", FALSE)
          BY <3>3, <5>1
        <5> QED BY <2>4, <3>1, <4>2, <5>2
      <4> QED BY <4>1, <4>2
    <3> QED BY <3>1, <3>2, <3>3
  <2> QED BY <1>11, <2>3, <2>5, <2>6 DEF ConfirmExpires
<1> QED BY <1>1, <1>2, <1>3, <1>4, <1>5, <1>6, <1>7, <1>8, <1>9, <1>10, <1>11 DEF OpStep

\* The call of one goroutine is no other's, and one that goes on belongs to a stage.
LEMMA CallEffect ==
    ASSUME ClientTypeOK, NEW p \in Callers, OpStep(p), Staged(p)
    PROVE  /\ \A q \in Callers \ {p} : call'[q] = call[q]
           /\ call'[p] # NoCall => stage'[p] = stage[p] /\ stage[p] \in RPCStages
<1>0. call = [q \in Callers |-> call[q]]
  BY DEF ClientTypeOK
<1>1. CASE ReturnExisting(p) \/ ReuseReport(p) \/ Execute(p)
  <2>1. call' = call /\ stage[p] = "idle"
    BY <1>1 DEF ReturnExisting, ReuseReport, Execute, Started
  <2> QED BY <2>1 DEF Staged, RPCStages
<1>2. CASE BeginCall(p)
  BY <1>0, <1>2 DEF BeginCall, Begin, opVars
<1>3. CASE Answered(p)
  BY <1>0, <1>3 DEF Answered
<1>4. CASE AllFailed(p)
  BY <1>0, <1>4 DEF AllFailed
<1>5. CASE TryAgain(p) /\ stage' = stage
  <2>1. \A q \in Callers \ {p} : call'[q] = call[q]
    BY <1>0, <1>5 DEF TryAgain
  <2>2. stage[p] \in RPCStages
    BY <1>5 DEF TryAgain, Staged
  <2> QED BY <1>5, <2>1, <2>2
<1>6. CASE ReadTimesOut(p)
  BY <1>6 DEF ReadTimesOut
<1>7. CASE Confirm(p) \/ ConfirmSeth(p) \/ ConfirmExpires(p)
  <2>1. call' = call /\ stage[p] = "confirm"
    BY <1>7 DEF Confirm, ConfirmSeth, ConfirmExpires
  <2> QED BY <2>1 DEF Staged, RPCStages
<1> QED BY <1>1, <1>2, <1>3, <1>4, <1>5, <1>6, <1>7
        DEF OpStep, AttemptFails, CallFails, ReadNothing, ReadOwner, ReadContract,
            EstimateGas, SignTransaction, SendTransaction, opVars

\* What a failed attempt does.
LEMMA FailFacts ==
    ASSUME OpShapes, NEW p \in Callers, NEW kind, NEW sent, FailAttempt(p, kind, sent)
    PROVE  /\ res' = res /\ reports' = reports
           /\ unconfirmed \subseteq unconfirmed'
           /\ sent = TRUE => <<p, opTry[p]>> \in unconfirmed'
           /\ stage'[p] \in {"view", "read", "nonce", "estimate", "done"}
           /\ stage'[p] = "view" => job[p].kind = "read"
           /\ \A q \in Callers \ {p} : Alike(q)
<1>0. stage[p] = stage[p] /\ OpShapes
  OBVIOUS
<1>1. /\ tx' = [tx EXCEPT ![p] = NoTx] /\ res' = res /\ reports' = reports
      /\ unconfirmed' = unconfirmed \cup (IF sent THEN {<<p, opTry[p]>>} ELSE {})
  BY DEF FailAttempt
<1>2. CASE /\ opTry' = [opTry EXCEPT ![p] = @ + 1]
           /\ gas' = [gas EXCEPT ![p] = IF kind = "gas" THEN nextBoostedGas(opTry[p] - 1, @) ELSE @]
           /\ stage' = [stage EXCEPT ![p] = FirstStage(p, gas'[p])]
  <2>1. PICK s : s = FirstStage(p, gas'[p])
    OBVIOUS
  <2>2. s \in {"view", "read", "nonce", "estimate"} /\ (s = "view" => job[p].kind = "read")
    BY <2>1, FirstStageType
  <2>3. stage' = [stage EXCEPT ![p] = s]
    BY <1>2, <2>1
  <2>4. \A q \in Callers \ {p} : gas'[q] = gas[q] /\ opTry'[q] = opTry[q]
    BY <1>2 DEF OpShapes
  <2>5. stage'[p] = s /\ \A q \in Callers \ {p} : stage'[q] = stage[q]
    BY <2>3 DEF OpShapes
  <2>6. \A q \in Callers \ {p} : tx'[q] = tx[q]
    BY <1>1 DEF OpShapes
  <2> QED BY <1>1, <2>2, <2>4, <2>5, <2>6 DEF Alike
<1>3. CASE stage' = [stage EXCEPT ![p] = "done"] /\ UNCHANGED <<opTry, gas>>
  <2>1. stage'[p] = "done" /\ \A q \in Callers \ {p} : stage'[q] = stage[q] /\ tx'[q] = tx[q]
    BY <1>1, <1>3 DEF OpShapes
  <2> QED BY <1>1, <1>3, <2>1 DEF Alike
<1> QED BY <1>2, <1>3 DEF FailAttempt

\* The other operations are as they were.
LEMMA OthersAlike ==
    ASSUME OpShapes, NEW p \in Callers, Effect(p)
    PROVE  /\ \A q \in Callers \ {p} : Alike(q)
           /\ unconfirmed \subseteq unconfirmed'
<1>1. CASE Talks
  BY <1>1 DEF Talks, opVars, Alike
<1>2. CASE Moves(p) \/ ReturnsOld(p) \/ Signs(p)
  BY <1>2 DEF Moves, ReturnsOld, Signs, OpShapes, Alike
<1>3. CASE Fails(p)
  BY <1>3, FailFacts DEF Fails
<1>4. CASE Succeeds(p)
  <2>1. PICK o : res' = [res EXCEPT ![p] = o]
    BY <1>4 DEF Succeeds, Succeed
  <2>2. PICK t : tx' = [tx EXCEPT ![p] = t]
    BY <1>4 DEF Succeeds
  <2>3. stage' = [stage EXCEPT ![p] = "done"] /\ UNCHANGED <<opTry, gas, unconfirmed>>
    BY <1>4 DEF Succeeds, Succeed
  <2> QED BY <2>1, <2>2, <2>3 DEF OpShapes, Alike
<1>5. CASE Delivers(p)
  <2>1. CASE UNCHANGED opVars
    BY <2>1 DEF opVars, Alike
  <2>2. CASE stage' = [stage EXCEPT ![p] = "confirm"]
             /\ UNCHANGED <<opTry, gas, tx, res, reports, unconfirmed>>
    BY <2>2 DEF OpShapes, Alike
  <2>3. CASE FailAttempt(p, "other", TRUE)
    BY <2>3, FailFacts
  <2> QED BY <1>5, <2>1, <2>2, <2>3 DEF Delivers
<1> QED BY <1>1, <1>2, <1>3, <1>4, <1>5 DEF Effect

\* Where an operation is still tells what it has.
LEMMA StagedStep ==
    ASSUME EffectsInv, NEW p \in Callers, OpStep(p), Effect(p)
    PROVE  \A q \in Callers : Staged(q)'
<1>1. OpShapes /\ Staged(p) /\ ClientTypeOK /\ job' = job
  BY SameJob DEF EffectsInv
<1>2. ASSUME NEW q \in Callers, q # p PROVE Staged(q)'
  <2>1. Alike(q) /\ call'[q] = call[q]
    BY <1>1, <1>2, OthersAlike, CallEffect
  <2>2. Staged(q)
    BY DEF EffectsInv
  <2> QED BY <1>1, <2>1, <2>2 DEF Staged, Alike, Sends, IsWrite
<1>3. call'[p] # NoCall => stage'[p] \in RPCStages
  BY <1>1, CallEffect
<1>4. /\ stage'[p] # "done" => res'[p] = NoResult
      /\ stage'[p] = "view" => job[p].kind = "read"
      /\ stage'[p] \in {"send", "confirm"} =>
             tx'[p] \in Txs /\ tx'[p].by = p /\ tx'[p].att = opTry'[p] /\ Sends(p)
  <2>1. CASE Talks
    BY <1>1, <2>1 DEF Talks, opVars, Staged
  <2>2. CASE Moves(p)
    BY <1>1, <2>2 DEF Moves, Calm, OpShapes, Staged
  <2>3. CASE ReturnsOld(p) \/ Succeeds(p)
    <3>1. stage'[p] = "done"
      BY <1>1, <2>3 DEF ReturnsOld, Succeeds, Succeed, OpShapes
    <3> QED BY <3>1
  <2>4. CASE Fails(p)
    <3>1. /\ res' = res /\ stage[p] # "done"
          /\ stage'[p] \in {"view", "read", "nonce", "estimate", "done"}
          /\ stage'[p] = "view" => job[p].kind = "read"
      BY <1>1, <2>4, FailFacts DEF Fails
    <3> QED BY <1>1, <3>1 DEF Staged
  <2>5. CASE Signs(p)
    <3>1. PICK t \in Txs : t.by = p /\ t.att = opTry[p] /\ tx' = [tx EXCEPT ![p] = t]
      BY <2>5 DEF Signs
    <3>2. tx'[p] = t /\ stage'[p] = "send" /\ opTry' = opTry /\ res' = res /\ Sends(p)
          /\ stage[p] # "done"
      BY <1>1, <2>5, <3>1 DEF Signs, OpShapes, Calm
    <3> QED BY <1>1, <3>1, <3>2 DEF Staged
  <2>6. CASE Delivers(p)
    <3>1. CASE UNCHANGED opVars
      BY <1>1, <3>1 DEF opVars, Staged
    <3>2. CASE stage' = [stage EXCEPT ![p] = "confirm"]
               /\ UNCHANGED <<opTry, gas, tx, res, reports, unconfirmed>>
      <4>1. stage'[p] = "confirm" /\ stage[p] = "send"
        BY <1>1, <2>6, <3>2 DEF OpShapes, Delivers
      <4> QED BY <1>1, <3>2, <4>1 DEF Staged
    <3>3. CASE FailAttempt(p, "other", TRUE)
      <4>1. /\ res' = res /\ stage[p] # "done"
            /\ stage'[p] \in {"view", "read", "nonce", "estimate", "done"}
            /\ stage'[p] = "view" => job[p].kind = "read"
        BY <1>1, <2>6, <3>3, FailFacts DEF Delivers
      <4> QED BY <1>1, <4>1 DEF Staged
    <3> QED BY <2>6, <3>1, <3>2, <3>3 DEF Delivers
  <2> QED BY <2>1, <2>2, <2>3, <2>4, <2>5, <2>6 DEF Effect
<1>5. Staged(p)'
  BY <1>1, <1>3, <1>4 DEF Staged, Sends, IsWrite
<1> QED BY <1>2, <1>5

\* A mined transaction has the nonce of its place, so it is mined once.
LEMMA MinedPlaces ==
    ASSUME ChainShapes, NEW ch \in Chains
    PROVE  /\ DOMAIN mined[ch] = 1..Len(mined[ch]) /\ Len(mined[ch]) \in Nat
           /\ \A i \in DOMAIN mined[ch] : /\ mined[ch][i] \in MinedTxs
                                          /\ mined[ch][i].tx.nonce = i
<1>1. mined[ch] \in Seq(MinedTxs)
  BY DEF ChainShapes
<1>2. \A i \in DOMAIN mined[ch] : mined[ch][i].tx.nonce = i
  BY DEF ChainShapes
<1> HIDE DEF ChainShapes
<1> QED BY <1>1, <1>2

\* The transaction is mined, and if it had its effect the operation reports it.
Landed(t) == \E i \in DOMAIN mined[ChainOf[t.by]] :
                 /\ mined[ChainOf[t.by]][i].tx = t
                 /\ mined[ChainOf[t.by]][i].outcome = "ok" => Returned(t)'

\* An attempt goes on, ends without a receipt, or has a receipt.
LEMMA Fate ==
    ASSUME EffectsInv, NEW p \in Callers, Effect(p), NEW t \in Txs, Waiting(t)
    PROVE  Waiting(t)' \/ Unseen(t)' \/ Landed(t)
<1>1. OpShapes /\ t.by \in Callers
  BY TxFacts DEF EffectsInv
<1>2. CASE t.by # p
  BY <1>1, <1>2, OthersAlike DEF Alike, Waiting
<1>3. CASE t.by = p
  <2>1. stage[p] \in {"send", "confirm"} /\ tx[p] = t /\ t.att = opTry[p] /\ ~Calm(p)
    BY <1>1, <1>3 DEF EffectsInv, Staged, Waiting, Calm
  <2>2. CASE Talks
    BY <2>2 DEF Talks, opVars, Waiting
  <2>3. CASE Moves(p) \/ ReturnsOld(p) \/ Signs(p)
    BY <2>1, <2>3 DEF Moves, ReturnsOld, Signs
  <2>4. ASSUME NEW kind, FailAttempt(p, kind, TRUE) PROVE Unseen(t)'
    BY <1>1, <1>3, <2>1, <2>4, FailFacts DEF Unseen
  <2>5. CASE Fails(p)
    <3>1. PICK kind, sent \in {"gas", "other", TRUE, FALSE} :
              /\ FailAttempt(p, kind, sent)
              /\ sent = TRUE \/ Receipt(p, "reverted") \/ Receipt(p, "outOfGas")
      BY <2>1, <2>5 DEF Fails
    <3>2. CASE sent = TRUE
      BY <2>4, <3>1, <3>2
    <3>3. CASE Receipt(p, "reverted") \/ Receipt(p, "outOfGas")
      <4>1. PICK outcome \in {"reverted", "outOfGas"} : Receipt(p, outcome)
        BY <3>3
      <4>2. PICK i \in DOMAIN mined[ChainOf[p]] :
                mined[ChainOf[p]][i] = [tx |-> tx[p], outcome |-> outcome]
        BY <4>1 DEF Receipt
      <4>3. mined[ChainOf[p]][i].tx = t /\ mined[ChainOf[p]][i].outcome # "ok"
        BY <2>1, <4>2
      <4> QED BY <1>3, <4>2, <4>3 DEF Landed
    <3> QED BY <3>1, <3>2, <3>3
  <2>6. CASE Succeeds(p)
    <3>1. Succeed(p, TRUE) /\ Seen(p) /\ tx' = tx
      BY <2>1, <2>6 DEF Succeeds
    <3>2. PICK o : o = Output(p, TRUE)
      OBVIOUS
    <3>3. o.tx = t
      BY <2>1, <3>1, <3>2 DEF Output
    <3>4. res' = [res EXCEPT ![p] = [ok |-> TRUE, out |-> o]]
      BY <3>1, <3>2 DEF Succeed
    <3>5. res'[p].ok /\ res'[p].out = o
      BY <1>1, <3>4 DEF OpShapes
    <3>6. Returned(t)'
      BY <1>3, <3>3, <3>5 DEF Returned
    <3>7. PICK i \in DOMAIN mined[ChainOf[p]] : mined[ChainOf[p]][i].tx = tx[p]
      BY <3>1 DEF Receipt, Seen
    <3> QED BY <1>3, <2>1, <3>6, <3>7 DEF Landed
  <2>7. CASE Delivers(p)
    <3>1. CASE UNCHANGED opVars
      BY <3>1 DEF opVars, Waiting
    <3>2. CASE stage' = [stage EXCEPT ![p] = "confirm"]
               /\ UNCHANGED <<opTry, gas, tx, res, reports, unconfirmed>>
      <4>1. stage'[p] = "confirm"
        BY <1>1, <3>2 DEF OpShapes
      <4> QED BY <1>3, <2>1, <3>2, <4>1 DEF Waiting
    <3> QED BY <2>4, <2>7, <3>1, <3>2 DEF Delivers
  <2> QED BY <2>2, <2>3, <2>5, <2>6, <2>7 DEF Effect
<1> QED BY <1>2, <1>3

\* What an operation returned stays.
LEMMA ReturnedKept ==
    ASSUME EffectsInv, NEW p \in Callers, Effect(p), NEW q \in Callers, res[q].ok
    PROVE  res'[q] = res[q]
<1>1. OpShapes /\ stage[q] = "done"
  <2>1. res[q] # NoResult
    BY DEF NoResult
  <2> QED BY <2>1 DEF EffectsInv, Staged
<1>2. CASE q # p
  BY <1>1, <1>2, OthersAlike DEF Alike
<1>3. CASE q = p
  <2>1. stage[p] = "done"
    BY <1>1, <1>3
  <2>2. Talks
    BY <2>1 DEF Effect, Moves, ReturnsOld, Fails, Succeeds, Signs, Delivers, Calm
  <2> QED BY <2>2 DEF Talks, opVars
<1> QED BY <1>2, <1>3

\* The transactions of the pools, and one more, are still to be mined.
LEMMA PooledStep ==
    ASSUME EffectsInv, NEW p \in Callers, OpStep(p), Effect(p),
           NEW t \in Txs, Pooled(ChainOf[t.by], t)
    PROVE  Pooled(ChainOf[t.by], t)'
<1>1. mined' = mined /\ job' = job /\ OpShapes /\ ChainShapes /\ t.by \in Callers
  BY SameJob, TxFacts DEF EffectsInv
<1>2. t.nonce > Len(mined[ChainOf[t.by]]) /\ Sends(t.by) /\ t.nonce \in Nat
  BY TxFacts DEF Pooled
<1>3. ~Landed(t)
  <2>1. ChainOf[t.by] \in Chains
    BY <1>1
  <2>2. \A i \in DOMAIN mined[ChainOf[t.by]] : mined[ChainOf[t.by]][i].tx # t
    BY <1>1, <1>2, <2>1, MinedPlaces
  <2> QED BY <2>2 DEF Landed
<1>4. Waiting(t)' \/ Unseen(t)'
  <2>1. CASE Waiting(t)
    BY <1>3, <2>1, Fate
  <2>2. CASE Unseen(t)
    BY <1>1, <2>2, OthersAlike DEF Unseen
  <2> QED BY <2>1, <2>2 DEF Pooled
<1> QED BY <1>1, <1>2, <1>4 DEF Pooled, Sends, IsWrite

\* So is every mined one still accounted for.
LEMMA AccountedStep ==
    ASSUME EffectsInv, NEW p \in Callers, OpStep(p), Effect(p),
           NEW ch \in Chains, NEW i \in DOMAIN mined[ch], NEW m, m = mined[ch][i]
    PROVE  Accounted(ch, m)'
<1>1. mined' = mined /\ job' = job /\ OpShapes /\ ChainShapes
  BY SameJob DEF EffectsInv
<1>2. m \in MinedTxs /\ m.tx.nonce = i
  BY <1>1, MinedPlaces
<1>3. m.tx \in Txs /\ m.tx.by \in Callers
  BY <1>2, TxFacts DEF MinedTxs
<1>4. Accounted(ch, m)
  BY DEF EffectsInv
<1>5. ASSUME m.outcome = "ok" PROVE Waiting(m.tx)' \/ Unseen(m.tx)' \/ Returned(m.tx)'
  <2>1. CASE Waiting(m.tx)
    <3>1. ASSUME Landed(m.tx) PROVE Returned(m.tx)'
      <4>1. PICK j \in DOMAIN mined[ch] :
                mined[ch][j].tx = m.tx /\ (mined[ch][j].outcome = "ok" => Returned(m.tx)')
        BY <1>4, <3>1 DEF Landed, Accounted
      <4>2. j = i
        BY <1>1, <1>2, <4>1, MinedPlaces
      <4> QED BY <1>5, <4>1, <4>2
    <3> QED BY <1>3, <2>1, <3>1, Fate
  <2>2. CASE Unseen(m.tx)
    BY <1>1, <2>2, OthersAlike DEF Unseen
  <2>3. CASE Returned(m.tx)
    BY <1>3, <2>3, ReturnedKept DEF Returned
  <2> QED BY <1>4, <1>5, <2>1, <2>2, <2>3 DEF Accounted
<1> QED BY <1>1, <1>4, <1>5 DEF Accounted, Sends, IsWrite

\* A node that takes a transaction adds it and drops the one with its nonce.
LEMMA PutFacts ==
    ASSUME ChainShapes, NEW ch \in Chains, NEW c \in 1..NumRPCs, NEW t \in Txs,
           Put(ch, c, t), mined' = mined
    PROVE  /\ ChainShapes'
           /\ \A d \in Chains, k \in 1..NumRPCs : \A u \in pool'[d][k] :
                  u \in pool[d][k] \/ (d = ch /\ u = t)
<1>1. PICK S : S = {u \in pool[ch][c] : u.nonce # t.nonce} \cup {t}
  OBVIOUS
<1>2. pool' = [pool EXCEPT ![ch] = [pool[ch] EXCEPT ![c] = S]]
  BY <1>1 DEF Put, ChainShapes
<1>3. pool[ch] \in [1..NumRPCs -> SUBSET Txs] /\ IsFiniteSet(pool[ch][c])
  BY DEF ChainShapes
<1>4. S \subseteq pool[ch][c] \cup {t} /\ S \in SUBSET Txs
  BY <1>1, <1>3
<1>5. IsFiniteSet(S)
  BY <1>3, <1>4, FS_Subset, FS_AddElement
<1>6. pool' \in [Chains -> [1..NumRPCs -> SUBSET Txs]]
  BY <1>2, <1>3, <1>4 DEF ChainShapes
<1>7. \A d \in Chains, k \in 1..NumRPCs :
          pool'[d][k] = IF d = ch /\ k = c THEN S ELSE pool[d][k]
  BY <1>2, <1>3 DEF ChainShapes
<1>8. \A d \in Chains, k \in 1..NumRPCs : IsFiniteSet(pool'[d][k])
  BY <1>5, <1>7 DEF ChainShapes
<1>9. ChainShapes'
  BY <1>6, <1>8 DEF ChainShapes
<1> QED BY <1>4, <1>7, <1>9

\* What the step of an operation leaves in the pools.
LEMMA PoolsStep ==
    ASSUME EffectsInv, NEW p \in Callers, OpStep(p), Effect(p)
    PROVE  /\ ChainShapes'
           /\ \A ch \in Chains, c \in 1..NumRPCs : \A t \in pool'[ch][c] : Pooled(ch, t)'
<1>1. mined' = mined /\ job' = job /\ OpShapes /\ ChainShapes
  BY SameJob DEF EffectsInv
<1>2. ASSUME NEW ch \in Chains, NEW c \in 1..NumRPCs, NEW t \in pool[ch][c]
      PROVE  Pooled(ch, t)'
  <2>1. t \in Txs
    BY <1>1 DEF ChainShapes
  <2>2. Pooled(ch, t)
    BY DEF EffectsInv
  <2>3. ch = ChainOf[t.by]
    BY <2>2 DEF Pooled
  <2> QED BY <2>1, <2>2, <2>3, PooledStep
<1>3. CASE pool' = pool
  BY <1>1, <1>2, <1>3 DEF ChainShapes
<1>4. CASE Delivers(p)
  <2>1. PICK c \in 1..NumRPCs : Accepts(ChainOf[p], c, tx[p]) /\ Put(ChainOf[p], c, tx[p])
    BY <1>4 DEF Delivers
  <2>2. PICK t : t = tx[p]
    OBVIOUS
  <2>3. t \in Txs /\ t.by = p /\ Sends(p) /\ Waiting(t)
    BY <1>4, <2>2 DEF Delivers, EffectsInv, Staged, Waiting
  <2>4. Pooled(ChainOf[t.by], t)
    BY <2>1, <2>2, <2>3 DEF Accepts, Pooled
  <2>5. Pooled(ChainOf[p], t)'
    BY <2>3, <2>4, PooledStep
  <2>6. ChainOf[p] \in Chains
    OBVIOUS
  <2>7. /\ ChainShapes'
        /\ \A d \in Chains, k \in 1..NumRPCs : \A u \in pool'[d][k] :
               u \in pool[d][k] \/ (d = ChainOf[p] /\ u = t)
    BY <1>1, <2>1, <2>2, <2>3, <2>6, PutFacts
  <2> QED BY <1>2, <2>5, <2>7
<1> QED BY <1>3, <1>4 DEF Effect, Talks, Moves, ReturnsOld, Fails, Succeeds, Signs

\* What is mined stays so.
LEMMA TrueKept ==
    ASSUME NEW out \in Outs, OutTrue(out), mined' = mined, confirmer' = confirmer
    PROVE  OutTrue(out)'
BY DEF OutTrue, MinedOk

\* A success says of the chain what is so.
LEMMA SuccessTrue ==
    ASSUME EffectsInv, NEW p \in Callers, NEW executed \in BOOLEAN, NEW o \in Outs,
           o = Output(p, executed), mined' = mined, job' = job, confirmer' = confirmer,
           \/ /\ Calm(p) /\ ~executed
              /\ IsWrite(p) => tx'[p] \in Txs /\ tx'[p].by = p /\ ~Sends(p)
           \/ stage[p] = "confirm" /\ executed /\ Seen(p) /\ tx' = tx
    PROVE  OutTrue(o)' /\ (IsWrite(p) => WriteOut(o)')
<1>1. o.chain = ChainOf[p] /\ o.executed = executed /\ o.by = p /\ o.tx = tx'[p]
  BY DEF Output
<1>2. CASE /\ Calm(p) /\ ~executed
           /\ IsWrite(p) => tx'[p] \in Txs /\ tx'[p].by = p /\ ~Sends(p)
  BY <1>1, <1>2 DEF OutTrue, WriteOut, Sends, IsWrite
<1>3. CASE stage[p] = "confirm" /\ executed /\ Seen(p) /\ tx' = tx
  <2>1. PICK i \in DOMAIN mined[ChainOf[p]] :
            /\ mined[ChainOf[p]][i].tx = tx[p]
            /\ confirmer = "geth" => mined[ChainOf[p]][i].outcome = "ok"
    BY <1>3 DEF Receipt, Seen
  <2>2. MinedOk(o.chain, o.tx)'
    BY <1>1, <1>3, <2>1 DEF MinedOk
  <2>3. tx[p] \in Txs
    BY <1>3 DEF EffectsInv, Staged
  <2> QED BY <1>1, <1>3, <2>2, <2>3 DEF OutTrue, WriteOut
<1> QED BY <1>2, <1>3

\* Reports and results keep telling what is so.
LEMMA TrueStep ==
    ASSUME EffectsInv, NEW p \in Callers, OpStep(p), Effect(p), OpShapes'
    PROVE  /\ \A i \in DOMAIN reports' :
                  /\ OutTrue(reports[i].out)'
                  /\ reports'[i].key.op = "write" => WriteOut(reports[i].out)'
           /\ \A q \in Results' :
                  OutTrue(res[q].out)' /\ (IsWrite(q)' => WriteOut(res[q].out)')
<1> DEFINE Told(e) == /\ OutTrue(e.out) /\ (e.key.op = "write" => WriteOut(e.out))
           Known(q, o) == OutTrue(o) /\ (IsWrite(q) => WriteOut(o))
<1>1. mined' = mined /\ job' = job /\ confirmer' = confirmer /\ OpShapes
  BY SameJob DEF EffectsInv
<1>2. ASSUME NEW i \in DOMAIN reports, NEW e, e = reports[i] PROVE Told(e)'
  <2>1. e.out \in Outs
    <3>1. reports \in Seq(Reported)
      BY <1>1 DEF OpShapes
    <3>2. e \in Reported
      BY <1>2, <3>1
    <3> QED BY <3>2 DEF Reported
  <2>2. Told(e)
    BY <1>2 DEF EffectsInv
  <2>3. OutTrue(e.out)'
    BY <1>1, <2>1, <2>2, TrueKept
  <2> QED BY <1>1, <2>2, <2>3 DEF WriteOut, Sends, IsWrite
<1>3. ASSUME NEW q \in Callers, res[q].ok, NEW o, o = res[q].out PROVE Known(q, o)'
  <2>1. o \in Outs
    <3>1. res[q] \in {NoResult} \cup [ok : {TRUE}, out : Outs]
      BY <1>1 DEF OpShapes
    <3>2. res[q] # NoResult
      BY <1>3 DEF NoResult
    <3> QED BY <1>3, <3>1, <3>2
  <2>2. Known(q, o)
    BY <1>3 DEF EffectsInv, Results
  <2>3. OutTrue(o)'
    BY <1>1, <2>1, <2>2, TrueKept
  <2> QED BY <1>1, <2>2, <2>3 DEF WriteOut, Sends, IsWrite
<1> HIDE DEF Told, Known
<1>5. ASSUME NEW o \in Outs, res' = [res EXCEPT ![p] = [ok |-> TRUE, out |-> o]], Known(p, o)'
      PROVE  \A q \in Results' : Known(q, res[q].out)'
  <2>1. \A q \in Callers : res'[q] = IF q = p THEN [ok |-> TRUE, out |-> o] ELSE res[q]
    BY <1>1, <1>5 DEF OpShapes
  <2>2. Known(p, res[p].out)'
    BY <1>5, <2>1 DEF Known
  <2>3. ASSUME NEW q \in Callers, q # p, res'[q].ok PROVE Known(q, res[q].out)'
    <3>1. res'[q] = res[q]
      BY <2>1, <2>3
    <3>2. PICK r : r = res[q].out
      OBVIOUS
    <3>3. Known(q, r)'
      BY <1>3, <2>3, <3>1, <3>2
    <3> QED BY <3>1, <3>2, <3>3 DEF Known
  <2> QED BY <2>2, <2>3 DEF Results
<1>6. CASE ReturnsOld(p)
  <2>1. PICK o \in Outs : /\ OutTrue(o) /\ (IsWrite(p) => WriteOut(o))
                          /\ res' = [res EXCEPT ![p] = [ok |-> TRUE, out |-> o]]
    BY <1>6 DEF ReturnsOld
  <2>2. OutTrue(o)'
    BY <1>1, <2>1, TrueKept
  <2>3. Known(p, o)'
    BY <1>1, <2>1, <2>2 DEF Known, WriteOut, Sends, IsWrite
  <2>4. \A q \in Results' : Known(q, res[q].out)'
    BY <1>5, <2>1, <2>3
  <2>5. reports' = reports
    BY <1>6 DEF ReturnsOld
  <2>6. \A i \in DOMAIN reports : Told(reports[i])'
    BY <1>2, <2>5 DEF Told
  <2> QED BY <2>4, <2>5, <2>6 DEF Told, Known
<1>7. CASE Succeeds(p)
  <2>1. PICK executed \in BOOLEAN :
            /\ Succeed(p, executed)
            /\ \/ /\ Calm(p) /\ ~executed
                  /\ IsWrite(p) => tx'[p] \in Txs /\ tx'[p].by = p /\ ~Sends(p)
               \/ stage[p] = "confirm" /\ executed /\ Seen(p) /\ tx' = tx
    BY <1>7 DEF Succeeds
  <2>2. Output(p, executed) \in Outs
    BY <1>1, <1>7, <2>1, SucceedShapes DEF Succeeds
  <2>3. PICK o \in Outs : o = Output(p, executed)
    BY <2>2
  <2>4. OutTrue(o)' /\ (IsWrite(p) => WriteOut(o)')
    BY <1>1, <2>1, <2>3, SuccessTrue
  <2>5. Known(p, o)'
    BY <1>1, <2>4 DEF Known, IsWrite
  <2>6. res' = [res EXCEPT ![p] = [ok |-> TRUE, out |-> o]]
    BY <2>1, <2>3 DEF Succeed
  <2>7. \A q \in Results' : Known(q, res[q].out)'
    BY <1>5, <2>5, <2>6
  <2>8. PICK e : e = [key |-> ReportKey(p), out |-> o]
    OBVIOUS
  <2>9. reports' = Append(reports, e)
    BY <2>1, <2>3, <2>8 DEF Succeed
  <2>10. e.out = o /\ (e.key.op = "write") = IsWrite(p)
    BY <2>8, WriteKey
  <2>11. Told(e)'
    BY <2>4, <2>10 DEF Told
  <2>12. \A i \in DOMAIN reports' : reports'[i] = e \/ (i \in DOMAIN reports /\ reports'[i] = reports[i])
    <3>1. reports \in Seq(Reported)
      BY <1>1 DEF OpShapes
    <3> QED BY <2>9, <3>1
  <2>13. ASSUME NEW i \in DOMAIN reports' PROVE Told(reports[i])'
    <3>1. CASE reports'[i] = e
      BY <2>11, <3>1 DEF Told
    <3>2. CASE i \in DOMAIN reports /\ reports'[i] = reports[i]
      <4>1. PICK r : r = reports[i]
        OBVIOUS
      <4>2. Told(r)'
        BY <1>2, <3>2, <4>1
      <4> QED BY <3>2, <4>1, <4>2 DEF Told
    <3> QED BY <2>12, <3>1, <3>2
  <2> QED BY <2>7, <2>13 DEF Told, Known
<1>8. ASSUME reports' = reports, res' = res
      PROVE  /\ \A i \in DOMAIN reports' : Told(reports[i])'
             /\ \A q \in Results' : Known(q, res[q].out)'
  BY <1>2, <1>3, <1>8 DEF Told, Known, Results
<1>9. CASE Talks \/ Moves(p) \/ Signs(p)
  BY <1>8, <1>9 DEF Talks, opVars, Moves, Signs, Told, Known
<1>10. CASE Fails(p) \/ Delivers(p)
  <2>1. reports' = reports /\ res' = res
    BY <1>1, <1>10, FailFacts DEF Fails, Delivers, opVars
  <2> QED BY <1>8, <2>1 DEF Told, Known
<1> QED BY <1>6, <1>7, <1>9, <1>10 DEF Effect

\* The step of an operation keeps the invariant.
LEMMA OpStepInv ==
    ASSUME ClientInv, ClientTypeOK', EffectsInv, NEW p \in Callers, OpStep(p)
    PROVE  EffectsInv'
<1>1. Effect(p)
  BY OpEffect
<1>2. OpShapes'
  BY OpShapesStep DEF EffectsInv
<1>3. \A q \in Callers : Staged(q)'
  BY <1>1, StagedStep
<1>4. /\ ChainShapes'
      /\ \A ch \in Chains, c \in 1..NumRPCs : \A t \in pool'[ch][c] : Pooled(ch, t)'
  BY <1>1, PoolsStep
<1>5. \A ch \in Chains : \A i \in DOMAIN mined'[ch] : Accounted(ch, mined[ch][i])'
  <2> SUFFICES ASSUME NEW ch \in Chains, NEW i \in DOMAIN mined'[ch]
               PROVE  Accounted(ch, mined[ch][i])'
    OBVIOUS
  <2>1. mined' = mined
    BY SameJob
  <2>2. PICK m : m = mined[ch][i]
    OBVIOUS
  <2>3. Accounted(ch, m)'
    BY <1>1, <2>1, <2>2, AccountedStep
  <2> QED BY <2>1, <2>2, <2>3 DEF Accounted
<1>6. /\ \A i \in DOMAIN reports' :
             /\ OutTrue(reports[i].out)'
             /\ reports'[i].key.op = "write" => WriteOut(reports[i].out)'
      /\ \A q \in Results' : OutTrue(res[q].out)' /\ (IsWrite(q)' => WriteOut(res[q].out)')
  BY <1>1, <1>2, TrueStep
<1> QED BY <1>2, <1>3, <1>4, <1>5, <1>6 DEF EffectsInv

\* What another node learns was in a pool before.
LEMMA GossipInv ==
    ASSUME ClientTypeOK, ClientTypeOK', EffectsInv, NEW ch \in Chains, Gossip(ch)
    PROVE  EffectsInv'
<1>1. PICK i \in DOMAIN clients[ch], j \in DOMAIN clients[ch] :
          \E t \in pool[ch][clients[ch][i]] :
              Accepts(ch, clients[ch][j], t) /\ Put(ch, clients[ch][j], t)
  BY DEF Gossip
<1>2. clients[ch][i] \in 1..NumRPCs /\ clients[ch][j] \in 1..NumRPCs
  BY ListFacts DEF ClientTypeOK
<1>3. PICK t \in pool[ch][clients[ch][i]] :
          Accepts(ch, clients[ch][j], t) /\ Put(ch, clients[ch][j], t)
  BY <1>1
<1>4. /\ mined' = mined /\ job' = job /\ confirmer' = confirmer /\ clients' = clients /\ call' = call
      /\ stage' = stage /\ opTry' = opTry /\ gas' = gas /\ tx' = tx /\ res' = res
      /\ reports' = reports /\ unconfirmed' = unconfirmed
  BY DEF Gossip, opVars
<1>5. t \in Txs /\ ChainShapes
  BY <1>2, <1>3 DEF EffectsInv, ChainShapes
<1>6. /\ ChainShapes'
      /\ \A d \in Chains, k \in 1..NumRPCs : \A u \in pool'[d][k] :
             u \in pool[d][k] \/ (d = ch /\ u = t)
  BY <1>2, <1>3, <1>4, <1>5, PutFacts
<1>7. \A d \in Chains, k \in 1..NumRPCs : \A u \in pool'[d][k] : Pooled(d, u)
  BY <1>2, <1>3, <1>6 DEF EffectsInv
<1>8. \A d \in Chains, k \in 1..NumRPCs : \A u \in pool'[d][k] : Pooled(d, u)'
  <2> SUFFICES ASSUME NEW d \in Chains, NEW k \in 1..NumRPCs, NEW u \in pool'[d][k]
               PROVE  Pooled(d, u)'
    OBVIOUS
  <2>1. Pooled(d, u)
    BY <1>7
  <2> QED BY <1>4, <2>1 DEF Pooled, Sends, IsWrite, Waiting, Unseen
<1>9. OpShapes' /\ \A p \in Callers : Staged(p)'
  <2>1. Reported' = Reported
    BY <1>4 DEF Reported, ReportKey
  <2>2. OpShapes'
    BY <1>4, <2>1 DEF EffectsInv, OpShapes
  <2>3. \A p \in Callers : Staged(p)'
    BY <1>4 DEF EffectsInv, Staged, Sends, IsWrite
  <2> QED BY <2>2, <2>3
<1>10. \A d \in Chains : \A k \in DOMAIN mined'[d] : Accounted(d, mined[d][k])'
  <2> SUFFICES ASSUME NEW d \in Chains, NEW k \in DOMAIN mined'[d]
               PROVE  Accounted(d, mined[d][k])'
    OBVIOUS
  <2>1. PICK m : m = mined[d][k]
    OBVIOUS
  <2>2. Accounted(d, m)
    BY <1>4, <2>1 DEF EffectsInv
  <2> QED BY <1>4, <2>1, <2>2 DEF Accounted, Sends, IsWrite, Waiting, Unseen, Returned
<1>11. /\ \A k \in DOMAIN reports' :
              /\ OutTrue(reports[k].out)'
              /\ reports'[k].key.op = "write" => WriteOut(reports[k].out)'
       /\ \A q \in Results' : OutTrue(res[q].out)' /\ (IsWrite(q)' => WriteOut(res[q].out)')
  BY <1>4 DEF EffectsInv, OutTrue, MinedOk, WriteOut, Sends, IsWrite, Results
<1> QED BY <1>6, <1>8, <1>9, <1>10, <1>11 DEF EffectsInv

\* What appending to a list does.
LEMMA AppendFacts ==
    ASSUME NEW S, NEW s \in Seq(S), NEW e \in S, NEW r, r = Append(s, e)
    PROVE  /\ Len(r) = Len(s) + 1
           /\ \A i \in DOMAIN r : (i \in DOMAIN s /\ r[i] = s[i]) \/ (i = Len(s) + 1 /\ r[i] = e)
           /\ \A i \in DOMAIN s : i \in DOMAIN r /\ r[i] = s[i]
<1>1. r \in Seq(S) /\ Len(r) = Len(s) + 1 /\ Len(s) \in Nat
  OBVIOUS
<1>2. DOMAIN s = 1..Len(s) /\ DOMAIN r = 1..(Len(s) + 1)
  BY <1>1
<1>3. \A i \in 1..Len(s) : r[i] = s[i]
  OBVIOUS
<1>4. r[Len(s) + 1] = e
  OBVIOUS
<1>5. \A n \in Nat : 1..n \subseteq 1..(n + 1) /\ \A i \in 1..(n + 1) : i \in 1..n \/ i = n + 1
  OBVIOUS
<1> QED BY <1>1, <1>2, <1>3, <1>4, <1>5

\* A transaction that is mined was the next one of a pool; those that stay come later.
LEMMA MineInv ==
    ASSUME ClientTypeOK', EffectsInv, NEW ch \in Chains, Mine(ch)
    PROVE  EffectsInv'
<1> DEFINE Mines(t, o) ==
               /\ t.nonce = Len(mined[ch]) + 1
               /\ mined' = [mined EXCEPT ![ch] = Append(@, [tx |-> t, outcome |-> o])]
               /\ pool' = [pool EXCEPT ![ch] = [d \in 1..NumRPCs |-> {u \in @[d] : u.nonce > t.nonce}]]
<1>0. PICK c \in 1..NumRPCs : \E t \in pool[ch][c] : \E o \in Outcomes(t) : Mines(t, o)
  BY DEF Mine
<1>a. PICK t \in pool[ch][c] : \E o \in Outcomes(t) : Mines(t, o)
  BY <1>0
<1>1. PICK outcome \in Outcomes(t) : Mines(t, outcome)
  BY <1>a
<1>2. /\ job' = job /\ confirmer' = confirmer /\ clients' = clients /\ call' = call
      /\ stage' = stage /\ opTry' = opTry /\ gas' = gas /\ tx' = tx /\ res' = res
      /\ reports' = reports /\ unconfirmed' = unconfirmed
  BY DEF Mine, opVars
<1>3. ChainShapes /\ t \in Txs /\ Pooled(ch, t) /\ OpShapes
  BY DEF EffectsInv, ChainShapes
<1>4. PICK m : m = [tx |-> t, outcome |-> outcome]
  OBVIOUS
<1>5. m \in MinedTxs /\ m.tx = t
  BY <1>3, <1>4 DEF MinedTxs, Outcomes
<1>6. mined' = [mined EXCEPT ![ch] = Append(mined[ch], m)]
  BY <1>1, <1>4 DEF ChainShapes
<1>7. \A d \in Chains : mined[d] \in Seq(MinedTxs) /\ Len(mined[d]) \in Nat
  BY <1>3 DEF ChainShapes
<1>8. \A d \in Chains : mined'[d] = IF d = ch THEN Append(mined[ch], m) ELSE mined[d]
  BY <1>3, <1>6 DEF ChainShapes
<1>9. mined' \in [Chains -> Seq(MinedTxs)]
  BY <1>3, <1>5, <1>6 DEF ChainShapes
<1>b. /\ Len(mined'[ch]) = Len(mined[ch]) + 1
      /\ \A i \in DOMAIN mined'[ch] :
             \/ i \in DOMAIN mined[ch] /\ mined'[ch][i] = mined[ch][i]
             \/ i = Len(mined[ch]) + 1 /\ mined'[ch][i] = m
      /\ \A i \in DOMAIN mined[ch] : i \in DOMAIN mined'[ch] /\ mined'[ch][i] = mined[ch][i]
  <2>1. PICK s, r : s = mined[ch] /\ r = mined'[ch]
    OBVIOUS
  <2>2. s \in Seq(MinedTxs) /\ r = Append(s, m)
    BY <1>7, <1>8, <2>1
  <2>3. /\ Len(r) = Len(s) + 1
        /\ \A i \in DOMAIN r : (i \in DOMAIN s /\ r[i] = s[i]) \/ (i = Len(s) + 1 /\ r[i] = m)
        /\ \A i \in DOMAIN s : i \in DOMAIN r /\ r[i] = s[i]
    BY <1>5, <2>2, AppendFacts
  <2> QED BY <2>1, <2>3
<1>10. /\ Len(mined'[ch]) = Len(mined[ch]) + 1
       /\ \A d \in Chains : d # ch => mined'[d] = mined[d]
  BY <1>7, <1>8, <1>b
<1>11. \A d \in Chains : \A i \in DOMAIN mined'[d] :
           \/ i \in DOMAIN mined[d] /\ mined'[d][i] = mined[d][i]
           \/ d = ch /\ i = Len(mined[ch]) + 1 /\ mined'[d][i] = m
  BY <1>7, <1>8, <1>b
<1>12. \A d \in Chains : \A i \in DOMAIN mined[d] :
           i \in DOMAIN mined'[d] /\ mined'[d][i] = mined[d][i]
  BY <1>7, <1>8, <1>b
<1>13. \A d \in Chains : \A i \in DOMAIN mined'[d] : mined'[d][i].tx.nonce = i
  BY <1>1, <1>3, <1>5, <1>11 DEF ChainShapes
<1>14. \A d \in Chains, k \in 1..NumRPCs :
           pool'[d][k] = IF d = ch THEN {u \in pool[ch][k] : u.nonce > t.nonce} ELSE pool[d][k]
  BY <1>1, <1>3 DEF ChainShapes
<1>15. pool' \in [Chains -> [1..NumRPCs -> SUBSET Txs]]
  <2>1. PICK P : P = [k \in 1..NumRPCs |-> {u \in pool[ch][k] : u.nonce > t.nonce}]
    OBVIOUS
  <2>2. P \in [1..NumRPCs -> SUBSET Txs]
    BY <1>3, <2>1 DEF ChainShapes
  <2>3. pool' = [pool EXCEPT ![ch] = P]
    BY <1>1, <1>3, <2>1 DEF ChainShapes
  <2> QED BY <1>3, <2>2, <2>3 DEF ChainShapes
<1>16. \A d \in Chains, k \in 1..NumRPCs :
           IsFiniteSet(pool'[d][k]) /\ pool'[d][k] \subseteq pool[d][k]
  <2>1. \A d \in Chains, k \in 1..NumRPCs :
            IsFiniteSet(pool[d][k]) /\ pool'[d][k] \subseteq pool[d][k]
    BY <1>3, <1>14 DEF ChainShapes
  <2> QED BY <2>1, FS_Subset
<1>17. ChainShapes'
  BY <1>9, <1>13, <1>15, <1>16 DEF ChainShapes
<1>18. \A d \in Chains, k \in 1..NumRPCs : \A u \in pool'[d][k] : Pooled(d, u)'
  <2> SUFFICES ASSUME NEW d \in Chains, NEW k \in 1..NumRPCs, NEW u \in pool'[d][k]
               PROVE  Pooled(d, u)'
    OBVIOUS
  <2>1. Pooled(d, u)
    BY <1>16 DEF EffectsInv
  <2>2. u.nonce > Len(mined'[d])
    <3>1. u \in Txs /\ t.nonce \in Nat /\ u.nonce \in Nat
      <4>1. u \in Txs
        BY <1>3, <1>16 DEF ChainShapes
      <4> QED BY <1>3, <4>1, TxFacts
    <3>2. CASE d = ch
      <4>1. Len(mined'[ch]) = t.nonce
        BY <1>1, <1>10
      <4>2. u.nonce > t.nonce
        BY <1>14, <3>2
      <4> QED BY <3>2, <4>1, <4>2
    <3>3. CASE d # ch
      BY <1>10, <2>1, <3>3 DEF Pooled
    <3> QED BY <3>2, <3>3
  <2> QED BY <1>2, <2>1, <2>2 DEF Pooled, Sends, IsWrite, Waiting, Unseen
<1>19. OpShapes' /\ \A p \in Callers : Staged(p)'
  <2>1. Reported' = Reported
    BY <1>2 DEF Reported, ReportKey
  <2>2. OpShapes'
    BY <1>2, <1>3, <2>1 DEF OpShapes
  <2>3. \A p \in Callers : Staged(p)'
    BY <1>2 DEF EffectsInv, Staged, Sends, IsWrite
  <2> QED BY <2>2, <2>3
<1>20. \A d \in Chains : \A i \in DOMAIN mined'[d] : Accounted(d, mined[d][i])'
  <2> SUFFICES ASSUME NEW d \in Chains, NEW i \in DOMAIN mined'[d]
               PROVE  Accounted(d, mined[d][i])'
    OBVIOUS
  <2>1. PICK n : n = mined'[d][i]
    OBVIOUS
  <2>2. CASE i \in DOMAIN mined[d] /\ n = mined[d][i]
    <3>1. Accounted(d, n)
      BY <2>2 DEF EffectsInv
    <3> QED BY <1>2, <2>1, <3>1 DEF Accounted, Sends, IsWrite, Waiting, Unseen, Returned
  <2>3. CASE d = ch /\ n = m
    <3>1. Accounted(d, n)
      BY <1>3, <1>5, <2>3 DEF Pooled, Accounted
    <3> QED BY <1>2, <2>1, <3>1 DEF Accounted, Sends, IsWrite, Waiting, Unseen, Returned
  <2> QED BY <1>11, <2>1, <2>2, <2>3
<1>21. ASSUME NEW o \in Outs, OutTrue(o) PROVE OutTrue(o)'
  BY <1>2, <1>12, <1>21 DEF OutTrue, MinedOk, Outs
<1>22. \A k \in DOMAIN reports' :
           /\ OutTrue(reports[k].out)'
           /\ reports'[k].key.op = "write" => WriteOut(reports[k].out)'
  <2> SUFFICES ASSUME NEW k \in DOMAIN reports
               PROVE  /\ OutTrue(reports[k].out)'
                      /\ reports'[k].key.op = "write" => WriteOut(reports[k].out)'
    BY <1>2
  <2>1. reports[k] \in Reported
    BY <1>3 DEF OpShapes
  <2>2. PICK o : o = reports[k].out
    OBVIOUS
  <2>3. o \in Outs
    BY <2>1, <2>2 DEF Reported
  <2>4. OutTrue(o) /\ (reports[k].key.op = "write" => WriteOut(o))
    BY <2>2 DEF EffectsInv
  <2>5. OutTrue(o)'
    BY <1>21, <2>3, <2>4
  <2> QED BY <1>2, <2>2, <2>4, <2>5 DEF OutTrue, WriteOut, Sends, IsWrite
<1>23. \A q \in Results' : OutTrue(res[q].out)' /\ (IsWrite(q)' => WriteOut(res[q].out)')
  <2> SUFFICES ASSUME NEW q \in Callers, res[q].ok
               PROVE  OutTrue(res[q].out)' /\ (IsWrite(q)' => WriteOut(res[q].out)')
    BY <1>2 DEF Results
  <2>0. res[q] # NoResult
    BY DEF NoResult
  <2>1. res[q] \in {NoResult} \cup [ok : {TRUE}, out : Outs]
    BY <1>3 DEF OpShapes
  <2>2. PICK o : o = res[q].out
    OBVIOUS
  <2>3. o \in Outs
    BY <2>0, <2>1, <2>2
  <2>4. OutTrue(o) /\ (IsWrite(q) => WriteOut(o))
    BY <2>2 DEF EffectsInv, Results
  <2>5. OutTrue(o)'
    BY <1>21, <2>3, <2>4
  <2> QED BY <1>2, <2>2, <2>4, <2>5 DEF OutTrue, WriteOut, Sends, IsWrite
<1> QED BY <1>17, <1>18, <1>19, <1>20, <1>22, <1>23 DEF EffectsInv

\* Nothing happened at first.
LEMMA EffectsInit == Init => EffectsInv
<1> SUFFICES ASSUME Init PROVE EffectsInv
  OBVIOUS
<1>1. ClientTypeOK /\ call = [p \in Callers |-> NoCall]
  BY ClientInitInv DEF Init, ClientInv, ClientInit
<1>2. OpShapes
  BY OpTriesAssumption DEF Init, OpShapes
<1>3. ChainShapes
  BY FS_EmptySet DEF Init, ChainShapes
<1>4. \A p \in Callers : Staged(p)
  BY <1>1 DEF Init, Staged
<1>5. \A ch \in Chains, c \in 1..NumRPCs : pool[ch][c] = {}
  BY DEF Init
<1>6. (\A ch \in Chains : DOMAIN mined[ch] = {}) /\ DOMAIN reports = {}
  BY DEF Init
<1>7. Results = {}
  BY DEF Init, Results, NoResult
<1> QED BY <1>1, <1>2, <1>3, <1>4, <1>5, <1>6, <1>7 DEF EffectsInv

\* Where nothing changes the invariant stays.
LEMMA EffectsStutter == EffectsInv /\ UNCHANGED vars => EffectsInv'
<1> SUFFICES ASSUME EffectsInv, UNCHANGED vars PROVE EffectsInv'
  OBVIOUS
<1>1. /\ clients' = clients /\ call' = call /\ job' = job /\ confirmer' = confirmer /\ stage' = stage
      /\ opTry' = opTry /\ gas' = gas /\ tx' = tx /\ res' = res /\ reports' = reports
      /\ unconfirmed' = unconfirmed /\ pool' = pool /\ mined' = mined
  BY DEF vars, opVars, chainVars
<1>2. ClientTypeOK'
  BY <1>1 DEF EffectsInv, ClientTypeOK
<1>3. OpShapes'
  <2>1. Reported' = Reported
    BY <1>1 DEF Reported, ReportKey
  <2> QED BY <1>1, <2>1 DEF EffectsInv, OpShapes
<1>4. ChainShapes'
  BY <1>1 DEF EffectsInv, ChainShapes
<1>5. \A p \in Callers : Staged(p)'
  BY <1>1 DEF EffectsInv, Staged, Sends, IsWrite
<1>6. \A ch \in Chains, c \in 1..NumRPCs : \A t \in pool'[ch][c] : Pooled(ch, t)'
  <2> SUFFICES ASSUME NEW ch \in Chains, NEW c \in 1..NumRPCs, NEW t \in pool'[ch][c]
               PROVE  Pooled(ch, t)'
    OBVIOUS
  <2>1. Pooled(ch, t)
    BY <1>1 DEF EffectsInv
  <2> QED BY <1>1, <2>1 DEF Pooled, Sends, IsWrite, Waiting, Unseen
<1>7. \A ch \in Chains : \A i \in DOMAIN mined'[ch] : Accounted(ch, mined[ch][i])'
  BY <1>1 DEF EffectsInv, Accounted, Sends, IsWrite, Waiting, Unseen, Returned
<1>8. /\ \A k \in DOMAIN reports' :
             /\ OutTrue(reports[k].out)'
             /\ reports'[k].key.op = "write" => WriteOut(reports[k].out)'
      /\ \A q \in Results' : OutTrue(res[q].out)' /\ (IsWrite(q)' => WriteOut(res[q].out)')
  BY <1>1 DEF EffectsInv, OutTrue, MinedOk, WriteOut, Sends, IsWrite, Results
<1> QED BY <1>2, <1>3, <1>4, <1>5, <1>6, <1>7, <1>8 DEF EffectsInv

\* A prepared write was never sent and any other that succeeded was mined.
LEMMA WritesAreOnce == EffectsInv => WritesOnce
<1> SUFFICES ASSUME EffectsInv PROVE WritesOnce
  OBVIOUS
<1>1. \A out \in WriteOutputs : OutTrue(out) /\ WriteOut(out)
  BY DEF EffectsInv, WriteOutputs
<1>2. \A t \in SentTxs : Sends(t.by)
  <2> SUFFICES ASSUME NEW ch \in Chains, NEW t \in SentTo(ch) PROVE Sends(t.by)
    BY DEF SentTxs
  <2>1. CASE \E c \in 1..NumRPCs : t \in pool[ch][c]
    BY <2>1 DEF EffectsInv, Pooled
  <2>2. CASE \E i \in DOMAIN mined[ch] : t = mined[ch][i].tx
    BY <2>2 DEF EffectsInv, Accounted
  <2>3. \/ t \in (UNION {pool[ch][c] : c \in 1..NumRPCs})
        \/ t \in {mined[ch][i].tx : i \in DOMAIN mined[ch]}
    BY DEF SentTo
  <2> QED BY <2>1, <2>2, <2>3
<1>3. \A out \in Prepared(WriteOutputs) : out.tx \notin SentTxs
  BY <1>1, <1>2 DEF Prepared, WriteOut
<1>4. \A out \in WriteOutputs \ Prepared(WriteOutputs) : MinedOk(out.chain, out.tx)
  <2> SUFFICES ASSUME NEW out \in WriteOutputs \ Prepared(WriteOutputs)
               PROVE  MinedOk(out.chain, out.tx)
    OBVIOUS
  <2>1. out.executed /\ out.tx # NoTx
    BY <1>1, TxFacts DEF Prepared, WriteOut
  <2> QED BY <1>1, <2>1 DEF OutTrue
<1>5. NewBatchOperationFromWrites(WriteOutputs).ok
      => NewBatchOperationFromWrites(WriteOutputs).writes = Prepared(WriteOutputs)
  BY DEF NewBatchOperationFromWrites
<1> QED BY <1>3, <1>4, <1>5 DEF WritesOnce

\* The invariant says what operations report.
LEMMA EffectsInvSound == EffectsInv => EffectsSound
<1> SUFFICES ASSUME EffectsInv PROVE EffectsSound
  OBVIOUS
<1>1. TypeOK
  BY DEF EffectsInv, OpShapes, ChainShapes, Staged, TypeOK
<1>2. ConfirmedMined
  BY DEF EffectsInv, OutTrue, ConfirmedMined
<1>3. RepeatedOnlyUnconfirmed
  <2> SUFFICES ASSUME NEW ch \in Chains, NEW i \in DOMAIN mined[ch],
                      NEW t, t = mined[ch][i].tx, mined[ch][i].outcome = "ok"
               PROVE  \/ res[t.by].ok /\ res[t.by].out.tx = t
                      \/ tx[t.by] = t
                      \/ <<t.by, t.att>> \in unconfirmed
    BY DEF RepeatedOnlyUnconfirmed
  <2>1. Accounted(ch, mined[ch][i])
    BY DEF EffectsInv
  <2>2. Waiting(t) \/ Unseen(t) \/ Returned(t)
    BY <2>1 DEF Accounted
  <2> QED BY <2>2 DEF Waiting, Unseen, Returned
<1>4. WritesOnce
  BY WritesAreOnce
<1> QED BY <1>1, <1>2, <1>3, <1>4 DEF EffectsSound

\* Both invariants hold throughout.
LEMMA EvmInvariants == Spec => [](ClientInv /\ EffectsInv)
<1> DEFINE Inv == ClientInv /\ EffectsInv
<1>1. Init => Inv
  BY ClientInitInv, EffectsInit DEF Init
<1>2. Inv /\ [Next]_vars => Inv'
  <2> SUFFICES ASSUME ClientInv, EffectsInv, [Next]_vars PROVE ClientInv' /\ EffectsInv'
    OBVIOUS
  <2>1. ClientInv'
    BY StepIsClientStep, ClientStepInv
  <2>2. ClientTypeOK /\ ClientTypeOK'
    BY <2>1 DEF ClientInv
  <2>3. CASE \E p \in Callers : OpStep(p)
    BY <2>1, <2>2, <2>3, OpStepInv
  <2>4. CASE \E ch \in Chains : Gossip(ch) \/ Mine(ch)
    BY <2>1, <2>2, <2>4, GossipInv, MineInv
  <2>5. CASE UNCHANGED vars
    BY <2>1, <2>5, EffectsStutter
  <2> QED BY <2>1, <2>3, <2>4, <2>5 DEF Next
<1> QED BY <1>1, <1>2, PTL DEF Spec

(* For any goroutines, chains, nodes, gas settings and number of tries: what  *)
(* operations report about the chain is so, a transaction takes effect beside *)
(* the reported one only if its attempt ended without a receipt, and a write  *)
(* is executed or left for the proposal, never both.                          *)
THEOREM EffectsCorrect == Spec => []EffectsSound
BY EvmInvariants, EffectsInvSound, PTL

-----------------------------------------------------------------------------
(* Boosting gas.                                                              *)

\* A boosted limit is above the one before: above the initial limit or the
\* previous boost, which becomes the override of the next transaction.
LEMMA BoostOffersMore ==
    ASSUME InitialGas > TransactGas(0), NEW n \in 1..OpTries, NEW g \in Nat,
           nextBoostedGas(n - 1, g) # g
    PROVE  TransactGas(nextBoostedGas(n - 1, g)) > TransactGas(g)
<1>1. InitialGas \in Nat /\ GasIncrement \in Nat /\ TransactGas(0) \in Nat
  BY GasAssumption, TransactGasType
<1>2. CASE g > 0
  <2>1. nextBoostedGas(n - 1, g) = g + GasIncrement
    BY <1>2 DEF nextBoostedGas
  <2> QED BY <1>1, <1>2, <2>1 DEF TransactGas
<1>3. CASE g = 0
  <2> DEFINE added == (n - 1) * GasIncrement
  <2>1. added \in Nat
    <3>1. n - 1 \in Nat /\ \A a, b \in Nat : a * b \in Nat
      BY OpTriesAssumption
    <3> QED BY <1>1, <3>1
  <2>2. nextBoostedGas(n - 1, g) = InitialGas + added
    BY <1>3 DEF nextBoostedGas
  <2> HIDE DEF added
  <2>3. TransactGas(InitialGas + added) = InitialGas + added
    BY <1>1, <2>1 DEF TransactGas
  <2> QED BY <1>1, <1>3, <2>1, <2>2, <2>3
<1> QED BY <1>2, <1>3

\* Only an attempt that failed for want of gas changes what its operation offers.
LEMMA GasStep ==
    ASSUME InitialGas > TransactGas(0), ClientInv, EffectsInv, [Next]_vars,
           NEW q \in Callers, gas'[q] # gas[q]
    PROVE  TransactGas(gas'[q]) > TransactGas(gas[q])
<1>1. gas \in [Callers -> Nat] /\ opTry \in [Callers -> 1..OpTries]
  BY DEF EffectsInv, OpShapes
<1>2. PICK p \in Callers : OpStep(p)
  <2>1. gas' # gas
    OBVIOUS
  <2> QED BY <2>1 DEF Next, Gossip, Mine, vars, opVars
<1>3. Effect(p)
  BY <1>2, OpEffect
<1>4. PICK kind, sent \in {"gas", "other", TRUE, FALSE} : FailAttempt(p, kind, sent)
  BY <1>3 DEF Effect, Talks, Moves, ReturnsOld, Fails, Succeeds, Succeed, Signs, Delivers, opVars
<1>5. gas' = [gas EXCEPT ![p] = IF kind = "gas" THEN nextBoostedGas(opTry[p] - 1, @) ELSE @]
  BY <1>4 DEF FailAttempt
<1>6. p = q /\ gas'[q] = nextBoostedGas(opTry[q] - 1, gas[q])
  BY <1>1, <1>5
<1> QED BY <1>1, <1>6, BoostOffersMore

(* Reordering loses no client and puts the ones that failed last, whatever    *)
(* the other calls do, and a retry that changes the gas offers more of it, if *)
(* the initial limit of the boost is above what a transaction gets without.   *)
THEOREM StepsCorrect ==
    ASSUME InitialGas > TransactGas(0)
    PROVE  Spec => OperationSteps
<1>1. /\ ClientInv /\ EffectsInv /\ [Next]_vars
      => [\A p \in Callers : gas'[p] # gas[p] => TransactGas(gas'[p]) > TransactGas(gas[p])]_vars
  BY GasStep
<1>2. Spec => GasIncreases
  BY <1>1, EvmInvariants, PTL DEF Spec, GasIncreases
<1> QED BY <1>2, ClientsAreKept, AnswersComeFirst, PTL DEF OperationSteps
=============================================================================

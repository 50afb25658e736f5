------------------------------ MODULE EvmClient ------------------------------
(* The MultiClient of an EVM chain: one primary RPC client and its backups,   *)
(* shared by all goroutines that use the chain.  A call takes a snapshot of   *)
(* the list, tries its clients one after the other, and moves the client that *)
(* answered to the front of the list as it is then.                           *)
EXTENDS Integers, Sequences

CONSTANTS Chains,    \* the chains that have a MultiClient
          NumRPCs,   \* the RPC endpoints of a chain are 1 .. NumRPCs
          Callers,   \* goroutines that call the clients
          ChainOf,   \* the chain a goroutine works on
          Ops,       \* the wrapped methods
          Attempts   \* RetryConfig.Attempts

ASSUME NumRPCsAssumption == NumRPCs \in Nat
ASSUME AttemptsAssumption == Attempts \in Nat \ {0}
ASSUME ChainOfAssumption == ChainOf \in [Callers -> Chains]
ASSUME OpsAssumption == "none" \notin Ops

VARIABLES clients,   \* clients[ch]: the primary, then the backups
          call       \* call[p]: the call goroutine p is in

clientVars == <<clients, call>>

NoCall == [op |-> "none", snap |-> << >>, idx |-> 0, try |-> 0]

Increasing(s) == \A i, j \in DOMAIN s : i < j => s[i] < s[j]

(* The endpoints that could be dialed and passed the health check, in the     *)
(* order of the configuration.  With none of them the chain has no client.    *)
Dialed == {s \in UNION {[1..n -> 1..NumRPCs] : n \in 0..NumRPCs} : Increasing(s)}

ClientInit == /\ clients \in [Chains -> Dialed]
              /\ call = [p \in Callers |-> NoCall]

\* The client is moved to the front and the others keep their order.
SourceToFront(n, r, k) == IF k = 1 THEN r ELSE IF k <= r THEN k - 1 ELSE k

\* An off-by-one in the slice of the backups.
SourceOffByOne(n, r, k) == IF k = 1 THEN r
                           ELSE IF k <= n - r + 1 THEN r + k - 2
                           ELSE IF k < n THEN k - n + r ELSE 1

(* Which entry of the old list comes to place k when entry r answered: r, the *)
(* clients after it, the backups before it, and at last the old primary.      *)
Source(n, r, k) == IF k <= n - r + 1 THEN r + k - 1
                   ELSE IF k < n THEN k - n + r ELSE 1

reorderRPCs(list, r) ==
    IF r < 2 THEN list
    ELSE [k \in DOMAIN list |-> list[Source(Len(list), r, k)]]

\* The client of call p that is tried now.
Current(p) == call[p].snap[call[p].idx]

Begin(p, op) ==
    /\ call[p] = NoCall
    /\ clients[ChainOf[p]] # << >>
    /\ call' = [call EXCEPT ![p] = [op |-> op, snap |-> clients[ChainOf[p]],
                                    idx |-> 1, try |-> 1]]
    /\ UNCHANGED clients

\* The index is one of the snapshot; the list may have changed since.
Answered(p) ==
    /\ call[p] # NoCall
    /\ clients' = [clients EXCEPT ![ChainOf[p]] = reorderRPCs(@, call[p].idx)]
    /\ call' = [call EXCEPT ![p] = NoCall]

\* An attempt failed: the next attempt, or the next client.
TryAgain(p) ==
    /\ call[p] # NoCall
    /\ \/ /\ call[p].try < Attempts
          /\ call' = [call EXCEPT ![p].try = @ + 1]
       \/ /\ call[p].try = Attempts
          /\ call[p].idx < Len(call[p].snap)
          /\ call' = [call EXCEPT ![p] = [call[p] EXCEPT !.try = 1, !.idx = call[p].idx + 1]]
    /\ UNCHANGED clients

\* The last attempt with the last client failed: the call returns an error.
AllFailed(p) ==
    /\ call[p] # NoCall
    /\ call[p].try = Attempts
    /\ call[p].idx = Len(call[p].snap)
    /\ call' = [call EXCEPT ![p] = NoCall]
    /\ UNCHANGED clients

ClientNext ==
    \E p \in Callers :
        \/ \E op \in Ops : Begin(p, op)
        \/ Answered(p)
        \/ TryAgain(p)
        \/ AllFailed(p)

ClientSpec == ClientInit /\ [][ClientNext]_clientVars

-----------------------------------------------------------------------------

ClientLists == UNION {[1..n -> 1..NumRPCs] : n \in 0..NumRPCs}

ClientTypeOK ==
    /\ clients \in [Chains -> ClientLists]
    /\ call \in [Callers -> [op : Ops \cup {"none"}, snap : ClientLists,
                             idx : 0..NumRPCs, try : 0..Attempts]]

(* Concurrent calls reorder one list by indices of their own snapshots.  No   *)
(* client is lost or listed twice by that, and an index never leaves the list *)
(* it is applied to (reorderRPCs would panic).                                *)
NoDuplicates == \A ch \in Chains : \A i, j \in DOMAIN clients[ch] :
                    clients[ch][i] = clients[ch][j] => i = j

IndexInList == \A p \in Callers :
                   call[p] # NoCall => call[p].idx \in DOMAIN clients[ChainOf[p]]

ClientsConsistent == NoDuplicates /\ IndexInList

\* No call removes or adds a client, whatever the other calls do meanwhile.
SameClients(ch) == {clients'[ch][k] : k \in DOMAIN clients'[ch]}
                       = {clients[ch][k] : k \in DOMAIN clients[ch]}

ClientsKept == [][\A ch \in Chains : SameClients(ch)]_clientVars

(* reorderRPCs: the client that answered becomes the primary and the clients  *)
(* that failed before it come after those that were not tried.  It holds for  *)
(* a call that no other call overtook: one whose snapshot is still the list.  *)
Position(list, c) == CHOOSE k \in DOMAIN list : list[k] = c

FailedLast(p) ==
    LET old == call[p].snap
        new == clients'[ChainOf[p]]
    IN  (/\ call[p] # NoCall
         /\ call'[p] = NoCall
         /\ old = clients[ChainOf[p]]
         /\ new # old)
        => /\ new[1] = Current(p)
           /\ \A i \in 1..(call[p].idx - 1), j \in (call[p].idx + 1)..Len(old) :
                  Position(new, old[i]) > Position(new, old[j])

AnsweredFirst == [][\A p \in Callers : FailedLast(p)]_clientVars
=============================================================================

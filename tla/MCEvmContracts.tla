--------------------------- MODULE MCEvmContracts ---------------------------
(* Small instances of EvmContracts. *)
EXTENDS EvmContracts, TLC

CONSTANTS p1, p2, c1

MCOps == RPCStages

SharedChain == [p \in {p1, p2} |-> c1]

Deploy == [kind |-> "deploy", input |-> "a", qualifier |-> "q1", allowed |-> TRUE,
           retry |-> TRUE]
MaybeDeploy(input, qualifier) ==
    [kind |-> "maybeDeploy", input |-> input, qualifier |-> qualifier, allowed |-> TRUE,
     retry |-> FALSE]
Write(allowed, retry) ==
    [kind |-> "write", input |-> "w", qualifier |-> "nil", allowed |-> allowed, retry |-> retry]

Read == [kind |-> "read", input |-> "r", qualifier |-> "nil", allowed |-> TRUE, retry |-> TRUE]

(* A deployment beside a write of somebody who is not the owner, or beside a  *)
(* deployment of the same or of an existing contract; a write of the owner    *)
(* beside a deployment of another contract.                                   *)
SendJobs == {p1 :> Write(TRUE, FALSE) @@ p2 :> MaybeDeploy("b", "q1"),
             p1 :> Deploy @@ p2 :> MaybeDeploy("b", "q0")}
DeployJobs == {p1 :> Deploy @@ p2 :> Write(FALSE, FALSE),
               p1 :> Deploy @@ p2 :> MaybeDeploy("a", "q1"),
               p1 :> Write(TRUE, TRUE) @@ p2 :> MaybeDeploy("b", "q0")}
ReadJobs == {[p \in {p1, p2} |-> Read]}
MCJobs == SendJobs \cup DeployJobs \cup ReadJobs

(* Three clients are tried by reads, two by the write beside a deployment,    *)
(* and one by the others, which may also find none.                           *)
MCInit == /\ Init
          /\ clients[c1] \in IF job \in ReadJobs THEN {<< 1, 2, 3 >>}
                             ELSE IF job \in SendJobs THEN {<< 1, 2 >>}
                             ELSE {<< >>, << 1 >>}
          /\ confirmer = "seth" => job[p2] = MaybeDeploy("b", "q0")
MCSpec == MCInit /\ [][Next]_vars
MCFairSpec == MCSpec /\ Fairness
=============================================================================

---------------------------- MODULE Predecessors ----------------------------
(***************************************************************************)
(* Timelock proposals waiting in pull requests: each is built from the op  *)
(* counts its MCM contracts have on chain, and is then moved behind the    *)
(* older open proposals for the same contracts.  MCM contracts accept the  *)
(* operations of a proposal on a chain only at its starting op count.      *)
(* Pull requests are numbered in the order they are created, which is also *)
(* the order of CreatedAt, and a chain has one MCM contract.               *)
(***************************************************************************)
EXTENDS Naturals, Sequences, FiniteSets, FiniteSetsExt

CONSTANTS PRs,     \* the numbers of pull requests
          Shapes   \* what a proposal may do: chain -> number of operations

ASSUME PredecessorsAssumption ==
  PRs \subseteq Nat /\ \A sh \in Shapes : \A s \in DOMAIN sh : sh[s] \in Nat \ {0}

Selectors == UNION {DOMAIN sh : sh \in Shapes}
NotLoaded == << >>

VARIABLES opCount,   \* external: chain -> op count of its MCM contract
          data,      \* open pull request -> ProposalData: chain -> [start, ops]
          executed,  \* external: open pull request -> the chains it was executed on
          merged,    \* pull requests that are closed, all of their chains executed
          view,      \* pull request -> the predecessors its update has collected, or NotLoaded
          intime,    \* history: pull request -> the chains this update can place it on
          sure       \* history: pull request -> the chains its place was computed for in time

predVars == <<opCount, data, executed, merged, view, intime, sure>>

Open == DOMAIN data
End(d) == d.start + d.ops
Older(n, S) == {m \in S : m < n}

\* relatedByMCMOnAnyChain.
Related(x, y) == DOMAIN x \cap DOMAIN y # {}

(***************************************************************************)
(* BuildPRDependencyGraph: edges from older to newer proposals that are    *)
(* related; and Topo, the oldest of those whose predecessors are out next. *)
(***************************************************************************)
Pred(n) == {m \in Older(n, Open) : Related(data[m], data[n])}

\* topoOrderStable.
Topo ==
  LET left(out, i) == Open \ {out[j] : j \in 1..(i - 1)}
  IN CHOOSE out \in [1..Cardinality(Open) -> Open] :
       \A i \in DOMAIN out :
         out[i] = Min({m \in left(out, i) : Pred(m) \cap left(out, i) = {}})

\* The predecessors of a proposal in the order of Topo: what its update collects.
Predecessors(n) ==
  LET topo == Topo
      Place(m) == CHOOSE i \in DOMAIN topo : topo[i] = m
      of == CHOOSE q \in [1..Cardinality(Pred(n)) -> Pred(n)] :
              \A i, j \in DOMAIN q : i < j => Place(q[i]) < Place(q[j])
  IN [i \in DOMAIN of |-> [number |-> of[i], data |-> data[of[i]]]]

On(preds, s) == {i \in DOMAIN preds : s \in DOMAIN preds[i].data}

\* History: the op count is still the one the proposal was built from, or the
\* last predecessor still has to be executed on this chain; and all predecessors on the
\* chain have a place themselves.
InTime(n, s) ==
  LET preds == Predecessors(n)
  IN /\ \A i \in On(preds, s) : s \in sure[preds[i].number]
     /\ \/ data[n][s].start = opCount[s]
        \/ /\ data[n][s].start < opCount[s]
           /\ \E m \in Older(n, Open) :
                /\ s \in DOMAIN data[m] \ executed[m]
                /\ preds[Len(preds)].number = m

\* External: a changeset builds a proposal for a new pull request, or builds
\* the one of a pull request again, from the op counts on chain.
Create(n, sh) ==
  /\ n \notin Open \cup merged /\ Older(n, PRs) \subseteq Open \cup merged
  /\ LET d == [s \in DOMAIN sh |-> [start |-> opCount[s], ops |-> sh[s]]]
     IN data' = [m \in Open \cup {n} |-> IF m = n THEN d ELSE data[m]]
  /\ executed' = [m \in Open \cup {n} |-> IF m = n THEN {} ELSE executed[m]]
  /\ UNCHANGED <<opCount, merged, view, intime, sure>>

Rebuild(n) ==
  /\ n \in Open /\ executed[n] = {} /\ view[n] = NotLoaded
  /\ data' = [data EXCEPT ![n] = [s \in DOMAIN @ |-> [@[s] EXCEPT !.start = opCount[s]]]]
  /\ sure' = [sure EXCEPT ![n] = {}]
  /\ UNCHANGED <<opCount, executed, merged, view, intime>>

\* The update of a proposal starts: graph and predecessors.
Collect(n) ==
  /\ n \in Open /\ view[n] = NotLoaded
  /\ view' = [view EXCEPT ![n] = <<Predecessors(n)>>]
  /\ intime' = [intime EXCEPT ![n] = {s \in DOMAIN data[n] : InTime(n, s)}]
  /\ UNCHANGED <<opCount, data, executed, merged, sure>>

OpsOf(preds, I, s) == SumFunctionOnSet([i \in I |-> preds[i].data[s].ops], I)

Adjusted(cur, preds, s, sum) ==
  LET last == Len(preds)
  IN IF last > 0 /\ last \in On(preds, s) /\ End(preds[last].data[s]) > sum
     THEN End(preds[last].data[s]) ELSE sum

\* Mutant: stale predecessors are counted.
ComputeHighestOpCountsStale(cur, preds, s) ==
  Adjusted(cur, preds, s, cur[s].start + OpsOf(preds, On(preds, s), s))

\* ComputeHighestOpCountsFromPredecessors, for one chain of the proposal cur.
ComputeHighestOpCounts(cur, preds, s) ==
  LET counted == {i \in On(preds, s) : preds[i].data[s].start >= cur[s].start}
  IN Adjusted(cur, preds, s, cur[s].start + OpsOf(preds, counted, s))

\* ApplyHighestOpCountsToProposal: a count is only ever raised.
Apply(n) ==
  /\ n \in Open /\ view[n] # NotLoaded
  /\ LET new(s) == ComputeHighestOpCounts(data[n], view[n][1], s)
     IN data' = [data EXCEPT ![n] = [s \in DOMAIN @ |->
                   IF @[s].start < new(s) THEN [@[s] EXCEPT !.start = new(s)] ELSE @[s]]]
  /\ sure' = [sure EXCEPT ![n] = @ \cup intime[n]] /\ intime' = [intime EXCEPT ![n] = {}]
  /\ view' = [view EXCEPT ![n] = NotLoaded]
  /\ UNCHANGED <<opCount, executed, merged>>

\* A proposal or its file cannot be read or written: the branch is left as it was.
UpdateFails(n) ==
  /\ n \in Open /\ view[n] # NotLoaded
  /\ view' = [view EXCEPT ![n] = NotLoaded] /\ intime' = [intime EXCEPT ![n] = {}]
  /\ UNCHANGED <<opCount, data, executed, merged, sure>>

\* External: the operations of a proposal on one chain, in the order of the
\* proposals.  One that was executed everywhere is closed.
Execute(n, s) ==
  /\ n \in Open /\ s \in DOMAIN data[n] \ executed[n] /\ data[n][s].start = opCount[s]
  /\ \A m \in Older(n, Open) : s \notin DOMAIN data[m] \ executed[m]
  /\ opCount' = [opCount EXCEPT ![s] = End(data[n][s])]
  /\ IF executed[n] \cup {s} = DOMAIN data[n]
     THEN /\ data' = [m \in Open \ {n} |-> data[m]] /\ executed' = [m \in Open \ {n} |-> executed[m]]
          /\ merged' = merged \cup {n} /\ view' = [view EXCEPT ![n] = NotLoaded]
     ELSE executed' = [executed EXCEPT ![n] = @ \cup {s}] /\ UNCHANGED <<data, merged, view>>
  /\ UNCHANGED <<intime, sure>>

PredInit ==
  /\ opCount = [s \in Selectors |-> 0] /\ data = << >> /\ executed = << >> /\ merged = {}
  /\ view = [n \in PRs |-> NotLoaded] /\ intime = [n \in PRs |-> {}] /\ sure = [n \in PRs |-> {}]

PredNext ==
  \E n \in PRs :
    \/ \E sh \in Shapes : Create(n, sh)
    \/ Rebuild(n) \/ Collect(n) \/ Apply(n) \/ UpdateFails(n)
    \/ \E s \in Selectors : Execute(n, s)

PredSpec == PredInit /\ [][PredNext]_predVars

\* The op count a chain will have when the older proposals that are not executed
\* there have been.
Waiting(n, s) == {m \in Older(n, Open) : s \in DOMAIN data[m] \ executed[m]}
Turn(n, s) ==
  opCount[s] + SumFunctionOnSet([m \in Waiting(n, s) |-> data[m][s].ops], Waiting(n, s))

\* A proposal whose place was computed in time starts exactly there: neither are
\* two proposals for the same op counts, nor is there a gap, whatever
\* was executed between the building of a proposal, the collecting of its
\* predecessors and the writing of its counts, and however often it is updated.
InTurn ==
  \A n \in Open : \A s \in (sure[n] \cap DOMAIN data[n]) \ executed[n] :
    data[n][s].start = Turn(n, s)
=============================================================================

--------------------------- MODULE JobDistributor ---------------------------
(***************************************************************************)
(* The Job Distributor and the commands that talk to it.  The server is    *)
(* the in-memory one of offchain/jd/memory: nodes, jobs and proposals      *)
(* behind one mutex, so a call is one step.  The commands of               *)
(* engine/cld/legacy/cli/commands/jd.go and the functions of               *)
(* engine/cld/offchain behind them are processes: each call they make is a *)
(* step of its own, which the server may not get, or whose answer may be   *)
(* lost, and they share the server and the file nodes.json.  ListNodes     *)
(* alone takes several steps: it filters the nodes without the mutex.      *)
(***************************************************************************)
EXTENDS Integers, Sequences, FiniteSets

CONSTANTS
  Cmds,         \* the commands that run, each once
  CommandLines, \* the command lines they may be given
  InitialNodes, \* the nodes that are registered, and saved, before
  Uuid,         \* spec -> its externalJobID, or NoUuid when it has none
  NoUuid,
  MaxCalls      \* bound on the calls of other users

SeqRange(s) == {s[i] : i \in DOMAIN s}
IsSeq(s) == s \in Seq(SeqRange(s))
JobEntries == [node : Nat, spec : DOMAIN Uuid]

LabelRecords == [key : STRING, val : STRING]
NodeArgs == [name : STRING, key : STRING, extra : Seq(LabelRecords), type : STRING]
NodeConfigs == [name : STRING, key : STRING, labels : Seq(LabelRecords)]
NodeRequests == [by : {"csa_key", "name", "label"}, label : LabelRecords, cfg : NodeConfigs]

\* A command line has the arguments of its kind; lists are sequences, and only
\* labels-patch and save-all have --dry-run.
ASSUME JDAssumption ==
  /\ InitialNodes \in Seq(NodeArgs) /\ MaxCalls \in Nat
  /\ \A k \in CommandLines :
       /\ k.kind \in {"register", "patch", "propose", "batchpropose", "update", "batchupdate", "saveall"}
       /\ k.kind = "register" => k.nodes \in Seq(NodeArgs)
       /\ k.kind = "patch" => /\ IsFiniteSet(DOMAIN k.patch)
                             /\ \A key \in DOMAIN k.patch :
                                  [key |-> key, val |-> k.patch[key]] \in LabelRecords
       /\ k.kind = "propose" => k.spec \in DOMAIN Uuid
       /\ k.kind = "batchpropose" => k.jobs \in Seq(JobEntries)
       /\ k.kind = "update" => /\ [name |-> k.name, key |-> k.key, labels |-> k.labels] \in NodeConfigs
                              /\ k.args \in {"ok", "err", "panic"}
       /\ k.kind = "batchupdate" => k.requests \in Seq(NodeRequests)
       /\ k.dry => k.kind \in {"patch", "saveall"}

VARIABLES
  nodes,     \* Seq([name, key, enabled, labels]), a node's id is its index
  jobs,      \* Seq([uuid, node, deleted, proposals])
  props,     \* Seq([job, rev, status, spec])
  file,      \* nodes.json: the set of ids
  run,       \* Cmds -> the state of the command
  calls,     \* the number of calls other users have made
  \* history
  made,      \* Cmds -> the ids the server has given out to the command
  author,    \* proposal -> the <<command, entry>> that made it, or <<>>
  touched,   \* Cmds -> the nodes another command changed since it read them
  left,      \* the ids that were outside the domain's environment at some time
  raced      \* a command wrote nodes.json from a reading that was out of date

jdVars == <<nodes, jobs, props, file, run, calls, made, author, touched, left, raced>>
server == <<nodes, jobs, props>>

Ids == DOMAIN nodes

----------------------------------------------------------------------------
(* Labels: a list of key and value, in which a key may occur twice *)

Label(k, v) == [key |-> k, val |-> v]
HasKey(labels, k) == \E i \in DOMAIN labels : labels[i].key = k

\* the filters read the list into a map, so the last of two equal keys counts
LastIndex(labels, k) ==
  CHOOSE i \in DOMAIN labels :
    /\ labels[i].key = k
    /\ \A j \in DOMAIN labels : labels[j].key = k => j <= i
LabelMap(labels) ==
  [k \in {labels[i].key : i \in DOMAIN labels} |-> labels[LastIndex(labels, k)].val]

\* a selector is a key, an operation and a set of values (for EQ, one)
matchesSelector(labels, sel) ==
  LET m == LabelMap(labels)
  IN  CASE sel.op \in {"EQ", "IN"} -> sel.key \in DOMAIN m /\ m[sel.key] \in sel.vals
        [] sel.op \in {"NOT_EQ", "NOT_IN"} -> sel.key \in DOMAIN m /\ m[sel.key] \notin sel.vals
        [] sel.op = "EXIST" -> sel.key \in DOMAIN m
        [] sel.op = "NOT_EXIST" -> sel.key \notin DOMAIN m

\* the selectors every command adds: the product and the environment
NodeScope == {[key |-> "product", op |-> "EQ", vals |-> {"domain"}],
          [key |-> "environment", op |-> "EQ", vals |-> {"env"}]}

\* the nodes that are not of the domain's environment
OutOfScope(ns) == {id \in DOMAIN ns : \E sel \in NodeScope : ~matchesSelector(ns[id].labels, sel)}

nodeMatchesFilter(id, node, f) ==
  /\ f.ids = {} \/ id \in f.ids
  /\ f.enabled => node.enabled
  /\ \A sel \in f.sels : matchesSelector(node.labels, sel)

\* the labels RegisterNode makes: product, environment, extra labels, type
NodeLabels(extra, type) ==
  <<Label("product", "domain"), Label("environment", "env")>>
    \o extra \o <<Label("type", type)>>

NewNode(n) == [name |-> n.name, key |-> n.key, enabled |-> TRUE,
               labels |-> NodeLabels(n.extra, n.type)]

----------------------------------------------------------------------------
(* labels-patch: the new labels of a node.  The loop looks a key up in     *)
(* node.Labels and edits labels, a slice that begins as the same array and *)
(* stops being so when an append finds no spare capacity.  The decoder     *)
(* appends one label at a time, so the capacity is a power of two.         *)

Capacity(n) == CHOOSE c \in {1, 2, 4, 8} : c >= n /\ \A d \in {1, 2, 4, 8} : d >= n => c <= d

FirstIndex(keys, k) ==
  IF \E i \in DOMAIN keys : keys[i] = k
  THEN CHOOSE i \in DOMAIN keys : keys[i] = k /\ \A j \in 1..(i-1) : keys[j] # k
  ELSE 0

Without(s, i) == [j \in 1..(Len(s) - 1) |-> IF j < i THEN s[j] ELSE s[j + 1]]

\* what node.Labels shows once labels has been written through its array
Seen(base, labels) ==
  [i \in DOMAIN base |-> IF i <= Len(labels) THEN labels[i].key ELSE base[i]]

\* one iteration: st.labels is the slice, st.base the keys of node.Labels
PatchKey(st, k, v) ==
  LET i == FirstIndex(st.base, k)
      Edited(labels, shared) ==
        [labels |-> labels, shared |-> shared, cap |-> st.cap, panic |-> FALSE,
         base |-> IF shared THEN Seen(st.base, labels) ELSE st.base]
  IN  IF st.panic \/ i > Len(st.labels) THEN [st EXCEPT !.panic = TRUE]
      ELSE IF v = ""
        THEN IF i = 0 THEN st ELSE Edited(Without(st.labels, i), st.shared)
        ELSE IF i = 0
          THEN Edited(Append(st.labels, Label(k, v)),
                      st.shared /\ Len(st.labels) < st.cap)
          ELSE Edited([st.labels EXCEPT ![i].val = v], st.shared)

\* order is the order in which the map of new labels is ranged over
PatchLabels(labels, patch, order) ==
  LET step[n \in 0..Len(order)] ==
        IF n = 0
        THEN [labels |-> labels, shared |-> TRUE, panic |-> FALSE,
              base |-> [i \in DOMAIN labels |-> labels[i].key],
              cap |-> IF labels = <<>> THEN 0 ELSE Capacity(Len(labels))]
        ELSE PatchKey(step[n - 1], order[n], patch[order[n]])
  IN  step[Len(order)]

Orders(S) == {o \in [1..Cardinality(S) -> S] : SeqRange(o) = S}

----------------------------------------------------------------------------
(* The server: what each call does to <<nodes, jobs, props>> *)

\* The server replaces the labels unless the request's list is nil.  An empty
\* list that is not nil clears them; over gRPC it arrives as nil and they stay.
LabelsAfter(old, new) == IF new = <<>> THEN {old, new} ELSE {new}

UpdateNode(id, req) ==
  \E labels \in LabelsAfter(nodes[id].labels, req.labels) :
    nodes' = [nodes EXCEPT ![id].name = IF req.name = "" THEN @ ELSE req.name,
                           ![id].key = IF req.key = "" THEN @ ELSE req.key,
                           ![id].labels = labels]

proposalsByJob(ps, j) == {i \in DOMAIN ps : ps[i].job = j}

getNextRevisionNum(ps, j) == Cardinality(proposalsByJob(ps, j)) + 1

\* mutant: the first revision is revoked
getFirstProposalByJobID(j) ==
  CHOOSE i \in proposalsByJob(props, j) :
    \A k \in proposalsByJob(props, j) : props[i].rev <= props[k].rev

getHighestRevisionProposalByJobID(j) ==
  CHOOSE i \in proposalsByJob(props, j) :
    \A k \in proposalsByJob(props, j) : props[k].rev <= props[i].rev

\* the jobs and proposals st after a proposal to node id, whose job may exist
upsertProposal(st, id, spec) ==
  LET found == {j \in DOMAIN st.jobs : st.jobs[j].uuid = Uuid[spec] /\ st.jobs[j].node = id}
      p == Len(st.props) + 1
      j == IF found # {} THEN CHOOSE x \in found : TRUE ELSE Len(st.jobs) + 1
  IN  [jobs  |-> IF found # {}
                 THEN [st.jobs EXCEPT ![j].proposals = Append(@, p)]
                 ELSE Append(st.jobs, [uuid |-> Uuid[spec], node |-> id, deleted |-> FALSE,
                                       proposals |-> <<p>>]),
       props |-> Append(st.props, [job |-> j, rev |-> getNextRevisionNum(st.props, j),
                                   status |-> "PROPOSED", spec |-> spec])]

Store == [jobs |-> jobs, props |-> props]
Stored(st) == jobs' = st.jobs /\ props' = st.props

----------------------------------------------------------------------------
(* The commands *)

NoCommand == [kind |-> "none", dry |-> FALSE, dryClient |-> FALSE]
Idle == [pc |-> "idle", cmd |-> NoCommand, todo |-> <<>>, listed |-> <<>>,
         ids |-> {}, failed |-> {}, base |-> {}, tried |-> 0, res |-> ""]

JDInit ==
  /\ \E disabled \in {{}, {Len(InitialNodes)}} :
       nodes = [i \in DOMAIN InitialNodes |->
                  [NewNode(InitialNodes[i]) EXCEPT !.enabled = i \notin disabled]]
  /\ jobs = <<>> /\ props = <<>>
  /\ file = DOMAIN InitialNodes
  /\ run = [c \in Cmds |-> Idle]
  /\ calls = 0
  /\ made = [c \in Cmds |-> {}]
  /\ author = <<>>
  /\ touched = [c \in Cmds |-> {}]
  /\ left = OutOfScope(nodes) /\ raced = FALSE

Finish(p, res) == [p EXCEPT !.pc = "done", !.res = res, !.todo = <<>>, !.listed = <<>>,
                         !.base = {}]

\* the first call of a command; when no nodes are given to register, nodes.json is
\* saved at once
FirstStep(k) ==
  CASE k.kind = "register" -> IF k.nodes = <<>> THEN "read" ELSE "register"
    [] k.kind = "batchpropose" -> "propose"
    [] OTHER -> "list"

\* the client is loaded and the arguments are read: what needs no listing is to do
StartCommand(c) ==
  \E k \in CommandLines :
    /\ run[c].pc = "idle"
    /\ run' = [run EXCEPT ![c] =
         IF k.kind = "batchpropose" /\ k.jobs = <<>>
         THEN Finish([@ EXCEPT !.cmd = k], "ok")
         ELSE [@ EXCEPT !.pc = FirstStep(k), !.cmd = k,
                        !.todo = IF k.kind = "register" THEN k.nodes
                                 ELSE IF k.kind = "batchpropose" THEN k.jobs ELSE <<>>]]
    /\ UNCHANGED <<server, file, made, author, touched, left, raced>>

\* LoadOffchainClient fails, or the command panics: there is no client (keystone
\* without an endpoint) or the server has no keypair
LoadFails(c) ==
  /\ run[c].pc = "idle"
  /\ \E res \in {"err", "panic"} : run' = [run EXCEPT ![c] = Finish(@, res)]
  /\ UNCHANGED <<server, file, made, author, touched, left, raced>>

\* the filter with which a command lists the nodes
FilterOf(k) ==
  CASE k.kind = "patch" /\ k.peers # {} ->
         [ids |-> {}, enabled |-> FALSE,
          sels |-> NodeScope \union {[key |-> "p2p_id", op |-> "IN", vals |-> k.peers]}]
    [] k.kind = "patch" /\ k.peers = {} ->
         [ids |-> k.ids, enabled |-> FALSE, sels |-> NodeScope]
    [] k.kind = "propose" -> [ids |-> {}, enabled |-> TRUE, sels |-> NodeScope \union k.sels]
    [] k.kind = "saveall" -> [ids |-> {}, enabled |-> FALSE, sels |-> NodeScope]
    [] k.kind = "update" -> [ids |-> {k.id}, enabled |-> FALSE, sels |-> {}]
    [] k.kind = "batchupdate" -> [ids |-> {}, enabled |-> FALSE, sels |-> {}]

\* ListNodes or GetNode of a command fails, at any time before it answers
ListFails(c) ==
  /\ run[c].pc = "list"
  /\ run' = [run EXCEPT ![c] = Finish(@, "err")]
  /\ UNCHANGED <<server, file, made, author, touched, left, raced>>

\* what a command has to do with the nodes it found, in the order of the map
AfterList(k, found, order) ==
  CASE k.kind = "patch" ->
         IF Cardinality(found) # Cardinality(k.ids) + Cardinality(k.peers) THEN <<"end", <<>>>> ELSE <<"patch", order>>
    [] k.kind = "propose" ->
         <<"propose", [i \in DOMAIN order |-> [node |-> order[i], spec |-> k.spec]]>>
    [] k.kind = "saveall" -> <<IF k.dry THEN "end" ELSE "write", <<>>>>
    [] k.kind = "update" -> IF found = {} THEN <<"end", <<>>>> ELSE <<"update", <<k.id>>>>
    [] k.kind = "batchupdate" -> <<"batchupdate", k.requests>>

\* where that leads the command p
Onwards(p, next) ==
  IF next[1] = "end" THEN Finish(p, IF p.cmd.kind = "saveall" THEN "ok" ELSE "err")
  ELSE IF next[1] # "write" /\ next[2] = <<>> THEN Finish(p, "ok")
  ELSE [p EXCEPT !.pc = next[1], !.todo = next[2],
                 !.base = IF p.cmd.kind = "saveall" THEN file ELSE {}]

\* The answer reaches the command, which keeps what it saw until it ends.
Answer(c, found, seen) ==
  /\ \E order \in Orders(found) :
       run' = [run EXCEPT ![c] = Onwards([@ EXCEPT !.listed = seen, !.ids = found],
                                         AfterList(run[c].cmd, found, order))]
  /\ touched' = [touched EXCEPT ![c] = {}]
  /\ UNCHANGED <<server, file, made, author, left, raced>>

\* GetNode, and ListNodes without a filter, read under the mutex
List(c) ==
  LET k == run[c].cmd
  IN  /\ run[c].pc = "list" /\ k.kind \in {"update", "batchupdate"}
      /\ Answer(c, {id \in Ids : nodeMatchesFilter(id, nodes[id], FilterOf(k))}, nodes)

\* ListNodes with a filter collects the nodes under the mutex,
Collect(c) ==
  /\ run[c].pc = "list" /\ run[c].cmd.kind \in {"patch", "propose", "saveall"}
  /\ run' = [run EXCEPT ![c].pc = "filter", ![c].listed = nodes, ![c].base = Ids]
  /\ UNCHANGED <<server, file, made, author, touched, left, raced>>

\* looks at one after the other without it, as each is by then,
Filter(c) ==
  /\ run[c].pc = "filter"
  /\ \E id \in run[c].base :
       run' = [run EXCEPT ![c].base = @ \ {id},
                          ![c].ids = IF nodeMatchesFilter(id, nodes[id], FilterOf(run[c].cmd))
                                     THEN @ \union {id} ELSE @]
  /\ UNCHANGED <<server, file, made, author, touched, left, raced>>

\* and answers with those that fitted, as they are now.
Filtered(c) ==
  /\ run[c].pc = "filter" /\ run[c].base = {}
  /\ Answer(c, run[c].ids, [id \in DOMAIN run[c].listed |-> nodes[id]])

\* a write: does the server get it, and does the command hear of it
Outcomes == {"answered", "unsent", "unanswered"}
Applied(c, out) == out # "unsent" /\ ~run[c].cmd.dryClient

\* the nodes, once a command has changed them
NodesChanged(c, id) ==
  /\ touched' = [d \in Cmds |-> IF d = c THEN touched[d] ELSE touched[d] \union {id}]
  /\ left' = left \union OutOfScope(nodes')

\* RegisterNode for the next node of the command's list.  The dry-run client
\* answers without a node, which the command takes for a failure.
RegisterNode(c) ==
  \E out \in Outcomes :
    LET p == run[c]
        n == Head(p.todo)
        ok == out = "answered" /\ ~p.cmd.dryClient
        id == Len(nodes) + 1
    IN  /\ p.pc = "register"
        /\ IF Applied(c, out)
           THEN /\ nodes' = Append(nodes, NewNode(n))
                /\ made' = [made EXCEPT ![c] = @ \union {id}]
                /\ left' = left \union OutOfScope(nodes')
           ELSE UNCHANGED <<nodes, made, left>>
        /\ run' = [run EXCEPT ![c] =
             IF ~ok THEN Finish(p, "err")
             ELSE [p EXCEPT !.ids = @ \union {id}, !.todo = Tail(@),
                            !.pc = IF Len(p.todo) = 1 THEN "read" ELSE "register"]]
        /\ UNCHANGED <<jobs, props, file, author, touched, raced>>

\* mutant: the ids of the file are not added
ReadNodesOnly(c) ==
  /\ run[c].pc = "read"
  /\ run' = [run EXCEPT ![c].pc = "write", ![c].base = file]
  /\ UNCHANGED <<server, file, made, author, touched, left, raced>>

\* SaveToFile, the first half: nodes.json is read and its ids added
ReadNodes(c) ==
  /\ run[c].pc = "read"
  /\ run' = [run EXCEPT ![c].pc = "write", ![c].base = file, ![c].ids = @ \union file]
  /\ UNCHANGED <<server, file, made, author, touched, left, raced>>

\* nodes.json is written: by register after the merge, by save-all anew
WriteNodes(c) ==
  /\ run[c].pc = "write"
  /\ file' = run[c].ids
  /\ raced' = (raced \/ file # run[c].base
                \/ (run[c].cmd.kind = "saveall" /\ Len(nodes) # Len(run[c].listed)))
  /\ run' = [run EXCEPT ![c] = Finish(@, "ok")]
  /\ UNCHANGED <<server, made, author, touched, left>>

\* the request of the update and batch-update commands for one node
\* update: the node as listed, with the given fields set and the labels added
UpdateRequest(k, node) ==
  [name |-> IF "name" \in k.types THEN k.name ELSE node.name,
   key |-> IF "csa_key" \in k.types THEN k.key ELSE node.key,
   labels |-> IF "label" \in k.types
              THEN IF k.labels = <<>> THEN <<>> ELSE node.labels \o k.labels
              ELSE node.labels]

\* batch-update: all labels are those of the configuration
Finds(r, node) ==
  CASE r.by = "csa_key" -> node.key = r.cfg.key
    [] r.by = "name" -> node.name = r.cfg.name
    [] r.by = "label" -> \E i \in DOMAIN node.labels : node.labels[i] = r.label

ConfigRequest(r) == [name |-> r.cfg.name, key |-> r.cfg.key, labels |-> r.cfg.labels]

\* an UpdateNode call of command c for node id; an error ends the command
SendUpdate(c, id, req, out) ==
  LET p == run[c]
      last == Len(p.todo) = 1
  IN  /\ IF Applied(c, out)
         THEN UpdateNode(id, req) /\ NodesChanged(c, id)
         ELSE UNCHANGED <<nodes, touched, left>>
      /\ run' = [run EXCEPT ![c] =
           IF out # "answered" THEN Finish(p, "err")
           ELSE IF last THEN Finish(p, "ok")
           ELSE [p EXCEPT !.todo = Tail(@)]]
      /\ UNCHANGED <<jobs, props, file, made, author, raced>>

\* labels-patch, the next node: its labels as listed, patched
Patch(c) ==
  LET p == run[c]
      id == Head(p.todo)
  IN  /\ p.pc = "patch"
      /\ \E order \in Orders(DOMAIN p.cmd.patch) :
           LET st == PatchLabels(p.listed[id].labels, p.cmd.patch, order)
           IN  CASE st.panic ->
                      /\ run' = [run EXCEPT ![c] = Finish(p, "panic")]
                      /\ UNCHANGED <<server, file, made, author, touched, left, raced>>
                 [] ~st.panic /\ p.cmd.dry ->
                      /\ run' = [run EXCEPT ![c] =
                           IF Len(p.todo) = 1 THEN Finish(p, "ok") ELSE [p EXCEPT !.todo = Tail(@)]]
                      /\ UNCHANGED <<server, file, made, author, touched, left, raced>>
                 [] ~st.panic /\ ~p.cmd.dry ->
                      \E out \in Outcomes :
                        SendUpdate(c, id, [name |-> p.listed[id].name, key |-> p.listed[id].key,
                                           labels |-> st.labels], out)

\* The arguments are read after the node: a key type that does not exist or labels
\* and values that do not pair are errors, a key type without a value a panic.
Update(c) ==
  LET p == run[c]
  IN  /\ p.pc = "update"
      /\ \/ /\ p.cmd.args # "ok"
            /\ run' = [run EXCEPT ![c] = Finish(p, p.cmd.args)]
            /\ UNCHANGED <<server, file, made, author, touched, left, raced>>
         \/ /\ p.cmd.args = "ok"
            /\ \E out \in Outcomes :
                 SendUpdate(c, p.cmd.id, UpdateRequest(p.cmd, p.listed[p.cmd.id]), out)

\* UpdateNodes, the next request: the first node of the listing that fits
BatchUpdate(c) ==
  LET p == run[c]
      r == Head(p.todo)
      fits == {id \in DOMAIN p.listed : Finds(r, p.listed[id])}
  IN  /\ p.pc = "batchupdate"
      /\ \/ /\ fits = {}
            /\ run' = [run EXCEPT ![c] = Finish(p, "err")]
            /\ UNCHANGED <<server, file, made, author, touched, left, raced>>
         \/ \E id \in fits, out \in Outcomes : SendUpdate(c, id, ConfigRequest(r), out)

\* mutant: the loop returns the first error
AfterProposeStop(q) ==
  IF q.todo # <<>> /\ q.failed = {} THEN q ELSE Finish(q, IF q.failed = {} THEN "ok" ELSE "err")

AfterPropose(q) ==
  IF q.todo # <<>> THEN q ELSE Finish(q, IF q.failed = {} THEN "ok" ELSE "err")

\* ProposeJob for the next node: an error is kept and the loop goes on
Propose(c) ==
  \E out \in Outcomes :
    LET p == run[c]
        entry == Head(p.todo)
        n == p.tried + 1
        applied == Applied(c, out) /\ Uuid[entry.spec] # NoUuid
        failed == IF out = "answered" /\ (applied \/ p.cmd.dryClient) THEN p.failed
                  ELSE p.failed \union {n}
        q == [p EXCEPT !.failed = failed, !.tried = n, !.todo = Tail(@)]
    IN  /\ p.pc = "propose"
        /\ IF applied
           THEN /\ Stored(upsertProposal(Store, entry.node, entry.spec))
                /\ author' = Append(author, <<c, n>>)
           ELSE UNCHANGED <<jobs, props, author>>
        /\ run' = [run EXCEPT ![c] = AfterPropose(q)]
        /\ UNCHANGED <<nodes, file, made, touched, left, raced>>

----------------------------------------------------------------------------
(* Calls of other users of the server *)

\* one call proposes the spec to every node of the list, under one lock
BatchProposeJob(ids, spec) ==
  LET after[n \in 0..Len(ids)] ==
        IF n = 0 THEN Store ELSE upsertProposal(after[n - 1], ids[n], spec)
  IN  /\ Uuid[spec] # NoUuid
      /\ Stored(after[Len(ids)])
      /\ author' = author \o [n \in DOMAIN ids |-> <<>>]
      /\ UNCHANGED <<nodes, file, made, touched, left, raced>>

RevokeJob(j) ==
  LET i == getHighestRevisionProposalByJobID(j)
  IN  /\ props[i].status \in {"PROPOSED", "CANCELLED"}
      /\ props' = [props EXCEPT ![i].status = "REVOKED"]
      /\ UNCHANGED <<nodes, jobs, file, made, author, touched, left, raced>>

DeleteJob(j) ==
  /\ ~jobs[j].deleted
  /\ jobs' = [jobs EXCEPT ![j].deleted = TRUE]
  /\ UNCHANGED <<nodes, props, file, made, author, touched, left, raced>>

SetEnabled(id, on) ==
  /\ nodes[id].enabled # on
  /\ nodes' = [nodes EXCEPT ![id].enabled = on]
  /\ UNCHANGED <<jobs, props, file, made, author, touched, left, raced>>

DisableNode(id) == SetEnabled(id, FALSE)
EnableNode(id) == SetEnabled(id, TRUE)

CommandStep(c) == StartCommand(c) \/ LoadFails(c) \/ ListFails(c) \/ List(c) \/ Collect(c) \/ Filter(c)
           \/ Filtered(c) \/ RegisterNode(c) \/ ReadNodes(c) \/ WriteNodes(c) \/ Patch(c) \/ Update(c) \/ BatchUpdate(c) \/ Propose(c)

OtherCall ==
  \/ \E j \in DOMAIN jobs : RevokeJob(j) \/ DeleteJob(j)
  \/ \E id \in Ids : DisableNode(id) \/ EnableNode(id)
  \/ \E s \in DOMAIN Uuid : BatchProposeJob([id \in Ids |-> id], s)

JDNext ==
  \/ \E c \in Cmds : CommandStep(c) /\ UNCHANGED calls
  \/ calls < MaxCalls /\ OtherCall /\ calls' = calls + 1 /\ UNCHANGED run

JDSpec == JDInit /\ [][JDNext]_jdVars

----------------------------------------------------------------------------
(* Properties *)

\* The state has its shape, and what refers to something refers to what exists:
\* the job of a proposal, the node of a job, the ids of nodes.json.
JDTypeOK ==
  /\ \A id \in Ids : DOMAIN nodes[id] = {"name", "key", "enabled", "labels"}
  /\ \A i \in DOMAIN props : /\ props[i].job \in DOMAIN jobs
                             /\ props[i].status \in {"PROPOSED", "REVOKED"}
                             /\ props[i].spec \in DOMAIN Uuid
  /\ \A j \in DOMAIN jobs : jobs[j].node \in Nat /\ jobs[j].deleted \in BOOLEAN
  /\ file \subseteq Ids
  /\ Len(author) = Len(props)
  /\ \A c \in Cmds : run[c].res \in {"", "ok", "err", "panic"} /\ made[c] \subseteq Ids

\* However commands and other users propose, revoke and delete, a node has one
\* job per externalJobID, and the proposals a job lists are its own, with the
\* revisions 1, 2, ... in that order (upsertProposal reuses the job it finds and
\* counts its proposals).
JobsExact ==
  /\ \A i, j \in DOMAIN jobs : jobs[i].uuid = jobs[j].uuid /\ jobs[i].node = jobs[j].node => i = j
  /\ \A j \in DOMAIN jobs :
       /\ SeqRange(jobs[j].proposals) = proposalsByJob(props, j)
       /\ \A n \in DOMAIN jobs[j].proposals : props[jobs[j].proposals[n]].rev = n
       /\ \A n \in DOMAIN jobs[j].proposals : Uuid[props[jobs[j].proposals[n]].spec] = jobs[j].uuid

\* The proposals one entry of a command made
MadeBy(c, n) == {i \in DOMAIN author : author[i] = <<c, n>>}

\* The propose commands try every node and every job whatever fails before:
\* once one has ended, each entry it does not report as failed has been
\* proposed once, an entry it reports as failed at most once (its answer may be
\* the thing that was lost), and it succeeds only when no entry failed.
ProposedAll ==
  \A c \in Cmds :
    LET p == run[c]
        wanted == IF p.cmd.kind = "propose" THEN Cardinality(p.ids) ELSE Len(p.cmd.jobs)
    IN  (p.pc = "done" /\ p.cmd.kind \in {"propose", "batchpropose"} /\ ~p.cmd.dryClient
           /\ (p.cmd.kind = "propose" => p.ids # {}))
        => /\ p.tried = wanted
           /\ \A n \in 1..wanted :
                Cardinality(MadeBy(c, n)) \in (IF n \in p.failed THEN {0, 1} ELSE {1})
           /\ p.res = "ok" <=> p.failed = {}

(* The jobs and proposals of the Job Distributor after any interleaving of *)
(* commands: a node has one job per externalJobID, its revisions are 1, 2, *)
(* ..., and a propose command has tried every entry, whatever failed       *)
(* before.                                                                 *)
JobsSound == JDTypeOK /\ JobsExact /\ ProposedAll

\* No node is forgotten: an id the server gave out is in nodes.json, unless the
\* command that registered the node failed or is still running, the node has
\* been outside the domain's environment, or nodes.json was written from an out
\* of date reading (SaveToFile merges, save-all lists all nodes).
Accounted ==
  ~raced =>
    \A id \in Ids :
      \/ id \in file \union left
      \/ \E c \in Cmds : id \in made[c] /\ (run[c].pc # "done" \/ run[c].res # "ok")

\* The labels the documentation of labels-patch promises: the given ones set,
\* those given as empty gone, all others as they were.
Patched(m, patch) ==
  [k \in {x \in DOMAIN m \union DOMAIN patch : x \notin DOMAIN patch \/ patch[x] # ""}
     |-> IF k \in DOMAIN patch THEN patch[k] ELSE m[k]]

UniqueKeys(labels) == \A i, j \in DOMAIN labels : labels[i].key = labels[j].key => i = j

\* Command c is about to change the labels of node id, which nobody else has
\* changed since c listed it, and does so in this step
PatchesAlone(c, id) ==
  /\ run[c].pc = "patch" /\ run'[c] # run[c] /\ Head(run[c].todo) = id
  /\ nodes'[id] # nodes[id]
  /\ id \notin touched[c] /\ UniqueKeys(nodes[id].labels)

PatchDone(c, id) ==
  LabelMap(nodes'[id].labels) = Patched(LabelMap(nodes[id].labels), run[c].cmd.patch)

\* A patch of at most two labels gives a node that nobody else changed in
\* between the documented labels, whatever the order in which the patch is
\* ranged over and however the two slices of the loop share their array.
PatchSmall ==
  [][\A c \in Cmds, id \in Ids :
       PatchesAlone(c, id) /\ Cardinality(DOMAIN run[c].cmd.patch) <= 2 => PatchDone(c, id)]_jdVars

\* "Existing labels remain unless overwritten or cleared" (jd.go:349), for
\* every patch.
PatchExact ==
  [][\A c \in Cmds, id \in Ids : PatchesAlone(c, id) => PatchDone(c, id)]_jdVars

\* A node leaves the domain's environment only by a command that says so: a
\* registration, an update or a patch of up to two labels that names one of
\* those labels, an update of the labels without any, which may clear them
\* all, or a batch-update, whose configuration replaces all labels (a longer
\* patch may change labels it does not name); or by one that works on nodes
\* that have changed since it listed them.  (A node that has left is not
\* proposed to, and save-all drops it.)
LeavesScope ==
  [][left' # left =>
       \E c \in Cmds :
         LET p == run[c]
             named(labels) == \E key \in {"product", "environment"} : HasKey(labels, key)
         IN  /\ run'[c] # p
             /\ \/ p.pc = "batchupdate"
                \/ p.pc = "register" /\ named(Head(p.todo).extra)
                \/ /\ p.pc = "update" /\ "label" \in p.cmd.types
                   /\ named(p.cmd.labels) \/ p.cmd.labels = <<>>
                \/ p.pc = "patch" /\ {"product", "environment"} \cap DOMAIN p.cmd.patch # {}
                \/ p.pc = "patch" /\ Cardinality(DOMAIN p.cmd.patch) > 2
                \/ p.pc \in {"patch", "update"} /\ p.listed # nodes]_jdVars

\* A command with the dry-run client, or with --dry-run, changes nothing: not
\* the server, not nodes.json.
DryRunWritesNothing ==
  [][\A c \in Cmds :
       (run'[c] # run[c] /\ run[c].pc # "idle" /\ (run[c].cmd.dry \/ run[c].cmd.dryClient))
       => UNCHANGED server /\ (run[c].cmd.dry => UNCHANGED file)]_jdVars

\* Proposals are a record: none disappears, none changes its revision, spec or
\* job, and only the status of a job's latest revision ever changes.
ProposalsKept ==
  [][/\ \A i \in DOMAIN props :
          /\ i \in DOMAIN props'
          /\ [props'[i] EXCEPT !.status = props[i].status] = props[i]
     /\ \A i \in DOMAIN props :
          props'[i].status # props[i].status =>
            \A k \in proposalsByJob(props, props[i].job) : props[k].rev <= props[i].rev]_jdVars

(* What a step of a command never does, whatever others do meanwhile:      *)
(* change labels a small patch does not name, take a node out of its       *)
(* domain and environment unasked, write in a dry run, or change a         *)
(* proposal that is not the latest of its job.                             *)
CommandSteps ==
  /\ PatchSmall
  /\ LeavesScope
  /\ DryRunWritesNothing
  /\ ProposalsKept
=============================================================================

--------------------------- MODULE MCJobDistributor ---------------------------
(* Two nodes, one with an extra label, and the command lines two commands    *)
(* may be given.                                                             *)
EXTENDS JobDistributor, TLC

Sym == Permutations(Cmds)

Cfg(name, extra) == [name |-> name, key |-> name, extra |-> extra, type |-> "plugin"]

MCInitialNodes == <<Cfg("n1", <<Label("region", "eu")>>), Cfg("n2", <<>>)>>

MCUuid == [s \in {"v1", "v2", "bad"} |-> IF s = "bad" THEN "none" ELSE "u"]

Base == [dry |-> FALSE, dryClient |-> FALSE]
\* the last patch adds a label, clears two and sets one that follows them
Patches ==
  {("region" :> "us"), ("region" :> "" @@ "don" :> "a"),
   ("type" :> "" @@ "region" :> "us"), ("product" :> ""),
   ("don" :> "a" @@ "region" :> "" @@ "environment" :> "" @@ "type" :> "boot")}

PatchNode(pt) == [kind |-> "patch", ids |-> {1}, peers |-> {}, patch |-> pt]
PatchCommands ==
  {PatchNode(pt) @@ Base : pt \in Patches}
    \union {PatchNode("don" :> "a") @@ b :
              b \in {[Base EXCEPT !.dry = TRUE], [Base EXCEPT !.dryClient = TRUE]}}
OtherCommands ==
  {[kind |-> "patch", ids |-> {1, 2}, peers |-> {}, patch |-> ("don" :> "b")] @@ Base,
   [kind |-> "patch", ids |-> {}, peers |-> {"p"}, patch |-> ("don" :> "b")] @@ Base,
   [kind |-> "register", nodes |-> <<Cfg("n3", <<Label("environment", "test")>>)>>] @@ Base,
   [kind |-> "register", nodes |-> <<>>] @@ Base,
   [kind |-> "batchpropose", jobs |-> <<>>] @@ Base,
   [kind |-> "register", nodes |-> <<Cfg("n3", <<>>)>>] @@ [Base EXCEPT !.dryClient = TRUE],
   [kind |-> "register", nodes |-> <<Cfg("n3", <<>>), Cfg("n4", <<Label("p2p_id", "p")>>)>>] @@ Base,
   [kind |-> "update", id |-> 1, types |-> {"label"}, name |-> "", key |-> "",
    labels |-> <<Label("region", "us")>>, args |-> "ok"] @@ Base,
   [kind |-> "update", id |-> 3, types |-> {"name", "csa_key"}, name |-> "m", key |-> "m",
    labels |-> <<>>, args |-> "ok"] @@ Base,
   [kind |-> "update", id |-> 1, types |-> {"name", "label"}, name |-> "n2", key |-> "",
    labels |-> <<>>, args |-> "ok"] @@ Base,
   [kind |-> "update", id |-> 1, types |-> {"label"}, name |-> "", key |-> "",
    labels |-> <<>>, args |-> "err"] @@ Base,
   [kind |-> "update", id |-> 1, types |-> {"name"}, name |-> "", key |-> "",
    labels |-> <<>>, args |-> "panic"] @@ Base,
   [kind |-> "batchupdate", requests |->
     <<[by |-> "csa_key", label |-> Label("", ""),
        cfg |-> [name |-> "n1", key |-> "n1", labels |-> <<Label("p2p_id", "p")>>]],
       [by |-> "label", label |-> Label("region", "eu"),
        cfg |-> [name |-> "n5", key |-> "n5",
                 labels |-> <<Label("product", "domain"), Label("environment", "env")>>]]>>] @@ Base,
   [kind |-> "batchupdate", requests |->
     <<[by |-> "name", label |-> Label("", ""),
        cfg |-> [name |-> "n2", key |-> "n6", labels |-> <<Label("p2p_id", "p")>>]]>>] @@ Base,
   [kind |-> "propose", spec |-> "v1", sels |-> {}] @@ Base,
   [kind |-> "propose", spec |-> "v2",
    sels |-> {[key |-> "region", op |-> "EQ", vals |-> {"eu"}]}] @@ Base,
   [kind |-> "propose", spec |-> "v1", sels |-> {}] @@ [Base EXCEPT !.dryClient = TRUE],
   [kind |-> "batchpropose", jobs |-> <<[node |-> 1, spec |-> "bad"], [node |-> 1, spec |-> "v1"],
                                        [node |-> 2, spec |-> "v2"]>>] @@ Base,
   [kind |-> "saveall"] @@ Base,
   [kind |-> "saveall"] @@ [Base EXCEPT !.dry = TRUE]}

MCCommands == PatchCommands \union OtherCommands
===============================================================================

----------------------------- MODULE MCCommands -----------------------------
(***************************************************************************)
(* Four parts of the command line that share nothing, so that a behaviour  *)
(* is one of them and the variables of the others never change: the        *)
(* address book commands, contract verify-env, the analysis of a proposal, *)
(* and its execution on a fork.                                            *)
(***************************************************************************)
EXTENDS AddressBookFiles, Verification, ProposalAnalysis, ExecuteFork

VARIABLE active  \* which part

MCFamily == [evm |-> "evm", sol |-> "other"]

\* A1 is the standard form of a1; B has no other form and is not hexadecimal.
MCEIP55 == [A1 |-> "A1", a1 |-> "A1", B |-> None]
MCLower == [A1 |-> "a1", a1 |-> "a1", B |-> "b"]

\* t1x is t1 with a label.
MCUnlabelled == [t1 |-> "t1", t1x |-> "t1", t2 |-> "t2"]

With(S, tv) == [p \in Places |-> IF p \in S THEN tv ELSE None]

MCOutputs == {With({<<"evm", "A1">>, <<"sol", "B">>}, "t1"), With({<<"evm", "a1">>}, "t2")}
MCInitBooks == {With({<<"sol", "A1">>}, "t1"), With({<<"sol", "B">>}, "t2")}
MCInitRefs ==
  {{},
   {[chain |-> "evm", address |-> "a1", tv |-> "t1x", qualifier |-> None],
    [chain |-> "sol", address |-> "B", tv |-> "t1", qualifier |-> None]}}

\* Every type of explorer, with what it needs and without; and two contracts,
\* of which one may not be looked at.
Types == {"etherscan", "snowtrace", "wemixscan", "zircuit", "blockscout", "sourcify", "btrscan",
          "coredao", "l2scan", "routescan", "oklink", "socialscan", "none"}
Complete == {"url", "slug", "key", "nettype"}
Settings == {Complete, Complete \ {"key"}, {"key"}}
Contract(r, t, h) == [ref |-> r, ex |-> [type |-> t, has |-> h]]
MCContracts ==
  {<<Contract("ok", t, h)>> : t \in Types, h \in Settings}
  \cup {<<Contract(r, t, Complete), Contract("ok", "sourcify", {"url"})>> :
          r \in {"ok", "noversion"}, t \in {"etherscan", "l2scan"}}

MCNodesOf == [proposal |-> <<"p">>, batch |-> <<"b1", "b2">>, call |-> <<"c1">>, parameter |-> <<"in", "out">>]
MCParent == [p |-> "p", b1 |-> "p", b2 |-> "p", c1 |-> "b1", in |-> "c1", out |-> "c1"]

Config(kx, ky, kz, dx, dy, dz) ==
  [kinds |-> [x |-> kx, y |-> ky, z |-> kz], deps |-> [x |-> dx, y |-> dy, z |-> dz]]

\* A chain, a join, a fork, a shortcut and a cycle.
MCConfigs ==
  {Config("proposal", "batch", "call", {}, {"x"}, {"y"}),
   Config("call", "parameter", "parameter", {}, {}, {"x", "y"}),
   Config("proposal", "batch", "batch", {}, {"x"}, {"x"}),
   Config("proposal", "batch", "batch", {}, {"x"}, {"x", "y"}),
   Config("proposal", "proposal", "call", {}, {"z"}, {"y"})}

Fork(c, o, a, flags) ==
  [chain |-> c, ops |-> o, action |-> a, test |-> "test" \in flags, salt |-> "salt" \in flags,
   override |-> "override" \in flags, valid |-> "valid" \in flags, hooks |-> "hooks" \in flags]

\* Two operations on the chain and one on another, with every combination of
\* flags; and the chains that are left alone.
MCForks ==
  {Fork("evm", <<TRUE, FALSE, TRUE>>, a, f) : a \in {"schedule", "bypass", "cancel"},
     f \in SUBSET {"test", "salt", "override", "valid", "hooks"}}
  \cup {Fork(c, <<TRUE>>, "schedule", {"valid"}) : c \in {"zksync", "other"}}

MCInit ==
  /\ active \in {"book", "verify", "analysis", "fork"}
  /\ Init /\ (active = "book" \/ (book = With({<<"sol", "A1">>}, "t1") /\ refs = {}))
  /\ VerInit(IF active = "verify" THEN MCContracts ELSE {<< >>})
  /\ AnInit(IF active = "analysis" THEN MCConfigs
            ELSE {Config("proposal", "batch", "call", {}, {"x"}, {"y"})})
  /\ ForkInit(IF active = "fork" THEN Forks ELSE {Fork("other", <<TRUE>>, "schedule", {"valid"})})
  /\ (active = "fork" \/ (root = "old" /\ count = 0))

MCNext ==
  /\ UNCHANGED active
  /\ \/ active = "book" /\ Next /\ UNCHANGED <<verVars, anVars, forkVars>>
     \/ active = "verify" /\ VerNext /\ UNCHANGED <<vars, anVars, forkVars>>
     \/ active = "analysis" /\ AnNext /\ UNCHANGED <<vars, verVars, forkVars>>
     \/ active = "fork" /\ ForkNext /\ UNCHANGED <<vars, verVars, anVars>>

mcVars == <<active, vars, verVars, anVars, forkVars>>

\* The command and the engine go on; their users, explorers and analyzers need not.
MCSpec ==
  /\ MCInit /\ [][MCNext]_mcVars
  /\ WF_mcVars(MCNext /\ (VerStep \/ AnStep \/ ForkStep))

\* Every command that was started ends: contract verify-env (VerifyEnds), the
\* analysis, which no late analyzer changes (AnalysisReturns), and execute-fork,
\* whose every request is answered or fails.
CommandsEnd ==
  /\ VerifyEnds /\ AnalysisReturns
  /\ [](active = "fork" => <>(fpc = "done"))
=============================================================================

------------------------------ MODULE MCRuntime ------------------------------
(***************************************************************************)
(* The test runtime with its changesets and proposals; the correction of   *)
(* the delays of proposals; and the queue of proposals in pull requests.   *)
(* They share nothing: a behaviour is one of the three.                    *)
(***************************************************************************)
EXTENDS Runtime, TimelockDelay, Predecessors, TLC

VARIABLE active  \* which part

MCFamily == [evm |-> "evm", sol |-> "other"]
MCSigners == <<"s">>
MCEIP55 == [A |-> "A", B |-> "B"]

With(S) == [p \in Places |-> IF p \in S THEN "t" ELSE None]
Op(c, txs) == [chain |-> c, txs |-> txs]

Part(b, d, m, s) == [book |-> b, ds |-> d, mcms |-> m, specs |-> s]
Spec1(merge, action, ops) == [merge |-> merge, action |-> action, ops |-> ops, valid |-> TRUE]
Simple(p) == [composed |-> FALSE, parts |-> <<p>>]
Composed(ps) == [composed |-> TRUE, parts |-> ps]

Refs == {<<"RBACTimelock", "evm">>, <<"CallProxy", "evm">>}

Multi == Proposal("mcms", <<Op("evm", <<3>>), Op("sol", <<4>>)>>, "none", TRUE)

\* The contracts of the timelock.
Deploy == Simple(Part(With({<<"evm", "A">>}), Refs, << >>, << >>))
\* A scheduled proposal of two batches, which are not merged.
Schedule ==
  Simple(Part(None, None, << >>,
    <<Spec1(FALSE, "schedule", <<Op("evm", <<1>>), Op("evm", << >>), Op("evm", <<2>>)>>)>>))
\* A bypassing one of the same batches, merged.
Bypass ==
  Simple(Part(None, None, << >>,
    <<Spec1(TRUE, "bypass", <<Op("evm", <<1>>), Op("evm", << >>), Op("evm", <<2>>)>>)>>))
\* A proposal on two chains.
Propose == Simple(Part(None, None, <<Multi>>, << >>))
\* The same, and one that does not encode.
Unencodable ==
  Simple(Part(None, {<<"other", "evm">>}, <<Multi, [Multi EXCEPT !.encodable = FALSE]>>, << >>))
\* An input without a reader for its chain, and chains in another order than their names.
NoReader ==
  Simple(Part(None, None, << >>,
    <<Spec1(TRUE, "schedule", <<Op("sol", <<1>>), Op("evm", <<2>>), Op("sol", <<3>>)>>)>>))
Two ==
  Composed(<<Part(With({<<"sol", "A">>}), Refs, << >>, << >>),
             Part(With({<<"sol", "B">>}), None, << >>, << >>)>>)
One ==
  Composed(<<Part(With({<<"sol", "A">>, <<"evm", "B">>}), None, << >>, << >>),
             Part(None, None, <<Proposal("mcms", <<Op("evm", <<3>>)>>, "none", TRUE)>>, << >>)>>)

Same ==
  Composed(<<Part(With({<<"sol", "A">>}), None, << >>, << >>),
             Part(With({<<"sol", "A">>}), None, << >>, << >>)>>)

Css(s) == [kind |-> "changesets", css |-> s]
SignAndExecute == [kind |-> "signAndExecute"]

MCCalls ==
  {<<Css(<<Deploy, Schedule>>)>>,
   <<Css(<<Bypass, Unencodable>>)>>,
   <<Css(<<Schedule>>), Css(<<Propose>>), SignAndExecute>>,
   <<Css(<<Two>>)>>,
   <<Css(<<Same>>)>>,
   <<Css(<<One, NoReader>>)>>,
   <<SignAndExecute>>,
   <<[kind |-> "sign", id |-> 1, keys |-> <<"k1", "k2">>], [kind |-> "execute", id |-> 1]>>}

\* No delay, a short one; no, one and two timelocks; the second proposal is
\* reached with what the first one left.
Delayed(sc, d, t) == [schedule |-> sc, delay |-> d, timelocks |-> t]
MCBatches ==
  {<<Delayed(sc, d, t), Delayed(TRUE, e, {"evm", "sol"})>> :
     sc \in BOOLEAN, d \in {0, 1}, e \in {0, 1}, t \in {{}, {"evm"}}}

\* The signer's key is used by SignAndExecuteProposalsTask only.
ASSUME MCAskedOnce == AskedOnce

MCShapes == {"evm" :> 2, "evm" :> 1 @@ "sol" :> 1}

MCInit ==
  /\ active \in {"runtime", "delay", "queue"}
  /\ Init /\ PredInit
  /\ DelayInit(IF active = "delay" THEN Batches ELSE {<< >>})

\* Nothing is left to do.
Over == dout # "none" \/ merged = PRs

MCNext ==
  /\ UNCHANGED active
  /\ \/ active = "runtime" /\ Next /\ UNCHANGED <<delayVars, predVars>>
     \/ active = "delay" /\ DelayNext /\ UNCHANGED <<vars, predVars>>
     \/ active = "queue" /\ PredNext /\ UNCHANGED <<vars, delayVars>>
     \/ Over /\ UNCHANGED <<vars, delayVars, predVars>>

MCSpec == MCInit /\ [][MCNext]_<<active, vars, delayVars, predVars>>
=============================================================================

---------------------------- MODULE ChainProofs ----------------------------
(***************************************************************************)
(* Proofs about ChainProviders, ChainLoading and TxConfirm: for any number *)
(* of ports, calls and retries, every port has one owner and only the      *)
(* containers that Stranded names are left behind (ResourcesSound), and    *)
(* what is handed out is complete (AnswersSound).                          *)
(***************************************************************************)
EXTENDS MCChains, FiniteSetTheorems, WellFoundedInduction, TLAPS

\* Induction over the numbers, for a set of them.
LEMMA NatSet ==
  ASSUME NEW S, 0 \in S, \A n \in Nat : n \in S => n + 1 \in S
  PROVE  Nat \subseteq S
<1> SUFFICES ASSUME Nat \ S # {} PROVE FALSE OBVIOUS
<1> DEFINE T == Nat \ S
<1>1. PICK n \in T : \A m \in T : ~(<<m, n>> \in OpToRel(<, Nat))
  BY NatLessThanWellFounded, WFMin, Zenon
<1>2. n \in Nat /\ n # 0 /\ n \notin S OBVIOUS
<1>3. n - 1 \in Nat /\ n - 1 < n /\ (n - 1) + 1 = n BY <1>2
<1>4. <<n - 1, n>> \in OpToRel(<, Nat) BY <1>2, <1>3, Zenon DEF OpToRel
<1>5. n - 1 \in S BY <1>1, <1>3, <1>4
<1>6. (n - 1) + 1 \in S BY <1>3, <1>5
<1> QED BY <1>2, <1>3, <1>6

-----------------------------------------------------------------------------
(* Loading chains: the plans of the providers.                             *)

CantonKinds == {"cantonRPC", "cantonCTF", "cantonLoad"}
Nodes == {"anvil", "geth"}
PhaseModes == {"error", "fatal", "on"}

\* What the phases of a provider of kind k look like: only the CTF providers
\* start containers, only Anvil and Geth keep them, only the one of Canton is
\* not registered for cleanup, only Canton publishes a chain that is not complete,
\* and the providers that Load uses report every failure as an error.
IsCheck(k, q) == /\ q.op = "check" /\ q.mode \in PhaseModes
                 /\ k \in LoadKinds => q.mode = "error"
IsStart(k, q) == /\ q.op = "start" /\ q.mode \in PhaseModes /\ q.n \in {1, 2}
                 /\ k \notin LoadKinds /\ (q.health <=> k \in Nodes)
                 /\ (q.wild <=> k = "cantonCTF")
IsPart(k, q)  == q = Publish("part") /\ k \in CantonKinds
PhaseOK(k, q) == IsCheck(k, q) \/ IsStart(k, q) \/ IsPart(k, q) \/ q = Publish("full")

\* The chain is published complete at the end and only there, and there is at
\* most one retry loop.
PlanOK(k, p) ==
  /\ Len(p) \in Nat /\ Len(p) > 1
  /\ \A i \in 1..Len(p) : PhaseOK(k, p[i])
  /\ \A i \in 1..Len(p) : p[i] = Publish("full") <=> i = Len(p)
  /\ p[1].op = "check"
  /\ \A i, j \in 1..Len(p) : p[i].op = "start" /\ p[j].op = "start" => i = j
  /\ k = "anvil" => Len(p) = 5 /\ IsCheck(k, p[4]) /\ p[4].node

\* Check and Node make phases that check something.
LEMMA ChecksAre ==
  ASSUME NEW k, NEW m \in PhaseModes, NEW w, k \in LoadKinds => m = "error"
  PROVE  IsCheck(k, Check(m, w)) /\ IsCheck(k, Node(m, w)) /\ Node(m, w).node
BY DEF IsCheck, Check, Node

\* Start makes a phase that starts containers.
LEMMA StartsAre ==
  ASSUME NEW k, NEW m \in PhaseModes, NEW n \in {1, 2}, NEW f, k \notin LoadKinds,
         "health" \in f <=> k \in Nodes, "wild" \in f <=> k = "cantonCTF"
  PROVE  IsStart(k, Start(m, n, f))
<1> DEFINE q == Start(m, n, f)
<1>1. q.op = "start" /\ q.mode = m /\ q.n = n BY DEF Start
<1>2. q.health = ("health" \in f) BY Zenon DEF Start
<1>3. q.wild = ("wild" \in f) BY Zenon DEF Start
<1> HIDE DEF q
<1>5. (q.health <=> k \in Nodes) /\ (q.wild <=> k = "cantonCTF") BY <1>2, <1>3, Zenon
<1> QED BY <1>1, <1>5 DEF IsStart, q

\* The kinds of phases exclude one another.
LEMMA OpsAre ==
  ASSUME NEW k, NEW q
  PROVE  /\ IsCheck(k, q) => q.op = "check" /\ q # Publish("full")
         /\ IsStart(k, q) => q.op = "start" /\ q # Publish("full")
         /\ IsPart(k, q) => q.op = "publish" /\ q.chain = "part" /\ q # Publish("full")
         /\ q = Publish("full") => q.op = "publish" /\ q.chain = "full"
BY DEF IsCheck, IsStart, IsPart, Publish

\* The plans that occur, by the kinds of their phases.
LEMMA TwoPhases ==
  ASSUME NEW k, k # "anvil", NEW p, Len(p) = 2, IsCheck(k, p[1]), p[2] = Publish("full")
  PROVE  PlanOK(k, p)
<1>1. \A i \in 1..2 : i = 1 \/ i = 2 OBVIOUS
<1> QED BY <1>1, OpsAre DEF PlanOK, PhaseOK

\* Two checks, then the chain.
LEMMA ThreePhases ==
  ASSUME NEW k, k # "anvil", NEW p, Len(p) = 3, IsCheck(k, p[1]), IsCheck(k, p[2]),
         p[3] = Publish("full")
  PROVE  PlanOK(k, p)
<1>1. \A i \in 1..3 : i = 1 \/ i = 2 \/ i = 3 OBVIOUS
<1> QED BY <1>1, OpsAre DEF PlanOK, PhaseOK

\* Two checks, the containers, a check of the node, then the chain.
LEMMA FivePhases ==
  ASSUME NEW k, NEW p, Len(p) = 5, IsCheck(k, p[1]), IsCheck(k, p[2]), IsStart(k, p[3]),
         IsCheck(k, p[4]), p[4].node, p[5] = Publish("full")
  PROVE  PlanOK(k, p)
<1>1. \A i \in 1..5 : i = 1 \/ i = 2 \/ i = 3 \/ i = 4 \/ i = 5 OBVIOUS
<1> QED BY <1>1, OpsAre DEF PlanOK, PhaseOK

\* Two checks, the containers, two checks, then the chain.
LEMMA SixPhases ==
  ASSUME NEW k, k # "anvil", NEW p, Len(p) = 6, IsCheck(k, p[1]), IsCheck(k, p[2]), IsStart(k, p[3]),
         IsCheck(k, p[4]), IsCheck(k, p[5]), p[6] = Publish("full")
  PROVE  PlanOK(k, p)
<1>1. \A i \in 1..6 : i = 1 \/ i = 2 \/ i = 3 \/ i = 4 \/ i = 5 \/ i = 6 OBVIOUS
<1> QED BY <1>1, OpsAre DEF PlanOK, PhaseOK

\* The plans of Canton.
LEMMA CantonPhases ==
  ASSUME NEW k \in CantonKinds, NEW p, IsCheck(k, p[1]),
         \/ Len(p) = 4 /\ IsPart(k, p[2]) /\ IsCheck(k, p[3])
         \/ Len(p) = 5 /\ IsCheck(k, p[2]) /\ IsPart(k, p[3]) /\ IsCheck(k, p[4])
         \/ Len(p) = 6 /\ IsStart(k, p[2]) /\ IsCheck(k, p[3]) /\ IsPart(k, p[4]) /\ IsCheck(k, p[5]),
         p[Len(p)] = Publish("full")
  PROVE  PlanOK(k, p)
<1>1. /\ \A i \in 1..4 : i = 1 \/ i = 2 \/ i = 3 \/ i = 4
      /\ \A i \in 1..5 : i = 1 \/ i = 2 \/ i = 3 \/ i = 4 \/ i = 5
      /\ \A i \in 1..6 : i = 1 \/ i = 2 \/ i = 3 \/ i = 4 \/ i = 5 \/ i = 6 OBVIOUS
<1>2. k # "anvil" BY DEF CantonKinds
<1>3. CASE Len(p) = 4 BY <1>1, <1>2, <1>3, OpsAre DEF PlanOK, PhaseOK
<1>4. CASE Len(p) = 5 BY <1>1, <1>2, <1>4, OpsAre DEF PlanOK, PhaseOK
<1>5. CASE Len(p) = 6 BY <1>1, <1>2, <1>5, OpsAre DEF PlanOK, PhaseOK
<1> QED BY <1>3, <1>4, <1>5

\* Plans put together from parts.
LEMMA Tuples ==
  /\ \A T : \A a, b \in T : <<a>> \in Seq(T) /\ Len(<<a>>) = 1 /\ <<a>>[1] = a
  /\ \A T : \A a, b \in T : /\ <<a, b>> \in Seq(T) /\ Len(<<a, b>>) = 2
                            /\ <<a, b>>[1] = a /\ <<a, b>>[2] = b
  /\ \A T : \A a, b, c \in T : /\ <<a, b, c>> \in Seq(T) /\ Len(<<a, b, c>>) = 3
                               /\ <<a, b, c>>[1] = a /\ <<a, b, c>>[2] = b /\ <<a, b, c>>[3] = c
  /\ \A T : \A a, b, c, d \in T : /\ <<a, b, c, d>> \in Seq(T) /\ Len(<<a, b, c, d>>) = 4
                                  /\ <<a, b, c, d>>[1] = a /\ <<a, b, c, d>>[2] = b
                                  /\ <<a, b, c, d>>[3] = c /\ <<a, b, c, d>>[4] = d
OBVIOUS

\* The length of a plan made of two parts.
LEMMA JoinedLength ==
  \A T : \A x, y \in Seq(T) : x \o y \in Seq(T) /\ Len(x \o y) = Len(x) + Len(y)
OBVIOUS

\* Its first phases are those of the first part.
LEMMA JoinedFirst ==
  \A T : \A x, y \in Seq(T) : \A i \in 1..Len(x) : (x \o y)[i] = x[i]
OBVIOUS

\* Its other phases are those of the second part.
LEMMA JoinedSecond ==
  \A T : \A x, y \in Seq(T) : \A i \in 1..Len(y) : (x \o y)[Len(x) + i] = y[i]
OBVIOUS

\* What the phases of a plan made of two parts are.
Joins(x, y, n, m) ==
  /\ Len(x \o y) = n + m
  /\ \A i \in 1..n : (x \o y)[i] = x[i]
  /\ \A i \in 1..m : (x \o y)[n + i] = y[i]

\* Both, when the numbers of phases are known.
LEMMA Joined ==
  \A T : \A x, y \in Seq(T) : \A n, m \in Nat :
    Len(x) = n /\ Len(y) = m => x \o y \in Seq(T) /\ Joins(x, y, n, m)
<1> TAKE T
<1> TAKE x, y \in Seq(T)
<1> DEFINE p == x \o y
<1>1. /\ p \in Seq(T) /\ Len(p) = Len(x) + Len(y)
      /\ \A i \in 1..Len(x) : p[i] = x[i]
      /\ \A i \in 1..Len(y) : p[Len(x) + i] = y[i]
  <2>1. \A i \in 1..Len(y) : (x \o y)[Len(x) + i] = y[i] BY JoinedSecond, Zenon
  <2>2. \A i \in 1..Len(x) : (x \o y)[i] = x[i] BY JoinedFirst, Zenon
  <2>3. x \o y \in Seq(T) /\ Len(x \o y) = Len(x) + Len(y) BY JoinedLength, Zenon
  <2> QED BY <2>1, <2>2, <2>3, Zenon
<1> HIDE DEF p
<1> TAKE n, m \in Nat
<1> HAVE Len(x) = n /\ Len(y) = m
<1> QED BY <1>1 DEF p, Joins

\* Plans of two or three parts, by the numbers of phases of the parts.
LEMMA OneAndTwo ==
  \A a, b, c : LET p == <<a>> \o <<b, c>> IN
    Len(p) = 3 /\ p[1] = a /\ p[2] = b /\ p[3] = c
<1> TAKE a, b, c
<1> DEFINE T == {a, b, c}
<1>1. <<a>> \in Seq(T) /\ Len(<<a>>) = 1 BY Tuples
<1>2. <<b, c>> \in Seq(T) /\ Len(<<b, c>>) = 2 BY Tuples
<1> DEFINE q == <<a>> \o <<b, c>>
<1>3. q \in Seq(T) /\ Joins(<<a>>, <<b, c>>, 1, 2)
  <2>1. \A n, m \in Nat : Len(<<a>>) = n /\ Len(<<b, c>>) = m =>
          q \in Seq(T) /\ Joins(<<a>>, <<b, c>>, n, m)
    <3>1. <<a>> \in Seq(T) /\ <<b, c>> \in Seq(T) BY Tuples
    <3> QED BY <3>1, Joined, Zenon
  <2> QED BY <2>1, Tuples
<1>4. Len(q) = 3 /\ q[1] = a /\ q[2] = b /\ q[3] = c
  BY <1>3, Tuples DEF Joins
<1> QED BY <1>4

\* A plan of one phase and four.
LEMMA OneAndFour ==
  \A a, b, c, d, e : LET p == <<a>> \o <<b, c, d, e>> IN
    Len(p) = 5 /\ p[1] = a /\ p[2] = b /\ p[3] = c /\ p[4] = d /\ p[5] = e
<1> TAKE a, b, c, d, e
<1> DEFINE T == {a, b, c, d, e}
<1>1. <<a>> \in Seq(T) /\ Len(<<a>>) = 1 BY Tuples
<1>2. <<b, c, d, e>> \in Seq(T) /\ Len(<<b, c, d, e>>) = 4 BY Tuples
<1> DEFINE q == <<a>> \o <<b, c, d, e>>
<1>3. q \in Seq(T) /\ Joins(<<a>>, <<b, c, d, e>>, 1, 4)
  <2>1. \A n, m \in Nat : Len(<<a>>) = n /\ Len(<<b, c, d, e>>) = m =>
          q \in Seq(T) /\ Joins(<<a>>, <<b, c, d, e>>, n, m)
    <3>1. <<a>> \in Seq(T) /\ <<b, c, d, e>> \in Seq(T) BY Tuples
    <3> QED BY <3>1, Joined, Zenon
  <2> QED BY <2>1, Tuples
<1>4. Len(q) = 5 /\ q[1] = a /\ q[2] = b /\ q[3] = c /\ q[4] = d /\ q[5] = e
  BY <1>3, Tuples DEF Joins
<1> QED BY <1>4

\* A plan of one phase, three and one.
LEMMA OneThreeOne ==
  \A a, b, c, d, e : LET p == <<a>> \o <<b, c, d>> \o <<e>> IN
    Len(p) = 5 /\ p[1] = a /\ p[2] = b /\ p[3] = c /\ p[4] = d /\ p[5] = e
<1> TAKE a, b, c, d, e
<1> DEFINE T == {a, b, c, d, e}
<1>1. <<a>> \in Seq(T) /\ Len(<<a>>) = 1 BY Tuples
<1>2. <<b, c, d>> \in Seq(T) /\ Len(<<b, c, d>>) = 3 BY Tuples
<1>3. <<e>> \in Seq(T) /\ Len(<<e>>) = 1 BY Tuples
<1> DEFINE q == <<a>> \o <<b, c, d>>
<1>4. q \in Seq(T) /\ Joins(<<a>>, <<b, c, d>>, 1, 3)
  <2>1. \A n, m \in Nat : Len(<<a>>) = n /\ Len(<<b, c, d>>) = m =>
          q \in Seq(T) /\ Joins(<<a>>, <<b, c, d>>, n, m)
    <3>1. <<a>> \in Seq(T) /\ <<b, c, d>> \in Seq(T) BY Tuples
    <3> QED BY <3>1, Joined, Zenon
  <2> QED BY <2>1, Tuples
<1>5. Len(q) = 4 /\ q[1] = a /\ q[2] = b /\ q[3] = c /\ q[4] = d
  BY <1>4, Tuples DEF Joins
<1> HIDE DEF q
<1>6. Joins(q, <<e>>, 4, 1) BY <1>3, <1>4, <1>5, Joined
<1> DEFINE p == q \o <<e>>
<1>7. Len(p) = 5 /\ p[1] = a /\ p[2] = b /\ p[3] = c /\ p[4] = d /\ p[5] = e
  BY <1>5, <1>6, Tuples DEF Joins
<1> QED BY <1>7 DEF q

\* A plan of one phase, three and two.
LEMMA OneThreeTwo ==
  \A a, b, c, d, e, f : LET p == <<a>> \o <<b, c, d>> \o <<e, f>> IN
    Len(p) = 6 /\ p[1] = a /\ p[2] = b /\ p[3] = c /\ p[4] = d /\ p[5] = e /\ p[6] = f
<1> TAKE a, b, c, d, e, f
<1> DEFINE T == {a, b, c, d, e, f}
<1>1. <<a>> \in Seq(T) /\ Len(<<a>>) = 1 BY Tuples
<1>2. <<b, c, d>> \in Seq(T) /\ Len(<<b, c, d>>) = 3 BY Tuples
<1>3. <<e, f>> \in Seq(T) /\ Len(<<e, f>>) = 2 BY Tuples
<1> DEFINE q == <<a>> \o <<b, c, d>>
<1>4. q \in Seq(T) /\ Joins(<<a>>, <<b, c, d>>, 1, 3)
  <2>1. \A n, m \in Nat : Len(<<a>>) = n /\ Len(<<b, c, d>>) = m =>
          q \in Seq(T) /\ Joins(<<a>>, <<b, c, d>>, n, m)
    <3>1. <<a>> \in Seq(T) /\ <<b, c, d>> \in Seq(T) BY Tuples
    <3> QED BY <3>1, Joined, Zenon
  <2> QED BY <2>1, Tuples
<1>5. Len(q) = 4 /\ q[1] = a /\ q[2] = b /\ q[3] = c /\ q[4] = d
  BY <1>4, Tuples DEF Joins
<1> HIDE DEF q
<1>6. Joins(q, <<e, f>>, 4, 2) BY <1>3, <1>4, <1>5, Joined
<1> DEFINE p == q \o <<e, f>>
<1>7. Len(p) = 6 /\ p[1] = a /\ p[2] = b /\ p[3] = c /\ p[4] = d /\ p[5] = e /\ p[6] = f
  BY <1>5, <1>6, Tuples DEF Joins
<1> QED BY <1>7 DEF q

\* A plan of one phase, two and two.
LEMMA OneTwoTwo ==
  \A a, b, c, d, e : LET p == <<a>> \o <<b, c>> \o <<d, e>> IN
    Len(p) = 5 /\ p[1] = a /\ p[2] = b /\ p[3] = c /\ p[4] = d /\ p[5] = e
<1> TAKE a, b, c, d, e
<1> DEFINE T == {a, b, c, d, e}
<1>1. <<a>> \in Seq(T) /\ Len(<<a>>) = 1 BY Tuples
<1>2. <<b, c>> \in Seq(T) /\ Len(<<b, c>>) = 2 BY Tuples
<1>3. <<d, e>> \in Seq(T) /\ Len(<<d, e>>) = 2 BY Tuples
<1> DEFINE q == <<a>> \o <<b, c>>
<1>4. q \in Seq(T) /\ Joins(<<a>>, <<b, c>>, 1, 2)
  <2>1. \A n, m \in Nat : Len(<<a>>) = n /\ Len(<<b, c>>) = m =>
          q \in Seq(T) /\ Joins(<<a>>, <<b, c>>, n, m)
    <3>1. <<a>> \in Seq(T) /\ <<b, c>> \in Seq(T) BY Tuples
    <3> QED BY <3>1, Joined, Zenon
  <2> QED BY <2>1, Tuples
<1>5. Len(q) = 3 /\ q[1] = a /\ q[2] = b /\ q[3] = c
  BY <1>4, Tuples DEF Joins
<1> HIDE DEF q
<1>6. Joins(q, <<d, e>>, 3, 2) BY <1>3, <1>4, <1>5, Joined
<1> DEFINE p == q \o <<d, e>>
<1>7. Len(p) = 5 /\ p[1] = a /\ p[2] = b /\ p[3] = c /\ p[4] = d /\ p[5] = e
  BY <1>5, <1>6, Tuples DEF Joins
<1> QED BY <1>7 DEF q

\* Every provider runs such a plan.
LEMMA ShortPlans ==
  /\ PlanOK("aptosRPC", AptosRPC)
  /\ PlanOK("suiRPC", SuiRPC)
  /\ PlanOK("tonRPC", TonRPC)
  /\ PlanOK("tronRPC", TronRPC)
  /\ PlanOK("stellarRPC", StellarRPC)
  /\ PlanOK("solanaRPC", SolanaRPC)
  /\ PlanOK("evmRPC", EvmRPC)
  /\ PlanOK("zksyncRPC", ZkSyncRPC)
  /\ PlanOK("evmSim", EvmSim)
<1>1. PlanOK("aptosRPC", AptosRPC)
  <2>1. Len(AptosRPC) = 2 /\ IsCheck("aptosRPC", AptosRPC[1]) /\ AptosRPC[2] = Publish("full")
    BY ChecksAre DEF AptosRPC, LoadKinds, PhaseModes
  <2> QED BY <2>1, TwoPhases
<1>2. PlanOK("suiRPC", SuiRPC)
  <2>1. Len(SuiRPC) = 2 /\ IsCheck("suiRPC", SuiRPC[1]) /\ SuiRPC[2] = Publish("full")
    BY ChecksAre DEF SuiRPC, LoadKinds, PhaseModes
  <2> QED BY <2>1, TwoPhases
<1>3. PlanOK("tonRPC", TonRPC)
  <2>1. Len(TonRPC) = 2 /\ IsCheck("tonRPC", TonRPC[1]) /\ TonRPC[2] = Publish("full")
    BY ChecksAre DEF TonRPC, LoadKinds, PhaseModes
  <2> QED BY <2>1, TwoPhases
<1>4. PlanOK("tronRPC", TronRPC)
  <2>1. Len(TronRPC) = 2 /\ IsCheck("tronRPC", TronRPC[1]) /\ TronRPC[2] = Publish("full")
    BY ChecksAre DEF TronRPC, LoadKinds, PhaseModes
  <2> QED BY <2>1, TwoPhases
<1>5. PlanOK("stellarRPC", StellarRPC)
  <2>1. Len(StellarRPC) = 2 /\ IsCheck("stellarRPC", StellarRPC[1]) /\ StellarRPC[2] = Publish("full")
    BY ChecksAre DEF StellarRPC, LoadKinds, PhaseModes
  <2> QED BY <2>1, TwoPhases
<1>6. PlanOK("solanaRPC", SolanaRPC)
  <2>1. Len(SolanaRPC) = 2 /\ IsCheck("solanaRPC", SolanaRPC[1]) /\ SolanaRPC[2] = Publish("full")
    BY ChecksAre DEF SolanaRPC, LoadKinds, PhaseModes
  <2> QED BY <2>1, TwoPhases
<1>7. PlanOK("evmRPC", EvmRPC)
  <2>1. Len(EvmRPC) = 2 /\ IsCheck("evmRPC", EvmRPC[1]) /\ EvmRPC[2] = Publish("full")
    BY ChecksAre DEF EvmRPC, LoadKinds, PhaseModes
  <2> QED BY <2>1, TwoPhases
<1>8. PlanOK("zksyncRPC", ZkSyncRPC)
  <2>1. Len(ZkSyncRPC) = 2 /\ IsCheck("zksyncRPC", ZkSyncRPC[1]) /\ ZkSyncRPC[2] = Publish("full")
    BY ChecksAre DEF ZkSyncRPC, LoadKinds, PhaseModes
  <2> QED BY <2>1, TwoPhases
<1>9. PlanOK("evmSim", EvmSim)
  <2>1. Len(EvmSim) = 2 /\ IsCheck("evmSim", EvmSim[1]) /\ EvmSim[2] = Publish("full")
    BY ChecksAre DEF EvmSim, LoadKinds, PhaseModes
  <2> QED BY <2>1, TwoPhases
<1> QED BY <1>1, <1>2, <1>3, <1>4, <1>5, <1>6, <1>7, <1>8, <1>9

\* The providers that Load uses check their keys first.
LEMMA LoaderPlans ==
  /\ PlanOK("aptosLoad", AptosLoad)
  /\ PlanOK("suiLoad", SuiLoad)
  /\ PlanOK("stellarLoad", StellarLoad)
  /\ PlanOK("solanaLoad", SolanaLoad)
  /\ PlanOK("tonLoad", TonLoad)
  /\ PlanOK("evmLoad", EvmLoad)
  /\ PlanOK("zksyncLoad", ZkSyncLoad)
  /\ PlanOK("tronLoad", TronLoad)
<1>1. PlanOK("aptosLoad", AptosLoad)
  <2>1. PICK w, v : AptosLoad = <<Check("error", w)>> \o <<Check("error", v), Publish("full")>>
    BY DEF AptosLoad, AptosRPC
  <2>2. IsCheck("aptosLoad", Check("error", w)) /\ IsCheck("aptosLoad", Check("error", v))
    BY ChecksAre DEF PhaseModes
  <2>3. Len(AptosLoad) = 3 /\ AptosLoad[1] = Check("error", w) /\ AptosLoad[2] = Check("error", v)
        /\ AptosLoad[3] = Publish("full")
    BY <2>1, OneAndTwo
  <2> QED BY <2>2, <2>3, ThreePhases
<1>2. PlanOK("suiLoad", SuiLoad)
  <2>1. PICK w, v : SuiLoad = <<Check("error", w)>> \o <<Check("error", v), Publish("full")>>
    BY DEF SuiLoad, SuiRPC
  <2>2. IsCheck("suiLoad", Check("error", w)) /\ IsCheck("suiLoad", Check("error", v))
    BY ChecksAre DEF PhaseModes
  <2>3. Len(SuiLoad) = 3 /\ SuiLoad[1] = Check("error", w) /\ SuiLoad[2] = Check("error", v)
        /\ SuiLoad[3] = Publish("full")
    BY <2>1, OneAndTwo
  <2> QED BY <2>2, <2>3, ThreePhases
<1>3. PlanOK("stellarLoad", StellarLoad)
  <2>1. PICK w, v : StellarLoad = <<Check("error", w)>> \o <<Check("error", v), Publish("full")>>
    BY DEF StellarLoad, StellarRPC
  <2>2. IsCheck("stellarLoad", Check("error", w)) /\ IsCheck("stellarLoad", Check("error", v))
    BY ChecksAre DEF PhaseModes
  <2>3. Len(StellarLoad) = 3 /\ StellarLoad[1] = Check("error", w) /\ StellarLoad[2] = Check("error", v)
        /\ StellarLoad[3] = Publish("full")
    BY <2>1, OneAndTwo
  <2> QED BY <2>2, <2>3, ThreePhases
<1>4. PlanOK("solanaLoad", SolanaLoad)
  <2>1. PICK w, v : SolanaLoad = <<Check("error", w)>> \o <<Check("error", v), Publish("full")>>
    BY DEF SolanaLoad, SolanaRPC
  <2>2. IsCheck("solanaLoad", Check("error", w)) /\ IsCheck("solanaLoad", Check("error", v))
    BY ChecksAre DEF PhaseModes
  <2>3. Len(SolanaLoad) = 3 /\ SolanaLoad[1] = Check("error", w) /\ SolanaLoad[2] = Check("error", v)
        /\ SolanaLoad[3] = Publish("full")
    BY <2>1, OneAndTwo
  <2> QED BY <2>2, <2>3, ThreePhases
<1>5. PlanOK("tonLoad", TonLoad)
  <2>1. PICK w, v : TonLoad = <<Check("error", w)>> \o <<Check("error", v), Publish("full")>>
    BY DEF TonLoad, TonRPC
  <2>2. IsCheck("tonLoad", Check("error", w)) /\ IsCheck("tonLoad", Check("error", v))
    BY ChecksAre DEF PhaseModes
  <2>3. Len(TonLoad) = 3 /\ TonLoad[1] = Check("error", w) /\ TonLoad[2] = Check("error", v)
        /\ TonLoad[3] = Publish("full")
    BY <2>1, OneAndTwo
  <2> QED BY <2>2, <2>3, ThreePhases
<1>6. PlanOK("evmLoad", EvmLoad)
  <2>1. PICK w, v : EvmLoad = <<Check("error", w)>> \o <<Check("error", v), Publish("full")>>
    BY DEF EvmLoad, EvmRPC
  <2>2. IsCheck("evmLoad", Check("error", w)) /\ IsCheck("evmLoad", Check("error", v))
    BY ChecksAre DEF PhaseModes
  <2>3. Len(EvmLoad) = 3 /\ EvmLoad[1] = Check("error", w) /\ EvmLoad[2] = Check("error", v)
        /\ EvmLoad[3] = Publish("full")
    BY <2>1, OneAndTwo
  <2> QED BY <2>2, <2>3, ThreePhases
<1>7. PlanOK("zksyncLoad", ZkSyncLoad)
  <2>1. PICK w, v : ZkSyncLoad = <<Check("error", w)>> \o <<Check("error", v), Publish("full")>>
    BY DEF ZkSyncLoad, ZkSyncRPC
  <2>2. IsCheck("zksyncLoad", Check("error", w)) /\ IsCheck("zksyncLoad", Check("error", v))
    BY ChecksAre DEF PhaseModes
  <2>3. Len(ZkSyncLoad) = 3 /\ ZkSyncLoad[1] = Check("error", w) /\ ZkSyncLoad[2] = Check("error", v)
        /\ ZkSyncLoad[3] = Publish("full")
    BY <2>1, OneAndTwo
  <2> QED BY <2>2, <2>3, ThreePhases
<1>8. PlanOK("tronLoad", TronLoad)
  <2>1. PICK w, v : TronLoad = <<Check("error", w)>> \o <<Check("error", v), Publish("full")>>
    BY DEF TronLoad, TronRPC
  <2>2. IsCheck("tronLoad", Check("error", w)) /\ IsCheck("tronLoad", Check("error", v))
    BY ChecksAre DEF PhaseModes
  <2>3. Len(TronLoad) = 3 /\ TronLoad[1] = Check("error", w) /\ TronLoad[2] = Check("error", v)
        /\ TronLoad[3] = Publish("full")
    BY <2>1, OneAndTwo
  <2> QED BY <2>2, <2>3, ThreePhases
<1> QED BY <1>1, <1>2, <1>3, <1>4, <1>5, <1>6, <1>7, <1>8

\* The providers that start containers.
LEMMA StartingPlans ==
  /\ PlanOK("aptosCTF", AptosCTF)
  /\ PlanOK("suiCTF", SuiCTF)
  /\ PlanOK("stellarCTF", StellarCTF)
  /\ PlanOK("solanaCTF", SolanaCTF)
  /\ PlanOK("zksyncCTF", ZkSyncCTF)
  /\ PlanOK("anvil", Anvil)
  /\ PlanOK("geth", Geth)
  /\ PlanOK("tonCTF", TonCTF)
  /\ PlanOK("tronCTF", TronCTF)
<1>1. PlanOK("aptosCTF", AptosCTF)
  <2>1. PICK u, v, w : AptosCTF = <<Check("error", u)>> \o <<Check("fatal", v), Start("on", 2, {}),
                                   Node("fatal", w)>> \o <<Publish("full")>>
    BY DEF AptosCTF, AptosStart
  <2>2. /\ IsCheck("aptosCTF", Check("error", u)) /\ IsCheck("aptosCTF", Check("fatal", v))
        /\ IsCheck("aptosCTF", Node("fatal", w)) /\ Node("fatal", w).node
    BY ChecksAre DEF PhaseModes, LoadKinds
  <2>3. IsStart("aptosCTF", Start("on", 2, {}))
    BY StartsAre DEF PhaseModes, LoadKinds, Nodes
  <2>4. /\ Len(AptosCTF) = 5 /\ AptosCTF[1] = Check("error", u) /\ AptosCTF[2] = Check("fatal", v)
        /\ AptosCTF[3] = Start("on", 2, {}) /\ AptosCTF[4] = Node("fatal", w)
        /\ AptosCTF[5] = Publish("full")
    BY <2>1, OneThreeOne
  <2> QED BY <2>2, <2>3, <2>4, FivePhases
<1>2. PlanOK("suiCTF", SuiCTF)
  <2>1. PICK u, v, w : SuiCTF = <<Check("error", u)>> \o <<Check("fatal", v), Start("fatal", 2, {}),
                                   Node("fatal", w)>> \o <<Publish("full")>>
    BY DEF SuiCTF, SuiStart
  <2>2. /\ IsCheck("suiCTF", Check("error", u)) /\ IsCheck("suiCTF", Check("fatal", v))
        /\ IsCheck("suiCTF", Node("fatal", w)) /\ Node("fatal", w).node
    BY ChecksAre DEF PhaseModes, LoadKinds
  <2>3. IsStart("suiCTF", Start("fatal", 2, {}))
    BY StartsAre DEF PhaseModes, LoadKinds, Nodes
  <2>4. /\ Len(SuiCTF) = 5 /\ SuiCTF[1] = Check("error", u) /\ SuiCTF[2] = Check("fatal", v)
        /\ SuiCTF[3] = Start("fatal", 2, {}) /\ SuiCTF[4] = Node("fatal", w)
        /\ SuiCTF[5] = Publish("full")
    BY <2>1, OneThreeOne
  <2> QED BY <2>2, <2>3, <2>4, FivePhases
<1>3. PlanOK("stellarCTF", StellarCTF)
  <2>1. PICK u, v, w : StellarCTF = <<Check("error", u)>> \o <<Check("error", v), Start("error", 1, {"ctx"}),
                                   Node("error", w)>> \o <<Publish("full")>>
    BY DEF StellarCTF, StellarStart
  <2>2. /\ IsCheck("stellarCTF", Check("error", u)) /\ IsCheck("stellarCTF", Check("error", v))
        /\ IsCheck("stellarCTF", Node("error", w)) /\ Node("error", w).node
    BY ChecksAre DEF PhaseModes, LoadKinds
  <2>3. IsStart("stellarCTF", Start("error", 1, {"ctx"}))
    BY StartsAre DEF PhaseModes, LoadKinds, Nodes
  <2>4. /\ Len(StellarCTF) = 5 /\ StellarCTF[1] = Check("error", u) /\ StellarCTF[2] = Check("error", v)
        /\ StellarCTF[3] = Start("error", 1, {"ctx"}) /\ StellarCTF[4] = Node("error", w)
        /\ StellarCTF[5] = Publish("full")
    BY <2>1, OneThreeOne
  <2> QED BY <2>2, <2>3, <2>4, FivePhases
<1>4. PlanOK("solanaCTF", SolanaCTF)
  <2>1. PICK u, v, w : SolanaCTF = <<Check("error", u)>> \o <<Check("fatal", v), Start("fatal", 2, {}),
                                   Node("fatal", w)>> \o <<Publish("full")>>
    BY DEF SolanaCTF, SolanaStart
  <2>2. /\ IsCheck("solanaCTF", Check("error", u)) /\ IsCheck("solanaCTF", Check("fatal", v))
        /\ IsCheck("solanaCTF", Node("fatal", w)) /\ Node("fatal", w).node
    BY ChecksAre DEF PhaseModes, LoadKinds
  <2>3. IsStart("solanaCTF", Start("fatal", 2, {}))
    BY StartsAre DEF PhaseModes, LoadKinds, Nodes
  <2>4. /\ Len(SolanaCTF) = 5 /\ SolanaCTF[1] = Check("error", u) /\ SolanaCTF[2] = Check("fatal", v)
        /\ SolanaCTF[3] = Start("fatal", 2, {}) /\ SolanaCTF[4] = Node("fatal", w)
        /\ SolanaCTF[5] = Publish("full")
    BY <2>1, OneThreeOne
  <2> QED BY <2>2, <2>3, <2>4, FivePhases
<1>5. PlanOK("zksyncCTF", ZkSyncCTF)
  <2>1. PICK u, v, w : ZkSyncCTF = <<Check("fatal", u)>> \o <<Check("fatal", v), Start("fatal", 1, {})>>
                         \o <<Node("fatal", w), Publish("full")>>
    BY DEF ZkSyncCTF, ZkSyncStart
  <2>2. /\ IsCheck("zksyncCTF", Check("fatal", u)) /\ IsCheck("zksyncCTF", Check("fatal", v))
        /\ IsCheck("zksyncCTF", Node("fatal", w)) /\ Node("fatal", w).node
    BY ChecksAre DEF PhaseModes, LoadKinds
  <2>3. IsStart("zksyncCTF", Start("fatal", 1, {}))
    BY StartsAre DEF PhaseModes, LoadKinds, Nodes
  <2>4. /\ Len(ZkSyncCTF) = 5 /\ ZkSyncCTF[1] = Check("fatal", u) /\ ZkSyncCTF[2] = Check("fatal", v)
        /\ ZkSyncCTF[3] = Start("fatal", 1, {}) /\ ZkSyncCTF[4] = Node("fatal", w)
        /\ ZkSyncCTF[5] = Publish("full")
    BY <2>1, OneTwoTwo
  <2> QED BY <2>2, <2>3, <2>4, FivePhases
<1>6. PlanOK("anvil", Anvil)
  <2>1. PICK u, v, w : Anvil = <<Check("error", u)>> \o <<Check("error", v), Start("error", 1, {"health", "ctx"})>>
                         \o <<Node("error", w), Publish("full")>>
    BY DEF Anvil, AnvilStart
  <2>2. /\ IsCheck("anvil", Check("error", u)) /\ IsCheck("anvil", Check("error", v))
        /\ IsCheck("anvil", Node("error", w)) /\ Node("error", w).node
    BY ChecksAre DEF PhaseModes, LoadKinds
  <2>3. IsStart("anvil", Start("error", 1, {"health", "ctx"}))
    BY StartsAre DEF PhaseModes, LoadKinds, Nodes
  <2>4. /\ Len(Anvil) = 5 /\ Anvil[1] = Check("error", u) /\ Anvil[2] = Check("error", v)
        /\ Anvil[3] = Start("error", 1, {"health", "ctx"}) /\ Anvil[4] = Node("error", w)
        /\ Anvil[5] = Publish("full")
    BY <2>1, OneTwoTwo
  <2> QED BY <2>2, <2>3, <2>4, FivePhases
<1>7. PlanOK("geth", Geth)
  <2>1. PICK u, v, w : Geth = <<Check("error", u)>> \o <<Check("error", v), Start("error", 1, {"health", "ctx"})>>
                         \o <<Node("error", w), Publish("full")>>
    BY DEF Geth, GethStart
  <2>2. /\ IsCheck("geth", Check("error", u)) /\ IsCheck("geth", Check("error", v))
        /\ IsCheck("geth", Node("error", w)) /\ Node("error", w).node
    BY ChecksAre DEF PhaseModes, LoadKinds
  <2>3. IsStart("geth", Start("error", 1, {"health", "ctx"}))
    BY StartsAre DEF PhaseModes, LoadKinds, Nodes
  <2>4. /\ Len(Geth) = 5 /\ Geth[1] = Check("error", u) /\ Geth[2] = Check("error", v)
        /\ Geth[3] = Start("error", 1, {"health", "ctx"}) /\ Geth[4] = Node("error", w)
        /\ Geth[5] = Publish("full")
    BY <2>1, OneTwoTwo
  <2> QED BY <2>2, <2>3, <2>4, FivePhases
<1>8. PlanOK("tonCTF", TonCTF)
  <2>1. PICK u, v, w, x : TonCTF = <<Check("error", u)>> \o <<Check("error", v), Start("error", 1, {"ctx"}),
                                   Node("error", w)>> \o <<Check("error", x), Publish("full")>>
    BY DEF TonCTF, TonStart
  <2>2. /\ IsCheck("tonCTF", Check("error", u)) /\ IsCheck("tonCTF", Check("error", v))
        /\ IsCheck("tonCTF", Node("error", w)) /\ Node("error", w).node /\ IsCheck("tonCTF", Check("error", x))
    BY ChecksAre DEF PhaseModes, LoadKinds
  <2>3. IsStart("tonCTF", Start("error", 1, {"ctx"}))
    BY StartsAre DEF PhaseModes, LoadKinds, Nodes
  <2>4. /\ Len(TonCTF) = 6 /\ TonCTF[1] = Check("error", u) /\ TonCTF[2] = Check("error", v)
        /\ TonCTF[3] = Start("error", 1, {"ctx"}) /\ TonCTF[4] = Node("error", w)
        /\ TonCTF[5] = Check("error", x) /\ TonCTF[6] = Publish("full")
    BY <2>1, OneThreeTwo
  <2> QED BY <2>2, <2>3, <2>4, SixPhases
<1>9. PlanOK("tronCTF", TronCTF)
  <2>1. PICK u, v, w, x : TronCTF = <<Check("error", u)>> \o <<Check("fatal", v), Start("fatal", 1, {}),
                                   Node("fatal", w)>> \o <<Check("error", x), Publish("full")>>
    BY DEF TronCTF, TronStart
  <2>2. /\ IsCheck("tronCTF", Check("error", u)) /\ IsCheck("tronCTF", Check("fatal", v))
        /\ IsCheck("tronCTF", Node("fatal", w)) /\ Node("fatal", w).node /\ IsCheck("tronCTF", Check("error", x))
    BY ChecksAre DEF PhaseModes, LoadKinds
  <2>3. IsStart("tronCTF", Start("fatal", 1, {}))
    BY StartsAre DEF PhaseModes, LoadKinds, Nodes
  <2>4. /\ Len(TronCTF) = 6 /\ TronCTF[1] = Check("error", u) /\ TronCTF[2] = Check("fatal", v)
        /\ TronCTF[3] = Start("fatal", 1, {}) /\ TronCTF[4] = Node("fatal", w)
        /\ TronCTF[5] = Check("error", x) /\ TronCTF[6] = Publish("full")
    BY <2>1, OneThreeTwo
  <2> QED BY <2>2, <2>3, <2>4, SixPhases
<1> QED BY <1>1, <1>2, <1>3, <1>4, <1>5, <1>6, <1>7, <1>8, <1>9

\* The providers of Canton publish the chain before it is complete.
LEMMA CantonPlans ==
  PlanOK("cantonRPC", CantonRPC) /\ PlanOK("cantonCTF", CantonCTF) /\ PlanOK("cantonLoad", CantonLoad)
<1>1. PlanOK("cantonRPC", CantonRPC)
  <2>1. /\ Len(CantonRPC) = 4 /\ IsCheck("cantonRPC", CantonRPC[1])
        /\ IsPart("cantonRPC", CantonRPC[2]) /\ IsCheck("cantonRPC", CantonRPC[3])
        /\ CantonRPC[4] = Publish("full")
    BY ChecksAre DEF CantonRPC, LoadKinds, PhaseModes, IsPart, CantonKinds
  <2> QED BY <2>1, CantonPhases DEF CantonKinds
<1>2. PlanOK("cantonCTF", CantonCTF)
  <2>1. /\ Len(CantonCTF) = 6 /\ IsCheck("cantonCTF", CantonCTF[1])
        /\ CantonCTF[2] = Start("error", 1, {"once", "wild"})
        /\ IsCheck("cantonCTF", CantonCTF[3])
        /\ IsPart("cantonCTF", CantonCTF[4]) /\ IsCheck("cantonCTF", CantonCTF[5])
        /\ CantonCTF[6] = Publish("full")
    BY ChecksAre DEF CantonCTF, LoadKinds, PhaseModes, IsPart, CantonKinds
  <2>2. IsStart("cantonCTF", CantonCTF[2])
    BY <2>1, StartsAre DEF PhaseModes, LoadKinds, Nodes
  <2> QED BY <2>1, <2>2, CantonPhases DEF CantonKinds
<1>3. PlanOK("cantonLoad", CantonLoad)
  <2>1. PICK u, v, w : CantonLoad = <<Check("error", u)>> \o <<Check("error", v), Publish("part"),
                                                           Check("error", w), Publish("full")>>
    BY DEF CantonLoad, CantonRPC
  <2>2. /\ IsCheck("cantonLoad", Check("error", u)) /\ IsCheck("cantonLoad", Check("error", v))
        /\ IsCheck("cantonLoad", Check("error", w)) /\ IsPart("cantonLoad", Publish("part"))
    BY ChecksAre DEF PhaseModes, IsPart, CantonKinds
  <2>3. /\ Len(CantonLoad) = 5 /\ CantonLoad[1] = Check("error", u)
        /\ CantonLoad[2] = Check("error", v) /\ CantonLoad[3] = Publish("part")
        /\ CantonLoad[4] = Check("error", w) /\ CantonLoad[5] = Publish("full")
    BY <2>1, OneAndFour
  <2> QED BY <2>2, <2>3, CantonPhases DEF CantonKinds
<1> QED BY <1>1, <1>2, <1>3

\* So does every provider.
LEMMA PlansAre == \A k \in Providers \cup LoadKinds : PlanOK(k, Plan(k))
<1>1. \A k \in {"aptosRPC", "suiRPC", "tonRPC", "tronRPC", "stellarRPC",
                "solanaRPC", "evmRPC", "zksyncRPC", "evmSim"} : PlanOK(k, Plan(k))
  BY ShortPlans DEF Plan
<1>2. \A k \in {"aptosLoad", "suiLoad", "stellarLoad", "solanaLoad", "tonLoad",
                "evmLoad", "zksyncLoad", "tronLoad"} : PlanOK(k, Plan(k))
  BY LoaderPlans DEF Plan
<1>3. \A k \in {"aptosCTF", "suiCTF", "stellarCTF", "solanaCTF", "zksyncCTF",
                "anvil", "geth", "tonCTF", "tronCTF"} : PlanOK(k, Plan(k))
  BY StartingPlans DEF Plan
<1>4. \A k \in {"cantonRPC", "cantonCTF",
                "cantonLoad"} : PlanOK(k, Plan(k))
  BY CantonPlans DEF Plan
<1> QED BY <1>1, <1>2, <1>3, <1>4 DEF Providers, LoadKinds

-----------------------------------------------------------------------------
(* Loading chains: ports and containers.                                   *)

LoadTyped ==
  /\ LoadTypeOK
  /\ kind \in [Slots -> Providers \cup LoadKinds]
  /\ conf \in [Slots -> [port : BOOLEAN, t : {"none", "test", "zero"}]]
  /\ mode = "fork" => \A s \in Slots : conf[s].t = "zero"
  /\ step \in [Slots -> Nat]
  /\ mode \in {"env", "fork", "test", "direct"}
  /\ jdcfg \in {"without", "noendpoint", "broken", "ok"}
  /\ \A s \in Slots : kind[s] \in KindsFor(mode)

\* The containers of a provider are numbered by the attempts that started
\* them: the attempt under way has a number none of them has.
NumberedOK(s) ==
  \A c \in containers : c.slot = s =>
    /\ c.n <= Number(s) /\ (stage[s] = "begun" => c.n < Number(s))
    /\ c.cleanup <=> conf[s].t = "test" /\ kind[s] # "cantonCTF"

\* A provider is inside Initialize only without a complete chain and before the
\* answer; it holds ports during an attempt only, and an attempt that is about
\* to begin is one that the retry loop still allows.
StageOK(s) ==
  /\ step[s] > 0 => calls[s] >= 1 /\ answer[s] = "none" /\ chain[s] # "full"
  /\ stage[s] # "begun" \/ Configured(s) => taken[s] = {}
  /\ stage[s] # "idle" => At(s, "start") /\ tries[s] >= 1
  /\ At(s, "start") /\ stage[s] = "idle" => tries[s] < MaxAttempts
  /\ step[s] > 0 /\ (\A i \in 1..step[s] : Plan(kind[s])[i].op # "start") => tries[s] = 0

HandleOK(s) ==
  handle[s] # 0 =>
    /\ kind[s] \in Nodes
    /\ \E c \in containers : c.slot = s /\ c.n = handle[s]
    /\ \A c \in containers : c.slot = s => c.n <= handle[s]

ChainOK(s) ==
  /\ chain[s] = "part" => kind[s] \in CantonKinds /\ calls[s] >= 1
  /\ answer[s] = "chain" => chain[s] = "full" \/ (chain[s] = "part" /\ calls[s] > 1)
  /\ answer[s] = "exit" => failed /\ kind[s] \notin LoadKinds
  /\ kind[s] = "anvil" /\ step[s] = 5 => Running(s)
  /\ mode = "fork" /\ chain[s] = "full" => Running(s)

ProvOK(s) == NumberedOK(s) /\ StageOK(s) /\ HandleOK(s) /\ ChainOK(s)

\* A port of the pool is in one place, and in some place.
PortsOwned ==
  /\ free \cap spent = {}
  /\ \A s \in Slots : taken[s] \cap free = {} /\ taken[s] \cap spent = {}
  /\ \A s, r \in Slots : s # r => taken[s] \cap taken[r] = {}
  /\ \A c \in containers : c.ports \cap free = {} /\ c.ports \cap spent = {}
  /\ \A c \in containers, s \in Slots : c.ports \cap taken[s] = {}
  /\ \A c, d \in containers : c # d => c.ports \cap d.ports \cap Ports = {}
  /\ \A p \in Ports : \/ p \in free \/ p \in spent \/ \E s \in Slots : p \in taken[s]
                      \/ \E c \in containers : p \in c.ports

\* What the phase that runs can be.
LEMMA PhaseIs ==
  ASSUME LoadTyped, NEW s \in Slots, step[s] > 0
  PROVE  /\ step[s] \in 1..Len(Plan(kind[s])) /\ PlanOK(kind[s], Plan(kind[s]))
         /\ Phase(s).op = "check" => IsCheck(kind[s], Phase(s))
         /\ Phase(s).op = "start" => IsStart(kind[s], Phase(s))
         /\ Phase(s).op = "publish" =>
              \/ IsPart(kind[s], Phase(s)) /\ step[s] < Len(Plan(kind[s]))
              \/ Phase(s) = Publish("full") /\ step[s] = Len(Plan(kind[s]))
         /\ Phase(s).op # "publish" => step[s] < Len(Plan(kind[s]))
         /\ Phase(s).op \in {"check", "start", "publish"}
<1>1. kind[s] \in Providers \cup LoadKinds BY DEF LoadTyped
<1>2. PlanOK(kind[s], Plan(kind[s])) BY <1>1, PlansAre
<1>3. step[s] \in 0..Len(Plan(kind[s])) BY DEF LoadTyped, LoadTypeOK, ProvTypeOK
<1>4. step[s] \in Nat /\ Len(Plan(kind[s])) \in Nat BY <1>2 DEF LoadTyped, PlanOK
<1>5. step[s] \in 1..Len(Plan(kind[s])) BY <1>3, <1>4
<1>6. /\ PhaseOK(kind[s], Phase(s))
      /\ Phase(s) = Publish("full") <=> step[s] = Len(Plan(kind[s]))
  BY <1>2, <1>5 DEF PlanOK, Phase
<1> QED BY <1>2, <1>4, <1>5, <1>6, OpsAre DEF PhaseOK

\* A provider that a step does not touch is as it was.
Untouched(r) ==
  /\ step'[r] = step[r] /\ stage'[r] = stage[r] /\ tries'[r] = tries[r] /\ taken'[r] = taken[r]
  /\ chain'[r] = chain[r] /\ answer'[r] = answer[r] /\ calls'[r] = calls[r]
  /\ handle'[r] = handle[r]
  /\ \A c \in containers : c.slot = r => c \in containers'
  /\ \A c \in containers' : c.slot = r => c \in containers

Fixed == kind' = kind /\ conf' = conf /\ mode' = mode /\ (failed => failed')

\* A provider that a step does not touch keeps its invariant.
LEMMA UntouchedKept ==
  ASSUME NEW r \in Slots, ProvOK(r), Untouched(r), Fixed
  PROVE  ProvOK(r)'
<1>1. Number(r)' = Number(r) BY DEF Number, Untouched
<1>2. NumberedOK(r)' BY <1>1 DEF ProvOK, NumberedOK, Untouched, Fixed
<1>3. /\ (At(r, "start"))' <=> At(r, "start")
      /\ Configured(r)' <=> Configured(r)
  BY DEF At, Phase, Configured, Untouched, Fixed
<1>4. StageOK(r)' BY <1>3 DEF ProvOK, StageOK, Untouched, Fixed
<1>5. HandleOK(r)' BY DEF ProvOK, HandleOK, Untouched, Fixed
<1>6. Running(r)' <=> Running(r) BY DEF Running, Untouched
<1>7. ChainOK(r)' BY <1>6 DEF ProvOK, ChainOK, Untouched, Fixed
<1> QED BY <1>2, <1>4, <1>5, <1>7 DEF ProvOK

\* The number of an attempt.
LEMMA Numbers ==
  /\ \A a, m \in Nat : (a + 1 - 1) * m = (a - 1) * m + m
  /\ \A a, b, m, t \in Nat : a <= b /\ t <= m => (a - 1) * m + t <= b * m
  /\ \A a, m, t \in Nat : a >= 1 => (a - 1) * m + t \in Nat
  /\ \A m, t \in Nat : t <= m => (0 - 1) * m + t <= 0
  /\ \A a, m, t \in Nat : (a - 1) * m + t \in Int
OBVIOUS

\* Ports that are in one place each are counted once.
LEMMA PortsCounted ==
  ASSUME LoadTyped, PortsOwned
  PROVE  PortsAccounted
<1> DEFINE owners(p) == {s \in Slots : p \in taken[s]}
           users(p)  == {c \in containers : p \in c.ports}
           Bit(b)    == IF b THEN 1 ELSE 0
<1> SUFFICES ASSUME NEW p \in Ports
             PROVE  Bit(p \in free) + Bit(p \in spent) + Cardinality(owners(p))
                      + Cardinality(users(p)) = 1
  BY DEF PortsAccounted
<1>1. Cardinality({}) = 0 /\ \A x : Cardinality({x}) = 1
  BY FS_EmptySet, FS_Singleton
<1>2. CASE p \in free \/ p \in spent
  <2>1. owners(p) = {} /\ users(p) = {} BY <1>2 DEF PortsOwned
  <2>2. ~(p \in free /\ p \in spent) BY DEF PortsOwned
  <2> HIDE DEF owners, users
  <2> QED BY <1>1, <1>2, <2>1, <2>2
<1>3. CASE p \notin free /\ p \notin spent /\ \E s \in Slots : p \in taken[s]
  <2>1. PICK s \in Slots : p \in taken[s] BY <1>3
  <2>2. owners(p) = {s} BY <2>1 DEF PortsOwned
  <2>3. users(p) = {} BY <2>1 DEF PortsOwned
  <2>4. Cardinality({s}) = 1 BY <1>1
  <2> HIDE DEF owners, users
  <2> QED BY <1>1, <1>3, <2>2, <2>3, <2>4
<1>4. CASE p \notin free /\ p \notin spent /\ (\A s \in Slots : p \notin taken[s])
  <2>1. PICK c \in containers : p \in c.ports BY <1>4 DEF PortsOwned
  <2>2. users(p) = {c} BY <2>1 DEF PortsOwned
  <2>3. owners(p) = {} BY <1>4
  <2> HIDE DEF owners, users
  <2> QED BY <1>1, <1>4, <2>2, <2>3
<1> QED BY <1>2, <1>3, <1>4

\* One phase further.
LEMMA AdvanceKeeps ==
  ASSUME LoadTyped, NEW s \in Slots, StageOK(s), Advance(s), step[s] > 0,
         step[s] < Len(Plan(kind[s])), kind' = kind, tries' = tries, calls' = calls,
         taken'[s] = {}, chain'[s] # "full"
  PROVE  /\ StageOK(s)' /\ step'[s] = step[s] + 1 /\ stage'[s] = "idle"
         /\ step' \in [Slots -> Nat] /\ stage' \in [Slots -> {"idle", "begun", "up"}]
         /\ step'[s] \in 0..Len(Plan(kind[s]))
         /\ \A r \in Slots \ {s} : step'[r] = step[r] /\ stage'[r] = stage[r]
<1> DEFINE p == Plan(kind[s])
<1>1. PlanOK(kind[s], p) BY PhaseIs
<1>2. step \in [Slots -> Nat] /\ stage \in [Slots -> {"idle", "begun", "up"}]
  BY DEF LoadTyped, LoadTypeOK, ProvTypeOK
<1>3. /\ step'[s] = step[s] + 1 /\ stage'[s] = "idle"
      /\ step' \in [Slots -> Nat] /\ stage' \in [Slots -> {"idle", "begun", "up"}]
      /\ \A r \in Slots \ {s} : step'[r] = step[r] /\ stage'[r] = stage[r]
  BY <1>2 DEF Advance
<1>4. step[s] \in Nat /\ Len(p) \in Nat BY <1>1, <1>2 DEF PlanOK
<1>5. step'[s] \in 1..Len(p) /\ step[s] \in 1..Len(p) BY <1>3, <1>4
<1>6. answer' = answer BY DEF Advance
<1>7. ASSUME At(s, "start")' PROVE tries[s] = 0
  <2>1. p[step'[s]].op = "start" BY <1>7 DEF At, Phase
  <2>2. \A i \in 1..step[s] : p[i].op # "start"
    <3> SUFFICES ASSUME NEW i \in 1..step[s], p[i].op = "start" PROVE FALSE OBVIOUS
    <3>1. i \in 1..Len(p) /\ i # step'[s] BY <1>3, <1>4, <1>5
    <3> QED BY <1>1, <1>5, <2>1, <3>1 DEF PlanOK
  <2> QED BY <2>2 DEF StageOK
<1>8. MaxAttempts > 0 BY ProvidersAssumption
<1>9. (\A i \in 1..step'[s] : p[i].op # "start") => tries[s] = 0
  <2>1. \A i \in 1..step[s] : i \in 1..step'[s] BY <1>3, <1>4
  <2> QED BY <2>1 DEF StageOK
<1> HIDE DEF p
<1>10. StageOK(s)'
  <2>1. step[s] > 0 => calls[s] >= 1 /\ answer[s] = "none" BY DEF StageOK
  <2> QED BY <1>3, <1>6, <1>7, <1>8, <1>9, <2>1 DEF StageOK, p
<1> QED BY <1>3, <1>5, <1>10 DEF p

\* Out of Initialize, with an error or by ending the goroutine.
LEMMA FailKeeps ==
  ASSUME LoadTyped, NEW s \in Slots, NEW m, Fail(s, m), taken'[s] = {}, m \in PhaseModes
  PROVE  /\ StageOK(s)' /\ step'[s] = 0 /\ stage'[s] = "idle"
         /\ answer'[s] = IF m = "fatal" THEN "exit" ELSE "error"
         /\ step' \in [Slots -> Nat] /\ stage' \in [Slots -> {"idle", "begun", "up"}]
         /\ answer' \in [Slots -> {"none", "chain", "error", "exit"}]
         /\ \A r \in Slots \ {s} : /\ step'[r] = step[r] /\ stage'[r] = stage[r]
                                   /\ answer'[r] = answer[r]
         /\ failed' \in BOOLEAN /\ (failed => failed') /\ (m = "fatal" => failed')
<1>1. step \in [Slots -> Nat] /\ stage \in [Slots -> {"idle", "begun", "up"}]
      /\ answer \in [Slots -> {"none", "chain", "error", "exit"}] /\ failed \in BOOLEAN
  BY DEF LoadTyped, LoadTypeOK, ProvTypeOK
<1>2. /\ step'[s] = 0 /\ stage'[s] = "idle"
      /\ answer'[s] = IF m = "fatal" THEN "exit" ELSE "error"
      /\ step' \in [Slots -> Nat] /\ stage' \in [Slots -> {"idle", "begun", "up"}]
      /\ answer' \in [Slots -> {"none", "chain", "error", "exit"}]
      /\ \A r \in Slots \ {s} : /\ step'[r] = step[r] /\ stage'[r] = stage[r]
                                /\ answer'[r] = answer[r]
  BY <1>1 DEF Fail
<1>3. failed' \in BOOLEAN /\ (failed => failed') /\ (m = "fatal" => failed')
  BY <1>1 DEF Fail
<1>4. StageOK(s)' BY <1>2 DEF StageOK, At
<1> QED BY <1>2, <1>3, <1>4

Kept ==
  /\ ProvTypeOK' /\ step' \in [Slots -> Nat] /\ PortsOwned' /\ Fixed
  /\ \A r \in Slots : ProvOK(r)'

ProvInv == LoadTyped /\ PortsOwned /\ \A r \in Slots : ProvOK(r)

\* The phase after which Anvil's chain is published needs the node.
LEMMA AnvilLast ==
  ASSUME LoadTyped, NEW s \in Slots, kind[s] = "anvil", step[s] = 4 \/ step[s] = 5
  PROVE  /\ step[s] = 4 => Phase(s).op = "check" /\ Phase(s).node
         /\ step[s] = 5 => Phase(s) = Publish("full")
<1>1. step[s] > 0 /\ PlanOK(kind[s], Plan(kind[s])) BY PhaseIs
<1>2. Len(Plan(kind[s])) = 5 /\ 5 \in 1..5 BY <1>1 DEF PlanOK
<1>3. step[s] = 4 => Phase(s).op = "check" /\ Phase(s).node
  BY <1>1 DEF PlanOK, Phase, IsCheck
<1>4. Plan(kind[s])[5] = Publish("full") BY <1>1, <1>2 DEF PlanOK
<1> QED BY <1>3, <1>4 DEF Phase

\* A step that moves no port keeps every port in its place.
LEMMA PortsKept ==
  ASSUME PortsOwned, UNCHANGED <<taken, free, containers, spent>>
  PROVE  PortsOwned'
BY DEF PortsOwned

\* A check that passes.
LEMMA CheckPassesKeeps ==
  ASSUME ProvInv, NEW s \in Slots, CheckPasses(s), mode' = mode
  PROVE  Kept
<1>1. At(s, "check") /\ Advance(s) /\ step[s] > 0 /\ step[s] < Len(Plan(kind[s]))
  BY PhaseIs DEF CheckPasses, ProvInv, At
<1>2. /\ UNCHANGED <<kind, conf, tries, taken, chain, calls, handle, free, containers,
                     spent, cancelled>>
      /\ UNCHANGED <<answer, failed>>
  BY DEF CheckPasses, Advance
<1>3. ProvOK(s) /\ stage[s] \in {"idle", "begun", "up"}
  BY DEF ProvInv, LoadTyped, LoadTypeOK, ProvTypeOK
<1>4. taken'[s] = {} /\ chain'[s] # "full"
  BY <1>1, <1>2, <1>3 DEF ProvOK, StageOK, At
<1>5. /\ StageOK(s)' /\ step'[s] = step[s] + 1 /\ stage'[s] = "idle"
      /\ step' \in [Slots -> Nat] /\ stage' \in [Slots -> {"idle", "begun", "up"}]
      /\ step'[s] \in 0..Len(Plan(kind[s]))
      /\ \A r \in Slots \ {s} : step'[r] = step[r] /\ stage'[r] = stage[r]
  BY <1>1, <1>2, <1>3, <1>4, AdvanceKeeps DEF ProvInv, ProvOK
<1>6. Fixed BY <1>2 DEF Fixed
<1>7. PortsOwned' BY <1>2, PortsKept DEF ProvInv
<1>8. ProvTypeOK' BY <1>2, <1>5 DEF ProvInv, LoadTyped, LoadTypeOK, ProvTypeOK
<1>9. ASSUME NEW r \in Slots \ {s} PROVE ProvOK(r)'
  BY <1>2, <1>5, <1>6, UntouchedKept DEF Untouched, ProvInv
<1>10. ProvOK(s)'
  <2>1. NumberedOK(s)' BY <1>2, <1>3, <1>5 DEF ProvOK, NumberedOK, Number
  <2>2. HandleOK(s)' BY <1>2, <1>3 DEF ProvOK, HandleOK
  <2>3. Running(s)' <=> Running(s) BY <1>2 DEF Running
  <2>4. kind[s] = "anvil" /\ step'[s] = 5 => Running(s)
    <3>1. step[s] \in Nat BY DEF ProvInv, LoadTyped
    <3>2. kind[s] = "anvil" /\ step'[s] = 5 => Phase(s).node
      BY <1>5, <3>1, AnvilLast DEF ProvInv
    <3> QED BY <3>2 DEF CheckPasses
  <2>5. ChainOK(s)' BY <1>2, <1>3, <1>6, <2>3, <2>4 DEF ProvOK, ChainOK, Fixed
  <2> QED BY <1>5, <2>1, <2>2, <2>5 DEF ProvOK
<1> QED BY <1>5, <1>6, <1>7, <1>8, <1>9, <1>10 DEF Kept

\* A call that fails, with the ports back where they belong.
LEMMA FailedKept ==
  ASSUME ProvInv, NEW s \in Slots, NEW m \in PhaseModes, Fail(s, m), mode' = mode,
         kind[s] \in LoadKinds => m = "error", tries' \in [Slots -> 0..MaxAttempts],
         tries'[s] >= tries[s], \A r \in Slots \ {s} : tries'[r] = tries[r] /\ taken'[r] = taken[r],
         taken'[s] = {}, taken' \in [Slots -> SUBSET Ports], free' \subseteq Ports, PortsOwned',
         UNCHANGED <<kind, conf, chain, calls, handle, containers, spent, cancelled>>
  PROVE  Kept
<1>1. /\ StageOK(s)' /\ step'[s] = 0 /\ stage'[s] = "idle"
      /\ answer'[s] = IF m = "fatal" THEN "exit" ELSE "error"
      /\ step' \in [Slots -> Nat] /\ stage' \in [Slots -> {"idle", "begun", "up"}]
      /\ answer' \in [Slots -> {"none", "chain", "error", "exit"}]
      /\ \A r \in Slots \ {s} : /\ step'[r] = step[r] /\ stage'[r] = stage[r]
                                /\ answer'[r] = answer[r]
      /\ failed' \in BOOLEAN /\ (failed => failed') /\ (m = "fatal" => failed')
  BY FailKeeps DEF ProvInv
<1>2. Fixed BY <1>1 DEF Fixed
<1>3. \A r \in Slots : step[r] \in 0..Len(Plan(kind[r])) /\ Len(Plan(kind[r])) \in Nat
  BY PlansAre DEF ProvInv, LoadTyped, LoadTypeOK, ProvTypeOK, PlanOK
<1>4. ProvTypeOK'
  <2>1. \A r \in Slots : step'[r] \in 0..Len(Plan(kind[r]))
    <3> SUFFICES ASSUME NEW r \in Slots PROVE step'[r] \in 0..Len(Plan(kind[r])) OBVIOUS
    <3>1. CASE r = s BY <1>1, <1>3, <3>1
    <3>2. CASE r # s BY <1>1, <1>3, <3>2
    <3> QED BY <3>1, <3>2
  <2>2. ProvTypeOK BY DEF ProvInv, LoadTyped, LoadTypeOK
  <2> QED BY <1>1, <2>1, <2>2 DEF ProvTypeOK
<1>5. ASSUME NEW r \in Slots \ {s} PROVE ProvOK(r)'
  BY <1>1, <1>2, UntouchedKept DEF Untouched, ProvInv
<1>6. ProvOK(s)'
  <2>1. NumberedOK(s)'
    <3>1. /\ Number(s) \in Int /\ Number(s)' \in Int /\ Number(s) <= Number(s)'
          /\ \A c \in containers : c.n \in Nat
      <4>1. /\ calls[s] \in Nat /\ tries[s] \in Nat /\ tries'[s] \in Nat /\ MaxAttempts \in Nat
            /\ \A c \in containers : c.n \in Nat
        BY ProvidersAssumption DEF ProvInv, LoadTyped, LoadTypeOK, ProvTypeOK
      <4> DEFINE b == (calls[s] - 1) * MaxAttempts
      <4>2. b \in Int BY <4>1
      <4> HIDE DEF b
      <4>3. Number(s) = b + tries[s] /\ Number(s)' = b + tries'[s] BY DEF Number, b
      <4> QED BY <4>1, <4>2, <4>3
    <3> QED BY <1>1, <3>1 DEF ProvInv, ProvOK, NumberedOK
  <2>2. HandleOK(s)' BY DEF ProvInv, ProvOK, HandleOK
  <2>3. Running(s)' <=> Running(s) BY DEF Running
  <2>4. ChainOK(s)' BY <1>1, <1>2, <2>3 DEF ProvInv, ProvOK, ChainOK, Fixed
  <2> QED BY <1>1, <2>1, <2>2, <2>4 DEF ProvOK
<1> QED BY <1>1, <1>2, <1>4, <1>5, <1>6 DEF Kept

\* Outside an attempt to start containers a provider holds no ports.
LEMMA Quiet ==
  ASSUME ProvInv, NEW s \in Slots, ~At(s, "start") \/ stage[s] # "begun"
  PROVE  taken[s] = {} /\ (~At(s, "start") => stage[s] = "idle")
BY DEF ProvInv, ProvOK, StageOK, LoadTyped, LoadTypeOK, ProvTypeOK

\* A check that fails.
LEMMA CheckFailsKeeps ==
  ASSUME ProvInv, NEW s \in Slots, CheckFails(s), mode' = mode
  PROVE  Kept
<1>1. IsCheck(kind[s], Phase(s)) /\ ~At(s, "start") BY PhaseIs DEF CheckFails, ProvInv, At
<1>2. taken[s] = {} BY <1>1, Quiet
<1>3. /\ UNCHANGED <<kind, conf, tries, taken, chain, calls, handle, free, containers,
                     spent, cancelled>>
      /\ Fail(s, Phase(s).mode)
  BY DEF CheckFails
<1>4. PortsOwned' BY <1>3, PortsKept DEF ProvInv
<1>5. Phase(s).mode \in PhaseModes /\ (kind[s] \in LoadKinds => Phase(s).mode = "error")
  BY <1>1 DEF IsCheck
<1>6. /\ tries \in [Slots -> 0..MaxAttempts] /\ taken \in [Slots -> SUBSET Ports]
      /\ free \subseteq Ports /\ MaxAttempts \in Nat
  BY ProvidersAssumption DEF ProvInv, LoadTyped, LoadTypeOK, ProvTypeOK
<1>7. tries'[s] >= tries[s] BY <1>3, <1>6
<1> HIDE DEF ProvInv
<1> QED BY <1>2, <1>3, <1>4, <1>5, <1>6, <1>7, FailedKept

\* A call of Initialize.
LEMMA InitializeKeeps ==
  ASSUME ProvInv, NEW s \in Slots, Initialize(s), mode' = mode
  PROVE  Kept
<1>1. /\ UNCHANGED <<kind, conf, stage, taken, chain, handle, free, containers, spent,
                     failed, cancelled>>
      /\ step[s] = 0 /\ calls[s] < MaxCalls
  BY DEF Initialize
<1>2. /\ step \in [Slots -> Nat] /\ calls \in [Slots -> 0..MaxCalls]
      /\ tries \in [Slots -> 0..MaxAttempts] /\ MaxAttempts \in Nat /\ MaxCalls \in Nat
      /\ answer \in [Slots -> {"none", "chain", "error", "exit"}]
      /\ chain[s] \in {"nil", "part", "full"} /\ MaxAttempts > 0
      /\ \A c \in containers : c.n \in Nat
  BY ProvidersAssumption DEF ProvInv, LoadTyped, LoadTypeOK, ProvTypeOK
<1>3. /\ calls'[s] = calls[s] + 1 /\ tries'[s] = 0
      /\ step'[s] = IF chain[s] = "nil" THEN 1 ELSE 0
      /\ answer'[s] = IF chain[s] = "nil" THEN "none" ELSE "chain"
      /\ calls' \in [Slots -> 0..MaxCalls] /\ tries' \in [Slots -> 0..MaxAttempts]
      /\ step' \in [Slots -> Nat] /\ answer' \in [Slots -> {"none", "chain", "error", "exit"}]
  BY <1>1, <1>2 DEF Initialize
<1>4. \A r \in Slots \ {s} : /\ calls'[r] = calls[r] /\ tries'[r] = tries[r]
                             /\ step'[r] = step[r] /\ answer'[r] = answer[r]
  BY <1>2 DEF Initialize
<1>5. Fixed BY <1>1 DEF Fixed
<1>6. PortsOwned' BY <1>1, PortsKept DEF ProvInv
<1>7. PlanOK(kind[s], Plan(kind[s])) BY PlansAre DEF ProvInv, LoadTyped
<1>8. ProvTypeOK'
  <2>1. \A r \in Slots : step'[r] \in 0..Len(Plan(kind[r]))
    <3> SUFFICES ASSUME NEW r \in Slots PROVE step'[r] \in 0..Len(Plan(kind[r])) OBVIOUS
    <3>1. CASE r = s BY <1>3, <1>7, <3>1 DEF PlanOK
    <3>2. CASE r # s BY <1>4, <3>2 DEF ProvInv, LoadTyped, LoadTypeOK, ProvTypeOK
    <3> QED BY <3>1, <3>2
  <2>2. ProvTypeOK BY DEF ProvInv, LoadTyped, LoadTypeOK
  <2> QED BY <1>1, <1>3, <2>1, <2>2 DEF ProvTypeOK
<1>9. ASSUME NEW r \in Slots \ {s} PROVE ProvOK(r)'
  BY <1>1, <1>4, <1>5, UntouchedKept DEF Untouched, ProvInv
<1>10. ProvOK(s)'
  <2>1. taken[s] = {} /\ stage[s] = "idle" BY <1>1, Quiet DEF At
  <2>2. NumberedOK(s)'
    <3>1. Number(s) \in Int /\ Number(s)' \in Int /\ Number(s) <= Number(s)'
      <4> DEFINE b == (calls[s] - 1) * MaxAttempts
      <4>1. b \in Int /\ calls[s] \in Nat /\ tries[s] \in 0..MaxAttempts BY <1>2
      <4>2. (calls[s] + 1 - 1) * MaxAttempts = b + MaxAttempts BY <1>2, <4>1, Numbers
      <4>3. Number(s)' = (calls[s] + 1 - 1) * MaxAttempts + 0
        <5>1. Number(s)' = (calls'[s] - 1) * MaxAttempts + tries'[s] BY DEF Number
        <5>2. calls'[s] = calls[s] + 1 /\ tries'[s] = 0 BY <1>3
        <5> QED BY <1>2, <4>1, <5>1, <5>2
      <4>4. Number(s) = b + tries[s] /\ Number(s)' = b + MaxAttempts + 0
        BY <4>2, <4>3, Zenon DEF Number
      <4> HIDE DEF b
      <4> QED BY <1>2, <4>1, <4>4
    <3> QED BY <1>1, <1>2, <2>1, <3>1 DEF ProvInv, ProvOK, NumberedOK
  <2>3. HandleOK(s)' BY <1>1 DEF ProvInv, ProvOK, HandleOK
  <2>4. Running(s)' <=> Running(s) BY <1>1 DEF Running
  <2>5. calls[s] \in Nat BY <1>2
  <2>6. ChainOK(s)' BY <1>1, <1>2, <1>3, <1>5, <2>4, <2>5 DEF ProvInv, ProvOK, ChainOK, Fixed
  <2>7. StageOK(s)'
    <3>1. ~At(s, "start")' BY <1>1, <1>3, <1>7 DEF At, Phase, PlanOK
    <3> QED BY <1>1, <1>2, <1>3, <2>1, <2>5, <3>1 DEF StageOK
  <2> QED BY <2>2, <2>3, <2>6, <2>7 DEF ProvOK
<1> QED BY <1>3, <1>5, <1>6, <1>8, <1>9, <1>10 DEF Kept

\* Finitely many numbers have n lowest ones.
LEMMA LowestExist ==
  ASSUME NEW F, F \subseteq Nat, IsFiniteSet(F), NEW n \in Nat, n <= Cardinality(F)
  PROVE  \E P \in SUBSET F : Cardinality(P) = n /\ \A p \in P, q \in F \ P : p < q
<1> DEFINE Has(m) == \E P \in SUBSET F : /\ IsFiniteSet(P) /\ Cardinality(P) = m
                                         /\ \A p \in P, q \in F \ P : p < q
           S == {m \in Nat : m <= Cardinality(F) => Has(m)}
<1>1. 0 \in S
  <2>1. {} \in SUBSET F /\ IsFiniteSet({}) /\ Cardinality({}) = 0 BY FS_EmptySet
  <2>2. Has(0) BY <2>1
  <2> QED BY <2>2
<1>2. ASSUME NEW m \in Nat, m \in S PROVE m + 1 \in S
  <2> SUFFICES ASSUME m + 1 <= Cardinality(F) PROVE Has(m + 1) OBVIOUS
  <2>1. Cardinality(F) \in Nat BY FS_CardinalityType
  <2>2. Has(m) BY <1>2, <2>1
  <2>3. PICK P \in SUBSET F : /\ IsFiniteSet(P) /\ Cardinality(P) = m
                              /\ \A p \in P, q \in F \ P : p < q
    BY <2>2
  <2>4. PICK x \in F : x \notin P
    <3>1. F # P BY <2>1, <2>3
    <3> QED BY <3>1
  <2> DEFINE G == F \ P
  <2>5. PICK y \in G : \A z \in G : ~(<<z, y>> \in OpToRel(<, Nat))
    BY <2>4, NatLessThanWellFounded, WFMin, Zenon
  <2>6. \A z \in G : y <= z
    <3> SUFFICES ASSUME NEW z \in G, ~(y <= z) PROVE FALSE OBVIOUS
    <3>1. z \in Nat /\ y \in Nat /\ z < y OBVIOUS
    <3> QED BY <2>5, <3>1, Zenon DEF OpToRel
  <2> DEFINE Q == P \cup {y}
  <2>7. IsFiniteSet(Q) /\ Cardinality(Q) = m + 1 BY <2>3, FS_AddElement
  <2>8. \A p \in Q, q \in F \ Q : p < q
    <3> SUFFICES ASSUME NEW p \in Q, NEW q \in F \ Q PROVE p < q OBVIOUS
    <3>1. q \in G /\ q # y /\ q \in Nat /\ y \in Nat OBVIOUS
    <3>2. CASE p = y BY <2>6, <3>1, <3>2
    <3>3. CASE p # y BY <2>3, <3>1, <3>3
    <3> QED BY <3>2, <3>3
  <2> QED BY <2>7, <2>8
<1>3. Nat \subseteq S
  <2> HIDE DEF S
  <2> QED BY <1>1, <1>2, NatSet, Zenon
<1> QED BY <1>3

\* The ports that freeport hands out were free.
LEMMA LowestIn ==
  ASSUME LoadTyped, NEW n \in Nat, ~(Cardinality(free) < n)
  PROVE  Lowest(n) \subseteq free
<1>1. free \subseteq Nat /\ IsFiniteSet(free)
  BY ProvidersAssumption, FS_Subset DEF LoadTyped, LoadTypeOK, ProvTypeOK
<1>2. n <= Cardinality(free) BY <1>1, FS_CardinalityType
<1>3. \E P \in SUBSET free : Cardinality(P) = n /\ \A p \in P, q \in free \ P : p < q
  BY <1>1, <1>2, LowestExist
<1> QED BY <1>3 DEF Lowest

\* Taking ports for an attempt, or finding too few.
LEMMA TakePortsKeeps ==
  ASSUME ProvInv, NEW s \in Slots, TakePorts(s), mode' = mode
  PROVE  Kept
<1>1. /\ At(s, "start") /\ stage[s] = "idle" /\ step[s] > 0
      /\ UNCHANGED <<kind, conf, chain, calls, handle, containers, spent, cancelled>>
  BY DEF TakePorts, At
<1>2. /\ step \in [Slots -> Nat] /\ calls \in [Slots -> 0..MaxCalls]
      /\ tries \in [Slots -> 0..MaxAttempts] /\ MaxAttempts \in Nat
      /\ stage \in [Slots -> {"idle", "begun", "up"}] /\ taken \in [Slots -> SUBSET Ports]
      /\ free \subseteq Ports /\ \A c \in containers : c.n \in Nat
  BY ProvidersAssumption DEF ProvInv, LoadTyped, LoadTypeOK, ProvTypeOK
<1>3. tries[s] < MaxAttempts /\ taken[s] = {} BY <1>1 DEF ProvInv, ProvOK, StageOK
<1>4. /\ tries'[s] = tries[s] + 1 /\ tries' \in [Slots -> 0..MaxAttempts]
      /\ \A r \in Slots \ {s} : tries'[r] = tries[r]
  BY <1>2, <1>3 DEF TakePorts
<1>5. IsStart(kind[s], Phase(s)) BY <1>1, PhaseIs DEF At, ProvInv
<1>6. CASE Waits(s)
  <2>1. Fail(s, "fatal") /\ UNCHANGED <<free, taken>> BY <1>6 DEF TakePorts
  <2>2. PortsOwned' BY <1>1, <2>1, PortsKept DEF ProvInv
  <2>3. tries'[s] >= tries[s] BY <1>2, <1>4
  <2>4. kind[s] \notin LoadKinds /\ "fatal" \in PhaseModes BY <1>5 DEF IsStart, PhaseModes
  <2> HIDE DEF ProvInv
  <2> QED BY <1>1, <1>2, <1>3, <1>4, <2>1, <2>2, <2>3, <2>4, FailedKept
<1>7. CASE ~Waits(s)
  <2>1. PICK P \in SUBSET free : /\ taken' = [taken EXCEPT ![s] = P] /\ free' = free \ P
                                 /\ stage' = [stage EXCEPT ![s] = "begun"]
                                 /\ UNCHANGED <<step, answer, failed>>
                                 /\ Configured(s) => P = {}
    <3>1. Phase(s).n \in Nat BY <1>5 DEF IsStart
    <3>2. ~Configured(s) => Lowest(Phase(s).n) \subseteq free
      BY <1>1, <1>7, <3>1, LowestIn DEF ProvInv, Waits
    <3> DEFINE P == IF Configured(s) THEN {} ELSE Lowest(Phase(s).n)
    <3>3. taken' = [taken EXCEPT ![s] = P] /\ free' = free \ taken'[s]
      BY <1>7 DEF TakePorts
    <3>4. P \in SUBSET free /\ (Configured(s) => P = {}) BY <3>2
    <3> HIDE DEF P
    <3>5. taken'[s] = P BY <1>2, <3>3
    <3> QED BY <1>7, <3>3, <3>4, <3>5 DEF TakePorts
  <2>2. /\ taken'[s] = P /\ taken' \in [Slots -> SUBSET Ports] /\ stage'[s] = "begun"
        /\ stage' \in [Slots -> {"idle", "begun", "up"}] /\ free' \subseteq Ports
        /\ \A r \in Slots \ {s} : taken'[r] = taken[r] /\ stage'[r] = stage[r]
    BY <1>2, <2>1
  <2>3. PortsOwned' BY <1>1, <1>3, <2>1, <2>2 DEF ProvInv, PortsOwned
  <2>4. Fixed BY <1>1, <2>1 DEF Fixed
  <2>5. ProvTypeOK' BY <1>1, <1>4, <2>1, <2>2 DEF ProvInv, LoadTyped, LoadTypeOK, ProvTypeOK
  <2>6. ASSUME NEW r \in Slots \ {s} PROVE ProvOK(r)'
    BY <1>1, <1>4, <2>1, <2>2, <2>4, UntouchedKept DEF Untouched, ProvInv
  <2>7. At(s, "start")' BY <1>1, <2>1 DEF At, Phase
  <2>8. StageOK(s)'
    BY <1>1, <1>2, <1>4, <2>1, <2>2, <2>7 DEF ProvInv, ProvOK, StageOK, At, Phase, Configured
  <2>9. NumberedOK(s)'
    <3> DEFINE b == (calls[s] - 1) * MaxAttempts
    <3>1. Number(s) = b + tries[s] /\ Number(s)' = b + tries'[s] BY <1>1 DEF Number
    <3>2. b \in Int /\ tries[s] \in Nat BY <1>2
    <3> HIDE DEF b
    <3>3. Number(s) \in Int /\ Number(s)' = Number(s) + 1 BY <1>4, <3>1, <3>2
    <3> QED BY <1>1, <1>2, <3>3 DEF ProvInv, ProvOK, NumberedOK
  <2>10. HandleOK(s)' BY <1>1 DEF ProvInv, ProvOK, HandleOK
  <2>11. Running(s)' <=> Running(s) BY <1>1 DEF Running
  <2>12. ChainOK(s)' BY <1>1, <2>1, <2>4, <2>11 DEF ProvInv, ProvOK, ChainOK, Fixed
  <2> QED BY <1>2, <2>1, <2>3, <2>4, <2>5, <2>6, <2>8, <2>9, <2>10, <2>12 DEF Kept, ProvOK
<1> QED BY <1>6, <1>7

\* An attempt ends without a container that answers.
LEMMA RetryKept ==
  ASSUME ProvInv, NEW s \in Slots, At(s, "start"), Retry(s), mode' = mode, taken'[s] = {},
         \A r \in Slots \ {s} : taken'[r] = taken[r], taken' \in [Slots -> SUBSET Ports],
         free' \subseteq Ports, PortsOwned',
         UNCHANGED <<kind, conf, tries, chain, calls, handle, containers, spent, cancelled>>
  PROVE  Kept
<1>1. /\ IsStart(kind[s], Phase(s)) /\ step[s] > 0 /\ step[s] < Len(Plan(kind[s]))
  BY PhaseIs DEF At, ProvInv
<1>2. /\ step \in [Slots -> Nat] /\ stage \in [Slots -> {"idle", "begun", "up"}]
      /\ tries \in [Slots -> 0..MaxAttempts]
  BY DEF ProvInv, LoadTyped, LoadTypeOK, ProvTypeOK
<1>3. CASE Fail(s, Phase(s).mode)
  <2>1. Phase(s).mode \in PhaseModes /\ kind[s] \notin LoadKinds BY <1>1 DEF IsStart
  <2>2. tries'[s] >= tries[s] BY <1>2
  <2> HIDE DEF ProvInv
  <2> QED BY <1>2, <1>3, <2>1, <2>2, FailedKept
<1>4. CASE Advance(s) \/ ( /\ stage' = [stage EXCEPT ![s] = "idle"] /\ tries[s] < MaxAttempts
                          /\ UNCHANGED <<step, answer, failed>>)
  <2>1. StageOK(s) /\ chain'[s] # "full" BY <1>1 DEF ProvInv, ProvOK, StageOK
  <2>2. /\ StageOK(s)' /\ stage'[s] = "idle" /\ answer' = answer /\ failed' = failed
        /\ step' \in [Slots -> Nat] /\ stage' \in [Slots -> {"idle", "begun", "up"}]
        /\ step'[s] \in 0..Len(Plan(kind[s])) /\ (step'[s] = 5 => step[s] \in {4, 5})
        /\ \A r \in Slots \ {s} : step'[r] = step[r] /\ stage'[r] = stage[r]
    <3>1. CASE Advance(s)
      <4>1. /\ StageOK(s)' /\ step'[s] = step[s] + 1 /\ stage'[s] = "idle"
            /\ step' \in [Slots -> Nat] /\ stage' \in [Slots -> {"idle", "begun", "up"}]
            /\ step'[s] \in 0..Len(Plan(kind[s]))
            /\ \A r \in Slots \ {s} : step'[r] = step[r] /\ stage'[r] = stage[r]
        BY <1>1, <2>1, <3>1, AdvanceKeeps DEF ProvInv
      <4> QED BY <1>2, <3>1, <4>1 DEF Advance
    <3>2. CASE /\ stage' = [stage EXCEPT ![s] = "idle"] /\ tries[s] < MaxAttempts
               /\ UNCHANGED <<step, answer, failed>>
      <4>1. step'[s] \in 0..Len(Plan(kind[s]))
        BY <3>2 DEF ProvInv, LoadTyped, LoadTypeOK, ProvTypeOK
      <4>2. StageOK(s)' BY <1>2, <2>1, <3>2 DEF StageOK, At, Phase
      <4> QED BY <1>2, <3>2, <4>1, <4>2
    <3> QED BY <1>4, <3>1, <3>2
  <2>3. Fixed BY <2>2 DEF Fixed
  <2>4. ProvTypeOK' BY <2>2 DEF ProvInv, LoadTyped, LoadTypeOK, ProvTypeOK
  <2>5. ASSUME NEW r \in Slots \ {s} PROVE ProvOK(r)'
    BY <2>2, <2>3, UntouchedKept DEF Untouched, ProvInv
  <2>6. NumberedOK(s)' BY <2>2 DEF ProvInv, ProvOK, NumberedOK, Number
  <2>7. HandleOK(s)' BY DEF ProvInv, ProvOK, HandleOK
  <2>8. Running(s)' <=> Running(s) BY DEF Running
  <2>9. kind[s] = "anvil" /\ step'[s] = 5 => FALSE
    <3>1. Phase(s).op = "start" BY DEF At
    <3> QED BY <2>2, <3>1, AnvilLast DEF ProvInv, Publish
  <2>10. ChainOK(s)' BY <2>2, <2>3, <2>8, <2>9 DEF ProvInv, ProvOK, ChainOK, Fixed
  <2> QED BY <2>2, <2>3, <2>4, <2>5, <2>6, <2>7, <2>10 DEF Kept, ProvOK
<1> QED BY <1>3, <1>4 DEF Retry

\* An attempt that fails gives its ports back.
LEMMA StartFailsKeeps ==
  ASSUME ProvInv, NEW s \in Slots, StartFails(s), mode' = mode
  PROVE  Kept
<1>1. /\ taken \in [Slots -> SUBSET Ports] /\ free \subseteq Ports
  BY DEF ProvInv, LoadTyped, LoadTypeOK, ProvTypeOK
<1>2. /\ UNCHANGED <<kind, conf, tries, chain, calls, handle, containers, spent, cancelled>>
      /\ At(s, "start") /\ Retry(s) /\ free' = free \cup taken[s]
      /\ taken' = [taken EXCEPT ![s] = {}]
  BY DEF StartFails
<1>3. /\ taken'[s] = {} /\ \A r \in Slots \ {s} : taken'[r] = taken[r]
      /\ taken' \in [Slots -> SUBSET Ports] /\ free' \subseteq Ports
  BY <1>1, <1>2
<1>4. PortsOwned' BY <1>2, <1>3 DEF ProvInv, PortsOwned
<1> HIDE DEF ProvInv
<1> QED BY <1>2, <1>3, <1>4, RetryKept

\* A node that never gets healthy.
LEMMA UnhealthyKeeps ==
  ASSUME ProvInv, NEW s \in Slots, Unhealthy(s), mode' = mode
  PROVE  Kept
<1>1. /\ taken \in [Slots -> SUBSET Ports] /\ free \subseteq Ports
  BY DEF ProvInv, LoadTyped, LoadTypeOK, ProvTypeOK
<1>2. /\ UNCHANGED <<kind, conf, tries, taken, chain, calls, handle, free, containers,
                     spent, cancelled>>
      /\ At(s, "start") /\ Retry(s) /\ stage[s] = "up"
  BY DEF Unhealthy
<1>3. taken'[s] = {} BY <1>2, Quiet
<1>4. PortsOwned' BY <1>2, PortsKept DEF ProvInv
<1> HIDE DEF ProvInv
<1> QED BY <1>1, <1>2, <1>3, <1>4, RetryKept

\* A node that is healthy.
LEMMA HealthyKeeps ==
  ASSUME ProvInv, NEW s \in Slots, Healthy(s), mode' = mode
  PROVE  Kept
<1>1. /\ At(s, "start") /\ step[s] > 0 /\ step[s] < Len(Plan(kind[s])) /\ Advance(s)
      /\ UNCHANGED <<kind, conf, tries, taken, chain, calls, handle, free, containers,
                     spent, cancelled>>
      /\ UNCHANGED <<answer, failed>> /\ stage[s] = "up"
  BY PhaseIs DEF Healthy, At, ProvInv, Advance
<1>2. taken'[s] = {} /\ StageOK(s) /\ chain'[s] # "full"
  BY <1>1, Quiet DEF ProvInv, ProvOK, StageOK
<1>3. /\ StageOK(s)' /\ step'[s] = step[s] + 1 /\ stage'[s] = "idle"
      /\ step' \in [Slots -> Nat] /\ stage' \in [Slots -> {"idle", "begun", "up"}]
      /\ step'[s] \in 0..Len(Plan(kind[s]))
      /\ \A r \in Slots \ {s} : step'[r] = step[r] /\ stage'[r] = stage[r]
  BY <1>1, <1>2, AdvanceKeeps DEF ProvInv
<1>4. Fixed BY <1>1 DEF Fixed
<1>5. PortsOwned' BY <1>1, PortsKept DEF ProvInv
<1>6. ProvTypeOK' BY <1>1, <1>3 DEF ProvInv, LoadTyped, LoadTypeOK, ProvTypeOK
<1>7. ASSUME NEW r \in Slots \ {s} PROVE ProvOK(r)'
  BY <1>1, <1>3, <1>4, UntouchedKept DEF Untouched, ProvInv
<1>8. NumberedOK(s)' BY <1>1, <1>3 DEF ProvInv, ProvOK, NumberedOK, Number
<1>9. HandleOK(s)' BY <1>1 DEF ProvInv, ProvOK, HandleOK
<1>10. Running(s)' <=> Running(s) BY <1>1 DEF Running
<1>11. kind[s] = "anvil" /\ step'[s] = 5 => FALSE
  <2>1. Phase(s).op = "start" BY <1>1 DEF At
  <2>2. step[s] \in Nat BY DEF ProvInv, LoadTyped
  <2> QED BY <1>3, <2>1, <2>2, AnvilLast DEF ProvInv
<1>12. ChainOK(s)' BY <1>1, <1>4, <1>10, <1>11 DEF ProvInv, ProvOK, ChainOK, Fixed
<1> QED BY <1>3, <1>4, <1>5, <1>6, <1>7, <1>8, <1>9, <1>12 DEF Kept, ProvOK

\* Containers that start keep the ports of the attempt.
LEMMA StartsKeeps ==
  ASSUME ProvInv, NEW s \in Slots, Starts(s), mode' = mode
  PROVE  Kept
<1> DEFINE c0 == [slot |-> s, n |-> Number(s), ports |-> AttemptPorts(s),
                  cleanup |-> conf[s].t = "test" /\ ~Phase(s).wild]
<1>1. /\ UNCHANGED <<kind, conf, tries, chain, calls, free, spent, cancelled>>
      /\ At(s, "start") /\ stage[s] = "begun" /\ containers' = containers \cup {c0}
      /\ taken' = [taken EXCEPT ![s] = {}]
      /\ answer' = answer /\ failed' = failed
  BY DEF Starts, Advance
<1>2. /\ IsStart(kind[s], Phase(s)) /\ step[s] > 0 /\ step[s] < Len(Plan(kind[s]))
      /\ Phase(s).op = "start"
  BY <1>1, PhaseIs DEF At, ProvInv
<1>3. /\ step \in [Slots -> Nat] /\ calls \in [Slots -> 0..MaxCalls]
      /\ tries \in [Slots -> 0..MaxAttempts] /\ MaxAttempts \in Nat /\ MaxCalls \in Nat
      /\ stage \in [Slots -> {"idle", "begun", "up"}] /\ taken \in [Slots -> SUBSET Ports]
      /\ handle \in [Slots -> 0..(MaxCalls * MaxAttempts)]
      /\ free \subseteq Ports /\ spent \subseteq Ports /\ \A c \in containers : c.n \in Nat
  BY ProvidersAssumption DEF ProvInv, LoadTyped, LoadTypeOK, ProvTypeOK
<1>4. StageOK(s) /\ tries[s] >= 1 /\ calls[s] >= 1 /\ chain[s] # "full"
  BY <1>1, <1>2 DEF ProvInv, ProvOK, StageOK
<1>5. Number(s) \in 1..(MaxCalls * MaxAttempts)
  <2> DEFINE b == (calls[s] - 1) * MaxAttempts
  <2>1. calls[s] \in Nat /\ tries[s] \in Nat /\ calls[s] <= MaxCalls /\ tries[s] <= MaxAttempts
    BY <1>3
  <2>2. b \in Nat
    <3>1. calls[s] - 1 \in Nat BY <1>4, <2>1
    <3>2. \A i, j \in Nat : i * j \in Nat OBVIOUS
    <3> QED BY <1>3, <3>1, <3>2
  <2>3. b + tries[s] <= MaxCalls * MaxAttempts /\ MaxCalls * MaxAttempts \in Nat
    <3>1. \A a, d, m, t \in Nat : a <= d /\ t <= m => (a - 1) * m + t <= d * m BY Numbers
    <3>2. \A i, j \in Nat : i * j \in Nat OBVIOUS
    <3> QED BY <1>3, <2>1, <3>1, <3>2
  <2>4. Number(s) = b + tries[s] BY DEF Number
  <2> HIDE DEF b
  <2> QED BY <1>4, <2>1, <2>2, <2>3, <2>4
<1>6. /\ taken'[s] = {} /\ taken' \in [Slots -> SUBSET Ports]
      /\ \A r \in Slots \ {s} : taken'[r] = taken[r]
  BY <1>1, <1>3
<1>7. PortsOwned'
  <2>1. AttemptPorts(s) \subseteq Ports => AttemptPorts(s) = taken[s]
    BY ProvidersAssumption DEF AttemptPorts
  <2>2. AttemptPorts(s) \cap Ports = taken[s]
    BY <1>3, <1>4, ProvidersAssumption DEF AttemptPorts, StageOK
  <2>3. c0.ports = AttemptPorts(s) OBVIOUS
  <2> HIDE DEF c0
  <2> QED BY <1>1, <1>3, <1>6, <2>2, <2>3 DEF ProvInv, PortsOwned
<1>8. \A r \in Slots \ {s} : \A c \in containers' : c.slot = r => c \in containers
  BY <1>1
<1>9. /\ step' \in [Slots -> Nat] /\ stage' \in [Slots -> {"idle", "begun", "up"}]
      /\ StageOK(s)' /\ stage'[s] # "begun" /\ step'[s] \in 0..Len(Plan(kind[s]))
      /\ step'[s] = 5 => step[s] \in {4, 5}
      /\ \A r \in Slots \ {s} : step'[r] = step[r] /\ stage'[r] = stage[r] /\ handle'[r] = handle[r]
      /\ handle' \in [Slots -> 0..(MaxCalls * MaxAttempts)]
      /\ IF kind[s] \in Nodes THEN handle'[s] = Number(s) ELSE handle'[s] = handle[s]
  <2>1. CASE Phase(s).health
    <3>1. /\ handle' = [handle EXCEPT ![s] = Number(s)] /\ stage' = [stage EXCEPT ![s] = "up"]
          /\ step' = step /\ kind[s] \in Nodes
      BY <1>2, <2>1 DEF Starts, IsStart
    <3>2. step'[s] \in 0..Len(Plan(kind[s]))
      BY <3>1 DEF ProvInv, LoadTyped, LoadTypeOK, ProvTypeOK
    <3>3. At(s, "start")' BY <1>1, <3>1 DEF At, Phase
    <3>4. stage'[s] = "up" BY <1>3, <3>1
    <3>5. StageOK(s)' BY <1>1, <1>4, <1>6, <3>1, <3>3, <3>4 DEF StageOK, At, Phase
    <3> QED BY <1>3, <1>5, <3>1, <3>2, <3>4, <3>5
  <2>2. CASE ~Phase(s).health
    <3>1. Advance(s) /\ handle' = handle /\ kind[s] \notin Nodes
      BY <1>2, <2>2 DEF Starts, IsStart
    <3>2. /\ StageOK(s)' /\ step'[s] = step[s] + 1 /\ stage'[s] = "idle"
          /\ step' \in [Slots -> Nat] /\ stage' \in [Slots -> {"idle", "begun", "up"}]
          /\ step'[s] \in 0..Len(Plan(kind[s]))
          /\ \A r \in Slots \ {s} : step'[r] = step[r] /\ stage'[r] = stage[r]
      BY <1>1, <1>2, <1>4, <1>6, <3>1, AdvanceKeeps DEF ProvInv
    <3> QED BY <1>3, <3>1, <3>2
  <2> QED BY <2>1, <2>2
<1>10. Fixed BY <1>1 DEF Fixed
<1>11. ProvTypeOK'
  <2>1. c0 \in [slot : Slots, n : 1..(MaxCalls * MaxAttempts),
                ports : SUBSET (Ports \cup {ConfigPort}), cleanup : BOOLEAN]
    BY <1>3, <1>5 DEF AttemptPorts
  <2> HIDE DEF c0
  <2>2. ProvTypeOK BY DEF ProvInv, LoadTyped, LoadTypeOK
  <2>3. \A r \in Slots : step'[r] \in 0..Len(Plan(kind[r])) BY <1>9, <2>2 DEF ProvTypeOK
  <2> QED BY <1>1, <1>6, <1>9, <2>1, <2>2, <2>3 DEF ProvTypeOK
<1>12. ASSUME NEW r \in Slots \ {s} PROVE ProvOK(r)'
  <2> HIDE DEF c0
  <2> QED BY <1>1, <1>6, <1>8, <1>9, <1>10, UntouchedKept DEF Untouched, ProvInv
<1>13. Number(s)' = Number(s) BY <1>1 DEF Number
<1>14. c0.slot = s /\ c0.n = Number(s) /\ (c0.cleanup <=> conf[s].t = "test" /\ kind[s] # "cantonCTF")
  BY <1>2 DEF IsStart
<1>15. Number(s) \in Nat BY <1>5
<1> HIDE DEF c0
<1>16. \A c \in containers : c.slot = s => c.n < Number(s)
  BY <1>1 DEF ProvInv, ProvOK, NumberedOK
<1>17. NumberedOK(s)'
  BY <1>1, <1>3, <1>9, <1>13, <1>14, <1>15, <1>16 DEF ProvInv, ProvOK, NumberedOK
<1>18. HandleOK(s)'
  BY <1>1, <1>3, <1>9, <1>14, <1>15, <1>16 DEF ProvInv, ProvOK, HandleOK
<1>19. Running(s)' BY <1>1, <1>14 DEF Running
<1>20. ChainOK(s)' BY <1>1, <1>10, <1>19 DEF ProvInv, ProvOK, ChainOK, Fixed
<1> QED BY <1>7, <1>9, <1>10, <1>11, <1>12, <1>17, <1>18, <1>20 DEF Kept, ProvOK

\* A chain that is published, complete or in part.
LEMMA PublishesKeeps ==
  ASSUME ProvInv, NEW s \in Slots, Publishes(s), mode' = mode
  PROVE  Kept
<1>1. /\ UNCHANGED <<kind, conf, tries, taken, calls, handle, free, containers, spent,
                     cancelled>>
      /\ failed' = failed /\ At(s, "publish") /\ step[s] > 0 /\ ~At(s, "start")
      /\ chain' = [chain EXCEPT ![s] = Phase(s).chain]
  BY DEF Publishes, Advance, At
<1>2. taken[s] = {} /\ stage[s] = "idle" BY <1>1, Quiet
<1>3. /\ step \in [Slots -> Nat] /\ stage \in [Slots -> {"idle", "begun", "up"}]
      /\ chain \in [Slots -> {"nil", "part", "full"}]
      /\ answer \in [Slots -> {"none", "chain", "error", "exit"}]
  BY DEF ProvInv, LoadTyped, LoadTypeOK, ProvTypeOK
<1>4. \/ IsPart(kind[s], Phase(s)) /\ step[s] < Len(Plan(kind[s]))
      \/ Phase(s) = Publish("full") /\ step[s] = Len(Plan(kind[s]))
  BY <1>1, PhaseIs DEF At, ProvInv
<1>5. StageOK(s) /\ ChainOK(s) BY DEF ProvInv, ProvOK
<1>6. /\ chain' \in [Slots -> {"nil", "part", "full"}]
      /\ answer' \in [Slots -> {"none", "chain", "error", "exit"}]
      /\ step' \in [Slots -> Nat] /\ stage' \in [Slots -> {"idle", "begun", "up"}]
      /\ step'[s] \in 0..Len(Plan(kind[s])) /\ StageOK(s)' /\ stage'[s] # "begun"
      /\ \A r \in Slots \ {s} : /\ step'[r] = step[r] /\ stage'[r] = stage[r]
                                /\ chain'[r] = chain[r] /\ answer'[r] = answer[r]
      /\ \/ /\ chain'[s] = "part" /\ kind[s] \in CantonKinds /\ answer'[s] = answer[s]
            /\ step'[s] = step[s] + 1
         \/ chain'[s] = "full" /\ answer'[s] = "chain" /\ step'[s] = 0
  <2>1. CASE IsPart(kind[s], Phase(s)) /\ step[s] < Len(Plan(kind[s]))
    <3>1. Advance(s) /\ chain'[s] = "part" /\ kind[s] \in CantonKinds
          /\ chain' \in [Slots -> {"nil", "part", "full"}]
          /\ \A r \in Slots \ {s} : chain'[r] = chain[r]
      <4>1. step[s] # Len(Plan(kind[s]))
        BY <2>1, <1>3, PlansAre DEF ProvInv, LoadTyped, PlanOK
      <4>2. Phase(s).chain = "part" BY <2>1 DEF IsPart, Publish
      <4> QED BY <1>1, <1>3, <2>1, <4>1, <4>2 DEF Publishes, IsPart
    <3>2. /\ StageOK(s)' /\ step'[s] = step[s] + 1 /\ stage'[s] = "idle"
          /\ step' \in [Slots -> Nat] /\ stage' \in [Slots -> {"idle", "begun", "up"}]
          /\ step'[s] \in 0..Len(Plan(kind[s]))
          /\ \A r \in Slots \ {s} : step'[r] = step[r] /\ stage'[r] = stage[r]
      BY <1>1, <1>2, <1>5, <2>1, <3>1, AdvanceKeeps DEF ProvInv
    <3> QED BY <1>3, <3>1, <3>2 DEF Advance
  <2>2. CASE Phase(s) = Publish("full") /\ step[s] = Len(Plan(kind[s]))
    <3>1. /\ step' = [step EXCEPT ![s] = 0] /\ answer' = [answer EXCEPT ![s] = "chain"]
          /\ stage' = stage /\ chain' = [chain EXCEPT ![s] = "full"]
      BY <1>1, <2>2 DEF Publishes, Publish
    <3>2. step'[s] = 0 /\ stage'[s] = "idle" /\ taken'[s] = {} BY <1>1, <1>2, <1>3, <3>1
    <3>3. StageOK(s)' BY <3>2 DEF StageOK, At
    <3>4. 0 \in 0..Len(Plan(kind[s])) BY PlansAre DEF ProvInv, LoadTyped, PlanOK
    <3> QED BY <1>3, <3>1, <3>2, <3>3, <3>4
  <2> QED BY <1>4, <2>1, <2>2
<1>7. Fixed BY <1>1 DEF Fixed
<1>8. PortsOwned' BY <1>1, PortsKept DEF ProvInv
<1>9. ProvTypeOK'
  <2>1. ProvTypeOK BY DEF ProvInv, LoadTyped, LoadTypeOK
  <2>2. \A r \in Slots : step'[r] \in 0..Len(Plan(kind[r])) BY <1>6, <2>1 DEF ProvTypeOK
  <2> QED BY <1>1, <1>6, <2>1, <2>2 DEF ProvTypeOK
<1>10. ASSUME NEW r \in Slots \ {s} PROVE ProvOK(r)'
  BY <1>1, <1>6, <1>7, UntouchedKept DEF Untouched, ProvInv
<1>11. NumberedOK(s)' BY <1>1, <1>2, <1>6 DEF ProvInv, ProvOK, NumberedOK, Number
<1>12. HandleOK(s)' BY <1>1 DEF ProvInv, ProvOK, HandleOK
<1>13. Running(s)' <=> Running(s) BY <1>1 DEF Running
<1>14. kind[s] = "anvil" => step[s] = 5 /\ kind[s] \notin CantonKinds
  <2>1. kind[s] = "anvil" => kind[s] \notin CantonKinds BY DEF CantonKinds
  <2>2. kind[s] = "anvil" => Len(Plan(kind[s])) = 5
    BY PlansAre DEF ProvInv, LoadTyped, PlanOK
  <2> QED BY <1>4, <2>1, <2>2 DEF IsPart
<1>15. mode = "fork" => kind[s] = "anvil" BY DEF ProvInv, LoadTyped, KindsFor
<1>16. ChainOK(s)'
  <2>1. calls[s] >= 1 /\ answer[s] = "none" BY <1>1, <1>5 DEF StageOK
  <2> QED BY <1>1, <1>5, <1>6, <1>7, <1>13, <1>14, <1>15, <2>1 DEF ChainOK, Fixed
<1> QED BY <1>6, <1>7, <1>8, <1>9, <1>10, <1>11, <1>12, <1>16 DEF Kept, ProvOK

\* Removing the containers of a provider.
LEMMA CleanupKeeps ==
  ASSUME ProvInv, NEW s \in Slots, Cleanup(s), mode' = mode, mode # "fork"
  PROVE  Kept
<1> DEFINE mine == {c \in containers : c.slot = s /\ c.n = handle[s]}
           back == UNION {c.ports : c \in mine}
<1>1. /\ UNCHANGED <<kind, conf, step, stage, tries, taken, chain, answer, calls, free,
                     failed, cancelled>>
      /\ step[s] = 0 /\ containers' = containers \ mine
      /\ spent' = spent \cup (Ports \cap back) /\ handle' = [handle EXCEPT ![s] = 0]
  BY DEF Cleanup
<1>2. /\ handle \in [Slots -> 0..(MaxCalls * MaxAttempts)] /\ MaxCalls * MaxAttempts \in Nat
      /\ spent \subseteq Ports
  <2>1. \A i, j \in Nat : i * j \in Nat OBVIOUS
  <2> QED BY <2>1, ProvidersAssumption DEF ProvInv, LoadTyped, LoadTypeOK, ProvTypeOK
<1>3. /\ handle'[s] = 0 /\ handle' \in [Slots -> 0..(MaxCalls * MaxAttempts)]
      /\ \A r \in Slots \ {s} : handle'[r] = handle[r]
  BY <1>1, <1>2
<1>4. Fixed BY <1>1 DEF Fixed
<1>5. /\ \A c \in containers : c.slot # s => c \in containers'
      /\ \A c \in containers' : c \in containers
  BY <1>1
<1>6. PortsOwned'
  <2>1. /\ \A p \in back : \E c \in mine : p \in c.ports
        /\ \A c \in mine : c \in containers /\ \A p \in c.ports : p \in back
        /\ \A c \in containers : c \in containers' \/ c \in mine
        /\ \A c \in mine : c \notin containers'
    BY <1>1
  <2> HIDE DEF mine, back
  <2>2. \A c \in containers', p \in back \cap Ports : p \notin c.ports
    BY <1>5, <2>1 DEF ProvInv, PortsOwned
  <2>3. \A p \in back \cap Ports : p \notin free /\ \A r \in Slots : p \notin taken[r]
    BY <2>1 DEF ProvInv, PortsOwned
  <2>4. /\ free \cap spent = {}
        /\ \A r \in Slots : taken[r] \cap free = {} /\ taken[r] \cap spent = {}
        /\ \A q, r \in Slots : q # r => taken[q] \cap taken[r] = {}
        /\ \A c \in containers : c.ports \cap free = {} /\ c.ports \cap spent = {}
        /\ \A c \in containers, r \in Slots : c.ports \cap taken[r] = {}
        /\ \A c, d \in containers : c # d => c.ports \cap d.ports \cap Ports = {}
    BY DEF ProvInv, PortsOwned
  <2>5. \A p \in Ports : \/ p \in free \/ p \in spent \/ \E r \in Slots : p \in taken[r]
                         \/ \E c \in containers : p \in c.ports
    BY DEF ProvInv, PortsOwned
  <2>6. \A p \in Ports : \/ p \in free \/ p \in spent' \/ \E r \in Slots : p \in taken[r]
                         \/ \E c \in containers' : p \in c.ports
    BY <1>1, <2>1, <2>5
  <2> QED BY <1>1, <1>5, <2>2, <2>3, <2>4, <2>6 DEF PortsOwned
<1>7. ProvTypeOK'
  <2>1. spent' \subseteq Ports BY <1>1, <1>2
  <2> HIDE DEF mine, back
  <2> QED BY <1>1, <1>3, <1>5, <2>1 DEF ProvInv, LoadTyped, LoadTypeOK, ProvTypeOK
<1> HIDE DEF mine, back
<1>8. ASSUME NEW r \in Slots \ {s} PROVE ProvOK(r)'
  BY <1>1, <1>3, <1>4, <1>5, UntouchedKept DEF Untouched, ProvInv
<1>9. NumberedOK(s)' BY <1>1, <1>5 DEF ProvInv, ProvOK, NumberedOK, Number
<1>10. HandleOK(s)' BY <1>3 DEF HandleOK
<1>11. StageOK(s)' BY <1>1 DEF ProvInv, ProvOK, StageOK, At, Phase, Configured
<1>12. ChainOK(s)' BY <1>1, <1>4 DEF ProvInv, ProvOK, ChainOK, Fixed
<1> QED BY <1>1, <1>4, <1>6, <1>7, <1>8, <1>9, <1>10, <1>11, <1>12
  DEF Kept, ProvOK, ProvInv, LoadTyped

\* Every step of Initialize.
LEMMA ProviderKeeps ==
  ASSUME ProvInv, NEW s \in Slots, InitStep(s), mode' = mode
  PROVE  Kept
BY CheckPassesKeeps, CheckFailsKeeps, TakePortsKeeps, StartFailsKeeps, StartsKeeps, HealthyKeeps,
   UnhealthyKeeps, PublishesKeeps DEF InitStep

\* Nothing of the providers changes but the pool: the default port of a fork.
LEMMA DefaultPortKeeps ==
  ASSUME ProvInv, DefaultPort, mode' = mode,
         UNCHANGED <<kind, conf, step, stage, tries, taken, chain, answer, calls, handle,
                     containers, failed, cancelled>>
  PROVE  Kept
<1>1. free \subseteq Ports /\ spent \subseteq Ports /\ IsFiniteSet(free)
  BY ProvidersAssumption, FS_Subset DEF ProvInv, LoadTyped, LoadTypeOK, ProvTypeOK
<1>2. PICK P \in SUBSET free : free' = free \ P /\ spent' = spent \cup P
  <2>1. CASE free = {} BY <2>1 DEF DefaultPort
  <2>2. CASE free # {}
    <3>1. Cardinality(free) \in Nat /\ Cardinality(free) # 0
      BY <1>1, <2>2, FS_CardinalityType, FS_EmptySet
    <3>2. Lowest(1) \subseteq free BY <3>1, LowestIn DEF ProvInv
    <3> QED BY <2>2, <3>2 DEF DefaultPort
  <2> QED BY <2>1, <2>2
<1>3. PortsOwned' BY <1>1, <1>2 DEF ProvInv, PortsOwned
<1>4. ProvTypeOK' BY <1>1, <1>2 DEF ProvInv, LoadTyped, LoadTypeOK, ProvTypeOK
<1>5. Fixed BY DEF Fixed
<1>6. ASSUME NEW r \in Slots PROVE ProvOK(r)'
  BY <1>5, UntouchedKept DEF Untouched, ProvInv
<1> QED BY <1>3, <1>4, <1>5, <1>6 DEF Kept, ProvInv, LoadTyped

\* Nothing of the providers changes at all, or only that the context is cancelled.
LEMMA ProvidersRest ==
  ASSUME ProvInv, mode' = mode, UNCHANGED provVars \/ Cancel
  PROVE  Kept
<1>1. /\ UNCHANGED <<kind, conf, step, stage, tries, taken, chain, answer, calls, handle, free,
                     containers, spent, failed>>
      /\ cancelled' \in BOOLEAN
  BY DEF ProvInv, LoadTyped, LoadTypeOK, ProvTypeOK, Cancel, provVars
<1>2. PortsOwned' BY <1>1, PortsKept DEF ProvInv
<1>3. ProvTypeOK' BY <1>1 DEF ProvInv, LoadTyped, LoadTypeOK, ProvTypeOK
<1>4. Fixed BY <1>1 DEF Fixed
<1>5. ASSUME NEW r \in Slots PROVE ProvOK(r)'
  BY <1>1, <1>4, UntouchedKept DEF Untouched, ProvInv
<1> QED BY <1>1, <1>2, <1>3, <1>4, <1>5 DEF Kept, ProvInv, LoadTyped

-----------------------------------------------------------------------------
(* Loading chains: goroutines and callers.                                 *)

\* A goroutine calls Initialize once, between "load" and "done"; what it stores
\* as a chain is complete.  In Load the selectors with a loader have one, and
\* every goroutine that is done stored something; in a test all have one, and
\* one that stored nothing failed the test.
GoroutineOK(s) ==
  /\ mode # "direct" => calls[s] <= 1 /\ (gor[s] \in {"none", "load"} => calls[s] = 0)
  /\ mode = "direct" => gor[s] = "none"
  /\ mode = "fork" => gor[s] # "load"
  /\ result[s] = "chain" => gor[s] = "done" /\ chain[s] = "full"
  /\ mode = "env" /\ gor[s] = "done" => result[s] # "none"
  /\ mode = "env" /\ pc \in {"files", "chains"} => gor[s] = "none"
  /\ mode = "env" /\ pc \in {"wait", "rest", "ready"} => (s \in Loadable <=> gor[s] # "none")
  /\ mode = "test" /\ gor[s] = "done" /\ result[s] = "none" => failed
  /\ mode = "test" /\ pc = "files" => gor[s] = "none"
  /\ mode = "test" /\ pc = "wait" => gor[s] # "none"

\* Where a caller can be, and what it has got by then.
CallerOK ==
  /\ mode = "env" => pc \in {"files", "chains", "wait", "rest", "ready", "error"}
  /\ mode = "fork" =>
       pc \in {"files", "chains", "ready", "error", "crash", "aborted", "applied"}
  /\ mode = "test" => pc \in {"files", "wait", "ready", "error"}
  /\ mode = "direct" => pc = "files"
  /\ \A s \in loaded : result[s] = "chain"
  /\ pc \in {"files", "chains", "wait", "rest"} => jd = "nil"
  /\ mode = "env" /\ pc \in {"rest", "ready"} => loaded = Loadable
  /\ mode = "env" /\ pc = "ready" => (jd = "client" <=> jdcfg = "ok")
  /\ mode = "test" /\ pc = "ready" => loaded = Slots \/ failed
  /\ mode = "fork" /\ pc \in {"ready", "aborted", "applied"} =>
       (jd = "client" <=> jdcfg = "ok") /\ jdcfg # "noendpoint"

LoadInv == ProvInv /\ CallerOK /\ \A s \in Slots : GoroutineOK(s)

LoadVarsTyped ==
  /\ gor \in [Slots -> {"none", "load", "init", "done"}]
  /\ result \in [Slots -> {"none", "chain", "error"}]
  /\ loaded \subseteq Slots /\ jd \in {"nil", "client"} /\ sent \in 0..Txs

\* A step that keeps the providers' invariant, seen from the loader.
LEMMA ProvInvKept ==
  ASSUME ProvInv, Kept, LoadVarsTyped', jdcfg' = jdcfg
  PROVE  ProvInv'
<1>1. kind' = kind /\ conf' = conf /\ mode' = mode BY DEF Kept, Fixed
<1>2. LoadTypeOK' BY DEF Kept, LoadTypeOK, LoadVarsTyped
<1>3. LoadTyped' BY <1>1, <1>2 DEF ProvInv, LoadTyped, Kept
<1> QED BY <1>3 DEF ProvInv, Kept

\* A step of Initialize counts no call and changes only its own chain.
LEMMA StepTouches ==
  ASSUME ProvInv, NEW s \in Slots, InitStep(s)
  PROVE  calls' = calls /\ \A r \in Slots \ {s} : chain'[r] = chain[r]
<1>1. chain \in [Slots -> {"nil", "part", "full"}]
  BY DEF ProvInv, LoadTyped, LoadTypeOK, ProvTypeOK
<1> QED BY <1>1 DEF InitStep, CheckPasses, CheckFails, TakePorts, StartFails, Starts, Healthy,
                    Unhealthy, Publishes

\* The provider takes a step while its goroutine is in Initialize.
LEMMA LoaderStepKeeps ==
  ASSUME LoadInv, NEW s \in Slots, LoaderStep(s)
  PROVE  LoadInv'
<1>1. /\ UNCHANGED <<mode, keys, family, jdcfg, pc, gor, result, loaded, jd, sent>>
      /\ InitStep(s) /\ (gor[s] = "init" \/ mode = "direct")
  BY DEF LoaderStep, loadVars
<1>2. Kept BY <1>1, ProviderKeeps DEF LoadInv
<1>3. LoadVarsTyped' BY <1>1 DEF LoadInv, ProvInv, LoadTyped, LoadTypeOK, LoadVarsTyped
<1>4. ProvInv' BY <1>1, <1>2, <1>3, ProvInvKept DEF LoadInv
<1>5. kind' = kind /\ (failed => failed') BY <1>2 DEF Kept, Fixed
<1>6. calls' = calls /\ \A r \in Slots \ {s} : chain'[r] = chain[r]
  BY <1>1, StepTouches DEF LoadInv
<1>7. Loadable' = Loadable BY <1>1, <1>5 DEF Loadable
<1>8. ASSUME NEW r \in Slots PROVE GoroutineOK(r)'
  <2>1. GoroutineOK(r) BY DEF LoadInv
  <2>2. result[s] # "chain" BY <1>1 DEF LoadInv, GoroutineOK
  <2> QED BY <1>1, <1>5, <1>6, <1>7, <2>1, <2>2 DEF GoroutineOK
<1>9. CallerOK' BY <1>1, <1>5, <1>7 DEF LoadInv, CallerOK
<1> QED BY <1>4, <1>8, <1>9 DEF LoadInv

\* A goroutine, a fork or a test calls Initialize.
LEMMA LoaderCallsKeeps ==
  ASSUME LoadInv, NEW s \in Slots, LoaderCalls(s) \/ ForkCalls(s) \/ DirectCall(s)
  PROVE  LoadInv'
<1>1. /\ UNCHANGED <<mode, keys, family, jdcfg, pc, result, loaded, jd, sent>> /\ Initialize(s)
      /\ \/ mode \in {"env", "test"} /\ gor[s] = "load" /\ gor' = [gor EXCEPT ![s] = "init"]
         \/ mode = "fork" /\ gor[s] = "none" /\ gor' = [gor EXCEPT ![s] = "init"]
         \/ mode = "direct" /\ gor' = gor
  BY DEF LoaderCalls, ForkCalls, DirectCall, Turn, loadVars, LoadInv, GoroutineOK, ProvInv,
     LoadTyped
<1>2. Kept BY <1>1, InitializeKeeps DEF LoadInv
<1>3. LoadVarsTyped' BY <1>1 DEF LoadInv, ProvInv, LoadTyped, LoadTypeOK, LoadVarsTyped
<1>4. ProvInv' BY <1>1, <1>2, <1>3, ProvInvKept DEF LoadInv
<1>5. kind' = kind /\ chain' = chain /\ failed' = failed BY <1>1 DEF Initialize
<1>6. /\ calls \in [Slots -> 0..MaxCalls] /\ MaxCalls \in Nat
      /\ gor \in [Slots -> {"none", "load", "init", "done"}]
  BY ProvidersAssumption DEF LoadInv, ProvInv, LoadTyped, LoadTypeOK, ProvTypeOK
<1>7. calls'[s] = calls[s] + 1 /\ \A r \in Slots \ {s} : calls'[r] = calls[r]
  BY <1>1, <1>6 DEF Initialize
<1>8. Loadable' = Loadable BY <1>1, <1>5 DEF Loadable
<1>9. ASSUME NEW r \in Slots PROVE GoroutineOK(r)'
  <2>1. GoroutineOK(r) BY DEF LoadInv
  <2>2. CASE r = s
    <3>1. mode # "direct" => calls'[s] <= 1
      BY <1>1, <1>6, <1>7, <2>1, <2>2 DEF GoroutineOK
    <3>2. mode # "direct" => gor'[s] = "init" BY <1>1, <1>6
    <3> QED BY <1>1, <1>5, <1>8, <2>1, <2>2, <3>1, <3>2 DEF GoroutineOK
  <2>3. CASE r # s
    <3>1. gor'[r] = gor[r] BY <1>1, <1>6, <2>3
    <3> QED BY <1>1, <1>5, <1>7, <1>8, <2>1, <2>3, <3>1 DEF GoroutineOK
  <2> QED BY <2>2, <2>3
<1>10. CallerOK' BY <1>1, <1>5, <1>8 DEF LoadInv, CallerOK
<1> QED BY <1>4, <1>9, <1>10 DEF LoadInv

\* What a goroutine stores.
LEMMA StoreKeeps ==
  ASSUME LoadInv, NEW s \in Slots, NEW x \in {"none", "chain", "error"}, Store(s, x),
         UNCHANGED <<provVars, mode, keys, family, jdcfg, loaded, jd, sent>>,
         mode # "direct", gor[s] # "done",
         mode \in {"env", "test"} => pc' = pc /\ gor[s] # "none",
         mode = "fork" => pc = "chains" /\ pc' \in {"chains", "crash", "error"},
         x = "chain" => chain[s] = "full", mode = "env" => x # "none",
         mode = "test" /\ x = "none" => failed
  PROVE  LoadInv'
<1>1. UNCHANGED <<kind, chain, calls, failed>> BY DEF provVars
<1>2. Kept BY ProvidersRest DEF LoadInv
<1>3. /\ gor \in [Slots -> {"none", "load", "init", "done"}]
      /\ result \in [Slots -> {"none", "chain", "error"}]
  BY DEF LoadInv, ProvInv, LoadTyped, LoadTypeOK
<1>4. /\ gor'[s] = "done" /\ result'[s] = x
      /\ \A r \in Slots \ {s} : gor'[r] = gor[r] /\ result'[r] = result[r]
      /\ gor' \in [Slots -> {"none", "load", "init", "done"}]
      /\ result' \in [Slots -> {"none", "chain", "error"}]
  BY <1>3 DEF Store
<1>5. LoadVarsTyped' BY <1>4 DEF LoadInv, ProvInv, LoadTyped, LoadTypeOK, LoadVarsTyped
<1>6. ProvInv' BY <1>2, <1>5, ProvInvKept DEF LoadInv
<1>7. Loadable' = Loadable BY <1>1 DEF Loadable
<1>8. mode \in {"env", "fork", "test"} BY DEF LoadInv, ProvInv, LoadTyped
<1>9. ASSUME NEW r \in Slots PROVE GoroutineOK(r)'
  <2>1. GoroutineOK(r) BY DEF LoadInv
  <2>2. CASE r = s BY <1>1, <1>4, <1>7, <1>8, <2>1, <2>2 DEF GoroutineOK
  <2>3. CASE r # s BY <1>1, <1>4, <1>7, <1>8, <2>1, <2>3 DEF GoroutineOK
  <2> QED BY <2>2, <2>3
<1>10. CallerOK'
  <2>1. s \notin loaded BY DEF LoadInv, CallerOK, GoroutineOK
  <2>2. \A r \in loaded : result'[r] = "chain"
    BY <1>4, <2>1 DEF LoadInv, CallerOK, ProvInv, LoadTyped, LoadTypeOK
  <2> QED BY <1>1, <1>7, <1>8, <2>2 DEF LoadInv, CallerOK
<1> QED BY <1>6, <1>9, <1>10 DEF LoadInv

\* A goroutine ends, with a result or without.
LEMMA LoaderReturnsKeeps ==
  ASSUME LoadInv, NEW s \in Slots,
         LoaderFails(s) \/ LoaderReturns(s) \/ ForkExcludes(s) \/ ForkReturns(s)
  PROVE  LoadInv'
<1>1. GoroutineOK(s) /\ ChainOK(s) /\ answer[s] \in {"none", "chain", "error", "exit"}
  BY DEF LoadInv, ProvInv, ProvOK, LoadTyped, LoadTypeOK, ProvTypeOK
<1>2. mode \in {"env", "fork", "test", "direct"} /\ (mode = "env" => kind[s] \in LoadKinds)
  BY DEF LoadInv, ProvInv, LoadTyped, KindsFor
<1>3. calls[s] \in Nat BY DEF LoadInv, ProvInv, LoadTyped, LoadTypeOK, ProvTypeOK
<1>4. CASE LoaderFails(s)
  <2>1. /\ Store(s, "error") /\ UNCHANGED <<provVars, mode, keys, family, jdcfg, pc,
                                            loaded, jd, sent>>
        /\ mode = "env" /\ gor[s] = "load"
    BY <1>4 DEF LoaderFails
  <2> HIDE DEF LoadInv
  <2> QED BY <2>1, StoreKeeps
<1>5. CASE LoaderReturns(s)
  <2> DEFINE x == IF answer[s] = "exit" THEN "none" ELSE answer[s]
  <2>1. /\ Store(s, x) /\ UNCHANGED <<provVars, mode, keys, family, jdcfg, pc, loaded,
                                      jd, sent>>
        /\ mode \in {"env", "test"} /\ gor[s] = "init" /\ answer[s] # "none"
    BY <1>1, <1>2, <1>5 DEF LoaderReturns, GoroutineOK
  <2>2. x \in {"none", "chain", "error"} BY <1>1, <2>1
  <2>3. x = "chain" => chain[s] = "full"
    BY <1>1, <1>3, <2>1 DEF ChainOK, GoroutineOK
  <2>4. mode = "env" => x # "none" BY <1>1, <1>2, <2>1 DEF ChainOK
  <2>5. x = "none" => failed BY <1>1, <2>1 DEF ChainOK
  <2> HIDE DEF LoadInv, x
  <2> QED BY <2>1, <2>2, <2>3, <2>4, <2>5, StoreKeeps
<1>6. CASE ForkExcludes(s)
  <2>1. /\ Store(s, "none") /\ UNCHANGED <<provVars, mode, keys, family, jdcfg, pc,
                                           loaded, jd, sent>>
        /\ mode = "fork" /\ pc = "chains" /\ gor[s] = "none"
    BY <1>6 DEF ForkExcludes, Turn
  <2> HIDE DEF LoadInv
  <2> QED BY <2>1, StoreKeeps
<1>7. CASE ForkReturns(s)
  <2> DEFINE x == IF answer[s] = "chain" THEN "chain" ELSE "error"
  <2>1. /\ Store(s, x) /\ UNCHANGED <<provVars, mode, keys, family, jdcfg, loaded, jd, sent>>
        /\ mode = "fork" /\ gor[s] = "init" /\ pc = "chains"
        /\ pc' \in {"chains", "crash", "error"}
    BY <1>7 DEF ForkReturns, Goto
  <2>2. x \in {"none", "chain", "error"} OBVIOUS
  <2>3. x = "chain" => chain[s] = "full"
    BY <1>1, <1>3, <2>1 DEF ChainOK, GoroutineOK
  <2> HIDE DEF LoadInv, x
  <2> QED BY <2>1, <2>2, <2>3, StoreKeeps
<1> QED BY <1>4, <1>5, <1>6, <1>7

\* A step of the caller that leaves the providers alone.
LEMMA CallerKeeps ==
  ASSUME LoadInv, UNCHANGED <<provVars, mode, keys, jdcfg>>, LoadVarsTyped',
         Loadable' = Loadable => CallerOK' /\ \A r \in Slots : GoroutineOK(r)'
  PROVE  LoadInv'
<1>1. Kept BY ProvidersRest DEF LoadInv
<1>2. ProvInv' BY <1>1, ProvInvKept DEF LoadInv
<1>3. Loadable' = Loadable BY DEF Loadable, provVars
<1> QED BY <1>2, <1>3 DEF LoadInv

\* The files are read and the goroutines are started.
LEMMA StartsLoadingKeeps ==
  ASSUME LoadInv, LoadFiles \/ LoadChains \/ LoadChainsParallel \/ ForkConfig
  PROVE  LoadInv'
<1>1. UNCHANGED <<provVars, mode, keys, family, jdcfg, result, loaded, jd, sent>>
  BY DEF LoadFiles, LoadChains, LoadChainsParallel, ForkConfig
<1>2. /\ mode \in {"env", "fork", "test"} /\ (mode # "fork" => \A r \in Slots : gor[r] = "none")
      /\ \/ mode \in {"env", "fork"} /\ gor' = gor /\ pc' \in {"chains", "error"}
         \/ /\ mode = "env" /\ pc' = "wait"
            /\ gor' = [s \in Slots |-> IF s \in Loadable THEN "load" ELSE "none"]
         \/ mode = "test" /\ pc' = "wait" /\ gor' = [s \in Slots |-> "load"]
  BY DEF LoadFiles, LoadChains, LoadChainsParallel, ForkConfig, Goto, LoadInv, GoroutineOK
<1>3. pc \in {"files", "chains"}
  BY DEF LoadFiles, LoadChains, LoadChainsParallel, ForkConfig
<1>4. LoadVarsTyped'
  BY <1>1, <1>2 DEF LoadInv, ProvInv, LoadTyped, LoadTypeOK, LoadVarsTyped
<1>5. UNCHANGED <<calls, chain, failed>> BY <1>1 DEF provVars
<1>6. ASSUME Loadable' = Loadable, NEW r \in Slots PROVE GoroutineOK(r)'
  <2>1. GoroutineOK(r) BY DEF LoadInv
  <2>2. gor'[r] = IF gor' = gor THEN gor[r]
                  ELSE IF mode = "env" /\ r \notin Loadable THEN "none" ELSE "load"
    BY <1>2
  <2> QED BY <1>1, <1>2, <1>3, <1>5, <1>6, <2>1, <2>2 DEF GoroutineOK
<1>7. ASSUME Loadable' = Loadable PROVE CallerOK'
  BY <1>1, <1>2, <1>3, <1>5 DEF LoadInv, CallerOK
<1> QED BY <1>1, <1>4, <1>6, <1>7, CallerKeeps

\* The loader gathers what its goroutines stored.
LEMMA GatherKeeps ==
  ASSUME LoadInv, Gather
  PROVE  LoadInv'
<1>1. /\ UNCHANGED <<provVars, mode, keys, family, jdcfg, gor, result, jd, sent>>
      /\ pc = "wait" /\ \A s \in Slots : gor[s] \in {"none", "done"}
      /\ UNCHANGED <<calls, chain, failed>>
  BY DEF Gather, provVars
<1>2. mode \in {"env", "test"} BY <1>1 DEF LoadInv, CallerOK, ProvInv, LoadTyped
<1>3. \A s \in Slots : GoroutineOK(s) /\ result[s] \in {"none", "chain", "error"}
  BY DEF LoadInv, ProvInv, LoadTyped, LoadTypeOK
<1>4. CASE \E s \in Slots : result[s] = "error"
  <2>1. pc' = "error" /\ loaded' = loaded BY <1>4 DEF Gather, Goto
  <2>2. LoadVarsTyped'
    BY <1>1, <2>1 DEF LoadInv, ProvInv, LoadTyped, LoadTypeOK, LoadVarsTyped
  <2>3. ASSUME Loadable' = Loadable, NEW r \in Slots PROVE GoroutineOK(r)'
    BY <1>1, <1>3, <2>1, <2>3 DEF GoroutineOK
  <2>4. ASSUME Loadable' = Loadable PROVE CallerOK'
    BY <1>1, <1>2, <2>1, <2>4 DEF LoadInv, CallerOK
  <2> QED BY <1>1, <2>2, <2>3, <2>4, CallerKeeps
<1>5. CASE \A s \in Slots : result[s] # "error"
  <2>1. /\ loaded' = {s \in Slots : result[s] = "chain"}
        /\ pc' = IF mode = "test" THEN "ready" ELSE "rest"
    BY <1>5 DEF Gather, Goto
  <2>2. LoadVarsTyped'
    BY <1>1, <2>1 DEF LoadInv, ProvInv, LoadTyped, LoadTypeOK, LoadVarsTyped
  <2>3. ASSUME Loadable' = Loadable, NEW r \in Slots PROVE GoroutineOK(r)'
    BY <1>1, <1>2, <1>3, <2>1, <2>3 DEF GoroutineOK
  <2>4. mode = "env" => loaded' = Loadable
    <3> SUFFICES ASSUME mode = "env" PROVE loaded' = Loadable OBVIOUS
    <3>1. \A s \in Slots : s \in Loadable <=> gor[s] = "done"
      BY <1>1, <1>3 DEF GoroutineOK
    <3>2. \A s \in Slots : gor[s] = "done" <=> result[s] = "chain"
      BY <1>3, <1>5 DEF GoroutineOK
    <3> QED BY <2>1, <3>1, <3>2 DEF Loadable
  <2>5. mode = "test" => loaded' = Slots \/ failed
    BY <1>1, <1>3, <1>5, <2>1 DEF GoroutineOK
  <2>6. ASSUME Loadable' = Loadable PROVE CallerOK'
    <3>1. \A s \in loaded' : result[s] = "chain" BY <2>1
    <3>2. jd = "nil" BY <1>1 DEF LoadInv, CallerOK
    <3> QED BY <1>1, <1>2, <2>1, <2>4, <2>5, <2>6, <3>1, <3>2 DEF CallerOK
  <2> QED BY <1>1, <2>2, <2>3, <2>6, CallerKeeps
<1> QED BY <1>4, <1>5

\* The end of Load and of LoadFork, with the Job Distributor.
LEMMA RestKeeps ==
  ASSUME LoadInv, LoadRest \/ ForkRest
  PROVE  LoadInv'
<1>1. /\ UNCHANGED <<provVars, mode, keys, family, jdcfg, gor, result, sent>>
      /\ UNCHANGED <<calls, chain, failed>> /\ pc \in {"chains", "rest"}
      /\ \/ mode = "env" /\ pc = "rest" /\ loaded' = loaded
         \/ mode = "fork" /\ loaded' = {s \in Slots : result[s] = "chain"}
      /\ LoadJD \/ (pc' = "error" /\ jd' = jd)
  BY DEF LoadRest, ForkRest, Goto, provVars
<1>2. jd = "nil" BY <1>1 DEF LoadInv, CallerOK
<1>3. \/ pc' = "error" /\ jd' = "nil"
      \/ pc' = "ready" /\ jd' = "nil" /\ jdcfg = "without"
      \/ pc' = "ready" /\ jd' = "client" /\ jdcfg = "ok"
      \/ pc' = "ready" /\ jd' = "nil" /\ jdcfg = "noendpoint" /\ mode # "fork"
  <2>1. jdcfg \in {"without", "noendpoint", "broken", "ok"} BY DEF LoadInv, ProvInv, LoadTyped
  <2> QED BY <1>1, <1>2, <2>1 DEF LoadJD, Goto
<1>4. LoadVarsTyped'
  BY <1>1, <1>3 DEF LoadInv, ProvInv, LoadTyped, LoadTypeOK, LoadVarsTyped
<1>5. ASSUME Loadable' = Loadable, NEW r \in Slots PROVE GoroutineOK(r)'
  <2>1. GoroutineOK(r) BY DEF LoadInv
  <2> QED BY <1>1, <1>3, <1>5, <2>1 DEF GoroutineOK
<1>6. ASSUME Loadable' = Loadable PROVE CallerOK'
  <2>1. \A s \in loaded' : result[s] = "chain" BY <1>1 DEF LoadInv, CallerOK
  <2> QED BY <1>1, <1>3, <1>6, <2>1 DEF LoadInv, CallerOK
<1> QED BY <1>1, <1>4, <1>5, <1>6, CallerKeeps

\* What a fork does once it has its environment.
LEMMA ForkEndKeeps ==
  ASSUME LoadInv, ApplySends \/ ApplyFails \/ ApplyMerges
                  \/ \E s \in Slots : ForkFails(s) \/ ForkPanics(s)
  PROVE  LoadInv'
<1>1. /\ UNCHANGED <<provVars, mode, keys, family, jdcfg, gor, result, loaded, jd>>
      /\ UNCHANGED <<calls, chain, failed>> /\ mode = "fork"
      /\ \/ pc = "ready" /\ pc' \in {"ready", "aborted", "applied"}
         \/ pc = "chains" /\ pc' \in {"error", "crash"}
      /\ sent' = sent \/ (sent < Txs /\ sent' = sent + 1)
  BY DEF ApplySends, ApplyFails, ApplyMerges, ForkFails, ForkPanics, Turn, Goto, provVars
<1>2. sent' \in 0..Txs
  BY <1>1, LoadingAssumption DEF LoadInv, ProvInv, LoadTyped, LoadTypeOK
<1>3. LoadVarsTyped'
  BY <1>1, <1>2 DEF LoadInv, ProvInv, LoadTyped, LoadTypeOK, LoadVarsTyped
<1>4. ASSUME Loadable' = Loadable, NEW r \in Slots PROVE GoroutineOK(r)'
  <2>1. GoroutineOK(r) BY DEF LoadInv
  <2> QED BY <1>1, <1>4, <2>1 DEF GoroutineOK
<1>5. ASSUME Loadable' = Loadable PROVE CallerOK'
  BY <1>1, <1>5 DEF LoadInv, CallerOK
<1> QED BY <1>1, <1>3, <1>4, <1>5, CallerKeeps

\* The pool changes, a container is removed or the context is cancelled.
LEMMA ResourcesKeeps ==
  ASSUME LoadInv, Cancelled \/ \E s \in Slots : ForkDefaults(s) \/ DirectCleanup(s)
  PROVE  LoadInv'
<1>1. /\ UNCHANGED <<mode, keys, jdcfg, pc, gor, result, loaded, jd, sent>>
      /\ UNCHANGED <<kind, calls, chain, failed>>
  BY DEF Cancelled, ForkDefaults, DirectCleanup, Cancel, Cleanup, loadVars
<1>2. Kept
  <2>1. CASE Cancelled BY <1>1, <2>1, ProvidersRest DEF Cancelled, LoadInv
  <2>2. ASSUME NEW s \in Slots, ForkDefaults(s) PROVE Kept
    BY <2>2, DefaultPortKeeps DEF ForkDefaults, LoadInv
  <2>3. ASSUME NEW s \in Slots, DirectCleanup(s) PROVE Kept
    BY <1>1, <2>3, CleanupKeeps DEF DirectCleanup, LoadInv
  <2> QED BY <2>1, <2>2, <2>3
<1>3. LoadVarsTyped' BY <1>1 DEF LoadInv, ProvInv, LoadTyped, LoadTypeOK, LoadVarsTyped
<1>4. ProvInv' BY <1>1, <1>2, <1>3, ProvInvKept DEF LoadInv
<1>5. Loadable' = Loadable BY <1>1 DEF Loadable
<1>6. ASSUME NEW r \in Slots PROVE GoroutineOK(r)'
  <2>1. GoroutineOK(r) BY DEF LoadInv
  <2> QED BY <1>1, <1>5, <2>1 DEF GoroutineOK
<1>7. CallerOK' BY <1>1, <1>5 DEF LoadInv, CallerOK
<1> QED BY <1>4, <1>6, <1>7 DEF LoadInv

\* The invariant holds at first.
LEMMA LoadInitInv == LoadInit => LoadInv
<1> SUFFICES ASSUME LoadInit PROVE LoadInv OBVIOUS
<1>1. /\ mode \in {"env", "fork", "test", "direct"} /\ kind \in [Slots -> KindsFor(mode)]
      /\ conf \in [Slots -> [port : BOOLEAN, t : {"none", "test", "zero"}]]
      /\ mode = "fork" => \A s \in Slots : conf[s].t = "zero"
      /\ \A s \in Slots : conf[s] \in Confs(kind[s])
      /\ jdcfg \in {"without", "noendpoint", "broken", "ok"}
      /\ pc = "files" /\ loaded = {} /\ jd = "nil" /\ sent = 0
      /\ \A s \in Slots : gor[s] = "none" /\ result[s] = "none"
      /\ gor \in [Slots -> {"none", "load", "init", "done"}]
      /\ result \in [Slots -> {"none", "chain", "error"}]
  BY DEF LoadInit
<1>2. /\ step = [s \in Slots |-> 0] /\ stage = [s \in Slots |-> "idle"]
      /\ tries = [s \in Slots |-> 0] /\ taken = [s \in Slots |-> {}]
      /\ chain = [s \in Slots |-> "nil"] /\ answer = [s \in Slots |-> "none"]
      /\ calls = [s \in Slots |-> 0] /\ handle = [s \in Slots |-> 0]
      /\ free = Ports /\ containers = {} /\ spent = {} /\ failed = FALSE /\ cancelled = FALSE
  BY DEF LoadInit, ProvInit
<1>3. KindsFor(mode) \subseteq Providers \cup LoadKinds
  BY <1>1 DEF KindsFor, Providers, LoadKinds, TestKinds
<1>4. \A s \in Slots : PlanOK(kind[s], Plan(kind[s])) /\ 0 \in 0..Len(Plan(kind[s]))
  BY <1>1, <1>3, PlansAre DEF PlanOK
<1>5. MaxAttempts \in Nat /\ MaxCalls \in Nat /\ 0 \in 0..(MaxCalls * MaxAttempts)
  <2>1. \A i, j \in Nat : i * j \in Nat OBVIOUS
  <2> QED BY <2>1, ProvidersAssumption
<1>6. ProvTypeOK
  <2>1. \A s \in Slots : /\ kind[s] \in Providers \cup LoadKinds /\ conf[s] \in Confs(kind[s])
                         /\ step[s] \in 0..Len(Plan(kind[s]))
    BY <1>1, <1>2, <1>3, <1>4
  <2>2. /\ stage \in [Slots -> {"idle", "begun", "up"}] /\ taken \in [Slots -> SUBSET Ports]
        /\ chain \in [Slots -> {"nil", "part", "full"}]
        /\ answer \in [Slots -> {"none", "chain", "error", "exit"}]
    BY <1>2
  <2>3. tries \in [Slots -> 0..MaxAttempts] /\ calls \in [Slots -> 0..MaxCalls]
    <3>1. 0 \in 0..MaxAttempts /\ 0 \in 0..MaxCalls BY <1>5
    <3> QED BY <1>2, <3>1
  <2>4. handle \in [Slots -> 0..(MaxCalls * MaxAttempts)] BY <1>2, <1>5
  <2>5. free \subseteq Ports /\ spent \subseteq Ports /\ failed \in BOOLEAN /\ cancelled \in BOOLEAN
    BY <1>2
  <2> QED BY <1>2, <2>1, <2>2, <2>3, <2>4, <2>5 DEF ProvTypeOK
<1>7. LoadTyped
  <2>1. LoadTypeOK BY <1>1, <1>6, LoadingAssumption DEF LoadTypeOK
  <2> QED BY <1>1, <1>2, <1>3, <2>1 DEF LoadTyped
<1>8. PortsOwned BY <1>2 DEF PortsOwned
<1>9. ASSUME NEW r \in Slots PROVE ProvOK(r) /\ GoroutineOK(r)
  <2>1. StageOK(r) BY <1>2 DEF StageOK, At
  <2>2. NumberedOK(r) /\ HandleOK(r) /\ ChainOK(r) BY <1>2 DEF NumberedOK, HandleOK, ChainOK
  <2>3. GoroutineOK(r) BY <1>1, <1>2 DEF GoroutineOK
  <2> QED BY <2>1, <2>2, <2>3 DEF ProvOK
<1>10. CallerOK BY <1>1 DEF CallerOK
<1> QED BY <1>7, <1>8, <1>9, <1>10 DEF LoadInv, ProvInv

\* Every step keeps the invariant.
LEMMA LoadNextInv == LoadInv /\ [LoadNext]_loadingVars => LoadInv'
<1> SUFFICES ASSUME LoadInv, [LoadNext]_loadingVars PROVE LoadInv' OBVIOUS
<1>1. CASE CallerNext
  BY <1>1, StartsLoadingKeeps, GatherKeeps, RestKeeps DEF CallerNext
<1>2. CASE ApplySends \/ ApplyFails \/ ApplyMerges \/ Cancelled
  BY <1>2, ForkEndKeeps, ResourcesKeeps
<1>3. ASSUME NEW s \in Slots, LoaderNext(s) PROVE LoadInv'
  BY <1>3, LoaderCallsKeeps, LoaderStepKeeps, LoaderReturnsKeeps, ForkEndKeeps, ResourcesKeeps
  DEF LoaderNext
<1>4. ASSUME NEW s \in Slots, DirectCall(s) \/ DirectCleanup(s) PROVE LoadInv'
  BY <1>4, LoaderCallsKeeps, ResourcesKeeps
<1>5. CASE UNCHANGED loadingVars
  <2>1. UNCHANGED <<provVars, mode, keys, family, jdcfg, pc, gor, result, loaded, jd, sent>>
    BY <1>5 DEF loadingVars, loadVars
  <2>2. UNCHANGED <<calls, chain, failed>> BY <2>1 DEF provVars
  <2>3. LoadVarsTyped' BY <2>1 DEF LoadInv, ProvInv, LoadTyped, LoadTypeOK, LoadVarsTyped
  <2>4. ASSUME Loadable' = Loadable, NEW r \in Slots PROVE GoroutineOK(r)'
    <3>1. GoroutineOK(r) BY DEF LoadInv
    <3> QED BY <2>1, <2>2, <2>4, <3>1 DEF GoroutineOK
  <2>5. ASSUME Loadable' = Loadable PROVE CallerOK'
    BY <2>1, <2>2, <2>5 DEF LoadInv, CallerOK
  <2> QED BY <2>1, <2>3, <2>4, <2>5, CallerKeeps
<1> QED BY <1>1, <1>2, <1>3, <1>4, <1>5 DEF LoadNext

\* The invariant holds through every load: the loader, its goroutines and the
\* providers they initialize keep it, whatever fails.
THEOREM LoadCorrect == LoadSpec => []LoadInv
BY LoadInitInv, LoadNextInv, PTL DEF LoadSpec

\* Every port has one owner, and the containers nobody can remove any more are
\* exactly the stranded ones (those of LoadFork among them), through all retries,
\* failures and goroutines that end early.
THEOREM LoadResources == LoadSpec => []ResourcesSound
<1>1. LoadInv => ResourcesSound
  <2> SUFFICES ASSUME LoadInv PROVE ResourcesSound OBVIOUS
  <2>1. PortsAccounted BY PortsCounted DEF LoadInv, ProvInv
  <2>2. ContainersReachable
    <3>1. \A c \in containers : c.slot \in Slots /\ c.n # 0
      BY DEF LoadInv, ProvInv, LoadTyped, LoadTypeOK, ProvTypeOK
    <3>2. ASSUME NEW c \in containers PROVE Removable(c) <=> ~Stranded(c)
      <4> DEFINE s == c.slot
      <4>1. /\ s \in Slots /\ c.n # 0
            /\ c.cleanup <=> conf[s].t = "test" /\ kind[s] # "cantonCTF"
        BY <3>1 DEF LoadInv, ProvInv, ProvOK, NumberedOK
      <4>2. handle[s] = c.n => kind[s] \in Nodes
        BY <4>1 DEF LoadInv, ProvInv, ProvOK, HandleOK
      <4>3. /\ mode \in {"env", "fork", "test", "direct"} /\ kind[s] \in KindsFor(mode)
            /\ mode = "fork" => conf[s].t = "zero"
        BY <4>1 DEF LoadInv, ProvInv, LoadTyped
      <4>4. handle[s] = c.n => mode \in {"fork", "direct"} /\ kind[s] # "cantonCTF"
        BY <4>2, <4>3 DEF KindsFor, Nodes, LoadKinds, TestKinds
      <4> QED BY <4>1, <4>3, <4>4 DEF Removable, Stranded
    <3>3. ASSUME NEW s \in Slots, handle[s] # 0
          PROVE  LET mine == {c.n : c \in {d \in containers : d.slot = s}}
                 IN handle[s] \in mine /\ \A n \in mine : n <= handle[s]
      BY <3>3 DEF LoadInv, ProvInv, ProvOK, HandleOK
    <3> QED BY <3>2, <3>3 DEF ContainersReachable
  <2> QED BY <2>1, <2>2 DEF ResourcesSound, LoadInv, ProvInv, LoadTyped
<1> QED BY <1>1, LoadCorrect, PTL

\* A chain that is handed out is complete, and so is an environment.
THEOREM LoadComplete == LoadSpec => [](ReturnedComplete /\ EnvironmentComplete)
<1>1. LoadInv => ReturnedComplete /\ EnvironmentComplete
  <2> SUFFICES ASSUME LoadInv PROVE ReturnedComplete /\ EnvironmentComplete OBVIOUS
  <2>1. ASSUME NEW s \in Slots, answer[s] = "chain"
        PROVE  chain[s] = "full" \/ (kind[s] \in {"cantonRPC", "cantonCTF"} /\ calls[s] > 1)
    <3>1. ChainOK(s) /\ GoroutineOK(s) BY DEF LoadInv, ProvInv, ProvOK
    <3>2. calls[s] \in Nat /\ mode \in {"env", "fork", "test", "direct"}
          /\ kind[s] \in KindsFor(mode)
      BY DEF LoadInv, ProvInv, LoadTyped, LoadTypeOK, ProvTypeOK
    <3>3. kind[s] = "cantonLoad" => mode = "env" BY <3>2 DEF KindsFor, TestKinds, Providers
    <3> QED BY <2>1, <3>1, <3>2, <3>3 DEF ChainOK, GoroutineOK, CantonKinds
  <2>2. ReturnedComplete BY <2>1 DEF ReturnedComplete
  <2>3. \A s \in loaded : s \in Slots /\ chain[s] = "full" /\ (mode = "fork" => Running(s))
    BY DEF LoadInv, ProvInv, ProvOK, ChainOK, CallerOK, GoroutineOK, LoadTyped, LoadTypeOK
  <2>4. mode \in {"env", "fork", "test", "direct"} BY DEF LoadInv, ProvInv, LoadTyped
  <2>5. EnvironmentComplete BY <2>3, <2>4 DEF LoadInv, CallerOK, EnvironmentComplete
  <2> QED BY <2>2, <2>5
<1> QED BY <1>1, LoadCorrect, PTL

-----------------------------------------------------------------------------
(* Sending and confirming a transaction.                                   *)

\* A client that has been told of a success works on a transaction that was
\* executed, or, told so by an empty result, on one that the node took; what a
\* client waits for was sent.
TxSound ==
  /\ out = "ok" => net = "ok" \/ (net = "reverted" /\ client \in {"solana", "zksync"})
  /\ out = "empty" => net # "unsent" /\ client \in {"tron", "tronTrigger"}
  /\ cpc = "confirm" => net # "unsent"

\* A success that a client reports stands for a transaction that was executed,
\* whatever the network refused, lost or delayed before.
THEOREM TxExecuted == TxSpec => []SuccessMeansExecuted
<1>1. TxInit => TxSound BY DEF TxInit, TxSound, Sends
<1>2. TxSound /\ [TxNext]_txVars => TxSound'
  <2> SUFFICES ASSUME TxSound, [TxNext]_txVars PROVE TxSound' OBVIOUS
  <2> USE DEF TxSound
  <2>1. CASE PrepareSolana BY <2>1 DEF PrepareSolana, Next1, Again, Answer
  <2>2. CASE PrepareTron BY <2>2 DEF PrepareTron, Next1, Answer
  <2>3. CASE SendOk BY <2>3 DEF SendOk, Next1
  <2>4. CASE SendRefused BY <2>4 DEF SendRefused, Again, Answer
  <2>5. CASE SendLost BY <2>5 DEF SendLost, Again, Answer
  <2>6. CASE SolanaStatus BY <2>6 DEF SolanaStatus, Next1
  <2>7. CASE NotYet BY <2>7 DEF NotYet, Again, Answer
  <2>8. CASE SolanaFetch BY <2>8 DEF SolanaFetch, Executed, Again, Answer
  <2>9. CASE SeesOk BY <2>9 DEF SeesOk, Next1, Answer
  <2>16. CASE SeesEmpty BY <2>16 DEF SeesEmpty, Next1, Answer
  <2>10. CASE SeesRevert BY <2>10 DEF SeesRevert, Answer
  <2>11. CASE CheckDeployed BY <2>11 DEF CheckDeployed, Answer
  <2>12. CASE SimCommit BY <2>12 DEF SimCommit
  <2>13. CASE Executes BY <2>13 DEF Executes
  <2>14. CASE Deepens BY <2>14 DEF Deepens
  <2>15. CASE UNCHANGED txVars BY <2>15 DEF txVars
  <2> QED BY <2>1, <2>2, <2>3, <2>4, <2>5, <2>6, <2>7, <2>8, <2>9, <2>10, <2>11, <2>12, <2>13,
             <2>14, <2>15, <2>16 DEF TxNext, ClientStep
<1>3. TxSound => SuccessMeansExecuted BY DEF TxSound, SuccessMeansExecuted
<1> QED BY <1>1, <1>2, <1>3, PTL DEF TxSpec

\* What is handed out is complete, whatever failed before: a chain that is returned,
\* an environment that is loaded, a transaction reported as successful.
THEOREM LoadAnswers == LoadSpec /\ TxSpec => []AnswersSound
<1>1. ReturnedComplete /\ EnvironmentComplete /\ SuccessMeansExecuted => AnswersSound
  BY DEF AnswersSound
<1> QED BY <1>1, LoadComplete, TxExecuted, PTL
=============================================================================

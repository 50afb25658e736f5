---------------------------- MODULE RuntimeProofs ----------------------------
(***************************************************************************)
(* Proofs about the test runtime, the correction of delays and the queue   *)
(* of proposals: what the state holds after any calls of Exec, that a      *)
(* proposal marked as executed was executed completely and is left alone,  *)
(* that a corrected delay suffices, and that proposals start in turn.      *)
(***************************************************************************)
EXTENDS Runtime, TimelockDelay, Predecessors, FiniteSetTheorems, WellFoundedInduction, TLAPS

-----------------------------------------------------------------------------
(* Sequences that are computed from the first element to the last. *)

\* Induction over the numbers, for a set of them.
LEMMA NatSet ==
  ASSUME NEW S, 0 \in S, \A n \in Nat : n \in S => n + 1 \in S
  PROVE  Nat \subseteq S
<1> SUFFICES ASSUME Nat \ S # {} PROVE FALSE OBVIOUS
<1> DEFINE T == Nat \ S
<1>1. PICK n \in T : \A m \in T : ~(<<m, n>> \in OpToRel(<, Nat))
  BY NatLessThanWellFounded, WFMin, Zenon
<1>2. n \in Nat /\ n # 0 /\ n \notin S OBVIOUS
<1>3. n - 1 \in Nat /\ n - 1 < n /\ (n - 1) + 1 = n BY <1>2
<1>4. <<n - 1, n>> \in OpToRel(<, Nat) BY <1>2, <1>3, Zenon DEF OpToRel
<1>5. n - 1 \in S BY <1>1, <1>3, <1>4
<1>6. (n - 1) + 1 \in S BY <1>3, <1>5
<1> QED BY <1>2, <1>3, <1>6

\* A value that is computed in m steps, from a and by h, exists.
StepsOf(m, T) == [(1..m) \X T -> T]
Computes(g, m, a, h) == g[0] = a /\ \A i \in 1..m : g[i] = h[<<i, g[i - 1]>>]

\* Such a computation can be written as a function: by induction over m.
LEMMA StepsExist ==
  ASSUME NEW T, NEW m \in Nat, NEW a \in T, NEW h \in StepsOf(m, T)
  PROVE  \E g \in [0..m -> T] : Computes(g, m, a, h)
<1> DEFINE Is(g, n) == g \in [0..n -> T] /\ g[0] = a /\ \A i \in 1..n : g[i] = h[<<i, g[i - 1]>>]
           S == {n \in Nat : n <= m => \E g : Is(g, n)}
<1>1. 0 \in S
  <2>1. Is([i \in 0..0 |-> a], 0) OBVIOUS
  <2> QED BY <2>1
<1>2. ASSUME NEW n \in Nat, n \in S PROVE n + 1 \in S
  <2> SUFFICES ASSUME n + 1 <= m PROVE \E g : Is(g, n + 1) OBVIOUS
  <2>1. PICK g : Is(g, n) BY <1>2
  <2>2. g[n] \in T BY <2>1
  <2> DEFINE e == h[<<n + 1, g[n]>>]
             f == [i \in 0..(n + 1) |-> IF i = n + 1 THEN e ELSE g[i]]
  <2>3. <<n + 1, g[n]>> \in (1..m) \X T BY <2>2
  <2>4. e \in T BY <2>3 DEF StepsOf
  <2> HIDE DEF e
  <2>5. f \in [0..(n + 1) -> T] BY <2>1, <2>4
  <2>6. f[0] = a BY <2>1
  <2>7. ASSUME NEW i \in 1..(n + 1) PROVE f[i] = h[<<i, f[i - 1]>>]
    <3>1. CASE i = n + 1
      <4>1. f[i] = e /\ f[i - 1] = g[n] BY <3>1
      <4> QED BY <3>1, <4>1 DEF e
    <3>2. CASE i # n + 1
      <4>1. i \in 1..n /\ f[i] = g[i] /\ f[i - 1] = g[i - 1] BY <3>2
      <4> QED BY <2>1, <4>1
    <3> QED BY <3>1, <3>2
  <2> HIDE DEF f
  <2>8. Is(f, n + 1) BY <2>5, <2>6, <2>7
  <2> QED BY <2>8
<1> HIDE DEF S
<1>3. Nat \subseteq S BY <1>1, <1>2, NatSet
<1>4. m \in S BY <1>3
<1> QED BY <1>4 DEF S, Computes

\* The elements that At has taken from the first i of s.
Taking(sel, s, I) ==
  /\ sel[0] = << >> /\ At(s, I) = sel[Len(s)]
  /\ \A i \in 1..Len(s) : sel[i] = IF i \in I THEN Append(sel[i - 1], s[i]) ELSE sel[i - 1]

\* At takes the elements one by one, and the recursive function in it is that
\* computation.
LEMMA AtSteps ==
  ASSUME NEW S, NEW s \in Seq(S), NEW I
  PROVE  \E sel \in [0..Len(s) -> Seq(S)] : Taking(sel, s, I)
<1> DEFINE m == Len(s)
           Taken(sel) == [i \in 0..m |-> IF i = 0 THEN << >>
                                        ELSE IF i \in I THEN Append(sel[i - 1], s[i])
                                        ELSE sel[i - 1]]
           h == [p \in (1..m) \X Seq(S) |-> IF p[1] \in I THEN Append(p[2], s[p[1]]) ELSE p[2]]
<1>0. m \in Nat /\ \A i \in 1..m : s[i] \in S OBVIOUS
<1>1. h \in [(1..m) \X Seq(S) -> Seq(S)]
  <2>1. ASSUME NEW p \in (1..m) \X Seq(S)
        PROVE  (IF p[1] \in I THEN Append(p[2], s[p[1]]) ELSE p[2]) \in Seq(S)
    <3>1. p[1] \in 1..m /\ p[2] \in Seq(S) OBVIOUS
    <3> QED BY <1>0, <3>1
  <2> QED BY <2>1
<1>2. \A i \in 1..m, q \in Seq(S) : h[<<i, q>>] = IF i \in I THEN Append(q, s[i]) ELSE q
  OBVIOUS
<1> HIDE DEF h
<1>3. << >> \in Seq(S) OBVIOUS
<1>4. PICK g \in [0..m -> Seq(S)] :
        g[0] = << >> /\ \A i \in 1..m : g[i] = h[<<i, g[i - 1]>>]
  <2>1. h \in StepsOf(m, Seq(S)) BY <1>1 DEF StepsOf
  <2>2. ASSUME NEW n \in Nat, NEW T, NEW a \in T, h \in StepsOf(n, T)
        PROVE  \E g \in [0..n -> T] : Computes(g, n, a, h)
    BY <2>2, StepsExist, Zenon
  <2>3. \E g \in [0..m -> Seq(S)] : Computes(g, m, << >>, h)
    <3> HIDE DEF m
    <3> QED BY <1>0, <1>3, <2>1, <2>2, Zenon
  <2> QED BY <2>3, Zenon DEF Computes
<1>5. ASSUME NEW i \in 1..m
      PROVE  g[i] = IF i \in I THEN Append(g[i - 1], s[i]) ELSE g[i - 1]
  <2>1. i - 1 \in 0..m BY <1>0
  <2>2. g[i - 1] \in Seq(S) BY <1>4, <2>1
  <2> QED BY <1>2, <1>4, <2>2
<1>6. g = Taken(g)
  <2>1. ASSUME NEW i \in 0..m PROVE g[i] = Taken(g)[i]
    <3>1. Taken(g)[i] = IF i = 0 THEN << >>
                        ELSE IF i \in I THEN Append(g[i - 1], s[i]) ELSE g[i - 1]
      BY Zenon
    <3>2. i = 0 \/ i \in 1..m BY <1>0
    <3> HIDE DEF Taken
    <3> QED BY <1>0, <1>4, <1>5, <3>1, <3>2
  <2>2. g = [i \in 0..m |-> g[i]] BY <1>4
  <2>3. Taken(g) = [i \in 0..m |-> Taken(g)[i]] BY Zenon
  <2> QED BY <2>1, <2>2, <2>3, Zenon
<1> DEFINE sel == CHOOSE f : f = Taken(f)
<1>7. sel = Taken(sel)
  <2> HIDE DEF Taken
  <2> QED BY <1>6, Zenon
<1>8. At(s, I) = sel[m] BY Zenon DEF At
<1> HIDE DEF sel
<1>9. \A i \in 0..m : sel[i] = IF i = 0 THEN << >>
                                ELSE IF i \in I THEN Append(sel[i - 1], s[i]) ELSE sel[i - 1]
  <2>1. \A i \in 0..m : Taken(sel)[i] = IF i = 0 THEN << >>
                                ELSE IF i \in I THEN Append(sel[i - 1], s[i]) ELSE sel[i - 1]
    BY Zenon
  <2> QED BY <1>7, <2>1, Zenon
<1> DEFINE Same == {n \in Nat : n <= m => sel[n] = g[n]}
<1>10. 0 \in Same BY <1>0, <1>4, <1>9
<1>11. ASSUME NEW n \in Nat, n \in Same PROVE n + 1 \in Same
  <2> SUFFICES ASSUME n + 1 <= m PROVE sel[n + 1] = g[n + 1] OBVIOUS
  <2>1. n + 1 \in 1..m /\ n + 1 \in 0..m /\ n + 1 # 0 /\ (n + 1) - 1 = n BY <1>0
  <2>2. sel[n] = g[n] BY <1>0, <1>11
  <2> QED BY <1>5, <1>9, <2>1, <2>2
<1> HIDE DEF Same
<1>12. Nat \subseteq Same BY <1>10, <1>11, NatSet
<1>13. sel[m] = g[m] BY <1>0, <1>12 DEF Same
<1>14. Taking(g, s, I) BY <1>4, <1>5, <1>8, <1>13 DEF Taking
<1> QED BY <1>4, <1>14

\* The transactions of the first i operations on c.
Joining(txs, ops, c) ==
  /\ txs[0] = << >> /\ txPerChain(ops, c) = txs[Len(ops)]
  /\ \A i \in 1..Len(ops) :
       txs[i] = IF ops[i].chain = c THEN txs[i - 1] \o ops[i].txs ELSE txs[i - 1]

\* txPerChain joins the transactions one operation after the other.
LEMMA TxSteps ==
  ASSUME NEW ops \in BatchOps, NEW c
  PROVE  \E txs \in [0..Len(ops) -> Seq(Nat)] : Joining(txs, ops, c)
<1> DEFINE m == Len(ops)
           Joined(txs) == [i \in 0..m |-> IF i = 0 THEN << >>
                                         ELSE IF ops[i].chain = c THEN txs[i - 1] \o ops[i].txs
                                         ELSE txs[i - 1]]
           h == [p \in (1..m) \X Seq(Nat) |->
                   IF ops[p[1]].chain = c THEN p[2] \o ops[p[1]].txs ELSE p[2]]
<1>0. m \in Nat /\ \A i \in 1..m : ops[i].txs \in Seq(Nat)
  <2>1. ASSUME NEW R, NEW q \in Seq(R) PROVE Len(q) \in Nat /\ \A i \in 1..Len(q) : q[i] \in R
    OBVIOUS
  <2>2. m \in Nat /\ \A i \in 1..m : ops[i] \in [chain : Chains, txs : Seq(Nat)]
    BY <2>1, Zenon DEF BatchOps
  <2> QED BY <2>2
<1>1. h \in [(1..m) \X Seq(Nat) -> Seq(Nat)]
  <2>1. ASSUME NEW p \in (1..m) \X Seq(Nat)
        PROVE  (IF ops[p[1]].chain = c THEN p[2] \o ops[p[1]].txs ELSE p[2]) \in Seq(Nat)
    <3>1. p[1] \in 1..m /\ p[2] \in Seq(Nat) OBVIOUS
    <3> QED BY <1>0, <3>1
  <2> QED BY <2>1
<1>2. \A i \in 1..m, q \in Seq(Nat) :
        h[<<i, q>>] = IF ops[i].chain = c THEN q \o ops[i].txs ELSE q
  OBVIOUS
<1> HIDE DEF h
<1>3. << >> \in Seq(Nat) OBVIOUS
<1>4. PICK g \in [0..m -> Seq(Nat)] :
        g[0] = << >> /\ \A i \in 1..m : g[i] = h[<<i, g[i - 1]>>]
  <2>1. h \in StepsOf(m, Seq(Nat)) BY <1>1 DEF StepsOf
  <2>2. ASSUME NEW n \in Nat, NEW T, NEW a \in T, h \in StepsOf(n, T)
        PROVE  \E g \in [0..n -> T] : Computes(g, n, a, h)
    BY <2>2, StepsExist, Zenon
  <2>3. \E g \in [0..m -> Seq(Nat)] : Computes(g, m, << >>, h)
    <3> HIDE DEF m
    <3> QED BY <1>0, <1>3, <2>1, <2>2, Zenon
  <2> QED BY <2>3, Zenon DEF Computes
<1>5. ASSUME NEW i \in 1..m
      PROVE  g[i] = IF ops[i].chain = c THEN g[i - 1] \o ops[i].txs ELSE g[i - 1]
  <2>1. i - 1 \in 0..m BY <1>0
  <2>2. g[i - 1] \in Seq(Nat) BY <1>4, <2>1
  <2> QED BY <1>2, <1>4, <2>2
<1>6. g = Joined(g)
  <2>1. ASSUME NEW i \in 0..m PROVE g[i] = Joined(g)[i]
    <3>1. Joined(g)[i] = IF i = 0 THEN << >>
                         ELSE IF ops[i].chain = c THEN g[i - 1] \o ops[i].txs ELSE g[i - 1]
      BY Zenon
    <3>2. i = 0 \/ i \in 1..m BY <1>0
    <3> HIDE DEF Joined
    <3> QED BY <1>0, <1>4, <1>5, <3>1, <3>2
  <2>2. g = [i \in 0..m |-> g[i]] BY <1>4
  <2>3. Joined(g) = [i \in 0..m |-> Joined(g)[i]] BY Zenon
  <2> QED BY <2>1, <2>2, <2>3, Zenon
<1> DEFINE txs == CHOOSE f : f = Joined(f)
<1>7. txs = Joined(txs)
  <2> HIDE DEF Joined
  <2> QED BY <1>6, Zenon
<1>8. txPerChain(ops, c) = txs[m] BY Zenon DEF txPerChain
<1> HIDE DEF txs
<1>9. \A i \in 0..m : txs[i] = IF i = 0 THEN << >>
                               ELSE IF ops[i].chain = c THEN txs[i - 1] \o ops[i].txs
                               ELSE txs[i - 1]
  <2>1. \A i \in 0..m : Joined(txs)[i] = IF i = 0 THEN << >>
                               ELSE IF ops[i].chain = c THEN txs[i - 1] \o ops[i].txs
                               ELSE txs[i - 1]
    BY Zenon
  <2> QED BY <1>7, <2>1, Zenon
<1> DEFINE Same == {n \in Nat : n <= m => txs[n] = g[n]}
<1>10. 0 \in Same BY <1>0, <1>4, <1>9
<1>11. ASSUME NEW n \in Nat, n \in Same PROVE n + 1 \in Same
  <2> SUFFICES ASSUME n + 1 <= m PROVE txs[n + 1] = g[n + 1] OBVIOUS
  <2>1. n + 1 \in 1..m /\ n + 1 \in 0..m /\ n + 1 # 0 /\ (n + 1) - 1 = n BY <1>0
  <2>2. txs[n] = g[n] BY <1>0, <1>11
  <2> QED BY <1>5, <1>9, <2>1, <2>2
<1> HIDE DEF Same
<1>12. Nat \subseteq Same BY <1>10, <1>11, NatSet
<1>13. txs[m] = g[m] BY <1>0, <1>12 DEF Same
<1>14. Joining(g, ops, c) BY <1>4, <1>5, <1>8, <1>13 DEF Joining
<1> QED BY <1>4, <1>14

\* t has the elements of s at the places J, the k-th of them at place pos[k] of s.
Picks(pos, t, s, J) ==
  /\ pos \in [DOMAIN t -> J]
  /\ \A j, k \in DOMAIN t : j < k => pos[j] < pos[k]
  /\ \A i \in J : \E k \in DOMAIN t : pos[k] = i
  /\ \A k \in DOMAIN t : t[k] = s[pos[k]]

\* The elements at the places I of a sequence are picked in their order
\* (filterNonEmptyBatchOps, chainOrder, Built and GetPendingProposals).
LEMMA AtPicks ==
  ASSUME NEW S, NEW s \in Seq(S), NEW I
  PROVE  /\ At(s, I) \in Seq(S)
         /\ \E pos : Picks(pos, At(s, I), s, DOMAIN s \cap I)
<1> DEFINE m == Len(s)
<1>0. m \in Nat /\ DOMAIN s = 1..m OBVIOUS
<1>a. PICK sel \in [0..m -> Seq(S)] : Taking(sel, s, I) BY AtSteps, Zenon
<1>1. /\ sel[0] = << >> /\ At(s, I) = sel[m]
      /\ \A i \in 1..m : sel[i] = IF i \in I THEN Append(sel[i - 1], s[i]) ELSE sel[i - 1]
  BY <1>a, Zenon DEF Taking
<1> DEFINE Good == {n \in Nat : n <= m => \E pos : Picks(pos, sel[n], s, (1..n) \cap I)}
<1>2. 0 \in Good
  <2>1. Picks(<< >>, << >>, s, (1..0) \cap I) BY DEF Picks
  <2> QED BY <1>0, <1>1, <2>1
<1>3. ASSUME NEW n \in Nat, n \in Good PROVE n + 1 \in Good
  <2> SUFFICES ASSUME n + 1 <= m PROVE \E pos : Picks(pos, sel[n + 1], s, (1..(n + 1)) \cap I)
    OBVIOUS
  <2>0. n <= m BY <1>0
  <2>1. PICK pos : Picks(pos, sel[n], s, (1..n) \cap I) BY <1>3, <2>0, Zenon
  <2>2. n + 1 \in 1..m /\ (n + 1) - 1 = n /\ n \in 0..m /\ sel[n] \in Seq(S) BY <1>0
  <2>3. CASE n + 1 \notin I
    <3>1. sel[n + 1] = sel[n] /\ (1..(n + 1)) \cap I = (1..n) \cap I BY <1>1, <2>2, <2>3
    <3> QED BY <2>1, <3>1
  <2>4. CASE n + 1 \in I
    <3> DEFINE q == sel[n]  l == Len(q)
               new == [k \in 1..(l + 1) |-> IF k = l + 1 THEN n + 1 ELSE pos[k]]
    <3>1. sel[n + 1] = Append(q, s[n + 1]) BY <1>1, <2>2, <2>4
    <3>2. l \in Nat /\ DOMAIN q = 1..l BY <2>2
    <3>3. s[n + 1] \in S BY <1>0, <2>2
    <3>4. /\ DOMAIN sel[n + 1] = 1..(l + 1) /\ sel[n + 1][l + 1] = s[n + 1]
          /\ \A k \in 1..l : sel[n + 1][k] = q[k]
      BY <2>2, <3>1, <3>3
    <3> HIDE DEF q, l
    <3>5. /\ pos \in [1..l -> (1..n) \cap I]
          /\ \A j, k \in 1..l : j < k => pos[j] < pos[k]
          /\ \A i \in (1..n) \cap I : \E k \in 1..l : pos[k] = i
          /\ \A k \in 1..l : q[k] = s[pos[k]]
      BY <2>1, <3>2 DEF Picks, q
    <3>6. new \in [1..(l + 1) -> (1..(n + 1)) \cap I] BY <2>4, <3>2, <3>5
    <3>7. /\ \A k \in 1..l : new[k] = pos[k] /\ new[k] \in 1..n
          /\ new[l + 1] = n + 1
      BY <3>2, <3>5
    <3> HIDE DEF new
    <3>8. \A j, k \in 1..(l + 1) : j < k => new[j] < new[k]
      <4> SUFFICES ASSUME NEW j \in 1..(l + 1), NEW k \in 1..(l + 1), j < k PROVE new[j] < new[k]
        OBVIOUS
      <4>1. j \in 1..l /\ (k \in 1..l \/ k = l + 1) BY <3>2
      <4> QED BY <3>5, <3>7, <4>1
    <3>9. \A i \in (1..(n + 1)) \cap I : \E k \in 1..(l + 1) : new[k] = i
      <4> SUFFICES ASSUME NEW i \in (1..(n + 1)) \cap I PROVE \E k \in 1..(l + 1) : new[k] = i
        OBVIOUS
      <4>1. CASE i = n + 1 BY <3>2, <3>7, <4>1
      <4>2. CASE i # n + 1
        <5>1. i \in (1..n) \cap I BY <4>2
        <5>2. PICK k \in 1..l : pos[k] = i BY <3>5, <5>1
        <5> QED BY <3>2, <3>7, <5>2
      <4> QED BY <4>1, <4>2
    <3>10. \A k \in 1..(l + 1) : sel[n + 1][k] = s[new[k]]
      <4> SUFFICES ASSUME NEW k \in 1..(l + 1) PROVE sel[n + 1][k] = s[new[k]] OBVIOUS
      <4>1. k \in 1..l \/ k = l + 1 BY <3>2
      <4> QED BY <3>4, <3>5, <3>7, <4>1
    <3>11. Picks(new, sel[n + 1], s, (1..(n + 1)) \cap I)
      BY <3>4, <3>6, <3>8, <3>9, <3>10 DEF Picks
    <3> QED BY <3>11
  <2> QED BY <2>3, <2>4
<1> HIDE DEF Good
<1>4. m \in Good BY <1>0, <1>2, <1>3, NatSet
<1>5. \E pos : Picks(pos, sel[m], s, (1..m) \cap I)
  <2>1. m <= m BY <1>0
  <2> QED BY <1>4, <2>1, Zenon DEF Good
<1>6. sel[m] \in Seq(S) BY <1>0
<1> QED BY <1>0, <1>1, <1>5, <1>6

-----------------------------------------------------------------------------
(* What mergeBatchOpsPerChain and filterNonEmptyBatchOps return. *)

BatchOp == [chain : Chains, txs : Seq(Nat)]

\* The batch operations are sequences of records.
LEMMA OpType ==
  ASSUME NEW ops \in BatchOps
  PROVE  /\ ops \in Seq(BatchOp) /\ Len(ops) \in Nat /\ DOMAIN ops = 1..Len(ops)
         /\ \A i \in 1..Len(ops) :
              ops[i] \in BatchOp /\ ops[i].chain \in Chains /\ ops[i].txs \in Seq(Nat)
<1>1. ASSUME NEW R, NEW q \in Seq(R)
      PROVE  Len(q) \in Nat /\ DOMAIN q = 1..Len(q) /\ \A i \in 1..Len(q) : q[i] \in R
  OBVIOUS
<1>2. ops \in Seq(BatchOp) BY Zenon DEF BatchOps, BatchOp
<1>3. Len(ops) \in Nat /\ DOMAIN ops = 1..Len(ops) /\ \A i \in 1..Len(ops) : ops[i] \in BatchOp
  BY <1>1, <1>2, Zenon
<1>4. \A o \in BatchOp : o.chain \in Chains /\ o.txs \in Seq(Nat) BY DEF BatchOp
<1> QED BY <1>2, <1>3, <1>4, Zenon

\* Joined transactions are transactions.
LEMMA TxType ==
  ASSUME NEW ops \in BatchOps, NEW c
  PROVE  txPerChain(ops, c) \in Seq(Nat)
<1>1. PICK txs \in [0..Len(ops) -> Seq(Nat)] : Joining(txs, ops, c) BY TxSteps, Zenon
<1>2. Len(ops) \in 0..Len(ops) BY OpType
<1> QED BY <1>1, <1>2 DEF Joining

\* One more operation.
OneMore(r, q, o) == r = Append(q, o)
Continues(r, q, o, c) ==
  txPerChain(r, c) = IF o.chain = c THEN txPerChain(q, c) \o o.txs ELSE txPerChain(q, c)

\* One more operation: its transactions come last, if it is on the chain.
LEMMA TxAppend ==
  ASSUME NEW q \in BatchOps, NEW o \in BatchOp, NEW r, OneMore(r, q, o), NEW c
  PROVE  Continues(r, q, o, c)
<1> DEFINE m == Len(q)
<1>1. q \in Seq(BatchOp) /\ m \in Nat BY OpType
<1>2. r \in Seq(BatchOp) /\ Len(r) = m + 1 /\ r[m + 1] = o /\ \A i \in 1..m : r[i] = q[i]
  BY <1>1 DEF OneMore
<1>3. r \in BatchOps BY <1>2, Zenon DEF BatchOps, BatchOp
<1>4. PICK f \in [0..Len(r) -> Seq(Nat)] : Joining(f, r, c) BY <1>3, TxSteps, Zenon
<1>5. PICK g \in [0..m -> Seq(Nat)] : Joining(g, q, c) BY TxSteps, Zenon
<1> HIDE DEF m
<1> DEFINE Same == {n \in Nat : n <= m => f[n] = g[n]}
<1>6. 0 \in Same BY <1>4, <1>5 DEF Joining
<1>7. ASSUME NEW n \in Nat, n \in Same PROVE n + 1 \in Same
  <2> SUFFICES ASSUME n + 1 <= m PROVE f[n + 1] = g[n + 1] OBVIOUS
  <2>1. n + 1 \in 1..m /\ n + 1 \in 1..Len(r) /\ (n + 1) - 1 = n BY <1>1, <1>2
  <2>2. f[n] = g[n] BY <1>1, <1>7
  <2>3. r[n + 1] = q[n + 1] BY <1>2, <2>1
  <2>4. f[n + 1] = IF r[n + 1].chain = c THEN f[n] \o r[n + 1].txs ELSE f[n]
    BY <1>4, <2>1 DEF Joining
  <2>5. g[n + 1] = IF q[n + 1].chain = c THEN g[n] \o q[n + 1].txs ELSE g[n]
    BY <1>5, <2>1 DEF Joining, m
  <2> QED BY <2>2, <2>3, <2>4, <2>5
<1> HIDE DEF Same
<1>8. m \in Same BY <1>1, <1>6, <1>7, NatSet
<1>9. f[m] = g[m] BY <1>1, <1>8 DEF Same
<1>10. m + 1 \in 1..Len(r) /\ (m + 1) - 1 = m BY <1>1, <1>2
<1>11. f[m + 1] = IF o.chain = c THEN f[m] \o o.txs ELSE f[m]
  BY <1>2, <1>4, <1>10 DEF Joining
<1>12. txPerChain(r, c) = f[m + 1] /\ txPerChain(q, c) = g[m]
  BY <1>2, <1>4, <1>5 DEF Joining, m
<1>13. txPerChain(r, c) = IF o.chain = c THEN txPerChain(q, c) \o o.txs ELSE txPerChain(q, c)
  BY <1>9, <1>11, <1>12
<1> QED BY <1>13 DEF Continues

\* Operations without transactions do not matter.
LEMMA TxKept ==
  ASSUME NEW ops \in BatchOps, NEW c
  PROVE  txPerChain(filterNonEmptyBatchOps(ops), c) = txPerChain(ops, c)
<1> DEFINE m == Len(ops)  I == {i \in DOMAIN ops : ops[i].txs # << >>}
<1>0. ops \in Seq(BatchOp) /\ m \in Nat /\ DOMAIN ops = 1..m BY OpType
<1>1. PICK sel \in [0..m -> Seq(BatchOp)] : Taking(sel, ops, I) BY <1>0, AtSteps, Zenon
<1>2. PICK txs \in [0..m -> Seq(Nat)] : Joining(txs, ops, c) BY TxSteps, Zenon
<1>3. \A i \in 0..m : sel[i] \in BatchOps BY <1>1 DEF BatchOps, BatchOp
<1>4. \A i \in 1..m : i \in I <=> ops[i].txs # << >> BY <1>0
<1>5. /\ sel[0] = << >> /\ filterNonEmptyBatchOps(ops) = sel[m]
      /\ \A i \in 1..m : sel[i] = IF i \in I THEN Append(sel[i - 1], ops[i]) ELSE sel[i - 1]
  BY <1>1, Zenon DEF Taking, filterNonEmptyBatchOps
<1>6. \A i \in 1..m : ops[i] \in BatchOp /\ ops[i].txs \in Seq(Nat) BY OpType
<1> HIDE DEF m, I
<1> DEFINE Same == {n \in Nat : n <= m => txPerChain(sel[n], c) = txs[n]}
<1>7. 0 \in Same
  <2>1. sel[0] \in BatchOps BY <1>0, <1>3
  <2>2. PICK f \in [0..Len(sel[0]) -> Seq(Nat)] : Joining(f, sel[0], c) BY <2>1, TxSteps, Zenon
  <2>3. Len(sel[0]) = 0 BY <1>5
  <2> QED BY <1>2, <2>2, <2>3 DEF Joining
<1>8. ASSUME NEW n \in Nat, n \in Same PROVE n + 1 \in Same
  <2> SUFFICES ASSUME n + 1 <= m PROVE txPerChain(sel[n + 1], c) = txs[n + 1] OBVIOUS
  <2>1. n + 1 \in 1..m /\ n \in 0..m /\ (n + 1) - 1 = n BY <1>0
  <2>2. txPerChain(sel[n], c) = txs[n] BY <1>0, <1>8
  <2>3. txs[n + 1] = IF ops[n + 1].chain = c THEN txs[n] \o ops[n + 1].txs ELSE txs[n]
    BY <1>2, <2>1 DEF Joining, m
  <2>4. CASE n + 1 \in I
    <3>1. sel[n + 1] = Append(sel[n], ops[n + 1]) BY <1>5, <2>1, <2>4
    <3>2. sel[n] \in BatchOps /\ ops[n + 1] \in BatchOp BY <1>3, <1>6, <2>1
    <3>3. OneMore(sel[n + 1], sel[n], ops[n + 1]) BY <3>1 DEF OneMore
    <3>4. Continues(sel[n + 1], sel[n], ops[n + 1], c) BY <3>2, <3>3, TxAppend, Zenon
    <3> QED BY <2>2, <2>3, <3>4 DEF Continues
  <2>5. CASE n + 1 \notin I
    <3>1. sel[n + 1] = sel[n] /\ ops[n + 1].txs = << >> BY <1>4, <1>5, <2>1, <2>5
    <3>2. txs[n] \in Seq(Nat) BY <1>2, <2>1
    <3> QED BY <2>2, <2>3, <3>1, <3>2
  <2> QED BY <2>4, <2>5
<1> HIDE DEF Same
<1>9. m \in Same BY <1>0, <1>7, <1>8, NatSet
<1>10. txPerChain(sel[m], c) = txs[m] BY <1>0, <1>9 DEF Same
<1> QED BY <1>2, <1>5, <1>10 DEF Joining, m

\* A chain has no transactions only if it is the chain of no operation.
LEMMA TxEmpty ==
  ASSUME NEW ops \in BatchOps, \A i \in 1..Len(ops) : ops[i].txs # << >>, NEW c
  PROVE  txPerChain(ops, c) = << >> <=> \A i \in 1..Len(ops) : ops[i].chain # c
<1> DEFINE m == Len(ops)
<1>0. m \in Nat /\ \A i \in 1..m : ops[i].txs \in Seq(Nat) /\ ops[i].txs # << >> BY OpType
<1>a. m \in Nat BY <1>0
<1>1. PICK txs \in [0..m -> Seq(Nat)] : Joining(txs, ops, c) BY TxSteps, Zenon
<1> HIDE DEF m
<1> DEFINE Good == {n \in Nat : n <= m => (txs[n] = << >> <=> \A i \in 1..n : ops[i].chain # c)}
<1>2. 0 \in Good BY <1>1 DEF Joining
<1>3. ASSUME NEW n \in Nat, n \in Good PROVE n + 1 \in Good
  <2> SUFFICES ASSUME n + 1 <= m
               PROVE  txs[n + 1] = << >> <=> \A i \in 1..(n + 1) : ops[i].chain # c
    OBVIOUS
  <2>1. n + 1 \in 1..m /\ n \in 0..m /\ (n + 1) - 1 = n BY <1>a
  <2>2. txs[n] = << >> <=> \A i \in 1..n : ops[i].chain # c BY <1>0, <1>3
  <2>3. txs[n + 1] = IF ops[n + 1].chain = c THEN txs[n] \o ops[n + 1].txs ELSE txs[n]
    BY <1>1, <2>1 DEF Joining, m
  <2>4. \A q \in Seq(Nat), r \in Seq(Nat) : r # << >> => q \o r # << >> OBVIOUS
  <2>5. ops[n + 1].chain = c => txs[n + 1] # << >> BY <1>0, <1>1, <2>1, <2>3, <2>4
  <2>6. \A i : i \in 1..(n + 1) <=> i \in 1..n \/ i = n + 1 OBVIOUS
  <2> QED BY <2>2, <2>3, <2>5, <2>6
<1> HIDE DEF Good
<1>4. m \in Good BY <1>0, <1>2, <1>3, NatSet
<1>5. txs[m] = << >> <=> \A i \in 1..m : ops[i].chain # c BY <1>0, <1>4 DEF Good
<1> QED BY <1>1, <1>5 DEF Joining, m

\* One operation a chain.
LEMMA TxDistinct ==
  ASSUME NEW q \in BatchOps, \A j, k \in 1..Len(q) : q[j].chain = q[k].chain => j = k, NEW c
  PROVE  /\ \A j \in 1..Len(q) : q[j].chain = c => txPerChain(q, c) = q[j].txs
         /\ (\A j \in 1..Len(q) : q[j].chain # c) => txPerChain(q, c) = << >>
<1> DEFINE m == Len(q)
<1>0. m \in Nat /\ \A i \in 1..m : q[i].txs \in Seq(Nat) BY OpType
<1>1. PICK txs \in [0..m -> Seq(Nat)] : Joining(txs, q, c) BY TxSteps, Zenon
<1>2. \A j, k \in 1..m : q[j].chain = q[k].chain => j = k OBVIOUS
<1> HIDE DEF m
<1> DEFINE Is(n) == /\ \A j \in 1..n : q[j].chain = c => txs[n] = q[j].txs
                    /\ (\A j \in 1..n : q[j].chain # c) => txs[n] = << >>
           Good == {n \in Nat : n <= m => Is(n)}
<1>3. 0 \in Good BY <1>1 DEF Joining
<1>4. ASSUME NEW n \in Nat, n \in Good PROVE n + 1 \in Good
  <2> SUFFICES ASSUME n + 1 <= m PROVE Is(n + 1) OBVIOUS
  <2>1. n + 1 \in 1..m /\ n \in 0..m /\ (n + 1) - 1 = n /\ \A j \in 1..n : j \in 1..m /\ j # n + 1
    BY <1>0
  <2>2. Is(n) BY <1>0, <1>4
  <2>3. txs[n + 1] = IF q[n + 1].chain = c THEN txs[n] \o q[n + 1].txs ELSE txs[n]
    BY <1>1, <2>1 DEF Joining, m
  <2>4. \A i : i \in 1..(n + 1) <=> i \in 1..n \/ i = n + 1 OBVIOUS
  <2>5. \A r \in Seq(Nat) : << >> \o r = r OBVIOUS
  <2>6. CASE q[n + 1].chain = c
    <3>1. \A j \in 1..n : q[j].chain # c BY <1>2, <2>1, <2>6
    <3>2. txs[n] = << >> BY <2>2, <3>1
    <3>3. txs[n + 1] = q[n + 1].txs BY <1>0, <2>1, <2>3, <2>5, <2>6, <3>2
    <3> QED BY <2>4, <2>6, <3>1, <3>3
  <2>7. CASE q[n + 1].chain # c
    <3>1. txs[n + 1] = txs[n] BY <2>3, <2>7
    <3> QED BY <2>2, <2>4, <2>7, <3>1
  <2> QED BY <2>6, <2>7
<1> HIDE DEF Good
<1>5. m \in Good BY <1>0, <1>3, <1>4, NatSet
<1>6. Is(m)
  <2>1. m <= m BY <1>0
  <2> QED BY <1>5, <2>1, Zenon DEF Good
<1> QED BY <1>1, <1>6 DEF Joining, m

\* The operations that filterNonEmptyBatchOps keeps.
LEMMA KeptOps ==
  ASSUME NEW ops \in BatchOps
  PROVE  /\ filterNonEmptyBatchOps(ops) \in BatchOps
         /\ \A j \in 1..Len(filterNonEmptyBatchOps(ops)) : filterNonEmptyBatchOps(ops)[j].txs # << >>
         /\ \E pos : Picks(pos, filterNonEmptyBatchOps(ops), ops,
                           {i \in DOMAIN ops : ops[i].txs # << >>})
<1> DEFINE I == {i \in DOMAIN ops : ops[i].txs # << >>}
           kept == filterNonEmptyBatchOps(ops)
<1>1. kept = At(ops, I) BY Zenon DEF filterNonEmptyBatchOps
<1>2. ops \in Seq(BatchOp) BY OpType
<1>3. kept \in Seq(BatchOp) /\ \E pos : Picks(pos, kept, ops, DOMAIN ops \cap I)
  BY <1>1, <1>2, AtPicks, Zenon
<1>4. DOMAIN ops \cap I = I OBVIOUS
<1>5. PICK pos : Picks(pos, kept, ops, I) BY <1>3, <1>4
<1>6. kept \in BatchOps BY <1>3, Zenon DEF BatchOps, BatchOp
<1> HIDE DEF kept
<1>7. \A j \in 1..Len(kept) : kept[j].txs # << >>
  <2>1. DOMAIN kept = 1..Len(kept) BY <1>6, OpType
  <2>2. \A j \in DOMAIN kept : pos[j] \in I /\ kept[j] = ops[pos[j]] BY <1>5 DEF Picks
  <2> QED BY <2>1, <2>2
<1> QED BY <1>5, <1>6, <1>7 DEF kept

\* The first operation on a chain.
LEMMA FirstOn ==
  ASSUME NEW ops \in BatchOps, NEW i \in 1..Len(ops)
  PROVE  \E f \in 1..i : /\ ops[f].chain = ops[i].chain
                         /\ \A j \in 1..(f - 1) : ops[j].chain # ops[f].chain
<1> DEFINE c == ops[i].chain
           T == {f \in Nat : f \in 1..i /\ ops[f].chain = c}
<1>0. i \in Nat /\ i \in T BY OpType
<1>1. T \subseteq Nat /\ T # {} BY <1>0
<1>2. PICK f \in T : \A m \in T : ~(<<m, f>> \in OpToRel(<, Nat))
  BY <1>1, NatLessThanWellFounded, WFMin, Zenon
<1>3. f \in 1..i /\ ops[f].chain = c OBVIOUS
<1>4. ASSUME NEW j \in 1..(f - 1) PROVE ops[j].chain # c
  <2>1. j \in Nat /\ f \in Nat /\ j \in 1..i /\ j < f BY <1>0, <1>3
  <2>2. <<j, f>> \in OpToRel(<, Nat) BY <2>1, Zenon DEF OpToRel
  <2> QED BY <1>2, <2>1, <2>2
<1> QED BY <1>3, <1>4

\* The chains of operations, once each and in the order of their first ones.
Firsts(pos, order, ops) ==
  /\ order \in Seq(Chains) /\ pos \in [1..Len(order) -> 1..Len(ops)]
  /\ \A k \in 1..Len(order) : order[k] = ops[pos[k]].chain
  /\ \A j, k \in 1..Len(order) : j < k => \A n \in 1..pos[j] : ops[n].chain # order[k]
  /\ \A j, k \in 1..Len(order) : order[j] = order[k] => j = k
  /\ \A i \in 1..Len(ops) : \E k \in 1..Len(order) : order[k] = ops[i].chain

\* chainOrder names every chain of the operations once, by its first operation.
LEMMA OrderOfChains ==
  ASSUME NEW ops \in BatchOps
  PROVE  \E pos : Firsts(pos, chainOrder(ops), ops)
<1> DEFINE s == [i \in DOMAIN ops |-> ops[i].chain]
           I == {i \in DOMAIN ops : \A j \in 1..(i - 1) : ops[j].chain # ops[i].chain}
           order == chainOrder(ops)
<1>0. /\ Len(ops) \in Nat /\ DOMAIN ops = 1..Len(ops)
      /\ \A i \in 1..Len(ops) : ops[i].chain \in Chains
  BY OpType
<1>1. order = At(s, I) BY Zenon DEF chainOrder
<1>2. s \in Seq(Chains) /\ DOMAIN s = 1..Len(ops) BY <1>0
<1> HIDE DEF order
<1>3. \A i \in 1..Len(ops) : s[i] = ops[i].chain BY <1>0
<1>4. \A i \in I : i \in 1..Len(ops) /\ \A j \in 1..(i - 1) : ops[j].chain # ops[i].chain BY <1>0
<1>5. \A i \in 1..Len(ops) : (\A j \in 1..(i - 1) : ops[j].chain # ops[i].chain) => i \in I BY <1>0
<1>6. DOMAIN s \cap I = I BY <1>2, <1>4
<1> HIDE DEF s, I
<1>7. order \in Seq(Chains) /\ \E p : Picks(p, order, s, DOMAIN s \cap I)
  BY <1>1, <1>2, AtPicks, Zenon
<1>8. PICK pos : Picks(pos, order, s, I) BY <1>6, <1>7
<1>9. DOMAIN order = 1..Len(order) /\ Len(order) \in Nat BY <1>7
<1>10. /\ pos \in [1..Len(order) -> I]
       /\ \A j, k \in 1..Len(order) : j < k => pos[j] < pos[k]
       /\ \A i \in I : \E k \in 1..Len(order) : pos[k] = i
       /\ \A k \in 1..Len(order) : order[k] = s[pos[k]]
  BY <1>8, <1>9 DEF Picks
<1>11. \A k \in 1..Len(order) : pos[k] \in I /\ pos[k] \in 1..Len(ops) /\ order[k] = ops[pos[k]].chain
  BY <1>3, <1>4, <1>10
<1>12. ASSUME NEW j \in 1..Len(order), NEW k \in 1..Len(order), j < k, NEW n \in 1..pos[j]
       PROVE  ops[n].chain # order[k]
  <2>1. pos[j] < pos[k] /\ pos[j] \in Nat /\ pos[k] \in Nat BY <1>0, <1>10, <1>11, <1>12
  <2>2. n \in 1..(pos[k] - 1) BY <2>1
  <2> QED BY <1>4, <1>11, <2>2
<1>13. ASSUME NEW j \in 1..Len(order), NEW k \in 1..Len(order), j < k PROVE order[j] # order[k]
  <2>1. pos[j] \in 1..pos[j] BY <1>0, <1>11
  <2> QED BY <1>11, <1>12, <1>13, <2>1
<1>14. ASSUME NEW j \in 1..Len(order), NEW k \in 1..Len(order), order[j] = order[k] PROVE j = k
  <2>1. j \in Nat /\ k \in Nat BY <1>9
  <2>2. j < k \/ k < j \/ j = k BY <2>1
  <2> QED BY <1>13, <1>14, <2>2
<1>15. ASSUME NEW i \in 1..Len(ops) PROVE \E k \in 1..Len(order) : order[k] = ops[i].chain
  <2>1. PICK f \in 1..i : /\ ops[f].chain = ops[i].chain
                          /\ \A j \in 1..(f - 1) : ops[j].chain # ops[f].chain
    BY FirstOn, Zenon
  <2>2. f \in 1..Len(ops) BY <1>0
  <2>3. f \in I BY <1>5, <2>1, <2>2
  <2>4. PICK k \in 1..Len(order) : pos[k] = f BY <1>10, <2>3
  <2> QED BY <1>11, <2>1, <2>4
<1>16. pos \in [1..Len(order) -> 1..Len(ops)] BY <1>10, <1>11
<1>17. Firsts(pos, order, ops)
  BY <1>7, <1>11, <1>12, <1>14, <1>15, <1>16 DEF Firsts
<1> QED BY <1>17 DEF order

\* What BatchesKept says of a spec.
BatchKept(spec) ==
  LET ops == processBatchOps(spec) IN
  /\ \A c \in Chains : txPerChain(ops, c) = txPerChain(spec.ops, c)
  /\ \A j \in 1..Len(ops) : ops[j].txs # << >>
  /\ \A j, k \in 1..Len(ops) :
       (j < k /\ spec.merge) =>
         /\ ops[j].chain # ops[k].chain
         /\ \E m \in 1..Len(spec.ops) :
              /\ spec.ops[m].chain = ops[j].chain /\ spec.ops[m].txs # << >>
              /\ \A n \in 1..m : spec.ops[n].chain = ops[k].chain => spec.ops[n].txs = << >>

\* mergeBatchOpsPerChain makes one operation of each chain, with all transactions.
LEMMA MergedOps ==
  ASSUME NEW ops \in BatchOps
  PROVE  LET kept == filterNonEmptyBatchOps(ops)
             joined == mergeBatchOpsPerChain(ops)
         IN  /\ joined \in BatchOps
             /\ \A c : txPerChain(joined, c) = txPerChain(ops, c)
             /\ \A j \in 1..Len(joined) : joined[j].txs # << >>
             /\ \E pos : Firsts(pos, [j \in 1..Len(joined) |-> joined[j].chain], kept)
<1> DEFINE kept == filterNonEmptyBatchOps(ops)
           order == chainOrder(kept)
           joined == mergeBatchOpsPerChain(ops)
<1>1. kept \in BatchOps /\ \A j \in 1..Len(kept) : kept[j].txs # << >> BY KeptOps, Zenon
<1>2. joined = [i \in 1..Len(order) |-> [chain |-> order[i], txs |-> txPerChain(kept, order[i])]]
  BY Zenon DEF mergeBatchOpsPerChain
<1>3. \A c : txPerChain(kept, c) = txPerChain(ops, c) BY TxKept, Zenon
<1> HIDE DEF kept
<1>4. PICK pos : Firsts(pos, order, kept) BY <1>1, OrderOfChains, Zenon
<1> HIDE DEF order, joined
<1>5. /\ order \in Seq(Chains) /\ pos \in [1..Len(order) -> 1..Len(kept)]
      /\ \A k \in 1..Len(order) : order[k] = kept[pos[k]].chain
      /\ \A j, k \in 1..Len(order) : order[j] = order[k] => j = k
      /\ \A i \in 1..Len(kept) : \E k \in 1..Len(order) : order[k] = kept[i].chain
  BY <1>4 DEF Firsts
<1> DEFINE m == Len(order)
<1>6. m \in Nat /\ \A j \in 1..m : order[j] \in Chains BY <1>5
<1> HIDE DEF m
<1>7. \A j \in 1..m : txPerChain(kept, order[j]) \in Seq(Nat) BY <1>1, TxType, Zenon
<1>8. \A j \in 1..m : joined[j] = [chain |-> order[j], txs |-> txPerChain(kept, order[j])]
  BY <1>2 DEF m
<1>9. joined \in Seq(BatchOp) /\ Len(joined) = m
  <2>0. \A a \in Chains, b \in Seq(Nat) : [chain |-> a, txs |-> b] \in BatchOp BY DEF BatchOp
  <2>1. \A j \in 1..m : joined[j] \in BatchOp BY <1>6, <1>7, <1>8, <2>0, Zenon
  <2>2. joined = [j \in 1..m |-> joined[j]] BY <1>2, Zenon DEF m
  <2> QED BY <1>6, <2>1, <2>2
<1>10. joined \in BatchOps BY <1>9, Zenon DEF BatchOps, BatchOp
<1>11. \A j \in 1..m : joined[j].chain = order[j] /\ joined[j].txs = txPerChain(kept, order[j])
  <2> SUFFICES ASSUME NEW j \in 1..m
               PROVE  joined[j].chain = order[j] /\ joined[j].txs = txPerChain(kept, order[j])
    OBVIOUS
  <2>1. joined[j] = [chain |-> order[j], txs |-> txPerChain(kept, order[j])] BY <1>8
  <2> QED BY <2>1
<1>12. ASSUME NEW j \in 1..m PROVE joined[j].txs # << >>
  <2>1. pos[j] \in 1..Len(kept) /\ kept[pos[j]].chain = order[j] BY <1>5 DEF m
  <2>2. txPerChain(kept, order[j]) = << >> <=> \A i \in 1..Len(kept) : kept[i].chain # order[j]
    BY <1>1, TxEmpty, Zenon
  <2> QED BY <1>11, <2>1, <2>2
<1>13. ASSUME NEW c PROVE txPerChain(joined, c) = txPerChain(kept, c)
  <2>1. \A j, k \in 1..Len(joined) : joined[j].chain = joined[k].chain => j = k
    BY <1>5, <1>9, <1>11 DEF m
  <2>2. /\ \A j \in 1..Len(joined) : joined[j].chain = c => txPerChain(joined, c) = joined[j].txs
        /\ (\A j \in 1..Len(joined) : joined[j].chain # c) => txPerChain(joined, c) = << >>
    BY <1>10, <2>1, TxDistinct, Zenon
  <2>3. CASE \E j \in 1..m : order[j] = c BY <1>9, <1>11, <2>2, <2>3
  <2>4. CASE \A j \in 1..m : order[j] # c
    <3>1. \A i \in 1..Len(kept) : kept[i].chain # c BY <1>5, <2>4 DEF m
    <3>2. txPerChain(kept, c) = << >> BY <1>1, <3>1, TxEmpty, Zenon
    <3> QED BY <1>9, <1>11, <2>2, <2>4, <3>2
  <2> QED BY <2>3, <2>4
<1>14. order = [j \in 1..Len(joined) |-> joined[j].chain]
  <2>1. order = [j \in 1..m |-> order[j]] BY <1>5 DEF m
  <2> QED BY <1>9, <1>11, <2>1
<1>15. \E p : Firsts(p, [j \in 1..Len(joined) |-> joined[j].chain], kept) BY <1>4, <1>14
<1>16. \A c : txPerChain(joined, c) = txPerChain(ops, c) BY <1>3, <1>13
<1> QED BY <1>9, <1>10, <1>12, <1>15, <1>16 DEF joined, kept

\* What processBatchOps makes of a spec: no transaction is lost, no operation is
\* empty and, merged, there is one for each chain in the order of the chains.
LEMMA SpecKept ==
  ASSUME NEW spec \in Specs
  PROVE  processBatchOps(spec) \in BatchOps /\ BatchKept(spec)
<1> DEFINE ops == spec.ops
           kept == filterNonEmptyBatchOps(ops)
           joined == mergeBatchOpsPerChain(ops)
           I == {i \in DOMAIN ops : ops[i].txs # << >>}
<1>1. ops \in BatchOps BY DEF Specs
<1>2. CASE ~spec.merge
  <2>1. processBatchOps(spec) = kept BY <1>2, Zenon DEF processBatchOps
  <2> QED BY <1>1, <1>2, <2>1, KeptOps, TxKept, Zenon DEF BatchKept
<1>3. CASE spec.merge
  <2>1. processBatchOps(spec) = joined BY <1>3, Zenon DEF processBatchOps
  <2>2. /\ joined \in BatchOps
        /\ \A c : txPerChain(joined, c) = txPerChain(ops, c)
        /\ \A j \in 1..Len(joined) : joined[j].txs # << >>
        /\ \E pos : Firsts(pos, [j \in 1..Len(joined) |-> joined[j].chain], kept)
    BY <1>1, MergedOps, Zenon
  <2>3. PICK pos : Firsts(pos, [j \in 1..Len(joined) |-> joined[j].chain], kept) BY <2>2, Zenon
  <2>4. PICK at0 : Picks(at0, kept, ops, I) BY <1>1, KeptOps, Zenon
  <2>5. kept \in BatchOps BY <1>1, KeptOps, Zenon
  <2>6. /\ DOMAIN kept = 1..Len(kept) /\ Len(kept) \in Nat /\ Len(joined) \in Nat
        /\ DOMAIN ops = 1..Len(ops) /\ Len(ops) \in Nat
    BY <1>1, <2>2, <2>5, OpType
  <2>7. \A i : i \in I <=> i \in 1..Len(ops) /\ ops[i].txs # << >> BY <2>6
  <2> HIDE DEF joined, kept, I, ops
  <2>8. /\ pos \in [1..Len(joined) -> 1..Len(kept)]
        /\ \A k \in 1..Len(joined) : joined[k].chain = kept[pos[k]].chain
        /\ \A j, k \in 1..Len(joined) :
             j < k => \A n \in 1..pos[j] : kept[n].chain # joined[k].chain
        /\ \A j, k \in 1..Len(joined) : joined[j].chain = joined[k].chain => j = k
    <3> DEFINE order == [j \in 1..Len(joined) |-> joined[j].chain]
    <3>1. Len(order) = Len(joined) /\ \A j \in 1..Len(joined) : order[j] = joined[j].chain
      BY <2>6
    <3>2. Firsts(pos, order, kept) BY <2>3
    <3> HIDE DEF order
    <3> QED BY <3>1, <3>2 DEF Firsts
  <2>9. /\ at0 \in [1..Len(kept) -> I]
        /\ \A j, k \in 1..Len(kept) : j < k => at0[j] < at0[k]
        /\ \A i \in I : \E k \in 1..Len(kept) : at0[k] = i
        /\ \A k \in 1..Len(kept) : kept[k] = ops[at0[k]]
    BY <2>4, <2>6 DEF Picks
  <2>10. ASSUME NEW j \in 1..Len(joined), NEW k \in 1..Len(joined), j < k
         PROVE  /\ joined[j].chain # joined[k].chain
                /\ \E m \in 1..Len(ops) :
                     /\ ops[m].chain = joined[j].chain /\ ops[m].txs # << >>
                     /\ \A n \in 1..m : ops[n].chain = joined[k].chain => ops[n].txs = << >>
    <3> DEFINE m == at0[pos[j]]
    <3>1. pos[j] \in 1..Len(kept) BY <2>8
    <3>2. m \in I /\ kept[pos[j]] = ops[m] BY <2>9, <3>1
    <3>3. m \in 1..Len(ops) /\ ops[m].txs # << >> /\ ops[m].chain = joined[j].chain
      BY <2>7, <2>8, <3>2
    <3>4. ASSUME NEW n \in 1..m, ops[n].chain = joined[k].chain, ops[n].txs # << >> PROVE FALSE
      <4>1. n \in I BY <2>6, <2>7, <3>3, <3>4
      <4>2. PICK l \in 1..Len(kept) : at0[l] = n BY <2>9, <4>1
      <4>3. kept[l].chain = joined[k].chain BY <2>9, <3>4, <4>2
      <4>4. l > pos[j]
        <5>1. l \notin 1..pos[j] BY <2>8, <2>10, <4>3
        <5> QED BY <2>6, <3>1, <5>1
      <4>5. at0[pos[j]] < at0[l] BY <2>6, <2>9, <3>1, <4>4
      <4> HIDE DEF m
      <4>6. m < n BY <4>2, <4>5 DEF m
      <4> QED BY <2>6, <3>3, <4>6
    <3> HIDE DEF m
    <3>5. \A n \in 1..m : ops[n].chain = joined[k].chain => ops[n].txs = << >> BY <3>4
    <3>6. joined[j].chain # joined[k].chain
      <4>1. j \in Nat /\ k \in Nat BY <2>6
      <4>2. j # k BY <2>10, <4>1
      <4> QED BY <2>8, <4>2
    <3> QED BY <3>3, <3>5, <3>6
  <2>11. BatchKept(spec)
    <3>1. \A c \in Chains : txPerChain(joined, c) = txPerChain(ops, c) BY <2>2, Zenon DEF ops
    <3>2. \A j \in 1..Len(joined) : joined[j].txs # << >> BY <2>2, Zenon
    <3> QED BY <2>1, <2>10, <3>1, <3>2 DEF BatchKept, ops
  <2> QED BY <2>1, <2>2, <2>11
<1> QED BY <1>2, <1>3

-----------------------------------------------------------------------------
(* Address books. *)

\* Entries that can be saved are saved, and no other one is lost.
LEMMA SavedSound ==
  ASSUME NEW b \in Book, NEW o \in Book, NEW S \in SUBSET Entries(o), AllSave(b, o, S)
  PROVE  /\ Saved(b, o, S) \in Book
         /\ \A p \in Places : b[p] # None => Saved(b, o, S)[p] = b[p]
         /\ \A p \in S : Standard(p) \in Places /\ Saved(b, o, S)[Standard(p)] = o[p]
<1>1. \A p \in S : p \in Places /\ o[p] \in TVs BY DEF Entries, Book
<1>2. \A p \in S : Valid(p, o[p]) /\ b[Standard(p)] = None BY DEF AllSave, CanSave
<1>3. \A q, r \in S : Standard(q) = Standard(r) => q = r BY DEF AllSave
<1>4. ASSUME NEW p \in S PROVE Standard(p) \in Places
  <2>1. PICK c \in Chains, a \in Addresses : p = <<c, a>> BY <1>1 DEF Places
  <2>2. Family[c] = "evm" => EIP55[a] # None BY <1>2, <2>1 DEF Valid
  <2>3. EIP55[a] # None => EIP55[a] \in Addresses BY AddressBookAssumption
  <2> QED BY <2>1, <2>2, <2>3 DEF Standard, Places
<1>5. ASSUME NEW p \in Places, \E q \in S : Standard(q) = p
      PROVE  o[CHOOSE q \in S : Standard(q) = p] \in TVs \cup {None}
  BY <1>1, <1>5
<1>6. Saved(b, o, S) \in Book BY <1>5, Zenon DEF Saved, Book
<1>7. ASSUME NEW p \in Places, b[p] # None PROVE Saved(b, o, S)[p] = b[p]
  <2>1. ~\E q \in S : Standard(q) = p BY <1>2, <1>7
  <2> QED BY <2>1, Zenon DEF Saved
<1>8. ASSUME NEW p \in S PROVE Saved(b, o, S)[Standard(p)] = o[p]
  <2>1. (CHOOSE q \in S : Standard(q) = Standard(p)) = p BY <1>3
  <2> QED BY <1>4, <2>1, Zenon DEF Saved
<1> QED BY <1>4, <1>6, <1>7, <1>8

\* Merge loses nothing, and when it succeeds every entry is in the book.
LEMMA MergeSound ==
  ASSUME NEW b \in Book, NEW o \in Book, NEW m \in Merge(b, o)
  PROVE  /\ m.ok \in BOOLEAN /\ m.book \in Book
         /\ \A p \in Places : b[p] # None => m.book[p] = b[p]
         /\ m.ok => \A p \in Entries(o) : Standard(p) \in Places /\ m.book[Standard(p)] = o[p]
<1>1. CASE AllSave(b, o, Entries(o))
  <2>1. m = [book |-> Saved(b, o, Entries(o)), ok |-> TRUE] BY <1>1, Zenon DEF Merge
  <2>2. m.ok = TRUE /\ m.book = Saved(b, o, Entries(o)) BY <2>1
  <2>3. Entries(o) \in SUBSET Entries(o) OBVIOUS
  <2>4. /\ Saved(b, o, Entries(o)) \in Book
        /\ \A p \in Places : b[p] # None => Saved(b, o, Entries(o))[p] = b[p]
        /\ \A p \in Entries(o) :
             Standard(p) \in Places /\ Saved(b, o, Entries(o))[Standard(p)] = o[p]
    BY <1>1, <2>3, SavedSound, Zenon
  <2> QED BY <2>2, <2>4
<1>2. CASE ~AllSave(b, o, Entries(o))
  <2>1. PICK S \in SUBSET Entries(o) :
          AllSave(b, o, S) /\ m = [book |-> Saved(b, o, S), ok |-> FALSE]
    BY <1>2, Zenon DEF Merge
  <2>2. m.ok = FALSE /\ m.book = Saved(b, o, S) BY <2>1
  <2> QED BY <2>1, <2>2, SavedSound
<1> QED BY <1>1, <1>2

-----------------------------------------------------------------------------
(* Outputs and proposals. *)

\* Proposals in the state; fresh ones, as they come in; and outputs.
StoredProposals == [kind : {"mcms", "timelock"}, ops : BatchOps, action : STRING,
                    encodable : BOOLEAN, sigs : Seq(STRING), executed : BOOLEAN]
Fresh == {p \in StoredProposals : p.sigs = << >> /\ ~p.executed}
Results == [book : {None} \cup Book, ds : {None} \cup SUBSET (STRING \X Chains),
            mcms : Seq(Fresh), timelock : Seq(Fresh)]

\* Proposals of changesets, and those that are built, are not signed or executed.
LEMMA FreshProposals ==
  /\ NewProposals \subseteq Fresh
  /\ \A kind \in {"mcms", "timelock"}, ops \in BatchOps, action \in STRING, enc \in BOOLEAN :
       Proposal(kind, ops, action, enc) \in Fresh
  /\ NoOutput \in Results
<1>1. << >> \in Seq(STRING) /\ << >> \in Seq(Fresh) OBVIOUS
<1>2. NewProposals \subseteq Fresh BY <1>1 DEF NewProposals, Fresh, StoredProposals
<1>3. ASSUME NEW kind \in {"mcms", "timelock"}, NEW ops \in BatchOps, NEW action \in STRING,
             NEW enc \in BOOLEAN
      PROVE  Proposal(kind, ops, action, enc) \in Fresh
  BY <1>1 DEF Proposal, Fresh, StoredProposals
<1>4. NoOutput \in Results BY <1>1 DEF NoOutput, Results
<1> QED BY <1>2, <1>3, <1>4

\* The proposals that are built from the specs of a part.
LEMMA BuildType ==
  ASSUME NEW specs \in Seq(Specs)
  PROVE  Build(specs) \in Seq(Fresh)
<1> DEFINE b == Built(specs)
<1>1. b \in Seq(Specs) BY AtPicks, Zenon DEF Built
<1> HIDE DEF b
<1>2. Len(b) \in Nat /\ \A i \in 1..Len(b) : b[i] \in Specs BY <1>1
<1> DEFINE e(i) == Proposal("timelock", processBatchOps(b[i]), b[i].action, TRUE)
<1>3. ASSUME NEW i \in 1..Len(b) PROVE e(i) \in Fresh
  <2>1. b[i] \in Specs BY <1>2
  <2>2. processBatchOps(b[i]) \in BatchOps BY <2>1, SpecKept, Zenon
  <2>3. b[i].action \in STRING BY <2>1 DEF Specs
  <2> QED BY <2>2, <2>3, FreshProposals
<1>4. Build(specs) = [i \in 1..Len(b) |-> e(i)] BY Zenon DEF Build, b
<1> HIDE DEF e
<1> QED BY <1>2, <1>3, <1>4

\* What a part returns is an output.
LEMMA PartType ==
  ASSUME NEW p \in Parts
  PROVE  PartOutput(p) \in Results
<1>1. /\ p.book \in {None} \cup Book /\ p.ds \in {None} \cup SUBSET (STRING \X Chains)
      /\ p.mcms \in Seq(NewProposals) /\ p.specs \in Seq(Specs)
  BY Zenon DEF Parts
<1>2. Build(p.specs) \in Seq(Fresh) BY <1>1, BuildType
<1>3. p.mcms \in Seq(Fresh)
  <2>1. \A S, T : S \subseteq T => Seq(S) \subseteq Seq(T) OBVIOUS
  <2> QED BY <1>1, <2>1, FreshProposals, Zenon
<1> QED BY <1>1, <1>2, <1>3 DEF PartOutput, Results

\* What mergeProposals stores: all proposals of an output, or fewer.
LEMMA StoredSound ==
  ASSUME NEW out \in Results
  PROVE  /\ out.mcms \o out.timelock \in Seq(Fresh)
         /\ Len(out.mcms \o out.timelock) = Len(out.mcms) + Len(out.timelock)
         /\ Stored(out) \in Seq(Fresh)
         /\ Len(Stored(out)) = Len(out.mcms) + Len(out.timelock) =>
              Stored(out) = out.mcms \o out.timelock
<1> DEFINE all == out.mcms \o out.timelock
           bad == {i \in 1..Len(all) : ~all[i].encodable}
           k == CHOOSE i \in bad : \A j \in bad : i <= j
<1>1. out.mcms \in Seq(Fresh) /\ out.timelock \in Seq(Fresh) BY DEF Results
<1>2. all \in Seq(Fresh) /\ Len(all) = Len(out.mcms) + Len(out.timelock) /\ Len(all) \in Nat
  <2>1. ASSUME NEW S, NEW q \in Seq(S), NEW r \in Seq(S)
        PROVE  q \o r \in Seq(S) /\ Len(q \o r) = Len(q) + Len(r) /\ Len(q \o r) \in Nat
    OBVIOUS
  <2> QED BY <1>1, <2>1, Zenon
<1>3. Stored(out) = IF bad = {} THEN all ELSE SubSeq(all, 1, k - 1) BY Zenon DEF Stored
<1> HIDE DEF all
<1>4. CASE bad = {} BY <1>2, <1>3, <1>4 DEF all
<1>5. CASE bad # {}
  <2>0. bad \subseteq 1..Len(all) BY Zenon
  <2>1. bad \subseteq Nat
    <3> HIDE DEF bad
    <3>1. \A i \in 1..Len(all) : i \in Nat BY <1>2
    <3> QED BY <2>0, <3>1
  <2>2. PICK n \in bad : \A m \in bad : ~(<<m, n>> \in OpToRel(<, Nat))
    BY <1>5, <2>1, NatLessThanWellFounded, WFMin, Zenon
  <2>3. \A m \in bad : ~(m < n)
    <3>1. \A m \in bad : m < n => <<m, n>> \in OpToRel(<, Nat) BY <2>1, Zenon DEF OpToRel
    <3> QED BY <2>2, <3>1
  <2>4. \A m \in bad : n <= m BY <2>1, <2>3
  <2>5. k \in bad BY <2>4, Zenon
  <2> HIDE DEF k
  <2>6. k \in 1..Len(all) BY <2>5
  <2>7. Stored(out) = SubSeq(all, 1, k - 1) BY <1>3, <1>5
  <2> HIDE DEF bad
  <2>8. Stored(out) \in Seq(Fresh) /\ Len(Stored(out)) = k - 1
    <3>1. ASSUME NEW S, NEW q \in Seq(S), NEW j \in 1..Len(q)
          PROVE  SubSeq(q, 1, j - 1) \in Seq(S) /\ Len(SubSeq(q, 1, j - 1)) = j - 1
      OBVIOUS
    <3>2. SubSeq(all, 1, k - 1) \in Seq(Fresh) /\ Len(SubSeq(all, 1, k - 1)) = k - 1
      BY <1>2, <2>6, <3>1
    <3> QED BY <2>7, <3>2
  <2>9. k - 1 # Len(all)
    <3>1. \A l \in Nat : \A j \in 1..l : j - 1 # l OBVIOUS
    <3> QED BY <1>2, <2>6, <3>1, Zenon
  <2> QED BY <1>2, <2>8, <2>9 DEF all
<1> QED BY <1>4, <1>5

-----------------------------------------------------------------------------
(* The inductive invariant of the runtime. *)

\* Where ExecuteMCMS and the execution on the timelocks are.
OnTimelock == {"proxies", "ready", "timelock"}
AtWork == {"root", "op"} \cup OnTimelock \cup {"mark"}
OnProposal == {"sign", "exec"} \cup AtWork

\* The types of what the state holds.
StateType ==
  /\ book \in Book /\ ds \in SUBSET (STRING \X Chains)
  /\ proposals \in Seq(StoredProposals)
  /\ outputs \subseteq [id : Nat \X Nat \X Nat, out : Results, at : Nat]

\* What the chains did for a proposal is part of it.
Within(p, r, m, t) ==
  r \subseteq ChainMetadata(p) /\ m \subseteq 1..Len(p.ops) /\ t \subseteq 1..Len(p.ops)

ChainType ==
  /\ sent \in Seq(Nat) /\ Len(sent) = Len(proposals)
  /\ rooted \in Seq(SUBSET Chains) /\ Len(rooted) = Len(proposals)
  /\ mcmsDone \in Seq(SUBSET Nat) /\ Len(mcmsDone) = Len(proposals)
  /\ timelockDone \in Seq(SUBSET Nat) /\ Len(timelockDone) = Len(proposals)
  /\ \A i \in Ids : Within(proposals[i], rooted[i], mcmsDone[i], timelockDone[i])

StateInv == StateType /\ ChainType /\ ExecutedDone

\* The types of the call that runs, and of the environment.
CallType ==
  /\ envDs \in SUBSET (STRING \X Chains) /\ dirty \in BOOLEAN
  /\ execs \in 0..MaxExecs
  /\ tasks \in Seq(Tasks)
  /\ pc \in {"idle", "task", "apply", "merge"} \cup OnProposal
  /\ (pc = "idle") = (tasks = << >>)
  /\ cs \in Nat /\ part \in Nat /\ opIdx \in Nat /\ dest \in Results
  /\ pending \in Seq(Nat) /\ \A i \in DOMAIN pending : pending[i] \in Ids
  /\ roots \subseteq Chains

\* The steps are those of the task that runs.
TaskSound ==
  /\ pc \in {"idle", "task"} => cs = 1 /\ part = 1 /\ dest = NoOutput
  /\ pc \in {"apply", "merge"} => Task.kind = "changesets" /\ cs \in DOMAIN Task.css
  /\ pc = "apply" => /\ part \in DOMAIN Changeset.parts
                     /\ ~Changeset.composed => part = 1
  /\ pc \in OnProposal => /\ Task.kind # "changesets" /\ pending # << >>
                          /\ Task.kind # "signAndExecute" => Len(pending) = 1
  /\ pc = "sign" => Task.kind \in {"sign", "signAndExecute"}

\* How far the execution of the proposal p is: what is before it took effect.
Reached(p, r, m, t) ==
  /\ ~p.executed
  /\ pc = "root" => roots \subseteq ChainMetadata(p) /\ ChainMetadata(p) \ roots \subseteq r
  /\ pc # "root" => p.ops # << >> /\ ChainMetadata(p) \subseteq r
  /\ pc = "op" => opIdx \in 1..Len(p.ops) /\ 1..(opIdx - 1) \subseteq m
  /\ pc \in OnTimelock \cup {"mark"} => 1..Len(p.ops) \subseteq m
  /\ pc \in OnTimelock => AfterMCMS(p) = "proxies"
  /\ pc \in {"proxies", "ready"} => opIdx = 1
  /\ pc = "timelock" => opIdx \in 1..Len(p.ops) /\ 1..(opIdx - 1) \subseteq t
  /\ pc = "mark" /\ AfterMCMS(p) = "proxies" => 1..Len(p.ops) \subseteq t

Progress == pc \in AtWork => Reached(P, rooted[Id], mcmsDone[Id], timelockDone[Id])

\* SignAndExecute goes through the proposals that are pending, each once.
PendingFresh ==
  pc \in OnProposal /\ Task.kind = "signAndExecute" =>
    /\ \A j, k \in DOMAIN pending : pending[j] = pending[k] => j = k
    /\ \A j \in DOMAIN pending : ~proposals[pending[j]].executed

TaskInv == CallType /\ TaskSound /\ Progress /\ PendingFresh

RunInv == StateInv /\ TaskInv

-----------------------------------------------------------------------------
(* Steps that end a task, and steps that leave the state as it is. *)

\* A task with changesets has one at least.
LEMMA TaskType ==
  ASSUME NEW t \in Tasks, t.kind = "changesets"
  PROVE  t.css \in Seq(Changesets) /\ t.css # << >>
<1>1. t \in [kind : {"changesets"}, css : Seq(Changesets) \ {<< >>}]
  <2>1. t \notin [kind : {"signAndExecute"}] OBVIOUS
  <2>2. t \notin [kind : {"sign"}, id : Nat, keys : Seq(STRING)] OBVIOUS
  <2>3. t \notin [kind : {"execute"}, id : Nat] OBVIOUS
  <2> QED BY <2>1, <2>2, <2>3, Zenon DEF Tasks
<1> QED BY <1>1, Zenon

\* The task that runs is the first of the rest.
LEMMA TaskRuns ==
  ASSUME CallType, pc # "idle"
  PROVE  /\ tasks # << >> /\ Task \in Tasks /\ Len(tasks) \in Nat \ {0}
         /\ Tail(tasks) \in Seq(Tasks) /\ (Len(tasks) = 1) = (Tail(tasks) = << >>)
<1>1. tasks \in Seq(Tasks) /\ tasks # << >> BY DEF CallType
<1>2. ASSUME NEW S, NEW q \in Seq(S), q # << >>
      PROVE  /\ Head(q) \in S /\ Len(q) \in Nat \ {0} /\ Tail(q) \in Seq(S)
             /\ (Len(q) = 1) = (Tail(q) = << >>)
  <2>1. Len(q) \in Nat \ {0} /\ Head(q) \in S /\ Tail(q) \in Seq(S) /\ Len(Tail(q)) = Len(q) - 1
    BY <1>2
  <2>2. Tail(q) = << >> <=> Len(Tail(q)) = 0 BY <2>1
  <2> QED BY <2>1, <2>2
<1> QED BY <1>1, <1>2, Zenon DEF Task

\* Nothing in the state or on the chains has changed.
LEMMA StateSame ==
  ASSUME StateInv, UNCHANGED <<state, chain>>
  PROVE  StateInv'
<1> QED BY DEF StateInv, StateType, ChainType, ExecutedDone, state, chain, Ids

\* Whatever a task has done, after it the next call or task starts anew.
LEMMA Ends ==
  ASSUME CallType, pc # "idle", ds' \in SUBSET (STRING \X Chains), Fail \/ Succeed
  PROVE  TaskInv'
<1>1. /\ tasks # << >> /\ Len(tasks) \in Nat \ {0} /\ Tail(tasks) \in Seq(Tasks)
      /\ (Len(tasks) = 1) = (Tail(tasks) = << >>)
  BY TaskRuns
<1>2. pc' \in {"idle", "task"} /\ tasks' \in Seq(Tasks) /\ (pc' = "idle") = (tasks' = << >>)
  <2>1. CASE Fail BY <2>1 DEF Fail
  <2>2. CASE Succeed BY <1>1, <2>2 DEF Succeed
  <2> QED BY <2>1, <2>2
<1>3. /\ cs' = 1 /\ part' = 1 /\ dest' = NoOutput /\ pending' = << >> /\ roots' = {} /\ opIdx' = 1
      /\ execs' = execs
  BY DEF Fail, Succeed, Reset
<1>4. envDs' \in SUBSET (STRING \X Chains) /\ dirty' \in BOOLEAN
  <2>1. CASE Fail BY <2>1 DEF Fail, CallType
  <2>2. CASE Succeed BY <2>2 DEF Succeed
  <2> QED BY <2>1, <2>2
<1>5. CallType'
  <2>1. NoOutput \in Results BY FreshProposals
  <2>2. pending' \in Seq(Nat) /\ \A i \in DOMAIN pending' : pending'[i] \in Ids' BY <1>3
  <2>3. execs' \in 0..MaxExecs BY <1>3 DEF CallType
  <2> QED BY <1>2, <1>3, <1>4, <2>1, <2>2, <2>3 DEF CallType
<1>6. TaskSound' BY <1>2, <1>3 DEF TaskSound, OnProposal, AtWork, OnTimelock
<1>7. pc' \notin AtWork /\ pc' \notin OnProposal BY <1>2 DEF OnProposal, AtWork, OnTimelock
<1>8. Progress' BY <1>7 DEF Progress
<1>9. PendingFresh' BY <1>7 DEF PendingFresh
<1> QED BY <1>5, <1>6, <1>8, <1>9 DEF TaskInv

-----------------------------------------------------------------------------
(* Changesets. *)

\* While changesets run, the changeset and its part exist.
LEMMA OnChangeset ==
  ASSUME CallType, TaskSound, pc \in {"apply", "merge"}
  PROVE  /\ Task \in Tasks /\ Task.kind = "changesets" /\ Task.css \in Seq(Changesets)
         /\ Changeset \in Changesets /\ Changeset.parts \in Seq(Parts)
         /\ cs \in 1..Len(Task.css) /\ Len(Task.css) \in Nat
         /\ pc = "apply" => /\ part \in 1..Len(Changeset.parts)
                            /\ Changeset.parts[part] \in Parts
                            /\ PartOutput(Changeset.parts[part]) \in Results
<1>1. Task \in Tasks /\ Task.kind = "changesets" /\ cs \in DOMAIN Task.css
  BY TaskRuns DEF TaskSound
<1>2. Task.css \in Seq(Changesets) BY <1>1, TaskType
<1>3. \A S : \A q \in Seq(S) : DOMAIN q = 1..Len(q) /\ Len(q) \in Nat
                               /\ \A i \in DOMAIN q : q[i] \in S
  OBVIOUS
<1>4. Changeset \in Changesets BY <1>1, <1>2, <1>3, Zenon DEF Changeset
<1>5. Changeset.parts \in Seq(Parts) BY <1>4, Zenon DEF Changesets
<1>6. cs \in 1..Len(Task.css) /\ Len(Task.css) \in Nat BY <1>1, <1>2, <1>3, Zenon
<1>7. CASE pc = "apply"
  <2>1. part \in DOMAIN Changeset.parts BY <1>7 DEF TaskSound
  <2>2. Changeset.parts[part] \in Parts /\ part \in 1..Len(Changeset.parts)
    BY <1>3, <1>5, <2>1, Zenon
  <2>3. PartOutput(Changeset.parts[part]) \in Results BY <2>2, PartType
  <2> QED BY <1>1, <1>2, <1>4, <1>5, <1>6, <2>2, <2>3
<1> QED BY <1>1, <1>2, <1>4, <1>5, <1>6, <1>7

\* A step from one part, or one changeset, to the next.
LEMMA Continue ==
  ASSUME CallType, TaskSound, pc \in {"apply", "merge"}, pc' \in {"apply", "merge"},
         dest' \in Results, cs' \in 1..Len(Task.css), part' \in Nat,
         pc' = "apply" => /\ part' \in DOMAIN Task.css[cs'].parts
                          /\ ~Task.css[cs'].composed => part' = 1,
         Ids \subseteq Ids', UNCHANGED <<envDs, execs, tasks, pending, roots, opIdx, dirty>>
  PROVE  TaskInv'
<1>1. Task' = Task BY DEF Task
<1>2. /\ Task.kind = "changesets" /\ Task.css \in Seq(Changesets)
      /\ cs' \in DOMAIN Task.css /\ cs' \in Nat
  <2>1. \A S : \A q \in Seq(S) : DOMAIN q = 1..Len(q) /\ \A j \in 1..Len(q) : j \in Nat OBVIOUS
  <2>2. Task.kind = "changesets" /\ Task.css \in Seq(Changesets) BY OnChangeset
  <2> QED BY <2>1, <2>2
<1>3. CallType' BY <1>2 DEF CallType
<1>4. Changeset' = Task.css[cs'] BY <1>1 DEF Changeset
<1>5. pc' \notin OnProposal /\ pc' \notin AtWork BY DEF OnProposal, AtWork, OnTimelock
<1>6. TaskSound' BY <1>1, <1>2, <1>4, <1>5 DEF TaskSound
<1>7. Progress' BY <1>5 DEF Progress
<1>8. PendingFresh' BY <1>5 DEF PendingFresh
<1> QED BY <1>3, <1>6, <1>7, <1>8 DEF TaskInv

\* Exec is called, and a task with changesets begins.
LEMMA CallSteps ==
  ASSUME RunInv, (\E call \in Calls : Exec(call)) \/ BeginChangesets
  PROVE  RunInv'
<1>0. /\ StateInv /\ CallType /\ TaskSound /\ UNCHANGED <<state, chain>>
      /\ ds \in SUBSET (STRING \X Chains)
  BY DEF RunInv, TaskInv, StateInv, StateType, BeginChangesets, Exec
<1>1. StateInv' BY <1>0, StateSame
<1>2. ds' \in SUBSET (STRING \X Chains) BY <1>0 DEF state
<1>3. ASSUME NEW call \in Calls, Exec(call) PROVE TaskInv'
  <2>1. call \in Seq(Tasks) \ {<< >>} BY RuntimeAssumption, Zenon
  <2>2. /\ pc = "idle" /\ execs < MaxExecs /\ execs' = execs + 1 /\ tasks' = call /\ pc' = "task"
        /\ UNCHANGED <<proposals, envDs, cs, part, dest, pending, roots, opIdx, dirty>>
    BY <1>3 DEF Exec, state
  <2>3. execs' \in 0..MaxExecs
    <3>1. MaxExecs \in Nat BY RuntimeAssumption
    <3> QED BY <1>0, <2>2, <3>1 DEF CallType
  <2>4. CallType' BY <1>0, <2>1, <2>2, <2>3 DEF CallType, Ids
  <2>5. pc' \notin AtWork /\ pc' \notin OnProposal BY <2>2 DEF OnProposal, AtWork, OnTimelock
  <2>6. TaskSound' BY <1>0, <2>2, <2>5 DEF TaskSound
  <2>7. Progress' /\ PendingFresh' BY <2>5 DEF Progress, PendingFresh
  <2> QED BY <2>4, <2>6, <2>7 DEF TaskInv
<1>4. ASSUME BeginChangesets PROVE TaskInv'
  <2>1. pc = "task" /\ Task.kind = "changesets" BY <1>4 DEF BeginChangesets
  <2>2. CASE Fail BY <1>0, <1>2, <2>1, <2>2, Ends
  <2>3. CASE /\ pc' = "apply" /\ taskEnv' = envDs
             /\ UNCHANGED <<envDs, execs, tasks, cs, part, dest, pending, roots, opIdx, res, dirty>>
    <3>1. Task \in Tasks BY <1>0, <2>1, TaskRuns
    <3>2. Task.css \in Seq(Changesets) /\ Task.css # << >> BY <2>1, <3>1, TaskType
    <3>3. \A S : \A q \in Seq(S) : q # << >> => 1 \in DOMAIN q /\ q[1] \in S OBVIOUS
    <3>4. 1 \in DOMAIN Task.css /\ Task.css[1] \in Changesets BY <3>2, <3>3, Zenon
    <3>5. Task.css[1].parts \in Seq(Parts) /\ Task.css[1].parts # << >>
      BY <3>4, Zenon DEF Changesets
    <3>6. 1 \in DOMAIN Task.css[1].parts BY <3>3, <3>5, Zenon
    <3>7. cs' = 1 /\ part' = 1 BY <1>0, <2>1, <2>3 DEF TaskSound
    <3>8. Task' = Task /\ Changeset' = Task.css[1] BY <2>3, <3>7 DEF Task, Changeset
    <3>9. CallType' BY <1>0, <2>1, <2>3 DEF CallType, Ids, state
    <3>10. pc' \notin OnProposal /\ pc' \notin AtWork BY <2>3 DEF OnProposal, AtWork, OnTimelock
    <3>11. TaskSound' BY <2>1, <2>3, <3>4, <3>6, <3>7, <3>8, <3>10 DEF TaskSound
    <3>12. Progress' /\ PendingFresh' BY <3>10 DEF Progress, PendingFresh
    <3> QED BY <3>9, <3>11, <3>12 DEF TaskInv
  <2> QED BY <1>4, <2>2, <2>3 DEF BeginChangesets
<1> QED BY <1>1, <1>3, <1>4 DEF RunInv

\* An output after the output of a part has been merged into it.
Added(d, src, b) ==
  [d EXCEPT !.mcms = @ \o src.mcms, !.timelock = @ \o src.timelock, !.book = b]

\* The merged output is an output.
LEMMA AddedType ==
  ASSUME NEW d \in Results, NEW src \in Results, NEW b \in {None} \cup Book
  PROVE  Added(d, src, b) \in Results
<1>1. \A q, r \in Seq(Fresh) : q \o r \in Seq(Fresh) OBVIOUS
<1>2. d.mcms \o src.mcms \in Seq(Fresh) /\ d.timelock \o src.timelock \in Seq(Fresh)
  BY <1>1 DEF Results
<1> DEFINE q == d.mcms \o src.mcms  r == d.timelock \o src.timelock
<1>3. Added(d, src, b) = [d EXCEPT !.mcms = q, !.timelock = r, !.book = b] BY DEF Added
<1> HIDE DEF q, r
<1>4. q \in Seq(Fresh) /\ r \in Seq(Fresh) BY <1>2 DEF q, r
<1> QED BY <1>3, <1>4 DEF Results

\* What MergeParts does with the book of the environment, and with the output.
LEMMA MergePartsEffect ==
  ASSUME RunInv, MergeParts
  PROVE  /\ pc = "apply" /\ CallType /\ TaskSound /\ book' \in Book
         /\ \A p \in Places : book[p] # None => book'[p] = book[p]
         /\ UNCHANGED <<ds, proposals, outputs, chain, broken>>
         /\ \/ Fail
            \/ /\ \E b \in {None} \cup Book :
                    dest' = Added(dest, PartOutput(Changeset.parts[part]), b)
               /\ Changeset.composed /\ NextPart
               /\ UNCHANGED <<envDs, execs, tasks, taskEnv, cs, pending, roots, opIdx, res, dirty>>
<1> DEFINE src == PartOutput(Changeset.parts[part])
           props == [dest EXCEPT !.mcms = @ \o src.mcms, !.timelock = @ \o src.timelock]
<1>1. pc = "apply" /\ Changeset.composed /\ UNCHANGED <<ds, proposals, outputs, chain, broken>>
  BY DEF MergeParts
<1>2. CallType /\ TaskSound /\ book \in Book BY DEF RunInv, TaskInv, StateInv, StateType
<1>3. src \in Results BY <1>1, <1>2, OnChangeset
<1>4. dest \in Results BY <1>2 DEF CallType
<1>5. \/ /\ dest.book = None \/ src.book = None
         /\ dest' = [props EXCEPT !.book = IF @ = None THEN src.book ELSE @]
         /\ NextPart
         /\ UNCHANGED <<book, envDs, execs, tasks, taskEnv, cs, pending, roots, opIdx, res, dirty>>
      \/ /\ dest.book # None /\ src.book # None
         /\ \E m \in Merge(dest.book, src.book) :
              \/ /\ ~m.ok /\ Fail /\ UNCHANGED <<book>>
              \/ /\ m.ok
                 /\ \E e \in Merge(book, src.book) :
                      /\ book' = e.book
                      /\ \/ /\ ~e.ok /\ Fail
                         \/ /\ e.ok
                            /\ dest' = [props EXCEPT !.book = m.book]
                            /\ NextPart
                            /\ UNCHANGED <<envDs, execs, tasks, taskEnv, cs, pending, roots,
                                           opIdx, res, dirty>>
  BY Zenon DEF MergeParts
<1> HIDE DEF src
<1>6. \A b : [props EXCEPT !.book = b] = Added(dest, src, b) BY <1>4 DEF Added, Results
<1>7. props.book = dest.book BY <1>4 DEF Results
<1> HIDE DEF props
<1>8. dest.book \in {None} \cup Book /\ src.book \in {None} \cup Book BY <1>3, <1>4 DEF Results
<1>9. CASE /\ dest.book = None \/ src.book = None
           /\ dest' = [props EXCEPT !.book = IF @ = None THEN src.book ELSE @]
           /\ NextPart
           /\ UNCHANGED <<book, envDs, execs, tasks, taskEnv, cs, pending, roots, opIdx, res, dirty>>
  <2> DEFINE b == IF dest.book = None THEN src.book ELSE dest.book
  <2>1. b \in {None} \cup Book BY <1>8
  <2>2. dest' = [props EXCEPT !.book = b] BY <1>7, <1>9
  <2> HIDE DEF b
  <2>3. dest' = Added(dest, src, b) BY <1>6, <2>2
  <2> QED BY <1>1, <1>2, <1>9, <2>1, <2>3 DEF src
<1>10. CASE /\ dest.book # None /\ src.book # None
            /\ \E m \in Merge(dest.book, src.book) :
              \/ /\ ~m.ok /\ Fail /\ UNCHANGED <<book>>
              \/ /\ m.ok
                 /\ \E e \in Merge(book, src.book) :
                      /\ book' = e.book
                      /\ \/ /\ ~e.ok /\ Fail
                         \/ /\ e.ok
                            /\ dest' = [props EXCEPT !.book = m.book]
                            /\ NextPart
                            /\ UNCHANGED <<envDs, execs, tasks, taskEnv, cs, pending, roots,
                                           opIdx, res, dirty>>
  <2>1. PICK m \in Merge(dest.book, src.book) :
              \/ /\ ~m.ok /\ Fail /\ UNCHANGED <<book>>
              \/ /\ m.ok
                 /\ \E e \in Merge(book, src.book) :
                      /\ book' = e.book
                      /\ \/ /\ ~e.ok /\ Fail
                         \/ /\ e.ok
                            /\ dest' = [props EXCEPT !.book = m.book]
                            /\ NextPart
                            /\ UNCHANGED <<envDs, execs, tasks, taskEnv, cs, pending, roots,
                                           opIdx, res, dirty>>
    BY <1>10
  <2>2. dest.book \in Book /\ src.book \in Book BY <1>8, <1>10
  <2>3. m.book \in Book BY <2>2, MergeSound, Zenon
  <2>4. CASE ~m.ok /\ Fail /\ UNCHANGED <<book>> BY <1>1, <1>2, <2>4
  <2>5. CASE /\ m.ok
             /\ \E e \in Merge(book, src.book) :
                      /\ book' = e.book
                      /\ \/ /\ ~e.ok /\ Fail
                         \/ /\ e.ok
                            /\ dest' = [props EXCEPT !.book = m.book]
                            /\ NextPart
                            /\ UNCHANGED <<envDs, execs, tasks, taskEnv, cs, pending, roots,
                                           opIdx, res, dirty>>
    <3>1. PICK e \in Merge(book, src.book) :
                      /\ book' = e.book
                      /\ \/ /\ ~e.ok /\ Fail
                         \/ /\ e.ok
                            /\ dest' = [props EXCEPT !.book = m.book]
                            /\ NextPart
                            /\ UNCHANGED <<envDs, execs, tasks, taskEnv, cs, pending, roots,
                                           opIdx, res, dirty>>
      BY <2>5
    <3>2. e.book \in Book /\ \A p \in Places : book[p] # None => e.book[p] = book[p]
      BY <1>2, <2>2, MergeSound, Zenon
    <3>3. Fail \/ (/\ dest' = Added(dest, src, m.book) /\ NextPart
                   /\ UNCHANGED <<envDs, execs, tasks, taskEnv, cs, pending, roots, opIdx, res, dirty>>)
      BY <1>6, <3>1
    <3> QED BY <1>1, <1>2, <2>3, <3>1, <3>2, <3>3 DEF src
  <2> QED BY <2>1, <2>4, <2>5
<1> QED BY <1>5, <1>9, <1>10

\* Only the address book has changed.
LEMMA BookGrows ==
  ASSUME StateInv, book' \in Book, UNCHANGED <<ds, proposals, outputs, chain>>
  PROVE  StateInv'
<1> QED BY DEF StateInv, StateType, ChainType, ExecutedDone, chain, Ids

\* A changeset is applied, or a part of it, or fails.
LEMMA ApplySteps ==
  ASSUME RunInv, ApplyFails \/ ApplySimple \/ MergeParts
  PROVE  RunInv'
<1>0. StateInv /\ CallType /\ TaskSound /\ book \in Book /\ ds \in SUBSET (STRING \X Chains)
  BY DEF RunInv, TaskInv, StateInv, StateType
<1>1. pc = "apply" BY DEF ApplyFails, ApplySimple, MergeParts
<1>2. CASE ApplyFails
  <2>1. Fail /\ UNCHANGED <<state, chain>> BY <1>2 DEF ApplyFails
  <2>2. ds' \in SUBSET (STRING \X Chains) BY <1>0, <2>1 DEF state
  <2>3. StateInv' BY <1>0, <2>1, StateSame
  <2>4. TaskInv' BY <1>0, <1>1, <2>1, <2>2, Ends
  <2> QED BY <2>3, <2>4 DEF RunInv
<1>3. CASE ApplySimple
  <2>1. /\ dest' = PartOutput(Changeset.parts[1]) /\ pc' = "merge" /\ ~Changeset.composed
        /\ UNCHANGED <<state, envDs, execs, tasks, taskEnv, cs, part, pending, roots, opIdx, res,
                       chain, dirty>>
    BY <1>3, Zenon DEF ApplySimple
  <2>2. part = 1 BY <1>0, <1>1, <2>1 DEF TaskSound
  <2>3. dest' \in Results BY <1>0, <1>1, <2>1, <2>2, OnChangeset
  <2>4. cs' \in 1..Len(Task.css) BY <1>0, <1>1, <2>1, OnChangeset
  <2>5. part' \in Nat BY <1>0, <2>1 DEF CallType
  <2>6. Ids \subseteq Ids' /\ UNCHANGED <<envDs, execs, tasks, pending, roots, opIdx, dirty>>
    BY <2>1 DEF state, Ids
  <2>7. TaskInv' BY <1>0, <1>1, <2>1, <2>3, <2>4, <2>5, <2>6, Continue
  <2>8. StateInv' BY <1>0, <2>1, StateSame
  <2> QED BY <2>7, <2>8 DEF RunInv
<1>4. CASE MergeParts
  <2>1. /\ book' \in Book /\ UNCHANGED <<ds, proposals, outputs, chain, broken>>
        /\ \/ Fail
           \/ /\ \E b \in {None} \cup Book :
                    dest' = Added(dest, PartOutput(Changeset.parts[part]), b)
              /\ Changeset.composed /\ NextPart
              /\ UNCHANGED <<envDs, execs, tasks, taskEnv, cs, pending, roots, opIdx, res, dirty>>
    BY <1>4, MergePartsEffect
  <2>2. StateInv' BY <1>0, <2>1, BookGrows
  <2>3. ds' \in SUBSET (STRING \X Chains) BY <1>0, <2>1
  <2>4. CASE Fail
    <3>1. TaskInv' BY <1>0, <1>1, <2>3, <2>4, Ends
    <3> QED BY <2>2, <3>1 DEF RunInv
  <2>5. CASE /\ \E b \in {None} \cup Book :
                    dest' = Added(dest, PartOutput(Changeset.parts[part]), b)
             /\ Changeset.composed /\ NextPart
             /\ UNCHANGED <<envDs, execs, tasks, taskEnv, cs, pending, roots, opIdx, res, dirty>>
    <3>1. /\ PartOutput(Changeset.parts[part]) \in Results /\ dest \in Results
          /\ part \in 1..Len(Changeset.parts) /\ cs \in 1..Len(Task.css)
          /\ Changeset.parts \in Seq(Parts)
      BY <1>0, <1>1, OnChangeset DEF CallType
    <3>2. dest' \in Results BY <2>5, <3>1, AddedType, Zenon
    <3>3. /\ part' = part + 1
          /\ pc' = IF part = Len(Changeset.parts) THEN "merge" ELSE "apply"
          /\ Changeset = Task.css[cs]
      BY <2>5 DEF NextPart, Changeset
    <3>4. part' \in Nat /\ (pc' = "apply" => part' \in DOMAIN Changeset.parts)
      <4>1. \A l \in Nat : \A k \in 1..l : k + 1 \in Nat /\ (k # l => k + 1 \in 1..l) OBVIOUS
      <4>2. \A S : \A q \in Seq(S) : Len(q) \in Nat /\ DOMAIN q = 1..Len(q) OBVIOUS
      <4>3. Len(Changeset.parts) \in Nat /\ DOMAIN Changeset.parts = 1..Len(Changeset.parts)
        BY <3>1, <4>2, Zenon
      <4> QED BY <3>1, <3>3, <4>1, <4>3
    <3>5. pc' \in {"apply", "merge"} BY <3>3
    <3>6. /\ cs' = cs /\ Ids \subseteq Ids'
          /\ UNCHANGED <<envDs, execs, tasks, pending, roots, opIdx, dirty>>
      BY <2>1, <2>5 DEF Ids
    <3>7. pc' = "apply" => /\ part' \in DOMAIN Task.css[cs'].parts
                           /\ ~Task.css[cs'].composed => part' = 1
      BY <2>5, <3>3, <3>4, <3>6
    <3>8. cs' \in 1..Len(Task.css) BY <3>1, <3>6
    <3>9. TaskInv' BY <1>0, <1>1, <3>2, <3>4, <3>5, <3>6, <3>7, <3>8, Continue
    <3> QED BY <2>2, <3>9 DEF RunInv
  <2> QED BY <2>1, <2>4, <2>5
<1> QED BY <1>2, <1>3, <1>4

-----------------------------------------------------------------------------
(* The output of a changeset becomes part of the state. *)

\* What State.MergeChangesetOutput does: add are the proposals that are new.
Stores(add, ok) ==
  /\ book' \in Book /\ (\A p \in Places : book[p] # None => book'[p] = book[p])
  /\ ds' \in SUBSET (STRING \X Chains) /\ ds \subseteq ds'
  /\ add \in Seq(Fresh) /\ proposals' = proposals \o add
  /\ sent' = [i \in 1..Len(proposals') |-> IF i \in Ids THEN sent[i] ELSE 0]
  /\ rooted' = [i \in 1..Len(proposals') |-> IF i \in Ids THEN rooted[i] ELSE {}]
  /\ mcmsDone' = [i \in 1..Len(proposals') |-> IF i \in Ids THEN mcmsDone[i] ELSE {}]
  /\ timelockDone' = [i \in 1..Len(proposals') |-> IF i \in Ids THEN timelockDone[i] ELSE {}]
  /\ ok => /\ outputs' = outputs \cup {[id |-> <<execs, Len(tasks), cs>>, out |-> dest,
                                        at |-> Len(proposals)]}
           /\ add = dest.mcms \o dest.timelock
           /\ dest.ds # None => dest.ds \subseteq ds'
           /\ dest.book # None =>
                \A p \in Entries(dest.book) :
                  Standard(p) \in Places /\ book'[Standard(p)] = dest.book[p]
  /\ ~ok => outputs' = outputs
  /\ IF ok THEN NextChangeset ELSE Fail
  /\ UNCHANGED broken

\* State.MergeChangesetOutput is such a step, with or without an error.
LEMMA StoresSound ==
  ASSUME RunInv, MergeChangesetOutput
  PROVE  pc = "merge" /\ \E add, ok : Stores(add, ok)
<1>1. pc = "merge" BY DEF MergeChangesetOutput
<1>2. /\ dest \in Results /\ book \in Book /\ ds \in SUBSET (STRING \X Chains)
      /\ proposals \in Seq(StoredProposals)
  BY DEF RunInv, TaskInv, CallType, StateInv, StateType
<1> DEFINE Outcomes0 == IF dest.book = None THEN {[book |-> book, ok |-> TRUE]}
                        ELSE Merge(book, dest.book)
           new == Stored(dest)
           Fine(m) == m.ok /\ Len(new) = Len(dest.mcms) + Len(dest.timelock)
<1>3. PICK m \in Outcomes0 :
       /\ book' = m.book
       /\ ds' = IF m.ok /\ dest.ds # None THEN ds \cup dest.ds ELSE ds
       /\ proposals' = IF m.ok THEN proposals \o new ELSE proposals
       /\ sent' = [i \in 1..Len(proposals') |-> IF i \in Ids THEN sent[i] ELSE 0]
       /\ rooted' = [i \in 1..Len(proposals') |-> IF i \in Ids THEN rooted[i] ELSE {}]
       /\ mcmsDone' = [i \in 1..Len(proposals') |-> IF i \in Ids THEN mcmsDone[i] ELSE {}]
       /\ timelockDone' = [i \in 1..Len(proposals') |-> IF i \in Ids THEN timelockDone[i] ELSE {}]
       /\ outputs' = IF StoresOutput(Fine(m))
                       THEN outputs \cup {[id |-> <<execs, Len(tasks), cs>>, out |-> dest,
                                           at |-> Len(proposals)]}
                       ELSE outputs
       /\ IF Fine(m) THEN NextChangeset ELSE Fail
  BY Zenon DEF MergeChangesetOutput
<1>4. UNCHANGED broken BY DEF MergeChangesetOutput
<1>5. /\ new \in Seq(Fresh) /\ dest.mcms \o dest.timelock \in Seq(Fresh)
      /\ Len(new) = Len(dest.mcms) + Len(dest.timelock) => new = dest.mcms \o dest.timelock
  BY <1>2, StoredSound, Zenon
<1>6. /\ m.ok \in BOOLEAN /\ m.book \in Book
      /\ \A p \in Places : book[p] # None => m.book[p] = book[p]
      /\ m.ok /\ dest.book # None =>
           \A p \in Entries(dest.book) :
             Standard(p) \in Places /\ m.book[Standard(p)] = dest.book[p]
  <2>1. CASE dest.book = None
    <3>1. m = [book |-> book, ok |-> TRUE] BY <2>1
    <3>2. m.book = book /\ m.ok = TRUE BY <3>1
    <3> QED BY <1>2, <2>1, <3>2
  <2>2. CASE dest.book # None
    <3>1. dest.book \in Book BY <1>2, <2>2 DEF Results
    <3>2. m \in Merge(book, dest.book) BY <2>2
    <3> QED BY <1>2, <2>2, <3>1, <3>2, MergeSound, Zenon
  <2> QED BY <2>1, <2>2
<1> HIDE DEF Outcomes0
<1> DEFINE add == IF m.ok THEN new ELSE << >>
           ok == Fine(m)
<1>7. add \in Seq(Fresh)
  <2>1. << >> \in Seq(Fresh) OBVIOUS
  <2> QED BY <1>5, <2>1
<1>8. proposals' = proposals \o add
  <2>1. \A S : \A q \in Seq(S) : q \o << >> = q OBVIOUS
  <2>2. proposals \o << >> = proposals BY <1>2, <2>1, Zenon
  <2> QED BY <1>3, <2>2
<1>9. dest.ds \in {None} \cup SUBSET (STRING \X Chains) BY <1>2 DEF Results
<1>10. ds' \in SUBSET (STRING \X Chains) /\ ds \subseteq ds' BY <1>2, <1>3, <1>9
<1>11. ok => m.ok /\ add = dest.mcms \o dest.timelock BY <1>5
<1>12. ok => (dest.ds # None => dest.ds \subseteq ds') BY <1>3, <1>11
<1>13. /\ ok => outputs' = outputs \cup {[id |-> <<execs, Len(tasks), cs>>, out |-> dest,
                                          at |-> Len(proposals)]}
       /\ ~ok => outputs' = outputs
  BY <1>3 DEF StoresOutput
<1>14. IF ok THEN NextChangeset ELSE Fail BY <1>3
<1>15. book' = m.book /\ sent' = [i \in 1..Len(proposals') |-> IF i \in Ids THEN sent[i] ELSE 0]
  BY <1>3
<1>16. /\ rooted' = [i \in 1..Len(proposals') |-> IF i \in Ids THEN rooted[i] ELSE {}]
       /\ mcmsDone' = [i \in 1..Len(proposals') |-> IF i \in Ids THEN mcmsDone[i] ELSE {}]
       /\ timelockDone' = [i \in 1..Len(proposals') |-> IF i \in Ids THEN timelockDone[i] ELSE {}]
  BY <1>3
<1> HIDE DEF add, ok
<1>17. ok => (dest.book # None =>
                \A p \in Entries(dest.book) :
                  Standard(p) \in Places /\ book'[Standard(p)] = dest.book[p])
  BY <1>6, <1>11, <1>15
<1>18. book' \in Book /\ \A p \in Places : book[p] # None => book'[p] = book[p] BY <1>6, <1>15
<1>19. Stores(add, ok)
  BY <1>4, <1>7, <1>8, <1>10, <1>11, <1>12, <1>13, <1>14, <1>15, <1>16, <1>17, <1>18, Zenon
     DEF Stores
<1> QED BY <1>1, <1>19

\* The proposals and what was done for them are kept; the new ones are fresh.
LEMMA Appended ==
  ASSUME StateType, ChainType, NEW add, NEW ok, Stores(add, ok)
  PROVE  /\ proposals' \in Seq(StoredProposals)
         /\ Ids \subseteq Ids' /\ Len(proposals') = Len(proposals) + Len(add)
         /\ \A i \in Ids : /\ proposals'[i] = proposals[i] /\ sent'[i] = sent[i]
                           /\ rooted'[i] = rooted[i] /\ mcmsDone'[i] = mcmsDone[i]
                           /\ timelockDone'[i] = timelockDone[i]
         /\ \A i \in Ids' \ Ids : /\ proposals'[i] \in Fresh
                                  /\ rooted'[i] = {} /\ mcmsDone'[i] = {} /\ timelockDone'[i] = {}
         /\ \A i \in 1..Len(add) : proposals'[Len(proposals) + i] = add[i]
         /\ ChainType'
<1> DEFINE n == Len(proposals)  l == Len(proposals')
<1>1. ASSUME NEW S, NEW q \in Seq(S), NEW T \in SUBSET S, NEW a \in Seq(T)
      PROVE  /\ q \o a \in Seq(S) /\ Len(q) \in Nat /\ Len(a) \in Nat
             /\ DOMAIN q = 1..Len(q) /\ DOMAIN (q \o a) = 1..(Len(q) + Len(a))
             /\ Len(q \o a) = Len(q) + Len(a)
             /\ \A i \in 1..Len(q) : (q \o a)[i] = q[i]
             /\ \A i \in 1..Len(a) : (q \o a)[Len(q) + i] = a[i] /\ a[i] \in T
  <2>1. a \in Seq(S) OBVIOUS
  <2> QED BY <2>1
<1>2. Fresh \in SUBSET StoredProposals BY DEF Fresh
<1>3. proposals \in Seq(StoredProposals) BY DEF StateType
<1>4. add \in Seq(Fresh) /\ proposals' = proposals \o add BY DEF Stores
<1>5. /\ proposals' \in Seq(StoredProposals) /\ n \in Nat /\ Len(add) \in Nat
      /\ Ids = 1..n /\ Ids' = 1..(n + Len(add)) /\ l = n + Len(add)
      /\ \A i \in 1..n : proposals'[i] = proposals[i]
      /\ \A i \in 1..Len(add) : proposals'[n + i] = add[i] /\ add[i] \in Fresh
  BY <1>1, <1>2, <1>3, <1>4 DEF Ids
<1> HIDE DEF n, l
<1>6. Ids \subseteq Ids' /\ Ids' = 1..l BY <1>5
<1>7. \A i \in Ids' \ Ids : proposals'[i] \in Fresh
  <2> SUFFICES ASSUME NEW i \in Ids' \ Ids PROVE proposals'[i] \in Fresh OBVIOUS
  <2>1. i - n \in 1..Len(add) /\ n + (i - n) = i BY <1>5
  <2> QED BY <1>5, <2>1
<1>8. /\ sent' = [i \in 1..l |-> IF i \in Ids THEN sent[i] ELSE 0]
      /\ rooted' = [i \in 1..l |-> IF i \in Ids THEN rooted[i] ELSE {}]
      /\ mcmsDone' = [i \in 1..l |-> IF i \in Ids THEN mcmsDone[i] ELSE {}]
      /\ timelockDone' = [i \in 1..l |-> IF i \in Ids THEN timelockDone[i] ELSE {}]
  BY DEF Stores, l
<1>9. l \in Nat BY <1>5
<1>10. /\ \A i \in Ids : sent[i] \in Nat /\ rooted[i] \in SUBSET Chains
       /\ \A i \in Ids : mcmsDone[i] \in SUBSET Nat /\ timelockDone[i] \in SUBSET Nat
  <2>1. \A S : \A q \in Seq(S) : \A i \in 1..Len(q) : q[i] \in S OBVIOUS
  <2> QED BY <1>5, <2>1, Zenon DEF ChainType, n
<1>11. sent' \in Seq(Nat) /\ Len(sent') = l BY <1>8, <1>9, <1>10
<1>12. rooted' \in Seq(SUBSET Chains) /\ Len(rooted') = l BY <1>8, <1>9, <1>10
<1>13. mcmsDone' \in Seq(SUBSET Nat) /\ Len(mcmsDone') = l BY <1>8, <1>9, <1>10
<1>14. timelockDone' \in Seq(SUBSET Nat) /\ Len(timelockDone') = l BY <1>8, <1>9, <1>10
<1>15. \A i \in Ids : /\ sent'[i] = sent[i] /\ rooted'[i] = rooted[i]
                      /\ mcmsDone'[i] = mcmsDone[i] /\ timelockDone'[i] = timelockDone[i]
  BY <1>6, <1>8
<1>16. \A i \in Ids' \ Ids : rooted'[i] = {} /\ mcmsDone'[i] = {} /\ timelockDone'[i] = {}
  BY <1>6, <1>8
<1>17. ASSUME NEW i \in Ids'
       PROVE  Within(proposals'[i], rooted'[i], mcmsDone'[i], timelockDone'[i])
  <2>1. CASE i \in Ids
    <3>1. Within(proposals[i], rooted[i], mcmsDone[i], timelockDone[i]) BY <2>1 DEF ChainType
    <3> QED BY <1>5, <1>15, <2>1, <3>1
  <2>2. CASE i \notin Ids BY <1>16, <2>2 DEF Within
  <2> QED BY <2>1, <2>2
<1>18. ChainType' BY <1>11, <1>12, <1>13, <1>14, <1>17 DEF ChainType, l
<1> QED BY <1>5, <1>6, <1>7, <1>15, <1>16, <1>18 DEF n, l

\* State.MergeChangesetOutput keeps the invariant.
LEMMA MergeOutputStep ==
  ASSUME RunInv, MergeChangesetOutput
  PROVE  RunInv'
<1>0. StateType /\ ChainType /\ ExecutedDone /\ CallType /\ TaskSound
  BY DEF RunInv, TaskInv, StateInv
<1>1. pc = "merge" /\ \E add, ok : Stores(add, ok) BY StoresSound
<1>2. PICK add, ok : Stores(add, ok) BY <1>1
<1>3. /\ proposals' \in Seq(StoredProposals) /\ Ids \subseteq Ids' /\ ChainType'
      /\ \A i \in Ids : /\ proposals'[i] = proposals[i] /\ rooted'[i] = rooted[i]
                        /\ mcmsDone'[i] = mcmsDone[i] /\ timelockDone'[i] = timelockDone[i]
      /\ \A i \in Ids' \ Ids : proposals'[i] \in Fresh
  BY <1>0, <1>2, Appended, Zenon
<1>4. /\ book' \in Book /\ ds' \in SUBSET (STRING \X Chains)
      /\ ok => outputs' = outputs \cup {[id |-> <<execs, Len(tasks), cs>>, out |-> dest,
                                         at |-> Len(proposals)]}
      /\ ~ok => outputs' = outputs
      /\ IF ok THEN NextChangeset ELSE Fail
  BY <1>2, Zenon DEF Stores
<1>5. StateType'
  <2>1. execs \in Nat /\ cs \in Nat /\ dest \in Results /\ Len(tasks) \in Nat
    <3>1. MaxExecs \in Nat BY RuntimeAssumption
    <3> QED BY <1>0, <3>1 DEF CallType
  <2>2. Len(proposals) \in Nat BY <1>0 DEF StateType
  <2>3. <<execs, Len(tasks), cs>> \in Nat \X Nat \X Nat BY <2>1
  <2> DEFINE o == [id |-> <<execs, Len(tasks), cs>>, out |-> dest, at |-> Len(proposals)]
             O == [id : Nat \X Nat \X Nat, out : Results, at : Nat]
  <2>4. o \in O BY <2>1, <2>2, <2>3
  <2> HIDE DEF o
  <2>5. outputs \subseteq O BY <1>0 DEF StateType
  <2> HIDE DEF O
  <2>6. outputs' \subseteq O
    <3>1. CASE ok
      <4>1. outputs' = outputs \cup {o} BY <1>4, <3>1 DEF o
      <4> QED BY <2>4, <2>5, <4>1
    <3>2. CASE ~ok BY <1>4, <2>5, <3>2
    <3> QED BY <3>1, <3>2
  <2> QED BY <1>3, <1>4, <2>6 DEF StateType, O
<1>6. ExecutedDone'
  <2> SUFFICES ASSUME NEW i \in Ids', proposals'[i].executed
               PROVE  LET p == proposals'[i] IN
                      /\ rooted'[i] = ChainMetadata(p)
                      /\ mcmsDone'[i] = 1..Len(p.ops)
                      /\ AfterMCMS(p) = "proxies" => timelockDone'[i] = 1..Len(p.ops)
    BY DEF ExecutedDone
  <2>1. i \in Ids BY <1>3 DEF Fresh
  <2>2. proposals'[i] = proposals[i] BY <1>3, <2>1
  <2>3. /\ rooted[i] = ChainMetadata(proposals[i])
        /\ mcmsDone[i] = 1..Len(proposals[i].ops)
        /\ AfterMCMS(proposals[i]) = "proxies" => timelockDone[i] = 1..Len(proposals[i].ops)
    BY <1>0, <2>1, <2>2 DEF ExecutedDone
  <2> QED BY <1>3, <2>1, <2>2, <2>3
<1>7. StateInv' BY <1>3, <1>5, <1>6 DEF StateInv
<1>8. TaskInv'
  <2>1. CASE Fail \/ Succeed BY <1>0, <1>1, <1>4, <2>1, Ends
  <2>2. CASE /\ cs < Len(Task.css)
             /\ cs' = cs + 1 /\ part' = 1 /\ dest' = NoOutput /\ pc' = "apply" /\ taskEnv' = ds'
             /\ UNCHANGED <<envDs, execs, tasks, pending, roots, opIdx, res, dirty>>
    <3>1. Task.css \in Seq(Changesets) /\ cs \in 1..Len(Task.css) /\ Len(Task.css) \in Nat
      BY <1>0, <1>1, OnChangeset
    <3>2. cs + 1 \in 1..Len(Task.css)
      <4>1. \A l \in Nat : \A k \in 1..l : k < l => k + 1 \in 1..l OBVIOUS
      <4> QED BY <2>2, <3>1, <4>1
    <3>3. Task.css[cs + 1] \in Changesets
      <4>1. \A S : \A q \in Seq(S) : \A k \in 1..Len(q) : q[k] \in S OBVIOUS
      <4> QED BY <3>1, <3>2, <4>1, Zenon
    <3>4. Task.css[cs + 1].parts \in Seq(Parts) \ {<< >>} BY <3>3, Zenon DEF Changesets
    <3>5. 1 \in DOMAIN Task.css[cs + 1].parts
      <4>1. \A S : \A q \in Seq(S) : q # << >> => 1 \in DOMAIN q OBVIOUS
      <4> QED BY <3>4, <4>1, Zenon
    <3>6. dest' \in Results BY <2>2, FreshProposals
    <3>7. cs' \in 1..Len(Task.css) /\ part' \in DOMAIN Task.css[cs'].parts /\ part' = 1
      BY <2>2, <3>2, <3>5
    <3>8. /\ pc' \in {"apply", "merge"} /\ part' \in Nat
          /\ UNCHANGED <<envDs, execs, tasks, pending, roots, opIdx, dirty>>
      BY <2>2
    <3> QED BY <1>0, <1>1, <1>3, <3>6, <3>7, <3>8, Continue
  <2> QED BY <1>4, <2>1, <2>2 DEF NextChangeset
<1> QED BY <1>7, <1>8 DEF RunInv

-----------------------------------------------------------------------------
(* Proposals are signed and executed. *)

\* One element of a sequence is replaced.
LEMMA OnePlace ==
  ASSUME NEW S, NEW q \in Seq(S), NEW i \in DOMAIN q, NEW v \in S, NEW r, r = [q EXCEPT ![i] = v]
  PROVE  /\ r \in Seq(S) /\ Len(r) = Len(q) /\ DOMAIN r = DOMAIN q /\ r[i] = v
         /\ \A j \in DOMAIN q : j # i => r[j] = q[j]
<1> QED OBVIOUS

\* The proposal that is worked on.
LEMMA Worked ==
  ASSUME StateType, ChainType, CallType, TaskSound, pc \in OnProposal
  PROVE  /\ Id \in Ids /\ P \in StoredProposals /\ pending[1] = Id
         /\ 1 \in DOMAIN pending /\ Len(pending) \in Nat \ {0} /\ Task \in Tasks
         /\ Task.kind \in {"sign", "execute", "signAndExecute"}
         /\ DOMAIN sent = Ids /\ DOMAIN rooted = Ids /\ DOMAIN mcmsDone = Ids
         /\ DOMAIN timelockDone = Ids
         /\ Within(P, rooted[Id], mcmsDone[Id], timelockDone[Id])
<1>1. pending # << >> /\ Task.kind # "changesets" BY DEF TaskSound
<1>2. pending \in Seq(Nat) /\ \A i \in DOMAIN pending : pending[i] \in Ids BY DEF CallType
<1>3. \A S : \A q \in Seq(S) : q # << >> =>
         1 \in DOMAIN q /\ q[1] = Head(q) /\ Len(q) \in Nat \ {0}
  OBVIOUS
<1>4. 1 \in DOMAIN pending /\ pending[1] = Id /\ Len(pending) \in Nat \ {0}
  BY <1>1, <1>2, <1>3, Zenon DEF Id
<1>5. Id \in Ids BY <1>2, <1>4
<1>6. \A S : \A q \in Seq(S) : DOMAIN q = 1..Len(q) /\ \A i \in DOMAIN q : q[i] \in S OBVIOUS
<1>7. P \in StoredProposals BY <1>5, <1>6, Zenon DEF StateType, P, Ids
<1>8. Ids = 1..Len(proposals) BY <1>6, Zenon DEF StateType, Ids
<1>9. /\ DOMAIN sent = Ids /\ DOMAIN rooted = Ids /\ DOMAIN mcmsDone = Ids
      /\ DOMAIN timelockDone = Ids
  BY <1>6, <1>8, Zenon DEF ChainType
<1>10. pc # "idle" BY DEF OnProposal, AtWork, OnTimelock
<1>11. Task \in Tasks BY <1>10, TaskRuns
<1>12. Task.kind \in {"sign", "execute", "signAndExecute"}
  <2>1. \A t \in Tasks : t.kind \in {"changesets", "sign", "execute", "signAndExecute"} BY DEF Tasks
  <2> QED BY <1>1, <1>11, <2>1
<1>13. Within(P, rooted[Id], mcmsDone[Id], timelockDone[Id]) BY <1>5 DEF ChainType, P
<1> QED BY <1>4, <1>5, <1>7, <1>9, <1>11, <1>12, <1>13

\* The next step for the same proposal.
LEMMA Onward ==
  ASSUME CallType, TaskSound, PendingFresh, pc \in OnProposal, pc' \in OnProposal \ {"sign"},
         opIdx' \in Nat, roots' \subseteq Chains, Ids' = Ids,
         \A i \in Ids : proposals'[i].executed = proposals[i].executed,
         UNCHANGED <<envDs, execs, tasks, cs, part, dest, pending, dirty>>,
         Progress'
  PROVE  TaskInv'
<1>1. CallType'
  <2>1. pc # "idle" /\ pc' # "idle" BY DEF OnProposal, AtWork, OnTimelock
  <2> QED BY <2>1 DEF CallType
<1>2. Task' = Task BY DEF Task
<1>3. TaskSound'
  <2>1. pc' \notin {"idle", "task", "apply", "merge", "sign"}
    BY DEF OnProposal, AtWork, OnTimelock
  <2>2. /\ Task.kind # "changesets" /\ pending # << >>
        /\ Task.kind # "signAndExecute" => Len(pending) = 1
    BY DEF TaskSound
  <2> QED BY <1>2, <2>1, <2>2 DEF TaskSound
<1>4. PendingFresh'
  <2> SUFFICES ASSUME Task.kind = "signAndExecute"
               PROVE  /\ \A j, k \in DOMAIN pending : pending[j] = pending[k] => j = k
                      /\ \A j \in DOMAIN pending : ~proposals'[pending[j]].executed
    BY <1>2 DEF PendingFresh
  <2>1. /\ \A j, k \in DOMAIN pending : pending[j] = pending[k] => j = k
        /\ \A j \in DOMAIN pending : ~proposals[pending[j]].executed
    BY DEF PendingFresh
  <2>2. \A j \in DOMAIN pending : pending[j] \in Ids BY DEF CallType
  <2> QED BY <2>1, <2>2
<1> QED BY <1>1, <1>3, <1>4 DEF TaskInv

\* One proposal is signed or marked.
LEMMA OneProposal ==
  ASSUME StateInv, NEW i \in Ids, NEW q \in StoredProposals,
         q.ops = proposals[i].ops, q.kind = proposals[i].kind, q.action = proposals[i].action,
         q.executed => /\ rooted[i] = ChainMetadata(q)
                       /\ mcmsDone[i] = 1..Len(q.ops)
                       /\ AfterMCMS(q) = "proxies" => timelockDone[i] = 1..Len(q.ops),
         proposals' = [proposals EXCEPT ![i] = q], UNCHANGED <<book, ds, outputs, chain>>
  PROVE  /\ StateInv' /\ Ids' = Ids /\ Len(proposals') = Len(proposals) /\ proposals'[i] = q
         /\ \A j \in Ids : j # i => proposals'[j] = proposals[j]
<1>1. proposals \in Seq(StoredProposals) /\ i \in DOMAIN proposals BY DEF StateInv, StateType, Ids
<1>2. /\ proposals' \in Seq(StoredProposals) /\ Len(proposals') = Len(proposals)
      /\ DOMAIN proposals' = DOMAIN proposals /\ proposals'[i] = q
      /\ \A j \in DOMAIN proposals : j # i => proposals'[j] = proposals[j]
  BY <1>1
<1>3. StateType' BY <1>2 DEF StateInv, StateType
<1>4. /\ UNCHANGED <<sent, rooted, mcmsDone, timelockDone>> /\ Ids' = Ids
      /\ \A j \in Ids : j # i => proposals'[j] = proposals[j]
  BY <1>2 DEF chain, Ids
<1>5. \A r, m, t : Within(proposals[i], r, m, t) => Within(q, r, m, t)
  BY DEF Within, ChainMetadata
<1>6. ASSUME NEW j \in Ids' PROVE Within(proposals'[j], rooted'[j], mcmsDone'[j], timelockDone'[j])
  <2>1. j \in Ids BY <1>4
  <2>2. Within(proposals[j], rooted[j], mcmsDone[j], timelockDone[j])
    BY <2>1 DEF StateInv, ChainType
  <2>3. CASE j = i
    <3>1. Within(q, rooted[i], mcmsDone[i], timelockDone[i]) BY <1>5, <2>2, <2>3
    <3> QED BY <1>2, <1>4, <2>3, <3>1
  <2>4. CASE j # i
    <3>1. proposals'[j] = proposals[j] BY <1>4, <2>1, <2>4
    <3> QED BY <1>4, <2>2, <3>1
  <2> QED BY <2>3, <2>4
<1>7. ChainType' BY <1>2, <1>4, <1>6 DEF StateInv, ChainType
<1>8. ExecutedDone'
  <2> SUFFICES ASSUME NEW j \in Ids', proposals'[j].executed
               PROVE  LET p == proposals'[j] IN
                      /\ rooted'[j] = ChainMetadata(p)
                      /\ mcmsDone'[j] = 1..Len(p.ops)
                      /\ AfterMCMS(p) = "proxies" => timelockDone'[j] = 1..Len(p.ops)
    BY DEF ExecutedDone
  <2>1. j \in Ids BY <1>4
  <2>2. CASE j = i BY <1>2, <1>4, <2>2
  <2>3. CASE j # i
    <3>1. proposals'[j] = proposals[j] BY <1>4, <2>1, <2>3
    <3>2. /\ rooted[j] = ChainMetadata(proposals[j])
          /\ mcmsDone[j] = 1..Len(proposals[j].ops)
          /\ AfterMCMS(proposals[j]) = "proxies" => timelockDone[j] = 1..Len(proposals[j].ops)
      BY <2>1, <3>1 DEF StateInv, ExecutedDone
    <3> QED BY <1>4, <3>1, <3>2
  <2> QED BY <2>2, <2>3
<1> QED BY <1>2, <1>3, <1>4, <1>7, <1>8 DEF StateInv

\* GetPendingProposals returns every proposal once, and none that was executed.
LEMMA PendingSound ==
  ASSUME StateType
  PROVE  /\ GetPendingProposals \in Seq(Nat)
         /\ \A j \in DOMAIN GetPendingProposals :
              /\ GetPendingProposals[j] \in Ids
              /\ ~proposals[GetPendingProposals[j]].executed
         /\ \A j, k \in DOMAIN GetPendingProposals :
              GetPendingProposals[j] = GetPendingProposals[k] => j = k
<1> DEFINE s == [i \in Ids |-> i]
           I == {i \in Ids : IsPending(i)}
           g == GetPendingProposals
<1>1. g = At(s, I) BY Zenon DEF GetPendingProposals
<1>2. s \in Seq(Nat) /\ DOMAIN s = Ids /\ (\A i \in Ids : s[i] = i) /\ Ids \subseteq Nat
  BY DEF StateType, Ids
<1>3. \A i \in I : i \in Ids /\ ~proposals[i].executed BY DEF IsPending
<1> HIDE DEF s, g, I
<1>4. g \in Seq(Nat) /\ \E p : Picks(p, g, s, DOMAIN s \cap I) BY <1>1, <1>2, AtPicks, Zenon
<1>5. PICK pos : Picks(pos, g, s, DOMAIN s \cap I) BY <1>4
<1>6. \A j \in DOMAIN g : pos[j] \in I /\ g[j] = s[pos[j]] BY <1>5 DEF Picks
<1>7. \A j \in DOMAIN g : g[j] \in I /\ g[j] = pos[j] BY <1>2, <1>3, <1>6
<1>8. ASSUME NEW j \in DOMAIN g, NEW k \in DOMAIN g, g[j] = g[k] PROVE j = k
  <2>1. j \in Nat /\ k \in Nat BY <1>4
  <2>2. pos[j] = pos[k] /\ pos[j] \in Nat BY <1>2, <1>3, <1>7, <1>8
  <2>3. ~(j < k) BY <1>5, <2>2 DEF Picks
  <2>4. ~(k < j) BY <1>5, <2>2 DEF Picks
  <2> QED BY <2>1, <2>3, <2>4
<1> QED BY <1>3, <1>4, <1>7, <1>8 DEF g

\* A task signs or executes proposals, has none, or fails.
LEMMA BeginProposalsStep ==
  ASSUME RunInv, BeginProposals
  PROVE  RunInv'
<1>0. /\ StateInv /\ StateType /\ CallType /\ TaskSound /\ UNCHANGED <<state, chain>>
      /\ ds \in SUBSET (STRING \X Chains) /\ pc = "task" /\ Task.kind # "changesets"
  BY DEF RunInv, TaskInv, StateInv, StateType, BeginProposals
<1>1. StateInv' BY <1>0, StateSame
<1>2. ds' \in SUBSET (STRING \X Chains) /\ proposals' = proposals BY <1>0 DEF state
<1>3. CASE Fail \/ Succeed
  <2>1. TaskInv' BY <1>0, <1>2, <1>3, Ends
  <2> QED BY <1>1, <2>1 DEF RunInv
<1>4. CASE /\ Targets # << >> /\ Targets[1] \in Ids
           /\ pending' = Targets /\ taskEnv' = envDs
           /\ pc' = IF Task.kind = "execute" THEN "exec" ELSE "sign"
           /\ UNCHANGED <<envDs, execs, tasks, cs, part, dest, roots, opIdx, res, dirty>>
  <2>1. Task \in Tasks BY <1>0, TaskRuns
  <2>2. /\ Task.kind \in {"sign", "execute", "signAndExecute"}
        /\ Task.kind # "signAndExecute" => Task.id \in Nat
    BY <1>0, <2>1 DEF Tasks
  <2>3. Targets \in Seq(Nat) /\ \A j \in DOMAIN Targets : Targets[j] \in Ids
    <3>1. CASE Task.kind = "signAndExecute" BY <1>0, <3>1, PendingSound DEF Targets
    <3>2. CASE Task.kind # "signAndExecute"
      <4>1. Targets = <<Task.id>> BY <3>2 DEF Targets
      <4> QED BY <1>4, <2>2, <3>2, <4>1
    <3> QED BY <3>1, <3>2
  <2>4. pc' \in {"sign", "exec"} /\ pc' \notin AtWork BY <1>4 DEF AtWork, OnTimelock
  <2>5. CallType' BY <1>0, <1>2, <1>4, <2>3, <2>4 DEF CallType, Ids, OnProposal
  <2>6. Task' = Task BY <1>4 DEF Task
  <2>a. Task.kind # "signAndExecute" => Len(Targets) = 1 BY DEF Targets
  <2>7. TaskSound' BY <1>0, <1>4, <2>2, <2>4, <2>6, <2>a DEF TaskSound
  <2>8. Progress' BY <2>4 DEF Progress
  <2>9. PendingFresh'
    <3> SUFFICES ASSUME Task.kind = "signAndExecute"
                 PROVE  /\ \A j, k \in DOMAIN Targets : Targets[j] = Targets[k] => j = k
                        /\ \A j \in DOMAIN Targets : ~proposals[Targets[j]].executed
      BY <1>2, <1>4, <2>6 DEF PendingFresh
    <3>1. Targets = GetPendingProposals BY DEF Targets
    <3> QED BY <1>0, <3>1, PendingSound
  <2>10. TaskInv' BY <2>5, <2>7, <2>8, <2>9 DEF TaskInv
  <2> QED BY <1>1, <2>10 DEF RunInv
<1> QED BY <1>3, <1>4 DEF BeginProposals

\* A proposal is signed, with all keys or not at all.
LEMMA SignStep ==
  ASSUME RunInv, SignProposal
  PROVE  /\ RunInv' /\ Ids' = Ids /\ Id \in Ids /\ pc = "sign" /\ UNCHANGED broken
         /\ \A j \in Ids : j # Id => proposals'[j] = proposals[j]
         /\ proposals'[Id].executed = P.executed
         /\ \E ok \in BOOLEAN :
              /\ proposals'[Id].sigs = Signed(P.sigs, Keys, ok)
              /\ ok => \/ Task.kind = "sign" /\ Succeed
                       \/ Task.kind = "signAndExecute" /\ pc' = "exec"
                          /\ UNCHANGED <<tasks, pending>>
              /\ ~ok => Fail
<1>0. /\ StateInv /\ StateType /\ ChainType /\ CallType /\ TaskSound /\ PendingFresh
      /\ pc = "sign" /\ pc \in OnProposal /\ ds \in SUBSET (STRING \X Chains)
      /\ UNCHANGED <<book, ds, outputs, chain, broken>>
  BY DEF RunInv, TaskInv, StateInv, StateType, SignProposal, OnProposal
<1>1. /\ Id \in Ids /\ P \in StoredProposals /\ Task \in Tasks
      /\ Task.kind \in {"sign", "execute", "signAndExecute"}
  BY <1>0, Worked
<1>2. Keys \in Seq(STRING)
  <2>1. \A t \in Tasks : t.kind = "sign" => t.keys \in Seq(STRING) BY DEF Tasks
  <2>2. Signers \in Seq(STRING) BY RuntimeAssumption
  <2> QED BY <1>1, <2>1, <2>2 DEF Keys
<1>3. PICK ok \in BOOLEAN :
        /\ proposals' = [proposals EXCEPT ![Id].sigs = Signed(@, Keys, ok)]
        /\ \/ ok /\ Task.kind = "sign" /\ Succeed
           \/ /\ ok /\ Task.kind = "signAndExecute"
              /\ pc' = "exec"
              /\ UNCHANGED <<envDs, execs, tasks, taskEnv, cs, part, dest, pending, roots, opIdx,
                             res, dirty>>
           \/ ~ok /\ Fail
  BY DEF SignProposal
<1> DEFINE s == Signed(P.sigs, Keys, ok)
           q == [P EXCEPT !.sigs = s]
<1>4. s \in Seq(STRING)
  <2>1. P.sigs \in Seq(STRING) BY <1>1 DEF StoredProposals
  <2>2. \A a, b \in Seq(STRING) : a \o b \in Seq(STRING) OBVIOUS
  <2>3. P.sigs \o Keys \in Seq(STRING) BY <1>2, <2>1, <2>2
  <2> QED BY <2>1, <2>3 DEF Signed
<1>5. proposals' = [proposals EXCEPT ![Id] = q] BY <1>3 DEF P
<1> HIDE DEF s
<1>6. /\ q \in StoredProposals /\ q.ops = P.ops /\ q.kind = P.kind /\ q.action = P.action
      /\ q.executed = P.executed /\ q.sigs = s
  BY <1>1, <1>4 DEF StoredProposals
<1> HIDE DEF q
<1>7. q.executed => /\ rooted[Id] = ChainMetadata(q) /\ mcmsDone[Id] = 1..Len(q.ops)
                    /\ AfterMCMS(q) = "proxies" => timelockDone[Id] = 1..Len(q.ops)
  <2>1. ChainMetadata(q) = ChainMetadata(P) /\ AfterMCMS(q) = AfterMCMS(P)
    BY <1>6 DEF ChainMetadata, AfterMCMS
  <2>2. P.executed => /\ rooted[Id] = ChainMetadata(P) /\ mcmsDone[Id] = 1..Len(P.ops)
                      /\ AfterMCMS(P) = "proxies" => timelockDone[Id] = 1..Len(P.ops)
    BY <1>0, <1>1 DEF StateInv, ExecutedDone, P
  <2> QED BY <1>6, <2>1, <2>2
<1>8. /\ StateInv' /\ Ids' = Ids /\ proposals'[Id] = q
      /\ \A j \in Ids : j # Id => proposals'[j] = proposals[j]
  BY <1>0, <1>1, <1>5, <1>6, <1>7, OneProposal DEF P
<1>9. TaskInv'
  <2>1. CASE Fail \/ Succeed
    <3>1. pc # "idle" /\ ds' \in SUBSET (STRING \X Chains) BY <1>0
    <3> QED BY <1>0, <2>1, <3>1, Ends
  <2>2. CASE /\ pc' = "exec"
             /\ UNCHANGED <<envDs, execs, tasks, taskEnv, cs, part, dest, pending, roots, opIdx,
                            res, dirty>>
    <3>1. pc' \in OnProposal \ {"sign"} /\ pc' \notin AtWork
      BY <2>2 DEF OnProposal, AtWork, OnTimelock
    <3>2. opIdx' \in Nat /\ roots' \subseteq Chains BY <1>0, <2>2 DEF CallType
    <3>3. \A j \in Ids : proposals'[j].executed = proposals[j].executed BY <1>6, <1>8 DEF P
    <3>4. Progress' BY <3>1 DEF Progress
    <3>5. UNCHANGED <<envDs, execs, tasks, cs, part, dest, pending, dirty>> BY <2>2
    <3> QED BY <1>0, <1>8, <3>1, <3>2, <3>3, <3>4, <3>5, Onward
  <2> QED BY <1>3, <2>1, <2>2
<1>10. proposals'[Id].sigs = Signed(P.sigs, Keys, ok) BY <1>6, <1>8 DEF s
<1>11. /\ ok => \/ Task.kind = "sign" /\ Succeed
                \/ /\ Task.kind = "signAndExecute" /\ pc' = "exec"
                   /\ UNCHANGED <<tasks, pending>>
       /\ ~ok => Fail
  BY <1>3
<1> QED BY <1>0, <1>1, <1>6, <1>8, <1>9, <1>10, <1>11 DEF RunInv

\* A proposal is marked after all of it took effect, and the next one is signed.
LEMMA MarkStep ==
  ASSUME RunInv, MarkProposalExecuted
  PROVE  /\ RunInv' /\ Ids' = Ids /\ Id \in Ids /\ pc = "mark" /\ UNCHANGED <<chain, broken>>
         /\ \A j \in Ids : j # Id => proposals'[j] = proposals[j]
         /\ proposals'[Id].executed /\ proposals'[Id].sigs = P.sigs
         /\ \/ Len(pending) = 1 /\ Succeed
            \/ Len(pending) > 1 /\ pc' = "sign" /\ pending' = Tail(pending) /\ tasks' = tasks
<1>0. /\ StateInv /\ StateType /\ ChainType /\ CallType /\ TaskSound /\ Progress /\ PendingFresh
      /\ pc = "mark" /\ pc \in OnProposal /\ pc \in AtWork /\ ds \in SUBSET (STRING \X Chains)
      /\ UNCHANGED <<book, ds, outputs, chain>>
  BY DEF RunInv, TaskInv, StateInv, StateType, MarkProposalExecuted, OnProposal, AtWork
<1>1. /\ Id \in Ids /\ P \in StoredProposals /\ pending[1] = Id
      /\ 1 \in DOMAIN pending /\ Len(pending) \in Nat \ {0} /\ Task \in Tasks
      /\ Task.kind \in {"sign", "execute", "signAndExecute"}
      /\ Within(P, rooted[Id], mcmsDone[Id], timelockDone[Id])
  BY <1>0, Worked
<1> DEFINE q == [P EXCEPT !.executed = TRUE]
<1>2. /\ q \in StoredProposals /\ q.ops = P.ops /\ q.kind = P.kind /\ q.action = P.action
      /\ q.executed = TRUE /\ q.sigs = P.sigs
  BY <1>1 DEF StoredProposals
<1>3. proposals' = [proposals EXCEPT ![Id] = q]
  <2>1. proposals' = [proposals EXCEPT ![Id].executed = TRUE] BY DEF MarkProposalExecuted
  <2> QED BY <2>1 DEF P
<1>4. /\ rooted[Id] = ChainMetadata(q) /\ mcmsDone[Id] = 1..Len(q.ops)
      /\ AfterMCMS(q) = "proxies" => timelockDone[Id] = 1..Len(q.ops)
  <2>1. Reached(P, rooted[Id], mcmsDone[Id], timelockDone[Id]) BY <1>0 DEF Progress
  <2>2. /\ ChainMetadata(P) \subseteq rooted[Id] /\ 1..Len(P.ops) \subseteq mcmsDone[Id]
        /\ AfterMCMS(P) = "proxies" => 1..Len(P.ops) \subseteq timelockDone[Id]
    BY <1>0, <2>1 DEF Reached
  <2>3. ChainMetadata(q) = ChainMetadata(P) /\ AfterMCMS(q) = AfterMCMS(P)
    BY <1>2 DEF ChainMetadata, AfterMCMS
  <2> HIDE DEF q
  <2> QED BY <1>1, <1>2, <2>2, <2>3 DEF Within
<1> HIDE DEF q
<1>5. /\ StateInv' /\ Ids' = Ids /\ proposals'[Id] = q
      /\ \A j \in Ids : j # Id => proposals'[j] = proposals[j]
  BY <1>0, <1>1, <1>2, <1>3, <1>4, OneProposal DEF P
<1>a. /\ proposals'[Id].executed /\ proposals'[Id].sigs = P.sigs
      /\ UNCHANGED <<chain, broken>>
  BY <1>2, <1>5 DEF MarkProposalExecuted
<1>6. CASE Len(pending) = 1 /\ Succeed
  <2>1. pc # "idle" /\ ds' \in SUBSET (STRING \X Chains) BY <1>0
  <2>2. TaskInv' BY <1>0, <1>6, <2>1, Ends
  <2> QED BY <1>0, <1>1, <1>5, <1>6, <1>a, <2>2 DEF RunInv
<1>7. CASE /\ Len(pending) > 1
           /\ pending' = Tail(pending) /\ pc' = "sign"
           /\ UNCHANGED <<envDs, execs, tasks, taskEnv, cs, part, dest, roots, opIdx, res, dirty>>
  <2>1. pending \in Seq(Nat) /\ \A j \in DOMAIN pending : pending[j] \in Ids BY <1>0 DEF CallType
  <2>2. /\ pending' \in Seq(Nat) /\ pending' # << >>
        /\ \A j \in DOMAIN pending' : j + 1 \in DOMAIN pending /\ pending'[j] = pending[j + 1]
        /\ \A j \in DOMAIN pending' : j \in Nat /\ j + 1 # 1
    <3>1. \A r \in Seq(Nat) : Len(r) > 1 =>
            /\ Tail(r) \in Seq(Nat) /\ Tail(r) # << >>
            /\ \A j \in DOMAIN Tail(r) : j + 1 \in DOMAIN r /\ Tail(r)[j] = r[j + 1]
            /\ \A j \in DOMAIN Tail(r) : j \in Nat /\ j + 1 # 1
      <4> SUFFICES ASSUME NEW r \in Seq(Nat), Len(r) > 1
                   PROVE  /\ Tail(r) \in Seq(Nat) /\ Tail(r) # << >>
                          /\ \A j \in DOMAIN Tail(r) :
                               /\ j + 1 \in DOMAIN r /\ Tail(r)[j] = r[j + 1]
                               /\ j \in Nat /\ j + 1 # 1
        OBVIOUS
      <4>1. /\ Tail(r) \in Seq(Nat) /\ Len(Tail(r)) = Len(r) - 1 /\ Len(r) \in Nat
            /\ DOMAIN Tail(r) = 1..(Len(r) - 1) /\ DOMAIN r = 1..Len(r)
            /\ \A j \in 1..(Len(r) - 1) : Tail(r)[j] = r[j + 1]
        OBVIOUS
      <4>2. \A l \in Nat : \A j \in 1..(l - 1) : j + 1 \in 1..l /\ j \in Nat /\ j + 1 # 1
        OBVIOUS
      <4>3. Tail(r) # << >>
        <5>0. Len(Tail(r)) = Len(r) - 1 /\ Len(r) \in Nat OBVIOUS
        <5>a. \A l, k \in Nat : l > 1 /\ k = l - 1 => k # 0 OBVIOUS
        <5>1. Len(Tail(r)) # 0
          <6>1. Len(Tail(r)) \in Nat OBVIOUS
          <6> QED BY <5>0, <5>a, <6>1, Zenon
        <5>2. Len(<< >>) = 0 OBVIOUS
        <5> QED BY <5>1, <5>2
      <4> QED BY <4>1, <4>2, <4>3
    <3> QED BY <1>7, <2>1, <3>1
  <2>3. pc' \notin AtWork /\ pc' # "idle" /\ pc' \in OnProposal
        /\ pc' \notin {"task", "apply", "merge"}
    BY <1>7 DEF AtWork, OnTimelock, OnProposal
  <2>4. \A j \in DOMAIN pending' : pending'[j] \in Ids' BY <1>5, <2>1, <2>2
  <2>5. CallType' BY <1>0, <1>7, <2>2, <2>3, <2>4 DEF CallType
  <2>6. Task' = Task BY <1>7 DEF Task
  <2>a. Task.kind = "signAndExecute" BY <1>0, <1>1, <1>7 DEF TaskSound
  <2>7. TaskSound' BY <1>1, <1>7, <2>2, <2>3, <2>6, <2>a DEF TaskSound
  <2>8. Progress' BY <2>3 DEF Progress
  <2>9. PendingFresh'
    <3>1. /\ \A j, k \in DOMAIN pending : pending[j] = pending[k] => j = k
          /\ \A j \in DOMAIN pending : ~proposals[pending[j]].executed
      BY <1>0, <2>a DEF PendingFresh
    <3>2. ASSUME NEW j \in DOMAIN pending', NEW k \in DOMAIN pending', pending'[j] = pending'[k]
          PROVE  j = k
      <4>1. j + 1 = k + 1 BY <2>2, <3>1, <3>2
      <4> QED BY <2>2, <4>1
    <3>3. ASSUME NEW j \in DOMAIN pending' PROVE ~proposals'[pending'[j]].executed
      <4>1. j + 1 \in DOMAIN pending /\ pending'[j] = pending[j + 1] /\ j + 1 # 1 BY <2>2
      <4>2. pending[j + 1] # Id BY <1>1, <3>1, <4>1
      <4>3. proposals'[pending[j + 1]] = proposals[pending[j + 1]] BY <1>5, <2>1, <4>1, <4>2
      <4> QED BY <3>1, <4>1, <4>3
    <3> QED BY <3>2, <3>3 DEF PendingFresh
  <2>10. TaskInv' BY <2>5, <2>7, <2>8, <2>9 DEF TaskInv
  <2> QED BY <1>0, <1>1, <1>5, <1>7, <1>a, <2>10 DEF RunInv
<1> QED BY <1>6, <1>7 DEF MarkProposalExecuted

\* What the chains do for the proposal i, and what is known then.
Takes(i, v, r, m, t) ==
  /\ i \in Ids /\ ~proposals[i].executed /\ Within(proposals[i], r, m, t)
  /\ v \in Nat /\ r \subseteq Chains /\ m \subseteq Nat /\ t \subseteq Nat
  /\ UNCHANGED state
  /\ sent' = [sent EXCEPT ![i] = v] /\ rooted' = [rooted EXCEPT ![i] = r]
  /\ mcmsDone' = [mcmsDone EXCEPT ![i] = m] /\ timelockDone' = [timelockDone EXCEPT ![i] = t]

Taken(i, r, m, t) ==
  /\ StateInv' /\ Ids' = Ids
  /\ rooted'[i] = r /\ mcmsDone'[i] = m /\ timelockDone'[i] = t
  /\ \A j \in Ids : j # i => sent'[j] = sent[j]

\* Transactions for one proposal, which is not marked as executed.
LEMMA ChainStep ==
  ASSUME StateInv, NEW i, NEW v, NEW r, NEW m, NEW t, Takes(i, v, r, m, t)
  PROVE  Taken(i, r, m, t)
<1>0. /\ i \in Ids /\ ~proposals[i].executed /\ Within(proposals[i], r, m, t)
      /\ v \in Nat /\ r \subseteq Chains /\ m \subseteq Nat /\ t \subseteq Nat
      /\ UNCHANGED state
      /\ sent' = [sent EXCEPT ![i] = v] /\ rooted' = [rooted EXCEPT ![i] = r]
      /\ mcmsDone' = [mcmsDone EXCEPT ![i] = m] /\ timelockDone' = [timelockDone EXCEPT ![i] = t]
  BY DEF Takes
<1> DEFINE n == Len(proposals)
<1>2. Ids = 1..n /\ proposals \in Seq(StoredProposals) BY DEF StateInv, StateType, Ids
<1>3. ChainType /\ StateType /\ ExecutedDone BY DEF StateInv
<1>4. /\ sent' \in Seq(Nat) /\ Len(sent') = n
      /\ \A j \in Ids : j # i => sent'[j] = sent[j]
  <2>1. sent \in Seq(Nat) /\ DOMAIN sent = Ids /\ Len(sent) = n BY <1>2, <1>3 DEF ChainType
  <2> QED BY <1>0, <2>1
<1>5. /\ rooted' \in Seq(SUBSET Chains) /\ Len(rooted') = n /\ rooted'[i] = r
      /\ \A j \in Ids : j # i => rooted'[j] = rooted[j]
  <2>1. rooted \in Seq(SUBSET Chains) /\ DOMAIN rooted = Ids /\ Len(rooted) = n
    BY <1>2, <1>3 DEF ChainType
  <2> QED BY <1>0, <2>1
<1>6. /\ mcmsDone' \in Seq(SUBSET Nat) /\ Len(mcmsDone') = n /\ mcmsDone'[i] = m
      /\ \A j \in Ids : j # i => mcmsDone'[j] = mcmsDone[j]
  <2>1. mcmsDone \in Seq(SUBSET Nat) /\ DOMAIN mcmsDone = Ids /\ Len(mcmsDone) = n
    BY <1>2, <1>3 DEF ChainType
  <2> QED BY <1>0, <2>1
<1>7. /\ timelockDone' \in Seq(SUBSET Nat) /\ Len(timelockDone') = n /\ timelockDone'[i] = t
      /\ \A j \in Ids : j # i => timelockDone'[j] = timelockDone[j]
  <2>1. timelockDone \in Seq(SUBSET Nat) /\ DOMAIN timelockDone = Ids /\ Len(timelockDone) = n
    BY <1>2, <1>3 DEF ChainType
  <2> QED BY <1>0, <2>1
<1>8. proposals' = proposals /\ Ids' = Ids /\ book' = book /\ ds' = ds /\ outputs' = outputs
  BY <1>0 DEF state, Ids
<1> HIDE DEF n
<1>9. StateType' BY <1>3, <1>8 DEF StateType
<1>10. \A j \in Ids : Within(proposals[j], rooted'[j], mcmsDone'[j], timelockDone'[j])
  <2> SUFFICES ASSUME NEW j \in Ids
               PROVE  Within(proposals[j], rooted'[j], mcmsDone'[j], timelockDone'[j])
    OBVIOUS
  <2>1. CASE j = i BY <1>0, <1>5, <1>6, <1>7, <2>1
  <2>2. CASE j # i BY <1>3, <1>5, <1>6, <1>7, <2>2 DEF ChainType
  <2> QED BY <2>1, <2>2
<1>11. ChainType' BY <1>4, <1>5, <1>6, <1>7, <1>8, <1>10 DEF ChainType, n
<1>12. ExecutedDone'
  <2> SUFFICES ASSUME NEW j \in Ids, proposals[j].executed
               PROVE  /\ rooted'[j] = ChainMetadata(proposals[j])
                      /\ mcmsDone'[j] = 1..Len(proposals[j].ops)
                      /\ AfterMCMS(proposals[j]) = "proxies" =>
                           timelockDone'[j] = 1..Len(proposals[j].ops)
    BY <1>8 DEF ExecutedDone
  <2>1. j # i BY <1>0
  <2> QED BY <1>3, <1>5, <1>6, <1>7, <2>1 DEF ExecutedDone
<1> QED BY <1>4, <1>5, <1>6, <1>7, <1>8, <1>9, <1>11, <1>12 DEF StateInv, Taken

\* What is not changed for a proposal stays as it is.
LEMMA SamePlace ==
  ASSUME NEW S, NEW q \in Seq(S), NEW i \in DOMAIN q
  PROVE  q = [q EXCEPT ![i] = q[i]] /\ q[i] \in S
<1> QED OBVIOUS

\* What a step of the execution does to the task.
Executes ==
  \/ pc' \in AtWork /\ UNCHANGED <<tasks, pending, broken>>
  \/ ExecFails
  \/ P.executed /\ Fail /\ UNCHANGED broken

\* The steps from ExecuteMCMS to the last operation on a timelock.
ExecStep ==
  \/ ExecuteProposal \/ (\E c \in Chains : SetRoot(c)) \/ ExecuteOp
  \/ FindCallProxies \/ IsReady \/ ExecuteTimelockOp

\* Where these steps are taken.
StepsOfExecution == {"exec", "root", "op", "proxies", "ready", "timelock"}

\* While ExecuteProposal, FindCallProxies and IsReady run nothing is sent.
LEMMA QuietSteps ==
  ASSUME RunInv, ExecuteProposal \/ FindCallProxies \/ IsReady
  PROVE  /\ RunInv' /\ Executes /\ pc \in StepsOfExecution
         /\ UNCHANGED <<state, chain>>
<1>0. /\ StateInv /\ StateType /\ ChainType /\ CallType /\ TaskSound /\ Progress /\ PendingFresh
      /\ pc \in {"exec", "proxies", "ready"} /\ ds \in SUBSET (STRING \X Chains)
      /\ UNCHANGED <<state, chain>>
  <2>1. /\ StateInv /\ StateType /\ ChainType /\ CallType /\ TaskSound /\ Progress /\ PendingFresh
        /\ ds \in SUBSET (STRING \X Chains)
    BY DEF RunInv, TaskInv, StateInv, StateType
  <2>2. pc \in {"exec", "proxies", "ready"} /\ UNCHANGED <<state, chain>>
    BY Zenon DEF ExecuteProposal, FindCallProxies, IsReady
  <2> QED BY <2>1, <2>2
<1>1. pc \in OnProposal /\ pc # "idle" /\ pc \in StepsOfExecution
  BY <1>0 DEF OnProposal, AtWork, OnTimelock, StepsOfExecution
<1>2. StateInv' BY <1>0, StateSame
<1>3. /\ Id \in Ids /\ P \in StoredProposals
      /\ Within(P, rooted[Id], mcmsDone[Id], timelockDone[Id])
  BY <1>0, <1>1, Worked
<1>4. proposals' = proposals /\ Ids' = Ids /\ ds' \in SUBSET (STRING \X Chains)
      /\ UNCHANGED <<sent, rooted, mcmsDone, timelockDone>>
  BY <1>0 DEF state, chain, Ids
<1>5. CASE Fail
  <2>1. TaskInv' BY <1>0, <1>1, <1>4, <1>5, Ends
  <2>2. Executes
    BY <1>5 DEF ExecuteProposal, FindCallProxies, IsReady, Executes, ExecFails, Fail, Keep,
       Executable
  <2> QED BY <1>0, <1>1, <1>2, <2>1, <2>2 DEF RunInv
<1>6. CASE ~Fail
  <2>1. /\ pc' \in AtWork /\ roots' \subseteq Chains /\ opIdx' = opIdx
        /\ UNCHANGED <<envDs, execs, tasks, cs, part, dest, pending, dirty, broken>>
        /\ Progress'
    <3>0. /\ Keep
          /\ \/ ExecuteProposal /\ pc' = "root" /\ roots' = ChainMetadata(P) /\ ~P.executed
                /\ opIdx' = opIdx
             \/ FindCallProxies /\ pc' = "ready" /\ roots' = roots /\ opIdx' = opIdx
             \/ IsReady /\ pc' = "timelock" /\ roots' = roots /\ opIdx' = opIdx
      BY <1>6 DEF ExecuteProposal, FindCallProxies, IsReady, ExecFails, Executable
    <3>1. UNCHANGED <<envDs, execs, tasks, cs, part, dest, pending, dirty, broken>>
      BY <3>0 DEF Keep
    <3>2. Id' = Id /\ P' = P BY <1>4, <3>1 DEF P, Id
    <3>3. CASE /\ ExecuteProposal /\ pc' = "root" /\ roots' = ChainMetadata(P) /\ ~P.executed
               /\ opIdx' = opIdx
      <4>1. Reached(P, rooted[Id], mcmsDone[Id], timelockDone[Id])'
        BY <3>2, <3>3 DEF Reached, OnTimelock
      <4>2. roots' \subseteq Chains
        <5>1. \A j \in 1..Len(P.ops) : P.ops[j].chain \in Chains
          BY <1>3, OpType DEF StoredProposals
        <5> QED BY <3>3, <5>1 DEF ChainMetadata
      <4> QED BY <3>1, <3>3, <4>1, <4>2 DEF Progress, AtWork
    <3>4. CASE FindCallProxies /\ pc' = "ready" /\ roots' = roots /\ opIdx' = opIdx
      <4>1. pc = "proxies" BY <3>4 DEF FindCallProxies
      <4>2. Reached(P, rooted[Id], mcmsDone[Id], timelockDone[Id])
        BY <1>0, <4>1 DEF Progress, AtWork, OnTimelock
      <4>3. Reached(P, rooted[Id], mcmsDone[Id], timelockDone[Id])'
        BY <1>4, <3>2, <3>4, <4>1, <4>2 DEF Reached, OnTimelock
      <4> QED BY <1>0, <3>1, <3>4, <4>3 DEF Progress, AtWork, OnTimelock, CallType
    <3>5. CASE IsReady /\ pc' = "timelock" /\ roots' = roots /\ opIdx' = opIdx
      <4>1. pc = "ready" BY <3>5 DEF IsReady
      <4>2. Reached(P, rooted[Id], mcmsDone[Id], timelockDone[Id])
        BY <1>0, <4>1 DEF Progress, AtWork, OnTimelock
      <4>3. opIdx = 1 /\ P.ops # << >> BY <4>1, <4>2 DEF Reached
      <4>4. opIdx' \in 1..Len(P.ops) /\ 1..(opIdx' - 1) = {}
        <5>1. P.ops \in BatchOps BY <1>3 DEF StoredProposals
        <5>2. \A S : \A q \in Seq(S) : q # << >> => 1 \in 1..Len(q) OBVIOUS
        <5>3. P.ops \in Seq(BatchOp) BY <5>1, OpType
        <5>4. 1 \in 1..Len(P.ops) BY <4>3, <5>2, <5>3, Zenon
        <5> QED BY <3>5, <4>3, <5>4
      <4>5. Reached(P, rooted[Id], mcmsDone[Id], timelockDone[Id])'
        BY <1>4, <3>2, <3>5, <4>1, <4>2, <4>4 DEF Reached, OnTimelock
      <4> QED BY <1>0, <3>1, <3>5, <4>5 DEF Progress, AtWork, OnTimelock, CallType
    <3> QED BY <3>0, <3>3, <3>4, <3>5
  <2>2. pc' \in OnProposal \ {"sign"} BY <2>1 DEF OnProposal, AtWork, OnTimelock
  <2>3. opIdx' \in Nat BY <1>0, <2>1 DEF CallType
  <2>4. \A j \in Ids : proposals'[j].executed = proposals[j].executed BY <1>4
  <2>5. TaskInv' BY <1>0, <1>1, <1>4, <2>1, <2>2, <2>3, <2>4, Onward
  <2> QED BY <1>0, <1>1, <1>2, <2>1, <2>5 DEF RunInv, Executes
<1> QED BY <1>5, <1>6

\* A transaction with outcome o for the proposal that is executed.
Sends(o, r, m, t) ==
  /\ UNCHANGED state /\ Send(o) /\ rooted' = [rooted EXCEPT ![Id] = r]
  /\ mcmsDone' = [mcmsDone EXCEPT ![Id] = m] /\ timelockDone' = [timelockDone EXCEPT ![Id] = t]

\* A transaction for the proposal, what took effect, and what comes after it.
LEMMA Transaction ==
  ASSUME RunInv, pc \in {"root", "op", "timelock"}, NEW o \in Outcomes,
         NEW r \in SUBSET Chains, NEW m \in SUBSET Nat, NEW t \in SUBSET Nat,
         Within(P, r, m, t), Sends(o, r, m, t),
         \/ ExecFails
         \/ /\ pc' \in AtWork /\ Keep /\ opIdx' \in Nat /\ roots' \subseteq Chains
            /\ Reached(P, r, m, t)'
  PROVE  /\ RunInv' /\ Executes /\ ~P.executed
         /\ \A j \in Ids : j # Id => sent'[j] = sent[j]
<1>0. /\ StateInv /\ StateType /\ ChainType /\ CallType /\ TaskSound /\ Progress /\ PendingFresh
      /\ ds \in SUBSET (STRING \X Chains)
  BY DEF RunInv, TaskInv, StateInv, StateType
<1>a. /\ UNCHANGED state /\ Send(o) /\ rooted' = [rooted EXCEPT ![Id] = r]
      /\ mcmsDone' = [mcmsDone EXCEPT ![Id] = m]
      /\ timelockDone' = [timelockDone EXCEPT ![Id] = t]
  BY DEF Sends
<1>1. pc \in OnProposal /\ pc \in AtWork /\ pc # "idle" BY DEF OnProposal, AtWork, OnTimelock
<1>2. Id \in Ids /\ DOMAIN sent = Ids BY <1>0, <1>1, Worked
<1>3. ~P.executed BY <1>0, <1>1 DEF Progress, Reached
<1>4. PICK i : i = Id OBVIOUS
<1>5. PICK v \in Nat : sent' = [sent EXCEPT ![i] = v]
  <2>1. sent[Id] \in Nat /\ sent[Id] + 1 \in Nat
    <3>1. sent \in Seq(Nat) BY <1>0 DEF ChainType
    <3> QED BY <1>2, <3>1
  <2>2. sent' = [sent EXCEPT ![i] = IF o = "rejected" THEN sent[i] ELSE sent[i] + 1]
    BY <1>4, <1>a DEF Send
  <2>3. (IF o = "rejected" THEN sent[i] ELSE sent[i] + 1) \in Nat BY <1>4, <2>1
  <2> QED BY <2>2, <2>3
<1>6. /\ StateInv' /\ Ids' = Ids
      /\ rooted'[i] = r /\ mcmsDone'[i] = m /\ timelockDone'[i] = t
      /\ \A j \in Ids : j # i => sent'[j] = sent[j]
  <2>1. i \in Ids /\ ~proposals[i].executed /\ Within(proposals[i], r, m, t)
    BY <1>2, <1>3, <1>4 DEF P
  <2>2. r \subseteq Chains /\ m \subseteq Nat /\ t \subseteq Nat OBVIOUS
  <2>3. Takes(i, v, r, m, t) BY <1>4, <1>5, <1>a, <2>1, <2>2 DEF Takes
  <2>4. Taken(i, r, m, t) BY <1>0, <2>3, ChainStep
  <2> QED BY <2>4 DEF Taken
<1>7. proposals' = proposals /\ ds' \in SUBSET (STRING \X Chains) BY <1>0, <1>a DEF state
<1>8. TaskInv' /\ Executes
  <2>1. CASE ExecFails
    <3>1. Fail BY <2>1 DEF ExecFails
    <3> QED BY <1>0, <1>1, <1>7, <2>1, <3>1, Ends DEF Executes
  <2>2. CASE /\ pc' \in AtWork /\ Keep /\ opIdx' \in Nat /\ roots' \subseteq Chains
             /\ Reached(P, r, m, t)'
    <3>1. UNCHANGED <<envDs, execs, tasks, cs, part, dest, pending, dirty, broken>>
      BY <2>2 DEF Keep
    <3>2. Id' = i BY <1>4, <3>1 DEF Id
    <3>3. Progress' BY <1>6, <2>2, <3>2 DEF Progress
    <3>4. pc' \in OnProposal \ {"sign"} BY <2>2 DEF OnProposal, AtWork, OnTimelock
    <3>5. TaskInv' BY <1>0, <1>1, <1>6, <1>7, <2>2, <3>1, <3>3, <3>4, Onward
    <3> QED BY <2>2, <3>1, <3>5 DEF Executes
  <2> QED BY <2>1, <2>2
<1> QED BY <1>3, <1>4, <1>6, <1>8 DEF RunInv

\* The numbers up to k + 1.
LEMMA NextPlace ==
  ASSUME NEW k \in Nat, NEW n \in Nat, NEW S, k \in 1..n, 1..(k - 1) \subseteq S
  PROVE  /\ k < n => k + 1 \in 1..n
         /\ 1..(k + 1 - 1) \subseteq S \cup {k}
         /\ k = n => 1..n \subseteq S \cup {k}
<1>1. k + 1 - 1 = k OBVIOUS
<1>2. \A j \in 1..k : j \in 1..(k - 1) \/ j = k OBVIOUS
<1>3. 1..k \subseteq S \cup {k} BY <1>2
<1>4. k < n => k + 1 \in 1..n OBVIOUS
<1> QED BY <1>1, <1>3, <1>4

\* Before a transaction: where the execution is, and what is done.
LEMMA AtTransaction ==
  ASSUME RunInv, pc \in {"root", "op", "timelock"}
  PROVE  /\ Id \in Ids /\ P \in StoredProposals /\ P.ops \in Seq(BatchOp) /\ opIdx \in Nat
         /\ Len(P.ops) \in Nat /\ roots \subseteq Chains
         /\ DOMAIN rooted = Ids /\ DOMAIN mcmsDone = Ids /\ DOMAIN timelockDone = Ids
         /\ rooted \in Seq(SUBSET Chains) /\ mcmsDone \in Seq(SUBSET Nat)
         /\ timelockDone \in Seq(SUBSET Nat)
         /\ Within(P, rooted[Id], mcmsDone[Id], timelockDone[Id])
         /\ Reached(P, rooted[Id], mcmsDone[Id], timelockDone[Id])
<1>0. /\ StateInv /\ StateType /\ ChainType /\ CallType /\ TaskSound /\ Progress
      /\ pc \in OnProposal /\ pc \in AtWork
  BY DEF RunInv, TaskInv, StateInv, OnProposal, AtWork, OnTimelock
<1>1. /\ Id \in Ids /\ P \in StoredProposals
      /\ DOMAIN rooted = Ids /\ DOMAIN mcmsDone = Ids /\ DOMAIN timelockDone = Ids
      /\ Within(P, rooted[Id], mcmsDone[Id], timelockDone[Id])
  BY <1>0, Worked
<1>2. P.ops \in Seq(BatchOp)
  <2>1. P.ops \in BatchOps BY <1>1 DEF StoredProposals
  <2> QED BY <2>1, OpType
<1>3. Len(P.ops) \in Nat BY <1>2
<1> QED BY <1>0, <1>1, <1>2, <1>3 DEF Progress, ChainType, CallType

\* The root of a chain is set, or not.
LEMMA RootStep ==
  ASSUME RunInv, NEW c \in Chains, SetRoot(c)
  PROVE  /\ RunInv' /\ Executes /\ pc \in StepsOfExecution /\ UNCHANGED state
         /\ ~P.executed /\ \A j \in Ids : j # Id => sent'[j] = sent[j]
<1>0. pc = "root" /\ c \in roots /\ UNCHANGED <<state, mcmsDone, timelockDone>> BY DEF SetRoot
<1>1. PICK o \in Outcomes :
        /\ Send(o)
        /\ rooted' = [rooted EXCEPT ![Id] = IF o = "rejected" THEN @ ELSE @ \cup {c}]
        /\ \/ /\ o = "ok" /\ roots' = roots \ {c}
              /\ pc' = IF roots = {c} THEN "op" ELSE "root"
              /\ opIdx' = 1 /\ Keep
           \/ o # "ok" /\ ExecFails
  BY DEF SetRoot
<1>2. /\ Id \in Ids /\ P \in StoredProposals /\ P.ops \in Seq(BatchOp) /\ roots \subseteq Chains
      /\ DOMAIN rooted = Ids /\ DOMAIN mcmsDone = Ids /\ DOMAIN timelockDone = Ids
      /\ rooted \in Seq(SUBSET Chains) /\ mcmsDone \in Seq(SUBSET Nat)
      /\ timelockDone \in Seq(SUBSET Nat) /\ Len(P.ops) \in Nat
      /\ Within(P, rooted[Id], mcmsDone[Id], timelockDone[Id])
      /\ Reached(P, rooted[Id], mcmsDone[Id], timelockDone[Id])
  BY <1>0, AtTransaction
<1>3. PICK r : r = IF o = "rejected" THEN rooted[Id] ELSE rooted[Id] \cup {c} OBVIOUS
<1>4. PICK m : m = mcmsDone[Id] OBVIOUS
<1>5. PICK t : t = timelockDone[Id] OBVIOUS
<1>6. /\ roots \subseteq ChainMetadata(P) /\ ChainMetadata(P) \ roots \subseteq rooted[Id]
      /\ ~P.executed
  BY <1>0, <1>2 DEF Reached
<1>7. /\ r \in SUBSET Chains /\ m \in SUBSET Nat /\ t \in SUBSET Nat /\ Within(P, r, m, t)
  <2>1. rooted[Id] \in SUBSET Chains /\ m \in SUBSET Nat /\ t \in SUBSET Nat
    BY <1>2, <1>4, <1>5
  <2> QED BY <1>0, <1>2, <1>3, <1>4, <1>5, <1>6, <2>1 DEF Within
<1>8. /\ rooted' = [rooted EXCEPT ![Id] = r] /\ mcmsDone' = [mcmsDone EXCEPT ![Id] = m]
      /\ timelockDone' = [timelockDone EXCEPT ![Id] = t]
  <2>1. rooted' = [rooted EXCEPT ![Id] = r] BY <1>1, <1>3
  <2>2. \A S : \A q \in Seq(S) : \A i \in DOMAIN q : q = [q EXCEPT ![i] = q[i]] OBVIOUS
  <2>3. mcmsDone = [mcmsDone EXCEPT ![Id] = m] BY <1>2, <1>4, <2>2, Zenon
  <2>4. timelockDone = [timelockDone EXCEPT ![Id] = t] BY <1>2, <1>5, <2>2, Zenon
  <2> QED BY <1>0, <2>1, <2>3, <2>4
<1>9. \/ ExecFails
      \/ /\ pc' \in AtWork /\ Keep /\ opIdx' \in Nat /\ roots' \subseteq Chains
         /\ Reached(P, r, m, t)'
  <2>1. CASE o # "ok" BY <1>1, <2>1
  <2>2. CASE o = "ok"
    <3>1. /\ roots' = roots \ {c} /\ pc' = (IF roots = {c} THEN "op" ELSE "root")
          /\ opIdx' = 1 /\ Keep /\ r = rooted[Id] \cup {c}
      BY <1>1, <1>3, <2>2
    <3>2. P' = P BY <1>0, <3>1 DEF P, Id, Keep, state
    <3>3. P.ops # << >> /\ 1 \in 1..Len(P.ops) /\ 1..(1 - 1) = {}
      <4>1. c \in ChainMetadata(P) BY <1>0, <1>6
      <4>2. PICK j \in 1..Len(P.ops) : TRUE BY <4>1 DEF ChainMetadata
      <4>3. Len(P.ops) # 0 BY <1>2, <4>2
      <4> QED BY <1>2, <4>3
    <3>4. ChainMetadata(P) \ roots' \subseteq r BY <1>6, <3>1
    <3>5. roots = {c} => ChainMetadata(P) \subseteq r BY <1>6, <3>1
    <3>6. Reached(P, r, m, t)'
      BY <1>6, <3>1, <3>2, <3>3, <3>4, <3>5 DEF Reached, OnTimelock
    <3> QED BY <1>2, <3>1, <3>6 DEF AtWork
  <2> QED BY <2>1, <2>2
<1>b. Sends(o, r, m, t) BY <1>0, <1>1, <1>8 DEF Sends
<1>10. /\ RunInv' /\ Executes /\ ~P.executed /\ \A j \in Ids : j # Id => sent'[j] = sent[j]
  BY <1>0, <1>7, <1>9, <1>b, Transaction
<1> QED BY <1>0, <1>10 DEF StepsOfExecution

\* An operation on the MCMS contract is executed, or not.
LEMMA OpStep ==
  ASSUME RunInv, ExecuteOp
  PROVE  /\ RunInv' /\ Executes /\ pc \in StepsOfExecution /\ UNCHANGED state
         /\ ~P.executed /\ \A j \in Ids : j # Id => sent'[j] = sent[j]
<1>0. pc = "op" /\ UNCHANGED <<state, rooted, timelockDone>> BY DEF ExecuteOp
<1>1. PICK o \in Outcomes :
        /\ Send(o)
        /\ mcmsDone' = [mcmsDone EXCEPT ![Id] = IF o = "rejected" THEN @ ELSE @ \cup {opIdx}]
        /\ \/ o # "ok" /\ ExecFails
           \/ /\ o = "ok" /\ roots' = roots /\ Keep
              /\ \/ opIdx < Len(P.ops) /\ opIdx' = opIdx + 1 /\ pc' = pc
                 \/ opIdx = Len(P.ops) /\ opIdx' = 1 /\ pc' = AfterMCMS(P)
  BY DEF ExecuteOp, Advances
<1>2. /\ Id \in Ids /\ P \in StoredProposals /\ P.ops \in Seq(BatchOp) /\ roots \subseteq Chains
      /\ DOMAIN rooted = Ids /\ DOMAIN mcmsDone = Ids /\ DOMAIN timelockDone = Ids
      /\ rooted \in Seq(SUBSET Chains) /\ mcmsDone \in Seq(SUBSET Nat)
      /\ timelockDone \in Seq(SUBSET Nat) /\ Len(P.ops) \in Nat
      /\ Within(P, rooted[Id], mcmsDone[Id], timelockDone[Id])
      /\ Reached(P, rooted[Id], mcmsDone[Id], timelockDone[Id])
  BY <1>0, AtTransaction
<1>3. PICK r : r = rooted[Id] OBVIOUS
<1>4. PICK m : m = IF o = "rejected" THEN mcmsDone[Id] ELSE mcmsDone[Id] \cup {opIdx} OBVIOUS
<1>5. PICK t : t = timelockDone[Id] OBVIOUS
<1>6. /\ opIdx \in 1..Len(P.ops) /\ opIdx \in Nat /\ 1..(opIdx - 1) \subseteq mcmsDone[Id]
      /\ P.ops # << >> /\ ChainMetadata(P) \subseteq r /\ ~P.executed
  <2>1. /\ opIdx \in 1..Len(P.ops) /\ 1..(opIdx - 1) \subseteq mcmsDone[Id]
        /\ P.ops # << >> /\ ChainMetadata(P) \subseteq r /\ ~P.executed
    BY <1>0, <1>2, <1>3 DEF Reached
  <2> QED BY <1>2, <2>1
<1>7. /\ r \in SUBSET Chains /\ m \in SUBSET Nat /\ t \in SUBSET Nat /\ Within(P, r, m, t)
  <2>1. r \in SUBSET Chains /\ mcmsDone[Id] \in SUBSET Nat /\ t \in SUBSET Nat
    BY <1>2, <1>3, <1>5
  <2> QED BY <1>2, <1>3, <1>4, <1>5, <1>6, <2>1 DEF Within
<1>8. Sends(o, r, m, t)
  <2>1. mcmsDone' = [mcmsDone EXCEPT ![Id] = m] BY <1>1, <1>4
  <2>2. \A S : \A q \in Seq(S) : \A i \in DOMAIN q : q = [q EXCEPT ![i] = q[i]] OBVIOUS
  <2>3. rooted = [rooted EXCEPT ![Id] = r] BY <1>2, <1>3, <2>2, Zenon
  <2>4. timelockDone = [timelockDone EXCEPT ![Id] = t] BY <1>2, <1>5, <2>2, Zenon
  <2> QED BY <1>0, <1>1, <2>1, <2>3, <2>4 DEF Sends
<1>9. \/ ExecFails
      \/ /\ pc' \in AtWork /\ Keep /\ opIdx' \in Nat /\ roots' \subseteq Chains
         /\ Reached(P, r, m, t)'
  <2>1. CASE o # "ok" BY <1>1, <2>1
  <2>2. CASE o = "ok"
    <3>1. /\ roots' = roots /\ Keep /\ m = mcmsDone[Id] \cup {opIdx}
          /\ \/ opIdx < Len(P.ops) /\ opIdx' = opIdx + 1 /\ pc' = "op"
             \/ opIdx = Len(P.ops) /\ opIdx' = 1 /\ pc' = AfterMCMS(P)
      BY <1>0, <1>1, <1>4, <2>2
    <3>2. P' = P BY <1>0, <3>1 DEF P, Id, Keep, state
    <3>3. PICK k \in Nat : k = opIdx BY <1>6
    <3>4. PICK n \in Nat : n = Len(P.ops) BY <1>2
    <3>5. /\ k < n => k + 1 \in 1..n
          /\ 1..(k + 1 - 1) \subseteq m
          /\ k = n => 1..n \subseteq m
      <4>1. k \in 1..n /\ 1..(k - 1) \subseteq mcmsDone[Id] BY <1>6, <3>3, <3>4
      <4>2. PICK S : S = mcmsDone[Id] OBVIOUS
      <4>3. m = S \cup {k} BY <3>1, <3>3, <4>2
      <4> QED BY <4>1, <4>2, <4>3, NextPlace
    <3>6. CASE opIdx < Len(P.ops) /\ opIdx' = opIdx + 1 /\ pc' = "op"
      <4>1. opIdx' \in 1..Len(P.ops) /\ opIdx' \in Nat /\ 1..(opIdx' - 1) \subseteq m
        BY <3>3, <3>4, <3>5, <3>6
      <4>2. Reached(P, r, m, t)' BY <1>6, <3>2, <3>6, <4>1 DEF Reached, OnTimelock
      <4> QED BY <1>2, <3>1, <3>6, <4>1, <4>2 DEF AtWork
    <3>7. CASE opIdx = Len(P.ops) /\ opIdx' = 1 /\ pc' = AfterMCMS(P)
      <4>1. 1..Len(P.ops) \subseteq m BY <3>3, <3>4, <3>5, <3>7
      <4>2. pc' \in {"proxies", "mark"} /\ (pc' = "proxies" <=> AfterMCMS(P) = "proxies")
        BY <3>7 DEF AfterMCMS
      <4>3. Reached(P, r, m, t)' BY <1>6, <3>2, <3>7, <4>1, <4>2 DEF Reached, OnTimelock
      <4> QED BY <1>2, <3>1, <3>7, <4>2, <4>3 DEF AtWork, OnTimelock
    <3> QED BY <3>1, <3>6, <3>7
  <2> QED BY <2>1, <2>2
<1>10. /\ RunInv' /\ Executes /\ ~P.executed /\ \A j \in Ids : j # Id => sent'[j] = sent[j]
  BY <1>0, <1>7, <1>8, <1>9, Transaction
<1> QED BY <1>0, <1>10 DEF StepsOfExecution

\* An operation on a timelock is executed, or not.
LEMMA TimelockStep ==
  ASSUME RunInv, ExecuteTimelockOp
  PROVE  /\ RunInv' /\ Executes /\ pc \in StepsOfExecution /\ UNCHANGED state
         /\ ~P.executed /\ \A j \in Ids : j # Id => sent'[j] = sent[j]
<1>0. pc = "timelock" /\ UNCHANGED <<state, rooted, mcmsDone>> BY DEF ExecuteTimelockOp
<1>1. PICK o \in Outcomes :
        /\ Send(o)
        /\ timelockDone' =
             [timelockDone EXCEPT ![Id] = IF o = "rejected" THEN @ ELSE @ \cup {opIdx}]
        /\ \/ o # "ok" /\ ExecFails
           \/ /\ o = "ok" /\ roots' = roots /\ Keep
              /\ \/ opIdx < Len(P.ops) /\ opIdx' = opIdx + 1 /\ pc' = pc
                 \/ opIdx = Len(P.ops) /\ opIdx' = 1 /\ pc' = "mark"
  BY DEF ExecuteTimelockOp
<1>2. /\ Id \in Ids /\ P \in StoredProposals /\ P.ops \in Seq(BatchOp) /\ roots \subseteq Chains
      /\ DOMAIN rooted = Ids /\ DOMAIN mcmsDone = Ids /\ DOMAIN timelockDone = Ids
      /\ rooted \in Seq(SUBSET Chains) /\ mcmsDone \in Seq(SUBSET Nat)
      /\ timelockDone \in Seq(SUBSET Nat) /\ Len(P.ops) \in Nat
      /\ Within(P, rooted[Id], mcmsDone[Id], timelockDone[Id])
      /\ Reached(P, rooted[Id], mcmsDone[Id], timelockDone[Id])
  BY <1>0, AtTransaction
<1>3. PICK r : r = rooted[Id] OBVIOUS
<1>4. PICK m : m = mcmsDone[Id] OBVIOUS
<1>5. PICK t : t = IF o = "rejected" THEN timelockDone[Id] ELSE timelockDone[Id] \cup {opIdx}
  OBVIOUS
<1>6. /\ opIdx \in 1..Len(P.ops) /\ opIdx \in Nat /\ 1..(opIdx - 1) \subseteq timelockDone[Id]
      /\ P.ops # << >> /\ ChainMetadata(P) \subseteq r /\ ~P.executed
      /\ 1..Len(P.ops) \subseteq m /\ AfterMCMS(P) = "proxies"
  <2>1. /\ opIdx \in 1..Len(P.ops) /\ 1..(opIdx - 1) \subseteq timelockDone[Id]
        /\ P.ops # << >> /\ ChainMetadata(P) \subseteq r /\ ~P.executed
        /\ 1..Len(P.ops) \subseteq m /\ AfterMCMS(P) = "proxies"
    BY <1>0, <1>2, <1>3, <1>4 DEF Reached, OnTimelock
  <2> QED BY <1>2, <2>1
<1>7. /\ r \in SUBSET Chains /\ m \in SUBSET Nat /\ t \in SUBSET Nat /\ Within(P, r, m, t)
  <2>1. r \in SUBSET Chains /\ m \in SUBSET Nat /\ timelockDone[Id] \in SUBSET Nat
    BY <1>2, <1>3, <1>4
  <2> QED BY <1>2, <1>3, <1>4, <1>5, <1>6, <2>1 DEF Within
<1>8. Sends(o, r, m, t)
  <2>1. timelockDone' = [timelockDone EXCEPT ![Id] = t] BY <1>1, <1>5
  <2>2. \A S : \A q \in Seq(S) : \A i \in DOMAIN q : q = [q EXCEPT ![i] = q[i]] OBVIOUS
  <2>3. rooted = [rooted EXCEPT ![Id] = r] BY <1>2, <1>3, <2>2, Zenon
  <2>4. mcmsDone = [mcmsDone EXCEPT ![Id] = m] BY <1>2, <1>4, <2>2, Zenon
  <2> QED BY <1>0, <1>1, <2>1, <2>3, <2>4 DEF Sends
<1>9. \/ ExecFails
      \/ /\ pc' \in AtWork /\ Keep /\ opIdx' \in Nat /\ roots' \subseteq Chains
         /\ Reached(P, r, m, t)'
  <2>1. CASE o # "ok" BY <1>1, <2>1
  <2>2. CASE o = "ok"
    <3>1. /\ roots' = roots /\ Keep /\ t = timelockDone[Id] \cup {opIdx}
          /\ \/ opIdx < Len(P.ops) /\ opIdx' = opIdx + 1 /\ pc' = "timelock"
             \/ opIdx = Len(P.ops) /\ opIdx' = 1 /\ pc' = "mark"
      BY <1>0, <1>1, <1>5, <2>2
    <3>2. P' = P BY <1>0, <3>1 DEF P, Id, Keep, state
    <3>3. PICK k \in Nat : k = opIdx BY <1>6
    <3>4. PICK n \in Nat : n = Len(P.ops) BY <1>2
    <3>5. /\ k < n => k + 1 \in 1..n
          /\ 1..(k + 1 - 1) \subseteq t
          /\ k = n => 1..n \subseteq t
      <4>1. k \in 1..n /\ 1..(k - 1) \subseteq timelockDone[Id] BY <1>6, <3>3, <3>4
      <4>2. PICK S : S = timelockDone[Id] OBVIOUS
      <4>3. t = S \cup {k} BY <3>1, <3>3, <4>2
      <4> QED BY <4>1, <4>2, <4>3, NextPlace
    <3>6. CASE opIdx < Len(P.ops) /\ opIdx' = opIdx + 1 /\ pc' = "timelock"
      <4>1. opIdx' \in 1..Len(P.ops) /\ opIdx' \in Nat /\ 1..(opIdx' - 1) \subseteq t
        BY <3>3, <3>4, <3>5, <3>6
      <4>2. Reached(P, r, m, t)' BY <1>6, <3>2, <3>6, <4>1 DEF Reached, OnTimelock
      <4> QED BY <1>2, <3>1, <3>6, <4>1, <4>2 DEF AtWork, OnTimelock
    <3>7. CASE opIdx = Len(P.ops) /\ opIdx' = 1 /\ pc' = "mark"
      <4>1. 1..Len(P.ops) \subseteq t BY <3>3, <3>4, <3>5, <3>7
      <4>2. Reached(P, r, m, t)' BY <1>6, <3>2, <3>7, <4>1 DEF Reached, OnTimelock
      <4> QED BY <1>2, <3>1, <3>7, <4>2 DEF AtWork, OnTimelock
    <3> QED BY <3>1, <3>6, <3>7
  <2> QED BY <2>1, <2>2
<1>10. /\ RunInv' /\ Executes /\ ~P.executed /\ \A j \in Ids : j # Id => sent'[j] = sent[j]
  BY <1>0, <1>7, <1>8, <1>9, Transaction
<1> QED BY <1>0, <1>10 DEF StepsOfExecution

-----------------------------------------------------------------------------
(* The invariant, and what no step does. *)

\* What is executed stays so, and nothing more is sent for it.
KeepsExecuted ==
  \A i \in Ids : proposals[i].executed => proposals'[i].executed /\ sent'[i] = sent[i]

\* The runtime begins empty.
LEMMA InitSound ==
  ASSUME Init
  PROVE  RunInv
<1>1. /\ book = EmptyBook /\ ds = {} /\ proposals = << >> /\ outputs = {} /\ envDs = {} /\ execs = 0
      /\ tasks = << >> /\ pc = "idle" /\ cs = 1 /\ part = 1 /\ dest = NoOutput /\ pending = << >>
      /\ roots = {} /\ opIdx = 1 /\ sent = << >> /\ rooted = << >> /\ mcmsDone = << >>
      /\ timelockDone = << >> /\ dirty = FALSE
  BY DEF Init
<1>2. Ids = {} BY <1>1 DEF Ids
<1>3. StateType
  <2>1. EmptyBook \in Book BY DEF EmptyBook, Book
  <2>2. << >> \in Seq(StoredProposals) OBVIOUS
  <2> QED BY <1>1, <2>1, <2>2 DEF StateType
<1>4. ChainType
  <2>1. << >> \in Seq(Nat) /\ << >> \in Seq(SUBSET Chains) /\ << >> \in Seq(SUBSET Nat) OBVIOUS
  <2> QED BY <1>1, <1>2, <2>1 DEF ChainType
<1>5. ExecutedDone BY <1>2 DEF ExecutedDone
<1>6. CallType
  <2>1. NoOutput \in Results BY FreshProposals
  <2>2. 0 \in 0..MaxExecs BY RuntimeAssumption
  <2>3. << >> \in Seq(Tasks) /\ << >> \in Seq(Nat) /\ DOMAIN << >> = {} OBVIOUS
  <2> QED BY <1>1, <2>1, <2>2, <2>3 DEF CallType
<1>7. pc \notin OnProposal /\ pc \notin AtWork BY <1>1 DEF OnProposal, AtWork, OnTimelock
<1>8. TaskSound BY <1>1, <1>7 DEF TaskSound
<1>9. Progress /\ PendingFresh BY <1>7 DEF Progress, PendingFresh
<1> QED BY <1>3, <1>4, <1>5, <1>6, <1>8, <1>9 DEF RunInv, StateInv, TaskInv

\* Steps that change nothing.
LEMMA Stutters ==
  ASSUME RunInv, UNCHANGED vars
  PROVE  RunInv'
<1>1. /\ UNCHANGED <<state, chain>> /\ pc' = pc /\ tasks' = tasks
      /\ UNCHANGED <<envDs, execs, cs, part, dest, pending, roots, opIdx, dirty>>
  BY DEF vars, state, chain
<1>2. StateInv' BY <1>1, StateSame DEF RunInv
<1>3. /\ UNCHANGED <<proposals, rooted, mcmsDone, timelockDone>> /\ Ids' = Ids /\ Task' = Task
      /\ Changeset' = Changeset /\ Id' = Id /\ P' = P
  BY <1>1 DEF state, chain, Ids, Task, Changeset, Id, P
<1>4. CallType' BY <1>1, <1>3 DEF RunInv, TaskInv, CallType
<1>5. TaskSound' BY <1>1, <1>3 DEF RunInv, TaskInv, TaskSound
<1>6. Progress' BY <1>1, <1>3 DEF RunInv, TaskInv, Progress, Reached
<1>7. PendingFresh' BY <1>1, <1>3 DEF RunInv, TaskInv, PendingFresh
<1> QED BY <1>2, <1>4, <1>5, <1>6, <1>7 DEF RunInv, TaskInv

\* The steps that execute a proposal.
LEMMA ExecSteps ==
  ASSUME RunInv, ExecStep
  PROVE  /\ RunInv' /\ Executes /\ pc \in StepsOfExecution /\ UNCHANGED state /\ KeepsExecuted
<1>1. CASE ExecuteProposal \/ FindCallProxies \/ IsReady
  <2>1. /\ RunInv' /\ Executes /\ pc \in StepsOfExecution /\ UNCHANGED <<state, chain>>
    BY <1>1, QuietSteps
  <2> QED BY <2>1 DEF KeepsExecuted, state, chain
<1>2. CASE (\E c \in Chains : SetRoot(c)) \/ ExecuteOp \/ ExecuteTimelockOp
  <2>1. /\ RunInv' /\ Executes /\ pc \in StepsOfExecution /\ UNCHANGED state
        /\ ~P.executed /\ \A j \in Ids : j # Id => sent'[j] = sent[j]
    BY <1>2, RootStep, OpStep, TimelockStep
  <2> QED BY <2>1 DEF KeepsExecuted, state, P
<1> QED BY <1>1, <1>2 DEF ExecStep

\* Every step keeps the invariant, and what is executed.
LEMMA NextSound ==
  ASSUME RunInv, Next
  PROVE  RunInv' /\ KeepsExecuted
<1>1. CASE (\E call \in Calls : Exec(call)) \/ BeginChangesets \/ BeginProposals \/ Done
  <2>1. RunInv' BY <1>1, CallSteps, BeginProposalsStep, Stutters DEF Done
  <2>2. UNCHANGED <<proposals, sent>>
    BY <1>1 DEF Exec, BeginChangesets, BeginProposals, Done, state, chain, vars
  <2> QED BY <2>1, <2>2 DEF KeepsExecuted
<1>2. CASE ApplyFails \/ ApplySimple \/ MergeParts
  <2>1. RunInv' BY <1>2, ApplySteps
  <2>2. UNCHANGED <<proposals, sent>>
    BY <1>2 DEF ApplyFails, ApplySimple, MergeParts, state, chain
  <2> QED BY <2>1, <2>2 DEF KeepsExecuted
<1>3. CASE MergeChangesetOutput
  <2>1. RunInv' BY <1>3, MergeOutputStep
  <2>2. PICK add, ok : Stores(add, ok) BY <1>3, StoresSound
  <2>3. StateType /\ ChainType BY DEF RunInv, StateInv
  <2>4. \A i \in Ids : proposals'[i] = proposals[i] /\ sent'[i] = sent[i]
    BY <2>2, <2>3, Appended
  <2> QED BY <2>1, <2>4 DEF KeepsExecuted
<1>4. CASE SignProposal
  <2>1. /\ RunInv' /\ Id \in Ids /\ proposals'[Id].executed = P.executed
        /\ \A j \in Ids : j # Id => proposals'[j] = proposals[j]
    BY <1>4, SignStep
  <2>2. sent' = sent BY <1>4 DEF SignProposal, chain
  <2> QED BY <2>1, <2>2 DEF KeepsExecuted, P
<1>5. CASE MarkProposalExecuted
  <2>1. /\ RunInv' /\ Id \in Ids /\ proposals'[Id].executed /\ UNCHANGED chain
        /\ \A j \in Ids : j # Id => proposals'[j] = proposals[j]
    BY <1>5, MarkStep
  <2> QED BY <2>1 DEF KeepsExecuted, chain
<1>6. CASE ExecStep BY <1>6, ExecSteps
<1> QED BY <1>1, <1>2, <1>3, <1>4, <1>5, <1>6 DEF Next, ExecStep

\* RunInv holds in all states of the runtime.
LEMMA Inductive == Spec => []RunInv
<1>1. Init => RunInv BY InitSound
<1>2. RunInv /\ [Next]_vars => RunInv' BY NextSound, Stutters
<1> QED BY <1>1, <1>2, PTL DEF Spec

\* Nothing is sent for a proposal that is marked as executed, whatever calls of
\* Exec and whatever tasks (execute, signAndExecute) come after it, and no task
\* takes the mark back.
THEOREM ExecutionSound == Spec => ExecutedOnce
<1>1. RunInv /\ [Next]_vars => [KeepsExecuted]_vars BY NextSound
<1>2. Spec => [][KeepsExecuted]_vars BY <1>1, Inductive, PTL DEF Spec
<1> QED BY <1>2, PTL DEF ExecutedOnce, KeepsExecuted

-----------------------------------------------------------------------------
(* Signatures. *)

\* A key is among the signatures; it is there once at most.
Holds(sigs, key) == \E j \in DOMAIN sigs : sigs[j] = key
Single(sigs, key) == \A j, k \in DOMAIN sigs : sigs[j] = key /\ sigs[k] = key => j = k

\* The key that is looked at.
Signer == Signers[1]

\* The tasks of the call that runs are of one of the calls.
TasksOfCall ==
  \A j \in DOMAIN tasks : tasks[j].kind = "sign" => ~Holds(tasks[j].keys, Signer)

\* What the signer has signed was executed or is being executed, unless its
\* execution failed.
SignedFor(i) ==
  /\ Single(proposals[i].sigs, Signer)
  /\ Holds(proposals[i].sigs, Signer) =>
       \/ proposals[i].executed
       \/ pc \in OnProposal \ {"sign"} /\ Task.kind = "signAndExecute" /\ i = Id

SignedOnce == \A i \in Ids \ broken : SignedFor(i)

SignInv == TasksOfCall /\ SignedOnce

\* Signatures that are added to others: a key that is new, or other keys.
LEMMA SignedTwice ==
  ASSUME NEW a \in Seq(STRING), NEW b \in Seq(STRING), NEW key,
         \/ ~Holds(a, key) /\ Single(b, key)
         \/ Single(a, key) /\ ~Holds(b, key)
  PROVE  /\ Single(a \o b, key)
         /\ Holds(a \o b, key) => Holds(a, key) \/ Holds(b, key)
<1> DEFINE c == a \o b
           n == Len(a)
<1>1. /\ n \in Nat /\ DOMAIN a = 1..n /\ DOMAIN b = 1..Len(b) /\ DOMAIN c = 1..(n + Len(b))
      /\ Len(b) \in Nat
      /\ \A j \in DOMAIN c : c[j] = IF j <= n THEN a[j] ELSE b[j - n]
  OBVIOUS
<1> HIDE DEF c
<1>2. ASSUME NEW j \in DOMAIN c, c[j] = key
      PROVE  \/ j \in DOMAIN a /\ a[j] = key
             \/ j - n \in DOMAIN b /\ b[j - n] = key
  <2>1. CASE j <= n
    <3>1. j \in DOMAIN a BY <1>1, <2>1
    <3> QED BY <1>1, <1>2, <2>1, <3>1
  <2>2. CASE ~(j <= n)
    <3>1. j - n \in DOMAIN b BY <1>1, <2>2
    <3> QED BY <1>1, <1>2, <2>2, <3>1
  <2> QED BY <2>1, <2>2
<1>3. Holds(c, key) => Holds(a, key) \/ Holds(b, key) BY <1>2 DEF Holds
<1>4. ASSUME NEW j \in DOMAIN c, NEW k \in DOMAIN c, c[j] = key, c[k] = key PROVE j = k
  <2>0. j \in Nat /\ k \in Nat BY <1>1
  <2>1. CASE ~Holds(a, key) /\ Single(b, key)
    <3>1. j - n \in DOMAIN b /\ b[j - n] = key BY <1>2, <1>4, <2>1 DEF Holds
    <3>2. k - n \in DOMAIN b /\ b[k - n] = key BY <1>2, <1>4, <2>1 DEF Holds
    <3>3. j - n = k - n BY <2>1, <3>1, <3>2 DEF Single
    <3> QED BY <1>1, <2>0, <3>3
  <2>2. CASE Single(a, key) /\ ~Holds(b, key)
    <3>1. j \in DOMAIN a /\ a[j] = key BY <1>2, <1>4, <2>2 DEF Holds
    <3>2. k \in DOMAIN a /\ a[k] = key BY <1>2, <1>4, <2>2 DEF Holds
    <3> QED BY <2>2, <3>1, <3>2 DEF Single
  <2> QED BY <2>1, <2>2
<1> QED BY <1>3, <1>4 DEF Single, c

\* The rest of the tasks is of the call, too.
LEMMA TasksLeft ==
  ASSUME RunInv, TasksOfCall, tasks' = tasks \/ tasks' = << >> \/ tasks' = Tail(tasks)
  PROVE  TasksOfCall'
<1>1. tasks \in Seq(Tasks) BY DEF RunInv, TaskInv, CallType
<1>2. CASE tasks' = tasks BY <1>2 DEF TasksOfCall
<1>3. CASE tasks' = << >> BY <1>3 DEF TasksOfCall
<1>4. CASE tasks' = Tail(tasks) /\ tasks # << >>
  <2>1. \A S : \A q \in Seq(S) : q # << >> =>
          \A j \in DOMAIN Tail(q) : j + 1 \in DOMAIN q /\ Tail(q)[j] = q[j + 1]
    OBVIOUS
  <2>2. \A j \in DOMAIN tasks' : j + 1 \in DOMAIN tasks /\ tasks'[j] = tasks[j + 1]
    BY <1>1, <1>4, <2>1
  <2> QED BY <2>2 DEF TasksOfCall
<1>5. CASE tasks' = Tail(tasks) /\ tasks = << >>
  <2>1. tasks' = << >> BY <1>5
  <2> QED BY <1>3, <2>1
<1> QED BY <1>2, <1>3, <1>4, <1>5

\* Steps that sign nothing: of the proposals that are there, none is changed but in
\* its mark, and new ones have no signatures.
LEMMA SignsNothing ==
  ASSUME RunInv, SignedOnce, KeepsExecuted, Ids \subseteq Ids', broken \subseteq broken',
         \A i \in Ids : proposals'[i].sigs = proposals[i].sigs,
         \A i \in Ids' \ Ids : proposals'[i].sigs = << >>,
         \A i \in Ids \ broken' :
           SignedFor(i) /\ Holds(proposals[i].sigs, Signer) =>
             \/ proposals[i].executed \/ proposals'[i].executed
             \/ pc' \in OnProposal \ {"sign"} /\ (Task.kind)' = "signAndExecute" /\ i = Id'
  PROVE  SignedOnce'
<1> SUFFICES ASSUME NEW i \in Ids' \ broken' PROVE SignedFor(i)'
  BY DEF SignedOnce
<1>1. CASE i \in Ids
  <2>1. SignedFor(i) BY <1>1 DEF SignedOnce
  <2>2. Holds(proposals[i].sigs, Signer) =>
          \/ proposals'[i].executed
          \/ pc' \in OnProposal \ {"sign"} /\ Task'.kind = "signAndExecute" /\ i = Id'
    BY <1>1, <2>1 DEF KeepsExecuted
  <2> QED BY <1>1, <2>1, <2>2 DEF SignedFor, Signer
<1>2. CASE i \notin Ids
  <2>1. proposals'[i].sigs = << >> BY <1>2
  <2>2. ~Holds(<< >>, Signer) /\ Single(<< >>, Signer) BY DEF Holds, Single
  <2> QED BY <2>1, <2>2 DEF SignedFor, Signer
<1> QED BY <1>1, <1>2

\* Tasks are given by Exec, and taken away one by one or all at once.
LEMMA TasksNext ==
  ASSUME Next
  PROVE  \/ \E call \in Calls : Exec(call)
         \/ tasks' = tasks \/ tasks' = << >> \/ tasks' = Tail(tasks)
<1> DEFINE Left == tasks' = tasks \/ tasks' = << >> \/ tasks' = Tail(tasks)
<1>1. Fail => Left BY DEF Fail
<1>2. Succeed => Left BY DEF Succeed
<1>3. Keep => Left BY DEF Keep
<1>4. ExecFails => Left BY <1>1 DEF ExecFails
<1>5. NextChangeset => Left BY <1>2 DEF NextChangeset
<1>6. BeginChangesets \/ ApplyFails \/ ApplySimple => Left
  BY <1>1 DEF BeginChangesets, ApplyFails, ApplySimple
<1>7. MergeParts => Left
  <2>1. ASSUME MergeParts PROVE tasks' = tasks \/ Fail BY <2>1 DEF MergeParts
  <2> QED BY <1>1, <2>1
<1>8. MergeChangesetOutput => Left
  <2>1. ASSUME MergeChangesetOutput PROVE NextChangeset \/ Fail
    BY <2>1, Zenon DEF MergeChangesetOutput
  <2> QED BY <1>1, <1>5, <2>1
<1>9. BeginProposals => Left BY <1>1, <1>2 DEF BeginProposals
<1>10. SignProposal => Left
  <2>1. ASSUME SignProposal PROVE tasks' = tasks \/ Fail \/ Succeed BY <2>1 DEF SignProposal
  <2> QED BY <1>1, <1>2, <2>1
<1>11. ExecStep => Left
  <2>1. ASSUME ExecStep PROVE Keep \/ ExecFails \/ Fail
    BY <2>1, Zenon DEF ExecStep, ExecuteProposal, SetRoot, ExecuteOp, FindCallProxies, IsReady,
                       ExecuteTimelockOp
  <2> QED BY <1>1, <1>3, <1>4, <2>1
<1>12. MarkProposalExecuted => Left BY <1>2 DEF MarkProposalExecuted
<1>13. Done => Left BY DEF Done, vars
<1> QED BY <1>6, <1>7, <1>8, <1>9, <1>10, <1>11, <1>12, <1>13 DEF Next, ExecStep

\* Whatever is called, no task asks for the signer's key.
LEMMA TasksSound ==
  ASSUME AskedOnce, RunInv, TasksOfCall, Next
  PROVE  TasksOfCall'
<1>1. CASE \E call \in Calls : Exec(call)
  <2>1. PICK call \in Calls : tasks' = call BY <1>1 DEF Exec
  <2>2. \A j \in DOMAIN call : call[j].kind = "sign" => ~Holds(call[j].keys, Signer)
    BY DEF AskedOnce, Holds, Signer
  <2> QED BY <2>1, <2>2 DEF TasksOfCall
<1>2. CASE tasks' = tasks \/ tasks' = << >> \/ tasks' = Tail(tasks) BY <1>2, TasksLeft
<1> QED BY <1>1, <1>2, TasksNext

\* A signature is added.
LEMMA SignsSound ==
  ASSUME AskedOnce, RunInv, SignInv, SignProposal
  PROVE  SignedOnce'
<1>0. /\ StateType /\ ChainType /\ CallType /\ TaskSound /\ PendingFresh /\ SignedOnce
      /\ TasksOfCall /\ pc = "sign" /\ pc \in OnProposal
  BY DEF RunInv, StateInv, TaskInv, SignInv, SignProposal, OnProposal
<1>1. /\ Id \in Ids /\ P \in StoredProposals /\ pending[1] = Id /\ 1 \in DOMAIN pending
      /\ Task \in Tasks /\ tasks # << >>
  BY <1>0, Worked, TaskRuns
<1>2. /\ Ids' = Ids /\ broken' = broken
      /\ \A j \in Ids : j # Id => proposals'[j] = proposals[j]
      /\ proposals'[Id].executed = P.executed
  BY SignStep
<1>3. PICK ok \in BOOLEAN :
        /\ proposals'[Id].sigs = Signed(P.sigs, Keys, ok)
        /\ ok => \/ Task.kind = "sign" /\ Succeed
                 \/ Task.kind = "signAndExecute" /\ pc' = "exec" /\ UNCHANGED <<tasks, pending>>
        /\ ~ok => Fail
  BY SignStep
<1> SUFFICES ASSUME NEW i \in Ids \ broken PROVE SignedFor(i)'
  BY <1>2 DEF SignedOnce
<1>4. /\ Single(proposals[i].sigs, Signer)
      /\ Holds(proposals[i].sigs, Signer) => proposals[i].executed
  BY <1>0 DEF SignedOnce, SignedFor
<1>5. CASE i # Id
  <2>1. proposals'[i] = proposals[i] BY <1>2, <1>5
  <2> QED BY <1>4, <2>1 DEF SignedFor, Signer
<1>6. CASE i = Id
  <2>1. P.sigs \in Seq(STRING) BY <1>1 DEF StoredProposals
  <2>2. Single(P.sigs, Signer) /\ (Holds(P.sigs, Signer) => P.executed)
    BY <1>4, <1>6 DEF P
  <2>3. CASE ~ok
    <3>1. proposals'[Id].sigs = P.sigs BY <1>3, <2>3 DEF Signed
    <3> QED BY <1>2, <1>6, <2>2, <3>1 DEF SignedFor, Signer
  <2>4. CASE ok /\ Task.kind = "sign"
    <3>1. Task = tasks[1] /\ 1 \in DOMAIN tasks
      <4>1. tasks \in Seq(Tasks) BY <1>0 DEF CallType
      <4> QED BY <1>1, <4>1 DEF Task
    <3>2. Task.keys \in Seq(STRING) /\ ~Holds(Task.keys, Signer)
      <4>1. Task.keys \in Seq(STRING) BY <1>1, <2>4 DEF Tasks
      <4> QED BY <1>0, <2>4, <3>1, <4>1 DEF TasksOfCall
    <3>3. proposals'[Id].sigs = P.sigs \o Task.keys BY <1>3, <2>4 DEF Signed, Keys
    <3>4. /\ Single(P.sigs \o Task.keys, Signer)
          /\ Holds(P.sigs \o Task.keys, Signer) => Holds(P.sigs, Signer)
      BY <2>1, <2>2, <3>2, SignedTwice
    <3> QED BY <1>2, <1>6, <2>2, <3>3, <3>4 DEF SignedFor, Signer
  <2>5. CASE /\ ok /\ Task.kind = "signAndExecute" /\ pc' = "exec" /\ UNCHANGED <<tasks, pending>>
    <3>1. ~P.executed BY <1>0, <1>1, <2>5 DEF PendingFresh, P
    <3>2. Signers \in Seq(STRING) /\ Single(Signers, Signer)
      <4>1. Signers \in Seq(STRING) BY RuntimeAssumption
      <4>2. \A j \in DOMAIN Signers : Signers[j] = Signer => j = 1 BY DEF AskedOnce, Signer
      <4> QED BY <4>1, <4>2 DEF Single
    <3>3. proposals'[Id].sigs = P.sigs \o Signers BY <1>3, <2>5 DEF Signed, Keys
    <3>4. Single(P.sigs \o Signers, Signer) BY <2>1, <2>2, <3>1, <3>2, SignedTwice
    <3>5. Id' = Id /\ (Task.kind)' = "signAndExecute" BY <2>5 DEF Id, Task
    <3>6. pc' \in OnProposal \ {"sign"} BY <2>5 DEF OnProposal
    <3> QED BY <1>6, <3>3, <3>4, <3>5, <3>6 DEF SignedFor, Signer
  <2> QED BY <1>3, <2>3, <2>4, <2>5
<1> QED BY <1>5, <1>6

\* Every step keeps what is signed.
LEMMA SignNext ==
  ASSUME AskedOnce, RunInv, SignInv, Next
  PROVE  SignInv'
<1>0. SignedOnce /\ TasksOfCall' /\ KeepsExecuted /\ RunInv'
  BY TasksSound, NextSound DEF SignInv
<1>1. CASE /\ pc \notin OnProposal \ {"sign"} /\ UNCHANGED broken /\ Ids \subseteq Ids'
           /\ \A i \in Ids : proposals'[i].sigs = proposals[i].sigs
           /\ \A i \in Ids' \ Ids : proposals'[i].sigs = << >>
  <2>1. \A i \in Ids : SignedFor(i) /\ Holds(proposals[i].sigs, Signer) => proposals[i].executed
    BY <1>1 DEF SignedFor
  <2>2. SignedOnce' BY <1>0, <1>1, <2>1, SignsNothing
  <2> QED BY <1>0, <2>2 DEF SignInv
<1>2. CASE \/ \E call \in Calls : Exec(call)
           \/ BeginChangesets \/ ApplyFails \/ ApplySimple \/ MergeParts \/ BeginProposals \/ Done
  <2>1. UNCHANGED <<proposals, broken>>
    BY <1>2 DEF Exec, BeginChangesets, ApplyFails, ApplySimple, MergeParts, BeginProposals, Done,
                state, chain, vars
  <2>2. pc \in {"idle", "task", "apply"}
    BY <1>2 DEF Exec, BeginChangesets, ApplyFails, ApplySimple, MergeParts, BeginProposals, Done
  <2>3. Ids' = Ids BY <2>1 DEF Ids
  <2>4. pc \notin OnProposal BY <2>2 DEF OnProposal, AtWork, OnTimelock
  <2> QED BY <1>1, <2>1, <2>3, <2>4
<1>3. CASE MergeChangesetOutput
  <2>1. PICK add, ok : Stores(add, ok) BY <1>3, StoresSound
  <2>2. StateType /\ ChainType BY DEF RunInv, StateInv
  <2>3. /\ Ids \subseteq Ids' /\ \A i \in Ids : proposals'[i] = proposals[i]
        /\ \A i \in Ids' \ Ids : proposals'[i] \in Fresh
    BY <2>1, <2>2, Appended
  <2>4. pc = "merge" /\ UNCHANGED broken BY <1>3 DEF MergeChangesetOutput
  <2>5. pc \notin OnProposal BY <2>4 DEF OnProposal, AtWork, OnTimelock
  <2> QED BY <1>1, <2>3, <2>4, <2>5 DEF Fresh
<1>4. CASE SignProposal BY <1>0, <1>4, SignsSound DEF SignInv
<1>5. CASE MarkProposalExecuted
  <2>1. /\ Ids' = Ids /\ Id \in Ids /\ UNCHANGED broken
        /\ \A j \in Ids : j # Id => proposals'[j] = proposals[j]
        /\ proposals'[Id].executed /\ proposals'[Id].sigs = P.sigs
    BY <1>5, MarkStep
  <2>2. \A i \in Ids : proposals'[i].sigs = proposals[i].sigs BY <2>1 DEF P
  <2>3. \A i \in Ids : SignedFor(i) /\ Holds(proposals[i].sigs, Signer) =>
          proposals[i].executed \/ proposals'[i].executed
    BY <2>1 DEF SignedFor
  <2>4. SignedOnce' BY <1>0, <2>1, <2>2, <2>3, SignsNothing
  <2> QED BY <1>0, <2>4 DEF SignInv
<1>6. CASE ExecStep
  <2>1. Executes /\ pc \in StepsOfExecution /\ UNCHANGED state BY <1>6, ExecSteps
  <2>2. proposals' = proposals /\ Ids' = Ids BY <2>1 DEF state, Ids
  <2>3. broken \subseteq broken' BY <2>1 DEF Executes, ExecFails
  <2>4. ASSUME NEW i \in Ids \ broken', SignedFor(i), Holds(proposals[i].sigs, Signer)
        PROVE  \/ proposals[i].executed
               \/ pc' \in OnProposal \ {"sign"} /\ (Task.kind)' = "signAndExecute" /\ i = Id'
    <3>1. CASE pc' \in AtWork /\ UNCHANGED <<tasks, pending, broken>>
      <4>1. Id' = Id /\ Task' = Task BY <3>1 DEF Id, Task
      <4>2. pc' \in OnProposal \ {"sign"} BY <3>1 DEF OnProposal, AtWork, OnTimelock
      <4> QED BY <2>4, <4>1, <4>2 DEF SignedFor
    <3>2. CASE ExecFails
      <4>1. i # Id BY <2>4, <3>2 DEF ExecFails
      <4> QED BY <2>4, <4>1 DEF SignedFor
    <3>3. CASE P.executed BY <2>4, <3>3 DEF SignedFor, P
    <3> QED BY <2>1, <3>1, <3>2, <3>3 DEF Executes
  <2>5. SignedOnce' BY <1>0, <2>2, <2>3, <2>4, SignsNothing
  <2> QED BY <1>0, <2>5 DEF SignInv
<1> QED BY <1>2, <1>3, <1>4, <1>5, <1>6 DEF Next, ExecStep

\* So do steps that change nothing.
LEMMA SignStutters ==
  ASSUME SignInv, UNCHANGED vars
  PROVE  SignInv'
<1>1. UNCHANGED <<proposals, broken, pc, tasks, pending>> BY DEF vars
<1>2. Ids' = Ids /\ Id' = Id /\ Task' = Task BY <1>1 DEF Ids, Id, Task
<1>3. TasksOfCall' BY <1>1 DEF SignInv, TasksOfCall
<1>4. SignedOnce' BY <1>1, <1>2 DEF SignInv, SignedOnce, SignedFor, Signer
<1> QED BY <1>3, <1>4 DEF SignInv

\* A proposal that is marked as executed took effect in all of its parts, whatever
\* failed on the way and was tried again; and SignAndExecuteProposalsTask signs a
\* proposal again only if its execution failed (executeProposals).
THEOREM ProposalsAreSound ==
  ASSUME AskedOnce
  PROVE  Spec => []ProposalsSound
<1>1. Init => SignInv
  <2> SUFFICES ASSUME Init PROVE SignInv OBVIOUS
  <2>1. tasks = << >> /\ proposals = << >> BY DEF Init
  <2> QED BY <2>1 DEF SignInv, TasksOfCall, SignedOnce, Ids
<1>2. RunInv /\ SignInv /\ [Next]_vars => SignInv' BY SignNext, SignStutters
<1>3. Spec => []SignInv BY <1>1, <1>2, Inductive, PTL DEF Spec
<1>4. RunInv /\ SignInv => ProposalsSound
  <2> SUFFICES ASSUME RunInv, SignInv PROVE ProposalsSound OBVIOUS
  <2>1. ExecutedDone BY DEF RunInv, StateInv
  <2>2. SignedAgainOnlyAfterFailure
    BY DEF SignInv, SignedOnce, SignedFor, Single, Signer, SignedAgainOnlyAfterFailure
  <2> QED BY <2>1, <2>2 DEF ProposalsSound
<1> QED BY <1>3, <1>4, Inductive, PTL

-----------------------------------------------------------------------------
(* The state: outputs, the environment, and the batches of proposals. *)

\* An output with its proposals after the first n is part of the state.
MergedAs(out, n) ==
  LET all == out.mcms \o out.timelock IN
  /\ out.book # None =>
       \A p \in Entries(out.book) :
         Standard(p) \in Places /\ book[Standard(p)] = out.book[p]
  /\ out.ds # None => out.ds \subseteq ds
  /\ n + Len(all) <= Len(proposals)
  /\ \A i \in 1..Len(all) : proposals[n + i].ops = all[i].ops

\* Every stored output is in the state.
MergedInv == \A o \in outputs : MergedAs(o.out, o.at)

\* Nothing is taken out of the state.
Grows ==
  /\ \A p \in Places : book[p] # None => book'[p] = book[p]
  /\ ds \subseteq ds' /\ Ids \subseteq Ids'
  /\ \A i \in Ids : proposals'[i].ops = proposals[i].ops

\* An output that is in the state stays in it.
LEMMA KeptMerged ==
  ASSUME StateType, StateType', Grows, NEW out \in Results, NEW n \in Nat, MergedAs(out, n)
  PROVE  MergedAs(out, n)'
<1> DEFINE all == out.mcms \o out.timelock
<1>1. all \in Seq(Fresh) /\ Len(all) \in Nat
  <2>1. all \in Seq(Fresh) BY StoredSound
  <2>2. \A q \in Seq(Fresh) : Len(q) \in Nat OBVIOUS
  <2> QED BY <2>1, <2>2, Zenon
<1>2. /\ out.book # None =>
           \A p \in Entries(out.book) : Standard(p) \in Places /\ book[Standard(p)] = out.book[p]
      /\ out.ds # None => out.ds \subseteq ds
      /\ n + Len(all) <= Len(proposals)
      /\ \A i \in 1..Len(all) : proposals[n + i].ops = all[i].ops
  BY DEF MergedAs
<1> HIDE DEF all
<1>3. ASSUME out.book # None, NEW p \in Entries(out.book)
      PROVE  Standard(p) \in Places /\ book'[Standard(p)] = out.book[p]
  <2>1. out.book[p] # None BY DEF Entries
  <2> QED BY <1>2, <1>3, <2>1 DEF Grows
<1>4. out.ds # None => out.ds \subseteq ds' BY <1>2 DEF Grows
<1>5. Len(proposals) \in Nat /\ Len(proposals') \in Nat /\ Len(proposals) <= Len(proposals')
  <2>1. /\ proposals \in Seq(StoredProposals) /\ proposals' \in Seq(StoredProposals)
        /\ DOMAIN proposals \subseteq DOMAIN proposals'
    BY DEF StateType, Grows, Ids
  <2>2. /\ DOMAIN proposals = 1..Len(proposals) /\ DOMAIN proposals' = 1..Len(proposals')
        /\ Len(proposals) \in Nat /\ Len(proposals') \in Nat
    BY <2>1
  <2>3. \A a, b \in Nat : 1..a \subseteq 1..b => a <= b
    <3> SUFFICES ASSUME NEW a \in Nat, NEW b \in Nat, 1..a \subseteq 1..b PROVE a <= b OBVIOUS
    <3>1. a = 0 \/ a \in 1..a OBVIOUS
    <3> QED BY <3>1
  <2> QED BY <2>1, <2>2, <2>3
<1>6. ASSUME NEW i \in 1..Len(all) PROVE proposals'[n + i].ops = all[i].ops
  <2>1. n + i \in Ids
    <3>1. n + i \in 1..Len(proposals) BY <1>1, <1>2, <1>5
    <3>2. Ids = 1..Len(proposals) BY DEF StateType, Ids
    <3> QED BY <3>1, <3>2
  <2> QED BY <1>2, <2>1 DEF Grows
<1>7. n + Len(all) <= Len(proposals') BY <1>1, <1>2, <1>5
<1> QED BY <1>3, <1>4, <1>6, <1>7 DEF MergedAs, all

\* The output that State.MergeChangesetOutput stores is in the state.
LEMMA NewMerged ==
  ASSUME StateType, ChainType, CallType, NEW add, NEW ok, ok, Stores(add, ok),
         NEW out, out = dest, NEW n, n = Len(proposals)
  PROVE  MergedAs(out, n)'
<1>1. /\ add = out.mcms \o out.timelock
      /\ out.ds # None => out.ds \subseteq ds'
      /\ out.book # None =>
           \A p \in Entries(out.book) : Standard(p) \in Places /\ book'[Standard(p)] = out.book[p]
      /\ add \in Seq(Fresh)
  BY Zenon DEF Stores
<1>2. /\ Len(proposals') = n + Len(add)
      /\ \A i \in 1..Len(add) : proposals'[n + i] = add[i]
  BY Appended
<1>3. n + Len(add) <= Len(proposals')
  <2>1. n \in Nat /\ Len(add) \in Nat
    <3>1. Len(proposals) \in Nat BY DEF StateType
    <3>2. \A q \in Seq(Fresh) : Len(q) \in Nat OBVIOUS
    <3>3. Len(add) \in Nat BY <1>1, <3>2, Zenon
    <3> QED BY <3>1, <3>3
  <2> QED BY <1>2, <2>1
<1> QED BY <1>1, <1>2, <1>3 DEF MergedAs

\* Every step leaves what is in the state, and stores one output at most.
LEMMA NextGrows ==
  ASSUME RunInv, Next
  PROVE  /\ Grows
         /\ \/ outputs' = outputs
            \/ \E add, ok : ok /\ Stores(add, ok) /\
                 outputs' = outputs \cup {[id |-> <<execs, Len(tasks), cs>>, out |-> dest,
                                           at |-> Len(proposals)]}
<1>1. CASE \/ \E call \in Calls : Exec(call)
           \/ BeginChangesets \/ ApplyFails \/ ApplySimple \/ BeginProposals \/ ExecStep \/ Done
  <2>1. UNCHANGED <<book, ds, proposals, outputs>>
    <3>1. ExecStep => UNCHANGED state BY ExecSteps
    <3> QED BY <1>1, <3>1 DEF Exec, BeginChangesets, ApplyFails, ApplySimple, BeginProposals, Done,
                              state, vars
  <2> QED BY <2>1 DEF Grows, Ids
<1>2. CASE MergeParts
  <2>1. /\ \A p \in Places : book[p] # None => book'[p] = book[p]
        /\ UNCHANGED <<ds, proposals, outputs>>
    BY <1>2, MergePartsEffect
  <2> QED BY <2>1 DEF Grows, Ids
<1>3. CASE MergeChangesetOutput
  <2>1. PICK add, ok : Stores(add, ok) BY <1>3, StoresSound
  <2>2. StateType /\ ChainType BY DEF RunInv, StateInv
  <2>3. Ids \subseteq Ids' /\ \A i \in Ids : proposals'[i] = proposals[i]
    BY <2>1, <2>2, Appended
  <2>4. Grows BY <2>1, <2>3 DEF Grows, Stores
  <2>5. /\ ok => outputs' = outputs \cup {[id |-> <<execs, Len(tasks), cs>>, out |-> dest,
                                           at |-> Len(proposals)]}
        /\ ~ok => outputs' = outputs
    BY <2>1, Zenon DEF Stores
  <2> QED BY <2>1, <2>4, <2>5
<1>4. CASE SignProposal
  <2>1. UNCHANGED <<book, ds, outputs>> BY <1>4 DEF SignProposal
  <2>2. PICK ok \in BOOLEAN :
          proposals' = [proposals EXCEPT ![Id].sigs = Signed(@, Keys, ok)]
    BY <1>4 DEF SignProposal
  <2>3. Ids' = Ids /\ \A i \in Ids : proposals'[i].ops = proposals[i].ops
    <3>1. proposals \in Seq(StoredProposals) BY DEF RunInv, StateInv, StateType
    <3> QED BY <2>2, <3>1 DEF Ids, StoredProposals
  <2> QED BY <2>1, <2>3 DEF Grows
<1>5. CASE MarkProposalExecuted
  <2>1. UNCHANGED <<book, ds, outputs>> BY <1>5 DEF MarkProposalExecuted
  <2>2. proposals' = [proposals EXCEPT ![Id].executed = TRUE] BY <1>5 DEF MarkProposalExecuted
  <2>3. Ids' = Ids /\ \A i \in Ids : proposals'[i].ops = proposals[i].ops
    <3>1. proposals \in Seq(StoredProposals) BY DEF RunInv, StateInv, StateType
    <3> QED BY <2>2, <3>1 DEF Ids, StoredProposals
  <2> QED BY <2>1, <2>3 DEF Grows
<1> QED BY <1>1, <1>2, <1>3, <1>4, <1>5 DEF Next, ExecStep

\* Every stored output is in the state after every step.
LEMMA MergedNext ==
  ASSUME RunInv, MergedInv, Next
  PROVE  MergedInv'
<1>0. StateType /\ StateType' /\ ChainType /\ CallType
  BY NextSound DEF RunInv, StateInv, TaskInv
<1>1. Grows BY NextGrows
<1>2. ASSUME NEW o \in outputs PROVE MergedAs(o.out, o.at)'
  <2>1. o.out \in Results /\ o.at \in Nat BY <1>0 DEF StateType
  <2>2. MergedAs(o.out, o.at) BY DEF MergedInv
  <2> QED BY <1>0, <1>1, <2>1, <2>2, KeptMerged
<1>3. CASE outputs' = outputs BY <1>2, <1>3 DEF MergedInv
<1>4. ASSUME NEW add, NEW ok, ok, Stores(add, ok),
             outputs' = outputs \cup {[id |-> <<execs, Len(tasks), cs>>, out |-> dest,
                                       at |-> Len(proposals)]}
      PROVE  MergedInv'
  <2>1. PICK out : out = dest OBVIOUS
  <2>2. PICK n : n = Len(proposals) OBVIOUS
  <2>3. MergedAs(out, n)' BY <1>0, <1>4, <2>1, <2>2, NewMerged
  <2>4. ASSUME NEW o \in outputs' PROVE MergedAs(o.out, o.at)'
    <3>1. CASE o \in outputs BY <1>2, <3>1
    <3>2. CASE o \notin outputs
      <4>1. o.out = out /\ o.at = n BY <1>4, <2>1, <2>2, <3>2
      <4> QED BY <2>3, <4>1
    <3> QED BY <3>1, <3>2
  <2> QED BY <2>4 DEF MergedInv
<1> QED BY <1>3, <1>4, NextGrows

\* How a step leaves the environment.
LEMMA EnvSteps ==
  ASSUME RunInv, Next
  PROVE  \/ Fail \/ Succeed
         \/ pc' \notin {"task", "idle", "apply"}
         \/ pc = "idle" /\ pc' \in {"idle", "task"} /\ UNCHANGED <<envDs, ds, dirty>>
         \/ pc = "task" /\ pc' = "apply" /\ cs' = 1
         \/ pc = "apply" /\ pc' = "apply" /\ UNCHANGED <<ds, cs, taskEnv>>
         \/ pc = "merge" /\ pc' = "apply" /\ taskEnv' = ds'
<1>1. CASE \E call \in Calls : Exec(call) BY <1>1 DEF Exec, state
<1>2. CASE BeginChangesets
  <2>1. pc = "task" => cs = 1 BY DEF RunInv, TaskInv, TaskSound
  <2> QED BY <1>2, <2>1 DEF BeginChangesets
<1>3. CASE ApplyFails \/ ApplySimple BY <1>3 DEF ApplyFails, ApplySimple
<1>4. CASE MergeParts
  <2>1. /\ pc = "apply" /\ UNCHANGED ds
        /\ \/ Fail
           \/ NextPart /\ UNCHANGED <<cs, taskEnv>>
    BY <1>4, MergePartsEffect
  <2> QED BY <2>1 DEF NextPart
<1>5. CASE MergeChangesetOutput
  <2>1. pc = "merge" BY <1>5 DEF MergeChangesetOutput
  <2>2. Fail \/ NextChangeset BY <1>5, Zenon DEF MergeChangesetOutput
  <2> QED BY <2>1, <2>2 DEF NextChangeset
<1>6. CASE BeginProposals BY <1>6 DEF BeginProposals
<1>7. CASE SignProposal
  <2>1. Fail \/ Succeed \/ pc' = "exec" BY <1>7 DEF SignProposal
  <2> QED BY <2>1
<1>8. CASE ExecStep
  <2>1. Executes BY <1>8, ExecSteps
  <2> QED BY <2>1 DEF Executes, ExecFails, AtWork, OnTimelock
<1>9. CASE MarkProposalExecuted BY <1>9 DEF MarkProposalExecuted
<1>10. CASE Done BY <1>10 DEF Done, vars
<1> QED BY <1>1, <1>2, <1>3, <1>4, <1>5, <1>6, <1>7, <1>8, <1>9, <1>10 DEF Next, ExecStep

\* Every step leaves the environment of the next task as new as the state.
LEMMA EnvNext ==
  ASSUME RunInv, EnvFresh, Next
  PROVE  EnvFresh'
<1>1. CASE Fail BY <1>1 DEF Fail, EnvFresh
<1>2. CASE Succeed BY <1>2 DEF Succeed, EnvFresh
<1>3. CASE ~Fail /\ ~Succeed BY <1>3, EnvSteps DEF EnvFresh
<1> QED BY <1>1, <1>2, <1>3

\* The invariant gives the types.
LEMMA RunType ==
  ASSUME RunInv
  PROVE  TypeOK
<1>0. /\ StateType /\ ChainType /\ CallType /\ TaskSound /\ Progress
  BY DEF RunInv, StateInv, TaskInv
<1>1. /\ book \in Book /\ (pc = "idle") = (tasks = << >>) /\ roots \subseteq Chains
      /\ Len(sent) = Len(proposals) /\ execs \in 0..MaxExecs
  BY <1>0 DEF StateType, ChainType, CallType
<1>2. pc \in {"idle", "task", "apply", "merge", "sign", "exec", "root", "op", "proxies",
              "ready", "timelock", "mark"}
  BY <1>0 DEF CallType, OnProposal, AtWork, OnTimelock
<1>3. ASSUME NEW i \in Ids
      PROVE  proposals[i].sigs \in Seq(STRING) /\ proposals[i].executed \in BOOLEAN
  <2>1. proposals[i] \in StoredProposals BY <1>0 DEF StateType, Ids
  <2> QED BY <2>1 DEF StoredProposals
<1>4. \A i \in 1..Len(pending) : pending[i] \in Ids
  <2>1. pending \in Seq(Nat) /\ \A i \in DOMAIN pending : pending[i] \in Ids BY <1>0 DEF CallType
  <2> QED BY <2>1
<1>5. pc \in {"op", "timelock"} => opIdx \in 1..Len(proposals[Head(pending)].ops)
  BY <1>0 DEF Progress, Reached, AtWork, OnTimelock, P, Id
<1> QED BY <1>1, <1>2, <1>3, <1>4, <1>5 DEF TypeOK

\* The specs of the part that is applied lose no transactions.
LEMMA BatchesSound ==
  ASSUME RunInv
  PROVE  BatchesKept
<1> SUFFICES ASSUME pc = "apply", NEW i \in 1..Len(Changeset.parts[part].specs)
             PROVE  BatchKept(Changeset.parts[part].specs[i])
  BY DEF BatchesKept, BatchKept
<1>1. CallType /\ TaskSound BY DEF RunInv, TaskInv
<1>2. Changeset.parts[part] \in Parts BY <1>1, OnChangeset
<1>3. Changeset.parts[part].specs \in Seq(Specs) BY <1>2, Zenon DEF Parts
<1>4. \A q \in Seq(Specs) : \A j \in 1..Len(q) : q[j] \in Specs OBVIOUS
<1>5. Changeset.parts[part].specs[i] \in Specs BY <1>3, <1>4
<1> QED BY <1>5, SpecKept

\* After any calls of Exec, failed ones included, the state has every output that
\* was stored, addresses, records and proposals (State.MergeChangesetOutput); the
\* next task and changeset see it (TestEngineRuntime.generateNewEnvironment); and
\* OutputBuilder neither drops nor reorders the transactions of a chain.
THEOREM StateIsSound == Spec => []StateSound
<1>1. Init => MergedInv /\ EnvFresh
  BY DEF Init, MergedInv, EnvFresh
<1>2. RunInv /\ MergedInv /\ EnvFresh /\ [Next]_vars => (MergedInv /\ EnvFresh)'
  <2>1. ASSUME UNCHANGED vars, MergedInv, EnvFresh PROVE MergedInv' /\ EnvFresh'
    BY <2>1 DEF vars, MergedInv, MergedAs, EnvFresh
  <2> QED BY <2>1, MergedNext, EnvNext
<1>3. RunInv /\ MergedInv /\ EnvFresh => StateSound
  <2> SUFFICES ASSUME RunInv, MergedInv, EnvFresh PROVE StateSound OBVIOUS
  <2>1. TypeOK BY RunType
  <2>2. OutputsMerged BY DEF MergedInv, MergedAs, OutputsMerged
  <2>3. BatchesKept BY BatchesSound
  <2> QED BY <2>1, <2>2, <2>3 DEF StateSound
<1> QED BY <1>1, <1>2, <1>3, Inductive, PTL DEF Spec

-----------------------------------------------------------------------------
(* The correction of delays. *)

\* A finite set of numbers has a greatest one.
LEMMA MaxOf ==
  ASSUME NEW S \in SUBSET Nat, IsFiniteSet(S), S # {}
  PROVE  Max(S) \in S /\ \A x \in S : Max(S) >= x
<1> DEFINE n == Cardinality(S)
<1>0. n \in Nat /\ ExistsBijection(1..n, S) BY FS_CardinalityType
<1> HIDE DEF n
<1>1. PICK f \in [1..n -> S] : \A x \in S : \E i \in 1..n : f[i] = x
  BY <1>0 DEF ExistsBijection, Bijection, Surjection
<1>2. n # 0 /\ \A i \in 1..n : f[i] \in Nat
  <2>1. PICK x \in S : TRUE OBVIOUS
  <2>2. PICK i \in 1..n : f[i] = x BY <1>1, <2>1
  <2>3. n # 0 BY <1>0, <2>2
  <2>4. \A j \in 1..n : f[j] \in S BY <1>1
  <2> QED BY <2>3, <2>4
<1> DEFINE Top(m, i) == i \in 1..n /\ \A j \in 1..m : f[j] <= f[i]
           Good == {m \in Nat : m <= n => m = 0 \/ \E i \in 1..n : Top(m, i)}
<1>3. 0 \in Good OBVIOUS
<1>4. ASSUME NEW m \in Nat, m \in Good PROVE m + 1 \in Good
  <2> SUFFICES ASSUME m + 1 <= n PROVE \E i \in 1..n : Top(m + 1, i) OBVIOUS
  <2>1. m + 1 \in 1..n /\ \A j \in 1..(m + 1) : j \in 1..m \/ j = m + 1 BY <1>0
  <2>2. CASE m = 0
    <3>1. Top(m + 1, m + 1) BY <1>2, <2>1, <2>2
    <3> QED BY <2>1, <3>1
  <2>3. CASE m # 0
    <3>1. m <= n BY <1>0
    <3>2. PICK i \in 1..n : Top(m, i) BY <1>4, <2>3, <3>1
    <3>3. f[i] \in Nat /\ f[m + 1] \in Nat BY <1>2, <2>1
    <3>4. \A j \in 1..m : f[j] \in Nat BY <1>0, <1>2, <3>1
    <3>5. CASE f[m + 1] <= f[i]
      <4>1. Top(m + 1, i) BY <2>1, <3>2, <3>5
      <4> QED BY <4>1
    <3>6. CASE f[i] <= f[m + 1]
      <4>1. \A j \in 1..m : f[j] <= f[m + 1] BY <3>2, <3>3, <3>4, <3>6
      <4>2. Top(m + 1, m + 1) BY <2>1, <3>3, <4>1
      <4> QED BY <2>1, <4>2
    <3> QED BY <3>3, <3>5, <3>6
  <2> QED BY <2>2, <2>3
<1> HIDE DEF Top
<1>5. n \in Good
  <2> HIDE DEF Good
  <2>1. Nat \subseteq Good BY <1>3, <1>4, NatSet
  <2> QED BY <1>0, <2>1
<1>6. PICK i \in 1..n : Top(n, i) BY <1>0, <1>2, <1>5
<1>7. f[i] \in S /\ f[i] \in Nat BY <1>1, <1>2
<1>8. ASSUME NEW x \in S PROVE f[i] >= x
  <2>1. PICK j \in 1..n : f[j] = x BY <1>1
  <2> QED BY <1>2, <1>6, <1>7, <2>1 DEF Top
<1>9. \E y \in S : \A x \in S : y >= x BY <1>7, <1>8
<1> QED BY <1>9, Zenon DEF Max

\* What the goroutine of a chain returns.
ReadResults == {<<Unread>>, <<Failed>>} \cup ({"delay"} \X Delays)

\* The delay of p, which was given as g, when its timelocks answered r.
Suffices(p, g, r) ==
  p.schedule =>
    /\ p.delay > 0 /\ p.delay >= g.delay
    /\ (\A s \in p.timelocks : r[s][1] = "delay") => \A s \in p.timelocks : p.delay >= r[s][2]

\* The correction changes nothing but delays.
DelayType ==
  /\ given \in Seq(DelayedProposals) /\ corrected \in Seq(DelayedProposals)
  /\ DOMAIN corrected = DOMAIN given /\ at \in Nat \ {0}
  /\ \A i \in DOMAIN given : /\ corrected[i].schedule = given[i].schedule
                             /\ corrected[i].timelocks = given[i].timelocks
                             /\ results[i] \in [given[i].timelocks -> ReadResults]
  /\ DOMAIN results = DOMAIN given

\* The proposals before the current one are corrected, the others untouched.
DelayInv ==
  /\ DelayType
  /\ \A i \in DOMAIN given :
       /\ i < at => Suffices(corrected[i], given[i], results[i])
       /\ ~(i < at) => corrected[i] = given[i]
  /\ dout = "nil" => at > Len(corrected)

\* Nothing is read or corrected at first.
LEMMA DelayStart ==
  ASSUME DelayInit(Batches)
  PROVE  DelayInv
<1>1. /\ given \in Batches /\ corrected = given /\ at = 1 /\ dout = "none"
      /\ results = [i \in DOMAIN given |-> [s \in given[i].timelocks |-> <<Unread>>]]
  BY DEF DelayInit
<1>2. given \in Seq(DelayedProposals) BY <1>1, DelayAssumption, Zenon
<1>3. \A i \in DOMAIN given : results[i] \in [given[i].timelocks -> ReadResults]
  BY <1>1 DEF ReadResults
<1>4. DelayType BY <1>1, <1>2, <1>3 DEF DelayType
<1>5. \A i \in DOMAIN given : ~(i < at)
  <2>1. \A i \in DOMAIN given : i \in Nat /\ i >= 1 BY <1>2
  <2> QED BY <1>1, <2>1
<1> QED BY <1>1, <1>4, <1>5 DEF DelayInv

\* What ReadDelay changes is only about the current proposal.
LEMMA ReadKeeps ==
  ASSUME DelayInv, Working, NEW s \in TimelocksOf(Cur), ReadDelay(s)
  PROVE  DelayInv'
<1>0. /\ DelayType /\ UNCHANGED <<given, corrected, at, dout>>
      /\ dout = "none" /\ at <= Len(corrected)
  BY DEF DelayInv, ReadDelay, Working
<1>1. PICK x \in ReadResults : results' = [results EXCEPT ![at][s] = x]
  <2>1. PICK v \in Delays \cup {TooLong} :
          \/ results' = [results EXCEPT ![at][s] = <<Failed>>]
          \/ v # TooLong /\ results' = [results EXCEPT ![at][s] = <<"delay", v>>]
    BY DEF ReadDelay
  <2>2. <<Failed>> \in ReadResults BY DEF ReadResults
  <2>3. v # TooLong => <<"delay", v>> \in ReadResults BY <2>1 DEF ReadResults
  <2> QED BY <2>1, <2>2, <2>3
<1>2. \A i \in DOMAIN given : i # at => results'[i] = results[i]
  BY <1>0, <1>1 DEF DelayType
<1>3. \A i \in DOMAIN given : results'[i] \in [given[i].timelocks -> ReadResults]
  BY <1>0, <1>1 DEF DelayType
<1>4. DelayType' BY <1>0, <1>1, <1>3 DEF DelayType
<1>5. ASSUME NEW i \in DOMAIN given
      PROVE  /\ i < at => Suffices(corrected[i], given[i], results'[i])
             /\ ~(i < at) => corrected[i] = given[i]
  <2>1. i \in Nat /\ at \in Nat BY <1>0 DEF DelayType
  <2>2. i < at => i # at BY <2>1
  <2> QED BY <1>2, <2>2 DEF DelayInv
<1> QED BY <1>0, <1>4, <1>5 DEF DelayInv

\* The greatest delay that is required, when all of them were read.
LEMMA MaxMinSound ==
  ASSUME DelayInv, Working, \A s \in TimelocksOf(Cur) : results[at][s][1] = "delay"
  PROVE  /\ MaxMinDelay \in Nat
         /\ \A s \in TimelocksOf(Cur) : MaxMinDelay >= results[at][s][2]
<1> DEFINE T == TimelocksOf(Cur)
           v(s) == results[at][s][2]
           f == [s \in T |-> v(s)]
           R == {v(s) : s \in T}
<1>0. /\ DelayType /\ at \in DOMAIN given /\ Cur \in DelayedProposals
      /\ results[at] \in [given[at].timelocks -> ReadResults]
      /\ Cur.timelocks = given[at].timelocks
  BY DEF DelayInv, DelayType, Working, Cur
<1>1. T \in SUBSET Timelocks /\ T \subseteq given[at].timelocks
  BY <1>0 DEF TimelocksOf, DelayedProposals
<1>2. ASSUME NEW s \in T PROVE v(s) \in Nat
  <2>1. results[at][s] \in ReadResults /\ results[at][s][1] = "delay" BY <1>0, <1>1
  <2>2. results[at][s] \in {"delay"} \X Delays BY <2>1 DEF ReadResults, Unread, Failed
  <2>3. v(s) \in Delays BY <2>2
  <2> QED BY <2>3, DelayAssumption
<1> HIDE DEF v
<1>3. IsFiniteSet({0} \cup R)
  <2>1. IsFiniteSet(T) BY <1>1, DelayAssumption, FS_Subset
  <2>2. f \in Surjection(T, R) BY DEF Surjection
  <2>3. IsFiniteSet(R) BY <2>1, <2>2, FS_Surjection
  <2>4. IsFiniteSet({0}) BY FS_Singleton
  <2> QED BY <2>3, <2>4, FS_Union
<1>4. R \subseteq Nat BY <1>2
<1>5. MaxMinDelay = Max({0} \cup R) BY DEF MaxMinDelay, v
<1> DEFINE S == {0} \cup R
<1>6. S \in SUBSET Nat /\ S # {} /\ IsFiniteSet(S) BY <1>3, <1>4
<1>7. \A s \in T : v(s) \in S OBVIOUS
<1> HIDE DEF S, R, f
<1>8. Max(S) \in S /\ \A x \in S : Max(S) >= x BY <1>6, MaxOf
<1> QED BY <1>5, <1>6, <1>7, <1>8 DEF v, S

\* A correction that returns moves on to the next proposal, or ends the whole.
LEMMA CorrectionSound ==
  ASSUME DelayInv, Working, NEW err \in BOOLEAN, Returned(err), NEW d \in Nat,
         corrected' = [corrected EXCEPT ![at].delay = d],
         err => d = Cur.delay,
         ~err => Suffices([Cur EXCEPT !.delay = d], Cur, results[at])
  PROVE  DelayInv'
<1> DEFINE q == [Cur EXCEPT !.delay = d]
<1>0. /\ DelayType /\ at \in DOMAIN given /\ Cur \in DelayedProposals /\ at \in Nat \ {0}
      /\ UNCHANGED <<given, results, cancelled>> /\ dout = "none"
      /\ Cur = given[at] /\ corrected \in Seq(DelayedProposals)
  BY DEF DelayInv, DelayType, Working, Cur, Returned
<1>1. q \in DelayedProposals /\ q.schedule = Cur.schedule /\ q.timelocks = Cur.timelocks
  BY <1>0 DEF DelayedProposals
<1>2. d = Cur.delay => q = Cur BY <1>0 DEF DelayedProposals
<1>3. corrected' = [corrected EXCEPT ![at] = q] BY DEF Cur
<1> HIDE DEF q
<1>4. /\ corrected' \in Seq(DelayedProposals) /\ DOMAIN corrected' = DOMAIN corrected
      /\ Len(corrected') = Len(corrected) /\ at \in DOMAIN corrected /\ corrected'[at] = q
      /\ \A i \in DOMAIN corrected : i # at => corrected'[i] = corrected[i]
  <2>1. at \in DOMAIN corrected BY <1>0 DEF DelayType
  <2> QED BY <1>0, <1>1, <1>3, <2>1
<1>5. \A i \in DOMAIN given : /\ corrected'[i].schedule = given[i].schedule
                              /\ corrected'[i].timelocks = given[i].timelocks
  BY <1>0, <1>1, <1>4 DEF DelayType
<1>6. /\ at' \in Nat \ {0} /\ (err => at' = at /\ dout' = "error")
      /\ (~err => at' = at + 1 /\ dout' = dout)
  BY <1>0 DEF Returned
<1>7. DelayType' BY <1>0, <1>4, <1>5, <1>6 DEF DelayType
<1>8. ASSUME NEW i \in DOMAIN given
      PROVE  /\ i < at' => Suffices(corrected'[i], given[i], results[i])
             /\ ~(i < at') => corrected'[i] = given[i]
  <2>0. i \in Nat /\ i \in DOMAIN corrected BY <1>0 DEF DelayType
  <2>1. /\ i < at => Suffices(corrected[i], given[i], results[i])
        /\ ~(i < at) => corrected[i] = given[i]
    BY DEF DelayInv
  <2>2. CASE i = at
    <3>1. corrected'[i] = q /\ given[i] = Cur BY <1>0, <1>4, <2>2
    <3>2. err => ~(i < at') /\ q = Cur BY <1>2, <1>6, <2>0, <2>2
    <3>3. ~err => i < at' /\ Suffices(q, Cur, results[at]) BY <1>6, <2>0, <2>2 DEF q
    <3>4. err \/ ~err OBVIOUS
    <3> QED BY <2>2, <3>1, <3>2, <3>3, <3>4
  <2>3. CASE i # at
    <3>1. corrected'[i] = corrected[i] BY <1>4, <2>0, <2>3
    <3>2. i < at' <=> i < at BY <1>0, <1>6, <2>0, <2>3
    <3> QED BY <2>1, <3>1, <3>2
  <2> QED BY <2>2, <2>3
<1>9. dout' # "nil" BY <1>0, <1>6
<1> QED BY <1>0, <1>7, <1>8, <1>9 DEF DelayInv

\* Every step of the correction keeps the invariant.
LEMMA DelayStep ==
  ASSUME DelayInv, DelayNext
  PROVE  DelayInv'
<1>1. CASE Working /\ \E s \in TimelocksOf(Cur) : ReadDelay(s) BY <1>1, ReadKeeps
<1>2. CASE Cancel
  <2>1. UNCHANGED <<given, corrected, at, results, dout>> BY <1>2 DEF Cancel
  <2> QED BY <2>1 DEF DelayInv, DelayType
<1>3. CASE AllCorrected
  <2>1. UNCHANGED <<given, corrected, at, results>> /\ at > Len(corrected)
    BY <1>3 DEF AllCorrected
  <2> QED BY <2>1 DEF DelayInv, DelayType
<1>4. ASSUME Working
      PROVE  /\ Cur \in DelayedProposals /\ Cur.delay \in Nat
             /\ corrected = [corrected EXCEPT ![at].delay = Cur.delay]
             /\ [Cur EXCEPT !.delay = Cur.delay] = Cur
             /\ results[at] \in [Cur.timelocks -> ReadResults]
  <2>1. /\ corrected \in Seq(DelayedProposals) /\ at \in DOMAIN corrected
        /\ results[at] \in [Cur.timelocks -> ReadResults]
    BY <1>4 DEF DelayInv, DelayType, Working, Cur
  <2>2. Cur \in DelayedProposals BY <2>1 DEF Cur
  <2>3. Cur.delay \in Nat /\ [Cur EXCEPT !.delay = Cur.delay] = Cur
    BY <2>2 DEF DelayedProposals
  <2>4. \A S : \A q \in Seq(S) : \A i \in DOMAIN q : q = [q EXCEPT ![i] = q[i]] OBVIOUS
  <2>5. corrected = [corrected EXCEPT ![at] = Cur] BY <2>1, <2>4, Zenon DEF Cur
  <2>6. corrected = [corrected EXCEPT ![at] = [Cur EXCEPT !.delay = Cur.delay]] BY <2>3, <2>5
  <2> QED BY <2>1, <2>2, <2>3, <2>6 DEF Cur
<1>5. CASE Nothing
  <2>1. /\ Working /\ TimelocksOf(Cur) = {} /\ Returned(Cur.schedule /\ Cur.delay = 0)
        /\ corrected' = corrected
    BY <1>5 DEF Nothing
  <2>2. ~(Cur.schedule /\ Cur.delay = 0) => Suffices(Cur, Cur, results[at])
    <3>1. Cur.delay \in Nat BY <1>4, <2>1
    <3> QED BY <2>1, <3>1 DEF Suffices, TimelocksOf
  <2> QED BY <1>4, <2>1, <2>2, CorrectionSound
<1>6. CASE Correct
  <2>0. /\ Working /\ TimelocksOf(Cur) # {}
        /\ \A s \in TimelocksOf(Cur) : results[at][s] # <<Unread>>
    BY <1>6 DEF Correct
  <2>1. /\ Cur.schedule /\ TimelocksOf(Cur) = Cur.timelocks /\ Cur.delay \in Nat
        /\ results[at] \in [Cur.timelocks -> ReadResults]
    BY <1>4, <2>0 DEF TimelocksOf
  <2> DEFINE Bad == cancelled \/ \E s \in TimelocksOf(Cur) : results[at][s] = <<Failed>>
  <2>2. CASE Bad
    <3>1. Returned(cancelled \/ Cur.delay = 0) /\ corrected' = corrected
      BY <1>6, <2>2 DEF Correct
    <3>2. ~(cancelled \/ Cur.delay = 0) => Suffices(Cur, Cur, results[at])
      <4> SUFFICES ASSUME ~cancelled, Cur.delay # 0 PROVE Suffices(Cur, Cur, results[at])
        OBVIOUS
      <4>1. PICK s \in Cur.timelocks : results[at][s] = <<Failed>> BY <2>1, <2>2
      <4>2. results[at][s][1] # "delay" BY <4>1 DEF Failed
      <4> QED BY <2>1, <4>2 DEF Suffices
    <3> QED BY <1>4, <2>0, <3>1, <3>2, CorrectionSound
  <2>3. CASE ~Bad
    <3>1. \A s \in TimelocksOf(Cur) : results[at][s][1] = "delay"
      BY <2>0, <2>1, <2>3 DEF ReadResults
    <3>2. /\ MaxMinDelay \in Nat
          /\ \A s \in TimelocksOf(Cur) : MaxMinDelay >= results[at][s][2]
      BY <2>0, <3>1, MaxMinSound
    <3>3. CASE Cur.delay = 0 /\ MaxMinDelay = 0
      <4>1. Returned(TRUE) /\ corrected' = corrected BY <1>6, <2>3, <3>3 DEF Correct
      <4> QED BY <1>4, <2>0, <4>1, CorrectionSound
    <3>4. CASE ~(Cur.delay = 0 /\ MaxMinDelay = 0)
      <4>1. /\ corrected' = [corrected EXCEPT ![at].delay = Max({@, MaxMinDelay})]
            /\ Returned(FALSE)
        BY <1>6, <2>3, <3>4 DEF Correct
      <4>2. PICK d : d = Max({Cur.delay, MaxMinDelay}) OBVIOUS
      <4>3. d \in Nat /\ d >= Cur.delay /\ d >= MaxMinDelay
        <5>1. {Cur.delay, MaxMinDelay} \in SUBSET Nat BY <2>1, <3>2
        <5>2. \E x \in {Cur.delay, MaxMinDelay} : \A y \in {Cur.delay, MaxMinDelay} : x >= y
          BY <2>1, <3>2
        <5>3. /\ d \in {Cur.delay, MaxMinDelay}
              /\ \A y \in {Cur.delay, MaxMinDelay} : d >= y
          BY <4>2, <5>2, Zenon DEF Max
        <5> QED BY <5>1, <5>3
      <4>4. corrected' = [corrected EXCEPT ![at].delay = d] BY <4>1, <4>2 DEF Cur
      <4>5. Suffices([Cur EXCEPT !.delay = d], Cur, results[at])
        <5> DEFINE q == [Cur EXCEPT !.delay = d]
        <5>1. q.schedule = Cur.schedule /\ q.timelocks = Cur.timelocks /\ q.delay = d
          BY <1>4, <2>0 DEF DelayedProposals
        <5> HIDE DEF q
        <5>2. d > 0 BY <2>1, <3>2, <3>4, <4>3
        <5>3. ASSUME NEW s \in Cur.timelocks PROVE d >= results[at][s][2]
          <6>1. MaxMinDelay >= results[at][s][2] /\ results[at][s][2] \in Nat
            <7>1. results[at][s] \in ReadResults /\ results[at][s][1] = "delay" BY <2>1, <3>1
            <7>2. results[at][s] \in {"delay"} \X Delays BY <7>1 DEF ReadResults, Unread, Failed
            <7>3. results[at][s][2] \in Delays BY <7>2
            <7> QED BY <2>1, <3>2, <7>3, DelayAssumption
          <6> QED BY <3>2, <4>3, <6>1
        <5>4. Suffices(q, Cur, results[at]) BY <4>3, <5>1, <5>2, <5>3 DEF Suffices
        <5> QED BY <5>4 DEF q
      <4> QED BY <2>0, <4>1, <4>3, <4>4, <4>5, CorrectionSound
    <3> QED BY <3>3, <3>4
  <2> QED BY <2>2, <2>3
<1> QED BY <1>1, <1>2, <1>3, <1>5, <1>6 DEF DelayNext

\* However the timelocks answer, in any order, and whenever the command is cancelled:
\* a correction that returns no error leaves no scheduled proposal without a delay,
\* lowers none, and satisfies every timelock if all could be read.
THEOREM DelaysAreEnough == DelayInit(Batches) /\ [][DelayNext]_delayVars => []DelayEnough
<1>1. DelayInit(Batches) => DelayInv BY DelayStart
<1>2. DelayInv /\ [DelayNext]_delayVars => DelayInv'
  <2>1. ASSUME DelayInv, UNCHANGED delayVars PROVE DelayInv'
    BY <2>1 DEF delayVars, DelayInv, DelayType
  <2> QED BY <2>1, DelayStep
<1>3. DelayInv => DelayEnough
  <2> SUFFICES ASSUME DelayInv, dout = "nil", NEW i \in DOMAIN corrected
               PROVE  Suffices(corrected[i], given[i], results[i])
    BY DEF DelayEnough, Suffices
  <2>1. i \in DOMAIN given /\ i < at
    <3>1. corrected \in Seq(DelayedProposals) /\ DOMAIN corrected = DOMAIN given /\ at \in Nat
      BY DEF DelayInv, DelayType
    <3>2. at > Len(corrected) BY DEF DelayInv
    <3> QED BY <3>1, <3>2
  <2> QED BY <2>1 DEF DelayInv
<1> QED BY <1>1, <1>2, <1>3, PTL

-----------------------------------------------------------------------------
(* Sums over finite sets.                                                  *)

Some(T) == CHOOSE x \in T : TRUE
\* What g has for T if it adds up f over the subsets of a set.
AddsAt(g, f, T) == g[T] = IF T = {} THEN 0 ELSE f[Some(T)] + g[T \ {Some(T)}]

\* A function that adds up f exists.
LEMMA SumExists ==
  ASSUME NEW f, NEW S, IsFiniteSet(S), \A x \in S : f[x] \in Nat
  PROVE  \E g \in [SUBSET S -> Nat] : \A T \in SUBSET S : AddsAt(g, f, T)
<1> DEFINE Upto(g, n) == /\ g \in [SUBSET S -> Nat]
                         /\ \A T \in SUBSET S : Cardinality(T) <= n => AddsAt(g, f, T)
           N == {n \in Nat : \E g : Upto(g, n)}
<1>0. \A T \in SUBSET S : IsFiniteSet(T) /\ Cardinality(T) \in Nat
  BY FS_Subset, FS_CardinalityType
<1>1. 0 \in N
  <2>1. Upto([T \in SUBSET S |-> 0], 0)
    <3>1. ASSUME NEW T \in SUBSET S, Cardinality(T) <= 0 PROVE T = {}
      BY <1>0, <3>1, FS_EmptySet
    <3> QED BY <3>1 DEF AddsAt
  <2> QED BY <2>1
<1>2. ASSUME NEW n \in Nat, n \in N PROVE n + 1 \in N
  <2>1. PICK g : Upto(g, n) BY <1>2
  <2> DEFINE h == [T \in SUBSET S |-> IF T = {} THEN 0 ELSE f[Some(T)] + g[T \ {Some(T)}]]
  <2>2. h \in [SUBSET S -> Nat]
    <3>1. ASSUME NEW T \in SUBSET S, T # {} PROVE f[Some(T)] + g[T \ {Some(T)}] \in Nat
      <4>1. Some(T) \in T BY <3>1 DEF Some
      <4>2. T \ {Some(T)} \in SUBSET S OBVIOUS
      <4>3. f[Some(T)] \in Nat /\ g[T \ {Some(T)}] \in Nat BY <2>1, <4>1, <4>2
      <4> QED BY <4>3
    <3> QED BY <3>1
  <2>3. ASSUME NEW T \in SUBSET S, Cardinality(T) <= n PROVE h[T] = g[T]
    BY <2>1, <2>3 DEF AddsAt
  <2>4. ASSUME NEW T \in SUBSET S, Cardinality(T) <= n + 1 PROVE AddsAt(h, f, T)
    <3>1. CASE T = {} BY <3>1 DEF AddsAt
    <3>2. CASE T # {}
      <4> DEFINE U == T \ {Some(T)}
      <4>1. Some(T) \in T BY <3>2 DEF Some
      <4>2. Cardinality(U) = Cardinality(T) - 1 BY <1>0, <4>1, FS_RemoveElement
      <4>3. U \in SUBSET S /\ Cardinality(U) <= n BY <1>0, <2>4, <4>2
      <4>4. h[U] = g[U] BY <2>3, <4>3
      <4> QED BY <3>2, <4>4 DEF AddsAt
    <3> QED BY <3>1, <3>2
  <2> HIDE DEF h
  <2>5. Upto(h, n + 1) BY <2>2, <2>4
  <2> QED BY <2>5
<1> HIDE DEF N
<1>3. Cardinality(S) \in N BY <1>0, <1>1, <1>2, NatSet
<1>4. PICK g : Upto(g, Cardinality(S)) BY <1>3 DEF N
<1>5. \A T \in SUBSET S : Cardinality(T) <= Cardinality(S) BY FS_Subset
<1> QED BY <1>4, <1>5

\* Two functions that add up the same values agree.
LEMMA SumUnique ==
  ASSUME NEW f, NEW g, NEW d, NEW e, NEW S, IsFiniteSet(S), \A x \in S : d[x] = e[x],
         \A T \in SUBSET S : AddsAt(f, d, T), \A T \in SUBSET S : AddsAt(g, e, T)
  PROVE  \A T \in SUBSET S : f[T] = g[T]
<1> DEFINE N == {n \in Nat : \A T \in SUBSET S : Cardinality(T) = n => f[T] = g[T]}
<1>0. \A T \in SUBSET S : IsFiniteSet(T) /\ Cardinality(T) \in Nat
  BY FS_Subset, FS_CardinalityType
<1>1. 0 \in N
  <2>1. ASSUME NEW T \in SUBSET S, Cardinality(T) = 0 PROVE f[T] = g[T]
    <3>1. T = {} BY <1>0, <2>1, FS_EmptySet
    <3> QED BY <3>1 DEF AddsAt
  <2> QED BY <2>1
<1>2. ASSUME NEW n \in Nat, n \in N PROVE n + 1 \in N
  <2>1. ASSUME NEW T \in SUBSET S, Cardinality(T) = n + 1 PROVE f[T] = g[T]
    <3> DEFINE U == T \ {Some(T)}
    <3>1. T # {} BY <2>1, FS_EmptySet
    <3>2. Some(T) \in T BY <3>1 DEF Some
    <3>3. Cardinality(U) = n
      <4>1. IsFiniteSet(T) BY <1>0
      <4>2. Cardinality(U) = Cardinality(T) - 1 BY <3>2, <4>1, FS_RemoveElement
      <4> QED BY <2>1, <4>2
    <3>4. U \in SUBSET S OBVIOUS
    <3>5. f[U] = g[U] BY <1>2, <3>3, <3>4
    <3>6. f[T] = d[Some(T)] + f[U] /\ g[T] = e[Some(T)] + g[U] BY <3>1 DEF AddsAt
    <3> QED BY <3>2, <3>5, <3>6
  <2> QED BY <2>1
<1> HIDE DEF N
<1>3. Nat \subseteq N BY <1>1, <1>2, NatSet
<1> QED BY <1>0, <1>3 DEF N

\* The sum is what such a function has for the whole set.
LEMMA SumIs ==
  ASSUME NEW f, NEW S, IsFiniteSet(S), \A x \in S : f[x] \in Nat
  PROVE  \E g \in [SUBSET S -> Nat] :
           /\ \A T \in SUBSET S : AddsAt(g, f, T)
           /\ SumFunctionOnSet(f, S) = g[S]
<1> DEFINE F(g) == [T \in SUBSET S |-> IF T = {} THEN 0
                      ELSE LET x == CHOOSE y \in T : TRUE IN f[x] + g[T \ {x}]]
           it == CHOOSE g : g = F(g)
<1>1. SumFunctionOnSet(f, S) = it[S]
  BY DEF SumFunctionOnSet, FoldFunctionOnSet, MapThenFoldSet
<1>2. PICK g \in [SUBSET S -> Nat] : \A T \in SUBSET S : AddsAt(g, f, T)
  BY SumExists
<1>3. g = F(g) BY <1>2 DEF AddsAt, Some
<1> HIDE DEF F
<1>4. it = F(it) BY <1>3, Zenon
<1> DEFINE G == [T \in SUBSET S |-> it[T]]
<1>5. \A T \in SUBSET S : it[T] = IF T = {} THEN 0
        ELSE LET x == CHOOSE y \in T : TRUE IN f[x] + it[T \ {x}]
  <2>1. \A T \in SUBSET S : F(it)[T] = IF T = {} THEN 0
          ELSE LET x == CHOOSE y \in T : TRUE IN f[x] + it[T \ {x}]
    BY DEF F
  <2> HIDE DEF it
  <2> QED BY <1>4, <2>1
<1> HIDE DEF it
<1>6. \A T \in SUBSET S : AddsAt(it, f, T) BY <1>5 DEF AddsAt, Some
<1>7. \A T \in SUBSET S : it[T] = g[T]
  BY <1>2, <1>6, SumUnique
<1> QED BY <1>1, <1>2, <1>7

\* A sum over no elements, and its type.
LEMMA SumType ==
  ASSUME NEW f, NEW S, IsFiniteSet(S), \A x \in S : f[x] \in Nat
  PROVE  SumFunctionOnSet(f, S) \in Nat /\ (S = {} => SumFunctionOnSet(f, S) = 0)
<1>1. PICK g \in [SUBSET S -> Nat] :
        /\ \A T \in SUBSET S : AddsAt(g, f, T)
        /\ SumFunctionOnSet(f, S) = g[S]
  BY SumIs
<1>2. S \in SUBSET S OBVIOUS
<1>3. g[S] \in Nat BY <1>1, <1>2
<1>4. S = {} => g[S] = 0 BY <1>1, <1>2 DEF AddsAt
<1> QED BY <1>1, <1>3, <1>4

\* Sums of the same values are equal.
LEMMA SumSame ==
  ASSUME NEW f, NEW g, NEW S, IsFiniteSet(S), \A x \in S : f[x] \in Nat /\ f[x] = g[x]
  PROVE  SumFunctionOnSet(f, S) = SumFunctionOnSet(g, S)
<1>1. PICK a : (\A T \in SUBSET S : AddsAt(a, f, T)) /\ SumFunctionOnSet(f, S) = a[S]
  BY SumIs
<1>2. \A x \in S : g[x] \in Nat OBVIOUS
<1>3. PICK b : (\A T \in SUBSET S : AddsAt(b, g, T)) /\ SumFunctionOnSet(g, S) = b[S]
  BY <1>2, SumIs
<1>4. \A T \in SUBSET S : a[T] = b[T] BY <1>1, <1>3, SumUnique
<1> QED BY <1>1, <1>3, <1>4

\* An element may be taken out of a sum.
LEMMA SumWithout ==
  ASSUME NEW f, NEW S, NEW x \in S, IsFiniteSet(S), \A y \in S : f[y] \in Nat
  PROVE  SumFunctionOnSet(f, S) = f[x] + SumFunctionOnSet(f, S \ {x})
<1>1. PICK g \in [SUBSET S -> Nat] :
        /\ \A T \in SUBSET S : AddsAt(g, f, T)
        /\ SumFunctionOnSet(f, S) = g[S]
  BY SumIs
<1> DEFINE N == {n \in Nat : \A T \in SUBSET S : Cardinality(T) = n =>
                               \A y \in T : g[T] = f[y] + g[T \ {y}]}
<1>0. \A T \in SUBSET S : IsFiniteSet(T) /\ Cardinality(T) \in Nat
  BY FS_Subset, FS_CardinalityType
<1>2. 0 \in N
  <2>1. \A T \in SUBSET S : Cardinality(T) = 0 => T = {} BY <1>0, FS_EmptySet
  <2> QED BY <2>1
<1>3. ASSUME NEW n \in Nat, n \in N PROVE n + 1 \in N
  <2>1. ASSUME NEW T \in SUBSET S, Cardinality(T) = n + 1, NEW y \in T
        PROVE  g[T] = f[y] + g[T \ {y}]
    <3> DEFINE c == Some(T)
    <3>1. c \in T BY DEF Some
    <3>2. g[T] = f[c] + g[T \ {c}] BY <1>1, <3>1 DEF AddsAt
    <3> HIDE DEF c
    <3>3. CASE c = y BY <3>2, <3>3
    <3>4. CASE c # y
      <4>1. Cardinality(T \ {c}) = n /\ Cardinality(T \ {y}) = n
        <5>1. IsFiniteSet(T) /\ c \in T /\ y \in T BY <1>0, <3>1
        <5>2. /\ Cardinality(T \ {c}) = Cardinality(T) - 1
              /\ Cardinality(T \ {y}) = Cardinality(T) - 1
          BY <5>1, FS_RemoveElement
        <5> QED BY <2>1, <5>2
      <4>2. T \ {c} \in SUBSET S /\ T \ {y} \in SUBSET S /\ y \in T \ {c} /\ c \in T \ {y}
        BY <3>1, <3>4
      <4>3. g[T \ {c}] = f[y] + g[(T \ {c}) \ {y}] BY <1>3, <4>1, <4>2
      <4>4. g[T \ {y}] = f[c] + g[(T \ {y}) \ {c}] BY <1>3, <4>1, <4>2
      <4>5. (T \ {c}) \ {y} = (T \ {y}) \ {c} OBVIOUS
      <4>6. f[y] \in Nat /\ f[c] \in Nat BY <3>1
      <4>7. (T \ {y}) \ {c} \in SUBSET S OBVIOUS
      <4>8. g[(T \ {y}) \ {c}] \in Nat BY <1>1, <4>7
      <4>9. PICK r \in Nat : r = g[(T \ {y}) \ {c}] BY <4>8
      <4>10. g[T \ {c}] = f[y] + r /\ g[T \ {y}] = f[c] + r BY <4>3, <4>4, <4>5, <4>9
      <4> QED BY <3>2, <4>6, <4>10
    <3> QED BY <3>3, <3>4
  <2> QED BY <2>1
<1> HIDE DEF N
<1>4. Cardinality(S) \in N BY <1>0, <1>2, <1>3, NatSet
<1>5. g[S] = f[x] + g[S \ {x}]
  <2>1. S \in SUBSET S OBVIOUS
  <2> QED BY <1>4, <2>1 DEF N
<1>6. g[S \ {x}] = SumFunctionOnSet(f, S \ {x})
  <2> DEFINE R == S \ {x}
  <2>1. IsFiniteSet(R) /\ \A y \in R : f[y] \in Nat BY FS_RemoveElement
  <2>2. PICK h : (\A T \in SUBSET R : AddsAt(h, f, T)) /\ SumFunctionOnSet(f, R) = h[R]
    BY <2>1, SumIs
  <2>3. \A T \in SUBSET R : AddsAt(g, f, T) BY <1>1
  <2> HIDE DEF R
  <2>4. \A T \in SUBSET R : g[T] = h[T] BY <2>1, <2>2, <2>3, SumUnique
  <2>5. R \in SUBSET R OBVIOUS
  <2> QED BY <2>2, <2>4, <2>5 DEF R
<1> QED BY <1>1, <1>5, <1>6

\* The same for the parts of a set.
LEMMA SumParts ==
  ASSUME NEW f, NEW S, IsFiniteSet(S), \A x \in S : f[x] \in Nat
  PROVE  \A T \in SUBSET S :
           /\ SumFunctionOnSet(f, T) \in Nat
           /\ \A x \in T : SumFunctionOnSet(f, T) = f[x] + SumFunctionOnSet(f, T \ {x})
<1> SUFFICES ASSUME NEW T \in SUBSET S
             PROVE  /\ SumFunctionOnSet(f, T) \in Nat
                    /\ \A x \in T : SumFunctionOnSet(f, T) = f[x] + SumFunctionOnSet(f, T \ {x})
  OBVIOUS
<1>1. IsFiniteSet(T) /\ \A y \in T : f[y] \in Nat BY FS_Subset
<1>2. SumFunctionOnSet(f, T) \in Nat BY <1>1, SumType
<1>3. \A x \in T : SumFunctionOnSet(f, T) = f[x] + SumFunctionOnSet(f, T \ {x})
  BY <1>1, SumWithout
<1> QED BY <1>2, <1>3

\* A sum over fewer elements is not greater.
LEMMA SumLess ==
  ASSUME NEW f, NEW S, NEW T \in SUBSET S, IsFiniteSet(S), \A y \in S : f[y] \in Nat
  PROVE  SumFunctionOnSet(f, T) <= SumFunctionOnSet(f, S)
<1> DEFINE N == {n \in Nat : \A R \in SUBSET S : T \subseteq R /\ Cardinality(R) = n
                               => SumFunctionOnSet(f, T) <= SumFunctionOnSet(f, R)}
<1>0. \A R \in SUBSET S : /\ IsFiniteSet(R) /\ Cardinality(R) \in Nat
                          /\ SumFunctionOnSet(f, R) \in Nat
  <2>1. ASSUME NEW R \in SUBSET S PROVE SumFunctionOnSet(f, R) \in Nat
    <3>1. IsFiniteSet(R) /\ \A y \in R : f[y] \in Nat BY FS_Subset
    <3> QED BY <3>1, SumType
  <2> QED BY <2>1, FS_Subset, FS_CardinalityType
<1>1. 0 \in N
  <2>1. \A R \in SUBSET S : Cardinality(R) = 0 => R = {} BY <1>0, FS_EmptySet
  <2>2. \A R \in SUBSET S : T \subseteq R /\ Cardinality(R) = 0 => T = R BY <2>1
  <2> QED BY <1>0, <2>2
<1>2. ASSUME NEW n \in Nat, n \in N PROVE n + 1 \in N
  <2>1. ASSUME NEW R \in SUBSET S, T \subseteq R, Cardinality(R) = n + 1
        PROVE  SumFunctionOnSet(f, T) <= SumFunctionOnSet(f, R)
    <3>1. CASE T = R BY <1>0, <3>1
    <3>2. CASE T # R
      <4>1. PICK y \in R : y \notin T BY <2>1, <3>2
      <4>2. Cardinality(R \ {y}) = n
        <5>1. IsFiniteSet(R) BY <1>0
        <5>2. Cardinality(R \ {y}) = Cardinality(R) - 1 BY <5>1, FS_RemoveElement
        <5> QED BY <2>1, <5>2
      <4>3. SumFunctionOnSet(f, T) <= SumFunctionOnSet(f, R \ {y}) BY <1>2, <2>1, <4>1, <4>2
      <4>4. IsFiniteSet(R) /\ \A z \in R : f[z] \in Nat BY <1>0
      <4>5. SumFunctionOnSet(f, R) = f[y] + SumFunctionOnSet(f, R \ {y}) BY <4>4, SumWithout
      <4>6. R \ {y} \in SUBSET S OBVIOUS
      <4> QED BY <1>0, <4>3, <4>4, <4>5, <4>6
    <3> QED BY <3>1, <3>2
  <2> QED BY <2>1
<1> HIDE DEF N
<1>3. Cardinality(S) \in N BY <1>0, <1>1, <1>2, NatSet
<1> QED BY <1>3 DEF N

\* h gives the elements of S different names, and g has for the name what f has
\* for the element.
Renames(h, f, g, S) ==
  /\ \A x \in S : g[h[x]] \in Nat /\ f[x] = g[h[x]]
  /\ \A x, y \in S : h[x] = h[y] => x = y

\* A sum over the names of a set is a sum over the set.
LEMMA SumRenamed ==
  ASSUME NEW f, NEW g, NEW h, NEW S, IsFiniteSet(S), Renames(h, f, g, S)
  PROVE  /\ IsFiniteSet({h[x] : x \in S})
         /\ SumFunctionOnSet(f, S) = SumFunctionOnSet(g, {h[x] : x \in S})
<1> DEFINE Of(T) == {h[x] : x \in T}
           Same(T) == IsFiniteSet(Of(T)) /\ SumFunctionOnSet(f, T) = SumFunctionOnSet(g, Of(T))
           N == {n \in Nat : \A T \in SUBSET S : Cardinality(T) = n => Same(T)}
<1>0. \A T \in SUBSET S : IsFiniteSet(T) /\ Cardinality(T) \in Nat
  BY FS_Subset, FS_CardinalityType
<1>1. 0 \in N
  <2>1. ASSUME NEW T \in SUBSET S, Cardinality(T) = 0 PROVE Same(T)
    <3>1. T = {} /\ Of(T) = {} BY <1>0, <2>1, FS_EmptySet
    <3>2. IsFiniteSet({}) /\ \A x \in {} : f[x] \in Nat /\ f[x] = g[x] BY FS_EmptySet
    <3>3. SumFunctionOnSet(f, {}) = SumFunctionOnSet(g, {}) BY <3>2, SumSame
    <3> QED BY <3>1, <3>2, <3>3
  <2> QED BY <2>1
<1>2. ASSUME NEW n \in Nat, n \in N PROVE n + 1 \in N
  <2>1. ASSUME NEW T \in SUBSET S, Cardinality(T) = n + 1 PROVE Same(T)
    <3>1. PICK x \in T : TRUE BY <2>1, FS_EmptySet
    <3> DEFINE U == T \ {x}
    <3>2. U \in SUBSET S OBVIOUS
    <3>20. Cardinality(U) = n
      <4>1. Cardinality(U) = Cardinality(T) - 1 BY <1>0, <3>1, FS_RemoveElement
      <4> QED BY <2>1, <4>1
    <3>3. Same(U) BY <1>2, <3>2, <3>20
    <3>4. Of(U) = Of(T) \ {h[x]} /\ h[x] \in Of(T) BY <3>1 DEF Renames
    <3>5. Of(T) = Of(U) \cup {h[x]} BY <3>1
    <3>6. IsFiniteSet(Of(T))
      <4>1. IsFiniteSet(Of(U) \cup {h[x]})
        <5> HIDE DEF Of
        <5> QED BY <3>3, FS_AddElement
      <4> QED BY <3>5, <4>1
    <3>7. \A y \in T : f[y] \in Nat BY DEF Renames
    <3>8. \A y \in Of(T) : g[y] \in Nat BY DEF Renames
    <3> HIDE DEF Of
    <3>9. SumFunctionOnSet(f, T) = f[x] + SumFunctionOnSet(f, U)
      <4>1. IsFiniteSet(T) /\ \A y \in T : f[y] \in Nat BY <1>0, <3>7
      <4> QED BY <3>1, <4>1, SumWithout
    <3>10. SumFunctionOnSet(g, Of(T)) = g[h[x]] + SumFunctionOnSet(g, Of(T) \ {h[x]})
      <4> DEFINE R == Of(T)
      <4>1. IsFiniteSet(R) /\ h[x] \in R /\ \A y \in R : g[y] \in Nat BY <3>4, <3>6, <3>8
      <4> HIDE DEF R
      <4>3. SumFunctionOnSet(g, R) = g[h[x]] + SumFunctionOnSet(g, R \ {h[x]})
        BY <4>1, SumWithout, ZenonT(30)
      <4> QED BY <4>3 DEF R
    <3>11. f[x] = g[h[x]] BY <3>1 DEF Renames
    <3> QED BY <3>3, <3>4, <3>6, <3>9, <3>10, <3>11
  <2> QED BY <2>1
<1> HIDE DEF N
<1>3. Cardinality(S) \in N BY <1>0, <1>1, <1>2, NatSet
<1> QED BY <1>3 DEF N

\* M has the names of the elements of the finite set S.
Names(M, h, S) ==
  IsFiniteSet(S) /\ (\A x \in S : h[x] \in M) /\ \A z \in M : \E x \in S : z = h[x]

SameSum(f, S, g, M) == SumFunctionOnSet(f, S) = SumFunctionOnSet(g, M)

\* The same for a set of names.
LEMMA SumNamed ==
  ASSUME NEW f, NEW g, NEW h, NEW S, NEW M, Names(M, h, S), Renames(h, f, g, S)
  PROVE  SameSum(f, S, g, M)
<1>1. M = {h[x] : x \in S} /\ IsFiniteSet(S) BY DEF Names
<1>2. SumFunctionOnSet(f, S) = SumFunctionOnSet(g, {h[x] : x \in S}) BY <1>1, SumRenamed
<1> QED BY <1>1, <1>2 DEF SameSum

\* The intervals that begin at pl[m] and are f[m] long follow one another
\* between a and b.
Spaced(S, pl, f, a, b) ==
  /\ S \subseteq Nat
  /\ \A m \in S : pl[m] \in Nat /\ a <= pl[m] /\ pl[m] + f[m] <= b
  /\ \A m, n \in S : m < n => pl[m] + f[m] <= pl[n]

\* Intervals that follow one another, from a to b, are no longer than that
\* altogether.
LEMMA SumFits ==
  ASSUME NEW S, IsFiniteSet(S), NEW pl, NEW f, NEW a \in Nat, NEW b \in Nat,
         \A m \in S : f[m] \in Nat, Spaced(S, pl, f, a, b), a <= b
  PROVE  a + SumFunctionOnSet(f, S) <= b
<1> DEFINE Fits(T, e) == a <= e /\ (\A m \in T : pl[m] + f[m] <= e)
                         => a + SumFunctionOnSet(f, T) <= e
           N == {n \in Nat : \A T \in SUBSET S, e \in Nat : Cardinality(T) = n => Fits(T, e)}
<1>0. \A T \in SUBSET S : /\ IsFiniteSet(T) /\ Cardinality(T) \in Nat
                          /\ SumFunctionOnSet(f, T) \in Nat
                          /\ (T = {} => SumFunctionOnSet(f, T) = 0)
  <2>1. ASSUME NEW T \in SUBSET S
        PROVE  SumFunctionOnSet(f, T) \in Nat /\ (T = {} => SumFunctionOnSet(f, T) = 0)
    <3>1. IsFiniteSet(T) /\ \A y \in T : f[y] \in Nat BY FS_Subset
    <3> QED BY <3>1, SumType
  <2> QED BY <2>1, FS_Subset, FS_CardinalityType
<1>5. ASSUME NEW T \in SUBSET S, NEW x \in T
      PROVE  SumFunctionOnSet(f, T) = f[x] + SumFunctionOnSet(f, T \ {x})
  BY SumParts
<1>1. 0 \in N
  <2>1. \A T \in SUBSET S : Cardinality(T) = 0 => T = {} BY <1>0, FS_EmptySet
  <2>2. \A T \in SUBSET S : Cardinality(T) = 0 => SumFunctionOnSet(f, T) = 0 BY <1>0, <2>1
  <2> QED BY <2>2
<1>2. ASSUME NEW n \in Nat, n \in N PROVE n + 1 \in N
  <2>1. ASSUME NEW T \in SUBSET S, NEW e \in Nat, Cardinality(T) = n + 1, a <= e,
               \A m \in T : pl[m] + f[m] <= e
        PROVE  a + SumFunctionOnSet(f, T) <= e
    <3>1. T # {} /\ T \in SUBSET Nat BY <2>1, FS_EmptySet DEF Spaced
    <3>2. PICK x \in T : \A m \in T : x >= m BY <1>0, <3>1, MaxOf
    <3> DEFINE U == T \ {x}
    <3>30. Cardinality(U) = Cardinality(T) - 1 BY <1>0, <3>2, FS_RemoveElement
    <3>3. U \in SUBSET S /\ Cardinality(U) = n BY <2>1, <3>30
    <3>4. \A m \in U : m < x BY <3>1, <3>2
    <3>5. pl[x] \in Nat /\ f[x] \in Nat /\ a <= pl[x] /\ pl[x] + f[x] <= e
          /\ \A m \in U : pl[m] + f[m] <= pl[x]
      BY <2>1, <3>2, <3>4 DEF Spaced
    <3>6. Fits(U, pl[x]) BY <1>2, <3>3, <3>5
    <3>7. a + SumFunctionOnSet(f, U) <= pl[x] BY <3>5, <3>6
    <3>8. \A y \in T : f[y] \in Nat OBVIOUS
    <3>9. SumFunctionOnSet(f, T) = f[x] + SumFunctionOnSet(f, U) BY <1>5
    <3>10. SumFunctionOnSet(f, U) \in Nat BY <1>0, <3>3
    <3> HIDE DEF U
    <3> QED BY <3>5, <3>7, <3>9, <3>10
  <2> QED BY <2>1
<1> HIDE DEF N
<1>3. Cardinality(S) \in N BY <1>0, <1>1, <1>2, NatSet
<1>4. Fits(S, b) BY <1>3 DEF N
<1> QED BY <1>4 DEF Spaced

-----------------------------------------------------------------------------
(* The order of predecessors.                                              *)

\* A set of numbers has a least one.
LEMMA LeastOf ==
  ASSUME NEW S \in SUBSET Nat, S # {}
  PROVE  \E x \in S : \A y \in S : x <= y
<1>1. PICK n \in S : \A m \in S : ~(<<m, n>> \in OpToRel(<, Nat))
  BY NatLessThanWellFounded, WFMin, Zenon
<1>2. ASSUME NEW y \in S PROVE n <= y
  <2>1. n \in Nat /\ y \in Nat OBVIOUS
  <2>2. y < n => <<y, n>> \in OpToRel(<, Nat) BY <2>1, Zenon DEF OpToRel
  <2>3. ~(y < n) BY <1>1, <2>2, Zenon
  <2> QED BY <2>1, <2>3
<1> QED BY <1>2

\* What Min chooses is the least one.
LEMMA MinIs ==
  ASSUME NEW S \in SUBSET Nat, NEW x \in S, \A y \in S : x <= y
  PROVE  Min(S) = x
<1>1. \E z \in S : \A y \in S : z <= y OBVIOUS
<1>2. Min(S) \in S /\ \A y \in S : Min(S) <= y BY <1>1 DEF Min
<1>3. Min(S) <= x /\ x <= Min(S) BY <1>2
<1>4. Min(S) \in Nat /\ x \in Nat BY <1>2
<1> QED BY <1>3, <1>4

Ascends(q, n) == \A i, j \in 1..n : i < j => q[i] < q[j]

\* A finite set of numbers can be put in ascending order.
LEMMA AscendingOrder ==
  ASSUME NEW S \in SUBSET Nat, IsFiniteSet(S)
  PROVE  \E q \in [1..Cardinality(S) -> S] : Ascends(q, Cardinality(S))
<1> DEFINE Order(T) == \E q \in [1..Cardinality(T) -> T] : Ascends(q, Cardinality(T))
           N == {n \in Nat : \A T \in SUBSET S : Cardinality(T) = n => Order(T)}
<1>0. \A T \in SUBSET S : IsFiniteSet(T) /\ Cardinality(T) \in Nat
  BY FS_Subset, FS_CardinalityType
<1>1. 0 \in N
  <2>1. ASSUME NEW T \in SUBSET S, Cardinality(T) = 0 PROVE Order(T)
    <3>1. [i \in 1..0 |-> 0] \in [1..0 -> T] /\ Ascends([i \in 1..0 |-> 0], 0) BY DEF Ascends
    <3> QED BY <2>1, <3>1
  <2> QED BY <2>1
<1>2. ASSUME NEW n \in Nat, n \in N PROVE n + 1 \in N
  <2>1. ASSUME NEW T \in SUBSET S, Cardinality(T) = n + 1 PROVE Order(T)
    <3>1. T # {} /\ T \in SUBSET Nat BY <2>1, FS_EmptySet
    <3>2. PICK x \in T : \A m \in T : x >= m BY <1>0, <3>1, MaxOf
    <3> DEFINE U == T \ {x}
    <3>3. Cardinality(U) = Cardinality(T) - 1 BY <1>0, <3>2, FS_RemoveElement
    <3>4. U \in SUBSET S /\ Cardinality(U) = n BY <2>1, <3>3
    <3>5. PICK q \in [1..n -> U] : Ascends(q, n) BY <1>2, <3>4
    <3> DEFINE p == [i \in 1..(n + 1) |-> IF i = n + 1 THEN x ELSE q[i]]
    <3>6. \A i \in 1..(n + 1) : i \in 1..n \/ i = n + 1 OBVIOUS
    <3>7. p \in [1..(n + 1) -> T] BY <3>2, <3>5, <3>6
    <3>8. ASSUME NEW i \in 1..(n + 1), NEW j \in 1..(n + 1), i < j PROVE p[i] < p[j]
      <4>1. i \in 1..n BY <3>8
      <4>2. p[i] = q[i] BY <4>1
      <4>3. CASE j \in 1..n
        <5>1. p[j] = q[j] BY <4>3
        <5> QED BY <3>5, <3>8, <4>1, <4>2, <4>3, <5>1 DEF Ascends
      <4>4. CASE j = n + 1
        <5>1. p[j] = x /\ q[i] \in T /\ q[i] # x BY <3>5, <4>1, <4>4
        <5>2. q[i] \in Nat /\ x \in Nat /\ x >= q[i] BY <3>1, <3>2, <5>1
        <5>3. q[i] < x BY <5>1, <5>2
        <5> HIDE DEF p
        <5> QED BY <4>2, <5>1, <5>3
      <4> QED BY <3>6, <4>3, <4>4
    <3> HIDE DEF p
    <3> QED BY <2>1, <3>7, <3>8 DEF Ascends
  <2> QED BY <2>1
<1> HIDE DEF N
<1>3. Cardinality(S) \in N BY <1>0, <1>1, <1>2, NatSet
<1> QED BY <1>3 DEF N

\* Such an order has every element once.
LEMMA AscendingOnto ==
  ASSUME NEW S \in SUBSET Nat, IsFiniteSet(S), NEW q \in [1..Cardinality(S) -> S],
         Ascends(q, Cardinality(S))
  PROVE  /\ \A i, j \in 1..Cardinality(S) : q[i] = q[j] => i = j
         /\ \A x \in S : \E i \in 1..Cardinality(S) : q[i] = x
<1> DEFINE n == Cardinality(S)
<1>1. n \in Nat BY FS_CardinalityType
<1>2. \A i \in 1..n : q[i] \in Nat OBVIOUS
<1>3. ASSUME NEW i \in 1..n, NEW j \in 1..n, q[i] = q[j] PROVE i = j
  <2>1. i < j \/ j < i \/ i = j BY <1>1
  <2>2. ~(i < j) /\ ~(j < i) BY <1>2, <1>3 DEF Ascends
  <2> QED BY <2>1, <2>2
<1>4. q \in Injection(1..n, S) BY <1>3 DEF Injection, IsInjective
<1>5. IsFiniteSet(1..n) /\ Cardinality(1..n) = n BY <1>1, FS_Interval
<1>6. q \in Surjection(1..n, S) BY <1>4, <1>5, FS_Injection
<1> QED BY <1>3, <1>6 DEF Surjection

\* The open proposals are finitely many, with numbers.
OpenOK == IsFiniteSet(Open) /\ Open \subseteq Nat

\* Topo is the ascending order.
LEMMA TopoAscends ==
  ASSUME OpenOK
  PROVE  Topo \in [1..Cardinality(Open) -> Open] /\ Ascends(Topo, Cardinality(Open))
<1> DEFINE n == Cardinality(Open)
           left(q, i) == Open \ {q[j] : j \in 1..(i - 1)}
           ready(q, i) == {m \in left(q, i) : Pred(m) \cap left(q, i) = {}}
           Kahn(q) == \A i \in DOMAIN q : q[i] = Min(ready(q, i))
<1>0. n \in Nat /\ Open \in SUBSET Nat BY FS_CardinalityType DEF OpenOK
<1>1. ASSUME NEW q \in [1..n -> Open], Ascends(q, n) PROVE Kahn(q)
  <2> SUFFICES ASSUME NEW i \in 1..n PROVE q[i] = Min(ready(q, i)) OBVIOUS
  <2>1. /\ \A j, k \in 1..n : q[j] = q[k] => j = k
        /\ \A x \in Open : \E j \in 1..n : q[j] = x
    BY <1>0, <1>1, AscendingOnto DEF OpenOK
  <2>2. \A j \in 1..(i - 1) : j \in 1..n /\ j # i BY <1>0
  <2>3. q[i] \in left(q, i) BY <2>1, <2>2
  <2>4. ASSUME NEW y \in left(q, i) PROVE q[i] <= y
    <3>1. PICK j \in 1..n : q[j] = y BY <2>1
    <3>2. ~(j \in 1..(i - 1)) BY <3>1
    <3>3. i = j \/ i < j BY <1>0, <3>2
    <3>4. q[i] \in Nat /\ q[j] \in Nat BY <1>0
    <3> QED BY <1>1, <3>1, <3>3, <3>4 DEF Ascends
  <2>5. Pred(q[i]) \cap left(q, i) = {}
    <3>1. ASSUME NEW m \in Pred(q[i]), m \in left(q, i) PROVE FALSE
      <4>1. m < q[i] /\ q[i] <= m BY <2>4, <3>1 DEF Pred, Older
      <4>2. m \in Nat /\ q[i] \in Nat BY <1>0, <3>1
      <4> QED BY <4>1, <4>2
    <3> QED BY <3>1
  <2>6. q[i] \in ready(q, i) /\ ready(q, i) \in SUBSET Nat BY <1>0, <2>3, <2>5
  <2>7. \A y \in ready(q, i) : q[i] <= y BY <2>4
  <2> HIDE DEF ready
  <2> QED BY <2>6, <2>7, MinIs
<1>2. ASSUME NEW q \in [1..n -> Open], Kahn(q) PROVE Ascends(q, n)
  <2>1. ASSUME NEW i \in 1..n
        PROVE  q[i] \in left(q, i) /\ \A y \in left(q, i) : q[i] <= y
    <3> DEFINE L == left(q, i)
    <3>1. L # {}
      <4> DEFINE taken == {q[j] : j \in 1..(i - 1)}
      <4>1. i - 1 \in Nat /\ i - 1 < n BY <1>0
      <4>2. IsFiniteSet(1..(i - 1)) /\ Cardinality(1..(i - 1)) = i - 1
        BY <4>1, FS_Interval
      <4>3. [j \in 1..(i - 1) |-> q[j]] \in Surjection(1..(i - 1), taken)
        BY DEF Surjection
      <4> HIDE DEF taken
      <4>4. IsFiniteSet(taken) /\ Cardinality(taken) <= i - 1
        BY <4>2, <4>3, FS_Surjection
      <4>5. L = {} => Open \subseteq taken BY DEF taken
      <4>6. Cardinality(taken) \in Nat BY <4>4, FS_CardinalityType
      <4>7. Open \subseteq taken => n <= Cardinality(taken) BY <4>4, FS_Subset
      <4> HIDE DEF n, L
      <4> QED BY <1>0, <4>1, <4>4, <4>5, <4>6, <4>7
    <3>2. L \in SUBSET Nat BY <1>0
    <3> HIDE DEF L
    <3>3. PICK x \in L : \A y \in L : x <= y BY <3>1, <3>2, LeastOf
    <3>4. Pred(x) \cap L = {}
      <4>1. ASSUME NEW m \in Pred(x), m \in L PROVE FALSE
        <5>1. m < x /\ x <= m /\ m \in Nat /\ x \in Nat BY <3>2, <3>3, <4>1 DEF Pred, Older
        <5> QED BY <5>1
      <4> QED BY <4>1
    <3>5. ready(q, i) = {m \in L : Pred(m) \cap L = {}} BY DEF L
    <3>6. x \in ready(q, i) /\ ready(q, i) \in SUBSET Nat BY <3>2, <3>3, <3>4, <3>5
    <3>7. \A y \in ready(q, i) : x <= y BY <3>3, <3>5
    <3>8. q[i] = Min(ready(q, i)) BY <1>2
    <3> HIDE DEF ready
    <3>9. q[i] = x BY <3>6, <3>7, <3>8, MinIs
    <3> QED BY <3>3, <3>9 DEF L
  <2>2. ASSUME NEW i \in 1..n, NEW j \in 1..n, i < j PROVE q[i] < q[j]
    <3>1. q[j] \in left(q, j) BY <2>1
    <3>2. i \in 1..(j - 1) /\ \A k \in 1..(i - 1) : k \in 1..(j - 1) BY <1>0, <2>2
    <3>3. q[j] # q[i] /\ q[j] \in left(q, i) BY <3>1, <3>2
    <3>4. q[i] <= q[j] BY <2>1, <3>3
    <3>5. q[i] \in Nat /\ q[j] \in Nat BY <1>0
    <3> QED BY <3>3, <3>4, <3>5
  <2> QED BY <2>2 DEF Ascends
<1>3. PICK p \in [1..n -> Open] : Ascends(p, n) BY <1>0, AscendingOrder DEF OpenOK
<1>4. Kahn(p) BY <1>1, <1>3
<1>5. Topo = CHOOSE q \in [1..n -> Open] : Kahn(q) BY Zenon DEF Topo
<1> HIDE DEF Kahn, n
<1>6. Topo \in [1..n -> Open] /\ Kahn(Topo) BY <1>4, <1>5, Zenon
<1> QED BY <1>2, <1>6 DEF n

\* The predecessors of an update are those of the graph, in ascending order.
LEMMA PredecessorsAre ==
  ASSUME OpenOK, NEW n
  PROVE  \E q \in [1..Cardinality(Pred(n)) -> Pred(n)] :
           /\ Ascends(q, Cardinality(Pred(n)))
           /\ Predecessors(n) =
                [i \in 1..Cardinality(Pred(n)) |-> [number |-> q[i], data |-> data[q[i]]]]
<1> DEFINE T == Topo
           N == Cardinality(Open)
           place(m) == CHOOSE i \in DOMAIN T : T[i] = m
           ps == Pred(n)
           k == Cardinality(ps)
           Sorted(q) == \A i, j \in DOMAIN q : i < j => place(q[i]) < place(q[j])
           of == CHOOSE q \in [1..k -> ps] : Sorted(q)
<1>0. ps \subseteq Open /\ IsFiniteSet(ps) /\ k \in Nat
  <2>1. ps \in SUBSET Open BY DEF Pred, Older
  <2>2. IsFiniteSet(ps) BY <2>1, FS_Subset DEF OpenOK
  <2> QED BY <2>1, <2>2, FS_CardinalityType
<1>1. Predecessors(n) = [i \in DOMAIN of |-> [number |-> of[i], data |-> data[of[i]]]]
  BY Zenon DEF Predecessors
<1>2. T \in [1..N -> Open] /\ Ascends(T, N) BY TopoAscends
<1>3. N \in Nat /\ Open \in SUBSET Nat /\ IsFiniteSet(Open) BY FS_CardinalityType DEF OpenOK
<1>4. \A x \in Open : \E i \in 1..N : T[i] = x
  <2> HIDE DEF T
  <2> QED BY <1>2, <1>3, AscendingOnto
<1> HIDE DEF T, N, ps, k
<1>5. \A x \in Open : place(x) \in 1..N /\ T[place(x)] = x
  <2>1. DOMAIN T = 1..N BY <1>2
  <2>2. ASSUME NEW x \in Open PROVE place(x) \in DOMAIN T /\ T[place(x)] = x
    <3>1. \E i \in DOMAIN T : T[i] = x BY <1>4, <2>1
    <3> QED BY <3>1, Zenon
  <2> QED BY <2>1, <2>2
<1> HIDE DEF place
<1>6. ASSUME NEW x \in Open, NEW y \in Open PROVE x < y <=> place(x) < place(y)
  <2>1. place(x) \in 1..N /\ place(y) \in 1..N /\ T[place(x)] = x /\ T[place(y)] = y BY <1>5
  <2>2. place(x) < place(y) => x < y BY <1>2, <2>1 DEF Ascends
  <2>3. place(y) < place(x) => y < x BY <1>2, <2>1 DEF Ascends
  <2>4. place(x) = place(y) => x = y BY <2>1
  <2>5. x \in Nat /\ y \in Nat /\ place(x) \in Nat /\ place(y) \in Nat BY <1>3, <2>1
  <2> QED BY <2>2, <2>3, <2>4, <2>5
<1>7. ASSUME NEW q \in [1..k -> ps] PROVE Sorted(q) <=> Ascends(q, k)
  <2>1. DOMAIN q = 1..k /\ \A i \in 1..k : q[i] \in Open BY <1>0
  <2>2. \A i, j \in 1..k : q[i] < q[j] <=> place(q[i]) < place(q[j]) BY <1>6, <2>1
  <2> QED BY <2>1, <2>2 DEF Ascends
<1>8. \E q \in [1..k -> ps] : Ascends(q, k)
  <2>1. ps \in SUBSET Nat BY <1>0, <1>3
  <2> QED BY <1>0, <2>1, AscendingOrder DEF k
<1> HIDE DEF Sorted
<1>9. \E q \in [1..k -> ps] : Sorted(q) BY <1>7, <1>8
<1>10. of \in [1..k -> ps] /\ Sorted(of) BY <1>9, Zenon
<1> HIDE DEF of
<1>11. Ascends(of, k) BY <1>7, <1>10
<1>12. DOMAIN of = 1..k BY <1>10
<1> QED BY <1>1, <1>10, <1>11, <1>12 DEF ps, k

-----------------------------------------------------------------------------
(* The queue of proposals.                                                 *)

\* The place of proposal n on chain s: where it was executed, or its turn.
PlaceOf(n, s) == IF s \in executed[n] THEN data[n][s].start ELSE Turn(n, s)

QueueTyped ==
  /\ opCount \in [Selectors -> Nat]
  /\ OpenOK /\ Open \subseteq PRs /\ merged \subseteq PRs /\ Open \cap merged = {}
  /\ \A n \in Open : \A s \in DOMAIN data[n] :
       s \in Selectors /\ data[n][s] \in [start : Nat, ops : Nat \ {0}]
  /\ DOMAIN executed = Open /\ \A n \in Open : executed[n] \subseteq DOMAIN data[n]
  /\ DOMAIN view = PRs /\ DOMAIN intime = PRs /\ DOMAIN sure = PRs
  /\ \A n \in Open \cup merged : Older(n, PRs) \subseteq Open \cup merged
  /\ \A n \in PRs \ merged : view[n] = NotLoaded => intime[n] = {}
  /\ \A n \in PRs \ (Open \cup merged) : sure[n] = {} /\ view[n] = NotLoaded

\* A proposal starts at its place if that was computed in time and never
\* beyond it; an update that has collected the predecessors will leave it so.
Placed(n, s) ==
  /\ data[n][s].start <= PlaceOf(n, s)
  /\ s \in executed[n] => End(data[n][s]) <= opCount[s]
  /\ s \in sure[n] => data[n][s].start = PlaceOf(n, s)
  /\ view[n] # NotLoaded =>
       LET new == ComputeHighestOpCounts(data[n], view[n][1], s)
       IN /\ new \in Nat /\ new <= PlaceOf(n, s)
          /\ s \in intime[n] => new = PlaceOf(n, s) \/ data[n][s].start = PlaceOf(n, s)

\* Chains execute the proposals in their order.
Ordered ==
  \A m, n \in Open : m < n => \A s \in DOMAIN data[m] \cap executed[n] :
    s \in executed[m] /\ End(data[m][s]) <= data[n][s].start

QueueInv ==
  /\ QueueTyped /\ Ordered
  /\ \A n \in Open : \A s \in DOMAIN data[n] : Placed(n, s)

\* Proposals that wait have operations.
LEMMA WaitingOps ==
  ASSUME QueueTyped, NEW n, NEW s
  PROVE  /\ IsFiniteSet(Waiting(n, s)) /\ Waiting(n, s) \subseteq Nat
         /\ \A m \in Waiting(n, s) : m \in Open /\ s \in DOMAIN data[m]
         /\ \A m \in Waiting(n, s) : data[m][s].ops \in Nat /\ data[m][s].start \in Nat
<1>1. Waiting(n, s) \in SUBSET Open /\ IsFiniteSet(Open) /\ Open \subseteq Nat
  BY DEF Waiting, Older, QueueTyped, OpenOK
<1>2. IsFiniteSet(Waiting(n, s)) BY <1>1, FS_Subset
<1>3. \A m \in Waiting(n, s) : m \in Open /\ s \in DOMAIN data[m] BY DEF Waiting, Older
<1>4. \A m \in Waiting(n, s) : data[m][s] \in [start : Nat, ops : Nat \ {0}]
  BY <1>3 DEF QueueTyped
<1> QED BY <1>1, <1>2, <1>3, <1>4

\* The operations that wait before n on s.
WaitOps(n, s) == [m \in Waiting(n, s) |-> data[m][s].ops]

\* Turns are numbers, not below the op count.
LEMMA TurnType ==
  ASSUME QueueTyped, NEW n, NEW s \in Selectors
  PROVE  /\ Turn(n, s) \in Nat /\ opCount[s] \in Nat /\ opCount[s] <= Turn(n, s)
         /\ Waiting(n, s) = {} => Turn(n, s) = opCount[s]
<1> DEFINE W == Waiting(n, s)
           f == WaitOps(n, s)
<1>1. IsFiniteSet(W) /\ \A m \in W : f[m] \in Nat BY WaitingOps DEF WaitOps
<1>2. Turn(n, s) = opCount[s] + SumFunctionOnSet(f, W) BY DEF Turn, WaitOps
<1>3. opCount[s] \in Nat BY DEF QueueTyped
<1> HIDE DEF W, f
<1>4. SumFunctionOnSet(f, W) \in Nat /\ (W = {} => SumFunctionOnSet(f, W) = 0)
  BY <1>1, SumType
<1> QED BY <1>2, <1>3, <1>4 DEF W

\* The turn after one that waits is behind it, and next when none waits
\* between them.
LEMMA TurnAfter ==
  ASSUME QueueTyped, NEW n \in Open, NEW s \in Selectors, NEW m \in Waiting(n, s)
  PROVE  /\ Turn(m, s) + data[m][s].ops <= Turn(n, s)
         /\ (\A k \in Waiting(n, s) : k <= m) => Turn(n, s) = Turn(m, s) + data[m][s].ops
<1> DEFINE W == Waiting(n, s)
           V == Waiting(m, s)
           f == WaitOps(n, s)
           g == WaitOps(m, s)
           o == data[m][s].ops
<1>1. IsFiniteSet(W) /\ \A k \in W : f[k] \in Nat
  BY WaitingOps DEF WaitOps
<1>2. IsFiniteSet(V) /\ o \in Nat BY WaitingOps
<1>3. V \in SUBSET (W \ {m})
  <2>1. m \in Open /\ m < n BY DEF Waiting, Older
  <2>2. Open \subseteq Nat BY DEF QueueTyped, OpenOK
  <2> SUFFICES ASSUME NEW k \in V PROVE k \in W /\ k # m OBVIOUS
  <2>3. k \in Open /\ k < m /\ s \in DOMAIN data[k] \ executed[k] BY DEF Waiting, Older
  <2>4. k \in Nat /\ m \in Nat /\ n \in Nat BY <2>1, <2>2, <2>3
  <2>5. k < n /\ k # m BY <2>1, <2>3, <2>4
  <2> QED BY <2>3, <2>5 DEF Waiting, Older
<1>4. \A k \in V : g[k] \in Nat /\ g[k] = f[k]
  <2>1. \A k \in V : k \in W BY <1>3
  <2>2. \A k \in V : g[k] = data[k][s].ops BY DEF WaitOps
  <2>3. \A k \in W : f[k] = data[k][s].ops BY DEF WaitOps
  <2> HIDE DEF V, W, f, g
  <2> QED BY <1>1, <2>1, <2>2, <2>3
<1>5. f[m] = o BY DEF WaitOps
<1>6. Turn(n, s) = opCount[s] + SumFunctionOnSet(f, W) BY DEF Turn, WaitOps
<1>7. Turn(m, s) = opCount[s] + SumFunctionOnSet(g, V) BY DEF Turn, WaitOps
<1>8. (\A k \in W : k <= m) => W \ {m} = V
  <2> SUFFICES ASSUME \A k \in W : k <= m, NEW k \in W, k # m PROVE k \in V
    BY <1>3
  <2>1. k \in Nat /\ m \in Nat /\ k <= m BY WaitingOps
  <2>2. k < m BY <2>1
  <2> QED BY <2>2 DEF Waiting, Older
<1>9. opCount[s] \in Nat BY DEF QueueTyped
<1>10. m \in W OBVIOUS
<1> HIDE DEF W, V, f, g, o
<1>11. SumFunctionOnSet(g, V) = SumFunctionOnSet(f, V) BY <1>2, <1>4, SumSame
<1>12. /\ IsFiniteSet(W \ {m}) /\ \A k \in W \ {m} : f[k] \in Nat
  BY <1>1, FS_RemoveElement
<1>13. SumFunctionOnSet(f, W) = f[m] + SumFunctionOnSet(f, W \ {m})
  BY <1>1, <1>10, SumWithout, ZenonT(30)
<1>14. SumFunctionOnSet(f, V) <= SumFunctionOnSet(f, W \ {m})
  BY <1>3, <1>12, SumLess
<1>15. SumFunctionOnSet(f, W \ {m}) \in Nat BY <1>12, SumType
<1>16. SumFunctionOnSet(f, V) \in Nat
  <2>1. SumFunctionOnSet(g, V) \in Nat BY <1>2, <1>4, SumType
  <2> QED BY <1>11, <2>1
<1> DEFINE a == SumFunctionOnSet(f, V)
           b == SumFunctionOnSet(f, W \ {m})
           tn == Turn(n, s)
           tm == Turn(m, s)
           oc == opCount[s]
<1>17. /\ tn = oc + (o + b) /\ tm = oc + a /\ a <= b
       /\ oc \in Nat /\ o \in Nat /\ a \in Nat /\ b \in Nat
  BY <1>2, <1>5, <1>6, <1>7, <1>9, <1>11, <1>13, <1>14, <1>15, <1>16
<1>18. W \ {m} = V => a = b OBVIOUS
<1> HIDE DEF a, b, tn, tm, oc
<1>19. tm + o <= tn BY <1>17
<1>20. a = b => tn = tm + o BY <1>17
<1> QED BY <1>8, <1>18, <1>19, <1>20 DEF W, o, tn, tm

\* What an open proposal has for a chain of its own.
LEMMA DataType ==
  ASSUME QueueTyped, NEW n \in Open, NEW s \in DOMAIN data[n]
  PROVE  /\ s \in Selectors /\ n \in Nat
         /\ data[n][s].start \in Nat /\ data[n][s].ops \in Nat /\ data[n][s].ops # 0
         /\ PlaceOf(n, s) \in Nat
<1>1. s \in Selectors /\ n \in Nat BY DEF QueueTyped, OpenOK
<1>2. data[n][s] \in [start : Nat, ops : Nat \ {0}] BY DEF QueueTyped
<1>3. Turn(n, s) \in Nat BY <1>1, TurnType
<1> QED BY <1>1, <1>2, <1>3 DEF PlaceOf

\* The places of two proposals on a chain do not overlap.
LEMMA PlacesApart ==
  ASSUME QueueInv, NEW m \in Open, NEW n \in Open, m < n,
         NEW s \in DOMAIN data[m] \cap DOMAIN data[n]
  PROVE  PlaceOf(m, s) + data[m][s].ops <= PlaceOf(n, s)
<1>0. QueueTyped /\ Placed(m, s) /\ Placed(n, s) BY DEF QueueInv
<1>1. s \in Selectors /\ data[m][s].start \in Nat /\ data[m][s].ops \in Nat
  BY <1>0, DataType
<1>2. CASE s \in executed[n]
  <2>1. s \in executed[m] /\ End(data[m][s]) <= data[n][s].start BY <1>2 DEF QueueInv, Ordered
  <2> QED BY <1>2, <2>1 DEF PlaceOf, End
<1>3. CASE s \notin executed[n] /\ s \in executed[m]
  <2>1. End(data[m][s]) <= opCount[s] BY <1>0, <1>3 DEF Placed
  <2>2. Turn(n, s) \in Nat /\ opCount[s] \in Nat /\ opCount[s] <= Turn(n, s)
    BY <1>0, <1>1, TurnType
  <2>3. PlaceOf(m, s) = data[m][s].start /\ PlaceOf(n, s) = Turn(n, s) BY <1>3 DEF PlaceOf
  <2> QED BY <1>1, <2>1, <2>2, <2>3 DEF End
<1>4. CASE s \notin executed[n] /\ s \notin executed[m]
  <2>1. m \in Waiting(n, s) BY <1>4 DEF Waiting, Older
  <2>2. Turn(m, s) + data[m][s].ops <= Turn(n, s) BY <1>0, <1>1, <2>1, TurnAfter
  <2> QED BY <1>4, <2>2 DEF PlaceOf
<1> QED BY <1>2, <1>3, <1>4

\* The operations of the proposals M on chain s.
SumOps(M, s) == SumFunctionOnSet([m \in M |-> data[m][s].ops], M)

\* The older proposals that start at or after n fit between its start and its
\* place.
LEMMA CountedFits ==
  ASSUME QueueInv, NEW n \in Open, NEW s \in DOMAIN data[n], NEW M \in SUBSET Open,
         \A m \in M : m < n /\ s \in DOMAIN data[m] /\ data[m][s].start >= data[n][s].start
  PROVE  SumOps(M, s) \in Nat /\ data[n][s].start + SumOps(M, s) <= PlaceOf(n, s)
<1> DEFINE f == [m \in M |-> data[m][s].ops]
           pl == [m \in M |-> PlaceOf(m, s)]
           a == data[n][s].start
           b == PlaceOf(n, s)
<1>0. QueueTyped /\ IsFiniteSet(M) /\ Open \subseteq Nat
  BY FS_Subset DEF QueueInv, QueueTyped, OpenOK
<1>1. a \in Nat /\ b \in Nat /\ a <= b
  <2>1. Placed(n, s) BY DEF QueueInv
  <2> QED BY <1>0, <2>1, DataType DEF Placed
<1>2. ASSUME NEW m \in M
      PROVE  /\ f[m] \in Nat /\ pl[m] \in Nat /\ a <= pl[m] /\ pl[m] + f[m] <= b
             /\ f[m] = data[m][s].ops /\ pl[m] = PlaceOf(m, s)
  <2>1. m \in Open /\ m < n /\ s \in DOMAIN data[m] /\ data[m][s].start >= a OBVIOUS
  <2>2. /\ data[m][s].start \in Nat /\ data[m][s].ops \in Nat /\ PlaceOf(m, s) \in Nat
    BY <1>0, <2>1, DataType
  <2>3. data[m][s].start <= PlaceOf(m, s) BY <2>1 DEF QueueInv, Placed
  <2>4. PlaceOf(m, s) + data[m][s].ops <= b BY <2>1, PlacesApart
  <2>5. f[m] = data[m][s].ops /\ pl[m] = PlaceOf(m, s) OBVIOUS
  <2> HIDE DEF f, pl, b
  <2> QED BY <1>1, <2>1, <2>2, <2>3, <2>4, <2>5
<1>3. ASSUME NEW m \in M, NEW k \in M, m < k PROVE pl[m] + f[m] <= pl[k]
  <2>1. m \in Open /\ k \in Open /\ s \in DOMAIN data[m] \cap DOMAIN data[k] OBVIOUS
  <2>2. PlaceOf(m, s) + data[m][s].ops <= PlaceOf(k, s) BY <1>3, <2>1, PlacesApart
  <2> HIDE DEF f, pl
  <2> QED BY <1>2, <2>2
<1>4. SumOps(M, s) = SumFunctionOnSet(f, M) BY DEF SumOps
<1>5. M \subseteq Nat BY <1>0
<1> HIDE DEF f, pl, a, b
<1>6. Spaced(M, pl, f, a, b) BY <1>2, <1>3, <1>5 DEF Spaced
<1>7. IsFiniteSet(M) /\ \A m \in M : f[m] \in Nat BY <1>0, <1>2
<1>8. SumFunctionOnSet(f, M) \in Nat BY <1>7, SumType, ZenonT(30)
<1>9. a + SumFunctionOnSet(f, M) <= b BY <1>1, <1>6, <1>7, SumFits, ZenonT(30)
<1> QED BY <1>4, <1>8, <1>9 DEF a, b

\* The predecessors at C are those of different proposals, numbered q.
Numbered(preds, q, k, C, s) ==
  /\ k \in Nat /\ C \in SUBSET (1..k) /\ \A i, j \in 1..k : q[i] = q[j] => i = j
  /\ \A i \in C : preds[i].data[s].ops = data[q[i]][s].ops /\ data[q[i]][s].ops \in Nat

OpsAre(preds, q, C, s) == OpsOf(preds, C, s) = SumOps({q[i] : i \in C}, s)

\* The operations of the predecessors C are those of their proposals.
LEMMA OpsOfAre ==
  ASSUME NEW k, NEW q, NEW C, NEW preds, NEW s, Numbered(preds, q, k, C, s)
  PROVE  OpsAre(preds, q, C, s)
<1> USE DEF Numbered
<1> DEFINE M == {q[i] : i \in C}
           f == [i \in C |-> preds[i].data[s].ops]
           g == [m \in M |-> data[m][s].ops]
<1>1. OpsOf(preds, C, s) = SumFunctionOnSet(f, C) /\ SumOps(M, s) = SumFunctionOnSet(g, M)
  BY DEF OpsOf, SumOps
<1>2. ASSUME NEW i \in C PROVE g[q[i]] \in Nat /\ f[i] = g[q[i]] OBVIOUS
<1>3. \A i, j \in C : q[i] = q[j] => i = j OBVIOUS
<1>4. IsFiniteSet(C)
  <2>1. IsFiniteSet(1..k) BY FS_Interval
  <2> QED BY <2>1, FS_Subset
<1>5. Names(M, q, C) BY <1>4 DEF Names
<1> HIDE DEF f, g, M
<1>6. Renames(q, f, g, C) BY <1>2, <1>3 DEF Renames
<1>7. SameSum(f, C, g, M)
  BY <1>5, <1>6, SumNamed, ZenonT(30)
<1> QED BY <1>1, <1>7 DEF M, SameSum, OpsAre

\* What an update collects: its older related proposals, in ascending order.
Collected(n, preds, q, k) ==
  /\ k \in Nat /\ q \in [1..k -> Pred(n)] /\ Ascends(q, k)
  /\ DOMAIN preds = 1..k /\ Len(preds) = k
  /\ \A i \in 1..k : preds[i].number = q[i] /\ preds[i].data = data[q[i]]
  /\ \A i, j \in 1..k : q[i] = q[j] => i = j
  /\ \A m \in Pred(n) : \E i \in 1..k : q[i] = m

\* Predecessors(n) is that.
LEMMA CollectedIs ==
  ASSUME QueueTyped, NEW n \in Open
  PROVE  \E q, k : Collected(n, Predecessors(n), q, k)
<1> DEFINE ps == Pred(n)
           k == Cardinality(ps)
<1>1. ps \in SUBSET Nat /\ IsFiniteSet(ps)
  <2>1. ps \in SUBSET Open BY DEF Pred, Older
  <2> QED BY <2>1, FS_Subset DEF QueueTyped, OpenOK
<1>2. PICK q \in [1..k -> ps] :
        /\ Ascends(q, k)
        /\ Predecessors(n) = [i \in 1..k |-> [number |-> q[i], data |-> data[q[i]]]]
  BY PredecessorsAre DEF QueueTyped
<1>3. k \in Nat BY <1>1, FS_CardinalityType
<1>4. /\ \A i, j \in 1..k : q[i] = q[j] => i = j
      /\ \A x \in ps : \E i \in 1..k : q[i] = x
  <2> HIDE DEF ps
  <2> QED BY <1>1, <1>2, AscendingOnto
<1> HIDE DEF ps, k
<1>5. Len(Predecessors(n)) = k /\ DOMAIN Predecessors(n) = 1..k BY <1>2, <1>3
<1>6. \A i \in 1..k : Predecessors(n)[i].number = q[i] /\ Predecessors(n)[i].data = data[q[i]]
  BY <1>2
<1>7. Collected(n, Predecessors(n), q, k)
  BY <1>2, <1>3, <1>4, <1>5, <1>6 DEF Collected, ps
<1> QED BY <1>7

\* The count an update computes is not beyond the place of the proposal, and it
\* is its place if the update began in time.
LEMMA CollectCounts ==
  ASSUME QueueInv, NEW n \in Open, NEW s \in DOMAIN data[n]
  PROVE  LET new == ComputeHighestOpCounts(data[n], Predecessors(n), s)
         IN /\ new \in Nat /\ new <= PlaceOf(n, s)
            /\ InTime(n, s) => new = PlaceOf(n, s) \/ data[n][s].start = PlaceOf(n, s)
<1> DEFINE preds == Predecessors(n)
           cur == data[n]
           C == {i \in On(preds, s) : preds[i].data[s].start >= cur[s].start}
           sum == cur[s].start + OpsOf(preds, C, s)
           new == ComputeHighestOpCounts(cur, preds, s)
<1>0. QueueTyped BY DEF QueueInv
<1>1. PICK q, k : Collected(n, preds, q, k) BY <1>0, CollectedIs
<1>2. ASSUME NEW i \in 1..k
      PROVE  /\ q[i] \in Open /\ q[i] < n /\ q[i] \in Pred(n)
             /\ preds[i].data = data[q[i]] /\ preds[i].number = q[i]
  <2>1. q[i] \in Pred(n) /\ preds[i].data = data[q[i]] /\ preds[i].number = q[i]
    BY <1>1 DEF Collected
  <2> QED BY <2>1 DEF Pred, Older
<1>3. new = Adjusted(cur, preds, s, sum) BY DEF ComputeHighestOpCounts
<1> DEFINE M == {q[i] : i \in C}
<1>4. k \in Nat /\ C \in SUBSET (1..k) /\ On(preds, s) = {i \in 1..k : s \in DOMAIN data[q[i]]}
  BY <1>1, <1>2 DEF Collected, On
<1>5. ASSUME NEW i \in C
      PROVE  /\ q[i] \in Open /\ q[i] < n /\ s \in DOMAIN data[q[i]]
             /\ data[q[i]][s].start >= cur[s].start
             /\ preds[i].data[s].ops = data[q[i]][s].ops /\ data[q[i]][s].ops \in Nat
  <2>1. i \in 1..k /\ s \in DOMAIN data[q[i]] /\ data[q[i]][s].start >= cur[s].start
    BY <1>2, <1>4
  <2>2. q[i] \in Open /\ q[i] < n /\ preds[i].data = data[q[i]] BY <1>2, <2>1
  <2> HIDE DEF preds, cur, C
  <2> QED BY <1>0, <2>1, <2>2, DataType
<1>6. \A m \in M : m \in Open /\ m < n /\ s \in DOMAIN data[m] /\ data[m][s].start >= cur[s].start
  BY <1>5
<1>7. OpsOf(preds, C, s) = SumOps(M, s)
  <2>1. \A i, j \in 1..k : q[i] = q[j] => i = j BY <1>1 DEF Collected
  <2>2. \A i \in C : preds[i].data[s].ops = data[q[i]][s].ops /\ data[q[i]][s].ops \in Nat
    BY <1>5
  <2>3. Numbered(preds, q, k, C, s) BY <1>4, <2>1, <2>2 DEF Numbered
  <2> HIDE DEF preds, cur, C
  <2>4. OpsAre(preds, q, C, s) BY <2>3, OpsOfAre, Zenon
  <2> QED BY <2>4 DEF OpsAre
<1>8. SumOps(M, s) \in Nat /\ cur[s].start + SumOps(M, s) <= PlaceOf(n, s)
  <2>1. M \in SUBSET Open BY <1>6
  <2> HIDE DEF M
  <2> QED BY <1>6, <2>1, CountedFits
<1>9. /\ cur[s].start \in Nat /\ PlaceOf(n, s) \in Nat /\ s \in Selectors /\ n \in Nat
  BY <1>0, DataType
<1>10. sum \in Nat /\ sum <= PlaceOf(n, s) /\ sum = cur[s].start + SumOps(M, s) BY <1>7, <1>8, <1>9
<1> DEFINE last == q[k]
<1>11. ASSUME k # 0
       PROVE  /\ k \in 1..k /\ last \in Open /\ last < n /\ preds[k].data = data[last]
              /\ preds[k].number = last
  BY <1>2, <1>4, <1>11
<1>12. ASSUME k # 0, s \in DOMAIN data[last]
       PROVE  /\ End(preds[k].data[s]) \in Nat /\ End(preds[k].data[s]) <= PlaceOf(n, s)
              /\ End(preds[k].data[s]) = End(data[last][s])
  <2> DEFINE l == last
  <2>1. l \in Open /\ l < n /\ preds[k].data = data[l] BY <1>11, <1>12
  <2>2. s \in DOMAIN data[l] BY <1>12
  <2> HIDE DEF l, preds, cur
  <2>3. data[l][s].start \in Nat /\ data[l][s].ops \in Nat /\ PlaceOf(l, s) \in Nat
    BY <1>0, <2>1, <2>2, DataType
  <2>4. PlaceOf(l, s) + data[l][s].ops <= PlaceOf(n, s) BY <2>1, <2>2, PlacesApart DEF cur
  <2>5. data[l][s].start <= PlaceOf(l, s) BY <2>1, <2>2 DEF QueueInv, Placed
  <2>6. End(data[l][s]) = data[l][s].start + data[l][s].ops BY DEF End
  <2> QED BY <1>9, <2>1, <2>3, <2>4, <2>5, <2>6 DEF l
<1>13. Len(preds) = k BY <1>1 DEF Collected
<1>14. new = IF k > 0 /\ s \in DOMAIN data[last] /\ End(preds[k].data[s]) > sum
             THEN End(preds[k].data[s]) ELSE sum
  <2>1. k > 0 => (k \in On(preds, s) <=> s \in DOMAIN data[last]) BY <1>4
  <2> HIDE DEF preds, cur, last, sum, new
  <2> QED BY <1>3, <1>13, <2>1 DEF Adjusted
<1>15. new \in Nat /\ new <= PlaceOf(n, s) /\ new >= sum
  <2> HIDE DEF preds, cur, last, sum, new, C
  <2> QED BY <1>4, <1>9, <1>10, <1>12, <1>14
<1>16. ASSUME InTime(n, s), s \notin executed[n] PROVE new = PlaceOf(n, s)
  <2> DEFINE W == Waiting(n, s)
  <2>1. PlaceOf(n, s) = Turn(n, s) BY <1>16 DEF PlaceOf
  <2>2. ASSUME NEW m \in W PROVE m \in Pred(n) /\ \E i \in 1..k : q[i] = m
    <3>1. m \in Older(n, Open) /\ s \in DOMAIN data[m] \cap DOMAIN data[n] BY DEF Waiting
    <3>2. m \in Pred(n) BY <3>1 DEF Pred, Related
    <3> QED BY <1>1, <3>2 DEF Collected
  <2>3. ASSUME NEW i \in On(preds, s), s \notin executed[q[i]]
        PROVE  data[q[i]][s].start = Turn(q[i], s) /\ q[i] \in W
    <3>1. s \in sure[q[i]] BY <1>2, <1>4, <1>16 DEF InTime
    <3>2. q[i] \in Open /\ q[i] < n /\ s \in DOMAIN data[q[i]] BY <1>2, <1>4
    <3>3. Placed(q[i], s) BY <3>2 DEF QueueInv
    <3> QED BY <2>3, <3>1, <3>2, <3>3 DEF Placed, PlaceOf, Waiting, Older
  <2>4. CASE cur[s].start = opCount[s]
    <3>1. ASSUME NEW m \in M PROVE m \in W
      <4>1. PICK i \in C : q[i] = m OBVIOUS
      <4>2. i \in On(preds, s) /\ m \in Open /\ s \in DOMAIN data[m] BY <1>5, <4>1
      <4>3. data[m][s].start >= opCount[s] BY <1>5, <2>4, <4>1
      <4>4. s \in executed[m] => End(data[m][s]) <= opCount[s] BY <4>2 DEF QueueInv, Placed
      <4>5. /\ data[m][s].start \in Nat /\ data[m][s].ops \in Nat /\ data[m][s].ops # 0
            /\ opCount[s] \in Nat
        BY <1>0, <1>9, <4>2, DataType, TurnType
      <4>6. s \notin executed[m] BY <4>3, <4>4, <4>5 DEF End
      <4> QED BY <2>3, <4>1, <4>2, <4>6
    <3>2. ASSUME NEW m \in W PROVE m \in M
      <4>1. PICK i \in 1..k : q[i] = m BY <2>2
      <4>2. s \in DOMAIN data[m] \ executed[m] BY DEF Waiting
      <4>3. i \in On(preds, s) BY <1>4, <4>1, <4>2
      <4>4. data[m][s].start = Turn(m, s) BY <2>3, <4>1, <4>2, <4>3
      <4>5. opCount[s] <= Turn(m, s) BY <1>0, <1>9, TurnType
      <4>6. preds[i].data = data[m] BY <1>2, <4>1
      <4>7. i \in C
        <5> HIDE DEF preds
        <5> QED BY <1>9, <2>4, <4>3, <4>4, <4>5, <4>6
      <4> QED BY <4>1, <4>7
    <3>3. M = W BY <3>1, <3>2
    <3>4. Turn(n, s) = opCount[s] + SumOps(W, s) BY DEF Turn, SumOps
    <3>5. sum = Turn(n, s) BY <1>10, <2>4, <3>3, <3>4
    <3> HIDE DEF sum, new, preds, cur, M, W
    <3> QED BY <1>9, <1>10, <1>15, <2>1, <3>5
  <2>5. CASE cur[s].start # opCount[s]
    <3>1. PICK m \in Older(n, Open) :
            s \in DOMAIN data[m] \ executed[m] /\ preds[Len(preds)].number = m
      BY <1>16, <2>5 DEF InTime
    <3>2. m \in W BY <3>1 DEF Waiting
    <3>3. k # 0 BY <1>4, <2>2, <3>2
    <3>4. last = m BY <1>11, <1>13, <3>1, <3>3
    <3>5. k \in On(preds, s) BY <1>4, <3>1, <3>3, <3>4
    <3>6. data[m][s].start = Turn(m, s) BY <2>3, <3>1, <3>4, <3>5
    <3>7. ASSUME NEW j \in W PROVE j <= m
      <4>1. PICK i \in 1..k : q[i] = j BY <2>2
      <4>2. i = k \/ i < k BY <1>4
      <4>3. j \in Nat /\ m \in Nat BY <1>0, <3>2, WaitingOps
      <4>4. i < k => q[i] < q[k] BY <1>1, <1>11, <3>3 DEF Collected, Ascends
      <4> QED BY <3>4, <4>1, <4>2, <4>3, <4>4
    <3>8. Turn(n, s) = Turn(m, s) + data[m][s].ops
      <4> HIDE DEF preds, cur, last, sum, new, C, M
      <4> QED BY <1>0, <1>9, <3>2, <3>7, TurnAfter
    <3>9. End(preds[k].data[s]) = Turn(n, s) BY <1>12, <3>1, <3>3, <3>4, <3>6, <3>8 DEF End
    <3>10. s \in DOMAIN data[last] /\ k > 0 BY <1>4, <3>1, <3>3, <3>4
    <3> HIDE DEF sum, new, preds, cur, M, W, last, C
    <3> QED BY <1>9, <1>10, <1>14, <1>15, <2>1, <3>9, <3>10
  <2> QED BY <2>4, <2>5
<1>17. s \in executed[n] => data[n][s].start = PlaceOf(n, s) BY DEF PlaceOf
<1> QED BY <1>15, <1>16, <1>17

-----------------------------------------------------------------------------
(* The steps.                                                              *)

\* A turn does not change while the same proposals wait with the same operations.
LEMMA TurnStays ==
  ASSUME NEW n, NEW s, Waiting(n, s)' = Waiting(n, s), opCount'[s] = opCount[s],
         \A m \in Waiting(n, s) : data'[m][s].ops = data[m][s].ops
  PROVE  Turn(n, s)' = Turn(n, s)
<1> DEFINE W == Waiting(n, s)
           f == [m \in W |-> data[m][s].ops]
           g == [m \in W |-> data'[m][s].ops]
<1>1. f = g OBVIOUS
<1>2. Turn(n, s) = opCount[s] + SumFunctionOnSet(f, W) BY DEF Turn
<1>3. Turn(n, s)' = opCount'[s] + SumFunctionOnSet(g, W) BY DEF Turn
<1> HIDE DEF f, g
<1> QED BY <1>1, <1>2, <1>3

\* Turns after a step are numbers too.
LEMMA TurnTypeNext ==
  ASSUME NEW n, NEW s \in Selectors
  PROVE  (QueueTyped => /\ Turn(n, s) \in Nat /\ opCount[s] \in Nat /\ opCount[s] <= Turn(n, s)
                        /\ Waiting(n, s) = {} => Turn(n, s) = opCount[s])'
<1>1. QueueTyped => /\ Turn(n, s) \in Nat /\ opCount[s] \in Nat /\ opCount[s] <= Turn(n, s)
                    /\ Waiting(n, s) = {} => Turn(n, s) = opCount[s]
  BY TurnType
<1> QED BY <1>1, PTL

\* What keeps a proposal where it is.
Unmoved(n) ==
  /\ data'[n] = data[n] /\ view'[n] = view[n] /\ sure'[n] = sure[n]
  /\ intime'[n] = intime[n]

\* It is then placed as before, if its turn and the executed counts agree.
LEMMA PlacedStays ==
  ASSUME NEW n, NEW s, Placed(n, s), Unmoved(n), PlaceOf(n, s)' = PlaceOf(n, s),
         data[n][s].start \in Nat, data[n][s].ops \in Nat, opCount[s] \in Nat,
         opCount'[s] \in Nat, opCount[s] <= opCount'[s],
         s \in executed'[n] => s \in executed[n] \/ End(data[n][s]) <= opCount'[s]
  PROVE  Placed(n, s)'
<1>1. End(data[n][s]) \in Nat BY DEF End
<1>2. ComputeHighestOpCounts(data[n], view[n][1], s)'
        = ComputeHighestOpCounts(data[n], view[n][1], s)
  BY DEF Unmoved
<1>3. End(data[n][s])' = End(data[n][s]) BY DEF Unmoved, End
<1>4. s \in executed'[n] => End(data[n][s]) <= opCount'[s] BY <1>1 DEF Placed
<1> QED BY <1>2, <1>3, <1>4 DEF Placed, Unmoved

\* It starts where no proposal is open.
LEMMA QueueInit == PredInit => QueueInv
<1> SUFFICES ASSUME PredInit PROVE QueueInv OBVIOUS
<1>1. Open = {} /\ DOMAIN executed = {} BY DEF PredInit, Open
<1>2. QueueTyped
  <2>1. OpenOK BY <1>1, FS_EmptySet DEF OpenOK
  <2> QED BY <1>1, <2>1 DEF QueueTyped, PredInit
<1> QED BY <1>1, <1>2 DEF QueueInv, Ordered

\* A new proposal is behind all that are open.
LEMMA CreateStep ==
  ASSUME QueueInv, NEW n \in PRs, NEW sh \in Shapes, Create(n, sh)
  PROVE  QueueInv'
<1> DEFINE d == [s \in DOMAIN sh |-> [start |-> opCount[s], ops |-> sh[s]]]
<1>0. QueueTyped BY DEF QueueInv
<1>1. /\ n \notin Open \cup merged /\ Older(n, PRs) \subseteq Open \cup merged
      /\ data' = [m \in Open \cup {n} |-> IF m = n THEN d ELSE data[m]]
      /\ executed' = [m \in Open \cup {n} |-> IF m = n THEN {} ELSE executed[m]]
      /\ opCount' = opCount /\ merged' = merged /\ view' = view /\ intime' = intime
      /\ sure' = sure
  BY DEF Create
<1>2. \A s \in DOMAIN sh : s \in Selectors /\ sh[s] \in Nat \ {0} /\ opCount[s] \in Nat
  BY <1>0, PredecessorsAssumption DEF Selectors, QueueTyped
<1>3. Open' = Open \cup {n} /\ data'[n] = d /\ executed'[n] = {} /\ DOMAIN executed' = Open'
      /\ \A m \in Open : data'[m] = data[m] /\ executed'[m] = executed[m] /\ m # n
  BY <1>1 DEF Open
<1>4. n \in Nat BY PredecessorsAssumption
<1>5. sure[n] = {} /\ view[n] = NotLoaded BY <1>0, <1>1 DEF QueueTyped
<1>6. ASSUME NEW m \in Open PROVE m < n /\ m \in Nat
  <2>1. m \in Nat /\ m \in PRs /\ m # n BY <1>0, <1>1 DEF QueueTyped, OpenOK
  <2>2. Older(m, PRs) \subseteq Open \cup merged BY <1>0 DEF QueueTyped
  <2>3. ~(n < m) BY <1>1, <2>2 DEF Older
  <2> QED BY <1>4, <2>1, <2>3
<1>7. QueueTyped'
  <2>1. OpenOK'
    <3>1. IsFiniteSet(Open') BY <1>0, <1>3, FS_AddElement DEF QueueTyped, OpenOK
    <3>2. Open' \subseteq Nat BY <1>0, <1>3, <1>4 DEF QueueTyped, OpenOK
    <3> QED BY <3>1, <3>2 DEF OpenOK
  <2>2. (opCount \in [Selectors -> Nat])' BY <1>0, <1>1 DEF QueueTyped
  <2>3. /\ Open' \subseteq PRs /\ merged' \subseteq PRs /\ Open' \cap merged' = {}
    BY <1>0, <1>1, <1>3 DEF QueueTyped
  <2>4. ASSUME NEW m \in Open', NEW s \in DOMAIN data'[m]
        PROVE  s \in Selectors /\ data'[m][s] \in [start : Nat, ops : Nat \ {0}]
    <3>1. CASE m = n
      <4>1. s \in DOMAIN sh /\ data'[m][s] = [start |-> opCount[s], ops |-> sh[s]]
        BY <1>3, <3>1
      <4> QED BY <1>2, <4>1
    <3>2. CASE m # n
      <4>1. m \in Open /\ data'[m] = data[m] BY <1>3, <3>2
      <4> QED BY <1>0, <4>1 DEF QueueTyped
    <3> QED BY <3>1, <3>2
  <2>5. DOMAIN executed' = Open' /\ \A m \in Open' : executed'[m] \subseteq DOMAIN data'[m]
    BY <1>0, <1>3 DEF QueueTyped
  <2>6. \A m \in Open' \cup merged' : Older(m, PRs) \subseteq Open' \cup merged'
    BY <1>0, <1>1, <1>3 DEF QueueTyped
  <2>7. \A m \in PRs \ (Open' \cup merged') : sure'[m] = {} /\ view'[m] = NotLoaded
    BY <1>0, <1>1, <1>3 DEF QueueTyped
  <2>8. /\ DOMAIN view' = PRs /\ DOMAIN intime' = PRs /\ DOMAIN sure' = PRs
        /\ \A m \in PRs \ merged' : view'[m] = NotLoaded => intime'[m] = {}
    BY <1>0, <1>1 DEF QueueTyped
  <2> QED BY <2>1, <2>2, <2>3, <2>4, <2>5, <2>6, <2>7, <2>8 DEF QueueTyped
<1>8. ASSUME NEW m \in Open, NEW s \in Selectors PROVE PlaceOf(m, s)' = PlaceOf(m, s)
  <2>1. Older(m, Open') = Older(m, Open)
    <3>1. m \in Nat /\ n \in Nat /\ m < n BY <1>4, <1>6
    <3>2. ~(n < m) BY <3>1
    <3> QED BY <1>3, <3>2 DEF Older
  <2>2. \A k \in Older(m, Open) : data'[k] = data[k] /\ executed'[k] = executed[k]
    BY <1>3 DEF Older
  <2>3. Waiting(m, s)' = Waiting(m, s) BY <2>1, <2>2 DEF Waiting
  <2>4. \A k \in Waiting(m, s) : data'[k][s].ops = data[k][s].ops BY <2>2 DEF Waiting
  <2>5. Turn(m, s)' = Turn(m, s) BY <1>1, <2>3, <2>4, TurnStays
  <2> QED BY <1>3, <2>5 DEF PlaceOf
<1>9. ASSUME NEW m \in Open', NEW s \in DOMAIN data'[m] PROVE Placed(m, s)'
  <2>1. CASE m = n
    <3>1. s \in Selectors /\ data'[n][s].start = opCount[s] BY <1>2, <1>3, <2>1
    <3>2. Turn(n, s)' \in Nat /\ opCount'[s] <= Turn(n, s)'
      BY <1>7, <3>1, TurnTypeNext
    <3>3. s \notin executed'[n] BY <1>3
    <3> QED BY <1>1, <1>5, <2>1, <3>1, <3>2, <3>3 DEF Placed, PlaceOf
  <2>2. CASE m # n
    <3>1. m \in Open /\ s \in DOMAIN data[m] BY <1>3, <2>2
    <3>2. /\ s \in Selectors /\ data[m][s].start \in Nat /\ data[m][s].ops \in Nat
          /\ opCount[s] \in Nat
      BY <1>0, <3>1, DataType DEF QueueTyped
    <3>3. Placed(m, s) BY <3>1 DEF QueueInv
    <3>4. Unmoved(m) BY <1>1, <1>3, <3>1 DEF Unmoved
    <3>5. PlaceOf(m, s)' = PlaceOf(m, s) BY <1>8, <3>1, <3>2
    <3>6. opCount'[s] = opCount[s] /\ executed'[m] = executed[m] BY <1>1, <1>3, <3>1
    <3> QED BY <3>2, <3>3, <3>4, <3>5, <3>6, PlacedStays
  <2> QED BY <2>1, <2>2
<1>10. Ordered'
  <2> SUFFICES ASSUME NEW m \in Open', NEW k \in Open', m < k,
                      NEW s \in DOMAIN data'[m] \cap executed'[k]
               PROVE  s \in executed'[m] /\ End(data'[m][s]) <= data'[k][s].start
    BY DEF Ordered, End
  <2>1. k \in Open BY <1>3
  <2>2. m \in Open
    <3>1. k < n /\ k \in Nat /\ n \in Nat BY <1>4, <1>6, <2>1
    <3>2. m # n BY <3>1
    <3> QED BY <1>3, <3>2
  <2> QED BY <1>3, <2>1, <2>2 DEF QueueInv, Ordered
<1> QED BY <1>7, <1>9, <1>10 DEF QueueInv

\* A step that concerns proposal n alone and leaves what was executed.
UpdateStep(n) ==
  /\ opCount' = opCount /\ executed' = executed /\ merged' = merged /\ Open' = Open
  /\ DOMAIN view' = PRs /\ DOMAIN intime' = PRs /\ DOMAIN sure' = PRs
  /\ \A m \in Open \ {n} : data'[m] = data[m]
  /\ \A m \in PRs \ {n} : view'[m] = view[m] /\ intime'[m] = intime[m] /\ sure'[m] = sure[m]
  /\ view'[n] = NotLoaded => intime'[n] = {}
  /\ DOMAIN data'[n] = DOMAIN data[n]
  /\ \A s \in DOMAIN data[n] :
       /\ data'[n][s] \in [start : Nat, ops : Nat \ {0}] /\ data'[n][s].ops = data[n][s].ops
       /\ s \in executed[n] => data'[n][s] = data[n][s]

\* It moves the place of no proposal.
LEMMA UpdatePlaces ==
  ASSUME QueueTyped, NEW n \in Open, UpdateStep(n), NEW m \in Open, NEW s \in DOMAIN data[m]
  PROVE  PlaceOf(m, s)' = PlaceOf(m, s)
<1>0. s \in Selectors BY DataType
<1>1. \A k \in Open : DOMAIN data'[k] = DOMAIN data[k] /\ executed'[k] = executed[k]
  BY DEF UpdateStep
<1>2. \A k \in Open : \A c \in DOMAIN data[k] : data'[k][c].ops = data[k][c].ops
  BY DEF UpdateStep
<1>3. Open' = Open BY DEF UpdateStep
<1>4. Waiting(m, s)' = Waiting(m, s) BY <1>1, <1>3 DEF Waiting, Older
<1>5. \A k \in Waiting(m, s) : data'[k][s].ops = data[k][s].ops BY <1>2 DEF Waiting, Older
<1>6. Turn(m, s)' = Turn(m, s) BY <1>4, <1>5, TurnStays DEF UpdateStep
<1>7. s \in executed[m] => data'[m][s] = data[m][s] BY DEF UpdateStep
<1> QED BY <1>1, <1>6, <1>7 DEF PlaceOf

\* So it keeps the queue if it keeps n where it may be.
LEMMA UpdateKeeps ==
  ASSUME QueueInv, NEW n \in Open, UpdateStep(n), \A s \in DOMAIN data[n] : Placed(n, s)'
  PROVE  QueueInv'
<1>0. QueueTyped /\ n \in PRs BY DEF QueueInv, QueueTyped
<1>1. /\ opCount' = opCount /\ executed' = executed /\ merged' = merged /\ Open' = Open
      /\ \A m \in Open \ {n} : data'[m] = data[m]
      /\ DOMAIN data'[n] = DOMAIN data[n]
      /\ \A s \in executed[n] : data'[n][s] = data[n][s]
  BY <1>0 DEF UpdateStep, QueueTyped
<1>2. QueueTyped'
  <2>1. OpenOK' BY <1>0, <1>1 DEF QueueTyped, OpenOK
  <2>2. \A m \in Open' : \A s \in DOMAIN data'[m] :
          s \in Selectors /\ data'[m][s] \in [start : Nat, ops : Nat \ {0}]
    BY <1>0, <1>1 DEF QueueTyped, UpdateStep
  <2>3. \A m \in Open' : executed'[m] \subseteq DOMAIN data'[m] BY <1>0, <1>1 DEF QueueTyped
  <2>4. \A m \in PRs \ (Open' \cup merged') : sure'[m] = {} /\ view'[m] = NotLoaded
    BY <1>0, <1>1 DEF QueueTyped, UpdateStep
  <2>5. \A m \in PRs \ merged' : view'[m] = NotLoaded => intime'[m] = {}
    BY <1>0, <1>1 DEF QueueTyped, UpdateStep
  <2>6. /\ DOMAIN view' = PRs /\ DOMAIN intime' = PRs /\ DOMAIN sure' = PRs
    BY DEF UpdateStep
  <2> QED BY <1>0, <1>1, <2>1, <2>2, <2>3, <2>4, <2>5, <2>6 DEF QueueTyped
<1>3. ASSUME NEW m \in Open', NEW s \in DOMAIN data'[m] PROVE Placed(m, s)'
  <2>1. CASE m = n BY <1>1, <2>1
  <2>2. CASE m # n
    <3>1. m \in Open /\ s \in DOMAIN data[m] /\ m \in PRs BY <1>0, <1>1, <2>2 DEF QueueTyped
    <3>2. /\ s \in Selectors /\ data[m][s].start \in Nat /\ data[m][s].ops \in Nat
          /\ opCount[s] \in Nat
      BY <1>0, <3>1, DataType DEF QueueTyped
    <3>3. Placed(m, s) BY <3>1 DEF QueueInv
    <3>4. Unmoved(m) BY <2>2, <3>1 DEF Unmoved, UpdateStep
    <3>5. PlaceOf(m, s)' = PlaceOf(m, s) BY <1>0, <3>1, UpdatePlaces
    <3> QED BY <1>1, <3>2, <3>3, <3>4, <3>5, PlacedStays
  <2> QED BY <2>1, <2>2
<1>4. Ordered'
  <2> SUFFICES ASSUME NEW m \in Open, NEW k \in Open, m < k,
                      NEW s \in DOMAIN data'[m] \cap executed[k]
               PROVE  s \in executed[m] /\ End(data'[m][s]) <= data'[k][s].start
    BY <1>1 DEF Ordered, End
  <2>1. s \in DOMAIN data[m] BY <1>1
  <2>2. s \in executed[m] /\ End(data[m][s]) <= data[k][s].start
    BY <2>1 DEF QueueInv, Ordered
  <2>3. data'[m][s] = data[m][s] /\ data'[k][s] = data[k][s] BY <1>1, <2>2
  <2> QED BY <2>2, <2>3
<1> QED BY <1>2, <1>3, <1>4 DEF QueueInv

\* A proposal that is built again starts at the op count, and is not sure.
LEMMA RebuildStep ==
  ASSUME QueueInv, NEW n \in PRs, Rebuild(n)
  PROVE  QueueInv'
<1>0. QueueTyped /\ n \in Open BY DEF QueueInv, Rebuild
<1>1. /\ executed[n] = {} /\ view[n] = NotLoaded /\ opCount' = opCount /\ executed' = executed
      /\ merged' = merged /\ view' = view /\ intime' = intime /\ sure' = [sure EXCEPT ![n] = {}]
      /\ data' = [data EXCEPT ![n] = [s \in DOMAIN data[n] |->
                    [data[n][s] EXCEPT !.start = opCount[s]]]]
  BY DEF Rebuild
<1>2. Open' = Open /\ DOMAIN data'[n] = DOMAIN data[n] /\ \A m \in Open \ {n} : data'[m] = data[m]
  BY <1>0, <1>1 DEF Open
<1>3. ASSUME NEW s \in DOMAIN data[n]
      PROVE  /\ data'[n][s] \in [start : Nat, ops : Nat \ {0}]
             /\ data'[n][s].ops = data[n][s].ops /\ data'[n][s].start = opCount[s]
  <2>1. data[n][s] \in [start : Nat, ops : Nat \ {0}] /\ opCount[s] \in Nat
    BY <1>0 DEF QueueTyped
  <2>2. data'[n][s] = [data[n][s] EXCEPT !.start = opCount[s]] BY <1>0, <1>1 DEF Open
  <2> QED BY <2>1, <2>2
<1>4. sure'[n] = {} BY <1>0, <1>1 DEF QueueTyped
<1>5. UpdateStep(n) BY <1>0, <1>1, <1>2, <1>3 DEF UpdateStep, QueueTyped
<1>6. ASSUME NEW s \in DOMAIN data[n] PROVE Placed(n, s)'
  <2>1. PlaceOf(n, s)' = PlaceOf(n, s) BY <1>0, <1>5, UpdatePlaces
  <2>2. s \in Selectors /\ PlaceOf(n, s) = Turn(n, s) BY <1>0, <1>1, DataType DEF PlaceOf
  <2>3. opCount[s] <= Turn(n, s) BY <1>0, <2>2, TurnType
  <2> QED BY <1>1, <1>3, <1>4, <2>1, <2>2, <2>3 DEF Placed
<1> QED BY <1>0, <1>5, <1>6, UpdateKeeps

\* What an update collects places its proposal.
LEMMA CollectStep ==
  ASSUME QueueInv, NEW n \in PRs, Collect(n)
  PROVE  QueueInv'
<1>0. QueueTyped /\ n \in Open BY DEF QueueInv, Collect
<1>1. /\ opCount' = opCount /\ data' = data /\ executed' = executed /\ merged' = merged
      /\ sure' = sure /\ view' = [view EXCEPT ![n] = <<Predecessors(n)>>]
      /\ intime' = [intime EXCEPT ![n] = {s \in DOMAIN data[n] : InTime(n, s)}]
  BY DEF Collect
<1>2. view'[n] = <<Predecessors(n)>> /\ intime'[n] = {s \in DOMAIN data[n] : InTime(n, s)}
  BY <1>0, <1>1 DEF QueueTyped
<1>3. view'[n] # NotLoaded /\ view'[n][1] = Predecessors(n) BY <1>2 DEF NotLoaded
<1>4. \A s \in DOMAIN data[n] : data[n][s] \in [start : Nat, ops : Nat \ {0}]
  BY <1>0 DEF QueueTyped
<1>5. UpdateStep(n) BY <1>0, <1>1, <1>3, <1>4 DEF UpdateStep, QueueTyped, Open
<1>6. ASSUME NEW s \in DOMAIN data[n] PROVE Placed(n, s)'
  <2> DEFINE new == ComputeHighestOpCounts(data[n], Predecessors(n), s)
  <2>1. PlaceOf(n, s)' = PlaceOf(n, s) BY <1>0, <1>5, UpdatePlaces
  <2>2. /\ new \in Nat /\ new <= PlaceOf(n, s)
        /\ InTime(n, s) => new = PlaceOf(n, s) \/ data[n][s].start = PlaceOf(n, s)
    BY <1>0, CollectCounts
  <2>3. ComputeHighestOpCounts(data[n], view[n][1], s)' = new BY <1>1, <1>3
  <2>4. Placed(n, s) BY <1>0 DEF QueueInv
  <2> HIDE DEF new
  <2>5. End(data[n][s])' = End(data[n][s]) BY <1>1 DEF End
  <2> QED BY <1>1, <1>2, <2>1, <2>2, <2>3, <2>4, <2>5 DEF Placed
<1> QED BY <1>0, <1>5, <1>6, UpdateKeeps

\* Applying the counts raises a proposal at most to its place.
LEMMA ApplyStep ==
  ASSUME QueueInv, NEW n \in PRs, Apply(n)
  PROVE  QueueInv'
<1> DEFINE new(s) == ComputeHighestOpCounts(data[n], view[n][1], s)
<1>0. QueueTyped /\ n \in Open BY DEF QueueInv, Apply
<1>1. /\ view[n] # NotLoaded /\ opCount' = opCount /\ executed' = executed
      /\ merged' = merged /\ view' = [view EXCEPT ![n] = NotLoaded]
      /\ intime' = [intime EXCEPT ![n] = {}] /\ sure' = [sure EXCEPT ![n] = sure[n] \cup intime[n]]
      /\ data' = [data EXCEPT ![n] = [s \in DOMAIN data[n] |->
                    IF data[n][s].start < new(s) THEN [data[n][s] EXCEPT !.start = new(s)]
                    ELSE data[n][s]]]
  BY DEF Apply
<1>2. Open' = Open /\ DOMAIN data'[n] = DOMAIN data[n] /\ \A m \in Open \ {n} : data'[m] = data[m]
  BY <1>0, <1>1 DEF Open
<1>3. /\ view'[n] = NotLoaded /\ intime'[n] = {} /\ sure'[n] = sure[n] \cup intime[n]
  BY <1>0, <1>1 DEF QueueTyped
<1>4. ASSUME NEW s \in DOMAIN data[n]
      PROVE  /\ data'[n][s] \in [start : Nat, ops : Nat \ {0}] /\ data'[n][s].ops = data[n][s].ops
             /\ data'[n][s].start <= PlaceOf(n, s)
             /\ data[n][s].start = PlaceOf(n, s) => data'[n][s] = data[n][s]
             /\ s \in intime[n] => data'[n][s].start = PlaceOf(n, s)
  <2> DEFINE d == data[n][s]
             c == new(s)
             a == PlaceOf(n, s)
  <2>1. d \in [start : Nat, ops : Nat \ {0}] BY <1>0 DEF QueueTyped
  <2>2. data'[n][s] = IF d.start < c THEN [d EXCEPT !.start = c] ELSE d
    BY <1>0, <1>1 DEF Open
  <2>3. /\ c \in Nat /\ c <= a /\ d.start <= a /\ (s \in intime[n] => c = a \/ d.start = a)
    <3>1. Placed(n, s) BY <1>0 DEF QueueInv
    <3> QED BY <1>1, <3>1 DEF Placed
  <2>4. a \in Nat BY <1>0, DataType
  <2> HIDE DEF d, c, a
  <2>5. CASE d.start < c
    <3>1. data'[n][s] = [d EXCEPT !.start = c] BY <2>2, <2>5
    <3>2. data'[n][s] \in [start : Nat, ops : Nat \ {0}] /\ data'[n][s].ops = d.ops
          /\ data'[n][s].start = c
      BY <2>1, <2>3, <3>1
    <3>3. d.start # a /\ (s \in intime[n] => c = a) BY <2>1, <2>3, <2>4, <2>5
    <3> QED BY <2>3, <3>2, <3>3 DEF d, a
  <2>6. CASE ~(d.start < c)
    <3>1. data'[n][s] = d BY <2>2, <2>6
    <3>2. s \in intime[n] => d.start = a BY <2>1, <2>3, <2>4, <2>6
    <3> QED BY <2>1, <2>3, <3>1, <3>2 DEF d, a
  <2> QED BY <2>5, <2>6
<1>5. ASSUME NEW s \in executed[n] PROVE data'[n][s] = data[n][s]
  <2>1. s \in DOMAIN data[n] /\ data[n][s].start = PlaceOf(n, s) BY <1>0 DEF QueueTyped, PlaceOf
  <2> QED BY <1>4, <2>1
<1>6. UpdateStep(n)
  BY <1>0, <1>1, <1>2, <1>3, <1>4, <1>5 DEF UpdateStep, QueueTyped
<1>7. ASSUME NEW s \in DOMAIN data[n] PROVE Placed(n, s)'
  <2>1. PlaceOf(n, s)' = PlaceOf(n, s) BY <1>0, <1>6, UpdatePlaces
  <2>2. Placed(n, s) BY <1>0 DEF QueueInv
  <2>3. s \in sure[n] => data[n][s].start = PlaceOf(n, s) BY <2>2 DEF Placed
  <2>4. s \in sure'[n] => data'[n][s].start = PlaceOf(n, s) BY <1>3, <1>4, <2>3
  <2>5. s \in executed'[n] => End(data'[n][s]) <= opCount'[s] BY <1>1, <1>5, <2>2 DEF Placed
  <2>6. data'[n][s].start <= PlaceOf(n, s)' BY <1>4, <2>1
  <2>7. s \in sure'[n] => data'[n][s].start = PlaceOf(n, s)' BY <2>1, <2>4
  <2>8. End(data[n][s])' = End(data'[n][s]) BY DEF End
  <2> QED BY <1>3, <2>5, <2>6, <2>7, <2>8 DEF Placed
<1> QED BY <1>0, <1>6, <1>7, UpdateKeeps

\* An update that fails leaves its proposal where it was.
LEMMA UpdateFailsStep ==
  ASSUME QueueInv, NEW n \in PRs, UpdateFails(n)
  PROVE  QueueInv'
<1>0. QueueTyped /\ n \in Open BY DEF QueueInv, UpdateFails
<1>1. /\ opCount' = opCount /\ data' = data /\ executed' = executed /\ merged' = merged
      /\ sure' = sure /\ view' = [view EXCEPT ![n] = NotLoaded]
      /\ intime' = [intime EXCEPT ![n] = {}]
  BY DEF UpdateFails
<1>2. view'[n] = NotLoaded /\ intime'[n] = {} BY <1>0, <1>1 DEF QueueTyped
<1>3. \A s \in DOMAIN data[n] : data[n][s] \in [start : Nat, ops : Nat \ {0}]
  BY <1>0 DEF QueueTyped
<1>4. UpdateStep(n) BY <1>0, <1>1, <1>2, <1>3 DEF UpdateStep, QueueTyped, Open
<1>5. ASSUME NEW s \in DOMAIN data[n] PROVE Placed(n, s)'
  <2>1. PlaceOf(n, s)' = PlaceOf(n, s) BY <1>0, <1>4, UpdatePlaces
  <2>2. Placed(n, s) BY <1>0 DEF QueueInv
  <2>3. End(data[n][s])' = End(data[n][s]) BY <1>1 DEF End
  <2> QED BY <1>1, <1>2, <2>1, <2>2, <2>3 DEF Placed
<1> QED BY <1>0, <1>4, <1>5, UpdateKeeps

\* Executing a proposal on a chain moves the turns of none behind it.
LEMMA ExecuteStep ==
  ASSUME QueueInv, NEW n \in PRs, NEW s \in Selectors, Execute(n, s)
  PROVE  QueueInv'
<1> DEFINE Waits(m, t) == m \in Open /\ t \in DOMAIN data[m] \ executed[m]
           closes == executed[n] \cup {s} = DOMAIN data[n]
<1>0. QueueTyped BY DEF QueueInv
<1>1. /\ n \in Open /\ s \in DOMAIN data[n] \ executed[n] /\ data[n][s].start = opCount[s]
      /\ \A m \in Older(n, Open) : s \notin DOMAIN data[m] \ executed[m]
      /\ opCount' = [opCount EXCEPT ![s] = End(data[n][s])] /\ intime' = intime /\ sure' = sure
  BY DEF Execute
<1>3. /\ n \in PRs /\ data[n][s].start \in Nat /\ data[n][s].ops \in Nat /\ n \in Nat
      /\ opCount \in [Selectors -> Nat]
  BY <1>0, <1>1, DataType DEF QueueTyped
<1>4. /\ opCount'[s] = opCount[s] + data[n][s].ops
      /\ opCount' \in [Selectors -> Nat]
      /\ \A t \in Selectors : opCount[t] <= opCount'[t] /\ (t # s => opCount'[t] = opCount[t])
  <2>1. End(data[n][s]) = opCount[s] + data[n][s].ops /\ End(data[n][s]) \in Nat
    BY <1>1, <1>3 DEF End
  <2>2. opCount'[s] = End(data[n][s]) /\ \A t \in Selectors : t # s => opCount'[t] = opCount[t]
    BY <1>1, <1>3
  <2>3. opCount' \in [Selectors -> Nat] BY <1>1, <1>3, <2>1
  <2>4. opCount[s] <= opCount'[s] BY <1>3, <2>1, <2>2
  <2>5. \A t \in Selectors : t # s => opCount[t] <= opCount'[t] BY <1>3, <2>2
  <2> QED BY <2>1, <2>2, <2>3, <2>4, <2>5
<1>5. /\ Open' \subseteq Open /\ \A m \in Open : m # n => m \in Open'
      /\ DOMAIN executed' = Open' /\ DOMAIN view' = PRs
      /\ Open' \cup merged' = Open \cup merged /\ Open' \cap merged' = {}
      /\ merged \subseteq merged' /\ (n \in Open' \/ n \in merged')
      /\ \A m \in Open' : /\ data'[m] = data[m] /\ view'[m] = view[m]
                          /\ executed'[m] = IF m = n THEN executed[n] \cup {s} ELSE executed[m]
      /\ \A m \in PRs : m # n => view'[m] = view[m]
  <2>1. CASE closes
    <3>1. /\ data' = [m \in Open \ {n} |-> data[m]]
          /\ executed' = [m \in Open \ {n} |-> executed[m]]
          /\ merged' = merged \cup {n} /\ view' = [view EXCEPT ![n] = NotLoaded]
      BY <2>1 DEF Execute
    <3>2. Open' = Open \ {n} BY <3>1 DEF Open
    <3> QED BY <1>0, <1>1, <3>1, <3>2 DEF QueueTyped
  <2>2. CASE ~closes
    <3>1. /\ executed' = [executed EXCEPT ![n] = executed[n] \cup {s}]
          /\ data' = data /\ merged' = merged /\ view' = view
      BY <2>2 DEF Execute
    <3>2. Open' = Open BY <3>1 DEF Open
    <3> QED BY <1>0, <1>1, <3>1, <3>2 DEF QueueTyped
  <2> QED BY <2>1, <2>2
<1>6. ASSUME NEW m, NEW t
      PROVE  (m \in Open' /\ t \in DOMAIN data'[m] \ executed'[m])
               <=> Waits(m, t) /\ ~(m = n /\ t = s)
  <2>1. CASE m \in Open' BY <1>5, <2>1
  <2>2. CASE m \notin Open' /\ m = n
    <3>1. closes
      <4>1. ASSUME ~closes PROVE FALSE
        <5>1. data' = data BY <4>1 DEF Execute
        <5> QED BY <1>1, <2>2, <5>1 DEF Open
      <4> QED BY <4>1
    <3> QED BY <2>2, <3>1
  <2>3. CASE m \notin Open' /\ m # n BY <1>5, <2>3
  <2> QED BY <2>1, <2>2, <2>3
<1>7. ASSUME NEW k, NEW t
      PROVE  /\ Waiting(k, t)' = {m \in Waiting(k, t) : ~(m = n /\ t = s)}
             /\ \A m \in Waiting(k, t)' : data'[m] = data[m]
  <2>1. \A m : m \in Waiting(k, t)' <=>
               m < k /\ m \in Open' /\ t \in DOMAIN data'[m] \ executed'[m]
    BY DEF Waiting, Older
  <2>2. \A m : m \in Waiting(k, t) <=> m < k /\ Waits(m, t) BY DEF Waiting, Older
  <2>3. \A m \in Open' : data'[m] = data[m] BY <1>5
  <2> HIDE DEF Waits
  <2> QED BY <1>6, <2>1, <2>2, <2>3
<1>8. ASSUME NEW k \in Open', NEW t \in DOMAIN data[k] PROVE PlaceOf(k, t)' = PlaceOf(k, t)
  <2>0. k \in Open /\ t \in Selectors /\ data'[k] = data[k] BY <1>0, <1>5, DataType
  <2>1. CASE t # s
    <3>1. Waiting(k, t)' = Waiting(k, t) BY <1>7, <2>1
    <3>2. \A m \in Waiting(k, t) : data'[m][t].ops = data[m][t].ops BY <1>7, <3>1
    <3>3. Turn(k, t)' = Turn(k, t) BY <1>4, <2>0, <2>1, <3>1, <3>2, TurnStays
    <3>4. t \in executed'[k] <=> t \in executed[k] BY <1>5, <2>1
    <3> QED BY <2>0, <3>3, <3>4 DEF PlaceOf
  <2>2. CASE t = s /\ t \in executed[k]
    <3>1. t \in executed'[k] BY <1>5, <2>2
    <3> QED BY <2>0, <2>2, <3>1 DEF PlaceOf
  <2>3. CASE t = s /\ t \notin executed[k] /\ k = n
    <3>1. Waiting(n, s) = {} BY <1>1 DEF Waiting
    <3>2. Turn(n, s) = opCount[s] BY <1>0, <3>1, TurnType
    <3>3. s \in executed'[n] BY <1>5, <2>3
    <3> QED BY <1>1, <2>0, <2>3, <3>2, <3>3 DEF PlaceOf
  <2>4. CASE t = s /\ t \notin executed[k] /\ k # n
    <3> DEFINE W == Waiting(k, s)
               f == [m \in W |-> data[m][s].ops]
               g == [m \in W \ {n} |-> data[m][s].ops]
    <3>1. k \in Nat /\ ~(k < n)
      <4>1. k \notin Older(n, Open) BY <1>1, <2>4
      <4> QED BY <1>0, <2>0, <4>1 DEF Older, QueueTyped, OpenOK
    <3>2. n < k BY <1>3, <2>4, <3>1
    <3>3. n \in W BY <1>1, <3>2 DEF Waiting, Older
    <3>4. Waiting(k, s)' = W \ {n} BY <1>7
    <3>5. [m \in W \ {n} |-> data'[m][s].ops] = g BY <1>7, <3>4
    <3>6. Turn(k, s)' = opCount'[s] + SumFunctionOnSet(g, W \ {n}) BY <3>4, <3>5 DEF Turn
    <3>7. Turn(k, s) = opCount[s] + SumFunctionOnSet(f, W) BY DEF Turn
    <3>8. IsFiniteSet(W) /\ \A m \in W : f[m] \in Nat BY <1>0, WaitingOps
    <3>9. IsFiniteSet(W \ {n}) /\ \A m \in W \ {n} : f[m] \in Nat /\ f[m] = g[m]
      BY <3>8, FS_RemoveElement
    <3>10. f[n] = data[n][s].ops BY <3>3
    <3> HIDE DEF W, f, g
    <3>11. SumFunctionOnSet(f, W) = f[n] + SumFunctionOnSet(f, W \ {n})
      BY <3>3, <3>8, SumWithout, ZenonT(30)
    <3>12. SumFunctionOnSet(f, W \ {n}) \in Nat BY <3>9, SumType, ZenonT(30)
    <3>13. SumFunctionOnSet(f, W \ {n}) = SumFunctionOnSet(g, W \ {n})
      BY <3>9, SumSame
    <3> DEFINE a == SumFunctionOnSet(f, W \ {n})
               b == SumFunctionOnSet(f, W)
               o == data[n][s].ops
               oc == opCount[s]
    <3>14. b = o + a /\ a \in Nat /\ o \in Nat /\ oc \in Nat
      BY <1>3, <3>10, <3>11, <3>12
    <3>15. Turn(k, s) = oc + b /\ Turn(k, s)' = (oc + o) + a
      BY <1>4, <3>6, <3>7, <3>13
    <3> HIDE DEF a, b, o, oc
    <3>16. Turn(k, s)' = Turn(k, s) BY <3>14, <3>15
    <3>17. s \notin executed'[k] BY <1>5, <2>4
    <3> QED BY <2>0, <2>4, <3>16, <3>17 DEF PlaceOf
  <2> QED BY <2>1, <2>2, <2>3, <2>4
<1>9. QueueTyped'
  <2>1. OpenOK' BY <1>0, <1>5, FS_Subset DEF QueueTyped, OpenOK
  <2>2. Open' \subseteq PRs /\ merged' \subseteq PRs BY <1>0, <1>5 DEF QueueTyped
  <2>3. \A m \in Open' : \A t \in DOMAIN data'[m] :
          t \in Selectors /\ data'[m][t] \in [start : Nat, ops : Nat \ {0}]
    BY <1>0, <1>5 DEF QueueTyped
  <2>4. \A m \in Open' : executed'[m] \subseteq DOMAIN data'[m]
    BY <1>0, <1>1, <1>5 DEF QueueTyped
  <2>5. \A m \in Open' \cup merged' : Older(m, PRs) \subseteq Open' \cup merged'
    BY <1>0, <1>5 DEF QueueTyped
  <2>6. \A m \in PRs \ merged' : view'[m] = NotLoaded => intime'[m] = {}
    BY <1>0, <1>1, <1>5 DEF QueueTyped
  <2>7. \A m \in PRs \ (Open' \cup merged') : sure'[m] = {} /\ view'[m] = NotLoaded
    BY <1>0, <1>1, <1>5 DEF QueueTyped
  <2>8. DOMAIN intime' = PRs /\ DOMAIN sure' = PRs BY <1>0, <1>1 DEF QueueTyped
  <2> QED BY <1>4, <1>5, <2>1, <2>2, <2>3, <2>4, <2>5, <2>6, <2>7, <2>8 DEF QueueTyped
<1>10. ASSUME NEW k \in Open', NEW t \in DOMAIN data'[k] PROVE Placed(k, t)'
  <2>1. k \in Open /\ t \in DOMAIN data[k] BY <1>5
  <2>2. /\ t \in Selectors /\ data[k][t].start \in Nat /\ data[k][t].ops \in Nat
        /\ opCount[t] \in Nat /\ opCount'[t] \in Nat /\ opCount[t] <= opCount'[t]
    BY <1>0, <1>3, <1>4, <2>1, DataType
  <2>3. Placed(k, t) BY <2>1 DEF QueueInv
  <2>4. Unmoved(k) BY <1>1, <1>5 DEF Unmoved
  <2>5. PlaceOf(k, t)' = PlaceOf(k, t) BY <1>8, <2>1
  <2>6. t \in executed'[k] => t \in executed[k] \/ End(data[k][t]) <= opCount'[t]
    <3>1. End(data[n][s]) <= opCount'[s] BY <1>1, <1>3, <1>4 DEF End
    <3> QED BY <1>5, <3>1
  <2> QED BY <2>2, <2>3, <2>4, <2>5, <2>6, PlacedStays
<1>11. Ordered'
  <2> SUFFICES ASSUME NEW m \in Open', NEW k \in Open', m < k,
                      NEW t \in DOMAIN data'[m] \cap executed'[k]
               PROVE  t \in executed'[m] /\ End(data'[m][t]) <= data'[k][t].start
    BY DEF Ordered, End
  <2>1. /\ m \in Open /\ k \in Open /\ t \in DOMAIN data[m] /\ data'[m] = data[m]
        /\ data'[k] = data[k] /\ executed[m] \subseteq executed'[m]
    BY <1>5
  <2>2. CASE t \in executed[k] BY <2>1, <2>2 DEF QueueInv, Ordered
  <2>3. CASE t \notin executed[k]
    <3>1. k = n /\ t = s BY <1>5, <2>3
    <3>2. m \in Older(n, Open) BY <2>1, <3>1 DEF Older
    <3>3. s \in executed[m] BY <1>1, <2>1, <3>1, <3>2
    <3>4. End(data[m][s]) <= opCount[s] BY <2>1, <3>1, <3>3 DEF QueueInv, Placed
    <3> QED BY <1>1, <2>1, <3>1, <3>3, <3>4
  <2> QED BY <2>2, <2>3
<1> QED BY <1>9, <1>10, <1>11 DEF QueueInv

\* A step of the queue keeps its invariant.
LEMMA QueueStep == QueueInv /\ [PredNext]_predVars => QueueInv'
<1>1. ASSUME QueueInv, PredNext PROVE QueueInv'
  <2>1. PICK n \in PRs :
          \/ \E sh \in Shapes : Create(n, sh)
          \/ Rebuild(n) \/ Collect(n) \/ Apply(n) \/ UpdateFails(n)
          \/ \E s \in Selectors : Execute(n, s)
    BY <1>1 DEF PredNext
  <2>2. ASSUME NEW sh \in Shapes, Create(n, sh) PROVE QueueInv' BY <1>1, <2>2, CreateStep
  <2>3. ASSUME NEW s \in Selectors, Execute(n, s) PROVE QueueInv' BY <1>1, <2>3, ExecuteStep
  <2>4. CASE Rebuild(n) BY <1>1, <2>4, RebuildStep
  <2>5. CASE Collect(n) BY <1>1, <2>5, CollectStep
  <2>6. CASE Apply(n) BY <1>1, <2>6, ApplyStep
  <2>7. CASE UpdateFails(n) BY <1>1, <2>7, UpdateFailsStep
  <2> QED BY <2>1, <2>2, <2>3, <2>4, <2>5, <2>6, <2>7
<1>2. ASSUME QueueInv, UNCHANGED predVars PROVE QueueInv'
  <2> USE <1>2 DEF predVars
  <2>1. opCount' = opCount /\ data' = data /\ executed' = executed /\ merged' = merged
        /\ view' = view /\ intime' = intime /\ sure' = sure
    OBVIOUS
  <2>2. QueueTyped' BY <2>1 DEF QueueInv, QueueTyped, OpenOK, Open
  <2>3. Ordered' BY <2>1 DEF QueueInv, Ordered, Open, End
  <2>4. ASSUME NEW n \in Open, NEW s \in DOMAIN data[n] PROVE Placed(n, s)'
    BY <2>1, <2>4 DEF QueueInv, Placed, PlaceOf, Turn, Waiting, Older, Open, End
  <2> QED BY <2>1, <2>2, <2>3, <2>4 DEF QueueInv, Open
<1> QED BY <1>1, <1>2

\* The turns are those the placed proposals start at.
LEMMA QueueInTurn == QueueInv => InTurn
<1> SUFFICES ASSUME QueueInv, NEW n \in Open, NEW s \in (sure[n] \cap DOMAIN data[n]) \ executed[n]
             PROVE  data[n][s].start = Turn(n, s)
  BY DEF InTurn
<1>1. Placed(n, s) BY DEF QueueInv
<1> QED BY <1>1 DEF Placed, PlaceOf

\* The queue keeps its invariant.
THEOREM QueueSound == PredSpec => []QueueInv
<1> QED BY QueueInit, QueueStep, PTL DEF PredSpec

\* A proposal whose place was computed in time starts at the op count its chain
\* will have at its turn, whatever is executed, built and updated in between.
THEOREM QueueTurns == PredSpec => []InTurn
<1> QED BY QueueSound, QueueInTurn, PTL
=============================================================================

-------------------------- MODULE OperationsProofs --------------------------
(***************************************************************************)
(* Proofs about Operations for every set of calls and requests.            *)
(***************************************************************************)
EXTENDS Operations, FiniteSetTheorems, SequenceTheorems,
        WellFoundedInduction, TLAPS

-----------------------------------------------------------------------------
(* What the operators of Operations compute *)

(* A request that was made has all its fields. *)
LEMMA RequestFields ==
  ASSUME NEW r \in Requests
  PROVE  /\ r.kind \in {"op", "opN", "seq"}
         /\ r.def \in Ops \cup Seqs
         /\ r.input \in Inputs
         /\ r.key \in Keys
         /\ r.series \in Series \cup {NoSeries}
         /\ r.n \in Nat
         /\ r.kind # "opN" => r.n = 1
         /\ r.kind = "opN" <=> r.series # NoSeries
         /\ r # NoReq
<1>1. r \in OpReq \cup OpNReq \cup SeqReq
  BY ConstantsOK DEF ConstantsOK
<1>2. CASE r \in OpReq
  BY <1>2 DEF OpReq, NoReq
<1>3. CASE r \in OpNReq
  BY <1>3, ConstantsOK DEF OpNReq, NoReq, ConstantsOK
<1>4. CASE r \in SeqReq
  BY <1>4 DEF SeqReq, NoReq
<1> QED
  BY <1>1, <1>2, <1>3, <1>4

(* The first n elements of a sequence of at least n elements. *)
LEMMA PrefixType ==
  ASSUME NEW f \in Seq(Nat), NEW n \in Nat, Len(f) >= n
  PROVE  SubSeq(f, 1, n) \in Seq(Nat)
<1>1. \A i \in 1..n : f[i] \in Nat
  OBVIOUS
<1> QED
  BY <1>1, SubSeqProperties

(* The elements of an extended sequence, and of the rest of a sequence. *)
LEMMA AppendElements ==
  ASSUME NEW S, NEW q \in Seq(S), NEW e
  PROVE  /\ DOMAIN q = 1..Len(q) /\ Len(q) \in Nat
         /\ DOMAIN Append(q, e) = DOMAIN q \cup {Len(q) + 1}
         /\ Append(q, e)[Len(q) + 1] = e
         /\ \A k \in DOMAIN q : Append(q, e)[k] = q[k]
OBVIOUS

\* The head and the tail of a non-empty sequence, element by element.
LEMMA HeadTail ==
  ASSUME NEW S, NEW q \in Seq(S), q # <<>>
  PROVE  /\ 1 \in DOMAIN q /\ Head(q) = q[1] /\ q[1] \in S
         /\ \A k \in DOMAIN Tail(q) : k + 1 \in DOMAIN q /\ Tail(q)[k] = q[k + 1]
OBVIOUS

(* A non-empty set of positions of a log has a greatest element, by the    *)
(* well-foundedness of < on the distances from the end.                    *)
LEMMA MaxExists ==
  ASSUME NEW n \in Nat, NEW S \in SUBSET (1..n), S # {}
  PROVE  \E i \in S : \A j \in S : j <= i
<1> DEFINE R == OpToRel(<, Nat)
           T == {n - i : i \in S}
<1>1. IsWellFoundedOn(R, Nat)
  BY NatLessThanWellFounded
<1>2. \A x, y \in Nat : <<x, y>> \in R <=> x < y
  BY DEF OpToRel
<1> HIDE DEF R
<1>3. T \subseteq Nat /\ T # {}
  <2>1. \A i \in S : n - i \in Nat
    OBVIOUS
  <2>2. PICK i \in S : TRUE
    OBVIOUS
  <2>3. n - i \in T
    OBVIOUS
  <2> QED
    BY <2>1, <2>3
<1>4. PICK m \in T : \A y \in T : ~(<<y, m>> \in R)
  <2> HIDE DEF T
  <2> QED
    BY <1>1, <1>3, WFMin
<1>5. PICK i \in S : m = n - i
  OBVIOUS
<1>6. \A j \in S : ~(n - j < m)
  BY <1>2, <1>3, <1>4
<1> QED
  BY <1>5, <1>6

(* The latest of a non-empty set of positions of the log is one of them. *)
LEMMA LatestIn ==
  ASSUME NEW n \in Nat, NEW S \in SUBSET (1..n), S # {}
  PROVE  Latest(S) \in S /\ Latest(S) \in Nat
<1>1. Latest(S) \in S
  BY MaxExists DEF Latest
<1>2. \A i \in S : i \in Nat
  OBVIOUS
<1> QED
  BY <1>1, <1>2

(* The number of successful reports of a series is a natural number. *)
LEMMA SeriesFinite ==
  ASSUME reports \in Seq(Report), NEW r
  PROVE  /\ SeriesFound(r) \in SUBSET (1..Len(reports))
         /\ IsFiniteSet(SeriesFound(r))
         /\ Cardinality(SeriesFound(r)) \in Nat
<1>1. SeriesFound(r) \in SUBSET (1..Len(reports))
  BY DEF SeriesFound
<1>2. IsFiniteSet(1..Len(reports))
  BY FS_Interval
<1> QED
  BY <1>1, <1>2, FS_Subset, FS_CardinalityType

(* The results of a series are positions of the log, or 0 for a hole. *)
LEMMA SeriesResultsType ==
  ASSUME reports \in Seq(Report), NEW r
  PROVE  /\ SeriesResults(SeriesFound(r)) \in Seq(Nat)
         /\ Len(SeriesResults(SeriesFound(r))) = Cardinality(SeriesFound(r))
<1> DEFINE S == SeriesFound(r)
           n == Cardinality(S)
           f == [k \in 1..n |->
                  LET here == {i \in S : reports[i].order = k - 1}
                  IN  IF here = {} THEN 0 ELSE Latest(here)]
<1>1. S \in SUBSET (1..Len(reports)) /\ n \in Nat
  BY SeriesFinite
<1>2. ASSUME NEW k \in 1..n PROVE f[k] \in Nat
  <2> DEFINE here == {i \in S : reports[i].order = k - 1}
  <2>1. here \in SUBSET (1..Len(reports))
    BY <1>1
  <2>2. here # {} => Latest(here) \in Nat
    <3> HIDE DEF here
    <3>1. Len(reports) \in Nat
      OBVIOUS
    <3> QED
      BY <2>1, <3>1, LatestIn
  <2>3. f[k] = IF here = {} THEN 0 ELSE Latest(here)
    OBVIOUS
  <2> HIDE DEF here, f
  <2> QED
    BY <2>2, <2>3
<1>3. f \in [1..n -> Nat]
  <2>1. f = [k \in 1..n |-> f[k]]
    OBVIOUS
  <2> HIDE DEF f, n
  <2> QED
    BY <1>2, <2>1
<1>4. SeriesResults(S) = f
  BY DEF SeriesResults
<1> HIDE DEF f, n, S
<1>5. f \in Seq(Nat) /\ Len(f) = n
  BY <1>1, <1>3
<1> QED
  BY <1>4, <1>5 DEF S, n

-----------------------------------------------------------------------------
(* Types *)

(* Every step keeps the types. *)
LEMMA TypeStep ==
  ASSUME TypeOK, [Next]_vars
  PROVE  TypeOK'
<1>0. MaxAttempts \in Nat
  BY ConstantsOK DEF ConstantsOK
<1> USE <1>0 DEF TypeOK
<1>1. ASSUME NEW c \in Calls, NEW p \in Calls \cup {Root},
             NEW r \in Requests, Invoke(c, p, r)
      PROVE  TypeOK'
  <2>1. (IF p = Root THEN <<>> ELSE Append(chain[p], p)) \in Seq(Calls)
    OBVIOUS
  <2> QED
    BY <1>1, <2>1 DEF Invoke, States
<1>2. ASSUME NEW c \in Calls, RejectInput(c) PROVE TypeOK'
  BY <1>2 DEF RejectInput, Return, States, Returns
<1>3. ASSUME NEW c \in Calls, Load(c) PROVE TypeOK'
  <2>1. ASSUME NEW S \in SUBSET (1..Len(reports)), S # {}
        PROVE  <<Latest(S)>> \in Seq(Nat)
    <3>1. Len(reports) \in Nat
      OBVIOUS
    <3>2. Latest(S) \in Nat
      BY <2>1, <3>1, LatestIn
    <3> QED
      BY <3>2
  <2>2. 1 \in Attempts
    BY DEF Attempts
  <2>3. Previous(req[c]) \in SUBSET (1..Len(reports))
    BY DEF Previous
  <2> DEFINE prev == IF req[c].force THEN {} ELSE Previous(req[c])
  <2>4. CASE prev # {}
    <3>1. <<Latest(prev)>> \in Seq(Nat)
      BY <2>1, <2>3, <2>4
    <3>2. /\ got' = [got EXCEPT ![c] = <<Latest(prev)>>]
          /\ st' = [st EXCEPT ![c] = "done"]
          /\ ret' = [ret EXCEPT ![c] = "ok"]
          /\ UNCHANGED <<reports, req, chain, seen, attempt, failed, kids,
                         own, todo, recent>>
      BY <1>3, <2>4 DEF Load, Return
    <3> HIDE DEF prev
    <3> QED
      BY <1>3, <3>1, <3>2 DEF States, Returns, Load
  <2>5. CASE prev = {}
    <3>1. UNCHANGED <<reports, req, chain, failed, kids, own, todo, recent,
                      got, ret>>
      BY <1>3, <2>5 DEF Load
    <3>2. /\ seen' = [seen EXCEPT ![c] = Len(reports)]
          /\ \E s \in {"handler", "run"} : st' = [st EXCEPT ![c] = s]
          /\ \E k \in {attempt[c], 1} :
               attempt' = [attempt EXCEPT ![c] = k]
      <4>1. UNCHANGED attempt => attempt' = [attempt EXCEPT ![c] = attempt[c]]
        OBVIOUS
      <4> QED
        BY <1>3, <2>5, <4>1 DEF Load
    <3> HIDE DEF prev
    <3> QED
      BY <1>3, <3>1, <3>2, <2>2 DEF States, Load
  <2> QED
    BY <2>4, <2>5
<1>4. ASSUME NEW c \in Calls, LoadN(c) PROVE TypeOK'
  <2> DEFINE results == SeriesResults(SeriesFound(req[c]))
  <2>1. results \in Seq(Nat)
    BY SeriesResultsType
  <2>2. req[c].n \in Nat
    BY <1>4, RequestFields DEF LoadN
  <2>3. Len(results) >= req[c].n => SubSeq(results, 1, req[c].n) \in Seq(Nat)
    <3> HIDE DEF results
    <3> QED
      BY <2>1, <2>2, PrefixType
  <2>4. 1 \in Attempts
    BY DEF Attempts
  <2>5. CASE Len(results) >= req[c].n
    <3>1. /\ got' = [got EXCEPT ![c] = SubSeq(results, 1, req[c].n)]
          /\ st' = [st EXCEPT ![c] = "done"]
          /\ ret' = [ret EXCEPT ![c] = "ok"]
          /\ UNCHANGED <<reports, req, chain, seen, attempt, failed, kids,
                         own, todo, recent>>
          /\ st[c] = "load"
      <4>1. ~(Len(results) < req[c].n)
        <5> HIDE DEF results
        <5> QED
          BY <2>1, <2>2, <2>5
      <4> QED
        BY <1>4, <4>1 DEF LoadN, Return
    <3> HIDE DEF results
    <3> QED
      BY <2>3, <2>5, <3>1 DEF States, Returns
  <2>6. CASE ~(Len(results) >= req[c].n)
    <3>1. /\ got' = [got EXCEPT ![c] = results]
          /\ seen' = [seen EXCEPT ![c] = Len(reports)]
          /\ st' = [st EXCEPT ![c] = "run"]
          /\ attempt' = [attempt EXCEPT ![c] = 1]
          /\ UNCHANGED <<reports, req, chain, failed, kids, own, todo,
                         recent, ret>>
          /\ st[c] = "load"
      BY <1>4, <2>6 DEF LoadN
    <3> HIDE DEF results
    <3> QED
      BY <2>1, <2>4, <3>1 DEF States
  <2> QED
    BY <2>5, <2>6
<1>5. ASSUME NEW c \in Calls, AddReport(c) PROVE TypeOK'
  <2>1. req[c] \in Requests
    BY <1>5 DEF AddReport
  <2>2. NewReport(c, kids[c]) \in Report
    BY <2>1, RequestFields DEF NewReport, Report
  <2>3. Append(reports, NewReport(c, kids[c])) \in Seq(Report)
    BY <2>2
  <2>4. Append(got[c], Len(reports) + 1) \in Seq(Nat)
    OBVIOUS
  <2> QED
    BY <1>5, <2>3, <2>4 DEF AddReport, States
<1>6. ASSUME NEW c \in Calls, AddRecent(c) PROVE TypeOK'
  <2>1. Head(todo[c]) \in Calls /\ Tail(todo[c]) \in Seq(Calls)
    BY <1>6 DEF AddRecent
  <2>2. Append(recent[Head(todo[c])], own[c]) \in Seq(Nat)
    BY <2>1
  <2> QED
    BY <1>6, <2>1, <2>2 DEF AddRecent
<1>7. ASSUME NEW c \in Calls, Finish(c) PROVE TypeOK'
  <2>1. 1 \in Attempts
    BY DEF Attempts
  <2>2. UNCHANGED <<reports, req, chain, seen, failed, kids, own, todo,
                    recent, got>>
    BY <1>7 DEF Finish
  <2>3. /\ \E s \in {"run", "done"} : st' = [st EXCEPT ![c] = s]
        /\ ret' = ret \/ \E r \in {"ok", "err"} : ret' = [ret EXCEPT ![c] = r]
        /\ attempt' = attempt \/ attempt' = [attempt EXCEPT ![c] = 1]
        /\ st[c] = "recent"
    BY <1>7 DEF Finish, Return
  <2> QED
    BY <2>1, <2>2, <2>3 DEF States, Returns
<1>8. ASSUME NEW c \in Calls, Handler(c) PROVE TypeOK'
  <2>1. CASE HandlerOK(c) \/ HandlerFails(c)
    BY <2>1 DEF HandlerOK, HandlerFails, States
  <2>2. CASE HandlerUnserializable(c) \/ SequenceUnserializable(c)
    BY <2>2 DEF HandlerUnserializable, SequenceUnserializable, Return,
                States, Returns
  <2>3. CASE HandlerRetry(c)
    <3>1. (attempt[c] % 2) + 1 \in 0..2
      <4>1. \A a \in Nat : (a % 2) + 1 \in 0..2
        OBVIOUS
      <4>2. attempt[c] \in Nat
        BY DEF Attempts
      <4> QED
        BY <4>1, <4>2
    <3>2. attempt'[c] \in Attempts
      <4>1. CASE MaxAttempts = 0
        BY <2>3, <3>1, <4>1 DEF HandlerRetry, Attempts
      <4>2. CASE MaxAttempts # 0
        BY <2>3, <4>2 DEF HandlerRetry, AttemptLeft, Attempts
      <4> QED
        BY <4>1, <4>2
    <3> QED
      BY <2>3, <3>2 DEF HandlerRetry
  <2>4. CASE SequenceReturns(c)
    BY <2>4 DEF SequenceReturns, States
  <2> QED
    BY <1>8, <2>1, <2>2, <2>3, <2>4 DEF Handler
<1>9. CASE UNCHANGED vars
  BY <1>9 DEF vars
<1> QED
  BY <1>1, <1>2, <1>3, <1>4, <1>5, <1>6, <1>7, <1>8, <1>9 DEF Next, Step

(* The types hold in every reachable state of the Operations API, whatever *)
(* the handlers do.                                                        *)
THEOREM TypeCorrect == Spec => []TypeOK
<1>1. Init => TypeOK
  BY ConstantsOK DEF ConstantsOK, Init, TypeOK, States, Returns, Attempts
<1>2. TypeOK /\ [Next]_vars => TypeOK'
  BY TypeStep
<1> QED
  BY <1>1, <1>2, PTL DEF Spec

-----------------------------------------------------------------------------
(* Children *)

(* A position of the log holds a report. *)
LEMMA ReportAt ==
  ASSUME TypeOK
  PROVE  /\ DOMAIN reports = 1..Len(reports)
         /\ Len(reports) \in Nat
         /\ \A i \in DOMAIN reports :
              /\ reports[i] \in Report
              /\ reports[i].by \in Calls
              /\ reports[i].children \in Seq(Nat)
              /\ reports[i].order \in Nat
              /\ reports[i].err \in BOOLEAN
<1>1. reports \in Seq(Report)
  BY DEF TypeOK
<1>2. \A e \in Report : /\ e.by \in Calls /\ e.children \in Seq(Nat)
                        /\ e.order \in Nat /\ e.err \in BOOLEAN
  BY DEF Report
<1> QED
  BY <1>1, <1>2

(* The log only grows, and a call that was made keeps its arguments and    *)
(* its place below the sequences around it.                                *)
LEMMA Monotone ==
  ASSUME TypeOK, [Next]_vars
  PROVE  /\ Len(reports') >= Len(reports)
         /\ \A i \in 1..Len(reports) : reports'[i] = reports[i]
         /\ \A c \in Calls : st[c] # "idle" =>
              /\ st'[c] # "idle"
              /\ chain'[c] = chain[c]
              /\ req'[c] = req[c]
<1> USE DEF TypeOK
<1>1. ASSUME NEW c \in Calls, NEW p \in Calls \cup {Root},
             NEW r \in Requests, Invoke(c, p, r)
      PROVE  /\ reports' = reports
             /\ st' = [st EXCEPT ![c] = "load"]
             /\ req' = [req EXCEPT ![c] = r]
             /\ \A d \in Calls \ {c} : chain'[d] = chain[d]
             /\ st[c] = "idle"
  BY <1>1 DEF Invoke
<1>2. ASSUME NEW c \in Calls, AddReport(c)
      PROVE  /\ \E e : reports' = Append(reports, e)
             /\ st' = [st EXCEPT ![c] = "recent"]
             /\ UNCHANGED <<req, chain>>
  BY <1>2 DEF AddReport
<1>3. ASSUME NEW c \in Calls,
             RejectInput(c) \/ Load(c) \/ LoadN(c) \/ AddRecent(c) \/ Finish(c)
      PROVE  /\ UNCHANGED <<reports, req, chain>>
             /\ st' = st \/ \E s \in States \ {"idle"} : st' = [st EXCEPT ![c] = s]
  BY <1>3 DEF RejectInput, Load, LoadN, AddRecent, Finish, Return, States
<1>4. ASSUME NEW c \in Calls, Handler(c)
      PROVE  /\ UNCHANGED <<reports, req, chain>>
             /\ st' = st \/ \E s \in States \ {"idle"} : st' = [st EXCEPT ![c] = s]
  BY <1>4 DEF Handler, HandlerOK, HandlerUnserializable, HandlerRetry,
              HandlerFails, SequenceReturns, SequenceUnserializable, Return,
              States
<1>5. CASE UNCHANGED vars
  BY <1>5 DEF vars
<1>6. CASE \E c \in Calls, p \in Calls \cup {Root}, r \in Requests : Invoke(c, p, r)
  <2>1. PICK c \in Calls, r \in Requests :
           /\ reports' = reports
           /\ st' = [st EXCEPT ![c] = "load"]
           /\ req' = [req EXCEPT ![c] = r]
           /\ \A d \in Calls \ {c} : chain'[d] = chain[d]
           /\ st[c] = "idle"
    BY <1>1, <1>6
  <2> QED
    BY <2>1
<1>7. CASE \E c \in Calls : AddReport(c)
  <2>0. PICK c \in Calls : /\ \E e : reports' = Append(reports, e)
                           /\ st' = [st EXCEPT ![c] = "recent"]
                           /\ UNCHANGED <<req, chain>>
    BY <1>2, <1>7
  <2>1. PICK e : reports' = Append(reports, e)
    BY <2>0
  <2>2. /\ Len(Append(reports, e)) = Len(reports) + 1
        /\ \A i \in 1..Len(reports) : Append(reports, e)[i] = reports[i]
    OBVIOUS
  <2>3. Len(reports) + 1 >= Len(reports)
    OBVIOUS
  <2> QED
    BY <2>0, <2>1, <2>2, <2>3
<1>8. CASE \E c \in Calls : \/ RejectInput(c) \/ Load(c) \/ LoadN(c)
                           \/ AddRecent(c) \/ Finish(c) \/ Handler(c)
  <2>1. PICK c \in Calls :
           /\ UNCHANGED <<reports, req, chain>>
           /\ st' = st \/ \E s \in States \ {"idle"} : st' = [st EXCEPT ![c] = s]
    BY <1>3, <1>4, <1>8
  <2>2. Len(reports) >= Len(reports)
    OBVIOUS
  <2> QED
    BY <2>1, <2>2
<1> QED
  BY <1>5, <1>6, <1>7, <1>8 DEF Next, Step

(* A report below a sequence stays below it. *)
LEMMA BelowStable ==
  ASSUME TypeOK, [Next]_vars, NEW s \in Calls, NEW id, Below(s, id),
         st[reports[id].by] # "idle"
  PROVE  Below(s, id)'
<1>1. /\ id \in 1..Len(reports) /\ reports[id].by \in Calls
      /\ Len(reports) \in Nat
  BY ReportAt DEF Below
<1>2. /\ id \in 1..Len(reports')
      /\ reports'[id] = reports[id]
      /\ chain'[reports[id].by] = chain[reports[id].by]
  <2>1. Len(reports') \in Nat
    BY TypeStep, ReportAt
  <2> QED
    BY <1>1, <2>1, Monotone
<1>3. DOMAIN reports' = 1..Len(reports')
  BY TypeStep DEF TypeOK
<1> QED
  BY <1>2, <1>3 DEF Below, Under

(* The steps that neither add a report nor capture or extend a list of     *)
(* recent reports.                                                         *)
LEMMA OtherSteps ==
  ASSUME TypeOK, [Next]_vars,
         \A c \in Calls : ~AddReport(c) /\ ~AddRecent(c) /\ ~SequenceReturns(c)
  PROVE  /\ UNCHANGED <<reports, recent, kids, own, todo>>
         /\ \A c \in Calls : st'[c] = "recent" => st[c] = "recent"
<1> USE DEF TypeOK
<1>1. ASSUME NEW c \in Calls, NEW p \in Calls \cup {Root},
             NEW r \in Requests, Invoke(c, p, r)
      PROVE  /\ UNCHANGED <<reports, recent, kids, own, todo>>
             /\ st' = [st EXCEPT ![c] = "load"]
  BY <1>1 DEF Invoke
<1>2. ASSUME NEW c \in Calls,
             RejectInput(c) \/ Load(c) \/ LoadN(c) \/ Finish(c)
      PROVE  /\ UNCHANGED <<reports, recent, kids, own, todo>>
             /\ \E s \in States \ {"recent"} : st' = [st EXCEPT ![c] = s]
  BY <1>2 DEF RejectInput, Load, LoadN, Finish, Return, States
<1>3. ASSUME NEW c \in Calls, Handler(c), ~SequenceReturns(c)
      PROVE  /\ UNCHANGED <<reports, recent, kids, own, todo>>
             /\ \/ st' = st
                \/ \E s \in States \ {"recent"} : st' = [st EXCEPT ![c] = s]
  BY <1>3 DEF Handler, HandlerOK, HandlerUnserializable, HandlerRetry,
              HandlerFails, SequenceUnserializable, Return, States
<1>4. CASE UNCHANGED vars
  BY <1>4 DEF vars
<1>5. CASE Next
  <2>1. /\ UNCHANGED <<reports, recent, kids, own, todo>>
        /\ \/ st' = st
           \/ \E c \in Calls, s \in States \ {"recent"} :
                 st' = [st EXCEPT ![c] = s]
    BY <1>1, <1>2, <1>3, <1>5 DEF Next, Step, States
  <2> QED
    BY <2>1
<1> QED
  BY <1>4, <1>5

(* Every step keeps the inductive invariant. *)
LEMMA ChildrenStep ==
  ASSUME TypeOK, ChildrenInv, [Next]_vars
  PROVE  ChildrenInv'
<1>1. TypeOK'
  BY TypeStep
<1>2. ASSUME NEW s \in Calls, NEW id, Below(s, id) PROVE Below(s, id)'
  <2>1. st[reports[id].by] # "idle"
    BY <1>2 DEF ChildrenInv, Below
  <2> QED
    BY <1>2, <2>1, BelowStable
<1>3. \A i \in DOMAIN reports :
        /\ i \in DOMAIN reports'
        /\ reports'[i] = reports[i]
        /\ reports[i].by \in Calls
        /\ st'[reports[i].by] # "idle"
  <2>1. DOMAIN reports' = 1..Len(reports') /\ Len(reports') \in Nat
    BY <1>1 DEF TypeOK
  <2> QED
    BY <2>1, Monotone, ReportAt DEF ChildrenInv
<1>4. ASSUME NEW i \in DOMAIN reports, NEW k \in DOMAIN reports[i].children
      PROVE  /\ reports'[i].children[k] \in 1..(i - 1)
             /\ Under(reports[reports[i].children[k]].by, reports[i].by)'
  <2>1. PICK s, id : /\ s \in Calls /\ s = reports[i].by
                     /\ id = reports[i].children[k]
    BY <1>3
  <2>2. id \in 1..(i - 1) /\ Under(reports[id].by, s)
    BY <2>1 DEF ChildrenInv, ChildrenPrecede
  <2>3. id \in DOMAIN reports
    BY <2>2, ReportAt
  <2>4. Below(s, id)'
    BY <1>2, <2>1, <2>2, <2>3 DEF Below
  <2>5. s = reports'[i].by /\ id = reports'[i].children[k]
    BY <1>3, <2>1
  <2> QED
    BY <2>2, <2>4, <2>5 DEF Below
<1>5. ASSUME NEW c \in Calls, NEW q, q = recent[c] \/ q = kids[c]
      PROVE  \A k \in DOMAIN q : Below(c, q[k])'
  BY <1>2, <1>5 DEF ChildrenInv
<1>6. ASSUME UNCHANGED reports PROVE ChildrenPrecede'
  BY <1>4, <1>6 DEF ChildrenPrecede
<1>7. ASSUME NEW c \in Calls, st[c] = "recent",
             own'[c] = own[c],
             \/ todo'[c] = todo[c]
             \/ todo'[c] = Tail(todo[c]) /\ todo[c] # <<>>
      PROVE  (/\ own[c] \in DOMAIN reports
              /\ reports[own[c]].by = c
              /\ \A k \in DOMAIN todo[c] : Under(c, todo[c][k]))'
  <2>1. chain'[c] = chain[c]
    BY <1>7, Monotone
  <2>2. /\ own[c] \in DOMAIN reports
        /\ reports[own[c]].by = c
        /\ \A k \in DOMAIN todo[c] : Under(c, todo[c][k])
    BY <1>7 DEF ChildrenInv
  <2>3. own'[c] \in DOMAIN reports' /\ reports'[own'[c]].by = c
    BY <1>3, <1>7, <2>2
  <2>4. CASE todo'[c] = todo[c]
    BY <2>1, <2>2, <2>3, <2>4 DEF Under
  <2>5. CASE todo'[c] = Tail(todo[c]) /\ todo[c] # <<>>
    <3>1. \A k \in DOMAIN Tail(todo[c]) :
             k + 1 \in DOMAIN todo[c] /\ Tail(todo[c])[k] = todo[c][k + 1]
      BY <2>5, HeadTail DEF TypeOK
    <3> QED
      BY <2>1, <2>2, <2>3, <2>5, <3>1 DEF Under
  <2> QED
    BY <1>7, <2>4, <2>5
<1>8. CASE \E c \in Calls : AddReport(c)
  <2>1. PICK c \in Calls : AddReport(c)
    BY <1>8
  <2>2. PICK e, n, q : /\ e = NewReport(c, kids[c])
                       /\ n = Len(reports) + 1
                       /\ q = kids[c]
    OBVIOUS
  <2>3. /\ reports' = Append(reports, e)
        /\ UNCHANGED <<chain, kids, recent>>
        /\ st' = [st EXCEPT ![c] = "recent"]
        /\ todo' = [todo EXCEPT ![c] = chain[c]]
        /\ own' = [own EXCEPT ![c] = n]
        /\ e.children = q /\ e.by = c
    BY <2>1, <2>2 DEF AddReport, NewReport
  <2>4. /\ DOMAIN reports' = DOMAIN reports \cup {n}
        /\ n \in DOMAIN reports'
        /\ reports'[n] = e
        /\ DOMAIN reports = 1..(n - 1)
    <3>1. reports \in Seq(Report)
      BY DEF TypeOK
    <3>2. n - 1 = Len(reports)
      BY <2>2, ReportAt
    <3> QED
      BY <2>2, <2>3, <3>1, <3>2, AppendElements
  <2>5. \A k \in DOMAIN q : Below(c, q[k]) /\ Below(c, q[k])'
    BY <1>5, <2>2 DEF ChildrenInv
  <2>6. ChildrenPrecede'
    <3> SUFFICES ASSUME NEW i \in DOMAIN reports',
                        NEW k \in DOMAIN reports'[i].children
                 PROVE  /\ reports'[i].children[k] \in 1..(i - 1)
                        /\ Under(reports[reports[i].children[k]].by,
                                 reports[i].by)'
      BY DEF ChildrenPrecede
    <3>1. CASE i \in DOMAIN reports
      BY <1>3, <1>4, <3>1
    <3>2. CASE i = n
      <4>1. k \in DOMAIN q /\ reports'[i].children[k] = q[k] /\ reports'[i].by = c
        BY <2>3, <2>4, <3>2
      <4>2. q[k] \in 1..(i - 1) /\ Below(c, q[k])'
        BY <2>4, <2>5, <3>2, <4>1 DEF Below
      <4> QED
        BY <4>1, <4>2 DEF Below
    <3> QED
      BY <2>4, <3>1, <3>2
  <2>7. \A i \in DOMAIN reports' : st'[reports'[i].by] # "idle"
    BY <1>3, <2>3, <2>4 DEF TypeOK
  <2>8. ASSUME NEW d \in Calls
        PROVE  /\ \A k \in DOMAIN recent'[d] : Below(d, recent[d][k])'
               /\ \A k \in DOMAIN kids'[d] : Below(d, kids[d][k])'
    BY <1>5, <2>3
  <2>9. ASSUME NEW d \in Calls, st'[d] = "recent"
        PROVE  (/\ own[d] \in DOMAIN reports
                /\ reports[own[d]].by = d
                /\ \A k \in DOMAIN todo[d] : Under(d, todo[d][k]))'
    <3>1. CASE d = c
      BY <2>3, <2>4, <3>1 DEF TypeOK, Under
    <3>2. CASE d # c
      <4>1. st[d] = "recent" /\ own'[d] = own[d] /\ todo'[d] = todo[d]
        BY <2>3, <2>9, <3>2 DEF TypeOK
      <4> QED
        BY <1>7, <4>1
    <3> QED
      BY <3>1, <3>2
  <2> QED
    BY <2>6, <2>7, <2>8, <2>9 DEF ChildrenInv
<1>9. CASE \E c \in Calls : AddRecent(c)
  <2>1. PICK c \in Calls : AddRecent(c)
    BY <1>9
  <2> DEFINE h == Head(todo[c])
  <2>2. /\ UNCHANGED <<reports, st, chain, kids, own>>
        /\ st[c] = "recent"
        /\ h \in Calls
        /\ recent' = [recent EXCEPT ![h] = Append(recent[h], own[c])]
        /\ todo' = [todo EXCEPT ![c] = Tail(todo[c])]
        /\ 1 \in DOMAIN todo[c] /\ h = todo[c][1]
    <3>1. todo[c] \in Seq(Calls) /\ todo[c] # <<>>
      BY <2>1 DEF AddRecent, TypeOK
    <3>2. 1 \in DOMAIN todo[c] /\ h = todo[c][1] /\ h \in Calls
      BY <3>1, HeadTail
    <3> QED
      BY <2>1, <3>2 DEF AddRecent
  <2> HIDE DEF h
  <2>3. Below(h, own[c])
    BY <2>2 DEF ChildrenInv, Below
  <2>4. ASSUME NEW d \in Calls, NEW k \in DOMAIN recent'[d]
        PROVE  Below(d, recent[d][k])'
    <3>1. PICK q : q = recent[d]
      OBVIOUS
    <3>2. PICK id : id = own[c]
      OBVIOUS
    <3>3. q \in Seq(Nat) /\ id \in Nat /\ recent \in [Calls -> Seq(Nat)]
      BY <3>1, <3>2 DEF TypeOK
    <3>4. recent'[d] = q \/ (d = h /\ recent'[d] = Append(q, id))
      BY <2>2, <3>1, <3>2, <3>3
    <3>5. \A j \in DOMAIN q : Below(d, q[j])'
      BY <1>5, <3>1
    <3>6. d = h => Below(d, id)'
      BY <1>2, <2>3, <3>2
    <3>7. \/ recent'[d][k] = id /\ d = h
          \/ \E j \in DOMAIN q : recent'[d][k] = q[j]
      <4>1. CASE recent'[d] = q
        BY <4>1
      <4>2. CASE d = h /\ recent'[d] = Append(q, id)
        <5>1. /\ DOMAIN Append(q, id) = DOMAIN q \cup {Len(q) + 1}
              /\ Append(q, id)[Len(q) + 1] = id
              /\ \A j \in DOMAIN q : Append(q, id)[j] = q[j]
          BY <3>3, AppendElements
        <5> QED
          BY <4>2, <5>1
      <4> QED
        BY <3>4, <4>1, <4>2
    <3> QED
      BY <3>5, <3>6, <3>7
  <2>5. ASSUME NEW d \in Calls
        PROVE  \A k \in DOMAIN kids'[d] : Below(d, kids[d][k])'
    BY <1>5, <2>2
  <2>6. ASSUME NEW d \in Calls, st'[d] = "recent"
        PROVE  (/\ own[d] \in DOMAIN reports
                /\ reports[own[d]].by = d
                /\ \A k \in DOMAIN todo[d] : Under(d, todo[d][k]))'
    <3>1. \/ todo'[d] = todo[d]
          \/ todo'[d] = Tail(todo[d]) /\ todo[d] # <<>>
      BY <2>1, <2>2 DEF TypeOK, AddRecent
    <3> QED
      BY <1>7, <2>2, <2>6, <3>1
  <2> QED
    BY <1>3, <1>6, <2>2, <2>4, <2>5, <2>6 DEF ChildrenInv
<1>10. CASE \E c \in Calls : SequenceReturns(c)
  <2>1. PICK c \in Calls : SequenceReturns(c)
    BY <1>10
  <2>2. /\ UNCHANGED <<reports, chain, own, todo, recent>>
        /\ st' = [st EXCEPT ![c] = "add"]
        /\ kids' = [kids EXCEPT ![c] = recent[c]]
    BY <2>1 DEF SequenceReturns
  <2>3. ChildrenPrecede'
    BY <1>6, <2>2
  <2>4. ASSUME NEW d \in Calls
        PROVE  /\ \A k \in DOMAIN recent'[d] : Below(d, recent[d][k])'
               /\ \A k \in DOMAIN kids'[d] : Below(d, kids[d][k])'
    <3>1. kids'[d] = kids[d] \/ kids'[d] = recent[d]
      BY <2>2 DEF TypeOK
    <3> QED
      BY <1>5, <2>2, <3>1
  <2>5. ASSUME NEW d \in Calls, st'[d] = "recent" PROVE st[d] = "recent"
    BY <2>2, <2>5 DEF TypeOK
  <2> QED
    BY <1>3, <1>7, <2>2, <2>3, <2>4, <2>5 DEF ChildrenInv
<1>11. CASE \A c \in Calls : ~AddReport(c) /\ ~AddRecent(c) /\ ~SequenceReturns(c)
  <2>1. /\ UNCHANGED <<reports, recent, kids, own, todo>>
        /\ \A c \in Calls : st'[c] = "recent" => st[c] = "recent"
    BY <1>11, OtherSteps
  <2>2. ASSUME NEW c \in Calls
        PROVE  /\ \A k \in DOMAIN recent'[c] : Below(c, recent[c][k])'
               /\ \A k \in DOMAIN kids'[c] : Below(c, kids[c][k])'
    BY <1>5, <2>1
  <2> QED
    BY <1>3, <1>6, <1>7, <2>1, <2>2 DEF ChildrenInv
<1> QED
  BY <1>8, <1>9, <1>10, <1>11

(* The child reports of every report are older reports of calls made under *)
(* that sequence, for any number of calls, goroutines and nested sequences.*)
THEOREM ChildrenCorrect == Spec => []ChildrenPrecede
<1>1. Init => ChildrenInv
  BY DEF Init, ChildrenInv, ChildrenPrecede
<1>2. TypeOK /\ ChildrenInv /\ [Next]_vars => ChildrenInv'
  BY ChildrenStep
<1>3. ChildrenInv => ChildrenPrecede
  BY DEF ChildrenInv
<1> QED
  BY <1>1, <1>2, <1>3, TypeCorrect, PTL DEF Spec

-----------------------------------------------------------------------------
(* Reuse of previous reports *)

(* Once a call has read the reports it keeps what it read. *)
LEMMA Loaded ==
  ASSUME TypeOK, [Next]_vars, NEW c \in Calls, st[c] \notin {"idle", "load"}
  PROVE  st'[c] \notin {"idle", "load"} /\ seen'[c] = seen[c] /\ req'[c] = req[c]
<1> USE DEF TypeOK
<1>1. ASSUME NEW d \in Calls, NEW p \in Calls \cup {Root},
             NEW r \in Requests, Invoke(d, p, r)
      PROVE  /\ st[d] = "idle"
             /\ st' = [st EXCEPT ![d] = "load"]
             /\ req' = [req EXCEPT ![d] = r]
             /\ seen' = seen
  BY <1>1 DEF Invoke
<1>2. ASSUME NEW d \in Calls, RejectInput(d) \/ Load(d) \/ LoadN(d)
      PROVE  /\ st[d] = "load"
             /\ \E s : st' = [st EXCEPT ![d] = s]
             /\ req' = req
             /\ seen' = seen \/ \E k : seen' = [seen EXCEPT ![d] = k]
  BY <1>2 DEF RejectInput, Load, LoadN, Return
<1>3. ASSUME NEW d \in Calls,
             AddReport(d) \/ AddRecent(d) \/ Finish(d) \/ Handler(d)
      PROVE  /\ \/ st' = st
                \/ \E s \in States \ {"idle", "load"} : st' = [st EXCEPT ![d] = s]
             /\ UNCHANGED <<req, seen>>
  BY <1>3 DEF AddReport, AddRecent, Finish, Handler, HandlerOK, HandlerRetry,
              HandlerUnserializable, HandlerFails, SequenceReturns,
              SequenceUnserializable, Return, States
<1>4. CASE UNCHANGED vars
  BY <1>4 DEF vars
<1>5. CASE \E d \in Calls, p \in Calls \cup {Root}, r \in Requests : Invoke(d, p, r)
  <2>1. PICK d \in Calls, r \in Requests :
           /\ st[d] = "idle"
           /\ st' = [st EXCEPT ![d] = "load"]
           /\ req' = [req EXCEPT ![d] = r]
           /\ seen' = seen
    BY <1>1, <1>5
  <2> QED
    BY <2>1
<1>6. CASE \E d \in Calls : RejectInput(d) \/ Load(d) \/ LoadN(d)
  <2>1. PICK d \in Calls :
           /\ st[d] = "load"
           /\ \E s : st' = [st EXCEPT ![d] = s]
           /\ req' = req
           /\ seen' = seen \/ \E k : seen' = [seen EXCEPT ![d] = k]
    BY <1>2, <1>6
  <2> QED
    BY <2>1
<1>7. CASE \E d \in Calls : \/ AddReport(d) \/ AddRecent(d)
                           \/ Finish(d) \/ Handler(d)
  <2>1. PICK d \in Calls :
           /\ \/ st' = st
              \/ \E s \in States \ {"idle", "load"} : st' = [st EXCEPT ![d] = s]
           /\ UNCHANGED <<req, seen>>
    BY <1>3, <1>7
  <2> QED
    BY <2>1
<1> QED
  BY <1>4, <1>5, <1>6, <1>7 DEF Next, Step

(* Only AddReport changes the log. *)
LEMMA LogSteps ==
  ASSUME [Next]_vars, \A c \in Calls : ~AddReport(c)
  PROVE  reports' = reports
BY DEF Next, Step, Invoke, RejectInput, Load, LoadN, AddRecent, Finish, Handler,
       HandlerOK, HandlerRetry, HandlerUnserializable, HandlerFails,
       SequenceReturns, SequenceUnserializable, vars

(* What a step does to a call that is about to run, or has reported. *)
LEMMA Running ==
  ASSUME TypeOK, [Next]_vars, NEW c \in Calls, ~AddReport(c)
  PROVE  /\ st'[c] = "recent" =>
              st[c] = "recent" /\ failed'[c] = failed[c] /\ got'[c] = got[c]
         /\ st'[c] \in {"run", "handler", "add"} =>
              \/ st[c] \in {"run", "handler", "add"}
              \/ Load(c) \/ LoadN(c)
              \/ Finish(c) /\ ~failed[c] /\ Len(got[c]) < req[c].n
         /\ seen'[c] = seen[c] \/ Load(c) \/ LoadN(c)
<1> USE DEF TypeOK
<1>1. ASSUME NEW d \in Calls, NEW p \in Calls \cup {Root},
             NEW r \in Requests, Invoke(d, p, r)
      PROVE  /\ st' = [st EXCEPT ![d] = "load"]
             /\ UNCHANGED <<seen, failed, got>>
  BY <1>1 DEF Invoke
<1>2. ASSUME NEW d \in Calls, Step(d) \/ Handler(d), d # c
      PROVE  /\ st'[c] = st[c] /\ seen'[c] = seen[c]
             /\ failed'[c] = failed[c] /\ got'[c] = got[c]
  <2>1. CASE Step(d)
    BY <1>2, <2>1 DEF Step, AddReport, AddRecent, Finish, RejectInput, Load,
                      LoadN, Return
  <2>2. CASE Handler(d)
    BY <1>2, <2>2 DEF Handler, HandlerOK, HandlerRetry, HandlerUnserializable,
                      HandlerFails, SequenceReturns, SequenceUnserializable,
                      Return
  <2> QED
    BY <1>2, <2>1, <2>2
<1>3. CASE RejectInput(c)
  BY <1>3 DEF RejectInput, Return
<1>4. CASE Load(c) \/ LoadN(c)
  <2>1. st'[c] # "recent"
    BY <1>4 DEF Load, LoadN, Return
  <2> QED
    BY <1>4, <2>1
<1>5. CASE AddRecent(c)
  BY <1>5 DEF AddRecent
<1>6. CASE Finish(c)
  BY <1>6 DEF Finish, Return
<1>7. CASE Handler(c)
  BY <1>7 DEF Handler, HandlerOK, HandlerRetry, HandlerUnserializable,
              HandlerFails, SequenceReturns, SequenceUnserializable, Return
<1>8. CASE UNCHANGED vars
  BY <1>8 DEF vars
<1>9. CASE \E d \in Calls, p \in Calls \cup {Root}, r \in Requests : Invoke(d, p, r)
  <2>1. PICK d \in Calls : /\ st' = [st EXCEPT ![d] = "load"]
                           /\ UNCHANGED <<seen, failed, got>>
    BY <1>1, <1>9
  <2> QED
    BY <2>1
<1>10. CASE \E d \in Calls : d # c /\ (Step(d) \/ Handler(d))
  BY <1>2, <1>10
<1> QED
  BY <1>3, <1>4, <1>5, <1>6, <1>7, <1>8, <1>9, <1>10 DEF Next, Step

(* Every step keeps the inductive invariant. *)
LEMMA ReuseStep ==
  ASSUME TypeOK, ReuseInv, [Next]_vars
  PROVE  ReuseInv'
<1>1. TypeOK'
  BY TypeStep
<1>2. /\ DOMAIN reports = 1..Len(reports) /\ Len(reports) \in Nat
      /\ \A i \in DOMAIN reports : reports[i].by \in Calls
  BY ReportAt
<1>3. ASSUME NEW i \in DOMAIN reports
      PROVE  LET c == reports[i].by
             IN  /\ st[c] \notin {"idle", "load"}
                 /\ st'[c] \notin {"idle", "load"}
                 /\ seen'[c] = seen[c]
                 /\ req'[c] = req[c]
                 /\ ReportHash(reports[i]) = ReqHash(req[c])
  BY <1>2, Loaded DEF ReuseInv
<1>4. ASSUME NEW c \in Calls, AddReport(c) PROVE ReuseInv'
  <2>1. PICK e, n : e = NewReport(c, kids[c]) /\ n = Len(reports) + 1
    OBVIOUS
  <2>2. /\ reports' = Append(reports, e)
        /\ UNCHANGED <<req, seen, failed>>
        /\ st[c] = "add"
        /\ st' = [st EXCEPT ![c] = "recent"]
        /\ got' = [got EXCEPT ![c] = IF failed[c] THEN @ ELSE Append(@, n)]
        /\ e.by = c /\ ReportHash(e) = ReqHash(req[c])
    BY <1>4, <2>1 DEF AddReport, NewReport, ReportHash, ReqHash
  <2>3. /\ DOMAIN reports' = DOMAIN reports \cup {n}
        /\ reports'[n] = e
        /\ \A i \in DOMAIN reports : reports'[i] = reports[i]
        /\ n \in Nat /\ n \notin DOMAIN reports
        /\ Len(reports') = n
        /\ \A i \in DOMAIN reports : i \in Nat /\ i < n
    <3>1. reports \in Seq(Report)
      BY DEF TypeOK
    <3>2. /\ DOMAIN Append(reports, e) = DOMAIN reports \cup {Len(reports) + 1}
          /\ Append(reports, e)[Len(reports) + 1] = e
          /\ \A i \in DOMAIN reports : Append(reports, e)[i] = reports[i]
      BY <3>1, AppendElements
    <3>3. Len(Append(reports, e)) = Len(reports) + 1
      BY <3>1
    <3> QED
      BY <1>2, <2>1, <2>2, <3>2, <3>3
  <2>4. AtMostOnce'
    <3> SUFFICES ASSUME NEW i \in DOMAIN reports', NEW j \in DOMAIN reports',
                        i < j,
                        ~reports'[i].err,
                        (ReportHash(reports[i]) = ReportHash(reports[j]))',
                        req'[reports'[j].by].kind # "opN",
                        ~req'[reports'[j].by].force
                 PROVE  seen'[reports'[j].by] < i
      BY DEF AtMostOnce
    <3>1. i \in DOMAIN reports /\ reports'[i] = reports[i]
      BY <2>3
    <3>2. CASE j \in DOMAIN reports
      BY <1>3, <2>2, <2>3, <3>1, <3>2 DEF ReuseInv, AtMostOnce, ReportHash
    <3>3. CASE j = n
      <4>1. Unforced(c) /\ reports'[j].by = c
        BY <2>2, <2>3, <3>3 DEF Unforced
      <4>2. i \in Previous(req[c])
        BY <2>2, <2>3, <3>1, <3>3 DEF Previous, ReportHash
      <4> QED
        BY <2>2, <4>1, <4>2 DEF ReuseInv
    <3> QED
      BY <2>3, <3>2, <3>3
  <2>5. \A i \in DOMAIN reports' :
          /\ st'[reports'[i].by] \notin {"idle", "load"}
          /\ (ReportHash(reports[i]) = ReqHash(req[reports[i].by]))'
    BY <1>3, <2>2, <2>3 DEF TypeOK, ReportHash, ReqHash
  <2>6. ASSUME NEW d \in Calls
        PROVE  /\ seen'[d] <= Len(reports')
               /\ st'[d] = "recent" /\ ~failed'[d] => got'[d] # <<>>
    <3>1. seen[d] \in Nat /\ seen[d] <= Len(reports) /\ seen'[d] = seen[d]
      BY <2>2 DEF ReuseInv, TypeOK
    <3>2. seen'[d] <= Len(reports')
      BY <1>2, <2>1, <2>3, <3>1
    <3>3. CASE d = c
      <4>1. Append(got[c], n) # <<>>
        <5>1. got[c] \in Seq(Nat)
          BY DEF TypeOK
        <5> QED
          BY <5>1, AppendElements
      <4> QED
        BY <2>2, <3>2, <3>3, <4>1 DEF TypeOK
    <3>4. CASE d # c
      BY <2>2, <3>2, <3>4 DEF ReuseInv, TypeOK
    <3> QED
      BY <3>3, <3>4
  <2>7. ASSUME NEW d \in Calls, st'[d] \in {"run", "handler", "add"},
               Unforced(d)'
        PROVE  \A i \in Previous(req[d])' : seen'[d] < i
    <3>1. /\ st[d] \in {"run", "handler", "add"} /\ Unforced(d)
          /\ seen'[d] = seen[d] /\ req'[d] = req[d]
      BY <2>2, <2>7 DEF Unforced, TypeOK
    <3>2. seen[d] \in Nat /\ seen[d] <= Len(reports)
      BY DEF ReuseInv, TypeOK
    <3>3. seen[d] < n
      BY <1>2, <2>1, <3>2
    <3>4. \A i \in Previous(req[d])' : i = n \/ i \in Previous(req[d])
      BY <2>2, <2>3 DEF Previous, ReportHash, ReqHash
    <3> QED
      BY <3>1, <3>3, <3>4 DEF ReuseInv
  <2> QED
    BY <2>4, <2>5, <2>6, <2>7 DEF ReuseInv
<1>5. ASSUME \A c \in Calls : ~AddReport(c) PROVE ReuseInv'
  <2>1. reports' = reports
    BY <1>5, LogSteps
  <2>2. AtMostOnce'
    BY <1>3, <2>1 DEF ReuseInv, AtMostOnce, ReportHash
  <2>3. \A i \in DOMAIN reports' :
          /\ st'[reports'[i].by] \notin {"idle", "load"}
          /\ (ReportHash(reports[i]) = ReqHash(req[reports[i].by]))'
    BY <1>3, <2>1 DEF ReportHash, ReqHash
  <2>4. ASSUME NEW c \in Calls
        PROVE  /\ seen'[c] <= Len(reports')
               /\ st'[c] = "recent" /\ ~failed'[c] => got'[c] # <<>>
    <3>1. CASE Load(c) \/ LoadN(c)
      <4>1. seen'[c] = seen[c] \/ seen'[c] = Len(reports)
        BY <3>1 DEF Load, LoadN, TypeOK
      <4>2. st'[c] # "recent"
        BY <3>1 DEF Load, LoadN, Return, TypeOK
      <4>3. Len(reports) <= Len(reports)
        BY <1>2
      <4> QED
        BY <2>1, <4>1, <4>2, <4>3 DEF ReuseInv
    <3>2. CASE ~(Load(c) \/ LoadN(c))
      BY <1>5, <2>1, <3>2, Running DEF ReuseInv
    <3> QED
      BY <3>1, <3>2
  <2>5. ASSUME NEW c \in Calls, st'[c] \in {"run", "handler", "add"},
               Unforced(c)'
        PROVE  \A i \in Previous(req[c])' : seen'[c] < i
    <3>1. CASE st[c] \in {"run", "handler", "add"}
      <4>1. seen'[c] = seen[c] /\ req'[c] = req[c]
        BY <3>1, Loaded
      <4>2. Unforced(c) /\ Previous(req[c])' = Previous(req[c])
        BY <2>1, <2>5, <4>1 DEF Unforced, Previous, ReportHash, ReqHash
      <4> QED
        BY <3>1, <4>1, <4>2 DEF ReuseInv
    <3>2. CASE Load(c)
      <4>1. req' = req /\ req[c].force = FALSE
        BY <2>5, <3>2 DEF Load, Unforced
      <4>2. Previous(req[c]) = {}
        BY <2>5, <3>2, <4>1 DEF Load, Return, TypeOK
      <4>3. Previous(req[c])' = Previous(req[c])
        BY <2>1, <4>1 DEF Previous, ReportHash, ReqHash
      <4> QED
        BY <4>2, <4>3
    <3>3. CASE LoadN(c)
      BY <2>5, <3>3 DEF LoadN, Unforced
    <3>4. CASE Finish(c) /\ ~failed[c] /\ Len(got[c]) < req[c].n
      <4>1. st[c] = "recent" /\ req' = req
        BY <3>4 DEF Finish
      <4>2. got[c] \in Seq(Nat) /\ got[c] # <<>>
        BY <3>4, <4>1 DEF ReuseInv, TypeOK
      <4>3. Len(got[c]) \in Nat /\ Len(got[c]) >= 1
        BY <4>2
      <4>4. req[c].n = 1
        BY <2>5, <4>1, RequestFields DEF Unforced, TypeOK
      <4> QED
        BY <3>4, <4>3, <4>4
    <3> QED
      BY <1>5, <2>5, <3>1, <3>2, <3>3, <3>4, Running
  <2> QED
    BY <2>2, <2>3, <2>4, <2>5 DEF ReuseInv
<1> QED
  BY <1>4, <1>5

(* An operation or sequence is executed again after a success only if it   *)
(* is forced, or overlaps with the execution that succeeded.               *)
THEOREM ReuseCorrect == Spec => []AtMostOnce
<1>1. Init => ReuseInv
  BY DEF Init, ReuseInv, AtMostOnce
<1>2. TypeOK /\ ReuseInv /\ [Next]_vars => ReuseInv'
  BY ReuseStep
<1>3. ReuseInv => AtMostOnce
  BY DEF ReuseInv
<1> QED
  BY <1>1, <1>2, <1>3, TypeCorrect, PTL DEF Spec

-----------------------------------------------------------------------------
(* Execution series *)

(* What a step does to a call that runs a series. *)
LEMMA Collecting ==
  ASSUME TypeOK, [Next]_vars, NEW c \in Calls, ~AddReport(c)
  PROVE  /\ st'[c] \in {"run", "add", "recent"} =>
              \/ st[c] \in {"run", "add", "recent"} /\ got'[c] = got[c]
              \/ Load(c) \/ LoadN(c)
              \/ st[c] = "handler"
         /\ st'[c] = "handler" =>
              \/ st[c] = "handler"
              \/ Load(c) /\ req[c].kind = "seq" /\ req' = req
<1> USE DEF TypeOK
<1>1. ASSUME NEW d \in Calls, NEW p \in Calls \cup {Root},
             NEW r \in Requests, Invoke(d, p, r)
      PROVE  st' = [st EXCEPT ![d] = "load"] /\ got' = got
  BY <1>1 DEF Invoke
<1>2. ASSUME NEW d \in Calls, Step(d) \/ Handler(d), d # c
      PROVE  st'[c] = st[c] /\ got'[c] = got[c]
  <2>1. CASE Step(d)
    BY <1>2, <2>1 DEF Step, AddReport, AddRecent, Finish, RejectInput, Load,
                      LoadN, Return
  <2>2. CASE Handler(d)
    BY <1>2, <2>2 DEF Handler, HandlerOK, HandlerRetry, HandlerUnserializable,
                      HandlerFails, SequenceReturns, SequenceUnserializable,
                      Return
  <2> QED
    BY <1>2, <2>1, <2>2
<1>3. CASE RejectInput(c)
  BY <1>3 DEF RejectInput, Return
<1>4. CASE Load(c)
  <2>1. st'[c] = "handler" => req[c].kind = "seq" /\ req' = req
    BY <1>4 DEF Load, Return
  <2> QED
    BY <1>4, <2>1
<1>5. CASE LoadN(c)
  <2>1. st'[c] # "handler"
    BY <1>5 DEF LoadN, Return
  <2> QED
    BY <1>5, <2>1
<1>6. CASE AddRecent(c)
  BY <1>6 DEF AddRecent
<1>7. CASE Finish(c)
  BY <1>7 DEF Finish, Return
<1>8. CASE Handler(c)
  BY <1>8 DEF Handler, HandlerOK, HandlerRetry, HandlerUnserializable,
              HandlerFails, SequenceReturns, SequenceUnserializable, Return
<1>9. CASE UNCHANGED vars
  BY <1>9 DEF vars
<1>10. CASE \E d \in Calls, p \in Calls \cup {Root}, r \in Requests : Invoke(d, p, r)
  <2>1. PICK d \in Calls : st' = [st EXCEPT ![d] = "load"] /\ got' = got
    BY <1>1, <1>10
  <2> QED
    BY <2>1
<1>11. CASE \E d \in Calls : d # c /\ (Step(d) \/ Handler(d))
  BY <1>2, <1>11
<1> QED
  BY <1>3, <1>4, <1>5, <1>6, <1>7, <1>8, <1>9, <1>10, <1>11 DEF Next, Step

(* Every step keeps the inductive invariant. *)
LEMMA SeriesStep ==
  ASSUME TypeOK, SeriesInv, [Next]_vars
  PROVE  SeriesInv'
<1>1. TypeOK'
  BY TypeStep
<1>2. reports \in Seq(Report) /\ reports' \in Seq(Report)
  BY <1>1 DEF TypeOK
<1>3. ASSUME NEW c \in Calls, AddReport(c) PROVE SeriesInv'
  <2>1. PICK e, n : e = NewReport(c, kids[c]) /\ n = Len(reports) + 1
    OBVIOUS
  <2>2. /\ reports' = Append(reports, e)
        /\ UNCHANGED req
        /\ st[c] = "add"
        /\ st' = [st EXCEPT ![c] = "recent"]
        /\ got' = [got EXCEPT ![c] = IF failed[c] THEN @ ELSE Append(@, n)]
        /\ e.series = req[c].series /\ e.def = req[c].def
        /\ e.input = req[c].input /\ e.order = Len(got[c])
        /\ e.err = failed[c]
    BY <1>3, <2>1 DEF AddReport, NewReport
  <2>3. /\ DOMAIN reports' = DOMAIN reports \cup {n}
        /\ reports'[n] = e
        /\ \A i \in DOMAIN reports : reports'[i] = reports[i]
        /\ n \notin DOMAIN reports
    <3>1. /\ DOMAIN Append(reports, e) = DOMAIN reports \cup {Len(reports) + 1}
          /\ Append(reports, e)[Len(reports) + 1] = e
          /\ \A i \in DOMAIN reports : Append(reports, e)[i] = reports[i]
      BY <1>2, AppendElements
    <3> QED
      BY <2>1, <2>2, <3>1, ReportAt
  <2>4. ASSUME NEW r
        PROVE  LET S == SeriesFound(r)
               IN  /\ Cardinality(S) \in Nat
                   /\ InSeries(e, r) =>
                        /\ SeriesFound(r)' = S \cup {n}
                        /\ Cardinality(SeriesFound(r)') = Cardinality(S) + 1
                   /\ ~InSeries(e, r) => SeriesFound(r)' = S
    <3> DEFINE S == SeriesFound(r)
               T == SeriesFound(r)'
    <3>1. IsFiniteSet(S) /\ Cardinality(S) \in Nat /\ n \notin S
      BY <1>2, <2>3, SeriesFinite DEF SeriesFound
    <3>2. InSeries(e, r) => T = S \cup {n}
      BY <2>3 DEF SeriesFound, InSeries
    <3>3. ~InSeries(e, r) => T = S
      BY <2>3 DEF SeriesFound, InSeries
    <3> HIDE DEF S, T
    <3>4. Cardinality(S \cup {n}) = Cardinality(S) + 1
      BY <3>1, FS_AddElement
    <3> QED
      BY <3>1, <3>2, <3>3, <3>4 DEF S, T
  <2>5. got[c] \in Seq(Nat) /\ Len(got[c]) \in Nat /\ req[c] \in Requests
    BY <2>2 DEF TypeOK
  <2>6. ASSUME NEW r \in Requests, r.kind = "opN", InSeries(e, r)
        PROVE  /\ req[c].kind = "opN"
               /\ SeriesFound(req[c]) = SeriesFound(r)
    <3>1. /\ req[c].series = r.series /\ req[c].def = r.def
          /\ req[c].input = r.input
      BY <2>2, <2>6 DEF InSeries, Hash
    <3>2. r.series # NoSeries
      BY <2>6, RequestFields
    <3>3. req[c].kind = "opN"
      BY <2>5, <3>1, <3>2, RequestFields
    <3> QED
      BY <3>1, <3>3 DEF SeriesFound, InSeries
  <2>7. SeriesInBounds'
    <3> SUFFICES ASSUME NEW r \in Requests, r.kind = "opN",
                        NEW i \in SeriesFound(r)'
                 PROVE  reports'[i].order < Cardinality(SeriesFound(r)')
      BY DEF SeriesInBounds
    <3> DEFINE N == Cardinality(SeriesFound(r))
               M == Cardinality(SeriesFound(r)')
    <3>1. N \in Nat /\ M \in {N, N + 1} /\ (InSeries(e, r) => M = N + 1)
      BY <2>4
    <3>2. CASE i \in SeriesFound(r)
      <4>1. reports[i].order < N /\ i \in DOMAIN reports
        BY <3>2 DEF SeriesInv, SeriesInBounds, SeriesFound
      <4>2. reports[i].order \in Nat /\ reports'[i] = reports[i]
        BY <2>3, <4>1, ReportAt
      <4> HIDE DEF N, M
      <4>3. reports'[i].order < M
        BY <3>1, <4>1, <4>2
      <4> QED
        BY <4>3 DEF M
    <3>3. CASE i \notin SeriesFound(r)
      <4>1. i = n /\ InSeries(e, r)
        BY <2>4, <3>3
      <4>2. req[c].kind = "opN" /\ SeriesFound(req[c]) = SeriesFound(r)
        BY <2>6, <4>1
      <4>3. Len(got[c]) <= N
        BY <2>2, <4>2 DEF SeriesInv
      <4>4. reports'[i].order = Len(got[c]) /\ M = N + 1
        BY <2>2, <2>3, <3>1, <4>1
      <4> HIDE DEF N, M
      <4>5. reports'[i].order < M
        BY <2>5, <3>1, <4>3, <4>4
      <4> QED
        BY <4>5 DEF M
    <3> QED
      BY <3>2, <3>3
  <2>8. ASSUME NEW d \in Calls
        PROVE  (/\ st[d] \in {"run", "add", "recent"} /\ req[d].kind = "opN" =>
                     Len(got[d]) <= Cardinality(SeriesFound(req[d]))
                /\ st[d] = "handler" => req[d].kind = "seq")'
    <3>1. st'[d] = "handler" => req'[d].kind = "seq"
      BY <2>2 DEF SeriesInv, TypeOK
    <3> SUFFICES ASSUME st'[d] \in {"run", "add", "recent"},
                        req'[d].kind = "opN"
                 PROVE  Len(got'[d]) <= Cardinality(SeriesFound(req[d])')
      BY <3>1
    <3>2. PICK r : r = req[d] /\ r = req'[d]
      BY <2>2
    <3> DEFINE N == Cardinality(SeriesFound(r))
               M == Cardinality(SeriesFound(r)')
    <3>3. N \in Nat /\ M \in {N, N + 1} /\ (InSeries(e, r) => M = N + 1)
      BY <2>4
    <3>4. Len(got[d]) <= N /\ Len(got[d]) \in Nat
      BY <2>2, <3>2 DEF SeriesInv, TypeOK
    <3>5. \/ got'[d] = got[d]
          \/ d = c /\ ~failed[c] /\ got'[d] = Append(got[d], n)
      BY <2>2 DEF TypeOK
    <3>6. d = c /\ ~failed[c] => InSeries(e, r)
      BY <2>2, <3>2 DEF InSeries, Hash
    <3>7. Len(Append(got[d], n)) = Len(got[d]) + 1
      BY DEF TypeOK
    <3> HIDE DEF N, M
    <3>8. Len(got'[d]) <= M
      BY <3>3, <3>4, <3>5, <3>6, <3>7
    <3> QED
      BY <3>2, <3>8 DEF M
  <2> QED
    BY <2>7, <2>8 DEF SeriesInv
<1>4. ASSUME \A c \in Calls : ~AddReport(c) PROVE SeriesInv'
  <2>1. reports' = reports
    BY <1>4, LogSteps
  <2>2. ASSUME NEW r PROVE SeriesFound(r)' = SeriesFound(r)
    BY <2>1 DEF SeriesFound
  <2>3. SeriesInBounds'
    BY <2>1, <2>2 DEF SeriesInv, SeriesInBounds
  <2>4. ASSUME NEW c \in Calls, st'[c] \in {"run", "add", "recent"},
               req'[c].kind = "opN"
        PROVE  Len(got'[c]) <= Cardinality(SeriesFound(req[c])')
    <3>1. PICK r : r = req'[c]
      OBVIOUS
    <3>2. Cardinality(SeriesFound(r)') = Cardinality(SeriesFound(r))
      BY <2>2
    <3>3. CASE st[c] \in {"run", "add", "recent"} /\ got'[c] = got[c]
      <4>1. r = req[c]
        BY <3>1, <3>3, Loaded
      <4> QED
        BY <2>4, <3>1, <3>2, <3>3, <4>1 DEF SeriesInv
    <3>4. CASE Load(c)
      BY <2>4, <3>4 DEF Load
    <3>5. CASE LoadN(c)
      <4>1. r = req[c] /\ got'[c] = SeriesResults(SeriesFound(r))
        BY <2>4, <3>1, <3>5 DEF LoadN, Return, TypeOK
      <4>2. Len(got'[c]) = Cardinality(SeriesFound(r))
        BY <1>2, <4>1, SeriesResultsType
      <4>3. Cardinality(SeriesFound(r)) \in Nat
        BY <1>2, SeriesFinite
      <4>4. \A k \in Nat : k <= k
        OBVIOUS
      <4> QED
        BY <3>1, <3>2, <4>2, <4>3, <4>4
    <3>6. CASE st[c] = "handler"
      BY <2>4, <3>6, Loaded DEF SeriesInv
    <3> QED
      BY <1>4, <2>4, <3>3, <3>4, <3>5, <3>6, Collecting
  <2>5. ASSUME NEW c \in Calls, st'[c] = "handler"
        PROVE  req'[c].kind = "seq"
    BY <1>4, <2>5, Collecting, Loaded DEF SeriesInv
  <2> QED
    BY <2>3, <2>4, <2>5 DEF SeriesInv
<1> QED
  BY <1>3, <1>4

(* No order of a series reaches the number of its successful reports:      *)
(* loading a series never indexes out of range, for any number of          *)
(* goroutines that run it at the same time.                                *)
THEOREM SeriesCorrect == Spec => []SeriesInBounds
<1>1. Init => SeriesInv
  BY DEF Init, SeriesInv, SeriesInBounds, SeriesFound
<1>2. TypeOK /\ SeriesInv /\ [Next]_vars => SeriesInv'
  BY SeriesStep
<1>3. SeriesInv => SeriesInBounds
  BY DEF SeriesInv
<1> QED
  BY <1>1, <1>2, <1>3, TypeCorrect, PTL DEF Spec

-----------------------------------------------------------------------------
(* Refinement of ReportLog *)

(* Every step keeps the invariant on answers. *)
LEMMA AnswerStep ==
  ASSUME TypeOK, AnswerInv, [Next]_vars
  PROVE  AnswerInv'
<1> USE DEF TypeOK
<1>1. ASSUME NEW c \in Calls, AddReport(c) PROVE AnswerInv'
  <2>1. PICK e, n : e = NewReport(c, kids[c]) /\ n = Len(reports) + 1
    OBVIOUS
  <2>2. /\ reports' = Append(reports, e)
        /\ UNCHANGED <<failed, ret>>
        /\ st[c] = "add"
        /\ st' = [st EXCEPT ![c] = "recent"]
        /\ own' = [own EXCEPT ![c] = n]
        /\ e.by = c /\ e.err = failed[c]
    BY <1>1, <2>1 DEF AddReport, NewReport
  <2>3. /\ DOMAIN reports' = DOMAIN reports \cup {n}
        /\ reports'[n] = e
        /\ \A i \in DOMAIN reports : reports'[i] = reports[i]
    BY <2>1, <2>2, AppendElements
  <2>4. ASSUME NEW d \in Calls, d # c
        PROVE  /\ st'[d] = st[d] /\ own'[d] = own[d]
               /\ ret'[d] = ret[d] /\ failed'[d] = failed[d]
    BY <2>2, <2>4
  <2>5. /\ st'[c] = "recent" /\ own'[c] = n
        /\ ret'[c] = ret[c] /\ failed'[c] = failed[c]
    BY <2>2
  <2> HIDE DEF TypeOK
  <2>6. ASSUME NEW d \in Calls
        PROVE  (/\ st[d] # "done" => ret[d] = "none"
                /\ st[d] = "recent" => /\ own[d] \in DOMAIN reports
                                       /\ reports[own[d]].by = d
                                       /\ reports[own[d]].err = failed[d])'
    <3>1. CASE d = c
      BY <2>2, <2>3, <2>5, <3>1 DEF AnswerInv
    <3>2. CASE d # c
      BY <2>3, <2>4, <3>2 DEF AnswerInv
    <3> QED
      BY <3>1, <3>2
  <2> QED
    BY <2>6 DEF AnswerInv
<1>2. ASSUME NEW c \in Calls, NEW p \in Calls \cup {Root},
             NEW r \in Requests, Invoke(c, p, r)
      PROVE  AnswerInv'
  BY <1>2 DEF Invoke, AnswerInv
<1>3. ASSUME NEW c \in Calls, RejectInput(c) PROVE AnswerInv'
  BY <1>3 DEF RejectInput, Return, AnswerInv
<1>4. ASSUME NEW c \in Calls, Load(c) PROVE AnswerInv'
  <2>1. /\ UNCHANGED <<reports, own, failed>>
        /\ \/ Return(c, "ok")
           \/ /\ \E s \in {"run", "handler"} : st' = [st EXCEPT ![c] = s]
              /\ st[c] = "load" /\ ret' = ret
    BY <1>4 DEF Load
  <2>2. CASE Return(c, "ok")
    BY <2>1, <2>2 DEF Return, AnswerInv
  <2>3. ASSUME NEW s \in {"run", "handler"}, st' = [st EXCEPT ![c] = s],
               st[c] = "load", ret' = ret
        PROVE  AnswerInv'
    BY <2>1, <2>3 DEF AnswerInv
  <2> QED
    BY <2>1, <2>2, <2>3
<1>5. ASSUME NEW c \in Calls, LoadN(c) PROVE AnswerInv'
  <2>1. /\ UNCHANGED <<reports, own, failed>>
        /\ \/ Return(c, "ok")
           \/ st' = [st EXCEPT ![c] = "run"] /\ st[c] = "load" /\ ret' = ret
    BY <1>5 DEF LoadN
  <2> QED
    BY <2>1 DEF Return, AnswerInv
<1>6. ASSUME NEW c \in Calls, AddRecent(c) PROVE AnswerInv'
  BY <1>6 DEF AddRecent, AnswerInv
<1>7. ASSUME NEW c \in Calls, Finish(c) PROVE AnswerInv'
  BY <1>7 DEF Finish, Return, AnswerInv
<1>8. ASSUME NEW c \in Calls, Handler(c) PROVE AnswerInv'
  BY <1>8 DEF Handler, HandlerOK, HandlerRetry, HandlerUnserializable,
              HandlerFails, SequenceReturns, SequenceUnserializable, Return,
              AnswerInv
<1>9. CASE UNCHANGED vars
  BY <1>9 DEF vars, AnswerInv
<1> QED
  BY <1>1, <1>2, <1>3, <1>4, <1>5, <1>6, <1>7, <1>8, <1>9 DEF Next, Step

(* Every step is a step of the abstract log. *)
LEMMA LogStep ==
  ASSUME TypeOK, ChildrenInv, AnswerInv, [Next]_vars
  PROVE  [Log!Next]_(Log!vars)
<1> USE DEF TypeOK
<1>1. ASSUME NEW c \in Calls, AddReport(c) PROVE Log!Record(c)
  <2>1. PICK e, n : e = NewReport(c, kids[c]) /\ n = Len(reports) + 1
    OBVIOUS
  <2>2. /\ reports' = Append(reports, e)
        /\ UNCHANGED ret
        /\ st[c] = "add"
        /\ e.by = c /\ e.children = kids[c]
    BY <1>1, <2>1 DEF AddReport, NewReport
  <2>3. /\ Len(reports') = Len(reports) + 1
        /\ DOMAIN reports = 1..Len(reports)
        /\ reports'[n] = e
        /\ \A i \in DOMAIN reports : reports'[i] = reports[i]
    BY <2>1, <2>2, AppendElements
  <2>4. \A k \in DOMAIN e.children : e.children[k] \in 1..Len(reports)
    BY <2>2, <2>3 DEF ChildrenInv, Below
  <2>5. ret[c] = "none"
    BY <2>2 DEF AnswerInv
  <2> QED
    BY <2>1, <2>2, <2>3, <2>4, <2>5 DEF Log!Record
<1>2. ASSUME NEW c \in Calls, NEW a \in {"ok", "err", "notser"},
             Return(c, a), st[c] # "done", reports' = reports,
             a = "err" => st[c] = "recent" /\ failed[c]
      PROVE  Log!Answer(c)
  <2>1. ret[c] = "none" /\ ret' = [ret EXCEPT ![c] = a]
    BY <1>2 DEF Return, AnswerInv
  <2>2. a = "err" => \E i \in 1..Len(reports) : reports[i].by = c /\ reports[i].err
    <3>1. DOMAIN reports = 1..Len(reports)
      BY ReportAt
    <3>2. a = "err" => /\ own[c] \in DOMAIN reports
                       /\ reports[own[c]].by = c
                       /\ reports[own[c]].err
      BY <1>2, Zenon DEF AnswerInv
    <3> QED
      BY <3>1, <3>2
  <2> QED
    BY <1>2, <2>1, <2>2 DEF Log!Answer
<1>3. ASSUME NEW c \in Calls, Step(c) \/ Handler(c), ~AddReport(c)
      PROVE  Log!Answer(c) \/ UNCHANGED <<reports, ret>>
  <2>1. CASE RejectInput(c) \/ HandlerUnserializable(c) \/ SequenceUnserializable(c)
    BY <1>2, <2>1 DEF RejectInput, HandlerUnserializable, SequenceUnserializable
  <2>2. CASE Load(c)
    <3>1. /\ reports' = reports /\ st[c] = "load"
          /\ Return(c, "ok") \/ ret' = ret
      BY <2>2 DEF Load
    <3> QED
      BY <1>2, <3>1
  <2>3. CASE LoadN(c)
    <3>1. /\ reports' = reports /\ st[c] = "load"
          /\ Return(c, "ok") \/ ret' = ret
      BY <2>3 DEF LoadN
    <3> QED
      BY <1>2, <3>1
  <2>4. CASE Finish(c)
    <3>1. /\ reports' = reports /\ st[c] = "recent"
          /\ \/ failed[c] /\ Return(c, "err")
             \/ Return(c, "ok")
             \/ ret' = ret
      BY <2>4 DEF Finish
    <3> QED
      BY <1>2, <3>1
  <2>5. CASE \/ AddRecent(c) \/ HandlerOK(c) \/ HandlerRetry(c)
             \/ HandlerFails(c) \/ SequenceReturns(c)
    BY <2>5 DEF AddRecent, HandlerOK, HandlerRetry, HandlerFails, SequenceReturns
  <2> QED
    BY <1>3, <2>1, <2>2, <2>3, <2>4, <2>5 DEF Step, Handler
<1>4. ASSUME NEW c \in Calls, NEW p \in Calls \cup {Root},
             NEW r \in Requests, Invoke(c, p, r)
      PROVE  UNCHANGED <<reports, ret>>
  BY <1>4 DEF Invoke
<1>5. CASE UNCHANGED vars
  BY <1>5 DEF vars, Log!vars
<1> QED
  BY <1>1, <1>3, <1>4, <1>5 DEF Next, Log!Next, Log!vars

(* The Operations API implements ReportLog: its log of reports is append-  *)
(* only, and every failure that a call returns has been reported.          *)
THEOREM LogCorrect == Spec => LogRefined
<1>1. Init => Log!Init
  BY DEF Init, Log!Init
<1>2. Init => ChildrenInv /\ AnswerInv
  BY DEF Init, ChildrenInv, ChildrenPrecede, AnswerInv
<1>3. TypeOK /\ ChildrenInv /\ AnswerInv /\ [Next]_vars => ChildrenInv' /\ AnswerInv'
  BY ChildrenStep, AnswerStep
<1>4. TypeOK /\ ChildrenInv /\ AnswerInv /\ [Next]_vars => [Log!Next]_(Log!vars)
  BY LogStep
<1> QED
  BY <1>1, <1>2, <1>3, <1>4, TypeCorrect, PTL DEF Spec, LogRefined, Log!Spec

-----------------------------------------------------------------------------
(* What one step does to one call *)

\* A step leaves a call where it is, with everything it holds.
Untouched(c) ==
  /\ st'[c] = st[c] /\ req'[c] = req[c] /\ chain'[c] = chain[c]
  /\ failed'[c] = failed[c] /\ kids'[c] = kids[c] /\ own'[c] = own[c]
  /\ todo'[c] = todo[c] /\ got'[c] = got[c] /\ ret'[c] = ret[c]

\* A step is a step of one call: it leaves every other call alone.
LEMMA OneCall ==
  ASSUME TypeOK, [Next]_vars
  PROVE  \/ \A c \in Calls : Untouched(c)
         \/ \E d \in Calls :
              /\ \A c \in Calls \ {d} : Untouched(c)
              /\ \/ \E p \in Calls \cup {Root}, r \in Requests : Invoke(d, p, r)
                 \/ Step(d) \/ Handler(d)
<1> USE DEF TypeOK
<1>1. ASSUME NEW d \in Calls, NEW p \in Calls \cup {Root},
             NEW r \in Requests, Invoke(d, p, r),
             NEW c \in Calls \ {d}
      PROVE  Untouched(c)
  BY <1>1 DEF Invoke, Untouched
<1>2. ASSUME NEW d \in Calls, Step(d), NEW c \in Calls \ {d}
      PROVE  Untouched(c)
  <2>1. CASE RejectInput(d)
    BY <2>1 DEF RejectInput, Return, Untouched
  <2>2. CASE Load(d)
    BY <2>2 DEF Load, Return, Untouched
  <2>3. CASE LoadN(d)
    BY <2>3 DEF LoadN, Return, Untouched
  <2>4. CASE AddReport(d)
    BY <2>4 DEF AddReport, Untouched
  <2>5. CASE AddRecent(d)
    BY <2>5 DEF AddRecent, Untouched
  <2>6. CASE Finish(d)
    BY <2>6 DEF Finish, Return, Untouched
  <2> QED
    BY <1>2, <2>1, <2>2, <2>3, <2>4, <2>5, <2>6 DEF Step
<1>3. ASSUME NEW d \in Calls, Handler(d), NEW c \in Calls \ {d}
      PROVE  Untouched(c)
  BY <1>3 DEF Handler, HandlerOK, HandlerRetry, HandlerUnserializable,
              HandlerFails, SequenceReturns, SequenceUnserializable, Return,
              Untouched
<1>4. CASE UNCHANGED vars
  BY <1>4 DEF vars, Untouched
<1>5. CASE Next
  BY <1>1, <1>2, <1>3, <1>5 DEF Next
<1> QED
  BY <1>4, <1>5

\* A step by one call adds a report, or leaves the log as it is.
LEMMA LogKept ==
  ASSUME NEW c \in Calls,
         (\E p \in Calls \cup {Root}, r \in Requests : Invoke(c, p, r))
           \/ Step(c) \/ Handler(c),
         ~AddReport(c)
  PROVE  reports' = reports
BY DEF Step, Invoke, RejectInput, Load, LoadN, AddRecent, Finish, Handler,
       HandlerOK, HandlerRetry, HandlerUnserializable, HandlerFails,
       SequenceReturns, SequenceUnserializable

\* The requests of a series carry no idempotency key.
LEMMA SeriesKey ==
  ASSUME NEW r \in Requests, r.kind = "opN"
  PROVE  r.key = NoKey /\ r.series # NoSeries
<1>1. r \in OpReq \cup OpNReq \cup SeqReq
  BY ConstantsOK DEF ConstantsOK
<1> QED
  BY <1>1, RequestFields DEF OpReq, OpNReq, SeqReq

\* The k-th result of a series is a successful report of it with order
\* k - 1, or 0 if there is none.
LEMMA SeriesResultAt ==
  ASSUME reports \in Seq(Report), NEW r,
         NEW k \in 1..Cardinality(SeriesFound(r))
  PROVE  LET i == SeriesResults(SeriesFound(r))[k]
         IN  \/ i \in SeriesFound(r) /\ reports[i].order = k - 1
             \/ i = 0 /\ \A j \in SeriesFound(r) : reports[j].order # k - 1
<1> DEFINE S == SeriesFound(r)
           here == {j \in S : reports[j].order = k - 1}
<1>1. S \in SUBSET (1..Len(reports)) /\ Len(reports) \in Nat
  BY SeriesFinite
<1>2. here \in SUBSET (1..Len(reports))
  BY <1>1
<1>3. SeriesResults(S)[k] = IF here = {} THEN 0 ELSE Latest(here)
  BY DEF SeriesResults
<1>4. here # {} => Latest(here) \in here
  <2> HIDE DEF here
  <2> QED
    BY <1>1, <1>2, LatestIn
<1> QED
  BY <1>3, <1>4

-----------------------------------------------------------------------------
(* Results of calls *)

\* What a call may hand out: nothing, or a success of its own definition,
\* input and key.
Fits(c, i) ==
  i # 0 => /\ i \in DOMAIN reports
           /\ ~reports[i].err
           /\ ReportHash(reports[i]) = ReqHash(req[c])

One(c) == Len(got[c]) = 1 /\ got[c][1] # 0

\* Everything a call has collected fits it.
AllFit(c) == \A k \in DOMAIN got[c] : Fits(c, got[c][k])

\* What a call has collected, by where it is.
Collected(c) ==
  /\ AllFit(c)
  /\ st[c] \in {"idle", "load"} => got[c] = <<>>
  /\ st[c] # "done" => ret[c] = "none"
  /\ req[c].kind # "opN" =>
       /\ st[c] \in {"run", "handler", "add"} => got[c] = <<>>
       /\ st[c] = "recent" => IF failed[c] THEN got[c] = <<>> ELSE One(c)
       /\ ret[c] = "ok" => One(c)

\* Why ResultsSound holds: every call has collected successes of its own
\* request only, and a report of a series never carries a key.
ResultsInv ==
  /\ \A i \in DOMAIN reports : reports[i].series # NoSeries => reports[i].key = NoKey
  /\ \A c \in Calls : Collected(c)

\* A report of the log stays what it is.
LEMMA ReportKept ==
  ASSUME TypeOK, [Next]_vars, NEW i \in DOMAIN reports
  PROVE  i \in DOMAIN reports' /\ reports'[i] = reports[i]
<1>1. DOMAIN reports' = 1..Len(reports') /\ Len(reports') \in Nat
  BY TypeStep DEF TypeOK
<1> QED
  BY <1>1, Monotone, ReportAt

\* What a call may hand out it may hand out later.
LEMMA FitsKept ==
  ASSUME TypeOK, [Next]_vars, NEW c \in Calls, req'[c] = req[c],
         NEW i, Fits(c, i)
  PROVE  Fits(c, i)'
<1>1. CASE i = 0
  BY <1>1 DEF Fits
<1>2. CASE i # 0
  BY <1>2, ReportKept DEF Fits, ReportHash, ReqHash
<1> QED
  BY <1>1, <1>2

\* All that a call has collected fits it when all that is in q does.
LEMMA AllFitOf ==
  ASSUME NEW c \in Calls, NEW q, got'[c] = q,
         \A k \in DOMAIN q : Fits(c, q[k])'
  PROVE  AllFit(c)'
BY DEF AllFit

\* What a call has collected goes on fitting it.
LEMMA AllFitKept ==
  ASSUME TypeOK, [Next]_vars, NEW c \in Calls, AllFit(c),
         req'[c] = req[c] \/ got[c] = <<>>, got'[c] = got[c]
  PROVE  AllFit(c)'
<1>1. PICK q : q = got[c]
  OBVIOUS
<1>2. \A k \in DOMAIN q : Fits(c, q[k])'
  BY <1>1, FitsKept DEF AllFit
<1> QED
  BY <1>1, <1>2, AllFitOf

\* A call that a step leaves alone keeps what it has collected.
LEMMA CollectedKept ==
  ASSUME TypeOK, [Next]_vars, NEW c \in Calls, Collected(c), Untouched(c)
  PROVE  Collected(c)'
<1>1. AllFit(c)'
  BY AllFitKept DEF Collected, Untouched
<1> QED
  BY <1>1 DEF Collected, One, Untouched

\* The step of a call keeps what it has collected true.
LEMMA CollectedStep ==
  ASSUME TypeOK, ResultsInv, [Next]_vars, NEW c \in Calls,
         \/ \E p \in Calls \cup {Root}, r \in Requests : Invoke(c, p, r)
         \/ Step(c) \/ Handler(c)
  PROVE  Collected(c)'
<1> USE DEF TypeOK
<1>1. Collected(c)
  BY DEF ResultsInv
<1>2. got[c] \in Seq(Nat) /\ DOMAIN got[c] = 1..Len(got[c]) /\ Len(got[c]) \in Nat
  OBVIOUS
<1>3. st[c] # "idle" => req[c] \in Requests /\ req'[c] = req[c]
  BY Monotone
<1>4. got'[c] = got[c] => AllFit(c)'
  BY <1>1, <1>3, AllFitKept DEF Collected
<1>5. CASE \E p \in Calls \cup {Root}, r \in Requests : Invoke(c, p, r)
  <2>1. st[c] = "idle" /\ st'[c] = "load" /\ got'[c] = got[c] /\ ret'[c] = ret[c]
    BY <1>5 DEF Invoke
  <2> QED
    BY <1>1, <1>4, <2>1 DEF Collected
<1>6. CASE RejectInput(c)
  <2>1. /\ st[c] = "load" /\ st'[c] = "done" /\ ret'[c] = "notser"
        /\ got'[c] = got[c]
    BY <1>6 DEF RejectInput, Return
  <2> QED
    BY <1>1, <1>3, <1>4, <2>1 DEF Collected
<1>7. CASE Load(c)
  <2>1. st[c] = "load" /\ req[c].kind # "opN" /\ got[c] = <<>> /\ ret[c] = "none"
    BY <1>1, <1>7 DEF Load, Collected
  <2>2. \/ \E S : S = Previous(req[c]) /\ S # {}
                  /\ got'[c] = <<Latest(S)>> /\ st'[c] = "done" /\ ret'[c] = "ok"
        \/ st'[c] \in {"run", "handler"} /\ got'[c] = got[c] /\ ret'[c] = ret[c]
    BY <1>7 DEF Load, Return
  <2>3. CASE st'[c] \in {"run", "handler"} /\ got'[c] = got[c] /\ ret'[c] = ret[c]
    BY <1>3, <1>4, <2>1, <2>3 DEF Collected
  <2>4. ASSUME NEW S, S = Previous(req[c]), S # {}, got'[c] = <<Latest(S)>>,
               st'[c] = "done", ret'[c] = "ok"
        PROVE  Collected(c)'
    <3>1. S \in SUBSET (1..Len(reports)) /\ Len(reports) \in Nat
      BY <2>4 DEF Previous
    <3>2. PICK l : l = Latest(S) /\ l \in S
      BY <2>4, <3>1, LatestIn
    <3>3. Fits(c, l) /\ l # 0
      BY <2>4, <3>1, <3>2 DEF Fits, Previous
    <3>4. Fits(c, l)'
      BY <1>3, <2>1, <3>3, FitsKept
    <3>5. got'[c] = <<l>> /\ DOMAIN <<l>> = {1} /\ <<l>>[1] = l /\ Len(<<l>>) = 1
      BY <2>4, <3>2
    <3>6. AllFit(c)'
      BY <3>4, <3>5, AllFitOf
    <3> QED
      BY <2>4, <3>3, <3>5, <3>6 DEF Collected, One
  <2> QED
    BY <2>2, <2>3, <2>4
<1>8. CASE LoadN(c)
  <2>1. st[c] = "load" /\ req[c].kind = "opN" /\ req'[c] = req[c] /\ ret[c] = "none"
    BY <1>1, <1>3, <1>8 DEF LoadN, Collected
  <2>2. PICK R, S, n : /\ S = SeriesFound(req[c]) /\ R = SeriesResults(S)
                       /\ n = req[c].n
    OBVIOUS
  <2>3. \/ got'[c] = SubSeq(R, 1, n) /\ Len(R) >= n /\ st'[c] = "done" /\ ret'[c] = "ok"
        \/ got'[c] = R /\ st'[c] = "run" /\ ret'[c] = ret[c]
    BY <1>8, <2>2 DEF LoadN, Return
  <2>4. R \in Seq(Nat) /\ Len(R) = Cardinality(S) /\ n \in Nat
    BY <1>3, <2>1, <2>2, SeriesResultsType, RequestFields
  <2>5. ASSUME NEW k \in 1..Len(R) PROVE Fits(c, R[k])
    <3>1. R[k] = 0 \/ R[k] \in S
      BY <2>2, <2>4, SeriesResultAt
    <3>2. ASSUME NEW i \in S PROVE Fits(c, i)
      <4>1. /\ i \in DOMAIN reports /\ ~reports[i].err
            /\ reports[i].series = req[c].series
            /\ reports[i].def = req[c].def /\ reports[i].input = req[c].input
        BY <2>2, <3>2 DEF SeriesFound, InSeries, Hash
      <4>2. req[c].key = NoKey /\ req[c].series # NoSeries
        BY <1>3, <2>1, SeriesKey
      <4>3. reports[i].key = NoKey
        BY <4>1, <4>2 DEF ResultsInv
      <4> QED
        BY <4>1, <4>2, <4>3 DEF Fits, ReportHash, ReqHash, Hash
    <3> QED
      BY <3>1, <3>2 DEF Fits
  <2>6. \A k \in 1..Len(R) : Fits(c, R[k])'
    BY <2>1, <2>5, FitsKept
  <2>7. PICK q : q = got'[c]
    OBVIOUS
  <2>8. \A k \in DOMAIN q : k \in 1..Len(R) /\ q[k] = R[k]
    <3>1. Len(R) >= n => /\ DOMAIN SubSeq(R, 1, n) = 1..n
                         /\ \A k \in 1..n : k \in 1..Len(R) /\ SubSeq(R, 1, n)[k] = R[k]
      BY <2>4
    <3>2. DOMAIN R = 1..Len(R)
      BY <2>4
    <3> QED
      BY <2>3, <2>7, <3>1, <3>2
  <2>9. AllFit(c)'
    <3>1. \A k \in DOMAIN q : Fits(c, q[k])'
      BY <2>6, <2>8
    <3> QED
      BY <2>7, <3>1, AllFitOf
  <2> QED
    BY <2>1, <2>3, <2>9 DEF Collected
<1>9. CASE AddReport(c)
  <2>1. PICK n : n = Len(reports) + 1
    OBVIOUS
  <2>2. /\ reports' = Append(reports, NewReport(c, kids[c]))
        /\ st[c] = "add" /\ st'[c] = "recent" /\ failed'[c] = failed[c]
        /\ got'[c] = IF failed[c] THEN got[c] ELSE Append(got[c], n)
        /\ ret'[c] = ret[c]
    BY <1>9, <2>1 DEF AddReport
  <2>3. n # 0 /\ n \in DOMAIN reports' /\ reports'[n] = NewReport(c, kids[c])
    BY <2>1, <2>2, AppendElements
  <2>4. req'[c] = req[c]
    BY <1>3, <2>2
  <2>5. ~failed[c] => Fits(c, n)'
    BY <2>3, <2>4 DEF Fits, NewReport, ReportHash, ReqHash
  <2>6. /\ DOMAIN Append(got[c], n) = 1..(Len(got[c]) + 1)
        /\ Append(got[c], n)[Len(got[c]) + 1] = n
        /\ \A k \in 1..Len(got[c]) : Append(got[c], n)[k] = got[c][k]
        /\ Len(Append(got[c], n)) = Len(got[c]) + 1
    BY <1>2
  <2>7. PICK q : q = Append(got[c], n)
    OBVIOUS
  <2>8. ~failed[c] => \A k \in DOMAIN q : Fits(c, q[k])'
    <3>1. \A k \in 1..Len(got[c]) : Fits(c, got[c][k])
      BY <1>1, <1>2 DEF Collected, AllFit
    <3>2. \A k \in 1..Len(got[c]) : Fits(c, q[k])'
      BY <2>4, <2>6, <2>7, <3>1, FitsKept
    <3> HIDE DEF TypeOK
    <3>3. \A k \in 1..(Len(got[c]) + 1) : k \in 1..Len(got[c]) \/ k = Len(got[c]) + 1
      <4>1. \A m \in Nat : \A k \in 1..(m + 1) : k \in 1..m \/ k = m + 1
        OBVIOUS
      <4> QED
        BY <1>2, <4>1
    <3>4. \A k \in DOMAIN q : k \in 1..Len(got[c]) \/ q[k] = n
      BY <2>6, <2>7, <3>3
    <3> QED
      BY <2>5, <3>2, <3>4
  <2>9. AllFit(c)'
    BY <1>4, <2>2, <2>7, <2>8, AllFitOf
  <2>10. req[c].kind # "opN" => got[c] = <<>>
    BY <1>1, <2>2 DEF Collected
  <2>11. Len(<<>>) = 0
    OBVIOUS
  <2>12. req[c].kind # "opN" => IF failed[c] THEN got'[c] = <<>> ELSE One(c)'
    BY <2>2, <2>3, <2>6, <2>10, <2>11 DEF One
  <2> QED
    BY <1>1, <2>2, <2>4, <2>9, <2>12 DEF Collected
<1>10. CASE AddRecent(c)
  <2>1. /\ st'[c] = st[c] /\ failed'[c] = failed[c] /\ got'[c] = got[c]
        /\ ret'[c] = ret[c] /\ req'[c] = req[c]
    BY <1>10 DEF AddRecent
  <2> QED
    BY <1>1, <1>4, <2>1 DEF Collected, One
<1>11. CASE Finish(c)
  <2>1. /\ st[c] = "recent" /\ got'[c] = got[c] /\ req'[c] = req[c]
        /\ \/ st'[c] = "done" /\ ret'[c] = "err"
           \/ ~failed[c] /\ st'[c] = "run" /\ ret'[c] = ret[c] /\ Len(got[c]) < req[c].n
           \/ ~failed[c] /\ st'[c] = "done" /\ ret'[c] = "ok"
    BY <1>11 DEF Finish, Return
  <2>2. req[c].kind # "opN" => req[c].n = 1
    BY <1>3, <2>1, RequestFields
  <2>3. req[c].kind # "opN" /\ ~failed[c] => One(c)
    BY <1>1, <2>1 DEF Collected
  <2> QED
    BY <1>1, <1>4, <2>1, <2>2, <2>3 DEF Collected, One
<1>12. CASE Handler(c)
  <2>1. /\ got'[c] = got[c] /\ req'[c] = req[c]
        /\ st[c] \in {"run", "handler"}
        /\ \/ st'[c] \in {"run", "add"} /\ ret'[c] = ret[c]
           \/ st'[c] = "done" /\ ret'[c] = "notser"
    BY <1>12 DEF Handler, HandlerOK, HandlerRetry, HandlerUnserializable,
                 HandlerFails, SequenceReturns, SequenceUnserializable, Return
  <2> QED
    BY <1>1, <1>4, <2>1 DEF Collected
<1> QED
  BY <1>5, <1>6, <1>7, <1>8, <1>9, <1>10, <1>11, <1>12 DEF Step

\* Every step keeps the inductive invariant.
LEMMA ResultsStep ==
  ASSUME TypeOK, ResultsInv, [Next]_vars
  PROVE  ResultsInv'
<1>1. \A c \in Calls : Collected(c)'
  BY OneCall, CollectedKept, CollectedStep DEF ResultsInv
<1>2. ASSUME NEW c \in Calls, AddReport(c)
      PROVE  \A i \in DOMAIN reports' :
               reports'[i].series # NoSeries => reports'[i].key = NoKey
  <2>1. PICK e, n : e = NewReport(c, kids[c]) /\ n = Len(reports) + 1
    OBVIOUS
  <2>2. /\ reports' = Append(reports, e) /\ st[c] = "add"
        /\ e.series = req[c].series /\ e.key = req[c].key
    BY <1>2, <2>1 DEF AddReport, NewReport
  <2>3. e.series # NoSeries => e.key = NoKey
    BY <2>2, SeriesKey, RequestFields DEF TypeOK
  <2>4. \A i \in DOMAIN reports' :
           \/ i \in DOMAIN reports /\ reports'[i] = reports[i]
           \/ reports'[i] = e
    BY <2>1, <2>2, AppendElements DEF TypeOK
  <2> QED
    BY <2>3, <2>4 DEF ResultsInv
<1>3. ASSUME \A c \in Calls : ~AddReport(c) PROVE reports' = reports
  BY <1>3, LogSteps
<1>4. \A i \in DOMAIN reports' :
        reports'[i].series # NoSeries => reports'[i].key = NoKey
  BY <1>2, <1>3 DEF ResultsInv
<1> QED
  BY <1>1, <1>4 DEF ResultsInv

\* A call that returns without an error hands out successful reports of its
\* own definition, input and idempotency key, and exactly one unless it is
\* ExecuteOperationN.
THEOREM ResultsCorrect == Spec => []ResultsSound
<1>1. Init => ResultsInv
  BY DEF Init, ResultsInv, Collected, AllFit
<1>2. TypeOK /\ ResultsInv /\ [Next]_vars => ResultsInv'
  BY ResultsStep
<1>3. ResultsInv => ResultsSound
  BY DEF ResultsInv, ResultsSound, Collected, AllFit, Fits, One
<1> QED
  BY <1>1, <1>2, <1>3, TypeCorrect, PTL DEF Spec
-----------------------------------------------------------------------------
(* Complete series *)

\* The report that c adds next counts for the series of r.
Joins(c, r) ==
  /\ ~failed[c]
  /\ req[c].series = r.series /\ req[c].def = r.def /\ req[c].input = r.input

\* No order below the number of its successful reports is missing.
Filled(r) ==
  \A k \in 1..Cardinality(SeriesFound(r)) :
    \E i \in SeriesFound(r) : reports[i].order = k - 1

\* The k-th report that c has collected is run k - 1 of its series.
InOrder(c) ==
  \A k \in DOMAIN got[c] :
    got[c][k] \in SeriesFound(req[c]) /\ reports[got[c][k]].order = k - 1

\* No series is being run by two calls.
Alone ==
  \A c, d \in Calls : Active(c) /\ Active(d) /\ c # d => ~SameSeries(req[c], req[d])

\* A call that runs a series has collected all of it.
Extending(c) ==
  req[c].kind = "opN" =>
    /\ st[c] \in {"run", "add", "recent"} =>
         InOrder(c) /\ Len(got[c]) = Cardinality(SeriesFound(req[c]))
    /\ st[c] \in {"run", "add"} => Len(got[c]) < req[c].n
    /\ st[c] = "recent" => Len(got[c]) <= req[c].n
    /\ st[c] = "done" /\ ret[c] = "ok" => InOrder(c) /\ Len(got[c]) = req[c].n

\* Why SeriesComplete holds when series are run one call at a time.
SeriesCompleteInv ==
  /\ Alone
  /\ \A r \in Requests : r.kind = "opN" => Filled(r)
  /\ \A c \in Calls : Extending(c)

\* A report extends the series it counts for by one and leaves every other
\* one as it is.
LEMMA SeriesGrows ==
  ASSUME TypeOK, NEW c \in Calls, AddReport(c), NEW r,
         NEW S, S = SeriesFound(r), NEW T, T = SeriesFound(r)',
         NEW n, n = Len(reports) + 1
  PROVE  /\ Cardinality(S) \in Nat
         /\ Joins(c, r) => T = S \cup {n} /\ Cardinality(T) = Cardinality(S) + 1
         /\ ~Joins(c, r) => T = S
         /\ n \in DOMAIN reports' /\ reports'[n].order = Len(got[c])
         /\ \A i \in S : reports'[i] = reports[i]
<1>1. PICK e : e = NewReport(c, kids[c])
  OBVIOUS
<1>2. /\ reports' = Append(reports, e)
      /\ e.series = req[c].series /\ e.def = req[c].def
      /\ e.input = req[c].input /\ e.order = Len(got[c]) /\ e.err = failed[c]
  BY <1>1 DEF AddReport, NewReport
<1>3. reports \in Seq(Report)
  BY DEF TypeOK
<1>4. /\ DOMAIN reports' = DOMAIN reports \cup {n}
      /\ reports'[n] = e
      /\ \A i \in DOMAIN reports : reports'[i] = reports[i]
      /\ n \notin DOMAIN reports
  <2>1. /\ DOMAIN Append(reports, e) = DOMAIN reports \cup {Len(reports) + 1}
        /\ Append(reports, e)[Len(reports) + 1] = e
        /\ \A i \in DOMAIN reports : Append(reports, e)[i] = reports[i]
    BY <1>3, AppendElements
  <2> QED
    BY <1>2, <2>1, ReportAt
<1>5. InSeries(e, r) <=> Joins(c, r)
  BY <1>2 DEF InSeries, Joins, Hash
<1>6. IsFiniteSet(S) /\ Cardinality(S) \in Nat /\ n \notin S
  BY <1>3, <1>4, SeriesFinite DEF SeriesFound
<1>7. /\ Joins(c, r) => T = S \cup {n}
      /\ ~Joins(c, r) => T = S
  BY <1>4, <1>5 DEF SeriesFound, InSeries
<1>8. Cardinality(S \cup {n}) = Cardinality(S) + 1
  BY <1>6, FS_AddElement
<1>9. \A i \in S : reports'[i] = reports[i]
  BY <1>4 DEF SeriesFound
<1> QED
  BY <1>2, <1>4, <1>6, <1>7, <1>8, <1>9

\* Only a call of the same series adds to a series.
LEMMA JoinsSame ==
  ASSUME TypeOK, NEW c \in Calls, req[c] \in Requests,
         NEW r \in Requests, r.kind = "opN", Joins(c, r)
  PROVE  /\ req[c].kind = "opN" /\ SameSeries(req[c], r)
         /\ SeriesFound(req[c]) = SeriesFound(r)
<1>1. r.series # NoSeries
  BY RequestFields
<1>2. req[c].kind = "opN"
  BY <1>1, RequestFields DEF Joins
<1> QED
  BY <1>2 DEF Joins, SameSeries, SeriesFound, InSeries

\* Every step leaves the series without gaps.
LEMMA FilledStep ==
  ASSUME TypeOK, SeriesCompleteInv, [Next]_vars,
         NEW r \in Requests, r.kind = "opN"
  PROVE  Filled(r)'
<1>1. ASSUME NEW c \in Calls, AddReport(c) PROVE Filled(r)'
  <2>1. PICK S, T, n : S = SeriesFound(r) /\ T = SeriesFound(r)' /\ n = Len(reports) + 1
    OBVIOUS
  <2>2. /\ Cardinality(S) \in Nat
        /\ Joins(c, r) => T = S \cup {n} /\ Cardinality(T) = Cardinality(S) + 1
        /\ ~Joins(c, r) => T = S
        /\ reports'[n].order = Len(got[c])
        /\ \A i \in S : reports'[i] = reports[i]
    BY <1>1, <2>1, SeriesGrows
  <2>3. \A k \in 1..Cardinality(S) : \E i \in S : reports'[i].order = k - 1
    BY <2>1, <2>2 DEF SeriesCompleteInv, Filled
  <2>4. \A k \in 1..Cardinality(T) : \E i \in T : reports'[i].order = k - 1
    <3>1. CASE ~Joins(c, r)
      BY <2>2, <2>3, <3>1
    <3>2. CASE Joins(c, r)
      <4>1. req[c] \in Requests /\ st[c] = "add"
        BY <1>1 DEF AddReport, TypeOK
      <4>2. req[c].kind = "opN" /\ SeriesFound(req[c]) = S
        BY <2>1, <3>2, <4>1, JoinsSame
      <4>3. Len(got[c]) = Cardinality(S)
        BY <4>1, <4>2 DEF SeriesCompleteInv, Extending
      <4>4. ASSUME NEW k \in 1..Cardinality(T)
            PROVE  \E i \in T : reports'[i].order = k - 1
        <5>1. k \in 1..Cardinality(S) \/ k - 1 = Cardinality(S)
          BY <2>2, <3>2
        <5> QED
          BY <2>2, <2>3, <3>2, <4>3, <5>1
      <4> QED
        BY <4>4
    <3> QED
      BY <3>1, <3>2
  <2> QED
    BY <2>1, <2>4 DEF Filled
<1>2. ASSUME reports' = reports PROVE Filled(r)'
  BY <1>2 DEF SeriesCompleteInv, Filled, SeriesFound
<1> QED
  BY <1>1, <1>2, LogSteps

\* A step of a call that has been made keeps its arguments; it was active.
LEMMA StepActive ==
  ASSUME TypeOK, [Next]_vars, NEW c \in Calls, Step(c) \/ Handler(c)
  PROVE  Active(c) /\ req[c] \in Requests /\ req'[c] = req[c]
<1>1. st[c] \in {"load", "run", "handler", "add", "recent"}
  BY DEF Step, RejectInput, Load, LoadN, AddReport, AddRecent, Finish, Handler,
         HandlerOK, HandlerRetry, HandlerUnserializable, HandlerFails,
         SequenceReturns, SequenceUnserializable
<1> QED
  BY <1>1, Monotone DEF Active, TypeOK

\* Every step leaves at most one call running a series.
LEMMA AloneStep ==
  ASSUME TypeOK, Alone, ExclusiveSeries, [Next]_vars
  PROVE  Alone'
<1>1. CASE \A c \in Calls : Untouched(c)
  BY <1>1 DEF Alone, Untouched, Active
<1>2. ASSUME NEW d \in Calls, \A c \in Calls \ {d} : Untouched(c),
             Step(d) \/ Handler(d)
      PROVE  Alone'
  <2>1. \A c \in Calls : req'[c] = req[c] /\ (Active(c)' => Active(c))
    BY <1>2, StepActive DEF Untouched, Active
  <2> QED
    BY <2>1 DEF Alone
<1>3. ASSUME NEW d \in Calls, \A c \in Calls \ {d} : Untouched(c),
             NEW p \in Calls \cup {Root}, NEW r \in Requests, Invoke(d, p, r)
      PROVE  Alone'
  <2>1. \A c \in Calls \ {d} : req'[c] = req[c] /\ (Active(c)' => Active(c))
    BY <1>3 DEF Untouched, Active
  <2>2. req'[d] = r
    BY <1>3 DEF Invoke, TypeOK
  <2>3. \A c \in Calls \ {d} : Active(c) => ~SameSeries(req[c], r) /\ ~SameSeries(r, req[c])
    BY <1>3 DEF Invoke, SameSeries
  <2> QED
    BY <2>1, <2>2, <2>3 DEF Alone
<1> QED
  BY <1>1, <1>2, <1>3, OneCall

\* What a call has collected in order stays in order.
LEMMA InOrderKept ==
  ASSUME TypeOK, [Next]_vars, NEW c \in Calls, InOrder(c),
         req'[c] = req[c], got'[c] = got[c]
  PROVE  InOrder(c)'
<1>1. \A i \in SeriesFound(req[c]) : /\ i \in DOMAIN reports'
                                     /\ reports'[i] = reports[i]
                                     /\ InSeries(reports[i], req[c])
  BY ReportKept DEF SeriesFound
<1>2. PICK r : r = req[c]
  OBVIOUS
<1>3. \A i \in SeriesFound(r) : i \in SeriesFound(r)' /\ reports'[i] = reports[i]
  BY <1>1, <1>2 DEF SeriesFound, InSeries
<1> QED
  BY <1>2, <1>3 DEF InOrder

\* A call that a step leaves alone goes on holding all of its series.
LEMMA ExtendingKept ==
  ASSUME TypeOK, SeriesCompleteInv, [Next]_vars, NEW c \in Calls, Untouched(c),
         ~AddReport(c)
  PROVE  Extending(c)'
<1>1. SUFFICES ASSUME req[c].kind = "opN" PROVE Extending(c)'
  BY DEF Extending, Untouched
<1>2. InOrder(c) => InOrder(c)'
  BY InOrderKept DEF Untouched
<1>3. ASSUME st[c] \in {"run", "add", "recent"}
      PROVE  Cardinality(SeriesFound(req[c])') = Cardinality(SeriesFound(req[c]))
  <2>1. ASSUME NEW d \in Calls, AddReport(d)
        PROVE  SeriesFound(req[c])' = SeriesFound(req[c])
    <3>1. PICK r, S, T, n : /\ r = req[c] /\ S = SeriesFound(r)
                            /\ T = SeriesFound(r)' /\ n = Len(reports) + 1
      OBVIOUS
    <3>2. r \in Requests /\ r.kind = "opN" /\ req'[c] = r
      BY <1>1, <1>3, <3>1 DEF TypeOK, Untouched
    <3>3. Active(c) /\ Active(d) /\ c # d
      BY <1>3, <2>1 DEF Active, AddReport
    <3>4. ~SameSeries(req[d], r)
      BY <3>1, <3>3 DEF SeriesCompleteInv, Alone
    <3>5. ~Joins(d, r)
      <4>1. req[d] \in Requests
        BY <3>3 DEF Active, TypeOK
      <4> QED
        BY <3>2, <3>4, <4>1, JoinsSame
    <3>6. T = S
      BY <2>1, <3>1, <3>5, SeriesGrows
    <3> QED
      BY <3>1, <3>2, <3>6
  <2>2. ASSUME reports' = reports
        PROVE  SeriesFound(req[c])' = SeriesFound(req[c])
    BY <2>2 DEF SeriesFound, Untouched
  <2> QED
    BY <2>1, <2>2, LogSteps
<1> QED
  BY <1>1, <1>2, <1>3 DEF SeriesCompleteInv, Extending, Untouched

\* A series that has been loaded without gaps.
LEMMA LoadedInOrder ==
  ASSUME reports \in Seq(Report), NEW r, Filled(r),
         NEW S, S = SeriesFound(r), NEW R, R = SeriesResults(S)
  PROVE  /\ R \in Seq(Nat) /\ Len(R) = Cardinality(S)
         /\ \A k \in 1..Len(R) : R[k] \in S /\ reports[R[k]].order = k - 1
<1>1. R \in Seq(Nat) /\ Len(R) = Cardinality(S)
  BY SeriesResultsType
<1>2. ASSUME NEW k \in 1..Cardinality(S)
      PROVE  R[k] \in S /\ reports[R[k]].order = k - 1
  <2>1. \E i \in S : reports[i].order = k - 1
    BY DEF Filled
  <2> QED
    BY <2>1, SeriesResultAt
<1> QED
  BY <1>1, <1>2

\* A step of a call keeps all of its series collected.
LEMMA ExtendingStep ==
  ASSUME TypeOK, SeriesCompleteInv, ResultsInv, SeriesInv, [Next]_vars,
         NEW c \in Calls,
         \/ \E p \in Calls \cup {Root}, r \in Requests : Invoke(c, p, r)
         \/ Step(c) \/ Handler(c)
  PROVE  Extending(c)'
<1>1. Extending(c) /\ got[c] \in Seq(Nat)
  BY DEF SeriesCompleteInv, TypeOK
<1>2. CASE \E p \in Calls \cup {Root}, r \in Requests : Invoke(c, p, r)
  BY <1>2 DEF Invoke, Extending, TypeOK
<1>3. SUFFICES ASSUME Step(c) \/ Handler(c), req[c].kind = "opN",
                      req'[c] = req[c], req[c] \in Requests
               PROVE  Extending(c)'
  <2>1. Step(c) \/ Handler(c) => req[c] \in Requests /\ req'[c] = req[c]
    BY StepActive
  <2> QED
    BY <1>2, <1>3, <2>1 DEF Extending
<1>4. PICK r, S, n : r = req[c] /\ S = SeriesFound(r) /\ n = r.n
  OBVIOUS
<1>5. n \in Nat
  BY <1>3, <1>4, RequestFields
<1>6. reports \in Seq(Report) /\ Len(got[c]) \in Nat
  BY <1>1 DEF TypeOK
<1>7. ASSUME reports' = reports PROVE SeriesFound(req[c])' = S
  BY <1>3, <1>4, <1>7 DEF SeriesFound
<1>8. got'[c] = got[c] /\ InOrder(c) => InOrder(c)'
  BY <1>3, InOrderKept
<1>9. CASE RejectInput(c)
  <2>1. st'[c] = "done" /\ ret'[c] = "notser"
    BY <1>9 DEF RejectInput, Return, TypeOK
  <2> QED
    BY <2>1 DEF Extending
<1>10. CASE Load(c)
  BY <1>3, <1>10 DEF Load
<1>11. CASE LoadN(c)
  <2>1. PICK R : R = SeriesResults(S)
    OBVIOUS
  <2>2. /\ reports' = reports
        /\ \/ got'[c] = SubSeq(R, 1, n) /\ Len(R) >= n /\ st'[c] = "done" /\ ret'[c] = "ok"
           \/ got'[c] = R /\ Len(R) < n /\ st'[c] = "run"
    BY <1>4, <1>11, <2>1 DEF LoadN, Return, TypeOK
  <2>3. Filled(r)
    BY <1>3, <1>4 DEF SeriesCompleteInv
  <2>4. /\ R \in Seq(Nat) /\ Len(R) = Cardinality(S)
        /\ \A k \in 1..Len(R) : R[k] \in S /\ reports[R[k]].order = k - 1
    BY <1>4, <1>6, <2>1, <2>3, LoadedInOrder
  <2>5. Len(R) >= n => /\ DOMAIN SubSeq(R, 1, n) = 1..n /\ Len(SubSeq(R, 1, n)) = n
                       /\ \A k \in 1..n : k \in 1..Len(R) /\ SubSeq(R, 1, n)[k] = R[k]
    BY <1>5, <2>4
  <2>6. DOMAIN R = 1..Len(R)
    BY <2>4
  <2>7. PICK q : q = got'[c]
    OBVIOUS
  <2>8. \A k \in DOMAIN q : q[k] \in S /\ reports'[q[k]].order = k - 1
    BY <2>2, <2>4, <2>5, <2>6, <2>7
  <2>9. InOrder(c)'
    BY <1>7, <2>2, <2>7, <2>8 DEF InOrder
  <2> QED
    BY <1>3, <1>4, <1>7, <2>2, <2>4, <2>5, <2>9 DEF Extending
<1>12. CASE AddReport(c)
  <2>1. PICK m, T : m = Len(reports) + 1 /\ T = SeriesFound(r)'
    OBVIOUS
  <2>2. /\ st[c] = "add" /\ st'[c] = "recent"
        /\ got'[c] = IF failed[c] THEN got[c] ELSE Append(got[c], m)
    BY <1>12, <2>1 DEF AddReport, TypeOK
  <2>3. InOrder(c) /\ Len(got[c]) = Cardinality(S) /\ Len(got[c]) < n
    BY <1>1, <1>3, <1>4, <2>2 DEF Extending
  <2>4. /\ Cardinality(S) \in Nat
        /\ Joins(c, r) => T = S \cup {m} /\ Cardinality(T) = Cardinality(S) + 1
        /\ ~Joins(c, r) => T = S
        /\ reports'[m].order = Len(got[c])
        /\ \A i \in S : reports'[i] = reports[i]
    BY <1>4, <1>12, <2>1, SeriesGrows
  <2>5. Joins(c, r) <=> ~failed[c]
    BY <1>4 DEF Joins
  <2>6. SeriesFound(req[c])' = T
    BY <1>3, <1>4, <2>1 DEF SeriesFound
  <2>7. CASE failed[c]
    <3>1. st'[c] = "recent" /\ got'[c] = got[c] /\ T = S /\ InOrder(c)'
      BY <1>8, <2>2, <2>3, <2>4, <2>5, <2>7
    <3>2. Len(got'[c]) <= n
      BY <1>5, <1>6, <2>3, <3>1
    <3> QED
      BY <1>3, <1>4, <2>3, <2>6, <3>1, <3>2 DEF Extending
  <2>8. CASE ~failed[c]
    <3>1. PICK q : q = Append(got[c], m)
      OBVIOUS
    <3>2. /\ got'[c] = q /\ DOMAIN q = DOMAIN got[c] \cup {Len(got[c]) + 1}
          /\ q[Len(got[c]) + 1] = m /\ Len(q) = Len(got[c]) + 1
          /\ \A k \in DOMAIN got[c] : q[k] = got[c][k]
      BY <1>1, <2>2, <2>8, <3>1, AppendElements
    <3>3. \A k \in DOMAIN got[c] : got[c][k] \in S /\ reports[got[c][k]].order = k - 1
      BY <1>4, <2>3 DEF InOrder
    <3>4. \A k \in DOMAIN q : q[k] \in T /\ reports'[q[k]].order = k - 1
      <4>1. q[Len(got[c]) + 1] \in T /\ reports'[m].order = Len(got[c]) + 1 - 1
        BY <1>6, <2>4, <2>5, <2>8, <3>2
      <4>2. \A k \in DOMAIN got[c] : q[k] \in T /\ reports'[q[k]].order = k - 1
        BY <2>4, <2>5, <2>8, <3>2, <3>3
      <4> QED
        BY <3>2, <4>1, <4>2
    <3>5. InOrder(c)'
      BY <2>6, <3>2, <3>4 DEF InOrder
    <3>6. Len(q) <= n /\ Len(q) = Cardinality(T)
      BY <1>5, <1>6, <2>3, <2>4, <2>5, <2>8, <3>2
    <3> QED
      BY <1>3, <1>4, <2>2, <2>6, <3>2, <3>5, <3>6 DEF Extending
  <2> QED
    BY <2>7, <2>8
<1>13. CASE AddRecent(c)
  <2>1. /\ st[c] = "recent" /\ st'[c] = "recent" /\ got'[c] = got[c]
        /\ reports' = reports
    BY <1>13 DEF AddRecent
  <2> QED
    BY <1>1, <1>3, <1>4, <1>7, <1>8, <2>1 DEF Extending
<1>14. CASE Finish(c)
  <2>1. /\ st[c] = "recent" /\ got'[c] = got[c] /\ reports' = reports
        /\ \/ st'[c] = "done" /\ ret'[c] = "err"
           \/ st'[c] = "run" /\ Len(got[c]) < n
           \/ st'[c] = "done" /\ Len(got[c]) >= n
    BY <1>4, <1>14 DEF Finish, Return, TypeOK
  <2>2. InOrder(c) /\ Len(got[c]) = Cardinality(S) /\ Len(got[c]) <= n
    BY <1>1, <1>3, <1>4, <2>1 DEF Extending
  <2>3. Len(got[c]) >= n => Len(got[c]) = n
    BY <1>5, <1>6, <2>2
  <2> QED
    BY <1>3, <1>4, <1>7, <1>8, <2>1, <2>2, <2>3 DEF Extending
<1>15. CASE Handler(c)
  <2>1. st[c] = "run"
    BY <1>3, <1>15 DEF SeriesInv, Handler, HandlerOK, HandlerRetry,
       HandlerUnserializable, HandlerFails, SequenceReturns, SequenceUnserializable
  <2>2. /\ got'[c] = got[c] /\ reports' = reports
        /\ \/ st'[c] \in {"run", "add"}
           \/ st'[c] = "done" /\ ret'[c] = "notser"
    BY <1>15 DEF Handler, HandlerOK, HandlerRetry, HandlerUnserializable, TypeOK,
                 HandlerFails, SequenceReturns, SequenceUnserializable, Return
  <2> QED
    BY <1>1, <1>3, <1>4, <1>7, <1>8, <2>1, <2>2 DEF Extending
<1> QED
  BY <1>3, <1>9, <1>10, <1>11, <1>12, <1>13, <1>14, <1>15 DEF Step

\* Every step keeps the inductive invariant.
LEMMA SeriesCompleteStep ==
  ASSUME TypeOK, SeriesCompleteInv, ResultsInv, SeriesInv, ExclusiveSeries,
         [Next]_vars
  PROVE  SeriesCompleteInv'
<1>1. Alone'
  BY AloneStep DEF SeriesCompleteInv
<1>2. \A r \in Requests : r.kind = "opN" => Filled(r)'
  BY FilledStep
<1>3. \A c \in Calls : Untouched(c) => ~AddReport(c)
  BY DEF Untouched, AddReport, TypeOK
<1>4. \A c \in Calls : Extending(c)'
  BY <1>3, OneCall, ExtendingKept, ExtendingStep
<1> QED
  BY <1>1, <1>2, <1>4 DEF SeriesCompleteInv

\* With series run one call at a time, a series that returns holds exactly
\* the runs 0 to n - 1, each of them a successful report.
THEOREM SeriesCompleteCorrect == Spec => []SeriesComplete
<1> DEFINE I == ExclusiveSeries => SeriesCompleteInv
<1>1. Init => ResultsInv /\ SeriesInv
  BY DEF Init, ResultsInv, Collected, AllFit, SeriesInv, SeriesInBounds, SeriesFound
<1>2. Init => I
  <2>1. Init => \A r : SeriesFound(r) = {}
    BY DEF Init, SeriesFound
  <2>2. Init => \A r : Filled(r)
    BY <2>1, FS_EmptySet DEF Filled
  <2>3. Init => Alone /\ \A c \in Calls : Extending(c)
    BY DEF Init, Alone, Active, Extending, NoReq
  <2> QED
    BY <2>2, <2>3 DEF SeriesCompleteInv
<1>3. TypeOK /\ ResultsInv /\ SeriesInv /\ I /\ [Next]_vars
        => ResultsInv' /\ SeriesInv' /\ I'
  BY ResultsStep, SeriesStep, SeriesCompleteStep
<1>4. TypeOK /\ ResultsInv /\ I => SeriesComplete
  <2> SUFFICES ASSUME TypeOK, ResultsInv, SeriesCompleteInv, NEW c \in Calls,
                      ret[c] = "ok", req[c].kind = "opN"
               PROVE  /\ Len(got[c]) = req[c].n
                      /\ \A k \in DOMAIN got[c] :
                           /\ got[c][k] \in DOMAIN reports
                           /\ ~reports[got[c][k]].err
                           /\ reports[got[c][k]].series = req[c].series
                           /\ reports[got[c][k]].order = k - 1
    BY DEF SeriesComplete
  <2>1. st[c] = "done"
    BY DEF ResultsInv, Collected
  <2> QED
    BY <2>1 DEF SeriesCompleteInv, Extending, InOrder, SeriesFound, InSeries
<1> QED
  BY <1>1, <1>2, <1>3, <1>4, TypeCorrect, PTL DEF Spec

-----------------------------------------------------------------------------
(* Complete children *)

\* The calls around c are running sequences, each made by the next outer one.
Placed(c) ==
  \A k \in DOMAIN chain[c] :
    /\ st[chain[c][k]] \notin {"idle", "load"}
    /\ req[chain[c][k]].kind = "seq"
    /\ Parent(chain[c][k]) = IF k = 1 THEN Root ELSE chain[c][k - 1]
    /\ Active(c) => st[chain[c][k]] = "handler"

\* Where the calls stand to each other when handlers join what they start.
ChainInv == \A c \in Calls : Placed(c)

\* A running call below a sequence has an ancestor, or is one, that the
\* sequence's handler made and that is running too.
LEMMA ActiveBelow ==
  ASSUME TypeOK, ChainInv, NEW c \in Calls, Active(c), NEW s \in Calls, Under(c, s)
  PROVE  \E d \in ChildrenOf(s) : Active(d)
<1>1. PICK k \in DOMAIN chain[c] : chain[c][k] = s
  BY DEF Under
<1>2. chain[c] \in Seq(Calls) /\ DOMAIN chain[c] = 1..Len(chain[c]) /\ Len(chain[c]) \in Nat
  BY DEF TypeOK
<1>3. CASE k = Len(chain[c])
  <2>1. Parent(c) = s
    BY <1>1, <1>2, <1>3 DEF Parent
  <2> QED
    BY <2>1 DEF ChildrenOf
<1>4. CASE k # Len(chain[c])
  <2>1. PICK j : j = k + 1
    OBVIOUS
  <2>2. j \in DOMAIN chain[c] /\ j # 1 /\ j - 1 = k
    BY <1>2, <1>4, <2>1
  <2>3. PICK d \in Calls : d = chain[c][j]
    BY <1>2, <2>2
  <2>4. Parent(d) = s /\ st[d] = "handler"
    BY <1>1, <2>2, <2>3 DEF ChainInv, Placed
  <2> QED
    BY <2>4 DEF ChildrenOf, Active
<1> QED
  BY <1>3, <1>4

\* A sequence leaves its handler when no call that the handler made runs.
LEMMA LeavesHandler ==
  ASSUME TypeOK, HandlersJoin, [Next]_vars,
         NEW s \in Calls, st[s] = "handler", st'[s] # "handler"
  PROVE  \A d \in ChildrenOf(s) : ~Active(d)
<1>1. ASSUME NEW p \in Calls \cup {Root}, NEW r \in Requests, Invoke(s, p, r)
      PROVE  FALSE
  BY <1>1 DEF Invoke
<1>2. Step(s) \/ Handler(s)
  BY <1>1, OneCall DEF Untouched
<1>3. ~Step(s)
  BY DEF Step, RejectInput, Load, LoadN, AddReport, AddRecent, Finish
<1>4. SequenceReturns(s) \/ SequenceUnserializable(s)
  BY <1>2, <1>3 DEF Handler, HandlerOK, HandlerRetry, HandlerUnserializable,
                    HandlerFails
<1> QED
  BY <1>4 DEF SequenceReturns, SequenceUnserializable

\* Every step leaves the calls where they stand to each other.
LEMMA ChainStep ==
  ASSUME TypeOK, ChainInv, SeriesInv, HandlersJoin, [Next]_vars
  PROVE  ChainInv'
<1>1. ASSUME NEW c \in Calls, NEW k \in DOMAIN chain[c], NEW s, s = chain[c][k]
      PROVE  /\ s \in Calls
             /\ st'[s] \notin {"idle", "load"} /\ req'[s].kind = "seq"
             /\ Parent(s)' = IF k = 1 THEN Root ELSE chain[c][k - 1]
  <2>0. chain[c] \in Seq(Calls)
    BY DEF TypeOK
  <2>1. /\ s \in Calls /\ st[s] \notin {"idle", "load"} /\ req[s].kind = "seq"
        /\ Parent(s) = IF k = 1 THEN Root ELSE chain[c][k - 1]
    BY <1>1, <2>0 DEF ChainInv, Placed
  <2>2. /\ st'[s] \notin {"idle", "load"} /\ req'[s] = req[s]
        /\ chain'[s] = chain[s]
    BY <2>1, Loaded, Monotone
  <2> QED
    BY <2>1, <2>2 DEF Parent
<1>2. ASSUME NEW c \in Calls, Active(c), NEW k \in DOMAIN chain[c]
      PROVE  st'[chain[c][k]] = "handler"
  <2>1. PICK s \in Calls : s = chain[c][k]
    BY <1>1
  <2>2. st[s] = "handler" /\ Under(c, s)
    BY <1>2, <2>1 DEF ChainInv, Placed, Under
  <2> QED
    BY <1>2, <2>1, <2>2, ActiveBelow, LeavesHandler
<1>3. ASSUME NEW c \in Calls, chain'[c] = chain[c], Active(c)' => Active(c)
      PROVE  Placed(c)'
  <2>1. PICK q : q = chain[c]
    OBVIOUS
  <2>2. ASSUME NEW k \in DOMAIN q
        PROVE  /\ st'[q[k]] \notin {"idle", "load"}
               /\ req'[q[k]].kind = "seq"
               /\ Parent(q[k])' = IF k = 1 THEN Root ELSE q[k - 1]
               /\ Active(c)' => st'[q[k]] = "handler"
    <3>1. PICK s : s = q[k]
      OBVIOUS
    <3>2. /\ st'[s] \notin {"idle", "load"} /\ req'[s].kind = "seq"
          /\ Parent(s)' = IF k = 1 THEN Root ELSE q[k - 1]
      BY <1>1, <2>1, <3>1
    <3>3. Active(c)' => st'[s] = "handler"
      BY <1>2, <1>3, <2>1, <3>1
    <3> QED
      BY <3>1, <3>2, <3>3
  <2> QED
    BY <1>3, <2>1, <2>2 DEF Placed
<1>4. ASSUME NEW c \in Calls, NEW p \in Calls \cup {Root}, NEW r \in Requests,
             Invoke(c, p, r)
      PROVE  Placed(c)'
  <2>1. chain'[c] = IF p = Root THEN <<>> ELSE Append(chain[p], p)
    BY <1>4 DEF Invoke, TypeOK
  <2>2. CASE p = Root
    BY <2>1, <2>2 DEF Placed
  <2>3. CASE p # Root
    <3>1. p \in Calls /\ st[p] = "handler" /\ Active(p) /\ p # c
      BY <1>4, <2>3 DEF Invoke, Active
    <3>2. PICK u, q : u = chain[p] /\ q = Append(u, p)
      OBVIOUS
    <3>3. /\ u \in Seq(Calls) /\ DOMAIN u = 1..Len(u) /\ Len(u) \in Nat
          /\ DOMAIN q = DOMAIN u \cup {Len(u) + 1} /\ q[Len(u) + 1] = p
          /\ \A k \in DOMAIN u : q[k] = u[k]
      <4>1. u \in Seq(Calls)
        BY <3>1, <3>2 DEF TypeOK
      <4> QED
        BY <3>2, <4>1, AppendElements
    <3>4. ASSUME NEW k \in DOMAIN q
          PROVE  /\ st'[q[k]] = "handler"
                 /\ req'[q[k]].kind = "seq"
                 /\ Parent(q[k])' = IF k = 1 THEN Root ELSE q[k - 1]
      <4>1. CASE k \in DOMAIN u
        <5>1. PICK s : s = q[k]
          OBVIOUS
        <5>2. s = u[k] /\ (k # 1 => q[k - 1] = u[k - 1])
          BY <3>3, <4>1, <5>1
        <5>3. /\ st'[s] = "handler" /\ req'[s].kind = "seq"
              /\ Parent(s)' = IF k = 1 THEN Root ELSE u[k - 1]
          <6>1. k \in DOMAIN chain[p] /\ s = chain[p][k]
            BY <3>2, <4>1, <5>2
          <6>2. st'[s] = "handler"
            BY <1>2, <3>1, <6>1
          <6>3. /\ req'[s].kind = "seq"
                /\ Parent(s)' = IF k = 1 THEN Root ELSE chain[p][k - 1]
            BY <1>1, <3>1, <6>1
          <6> QED
            BY <3>2, <6>2, <6>3
        <5> QED
          BY <5>1, <5>2, <5>3
      <4>2. CASE k = Len(u) + 1
        <5>1. q[k] = p
          BY <3>3, <4>2
        <5>2. /\ st'[p] = "handler" /\ req'[p].kind = "seq" /\ chain'[p] = u
          <6>1. st'[p] = st[p] /\ req'[p] = req[p] /\ chain'[p] = chain[p]
            BY <1>4, <3>1 DEF Invoke, TypeOK
          <6> QED
            BY <3>1, <3>2, <6>1 DEF SeriesInv
        <5>3. Parent(p)' = IF u = <<>> THEN Root ELSE u[Len(u)]
          BY <5>2 DEF Parent
        <5>4. u = <<>> <=> k = 1
          BY <3>3, <4>2
        <5>5. u # <<>> => q[k - 1] = u[Len(u)]
          <6>1. u # <<>> => Len(u) \in DOMAIN u /\ k - 1 = Len(u)
            BY <3>3, <4>2
          <6> QED
            BY <3>3, <6>1
        <5> QED
          BY <5>1, <5>2, <5>3, <5>4, <5>5
      <4> QED
        BY <3>3, <4>1, <4>2
    <3>5. chain'[c] = q
      BY <2>1, <2>3, <3>2
    <3> QED
      BY <3>4, <3>5 DEF Placed
  <2> QED
    BY <2>2, <2>3
<1>5. ASSUME NEW c \in Calls, Untouched(c) PROVE Placed(c)'
  BY <1>3, <1>5 DEF Untouched, Active
<1>6. ASSUME NEW c \in Calls, Step(c) \/ Handler(c) PROVE Placed(c)'
  <2>1. Active(c) /\ st[c] # "idle"
    BY <1>6, StepActive DEF Active
  <2> QED
    BY <1>3, <2>1, Monotone
<1> QED
  BY <1>4, <1>5, <1>6, OneCall DEF ChainInv

\* The elements of a sequence.
Elements(q) == {q[k] : k \in DOMAIN q}

\* Every report made under the sequence s is in S.
Listed(s, S) == \A j \in DOMAIN reports : Under(reports[j].by, s) => j \in S

\* The reports that have yet to reach the RecentReporter of s.
Pending(s) ==
  {own[d] : d \in {c \in Calls : st[c] = "recent" /\ s \in Elements(todo[c])}}

\* A report of the log lists every report made under its call, and its
\* sequence makes no other report.
ReportLists(i) ==
  LET s == reports[i].by
  IN  /\ Listed(s, Elements(reports[i].children))
      /\ req[s].kind = "seq" => st[s] \in {"recent", "done"}

\* So does a sequence that has yet to report.
CallLists(s) ==
  req[s].kind = "seq" =>
    /\ st[s] # "run"
    /\ st[s] = "handler" => Listed(s, Elements(recent[s]) \cup Pending(s))
    /\ st[s] = "add" => Listed(s, Elements(kids[s]))

\* Why ChildrenComplete holds when handlers join what they start.
CompleteInv ==
  /\ \A i \in DOMAIN reports : ReportLists(i)
  /\ \A s \in Calls : CallLists(s)

\* The calls of the reports stay where they are.
LEMMA UnderKept ==
  ASSUME TypeOK, ChildrenInv, [Next]_vars, NEW j \in DOMAIN reports, NEW s
  PROVE  /\ j \in DOMAIN reports' /\ reports'[j] = reports[j]
         /\ Under(reports[j].by, s)' <=> Under(reports[j].by, s)
<1>1. j \in DOMAIN reports' /\ reports'[j] = reports[j]
  BY ReportKept
<1>2. reports[j].by \in Calls /\ st[reports[j].by] # "idle"
  BY ReportAt DEF ChildrenInv
<1>3. chain'[reports[j].by] = chain[reports[j].by]
  BY <1>2, Monotone
<1> QED
  BY <1>1, <1>3 DEF Under

\* Nothing is under a call that is not a sequence, or that has yet to start.
LEMMA NothingUnder ==
  ASSUME TypeOK, ChainInv, NEW s \in Calls,
         req[s].kind # "seq" \/ st[s] \in {"idle", "load"}, NEW S
  PROVE  Listed(s, S)
<1>1. \A c \in Calls : ~Under(c, s)
  BY DEF ChainInv, Placed, Under
<1> QED
  BY <1>1, ReportAt DEF Listed

\* A listing stays complete while no report is added.
LEMMA ListedKept ==
  ASSUME TypeOK, ChildrenInv, [Next]_vars, reports' = reports,
         NEW s, NEW S, NEW T, S \subseteq T, Listed(s, S)
  PROVE  Listed(s, T)'
BY UnderKept DEF Listed

\* A report stays in a listing, and a new one that is not under s need not
\* be in it.
LEMMA ListedAdded ==
  ASSUME TypeOK, ChildrenInv, [Next]_vars, NEW c \in Calls, AddReport(c),
         NEW n, n = Len(reports) + 1,
         NEW s, NEW S, NEW T, S \subseteq T, Listed(s, S),
         Under(c, s) => n \in T
  PROVE  Listed(s, T)'
<1>1. PICK e : e = NewReport(c, kids[c])
  OBVIOUS
<1>2. reports' = Append(reports, e) /\ e.by = c /\ chain' = chain
  BY <1>1 DEF AddReport, NewReport
<1>3. /\ DOMAIN reports' = DOMAIN reports \cup {n} /\ reports'[n] = e
  <2>1. reports \in Seq(Report)
    BY DEF TypeOK
  <2>2. /\ DOMAIN Append(reports, e) = DOMAIN reports \cup {Len(reports) + 1}
        /\ Append(reports, e)[Len(reports) + 1] = e
    BY <2>1, AppendElements
  <2> QED
    BY <1>2, <2>2
<1>4. (Under(reports[n].by, s))' <=> Under(c, s)
  BY <1>2, <1>3 DEF Under
<1>5. ASSUME NEW j \in DOMAIN reports', Under(reports[j].by, s)'
      PROVE  j \in T
  <2>1. CASE j = n
    BY <1>2, <1>3, <1>5, <2>1 DEF Under
  <2>2. CASE j \in DOMAIN reports
    BY <1>5, <2>2, UnderKept DEF Listed
  <2> QED
    BY <1>3, <2>1, <2>2
<1> QED
  BY <1>5 DEF Listed

\* What a RecentReporter has received it keeps.
LEMMA RecentKept ==
  ASSUME TypeOK, [Next]_vars, NEW s \in Calls
  PROVE  Elements(recent[s]) \subseteq Elements(recent'[s])
<1>1. ASSUME NEW c \in Calls, AddRecent(c)
      PROVE  Elements(recent[s]) \subseteq Elements(recent'[s])
  <2>1. \/ recent'[s] = recent[s]
        \/ recent'[s] = Append(recent[s], own[c])
    BY <1>1 DEF AddRecent, TypeOK
  <2>2. recent[s] \in Seq(Nat)
    BY DEF TypeOK
  <2>3. PICK q, u : q = recent[s] /\ u = Append(q, own[c])
    OBVIOUS
  <2>4. DOMAIN q \subseteq DOMAIN u /\ \A k \in DOMAIN q : u[k] = q[k]
    BY <2>2, <2>3, AppendElements
  <2>5. Elements(q) \subseteq Elements(u)
    BY <2>4 DEF Elements
  <2> QED
    BY <2>1, <2>3, <2>5
<1>2. ASSUME \A c \in Calls : ~AddRecent(c) PROVE recent' = recent
  BY <1>2 DEF Next, Step, Invoke, RejectInput, Load, LoadN, AddReport, Finish,
     Handler, HandlerOK, HandlerRetry, HandlerUnserializable, HandlerFails,
     SequenceReturns, SequenceUnserializable, vars
<1> QED
  BY <1>1, <1>2

\* A report that has yet to reach s either reaches it or still has to.
LEMMA PendingKept ==
  ASSUME TypeOK, [Next]_vars, NEW s \in Calls
  PROVE  Pending(s) \subseteq Elements(recent'[s]) \cup Pending(s)'
<1>1. SUFFICES ASSUME NEW d \in Calls, st[d] = "recent", s \in Elements(todo[d])
               PROVE  \/ own[d] \in Elements(recent'[s])
                      \/ /\ st'[d] = "recent" /\ own'[d] = own[d]
                         /\ s \in Elements(todo'[d])
  BY DEF Pending
<1>2. CASE Untouched(d)
  BY <1>1, <1>2 DEF Untouched
<1>3. CASE AddRecent(d)
  <2>1. PICK q, h, u : q = todo[d] /\ h = Head(q) /\ u = Tail(q)
    OBVIOUS
  <2>2. /\ st'[d] = "recent" /\ own'[d] = own[d] /\ todo'[d] = u
        /\ recent' = [recent EXCEPT ![h] = Append(@, own[d])]
        /\ q \in Seq(Calls) /\ q # <<>>
    BY <1>1, <1>3, <2>1 DEF AddRecent, TypeOK
  <2>3. CASE s = h
    <3>1. recent'[s] = Append(recent[s], own[d]) /\ recent[s] \in Seq(Nat)
      BY <2>2, <2>3 DEF TypeOK
    <3>2. PICK v, w : v = recent[s] /\ w = recent'[s]
      OBVIOUS
    <3>3. Len(v) + 1 \in DOMAIN w /\ w[Len(v) + 1] = own[d]
      BY <3>1, <3>2, AppendElements
    <3> QED
      BY <3>2, <3>3 DEF Elements
  <2>4. CASE s # h
    <3>1. PICK k \in DOMAIN q : q[k] = s
      BY <1>1, <2>1 DEF Elements
    <3>2. k # 1 /\ k \in 1..Len(q)
      BY <2>1, <2>2, <2>4, <3>1
    <3>3. PICK j : j = k - 1
      OBVIOUS
    <3>4. j \in DOMAIN u /\ u[j] = q[k]
      <4>1. Len(q) \in Nat /\ DOMAIN Tail(q) = 1..(Len(q) - 1)
        BY <2>2
      <4>2. \A i \in 1..(Len(q) - 1) : Tail(q)[i] = q[i + 1]
        BY <2>2
      <4>3. j \in 1..(Len(q) - 1) /\ k = j + 1
        BY <3>2, <3>3, <4>1
      <4> QED
        BY <2>1, <4>1, <4>2, <4>3
    <3>5. s \in Elements(u)
      BY <3>1, <3>4 DEF Elements
    <3> QED
      BY <2>2, <3>5
  <2> QED
    BY <2>3, <2>4
<1>4. CASE Finish(d)
  BY <1>1, <1>4 DEF Finish, Elements
<1>5. Untouched(d) \/ AddRecent(d) \/ Finish(d)
  <2>1. \/ Untouched(d)
        \/ \E p \in Calls \cup {Root}, r \in Requests : Invoke(d, p, r)
        \/ Step(d) \/ Handler(d)
    BY OneCall
  <2> QED
    BY <1>1, <2>1 DEF Invoke, Step, RejectInput, Load, LoadN, AddReport,
       Handler, HandlerOK, HandlerRetry, HandlerUnserializable, HandlerFails,
       SequenceReturns, SequenceUnserializable
<1> QED
  BY <1>2, <1>3, <1>4, <1>5

\* The sequences around a running call are in their handlers.
LEMMA AroundRuns ==
  ASSUME ChainInv, NEW c \in Calls, Active(c), NEW s, Under(c, s)
  PROVE  st[s] = "handler" /\ req[s].kind = "seq"
BY DEF ChainInv, Placed, Under

\* A sequence does not go from its handler to its report before every
\* report below it has reached it.
LEMMA NothingPending ==
  ASSUME TypeOK, ChainInv, ChildrenInv, NEW s \in Calls,
         \A d \in ChildrenOf(s) : ~Active(d)
  PROVE  Pending(s) = {}
<1>1. ASSUME NEW d \in Calls, st[d] = "recent", s \in Elements(todo[d])
      PROVE  FALSE
  <2>1. Under(d, s)
    BY <1>1 DEF ChildrenInv, Elements
  <2>2. Active(d)
    BY <1>1 DEF Active
  <2> QED
    BY <2>1, <2>2, ActiveBelow
<1> QED
  BY <1>1 DEF Pending

\* How a sequence comes to be where it is.
LEMMA SequenceMoves ==
  ASSUME TypeOK, ResultsInv, SeriesInv, [Next]_vars, NEW s \in Calls,
         req'[s].kind = "seq", st[s] # "run", ~AddReport(s)
  PROVE  /\ st'[s] # "run"
         /\ st[s] \in {"recent", "done"} => st'[s] \in {"recent", "done"}
         /\ st'[s] = "handler" => st[s] \in {"load", "handler"}
         /\ st'[s] = "add" =>
              \/ st[s] = "add" /\ kids'[s] = kids[s]
              \/ SequenceReturns(s)
<1> USE DEF TypeOK
<1>1. CASE Untouched(s)
  BY <1>1 DEF Untouched
<1>2. CASE \E p \in Calls \cup {Root}, r \in Requests : Invoke(s, p, r)
  BY <1>2 DEF Invoke
<1>3. ASSUME Step(s) \/ Handler(s) PROVE req[s].kind = "seq"
  BY <1>3, StepActive
<1>4. CASE RejectInput(s)
  BY <1>4 DEF RejectInput, Return
<1>5. CASE Load(s)
  <2>1. st[s] = "load" /\ st'[s] \in {"handler", "done"}
    BY <1>3, <1>5 DEF Load, Return, Step
  <2> QED
    BY <2>1
<1>6. CASE LoadN(s)
  BY <1>3, <1>6 DEF LoadN, Step
<1>7. CASE AddRecent(s)
  BY <1>7 DEF AddRecent
<1>8. CASE Finish(s)
  <2>1. req[s].kind = "seq" /\ st[s] = "recent"
    BY <1>3, <1>8 DEF Finish, Step
  <2>2. req[s].n = 1
    BY <2>1, RequestFields
  <2>3. ~failed[s] => Len(got[s]) = 1
    BY <2>1 DEF ResultsInv, Collected, One
  <2>4. \/ st' = [st EXCEPT ![s] = "done"]
        \/ ~failed[s] /\ Len(got[s]) < req[s].n
    <3> HIDE DEF TypeOK
    <3> QED
      BY <1>8 DEF Finish, Return
  <2>5. ~(1 < 1)
    OBVIOUS
  <2> QED
    BY <2>1, <2>2, <2>3, <2>4, <2>5
<1>9. CASE Handler(s)
  <2>1. SequenceReturns(s) \/ SequenceUnserializable(s)
    BY <1>9 DEF Handler, HandlerOK, HandlerRetry, HandlerUnserializable,
                HandlerFails
  <2> QED
    BY <2>1 DEF SequenceReturns, SequenceUnserializable, Return
<1> QED
  BY <1>1, <1>2, <1>4, <1>5, <1>6, <1>7, <1>8, <1>9, OneCall DEF Step

\* The step that adds a report keeps every listing complete.
LEMMA CompleteAdd ==
  ASSUME TypeOK, ChildrenInv, ChainInv, CompleteInv, [Next]_vars,
         NEW c \in Calls, AddReport(c)
  PROVE  CompleteInv'
<1>1. PICK n, e : n = Len(reports) + 1 /\ e = NewReport(c, kids[c])
  OBVIOUS
<1>2. /\ reports' = Append(reports, e) /\ e.by = c /\ e.children = kids[c]
      /\ UNCHANGED <<req, chain, kids, recent>>
      /\ st[c] = "add" /\ st' = [st EXCEPT ![c] = "recent"]
      /\ todo' = [todo EXCEPT ![c] = chain[c]]
      /\ own' = [own EXCEPT ![c] = n]
  BY <1>1 DEF AddReport, NewReport
<1>3. DOMAIN reports' = DOMAIN reports \cup {n} /\ reports'[n] = e
  <2>1. reports \in Seq(Report)
    BY DEF TypeOK
  <2>2. /\ DOMAIN Append(reports, e) = DOMAIN reports \cup {Len(reports) + 1}
        /\ Append(reports, e)[Len(reports) + 1] = e
    BY <2>1, AppendElements
  <2> QED
    BY <1>1, <1>2, <2>2
<1>4. \A s : Under(c, s) => st[s] = "handler" /\ req[s].kind = "seq"
  BY <1>2, AroundRuns DEF Active
<1>5. \A s \in Calls \ {c} : st'[s] = st[s]
  BY <1>2 DEF TypeOK
<1>6. st'[c] = "recent" /\ own'[c] = n /\ todo'[c] = chain[c]
  BY <1>2 DEF TypeOK
<1>7. ASSUME NEW i \in DOMAIN reports PROVE ReportLists(i)'
  <2>1. PICK s, S : s = reports[i].by /\ S = Elements(reports[i].children)
    OBVIOUS
  <2>2. /\ s \in Calls /\ reports'[i] = reports[i] /\ Listed(s, S)
        /\ req[s].kind = "seq" => st[s] \in {"recent", "done"}
    BY <2>1, ReportAt, ReportKept DEF CompleteInv, ReportLists
  <2>3. Listed(s, S)'
    BY <1>1, <1>4, <2>2, ListedAdded
  <2>4. req'[s].kind = "seq" => st'[s] \in {"recent", "done"}
    BY <1>2, <1>5, <1>6, <2>2
  <2> QED
    BY <2>1, <2>2, <2>3, <2>4 DEF ReportLists
<1>8. ReportLists(n)'
  <2>1. PICK S : S = Elements(kids[c])
    OBVIOUS
  <2>2. Listed(c, S)
    BY <1>2, <2>1, NothingUnder DEF CompleteInv, CallLists
  <2>3. Listed(c, S)'
    BY <1>1, <1>2, <1>4, <2>2, ListedAdded
  <2> QED
    BY <1>2, <1>3, <1>6, <2>1, <2>3 DEF ReportLists
<1>9. ASSUME NEW s \in Calls PROVE CallLists(s)'
  <2>1. CASE s = c
    BY <1>6, <2>1 DEF CallLists
  <2>2. ASSUME s # c, req'[s].kind = "seq" PROVE CallLists(s)'
    <3>1. st'[s] = st[s] /\ req[s].kind = "seq" /\ kids'[s] = kids[s]
      BY <1>2, <1>5, <2>2
    <3>2. CASE st[s] = "handler"
      <4>1. PICK S, T : /\ S = Elements(recent[s]) \cup Pending(s)
                        /\ T = Elements(recent'[s]) \cup Pending(s)'
        OBVIOUS
      <4>2. S \subseteq T
        BY <4>1, RecentKept, PendingKept
      <4>3. Under(c, s) => n \in T
        <5>1. Under(c, s) => s \in Elements(todo'[c])
          BY <1>6 DEF Under, Elements
        <5>2. Under(c, s) => own'[c] \in Pending(s)'
          BY <1>6, <5>1 DEF Pending
        <5> QED
          BY <1>6, <4>1, <5>2
      <4>4. Listed(s, S)
        BY <3>1, <3>2, <4>1 DEF CompleteInv, CallLists
      <4>5. Listed(s, T)'
        BY <1>1, <4>2, <4>3, <4>4, ListedAdded
      <4> QED
        BY <3>1, <3>2, <4>1, <4>5 DEF CallLists
    <3>3. CASE st[s] # "handler"
      <4>1. PICK S : S = Elements(kids[s])
        OBVIOUS
      <4>2. st[s] # "run" /\ (st[s] = "add" => Listed(s, S))
        BY <3>1, <4>1 DEF CompleteInv, CallLists
      <4>3. st[s] = "add" => Listed(s, S)'
        BY <1>1, <1>4, <3>3, <4>2, ListedAdded
      <4> QED
        BY <3>1, <3>3, <4>1, <4>2, <4>3 DEF CallLists
    <3> QED
      BY <3>2, <3>3
  <2> QED
    BY <2>1, <2>2 DEF CallLists
<1> QED
  BY <1>3, <1>7, <1>8, <1>9 DEF CompleteInv

\* So does every other step.
LEMMA CompleteOther ==
  ASSUME TypeOK, ResultsInv, SeriesInv, ChildrenInv, ChainInv, CompleteInv,
         HandlersJoin, [Next]_vars, \A c \in Calls : ~AddReport(c)
  PROVE  CompleteInv'
<1>1. reports' = reports
  BY LogSteps
<1>2. ASSUME NEW i \in DOMAIN reports PROVE ReportLists(i)'
  <2>1. PICK s, S : s = reports[i].by /\ S = Elements(reports[i].children)
    OBVIOUS
  <2>2. /\ s \in Calls /\ Listed(s, S)
        /\ req[s].kind = "seq" => st[s] \in {"recent", "done"}
        /\ st[s] # "idle"
    BY <2>1, ReportAt DEF CompleteInv, ReportLists, ChildrenInv
  <2>3. Listed(s, S)'
    BY <1>1, <2>2, ListedKept
  <2>4. req'[s].kind = "seq" => st'[s] \in {"recent", "done"}
    BY <2>2, Monotone, SequenceMoves
  <2> QED
    BY <1>1, <2>1, <2>3, <2>4 DEF ReportLists
<1>3. ASSUME NEW s \in Calls, req'[s].kind = "seq" PROVE CallLists(s)'
  <2>1. st[s] # "run"
    <3>1. st[s] # "idle" => req[s].kind = "seq"
      BY <1>3, Monotone
    <3> QED
      BY <3>1 DEF CompleteInv, CallLists
  <2>2. /\ st'[s] # "run"
        /\ st'[s] = "handler" => st[s] \in {"load", "handler"}
        /\ st'[s] = "add" =>
             (st[s] = "add" /\ kids'[s] = kids[s]) \/ SequenceReturns(s)
    BY <1>3, <2>1, SequenceMoves
  <2>3. PICK S, T : /\ S = Elements(recent[s]) \cup Pending(s)
                    /\ T = Elements(recent'[s]) \cup Pending(s)'
    OBVIOUS
  <2>4. S \subseteq T
    BY <2>3, RecentKept, PendingKept
  <2>5. ASSUME st'[s] = "handler" PROVE Listed(s, T)'
    <3>1. Listed(s, S)
      <4>1. CASE st[s] = "load"
        BY <4>1, NothingUnder
      <4>2. CASE st[s] = "handler"
        BY <2>3, <4>2, AroundRuns DEF CompleteInv, CallLists, SeriesInv
      <4> QED
        BY <2>2, <2>5, <4>1, <4>2
    <3> QED
      BY <1>1, <2>4, <3>1, ListedKept
  <2>6. ASSUME st'[s] = "add" PROVE Listed(s, Elements(kids[s]))'
    <3>1. PICK K : K = Elements(kids'[s])
      OBVIOUS
    <3>2. Listed(s, K)
      <4>1. CASE st[s] = "add" /\ kids'[s] = kids[s]
        BY <1>3, <3>1, <4>1, Monotone DEF CompleteInv, CallLists
      <4>2. CASE SequenceReturns(s)
        <5>1. /\ st[s] = "handler" /\ kids'[s] = recent[s]
              /\ \A d \in ChildrenOf(s) : ~Active(d)
          BY <4>2 DEF SequenceReturns, TypeOK
        <5>2. Pending(s) = {}
          BY <5>1, NothingPending
        <5>3. Listed(s, S)
          BY <2>3, <5>1 DEF CompleteInv, CallLists, SeriesInv
        <5> QED
          BY <2>3, <3>1, <5>1, <5>2, <5>3
      <4> QED
        BY <2>2, <2>6, <4>1, <4>2
    <3>3. Listed(s, K)'
      BY <1>1, <3>2, ListedKept
    <3> QED
      BY <3>1, <3>3
  <2> QED
    BY <2>2, <2>3, <2>5, <2>6 DEF CallLists
<1>4. \A s \in Calls : CallLists(s)'
  BY <1>3 DEF CallLists
<1> QED
  BY <1>1, <1>2, <1>4 DEF CompleteInv

\* When handlers join the goroutines they start, a sequence's report lists
\* exactly the reports that were made under it.
THEOREM ChildrenCompleteCorrect == Spec => []ChildrenComplete
<1> DEFINE I == HandlersJoin => ChainInv /\ CompleteInv
<1>1. Init => ResultsInv /\ SeriesInv /\ ChildrenInv
  BY DEF Init, ResultsInv, Collected, AllFit, SeriesInv, SeriesInBounds,
         SeriesFound, ChildrenInv, ChildrenPrecede
<1>2. Init => I
  BY DEF Init, ChainInv, Placed, CompleteInv, CallLists, NoReq
<1>3. TypeOK /\ ResultsInv /\ SeriesInv /\ ChildrenInv /\ I /\ [Next]_vars
        => ResultsInv' /\ SeriesInv' /\ ChildrenInv' /\ I'
  BY ResultsStep, SeriesStep, ChildrenStep, ChainStep, CompleteAdd, CompleteOther
<1>4. TypeOK /\ ChildrenInv /\ I => ChildrenComplete
  <2> SUFFICES ASSUME TypeOK, ChildrenInv, CompleteInv, NEW i \in DOMAIN reports
               PROVE  {reports[i].children[k] : k \in DOMAIN reports[i].children}
                        = {j \in DOMAIN reports : Under(reports[j].by, reports[i].by)}
    BY DEF ChildrenComplete
  <2>1. \A k \in DOMAIN reports[i].children :
          LET j == reports[i].children[k]
          IN  j \in DOMAIN reports /\ Under(reports[j].by, reports[i].by)
    <3>1. DOMAIN reports = 1..Len(reports) /\ Len(reports) \in Nat
      BY ReportAt
    <3>2. \A j \in 1..(i - 1) : j \in DOMAIN reports
      BY <3>1
    <3> QED
      BY <3>2 DEF ChildrenInv, ChildrenPrecede
  <2>2. \A j \in DOMAIN reports : Under(reports[j].by, reports[i].by)
          => j \in {reports[i].children[k] : k \in DOMAIN reports[i].children}
    BY DEF CompleteInv, ReportLists, Listed, Elements
  <2> QED
    BY <2>1, <2>2
<1> QED
  BY <1>1, <1>2, <1>3, <1>4, TypeCorrect, PTL DEF Spec

\* What a reader of the reports relies on: a sequence's report lists every
\* report made under it, and a series that returned has one successful
\* report per run.
THEOREM ReportsCorrect == Spec => []ReportsComplete
<1>1. ChildrenComplete /\ SeriesComplete => ReportsComplete
  BY DEF ReportsComplete
<1> QED
  BY <1>1, ChildrenCompleteCorrect, SeriesCompleteCorrect, PTL
=============================================================================

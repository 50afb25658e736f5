----------------------------- MODULE Operations -----------------------------
(***************************************************************************)
(* The Operations API (operations/execute.go, report.go): ExecuteOperation,*)
(* ExecuteOperationN and ExecuteSequence running against one shared        *)
(* MemoryReporter, from any number of goroutines.                          *)
(*                                                                         *)
(* A call is one invocation of one of the three functions; it is used once.*)
(* Calls whose parent is Root run on the root bundle; the others were made *)
(* by the handler of a running ExecuteSequence call, on the bundle whose   *)
(* reporter is that call's RecentReporter.  Two calls that are active at   *)
(* the same time run in different goroutines (or one is nested in the      *)
(* other).  Handlers are user code: they may make any calls, in any order  *)
(* and concurrently, and return any outcome.                               *)
(*                                                                         *)
(* A report is named by its position in MemoryReporter.reports, a renaming *)
(* of the fresh UUID NewReport gives it.                                   *)
(***************************************************************************)
EXTENDS Naturals, Sequences, FiniteSets

CONSTANTS
  Calls,           \* invocations of the API
  Root,            \* the caller's own bundle, outside every sequence
  Ops, Seqs,       \* definitions of operations and of sequences
  Inputs,          \* input values
  BadInputs,       \* the inputs that IsSerializable rejects
  Keys, NoKey,     \* idempotency keys; NoKey is the empty string
  Series, NoSeries,\* execution series IDs; NoSeries is a nil ExecutionSeries
  Requests,        \* the arguments and options that callers use
  MaxAttempts,     \* RetryPolicy.MaxAttempts; 0 makes retry-go retry for ever
  HandlersJoin,    \* sequence handlers wait for the goroutines they start
  ExclusiveSeries  \* callers never run one execution series concurrently

OpReq  == [kind : {"op"}, def : Ops, input : Inputs, key : Keys,
           series : {NoSeries}, n : {1}, force : BOOLEAN, retry : BOOLEAN]
OpNReq == [kind : {"opN"}, def : Ops, input : Inputs, key : {NoKey},
           series : Series, n : Nat, force : {FALSE}, retry : BOOLEAN]
SeqReq == [kind : {"seq"}, def : Seqs, input : Inputs, key : Keys,
           series : {NoSeries}, n : {1}, force : {FALSE}, retry : {FALSE}]

ASSUME ConstantsOK ==
  /\ Root \notin Calls
  /\ BadInputs \subseteq Inputs
  /\ NoKey \in Keys /\ NoSeries \notin Series
  /\ Requests \subseteq OpReq \cup OpNReq \cup SeqReq
  /\ MaxAttempts \in Nat
  /\ HandlersJoin \in BOOLEAN /\ ExclusiveSeries \in BOOLEAN

VARIABLES
  reports,   \* MemoryReporter.reports, oldest first
  st,        \* st[c]: where call c is
  req,       \* req[c]: the arguments and options of call c
  chain,     \* chain[c]: the RecentReporters around c, outermost first
  seen,      \* seen[c]: how many reports GetReports returned to c
  attempt,   \* attempt[c]: the attempt that c's operation handler is in
  failed,    \* failed[c]: the handler's last outcome was an error
  kids,      \* kids[c]: the child report IDs captured for c's own report
  own,       \* own[c]: the report c added last
  todo,      \* todo[c]: RecentReporters that c's AddReport has yet to reach
  recent,    \* recent[c]: RecentReporter.recentReports of sequence call c
  got,       \* got[c]: the reports c has collected to return; 0 is Report{}
  ret        \* ret[c]: what c returned

vars == <<reports, st, req, chain, seen, attempt, failed, kids, own, todo,
          recent, got, ret>>

-----------------------------------------------------------------------------
(* Values *)

NoReq == [kind |-> "none"]

States == {"idle", "load", "run", "handler", "add", "recent", "done"}

(* The attempts a handler can be in: two, if they are not counted. *)
Attempts == 0..(IF MaxAttempts = 0 THEN 2 ELSE MaxAttempts)

(* A call returns its reports, an error, or ErrNotSerializable. *)
Returns == {"none", "ok", "err", "notser"}

Report == [def : Ops \cup Seqs, input : Inputs, key : Keys, err : BOOLEAN,
           children : Seq(Nat), series : Series \cup {NoSeries}, order : Nat,
           by : Calls]

(* The idempotency hash: definition, canonical input and idempotency key.  *)
(* The NUL before the key keeps the three apart, so it is a tuple.         *)
Hash(def, input, key) == <<def, input, key>>

ReqHash(r)    == Hash(r.def, r.input, r.key)
ReportHash(r) == Hash(r.def, r.input, r.key)

(* Mutant: the series numbers its runs from one. *)
NewReportFromOne(c, children) ==
  [def |-> req[c].def, input |-> req[c].input, key |-> req[c].key,
   err |-> failed[c], children |-> children, series |-> req[c].series,
   order |-> Len(got[c]) + 1, by |-> c]

NewReport(c, children) ==
  [def |-> req[c].def, input |-> req[c].input, key |-> req[c].key,
   err |-> failed[c], children |-> children, series |-> req[c].series,
   order |-> Len(got[c]), by |-> c]

(* Mutant: the scan of the reports stops before the oldest one. *)
PreviousMissesOldest(r) ==
  {i \in DOMAIN reports : /\ i > 1
                          /\ ~reports[i].err
                          /\ ReportHash(reports[i]) = ReqHash(r)}

(* Mutant: a failed report is a previous execution like any other. *)
PreviousOrFailed(r) ==
  {i \in DOMAIN reports : ReportHash(reports[i]) = ReqHash(r)}

(* loadPreviousSuccessfulReport: the matching successful reports; the last *)
(* one is used.  Reports of an execution series match too.                 *)
Previous(r) ==
  {i \in DOMAIN reports : /\ ~reports[i].err
                          /\ ReportHash(reports[i]) = ReqHash(r)}

Latest(S) == CHOOSE i \in S : \A j \in S : j <= i

(* loadSuccessfulExecutionSeriesReports: the successful reports of the     *)
(* series for this definition and input.                                   *)
InSeries(rep, r) ==
  /\ rep.series = r.series
  /\ Hash(rep.def, rep.input, NoKey) = Hash(r.def, r.input, NoKey)
  /\ ~rep.err

SameSeries(q, r) ==
  /\ q.kind = "opN" /\ r.kind = "opN"
  /\ <<q.series, q.def, q.input>> = <<r.series, r.def, r.input>>

SeriesFound(r) == {i \in DOMAIN reports : InSeries(reports[i], r)}

(* results[foundReport.ExecutionSeries.Order] = foundReport, in the order  *)
(* of the reports: a later report overwrites, an order nobody has stays    *)
(* the zero Report.                                                        *)
SeriesResults(S) ==
  [k \in 1..Cardinality(S) |->
     LET here == {i \in S : reports[i].order = k - 1}
     IN  IF here = {} THEN 0 ELSE Latest(here)]

Active(c)      == st[c] \notin {"idle", "done"}
Parent(c)      == IF chain[c] = <<>> THEN Root ELSE chain[c][Len(chain[c])]
ChildrenOf(p)  == {c \in Calls : Parent(c) = p}
Under(c, s)    == \E k \in DOMAIN chain[c] : chain[c][k] = s

-----------------------------------------------------------------------------
(* Actions *)

Init ==
  /\ reports = <<>>
  /\ st      = [c \in Calls |-> "idle"]
  /\ req     = [c \in Calls |-> NoReq]
  /\ chain   = [c \in Calls |-> <<>>]
  /\ seen    = [c \in Calls |-> 0]
  /\ attempt = [c \in Calls |-> 0]
  /\ failed  = [c \in Calls |-> FALSE]
  /\ kids    = [c \in Calls |-> <<>>]
  /\ own     = [c \in Calls |-> 0]
  /\ todo    = [c \in Calls |-> <<>>]
  /\ recent  = [c \in Calls |-> <<>>]
  /\ got     = [c \in Calls |-> <<>>]
  /\ ret     = [c \in Calls |-> "none"]

Return(c, r) ==
  /\ st'  = [st EXCEPT ![c] = "done"]
  /\ ret' = [ret EXCEPT ![c] = r]

(* Somebody calls ExecuteOperation, ExecuteOperationN or ExecuteSequence:  *)
(* on the root bundle, or from the handler of the running sequence p.      *)
Invoke(c, p, r) ==
  /\ st[c] = "idle"
  /\ p # Root => st[p] = "handler"
  /\ (ExclusiveSeries /\ r.kind = "opN") =>
        \A d \in Calls : ~(Active(d) /\ SameSeries(req[d], r))
  /\ st'    = [st EXCEPT ![c] = "load"]
  /\ req'   = [req EXCEPT ![c] = r]
  /\ chain' = [chain EXCEPT ![c] =
                 IF p = Root THEN <<>> ELSE Append(chain[p], p)]
  /\ UNCHANGED <<reports, seen, attempt, failed, kids, own, todo, recent, got,
                 ret>>

(* The input check, before anything is read or run. *)
RejectInput(c) ==
  /\ st[c] = "load"
  /\ req[c].input \in BadInputs
  /\ Return(c, "notser")
  /\ UNCHANGED <<reports, req, chain, seen, attempt, failed, kids, own, todo,
                 recent, got>>

(* ExecuteOperation and ExecuteSequence up to the handler: a previous      *)
(* successful report is returned unless the call forces execution.  A      *)
(* sequence also resolves the reports below it with GetExecutionReports,   *)
(* whose failure ChildrenPrecede rules out.                                *)
Load(c) ==
  /\ st[c] = "load"
  /\ req[c].input \notin BadInputs
  /\ req[c].kind \in {"op", "seq"}
  /\ LET prev == IF req[c].force THEN {} ELSE Previous(req[c])
     IN  IF prev # {}
         THEN /\ got' = [got EXCEPT ![c] = <<Latest(prev)>>]
              /\ Return(c, "ok")
              /\ UNCHANGED <<seen, attempt>>
         ELSE /\ seen' = [seen EXCEPT ![c] = Len(reports)]
              /\ IF req[c].kind = "seq"
                 THEN /\ st' = [st EXCEPT ![c] = "handler"]
                      /\ UNCHANGED attempt
                 ELSE /\ st' = [st EXCEPT ![c] = "run"]
                      /\ attempt' = [attempt EXCEPT ![c] = 1]
              /\ UNCHANGED <<got, ret>>
  /\ UNCHANGED <<reports, req, chain, failed, kids, own, todo, recent>>

(* ExecuteOperationN up to its loop.  An order beyond the number of reports *)
(* found would be an index out of range: SeriesInBounds rules it out.       *)
LoadN(c) ==
  /\ st[c] = "load"
  /\ req[c].input \notin BadInputs
  /\ req[c].kind = "opN"
  /\ LET results == SeriesResults(SeriesFound(req[c]))
         n       == req[c].n
     IN  \/ /\ Len(results) >= n
            /\ got' = [got EXCEPT ![c] = SubSeq(results, 1, n)]
            /\ Return(c, "ok")
            /\ UNCHANGED <<seen, attempt>>
         \/ /\ Len(results) < n
            /\ got' = [got EXCEPT ![c] = results]
            /\ seen' = [seen EXCEPT ![c] = Len(reports)]
            /\ st' = [st EXCEPT ![c] = "run"]
            /\ attempt' = [attempt EXCEPT ![c] = 1]
            /\ UNCHANGED ret
  /\ UNCHANGED <<reports, req, chain, failed, kids, own, todo, recent>>

(* The operation handler returns an output. *)
HandlerOK(c) ==
  /\ st[c] = "run"
  /\ failed' = [failed EXCEPT ![c] = FALSE]
  /\ st' = [st EXCEPT ![c] = "add"]
  /\ UNCHANGED <<reports, req, chain, seen, attempt, kids, own, todo, recent,
                 got, ret>>

(* ... an output that IsSerializable rejects: no report is made. *)
HandlerUnserializable(c) ==
  /\ st[c] = "run"
  /\ Return(c, "notser")
  /\ UNCHANGED <<reports, req, chain, seen, attempt, failed, kids, own, todo,
                 recent, got>>

(* retry-go: whether another attempt is left after a recoverable error. *)
AttemptLeft(c) ==
  /\ req[c].retry
  /\ MaxAttempts = 0 \/ attempt[c] < MaxAttempts

(* Mutant: every attempt starts the count again. *)
HandlerRetryForever(c) ==
  /\ st[c] = "run"
  /\ req[c].retry
  /\ attempt' = [attempt EXCEPT ![c] = (@ % 2) + 1]
  /\ UNCHANGED <<reports, st, req, chain, seen, failed, kids, own, todo,
                 recent, got, ret>>

(* The handler fails with a recoverable error and is run again, on the     *)
(* input the InputHook returns.  Attempts without a limit are not counted. *)
HandlerRetry(c) ==
  /\ st[c] = "run"
  /\ AttemptLeft(c)
  /\ attempt' = [attempt EXCEPT ![c] =
                   IF MaxAttempts = 0 THEN (@ % 2) + 1 ELSE @ + 1]
  /\ UNCHANGED <<reports, st, req, chain, seen, failed, kids, own, todo,
                 recent, got, ret>>

(* Mutant: a failure is returned without a report of it. *)
HandlerFailsUnreported(c) ==
  /\ st[c] = "run"
  /\ failed' = [failed EXCEPT ![c] = TRUE]
  /\ Return(c, "err")
  /\ UNCHANGED <<reports, req, chain, seen, attempt, kids, own, todo, recent,
                 got>>

(* The handler fails and no attempt is left, the error is unrecoverable or *)
(* the context is done.                                                    *)
HandlerFails(c) ==
  /\ st[c] = "run"
  /\ failed' = [failed EXCEPT ![c] = TRUE]
  /\ st' = [st EXCEPT ![c] = "add"]
  /\ UNCHANGED <<reports, req, chain, seen, attempt, kids, own, todo, recent,
                 got, ret>>

(* The sequence handler returns, with or without an error; the reports its *)
(* RecentReporter holds become the children of the sequence's report.      *)
SequenceReturns(c) ==
  /\ st[c] = "handler"
  /\ HandlersJoin => \A d \in ChildrenOf(c) : ~Active(d)
  /\ \E e \in BOOLEAN : failed' = [failed EXCEPT ![c] = e]
  /\ kids' = [kids EXCEPT ![c] = recent[c]]
  /\ st' = [st EXCEPT ![c] = "add"]
  /\ UNCHANGED <<reports, req, chain, seen, attempt, own, todo, recent, got,
                 ret>>

(* The sequence's output is not serializable, or its handler passes on the *)
(* ErrNotSerializable of a call it made: no report is made.                *)
SequenceUnserializable(c) ==
  /\ st[c] = "handler"
  /\ HandlersJoin => \A d \in ChildrenOf(c) : ~Active(d)
  /\ Return(c, "notser")
  /\ UNCHANGED <<reports, req, chain, seen, attempt, failed, kids, own, todo,
                 recent, got>>

(* Mutant: a sequence adds its report before it lists its children. *)
AddReportListsItself(c) ==
  /\ st[c] = "add"
  /\ reports' = Append(reports, NewReport(c, IF req[c].kind = "seq"
                                             THEN Append(kids[c], Len(reports) + 1)
                                             ELSE kids[c]))
  /\ todo' = [todo EXCEPT ![c] = chain[c]]
  /\ got' = [got EXCEPT ![c] = IF failed[c] THEN @
                               ELSE Append(@, Len(reports) + 1)]
  /\ own' = [own EXCEPT ![c] = Len(reports) + 1]
  /\ st' = [st EXCEPT ![c] = "recent"]
  /\ UNCHANGED <<req, chain, seen, attempt, failed, kids, recent, ret>>

(* Mutant: only the innermost RecentReporter hears of the report. *)
AddReportInnermost(c) ==
  /\ st[c] = "add"
  /\ reports' = Append(reports, NewReport(c, kids[c]))
  /\ todo' = [todo EXCEPT ![c] = IF chain[c] = <<>> THEN <<>>
                                 ELSE <<Parent(c)>>]
  /\ got' = [got EXCEPT ![c] = IF failed[c] THEN @
                               ELSE Append(@, Len(reports) + 1)]
  /\ own' = [own EXCEPT ![c] = Len(reports) + 1]
  /\ st' = [st EXCEPT ![c] = "recent"]
  /\ UNCHANGED <<req, chain, seen, attempt, failed, kids, recent, ret>>

(* AddReport, first part: the report reaches the MemoryReporter. *)
AddReport(c) ==
  /\ st[c] = "add"
  /\ reports' = Append(reports, NewReport(c, kids[c]))
  /\ todo' = [todo EXCEPT ![c] = chain[c]]
  /\ got' = [got EXCEPT ![c] = IF failed[c] THEN @
                               ELSE Append(@, Len(reports) + 1)]
  /\ own' = [own EXCEPT ![c] = Len(reports) + 1]
  /\ st' = [st EXCEPT ![c] = "recent"]
  /\ UNCHANGED <<req, chain, seen, attempt, failed, kids, recent, ret>>

(* AddReport, second part: each RecentReporter around the call, from the   *)
(* outermost in, appends the report under a lock of its own.               *)
AddRecent(c) ==
  /\ st[c] = "recent"
  /\ todo[c] # <<>>
  /\ recent' = [recent EXCEPT ![Head(todo[c])] = Append(@, own[c])]
  /\ todo' = [todo EXCEPT ![c] = Tail(@)]
  /\ UNCHANGED <<reports, st, req, chain, seen, attempt, failed, kids, own,
                 got, ret>>

(* The report is everywhere: a failed call returns its error, a series     *)
(* that is not complete runs its operation again, any other call returns.  *)
Finish(c) ==
  /\ st[c] = "recent"
  /\ todo[c] = <<>>
  /\ \/ /\ failed[c]
        /\ Return(c, "err")
        /\ UNCHANGED attempt
     \/ /\ ~failed[c]
        /\ Len(got[c]) < req[c].n
        /\ st' = [st EXCEPT ![c] = "run"]
        /\ attempt' = [attempt EXCEPT ![c] = 1]
        /\ UNCHANGED ret
     \/ /\ ~failed[c]
        /\ Len(got[c]) >= req[c].n
        /\ Return(c, "ok")
        /\ UNCHANGED attempt
  /\ UNCHANGED <<reports, req, chain, seen, failed, kids, own, todo, recent,
                 got>>

(* What the framework does on its own, once a call is made. *)
Step(c) ==
  \/ RejectInput(c) \/ Load(c) \/ LoadN(c)
  \/ AddReport(c) \/ AddRecent(c) \/ Finish(c)

(* What handlers decide. *)
Handler(c) ==
  \/ HandlerOK(c) \/ HandlerUnserializable(c) \/ HandlerRetry(c)
  \/ HandlerFails(c) \/ SequenceReturns(c) \/ SequenceUnserializable(c)

Next ==
  \/ \E c \in Calls, p \in Calls \cup {Root}, r \in Requests : Invoke(c, p, r)
  \/ \E c \in Calls : Step(c) \/ Handler(c)

(* Every goroutine keeps running, and handlers return. *)
Fairness == \A c \in Calls : WF_vars(Step(c)) /\ WF_vars(Handler(c))

Spec     == Init /\ [][Next]_vars
FairSpec == Spec /\ Fairness

-----------------------------------------------------------------------------
(* Properties *)

(* Every variable has its type; in particular retries stay within the      *)
(* policy's MaxAttempts.                                                   *)
TypeOK ==
  /\ reports \in Seq(Report)
  /\ st \in [Calls -> States]
  /\ req \in [Calls -> Requests \cup {NoReq}]
  /\ chain \in [Calls -> Seq(Calls)]
  /\ seen \in [Calls -> Nat]
  /\ attempt \in [Calls -> Attempts]
  /\ failed \in [Calls -> BOOLEAN]
  /\ kids \in [Calls -> Seq(Nat)]
  /\ own \in [Calls -> Nat]
  /\ todo \in [Calls -> Seq(Calls)]
  /\ recent \in [Calls -> Seq(Nat)]
  /\ got \in [Calls -> Seq(Nat)]
  /\ ret \in [Calls -> Returns]
  /\ \A c \in Calls : st[c] # "idle" => req[c] \in Requests

(* The child report IDs of a report name older reports, of calls made      *)
(* under that sequence, however its goroutines are scheduled.  So          *)
(* GetExecutionReports terminates, always finds its reports, and never     *)
(* mixes in those of a concurrent sequence.                                *)
ChildrenPrecede ==
  \A i \in DOMAIN reports : \A k \in DOMAIN reports[i].children :
    LET child == reports[i].children[k]
    IN  /\ child \in 1..(i - 1)
        /\ Under(reports[child].by, reports[i].by)

(* An operation or sequence runs again after a success with the same       *)
(* definition, input and idempotency key only when execution is forced or  *)
(* when that success was reported after the call had read the reports: the *)
(* check and the execution are not atomic, calls that overlap may both run.*)
AtMostOnce ==
  \A i, j \in DOMAIN reports :
    LET c == reports[j].by
    IN  /\ i < j
        /\ ~reports[i].err
        /\ ReportHash(reports[i]) = ReportHash(reports[j])
        /\ req[c].kind # "opN"
        /\ ~req[c].force
        => seen[c] < i

(* Orders of a series never reach the number of its successful reports,    *)
(* even when goroutines run one series at the same time, so the            *)
(* assignment results[Order] of loadSuccessfulExecutionSeriesReports never *)
(* panics.                                                                 *)
SeriesInBounds ==
  \A r \in Requests : r.kind = "opN" =>
    \A i \in SeriesFound(r) : reports[i].order < Cardinality(SeriesFound(r))

(* With series run by one goroutine at a time, ExecuteOperationN returns n *)
(* reports, none of them empty and no one twice, whatever mixture of       *)
(* failed, repeated and longer runs came before.                           *)
SeriesComplete ==
  ExclusiveSeries =>
    \A c \in Calls : (ret[c] = "ok" /\ req[c].kind = "opN") =>
      /\ Len(got[c]) = req[c].n
      /\ \A k \in DOMAIN got[c] :
           /\ got[c][k] \in DOMAIN reports
           /\ ~reports[got[c][k]].err
           /\ reports[got[c][k]].series = req[c].series
           /\ reports[got[c][k]].order = k - 1

(* When handlers wait for the goroutines they start, the children of a     *)
(* sequence's report are all the reports made under it: also those of      *)
(* nested sequences, and of nested sequences that ended without a report.  *)
ChildrenComplete ==
  HandlersJoin =>
    \A i \in DOMAIN reports : reports[i].def \in Seqs =>
      {reports[i].children[k] : k \in DOMAIN reports[i].children}
        = {j \in DOMAIN reports : Under(reports[j].by, reports[i].by)}

(* What a reader of the reports relies on: a sequence's report lists every *)
(* report made under it, and a series that returned has one successful     *)
(* report per run.                                                         *)
ReportsComplete == ChildrenComplete /\ SeriesComplete

(* A call that returns without an error returns successful reports of its  *)
(* own definition, input and idempotency key.                              *)
ResultsSound ==
  \A c \in Calls : ret[c] = "ok" =>
    /\ req[c].kind # "opN" => Len(got[c]) = 1 /\ got[c][1] # 0
    /\ \A k \in DOMAIN got[c] : got[c][k] # 0 =>
         /\ ~reports[got[c][k]].err
         /\ ReportHash(reports[got[c][k]]) = ReqHash(req[c])

(* Why ChildrenPrecede holds: a RecentReporter only ever lists reports     *)
(* that are in the log already and were made under its sequence.           *)
Below(s, id) == id \in DOMAIN reports /\ Under(reports[id].by, s)

ChildrenInv ==
  /\ ChildrenPrecede
  /\ \A i \in DOMAIN reports : st[reports[i].by] # "idle"
  /\ \A c \in Calls :
       /\ \A k \in DOMAIN recent[c] : Below(c, recent[c][k])
       /\ \A k \in DOMAIN kids[c] : Below(c, kids[c][k])
       /\ st[c] = "recent" =>
            /\ own[c] \in DOMAIN reports
            /\ reports[own[c]].by = c
            /\ \A k \in DOMAIN todo[c] : Under(c, todo[c][k])

(* Why AtMostOnce holds: what an unforced call that is about to run did    *)
(* not see has been reported since.                                        *)
Unforced(c) == req[c].kind # "opN" /\ ~req[c].force

ReuseInv ==
  /\ AtMostOnce
  /\ \A i \in DOMAIN reports :
       LET c == reports[i].by
       IN  /\ st[c] \notin {"idle", "load"}
           /\ ReportHash(reports[i]) = ReqHash(req[c])
  /\ \A c \in Calls :
       /\ seen[c] <= Len(reports)
       /\ st[c] = "recent" /\ ~failed[c] => got[c] # <<>>
       /\ st[c] \in {"run", "handler", "add"} /\ Unforced(c) =>
            \A i \in Previous(req[c]) : seen[c] < i

(* Why SeriesInBounds holds: a running series has at least as many         *)
(* successful reports as the call that extends it has collected.           *)
SeriesInv ==
  /\ SeriesInBounds
  /\ \A c \in Calls :
       /\ st[c] \in {"run", "add", "recent"} /\ req[c].kind = "opN" =>
            Len(got[c]) <= Cardinality(SeriesFound(req[c]))
       /\ st[c] = "handler" => req[c].kind = "seq"

(* Why LogRefined holds: a call answers last, and its own report tells     *)
(* whether it failed.                                                      *)
AnswerInv ==
  \A c \in Calls :
    /\ st[c] # "done" => ret[c] = "none"
    /\ st[c] = "recent" =>
         /\ own[c] \in DOMAIN reports
         /\ reports[own[c]].by = c
         /\ reports[own[c]].err = failed[c]

(* The reporter and the returned errors, seen as the abstract ReportLog.   *)
Log == INSTANCE ReportLog WITH log <- reports, answer <- ret

LogRefined == Log!Spec

(* Every call returns, if handlers do and the retry policy has a limit.    *)
Terminates == \A c \in Calls : st[c] = "load" ~> st[c] = "done"
=============================================================================

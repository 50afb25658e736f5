-------------------------- MODULE ProposalAnalysis --------------------------
(***************************************************************************)
(* The analysis of a timelock proposal: analyzers annotate the nodes of    *)
(* the decoded proposal (itself, its batches, their calls and parameters). *)
(* The scheduler runs them level by level of their dependency graph, one   *)
(* goroutine per analyzer of a level.  A call of an analyzer runs in a     *)
(* goroutine of its own, which nobody waits for after the timeout.         *)
(***************************************************************************)
EXTENDS Naturals, Sequences, FiniteSets

CONSTANTS Analyzers,  \* IDs
          NodesOf,    \* kind of analyzer -> the nodes that it visits, in order
          Parent      \* node -> the node it is a part of; the proposal is its own

ASSUME AnalysisAssumption ==
  /\ IsFiniteSet(Analyzers)
  /\ \A n \in DOMAIN Parent : Parent[n] \in DOMAIN Parent
  /\ \A k \in DOMAIN NodesOf : NodesOf[k] \in Seq(DOMAIN Parent)

VARIABLES kinds, deps,  \* what each analyzer is and depends on; never change
          registered,   \* the registry of the engine
          phase,        \* "setup", "levels" or "returned"
          level,        \* the level of the graph that runs, or is next
          open,         \* the goroutines of the level have been started
          status,       \* analyzer -> what its goroutine does, or how it ended
          at,           \* analyzer -> its node, an index
          saw,          \* analyzer -> its DependencyAnnotationStore
          notes,        \* the annotations: <<node, analyzer>>
          failedIDs,
          abandoned,    \* calls still running after their timeout: <<node, analyzer, step>>
          acancel,      \* the context of the run is cancelled
          answer,       \* what Run returned
          declined      \* history: <<node, analyzer>> with CanAnalyze false, or no annotation

anVars == <<kinds, deps, registered, phase, level, open, status, at, saw, notes, failedIDs,
            abandoned, acancel, answer, declined>>

-----------------------------------------------------------------------------
(***************************************************************************)
(* scheduler.New                                                           *)
(***************************************************************************)
Num == Cardinality(Analyzers)

\* The in-degree of a has reached zero.
Ready(a, done) == deps[a] \subseteq done

\* The analyzers of the first n levels (Kahn's algorithm).
Processed ==
  LET F[n \in 0..Num] == IF n = 0 THEN {} ELSE F[n-1] \cup {a \in registered : Ready(a, F[n-1])}
  IN F

Level(n) == Processed[n] \ Processed[n-1]

\* No analyzer depends on itself or on an unknown one, and there is no cycle.
ValidGraph ==
  /\ \A a \in registered : a \notin deps[a] /\ deps[a] \subseteq registered
  /\ Processed[Num] = registered

-----------------------------------------------------------------------------
Nodes(a) == NodesOf[kinds[a]]
Node(a) == Nodes(a)[at[a]]

\* A node and what it is a part of.
Scope(n) == {n, Parent[n], Parent[Parent[n]], Parent[Parent[Parent[n]]]}

\* NewScopedDependencyAnnotationStore: what a's dependencies have said on the
\* node and above it.
DependencyAnnotations(a) == {x \in notes : x[1] \in Scope(Node(a)) /\ x[2] \in deps[a]}

Becomes(a, s) == status' = [status EXCEPT ![a] = s]

AnInit(configs) ==
  /\ \E c \in configs : kinds = c.kinds /\ deps = c.deps
  /\ registered = {} /\ phase = "setup" /\ level = 1 /\ open = FALSE
  /\ status = [a \in Analyzers |-> "none"] /\ at = [a \in Analyzers |-> 1]
  /\ saw = [a \in Analyzers |-> {}]
  /\ notes = {} /\ failedIDs = {} /\ abandoned = {} /\ acancel = FALSE
  /\ answer = "none" /\ declined = {}

\* RegisterAnalyzer; an ID that is taken is refused.
Register(a) ==
  /\ phase = "setup" /\ a \notin registered
  /\ registered' = registered \cup {a}
  /\ UNCHANGED <<kinds, deps, phase, level, open, status, at, saw, notes, failedIDs,
                 abandoned, acancel, answer, declined>>

\* Run: the proposal is decoded and cloned, or not; the graph is built, or not.
Run ==
  /\ phase = "setup"
  /\ \/ ValidGraph /\ phase' = "levels" /\ UNCHANGED answer
     \/ phase' = "returned" /\ answer' = "error"
  /\ UNCHANGED <<kinds, deps, registered, level, open, status, at, saw, notes, failedIDs,
                 abandoned, acancel, declined>>

HasFailedDep(a) == deps[a] \cap failedIDs # {}

\* Mutant: an analyzer that is skipped does not count as failed.
SkippedUnmarked(S) == {}

\* The analyzers of a level that are skipped, which counts as a failure.
Skipped(S) == {a \in S : HasFailedDep(a)}

\* The goroutines of a level start; after the last level Run returns.
BeginLevel ==
  /\ phase = "levels" /\ ~open
  /\ LET S == IF level > Num THEN {} ELSE Level(level) IN
       \/ /\ S # {} /\ ~acancel
          /\ open' = TRUE
          /\ status' = [a \in Analyzers |-> IF a \notin S THEN status[a]
                                            ELSE IF HasFailedDep(a) THEN "skipped" ELSE "node"]
          /\ failedIDs' = failedIDs \cup Skipped(S)
          /\ UNCHANGED <<phase, answer>>
       \/ /\ S = {} \/ acancel
          /\ phase' = "returned"
          /\ answer' = IF S = {} /\ \A a \in registered : status[a] = "ok" THEN "nil" ELSE "error"
          /\ UNCHANGED <<open, status, failedIDs>>
  /\ UNCHANGED <<kinds, deps, registered, level, at, saw, notes, abandoned, acancel, declined>>

\* wg.Wait
EndLevel ==
  /\ phase = "levels" /\ open
  /\ \A a \in Level(level) : status[a] \in {"ok", "error", "skipped"}
  /\ open' = FALSE /\ level' = level + 1
  /\ failedIDs' = failedIDs \cup {a \in Level(level) : status[a] = "error"}
  /\ UNCHANGED <<kinds, deps, registered, phase, status, at, saw, notes, abandoned, acancel,
                 answer, declined>>

-----------------------------------------------------------------------------
(***************************************************************************)
(* The goroutine of an analyzer: runProposalAnalyzer and its likes.        *)
(***************************************************************************)
rest == <<kinds, deps, registered, phase, level, open, failedIDs, acancel, answer>>

\* The dependency annotations are copied and the proposal is cloned, which may
\* fail; after the last node the goroutine ends.
NextNode(a) ==
  /\ status[a] = "node"
  /\ IF at[a] > Len(Nodes(a)) THEN Becomes(a, "ok") /\ UNCHANGED saw
     ELSE \/ Becomes(a, "can") /\ saw' = [saw EXCEPT ![a] = DependencyAnnotations(a)]
          \/ Becomes(a, "error") /\ UNCHANGED saw
  /\ UNCHANGED <<at, notes, abandoned, declined>> /\ UNCHANGED rest

\* CanAnalyze returns false.
Decline(a) ==
  /\ status[a] = "can"
  /\ Becomes(a, "node") /\ at' = [at EXCEPT ![a] = @ + 1]
  /\ declined' = declined \cup {<<Node(a), a>>}
  /\ UNCHANGED <<saw, notes, abandoned>> /\ UNCHANGED rest

\* CanAnalyze returns true.
Accept(a) ==
  /\ status[a] = "can"
  /\ Becomes(a, "analyze")
  /\ UNCHANGED <<at, saw, notes, abandoned, declined>> /\ UNCHANGED rest

\* Analyze returns annotations, perhaps none.
Annotate(a) ==
  /\ status[a] = "analyze"
  /\ Becomes(a, "node") /\ at' = [at EXCEPT ![a] = @ + 1]
  /\ \/ notes' = notes \cup {<<Node(a), a>>} /\ UNCHANGED declined
     \/ declined' = declined \cup {<<Node(a), a>>} /\ UNCHANGED notes
  /\ UNCHANGED <<saw, abandoned>> /\ UNCHANGED rest

\* Analyze returns an error.
Fail(a) ==
  /\ status[a] = "analyze"
  /\ Becomes(a, "error")
  /\ UNCHANGED <<at, saw, notes, abandoned, declined>> /\ UNCHANGED rest

\* callCanAnalyze, callAnalyze: the context ends before the call does.
Timeout(a) ==
  /\ status[a] \in {"can", "analyze"}
  /\ Becomes(a, "error")
  /\ abandoned' = abandoned \cup {<<Node(a), a, status[a]>>}
  /\ UNCHANGED <<at, saw, notes, declined>> /\ UNCHANGED rest

\* Mutant: the goroutine of the call adds the annotations itself.
LateReturnAdds(c) ==
  /\ c \in abandoned
  /\ abandoned' = abandoned \ {c}
  /\ notes' = IF c[3] = "analyze" THEN notes \cup {<<c[1], c[2]>>} ELSE notes
  /\ UNCHANGED <<status, at, saw, declined>> /\ UNCHANGED rest

\* A call returns after its timeout, into a channel that nobody reads.
LateReturn(c) ==
  /\ c \in abandoned
  /\ abandoned' = abandoned \ {c}
  /\ UNCHANGED <<status, at, saw, notes, declined>> /\ UNCHANGED rest

ACancel ==
  /\ phase = "levels" /\ ~acancel /\ acancel' = TRUE
  /\ UNCHANGED <<kinds, deps, registered, phase, level, open, status, at, saw, notes, failedIDs,
                 abandoned, answer, declined>>

\* What happens without an analyzer: the engine and its clocks.
AnStep == BeginLevel \/ EndLevel \/ \E a \in Analyzers : NextNode(a) \/ Timeout(a)

AnNext ==
  \/ AnStep \/ Run \/ ACancel
  \/ \E a \in Analyzers : Register(a) \/ Decline(a) \/ Accept(a) \/ Annotate(a) \/ Fail(a)
  \/ \E c \in abandoned : LateReturn(c)

\* Any analyzers, with any dependencies.
AnSpec ==
  /\ AnInit([kinds : [Analyzers -> DOMAIN NodesOf], deps : [Analyzers -> SUBSET Analyzers]])
  /\ [][AnNext]_anVars

-----------------------------------------------------------------------------
\* What an analyzer was shown of its dependencies is what they have on the node
\* and above it: none of them adds an annotation while the dependent runs.
DependenciesSettled ==
  \A a \in Analyzers : status[a] \in {"can", "analyze"} =>
    saw[a] = {x \in notes : x[1] \in Scope(Node(a)) /\ x[2] \in deps[a]}

\* An analyzer runs only after all of its dependencies have succeeded; and it
\* does run after them, unless the run was cancelled: best effort.
RunsAfterDependencies ==
  /\ \A a \in Analyzers : status[a] \notin {"none", "skipped"} => \A d \in deps[a] : status[d] = "ok"
  /\ \A a \in registered :
       (phase = "returned" /\ level > 1 /\ ~acancel /\ status[a] \in {"none", "skipped"})
         => \E d \in deps[a] : status[d] # "ok"

\* Run returns nil when every registered analyzer has been to every node of its
\* kind, annotated it or had nothing to say, and only then.
AnalysisComplete ==
  LET complete == \A a \in registered : \A i \in DOMAIN Nodes(a) : <<Nodes(a)[i], a>> \in notes \cup declined
      stopped == \E a \in registered : status[a] # "ok" IN
  phase = "returned" /\ level > 1 => IF answer = "nil" THEN complete ELSE stopped

(* Analyzers run after their dependencies and see all of their             *)
(* annotations, and Run returns nil exactly when every analyzer has been   *)
(* to every node.                                                          *)
AnalysisSound ==
  /\ DependenciesSettled
  /\ RunsAfterDependencies
  /\ AnalysisComplete

\* The proposal that Run has returned, which the caller reads without a lock,
\* is never changed, not by a call that returns after its timeout either.
AnalysisFinal == [][phase = "returned" => notes' = notes]_anVars

\* Run returns even if analyzers never do.
AnalysisEnds == (phase = "levels") ~> (phase = "returned")

(* Run returns whatever the analyzers do, and an analyzer that returns     *)
(* after its timeout changes nothing of what Run has returned.             *)
AnalysisReturns == AnalysisFinal /\ AnalysisEnds
=============================================================================

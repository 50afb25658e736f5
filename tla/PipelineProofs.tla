--------------------------- MODULE PipelineProofs ---------------------------
(***************************************************************************)
(* Pipeline runs, for any registry, input files and number of runs: what a *)
(* rerun repeats, and what a run leaves on disk.                           *)
(***************************************************************************)
EXTENDS Pipeline, WellFoundedInduction, TLAPS

-----------------------------------------------------------------------------
(* The inductive invariant, in four parts.                                 *)

Effects == UNION {EffectsOf(n) : n \in Names}

\* Types: the variables are functions of the runs or of the changesets.
DiskType ==
  /\ yaml \in YAMLs
  /\ reports \in [Names -> SUBSET Effects] /\ lost \in [Names -> SUBSET Effects]
  /\ count \in [Names -> UNION {[EffectsOf(n) -> Nat] : n \in Names}]
  /\ \A n \in Names : count[n] \in [EffectsOf(n) -> Nat] /\ reports[n] \subseteq EffectsOf(n)
  /\ damaged \subseteq Names

ProcessType ==
  /\ pc \in [Runs -> States]
  /\ name \in [Runs -> Names \cup {None} \cup UNION {NamesIn(y) : y \in YAMLs}]
  /\ env \in [Runs -> Inputs \cup {None}] /\ captured \in [Runs -> Inputs \cup {None}]
  /\ log \in [Runs -> SUBSET Effects] /\ fresh \in [Runs -> BOOLEAN]
  /\ next \in [Runs -> Nat \ {0}]
  /\ res \in [Runs -> {"none", "ok", "error", "killed"}]

OutcomeType ==
  /\ applyErr \in [Runs -> BOOLEAN] /\ failed \in [Runs -> BOOLEAN]
  /\ out \in [Runs -> SUBSET KindSet] /\ saved \in [Runs -> SUBSET KindSet]
  /\ meta \in [Runs -> Inputs \cup {None}] /\ applied \in [Runs -> Inputs \cup {None}]
  /\ posted \in [Runs -> Nat]

RunType == ProcessType /\ OutcomeType

Preparing == {"idle", "load", "options", "reports"}

Settled == {"delay", "metadata", "describe", "dirs", "write"}

\* registry.Apply has not failed, and was given a configuration.
Applied(r) == pc[r] \in {"apply", "post"} \cup Settled \/ (pc[r] = "save" /\ ~failed[r])

\* What a run knows of itself: the name and the input it was given, the
\* configuration it has applied, the hooks it has run, the artifacts it has written.
InputSound(r) ==
  /\ pc[r] \in {"reports"} \cup Working \cup Settled => name[r] \in Names
  /\ pc[r] \notin {"idle", "done"} => env[r] \in Inputs
  /\ pc[r] \notin {"idle", "load", "done"} => captured[r] = env[r]
  /\ Applied(r) => applied[r] = Config(r) /\ applied[r] \in Inputs
  /\ pc[r] \in {"describe", "dirs", "write"} /\ Proposes(r) => meta[r] = applied[r]
  /\ "mcms_timelock_proposal" \in saved[r] => meta[r] = applied[r]

ProgressSound(r) ==
  /\ (res[r] # "none") = (pc[r] = "done")
  /\ pc[r] \in Preparing \cup {"environment", "pre", "apply"} =>
       out[r] = {} /\ ~applyErr[r] /\ posted[r] = 0
  /\ pc[r] = "post" => posted[r] = next[r] - 1 /\ next[r] <= Len(PostHooks(r)) + 1
  /\ pc[r] = "save" /\ applyErr[r] => failed[r] /\ posted[r] \in {0, Len(PostHooks(r))}
  /\ pc[r] \in Settled => ~failed[r] /\ ~applyErr[r]
  /\ applyErr[r] => out[r] = {} /\ saved[r] = {}
  /\ pc[r] \notin {"write", "done"} => saved[r] = {}
  /\ pc[r] = "write" => /\ next[r] \in 1..(Len(Kinds) + 1)
                        /\ saved[r] = {Kinds[i] : i \in 1..(next[r] - 1)} \cap out[r]
  /\ res[r] = "ok" => saved[r] = out[r] /\ ~failed[r]

OpsOf(r) == {<<Registry[name[r]].ops[i], applied[r]>> : i \in 1..Len(Registry[name[r]].ops)}

\* The reporter has the operations that the changeset is through with.
LogSound(r) ==
  /\ log[r] # {} => name[r] \in Names /\ log[r] \subseteq EffectsOf(name[r])
  /\ pc[r] \in Preparing => log[r] = {}
  /\ pc[r] \in Preparing \cup {"environment", "pre"} => ~fresh[r]
  /\ pc[r] = "apply" =>
       \A i \in 1..Len(Registry[name[r]].ops) :
         i < next[r] => <<Registry[name[r]].ops[i], applied[r]>> \in log[r]
  /\ (pc[r] = "post" /\ ~applyErr[r]) \/ (pc[r] = "save" /\ ~failed[r]) => OpsOf(r) \subseteq log[r]

At(r, n) == pc[r] \in Working /\ name[r] = n

\* Unless two runs of a changeset have overlapped: one run at most works on its
\* reports file, with all that the file says in its log; what has taken effect is in
\* the file or in that log, or was lost, or the file is damaged, and then no run
\* works on it any more.
KnownSound(n) ==
  n \notin overlapped =>
    /\ \A q, r \in Runs : At(q, n) /\ At(r, n) => q = r
    /\ \A r \in Runs : At(r, n) =>
         n \notin damaged /\ reports[n] \subseteq log[r] /\ (~fresh[r] => log[r] \subseteq reports[n])
    /\ \A x \in EffectsOf(n) : count[n][x] > 0 =>
         x \in lost[n] \cup reports[n] \/ n \in damaged \/ \E r \in Runs : At(r, n) /\ x \in log[r]
    /\ \A x \in EffectsOf(n) : count[n][x] > 1 => x \in lost[n]

\* The operations behind what a run saves are in the reports file before.
RecordSound(r) ==
  pc[r] \in Settled \/ saved[r] # {} =>
    name[r] \in Names /\ (name[r] \in overlapped \/ OpsOf(r) \subseteq reports[name[r]])

LocalSound(r) == InputSound(r) /\ ProgressSound(r) /\ LogSound(r)

IInv ==
  /\ DiskType /\ RunType
  /\ \A r \in Runs : LocalSound(r) /\ RecordSound(r)
  /\ \A n \in Names : KnownSound(n)

-----------------------------------------------------------------------------
(* Inputs and types.                                                       *)

\* The payload of a changeset in the input file is an input, or there is none.
LEMMA PayloadType ==
  ASSUME yaml \in YAMLs, NEW n \in NamesIn(yaml)
  PROVE  FindChangesetInData(n) \in Inputs \cup {None}
<1>. DEFINE at == {i \in DOMAIN yaml : n \in DOMAIN yaml[i]}
<1>1. at \subseteq Nat /\ at # {}
  BY PipelineAssumption DEF NamesIn
<1>2. \E i \in at : \A j \in at : i <= j
  <2>1. PICK i \in at : \A j \in at : ~(<<j, i>> \in OpToRel(<, Nat))
    BY <1>1, NatLessThanWellFounded, WFMin, Zenon
  <2>2. \A j \in at : j < i => <<j, i>> \in OpToRel(<, Nat)
    BY <1>1, Zenon DEF OpToRel
  <2>3. \A j \in at : ~(j < i)
    BY <2>1, <2>2, Zenon
  <2>. QED BY <1>1, <2>3
<1>3. (CHOOSE i \in at : \A j \in at : i <= j) \in at
  BY <1>2
<1>. QED BY <1>1, <1>3, PipelineAssumption DEF FindChangesetInData

\* The lists of the registry are sequences.
LEMMA RegistryType ==
  ASSUME NEW n \in Names
  PROVE  /\ Len(Registry[n].ops) \in Nat /\ Len(Registry[n].post \o Global.post) \in Nat
         /\ Registry[n].config \in Inputs \cup {None}
<1>1. Registry[n].post \o Global.post \in Seq(Policies)
  BY PipelineAssumption
<1>2. Registry[n].ops \in Seq(STRING) /\ Registry[n].config \in Inputs \cup {None}
  BY PipelineAssumption
<1>3. \A S : \A s \in Seq(S) : Len(s) \in Nat
  OBVIOUS
<1>. QED BY <1>1, <1>2, <1>3

\* An operation of a changeset under an input is one of its effects.
LEMMA OperationType ==
  ASSUME NEW r \in Runs, name[r] \in Names, applied[r] \in Inputs, next[r] \in Nat \ {0}, OpsLeft(r)
  PROVE  Operation(r) \in EffectsOf(name[r]) /\ Operation(r) \in Effects
<1>1. next[r] \in 1..Len(Registry[name[r]].ops)
  BY RegistryType DEF OpsLeft
<1>. QED BY <1>1 DEF Operation, EffectsOf, Effects

\* The artifacts have an order.
LEMMA KindsFacts == /\ Len(Kinds) = 6 /\ \A i \in 1..6 : Kinds[i] \in KindSet
                    /\ \A k \in KindSet : \E i \in 1..6 : k = Kinds[i]
BY DEF Kinds, KindSet

\* A step of one run leaves the others alone.
ProcessKept(r) ==
  \A q \in Runs \ {r} :
    /\ pc'[q] = pc[q] /\ name'[q] = name[q] /\ env'[q] = env[q] /\ captured'[q] = captured[q]
    /\ log'[q] = log[q] /\ fresh'[q] = fresh[q] /\ next'[q] = next[q] /\ res'[q] = res[q]

OutcomeKept(r) ==
  \A q \in Runs \ {r} :
    /\ applyErr'[q] = applyErr[q] /\ failed'[q] = failed[q] /\ out'[q] = out[q]
    /\ saved'[q] = saved[q] /\ meta'[q] = meta[q]
    /\ applied'[q] = applied[q] /\ posted'[q] = posted[q]

Kept(r) == ProcessKept(r) /\ OutcomeKept(r)

\* The steps of a run.
RunStep(r) ==
  \/ Start(r) \/ LoadChangesets(r) \/ ConfigureEnvironmentOptions(r)
  \/ LoadOperationsReports(r) \/ LoadEnvironment(r)
  \/ Unresolved(r) \/ PreHook(r) \/ Executed(r) \/ ChangesetReturns(r)
  \/ PostHooksUnread(r) \/ PostHook(r) \/ Saved(r) \/ SaveFails(r) \/ SaveCut(r)
  \/ CorrectDelay(r) \/ SaveMetadata(r) \/ Describe(r) \/ CreateDirs(r)
  \/ SaveChangesetOutput(r) \/ RunReturns(r)
  \/ StepFails(r) \/ Kill(r) \/ RunHooks(r) \/ ProposalHook(r)

\* The process ends.
LEMMA EndType ==
  ASSUME ProcessType, NEW r \in Runs, NEW result \in {"ok", "error", "killed"}, End(r, result),
         UNCHANGED name
  PROVE  ProcessType' /\ ProcessKept(r)
<1>1. pc' \in [Runs -> States] /\ res' \in [Runs -> {"none", "ok", "error", "killed"}]
  BY DEF ProcessType, End, Go, States
<1>2. env' \in [Runs -> Inputs \cup {None}] /\ captured' \in [Runs -> Inputs \cup {None}]
  BY DEF ProcessType, End
<1>3. log' \in [Runs -> SUBSET Effects] /\ fresh' \in [Runs -> BOOLEAN] /\ next' \in [Runs -> Nat \ {0}]
  BY DEF ProcessType, End
<1>4. ProcessKept(r)
  BY DEF ProcessType, ProcessKept, End, Go
<1>. QED BY <1>1, <1>2, <1>3, <1>4 DEF ProcessType

\* A step that only goes on.
LEMMA GoType ==
  ASSUME ProcessType, NEW r \in Runs, pc' \in [Runs -> States],
         \A q \in Runs \ {r} : pc'[q] = pc[q] /\ next'[q] = next[q],
         next' \in [Runs -> Nat \ {0}], UNCHANGED <<process, log, fresh, res>>
  PROVE  ProcessType' /\ ProcessKept(r)
BY DEF ProcessType, ProcessKept, process

\* What a run has to show for itself stays when its variables do.
LEMMA OutcomeSame ==
  ASSUME OutcomeType, NEW r \in Runs,
         UNCHANGED <<applyErr, failed, out, saved, meta, applied, posted>>
  PROVE  OutcomeType' /\ OutcomeKept(r)
BY DEF OutcomeType, OutcomeKept

\* A run whose Apply fails goes on to save its reports, without an output.
LEMMA ApplyFailsType ==
  ASSUME RunType, NEW r \in Runs, ApplyFails(r)
  PROVE  /\ pc' \in [Runs -> States] /\ failed' \in [Runs -> BOOLEAN] /\ out' \in [Runs -> SUBSET KindSet]
         /\ \A q \in Runs \ {r} : pc'[q] = pc[q] /\ failed'[q] = failed[q] /\ out'[q] = out[q]
BY DEF RunType, ProcessType, OutcomeType, ApplyFails, Go, States

\* So does one that stops before its first hook.
LEMMA UnhookedType ==
  ASSUME RunType, NEW r \in Runs, Unresolved(r) \/ PostHooksUnread(r)
  PROVE  RunType' /\ Kept(r)
<1>1. ApplyFails(r) /\ UNCHANGED <<process, log, fresh, next, applyErr, saved, meta, res, applied, posted>>
  BY DEF Unresolved, PostHooksUnread, Unhooked, history
<1>2. ProcessType' /\ ProcessKept(r)
  BY <1>1, ApplyFailsType, GoType DEF RunType, ProcessType
<1>3. OutcomeType' /\ OutcomeKept(r)
  BY <1>1, ApplyFailsType DEF RunType, OutcomeType, OutcomeKept
<1>. QED BY <1>2, <1>3 DEF RunType, Kept

\* The variables keep their types, and the steps of a run are its own.
LEMMA RunTypeStep ==
  ASSUME DiskType, RunType, NEW r \in Runs, LocalSound(r), RunStep(r)
  PROVE  RunType' /\ Kept(r)
<1>0. ProcessType /\ OutcomeType
      /\ (ProcessType' /\ ProcessKept(r) /\ OutcomeType' /\ OutcomeKept(r) => RunType' /\ Kept(r))
  BY DEF RunType, Kept
<1>1. CASE Start(r)
  <2>1. PICK n \in NamesIn(yaml), payload \in Inputs : SetChangesetEnvironmentVariable(r, n, payload)
    <3>1. CASE PrepareInputForRunByName(r)
      BY <3>1, PayloadType DEF DiskType, PrepareInputForRunByName, SetChangesetEnvironmentVariable
    <3>2. ASSUME NEW i \in DOMAIN yaml, NEW n \in DOMAIN yaml[i],
                 SetChangesetEnvironmentVariable(r, n, yaml[i][n])
          PROVE  n \in NamesIn(yaml) /\ yaml[i][n] \in Inputs
      BY <3>2, PipelineAssumption DEF DiskType, NamesIn, SetChangesetEnvironmentVariable
    <3>3. CASE PrepareInputForRunByIndex(r)
      BY <3>2, <3>3 DEF PrepareInputForRunByIndex
    <3>4. CASE PrepareInputForRunAuto(r)
      <4>1. 1 \in DOMAIN yaml
        BY <3>4, PipelineAssumption DEF DiskType, PrepareInputForRunAuto
      <4>. QED BY <3>2, <3>4, <4>1 DEF PrepareInputForRunAuto
    <3>. QED BY <1>1, <3>1, <3>3, <3>4 DEF Start
  <2>2. n \in UNION {NamesIn(y) : y \in YAMLs}
    BY <2>1 DEF DiskType
  <2>3. OutcomeType' /\ OutcomeKept(r)
    BY <1>0, <1>1, OutcomeSame DEF Start, history
  <2>4. ProcessType' /\ ProcessKept(r)
    BY <1>0, <1>1, <2>1, <2>2
    DEF Start, SetChangesetEnvironmentVariable, ProcessType, ProcessKept, Go, States
  <2>. QED BY <1>0, <2>3, <2>4
<1>2. CASE LoadChangesets(r) \/ LoadOperationsReports(r)
  <2>1. OutcomeType' /\ OutcomeKept(r)
    BY <1>0, <1>2, OutcomeSame DEF LoadChangesets, LoadOperationsReports, history
  <2>2. CASE LoadChangesets(r)
    BY <1>0, <2>1, <2>2 DEF LoadChangesets, ProcessType, ProcessKept, Go, States
  <2>3. CASE LoadOperationsReports(r)
    <3>1. reports[name[r]] \in SUBSET Effects
      BY <2>3 DEF LoadOperationsReports, DiskType, LocalSound, InputSound
    <3>. QED BY <1>0, <2>1, <2>3, <3>1
         DEF LoadOperationsReports, ProcessType, ProcessKept, Go, States, process
  <2>. QED BY <1>2, <2>2, <2>3
<1>3. CASE ConfigureEnvironmentOptions(r) \/ LoadEnvironment(r) \/ CorrectDelay(r) \/ Describe(r) \/ CreateDirs(r)
  <2>1. OutcomeType' /\ OutcomeKept(r)
    BY <1>0, <1>3, OutcomeSame
    DEF ConfigureEnvironmentOptions, LoadEnvironment, CorrectDelay, Describe, CreateDirs, history
  <2>2. PICK state \in States : Go(r, state)
    BY <1>3 DEF ConfigureEnvironmentOptions, LoadEnvironment, CorrectDelay, Describe, CreateDirs,
       States
  <2>3. /\ next' = next \/ next' = [next EXCEPT ![r] = 1]
        /\ UNCHANGED <<process, log, fresh, res>>
    BY <1>3 DEF ConfigureEnvironmentOptions, LoadEnvironment, CorrectDelay, Describe, CreateDirs
  <2>. QED BY <1>0, <2>1, <2>2, <2>3, GoType DEF ProcessType, Go
<1>4. CASE PreHook(r)
  <2>1. pc[r] = "pre" /\ Config(r) \in Inputs \cup {None}
    BY <1>4, RegistryType
    DEF PreHook, Config, resolvedInput, configProvider, LocalSound, InputSound, Working,
        RunType, ProcessType
  <2>2. UNCHANGED <<process, log, fresh, applyErr, saved, meta, res, posted>>
    BY <1>4 DEF PreHook, history
  <2>4. CASE PreHook(r) /\ next[r] > Len(PreHooks(r))
    <3>1. /\ Go(r, "apply") /\ next' = [next EXCEPT ![r] = 1]
          /\ applied' = [applied EXCEPT ![r] = Config(r)] /\ UNCHANGED <<failed, out>>
      BY <2>4 DEF PreHook
    <3>2. ProcessType' /\ ProcessKept(r)
      BY <1>0, <2>2, <3>1, GoType DEF ProcessType, Go, States
    <3>. QED BY <1>0, <2>1, <2>2, <3>1, <3>2 DEF OutcomeType, OutcomeKept
  <2>5. CASE PreHook(r) /\ ~(next[r] > Len(PreHooks(r)))
    <3>1. /\ ApplyFails(r) \/ UNCHANGED <<pc, failed, out>>
          /\ next' = [next EXCEPT ![r] = @ + 1] /\ UNCHANGED applied
      BY <2>5 DEF PreHook
    <3>2. /\ pc' \in [Runs -> States] /\ failed' \in [Runs -> BOOLEAN] /\ out' \in [Runs -> SUBSET KindSet]
          /\ \A q \in Runs \ {r} : pc'[q] = pc[q] /\ failed'[q] = failed[q] /\ out'[q] = out[q]
      BY <1>0, <3>1, ApplyFailsType DEF ProcessType, OutcomeType
    <3>4. next' \in [Runs -> Nat \ {0}] /\ \A q \in Runs \ {r} : next'[q] = next[q]
      BY <1>0, <3>1 DEF ProcessType
    <3>3. ProcessType' /\ ProcessKept(r)
      BY <1>0, <2>2, <3>2, <3>4, GoType
    <3>. QED BY <1>0, <2>2, <3>1, <3>2, <3>3 DEF OutcomeType, OutcomeKept
  <2>. QED BY <1>4, <2>4, <2>5
<1>13. CASE Unresolved(r) \/ PostHooksUnread(r)
  BY <1>0, <1>13, UnhookedType DEF RunType, Kept
<1>5. CASE Executed(r)
  <2>0. OutcomeType' /\ OutcomeKept(r)
    BY <1>0, <1>5, OutcomeSame DEF Executed, history
  <2>1. pc[r] = "apply" /\ OpsLeft(r) /\ next' = [next EXCEPT ![r] = @ + 1] /\ UNCHANGED <<pc, process, res>>
    BY <1>5 DEF Executed, ExecuteOperation
  <2>2. Operation(r) \in Effects
    BY <1>0, <2>1, OperationType DEF LocalSound, InputSound, Applied, Working, ProcessType
  <2>3. CASE Operation(r) \in log[r]
    BY <1>0, <1>5, <2>0, <2>1, <2>3, GoType DEF Executed, ExecuteOperation, ProcessType
  <2>4. CASE Operation(r) \notin log[r]
    <3>1. /\ log' = [log EXCEPT ![r] = @ \cup {Operation(r)}]
          /\ fresh' = [fresh EXCEPT ![r] = TRUE]
      BY <1>5, <2>4 DEF Executed, ExecuteOperation
    <3>2. log' \in [Runs -> SUBSET Effects] /\ fresh' \in [Runs -> BOOLEAN] /\ next' \in [Runs -> Nat \ {0}]
      BY <1>0, <2>1, <2>2, <3>1 DEF ProcessType
    <3>3. ProcessKept(r)
      BY <1>0, <2>1, <3>1 DEF ProcessType, ProcessKept, process
    <3>. QED BY <1>0, <2>0, <2>1, <3>2, <3>3 DEF ProcessType, process
  <2>. QED BY <2>3, <2>4
<1>6. CASE ChangesetReturns(r)
  <2>1. /\ Go(r, "post") /\ next' = [next EXCEPT ![r] = 1]
        /\ UNCHANGED <<process, log, failed, saved, meta, res, applied, posted>>
    BY <1>6 DEF ChangesetReturns, history
  <2>2. \/ UNCHANGED <<applyErr, fresh>> /\ \E kinds \in SUBSET KindSet : out' = [out EXCEPT ![r] = kinds]
        \/ /\ applyErr' = [applyErr EXCEPT ![r] = TRUE] /\ UNCHANGED out
           /\ \E reported \in BOOLEAN : fresh' = [fresh EXCEPT ![r] = @ \/ reported]
    BY <1>6, PipelineAssumption DEF ChangesetReturns
  <2>3. fresh' \in [Runs -> BOOLEAN] /\ \A q \in Runs \ {r} : fresh'[q] = fresh[q]
    BY <1>0, <2>2 DEF ProcessType
  <2>6. /\ pc' \in [Runs -> States] /\ next' \in [Runs -> Nat \ {0}]
        /\ \A q \in Runs \ {r} : pc'[q] = pc[q] /\ next'[q] = next[q]
    BY <1>0, <2>1 DEF ProcessType, Go, States
  <2>4. ProcessType' /\ ProcessKept(r)
    BY <1>0, <2>1, <2>3, <2>6 DEF ProcessType, ProcessKept, process
  <2>5. OutcomeType' /\ OutcomeKept(r)
    BY <1>0, <2>1, <2>2 DEF OutcomeType, OutcomeKept
  <2>. QED BY <1>0, <2>4, <2>5
<1>7. CASE PostHook(r)
  <2>1. UNCHANGED <<process, log, fresh, applyErr, saved, meta, res, applied>>
    BY <1>7 DEF PostHook
  <2>2. CASE next[r] > Len(PostHooks(r))
    <3>1. Go(r, "save") /\ failed' = [failed EXCEPT ![r] = applyErr[r]] /\ UNCHANGED <<next, out, posted>>
      BY <1>7, <2>2 DEF PostHook
    <3>2. ProcessType' /\ ProcessKept(r)
      BY <1>0, <2>1, <3>1, GoType DEF ProcessType, Go, States
    <3>. QED BY <1>0, <2>1, <3>1, <3>2 DEF OutcomeType, OutcomeKept
  <2>3. CASE ~(next[r] > Len(PostHooks(r)))
    <3>1. /\ ApplyFails(r) \/ UNCHANGED <<pc, failed, out>>
          /\ next' = [next EXCEPT ![r] = @ + 1] /\ posted' = [posted EXCEPT ![r] = @ + 1]
      BY <1>7, <2>3 DEF PostHook
    <3>2. /\ pc' \in [Runs -> States] /\ failed' \in [Runs -> BOOLEAN] /\ out' \in [Runs -> SUBSET KindSet]
          /\ \A q \in Runs \ {r} : pc'[q] = pc[q] /\ failed'[q] = failed[q] /\ out'[q] = out[q]
      BY <1>0, <3>1, ApplyFailsType DEF ProcessType, OutcomeType
    <3>3. next' \in [Runs -> Nat \ {0}] /\ \A q \in Runs \ {r} : next'[q] = next[q]
      BY <1>0, <3>1 DEF ProcessType
    <3>4. ProcessType' /\ ProcessKept(r)
      BY <1>0, <2>1, <3>2, <3>3, GoType
    <3>5. posted' \in [Runs -> Nat] /\ \A q \in Runs \ {r} : posted'[q] = posted[q]
      BY <1>0, <3>1 DEF OutcomeType
    <3>6. OutcomeType' /\ OutcomeKept(r)
      BY <1>0, <2>1, <3>2, <3>5 DEF OutcomeType, OutcomeKept
    <3>. QED BY <1>0, <3>4, <3>6
  <2>. QED BY <2>2, <2>3
<1>8. CASE Saved(r)
  <2>1. OutcomeType' /\ OutcomeKept(r) /\ UNCHANGED name
    BY <1>0, <1>8, OutcomeSame DEF Saved, history
  <2>2. CASE End(r, "error")
    BY <1>0, <2>1, <2>2, EndType
  <2>3. CASE Go(r, "delay") /\ UNCHANGED <<res, env, captured, log, fresh, next>>
    BY <1>0, <2>1, <2>3, GoType DEF ProcessType, Go, States, process
  <2>. QED BY <1>8, <2>2, <2>3 DEF Saved
<1>9. CASE SaveFails(r) \/ SaveCut(r) \/ RunReturns(r) \/ StepFails(r) \/ Kill(r)
  <2>1. OutcomeType' /\ OutcomeKept(r) /\ UNCHANGED name
    BY <1>0, <1>9, OutcomeSame DEF SaveFails, SaveCut, RunReturns, StepFails, Kill, history
  <2>2. \E result \in {"ok", "error", "killed"} : End(r, result)
    BY <1>9 DEF SaveFails, SaveCut, RunReturns, StepFails, Kill
  <2>. QED BY <1>0, <2>1, <2>2, EndType
<1>10. CASE RunHooks(r) \/ ProposalHook(r)
  <2>1. UNCHANGED <<pc, process, log, fresh, next, applyErr, failed, out, saved, meta, res, history>>
    BY <1>10 DEF RunHooks, ProposalHook
  <2>2. OutcomeType' /\ OutcomeKept(r)
    BY <1>0, <2>1, OutcomeSame DEF history
  <2>. QED BY <1>0, <2>1, <2>2, GoType DEF ProcessType
<1>11. CASE SaveMetadata(r)
  <2>1. resolvedInput(name[r], env[r], captured[r]) \in Inputs \cup {None}
    BY <1>0, <1>11, RegistryType
    DEF SaveMetadata, resolvedInput, configProvider, LocalSound, InputSound, Settled, ProcessType
  <2>2. /\ Go(r, "describe") /\ UNCHANGED <<next, process, log, fresh, res>>
        /\ UNCHANGED <<applyErr, failed, out, saved, applied, posted>>
        /\ meta' = meta \/ meta' = [meta EXCEPT ![r] = resolvedInput(name[r], env[r], captured[r])]
    BY <1>11 DEF SaveMetadata, saveChangesetProposalMetadata, history
  <2>3. ProcessType' /\ ProcessKept(r)
    BY <1>0, <2>2, GoType DEF ProcessType, Go, States
  <2>. QED BY <1>0, <2>1, <2>2, <2>3 DEF OutcomeType, OutcomeKept
<1>12. CASE SaveChangesetOutput(r)
  <2>1. /\ saved' = [saved EXCEPT ![r] = @ \cup ({Kinds[next[r]]} \cap out[r])]
        /\ next' = [next EXCEPT ![r] = @ + 1] /\ UNCHANGED <<pc, process, log, fresh, res>>
        /\ UNCHANGED <<applyErr, failed, out, meta, applied, posted>>
    BY <1>12 DEF SaveChangesetOutput, history
  <2>2. ProcessType' /\ ProcessKept(r)
    BY <1>0, <2>1, GoType DEF ProcessType
  <2>. QED BY <1>0, <2>1, <2>2 DEF OutcomeType, OutcomeKept
<1>. QED
  BY <1>1, <1>2, <1>3, <1>4, <1>5, <1>6, <1>7, <1>8, <1>9, <1>10, <1>11, <1>12, <1>13
  DEF RunStep

-----------------------------------------------------------------------------
(* A run by itself.                                                        *)

\* What the other runs know of themselves stays.
LEMMA OthersLocal ==
  ASSUME NEW r \in Runs, NEW q \in Runs \ {r}, Kept(r), LocalSound(q)
  PROVE  LocalSound(q)'
<1>. USE DEF Kept, ProcessKept, OutcomeKept
<1>1. Config(q)' = Config(q) /\ Applied(q)' = Applied(q)
  BY DEF Config, Applied
<1>2. OpsOf(q)' = OpsOf(q) /\ PostHooks(q)' = PostHooks(q) /\ Proposes(q)' = Proposes(q)
  BY DEF OpsOf, PostHooks, Proposes
<1>3. InputSound(q)'
  BY <1>1, <1>2 DEF LocalSound, InputSound
<1>4. ProgressSound(q)'
  BY <1>2 DEF LocalSound, ProgressSound
<1>5. LogSound(q)'
  BY <1>2 DEF LocalSound, LogSound
<1>. QED BY <1>3, <1>4, <1>5 DEF LocalSound

\* The end of a run leaves what it has saved.
LEMMA EndLocal ==
  ASSUME RunType, NEW r \in Runs, LocalSound(r), NEW result \in {"ok", "error", "killed"},
         End(r, result), UNCHANGED <<name, applyErr, failed, out, saved, meta, applied, posted>>,
         result = "ok" => saved[r] = out[r] /\ ~failed[r]
  PROVE  LocalSound(r)'
<1>1. /\ pc'[r] = "done" /\ res'[r] = result /\ log'[r] = {}
  BY DEF RunType, ProcessType, End, Go
<1>2. InputSound(r)'
  BY <1>1 DEF LocalSound, InputSound, Applied, Working, Settled
<1>3. ProgressSound(r)'
  BY <1>1 DEF LocalSound, ProgressSound, Preparing, Settled
<1>4. LogSound(r)'
  BY <1>1 DEF LogSound, Preparing
<1>. QED BY <1>2, <1>3, <1>4 DEF LocalSound

\* A step that goes on to another state and leaves the rest.
LEMMA GoLocal ==
  ASSUME RunType, NEW r \in Runs, LocalSound(r), NEW state \in States, Go(r, state),
         UNCHANGED <<name, env, log, fresh, applyErr, failed, out, saved, meta, res, applied,
         posted>>,
         captured'[r] = (IF pc[r] = "load" THEN env[r] ELSE captured[r]),
         \/ pc[r] = "load" /\ state = "options"
         \/ pc[r] = "options" /\ state = "reports" /\ name[r] \in Names
         \/ pc[r] = "environment" /\ state = "pre"
         \/ pc[r] = "delay" /\ state = "metadata"
         \/ pc[r] = "describe" /\ state = "dirs"
         \/ pc[r] = "dirs" /\ state = "write" /\ next'[r] = 1
  PROVE  LocalSound(r)'
<1>1. pc'[r] = state
  BY DEF RunType, ProcessType, Go
<1>2. InputSound(r)'
  BY <1>1 DEF LocalSound, InputSound, Applied, Working, Settled, Config, Proposes
<1>3. ProgressSound(r)'
  BY <1>1, KindsFacts DEF LocalSound, ProgressSound, Preparing, Settled
<1>4. LogSound(r)'
  BY <1>1 DEF LocalSound, LogSound, Preparing
<1>. QED BY <1>2, <1>3, <1>4 DEF LocalSound

\* A run goes through its steps in order.
LEMMA LocalStep ==
  ASSUME DiskType, RunType, NEW r \in Runs, LocalSound(r), RunStep(r)
  PROVE  LocalSound(r)'
<1>0. RunType'
  BY RunTypeStep
<1>1. CASE Start(r)
  <2>1. pc[r] = "idle" /\ UNCHANGED <<captured, log, fresh, next, applyErr, failed, out, saved, meta, applied, posted>>
    BY <1>1 DEF Start, history
  <2>2. pc'[r] = "load" /\ env'[r] # None /\ UNCHANGED res
    BY <1>1
    DEF Start, PrepareInputForRunByName, PrepareInputForRunByIndex, PrepareInputForRunAuto,
        SetChangesetEnvironmentVariable, Go, RunType, ProcessType
  <2>3. log[r] = {}
    BY <2>1 DEF LocalSound, LogSound, Preparing
  <2>4. InputSound(r)'
    BY <1>0, <2>1, <2>2
    DEF LocalSound, InputSound, Applied, Working, Settled, ProgressSound, RunType, ProcessType
  <2>5. ProgressSound(r)'
    BY <2>1, <2>2 DEF LocalSound, ProgressSound, Preparing, Settled
  <2>6. LogSound(r)'
    BY <2>1, <2>2, <2>3 DEF LocalSound, LogSound, Preparing
  <2>. QED BY <2>4, <2>5, <2>6 DEF LocalSound
<1>2. CASE LoadChangesets(r)
  <2>1. captured'[r] = env[r]
    BY <1>2 DEF LoadChangesets, RunType, ProcessType
  <2>. QED BY <1>2, <2>1, GoLocal DEF LoadChangesets, history, States
<1>3. CASE ConfigureEnvironmentOptions(r) \/ CorrectDelay(r) \/ Describe(r)
  BY <1>3, GoLocal
  DEF ConfigureEnvironmentOptions, CorrectDelay, Describe, history, process, States
<1>4. CASE LoadEnvironment(r) \/ CreateDirs(r)
  <2>1. next'[r] = 1
    BY <1>4 DEF LoadEnvironment, CreateDirs, RunType, ProcessType
  <2>. QED BY <1>4, <2>1, GoLocal DEF LoadEnvironment, CreateDirs, history, process, States
<1>5. CASE LoadOperationsReports(r)
  <2>1. /\ pc[r] = "reports" /\ pc'[r] = "environment" /\ log'[r] = reports[name[r]]
        /\ UNCHANGED <<process, fresh, next, applyErr, failed, out, saved, meta, res, applied, posted>>
    BY <1>5 DEF LoadOperationsReports, Go, RunType, ProcessType
  <2>2. InputSound(r)'
    BY <2>1 DEF LocalSound, InputSound, Applied, Working, Settled, process
  <2>3. ProgressSound(r)'
    BY <2>1 DEF LocalSound, ProgressSound, Preparing, Settled
  <2>4. LogSound(r)'
    BY <2>1, <2>2 DEF LocalSound, InputSound, LogSound, Preparing, DiskType, process, Working
  <2>. QED BY <2>2, <2>3, <2>4 DEF LocalSound
<1>6. ASSUME pc[r] = "pre", ApplyFails(r),
             UNCHANGED <<process, log, fresh, applyErr, saved, meta, res, applied, posted>>
      PROVE  LocalSound(r)'
  <2>1. pc'[r] = "save" /\ failed'[r] /\ out'[r] = {}
    BY <1>6 DEF ApplyFails, Go, RunType, ProcessType, OutcomeType
  <2>2. InputSound(r)'
    BY <1>6, <2>1 DEF LocalSound, InputSound, Applied, Working, Settled, process
  <2>3. ProgressSound(r)'
    BY <1>6, <2>1 DEF LocalSound, ProgressSound, Preparing, Settled
  <2>4. LogSound(r)'
    BY <1>6, <2>1 DEF LocalSound, LogSound, Preparing, process
  <2>. QED BY <2>2, <2>3, <2>4 DEF LocalSound
<1>7. CASE Unresolved(r)
  BY <1>6, <1>7 DEF Unresolved, Unhooked, history
<1>18. CASE PostHooksUnread(r)
  <2>1. /\ pc[r] = "post" /\ next[r] = 1 /\ ApplyFails(r)
        /\ UNCHANGED <<process, log, fresh, applyErr, saved, meta, res, applied, posted>>
    BY <1>18 DEF PostHooksUnread, Unhooked, history
  <2>2. pc'[r] = "save" /\ failed'[r] /\ out'[r] = {} /\ PostHooks(r)' = PostHooks(r)
    BY <2>1 DEF ApplyFails, Go, RunType, ProcessType, OutcomeType, PostHooks, process
  <2>3. InputSound(r)'
    BY <2>1, <2>2 DEF LocalSound, InputSound, Applied, Working, Settled, process
  <2>4. ProgressSound(r)'
    BY <2>1, <2>2 DEF LocalSound, ProgressSound, Preparing, Settled
  <2>5. LogSound(r)'
    BY <2>1, <2>2 DEF LocalSound, LogSound, Preparing, process
  <2>. QED BY <2>3, <2>4, <2>5 DEF LocalSound
<1>8. CASE PreHook(r)
  <2>1. pc[r] = "pre" /\ Decodes(Config(r))
        /\ UNCHANGED <<process, log, fresh, applyErr, saved, meta, res, posted>>
    BY <1>8 DEF PreHook
  <2>2. CASE next[r] > Len(PreHooks(r))
    <3>1. /\ pc'[r] = "apply" /\ next'[r] = 1 /\ applied'[r] = Config(r) /\ UNCHANGED <<failed, out>>
      BY <1>8, <2>2 DEF PreHook, Go, RunType, ProcessType, OutcomeType
    <3>2. InputSound(r)'
      BY <2>1, <3>1 DEF LocalSound, InputSound, ProgressSound, Working, Settled, Config, process,
         Decodes
    <3>3. ProgressSound(r)'
      BY <2>1, <3>1 DEF LocalSound, ProgressSound, Preparing, Settled
    <3>4. LogSound(r)'
      BY <2>1, <3>1 DEF LocalSound, LogSound, Preparing, process
    <3>. QED BY <3>2, <3>3, <3>4 DEF LocalSound
  <2>3. CASE ~(next[r] > Len(PreHooks(r))) /\ ApplyFails(r)
    BY <1>6, <1>8, <2>1, <2>3 DEF PreHook
  <2>4. CASE ~(next[r] > Len(PreHooks(r))) /\ UNCHANGED <<pc, failed, out>>
    <3>1. UNCHANGED applied
      BY <1>8, <2>4 DEF PreHook
    <3>2. InputSound(r)'
      BY <2>1, <2>4, <3>1 DEF LocalSound, InputSound, Applied, Working, Settled, process
    <3>3. ProgressSound(r)'
      BY <2>1, <2>4, <3>1 DEF LocalSound, ProgressSound, Preparing, Settled
    <3>4. LogSound(r)'
      BY <2>1, <2>4, <3>1 DEF LocalSound, LogSound, Preparing, process
    <3>. QED BY <3>2, <3>3, <3>4 DEF LocalSound
  <2>. QED BY <1>8, <2>2, <2>3, <2>4 DEF PreHook
<1>9. CASE Executed(r)
  <2>1. /\ pc[r] = "apply" /\ OpsLeft(r) /\ next'[r] = next[r] + 1
        /\ UNCHANGED <<pc, process, applyErr, failed, out, saved, meta, res, applied, posted>>
    BY <1>9 DEF Executed, ExecuteOperation, history, RunType, ProcessType
  <2>2. log'[r] = log[r] \cup {Operation(r)}
    BY <1>9 DEF Executed, ExecuteOperation, RunType, ProcessType
  <2>3. Operation(r) \in EffectsOf(name[r]) /\ name[r] \in Names
    BY <2>1, OperationType DEF LocalSound, InputSound, Applied, Working, RunType, ProcessType
  <2>4. InputSound(r)'
    BY <2>1 DEF LocalSound, InputSound, Applied, Config, Proposes, process
  <2>5. ProgressSound(r)'
    BY <2>1 DEF LocalSound, ProgressSound, Preparing, Settled
  <2>6. ASSUME NEW i \in 1..Len(Registry[name[r]].ops), i < next[r] + 1
        PROVE  <<Registry[name[r]].ops[i], applied[r]>> \in log'[r]
    <3>1. i < next[r] \/ i = next[r]
      BY <2>3, <2>6, RegistryType DEF RunType, ProcessType
    <3>. QED BY <2>1, <2>2, <2>6, <3>1 DEF LocalSound, LogSound, Operation
  <2>7. LogSound(r)'
    BY <2>1, <2>2, <2>3, <2>6 DEF LocalSound, LogSound, Preparing, process
  <2>. QED BY <2>4, <2>5, <2>7 DEF LocalSound
<1>10. CASE ChangesetReturns(r)
  <2>1. /\ pc[r] = "apply" /\ pc'[r] = "post" /\ next'[r] = 1
        /\ UNCHANGED <<process, log, failed, saved, meta, res, applied, posted>>
    BY <1>10 DEF ChangesetReturns, history, Go, RunType, ProcessType
  <2>7. (applyErr'[r] => UNCHANGED out) /\ (~applyErr'[r] => ~OpsLeft(r))
    <3>1. ~applyErr[r]
      BY <2>1 DEF LocalSound, ProgressSound
    <3>. QED BY <1>10, <3>1 DEF ChangesetReturns, RunType, OutcomeType
  <2>2. name[r] \in Names /\ PostHooks(r)' = PostHooks(r) /\ Len(PostHooks(r)) \in Nat
    BY <2>1, RegistryType DEF LocalSound, InputSound, Working, PostHooks, process
  <2>3. InputSound(r)'
    BY <2>1 DEF LocalSound, InputSound, Applied, Config, Proposes, process, Working, Settled,
       ProgressSound
  <2>4. ProgressSound(r)'
    BY <2>1, <2>2, <2>7 DEF LocalSound, ProgressSound, Preparing, Settled
  <2>5. ~applyErr'[r] => OpsOf(r)' \subseteq log[r]
    <3>1. Len(Registry[name[r]].ops) \in Nat /\ next[r] \in Nat
      BY <2>2, RegistryType DEF RunType, ProcessType
    <3>2. ~applyErr'[r] => \A i \in 1..Len(Registry[name[r]].ops) : i < next[r]
      BY <2>7, <3>1 DEF OpsLeft
    <3>3. OpsOf(r)' = OpsOf(r)
      BY <2>1 DEF OpsOf, process
    <3>. QED BY <2>1, <3>2, <3>3 DEF OpsOf, LocalSound, LogSound
  <2>6. LogSound(r)'
    BY <2>1, <2>5 DEF LocalSound, LogSound, Preparing, process
  <2>. QED BY <2>3, <2>4, <2>6 DEF LocalSound
<1>11. CASE PostHook(r)
  <2>1. pc[r] = "post" /\ UNCHANGED <<process, log, fresh, applyErr, saved, meta, res, applied>>
    BY <1>11 DEF PostHook
  <2>2. /\ name[r] \in Names /\ PostHooks(r)' = PostHooks(r) /\ Len(PostHooks(r)) \in Nat
        /\ next[r] \in Nat
    BY <2>1, RegistryType
       DEF LocalSound, InputSound, Working, PostHooks, process, RunType, ProcessType
  <2>3. LogSound(r) /\ InputSound(r) /\ ProgressSound(r) /\ OpsOf(r)' = OpsOf(r)
    BY <2>1 DEF LocalSound, OpsOf, process
  <2>4. CASE next[r] > Len(PostHooks(r))
    <3>1. pc'[r] = "save" /\ failed'[r] = applyErr[r] /\ UNCHANGED <<next, out, posted>>
      BY <1>11, <2>4 DEF PostHook, Go, RunType, ProcessType, OutcomeType
    <3>2. InputSound(r)'
      BY <2>1, <2>3, <3>1 DEF InputSound, Applied, Config, process, Working, Settled
    <3>3. ProgressSound(r)'
      BY <2>1, <2>2, <2>3, <2>4, <3>1 DEF ProgressSound, Preparing, Settled
    <3>4. LogSound(r)'
      BY <2>1, <2>3, <3>1 DEF LogSound, Preparing, process
    <3>. QED BY <3>2, <3>3, <3>4 DEF LocalSound
  <2>5. CASE ~(next[r] > Len(PostHooks(r))) /\ UNCHANGED <<pc, failed, out>>
    <3>1. next'[r] = next[r] + 1 /\ posted'[r] = posted[r] + 1
      BY <1>11, <2>5 DEF PostHook, RunType, ProcessType, OutcomeType
    <3>2. InputSound(r)'
      BY <2>1, <2>3, <2>5 DEF InputSound, Applied, Config, Proposes, process, Working, Settled
    <3>3. ProgressSound(r)'
      BY <2>1, <2>2, <2>3, <2>5, <3>1 DEF ProgressSound, Preparing, Settled
    <3>4. LogSound(r)'
      BY <2>1, <2>3, <2>5 DEF LogSound, Preparing, process
    <3>. QED BY <3>2, <3>3, <3>4 DEF LocalSound
  <2>6. CASE ~(next[r] > Len(PostHooks(r))) /\ ~applyErr[r] /\ ApplyFails(r)
    <3>1. pc'[r] = "save" /\ failed'[r] /\ out'[r] = {}
      BY <2>6 DEF ApplyFails, Go, RunType, ProcessType, OutcomeType
    <3>2. InputSound(r)'
      BY <2>1, <2>3, <3>1 DEF InputSound, Applied, Working, Settled, process
    <3>3. ProgressSound(r)'
      BY <2>1, <2>3, <2>6, <3>1 DEF ProgressSound, Preparing, Settled
    <3>4. LogSound(r)'
      BY <2>1, <2>3, <3>1 DEF LogSound, Preparing, process
    <3>. QED BY <3>2, <3>3, <3>4 DEF LocalSound
  <2>. QED BY <1>11, <2>4, <2>5, <2>6 DEF PostHook, PostHookStops
<1>12. CASE Saved(r)
  <2>1. pc[r] = "save" /\ UNCHANGED <<name, applyErr, failed, out, saved, meta, applied, posted>>
    BY <1>12 DEF Saved, history
  <2>2. CASE failed[r]
    BY <1>12, <2>1, <2>2, EndLocal DEF Saved
  <2>3. CASE ~failed[r]
    <3>1. pc'[r] = "delay" /\ UNCHANGED <<res, env, captured, log, fresh, next>>
      BY <1>12, <2>3 DEF Saved, Go, RunType, ProcessType
    <3>2. InputSound(r)'
      BY <2>1, <2>3, <3>1 DEF LocalSound, InputSound, Applied, Config, Working, Settled
    <3>3. ProgressSound(r)'
      BY <2>1, <2>3, <3>1 DEF LocalSound, ProgressSound, Preparing, Settled
    <3>4. LogSound(r)'
      BY <2>1, <2>3, <3>1 DEF LocalSound, LogSound, Preparing
    <3>. QED BY <3>2, <3>3, <3>4 DEF LocalSound
  <2>. QED BY <2>2, <2>3
<1>13. CASE SaveFails(r) \/ SaveCut(r) \/ StepFails(r) \/ Kill(r)
  <2>1. UNCHANGED <<name, applyErr, failed, out, saved, meta, applied, posted>>
    BY <1>13 DEF SaveFails, SaveCut, StepFails, Kill, history
  <2>2. End(r, "error") \/ End(r, "killed")
    BY <1>13 DEF SaveFails, SaveCut, StepFails, Kill
  <2>. QED BY <2>1, <2>2, EndLocal
<1>14. CASE RunReturns(r)
  <2>1. /\ pc[r] = "write" /\ next[r] > Len(Kinds) /\ End(r, "ok")
        /\ UNCHANGED <<name, applyErr, failed, out, saved, meta, applied, posted>>
    BY <1>14 DEF RunReturns, history
  <2>2. saved[r] = {Kinds[i] : i \in 1..6} \cap out[r] /\ ~failed[r]
    BY <2>1, KindsFacts DEF LocalSound, ProgressSound, Settled, RunType, ProcessType
  <2>3. saved[r] = out[r]
    BY <2>2, KindsFacts DEF RunType, OutcomeType
  <2>. QED BY <2>1, <2>2, <2>3, EndLocal
<1>15. CASE RunHooks(r) \/ ProposalHook(r)
  <2>1. UNCHANGED <<pc, process, log, fresh, next, applyErr, failed, out, saved, meta, res, history>>
    BY <1>15 DEF RunHooks, ProposalHook
  <2>2. InputSound(r)'
    BY <2>1 DEF LocalSound, InputSound, Applied, Config, Proposes, process, history
  <2>3. ProgressSound(r)'
    BY <2>1 DEF LocalSound, ProgressSound, PostHooks, process, history
  <2>4. LogSound(r)'
    BY <2>1 DEF LocalSound, LogSound, OpsOf, process, history
  <2>. QED BY <2>2, <2>3, <2>4 DEF LocalSound
<1>16. CASE SaveMetadata(r)
  <2>1. /\ pc[r] = "metadata" /\ pc'[r] = "describe"
        /\ UNCHANGED <<process, log, fresh, next, applyErr, failed, out, saved, res, applied, posted>>
        /\ Proposes(r) => meta'[r] = resolvedInput(name[r], env[r], captured[r])
    BY <1>16
    DEF SaveMetadata, saveChangesetProposalMetadata, history, Go, RunType, ProcessType, OutcomeType
  <2>2. applied[r] = Config(r) /\ captured[r] = env[r] /\ saved[r] = {}
    BY <2>1 DEF LocalSound, InputSound, Applied, Settled, ProgressSound
  <2>3. Proposes(r) => meta'[r] = applied[r]
    BY <2>1, <2>2 DEF Config, resolvedInput, configProvider
  <2>4. InputSound(r)'
    BY <2>1, <2>2, <2>3 DEF LocalSound, InputSound, Applied, Config, Proposes, process, Working,
       Settled
  <2>5. ProgressSound(r)'
    BY <2>1 DEF LocalSound, ProgressSound, Preparing, Settled
  <2>6. LogSound(r)'
    BY <2>1 DEF LocalSound, LogSound, Preparing, process
  <2>. QED BY <2>4, <2>5, <2>6 DEF LocalSound
<1>17. CASE SaveChangesetOutput(r)
  <2>1. /\ pc[r] = "write" /\ next[r] <= Len(Kinds) /\ next'[r] = next[r] + 1
        /\ saved'[r] = saved[r] \cup ({Kinds[next[r]]} \cap out[r])
        /\ UNCHANGED <<pc, process, log, fresh, applyErr, failed, out, meta, res, applied, posted>>
    BY <1>17 DEF SaveChangesetOutput, history, RunType, ProcessType, OutcomeType
  <2>2. /\ next[r] \in 1..6 /\ saved[r] = {Kinds[i] : i \in 1..(next[r] - 1)} \cap out[r]
        /\ ~applyErr[r] /\ ~failed[r] /\ res[r] = "none"
    BY <2>1, KindsFacts DEF LocalSound, ProgressSound, Settled, RunType, ProcessType
  <2>3. saved'[r] = {Kinds[i] : i \in 1..(next'[r] - 1)} \cap out[r]
    <3>1. 1..(next'[r] - 1) = 1..(next[r] - 1) \cup {next[r]}
      BY <2>1, <2>2
    <3>2. {Kinds[i] : i \in 1..(next'[r] - 1)} = {Kinds[i] : i \in 1..(next[r] - 1)} \cup {Kinds[next[r]]}
      BY <3>1
    <3>. QED BY <2>1, <2>2, <3>2
  <2>4. InputSound(r)'
    BY <2>1, <2>2 DEF LocalSound, InputSound, Applied, Config, Proposes, process, Working, Settled
  <2>5. ProgressSound(r)'
    BY <2>1, <2>2, <2>3, KindsFacts DEF LocalSound, ProgressSound, Preparing, Settled
  <2>6. LogSound(r)'
    BY <2>1 DEF LocalSound, LogSound, Preparing, process
  <2>. QED BY <2>4, <2>5, <2>6 DEF LocalSound
<1>. QED
  BY <1>1, <1>2, <1>3, <1>4, <1>5, <1>7, <1>8, <1>9, <1>10, <1>11, <1>12, <1>13, <1>14, <1>15,
     <1>16, <1>17, <1>18
  DEF RunStep

-----------------------------------------------------------------------------
(* The reports file.                                                       *)

\* What is on disk keeps its type.
LEMMA DiskStep ==
  ASSUME DiskType, RunType, NEW r \in Runs, LocalSound(r), RunStep(r)
  PROVE  DiskType'
<1>1. CASE Executed(r) /\ Operation(r) \notin log[r]
  <2>1. /\ pc[r] = "apply" /\ OpsLeft(r) /\ UNCHANGED <<yaml, reports, damaged, lost>>
        /\ count' = [count EXCEPT ![name[r]][Operation(r)] = @ + 1]
    BY <1>1 DEF Executed, ExecuteOperation, disk, history
  <2>2. name[r] \in Names /\ Operation(r) \in EffectsOf(name[r])
    BY <2>1, OperationType DEF LocalSound, InputSound, Applied, Working, RunType, ProcessType
  <2>. DEFINE ofRun == [count[name[r]] EXCEPT ![Operation(r)] = count[name[r]][Operation(r)] + 1]
  <2>3. ofRun \in [EffectsOf(name[r]) -> Nat]
    BY <2>2 DEF DiskType
  <2>4. count' = [count EXCEPT ![name[r]] = ofRun]
    BY <2>1, <2>2, Zenon DEF DiskType
  <2>. HIDE DEF ofRun
  <2>5. /\ count' \in [Names -> UNION {[EffectsOf(n) -> Nat] : n \in Names}]
        /\ \A n \in Names : count'[n] \in [EffectsOf(n) -> Nat]
    <3>1. ofRun \in UNION {[EffectsOf(n) -> Nat] : n \in Names}
      BY <2>2, <2>3
    <3>. QED BY <2>2, <2>3, <2>4, <3>1 DEF DiskType
  <2>. QED BY <2>1, <2>5 DEF DiskType
<1>2. CASE Saved(r)
  <2>1. UNCHANGED <<yaml, damaged, lost, count>> /\ pc[r] = "save"
        /\ reports' \in {reports, [reports EXCEPT ![name[r]] = log[r]]}
    BY <1>2 DEF Saved, SaveReports, history
  <2>2. name[r] \in Names /\ log[r] \subseteq EffectsOf(name[r]) /\ log[r] \in SUBSET Effects
    BY <2>1 DEF LocalSound, InputSound, LogSound, Working, RunType, ProcessType
  <2>. QED BY <2>1, <2>2 DEF DiskType
<1>3. CASE SaveFails(r) \/ Kill(r)
  <2>1. UNCHANGED <<yaml, reports, damaged, count>> /\ Lose(r)
    BY <1>3 DEF SaveFails, Kill, disk
  <2>2. Unsaved(r) \subseteq Effects
    BY DEF Unsaved, RunType, ProcessType
  <2>3. lost' \in [Names -> SUBSET Effects]
    BY <2>1, <2>2 DEF Lose, DiskType
  <2>. QED BY <2>1, <2>3 DEF DiskType
<1>4. CASE SaveCut(r)
  <2>1. name[r] \in Names
    BY <1>4 DEF SaveCut, LocalSound, InputSound, Working
  <2>. QED BY <1>4, <2>1 DEF SaveCut, history, DiskType
<1>5. CASE UNCHANGED <<yaml, disk, count, lost>>
  BY <1>5 DEF DiskType, disk
<1>6. CASE Start(r) \/ LoadChangesets(r) \/ ConfigureEnvironmentOptions(r) \/ LoadOperationsReports(r)
           \/ LoadEnvironment(r) \/ Unresolved(r) \/ PreHook(r) \/ ChangesetReturns(r)
           \/ PostHooksUnread(r) \/ PostHook(r)
  BY <1>5, <1>6
  DEF Start, LoadChangesets, ConfigureEnvironmentOptions, LoadOperationsReports, LoadEnvironment,
      Unresolved, Unhooked, PostHooksUnread, PreHook, ChangesetReturns, PostHook, history
<1>7. CASE CorrectDelay(r) \/ SaveMetadata(r) \/ Describe(r) \/ CreateDirs(r) \/ SaveChangesetOutput(r)
           \/ RunReturns(r) \/ StepFails(r) \/ RunHooks(r) \/ ProposalHook(r)
  BY <1>5, <1>7
  DEF CorrectDelay, SaveMetadata, Describe, CreateDirs, SaveChangesetOutput, RunReturns, StepFails,
      RunHooks, ProposalHook, history
<1>8. CASE Executed(r) /\ Operation(r) \in log[r]
  BY <1>5, <1>8 DEF Executed, ExecuteOperation, history
<1>. QED BY <1>1, <1>2, <1>3, <1>4, <1>6, <1>7, <1>8 DEF RunStep

\* A step after which the same runs work on the file, with the same logs.
LEMMA KnownSame ==
  ASSUME NEW n \in Names, KnownSound(n), UNCHANGED <<reports, lost, count, damaged, overlapped>>,
         \A q \in Runs : /\ At(q, n)' <=> At(q, n)
                         /\ At(q, n) => log'[q] = log[q] /\ (fresh[q] => fresh'[q])
  PROVE  KnownSound(n)'
<1>. SUFFICES ASSUME n \notin overlapped PROVE KnownSound(n)'
  BY DEF KnownSound
<1>1. \A q, r \in Runs : At(q, n)' /\ At(r, n)' => q = r
  BY DEF KnownSound
<1>2. \A r \in Runs : At(r, n)' =>
        n \notin damaged' /\ reports'[n] \subseteq log'[r] /\ (~fresh'[r] => log'[r] \subseteq reports'[n])
  BY DEF KnownSound
<1>3. \A x \in EffectsOf(n) : count'[n][x] > 0 =>
        x \in lost'[n] \cup reports'[n] \/ n \in damaged' \/ \E r \in Runs : At(r, n)' /\ x \in log'[r]
  BY DEF KnownSound
<1>. QED BY <1>1, <1>2, <1>3 DEF KnownSound

\* A step that takes a run away from the file: all that its log says is accounted for.
LEMMA KnownLeft ==
  ASSUME NEW n \in Names, NEW r \in Runs, KnownSound(n), Kept(r), ~At(r, n)',
         UNCHANGED <<count, overlapped>>, damaged \subseteq damaged',
         n \notin overlapped /\ At(r, n) =>
           reports[n] \cup log[r] \cup lost[n] \subseteq reports'[n] \cup lost'[n] \/ n \in damaged',
         n \notin overlapped /\ At(r, n) => lost[n] \subseteq lost'[n],
         ~At(r, n) => reports'[n] = reports[n] /\ lost'[n] = lost[n] /\ (n \in damaged' => n \in damaged)
  PROVE  KnownSound(n)'
<1>. SUFFICES ASSUME n \notin overlapped PROVE KnownSound(n)'
  BY DEF KnownSound
<1>1. \A q \in Runs \ {r} : (At(q, n)' <=> At(q, n)) /\ log'[q] = log[q] /\ fresh'[q] = fresh[q]
  BY DEF At, Kept, ProcessKept
<1>2. CASE ~At(r, n)
  <2>1. \A q \in Runs : (At(q, n)' <=> At(q, n)) /\ (At(q, n) => log'[q] = log[q] /\ fresh'[q] = fresh[q])
    BY <1>1, <1>2
  <2>2. \A x \in EffectsOf(n) : count'[n][x] > 0 =>
          x \in lost'[n] \cup reports'[n] \/ n \in damaged' \/ \E q \in Runs : At(q, n)' /\ x \in log'[q]
    BY <1>2, <2>1 DEF KnownSound
  <2>. QED BY <1>2, <2>1, <2>2 DEF KnownSound
<1>3. CASE At(r, n)
  <2>1. \A q \in Runs : ~At(q, n)'
    BY <1>1, <1>3 DEF KnownSound
  <2>2. \A x \in EffectsOf(n) : count'[n][x] > 0 => x \in lost'[n] \cup reports'[n] \/ n \in damaged'
    BY <1>3 DEF KnownSound
  <2>3. \A x \in EffectsOf(n) : count'[n][x] > 1 => x \in lost'[n]
    BY <1>3 DEF KnownSound
  <2>. QED BY <2>1, <2>2, <2>3 DEF KnownSound
<1>. QED BY <1>2, <1>3

\* Every step keeps account of what has taken effect.
LEMMA KnownStep ==
  ASSUME DiskType, RunType, NEW r \in Runs, LocalSound(r), RunStep(r), NEW n \in Names, KnownSound(n)
  PROVE  KnownSound(n)'
<1>0. RunType' /\ Kept(r)
  BY RunTypeStep
<1>1. \A q \in Runs \ {r} : (At(q, n)' <=> At(q, n)) /\ log'[q] = log[q] /\ fresh'[q] = fresh[q]
  BY <1>0 DEF At, Kept, ProcessKept
<1>2. ASSUME UNCHANGED <<reports, lost, count, damaged, overlapped>>, At(r, n)' <=> At(r, n),
             At(r, n) => log'[r] = log[r] /\ (fresh[r] => fresh'[r])
      PROVE  KnownSound(n)'
  <2>1. \A q \in Runs : /\ At(q, n)' <=> At(q, n)
                        /\ At(q, n) => log'[q] = log[q] /\ (fresh[q] => fresh'[q])
    BY <1>1, <1>2
  <2>. QED BY <1>2, <2>1, KnownSame
<1>3. CASE Start(r) \/ LoadChangesets(r) \/ ConfigureEnvironmentOptions(r)
  <2>1. pc[r] \notin Working /\ pc'[r] \notin Working
    BY <1>3
    DEF Start, PrepareInputForRunByName, PrepareInputForRunByIndex, PrepareInputForRunAuto,
        SetChangesetEnvironmentVariable, LoadChangesets, ConfigureEnvironmentOptions, Go, Working,
        RunType, ProcessType
  <2>2. UNCHANGED <<reports, lost, count, damaged, overlapped>>
    BY <1>3 DEF Start, LoadChangesets, ConfigureEnvironmentOptions, history, disk
  <2>. QED BY <1>2, <2>1, <2>2 DEF At
<1>4. CASE CorrectDelay(r) \/ SaveMetadata(r) \/ Describe(r) \/ CreateDirs(r)
  <2>1. pc[r] \notin Working /\ pc'[r] \notin Working
    BY <1>4 DEF CorrectDelay, SaveMetadata, Describe, CreateDirs, Go, Working, RunType, ProcessType
  <2>2. UNCHANGED <<reports, lost, count, damaged, overlapped>>
    BY <1>4 DEF CorrectDelay, SaveMetadata, Describe, CreateDirs, history, disk
  <2>. QED BY <1>2, <2>1, <2>2 DEF At
<1>5. CASE SaveChangesetOutput(r) \/ RunHooks(r) \/ ProposalHook(r)
  <2>1. UNCHANGED <<pc, process, log, fresh, disk, count, history>>
    BY <1>5 DEF SaveChangesetOutput, RunHooks, ProposalHook
  <2>. QED BY <1>2, <2>1 DEF At, process, disk, history
<1>6. CASE LoadEnvironment(r) \/ Unresolved(r) \/ PreHook(r) \/ PostHooksUnread(r) \/ PostHook(r)
  <2>1. pc[r] \in Working /\ pc'[r] \in Working
    BY <1>6
    DEF LoadEnvironment, Unresolved, PostHooksUnread, Unhooked, PreHook, PostHook, ApplyFails, Go,
        Working, RunType, ProcessType
  <2>2. UNCHANGED <<process, log, fresh, disk, count, lost, overlapped>>
    BY <1>6
    DEF LoadEnvironment, Unresolved, PostHooksUnread, Unhooked, PreHook, PostHook, history
  <2>. QED BY <1>2, <2>1, <2>2 DEF At, process, disk
<1>7. CASE ChangesetReturns(r)
  <2>1. pc[r] \in Working /\ pc'[r] \in Working /\ (fresh[r] => fresh'[r])
    BY <1>7 DEF ChangesetReturns, Go, Working, RunType, ProcessType
  <2>2. UNCHANGED <<process, log, disk, count, lost, overlapped>>
    BY <1>7 DEF ChangesetReturns, history
  <2>. QED BY <1>2, <2>1, <2>2 DEF At, process, disk
<1>8. CASE LoadOperationsReports(r)
  <2>1. /\ pc[r] = "reports" /\ name[r] \notin damaged /\ pc'[r] = "environment"
        /\ log'[r] = reports[name[r]] /\ UNCHANGED <<name, reports, damaged, count, lost>>
        /\ overlapped' = overlapped \cup
             {name[q] : q \in {q \in Runs \ {r} : name[q] = name[r] /\ pc[q] \in Working}}
    BY <1>8 DEF LoadOperationsReports, Go, disk, process, RunType, ProcessType
  <2>. SUFFICES ASSUME n \notin overlapped' PROVE KnownSound(n)'
    BY DEF KnownSound
  <2>2. n \notin overlapped /\ ~At(r, n) /\ (At(r, n)' <=> name[r] = n)
    BY <2>1 DEF At, Working
  <2>3. CASE name[r] # n
    <3>1. \A q \in Runs : (At(q, n)' <=> At(q, n)) /\ (At(q, n) => log'[q] = log[q] /\ fresh'[q] = fresh[q])
      BY <1>1, <2>2, <2>3
    <3>2. \A x \in EffectsOf(n) : count'[n][x] > 0 =>
            x \in lost'[n] \cup reports'[n] \/ n \in damaged' \/ \E q \in Runs : At(q, n)' /\ x \in log'[q]
      BY <2>1, <2>2, <3>1 DEF KnownSound
    <3>. QED BY <2>1, <2>2, <3>1, <3>2 DEF KnownSound
  <2>4. CASE name[r] = n
    <3>1. \A q \in Runs \ {r} : ~At(q, n)
      BY <2>1, <2>4 DEF At
    <3>2. \A q \in Runs \ {r} : ~At(q, n)'
      BY <1>1, <3>1
    <3>3. \A x \in EffectsOf(n) : count'[n][x] > 0 => x \in lost'[n] \cup reports'[n] \/ n \in damaged'
      BY <2>1, <2>2, <3>1 DEF KnownSound
    <3>4. \A x \in EffectsOf(n) : count'[n][x] > 1 => x \in lost'[n]
      BY <2>1, <2>2 DEF KnownSound
    <3>. QED BY <2>1, <2>4, <3>2, <3>3, <3>4 DEF KnownSound
  <2>. QED BY <2>3, <2>4
<1>9. CASE Executed(r) /\ Operation(r) \in log[r]
  <2>1. UNCHANGED <<pc, process, log, fresh, disk, count, history>>
    BY <1>9 DEF Executed, ExecuteOperation
  <2>. QED BY <1>2, <2>1 DEF At, process, disk, history
<1>10. CASE Executed(r) /\ Operation(r) \notin log[r]
  <2>1. /\ pc[r] = "apply" /\ OpsLeft(r) /\ UNCHANGED <<pc, name, reports, damaged, lost, overlapped>>
        /\ count' = [count EXCEPT ![name[r]][Operation(r)] = @ + 1]
        /\ log'[r] = log[r] \cup {Operation(r)} /\ fresh'[r]
    BY <1>10 DEF Executed, ExecuteOperation, disk, process, history, RunType, ProcessType
  <2>2. name[r] \in Names /\ Operation(r) \in EffectsOf(name[r])
    BY <2>1, OperationType DEF LocalSound, InputSound, Applied, Working, RunType, ProcessType
  <2>3. At(r, n)' <=> At(r, n)
    BY <2>1 DEF At
  <2>4. CASE name[r] # n
    <3>1. count'[n] = count[n] /\ ~At(r, n)
      BY <2>1, <2>2, <2>4 DEF DiskType, At
    <3>2. \A q \in Runs : (At(q, n)' <=> At(q, n)) /\ (At(q, n) => log'[q] = log[q] /\ fresh'[q] = fresh[q])
      BY <1>1, <2>3, <3>1
    <3>. SUFFICES ASSUME n \notin overlapped PROVE KnownSound(n)'
      BY <2>1 DEF KnownSound
    <3>3. \A x \in EffectsOf(n) : count'[n][x] > 0 =>
            x \in lost'[n] \cup reports'[n] \/ n \in damaged' \/ \E q \in Runs : At(q, n)' /\ x \in log'[q]
      BY <2>1, <3>1, <3>2 DEF KnownSound
    <3>. QED BY <2>1, <3>1, <3>2, <3>3 DEF KnownSound
  <2>5. CASE name[r] = n
    <3>. SUFFICES ASSUME n \notin overlapped PROVE KnownSound(n)'
      BY <2>1 DEF KnownSound
    <3>1. At(r, n) /\ \A q \in Runs : At(q, n) => q = r
      BY <2>1, <2>5 DEF At, Working, KnownSound
    <3>2. \A q \in Runs : At(q, n)' => q = r
      BY <1>1, <3>1
    <3>3. /\ \A x \in EffectsOf(n) : x # Operation(r) => count'[n][x] = count[n][x]
          /\ count'[n][Operation(r)] = count[n][Operation(r)] + 1
      BY <2>1, <2>2, <2>5 DEF DiskType
    <3>4. count[n][Operation(r)] \in Nat
      BY <2>2, <2>5 DEF DiskType
    <3>5. count[n][Operation(r)] > 0 => Operation(r) \in lost[n]
      BY <1>10, <2>2, <2>5, <3>1 DEF KnownSound
    <3>6. \A x \in EffectsOf(n) : count'[n][x] > 1 => x \in lost'[n]
      BY <2>1, <3>3, <3>4, <3>5 DEF KnownSound
    <3>7. \A x \in EffectsOf(n) : count'[n][x] > 0 => x \in lost'[n] \cup reports'[n] \/ x \in log'[r]
      BY <2>1, <3>1, <3>3 DEF KnownSound
    <3>. QED BY <2>1, <2>3, <3>1, <3>2, <3>6, <3>7 DEF KnownSound
  <2>. QED BY <2>4, <2>5
<1>11. ASSUME pc'[r] \notin Working, UNCHANGED <<count, overlapped>>, damaged \subseteq damaged',
              n \notin overlapped /\ At(r, n) =>
                reports[n] \cup log[r] \cup lost[n] \subseteq reports'[n] \cup lost'[n] \/ n \in damaged',
              n \notin overlapped /\ At(r, n) => lost[n] \subseteq lost'[n],
              ~At(r, n) => reports'[n] = reports[n] /\ lost'[n] = lost[n] /\ (n \in damaged' => n \in damaged)
       PROVE  KnownSound(n)'
  BY <1>0, <1>11, KnownLeft DEF At
<1>12. CASE Saved(r)
  <2>1. /\ pc[r] = "save" /\ SaveReports(r) /\ UNCHANGED <<damaged, count, lost, overlapped>>
        /\ pc'[r] \notin Working
    BY <1>12 DEF Saved, End, Go, history, RunType, ProcessType, Working
  <2>2. ~At(r, n) => reports'[n] = reports[n]
    BY <2>1 DEF At, Working, SaveReports, DiskType
  <2>3. ASSUME n \notin overlapped, At(r, n)
        PROVE  reports[n] \cup log[r] \subseteq reports'[n]
    BY <2>1, <2>3 DEF At, KnownSound, SaveReports, DiskType
  <2>. QED BY <1>11, <2>1, <2>2, <2>3
<1>13. ASSUME End(r, "ok") \/ End(r, "error") \/ End(r, "killed") PROVE pc'[r] \notin Working
  BY <1>13 DEF End, Go, RunType, ProcessType, Working
<1>14. CASE SaveFails(r) \/ Kill(r)
  <2>1. Lose(r) /\ UNCHANGED <<reports, damaged, count, overlapped>> /\ pc'[r] \notin Working
    BY <1>13, <1>14 DEF SaveFails, Kill, disk
  <2>2. At(r, n) => lost'[n] = lost[n] \cup Unsaved(r)
    BY <2>1 DEF Lose, At
  <2>3. ~At(r, n) => lost'[n] = lost[n]
    BY <2>1 DEF Lose, At, Unsaved, DiskType
  <2>4. ASSUME n \notin overlapped, At(r, n)
        PROVE  log[r] \subseteq reports[n] \cup Unsaved(r)
    BY <2>4 DEF At, KnownSound, Unsaved
  <2>. QED BY <1>11, <2>1, <2>2, <2>3, <2>4
<1>15. CASE SaveCut(r)
  <2>1. /\ damaged' = damaged \cup {name[r]} /\ UNCHANGED <<reports, count, lost, overlapped>>
        /\ pc'[r] \notin Working /\ pc[r] \in Working
    BY <1>13, <1>15 DEF SaveCut, history, Working
  <2>. QED BY <1>11, <2>1 DEF At
<1>16. CASE StepFails(r) \/ RunReturns(r)
  <2>1. /\ UNCHANGED <<reports, damaged, count, lost, overlapped>> /\ pc'[r] \notin Working
        /\ pc[r] \in Working => pc[r] = "environment"
    BY <1>13, <1>16 DEF StepFails, RunReturns, disk, history, Working
  <2>2. ASSUME n \notin overlapped, At(r, n)
        PROVE  log[r] \subseteq reports[n]
    BY <2>1, <2>2 DEF At, KnownSound, LocalSound, LogSound
  <2>. QED BY <1>11, <2>1, <2>2
<1>. QED
  BY <1>3, <1>4, <1>5, <1>6, <1>7, <1>8, <1>9, <1>10, <1>12, <1>14, <1>15, <1>16 DEF RunStep

\* No report is dropped from the file, unless two runs overlapped.
LEMMA ReportsGrow ==
  ASSUME DiskType, RunType, NEW r \in Runs, LocalSound(r), RunStep(r), NEW n \in Names, KnownSound(n)
  PROVE  overlapped \subseteq overlapped' /\ (n \in overlapped \/ reports[n] \subseteq reports'[n])
<1>1. CASE Saved(r)
  <2>1. pc[r] = "save" /\ SaveReports(r) /\ UNCHANGED overlapped /\ name[r] \in Names
    BY <1>1 DEF Saved, history, LocalSound, InputSound, Working
  <2>. QED BY <2>1 DEF KnownSound, At, SaveReports, DiskType, Working
<1>2. CASE ~Saved(r)
  BY <1>2
  DEF RunStep, Start, LoadChangesets, ConfigureEnvironmentOptions, LoadOperationsReports,
      LoadEnvironment, Unresolved, PostHooksUnread, Unhooked, PreHook, Executed,
      ChangesetReturns, PostHook, SaveFails, SaveCut, CorrectDelay, SaveMetadata, Describe, CreateDirs, SaveChangesetOutput, RunReturns, StepFails,
      Kill, RunHooks, ProposalHook, disk, history
<1>. QED BY <1>1, <1>2

\* What is saved is recorded before.
LEMMA RecordStep ==
  ASSUME IInv, NEW r \in Runs, RunStep(r), NEW q \in Runs
  PROVE  RecordSound(q)'
<1>0. /\ DiskType /\ RunType /\ RunType' /\ Kept(r) /\ LocalSound(r) /\ LocalSound(r)' /\ RecordSound(q)
      /\ \A n \in Names : overlapped \subseteq overlapped' /\ (n \in overlapped \/ reports[n] \subseteq reports'[n])
  BY RunTypeStep, LocalStep, ReportsGrow DEF IInv
<1>1. ASSUME name'[q] = name[q], applied'[q] = applied[q],
             pc'[q] \in Settled \/ saved'[q] # {} => pc[q] \in Settled \/ saved[q] # {}
      PROVE  RecordSound(q)'
  BY <1>0, <1>1 DEF RecordSound, OpsOf
<1>2. CASE q # r
  BY <1>0, <1>1, <1>2 DEF Kept, ProcessKept, OutcomeKept
<1>3. CASE q = r /\ pc'[r] \notin Settled \cup {"done"}
  BY <1>0, <1>3 DEF RecordSound, LocalSound, ProgressSound, Settled
<1>4. CASE q = r /\ Saved(r) /\ ~failed[r]
  <2>1. /\ pc[r] = "save" /\ SaveReports(r) /\ UNCHANGED <<name, applied, overlapped>>
    BY <1>4 DEF Saved, history
  <2>2. name[r] \in Names /\ OpsOf(r) \subseteq log[r] /\ OpsOf(r)' = OpsOf(r)
    BY <1>0, <1>4, <2>1 DEF LocalSound, InputSound, LogSound, Working, OpsOf
  <2>3. name[r] \in overlapped \/ log[r] \subseteq reports'[name[r]]
    <3>1. name[r] \in overlapped \/ (~fresh[r] => log[r] \subseteq reports[name[r]])
      BY <2>1, <2>2 DEF IInv, KnownSound, At, Working
    <3>. QED BY <1>0, <2>1, <2>2, <3>1 DEF SaveReports, DiskType
  <2>. QED BY <1>4, <2>1, <2>2, <2>3 DEF RecordSound
<1>5. CASE q = r /\ Saved(r) /\ failed[r]
  <2>1. pc'[r] = "done" /\ UNCHANGED <<name, applied, saved>>
    BY <1>0, <1>5 DEF Saved, End, Go, history, RunType, ProcessType
  <2>. QED BY <1>1, <1>5, <2>1 DEF Settled
<1>6. CASE q = r /\ (SaveFails(r) \/ SaveCut(r) \/ RunReturns(r) \/ StepFails(r) \/ Kill(r))
  <2>1. pc'[r] = "done" /\ UNCHANGED <<name, applied, saved>>
    BY <1>0, <1>6
    DEF SaveFails, SaveCut, RunReturns, StepFails, Kill, End, Go, history, RunType, ProcessType
  <2>. QED BY <1>1, <1>6, <2>1 DEF Settled
<1>7. CASE q = r /\ (CorrectDelay(r) \/ SaveMetadata(r) \/ Describe(r) \/ CreateDirs(r)
                       \/ SaveChangesetOutput(r))
  <2>1. pc[r] \in Settled /\ UNCHANGED <<name, applied>>
    BY <1>7
    DEF CorrectDelay, SaveMetadata, Describe, CreateDirs, SaveChangesetOutput, process, history,
    Settled
  <2>. QED BY <1>1, <1>7, <2>1
<1>8. CASE q = r /\ (RunHooks(r) \/ ProposalHook(r))
  <2>1. UNCHANGED <<pc, name, applied, saved>>
    BY <1>8 DEF RunHooks, ProposalHook, process, history
  <2>. QED BY <1>1, <1>8, <2>1
<1>9. ASSUME Start(r) \/ LoadChangesets(r) \/ ConfigureEnvironmentOptions(r)
             \/ LoadOperationsReports(r) \/ LoadEnvironment(r)
             \/ Unresolved(r) \/ PreHook(r) \/ Executed(r) \/ ChangesetReturns(r)
             \/ PostHooksUnread(r) \/ PostHook(r)
      PROVE  pc'[r] \notin Settled \cup {"done"}
  BY <1>0, <1>9
  DEF Start, PrepareInputForRunByName, PrepareInputForRunByIndex, PrepareInputForRunAuto,
      SetChangesetEnvironmentVariable, LoadChangesets, ConfigureEnvironmentOptions,
      LoadOperationsReports, LoadEnvironment, Unresolved, PostHooksUnread, Unhooked, PreHook,
      Executed, ExecuteOperation,
      ChangesetReturns, PostHook, ApplyFails, Go, RunType, ProcessType, Settled
<1>. QED BY <1>2, <1>3, <1>4, <1>5, <1>6, <1>7, <1>8, <1>9 DEF RunStep

-----------------------------------------------------------------------------
(* The theorems.                                                           *)

\* The invariant holds at the start.
LEMMA InitIInv == Init => IInv
<1>. SUFFICES ASSUME Init PROVE IInv
  OBVIOUS
<1>1. DiskType
  <2>1. \A n \in Names : count[n] = [x \in EffectsOf(n) |-> 0]
    BY DEF Init
  <2>2. ASSUME NEW n \in Names PROVE count[n] \in [EffectsOf(n) -> Nat]
    <3>1. [x \in EffectsOf(n) |-> 0] \in [EffectsOf(n) -> Nat]
      OBVIOUS
    <3>. QED BY <2>1, <3>1
  <2>3. count \in [Names -> UNION {[EffectsOf(n) -> Nat] : n \in Names}]
    BY <2>2 DEF Init
  <2>. QED BY <2>2, <2>3 DEF Init, DiskType
<1>2. RunType
  <2>1. ProcessType
    <3>1. pc \in [Runs -> States] /\ res \in [Runs -> {"none", "ok", "error", "killed"}]
      BY DEF Init, States
    <3>2. /\ name \in [Runs -> Names \cup {None} \cup UNION {NamesIn(y) : y \in YAMLs}]
          /\ env \in [Runs -> Inputs \cup {None}] /\ captured \in [Runs -> Inputs \cup {None}]
      BY DEF Init
    <3>3. /\ log \in [Runs -> SUBSET Effects] /\ fresh \in [Runs -> BOOLEAN]
          /\ next \in [Runs -> Nat \ {0}]
      BY DEF Init
    <3>. QED BY <3>1, <3>2, <3>3 DEF ProcessType
  <2>2. OutcomeType
    BY DEF Init, OutcomeType
  <2>. QED BY <2>1, <2>2 DEF RunType
<1>3. ASSUME NEW r \in Runs PROVE LocalSound(r) /\ RecordSound(r)
  BY DEF Init, LocalSound, InputSound, ProgressSound, LogSound, RecordSound, Applied, Working,
     Settled, Preparing
<1>4. ASSUME NEW n \in Names PROVE KnownSound(n)
  <2>1. \A x \in EffectsOf(n) : count[n][x] = 0
    BY DEF Init
  <2>. QED BY <2>1 DEF Init, KnownSound, At, Working
<1>. QED BY <1>1, <1>2, <1>3, <1>4 DEF IInv

\* The invariant is inductive.
LEMMA IInvStep == IInv /\ [Next]_vars => IInv'
<1>. SUFFICES ASSUME IInv, [Next]_vars PROVE IInv'
  OBVIOUS
<1>1. ASSUME NEW r \in Runs, RunStep(r) PROVE IInv'
  <2>1. DiskType' /\ RunType' /\ Kept(r) /\ LocalSound(r)'
    BY <1>1, DiskStep, RunTypeStep, LocalStep DEF IInv
  <2>2. \A q \in Runs : LocalSound(q)'
    BY <2>1, OthersLocal DEF IInv
  <2>3. \A q \in Runs : RecordSound(q)'
    BY <1>1, RecordStep
  <2>4. \A n \in Names : KnownSound(n)'
    BY <1>1, KnownStep DEF IInv
  <2>. QED BY <2>1, <2>2, <2>3, <2>4 DEF IInv
<1>2. ASSUME yaml' \in YAMLs, disk' = disk,
             UNCHANGED <<count, pc, process, log, fresh, next, applyErr, failed, out, saved, meta,
             res, history>>
      PROVE  IInv'
  <2>1. DiskType'
    BY <1>2 DEF IInv, DiskType, disk, history
  <2>2. RunType'
    BY <1>2 DEF IInv, RunType, ProcessType, OutcomeType, process, history
  <2>3. ASSUME NEW r \in Runs PROVE LocalSound(r)' /\ RecordSound(r)'
    <3>1. InputSound(r)'
      BY <1>2 DEF IInv, LocalSound, InputSound, Applied, Config, Proposes, process, history
    <3>2. ProgressSound(r)'
      BY <1>2 DEF IInv, LocalSound, ProgressSound, PostHooks, process, history
    <3>3. LogSound(r)'
      BY <1>2 DEF IInv, LocalSound, LogSound, OpsOf, process, history
    <3>4. RecordSound(r)'
      BY <1>2 DEF IInv, RecordSound, OpsOf, process, history, disk
    <3>. QED BY <3>1, <3>2, <3>3, <3>4 DEF LocalSound
  <2>4. ASSUME NEW n \in Names PROVE KnownSound(n)'
    BY <1>2 DEF IInv, KnownSound, At, process, history, disk
  <2>. QED BY <2>1, <2>2, <2>3, <2>4 DEF IInv
<1>3. CASE EditInput
  BY <1>2, <1>3 DEF EditInput
<1>4. CASE UNCHANGED vars
  BY <1>2, <1>4 DEF vars, IInv, DiskType, disk, process, history
<1>5. CASE \E r \in Runs : RunStep(r)
  BY <1>1, <1>5
<1>. QED BY <1>3, <1>4, <1>5 DEF Next, RunStep

\* A rerun repeats nothing: an effect happens again only when its report was lost
\* with the process or the write that was to save it, or when two runs of its
\* changeset overlapped; for any registry, inputs, number of runs and failures
\* (SaveReports is called whatever registry.Apply returns).
THEOREM RerunRepeatsNothing == Spec => []RepeatedOnlyAfterLoss
<1>1. IInv => RepeatedOnlyAfterLoss
  BY DEF IInv, KnownSound, RepeatedOnlyAfterLoss, DiskType
<1>. QED BY <1>1, InitIInv, IInvStep, PTL DEF Spec

\* What a run leaves behind is sound wherever it fails or is killed: the artifacts on
\* disk are backed by the reports of the operations behind them, a run ends well
\* only with all its artifacts, a failed changeset leaves none, and the hooks of a
\* saved proposal are given the configuration that was applied.
THEOREM RunsLeaveSound == Spec => []RunSound
<1>1. ASSUME IInv PROVE TypeOK
  <2>1. \A n \in Names : reports[n] \subseteq DOMAIN count[n]
    BY <1>1 DEF IInv, DiskType
  <2>2. \A r \in Runs : log[r] # {} => log[r] \subseteq DOMAIN count[name[r]]
    BY <1>1 DEF IInv, LocalSound, LogSound, DiskType
  <2>3. \A r \in Runs : /\ (res[r] # "none") = (pc[r] = "done")
                        /\ (pc[r] = "write") => next[r] \in 1..(Len(Kinds) + 1)
    BY <1>1 DEF IInv, LocalSound, ProgressSound
  <2>. QED BY <1>1, <2>1, <2>2, <2>3 DEF IInv, DiskType, RunType, ProcessType, OutcomeType, TypeOK
<1>2. IInv => OutputRecorded
  BY DEF IInv, RecordSound, OutputRecorded, OpsOf
<1>3. IInv => ResultTold
  BY DEF IInv, LocalSound, ProgressSound, ResultTold
<1>4. IInv => HooksGivenApplied
  BY DEF IInv, LocalSound, InputSound, HooksGivenApplied
<1>5. IInv => RunSound
  BY <1>1, <1>2, <1>3, <1>4 DEF RunSound
<1>. QED BY <1>5, InitIInv, IInvStep, PTL DEF Spec
=============================================================================

------------------------------ MODULE Pipeline ------------------------------
(***************************************************************************)
(* `pipeline run`: one changeset of an input file is applied to an         *)
(* environment, between its hooks; the reports of the operations that it   *)
(* executed, and then its output, are saved; the hooks of its proposals    *)
(* are run later.  Every run is a process of its own, which may fail or be *)
(* killed at any step and be started again, also while another one runs;   *)
(* the input file may be edited in between.                                *)
(*                                                                         *)
(* An operation succeeds at most once per log of reports (Operations); an  *)
(* effect is named by the operation and the configuration it was given.    *)
(***************************************************************************)
EXTENDS Naturals, Sequences

CONSTANTS
  Runs,
  Registry,  \* entries of the ChangesetsRegistry
  Global,    \* the policies of its global hooks
  YAMLs,     \* contents of the input file
  Inputs,
  BadInputs, \* payloads that do not decode into the configuration
  Outputs,   \* the kinds of artifacts that changesets return
  None

Policies == {"abort", "warn"}

Names == DOMAIN Registry

\* The names in an input file, registered or not.
NamesIn(y) == UNION {DOMAIN y[i] : i \in DOMAIN y}

\* The artifacts of an output in the order in which they are written.
Kinds == <<"jobspecs", "jobs", "mcms_proposal", "mcms_timelock_proposal",
           "addresses", "datastore">>

KindSet == {Kinds[i] : i \in 1..Len(Kinds)}

ASSUME PipelineAssumption ==
  /\ \A n \in Names :
       /\ Registry[n].config \in Inputs \cup {None}  \* With(config), or WithEnvInput
       /\ Registry[n].ops \in Seq(STRING)
       /\ Registry[n].pre \in Seq(Policies) /\ Registry[n].post \in Seq(Policies)
       /\ Registry[n].proposal \in Seq(Policies)
  /\ Global.pre \in Seq(Policies) /\ Global.post \in Seq(Policies)
  /\ Global.proposal \in Seq(Policies)
  /\ \A y \in YAMLs :
       /\ Len(y) \in Nat /\ DOMAIN y = 1..Len(y)
       /\ \A i \in DOMAIN y : \A n \in DOMAIN y[i] : y[i][n] \in Inputs \cup {None}
  /\ BadInputs \subseteq Inputs /\ None \notin Inputs \cup Names
  /\ Outputs \subseteq SUBSET KindSet

VARIABLES
  yaml,       \* the input file: a sequence of objects, names to payloads
  reports,    \* the operations reports file of a changeset
  damaged,    \* changesets whose reports file no longer parses
  count,      \* how often an effect has happened
  \* the runs
  pc, name,
  env,        \* DURABLE_PIPELINE_INPUT
  captured,   \* its value when the registry was built
  log,        \* successful reports in the reporter
  fresh,      \* the reporter has more reports than were loaded
  next,       \* the hook, operation or artifact that comes next
  applyErr,   \* applyWithInput has failed
  failed,     \* registry.Apply returns an error
  out,        \* kinds of artifacts in the output
  saved,      \* kinds of artifacts on disk
  meta,       \* the configuration in the metadata of the saved proposals
  hooks,      \* the post-proposal hook that comes next, or 0
  res,        \* how the run ended
  \* history
  applied,    \* the configuration that Apply was given
  posted,     \* post-hooks that have run
  lost,       \* effects whose report was never saved
  overlapped  \* changesets of which two runs worked on the same reports

disk == <<reports, damaged>>
process == <<name, env, captured>>
history == <<applied, posted, lost, overlapped>>
vars == <<yaml, reports, damaged, count, pc, name, env, captured, log, fresh, next,
          applyErr, failed, out, saved, meta, hooks, res, applied, posted, lost,
          overlapped>>

States == {"idle", "load", "options", "reports", "environment", "pre", "apply", "post",
           "save", "delay", "metadata", "describe", "dirs", "write", "done"}

\* Between the load of the reports and the end of their save.
Working == {"environment", "pre", "apply", "post", "save"}

TypeOK ==
  /\ yaml \in YAMLs
  /\ \A n \in Names : reports[n] \subseteq DOMAIN count[n]
  /\ damaged \subseteq Names
  /\ pc \in [Runs -> States]
  /\ name \in [Runs -> Names \cup {None} \cup UNION {NamesIn(y) : y \in YAMLs}]
  /\ env \in [Runs -> Inputs \cup {None}] /\ captured \in [Runs -> Inputs \cup {None}]
  /\ \A r \in Runs : log[r] # {} => log[r] \subseteq DOMAIN count[name[r]]
  /\ fresh \in [Runs -> BOOLEAN]
  /\ applyErr \in [Runs -> BOOLEAN] /\ failed \in [Runs -> BOOLEAN]
  /\ out \in [Runs -> SUBSET KindSet] /\ saved \in [Runs -> SUBSET KindSet]
  /\ meta \in [Runs -> Inputs \cup {None}]
  /\ res \in [Runs -> {"none", "ok", "error", "killed"}]
  /\ \A r \in Runs : (res[r] # "none") = (pc[r] = "done")
  /\ \A r \in Runs : (pc[r] = "write") => next[r] \in 1..(Len(Kinds) + 1)

EffectsOf(n) ==
  {<<Registry[n].ops[i], c>> : i \in 1..Len(Registry[n].ops), c \in Inputs}

Init ==
  /\ yaml \in YAMLs
  /\ reports = [n \in Names |-> {}] /\ damaged = {}
  /\ count = [n \in Names |-> [x \in EffectsOf(n) |-> 0]]
  /\ pc = [r \in Runs |-> "idle"] /\ name = [r \in Runs |-> None]
  /\ env = [r \in Runs |-> None] /\ captured = [r \in Runs |-> None]
  /\ log = [r \in Runs |-> {}] /\ fresh = [r \in Runs |-> FALSE]
  /\ next = [r \in Runs |-> 1]
  /\ applyErr = [r \in Runs |-> FALSE] /\ failed = [r \in Runs |-> FALSE]
  /\ out = [r \in Runs |-> {}] /\ saved = [r \in Runs |-> {}]
  /\ meta = [r \in Runs |-> None] /\ hooks = [r \in Runs |-> 0]
  /\ res = [r \in Runs |-> "none"]
  /\ applied = [r \in Runs |-> None] /\ posted = [r \in Runs |-> 0]
  /\ lost = [n \in Names |-> {}] /\ overlapped = {}

Go(r, state) == pc' = [pc EXCEPT ![r] = state]

\* The process ends, and with it all that it has not saved.
End(r, result) ==
  /\ Go(r, "done")
  /\ res' = [res EXCEPT ![r] = result]
  /\ env' = [env EXCEPT ![r] = None]
  /\ captured' = [captured EXCEPT ![r] = None]
  /\ log' = [log EXCEPT ![r] = {}]
  /\ fresh' = [fresh EXCEPT ![r] = FALSE]
  /\ next' = [next EXCEPT ![r] = 1]

\* Effects of r that only its reporter knows of.
Unsaved(r) == IF pc[r] \in Working /\ fresh[r] THEN log[r] \ reports[name[r]] ELSE {}

Lose(r) ==
  lost' = [n \in Names |-> IF n = name[r] THEN lost[n] \cup Unsaved(r) ELSE lost[n]]

-----------------------------------------------------------------------------
\* The input file.

FindChangesetInData(n) ==
  LET at == {i \in DOMAIN yaml : n \in DOMAIN yaml[i]}
  IN  IF at = {} THEN None ELSE yaml[CHOOSE i \in at : \A j \in at : i <= j][n]

\* GetAllChangesetsInOrder refuses objects that have not exactly one key.
SingleKeyed == \A i \in DOMAIN yaml : \E n \in DOMAIN yaml[i] : DOMAIN yaml[i] = {n}

\* SetChangesetEnvironmentVariable; a changeset without payload is refused.
SetChangesetEnvironmentVariable(r, n, payload) ==
  /\ payload # None
  /\ env' = [env EXCEPT ![r] = payload]
  /\ name' = [name EXCEPT ![r] = n]
  /\ Go(r, "load")
  /\ UNCHANGED res

PrepareInputForRunByName(r) ==
  \E n \in NamesIn(yaml) : SetChangesetEnvironmentVariable(r, n, FindChangesetInData(n))

PrepareInputForRunByIndex(r) ==
  /\ SingleKeyed
  /\ \E i \in DOMAIN yaml : \E n \in DOMAIN yaml[i] :
       SetChangesetEnvironmentVariable(r, n, yaml[i][n])

PrepareInputForRunAuto(r) ==
  /\ SingleKeyed /\ Len(yaml) = 1
  /\ \E n \in DOMAIN yaml[1] : SetChangesetEnvironmentVariable(r, n, yaml[1][n])

\* resolveChangesetForRun, and a new directory for the artifacts.
Start(r) ==
  /\ pc[r] = "idle"
  /\ \/ PrepareInputForRunByName(r)
     \/ PrepareInputForRunByIndex(r)
     \/ PrepareInputForRunAuto(r)
  /\ UNCHANGED <<yaml, disk, count, captured, log, fresh, next, applyErr, failed, out,
                 saved, meta, hooks, history>>

EditInput ==
  /\ yaml' \in YAMLs \ {yaml}
  /\ UNCHANGED <<disk, count, pc, process, log, fresh, next, applyErr, failed, out,
                 saved, meta, hooks, res, history>>

-----------------------------------------------------------------------------
\* Preparation.

\* cfg.LoadChangesets builds the registry.
LoadChangesets(r) ==
  /\ pc[r] = "load"
  /\ captured' = [captured EXCEPT ![r] = env[r]]
  /\ Go(r, "options")
  /\ UNCHANGED <<yaml, disk, count, name, env, log, fresh, next, applyErr, failed, out,
                 saved, meta, hooks, res, history>>

\* The options and configurations of the changeset are looked up; its resolver must
\* be registered.
ConfigureEnvironmentOptions(r) ==
  /\ pc[r] = "options" /\ name[r] \in Names
  /\ Go(r, "reports")
  /\ UNCHANGED <<yaml, disk, count, process, log, fresh, next, applyErr, failed, out,
                 saved, meta, hooks, res, history>>

\* LoadOperationsReports; a file that does not parse is an error.
LoadOperationsReports(r) ==
  /\ pc[r] = "reports" /\ name[r] \notin damaged
  /\ log' = [log EXCEPT ![r] = reports[name[r]]]
  /\ Go(r, "environment")
  /\ overlapped' = overlapped \cup
       {name[q] : q \in {q \in Runs \ {r} : name[q] = name[r] /\ pc[q] \in Working}}
  /\ UNCHANGED <<yaml, disk, count, process, fresh, next, applyErr, failed, out, saved,
                 meta, hooks, res, applied, posted, lost>>

LoadEnvironment(r) ==
  /\ pc[r] = "environment"
  /\ Go(r, "pre")
  /\ next' = [next EXCEPT ![r] = 1]
  /\ UNCHANGED <<yaml, disk, count, process, log, fresh, applyErr, failed, out, saved,
                 meta, hooks, res, history>>

\* A step outside registry.Apply and SaveReports returns an error, which ends the run.
StepFails(r) ==
  /\ pc[r] \in {"load", "options", "reports", "environment", "delay", "metadata",
                "describe", "dirs", "write"}
  /\ End(r, "error")
  /\ UNCHANGED <<yaml, disk, count, name, applyErr, failed, out, saved, meta, hooks,
                 history>>

-----------------------------------------------------------------------------
\* registry.Apply.

\* With(config) keeps the configuration, WithEnvInput and WithConfigResolver what the
\* environment variable held when the registry was built.
configProvider(n, captive) ==
  IF Registry[n].config # None THEN Registry[n].config ELSE captive

\* An explicit input is taken first, by the changesets that read one.
resolvedInput(n, input, captive) ==
  IF input # None /\ Registry[n].config = None THEN input ELSE configProvider(n, captive)

\* parseTypedInput and decodePayload.
Decodes(config) == config \in Inputs \ BadInputs

Config(r) == resolvedInput(name[r], None, captured[r])

\* registry.Apply returns an error, and no output.
ApplyFails(r) ==
  /\ Go(r, "save")
  /\ failed' = [failed EXCEPT ![r] = TRUE]
  /\ out' = [out EXCEPT ![r] = {}]

\* Before the first hook, of either kind: the input does not decode, or the chains
\* have no read-only form.
Unhooked(r, state) ==
  /\ pc[r] = state /\ next[r] = 1
  /\ ApplyFails(r)
  /\ UNCHANGED <<yaml, disk, count, process, log, fresh, next, applyErr, saved, meta,
                 hooks, res, history>>

Unresolved(r) == Unhooked(r, "pre")

\* The error about the chains is returned instead of the changeset's, if it failed.
PostHooksUnread(r) == Unhooked(r, "post")

PreHooks(r) == Global.pre \o Registry[name[r]].pre

\* ExecuteHook: an error counts only under policy Abort.
Aborts(policy, ok) == ~ok /\ policy = "abort"

\* runPreHooks, one hook; after the last, the changeset is applied.
PreHook(r) ==
  /\ pc[r] = "pre" /\ Decodes(Config(r))
  /\ IF next[r] > Len(PreHooks(r))
     THEN /\ Go(r, "apply")
          /\ next' = [next EXCEPT ![r] = 1]
          /\ applied' = [applied EXCEPT ![r] = Config(r)]
          /\ UNCHANGED <<failed, out>>
     ELSE /\ \E ok \in BOOLEAN :
               IF Aborts(PreHooks(r)[next[r]], ok) THEN ApplyFails(r)
               ELSE UNCHANGED <<pc, failed, out>>
          /\ next' = [next EXCEPT ![r] = @ + 1]
          /\ UNCHANGED applied
  /\ UNCHANGED <<yaml, disk, count, process, log, fresh, applyErr, saved, meta, hooks,
                 res, posted, lost, overlapped>>

Operation(r) == <<Registry[name[r]].ops[next[r]], applied[r]>>

OpsLeft(r) == next[r] <= Len(Registry[name[r]].ops)

\* An operation that the changeset executes: its earlier success is reused, or
\* its handler takes effect and the success is reported.
ExecuteOperation(r) ==
  /\ pc[r] = "apply" /\ OpsLeft(r)
  /\ IF Operation(r) \in log[r] THEN UNCHANGED <<count, log, fresh>>
     ELSE /\ count' = [count EXCEPT ![name[r]][Operation(r)] = @ + 1]
          /\ log' = [log EXCEPT ![r] = @ \cup {Operation(r)}]
          /\ fresh' = [fresh EXCEPT ![r] = TRUE]
  /\ next' = [next EXCEPT ![r] = @ + 1]

Executed(r) ==
  /\ ExecuteOperation(r)
  /\ UNCHANGED <<yaml, disk, pc, process, applyErr, failed, out, saved, meta, hooks, res,
                 history>>

\* The changeset ends: with its output, or with an error of an operation, which has
\* been reported, or of its own (VerifyPreconditions, the post-processor).
ChangesetReturns(r) ==
  /\ pc[r] = "apply"
  /\ Go(r, "post")
  /\ next' = [next EXCEPT ![r] = 1]
  /\ \/ /\ ~OpsLeft(r)
        /\ \E kinds \in Outputs : out' = [out EXCEPT ![r] = kinds]
        /\ UNCHANGED <<applyErr, fresh>>
     \/ /\ applyErr' = [applyErr EXCEPT ![r] = TRUE]
        /\ \E reported \in BOOLEAN : fresh' = [fresh EXCEPT ![r] = @ \/ reported]
        /\ UNCHANGED out
  /\ UNCHANGED <<yaml, disk, count, process, log, failed, saved, meta, hooks, res, history>>

PostHooks(r) == Registry[name[r]].post \o Global.post

\* A post-hook that fails after a failed changeset is only logged.
PostHookStops(r, ok) == ~applyErr[r] /\ Aborts(PostHooks(r)[next[r]], ok)

\* runPostHooks, one hook; after the last, registry.Apply returns.
PostHook(r) ==
  /\ pc[r] = "post"
  /\ IF next[r] > Len(PostHooks(r))
     THEN /\ Go(r, "save")
          /\ failed' = [failed EXCEPT ![r] = applyErr[r]]
          /\ UNCHANGED <<next, out, posted>>
     ELSE /\ \E ok \in BOOLEAN : IF PostHookStops(r, ok) THEN ApplyFails(r)
                                 ELSE UNCHANGED <<pc, failed, out>>
          /\ next' = [next EXCEPT ![r] = @ + 1]
          /\ posted' = [posted EXCEPT ![r] = @ + 1]
  /\ UNCHANGED <<yaml, disk, count, process, log, fresh, applyErr, saved, meta, hooks, res,
                 applied, lost, overlapped>>

-----------------------------------------------------------------------------
\* What is left behind.

\* Mutants: only the new reports are saved; only those of a success.
SaveReportsNew(r) ==
  IF fresh[r] THEN reports' = [reports EXCEPT ![name[r]] = log[r] \ @] ELSE UNCHANGED reports

SaveReportsOnSuccess(r) ==
  IF fresh[r] /\ ~failed[r]
  THEN reports' = [reports EXCEPT ![name[r]] = log[r]] ELSE UNCHANGED reports

\* SaveReports writes the whole file when there are new reports, whatever Apply
\* returned.
SaveReports(r) ==
  IF fresh[r] THEN reports' = [reports EXCEPT ![name[r]] = log[r]] ELSE UNCHANGED reports

Saved(r) ==
  /\ pc[r] = "save"
  /\ SaveReports(r)
  /\ IF failed[r] THEN End(r, "error")
     ELSE Go(r, "delay") /\ UNCHANGED <<res, env, captured, log, fresh, next>>
  /\ UNCHANGED <<yaml, damaged, count, name, applyErr, failed, out, saved, meta, hooks,
                 history>>

\* The file cannot be written.
SaveFails(r) ==
  /\ pc[r] = "save" /\ fresh[r]
  /\ End(r, "error")
  /\ Lose(r)
  /\ UNCHANGED <<yaml, disk, count, name, applyErr, failed, out, saved, meta, hooks,
                 applied, posted, overlapped>>

\* The file is cut: the process is killed, or the disk fills up, inside os.WriteFile.
SaveCut(r) ==
  /\ pc[r] = "save" /\ fresh[r]
  /\ \E result \in {"error", "killed"} : End(r, result)
  /\ damaged' = damaged \cup {name[r]}
  /\ UNCHANGED <<yaml, reports, count, name, applyErr, failed, out, saved, meta, hooks,
                 history>>

Proposes(r) == "mcms_timelock_proposal" \in out[r]

\* The delay is raised to what the timelocks require; see timelockdelay.
CorrectDelay(r) ==
  /\ pc[r] = "delay"
  /\ Go(r, "metadata")
  /\ UNCHANGED <<yaml, disk, count, process, log, fresh, next, applyErr, failed, out,
                 saved, meta, hooks, res, history>>

\* Proposals name the changeset and its configuration, resolved once more from the
\* environment variable.
saveChangesetProposalMetadata(r) ==
  meta' = [meta EXCEPT ![r] = resolvedInput(name[r], env[r], captured[r])]

SaveMetadata(r) ==
  /\ pc[r] = "metadata"
  /\ IF Proposes(r) THEN saveChangesetProposalMetadata(r) ELSE UNCHANGED meta
  /\ Go(r, "describe")
  /\ UNCHANGED <<yaml, disk, count, process, log, fresh, next, applyErr, failed, out,
                 saved, hooks, res, history>>

\* A proposal that cannot be described is saved without its description.
Describe(r) ==
  /\ pc[r] = "describe"
  /\ Go(r, "dirs")
  /\ UNCHANGED <<yaml, disk, count, process, log, fresh, next, applyErr, failed, out,
                 saved, meta, hooks, res, history>>

\* The directories of the run and of the proposals.
CreateDirs(r) ==
  /\ pc[r] = "dirs"
  /\ Go(r, "write")
  /\ next' = [next EXCEPT ![r] = 1]
  /\ UNCHANGED <<yaml, disk, count, process, log, fresh, applyErr, failed, out, saved,
                 meta, hooks, res, history>>

\* SaveChangesetOutput, one artifact; files carry the time at which the run started.
SaveChangesetOutput(r) ==
  /\ pc[r] = "write" /\ next[r] <= Len(Kinds)
  /\ saved' = [saved EXCEPT ![r] = @ \cup ({Kinds[next[r]]} \cap out[r])]
  /\ next' = [next EXCEPT ![r] = @ + 1]
  /\ UNCHANGED <<yaml, disk, count, pc, process, log, fresh, applyErr, failed, out, meta,
                 hooks, res, history>>

RunReturns(r) ==
  /\ pc[r] = "write" /\ next[r] > Len(Kinds)
  /\ End(r, "ok")
  /\ UNCHANGED <<yaml, disk, count, name, applyErr, failed, out, saved, meta, hooks,
                 history>>

\* The process is killed between two steps.
Kill(r) ==
  /\ pc[r] \notin {"idle", "done"}
  /\ End(r, "killed")
  /\ Lose(r)
  /\ UNCHANGED <<yaml, disk, count, name, applyErr, failed, out, saved, meta, hooks,
                 applied, posted, overlapped>>

-----------------------------------------------------------------------------
ProposalHooks(r) == Registry[name[r]].proposal \o Global.proposal

\* `mcms hooks`, after the proposal was executed, and once more if it failed.
RunHooks(r) ==
  /\ "mcms_timelock_proposal" \in saved[r] /\ hooks[r] = 0
  /\ ProposalHooks(r) # <<>>
  /\ hooks' = [hooks EXCEPT ![r] = 1]
  /\ UNCHANGED <<yaml, disk, count, pc, process, log, fresh, next, applyErr, failed, out,
                 saved, meta, res, history>>

\* RunProposalHooks, one hook; one that aborts ends the command, and so does the last.
ProposalHook(r) ==
  /\ hooks[r] > 0
  /\ \E ok \in BOOLEAN :
       hooks' = [hooks EXCEPT ![r] =
         IF Aborts(ProposalHooks(r)[@], ok) \/ @ = Len(ProposalHooks(r)) THEN 0 ELSE @ + 1]
  /\ UNCHANGED <<yaml, disk, count, pc, process, log, fresh, next, applyErr, failed, out,
                 saved, meta, res, history>>

Next ==
  \/ EditInput
  \/ \E r \in Runs :
       \/ Start(r) \/ LoadChangesets(r) \/ ConfigureEnvironmentOptions(r)
       \/ LoadOperationsReports(r) \/ LoadEnvironment(r)
       \/ Unresolved(r) \/ PreHook(r) \/ Executed(r) \/ ChangesetReturns(r)
       \/ PostHooksUnread(r) \/ PostHook(r) \/ Saved(r) \/ SaveFails(r) \/ SaveCut(r)
       \/ CorrectDelay(r) \/ SaveMetadata(r) \/ Describe(r) \/ CreateDirs(r)
       \/ SaveChangesetOutput(r) \/ RunReturns(r)
       \/ StepFails(r) \/ Kill(r) \/ RunHooks(r) \/ ProposalHook(r)

Spec == Init /\ [][Next]_vars

-----------------------------------------------------------------------------
\* A rerun repeats nothing: an effect happens again only when its report was lost
\* with the process or the write that was to save it, or when two runs of the
\* changeset overlapped.  A failed changeset, a failed hook, a damaged reports
\* file and an edited input are no reason.
RepeatedOnlyAfterLoss ==
  \A n \in Names : \A x \in DOMAIN count[n] :
    count[n][x] > 1 => n \in overlapped \/ x \in lost[n]

\* What is on disk of a run's output is backed by the reports of its effects:
\* a rerun after a failure between two artifacts finds all of them.
OutputRecorded ==
  \A r \in Runs : saved[r] # {} /\ name[r] \notin overlapped \cup damaged =>
    {<<Registry[name[r]].ops[i], applied[r]>> : i \in 1..Len(Registry[name[r]].ops)}
      \subseteq reports[name[r]]

\* A run ends well only with all its artifacts on disk; one whose changeset has
\* failed leaves none, ends with an error, and has run every post-hook, or none of
\* them when the chains could not be made read-only: the run then tells of the
\* chains, and no longer of the changeset.
ResultTold ==
  \A r \in Runs :
    /\ res[r] = "ok" => saved[r] = out[r] /\ ~failed[r]
    /\ applyErr[r] => saved[r] = {} /\ out[r] = {}
         /\ (pc[r] = "save" => posted[r] \in {0, Len(PostHooks(r))} /\ failed[r])

\* Post-proposal hooks are given the configuration that the changeset was applied
\* with, although it is resolved a second time and the input file may have changed.
HooksGivenApplied ==
  \A r \in Runs : "mcms_timelock_proposal" \in saved[r] => meta[r] = applied[r]

(* What a pipeline run leaves, whichever step of it fails or is cut:       *)
(* artifacts that the reports back, the result of the changeset told by    *)
(* the run's own, and hooks that are given the configuration that was      *)
(* applied.                                                                *)
RunSound == TypeOK /\ OutputRecorded /\ ResultTold /\ HooksGivenApplied
=============================================================================

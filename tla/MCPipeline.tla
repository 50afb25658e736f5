----------------------------- MODULE MCPipeline -----------------------------
(* Instances of Pipeline for TLC. *)
EXTENDS Pipeline, TLC

CONSTANTS i1, i2, i3

\* Changeset "c" reads its input and executes two operations; "d" was wired with
\* its configuration.
Entries ==
  "c" :> [config |-> None, ops |-> <<"deploy", "configure">>, pre |-> <<"warn">>,
          post |-> <<"abort">>, proposal |-> <<"abort">>]
  @@ "d" :> [config |-> i1, ops |-> <<"deploy">>, pre |-> <<>>,
             post |-> <<>>, proposal |-> <<>>]

GlobalHooks == [pre |-> <<"abort">>, post |-> <<"warn">>, proposal |-> <<"warn">>]

\* One changeset; one changeset twice, and another; an object with two keys; an
\* input that does not decode, and a changeset that is not registered.
Files ==
  {<<"c" :> i1>>, <<"c" :> i2, "c" :> i1, "d" :> i2>>, <<"c" :> i1 @@ "d" :> None>>,
   <<"c" :> i3, "x" :> i1>>}

Kept == {{"jobs", "datastore"}, {"mcms_timelock_proposal", "addresses"}}

Symmetric == Permutations(Runs)
=============================================================================

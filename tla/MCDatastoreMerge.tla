-------------------------- MODULE MCDatastoreMerge --------------------------
(* Instances of DatastoreMerge for TLC. *)
EXTENDS DatastoreMerge, TLC

CONSTANTS a, c, u, v, w, e, c1, c2, c3

Rec(f, d, m) ==
  [recs |-> [k \in Keys |-> IF k \in DOMAIN f THEN f[k] ELSE None],
   del |-> d, env |-> m]

\* c1 sets a record and the env metadata and replaces another, c2 replaces the
\* first and stages the deletion of the second, c3 cannot be merged.
Overlapping ==
  (c1 :> Rec(a :> v @@ c :> v, {}, e)) @@ (c2 :> Rec(a :> w, {c}, None))
    @@ (c3 :> Rec(a :> v, {u}, None))
=============================================================================

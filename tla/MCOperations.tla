---------------------------- MODULE MCOperations ----------------------------
(***************************************************************************)
(* Instances of Operations for TLC: the requests each run lets callers     *)
(* make.                                                                   *)
(***************************************************************************)
EXTENDS Operations, TLC

CONSTANTS i1, i2, i3, k0, k1, o1, s1, s2, e1

Op(o, i, k, force, retry) ==
  [kind |-> "op", def |-> o, input |-> i, key |-> k, series |-> NoSeries,
   n |-> 1, force |-> force, retry |-> retry]

OpN(o, i, e, n, retry) ==
  [kind |-> "opN", def |-> o, input |-> i, key |-> NoKey, series |-> e,
   n |-> n, force |-> FALSE, retry |-> retry]

Sq(s, i, k) ==
  [kind |-> "seq", def |-> s, input |-> i, key |-> k, series |-> NoSeries,
   n |-> 1, force |-> FALSE, retry |-> FALSE]

(* Operations that share an input, with and without idempotency key, force *)
(* and retry; runs of one series of that operation; a sequence that may    *)
(* hold them and itself; an input that is rejected.                        *)
SharedRequests ==
  {Op(o1, i1, k0, FALSE, FALSE), Op(o1, i1, k1, FALSE, FALSE),
   Op(o1, i1, k0, TRUE, TRUE), Op(o1, i3, k0, FALSE, FALSE),
   OpN(o1, i1, e1, 1, FALSE), OpN(o1, i1, e1, 2, FALSE), Sq(s1, i1, k0)}

(* Sequences around a retried operation, around runs of a series and around *)
(* each other.                                                              *)
DisciplinedRequests ==
  {Sq(s1, i1, k0), Op(o1, i1, k0, FALSE, TRUE), OpN(o1, i1, e1, 2, FALSE)}

Symmetric == Permutations(Calls)
=============================================================================

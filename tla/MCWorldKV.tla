----------------------------- MODULE MCWorldKV -----------------------------
(* Instances of WorldKV for TLC: the requests (a world r, actions a and    *)
(* b) and the deployments of each run.                                     *)
EXTENDS WorldKV, TLC

(* A long request, whose window at the third chunk leaves a gap between    *)
(* the sink and the recent nodes, and one that forks off after a chunk.    *)
Fork == {<<"r", "a", "a", "a">>, <<"r", "a", "b">>}

(* One request, so that every session meets the others on every node.      *)
Shared == {<<"r", "a", "a">>}

Requests == Fork \cup Shared

Deploy(st, k, ps, o, e, r, f) ==
  [store |-> st, breakEven |-> k, plans |-> ps, overlap |-> o, evicts |-> e, restarts |-> r,
   faults |-> f]

Stores == {"memory", "sync", "async"}

(* Sessions in turn, below and above break_even_k, with failing stores.    *)
Serial     == {Deploy(st, k, Fork, FALSE, FALSE, FALSE, TRUE) : st \in Stores, k \in {1, 2}}
(* Sessions at once, with evictions or restarts.                           *)
Concurrent == {Deploy(st, 1, Shared, TRUE, TRUE, FALSE, TRUE) : st \in Stores}
Restarting == {Deploy(st, 1, Shared, TRUE, FALSE, TRUE, TRUE) : st \in {"sync", "async"}}
Safety     == Serial \cup Concurrent \cup Restarting

Live       == {Deploy(st, 1, Shared, TRUE, FALSE, FALSE, TRUE) : st \in {"sync", "async"}}

(* The smallest deployment that refutes the claim.                         *)
OneRestarter == {Deploy("async", 2, Shared, FALSE, FALSE, TRUE, FALSE)}

Symmetry == Permutations(Sessions)
=============================================================================

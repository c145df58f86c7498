------------------------------ MODULE MCRingKV ------------------------------
EXTENDS RingKV, TLC

Geometry(b, s, c, n, dr, be, mgr) ==
  [buf |-> b, sink |-> s, chunk |-> c, chunks |-> n, draws |-> dr, breakEven |-> be, manager |-> mgr]

(* A full-length ring; rings that roll over at the end of a chunk, in the  *)
(* middle of one, without a sink, with a sink that is not a whole number   *)
(* of chunks; no draws at all; and managers that kept the default geometry *)
(* of another ring.                                                        *)
MCConfigs == {
  Geometry(8, 1, 2, 4, 3, 1, "full"),
  Geometry(7, 3, 3, 4, 2, 1, "rolling"),
  Geometry(4, 0, 2, 4, 1, 2, "rolling"),
  Geometry(5, 1, 2, 4, 1, 0, "rolling"),
  Geometry(6, 3, 2, 4, 0, 1, "rolling"),
  Geometry(3, 1, 1, 4, 1, 1, "default"),
  Geometry(7, 1, 1, 4, 1, 1, "default") }

Symmetry == Permutations(Sessions)
=============================================================================

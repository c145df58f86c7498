---------------------------- MODULE MCFaissStore ----------------------------
(* Instances of FaissStore for TLC.                                        *)
EXTENDS FaissStore, TLC

Failures(c, w, r) == [crashes |-> c, writes |-> w, reads |-> r]
Failing  == {Failures(TRUE, TRUE, FALSE), Failures(TRUE, FALSE, TRUE)}

Symmetry == Permutations(Points)
=============================================================================

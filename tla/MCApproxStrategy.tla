-------------------------- MODULE MCApproxStrategy --------------------------
(* Instances of ApproxStrategy for TLC.                                    *)
EXTENDS ApproxStrategy, TLC

Config(faults, effects, loses, crashes, staircase) ==
  [faults |-> faults, effects |-> effects, loses |-> loses,
   crashes |-> crashes, staircase |-> staircase]

(* Two tiers, one at and one above max_skip_step; scores below, between    *)
(* and above them.                                                         *)
TwoTiers == 1 :> 1 @@ 3 :> 2

Mixed ==
  {Config(Stores, FALSE, FALSE, TRUE, FALSE),
   Config({"kv", "vector"}, TRUE, FALSE, FALSE, FALSE),
   Config({}, FALSE, TRUE, FALSE, TRUE),
   Config({"metadata"}, FALSE, TRUE, TRUE, FALSE)}
Effects == {Config({"vector"}, TRUE, FALSE, FALSE, FALSE)}

Symmetry == Permutations(Saves) \cup Permutations(Lookups)
=============================================================================

-------------------------- MODULE MCWeightedOrder --------------------------
(***************************************************************************)
(* Pools for checking WeightedOrder with TLC.                              *)
(***************************************************************************)
EXTENDS WeightedOrder

\* Up to three members, weights absent, negative, small and large.
MCPools == UNION {[1..n -> {-1, 0, 1, 2, 5}] : n \in 0..3}
=============================================================================

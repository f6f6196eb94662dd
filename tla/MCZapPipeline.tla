--------------------------- MODULE MCZapPipeline ----------------------------
(***************************************************************************)
(* ZapPipeline on small instances: a run of two stages and a run of one    *)
(* (Flow) or of none (Mixed), or a run without any action in front of one  *)
(* that has one (Empty).                                                   *)
(***************************************************************************)
EXTENDS ZapPipeline, TLC

CONSTANTS a, b, p1, w1, w2, q1, q2

MCFlow  == (a :> 2) @@ (b :> 1)
MCMixed == (a :> 2) @@ (b :> 0)
MCEmpty == (a :> 0) @@ (b :> 1)

Symmetry == Permutations({w1, w2}) \cup Permutations({q1, q2})
=============================================================================

-------------------------- MODULE MCStageExecution --------------------------
(***************************************************************************)
(* StageExecution on a small instance: two workers compete for the stages  *)
(* of a run while a reconciler gives up expired claims, or one worker and  *)
(* two reconcilers.                                                        *)
(***************************************************************************)
EXTENDS StageExecution, TLC

CONSTANTS k1, k2, w1, w2, r1, r2

\* Workers are interchangeable; used for safety only.
Symmetry == Permutations({w1, w2})
=============================================================================

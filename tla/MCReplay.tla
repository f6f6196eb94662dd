------------------------------ MODULE MCReplay ------------------------------
(***************************************************************************)
(* Replay on a run of two stages.                                          *)
(***************************************************************************)
EXTENDS Replay, TLC

CONSTANTS a1, a2, a3, q1, q2, w1, w2, d1, d2

\* Two operators' approvals of the first stage, and one of the second.
TwoOnFirst == (a1 :> 0) @@ (a2 :> 0) @@ (a3 :> 1)
\* One approval of each stage.
OnEach == (a1 :> 0) @@ (a3 :> 1)

\* a3 is the only approval of its stage.
Symmetry ==
    Permutations({a1, a2}) \cup Permutations({q1, q2}) \cup
    Permutations({w1, w2}) \cup Permutations({d1, d2})
=============================================================================

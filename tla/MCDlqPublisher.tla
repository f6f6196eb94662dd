--------------------------- MODULE MCDlqPublisher ---------------------------
(***************************************************************************)
(* DlqPublisher on a small instance.  A lease is at least the longest      *)
(* backoff, and a publisher may stall between its query and its claim, for *)
(* as long as a lease in the safety run.                                   *)
(***************************************************************************)
EXTENDS DlqPublisher, TLC

CONSTANTS p1, p2, t1, t2, t3, t4, t5

Symmetry == Permutations({p1, p2}) \cup Permutations({t1, t2, t3, t4, t5})
=============================================================================

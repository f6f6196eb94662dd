-------------------------- MODULE MCInvestigations --------------------------
(***************************************************************************)
(* Investigations on a small instance: two jobs of one owner, of which the *)
(* first may be decided, two runners, and the drain of the notifications.  *)
(***************************************************************************)
EXTENDS Investigations, TLC

CONSTANTS r1, r2, s1, o1

OneOwner == [j \in Job |-> o1]
=============================================================================

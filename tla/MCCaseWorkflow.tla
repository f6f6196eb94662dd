--------------------------- MODULE MCCaseWorkflow ---------------------------
(***************************************************************************)
(* CaseWorkflow on a small instance: two decisions about one proposal that *)
(* hand the case to its owner, a repair that is submitted twice under one  *)
(* key, an escalation by support, and two edits of the owner.              *)
(***************************************************************************)
EXTENDS CaseWorkflow, TLC

CONSTANTS d1, d2, s1, s2, g1, e1, e2, k1, k2, ks, kg, ke, p1

MCKind ==
    [c \in Call |->
        CASE c \in {d1, d2} -> "mark_owner_action_required"
          [] c \in {s1, s2} -> "submit_repair"
          [] c = g1 -> "escalate"
          [] OTHER -> "edit_action"]

MCKey ==
    [c \in Call |->
        CASE c = d1 -> k1 [] c = d2 -> k2 [] c \in {s1, s2} -> ks
          [] c = g1 -> kg [] OTHER -> ke]

MCDecides == [c \in Call |-> IF c \in {d1, d2} THEN p1 ELSE None]

Symmetry == Permutations({s1, s2}) \cup Permutations({e1, e2})
=============================================================================

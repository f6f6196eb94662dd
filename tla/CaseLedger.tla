----------------------------- MODULE CaseLedger -----------------------------
(***************************************************************************)
(* What the workflow of a triage case promises its callers: whatever the   *)
(* interleaving of the calls, their repeats and their failures, the case   *)
(* is a ledger to which complete entries are added one at a time.  A call  *)
(* that moves the case has its whole effect in one step and once under its *)
(* key, a repeat of it changes nothing, and an edit of the action replaces *)
(* exactly the version it was made on.                                     *)
(***************************************************************************)
EXTENDS Integers, Sequences

CONSTANTS Call, Proposal, None,
          Kind,      \* Kind[c]: what the call asks for
          Key,       \* Key[c]: the key it is repeated under
          Decides,   \* Decides[c]: the proposal it decides, or None
          Edits,     \* the calls that edit the action; the others move the case
          Target,    \* Target[c]: the status the call moves the case to
          Awaits,    \* Awaits[c]: the status in which the case was handed to the
                     \* caller, or None if nobody has to hand it over
          First      \* the workflow of a case nobody has touched

VARIABLES
    workflow,   \* status and version
    trail,      \* the entries, in order
    approval,   \* approval[p]: the key of the decision of a proposal, or None
    notified,   \* the keys of the decisions the agent is told of
    metadata,   \* the edit the action holds, or None
    answered,   \* calls that were told they had their effect
    basis       \* basis[c]: the edit that the edit c replaced

ledger == <<workflow, trail, approval, notified, metadata, answered, basis>>

Init ==
    /\ workflow = First
    /\ trail = <<>>
    /\ approval = [p \in Proposal |-> None]
    /\ notified = {}
    /\ metadata = None
    /\ answered = {}
    /\ basis = [c \in Call |-> None]

Entered(c) == \E i \in DOMAIN trail : trail[i].key = Key[c]

\* A decision is the first one of its proposal.
Approve(c) ==
    IF Decides[c] = None
        THEN UNCHANGED <<approval, notified>>
        ELSE /\ approval[Decides[c]] = None
             /\ approval' = [approval EXCEPT ![Decides[c]] = Key[c]]
             /\ notified' = notified \cup {Key[c]}

\* The call moves the case.
Enter(c) ==
    /\ c \notin answered \cup Edits
    /\ ~Entered(c)
    /\ Awaits[c] # None => \E i \in DOMAIN trail : trail[i].to = Awaits[c]
    /\ trail' = Append(trail, [key |-> Key[c], kind |-> Kind[c],
                               from |-> workflow.status, to |-> Target[c]])
    /\ workflow' = [status |-> Target[c], version |-> workflow.version + 1]
    /\ Approve(c)
    /\ answered' = answered \cup {c}
    /\ UNCHANGED <<metadata, basis>>

\* The call, or another one with its key, has moved the case before.
Repeat(c) ==
    /\ c \notin answered \cup Edits
    /\ Entered(c)
    /\ answered' = answered \cup {c}
    /\ UNCHANGED <<workflow, trail, approval, notified, metadata, basis>>

Edit(c) ==
    /\ c \in Edits \ answered
    /\ metadata' = c
    /\ basis' = [basis EXCEPT ![c] = metadata]
    /\ answered' = answered \cup {c}
    /\ UNCHANGED <<workflow, trail, approval, notified>>

Next == \E c \in Call : Enter(c) \/ Repeat(c) \/ Edit(c)

Spec == Init /\ [][Next]_ledger
=============================================================================

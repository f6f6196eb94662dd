---------------------------- MODULE CaseWorkflow ----------------------------
(***************************************************************************)
(* The workflow of one triage case: support, its owner and engineering    *)
(* hand it to one another in HTTP calls that may run at the same time, be  *)
(* repeated under their idempotency key, or end in an error at any point   *)
(* (apps/primary_backend: services/case-workflow.ts, triage-engineering.ts,*)
(* triage-owner.ts, investigation-authority.ts and route/triage.ts).       *)
(*                                                                         *)
(* A call is a sequence of statements.  What a transaction writes is seen  *)
(* by others when it commits, so an action that commits makes all its      *)
(* writes; the row locks it holds until then are variables.                *)
(***************************************************************************)
EXTENDS Integers, Sequences

CONSTANTS Call,        \* HTTP calls, a retry of a call being one of its own
          Kind,        \* Kind[c]: what the call asks for
          Key,         \* Key[c]: its idempotency key or decision id
          Proposal,    \* proposals of the case's investigations
          Decides,     \* Decides[c]: the proposal, if c is a decision
          None

Decisions == {"approve", "reject", "mark_owner_action_required",
              "escalate_to_engineering", "resolve_without_replay"}
Routed == {"request_owner_repair", "escalate", "resolve"}
Guarded == {"submit_repair", "return_findings", "engineering_resolve"}
Kinds == Decisions \cup Routed \cup Guarded \cup {"edit_action"}

Status == {"needing_support", "awaiting_owner", "repair_submitted",
           "escalated", "findings_returned", "resolved"}

Keys == {Key[c] : c \in Call}

\* A key names one request: the client derives a decision's key from the
\* proposal and the decision (frontend/src/hooks/useTriage.ts, 283-285), and a
\* call without a header gets a random one.
ASSUME CallAssumption ==
    /\ Kind \in [Call -> Kinds]
    /\ Decides \in [Call -> Proposal \cup {None}]
    /\ \A c \in Call : Decides[c] # None <=> Kind[c] \in Decisions
    /\ \A c, d \in Call :
          Key[c] = Key[d] => Kind[c] = Kind[d] /\ Decides[c] = Decides[d]
    /\ None \notin Call \cup Proposal \cup Keys

VARIABLES
    workflow,   \* TriageCaseWorkflow: status and version; the status gives the queue
    trail,      \* TriageCaseWorkflowEvent, in the order of commits
    approval,   \* TriageApproval: the decision id of a proposal, or None
    notified,   \* TriageDecisionNotification: the decision ids written
    metadata,   \* Action.metadata: who wrote it last, None at first
    rowLock,    \* the transaction that holds the workflow's row, or None
    held,       \* held[p]: the transaction that holds the proposal's row
    pc,         \* pc[c]: how far the call has come
    seen        \* seen[c]: the workflow it locked, or the metadata it loaded

vars == <<workflow, trail, approval, notified, metadata, rowLock, held, pc, seen>>
records == <<workflow, trail, approval, notified, metadata>>

Workflow == [status : Status, version : Nat]

\* A case without a row reads as one that is made on first use.
New == [status |-> "needing_support", version |-> 1]

TypeOK ==
    /\ workflow \in Workflow
    /\ trail \in Seq([key : Keys, kind : Kinds, from : Status, to : Status])
    /\ approval \in [Proposal -> Keys \cup {None}]
    /\ notified \subseteq Keys
    /\ metadata \in Call \cup {None}
    /\ rowLock \in Call \cup {None}
    /\ held \in [Proposal -> Call \cup {None}]
    /\ pc \in [Call -> {"new", "ready", "open", "locked", "loaded", "editing",
                        "answered", "refused", "failed"}]
    /\ seen \in [Call -> Workflow \cup Call \cup {None}]

Init ==
    /\ workflow = New
    /\ trail = <<>>
    /\ approval = [p \in Proposal |-> None]
    /\ notified = {}
    /\ metadata = None
    /\ rowLock = None
    /\ held = [p \in Proposal |-> None]
    /\ pc = [c \in Call |-> "new"]
    /\ seen = [c \in Call |-> None]

-----------------------------------------------------------------------------
(* What a call moves the case to, and what it wants to find. *)

\* Mutant: the queue is stored as the status.
MovesToQueue(k) ==
    IF k \in {"request_owner_repair", "mark_owner_action_required"}
        THEN "owner" ELSE "resolved"

MovesTo(k) ==
    CASE k \in {"request_owner_repair", "mark_owner_action_required"} -> "awaiting_owner"
      [] k \in {"escalate", "escalate_to_engineering"} -> "escalated"
      [] k = "submit_repair" -> "repair_submitted"
      [] k = "return_findings" -> "findings_returned"
      [] k = "approve" -> "needing_support"
      [] OTHER -> "resolved"

Requires(k) == IF k = "submit_repair" THEN "awaiting_owner" ELSE "escalated"

Recorded(k) == \E i \in DOMAIN trail : trail[i].key = k

Goes(c, place) == pc' = [pc EXCEPT ![c] = place]

\* The end of a transaction: its locks are free.
Unlock(c) ==
    /\ rowLock' = IF rowLock = c THEN None ELSE rowLock
    /\ held' = [p \in Proposal |-> IF held[p] = c THEN None ELSE held[p]]

-----------------------------------------------------------------------------
(* The calls of the owner and of engineering look first, in a query of      *)
(* their own.                                                               *)

Check(c) ==
    /\ pc[c] = "new"
    /\ Kind[c] \in Guarded
    /\ Goes(c, IF workflow.status = Requires(Kind[c]) THEN "ready" ELSE "refused")
    /\ UNCHANGED <<records, rowLock, held, seen>>

\* Support may hand the case on at any time.
Route(c) ==
    /\ pc[c] = "new"
    /\ Kind[c] \in Routed
    /\ Goes(c, "ready")
    /\ UNCHANGED <<records, rowLock, held, seen>>

\* What a committed decision leaves beside the event.
Approve(c) ==
    IF Kind[c] \in Decisions
        THEN /\ approval' = [approval EXCEPT ![Decides[c]] = Key[c]]
             /\ notified' = notified \cup {Key[c]}
        ELSE UNCHANGED <<approval, notified>>

\* Mutant: approval and notification are written outside the transaction of the move.
DecideUnwrapped(c) ==
    LET p == Decides[c] IN
    /\ pc[c] = "new"
    /\ Kind[c] \in Decisions
    /\ approval[p] = None
    /\ Goes(c, "ready")
    /\ Approve(c)
    /\ UNCHANGED <<workflow, trail, metadata, rowLock, held, seen>>

\* decide: the proposal's row is locked, then an earlier approval is looked for.  A
\* revoked permission, expiry, a newer proposal or the policy may refuse any decision.
Decide(c) ==
    LET p == Decides[c] IN
    /\ pc[c] = "new"
    /\ Kind[c] \in Decisions
    /\ held[p] = None
    /\ \/ /\ approval[p] = Key[c]
          /\ Goes(c, "answered")
          /\ UNCHANGED held
       \/ /\ Goes(c, "refused")
          /\ UNCHANGED held
       \/ /\ approval[p] = None
          /\ Goes(c, "ready")
          /\ held' = [held EXCEPT ![p] = c]
    /\ UNCHANGED <<records, rowLock, seen>>

-----------------------------------------------------------------------------
(* transition *)

\* An event with this key is the answer; the row is not locked yet.
LookUp(c) ==
    /\ pc[c] = "ready"
    /\ IF Recorded(Key[c])
           THEN /\ Goes(c, "answered")
                /\ Approve(c)
                /\ Unlock(c)
           ELSE /\ Goes(c, "open")
                /\ UNCHANGED <<approval, notified, rowLock, held>>
    /\ UNCHANGED <<workflow, trail, metadata, seen>>

\* Mutant: the row is read without FOR UPDATE.
ReadRow(c) ==
    /\ pc[c] = "open"
    /\ seen' = [seen EXCEPT ![c] = workflow]
    /\ Goes(c, "locked")
    /\ UNCHANGED <<records, rowLock, held>>

LockRow(c) ==
    /\ pc[c] = "open"
    /\ rowLock = None
    /\ rowLock' = c
    /\ seen' = [seen EXCEPT ![c] = workflow]
    /\ Goes(c, "locked")
    /\ UNCHANGED <<records, held>>

Event(c) == [key |-> Key[c], kind |-> Kind[c],
             from |-> seen[c].status, to |-> MovesTo(Kind[c])]

\* The event, the conditional update of the row and the commit.
Move(c) ==
    /\ trail' = Append(trail, Event(c))
    /\ workflow' = IF workflow.version = seen[c].version
                       THEN [status |-> MovesTo(Kind[c]), version |-> seen[c].version + 1]
                       ELSE workflow
    /\ Approve(c)
    /\ Goes(c, "answered")

\* Mutant: the key looked up before the lock is held to be still unused.
ApplyUnchecked(c) ==
    /\ pc[c] = "locked"
    /\ Move(c)
    /\ Unlock(c)
    /\ UNCHANGED <<metadata, seen>>

\* The event's id is a primary key: a second event of the same key fails.
Apply(c) ==
    /\ pc[c] = "locked"
    /\ IF Recorded(Key[c])
           THEN Goes(c, "failed") /\ UNCHANGED <<workflow, trail, approval, notified>>
           ELSE Move(c)
    /\ Unlock(c)
    /\ UNCHANGED <<metadata, seen>>

\* The process dies or the database throws: the transaction is rolled back.
Fail(c) ==
    /\ pc[c] \in {"ready", "open", "locked", "loaded", "editing"}
    /\ Goes(c, "failed")
    /\ Unlock(c)
    /\ UNCHANGED <<records, seen>>

\* The client may send what failed again, under the same key.
Retry(c) ==
    /\ pc[c] = "failed"
    /\ Goes(c, "new")
    /\ UNCHANGED <<records, rowLock, held, seen>>

-----------------------------------------------------------------------------
(* The owner repairs the action's fields while the case awaits it. *)

\* The repair page hands out a token of what it shows.
LoadAction(c) ==
    /\ pc[c] = "new"
    /\ Kind[c] = "edit_action"
    /\ IF workflow.status = "awaiting_owner"
           THEN Goes(c, "loaded") /\ seen' = [seen EXCEPT ![c] = metadata]
           ELSE Goes(c, "refused") /\ UNCHANGED seen
    /\ UNCHANGED <<records, rowLock, held>>

\* The save reads case and action again and compares the token.
CheckAction(c) ==
    /\ pc[c] = "loaded"
    /\ Goes(c, IF workflow.status = "awaiting_owner" /\ metadata = seen[c]
                   THEN "editing" ELSE "refused")
    /\ UNCHANGED <<records, rowLock, held, seen>>

\* Mutant: the token has been compared, the update is unconditional.
WriteActionAnyway(c) ==
    /\ pc[c] = "editing"
    /\ metadata' = c
    /\ Goes(c, "answered")
    /\ UNCHANGED <<workflow, trail, approval, notified, rowLock, held, seen>>

\* The update applies only to the metadata that was read.
WriteAction(c) ==
    /\ pc[c] = "editing"
    /\ IF metadata = seen[c]
           THEN metadata' = c /\ Goes(c, "answered")
           ELSE Goes(c, "refused") /\ UNCHANGED metadata
    /\ UNCHANGED <<workflow, trail, approval, notified, rowLock, held, seen>>

-----------------------------------------------------------------------------
\* Every call has had its answer.
Done ==
    /\ \A c \in Call : pc[c] \in {"answered", "refused"}
    /\ UNCHANGED vars

Step(c) ==
    \/ Check(c) \/ Route(c) \/ Decide(c)
    \/ LookUp(c) \/ LockRow(c) \/ Apply(c)
    \/ LoadAction(c) \/ CheckAction(c) \/ WriteAction(c)
    \/ Fail(c) \/ Retry(c)

Next == (\E c \in Call : Step(c)) \/ Done

Spec == Init /\ [][Next]_vars

-----------------------------------------------------------------------------
(* Properties *)

\* However often and however concurrently a call is repeated under its key, it moves
\* the case once, and one that was answered as done has its event.
AppliedOnce ==
    /\ \A i, j \in DOMAIN trail : trail[i].key = trail[j].key => i = j
    /\ \A c \in Call :
          pc[c] = "answered" /\ Kind[c] # "edit_action" => Recorded(Key[c])

\* A decision is recorded whole or not at all: the approval of the proposal, the
\* notification for the agent and the move of the case have the same id, and a proposal
\* has one decision.
DecisionIsWhole ==
    /\ \A k \in Keys : k \in notified <=> \E p \in Proposal : approval[p] = k
    /\ \A k \in Keys : k \in notified <=>
          \E i \in DOMAIN trail : trail[i].key = k /\ trail[i].kind \in Decisions
    /\ \A p, q \in Proposal : approval[p] = approval[q] /\ approval[p] # None => p = q

\* An edit of the owner that was acknowledged is what the action holds, or what a later
\* acknowledged edit was made on.
NoLostEdit ==
    \A c \in Call : pc[c] = "answered" /\ Kind[c] = "edit_action" =>
        \/ metadata = c
        \/ \E d \in Call : /\ pc[d] = "answered" /\ Kind[d] = "edit_action"
                           /\ seen[d] = c

\* What route/triage.ts says of the acknowledgement (line 852): only a case that awaits
\* its owner takes a repair.
RepairFailsClosed ==
    \A i \in DOMAIN trail :
        trail[i].kind = "submit_repair" => trail[i].from = "awaiting_owner"

-----------------------------------------------------------------------------
(* The calls implement the ledger. *)

Edits == {c \in Call : Kind[c] = "edit_action"}
Answered == {c \in Call : pc[c] = "answered"}

Ledger == INSTANCE CaseLedger WITH
    Target <- [c \in Call |-> MovesTo(Kind[c])],
    Awaits <- [c \in Call |-> IF Kind[c] \in Guarded THEN Requires(Kind[c]) ELSE None],
    First <- New,
    answered <- Answered,
    basis <- [c \in Call |-> IF c \in Edits \cap Answered THEN seen[c] ELSE None]

\* However the statements of the calls interleave, fail and are repeated, what is seen
\* of them is one complete transition after the other, each made once under its key,
\* and edits that replace exactly the version they were made on.
ImplementsLedger == Ledger!Spec
=============================================================================

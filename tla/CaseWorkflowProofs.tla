------------------------- MODULE CaseWorkflowProofs -------------------------
(***************************************************************************)
(* Theorems of CaseWorkflow, for any number of calls, proposals and keys.  *)
(***************************************************************************)
EXTENDS CaseWorkflow, TLAPS

---------------------------------------------------------------------------
(***************************************************************************)
(* The inductive invariant.                                                *)
(***************************************************************************)

Last == IF trail = <<>> THEN New.status ELSE trail[Len(trail)].to

\* The events are the whole history of the row: each begins where the one before it
\* ended, the last ends in the row's state, and the version counts them.  Two calls that
\* read the same row, or an update that finds another version, would break the chain.
TrailComplete ==
    /\ workflow = [status |-> Last, version |-> Len(trail) + 1]
    /\ \A i \in DOMAIN trail :
          trail[i].from = IF i = 1 THEN New.status ELSE trail[i - 1].to

\* Nobody submits a repair, returns findings or closes a case for engineering if the
\* case was never handed to them.
AnswersARequest ==
    \A i \in DOMAIN trail : trail[i].kind \in Guarded =>
        \E j \in 1 .. i - 1 : trail[j].to = Requires(trail[i].kind)

\* A call inside transition.
Inside(c) == pc[c] \in {"ready", "open", "locked"}

\* What a call knows: a locked row has not changed since it was read, a decision that is
\* under way holds a proposal without a decision, and a checked request has been made.
CallInv(c) ==
    /\ pc[c] = "locked" => rowLock = c /\ seen[c] = workflow
    /\ Inside(c) /\ Kind[c] \in Decisions =>
         held[Decides[c]] = c /\ approval[Decides[c]] = None
    /\ Inside(c) /\ Kind[c] \in Guarded =>
         \E i \in DOMAIN trail : trail[i].to = Requires(Kind[c])
    /\ Kind[c] = "edit_action" => ~Inside(c)
    /\ pc[c] \in {"loaded", "editing"} => Kind[c] = "edit_action"
    /\ pc[c] = "answered" /\ Kind[c] # "edit_action" => Recorded(Key[c])

\* Each event was made by a call, with its key and of its kind.
EventInv(i) == \E c \in Call : trail[i].key = Key[c] /\ trail[i].kind = Kind[c]

\* An approval is the decision of the proposal it is stored for.
ApprovalInv(p) ==
    approval[p] # None => \E c \in Call : approval[p] = Key[c] /\ Decides[c] = p

KeyUsedOnce == \A i, j \in DOMAIN trail : trail[i].key = trail[j].key => i = j

\* The key of a decision is used in all three places or in none.
KeyInv(k) ==
    /\ k \in notified <=> \E p \in Proposal : approval[p] = k
    /\ k \in notified <=> \E i \in DOMAIN trail : trail[i].key = k /\ trail[i].kind \in Decisions

IInv ==
    /\ TypeOK
    /\ TrailComplete
    /\ KeyUsedOnce
    /\ \A c \in Call : CallInv(c)
    /\ \A i \in DOMAIN trail : EventInv(i)
    /\ \A p \in Proposal : ApprovalInv(p)
    /\ \A k \in Keys : KeyInv(k)
    /\ AnswersARequest

---------------------------------------------------------------------------
(***************************************************************************)
(* Lemmas about the shape of a step.                                       *)
(***************************************************************************)

LEMMA MovesToStatus == \A k \in Kinds : MovesTo(k) \in Status
BY DEF MovesTo, Status, Kinds

\* Calls with the same key ask for the same thing.
LEMMA SameKey ==
    \A c, d \in Call : Key[c] = Key[d] => Kind[c] = Kind[d] /\ Decides[c] = Decides[d]
BY CallAssumption

LEMMA KeyTyped == \A c \in Call : Key[c] \in Keys /\ Kind[c] \in Kinds /\ Key[c] # None
BY CallAssumption DEF Keys

LEMMA DecisionTyped == \A c \in Call : Kind[c] \in Decisions => Decides[c] \in Proposal
BY CallAssumption

\* An event at the end of the trail leaves the others where they were.
LEMMA Appended ==
    ASSUME NEW S, NEW s \in Seq(S), NEW e \in S
    PROVE  /\ Append(s, e) \in Seq(S)
           /\ Len(Append(s, e)) = Len(s) + 1
           /\ Len(s) \in Nat
           /\ DOMAIN s = 1 .. Len(s)
           /\ DOMAIN Append(s, e) = 1 .. Len(s) + 1
           /\ \A i \in 1 .. Len(s) : Append(s, e)[i] = s[i]
           /\ Append(s, e)[Len(s) + 1] = e
OBVIOUS

\* A step of one call that leaves the records alone and takes no lock of another call
\* disturbs nobody else.
LEMMA CallStep ==
    ASSUME IInv, TypeOK', NEW c \in Call,
           UNCHANGED <<workflow, trail, approval, notified>>,
           \A d \in Call \ {c} : pc'[d] = pc[d] /\ seen'[d] = seen[d],
           rowLock \notin {None, c} => rowLock' = rowLock,
           \A p \in Proposal : held[p] \notin {None, c} => held'[p] = held[p],
           CallInv(c)'
    PROVE  IInv'
<1>1. ASSUME NEW d \in Call PROVE CallInv(d)'
  <2>1. CASE d = c  BY <2>1
  <2>2. CASE d # c
    <3>1. CallInv(d) /\ pc'[d] = pc[d] /\ seen'[d] = seen[d]  BY <2>2 DEF IInv
    <3>2. d # None  BY CallAssumption
    <3>3. pc[d] = "locked" => rowLock' = d /\ seen'[d] = workflow'
      BY <2>2, <3>1, <3>2 DEF CallInv
    <3>4. Inside(d) /\ Kind[d] \in Decisions =>
            held'[Decides[d]] = d /\ approval'[Decides[d]] = None
      BY <2>2, <3>1, <3>2, DecisionTyped DEF CallInv
    <3>5. QED  BY <3>1, <3>3, <3>4 DEF CallInv, Inside, Recorded
  <2>3. QED  BY <2>1, <2>2
<1>2. TrailComplete' /\ KeyUsedOnce' /\ AnswersARequest'
  BY DEF IInv, TrailComplete, Last, KeyUsedOnce, AnswersARequest
<1>3. (\A i \in DOMAIN trail : EventInv(i))' /\ (\A p \in Proposal : ApprovalInv(p))'
      /\ (\A k \in Keys : KeyInv(k))'
  BY DEF IInv, EventInv, ApprovalInv, KeyInv
<1>4. QED  BY <1>1, <1>2, <1>3 DEF IInv

\* Where a call stands after a step, and its locks.
LEMMA GoesTo ==
    ASSUME TypeOK, NEW c \in Call, NEW place, Goes(c, place)
    PROVE  pc'[c] = place /\ \A d \in Call \ {c} : pc'[d] = pc[d]
BY DEF Goes, TypeOK

LEMMA Unlocks ==
    ASSUME TypeOK, NEW c \in Call, Unlock(c)
    PROVE  /\ rowLock' \in Call \cup {None}
           /\ held' \in [Proposal -> Call \cup {None}]
           /\ rowLock \notin {None, c} => rowLock' = rowLock
           /\ \A p \in Proposal : held[p] \notin {None, c} => held'[p] = held[p]
BY DEF Unlock, TypeOK

\* The event of a decision under way has not been written.
LEMMA NotRecorded ==
    ASSUME IInv, NEW c \in Call, Inside(c), Kind[c] \in Decisions
    PROVE  ~Recorded(Key[c])
<1>1. CallInv(c)  BY DEF IInv
<1>2. SUFFICES ASSUME NEW i \in DOMAIN trail, trail[i].key = Key[c] PROVE FALSE
  BY DEF Recorded
<1>3. trail[i].kind = Kind[c]
  BY <1>2, SameKey DEF IInv, EventInv
<1>4. Key[c] \in notified
  BY <1>2, <1>3, KeyTyped DEF IInv, KeyInv
<1>5. PICK p \in Proposal : approval[p] = Key[c]
  BY <1>4, KeyTyped DEF IInv, KeyInv
<1>6. Decides[c] = p
  BY <1>5, SameKey, KeyTyped DEF IInv, ApprovalInv
<1>7. QED  BY <1>1, <1>5, <1>6, KeyTyped DEF CallInv

---------------------------------------------------------------------------
(***************************************************************************)
(* The invariant holds.                                                    *)
(***************************************************************************)

LEMMA InvInit == Init => IInv
<1>1. SUFFICES ASSUME Init PROVE IInv
  OBVIOUS
<1>2. TypeOK
  BY <1>1 DEF Init, TypeOK, New, Workflow, Status
<1>3. TrailComplete /\ KeyUsedOnce /\ AnswersARequest
  BY <1>1 DEF Init, TrailComplete, KeyUsedOnce, AnswersARequest, Last, New
<1>4. \A c \in Call : CallInv(c)
  BY <1>1 DEF Init, CallInv, Inside
<1>5. (\A i \in DOMAIN trail : EventInv(i)) /\ (\A p \in Proposal : ApprovalInv(p))
  BY <1>1 DEF Init, ApprovalInv
<1>6. \A k \in Keys : KeyInv(k)
  BY <1>1, CallAssumption DEF Init, KeyInv, Keys
<1>7. QED  BY <1>2, <1>3, <1>4, <1>5, <1>6 DEF IInv

\* The event of a call that has its row locked.
LEMMA EventTyped ==
    ASSUME IInv, NEW c \in Call, pc[c] = "locked"
    PROVE  /\ Event(c) \in [key : Keys, kind : Kinds, from : Status, to : Status]
           /\ seen[c] = workflow
           /\ Event(c).from = workflow.status
           /\ Event(c).key = Key[c] /\ Event(c).kind = Kind[c]
           /\ Event(c).to = MovesTo(Kind[c])
<1>1. seen[c] = workflow /\ workflow \in Workflow
  BY DEF IInv, CallInv, TypeOK
<1>2. workflow.status \in Status
  BY <1>1 DEF Workflow
<1>3. MovesTo(Kind[c]) \in Status
  BY MovesToStatus, KeyTyped
<1>4. QED  BY <1>1, <1>2, <1>3, KeyTyped DEF Event

\* The event, the row and the approval of a call that has its row locked, in one commit.
LEMMA MoveStep ==
    ASSUME IInv, NEW c \in Call, pc[c] = "locked", ~Recorded(Key[c]),
           Move(c), Unlock(c), UNCHANGED <<metadata, seen>>
    PROVE  IInv'
<1> DEFINE n == Len(trail)
           k == Key[c]
<1>1. TypeOK /\ CallInv(c)
  BY DEF IInv
<1>2. /\ Event(c) \in [key : Keys, kind : Kinds, from : Status, to : Status]
      /\ seen[c] = workflow
      /\ Event(c).from = workflow.status
      /\ Event(c).key = k /\ Event(c).kind = Kind[c]
      /\ Event(c).to = MovesTo(Kind[c])
  BY EventTyped
<1>3. trail \in Seq([key : Keys, kind : Kinds, from : Status, to : Status])
  BY <1>1 DEF TypeOK
<1>4. trail' = Append(trail, Event(c))
  BY DEF Move
<1>5. /\ trail' \in Seq([key : Keys, kind : Kinds, from : Status, to : Status])
      /\ Len(trail') = n + 1
      /\ n \in Nat
      /\ DOMAIN trail = 1 .. n
      /\ DOMAIN trail' = 1 .. n + 1
      /\ \A i \in 1 .. n : trail'[i] = trail[i]
      /\ trail'[n + 1] = Event(c)
  BY <1>2, <1>3, <1>4, Appended
<1>6. workflow' = [status |-> MovesTo(Kind[c]), version |-> workflow.version + 1]
  BY <1>2 DEF Move
<1>7. pc'[c] = "answered" /\ \A d \in Call \ {c} : pc'[d] = pc[d]
  BY <1>1, GoesTo DEF Move
<1>8. /\ rowLock' \in Call \cup {None}
      /\ held' \in [Proposal -> Call \cup {None}]
      /\ rowLock \notin {None, c} => rowLock' = rowLock
      /\ \A p \in Proposal : held[p] \notin {None, c} => held'[p] = held[p]
  BY <1>1, Unlocks
<1>9. k \in Keys /\ Kind[c] \in Kinds /\ k # None
  BY KeyTyped
<1>10. TypeOK'
  <2>1. workflow' \in Workflow
    BY <1>1, <1>6, <1>9, MovesToStatus DEF TypeOK, Workflow
  <2>2. approval' \in [Proposal -> Keys \cup {None}] /\ notified' \subseteq Keys
    BY <1>1, <1>9 DEF Move, Approve, TypeOK
  <2>3. pc' \in [Call -> {"new", "ready", "open", "locked", "loaded", "editing",
                          "answered", "refused", "failed"}]
    BY <1>1 DEF Move, Goes, TypeOK
  <2>4. QED  BY <1>1, <1>5, <1>8, <2>1, <2>2, <2>3 DEF TypeOK
<1>11. TrailComplete'
  <2>1. workflow = [status |-> Last, version |-> n + 1]
    BY DEF IInv, TrailComplete
  <2>2. Last' = MovesTo(Kind[c])
    BY <1>2, <1>5 DEF Last
  <2>3. workflow' = [status |-> Last', version |-> Len(trail') + 1]
    BY <1>5, <1>6, <2>1, <2>2
  <2>4. ASSUME NEW i \in 1 .. n + 1
        PROVE  trail'[i].from = IF i = 1 THEN New.status ELSE trail'[i - 1].to
    <3>1. CASE i \in 1 .. n
      <4>1. trail[i].from = IF i = 1 THEN New.status ELSE trail[i - 1].to
        BY <1>5, <3>1 DEF IInv, TrailComplete
      <4>2. i # 1 => i - 1 \in 1 .. n
        BY <1>5, <3>1
      <4>3. QED  BY <1>5, <3>1, <4>1, <4>2
    <3>2. CASE i = n + 1
      <4>1. trail'[i].from = Last
        BY <1>2, <1>5, <2>1, <3>2
      <4>2. CASE n = 0
        BY <1>3, <3>2, <4>1, <4>2 DEF Last
      <4>3. CASE n # 0
        <5>1. n \in 1 .. n /\ trail # <<>>  BY <1>3, <1>5, <4>3
        <5>2. Last = trail[n].to  BY <5>1 DEF Last
        <5>3. i # 1 /\ i - 1 = n  BY <1>5, <3>2, <4>3
        <5>4. QED  BY <1>5, <4>1, <5>1, <5>2, <5>3
      <4>4. QED  BY <4>2, <4>3
    <3>3. QED  BY <1>5, <3>1, <3>2
  <2>5. QED  BY <1>5, <2>3, <2>4 DEF TrailComplete
<1>12. KeyUsedOnce'
  <2>1. \A i \in 1 .. n : trail[i].key # k
    BY <1>5 DEF Recorded
  <2>2. \A i, j \in 1 .. n : trail[i].key = trail[j].key => i = j
    BY <1>5 DEF IInv, KeyUsedOnce
  <2>3. \A i \in 1 .. n + 1 : i \in 1 .. n \/ i = n + 1
    BY <1>5
  <2>4. QED  BY <1>2, <1>5, <2>1, <2>2, <2>3 DEF KeyUsedOnce
<1>13. \A i \in DOMAIN trail' : EventInv(i)'
  <2>1. \A i \in 1 .. n : \E d \in Call : trail[i].key = Key[d] /\ trail[i].kind = Kind[d]
    BY <1>5 DEF IInv, EventInv
  <2>2. \A i \in 1 .. n + 1 : i \in 1 .. n \/ i = n + 1
    BY <1>5
  <2>3. QED  BY <1>2, <1>5, <2>1, <2>2 DEF EventInv
<1>14. AnswersARequest'
  <2>1. ASSUME NEW i \in 1 .. n + 1, trail'[i].kind \in Guarded
        PROVE  \E j \in 1 .. i - 1 : trail'[j].to = Requires(trail'[i].kind)
    <3>1. CASE i \in 1 .. n
      <4>1. PICK j \in 1 .. i - 1 : trail[j].to = Requires(trail[i].kind)
        BY <1>5, <2>1, <3>1 DEF IInv, AnswersARequest
      <4>2. j \in 1 .. n  BY <1>5, <3>1
      <4>3. QED  BY <1>5, <3>1, <4>1, <4>2
    <3>2. CASE i = n + 1
      <4>1. PICK j \in 1 .. n : trail[j].to = Requires(Kind[c])
        BY <1>1, <1>2, <1>5, <2>1, <3>2 DEF CallInv, Inside
      <4>2. i - 1 = n  BY <1>5, <3>2
      <4>3. QED  BY <1>2, <1>5, <3>2, <4>1, <4>2
    <3>3. QED  BY <1>5, <3>1, <3>2
  <2>2. QED  BY <1>5, <2>1 DEF AnswersARequest
<1>15. \A p \in Proposal : ApprovalInv(p)'
  <2>1. ASSUME NEW p \in Proposal PROVE ApprovalInv(p)'
    <3>1. CASE Kind[c] \in Decisions /\ p = Decides[c]
      BY <1>1, <3>1 DEF Move, Approve, ApprovalInv, TypeOK
    <3>2. CASE ~(Kind[c] \in Decisions /\ p = Decides[c])
      <4>1. approval'[p] = approval[p]
        BY <1>1, <3>2 DEF Move, Approve, TypeOK
      <4>2. QED  BY <4>1 DEF IInv, ApprovalInv
    <3>3. QED  BY <3>1, <3>2
  <2>2. QED  BY <2>1
<1>16. \A j \in Keys : KeyInv(j)'
  <2> SUFFICES ASSUME NEW j \in Keys PROVE KeyInv(j)'
    OBVIOUS
  <2>1. KeyInv(j)  BY DEF IInv
  <2>2. (\E i \in DOMAIN trail' : trail'[i].key = j /\ trail'[i].kind \in Decisions)
        <=> \/ \E i \in DOMAIN trail : trail[i].key = j /\ trail[i].kind \in Decisions
            \/ j = k /\ Kind[c] \in Decisions
    <3>1. \A i \in 1 .. n + 1 : i \in 1 .. n \/ i = n + 1  BY <1>5
    <3>2. \A i \in 1 .. n : i \in 1 .. n + 1  BY <1>5
    <3>3. n + 1 \in 1 .. n + 1  BY <1>5
    <3>4. QED  BY <1>2, <1>5, <3>1, <3>2, <3>3
  <2>3. CASE Kind[c] \notin Decisions
    <3>1. approval' = approval /\ notified' = notified
      BY <2>3 DEF Move, Approve
    <3>2. QED  BY <2>1, <2>2, <2>3, <3>1 DEF KeyInv
  <2>4. CASE Kind[c] \in Decisions
    <3>1. Decides[c] \in Proposal /\ approval[Decides[c]] = None
      BY <1>1, <2>4, DecisionTyped DEF CallInv, Inside
    <3>2. /\ approval'[Decides[c]] = k
          /\ \A p \in Proposal : p # Decides[c] => approval'[p] = approval[p]
          /\ notified' = notified \cup {k}
      BY <1>1, <2>4, <3>1 DEF Move, Approve, TypeOK
    <3>3. j # None  BY CallAssumption DEF Keys
    <3>4. (\E p \in Proposal : approval'[p] = j) <=> (j = k \/ \E p \in Proposal : approval[p] = j)
      BY <3>1, <3>2, <3>3
    <3>5. QED  BY <2>1, <2>2, <2>4, <3>2, <3>4 DEF KeyInv
  <2>5. QED  BY <2>3, <2>4
<1>17. ASSUME NEW d \in Call PROVE CallInv(d)'
  <2>1. Recorded(k)' /\ \A j \in Keys : Recorded(j) => Recorded(j)'
    <3>1. \A i \in 1 .. n : i \in 1 .. n + 1  BY <1>5
    <3>2. n + 1 \in 1 .. n + 1  BY <1>5
    <3>3. QED  BY <1>2, <1>5, <3>1, <3>2 DEF Recorded
  <2>2. CASE d = c
    BY <1>7, <2>1, <2>2 DEF CallInv, Inside
  <2>3. CASE d # c
    <3>1. CallInv(d) /\ pc'[d] = pc[d]  BY <1>7, <2>3 DEF IInv
    <3>2. d # None /\ c # None  BY CallAssumption
    <3>3. pc[d] # "locked"
      BY <1>1, <2>3, <3>1, <3>2 DEF CallInv
    <3>4. Inside(d) /\ Kind[d] \in Decisions =>
            held'[Decides[d]] = d /\ approval'[Decides[d]] = None
      <4>1. SUFFICES ASSUME Inside(d), Kind[d] \in Decisions
                     PROVE  held'[Decides[d]] = d /\ approval'[Decides[d]] = None
        OBVIOUS
      <4>2. /\ Decides[d] \in Proposal
            /\ held[Decides[d]] = d /\ approval[Decides[d]] = None
        BY <3>1, <4>1, DecisionTyped DEF CallInv
      <4>3. held'[Decides[d]] = d
        BY <1>8, <2>3, <3>2, <4>2
      <4>4. Kind[c] \in Decisions => Decides[c] # Decides[d]
        BY <1>1, <2>3, <4>2 DEF CallInv, Inside
      <4>5. QED  BY <1>1, <4>2, <4>3, <4>4 DEF Move, Approve, TypeOK
    <3>5. Inside(d) /\ Kind[d] \in Guarded =>
            \E i \in DOMAIN trail' : trail'[i].to = Requires(Kind[d])
      <4>1. \A i \in 1 .. n : i \in 1 .. n + 1  BY <1>5
      <4>2. QED  BY <1>5, <3>1, <4>1 DEF CallInv
    <3>6. pc[d] = "answered" /\ Kind[d] # "edit_action" => Recorded(Key[d])'
      BY <2>1, <3>1, KeyTyped DEF CallInv
    <3>7. QED  BY <3>1, <3>3, <3>4, <3>5, <3>6 DEF CallInv, Inside
  <2>4. QED  BY <2>2, <2>3
<1>18. QED  BY <1>10, <1>11, <1>12, <1>13, <1>14, <1>15, <1>16, <1>17 DEF IInv

\* Every action of a call, in the order in which Step names them.
LEMMA StepKeepsInv ==
    ASSUME IInv, NEW c \in Call, Step(c)
    PROVE  IInv'
<1>1. TypeOK /\ CallInv(c)
  BY DEF IInv
<1>2. Kind[c] \in Kinds /\ Key[c] \in Keys /\ c # None
  BY KeyTyped, CallAssumption
<1> USE DEF records
<1>3. CASE Check(c)
  <2>1. \E place \in {"ready", "refused"} : Goes(c, place)
    BY <1>3 DEF Check
  <2>2. TypeOK'
    BY <1>1, <1>3, <2>1 DEF Check, Goes, TypeOK
  <2>3. /\ Kind[c] \in Guarded
        /\ pc'[c] \in {"ready", "refused"} /\ \A d \in Call \ {c} : pc'[d] = pc[d]
    BY <1>1, <1>3, <2>1, GoesTo DEF Check
  <2>4. pc'[c] = "ready" => \E i \in DOMAIN trail : trail[i].to = Requires(Kind[c])
    <3>1. SUFFICES ASSUME pc'[c] = "ready"
                   PROVE  \E i \in DOMAIN trail : trail[i].to = Requires(Kind[c])
      OBVIOUS
    <3>2. workflow.status = Requires(Kind[c])
      BY <1>1, <1>3, <3>1 DEF Check, Goes, TypeOK
    <3>3. Last = Requires(Kind[c]) /\ New.status # Requires(Kind[c])
      BY <3>2 DEF IInv, TrailComplete, New, Requires
    <3>4. trail # <<>> /\ trail[Len(trail)].to = Requires(Kind[c])
      BY <3>3 DEF Last
    <3>5. Len(trail) \in DOMAIN trail
      BY <1>1, <3>4 DEF TypeOK
    <3>6. QED  BY <3>4, <3>5
  <2>5. Kind[c] \notin Decisions /\ Kind[c] # "edit_action"
    BY <2>3 DEF Guarded, Decisions
  <2>6. CallInv(c)'
    BY <1>3, <2>3, <2>4, <2>5 DEF Check, CallInv, Inside
  <2>7. QED  BY <1>3, <2>2, <2>3, <2>6, CallStep DEF Check
<1>4. CASE Route(c)
  <2>1. TypeOK'
    BY <1>1, <1>4 DEF Route, Goes, TypeOK
  <2>2. pc'[c] = "ready" /\ \A d \in Call \ {c} : pc'[d] = pc[d]
    BY <1>1, <1>4, GoesTo DEF Route
  <2>3. Kind[c] \notin Decisions \cup Guarded \cup {"edit_action"}
    BY <1>4 DEF Route, Routed, Decisions, Guarded
  <2>4. CallInv(c)'
    BY <1>4, <2>2, <2>3 DEF Route, CallInv, Inside
  <2>5. QED  BY <1>4, <2>1, <2>2, <2>4, CallStep DEF Route
<1>5. CASE Decide(c)
  <2> DEFINE p == Decides[c]
  <2>1. p \in Proposal /\ Kind[c] \in Decisions
    BY <1>5, DecisionTyped DEF Decide
  <2>2. \E place \in {"answered", "refused", "ready"} : Goes(c, place)
    BY <1>5 DEF Decide
  <2>3. TypeOK'
    BY <1>1, <1>5, <2>1, <2>2 DEF Decide, Goes, TypeOK
  <2>4. pc'[c] \in {"answered", "refused", "ready"} /\ \A d \in Call \ {c} : pc'[d] = pc[d]
    BY <1>1, <2>2, GoesTo
  <2>5. \A q \in Proposal : held[q] \notin {None, c} => held'[q] = held[q]
    BY <1>1, <1>5 DEF Decide, TypeOK
  <2>6. pc'[c] = "ready" => held'[p] = c /\ approval[p] = None
    BY <1>1, <1>5, <2>1 DEF Decide, Goes, TypeOK
  <2>7. pc'[c] = "answered" => Recorded(Key[c])
    <3>1. SUFFICES ASSUME pc'[c] = "answered" PROVE Recorded(Key[c])
      OBVIOUS
    <3>2. approval[p] = Key[c]
      BY <1>1, <1>5, <3>1 DEF Decide, Goes, TypeOK
    <3>3. KeyInv(Key[c])
      BY <1>2 DEF IInv
    <3>4. QED  BY <2>1, <3>2, <3>3 DEF KeyInv, Recorded
  <2>8. Kind[c] \notin Guarded /\ Kind[c] # "edit_action"
    BY <2>1 DEF Guarded, Decisions
  <2>9. CallInv(c)'
    BY <1>5, <2>4, <2>6, <2>7, <2>8 DEF Decide, CallInv, Inside, Recorded
  <2>10. QED  BY <1>5, <2>3, <2>4, <2>5, <2>9, CallStep DEF Decide
<1>6. CASE LookUp(c)
  <2>1. pc[c] = "ready"  BY <1>6 DEF LookUp
  <2>2. CASE Recorded(Key[c])
    <3>1. Kind[c] \notin Decisions
      BY <2>1, <2>2, NotRecorded DEF Inside
    <3>2. UNCHANGED <<records, seen>> /\ Goes(c, "answered") /\ Unlock(c)
      BY <1>6, <2>2, <3>1 DEF LookUp, Approve
    <3>3. /\ rowLock' \in Call \cup {None}
          /\ held' \in [Proposal -> Call \cup {None}]
          /\ rowLock \notin {None, c} => rowLock' = rowLock
          /\ \A p \in Proposal : held[p] \notin {None, c} => held'[p] = held[p]
      BY <1>1, <3>2, Unlocks
    <3>4. TypeOK'
      BY <1>1, <3>2, <3>3 DEF Goes, TypeOK
    <3>5. pc'[c] = "answered" /\ \A d \in Call \ {c} : pc'[d] = pc[d]
      BY <1>1, <3>2, GoesTo
    <3>6. CallInv(c)'
      BY <2>2, <3>2, <3>5 DEF CallInv, Inside, Recorded
    <3>7. QED  BY <3>2, <3>3, <3>4, <3>5, <3>6, CallStep
  <2>3. CASE ~Recorded(Key[c])
    <3>1. UNCHANGED <<records, seen, rowLock, held>> /\ Goes(c, "open")
      BY <1>6, <2>3 DEF LookUp
    <3>2. TypeOK'
      BY <1>1, <3>1 DEF Goes, TypeOK
    <3>3. pc'[c] = "open" /\ \A d \in Call \ {c} : pc'[d] = pc[d]
      BY <1>1, <3>1, GoesTo
    <3>4. CallInv(c)'
      BY <1>1, <2>1, <3>1, <3>3 DEF CallInv, Inside
    <3>5. QED  BY <3>1, <3>2, <3>3, <3>4, CallStep
  <2>4. QED  BY <2>2, <2>3
<1>7. CASE LockRow(c)
  <2>1. TypeOK'
    BY <1>1, <1>7 DEF LockRow, Goes, TypeOK
  <2>2. pc'[c] = "locked" /\ \A d \in Call \ {c} : pc'[d] = pc[d]
    BY <1>1, <1>7, GoesTo DEF LockRow
  <2>3. seen'[c] = workflow /\ \A d \in Call \ {c} : seen'[d] = seen[d]
    BY <1>1, <1>7 DEF LockRow, TypeOK
  <2>4. CallInv(c)'
    BY <1>1, <1>7, <2>2, <2>3 DEF LockRow, CallInv, Inside
  <2>5. QED  BY <1>7, <2>1, <2>2, <2>3, <2>4, CallStep DEF LockRow
<1>8. CASE Apply(c)
  <2>1. CASE ~Recorded(Key[c])
    BY <1>8, <2>1, MoveStep DEF Apply
  <2>2. CASE Recorded(Key[c])
    <3>1. UNCHANGED <<records, seen>> /\ Goes(c, "failed") /\ Unlock(c)
      BY <1>8, <2>2 DEF Apply
    <3>2. /\ rowLock' \in Call \cup {None}
          /\ held' \in [Proposal -> Call \cup {None}]
          /\ rowLock \notin {None, c} => rowLock' = rowLock
          /\ \A p \in Proposal : held[p] \notin {None, c} => held'[p] = held[p]
      BY <1>1, <3>1, Unlocks
    <3>3. TypeOK'
      BY <1>1, <3>1, <3>2 DEF Goes, TypeOK
    <3>4. pc'[c] = "failed" /\ \A d \in Call \ {c} : pc'[d] = pc[d]
      BY <1>1, <3>1, GoesTo
    <3>5. CallInv(c)'
      BY <3>4 DEF CallInv, Inside
    <3>6. QED  BY <3>1, <3>2, <3>3, <3>4, <3>5, CallStep
  <2>3. QED  BY <2>1, <2>2
<1>9. CASE Fail(c)
  <2>1. UNCHANGED <<records, seen>> /\ Goes(c, "failed") /\ Unlock(c)
    BY <1>9 DEF Fail
  <2>2. /\ rowLock' \in Call \cup {None}
        /\ held' \in [Proposal -> Call \cup {None}]
        /\ rowLock \notin {None, c} => rowLock' = rowLock
        /\ \A p \in Proposal : held[p] \notin {None, c} => held'[p] = held[p]
    BY <1>1, <2>1, Unlocks
  <2>3. TypeOK'
    BY <1>1, <2>1, <2>2 DEF Goes, TypeOK
  <2>4. pc'[c] = "failed" /\ \A d \in Call \ {c} : pc'[d] = pc[d]
    BY <1>1, <2>1, GoesTo
  <2>5. CallInv(c)'
    BY <2>4 DEF CallInv, Inside
  <2>6. QED  BY <2>1, <2>2, <2>3, <2>4, <2>5, CallStep
<1>10. CASE Retry(c)
  <2>1. TypeOK'
    BY <1>1, <1>10 DEF Retry, Goes, TypeOK
  <2>2. pc'[c] = "new" /\ \A d \in Call \ {c} : pc'[d] = pc[d]
    BY <1>1, <1>10, GoesTo DEF Retry
  <2>3. CallInv(c)'
    BY <2>2 DEF CallInv, Inside
  <2>4. QED  BY <1>10, <2>1, <2>2, <2>3, CallStep DEF Retry
<1>11. CASE LoadAction(c)
  <2>1. \E place \in {"loaded", "refused"} : Goes(c, place)
    BY <1>11 DEF LoadAction
  <2>2. TypeOK'
    BY <1>1, <1>11, <2>1 DEF LoadAction, Goes, TypeOK
  <2>3. pc'[c] \in {"loaded", "refused"} /\ \A d \in Call \ {c} : pc'[d] = pc[d]
    BY <1>1, <2>1, GoesTo
  <2>4. Kind[c] = "edit_action" /\ \A d \in Call \ {c} : seen'[d] = seen[d]
    BY <1>1, <1>11 DEF LoadAction, TypeOK
  <2>5. CallInv(c)'
    BY <2>3, <2>4 DEF CallInv, Inside
  <2>6. QED  BY <1>11, <2>2, <2>3, <2>4, <2>5, CallStep DEF LoadAction
<1>12. CASE CheckAction(c)
  <2>1. \E place \in {"editing", "refused"} : Goes(c, place)
    BY <1>12 DEF CheckAction
  <2>2. TypeOK'
    BY <1>1, <1>12, <2>1 DEF CheckAction, Goes, TypeOK
  <2>3. pc'[c] \in {"editing", "refused"} /\ \A d \in Call \ {c} : pc'[d] = pc[d]
    BY <1>1, <2>1, GoesTo
  <2>4. Kind[c] = "edit_action"
    BY <1>1, <1>12 DEF CheckAction, CallInv
  <2>5. CallInv(c)'
    BY <2>3, <2>4 DEF CallInv, Inside
  <2>6. QED  BY <1>12, <2>2, <2>3, <2>5, CallStep DEF CheckAction
<1>13. CASE WriteAction(c)
  <2>1. \E place \in {"answered", "refused"} : Goes(c, place)
    BY <1>13 DEF WriteAction
  <2>2. TypeOK'
    BY <1>1, <1>13, <2>1 DEF WriteAction, Goes, TypeOK
  <2>3. pc'[c] \in {"answered", "refused"} /\ \A d \in Call \ {c} : pc'[d] = pc[d]
    BY <1>1, <2>1, GoesTo
  <2>4. Kind[c] = "edit_action"
    BY <1>1, <1>13 DEF WriteAction, CallInv
  <2>5. CallInv(c)'
    BY <2>3, <2>4 DEF CallInv, Inside
  <2>6. QED  BY <1>13, <2>2, <2>3, <2>5, CallStep DEF WriteAction
<1>14. QED
  BY <1>3, <1>4, <1>5, <1>6, <1>7, <1>8, <1>9, <1>10, <1>11, <1>12, <1>13 DEF Step

\* The invariant looks at the variables only.
LEMMA InvStutter == IInv /\ UNCHANGED vars => IInv'
<1>1. SUFFICES ASSUME IInv, UNCHANGED vars PROVE IInv'
  OBVIOUS
<1>2. TypeOK' /\ TrailComplete' /\ KeyUsedOnce' /\ AnswersARequest'
  BY <1>1 DEF IInv, vars, TypeOK, TrailComplete, Last, KeyUsedOnce, AnswersARequest
<1>3. \A c \in Call : CallInv(c)'
  BY <1>1 DEF IInv, vars, CallInv, Inside, Recorded
<1>4. (\A i \in DOMAIN trail : EventInv(i))' /\ (\A p \in Proposal : ApprovalInv(p))'
      /\ (\A k \in Keys : KeyInv(k))'
  BY <1>1 DEF IInv, vars, EventInv, ApprovalInv, KeyInv
<1>5. QED  BY <1>2, <1>3, <1>4 DEF IInv

\* The inductive invariant on which the other theorems rest.
THEOREM InvariantHolds == Spec => []IInv
<1>1. IInv /\ [Next]_vars => IInv'
  BY StepKeepsInv, InvStutter DEF Next, Done
<1>2. QED  BY <1>1, InvInit, PTL DEF Spec

---------------------------------------------------------------------------
(***************************************************************************)
(* The theorems.                                                           *)
(***************************************************************************)

\* Type correctness.
THEOREM TypeCorrect == Spec => []TypeOK
<1>1. IInv => TypeOK  BY DEF IInv
<1>2. QED  BY <1>1, InvariantHolds, PTL

\* The events of transition are the whole history of the workflow's row.
THEOREM TrailIsComplete == Spec => []TrailComplete
<1>1. IInv => TrailComplete  BY DEF IInv
<1>2. QED  BY <1>1, InvariantHolds, PTL

\* A call repeated under its idempotency key moves the case once.
THEOREM KeysApplyOnce == Spec => []AppliedOnce
<1>1. IInv => AppliedOnce  BY DEF IInv, KeyUsedOnce, CallInv, AppliedOnce
<1>2. QED  BY <1>1, InvariantHolds, PTL

\* Approval, notification and move of a decision stand or fall together.
THEOREM DecisionsAreWhole == Spec => []DecisionIsWhole
<1>1. ASSUME IInv, NEW p \in Proposal, NEW q \in Proposal,
             approval[p] = approval[q], approval[p] # None
      PROVE  p = q
  BY <1>1, SameKey DEF IInv, ApprovalInv
<1>2. IInv => DecisionIsWhole
  BY <1>1 DEF IInv, KeyInv, DecisionIsWhole
<1>3. QED  BY <1>2, InvariantHolds, PTL

\* Owner and engineering answer only for a case that was handed to them.
THEOREM RequestsAnswered == Spec => []AnswersARequest
<1>1. IInv => AnswersARequest  BY DEF IInv
<1>2. QED  BY <1>1, InvariantHolds, PTL

\* An edit that was acknowledged stays answered with what it had loaded.
LEMMA AnsweredStays ==
    ASSUME TypeOK, NEW c \in Call, Step(c), NEW d \in Call, pc[d] = "answered"
    PROVE  pc'[d] = "answered" /\ seen'[d] = seen[d]
<1>1. CASE d = c
  BY <1>1 DEF Step, Check, Route, Decide, LookUp, LockRow, Apply, LoadAction, CheckAction,
     WriteAction, Fail, Retry
<1>2. CASE d # c
  BY <1>2 DEF Step, Check, Route, Decide, LookUp, LockRow, Apply, Move, LoadAction, CheckAction,
     WriteAction, Fail, Retry, Goes, TypeOK
<1>3. QED  BY <1>1, <1>2

\* saveActionRepair never overwrites an edit that was acknowledged after its token was read.
THEOREM EditsAreKept == Spec => []NoLostEdit
<1>1. Init => NoLostEdit
  BY DEF Init, NoLostEdit
<1>2. ASSUME IInv, NoLostEdit, NEW c \in Call, Step(c) PROVE NoLostEdit'
  <2>1. TypeOK /\ c # None  BY <1>2, CallAssumption DEF IInv
  <2> DEFINE Edited(d) == pc[d] = "answered" /\ Kind[d] = "edit_action"
  <2>2. SUFFICES ASSUME NEW d \in Call, pc'[d] = "answered", Kind[d] = "edit_action"
                 PROVE  \/ metadata' = d
                        \/ \E e \in Call : /\ pc'[e] = "answered" /\ Kind[e] = "edit_action"
                                           /\ seen'[e] = d
    BY DEF NoLostEdit
  <2>3. CASE WriteAction(c) /\ metadata = seen[c]
    <3>1. metadata' = c /\ pc'[c] = "answered" /\ seen' = seen
      BY <2>1, <2>3 DEF WriteAction, Goes, TypeOK
    <3>2. Kind[c] = "edit_action"
      BY <1>2, <2>3 DEF WriteAction, IInv, CallInv
    <3>3. CASE d = c  BY <3>1, <3>3
    <3>4. CASE d # c
      <4>1. pc[d] = "answered"
        BY <2>1, <2>2, <2>3, <3>4 DEF WriteAction, Goes, TypeOK
      <4>2. CASE metadata = d  BY <2>3, <3>1, <3>2, <4>2
      <4>3. CASE \E e \in Call : Edited(e) /\ seen[e] = d
        BY <1>2, <2>1, <4>3, AnsweredStays
      <4>4. QED  BY <1>2, <2>2, <4>1, <4>2, <4>3 DEF NoLostEdit
    <3>5. QED  BY <3>3, <3>4
  <2>4. CASE ~(WriteAction(c) /\ metadata = seen[c])
    <3>1. metadata' = metadata
      BY <1>2, <2>4 DEF Step, Check, Route, Decide, LookUp, LockRow, Apply, LoadAction,
         CheckAction, WriteAction, Fail, Retry, records
    <3>2. pc[d] = "answered"
      <4>1. CASE d = c
        <5>1. ~Inside(c) /\ ~Check(c) /\ ~Route(c)
          BY <1>2, <2>2, <4>1 DEF IInv, CallInv, Check, Route, Guarded, Routed
        <5>2. ~Decide(c)  BY <2>2, <4>1 DEF Decide, Decisions
        <5>3. ~LookUp(c) /\ ~LockRow(c) /\ ~Apply(c)
          BY <5>1 DEF LookUp, LockRow, Apply, Inside
        <5>4. QED
          BY <1>2, <2>1, <2>2, <2>4, <4>1, <5>1, <5>2, <5>3
             DEF Step, LoadAction, CheckAction, WriteAction, Fail, Retry, Goes, TypeOK
      <4>2. CASE d # c
        BY <1>2, <2>1, <2>2, <4>2
           DEF Step, Check, Route, Decide, LookUp, LockRow, Apply, Move, LoadAction, CheckAction,
               WriteAction, Fail, Retry, Goes, TypeOK
      <4>3. QED  BY <4>1, <4>2
    <3>3. CASE metadata = d  BY <3>1, <3>3
    <3>4. CASE \E e \in Call : Edited(e) /\ seen[e] = d
      BY <1>2, <2>1, <3>4, AnsweredStays
    <3>5. QED  BY <1>2, <2>2, <3>2, <3>3, <3>4 DEF NoLostEdit
  <2>5. QED  BY <2>3, <2>4
<1>3. NoLostEdit /\ UNCHANGED vars => NoLostEdit'
  BY DEF NoLostEdit, vars
<1>4. IInv /\ NoLostEdit /\ [Next]_vars => NoLostEdit'
  BY <1>2, <1>3 DEF Next, Done
<1>5. QED  BY <1>1, <1>4, InvariantHolds, PTL DEF Spec

---------------------------------------------------------------------------
(***************************************************************************)
(* The locks.                                                              *)
(***************************************************************************)

\* Who holds the case's row has read it and is about to commit; who holds a proposal's
\* row is deciding that proposal.
LocksInv ==
    /\ \A c \in Call : rowLock = c => pc[c] = "locked"
    /\ \A p \in Proposal : \A c \in Call :
          held[p] = c => Inside(c) /\ Kind[c] \in Decisions /\ Decides[c] = p

\* A step of one call moves no other call and gives it no lock.
LEMMA LocksStep ==
    ASSUME LocksInv, NEW c \in Call,
           \A d \in Call \ {c} : pc'[d] = pc[d],
           \A d \in Call \ {c} : rowLock' = d => rowLock = d,
           \A p \in Proposal : \A d \in Call \ {c} : held'[p] = d => held[p] = d,
           rowLock' = c => pc'[c] = "locked",
           \A p \in Proposal :
              held'[p] = c => Inside(c)' /\ Kind[c] \in Decisions /\ Decides[c] = p
    PROVE  LocksInv'
<1>1. ASSUME NEW d \in Call, rowLock' = d PROVE pc'[d] = "locked"
  BY <1>1 DEF LocksInv
<1>2. ASSUME NEW p \in Proposal, NEW d \in Call, held'[p] = d
      PROVE  Inside(d)' /\ Kind[d] \in Decisions /\ Decides[d] = p
  BY <1>2 DEF LocksInv, Inside
<1>3. QED  BY <1>1, <1>2 DEF LocksInv

\* The end of a transaction leaves its call without a lock.
LEMMA UnlocksAll ==
    ASSUME TypeOK, NEW c \in Call, Unlock(c)
    PROVE  /\ rowLock' # c /\ \A d \in Call : rowLock' = d => rowLock = d
           /\ \A p \in Proposal : held'[p] # c /\ \A d \in Call : held'[p] = d => held[p] = d
<1>1. None \notin Call  BY CallAssumption
<1>2. QED  BY <1>1 DEF Unlock, TypeOK

LEMMA StepKeepsLocks ==
    ASSUME IInv, LocksInv, NEW c \in Call, Step(c)
    PROVE  LocksInv'
<1>1. TypeOK /\ CallInv(c) /\ None \notin Call
  BY CallAssumption DEF IInv
<1>2. \A d \in Call \ {c} : pc'[d] = pc[d]
  BY <1>1 DEF Step, Check, Route, Decide, LookUp, LockRow, Apply, Move, LoadAction, CheckAction,
     WriteAction, Fail, Retry, Goes, TypeOK
<1>3. CASE Unlock(c)
  BY <1>1, <1>2, <1>3, UnlocksAll, LocksStep
<1>4. CASE UNCHANGED <<rowLock, held>> /\ ~Inside(c)
  <2>1. rowLock # c /\ \A p \in Proposal : held[p] # c
    BY <1>4 DEF LocksInv, Inside
  <2>2. QED  BY <1>2, <1>4, <2>1, LocksStep
<1>5. CASE UNCHANGED <<rowLock, held>> /\ LookUp(c) /\ ~Recorded(Key[c])
  <2>1. pc[c] = "ready" /\ pc'[c] = "open"
    BY <1>1, <1>5, GoesTo DEF LookUp
  <2>2. QED  BY <1>2, <1>5, <2>1, LocksStep DEF LocksInv, Inside
<1>6. CASE LockRow(c)
  <2>1. pc[c] = "open" /\ pc'[c] = "locked" /\ rowLock' = c /\ held' = held
    BY <1>1, <1>6, GoesTo DEF LockRow, records
  <2>2. QED  BY <1>2, <2>1, LocksStep DEF LocksInv, Inside
<1>7. CASE Decide(c) /\ Goes(c, "ready")
  <2>1. pc[c] = "new" /\ Kind[c] \in Decisions /\ pc'[c] = "ready" /\ rowLock' = rowLock
    BY <1>1, <1>7, GoesTo DEF Decide
  <2>2. rowLock # c /\ \A p \in Proposal : held[p] # c
    BY <2>1 DEF LocksInv, Inside
  <2>3. \A p \in Proposal : held'[p] = held[p] \/ (p = Decides[c] /\ held'[p] = c)
    BY <1>1, <1>7 DEF Decide, TypeOK
  <2>4. QED  BY <1>2, <2>1, <2>2, <2>3, LocksStep DEF Inside
<1>8. \/ Unlock(c)
      \/ UNCHANGED <<rowLock, held>> /\ ~Inside(c)
      \/ UNCHANGED <<rowLock, held>> /\ LookUp(c) /\ ~Recorded(Key[c])
      \/ LockRow(c)
      \/ Decide(c) /\ Goes(c, "ready")
  <2>1. ASSUME Inside(c)
        PROVE  LookUp(c) \/ LockRow(c) \/ Apply(c) \/ Fail(c)
    BY <2>1 DEF Step, Inside, Check, Route, Decide, LoadAction, CheckAction, WriteAction, Retry
  <2>2. ASSUME LookUp(c) \/ Apply(c) \/ Fail(c)
        PROVE  Unlock(c) \/ (UNCHANGED <<rowLock, held>> /\ LookUp(c) /\ ~Recorded(Key[c]))
    BY <2>2 DEF LookUp, Apply, Fail
  <2>3. ASSUME ~Inside(c)
        PROVE  \/ Unlock(c)
               \/ UNCHANGED <<rowLock, held>>
               \/ Decide(c) /\ Goes(c, "ready")
    BY <2>3 DEF Step, Inside, Check, Route, Decide, LookUp, LockRow, Apply, LoadAction,
       CheckAction, WriteAction, Fail, Retry, records
  <2>4. QED  BY <2>1, <2>2, <2>3
<1>9. QED  BY <1>3, <1>4, <1>5, <1>6, <1>7, <1>8

\* No lock outlives the transaction that took it, and who holds the case's row waits for
\* nobody: the calls that wait for it, a proposal's row in hand or not, wait in no circle.
THEOREM LocksAreGivenBack == Spec => []LocksInv
<1>1. Init => LocksInv
  BY CallAssumption DEF Init, LocksInv
<1>2. LocksInv /\ UNCHANGED vars => LocksInv'
  BY DEF LocksInv, Inside, vars
<1>3. IInv /\ LocksInv /\ [Next]_vars => LocksInv'
  BY <1>2, StepKeepsLocks DEF Next, Done
<1>4. QED  BY <1>1, <1>3, InvariantHolds, PTL DEF Spec

---------------------------------------------------------------------------
(***************************************************************************)
(* The refinement of CaseLedger.                                           *)
(***************************************************************************)

\* What the edit of a call replaced, as the ledger has it.
Based(c) == IF c \in Edits \cap Answered THEN seen[c] ELSE None

LEMMA LedgerInit == Init => Ledger!Init
<1> SUFFICES ASSUME Init PROVE Ledger!Init
  OBVIOUS
<1>1. Answered = {}
  BY DEF Init, Answered
<1>2. [c \in Call |-> IF c \in Edits \cap Answered THEN seen[c] ELSE None] = [c \in Call |-> None]
  BY <1>1
<1>3. QED  BY <1>1, <1>2 DEF Init, Ledger!Init

\* Where a step leaves a call decides whether the call counts as answered.
LEMMA AnsweredGoes ==
    ASSUME TypeOK, NEW c \in Call, NEW place, Goes(c, place), c \notin Answered
    PROVE  Answered' = IF place = "answered" THEN Answered \cup {c} ELSE Answered
<1>1. pc'[c] = place /\ \A d \in Call \ {c} : pc'[d] = pc[d]
  BY GoesTo
<1>2. QED  BY <1>1 DEF Answered

\* A step that answers nobody and leaves the records alone is not seen.
LEMMA LedgerStutter ==
    ASSUME UNCHANGED records, Answered' = Answered,
           \A d \in Edits \cap Answered : seen'[d] = seen[d]
    PROVE  UNCHANGED Ledger!ledger
<1>1. \A d \in Call : Based(d)' = Based(d)
  BY DEF Based, Edits
<1>2. [d \in Call |-> Based(d)]' = [d \in Call |-> Based(d)]
  BY <1>1
<1>3. QED  BY <1>2 DEF Ledger!ledger, Based, records

\* The answer of a key that has moved the case before.
LEMMA LedgerRepeat ==
    ASSUME TypeOK, NEW c \in Call, c \notin Answered, Kind[c] # "edit_action",
           Recorded(Key[c]), Goes(c, "answered"), UNCHANGED <<records, seen>>
    PROVE  Ledger!Repeat(c)
<1>1. Answered' = Answered \cup {c}
  BY AnsweredGoes
<1>2. c \notin Edits
  BY DEF Edits
<1>3. \A d \in Call : Based(d)' = Based(d)
  BY <1>1, <1>2 DEF Based, Edits
<1>4. [d \in Call |-> Based(d)]' = [d \in Call |-> Based(d)]
  BY <1>3
<1>5. QED
  BY <1>1, <1>2, <1>4 DEF Ledger!Repeat, Ledger!Entered, Recorded, Based, records

\* The commit of a transition.
LEMMA LedgerEnter ==
    ASSUME IInv, NEW c \in Call, pc[c] = "locked", ~Recorded(Key[c]),
           Move(c), UNCHANGED <<metadata, seen>>
    PROVE  Ledger!Enter(c)
<1>1. TypeOK /\ CallInv(c)
  BY DEF IInv
<1>2. c \notin Answered \cup Edits
  BY <1>1 DEF Answered, Edits, CallInv, Inside
<1>3. Answered' = Answered \cup {c}
  BY <1>1, <1>2, AnsweredGoes DEF Move
<1>4. \A d \in Call : Based(d)' = Based(d)
  BY <1>2, <1>3 DEF Based, Edits
<1>5. [d \in Call |-> Based(d)]' = [d \in Call |-> Based(d)]
  BY <1>4
<1>6. seen[c] = workflow
  BY <1>1 DEF CallInv
<1>7. /\ trail' = Append(trail, [key |-> Key[c], kind |-> Kind[c],
                                 from |-> workflow.status, to |-> MovesTo(Kind[c])])
      /\ workflow' = [status |-> MovesTo(Kind[c]), version |-> workflow.version + 1]
  BY <1>6 DEF Move, Event
<1>8. Kind[c] \in Guarded => \E i \in DOMAIN trail : trail[i].to = Requires(Kind[c])
  BY <1>1 DEF CallInv, Inside
<1>9. Ledger!Approve(c)
  <2>1. CASE Kind[c] \in Decisions
    <3>1. Decides[c] # None /\ approval[Decides[c]] = None
      BY <1>1, <2>1, CallAssumption DEF CallInv, Inside
    <3>2. QED  BY <2>1, <3>1 DEF Move, Approve, Ledger!Approve
  <2>2. CASE Kind[c] \notin Decisions
    BY <2>2, CallAssumption DEF Move, Approve, Ledger!Approve
  <2>3. QED  BY <2>1, <2>2
<1>10. QED
  BY <1>2, <1>3, <1>5, <1>7, <1>8, <1>9
     DEF Ledger!Enter, Ledger!Entered, Recorded, Based

\* The save of an edit whose token is still good.
LEMMA LedgerEdit ==
    ASSUME IInv, NEW c \in Call, WriteAction(c), metadata = seen[c]
    PROVE  Ledger!Edit(c)
<1>1. TypeOK /\ CallInv(c)
  BY DEF IInv
<1>2. /\ pc[c] = "editing" /\ metadata' = c /\ Goes(c, "answered")
      /\ UNCHANGED <<workflow, trail, approval, notified, seen>>
  BY DEF WriteAction
<1>3. c \in Edits \ Answered
  BY <1>1, <1>2 DEF CallInv, Edits, Answered
<1>4. Answered' = Answered \cup {c}
  BY <1>1, <1>2, <1>3, AnsweredGoes
<1>5. \A d \in Call : Based(d)' = IF d = c THEN metadata ELSE Based(d)
  BY <1>2, <1>3, <1>4 DEF Based, Edits
<1>6. [d \in Call |-> Based(d)]' = [[d \in Call |-> Based(d)] EXCEPT ![c] = metadata]
  BY <1>5
<1>7. QED  BY <1>2, <1>3, <1>4, <1>6 DEF Ledger!Edit, Based

\* Every action of a call, in the order in which Step names them.
LEMMA LedgerStep ==
    ASSUME IInv, NEW c \in Call, Step(c)
    PROVE  Ledger!Next \/ UNCHANGED Ledger!ledger
<1>1. TypeOK /\ CallInv(c)
  BY DEF IInv
<1>2. ASSUME NEW place, Goes(c, place), c \notin Answered, place # "answered",
             UNCHANGED records, \A d \in Edits \cap Answered : seen'[d] = seen[d]
      PROVE  UNCHANGED Ledger!ledger
  BY <1>1, <1>2, AnsweredGoes, LedgerStutter
<1>3. c \notin Answered
  BY DEF Step, Check, Route, Decide, LookUp, LockRow, Apply, LoadAction, CheckAction,
     WriteAction, Fail, Retry, Answered
<1> USE DEF records
<1>4. CASE Check(c)
  <2>1. \E place \in {"ready", "refused"} : Goes(c, place)
    BY <1>4 DEF Check
  <2>2. QED  BY <1>2, <1>3, <1>4, <2>1 DEF Check
<1>5. CASE Route(c)
  BY <1>2, <1>3, <1>5 DEF Route
<1>6. CASE Decide(c)
  <2>1. UNCHANGED <<records, seen>> /\ Kind[c] \in Decisions
    BY <1>6 DEF Decide
  <2>2. CASE approval[Decides[c]] = Key[c] /\ Goes(c, "answered")
    <3>1. Decides[c] \in Proposal /\ Kind[c] # "edit_action"
      BY <2>1, DecisionTyped DEF Decisions
    <3>2. KeyInv(Key[c])
      BY KeyTyped DEF IInv
    <3>3. Recorded(Key[c])
      BY <2>2, <3>1, <3>2 DEF KeyInv, Recorded
    <3>4. Ledger!Repeat(c)
      BY <1>1, <1>3, <2>1, <2>2, <3>1, <3>3, LedgerRepeat
    <3>5. QED  BY <3>4 DEF Ledger!Next
  <2>3. CASE Goes(c, "refused") \/ Goes(c, "ready")
    BY <1>2, <1>3, <2>1, <2>3
  <2>4. QED  BY <1>6, <2>2, <2>3 DEF Decide
<1>7. CASE LookUp(c)
  <2>1. CASE Recorded(Key[c])
    <3>1. pc[c] = "ready" /\ Kind[c] \notin Decisions /\ Kind[c] # "edit_action"
      BY <1>1, <1>7, <2>1, NotRecorded DEF LookUp, Inside, CallInv
    <3>2. UNCHANGED <<records, seen>> /\ Goes(c, "answered")
      BY <1>7, <2>1, <3>1 DEF LookUp, Approve
    <3>3. Ledger!Repeat(c)
      BY <1>1, <1>3, <2>1, <3>1, <3>2, LedgerRepeat
    <3>4. QED  BY <3>3 DEF Ledger!Next
  <2>2. CASE ~Recorded(Key[c])
    BY <1>2, <1>3, <1>7, <2>2 DEF LookUp
  <2>3. QED  BY <2>1, <2>2
<1>8. CASE LockRow(c)
  <2>1. \A d \in Edits \cap Answered : seen'[d] = seen[d]
    BY <1>1, <1>3, <1>8 DEF LockRow, TypeOK, Answered
  <2>2. QED  BY <1>2, <1>3, <1>8, <2>1 DEF LockRow
<1>9. CASE Apply(c)
  <2>1. CASE ~Recorded(Key[c])
    BY <1>9, <2>1, LedgerEnter DEF Apply, Ledger!Next
  <2>2. CASE Recorded(Key[c])
    BY <1>2, <1>3, <1>9, <2>2 DEF Apply
  <2>3. QED  BY <2>1, <2>2
<1>10. CASE Fail(c)
  BY <1>2, <1>3, <1>10 DEF Fail
<1>11. CASE Retry(c)
  BY <1>2, <1>3, <1>11 DEF Retry
<1>12. CASE LoadAction(c)
  <2>1. \E place \in {"loaded", "refused"} : Goes(c, place)
    BY <1>12 DEF LoadAction
  <2>2. \A d \in Edits \cap Answered : seen'[d] = seen[d]
    BY <1>1, <1>3, <1>12 DEF LoadAction, TypeOK, Answered
  <2>3. QED  BY <1>2, <1>3, <1>12, <2>1, <2>2 DEF LoadAction
<1>13. CASE CheckAction(c)
  <2>1. \E place \in {"editing", "refused"} : Goes(c, place)
    BY <1>13 DEF CheckAction
  <2>2. QED  BY <1>2, <1>3, <1>13, <2>1 DEF CheckAction
<1>14. CASE WriteAction(c)
  <2>1. CASE metadata = seen[c]
    BY <1>14, <2>1, LedgerEdit DEF Ledger!Next
  <2>2. CASE metadata # seen[c]
    BY <1>2, <1>3, <1>14, <2>2 DEF WriteAction
  <2>3. QED  BY <2>1, <2>2
<1>15. QED
  BY <1>4, <1>5, <1>6, <1>7, <1>8, <1>9, <1>10, <1>11, <1>12, <1>13, <1>14 DEF Step

\* Every behaviour of the calls is one of the ledger: complete entries, one at a time.
THEOREM LedgerImplemented == Spec => ImplementsLedger
<1>1. UNCHANGED vars => UNCHANGED Ledger!ledger
  <2>1. SUFFICES ASSUME UNCHANGED vars PROVE UNCHANGED Ledger!ledger
    OBVIOUS
  <2>2. UNCHANGED records /\ Answered' = Answered /\ seen' = seen
    BY <2>1 DEF vars, records, Answered
  <2>3. QED  BY <2>2, LedgerStutter
<1>2. IInv /\ [Next]_vars => [Ledger!Next]_(Ledger!ledger)
  BY <1>1, LedgerStep DEF Next, Done
<1>3. QED
  BY <1>2, LedgerInit, InvariantHolds, PTL DEF Spec, ImplementsLedger, Ledger!Spec
=============================================================================

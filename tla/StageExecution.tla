--------------------------- MODULE StageExecution ---------------------------
(***************************************************************************)
(* The durable execution of the stages of a run: the claim / attempt /     *)
(* finalize protocol of the workers (orchestration.ts over                 *)
(* execution-store.ts) and the reconciler of the DLQ process               *)
(* (dlq-reconciler.ts), which share the rows of ZapRunExecution,           *)
(* ZapRunExecutionAttempt and ZapRunRetry.                                 *)
(*                                                                         *)
(* Every action is one database statement, one transaction or one provider *)
(* call; between two of them any other process may run, time may pass and  *)
(* the process may die.  A transaction that throws STALE changes nothing.  *)
(***************************************************************************)
EXTENDS Integers, FiniteSets, ActionHandlers

CONSTANTS
    Key,          \* the (zapRunId, stage) pairs in play
    Worker,       \* concurrent executions of executeStage
    Reconciler,   \* DLQ processes
    Unsupported,  \* the keys whose action type has no handler
    Legacy,       \* the keys that may have a row older than claim tokens
    Lease,        \* LEASE_DURATION_MS
    Skew,         \* how far a process's clock may be from the true time
    Horizon       \* bound: the last instant of the clock

ASSUME StageAssumption ==
    /\ IsFiniteSet(Key)
    /\ Unsupported \subseteq Key
    /\ Legacy \subseteq Key
    /\ Lease \in Nat \ {0}
    /\ Skew \in Nat
    /\ Horizon \in Nat

NoToken == 0        \* claimToken null
NoLease == 0        \* leaseUntil null: like a past lease, over at any instant
NoKey   == "none"

VARIABLES
    execution,    \* ZapRunExecution, one row per key
    attempt,      \* ZapRunExecutionAttempt of the key's row
    failure,      \* ZapRunRetry of the key's row (executionId is unique)
    minted,       \* claim tokens stored so far; a token also orders createdAt
    now,          \* true time
    sends,        \* history: messages put on the wire for the key
    delivered,    \* history: the provider delivered one of them
    pc,           \* where each process is ...
    at,           \* ... the key it is working on ...
    token,        \* ... the claim token it holds or has read ...
    timestamp,    \* ... the instant it compares leases with ...
    evidence,     \* ... what its provider call came to ...
    resolution    \* ... and what its executeStage returned

vars == <<execution, attempt, failure, minted, now, sends, delivered,
          pc, at, token, timestamp, evidence, resolution>>

Process == Worker \cup Reconciler

Status    == {"absent", "PENDING", "SUCCESS", "FAILED"}
Outcome   == FailureOutcome \cup {"accepted"}
Row       == [status: Status, leaseUntil: Nat, claimToken: Nat,
              providerOutcome: Outcome \cup {"none"}]
Attempt   == [number: 0..1,
              status: {"none", "STARTED", "ACCEPTED", "REJECTED", "NOT_ATTEMPTED", "UNKNOWN"}]
Failure   == [attempt: 0..1, providerOutcome: FailureOutcome,
              evidenceSource: {"captured", "reconciled_execution"}]
NoRow     == [status |-> "absent", leaseUntil |-> NoLease, claimToken |-> NoToken,
              providerOutcome |-> "none"]
NoAttempt == [number |-> 0, status |-> "none"]
NoFailure == [attempt |-> 0, providerOutcome |-> "none", evidenceSource |-> "none"]

\* MessageResolution: advance is ack and advance, park is ack alone,
\* unresolved is neither.
Resolution == {"none", "advance", "park", "unresolved"}

\* An execution written before rows had claim tokens and failures had
\* executionIds.
LegacyRow == {[NoRow EXCEPT !.status = s] : s \in Status}

Init ==
    /\ \E old \in [Legacy -> LegacyRow] :
         execution = [k \in Key |-> IF k \in Legacy THEN old[k] ELSE NoRow]
    /\ attempt = [k \in Key |-> NoAttempt]
    /\ failure = [k \in Key |-> NoFailure]
    /\ minted = 0
    /\ now = 0
    /\ sends = [k \in Key |-> 0]
    /\ delivered = [k \in Key |-> FALSE]
    /\ pc = [p \in Process |-> "idle"]
    /\ at = [p \in Process |-> NoKey]
    /\ token = [p \in Process |-> NoToken]
    /\ timestamp = [p \in Process |-> 0]
    /\ evidence = [p \in Process |-> "none"]
    /\ resolution = [p \in Process |-> "none"]

---------------------------------------------------------------------------
\* What a process may read from its own clock.
Clock == {t \in 0..(now + Skew) : t + Skew >= now}

\* The lease of k is over at t (leaseUntil <= t, or null).
Expired(k, t) == execution[k].leaseUntil <= t

\* Mutant: the fence forgets the status.
FencedByToken(k, t) == execution[k].claimToken = t

\* The fence of every write to a claimed row.
Fenced(k, t) == execution[k].status = "PENDING" /\ execution[k].claimToken = t

Goto(p, label) == pc' = [pc EXCEPT ![p] = label]

\* The process is done with its key and forgets what it knew of it.
Forget(p) ==
    /\ token' = [token EXCEPT ![p] = NoToken]
    /\ timestamp' = [timestamp EXCEPT ![p] = 0]
    /\ evidence' = [evidence EXCEPT ![p] = "none"]

\* executeStage returns.
Return(w, r) ==
    /\ Goto(w, "resolved")
    /\ resolution' = [resolution EXCEPT ![w] = r]
    /\ Forget(w)
    /\ UNCHANGED at

\* Mutant: a failed row parks the message, with or without its record.
ResolvedByStatus(k) ==
    CASE execution[k].status = "SUCCESS" -> "advance"
      [] execution[k].status = "FAILED"  -> "park"
      [] OTHER                           -> "unresolved"

\* A row that is no longer pending, and the failure joined to it.
Resolved(k) ==
    CASE execution[k].status = "SUCCESS" -> "advance"
      [] execution[k].status = "FAILED" /\ failure[k] # NoFailure -> "park"
      [] OTHER -> "unresolved"

\* The row is decided: its lease ends, its claim token stays.
DecideRow(k, status, outcome) ==
    execution' = [execution EXCEPT ![k] =
        [status |-> status, leaseUntil |-> NoLease,
         claimToken |-> @.claimToken, providerOutcome |-> outcome]]

\* (executionId, attemptNumber) is unique, and a row has one attempt.
CreateAttempt(k, number, status) ==
    /\ attempt[k] = NoAttempt
    /\ attempt' = [attempt EXCEPT ![k] = [number |-> number, status |-> status]]

CloseAttempt(k, status) ==
    attempt' = [attempt EXCEPT ![k] = [number |-> @.number, status |-> status]]

\* executionId is unique: a row has one failure record.
RecordFailure(k, number, outcome, source) ==
    /\ failure[k] = NoFailure
    /\ failure' = [failure EXCEPT ![k] =
           [attempt |-> number, providerOutcome |-> outcome, evidenceSource |-> source]]

\* Mutant: the started attempt is left open.
QuarantineRow(k, source) ==
    /\ DecideRow(k, "FAILED", "unknown")
    /\ UNCHANGED attempt
    /\ RecordFailure(k, IF attempt[k].status = "STARTED" THEN 1 ELSE 0, "unknown", source)

\* Mutant: the started attempt is not counted.
QuarantineUncounted(k, source) ==
    /\ DecideRow(k, "FAILED", "unknown")
    /\ CloseAttempt(k, IF attempt[k].status = "STARTED" THEN "UNKNOWN" ELSE attempt[k].status)
    /\ RecordFailure(k, 0, "unknown", source)

\* The transaction that gives up an expired claim: the provider is not asked.
Quarantine(k, source) ==
    /\ DecideRow(k, "FAILED", "unknown")
    /\ CloseAttempt(k, IF attempt[k].status = "STARTED" THEN "UNKNOWN" ELSE attempt[k].status)
    /\ RecordFailure(k, IF attempt[k].status = "STARTED" THEN 1 ELSE 0, "unknown", source)

---------------------------------------------------------------------------
(***************************************************************************)
(* The worker: executeStage on the key of a message.  Kafka may deliver a  *)
(* message to any worker, any number of times.                             *)
(***************************************************************************)
Deliver(w) ==
    /\ pc[w] = "idle"
    /\ \E k \in Key : at' = [at EXCEPT ![w] = k]
    /\ Goto(w, "claim")
    /\ UNCHANGED <<execution, attempt, failure, minted, now, sends, delivered,
                   token, timestamp, evidence, resolution>>

\* The create of claim succeeds.  Bound: claims whose lease every clock sees
\* expire within the Horizon.
Claim(w) ==
    /\ pc[w] = "claim"
    /\ execution[at[w]].status = "absent"
    /\ \E t \in Clock :
         /\ t + Lease + Skew <= Horizon
         /\ execution' = [execution EXCEPT ![at[w]] =
                [status |-> "PENDING", leaseUntil |-> t + Lease,
                 claimToken |-> minted + 1, providerOutcome |-> "none"]]
    /\ minted' = minted + 1
    /\ token' = [token EXCEPT ![w] = minted + 1]
    /\ Goto(w, "claimed")
    /\ UNCHANGED <<attempt, failure, now, sends, delivered, at, timestamp, evidence, resolution>>

\* The create of claim hits the unique (zapRunId, stage).
ClaimTaken(w) ==
    /\ pc[w] = "claim"
    /\ execution[at[w]].status # "absent"
    /\ Goto(w, "resolve")
    /\ UNCHANGED <<execution, attempt, failure, minted, now, sends, delivered,
                   at, token, timestamp, evidence, resolution>>

\* resolveExisting reads a row that is decided, or whose lease still runs.
ResolveExisting(w) ==
    LET k == at[w] IN
    /\ pc[w] = "resolve"
    /\ \/ execution[k].status # "PENDING"
       \/ \E t \in Clock : ~Expired(k, t)
    /\ Return(w, Resolved(k))
    /\ UNCHANGED <<execution, attempt, failure, minted, now, sends, delivered>>

\* resolveExisting reads an expired claim; the transaction comes later.
ResolveExpired(w) ==
    LET k == at[w] IN
    /\ pc[w] = "resolve"
    /\ execution[k].status = "PENDING"
    /\ \E t \in Clock :
         /\ Expired(k, t)
         /\ timestamp' = [timestamp EXCEPT ![w] = t]
    /\ token' = [token EXCEPT ![w] = execution[k].claimToken]
    /\ Goto(w, "quarantine")
    /\ UNCHANGED <<execution, attempt, failure, minted, now, sends, delivered,
                   at, evidence, resolution>>

\* The row is still as it was read, and no failure holds its executionId.
CanQuarantine(p) ==
    /\ Fenced(at[p], token[p])
    /\ Expired(at[p], timestamp[p])
    /\ failure[at[p]] = NoFailure

\* Mutant: an expired claim is dropped, so that a redelivery claims anew.
ReleaseExpired(w) ==
    /\ pc[w] = "quarantine"
    /\ CanQuarantine(w)
    /\ execution' = [execution EXCEPT ![at[w]] = NoRow]
    /\ attempt' = [attempt EXCEPT ![at[w]] = NoAttempt]
    /\ Return(w, "unresolved")
    /\ UNCHANGED <<failure, minted, now, sends, delivered>>

QuarantineExpired(w) ==
    /\ pc[w] = "quarantine"
    /\ CanQuarantine(w)
    /\ Quarantine(at[w], "captured")
    /\ Return(w, "park")
    /\ UNCHANGED <<minted, now, sends, delivered>>

\* STALE or the unique executionId: the transaction rolls back.
QuarantineStale(w) ==
    /\ pc[w] = "quarantine"
    /\ ~CanQuarantine(w)
    /\ Goto(w, "reread")
    /\ UNCHANGED <<execution, attempt, failure, minted, now, sends, delivered,
                   at, token, timestamp, evidence, resolution>>

\* The second read after a lost race; ACTIVE_PENDING is unresolved too.
Reread(w) ==
    /\ pc[w] = "reread"
    /\ Return(w, Resolved(at[w]))
    /\ UNCHANGED <<execution, attempt, failure, minted, now, sends, delivered>>

\* What persistFailure and finalizeSuccess store as the attempt's status.
AttemptStatus(outcome) ==
    CASE outcome = "accepted"      -> "ACCEPTED"
      [] outcome = "rejected"      -> "REJECTED"
      [] outcome = "not_attempted" -> "NOT_ATTEMPTED"
      [] OTHER                     -> "UNKNOWN"

\* getActionHandler finds nothing: the failure is recorded without a call.
FinalizeNotAttempted(w) ==
    LET k == at[w] IN
    /\ pc[w] = "claimed"
    /\ k \in Unsupported
    /\ Fenced(k, token[w])
    /\ DecideRow(k, "FAILED", "not_attempted")
    /\ CreateAttempt(k, 0, "NOT_ATTEMPTED")
    /\ RecordFailure(k, 0, "not_attempted", "captured")
    /\ Return(w, "park")
    /\ UNCHANGED <<minted, now, sends, delivered>>

\* The attempt is durable before the provider is called.
StartAttempt(w) ==
    LET k == at[w] IN
    /\ pc[w] = "claimed"
    /\ k \notin Unsupported
    /\ Fenced(k, token[w])
    /\ CreateAttempt(k, 1, "STARTED")
    /\ Goto(w, "started")
    /\ UNCHANGED <<execution, failure, minted, now, sends, delivered,
                   at, token, timestamp, evidence, resolution>>

\* handler.execute: the one call of the provider.
Execute(w) ==
    LET k == at[w] IN
    /\ pc[w] = "started"
    /\ \E result \in HandlerResults :
         /\ sends' = [sends EXCEPT ![k] = IF MessageSent(result.reply) THEN @ + 1 ELSE @]
         /\ \E d \in MayBeDelivered(result.reply) :
              delivered' = [delivered EXCEPT ![k] = @ \/ d]
         /\ evidence' = [evidence EXCEPT ![w] = result.outcome]
    /\ Goto(w, "executed")
    /\ UNCHANGED <<execution, attempt, failure, minted, now, at, token, timestamp, resolution>>

\* The attempt row the owner finalizes: attemptNumber 1, still STARTED.
Started(k) == attempt[k] = [number |-> 1, status |-> "STARTED"]

FinalizeSuccess(w) ==
    LET k == at[w] IN
    /\ pc[w] = "executed"
    /\ evidence[w] = "accepted"
    /\ Fenced(k, token[w]) /\ Started(k)
    /\ DecideRow(k, "SUCCESS", "accepted")
    /\ CloseAttempt(k, AttemptStatus("accepted"))
    /\ Return(w, "advance")
    /\ UNCHANGED <<failure, minted, now, sends, delivered>>

FinalizeFailure(w) ==
    LET k == at[w] IN
    /\ pc[w] = "executed"
    /\ evidence[w] # "accepted"
    /\ Fenced(k, token[w]) /\ Started(k)
    /\ DecideRow(k, "FAILED", evidence[w])
    /\ CloseAttempt(k, AttemptStatus(evidence[w]))
    /\ RecordFailure(k, 1, evidence[w], "captured")
    /\ Return(w, "park")
    /\ UNCHANGED <<minted, now, sends, delivered>>

\* The owner finds its claim fenced off: startAttempt and both finalizers
\* report STALE, and the stage stays unresolved for this execution.
LostClaim(w) ==
    /\ \/ pc[w] = "claimed" /\ ~Fenced(at[w], token[w])
       \/ pc[w] = "executed" /\ ~(Fenced(at[w], token[w]) /\ Started(at[w]))
    /\ Return(w, "unresolved")
    /\ UNCHANGED <<execution, attempt, failure, minted, now, sends, delivered>>

\* The message is settled: the worker takes another.
Settle(w) ==
    /\ pc[w] = "resolved"
    /\ Goto(w, "idle")
    /\ at' = [at EXCEPT ![w] = NoKey]
    /\ resolution' = [resolution EXCEPT ![w] = "none"]
    /\ UNCHANGED <<execution, attempt, failure, minted, now, sends, delivered,
                   token, timestamp, evidence>>

---------------------------------------------------------------------------
(***************************************************************************)
(* The reconciler: reconcileNext, once per round of the DLQ process.       *)
(***************************************************************************)
\* findFirst with orderBy createdAt.
Oldest(S) == {k \in S : \A j \in S : execution[k].claimToken <= execution[j].claimToken}

FindExpired(r) ==
    /\ pc[r] = "idle"
    /\ \E t \in Clock :
         LET expired == {k \in Key : execution[k].status = "PENDING" /\ Expired(k, t)} IN
         \/ \E k \in Oldest(expired) :
              /\ at' = [at EXCEPT ![r] = k]
              /\ token' = [token EXCEPT ![r] = execution[k].claimToken]
              /\ timestamp' = [timestamp EXCEPT ![r] = t]
              /\ Goto(r, "reconcile")
         \/ /\ expired = {}
            /\ Goto(r, "findFailed")
            /\ UNCHANGED <<at, token, timestamp>>
    /\ UNCHANGED <<execution, attempt, failure, minted, now, sends, delivered,
                   evidence, resolution>>

\* Mutant: failed rows without a record are not looked for.
FindNothing(r) ==
    /\ pc[r] = "findFailed"
    /\ Goto(r, "idle")
    /\ UNCHANGED <<execution, attempt, failure, minted, now, sends, delivered,
                   at, token, timestamp, evidence, resolution>>

\* The second query: a failed row whose failure record is missing.
FindFailed(r) ==
    LET orphans == {k \in Key : execution[k].status = "FAILED" /\ failure[k] = NoFailure} IN
    /\ pc[r] = "findFailed"
    /\ \/ \E k \in Oldest(orphans) :
            /\ at' = [at EXCEPT ![r] = k]
            /\ token' = [token EXCEPT ![r] = execution[k].claimToken]
            /\ Goto(r, "repair")
       \/ /\ orphans = {}
          /\ Goto(r, "idle")
          /\ UNCHANGED <<at, token>>
    /\ UNCHANGED <<execution, attempt, failure, minted, now, sends, delivered,
                   timestamp, evidence, resolution>>

\* The round ends and reconcileNext starts over.
EndRound(r) ==
    /\ Goto(r, "idle")
    /\ at' = [at EXCEPT ![r] = NoKey]
    /\ Forget(r)
    /\ UNCHANGED resolution

ReconcileExpired(r) ==
    /\ pc[r] = "reconcile"
    /\ \/ CanQuarantine(r) /\ Quarantine(at[r], "reconciled_execution")
       \/ ~CanQuarantine(r) /\ UNCHANGED <<execution, attempt, failure>>
    /\ EndRound(r)
    /\ UNCHANGED <<minted, now, sends, delivered>>

CanRepair(r) ==
    /\ execution[at[r]].status = "FAILED"
    /\ execution[at[r]].claimToken = token[r]
    /\ failure[at[r]] = NoFailure

RepairFailed(r) ==
    /\ pc[r] = "repair"
    /\ \/ CanRepair(r) /\ RecordFailure(at[r], 0, "unknown", "reconciled_execution")
       \/ ~CanRepair(r) /\ UNCHANGED failure
    /\ EndRound(r)
    /\ UNCHANGED <<execution, attempt, minted, now, sends, delivered>>

---------------------------------------------------------------------------
\* The process dies, or a call to the database or Kafka throws: whatever it
\* knew is gone, the rows stay.
Crash(p) ==
    /\ pc[p] # "idle"
    /\ Goto(p, "idle")
    /\ at' = [at EXCEPT ![p] = NoKey]
    /\ resolution' = [resolution EXCEPT ![p] = "none"]
    /\ Forget(p)
    /\ UNCHANGED <<execution, attempt, failure, minted, now, sends, delivered>>

Tick ==
    /\ now < Horizon
    /\ now' = now + 1
    /\ UNCHANGED <<execution, attempt, failure, minted, sends, delivered,
                   pc, at, token, timestamp, evidence, resolution>>

WorkerStep(w) ==
    \/ Deliver(w) \/ Claim(w) \/ ClaimTaken(w)
    \/ ResolveExisting(w) \/ ResolveExpired(w)
    \/ QuarantineExpired(w) \/ QuarantineStale(w) \/ Reread(w)
    \/ FinalizeNotAttempted(w) \/ StartAttempt(w) \/ Execute(w)
    \/ FinalizeSuccess(w) \/ FinalizeFailure(w) \/ LostClaim(w) \/ Settle(w)

ReconcilerStep(r) ==
    FindExpired(r) \/ FindFailed(r) \/ ReconcileExpired(r) \/ RepairFailed(r)

Next ==
    \/ \E w \in Worker : WorkerStep(w)
    \/ \E r \in Reconciler : ReconcilerStep(r)
    \/ \E p \in Process : Crash(p)
    \/ Tick

\* The clock runs, and the loop of the DLQ process keeps calling
\* reconcileNext.  It may die in any round, but not between the query and
\* the transaction of every one of them (its supervisor restarts it).
Fairness ==
    /\ WF_vars(Tick)
    /\ \A r \in Reconciler :
         /\ WF_vars(FindExpired(r))
         /\ SF_vars(FindFailed(r))
         /\ SF_vars(ReconcileExpired(r))
         /\ SF_vars(RepairFailed(r))

Spec == Init /\ [][Next]_vars
FairSpec == Spec /\ Fairness

---------------------------------------------------------------------------
(***************************************************************************)
(* Properties.                                                             *)
(***************************************************************************)

\* Every variable keeps its type, and a row's claim token is one that was
\* stored (execution-store.ts, claim).
TypeOK ==
    /\ execution \in [Key -> Row]
    /\ attempt \in [Key -> Attempt]
    /\ failure \in [Key -> Failure \cup {NoFailure}]
    /\ minted \in Nat
    /\ now \in 0..Horizon
    /\ sends \in [Key -> Nat]
    /\ delivered \in [Key -> BOOLEAN]
    /\ pc \in [Process -> {"idle", "claim", "resolve", "quarantine", "reread", "claimed",
                           "started", "executed", "resolved", "reconcile", "findFailed",
                           "repair"}]
    /\ at \in [Process -> Key \cup {NoKey}]
    /\ token \in [Process -> Nat]
    /\ timestamp \in [Process -> Nat]
    /\ evidence \in [Process -> Outcome \cup {"none"}]
    /\ resolution \in [Process -> Resolution]

\* However often a message is redelivered, however many workers run it, and
\* whoever crashes or gives the claim up, the provider is called to send at
\* most one message for a stage (executeStage: claim, startAttempt, execute).
AtMostOneSend == \A k \in Key : sends[k] <= 1

\* The stages that were claimed under a token, all but the legacy rows.
Claimed == {k \in Key : execution[k].claimToken # NoToken}

\* A claimed stage has a failure record exactly when it failed,
\* and the row, the record and the attempt tell the same story, whichever of
\* worker, second worker or reconciler wrote it (persistFailure,
\* resolveExisting, reconcileExpired).
OneTruth ==
    \A k \in Claimed :
        /\ (execution[k].status = "FAILED") = (failure[k] # NoFailure)
        /\ failure[k] # NoFailure =>
             /\ failure[k].providerOutcome = execution[k].providerOutcome
             /\ failure[k].attempt = attempt[k].number
             /\ attempt[k].status \in
                  {AttemptStatus(failure[k].providerOutcome)} \cup
                  (IF failure[k].providerOutcome = "unknown" /\ failure[k].attempt = 0
                   THEN {"none"} ELSE {})
        /\ execution[k].status = "SUCCESS" => attempt[k] = [number |-> 1, status |-> "ACCEPTED"]

\* What an operator reads before allowing a replay is never refuted by what
\* the provider did, not even by a call still running when the claim was
\* given up: success was delivered, "rejected" was not, and neither
\* "not_attempted" nor attempt 0 has a message out (finalizeSuccess,
\* persistFailure, the attempt count of both quarantines).
TruthfulEvidence ==
    \A k \in Claimed :
        /\ execution[k].status = "SUCCESS" => delivered[k]
        /\ failure[k].providerOutcome = "rejected" => ~delivered[k]
        /\ failure[k].providerOutcome = "not_attempted" => sends[k] = 0
        /\ failure[k] # NoFailure /\ failure[k].attempt = 0 => sends[k] = 0

\* What executeStage has returned stays true until the message is settled,
\* so that the offset is committed, and the next stage queued, only for a
\* decided stage: advance is backed by SUCCESS, park by a failed row with
\* its record.
ResolutionBacked ==
    \A w \in Worker :
        /\ resolution[w] = "advance" => execution[at[w]].status = "SUCCESS"
        /\ resolution[w] = "park" =>
             execution[at[w]].status = "FAILED" /\ failure[at[w]] # NoFailure

\* A decision is final: no step of a late owner, of a redelivery or of the
\* reconciler rewrites a decided row, a closed attempt or a failure record.
Decided(k) == execution[k].status \in {"SUCCESS", "FAILED"}
FinalRows ==
    [][\A k \in Key :
        /\ Decided(k) => execution'[k] = execution[k] /\ attempt'[k] = attempt[k]
        /\ failure[k] # NoFailure => failure'[k] = failure[k]]_vars

\* No claim is left open and no failure without its record: a crashed or
\* stalled owner is given up by a redelivery or by the reconciler, and a
\* legacy failure is repaired, by the reconciler's priorities between the two.
EventuallyDecided ==
    \A k \in Key :
        execution[k].status # "absent" ~>
            \/ execution[k].status = "SUCCESS"
            \/ execution[k].status = "FAILED" /\ failure[k] # NoFailure

\* The contract of StageContract, read off the rows.
Decision(k) ==
    CASE execution[k].status = "SUCCESS" -> "succeeded"
      [] execution[k].status = "FAILED"  -> "failed"
      [] OTHER                           -> "open"

Contract == INSTANCE StageContract WITH
    decision <- [k \in Key |-> Decision(k)],
    record <- [k \in Key |-> [attempt |-> failure[k].attempt,
                              outcome |-> failure[k].providerOutcome]],
    sent <- sends

\* Every step of workers, reconcilers, crashes and time is a step of the
\* contract or changes nothing it speaks of.
ImplementsContract == Contract!CSpec
=============================================================================

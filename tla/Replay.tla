------------------------------- MODULE Replay -------------------------------
(***************************************************************************)
(* The replay of a failed stage: the request under an approval (replay.ts  *)
(* of the backend), its dispatch (replay-dispatcher.ts), and its claim,    *)
(* execution and completion by a worker (replay.ts of the worker), while   *)
(* ordinary messages of the same run are redelivered.                      *)
(*                                                                         *)
(* The ordinary execution of the stages is not modelled again: it makes    *)
(* the steps of StageContract, which StageExecution is shown to implement. *)
(*                                                                         *)
(* Clocks of hosts may differ by any amount here: whether a process holds  *)
(* a lease to be over, a backoff to be waited out or notBefore to be       *)
(* reached is left open.  Left open, too, is whatever else can only forbid *)
(* a replay: the approval's authority may be withdrawn, restored, or over  *)
(* for good at any time before the claim, and a recipient not be proven.   *)
(* The topic is a set of events, any of which may be delivered to any      *)
(* worker, any number of times and in any order.                           *)
(***************************************************************************)
EXTENDS Integers, ActionHandlers

CONSTANTS
    Last,         \* the last stage of the run; every action is a telegram
    Approval,     \* the positive decisions taken on failures of the run
    Approved,     \* the stage each of them is about
    Request,      \* request ids that operators may send
    Worker,
    Dispatcher

Stage == 0..Last

NoStage    == -1
NoApproval == "none"
NoRequest  == "ordinary"
NoToken    == "none"

ASSUME ReplayAssumption ==
    /\ Last \in Nat
    /\ Approved \in [Approval -> Stage]
    /\ NoApproval \notin Approval /\ NoRequest \notin Request
    /\ NoToken \notin Worker \cup Dispatcher

\* ZapEvent: stage n of the run, by itself or as a replay.
Event == [stage: Stage, request: Request \cup {NoRequest}]
Ordinary(n) == [stage |-> n, request |-> NoRequest]

VARIABLES
    decision, record, sent, delivered,  \* the ordinary stages, as in StageContract
    request,      \* ReplayRequest: the approval that each id has consumed
    replay,       \* ReplayExecution of each request
    attempt,      \* status of its ReplayExecutionAttempt
    failure,      \* providerOutcome of its ReplayFailure
    resent,       \* history: messages sent for replays of the stage
    redelivered,  \* history: the provider delivered one of them
    authority,    \* what the claim of a request will find of its approval and of all
                  \* that the approval rested on: "valid", "withdrawn" or "expired"
    queued,       \* the events that are in the topic
    committed,    \* the events whose offset is committed
    dpc,          \* where each dispatcher is ...
    row,          \* ... and the request it dispatches
    wpc,          \* where each worker is ...
    event,        \* ... the event it processes ...
    evidence,     \* ... what its call of the provider came to ...
    next          \* ... and the stage it is to queue before it commits

stage_vars    == <<decision, record, sent, delivered>>
replay_vars   == <<request, replay, attempt, failure>>
history_vars  == <<resent, redelivered>>
topic_vars    == <<queued, committed>>
dispatch_vars == <<dpc, row>>
worker_vars   == <<wpc, event, evidence, next>>
vars == <<decision, record, sent, delivered, request, replay, attempt, failure,
          resent, redelivered, authority, queued, committed,
          dpc, row, wpc, event, evidence, next>>

Contract == INSTANCE StageContract WITH Key <- Stage

NoReplay == [status |-> "none", claimToken |-> NoToken, nextStage |-> NoStage,
             dispatchToken |-> NoToken, publishedAt |-> FALSE]

Init ==
    /\ Contract!CInit
    /\ decision = [n \in Stage |-> "open"]
    /\ request = [r \in Request |-> NoApproval]
    /\ replay = [r \in Request |-> NoReplay]
    /\ attempt = [r \in Request |-> "none"]
    /\ failure = [r \in Request |-> "none"]
    /\ resent = [n \in Stage |-> 0]
    /\ redelivered = [n \in Stage |-> FALSE]
    /\ authority = [r \in Request |-> "valid"]
    /\ queued = {Ordinary(0)}
    /\ committed = {}
    /\ dpc = [d \in Dispatcher |-> "idle"]
    /\ row = [d \in Dispatcher |-> NoRequest]
    /\ wpc = [w \in Worker |-> "idle"]
    /\ event = [w \in Worker |-> Ordinary(0)]
    /\ evidence = [w \in Worker |-> "none"]
    /\ next = [w \in Worker |-> NoStage]

---------------------------------------------------------------------------
(***************************************************************************)
(* What goes on around a replay.                                           *)
(***************************************************************************)

\* Workers and reconciler on a stage whose event is in the topic.
ExecuteOrdinary(n) ==
    /\ Ordinary(n) \in queued
    /\ Contract!Send(n) \/ Contract!Succeed(n) \/ Contract!Fail(n)
    /\ UNCHANGED <<replay_vars, history_vars, authority, topic_vars,
                   dispatch_vars, worker_vars>>

---------------------------------------------------------------------------
(***************************************************************************)
(* The request.                                                            *)
(***************************************************************************)
Requested  == {r \in Request : request[r] # NoApproval}
StageOf(r) == Approved[request[r]]

\* What evaluateReplayPolicy requires of the stage itself: it failed by a
\* refusal that is on record, everything before it succeeded, nothing after
\* it was executed.
Eligible(n) ==
    /\ decision[n] = "failed"
    /\ record[n] = [attempt |-> 1, outcome |-> "rejected"]
    /\ \A m \in Stage : m < n => decision[m] = "succeeded"
    /\ \A m \in Stage : m > n => decision[m] = "open" /\ sent[m] = 0

\* Mutant: an approval is consumed once, a case is not.
UnconsumedApproval(r, a) == \A q \in Requested : q # r /\ request[q] # a

\* Neither the id nor the approval nor the case was used before.
Unconsumed(r, a) ==
    \A q \in Requested : q # r /\ request[q] # a /\ StageOf(q) # Approved[a]

\* One serializable transaction.  A request that is denied, or repeated with
\* the same id and approval, writes nothing to these tables.
RequestReplay(r, a) ==
    /\ Unconsumed(r, a)
    /\ Eligible(Approved[a])
    /\ request' = [request EXCEPT ![r] = a]
    /\ replay' = [replay EXCEPT ![r].status = "RESERVED"]
    /\ UNCHANGED <<stage_vars, attempt, failure, history_vars, authority, topic_vars,
                   dispatch_vars, worker_vars>>

\* What the approval of a request rests on changes, which matters until the
\* request is claimed: its time runs out for good ...
Expire(r) ==
    /\ replay[r].status = "RESERVED" /\ authority[r] # "expired"
    /\ authority' = [authority EXCEPT ![r] = "expired"]
    /\ UNCHANGED <<stage_vars, replay_vars, history_vars, topic_vars,
                   dispatch_vars, worker_vars>>

\* ... or somebody loses the permission of an operator, or edits the action,
\* and may get it back, or undo the edit.
Reconsider(r) ==
    /\ replay[r].status = "RESERVED" /\ authority[r] # "expired"
    /\ authority' = [authority EXCEPT ![r] = IF @ = "valid" THEN "withdrawn" ELSE "valid"]
    /\ UNCHANGED <<stage_vars, replay_vars, history_vars, topic_vars,
                   dispatch_vars, worker_vars>>

---------------------------------------------------------------------------
(***************************************************************************)
(* The dispatcher: dispatchOne.                                            *)
(***************************************************************************)
EventOf(r) == [stage |-> StageOf(r), request |-> r]

\* Mutant: a row that was leased once is never due again.
DispatchUnleased(d) ==
    /\ dpc[d] = "idle"
    /\ \E r \in Requested :
         /\ replay[r].status = "RESERVED" /\ ~replay[r].publishedAt
         /\ replay[r].dispatchToken = NoToken
         /\ authority[r] # "expired"
         /\ replay' = [replay EXCEPT ![r].dispatchToken = d]
         /\ row' = [row EXCEPT ![d] = r]
    /\ dpc' = [dpc EXCEPT ![d] = "send"]
    /\ UNCHANGED <<stage_vars, request, attempt, failure, history_vars, authority,
                   topic_vars, worker_vars>>

\* The update that picks a due row and leases it.  A row that is leased is
\* due again when the lease is over, one that backs off when that is.
DispatchOne(d) ==
    /\ dpc[d] = "idle"
    /\ \E r \in Requested :
         /\ replay[r].status = "RESERVED" /\ ~replay[r].publishedAt
         /\ authority[r] # "expired"
         /\ replay' = [replay EXCEPT ![r].dispatchToken = d]
         /\ row' = [row EXCEPT ![d] = r]
    /\ dpc' = [dpc EXCEPT ![d] = "send"]
    /\ UNCHANGED <<stage_vars, request, attempt, failure, history_vars, authority,
                   topic_vars, worker_vars>>

DispatchAcked(d) ==
    /\ dpc[d] = "send"
    /\ queued' = queued \cup {EventOf(row[d])}
    /\ dpc' = [dpc EXCEPT ![d] = "acked"]
    /\ UNCHANGED <<stage_vars, replay_vars, history_vars, authority, committed,
                   row, worker_vars>>

\* Mutant: the error of send is swallowed.
DispatchErrorIgnored(d) ==
    /\ dpc[d] = "send"
    /\ queued' \in {queued, queued \cup {EventOf(row[d])}}
    /\ dpc' = [dpc EXCEPT ![d] = "acked"]
    /\ UNCHANGED <<stage_vars, replay_vars, history_vars, authority, committed,
                   row, worker_vars>>

\* send throws; the broker may have the event all the same.
DispatchFailed(d) ==
    /\ dpc[d] = "send"
    /\ queued' \in {queued, queued \cup {EventOf(row[d])}}
    /\ dpc' = [dpc EXCEPT ![d] = "refused"]
    /\ UNCHANGED <<stage_vars, replay_vars, history_vars, authority, committed,
                   row, worker_vars>>

EndDispatch(d) ==
    /\ dpc' = [dpc EXCEPT ![d] = "idle"]
    /\ row' = [row EXCEPT ![d] = NoRequest]

\* The stamp after an acknowledgement, the release after an error; nothing
\* if the row was leased anew since.
SettleDispatch(d) ==
    LET r == row[d] IN
    /\ dpc[d] \in {"acked", "refused"}
    /\ \/ /\ replay[r].dispatchToken = d
          /\ replay' = [replay EXCEPT ![r].dispatchToken = NoToken,
                                      ![r].publishedAt = @ \/ dpc[d] = "acked"]
       \/ /\ replay[r].dispatchToken # d
          /\ UNCHANGED replay
    /\ EndDispatch(d)
    /\ UNCHANGED <<stage_vars, request, attempt, failure, history_vars, authority,
                   topic_vars, worker_vars>>

\* The process dies, or its database call throws.
CrashDispatcher(d) ==
    /\ dpc[d] # "idle"
    /\ EndDispatch(d)
    /\ UNCHANGED <<stage_vars, replay_vars, history_vars, authority, topic_vars, worker_vars>>

---------------------------------------------------------------------------
(***************************************************************************)
(* The worker: processMessage.                                             *)
(***************************************************************************)
Goto(w, label) == wpc' = [wpc EXCEPT ![w] = label]

\* The message is over for w: committed, or thrown and to be fetched again.
Leave(w) ==
    /\ Goto(w, "idle")
    /\ event' = [event EXCEPT ![w] = Ordinary(0)]
    /\ evidence' = [evidence EXCEPT ![w] = "none"]
    /\ next' = [next EXCEPT ![w] = NoStage]

\* A resolution of e with ack: settleMessage has stage m to send, or NoStage.
Resolve(w, e, m) ==
    /\ Goto(w, "settle")
    /\ event' = [event EXCEPT ![w] = e]
    /\ next' = [next EXCEPT ![w] = m]
    /\ evidence' = [evidence EXCEPT ![w] = "none"]

\* w goes on with e.
Continue(w, e, label) ==
    /\ Goto(w, label)
    /\ event' = [event EXCEPT ![w] = e]
    /\ UNCHANGED <<evidence, next>>

\* e is delivered to w; it is a replay, or an ordinary event.
Delivered(w, e) == wpc[w] = "idle" /\ e \in queued
Replayed(w, e)  == Delivered(w, e) /\ e.request # NoRequest
Plain(w, e)     == Delivered(w, e) /\ e.request = NoRequest

\* The replay that w has claimed.
Mine(w) == event[w].request

\* Mutant: the last stage has one that follows.
FollowingPast(n) == n + 1

\* max("sortingOrder") > stage, or ordinaryNextStage.
Following(n) == IF n < Last THEN n + 1 ELSE NoStage

\* claim, on a replay that is BUSY because its lease runs or notBefore is not
\* reached, or DISABLED by the release gate, leaves the message where it is.
\* The other cases follow.

\* Mutant: a success that was stored before is only acknowledged.
ReplaySucceededParks(w, e) ==
    /\ Replayed(w, e)
    /\ replay[e.request].status = "SUCCESS"
    /\ Resolve(w, e, NoStage)
    /\ UNCHANGED <<stage_vars, replay_vars, history_vars, authority, topic_vars, dispatch_vars>>

\* claim finds a success: the stage that was stored with the claim is queued
\* (again).
ReplaySucceeded(w, e) ==
    /\ Replayed(w, e)
    /\ replay[e.request].status = "SUCCESS"
    /\ Resolve(w, e, replay[e.request].nextStage)
    /\ UNCHANGED <<stage_vars, replay_vars, history_vars, authority, topic_vars, dispatch_vars>>

\* Mutant: a replay that somebody else has claimed is taken for handled.
ReplayBusyParks(w, e) ==
    /\ Replayed(w, e)
    /\ replay[e.request].status \in {"RUNNING", "FAILED", "UNKNOWN"}
    /\ Resolve(w, e, NoStage)
    /\ UNCHANGED <<stage_vars, replay_vars, history_vars, authority, topic_vars, dispatch_vars>>

\* claim finds a replay that failed or whose outcome is not known: TERMINAL.
ReplayTerminal(w, e) ==
    /\ Replayed(w, e)
    /\ replay[e.request].status \in {"FAILED", "UNKNOWN"}
    /\ Resolve(w, e, NoStage)
    /\ UNCHANGED <<stage_vars, replay_vars, history_vars, authority, topic_vars, dispatch_vars>>

\* record's status for an outcome.
Terminal(outcome) ==
    CASE outcome = "accepted" -> "SUCCESS"
      [] outcome = "unknown"  -> "UNKNOWN"
      [] OTHER                -> "FAILED"

AttemptStatus(outcome) ==
    CASE outcome = "accepted"      -> "ACCEPTED"
      [] outcome = "rejected"      -> "REJECTED"
      [] outcome = "not_attempted" -> "NOT_ATTEMPTED"
      [] OTHER                     -> "UNKNOWN"

\* Mutant: the attempt is left open.
RecordRow(r, outcome) ==
    /\ failure' = [failure EXCEPT ![r] = IF outcome = "accepted" THEN @ ELSE outcome]
    /\ replay' = [replay EXCEPT ![r].status = Terminal(outcome), ![r].claimToken = NoToken]
    /\ UNCHANGED attempt

\* record: the outcome goes to attempt, failure and row in one transaction.
RecordOutcome(r, outcome) ==
    /\ attempt' = [attempt EXCEPT ![r] = AttemptStatus(outcome)]
    /\ failure' = [failure EXCEPT ![r] = IF outcome = "accepted" THEN @ ELSE outcome]
    /\ replay' = [replay EXCEPT ![r].status = Terminal(outcome), ![r].claimToken = NoToken]

\* Mutant: a claim whose lease is over is taken again.
Reclaim(w, e) ==
    LET r == e.request IN
    /\ Replayed(w, e)
    /\ replay[r].status = "RUNNING" /\ attempt[r] = "STARTED"
    /\ replay' = [replay EXCEPT ![r].claimToken = w]
    /\ Continue(w, e, "call")
    /\ UNCHANGED <<stage_vars, request, attempt, failure, history_vars, authority, topic_vars,
                   dispatch_vars>>

\* claim finds a claim whose lease is over: its outcome is not known.
RecordExpired(w, e) ==
    LET r == e.request IN
    /\ Replayed(w, e)
    /\ replay[r].status = "RUNNING" /\ attempt[r] = "STARTED"
    /\ RecordOutcome(r, "unknown")
    /\ Resolve(w, e, NoStage)
    /\ UNCHANGED <<stage_vars, request, history_vars, authority, topic_vars, dispatch_vars>>

\* Authority, policy or the identity of the recipient does not hold (any
\* more): the allowance is spent without a call.
Deny(w, e) ==
    LET r == e.request IN
    /\ Replayed(w, e)
    /\ replay[r].status = "RESERVED"
    /\ RecordOutcome(r, "not_attempted")
    /\ Resolve(w, e, NoStage)
    /\ UNCHANGED <<stage_vars, request, history_vars, authority, topic_vars, dispatch_vars>>

\* Mutant: the authority is not looked at again.
ClaimUnchecked(w, e) ==
    LET r == e.request IN
    /\ Replayed(w, e)
    /\ replay[r].status = "RESERVED"
    /\ Eligible(StageOf(r))
    /\ replay' = [replay EXCEPT ![r].status = "RUNNING", ![r].claimToken = w,
                                ![r].nextStage = Following(StageOf(r))]
    /\ attempt' = [attempt EXCEPT ![r] = "STARTED"]
    /\ Continue(w, e, "call")
    /\ UNCHANGED <<stage_vars, request, failure, history_vars, authority, topic_vars,
                   dispatch_vars>>

\* The replay is claimed, with its attempt and the stage that follows.
ClaimReplay(w, e) ==
    LET r == e.request IN
    /\ Replayed(w, e)
    /\ replay[r].status = "RESERVED"
    /\ authority[r] = "valid"
    /\ Eligible(StageOf(r))
    /\ replay' = [replay EXCEPT ![r].status = "RUNNING", ![r].claimToken = w,
                                ![r].nextStage = Following(StageOf(r))]
    /\ attempt' = [attempt EXCEPT ![r] = "STARTED"]
    /\ Continue(w, e, "call")
    /\ UNCHANGED <<stage_vars, request, failure, history_vars, authority, topic_vars,
                   dispatch_vars>>

\* What the call of the telegram handler can come to with a numeric chat id:
\* an answer to the message, or the deadline, with or without a message out.
Deadline     == "deadline"
ReplayReply  == (TelegramReply \ ResolutionReply) \cup {Deadline}
ReplayOutcome(reply) == IF reply = Deadline THEN "unknown" ELSE TelegramOutcome(reply)

CallProvider(w) ==
    LET n == event[w].stage IN
    /\ wpc[w] = "call"
    /\ \E reply \in ReplayReply :
         /\ \E sends \in IF reply = Deadline THEN 0..1 ELSE {1} :
            \E d \in {x \in MayBeDelivered(reply) : sends = 1 \/ ~x} :
              /\ resent' = [resent EXCEPT ![n] = @ + sends]
              /\ redelivered' = [redelivered EXCEPT ![n] = @ \/ d]
         /\ evidence' = [evidence EXCEPT ![w] = ReplayOutcome(reply)]
    /\ Goto(w, "complete")
    /\ UNCHANGED <<stage_vars, replay_vars, authority, topic_vars, dispatch_vars, event, next>>

\* complete's fence; whether the lease still runs is open.
Owns(w) ==
    LET r == Mine(w) IN
    replay[r].status = "RUNNING" /\ replay[r].claimToken = w /\ attempt[r] = "STARTED"

CompleteReplay(w) ==
    LET r == Mine(w) IN
    /\ wpc[w] = "complete"
    /\ Owns(w)
    /\ RecordOutcome(r, evidence[w])
    /\ Resolve(w, event[w], IF evidence[w] = "accepted" THEN replay[r].nextStage ELSE NoStage)
    /\ UNCHANGED <<stage_vars, request, history_vars, authority, topic_vars, dispatch_vars>>

\* The claim was recorded as unknown meanwhile, or its lease is over: nothing
\* is saved and the message stays.
CompletionRefused(w) ==
    /\ wpc[w] = "complete"
    /\ Leave(w)
    /\ UNCHANGED <<stage_vars, replay_vars, history_vars, authority, topic_vars, dispatch_vars>>

---------------------------------------------------------------------------
\* stageResolution looks for a replay of the stage under the fingerprints that
\* the action has now; it takes precedence over executeStage.  If the owner
\* has repaired the action there is none.  A replay that runs leaves the
\* message where it is.
ReplayOf(n) ==
    {r \in Requested : StageOf(r) = n /\ decision[n] = "failed"}

Recover(w, e) ==
    /\ Plain(w, e)
    /\ \/ \E r \in ReplayOf(e.stage) :
            replay[r].status = "SUCCESS" /\ Resolve(w, e, replay[r].nextStage)
       \/ Continue(w, e, "execute")
    /\ UNCHANGED <<stage_vars, replay_vars, history_vars, authority, topic_vars, dispatch_vars>>

\* executeStage returns; what it did for the stage was ExecuteOrdinary.
ExecuteStage(w) ==
    LET n == event[w].stage IN
    /\ wpc[w] = "execute"
    /\ CASE decision[n] = "succeeded" -> Resolve(w, event[w], Following(n))
         [] decision[n] = "failed"    -> Resolve(w, event[w], NoStage)
         [] OTHER                     -> Leave(w)
    /\ UNCHANGED <<stage_vars, replay_vars, history_vars, authority, topic_vars, dispatch_vars>>

\* Mutant: a message that is acknowledged always advances.
SendNextAlways(w) ==
    /\ wpc[w] = "settle"
    /\ queued' = IF event[w].stage < Last
                 THEN queued \cup {Ordinary(event[w].stage + 1)} ELSE queued
    /\ Goto(w, "commit")
    /\ UNCHANGED <<stage_vars, replay_vars, history_vars, authority, committed,
                   dispatch_vars, event, evidence, next>>

\* settleMessage sends the next stage, if there is one to send ...
SendNext(w) ==
    /\ wpc[w] = "settle"
    /\ queued' = IF next[w] = NoStage THEN queued ELSE queued \cup {Ordinary(next[w])}
    /\ Goto(w, "commit")
    /\ UNCHANGED <<stage_vars, replay_vars, history_vars, authority, committed,
                   dispatch_vars, event, evidence, next>>

\* ... and then commits the offset.
Commit(w) ==
    /\ wpc[w] = "commit"
    /\ committed' = committed \cup {event[w]}
    /\ Leave(w)
    /\ UNCHANGED <<stage_vars, replay_vars, history_vars, authority, queued, dispatch_vars>>

\* The process dies, or a call to the database or Kafka throws.
CrashWorker(w) ==
    /\ wpc[w] # "idle"
    /\ Leave(w)
    /\ UNCHANGED <<stage_vars, replay_vars, history_vars, authority, topic_vars, dispatch_vars>>

ClaimStep(w, e) ==
    \/ ReplaySucceeded(w, e) \/ ReplayTerminal(w, e) \/ RecordExpired(w, e)
    \/ Deny(w, e) \/ ClaimReplay(w, e)

WorkerStep(w) ==
    \/ CallProvider(w) \/ CompleteReplay(w) \/ CompletionRefused(w)
    \/ ExecuteStage(w) \/ SendNext(w) \/ Commit(w)

DispatcherStep(d) ==
    DispatchOne(d) \/ DispatchAcked(d) \/ DispatchFailed(d) \/ SettleDispatch(d)

Next ==
    \/ \E n \in Stage : ExecuteOrdinary(n)
    \/ \E r \in Request : Expire(r) \/ Reconsider(r) \/ \E a \in Approval : RequestReplay(r, a)
    \/ \E d \in Dispatcher : DispatcherStep(d) \/ CrashDispatcher(d)
    \/ \E w \in Worker :
         \/ \E e \in queued : ClaimStep(w, e) \/ Recover(w, e)
         \/ WorkerStep(w) \/ CrashWorker(w)

\* The dispatcher's loop and the consumers go on, each of them may die in any
\* round but not at the same point of every one; leases end and notBefore
\* passes, so that a claim is not BUSY every time; the event of a replay is
\* delivered again until it is committed.  Nothing is assumed of ordinary
\* events, approvals or operators.
Fairness ==
    /\ \A d \in Dispatcher :
         SF_vars(DispatchOne(d)) /\ SF_vars(DispatchAcked(d)) /\ SF_vars(SettleDispatch(d))
    /\ \A w \in Worker :
         /\ WF_vars(WorkerStep(w))
         /\ \A r \in Request :
              /\ SF_vars(\E e \in queued \ committed : e.request = r /\ ClaimStep(w, e))
              /\ SF_vars(event[w].request = r /\ SendNext(w))

Spec == Init /\ [][Next]_vars
FairSpec == Spec /\ Fairness

---------------------------------------------------------------------------
(***************************************************************************)
(* Properties.                                                             *)
(***************************************************************************)
ReplayStatus == {"none", "RESERVED", "RUNNING", "SUCCESS", "FAILED", "UNKNOWN"}
Decided      == {"SUCCESS", "FAILED", "UNKNOWN"}

\* Every variable keeps its type; a request has a row, and a worker that
\* works on a replay has a request (replay.ts of backend and worker).
TypeOK ==
    /\ request \in [Request -> Approval \cup {NoApproval}]
    /\ replay \in [Request -> [status: ReplayStatus, claimToken: Worker \cup {NoToken},
                               nextStage: Stage \cup {NoStage},
                               dispatchToken: Dispatcher \cup {NoToken}, publishedAt: BOOLEAN]]
    /\ attempt \in [Request -> {"none", "STARTED", "ACCEPTED", "REJECTED", "NOT_ATTEMPTED", "UNKNOWN"}]
    /\ failure \in [Request -> FailureOutcome \cup {"none"}]
    /\ resent \in [Stage -> Nat] /\ redelivered \in [Stage -> BOOLEAN]
    /\ authority \in [Request -> {"valid", "withdrawn", "expired"}]
    /\ queued \subseteq Event /\ committed \subseteq queued
    /\ dpc \in [Dispatcher -> {"idle", "send", "acked", "refused"}]
    /\ row \in [Dispatcher -> Request \cup {NoRequest}]
    /\ wpc \in [Worker -> {"idle", "call", "complete", "execute", "settle", "commit"}]
    /\ event \in [Worker -> Event]
    /\ evidence \in [Worker -> FailureOutcome \cup {"accepted", "none"}]
    /\ next \in [Worker -> Stage \cup {NoStage}]
    /\ \A r \in Request : (r \in Requested) = (replay[r].status # "none")
    /\ \A r \in Request : authority[r] # "valid" => r \in Requested
    /\ \A d \in Dispatcher : dpc[d] # "idle" => row[d] \in Requested
    /\ \A w \in Worker : wpc[w] \in {"call", "complete"} => Mine(w) \in Requested

\* The recipient of a stage gets its message at most once, over the ordinary
\* execution and every replay of it, although both are at-least-once, owners
\* die around the call, and several approvals exist for one failure
\* (Eligible, Unconsumed, claim, complete).
DeliveredOnce ==
    \A n \in Stage :
        /\ ~(delivered[n] /\ redelivered[n])
        /\ sent[n] <= 1 /\ resent[n] <= 1

\* Row, attempt and failure of a replay tell one story, whether it was denied,
\* completed, or found with its lease over by another worker (record, deny).
RowsAgree ==
    \A r \in Requested :
        /\ replay[r].status = "RESERVED" => attempt[r] = "none" /\ failure[r] = "none"
        /\ replay[r].status = "RUNNING" => attempt[r] = "STARTED" /\ failure[r] = "none"
        /\ replay[r].status = "SUCCESS" => attempt[r] = "ACCEPTED" /\ failure[r] = "none"
        /\ replay[r].status \in {"FAILED", "UNKNOWN"} =>
             /\ failure[r] # "none"
             /\ attempt[r] = AttemptStatus(failure[r])
             /\ replay[r].status = Terminal(failure[r])

\* Stage n succeeded, in its ordinary execution or in a replay.
Passed(n) ==
    \/ decision[n] = "succeeded"
    \/ \E r \in Requested : StageOf(r) = n /\ replay[r].status = "SUCCESS"
Before(n) == \A m \in Stage : m < n => Passed(m)

\* A stage is queued, executed and sent again only when all stages before it
\* have succeeded: neither a redelivered ordinary event of a failed stage nor a
\* replay that failed or is not known lets the run go on
\* (stageResolution, executeReplayStage, settleMessage).
LinearProgression ==
    /\ \A e \in queued : Before(e.stage)
    /\ \A n \in Stage : decision[n] # "open" \/ sent[n] + resent[n] > 0 => Before(n)

\* A committed offset leaves no work behind: a replay whose event is committed
\* is decided, and what follows a success is in the topic, whichever worker
\* found the success (docs/kafka.md, offset commits).  So a run all of whose
\* events are committed has come to its end, or to a stage that failed.
CommittedIsSettled ==
    /\ \A e \in committed :
        IF e.request = NoRequest
        THEN /\ decision[e.stage] # "open"
             /\ decision[e.stage] = "succeeded" /\ e.stage < Last =>
                  Ordinary(e.stage + 1) \in queued
        ELSE /\ replay[e.request].status \in Decided
             /\ replay[e.request].status = "SUCCESS" /\ e.stage < Last =>
                  Ordinary(e.stage + 1) \in queued
    /\ queued \subseteq committed =>
         \/ \A n \in Stage : Passed(n)
         \/ \E n \in Stage : decision[n] = "failed" /\ ~Passed(n)

\* ReplayAllowance, read off the requests of a stage and their rows.
ReplayFor(n) == {r \in Requested : StageOf(r) = n}
AllowanceOf(n) ==
    CASE ReplayFor(n) = {} -> "unused"
      [] \E r \in ReplayFor(n) : replay[r].status = "RUNNING" -> "running"
      [] \E r \in ReplayFor(n) : replay[r].status = "RESERVED" -> "reserved"
      [] OTHER -> "spent"
VerdictOf(n) ==
    CASE \E r \in ReplayFor(n) : failure[r] # "none" ->
           failure[CHOOSE r \in ReplayFor(n) : failure[r] # "none"]
      [] \E r \in ReplayFor(n) : attempt[r] = "ACCEPTED" -> "accepted"
      [] OTHER -> "none"

Allowance == INSTANCE ReplayAllowance WITH
    allowance <- [n \in Stage |-> AllowanceOf(n)],
    verdict <- [n \in Stage |-> VerdictOf(n)],
    calls <- resent,
    arrived <- redelivered,
    barred <- {n \in Stage : \E r \in ReplayFor(n) : authority[r] # "valid"}

\* Whatever operators, dispatchers and workers do, a failed stage has one
\* allowance, taken up only while its authority holds, spent once and for
\* good, with a verdict that what the provider did does not refute
\* (docs/ai-dlq-master-plan.md, section 5).
ImplementsAllowance == Allowance!ASpec

\* A request is stamped as published only after the topic has its event,
\* whichever dispatcher stamps and however late (dispatchOne).
Relay == INSTANCE AtLeastOnce WITH
    Item <- Request,
    queued <- {r \in Requested : ~replay[r].publishedAt},
    retired <- {r \in Requested : replay[r].publishedAt},
    published <- {r \in Requested : EventOf(r) \in queued}
RelaysAtLeastOnce == Relay!LSpec

\* A reserved replay is claimed or denied, unless its time runs out first, and
\* one that is claimed is decided: by its owner, or by a redelivery if the owner
\* dies or answers too late (dispatch retries, claim on an expired lease).
ReplaysEnd ==
    \A r \in Request :
        /\ replay[r].status = "RESERVED" ~>
             replay[r].status # "RESERVED" \/ authority[r] = "expired"
        /\ replay[r].status = "RUNNING" ~> replay[r].status \in Decided

\* A replay that succeeded lets its run go on, although the worker may die
\* after it has stored the success (nextStage stored with the claim).
RunContinues ==
    \A r \in Request :
        replay[r].status = "SUCCESS" /\ replay[r].nextStage # NoStage ~>
            Ordinary(replay[r].nextStage) \in queued
=============================================================================

# Verification of the Zap pipeline

TLA+ models, TLC runs and TLAPS proofs for the automation platform in `src/`:
webhooks start *runs*, a run is a list of *stages* (one action each: email or
Telegram), and every stage must be executed with a durable, truthful and final
outcome although Kafka delivers at least once, workers die and providers answer
late. Failures are published to a dead-letter topic. A triage application gives
each failure a *case*, which support, the owner of the Zap and engineering hand to
one another; an agent investigates it, and people approve a replay of the failed stage.

Contents: [inventory](#inventory), [modules](#modules),
[runs](#runs), [bounds](#bounds), [fairness](#fairness), [proofs](#proofs),
[what the checks found](#what-the-checks-found),
[not modelled](#what-is-not-modelled), [plan](#plan).

## Inventory

All durable state is in PostgreSQL (`packages/db/prisma/schema.prisma`) and two
Kafka topics; processes keep nothing across a restart. They interact only
through rows and messages, so "concurrency" below always means several
processes between whose statements and transactions anything may happen.

| Component | Source | State it owns | Operations | Talks to |
|---|---|---|---|---|
| Webhook ingestion | `apps/webhook/app.ts` | ZapRun, ZapRunOutbox | accept a webhook: one transaction writes the run and its outbox row | processor, through the outbox |
| Outbox processor | `apps/processor/index.ts` | none | read up to 10 outbox rows, send them as one batch, delete them | Kafka `zap-events` |
| Worker | `apps/worker/index.ts`, `message-resolution.ts` | the group's offsets | fetch, load the stage, execute it, queue the next stage, commit | Kafka, stage execution |
| Stage execution | `apps/worker/orchestration.ts`, `execution-store.ts` | ZapRunExecution, ZapRunExecutionAttempt, ZapRunRetry | claim under a lease, start an attempt, call the handler, finalize; resolve an existing row | handlers, reconciler, through the rows |
| Action handlers | `apps/worker/actions/*` | none | one provider call, classified as accepted, rejected, not attempted or unknown | Resend, Telegram |
| DLQ reconciler | `apps/worker/dlq-reconciler.ts` | the same rows as stage execution | give up an expired claim; give a legacy failure its record | stage execution, publisher |
| DLQ publisher | `apps/worker/dlq-publisher.ts` | publication columns of ZapRunRetry | claim a due row, send, stamp or back off | Kafka `zap-events-dlq` |
| DLQ process | `apps/worker/dlq-publisher-index.ts` | none | alternates reconciler and publisher in a loop | both |
| Replay request and dispatch | `apps/primary_backend/services/replay.ts`, `replay-dispatcher.ts` | ReplayRequest, dispatch columns of ReplayExecution | validate, dry run, request once per approval, dispatch | replay execution |
| Replay execution | `apps/worker/replay.ts` | ReplayExecution, ReplayExecutionAttempt, ReplayFailure | deny, claim, execute under a deadline, complete; answer `stageResolution` | stage execution |
| Replay policy | `replay-policy.ts`, `replay-policy-facts.ts` | none | decide from facts whether a replay is allowed | replay |
| Investigation authority | `investigation-authority.ts`, `-proposals.ts`, `-notifications.ts` | proposals, approvals, notifications | propose, decide once, notify the agent until it answers | case workflow, agent |
| Case workflow | `case-workflow.ts`, `triage-engineering.ts`, `triage-owner.ts`, `route/triage.ts` | case workflow and events, the action's metadata | versioned, idempotent transitions between support, owner and engineering; the owner's edit of the action | authority, replay |
| Investigation jobs | `apps/ai_agent/src/investigation-store.ts`, `runner.ts`, `investigation-http.ts` | jobs, leases, reservations | start, claim under limits, finish, fail, apply a decision | backend, graph |
| Diagnosis graph | `apps/ai_agent/src/graph.ts` | a checkpoint per investigation | run, stop for a decision, take it | jobs |
| Agent, read side, Zap routes, frontend, scripts | see `PROJECT.json` | rows of their own, if any | generate text, query, create | |

What is hard, and what makes each part correct:

* **Stage execution.** A message may be delivered to any worker any number of
  times; an owner may die, or stall past its lease and come back; the provider's
  answer may be late, missing or ambiguous; clocks of hosts differ; a redelivery
  and the reconciler may give up the same claim. Correct means: the provider is
  asked to send at most once; row, attempt and failure record tell one story; the
  story is not refuted by what the provider really did; a decided stage is never
  rewritten; an offset is committed only for a decided stage; and every claimed
  stage is decided in the end.
* **Outbox and worker.** The processor dies between send and delete or sends a
  part of a batch; a partition moves while its old consumer is still busy; a commit
  is lost after the next stage was queued. Correct means: no accepted run is lost,
  stage N+1 is queued only after stage N succeeded, a committed offset leaves no work
  behind, and every run reaches an end that can be read from the database.
* **DLQ publisher.** Several publishers compete with claims that are decided by
  a clock reading that may be old, on hosts whose clocks differ; the broker refuses, or takes a message whose
  acknowledgement is lost, or answers after the lease. Correct means: nothing is
  stamped before the topic has it, a running lease is respected, only the holder of
  a claim settles it, a stamp is final, every failure is stamped in the end.
* **Replay.** A replay of a failed stage races ordinary redeliveries of that stage,
  its own lease and deadline, and the end of what allowed it. Several approvals may
  exist for one failure, and the dispatcher may publish a request several times.
  Correct means: the recipient gets a stage's message once, over execution and replay;
  a stage has one allowance, taken up only while what allowed it holds and spent once, under a
  verdict that the provider does not refute;
  the run continues after a success, and only after one.
* **Case workflow and authority.** HTTP calls of several people run at the same time, are
  repeated under their idempotency key, fail between any two statements, look at the
  case in one query and move it in another transaction. Correct means: the events are
  the whole history of the row; a key takes effect once; approval, notification and
  move of a decision stand or fall together; the owner and engineering answer only what they were
  asked; no acknowledged edit is overwritten.
* **Investigation jobs.** Runners race for jobs under limits counted over leases that
  expire and reservations that age, die, or come back after their lease; a decision
  about a result reaches the agent in requests that get lost or repeated. Correct
  means: the limits hold; a result is that of the last attempt; every job ends; a committed
  decision arrives at the job and at the graph.

`PROJECT.json` lists every component with its status, and under `hazards` the
lines where each of these things can go wrong with the properties that watch it.

## Modules

| Module | Models | Role |
|---|---|---|
| `ActionHandlers` | `actions/telegram.ts`, `actions/email.ts`, `normalizeFailure` | pure operators: classes of provider answers and the outcome made of each |
| `StageExecution` | `orchestration.ts`, `execution-store.ts`, `dlq-reconciler.ts` | the protocol on the rows of a stage |
| `StageContract` | (abstract) | what the protocol promises to readers of the rows |
| `DlqPublisher` | `dlq-publisher.ts` | publication of failures |
| `AtLeastOnce` | (abstract) | what a relay from a table to a topic promises; implemented by four components |
| `ZapPipeline` | `webhook/app.ts`, `processor/index.ts`, `worker/index.ts`, `message-resolution.ts` | a run from its webhook to its last stage |
| `Replay` | `services/replay.ts`, `replay-dispatcher.ts` of the backend, `replay.ts` of the worker | the replay of a failed stage, from its request to the next stage |
| `ReplayAllowance` | (abstract) | what a replay promises: one allowance for each stage |
| `CaseWorkflow` | `case-workflow.ts`, `triage-engineering.ts`, `triage-owner.ts`, `investigation-authority.ts`, `route/triage.ts` | concurrent calls about one case |
| `CaseLedger` | (abstract) | what concurrent calls about a case promise: each takes effect at one instant, on the row as it is, or is a repetition |
| `Investigations` | `investigation-store.ts`, `runner.ts`, `investigation-http.ts`, `graph.ts` of the agent, `investigation-notifications.ts` of the backend | jobs of the agent and the way of decisions to it |
| `StageExecutionProofs`, `DlqPublisherProofs`, `ZapPipelineProofs`, `ReplayProofs`, `CaseWorkflowProofs`, `InvestigationsProofs` | | theorems of the module they are named after |
| `LeastNumber` | | lemmas about the least number with a property, for induction over the stages of a run |
| `MC...` | | constants and symmetry for TLC |

How they compose: `Replay` instantiates `StageContract` for the ordinary execution of its
stages, which `StageExecution` is proved to refine. `ZapPipeline` uses of a stage what the
same contract allows. `DlqPublisher`, `ZapPipeline`, `Replay` and `Investigations` refine
`AtLeastOnce` each with its own table and topic (for the last one the table is the
notifications of decisions and the topic the agent's job and graph). `CaseWorkflow` refines
`CaseLedger`. A decision that `CaseWorkflow` commits is where
`Investigations` begins to deliver it (`Decide`).

### How state and actions correspond to the code

**`StageExecution`.** `execution[k]`, `attempt[k]`, `failure[k]` are the rows of the
stage `k`; a row that does not exist is `NoRow`, `NoAttempt`, `NoFailure`. `pc`, `at`,
`token`, `timestamp`, `evidence` are the local variables of one call of `executeStage`
or of one round of `reconcileNext`, and `resolution` is what `executeStage`
returned. One action is one statement, one transaction or one provider call:
`Claim`/`ClaimTaken` are the two outcomes of the `create` of `claim` (the unique index
decides), `ResolveExisting`/`ResolveExpired` the read of `resolveExisting`,
`QuarantineExpired`/`QuarantineStale` its later transaction, `Reread` its second
read, `StartAttempt`, `Execute`, `FinalizeSuccess`, `FinalizeFailure` and
`FinalizeNotAttempted` the steps of an owner, and `LostClaim` the STALE outcome of each
of them. `FindExpired`, `FindFailed`, `ReconcileExpired` and `RepairFailed` are the two
queries and two transactions of the reconciler. A transaction that throws rolls
back, so its action changes no row; a transaction's reads and writes are one step
because every write in it is conditional on the row it has just updated
(`updateMany` with the status and the token, counted) and the row lock is held to
the end. `Crash` may happen at every point and stands for a thrown database error
too. `Legacy` keys may start with a row from before claim tokens existed
(`claimToken` null), a state `resolveExisting` and `repairFailed` have code for.
`sends` and `delivered` are history: what went out to the provider and what
became of it. They exist so that properties can compare the record with the truth.
A claim token is modelled by a counter, which gives uuids their freshness and rows the
order of `createdAt`.

**`ActionHandlers`.** `EmailOutcome` and `TelegramOutcome` map the classes of answers
the handlers distinguish to outcomes. Telegram's handler makes a second, earlier
call (`resolveChatId`), which is why a failure can be `not_attempted`.
`MayBeDelivered` is the assumption about providers: a 4xx refuses the message, a
receipt is given only for an accepted one, anything else proves nothing.

**`DlqPublisher`.** Stored instants are kept relative to now, so that time need not be
bounded: `leaseLeft`, `retryLeft` count down, `age` says how old the `now` is that
`claimNext` read before its query and still uses in the conditional updates. The clocks of
hosts differ by up to `Skew`: a reading (`Reading`) may be behind from the start, or ahead,
which is a negative age, and a lease or a backoff written with it ends later or sooner.
`LeaseRespected` therefore holds up to `Skew` and no better.
`FindDue` is the query, `Claim` one conditional update of the oldest row left to try
(`ClaimRow` ends the loop, `SkipRow` goes on with the next), `ReadClaimed` the `findUnique` after it, `SendAcked`/`SendFailed` the
broker's answer (a failed send may or may not have published), `Stamp` and `Release`
the two settling updates, each fenced by id, token and missing stamp.

**`ZapPipeline`.** `log`, `committed`, `assigned` are Kafka: a log per partition, the
group's offset, the consumer of each partition. The processor's batch goes to the log
in any order and partition (rows are read by a random uuid, messages have no key). A
stage is only `absent`, `PENDING`, `SUCCESS`, `FAILED` here: `Claim`, `Finalize`,
`ClaimPending` and `GiveUp` move it as `StageExecution` allows, which is the module to
look at for leases and attempts. `SendNext` comes before `Commit`, as in
`settleMessage`; a failed `SendNext` may have queued the message. `Rebalance` may take a
partition from a worker that is still busy, whose commit is then refused.

**`Replay`.** `request[r]` is the approval that a `ReplayRequest` row has consumed (its
other columns follow from it), `replay[r]`, `attempt[r]`, `failure[r]` are the row's
`ReplayExecution`, `ReplayExecutionAttempt` and `ReplayFailure`. `RequestReplay` is the
serializable transaction of `request`; `Eligible` is what the policy requires of the rows
of the run, `Unconsumed` the look-up by id, approval or case. `DispatchOne`,
`DispatchAcked`/`DispatchFailed` and `SettleDispatch` are the query, the send and the
stamp or release of `dispatchOne`, the last one fenced by the dispatch token. For the
worker, each result of `claim` is an action (`ReplaySucceeded`, `ReplayTerminal`,
`RecordExpired`, `Deny`, `ClaimReplay`), and `CallProvider`, `CompleteReplay` and
`CompletionRefused` follow a claim; `Recover` is `stageResolution` for an ordinary message,
`SendNext` and `Commit` are `settleMessage`. A result that only leaves the message where it
is (BUSY, DISABLED, a RUNNING replay of the stage) is no step. `authority[r]` is what a claim
will find of the approval and of all it rested on: it holds, it is withdrawn (an operator
has lost the permission, the action was edited) and may be restored (`Reconsider`), or its
time has run out for good (`Expire`). `ClaimReplay` looks at it again, in the transaction of the
claim. `Deny` does not ask for a reason, so that any claim may be denied, and
whether a lease is over or `notBefore` reached is left open too: any
lease may be held to be over as soon as it is taken. This allows more than the code does. The ordinary execution of the stages
makes the steps of `StageContract` (`ExecuteOrdinary`): the theorem
`ContractImplemented` is what justifies the composition. The topic is a set, since
replays carry a key and ordinary messages none, and redelivery is possible at any time.

**`CaseWorkflow`** is about one case; cases share nothing. `workflow` is its row, `trail` its
events, `approval` and `notified` what a decision leaves, `metadata` what the action
holds. A call `c` of kind `Kind[c]` under the key `Key[c]` goes through its statements:
`Route` or `Check` (the look of the owner's and engineering's handlers at the case, in a query
of its own) or `Decide` (the lock on the proposal's row and the search for an earlier approval),
then `LookUp`, `LockRow` and `Apply` of `transition`. What a transaction writes becomes visible when it
commits, so `Apply` makes all its writes and `rowLock`, `held` are what others wait for. `Apply`
fails if the event's primary key exists by then. `Fail` rolls back at every point,
`Retry` is the client that repeats the call under its key. `LoadAction`, `CheckAction` and
`WriteAction` are the owner's edit: what the page shows, the comparison of its token, the
conditional update. Each edit is taken to leave metadata of its own. That a key
names one request is an assumption (`CallAssumption`): the front end derives decision keys
from proposal and decision (`useTriage.ts:283`).

**`Investigations`.** A job's row is `status`, `token` (the attempt that holds the lease), `live`
(its lease is not over), `attempts`, `snapshot`; `reserved[o]` counts the reservations of
an owner in the last 24 hours. `Count` is `claimNext` up to its choice, under the advisory
lock, and gives up exhausted jobs on the way; `Claim` is its update, its reservation
and its commit. `Miss` is a poll whose row has changed in between and which claims nothing.
`Execute`, `Finish` and `Fail` are `runner.ts`; the last one settles by token alone,
whether the lease is over or not. `Lapse` and `Age` are 90 seconds and a day. `graph[j]` is
the checkpoint of `graph.ts`. `Decide` stands for the proposal and the decision in the backend;
`Send`, `Stamp`, `GiveUp` are `deliver` there, `ApplyDecision` and `ResumeDecision` the two things that
the agent's endpoint does with the request, `Lose` the network between them.

**`ReplayAllowance`** speaks of the stage only: an allowance that is unused, reserved,
running or spent, the verdict of a spent one, and the stages that are `barred` because the
authority for their allowance does not hold (`Turn`): theirs cannot start. It is to people who
approve a replay what `StageContract` is to those who read a failure: a late call is
possible only under the verdict "unknown", and what was withdrawn before the claim is not done.

**`CaseLedger`** knows the row of the case, its trail, the keys used and the holder of the action's
metadata, and no locks, look-ups or statements: `Enter` moves the row and appends the event that says from where
to where, `Repeat` answers a call whose key is in the trail, `Edit` replaces the metadata by those of
an edit that saw the ones it replaces.

**`StageContract`** speaks of a decision, a record, a sent and a delivered message
per stage. The refinement mapping (`Contract` at the end of `StageExecution`) reads
them off the rows. Its most interesting clause is `Send`: a message may leave *after*
the stage has failed, but only if the record says "attempt 1, unknown". That is what an
operator who decides about a replay may rely on.

## Runs

| Run | Question | Distinct states |
|---|---|---|
| `stage_safety` | With two workers, a reconciler, skewed clocks, crashes and redeliveries everywhere: at most one send, one consistent, truthful and final set of rows, backed acknowledgements, and only steps of the contract? | 314,870 |
| `stage_liveness` | With two DLQ processes that act on the same stale query result and may die at any point: is every claimed stage decided and every legacy failure recorded? | 71,254 |
| `dlq_safety` | Two publishers whose clocks differ, stalls as long as a lease: stamped only if published, leases respected but for the skew, of those with a row in hand only the holder of its claim settles, stamps final? | 138,257 |
| `dlq_liveness` | Is every failure published and stamped in the end? | 19,397 |
| `pipeline_safety` | A two-stage run and one of a Zap without actions, two partitions, two consumers, any two faults: nothing lost, skipped or committed early, no stage logged before all earlier ones succeeded, no run left without a message that will carry it on, and the message that cannot be executed never passed? | 621,860 |
| `pipeline_liveness` | With one fault: does every accepted run end? | 28,586 |
| `empty_zap` | *Violation.* A Zap without actions blocks its partition for ever | |
| `replay_safety` | Three approvals, two request ids, two workers and a dispatcher: one delivery per stage over execution and replay, one allowance, not taken up without authority, rows that agree, a run that advances only over stages that all succeeded? | 138,997 |
| `replay_liveness` | Stamped only if in the topic, every reserved replay decided or out of time, and does the run go on after a replay that succeeded? | 25,207 |
| `case_workflow` | Two decisions about one proposal, a repair submitted twice under one key, an escalation and two edits, in any order of their statements: do they act as calls that each take effect at one instant (`CaseLedger`), each key applied once, decisions whole, no edit lost? | 378,075 |
| `stale_repair` | *Violation.* A repair is accepted for a case that no longer awaits its owner | |
| `investigations` | Two jobs of one owner, two runners that die or come back late, requests that get lost: limits kept and each lease in one hand, result of the last attempt, every job ended, no decision stamped before it is applied, every decision delivered? | 27,507 |

Each property has a mutant (`PROJECT.json`, `mutants`): a plausible bug in one mapped
definition, such as a fence that forgets the status, an expired claim that is dropped
instead of decided, a swallowed error of `send`, under which TLC finds the property
violated. They are the definitions marked "Mutant" in the modules; no specification
uses them.

## Bounds

* **Keys, workers.** Two stages, so that the reconciler's order and priorities matter;
  two workers, since every race in the protocol is between an owner and somebody who
  gives its claim up. The theorems lift the bound for safety.
* **Time in `StageExecution`.** `Lease = 1`, `Horizon = 2`, `Skew = 1`: a claim is accepted
  only if every clock sees it expire within the horizon, so that each claim can be
  overtaken before, during and after the provider call. With `Skew = 1` a process may
  hold a lease to be over that its owner has just taken. The liveness run has no
  skew, only to be small.
* **`DlqPublisher`.** `Lease` is at least the longest backoff (120 s and 60 s in the
  code); `Stall` is as long as a lease in the
  safety run, so a publisher may claim with a reading that is entirely out of date. `Skew` is 1
  there: a clock that is ahead finds a lease over that has just been taken, one that is behind
  writes a lease that others find over at once. The liveness run has no skew, only to be small.
  `MaxAttempts` stops a counter that only feeds the backoff, above the point where the
  backoff is capped. `Token` has one token more than rows and publishers can hold.
* **`ZapPipeline`.** `MaxFaults` counts crashes, failed sends and rebalances together.
  Two of them are one that makes a message be delivered again and one that hits the
  second delivery. In the safety run there are two partitions, so that stages of one
  run may be with both consumers at once, and one of the runs has no stage at all; the
  liveness run has one partition, which makes the two runs queue behind each other. The
  theorems have no bound on faults.
* **`Replay`.** Two stages, so that a replay has a next stage to queue and a predecessor to
  depend on. Two approvals of one stage compete for it, and a second request id is there
  for what must not happen. The race between an owner and whoever closes its claim takes two
  workers. One dispatcher competes with itself from before a crash; the theorem
  `DispatchRelays` covers any number (TLC agrees for two: 323,677 states, once, outside the runs).
* **`CaseWorkflow`.** Seven calls: two decisions about one proposal under different keys, two
  submissions of a repair under one key, an escalation, two edits. These are the pairs that meet in
  a lock, in a key and in a stale read. Engineering's answers take the same path as the
  submission (a call that returns findings, added once outside the runs: 1.72 million states,
  no error). `MCCaseWorkflow` names the calls; `Retry` is unbounded.
* **`Investigations`.** Two jobs of one owner compete for one lease and one reservation at a time
  (`OwnerLimit`, `Budget` of 1), so that the owner's limits bind; the service's own limit does
  not bind there and rests on `LimitsAreKept`, which covers it for every value. Two attempts are the
  least that let a late runner meet a newer one. One job leads to a decision.

## Fairness

Liveness is checked under `FairSpec` only:

* `Tick` is weakly fair: clocks run.
* The DLQ process loops for ever over `reconcileNext` and `publishNext`; its steps are
  fair. They are *strongly* fair where a crash may disable them, which says: the
  process may die in any round, but not at the same point of every one. The repository
  ends the process on a database error and contains no supervisor; a restart is
  assumed, and without it nothing is live.
* `SendAcked` is strongly fair: the broker does not refuse every attempt. `SendFailed` and
  `Crash` have no fairness.
* In `ZapPipeline` a worker's and a processor's steps are weakly fair, and `Fetch` is
  strongly fair for each partition: KafkaJS polls the assigned partitions in turn.
  `Webhook` has none: nobody has to call it. In `StageExecution` no worker step is
  fair: the reconciler alone must be enough.
* In `Replay` the dispatcher's steps are strongly fair, except that a send may fail, and a
  worker's steps weakly. For each request, the claim of its uncommitted event and the
  queueing of the next stage after it are strongly fair: a message whose offset is not
  committed is delivered again, leases end, and the worker does not die at the same point every
  time. Nothing is assumed of ordinary events, approvals or operators. A replay whose time
  runs out before it is claimed may stay reserved: nothing dispatches it any more, and
  `ReplaysEnd` says so. The release gate is assumed open: closed, nothing moves.
* In `Investigations` clocks run (`Lapse`, `Age` weakly fair). Some runner polls every two
  seconds: counting, and claiming or missing what was counted, is strongly fair for the
  runners together, since a crash or an empty poll may disable it for one of them; a job at work is
  executed, stored or failed, weakly. The drain runs every five seconds: sending, taking
  and stamping a decision are strongly fair, that is a request is not lost at the same point every
  time; a request ends after five seconds (`GiveUp` weakly fair). `CaseWorkflow` has
  no fairness: nobody has to call it.

## Proofs

Every invariant and every action property of the passing runs is proved, and so are all
refinements, for every value of the constants that satisfies the assumption of
the module (`StageAssumption`, `PublisherAssumption`, `PipelineAssumption`, `ReplayAssumption`,
`CallAssumption`, `InvestigationAssumption`). The inductive invariants are called `IInv`; where a further result
needs more, a second invariant is inductive on top of it (`TokenInv`, `ProgressInv`, `LocksInv`,
`WorkApart`, `DeliveryInv`). All were checked by TLC on the run's instance before they were proved.

That a run has no gap is an argument from each stage to the next, over any number of stages. The induction
principle of the library is out of the provers' reach; `LeastNumber` replaces it: if some stage lacks a property
there is a least one (`LeastOf`, from the well-foundedness of the natural numbers), and its predecessor
has it.

### `StageExecutionProofs`

| Theorem | Says |
|---|---|
| `TypeCorrect` | `Spec => []TypeOK` |
| `SendsOnce` | at most one message per stage |
| `OneTruthHolds` | row, attempt and failure record agree |
| `EvidenceIsTruthful` | the recorded outcome is not refuted by the provider |
| `ResolutionsBacked` | what `executeStage` returned stays backed until the message is settled |
| `DecisionsAreFinal` | decided rows, closed attempts and records are never rewritten (`Spec => FinalRows`) |
| `ContractImplemented` | `Spec => ImplementsContract`: the refinement of `StageContract` |

None of the invariants is inductive alone. `AtMostOneSend`, for instance, says nothing
about an owner that is about to call the provider. The inductive invariant `IInv` adds
what each part of the system relies on:

* `KeyInv(k)`: what the rows of one stage say together. An open claim has no attempt or
  the started one; attempt 0 means nothing was sent; a failed claimed row has its record
  with the same outcome and attempt number.
* `OwnerInv(p)`: what an owner relies on between its own statements: it holds the row's token;
  before the call its attempt is in flight and nothing was sent; after it the evidence
  is true. `InFlight` is the crux: while the owner works, the claim is either still open
  or was given up with the record "attempt 1, unknown", the only one a late send or a
  late refusal cannot refute.
* `SoleOwner`: two owners never work on one key. Without it one owner's call would disturb
  what the other relies on.
* `LocalInv(p)`, `BackedInv(p)`: a working process has a key, and a returned resolution
  is backed by the rows.

The proof has one lemma per action (`ClaimStep`, `ExecuteStep`, ...). Actions that write
only local variables go through `LocalStep`, those that write the rows of one key through
`KeyStep` or `IdleStep`, which leave one key and its owners to be shown. `HandlersTruthful`
is the fact about `ActionHandlers` that `ExecuteStep` needs. The two quarantines share
`QuarantineKeeps`. For `DecisionsAreFinal` every action is shown to leave decided rows
alone, from the fences and `KeyInv`. For `ContractImplemented` the initial states and each
action are mapped (`ContractInit`, `ExecuteSends`, `FinalizeFails`, ...), under `IInv`.

### `DlqPublisherProofs`

`TypeCorrect`, `ClaimsRespectLeases`, `HoldersSettle`, `StampsAreFinal`, `PublisherRelays` (the
refinement of `AtLeastOnce`). `IInv` adds to the types what a publisher relies on between its
query and its settlement: the rows in its hands are recorded, what it holds to be
acknowledged is in the topic, a stamped row is in the topic and carries no claim, so that no
publisher finds its own token there any more. `BackoffBounded` shows
that the backoff stays within its cap for every counter. The three action properties follow
from `IInv` and the fences of the step (`StepRespectsLeases`, `StepSettlesOwn`,
`StepKeepsStamps`), for clocks that differ by any `Skew` up to `Stall`. `TokenInv` adds that a publisher with a row in hand has a token and that no two
publishers hold the same (`TokensApart`). From it follows the half of `HoldersSettle` that a fence alone does not give: of several
publishers that believe they hold a row, one at most finds its token there.

### `ZapPipelineProofs`

`TypeCorrect`, `StagesFollowSuccess`, `CommitsAreSettled`, `NobodyIsStranded`, `PipelineRelays`. `IInv` consists of `Shape`
(on what the functions are defined), `LinearInv`, `CommittedInv` (what is behind an offset is
`Settled`: decided, and carried on if it succeeded), `RelayInv` (each accepted run is
in the outbox or in the log, and what a processor is about to delete is in the log) and
`WorkerInv`: a worker knows what it says of its message, and *is at the head of its
partition for as long as the partition is its own*. The last part is why a commit never skips
a message: a worker that lost the partition may be anywhere, but its commit is refused.
The proof rests on a few facts about steps (logs only grow, stages only get decided,
decided stages are final) which carry everything that was settled over to the next state.
`StartedInv` says that no stage is begun but on its message, and `Reached` that all stages before a logged message
succeeded. `NobodyIsStranded` is a matter of the *least* stage that did not succeed in a run whose messages are
all committed (`AllCommitted`): its predecessor's message is settled and has carried the run on, so its own message is
in the log, committed and settled too. The stage has failed, and the run is over.

### `ReplayProofs`

`TypeCorrect`, `DeliversOnce`, `ReplayRowsAgree`, `StagesFollowSuccess`, `CommitsAreSettled`,
`DispatchRelays` (refinement of `AtLeastOnce`), `AllowanceImplemented` (refinement of
`ReplayAllowance`). The chain behind `DeliversOnce` is the chain of `IInv`: a request is only
accepted for a refusal on record (`RowInv`), a refusal on record is a failed stage that
delivered nothing and stays so (`StageInv`, from `StageContract`), a stage has one
request (`OneReplay`), a claimed replay is in the hands of one worker (`WorkersApart`), and
who is about to call has not called (`WorkerInv`, `ResentInv`). `QueueInv`, `CommittedInv` and `Ready`
do for the run what the invariants of `ZapPipeline` do there. `Later` says what no step
undoes: requests, decided stages, terminal replays, queued events. `ProgressInv` is inductive on
top of `IInv`: a stage that was begun, queued or replayed has only predecessors that are passed, by their own
execution or by a replay (`ProgressHolds`); the strong form of `StagesFollowSuccess` follows from it. The
mapping reads allowance, verdict and authority (`Barred`) off the one replay of a stage
(`AllowanceFacts`); each action is then a step of the allowance, or none. `ClaimStarts` needs the
second look at the authority, and `TurnAllowed` that a reserved request is the only one of its stage.

### `CaseWorkflowProofs`

`TypeCorrect`, `TrailIsComplete`, `KeysApplyOnce`, `DecisionsAreWhole`, `RequestsAnswered`,
`EditsAreKept`, `LocksAreGivenBack`, `LedgerImplemented`. The core of `IInv` is `CallInv`: a call that has locked the row saw it as
it is, so that its event begins where the trail ends; a decision under way holds its
proposal, which has no decision yet; a handler of owner or engineering that has looked is
backed by an event. `EventInv`, `ApprovalInv` and `KeyInv` tie events, approvals and notifications to
the calls and keys they come from. `EditsAreKept` is inductive on top of it, and so is `LocksInv`: a lock on
the proposal or the case is held by a call inside its transaction and by no other, and who has the case's row waits for
nobody, so that no calls wait in a circle.

`LedgerImplemented` is the refinement of `CaseLedger`. Its point is that the calls read in one statement and write
in a later one: `LedgerEnter` shows from `CallInv` that what `LockRow` read is still the row when `Apply`
commits, `LedgerRepeat` that a call answered from the trail was entered under its key before, `LedgerEdit` that
the conditional update replaces the metadata the page showed, `LedgerStutter` that all other steps change nothing the
ledger sees. `TrailIsComplete` and `RequestsAnswered` are kept as theorems of their own; no
run lists them, since every step that breaks the first breaks the refinement.

### `InvestigationsProofs`

`TypeCorrect`, `LimitsAreKept`, `LastAttemptCounts`, `WorkIsApart`, `DeliveryHolds`, `DecisionsRelay`. `CountedInv` says that what was counted
stays true while the lock is held: only a claim adds a live lease or a reservation, and
only the holder of the lock claims, while leases that end and reservations that age can only
make room. `WorkInv` and `LeaseInv` order the attempts: a late runner holds a smaller
attempt than the row, so its token is not the row's. `WorkApart` says that no two runners work under one
attempt of a job and that the advisory lock is held between count and claim only; with it a lease has one holder, which is part of
`LimitsAreKept`. `DeliveryInv` follows a decision along its way: a request carries
what was decided, one that is past its first half has a decided job, one that is answered a resumed
graph, and a stamped notification has both, however often requests were lost and repeated before. `DecisionsRelay`, the refinement
of `AtLeastOnce`, follows from it.

### Only model-checked

All liveness, since the prover does not reason about fairness or `ENABLED`: `EventuallyDecided`,
`EventuallyStamped`, `EveryRunEnds`, `RunContinues`, `ReplaysEnd`, `EveryJobEnds`, `DecisionArrives`.

## What the checks found

`empty_zap`: `POST /zap` accepts a Zap without actions (the array in `zodtypes.ts` has no
minimum) and the webhook accepts its runs. Stage 0 then has no action, and the worker
throws for its message before anything durable is written. The offset is never
committed, so Kafka delivers the message for ever and every run behind it in the
partition waits. `docs/worker.md` draws the throw; the product document promises that
every failure is durable evidence, and this one leaves none. Safety is not
affected (`pipeline_safety` has such a run in it).

`stale_repair`: the acknowledgement route reads the workflow, checks that it awaits its owner
("Fail closed", `route/triage.ts:852`), and moves it in a later transaction without an
expected version. Support's escalation in between is overwritten: the case leaves the
queue of engineering as repaired. The same shape is in engineering's two handlers. Weaker
statements hold and are proved: `AnswersARequest` (the case *was* handed to them at some point) and
`ImplementsLedger` (the event says truthfully where the case came from, whatever the caller had looked at).

Observations that contradict no document, or that the models only touch:

* A second submission of a repair under the same key is refused once the first has moved the
  case: the look at the status comes before the look-up of the key. The client of a lost
  answer gets a conflict instead of the stored answer; nothing is applied twice.
* `start` answers a request with the active job of another key and does not record the
  request's own, so that its retry after that job's end makes a second investigation.
* Nothing moves a job out of `proposed` when its proposal expires, although the lifecycle of
  the master plan (line 129) lists `expired`. `EveryJobEnds` counts `proposed` as an end.
* A drain takes the 20 oldest pending notifications: 20 that the agent keeps refusing would hold back
  all younger ones. `Investigations` has fewer, so this is outside what it shows.

## What is not modelled

* Text: templates, fingerprints, safe codes, the shape of the DLQ event, HTTP bodies.
* The trigger-capture endpoint of the webhook application (a buffer for the editor).
* Idle sleeps and poll intervals; back pressure of Kafka; retention of topics.
* Replays have a module of their own; `ZapPipeline` has only events without
  `replayRequestId`. Of replays, the dry run (it writes an audit row), audit rows and the
  release gate are left out.
* The facts of the replay policy: a conjunction read in one transaction. `Replay` may be forbidden
  any request and any claim, so its results hold whatever the policy says, and `authority` says only
  whether the conjunction holds at the claim; what the facts ought to be is not a question of states.
* Of investigations: the submission of a proposal (one per investigation, in one
  transaction), the daily limits on `start`, the history of events and its stream.
* What the language model, its tools and the retrieval answer; queries for display; the
  frontend; account and Zap routes (rows created in one statement); scripts.
* By far the largest part of `src/` is none of the above: recorded evaluation data and the
  programs that score it, the generated database client, vendored tools. They have no
  protocol to model, which is why the modules map only a small share of all lines.

## Plan

Done, in this order: `StageExecution`, `DlqPublisher`, `ZapPipeline`, `Replay`, `CaseWorkflow`,
`Investigations`, each with its runs and then its proofs.

Left:

1. A run of `CaseWorkflow` with two proposals of one case, where a newer proposal makes
   decisions about the older one stale.
2. The submission of proposals as an action between `Investigations` and `CaseWorkflow`, and
   with it a composition of the two: a decision of the case, its notification, its job.
3. The backlog of notifications, with more of them than a drain takes.
4. What the abstract specifications promise, stated as theorems about them (a retired row was published; a record never
   contradicts what was delivered), so that each refinement inherits them.
5. `Age` per reservation instead of per owner, for budgets in tokens rather than attempts.

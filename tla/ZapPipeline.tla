----------------------------- MODULE ZapPipeline ----------------------------
(***************************************************************************)
(* The way of a run from the webhook to its last stage:                    *)
(*   webhook/app.ts      commits the run with its outbox row,              *)
(*   processor/index.ts  sends outbox rows to Kafka, then deletes them,    *)
(*   worker/index.ts     executes the stage a message names, queues the    *)
(*                       next one and only then commits the offset.        *)
(* Processes die, sends fail halfway or after they took effect, partitions *)
(* move between consumers and messages are delivered again.  What a stage  *)
(* does under its claim is module StageExecution; here a stage is claimed, *)
(* decided by its owner, or given up, and executeStage returns what the    *)
(* row says.  Replay (events with a replayRequestId) is left out.          *)
(***************************************************************************)
EXTENDS Integers, FiniteSets, Sequences

CONSTANTS
    Run,         \* webhook deliveries
    Actions,     \* how many actions the Zap of each run has
    Processor,   \* outbox processors
    Worker,      \* consumers of the group
    Partition,   \* partitions of zap-events
    Batch,       \* rows one round of the processor reads at most
    MaxFaults    \* bound: crashes, failed sends and rebalances in a behaviour

ASSUME PipelineAssumption ==
    /\ IsFiniteSet(Run)
    /\ Actions \in [Run -> Nat]
    /\ Batch \in Nat \ {0}
    /\ MaxFaults \in Nat

\* The (zapRunId, stage) pairs that have an action; sortingOrder counts from 0.
Stage == UNION {{r} \X (0..(Actions[r] - 1)) : r \in Run}

VARIABLES
    accepted,    \* ZapRun: runs whose webhook was answered
    outbox,      \* ZapRunOutbox
    log,         \* zap-events, per partition
    committed,   \* the group's committed offset, per partition
    assigned,    \* the consumer each partition is assigned to
    stage,       \* ZapRunExecution.status of each stage
    ppc, batch,  \* each processor: where it is, the rows it has read
    wpc,         \* each worker: where it is ...
    source,      \* ... the partition and offset of its message ...
    advance,     \* ... and whether executeStage said to advance
    faults       \* faults so far

vars == <<accepted, outbox, log, committed, assigned, stage, ppc, batch,
          wpc, source, advance, faults>>

pvars == <<ppc, batch>>
wvars == <<wpc, source, advance>>

NoSource == [partition |-> "none", offset |-> 0]

Init ==
    /\ accepted = {}
    /\ outbox = {}
    /\ log = [q \in Partition |-> <<>>]
    /\ committed = [q \in Partition |-> 0]
    /\ assigned \in [Partition -> Worker]
    /\ stage = [x \in Stage |-> "absent"]
    /\ ppc = [p \in Processor |-> "idle"]
    /\ batch = [p \in Processor |-> {}]
    /\ wpc = [w \in Worker |-> "idle"]
    /\ source = [w \in Worker |-> NoSource]
    /\ advance = [w \in Worker |-> FALSE]
    /\ faults = 0

Fault == faults < MaxFaults /\ faults' = faults + 1

---------------------------------------------------------------------------
\* The webhook answers after one transaction: the run and its outbox row.
\* A delivery that is refused writes nothing.
Webhook(r) ==
    /\ r \notin accepted
    /\ accepted' = accepted \cup {r}
    /\ outbox' = outbox \cup {r}
    /\ UNCHANGED <<log, committed, assigned, stage, pvars, wvars, faults>>

---------------------------------------------------------------------------
(***************************************************************************)
(* The processor: one round of its loop.                                   *)
(***************************************************************************)

\* The batch is ordered by a random uuid: any rows, in any order.
ReadOutbox(p) ==
    /\ ppc[p] = "idle"
    /\ outbox # {}
    /\ \E rows \in SUBSET outbox :
         /\ rows # {}
         /\ Cardinality(rows) = Batch \/ (rows = outbox /\ Cardinality(rows) < Batch)
         /\ batch' = [batch EXCEPT ![p] = rows]
    /\ ppc' = [ppc EXCEPT ![p] = "send"]
    /\ UNCHANGED <<accepted, outbox, log, committed, assigned, stage, wvars, faults>>

\* What a send of rows may add to a partition, ...
Events(rows) == UNION {[1..n -> [run : rows, stage : {0}]] : n \in 0..Cardinality(rows)}

\* ... each of them once, in some partition and in some order.
Publish(rows) ==
    \E new \in [Partition -> Events(rows)] :
        /\ \A r \in rows :
             Cardinality({x \in Partition \X (1..Cardinality(rows)) :
                            x[2] \in DOMAIN new[x[1]] /\ new[x[1]][x[2]].run = r}) = 1
        /\ log' = [q \in Partition |-> log[q] \o new[q]]

SendBatch(p) ==
    /\ ppc[p] = "send"
    /\ Publish(batch[p])
    /\ ppc' = [ppc EXCEPT ![p] = "delete"]
    /\ UNCHANGED <<accepted, outbox, committed, assigned, stage, batch, wvars, faults>>

\* Mutant: the error of the send is swallowed, and the rows are deleted.
SendErrorIgnored(p) ==
    /\ ppc[p] = "send"
    /\ Fault
    /\ \E rows \in SUBSET batch[p] : Publish(rows)
    /\ ppc' = [ppc EXCEPT ![p] = "delete"]
    /\ UNCHANGED <<accepted, outbox, committed, assigned, stage, batch, wvars>>

\* The send throws, with some of the batch in the log; nothing catches it
\* and the process ends.
SendBatchFails(p) ==
    /\ ppc[p] = "send"
    /\ Fault
    /\ \E rows \in SUBSET batch[p] : Publish(rows)
    /\ ppc' = [ppc EXCEPT ![p] = "idle"]
    /\ batch' = [batch EXCEPT ![p] = {}]
    /\ UNCHANGED <<accepted, outbox, committed, assigned, stage, wvars>>

\* Mutant: whatever is in the outbox is deleted.
DeleteAll(p) ==
    /\ ppc[p] = "delete"
    /\ outbox' = {}
    /\ ppc' = [ppc EXCEPT ![p] = "idle"]
    /\ batch' = [batch EXCEPT ![p] = {}]
    /\ UNCHANGED <<accepted, log, committed, assigned, stage, wvars, faults>>

DeleteBatch(p) ==
    /\ ppc[p] = "delete"
    /\ outbox' = outbox \ batch[p]
    /\ ppc' = [ppc EXCEPT ![p] = "idle"]
    /\ batch' = [batch EXCEPT ![p] = {}]
    /\ UNCHANGED <<accepted, log, committed, assigned, stage, wvars, faults>>

CrashProcessor(p) ==
    /\ ppc[p] # "idle"
    /\ Fault
    /\ ppc' = [ppc EXCEPT ![p] = "idle"]
    /\ batch' = [batch EXCEPT ![p] = {}]
    /\ UNCHANGED <<accepted, outbox, log, committed, assigned, stage, wvars>>

---------------------------------------------------------------------------
(***************************************************************************)
(* The worker: processMessage on the message after the committed offset.   *)
(***************************************************************************)
Msg(w) == log[source[w].partition][source[w].offset]
At(w)  == <<Msg(w).run, Msg(w).stage>>

Goto(w, label) == wpc' = [wpc EXCEPT ![w] = label]

\* The message is over for w, settled or thrown; what is not committed is
\* fetched again.
Leave(w) ==
    /\ Goto(w, "idle")
    /\ source' = [source EXCEPT ![w] = NoSource]
    /\ advance' = [advance EXCEPT ![w] = FALSE]

\* executeStage returns with ack.
Resolve(w, adv) ==
    /\ Goto(w, "settle")
    /\ advance' = [advance EXCEPT ![w] = adv]
    /\ UNCHANGED source

Fetch(w, q) ==
    /\ wpc[w] = "idle"
    /\ assigned[q] = w
    /\ committed[q] < Len(log[q])
    /\ source' = [source EXCEPT ![w] = [partition |-> q, offset |-> committed[q] + 1]]
    /\ Goto(w, "load")
    /\ UNCHANGED <<accepted, outbox, log, committed, assigned, stage, pvars, advance, faults>>

\* Mutant: a message without an action is acknowledged.
LoadAcks(w) ==
    /\ wpc[w] = "load"
    /\ \/ At(w) \in Stage /\ Goto(w, "claim")
       \/ At(w) \notin Stage /\ Goto(w, "settle")
    /\ UNCHANGED <<accepted, outbox, log, committed, assigned, stage, pvars,
                   source, advance, faults>>

\* loadStageExecution and requireLoadedAction: a stage without an action
\* throws, and its message stays.
Load(w) ==
    /\ wpc[w] = "load"
    /\ \/ At(w) \in Stage /\ Goto(w, "claim") /\ UNCHANGED <<source, advance>>
       \/ At(w) \notin Stage /\ Leave(w)
    /\ UNCHANGED <<accepted, outbox, log, committed, assigned, stage, pvars, faults>>

\* claim creates the row, and the owner goes on to execute the action.
Claim(w) ==
    /\ wpc[w] = "claim"
    /\ stage[At(w)] = "absent"
    /\ stage' = [stage EXCEPT ![At(w)] = "PENDING"]
    /\ Goto(w, "execute")
    /\ UNCHANGED <<accepted, outbox, log, committed, assigned, pvars, source, advance, faults>>

\* claim finds the stage decided.
ClaimDecided(w) ==
    /\ wpc[w] = "claim"
    /\ stage[At(w)] \in {"SUCCESS", "FAILED"}
    /\ Resolve(w, stage[At(w)] = "SUCCESS")
    /\ UNCHANGED <<accepted, outbox, log, committed, assigned, stage, pvars, faults>>

\* Mutant: a stage that somebody else has claimed is taken for handled.
ClaimPendingParks(w) ==
    /\ wpc[w] = "claim"
    /\ stage[At(w)] = "PENDING"
    /\ Resolve(w, FALSE)
    /\ UNCHANGED <<accepted, outbox, log, committed, assigned, stage, pvars, faults>>

\* claim finds another claim: while its lease runs the message stays, when
\* it is over the stage fails here.
ClaimPending(w) ==
    /\ wpc[w] = "claim"
    /\ stage[At(w)] = "PENDING"
    /\ \/ Leave(w) /\ UNCHANGED stage
       \/ stage' = [stage EXCEPT ![At(w)] = "FAILED"] /\ Resolve(w, FALSE)
    /\ UNCHANGED <<accepted, outbox, log, committed, assigned, pvars, faults>>

\* The owner has its outcome and finalizes, unless the claim was given up.
Finalize(w) ==
    /\ wpc[w] = "execute"
    /\ \/ /\ stage[At(w)] = "PENDING"
          /\ \E s \in {"SUCCESS", "FAILED"} :
               /\ stage' = [stage EXCEPT ![At(w)] = s]
               /\ Resolve(w, s = "SUCCESS")
       \/ /\ stage[At(w)] # "PENDING"
          /\ Leave(w)
          /\ UNCHANGED stage
    /\ UNCHANGED <<accepted, outbox, log, committed, assigned, pvars, faults>>

\* The reconciler of the DLQ process finds the lease of a claim over.
GiveUp(x) ==
    /\ stage[x] = "PENDING"
    /\ stage' = [stage EXCEPT ![x] = "FAILED"]
    /\ UNCHANGED <<accepted, outbox, log, committed, assigned, pvars, wvars, faults>>

\* ordinaryNextStage, null for the last action.
HasNext(x) == Actions[x[1]] - 1 # x[2]

AppendNext(x) ==
    \E q \in Partition :
        log' = [log EXCEPT ![q] = Append(@, [run |-> x[1], stage |-> x[2] + 1])]

\* Mutant: a parked stage advances too.
SendNextAlways(w) ==
    /\ wpc[w] = "settle"
    /\ HasNext(At(w))
    /\ AppendNext(At(w))
    /\ Goto(w, "commit")
    /\ UNCHANGED <<accepted, outbox, committed, assigned, stage, pvars, source, advance, faults>>

\* settleMessage sends the next stage ...
SendNext(w) ==
    /\ wpc[w] = "settle"
    /\ advance[w] /\ HasNext(At(w))
    /\ AppendNext(At(w))
    /\ Goto(w, "commit")
    /\ UNCHANGED <<accepted, outbox, committed, assigned, stage, pvars, source, advance, faults>>

SendNextFails(w) ==
    /\ wpc[w] = "settle"
    /\ advance[w] /\ HasNext(At(w))
    /\ Fault
    /\ AppendNext(At(w)) \/ UNCHANGED log
    /\ Leave(w)
    /\ UNCHANGED <<accepted, outbox, committed, assigned, stage, pvars>>

NothingNext(w) ==
    /\ wpc[w] = "settle"
    /\ ~(advance[w] /\ HasNext(At(w)))
    /\ Goto(w, "commit")
    /\ UNCHANGED <<accepted, outbox, log, committed, assigned, stage, pvars,
                   source, advance, faults>>

\* Mutant: one offset too far.
CommitPast(w) ==
    LET q == source[w].partition IN
    /\ wpc[w] = "commit"
    /\ \/ assigned[q] = w /\ committed' = [committed EXCEPT ![q] = source[w].offset + 1]
       \/ assigned[q] # w /\ UNCHANGED committed
    /\ Leave(w)
    /\ UNCHANGED <<accepted, outbox, log, assigned, stage, pvars, faults>>

\* ... and then commits; Kafka refuses a consumer that lost the partition.
Commit(w) ==
    LET q == source[w].partition IN
    /\ wpc[w] = "commit"
    /\ \/ assigned[q] = w /\ committed' = [committed EXCEPT ![q] = source[w].offset]
       \/ assigned[q] # w /\ UNCHANGED committed
    /\ Leave(w)
    /\ UNCHANGED <<accepted, outbox, log, assigned, stage, pvars, faults>>

CrashWorker(w) ==
    /\ wpc[w] # "idle"
    /\ Fault
    /\ Leave(w)
    /\ UNCHANGED <<accepted, outbox, log, committed, assigned, stage, pvars>>

\* A partition moves to a consumer that has just joined; the one that had it
\* may still be busy with a message.
Rebalance(q) ==
    /\ Fault
    /\ \E w \in Worker :
         /\ w # assigned[q] /\ wpc[w] = "idle"
         /\ assigned' = [assigned EXCEPT ![q] = w]
    /\ UNCHANGED <<accepted, outbox, log, committed, stage, pvars, wvars>>

ProcessorStep(p) == ReadOutbox(p) \/ SendBatch(p) \/ DeleteBatch(p)

WorkerStep(w) ==
    \/ Load(w) \/ Claim(w) \/ ClaimDecided(w) \/ ClaimPending(w) \/ Finalize(w)
    \/ SendNext(w) \/ NothingNext(w) \/ Commit(w)

Next ==
    \/ \E r \in Run : Webhook(r)
    \/ \E p \in Processor : ProcessorStep(p) \/ SendBatchFails(p) \/ CrashProcessor(p)
    \/ \E w \in Worker :
         \/ \E q \in Partition : Fetch(w, q)
         \/ WorkerStep(w) \/ SendNextFails(w) \/ CrashWorker(w)
    \/ \E x \in Stage : GiveUp(x)
    \/ \E q \in Partition : Rebalance(q)

\* Processes that die are restarted and go on; a consumer fetches from all
\* its partitions in turn; the reconciler gets to every expired claim.
Fairness ==
    /\ \A p \in Processor : WF_vars(ProcessorStep(p))
    /\ \A w \in Worker :
         /\ WF_vars(WorkerStep(w))
         /\ \A q \in Partition : SF_vars(Fetch(w, q))
    /\ \A x \in Stage : WF_vars(GiveUp(x))

Spec == Init /\ [][Next]_vars
FairSpec == Spec /\ Fairness

---------------------------------------------------------------------------
(***************************************************************************)
(* Properties.                                                             *)
(***************************************************************************)

\* Every variable keeps its type; a busy worker has a message of the log.
TypeOK ==
    /\ outbox \subseteq accepted /\ accepted \subseteq Run
    /\ \A q \in Partition : \A i \in 1..Len(log[q]) :
         log[q][i].run \in Run /\ log[q][i].stage \in Nat
    /\ \A q \in Partition : committed[q] \in 0..Len(log[q])
    /\ assigned \in [Partition -> Worker]
    /\ stage \in [Stage -> {"absent", "PENDING", "SUCCESS", "FAILED"}]
    /\ ppc \in [Processor -> {"idle", "send", "delete"}]
    /\ batch \in [Processor -> SUBSET Run]
    /\ wpc \in [Worker -> {"idle", "load", "claim", "execute", "settle", "commit"}]
    /\ \A w \in Worker : wpc[w] # "idle" =>
         source[w].partition \in Partition /\ source[w].offset \in 1..Len(log[source[w].partition])
    /\ advance \in [Worker -> BOOLEAN]
    /\ faults \in 0..MaxFaults

Messages(s) == UNION {{log[q][i] : i \in s[q]} : q \in Partition}
Logged == Messages([q \in Partition |-> 1..Len(log[q])])

\* No webhook that was answered is lost on the way to Kafka, and no row is
\* deleted before its event is in the log, whatever the processors and the
\* broker do halfway (ACK-before-delete, processor/index.ts).
Relay == INSTANCE AtLeastOnce WITH
    Item <- Run,
    queued <- outbox,
    retired <- accepted \ outbox,
    published <- {r \in Run : [run |-> r, stage |-> 0] \in Logged}
RelaysAtLeastOnce == Relay!LSpec

\* A stage is only queued, and only executed, in a run all of whose earlier
\* stages have succeeded, by whichever of several workers that believe they
\* hold a message (settleMessage; docs/worker.md, "Linear Progression").
Before(r, n) == \A k \in 0..(n - 1) : stage[<<r, k>>] = "SUCCESS"
LinearProgression ==
    /\ \A m \in Logged : Before(m.run, m.stage)
    /\ \A x \in Stage : stage[x] # "absent" => Before(x[1], x[2])

\* A committed offset never leaves work behind: the stage of the message
\* exists and is decided, and if it succeeded the event of the next stage is in the log
\* (send before commit in settleMessage, ack only of a durable resolution).
CommittedIsSettled ==
    \A m \in Messages([q \in Partition |-> 1..committed[q]]) :
        LET x == <<m.run, m.stage>> IN
        /\ x \in Stage /\ stage[x] \in {"SUCCESS", "FAILED"}
        /\ stage[x] = "SUCCESS" /\ HasNext(x) => [run |-> m.run, stage |-> m.stage + 1] \in Logged

\* A run ends in a way that can be read from the database: all its stages
\* succeeded, or one failed.
Ended(r) ==
    \/ \A x \in Stage : x[1] = r => stage[x] = "SUCCESS"
    \/ \E x \in Stage : x[1] = r /\ stage[x] = "FAILED"

\* A run that was accepted and has not ended is owed to somebody who will come
\* back to it: the processor, or the consumer of a partition, as a message of the run
\* that is not committed.  No crash, lost commit or failed send leaves it to nobody.
Uncommitted == Messages([q \in Partition |-> (committed[q] + 1)..Len(log[q])])
NoRunStranded ==
    \A r \in accepted : r \in outbox \/ Ended(r) \/ \E m \in Uncommitted : m.run = r

\* Every run that was accepted comes to an end.
EveryRunEnds == \A r \in Run : r \in accepted ~> Ended(r)
=============================================================================

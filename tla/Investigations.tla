--------------------------- MODULE Investigations ---------------------------
(***************************************************************************)
(* The jobs of the diagnosis agent and the decisions about them: a job is  *)
(* queued, claimed under limits, run, and stored or failed (apps/ai_agent: *)
(* investigation-store.ts, runner.ts); an operator's decision goes from    *)
(* the backend's notification table to the job and to the graph that waits *)
(* for it (investigation-notifications.ts, investigation-http.ts,          *)
(* graph.ts).  Runners and senders may die at any point; requests may be   *)
(* lost, late or repeated.                                                 *)
(***************************************************************************)
EXTENDS Integers, FiniteSets

CONSTANTS
    Jobs,            \* investigations, numbered in the order of created_at
    Actionable,      \* those whose result allows a decision
    Owner,           \* the owners of their cases
    OwnerOf,         \* OwnerOf[j]: whose case a job is about
    Runner,          \* processes that poll for jobs
    Sender,          \* who delivers decisions: request handlers and the drain
    MaxConcurrency,  \* live leases at a time ...
    OwnerLimit,      \* ... and those of one owner
    MaxAttempts,     \* claims of a job
    Budget,          \* attempts that an owner's 24 hours pay for
    None

Job == 1 .. Jobs

ASSUME InvestigationAssumption ==
    /\ Jobs \in Nat
    /\ Actionable \subseteq Job
    /\ OwnerOf \in [Job -> Owner]
    /\ {MaxConcurrency, OwnerLimit, MaxAttempts, Budget} \subseteq Nat \ {0}
    /\ None \notin Job \cup Runner \cup Sender

VARIABLES
    status,     \* of a job's row; "none" before it is started, "decided" for all
                \* statuses that applyDecision sets
    token,      \* lease_token: the attempt that holds the lease, 0 is null
    live,       \* lease_until is in the future
    attempts,   \* claims so far
    reserved,   \* reserved[o]: reservations of the last 24 hours
    snapshot,   \* the attempt whose result is stored, or 0
    graph,      \* the checkpoint: "running", "awaiting" a decision or "resumed"
    lock,       \* the runner in the advisory lock of claimNext, or None
    runner,     \* runner[r]: where a runner is, with which job and attempt
    decided,    \* TriageApproval and TriageDecisionNotification of the job's proposal
    delivered,  \* deliveredAt is set
    sender,     \* sender[s]: the job whose decision it delivers, or None
    calls       \* POST /:id/decision under way; from None if nobody waits any more

job_vars      == <<status, token, live, attempts, reserved, snapshot>>
decision_vars == <<decided, delivered, sender, calls>>
vars == <<status, token, live, attempts, reserved, snapshot, graph, lock, runner,
          decided, delivered, sender, calls>>

Idle == [at |-> "idle", job |-> None, attempt |-> 0]

Statuses == {"none", "queued", "investigating", "proposed", "decided", "error"}
Call == [job : Job, from : Sender \cup {None}, at : {"sent", "applied", "done"}]

TypeOK ==
    /\ status \in [Job -> Statuses]
    /\ token \in [Job -> 0 .. MaxAttempts]
    /\ attempts \in [Job -> 0 .. MaxAttempts]
    /\ snapshot \in [Job -> 0 .. MaxAttempts]
    /\ live \in [Job -> BOOLEAN]
    /\ reserved \in [Owner -> Nat]
    /\ graph \in [Job -> {"running", "awaiting", "resumed"}]
    /\ lock \in Runner \cup {None}
    /\ runner \in [Runner -> [at : {"idle", "counted", "executing", "finishing"},
                              job : Job \cup {None}, attempt : 0 .. MaxAttempts]]
    /\ decided \in [Job -> BOOLEAN]
    /\ delivered \in [Job -> BOOLEAN]
    /\ sender \in [Sender -> Job \cup {None}]
    /\ calls \subseteq Call

Init ==
    /\ status = [j \in Job |-> "none"]
    /\ token = [j \in Job |-> 0]
    /\ live = [j \in Job |-> FALSE]
    /\ attempts = [j \in Job |-> 0]
    /\ reserved = [o \in Owner |-> 0]
    /\ snapshot = [j \in Job |-> 0]
    /\ graph = [j \in Job |-> "running"]
    /\ lock = None
    /\ runner = [r \in Runner |-> Idle]
    /\ decided = [j \in Job |-> FALSE]
    /\ delivered = [j \in Job |-> FALSE]
    /\ sender = [s \in Sender |-> None]
    /\ calls = {}

-----------------------------------------------------------------------------
(* Jobs *)

\* start inserts a job for a case without an active one; every other request is
\* answered with a row that exists.
Start(j) ==
    /\ status[j] = "none"
    /\ \A i \in 1 .. j - 1 : status[i] # "none"
    /\ status' = [status EXCEPT ![j] = "queued"]
    /\ UNCHANGED <<token, live, attempts, reserved, snapshot, graph, lock, runner, decision_vars>>

Running == {j \in Job : status[j] = "investigating" /\ live[j]}

\* Mutant: that a job is claimed three times at most is all that is said about it.
ExhaustedNever == {}

\* Given up without a result: the lease of the last attempt is over.
Exhausted ==
    {j \in Job : status[j] = "investigating" /\ ~live[j] /\ attempts[j] = MaxAttempts}

\* What the claim's statement asks of the row that it locks ...
RowClaimable(j) ==
    /\ status[j] = "queued" \/ (status[j] = "investigating" /\ ~live[j])
    /\ attempts[j] < MaxAttempts

\* ... and of the rows of the same owner.
Claimable(j) ==
    LET o == OwnerOf[j] IN
    /\ RowClaimable(j)
    /\ Cardinality({i \in Running : OwnerOf[i] = o}) < OwnerLimit
    /\ reserved[o] < Budget

Oldest(j) == Claimable(j) /\ \A i \in 1 .. j - 1 : ~Claimable(i)

\* claimNext: what is exhausted ends, then capacity and limits are counted.
Counts(r) ==
    /\ runner[r] = Idle
    /\ status' = [j \in Job |-> IF j \in Exhausted THEN "error" ELSE status[j]]
    /\ token' = [j \in Job |-> IF j \in Exhausted THEN 0 ELSE token[j]]
    /\ UNCHANGED <<live, attempts, reserved, snapshot, graph, decision_vars>>

HasRoom == Cardinality(Running) < MaxConcurrency /\ \E j \in Job : Claimable(j)

Takes(r, j) == runner' = [runner EXCEPT ![r] = [at |-> "counted", job |-> j, attempt |-> 0]]

\* Mutant: no advisory lock.
CountUnlocked(r) ==
    /\ Counts(r)
    /\ IF HasRoom THEN \E j \in Job : Oldest(j) /\ Takes(r, j) ELSE UNCHANGED runner
    /\ UNCHANGED lock

Count(r) ==
    /\ lock = None
    /\ Counts(r)
    /\ IF HasRoom
           THEN (\E j \in Job : Oldest(j) /\ Takes(r, j)) /\ lock' = r
           ELSE UNCHANGED <<runner, lock>>

Unlocked(r) == IF lock = r THEN None ELSE lock

\* The claim, its reservation and the commit.  The graph begins again from the start.
Claim(r) ==
    LET j == runner[r].job IN
    /\ runner[r].at = "counted"
    /\ RowClaimable(j)
    /\ status' = [status EXCEPT ![j] = "investigating"]
    /\ attempts' = [attempts EXCEPT ![j] = @ + 1]
    /\ token' = [token EXCEPT ![j] = attempts[j] + 1]
    /\ live' = [live EXCEPT ![j] = TRUE]
    /\ reserved' = [reserved EXCEPT ![OwnerOf[j]] = @ + 1]
    /\ graph' = [graph EXCEPT ![j] = "running"]
    /\ runner' = [runner EXCEPT ![r] = [at |-> "executing", job |-> j, attempt |-> attempts[j] + 1]]
    /\ lock' = Unlocked(r)
    /\ UNCHANGED <<snapshot, decision_vars>>

\* Its row has changed since the count, as when its first runner fails late: this poll
\* claims nothing.
Miss(r) ==
    /\ runner[r].at = "counted"
    /\ ~RowClaimable(runner[r].job)
    /\ runner' = [runner EXCEPT ![r] = Idle]
    /\ lock' = Unlocked(r)
    /\ UNCHANGED <<job_vars, graph, decision_vars>>

Owned(r) == token[runner[r].job] = runner[r].attempt

\* The graph stops for a decision.  Its deadline of 60 seconds is over before the lease
\* of 90 is.
Execute(r) ==
    LET j == runner[r].job IN
    /\ runner[r].at = "executing"
    /\ Owned(r) /\ live[j]
    /\ runner' = [runner EXCEPT ![r].at = "finishing"]
    /\ graph' = [graph EXCEPT ![j] = "awaiting"]
    /\ UNCHANGED <<job_vars, lock, decision_vars>>

\* The result is stored by who holds a lease that is not over.
Finish(r) ==
    LET j == runner[r].job IN
    /\ runner[r].at = "finishing"
    /\ Owned(r) /\ live[j] /\ status[j] = "investigating" /\ snapshot[j] = 0
    /\ snapshot' = [snapshot EXCEPT ![j] = runner[r].attempt]
    /\ status' = [status EXCEPT ![j] = "proposed"]
    /\ token' = [token EXCEPT ![j] = 0]
    /\ live' = [live EXCEPT ![j] = FALSE]
    /\ runner' = [runner EXCEPT ![r] = Idle]
    /\ UNCHANGED <<attempts, reserved, graph, lock, decision_vars>>

FailIf(r, owned) ==
    LET j == runner[r].job IN
    /\ runner[r].at \in {"executing", "finishing"}
    /\ IF owned
           THEN /\ status' = [status EXCEPT ![j] = "error"]
                /\ token' = [token EXCEPT ![j] = 0]
                /\ live' = [live EXCEPT ![j] = FALSE]
           ELSE UNCHANGED <<status, token, live>>
    /\ runner' = [runner EXCEPT ![r] = Idle]
    /\ UNCHANGED <<attempts, reserved, snapshot, graph, lock, decision_vars>>

\* Mutant: by id only.
FailById(r) == FailIf(r, TRUE)

\* The graph or the transaction of finish throws, at any time or because the lease is
\* lost: the job ends for good if the token is still there, be the lease over or not.
Fail(r) == FailIf(r, Owned(r))

\* The process dies, or the database throws: a transaction is rolled back, a claim stays.
CrashRunner(r) ==
    /\ runner[r] # Idle
    /\ runner' = [runner EXCEPT ![r] = Idle]
    /\ lock' = Unlocked(r)
    /\ UNCHANGED <<job_vars, graph, decision_vars>>

\* Ninety seconds, and a day.
Lapse(j) ==
    /\ live[j]
    /\ live' = [live EXCEPT ![j] = FALSE]
    /\ UNCHANGED <<status, token, attempts, reserved, snapshot, graph, lock, runner,
                   decision_vars>>

Age(o) ==
    /\ reserved[o] > 0
    /\ reserved' = [reserved EXCEPT ![o] = @ - 1]
    /\ UNCHANGED <<status, token, live, attempts, snapshot, graph, lock, runner,
                   decision_vars>>

-----------------------------------------------------------------------------
(* Decisions *)

\* The backend submits the result of a proposed job as a proposal and commits one
\* decision about it, with its notification (CaseWorkflow).
Decide(j) ==
    /\ j \in Actionable
    /\ status[j] = "proposed"
    /\ ~decided[j]
    /\ decided' = [decided EXCEPT ![j] = TRUE]
    /\ UNCHANGED <<job_vars, graph, lock, runner, delivered, sender, calls>>

\* deliver reads a pending notification and calls the agent.
Send(s, j) ==
    /\ sender[s] = None
    /\ decided[j] /\ ~delivered[j]
    /\ sender' = [sender EXCEPT ![s] = j]
    /\ calls' = calls \cup {[job |-> j, from |-> s, at |-> "sent"]}
    /\ UNCHANGED <<job_vars, graph, lock, runner, decided, delivered>>

\* A call goes on at the agent; its answer is for who still waits.
Moves(x, place) ==
    calls' = (calls \ {x}) \cup
             {y \in {[x EXCEPT !.at = place]} : y.from # None \/ y.at # "done"}

Apply(x, taken, outcome) ==
    /\ x.at = "sent"
    /\ status[x.job] \in taken
    /\ status' = [status EXCEPT ![x.job] = outcome]
    /\ Moves(x, "applied")
    /\ UNCHANGED <<token, live, attempts, reserved, snapshot, graph, lock, runner,
                   decided, delivered, sender>>

\* Mutants: the update is all there is, a repeated decision is a conflict; the decision
\* itself is written as the status.
ApplyOnce(x) == Apply(x, {"proposed"}, "decided")
ApplyVerbatim(x) == Apply(x, {"proposed", "decided"}, "approve")

\* The job takes a decision once and recognises it later; others are refused.
ApplyDecision(x) == Apply(x, {"proposed", "decided"}, "decided")

\* The graph takes it too, or has taken it; a graph that is not waiting refuses.
ResumeDecision(x) ==
    /\ x.at = "applied"
    /\ graph[x.job] # "running"
    /\ graph' = [graph EXCEPT ![x.job] = "resumed"]
    /\ Moves(x, "done")
    /\ UNCHANGED <<job_vars, lock, runner, decided, delivered, sender>>

\* The request or its answer is lost, or the agent dies.
Lose(x) ==
    /\ calls' = calls \ {x}
    /\ UNCHANGED <<job_vars, graph, lock, runner, decided, delivered, sender>>

\* Mutant: whatever the agent answers, the notification is stamped.
StampAnyway(s) ==
    /\ \E x \in calls :
          /\ x.from = s
          /\ calls' = calls \ {x}
          /\ delivered' = [delivered EXCEPT ![x.job] = TRUE]
    /\ sender' = [sender EXCEPT ![s] = None]
    /\ UNCHANGED <<job_vars, graph, lock, runner, decided>>

\* The answer is there and the notification is stamped.  Losing it in between is as if
\* the answer had not come.
Stamp(s) ==
    /\ \E x \in calls :
          /\ x.from = s /\ x.at = "done"
          /\ calls' = calls \ {x}
          /\ delivered' = [delivered EXCEPT ![x.job] = TRUE]
    /\ sender' = [sender EXCEPT ![s] = None]
    /\ UNCHANGED <<job_vars, graph, lock, runner, decided>>

\* An error, no answer in 5 seconds, or the end of the process; the agent may go on.
GiveUp(s) ==
    /\ sender[s] # None
    /\ sender' = [sender EXCEPT ![s] = None]
    /\ calls' = {x \in calls : x.from # s}
                \cup {[x EXCEPT !.from = None] : x \in {y \in calls : y.from = s /\ y.at # "done"}}
    /\ UNCHANGED <<job_vars, graph, lock, runner, decided, delivered>>

-----------------------------------------------------------------------------
Run(r) == Count(r) \/ Claim(r) \/ Miss(r) \/ Execute(r) \/ Finish(r) \/ Fail(r) \/ CrashRunner(r)

Next ==
    \/ \E j \in Job : Start(j) \/ Lapse(j) \/ Decide(j) \/ (\E s \in Sender : Send(s, j))
    \/ \E o \in Owner : Age(o)
    \/ \E r \in Runner : Run(r)
    \/ \E x \in calls : ApplyDecision(x) \/ ResumeDecision(x) \/ Lose(x)
    \/ \E s \in Sender : Stamp(s) \/ GiveUp(s)

Spec == Init /\ [][Next]_vars

\* Clocks run; some runner polls every 2 seconds, the drain every 5, and a request ends
\* after 5.  No process dies and no request gets lost at the same point every time.
Fairness ==
    /\ \A j \in Job : WF_vars(Lapse(j))
    /\ \A o \in Owner : WF_vars(Age(o))
    /\ SF_vars(\E r \in Runner : Count(r))
    /\ SF_vars(\E r \in Runner : Claim(r) \/ Miss(r))
    /\ WF_vars(\E r \in Runner : Execute(r) \/ Finish(r) \/ Fail(r))
    /\ \A j \in Actionable : SF_vars(\E s \in Sender : Send(s, j))
    /\ SF_vars(\E x \in calls : x.from # None /\ ApplyDecision(x))
    /\ SF_vars(\E x \in calls : x.from # None /\ ResumeDecision(x))
    /\ \A s \in Sender : SF_vars(Stamp(s)) /\ WF_vars(GiveUp(s))

FairSpec == Spec /\ Fairness

-----------------------------------------------------------------------------
(* Properties *)

\* A runner at work under the token that is stored.
HoldsLease(r) == runner[r].at \in {"executing", "finishing"} /\ Owned(r)

\* However runners race, die and come late, no more leases are live than the service and
\* each owner may have, one runner at most holds that of a job, and no more attempts are
\* reserved than the owner's day pays for.
WithinLimits ==
    /\ Cardinality(Running) <= MaxConcurrency
    /\ \A r, q \in Runner :
          HoldsLease(r) /\ HoldsLease(q) /\ runner[r].job = runner[q].job => r = q
    /\ \A o \in Owner :
          /\ Cardinality({j \in Running : OwnerOf[j] = o}) <= OwnerLimit
          /\ reserved[o] <= Budget

\* A result is stored exactly for the jobs that are proposed or decided, it is that of the
\* last attempt, whoever else was at work, and the graph that made it has not begun again.
ResultIsLastAttempt ==
    \A j \in Job :
        /\ status[j] \in {"proposed", "decided"} <=> snapshot[j] # 0
        /\ snapshot[j] # 0 => snapshot[j] = attempts[j] /\ graph[j] # "running"

\* A job that is queued is proposed or given up in the end.
EveryJobEnds ==
    \A j \in Job : status[j] = "queued" ~> status[j] \in {"proposed", "decided", "error"}

\* A committed decision reaches the job and the graph, and the notification is closed.
DecisionArrives ==
    \A j \in Actionable : decided[j] ~>
        delivered[j] /\ status[j] = "decided" /\ graph[j] = "resumed"

\* Decisions on their way to the agent are a queue of at-least-once delivery: what is
\* stamped as delivered has been taken by the job and by the graph, and neither loses it
\* again, whoever claims, finishes or fails the job late.
Relay == INSTANCE AtLeastOnce WITH
    Item <- Job,
    queued <- {j \in Job : decided[j] /\ ~delivered[j]},
    retired <- {j \in Job : delivered[j]},
    published <- {j \in Job : status[j] = "decided" /\ graph[j] = "resumed"}

RelaysAtLeastOnce == Relay!LSpec
=============================================================================

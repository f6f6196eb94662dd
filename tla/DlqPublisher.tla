---------------------------- MODULE DlqPublisher ----------------------------
(***************************************************************************)
(* The publication of durable failures: publishNext of the DLQ process     *)
(* (dlq-publisher.ts) over the rows of ZapRunRetry, against a broker that  *)
(* may refuse a message, lose its acknowledgement, or answer after the     *)
(* publisher's lease is over.                                              *)
(*                                                                         *)
(* Time is relative: leaseLeft and retryLeft say how far in the future the *)
(* stored instants lie (negative: in the past), age says how old the       *)
(* instant is that claimNext compares them with.  Publishers run on hosts  *)
(* whose clocks differ by up to Skew from the true time, so that an        *)
(* instant may be old, or ahead, when it is read.                          *)
(***************************************************************************)
EXTENDS Integers, FiniteSets

CONSTANTS
    Failures,     \* how many rows ZapRunRetry may come to hold
    Publisher,    \* DLQ processes
    Token,        \* claim tokens; a uuid is one that is neither stored nor held
    Take,         \* rows findMany returns at most
    Lease,        \* CLAIM_LEASE_MS
    BaseBackoff,  \* the 1000 ms of the backoff ...
    MaxBackoff,   \* ... and MAX_BACKOFF_MS
    MaxAttempts,  \* bound: the counter of attempts stops there
    Stall,        \* bound: how old the instant of a claim can get
    Skew          \* how far the clock of a host may be from the true time

\* The rows of ZapRunRetry, in the order of createdAt.
Failure == 1..Failures

NoToken == "none"
Past    == -Stall     \* an instant that is over however old the clock reading is

ASSUME PublisherAssumption ==
    /\ Failures \in Nat
    /\ IsFiniteSet(Token) /\ NoToken \notin Token
    /\ Cardinality(Token) > Cardinality(Failure) + Cardinality(Publisher)
    /\ {Take, Lease, BaseBackoff, MaxBackoff, MaxAttempts} \subseteq Nat \ {0}
    /\ Stall \in Nat
    /\ Skew \in 0..Stall

VARIABLES
    recorded,       \* the failures recorded so far: 1..recorded
    publishedAt,    \* dlqPublishedAt is set
    claimToken,     \* dlqPublishClaimToken
    leaseLeft,      \* dlqPublishLeaseUntil, from now; null is Past
    retryLeft,      \* dlqNextAttemptAt, from now; null is Past
    attempts,       \* dlqPublishAttempts
    topic,          \* history: the failures the broker has in zap-events-dlq
    pc,             \* where each publisher is ...
    age,            \* ... how old the instant is that its claimNext read
                    \*     (negative: ahead of the true time) ...
    candidates,     \* ... the rows it has still to try, oldest first ...
    row,            \* ... the row it has claimed ...
    token,          \* ... under which token ...
    seenAttempts    \* ... and the attempts it read after the claim

row_vars   == <<publishedAt, claimToken, leaseLeft, retryLeft, attempts>>
local_vars == <<pc, age, candidates, row, token, seenAttempts>>
vars == <<recorded, publishedAt, claimToken, leaseLeft, retryLeft, attempts, topic,
          pc, age, candidates, row, token, seenAttempts>>

Init ==
    /\ recorded = 0
    /\ publishedAt = [f \in Failure |-> FALSE]
    /\ claimToken = [f \in Failure |-> NoToken]
    /\ leaseLeft = [f \in Failure |-> Past]
    /\ retryLeft = [f \in Failure |-> Past]
    /\ attempts = [f \in Failure |-> 0]
    /\ topic = {}
    /\ pc = [p \in Publisher |-> "idle"]
    /\ age = [p \in Publisher |-> 0]
    /\ candidates = [p \in Publisher |-> {}]
    /\ row = [p \in Publisher |-> 0]
    /\ token = [p \in Publisher |-> NoToken]
    /\ seenAttempts = [p \in Publisher |-> 0]

---------------------------------------------------------------------------
AtMost(a, b)  == IF a <= b THEN a ELSE b
AtLeast(a, b) == IF a >= b THEN a ELSE b

\* Mutants of dueWhere: without the lease, without the stamp, and with an
\* abandoned claim never due again.
DueLeased(f, old)    == ~publishedAt[f] /\ retryLeft[f] <= -old
DueStamped(f, old)   == retryLeft[f] <= -old /\ leaseLeft[f] <= -old
DueUnclaimed(f, old) == ~publishedAt[f] /\ retryLeft[f] <= -old /\ claimToken[f] = NoToken

\* dueWhere, at an instant that is `old' ticks old.
Due(f, old) ==
    /\ ~publishedAt[f]
    /\ retryLeft[f] <= -old
    /\ leaseLeft[f] <= -old

\* How old an instant can be at the moment it is read: now() on a slow or a
\* fast host.
Reading == -Skew..Skew

\* Mutant: the backoff is not capped.
RetryDelayUncapped(n) == BaseBackoff * 2^AtMost(AtLeast(n - 1, 0), 6)

\* min(MAX_BACKOFF_MS, 1000 * 2 ** min(max(attempts - 1, 0), 6))
RetryDelay(n) == AtMost(MaxBackoff, BaseBackoff * 2^AtMost(AtLeast(n - 1, 0), 6))

\* The round of p is over, by return or by the death of the process.
EndRound(p) ==
    /\ pc' = [pc EXCEPT ![p] = "idle"]
    /\ age' = [age EXCEPT ![p] = 0]
    /\ candidates' = [candidates EXCEPT ![p] = {}]
    /\ row' = [row EXCEPT ![p] = 0]
    /\ token' = [token EXCEPT ![p] = NoToken]
    /\ seenAttempts' = [seenAttempts EXCEPT ![p] = 0]

---------------------------------------------------------------------------
\* A worker or the reconciler commits a failure (StageExecution).
Record ==
    /\ recorded + 1 \in Failure
    /\ recorded' = recorded + 1
    /\ UNCHANGED <<row_vars, topic, local_vars>>

\* claimNext reads the clock and the due rows, oldest first.
FindDue(p) ==
    /\ pc[p] = "idle"
    /\ \E old \in Reading :
         LET due == {f \in 1..recorded : Due(f, old)} IN
         /\ due # {}
         /\ candidates' = [candidates EXCEPT ![p] =
              {f \in due : Cardinality({g \in due : g < f}) < Take}]
         /\ age' = [age EXCEPT ![p] = old]
    /\ pc' = [pc EXCEPT ![p] = "claiming"]
    /\ UNCHANGED <<recorded, row_vars, topic, row, token, seenAttempts>>

\* The conditional update of the next candidate; the lease runs from the
\* instant that was read before the query.
ClaimRow(p, f) ==
    /\ Due(f, age[p])
    /\ \E t \in Token :
         /\ \A g \in Failure : claimToken[g] # t
         /\ \A q \in Publisher : token[q] # t
         /\ claimToken' = [claimToken EXCEPT ![f] = t]
         /\ token' = [token EXCEPT ![p] = t]
    /\ leaseLeft' = [leaseLeft EXCEPT ![f] = Lease - age[p]]
    /\ attempts' = [attempts EXCEPT ![f] = AtMost(@ + 1, MaxAttempts)]
    /\ row' = [row EXCEPT ![p] = f]
    /\ pc' = [pc EXCEPT ![p] = "claimed"]
    /\ age' = [age EXCEPT ![p] = 0]
    /\ candidates' = [candidates EXCEPT ![p] = {}]

\* Somebody else has it: the next one is tried.
SkipRow(p, f) ==
    /\ ~Due(f, age[p])
    /\ candidates' = [candidates EXCEPT ![p] = @ \ {f}]
    /\ UNCHANGED <<claimToken, token, leaseLeft, attempts, row, pc, age>>

Claim(p) ==
    /\ pc[p] = "claiming"
    /\ \E f \in candidates[p] :
         /\ \A g \in candidates[p] : f <= g
         /\ ClaimRow(p, f) \/ SkipRow(p, f)
    /\ UNCHANGED <<recorded, publishedAt, retryLeft, topic, seenAttempts>>

\* Every candidate was taken by somebody else: EMPTY.
NothingClaimed(p) ==
    /\ pc[p] = "claiming"
    /\ candidates[p] = {}
    /\ EndRound(p)
    /\ UNCHANGED <<recorded, row_vars, topic>>

\* findUnique, which may already see a later claim.
ReadClaimed(p) ==
    /\ pc[p] = "claimed"
    /\ seenAttempts' = [seenAttempts EXCEPT ![p] = attempts[row[p]]]
    /\ pc' = [pc EXCEPT ![p] = "sending"]
    /\ UNCHANGED <<recorded, row_vars, topic, age, candidates, row, token>>

\* The broker acknowledges the event.
SendAcked(p) ==
    /\ pc[p] = "sending"
    /\ topic' = topic \cup {row[p]}
    /\ pc' = [pc EXCEPT ![p] = "acked"]
    /\ UNCHANGED <<recorded, row_vars, age, candidates, row, token, seenAttempts>>

\* Mutant: the error of send is swallowed.
SendErrorIgnored(p) ==
    /\ pc[p] = "sending"
    /\ topic' \in {topic, topic \cup {row[p]}}
    /\ pc' = [pc EXCEPT ![p] = "acked"]
    /\ UNCHANGED <<recorded, row_vars, age, candidates, row, token, seenAttempts>>

\* send throws; the broker may have the event all the same.
SendFailed(p) ==
    /\ pc[p] = "sending"
    /\ topic' \in {topic, topic \cup {row[p]}}
    /\ pc' = [pc EXCEPT ![p] = "refused"]
    /\ UNCHANGED <<recorded, row_vars, age, candidates, row, token, seenAttempts>>

\* Mutant: settling by id alone.
HoldsById(p) == ~publishedAt[row[p]]

\* The fence of both settling updates.
Holds(p) == ~publishedAt[row[p]] /\ claimToken[row[p]] = token[p]

ReleaseRow(f, delay) ==
    /\ claimToken' = [claimToken EXCEPT ![f] = NoToken]
    /\ leaseLeft' = [leaseLeft EXCEPT ![f] = Past]
    /\ retryLeft' = [retryLeft EXCEPT ![f] = delay]

\* RETRY_SCHEDULED, or STALE and nothing is written.  The backoff runs from
\* a second reading of the clock.
Release(p) ==
    /\ pc[p] = "refused"
    /\ \/ /\ Holds(p)
          /\ \E old \in Reading : ReleaseRow(row[p], RetryDelay(seenAttempts[p]) - old)
       \/ ~Holds(p) /\ UNCHANGED <<claimToken, leaseLeft, retryLeft>>
    /\ EndRound(p)
    /\ UNCHANGED <<recorded, publishedAt, attempts, topic>>

\* PUBLISHED, or STALE and nothing is written.
Stamp(p) ==
    /\ pc[p] = "acked"
    /\ \/ /\ Holds(p)
          /\ publishedAt' = [publishedAt EXCEPT ![row[p]] = TRUE]
          /\ ReleaseRow(row[p], Past)
       \/ ~Holds(p) /\ UNCHANGED <<publishedAt, claimToken, leaseLeft, retryLeft>>
    /\ EndRound(p)
    /\ UNCHANGED <<recorded, attempts, topic>>

\* The process dies (a database call that throws ends it too).
Crash(p) ==
    /\ pc[p] # "idle"
    /\ EndRound(p)
    /\ UNCHANGED <<recorded, row_vars, topic>>

\* Time passes for every stored instant and every clock reading in use.
Tick ==
    /\ \A p \in Publisher : pc[p] = "claiming" => age[p] < Stall
    /\ leaseLeft' = [f \in Failure |-> AtLeast(leaseLeft[f] - 1, Past)]
    /\ retryLeft' = [f \in Failure |-> AtLeast(retryLeft[f] - 1, Past)]
    /\ age' = [p \in Publisher |-> IF pc[p] = "claiming" THEN age[p] + 1 ELSE 0]
    /\ UNCHANGED <<recorded, publishedAt, claimToken, attempts, topic,
                   pc, candidates, row, token, seenAttempts>>

PublishNext(p) ==
    \/ FindDue(p) \/ Claim(p) \/ NothingClaimed(p) \/ ReadClaimed(p)
    \/ SendAcked(p) \/ SendFailed(p) \/ Release(p) \/ Stamp(p)

Next ==
    \/ Record
    \/ \E p \in Publisher : PublishNext(p) \/ Crash(p)
    \/ Tick

\* The clock runs; a DLQ process keeps calling publishNext and is restarted
\* when it dies.  Neither the process nor the broker fails every time it
\* gets to the same point of a round.
Fairness ==
    /\ WF_vars(Tick)
    /\ \A p \in Publisher :
         /\ SF_vars(FindDue(p))
         /\ SF_vars(Claim(p))
         /\ SF_vars(NothingClaimed(p))
         /\ SF_vars(ReadClaimed(p))
         /\ SF_vars(SendAcked(p))
         /\ SF_vars(Release(p))
         /\ SF_vars(Stamp(p))

Spec == Init /\ [][Next]_vars
FairSpec == Spec /\ Fairness

---------------------------------------------------------------------------
(***************************************************************************)
(* Properties.                                                             *)
(***************************************************************************)

\* Every variable keeps its type; a publisher between claim and settlement
\* has a row, and its clock reading is no older than the bound.
TypeOK ==
    /\ recorded \in Nat /\ (recorded = 0 \/ recorded \in Failure)
    /\ publishedAt \in [Failure -> BOOLEAN]
    /\ claimToken \in [Failure -> Token \cup {NoToken}]
    /\ leaseLeft \in [Failure -> Past..Lease + Skew]
    /\ retryLeft \in [Failure -> Past..MaxBackoff + Skew]
    /\ attempts \in [Failure -> 0..MaxAttempts]
    /\ topic \subseteq Failure
    /\ pc \in [Publisher -> {"idle", "claiming", "claimed", "sending", "acked", "refused"}]
    /\ age \in [Publisher -> -Skew..Stall]
    /\ candidates \in [Publisher -> SUBSET Failure]
    /\ row \in [Publisher -> Failure \cup {0}]
    /\ token \in [Publisher -> Token \cup {NoToken}]
    /\ seenAttempts \in [Publisher -> 0..MaxAttempts]
    /\ \A p \in Publisher :
         pc[p] \in {"claimed", "sending", "acked", "refused"} => row[p] \in Failure

\* dlqPublishedAt is stamped only after the broker has the event, whichever
\* publisher stamps and however late: the queue of unstamped failures is an
\* at-least-once relay (publishNext awaits send before the stamp).
Relay == INSTANCE AtLeastOnce WITH
    Item <- Failure,
    queued <- {f \in 1..recorded : ~publishedAt[f]},
    retired <- {f \in 1..recorded : publishedAt[f]},
    published <- topic
RelaysAtLeastOnce == Relay!LSpec

\* Two publishers send the same failure only when the first one has outlived
\* its lease on some host's clock: a claim never replaces one whose lease runs
\* longer than clocks differ, although it is decided by a reading that may be
\* as old as the query (dueWhere, evaluated again by the conditional update).
LeaseRespected ==
    [][\A f \in Failure :
        claimToken'[f] \notin {claimToken[f], NoToken} => leaseLeft[f] <= Skew]_vars

\* The fence lets one publisher at most pass for a row.
OneHolder ==
    \A p, q \in Publisher :
        row[p] # 0 /\ row[p] = row[q] /\ Holds(p) /\ Holds(q) => p = q

\* A publisher that lost its claim to another neither releases nor stamps
\* the other's: of those that have the row in hand one at most may settle it,
\* and a stored token is only taken away by its holder, or by the claim that
\* follows its expiry.
OnlyHolderSettles ==
    [][/\ OneHolder'
       /\ \A f \in Failure :
            claimToken[f] # NoToken /\ claimToken'[f] = NoToken =>
                \E p \in Publisher :
                    row[p] = f /\ token[p] = claimToken[f] /\ pc[p] \in {"acked", "refused"}
                    /\ pc'[p] = "idle"]_vars

\* A stamped failure is done with: it is never claimed, counted or scheduled
\* again (dlqPublishedAt null in dueWhere and in both settling updates).
StampIsFinal ==
    [][\A f \in Failure : publishedAt[f] =>
        /\ publishedAt'[f] /\ claimToken'[f] = NoToken
        /\ attempts'[f] = attempts[f]
        /\ retryLeft'[f] <= retryLeft[f]]_vars

\* Every recorded failure reaches the topic and is stamped, although sends
\* fail, back off, outlive their lease or lose their acknowledgement.
EventuallyStamped ==
    \A f \in Failure : f <= recorded ~> publishedAt[f]
=============================================================================

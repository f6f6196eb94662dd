----------------------- MODULE InvestigationsProofs -------------------------
(***************************************************************************)
(* Theorems of Investigations, for any number of jobs, owners, runners and *)
(* senders, and any limits.                                                *)
(***************************************************************************)
EXTENDS Investigations, TLAPS, FiniteSetTheorems

---------------------------------------------------------------------------
(***************************************************************************)
(* The inductive invariant.                                                *)
(***************************************************************************)

OwnersRunning(o) == {j \in Running : OwnerOf[j] = o}

\* What is counted keeps to its limits.
CountsKept ==
    /\ Cardinality(Running) <= MaxConcurrency
    /\ \A o \in Owner :
          /\ Cardinality({j \in Running : OwnerOf[j] = o}) <= OwnerLimit
          /\ reserved[o] <= Budget

\* What was counted stays true for as long as the lock is held.
CountedInv(r) ==
    LET j == runner[r].job IN
    runner[r].at = "counted" =>
        /\ lock = r
        /\ j \in Job
        /\ Cardinality(Running) < MaxConcurrency
        /\ Cardinality(OwnersRunning(OwnerOf[j])) < OwnerLimit
        /\ reserved[OwnerOf[j]] < Budget

\* A runner at work has claimed its job, and finds the graph that it has run if nobody
\* has claimed the job since.
WorkInv(r) ==
    LET j == runner[r].job IN
    runner[r].at \in {"executing", "finishing"} =>
        /\ j \in Job
        /\ runner[r].attempt \in 1 .. attempts[j]
        /\ runner[r].at = "finishing" /\ runner[r].attempt = attempts[j] =>
               graph[j] # "running"

\* A lease belongs to the last attempt at a job under investigation.
LeaseInv(j) == token[j] # 0 => token[j] = attempts[j] /\ status[j] = "investigating"

IInv ==
    /\ TypeOK
    /\ CountsKept
    /\ ResultIsLastAttempt
    /\ \A r \in Runner : CountedInv(r) /\ WorkInv(r)
    /\ \A j \in Job : LeaseInv(j)

---------------------------------------------------------------------------
(***************************************************************************)
(* Counting: part of a set of jobs is no more than the set, and one more   *)
(* job counts for one.                                                     *)
(***************************************************************************)

\* There are finitely many jobs.
LEMMA JobsFinite == ASSUME NEW S \in SUBSET Job PROVE IsFiniteSet(S)
<1>1. Jobs \in Int
  BY InvestigationAssumption
<1>2. IsFiniteSet(Job)
  BY <1>1, FS_Interval DEF Job
<1>. QED  BY <1>2, FS_Subset

\* A set of jobs has at least as many members as any part of it.
LEMMA PartCounts ==
    ASSUME NEW S \in SUBSET Job, NEW T \in SUBSET S
    PROVE  Cardinality(S) \in Nat /\ Cardinality(T) \in Nat /\ Cardinality(T) <= Cardinality(S)
<1>1. IsFiniteSet(S) /\ IsFiniteSet(T)
  BY JobsFinite
<1>. QED  BY <1>1, FS_Subset, FS_CardinalityType

\* One more job is at most one more to count.
LEMMA OneMoreCounts ==
    ASSUME NEW S \in SUBSET Job, NEW T \in SUBSET Job, NEW j \in Job, T \subseteq S \cup {j}
    PROVE  Cardinality(T) <= Cardinality(S) + 1
<1>1. IsFiniteSet(S) /\ S \cup {j} \in SUBSET Job
  BY JobsFinite
<1>2. Cardinality(S \cup {j}) <= Cardinality(S) + 1
  <2>1. Cardinality(S) \in Nat
    BY <1>1, FS_CardinalityType
  <2>2. Cardinality(S \cup {j}) = IF j \in S THEN Cardinality(S) ELSE Cardinality(S) + 1
    BY <1>1, FS_AddElement
  <2>. QED  BY <2>1, <2>2
<1>3. Cardinality(T) <= Cardinality(S \cup {j}) /\ Cardinality(T) \in Nat
      /\ Cardinality(S \cup {j}) \in Nat
  BY <1>1, PartCounts
<1>. QED  BY <1>1, <1>2, <1>3, FS_CardinalityType

---------------------------------------------------------------------------
(***************************************************************************)
(* The types.                                                              *)
(***************************************************************************)

LEMMA InitType == ASSUME Init PROVE TypeOK
BY InvestigationAssumption DEF Init, TypeOK, Idle, Statuses

USE DEF job_vars, decision_vars

LEMMA RunType == ASSUME TypeOK, NEW r \in Runner, Run(r), IInv PROVE TypeOK'
<1>. USE InvestigationAssumption DEF TypeOK, Statuses, Idle
<1>1. CASE Count(r)
  <2>1. status' \in [Job -> Statuses] /\ token' \in [Job -> 0 .. MaxAttempts]
    BY <1>1 DEF Count, Counts
  <2>2. lock' \in Runner \cup {None}
    BY <1>1 DEF Count
  <2>3. \A j \in Job : [at |-> "counted", job |-> j, attempt |-> 0]
                         \in [at : {"idle", "counted", "executing", "finishing"},
                              job : Job \cup {None}, attempt : 0 .. MaxAttempts]
    OBVIOUS
  <2>4. (\E j \in Job : Takes(r, j)) \/ UNCHANGED runner
    BY <1>1 DEF Count
  <2>5. runner' \in [Runner -> [at : {"idle", "counted", "executing", "finishing"},
                                job : Job \cup {None}, attempt : 0 .. MaxAttempts]]
    BY <2>3, <2>4 DEF Takes
  <2>. QED  BY <1>1, <2>1, <2>2, <2>5 DEF Count, Counts
<1>2. CASE Claim(r)
  <2>. DEFINE j == runner[r].job
  <2>1. /\ runner[r].at = "counted" /\ j \in Job /\ attempts[j] < MaxAttempts
        /\ OwnerOf[j] \in Owner
    BY <1>2 DEF Claim, RowClaimable, IInv, CountedInv
  <2>2. attempts[j] + 1 \in 0 .. MaxAttempts
    BY <2>1
  <2>3. /\ status' \in [Job -> Statuses]
        /\ attempts' \in [Job -> 0 .. MaxAttempts]
        /\ token' \in [Job -> 0 .. MaxAttempts]
        /\ live' \in [Job -> BOOLEAN]
        /\ graph' \in [Job -> {"running", "awaiting", "resumed"}]
    BY <1>2, <2>1, <2>2 DEF Claim
  <2>4. reserved' \in [Owner -> Nat]
    BY <1>2, <2>1 DEF Claim
  <2>5. lock' \in Runner \cup {None}
    BY <1>2 DEF Claim, Unlocked
  <2>6. runner' \in [Runner -> [at : {"idle", "counted", "executing", "finishing"},
                                job : Job \cup {None}, attempt : 0 .. MaxAttempts]]
    <3>1. [at |-> "executing", job |-> j, attempt |-> attempts[j] + 1]
              \in [at : {"idle", "counted", "executing", "finishing"},
                   job : Job \cup {None}, attempt : 0 .. MaxAttempts]
      BY <2>1, <2>2
    <3>. QED  BY <1>2, <3>1 DEF Claim
  <2>. QED  BY <1>2, <2>3, <2>4, <2>5, <2>6 DEF Claim
<1>3. CASE Miss(r)
  BY <1>3 DEF Miss, Unlocked
<1>4. CASE Execute(r)
  <2>1. runner' \in [Runner -> [at : {"idle", "counted", "executing", "finishing"},
                                job : Job \cup {None}, attempt : 0 .. MaxAttempts]]
    BY <1>4 DEF Execute
  <2>2. graph' \in [Job -> {"running", "awaiting", "resumed"}]
    BY <1>4 DEF Execute
  <2>. QED  BY <1>4, <2>1, <2>2 DEF Execute
<1>5. CASE Finish(r)
  <2>1. runner' \in [Runner -> [at : {"idle", "counted", "executing", "finishing"},
                                job : Job \cup {None}, attempt : 0 .. MaxAttempts]]
    BY <1>5 DEF Finish
  <2>2. snapshot' \in [Job -> 0 .. MaxAttempts] /\ token' \in [Job -> 0 .. MaxAttempts]
    BY <1>5 DEF Finish
  <2>3. status' \in [Job -> Statuses] /\ live' \in [Job -> BOOLEAN]
    BY <1>5 DEF Finish
  <2>. QED  BY <1>5, <2>1, <2>2, <2>3 DEF Finish
<1>6. CASE Fail(r)
  <2>1. runner' \in [Runner -> [at : {"idle", "counted", "executing", "finishing"},
                                job : Job \cup {None}, attempt : 0 .. MaxAttempts]]
    BY <1>6 DEF Fail, FailIf
  <2>2. token' \in [Job -> 0 .. MaxAttempts]
    BY <1>6 DEF Fail, FailIf
  <2>3. status' \in [Job -> Statuses] /\ live' \in [Job -> BOOLEAN]
    BY <1>6 DEF Fail, FailIf
  <2>. QED  BY <1>6, <2>1, <2>2, <2>3 DEF Fail, FailIf
<1>7. CASE CrashRunner(r)
  BY <1>7 DEF CrashRunner, Unlocked
<1>. QED  BY <1>1, <1>2, <1>3, <1>4, <1>5, <1>6, <1>7 DEF Run

\* A call that moves on is a call.
LEMMA MovesType ==
    ASSUME calls \subseteq Call, NEW x \in calls, NEW p \in {"sent", "applied", "done"},
           Moves(x, p)
    PROVE  calls' \subseteq Call
<1>1. [x EXCEPT !.at = p] \in Call
  BY DEF Call
<1>. QED  BY <1>1 DEF Moves

LEMMA DecisionType ==
    ASSUME TypeOK,
           \/ \E x \in calls : ApplyDecision(x) \/ ResumeDecision(x) \/ Lose(x)
           \/ \E s \in Sender : Stamp(s) \/ GiveUp(s) \/ (\E j \in Job : Send(s, j))
    PROVE  TypeOK'
<1>1. ASSUME NEW x \in calls, ApplyDecision(x) PROVE TypeOK'
  <2>1. calls' \subseteq Call
    BY <1>1, MovesType DEF TypeOK, ApplyDecision, Apply
  <2>. QED  BY <1>1, <2>1 DEF TypeOK, ApplyDecision, Apply, Statuses
<1>2. ASSUME NEW x \in calls, ResumeDecision(x) PROVE TypeOK'
  <2>1. calls' \subseteq Call
    BY <1>2, MovesType DEF TypeOK, ResumeDecision
  <2>. QED  BY <1>2, <2>1 DEF TypeOK, ResumeDecision
<1>3. ASSUME NEW x \in calls, Lose(x) PROVE TypeOK'
  BY <1>3 DEF Lose, TypeOK
<1>4. ASSUME NEW s \in Sender, Stamp(s) PROVE TypeOK'
  BY <1>4 DEF Stamp, TypeOK
<1>5. ASSUME NEW s \in Sender, GiveUp(s) PROVE TypeOK'
  <2>1. \A x \in calls : [x EXCEPT !.from = None] \in Call
    BY DEF TypeOK, Call
  <2>. QED  BY <1>5, <2>1 DEF GiveUp, TypeOK
<1>6. ASSUME NEW s \in Sender, NEW j \in Job, Send(s, j) PROVE TypeOK'
  BY <1>6 DEF Send, TypeOK, Call
<1>. QED  BY <1>1, <1>2, <1>3, <1>4, <1>5, <1>6

LEMMA ClockType ==
    ASSUME TypeOK,
           \/ \E j \in Job : Start(j) \/ Lapse(j) \/ Decide(j)
           \/ \E o \in Owner : Age(o)
    PROVE  TypeOK'
<1>. USE DEF TypeOK
<1>1. ASSUME NEW j \in Job, Start(j) PROVE TypeOK'
  BY <1>1 DEF Start, Statuses
<1>2. ASSUME NEW j \in Job, Lapse(j) PROVE TypeOK'
  BY <1>2 DEF Lapse
<1>3. ASSUME NEW j \in Job, Decide(j) PROVE TypeOK'
  BY <1>3 DEF Decide
<1>4. ASSUME NEW o \in Owner, Age(o) PROVE TypeOK'
  <2>1. reserved[o] - 1 \in Nat
    BY <1>4 DEF Age
  <2>. QED  BY <1>4, <2>1 DEF Age
<1>. QED  BY <1>1, <1>2, <1>3, <1>4

---------------------------------------------------------------------------
(***************************************************************************)
(* The limits.  Only a claim adds a live lease or a reservation.           *)
(***************************************************************************)

\* What adds no live lease and no reservation exceeds no limit that was kept, and what
\* a runner counted is still below its limits.
LEMMA FewerKeepLimits ==
    ASSUME TypeOK, TypeOK', CountsKept,
           Running' \subseteq Running, \A o \in Owner : reserved'[o] <= reserved[o]
    PROVE  /\ CountsKept'
           /\ \A r \in Runner :
                 CountedInv(r) /\ runner'[r] = runner[r] /\ lock' = lock => CountedInv(r)'
<1>1. Running \in SUBSET Job /\ Running' \in SUBSET Job
  BY DEF Running
<1>2. /\ Cardinality(Running) \in Nat /\ Cardinality(Running)' \in Nat
      /\ Cardinality(Running)' <= Cardinality(Running)
  BY <1>1, PartCounts
<1>3. ASSUME NEW o \in Owner
      PROVE  /\ Cardinality(OwnersRunning(o)) \in Nat /\ Cardinality(OwnersRunning(o))' \in Nat
             /\ Cardinality(OwnersRunning(o))' <= Cardinality(OwnersRunning(o))
  <2>1. OwnersRunning(o)' \subseteq OwnersRunning(o) /\ OwnersRunning(o) \in SUBSET Job
    BY <1>1 DEF OwnersRunning
  <2>. QED  BY <2>1, PartCounts
<1>4. CountsKept'
  <2>1. Cardinality(Running)' <= MaxConcurrency
    BY <1>2, InvestigationAssumption DEF CountsKept
  <2>2. ASSUME NEW o \in Owner
        PROVE  Cardinality(OwnersRunning(o))' <= OwnerLimit /\ reserved'[o] <= Budget
    <3>1. Cardinality(OwnersRunning(o)) <= OwnerLimit /\ reserved[o] <= Budget
      BY Zenon DEF CountsKept, OwnersRunning
    <3>2. reserved[o] \in Nat /\ reserved'[o] \in Nat /\ OwnerLimit \in Nat /\ Budget \in Nat
      BY InvestigationAssumption DEF TypeOK
    <3>. QED  BY <1>3, <3>1, <3>2
  <2>. QED  BY <2>1, <2>2, Zenon DEF CountsKept, OwnersRunning
<1>5. ASSUME NEW r \in Runner, CountedInv(r), runner'[r] = runner[r], lock' = lock
      PROVE  CountedInv(r)'
  <2>. SUFFICES ASSUME runner[r].at = "counted" PROVE CountedInv(r)'
    BY <1>5 DEF CountedInv
  <2>. DEFINE j == runner[r].job
  <2>0. runner'[r].job = j /\ runner'[r].at = "counted"
    BY <1>5
  <2>1. /\ lock = r /\ j \in Job
        /\ Cardinality(Running) < MaxConcurrency
        /\ Cardinality(OwnersRunning(OwnerOf[j])) < OwnerLimit
        /\ reserved[OwnerOf[j]] < Budget
    BY <1>5 DEF CountedInv
  <2>2. PICK o \in Owner : o = OwnerOf[j]
    BY <2>1, InvestigationAssumption
  <2>3. /\ Cardinality(Running)' < MaxConcurrency
        /\ Cardinality(OwnersRunning(o))' < OwnerLimit
        /\ reserved'[o] < Budget
    <3>1. /\ reserved[o] \in Nat /\ reserved'[o] \in Nat
          /\ MaxConcurrency \in Nat /\ OwnerLimit \in Nat /\ Budget \in Nat
      BY <2>2, InvestigationAssumption DEF TypeOK
    <3>2. Cardinality(Running)' < MaxConcurrency
      BY <1>2, <2>1, <3>1
    <3>3. Cardinality(OwnersRunning(o))' < OwnerLimit
      <4>1. /\ Cardinality(OwnersRunning(o)) \in Nat /\ Cardinality(OwnersRunning(o))' \in Nat
            /\ Cardinality(OwnersRunning(o))' <= Cardinality(OwnersRunning(o))
        BY <1>3, <2>2
      <4>. QED  BY <2>1, <2>2, <3>1, <4>1
    <3>4. reserved'[o] < Budget
      <4>1. reserved'[o] <= reserved[o] /\ reserved[o] < Budget
        BY <2>1, <2>2, Zenon
      <4>. QED  BY <3>1, <4>1
    <3>. QED  BY <3>2, <3>3, <3>4
  <2>. QED  BY <1>5, <2>0, <2>1, <2>2, <2>3, Zenon DEF CountedInv
<1>. QED  BY <1>4, <1>5

---------------------------------------------------------------------------
(***************************************************************************)
(* A claim, which the lock keeps alone.                                    *)
(***************************************************************************)

\* Nobody else has counted while one runner holds the lock.
LEMMA CountedAlone ==
    ASSUME IInv, NEW r \in Runner, NEW q \in Runner,
           runner[r].at = "counted", runner[q].at = "counted"
    PROVE  q = r
BY DEF IInv, CountedInv

\* What was counted under the lock leaves room for the claim, which then gives the lock
\* back.
LEMMA ClaimLimits ==
    ASSUME IInv, TypeOK', NEW r \in Runner, Claim(r)
    PROVE  CountsKept' /\ \A q \in Runner : CountedInv(q)'
<1>. DEFINE j == runner[r].job
<1>1. /\ runner[r].at = "counted" /\ lock = r /\ j \in Job
      /\ Cardinality(Running) < MaxConcurrency
      /\ Cardinality(OwnersRunning(OwnerOf[j])) < OwnerLimit
      /\ reserved[OwnerOf[j]] < Budget
  BY DEF IInv, CountedInv, Claim
<1>2. OwnerOf[j] \in Owner
  BY <1>1, InvestigationAssumption
<1>3. /\ Running \in SUBSET Job /\ Running' \in SUBSET Job
      /\ Running' \subseteq Running \cup {j}
  BY <1>1 DEF Claim, Running, IInv, TypeOK
<1>4. MaxConcurrency \in Nat /\ OwnerLimit \in Nat /\ Budget \in Nat
  BY InvestigationAssumption
<1>5. Cardinality(Running)' <= MaxConcurrency
  <2>1. Cardinality(Running)' <= Cardinality(Running) + 1
    BY <1>1, <1>3, OneMoreCounts
  <2>2. Cardinality(Running)' \in Nat /\ Cardinality(Running) \in Nat
    BY <1>3, PartCounts
  <2>. QED  BY <1>1, <1>4, <2>1, <2>2
<1>6. ASSUME NEW o \in Owner PROVE Cardinality(OwnersRunning(o))' <= OwnerLimit
  <2>1. OwnersRunning(o) \in SUBSET Job /\ OwnersRunning(o)' \in SUBSET Job
    BY <1>3 DEF OwnersRunning
  <2>2. Cardinality(OwnersRunning(o))' \in Nat /\ Cardinality(OwnersRunning(o)) \in Nat
    BY <2>1, PartCounts
  <2>3. CASE o = OwnerOf[j]
    <3>1. OwnersRunning(o)' \subseteq OwnersRunning(o) \cup {j}
      BY <1>3 DEF OwnersRunning
    <3>2. Cardinality(OwnersRunning(o))' <= Cardinality(OwnersRunning(o)) + 1
      BY <1>1, <2>1, <3>1, OneMoreCounts
    <3>. QED  BY <1>1, <1>4, <2>2, <2>3, <3>2
  <2>4. CASE o # OwnerOf[j]
    <3>1. OwnersRunning(o)' \subseteq OwnersRunning(o)
      BY <1>3, <2>4 DEF OwnersRunning
    <3>2. Cardinality(OwnersRunning(o))' <= Cardinality(OwnersRunning(o))
      BY <2>1, <3>1, PartCounts
    <3>3. Cardinality(OwnersRunning(o)) <= OwnerLimit
      BY Zenon DEF IInv, CountsKept, OwnersRunning
    <3>. QED  BY <1>4, <2>2, <3>2, <3>3
  <2>. QED  BY <2>3, <2>4
<1>7. ASSUME NEW o \in Owner PROVE reserved'[o] <= Budget
  <2>1. reserved[o] \in Nat /\ reserved[o] <= Budget
    BY DEF IInv, TypeOK, CountsKept
  <2>2. reserved'[o] = IF o = OwnerOf[j] THEN reserved[o] + 1 ELSE reserved[o]
    BY DEF Claim, IInv, TypeOK
  <2>. QED  BY <1>1, <1>4, <2>1, <2>2
<1>8. CountsKept'
  BY <1>5, <1>6, <1>7, Zenon DEF CountsKept, OwnersRunning
<1>9. ASSUME NEW q \in Runner PROVE CountedInv(q)'
  <2>1. runner'[q].at # "counted"
    <3>1. CASE q = r
      BY <3>1 DEF Claim, IInv, TypeOK
    <3>2. CASE q # r
      BY <1>1, <3>2, CountedAlone DEF Claim, IInv, TypeOK
    <3>. QED  BY <3>1, <3>2
  <2>. QED  BY <2>1 DEF CountedInv
<1>. QED  BY <1>8, <1>9

---------------------------------------------------------------------------
(***************************************************************************)
(* Every other step leaves the limits and what was counted alone.          *)
(***************************************************************************)

\* A count changes no live lease; the runner that takes the lock finds room.
LEMMA CountLimits ==
    ASSUME IInv, TypeOK', NEW r \in Runner, Count(r)
    PROVE  CountsKept' /\ \A q \in Runner : CountedInv(q)'
<1>1. Running' = Running
  BY DEF Count, Counts, Running, Exhausted, IInv, TypeOK
<1>2. reserved' = reserved
  BY DEF Count, Counts
<1>3. CountsKept'
  BY <1>1, <1>2, Zenon DEF IInv, CountsKept
<1>4. ASSUME NEW q \in Runner PROVE CountedInv(q)'
  <2>1. runner[q].at # "counted"
    BY InvestigationAssumption DEF Count, IInv, CountedInv
  <2>2. CASE HasRoom /\ q = r
    <3>1. PICK j \in Job : Oldest(j) /\ Takes(r, j)
      BY <2>2 DEF Count
    <3>2. lock' = r /\ Cardinality(Running) < MaxConcurrency
      BY <2>2 DEF Count, HasRoom
    <3>3. Cardinality(OwnersRunning(OwnerOf[j])) < OwnerLimit /\ reserved[OwnerOf[j]] < Budget
      BY <3>1, Zenon DEF Oldest, Claimable, OwnersRunning
    <3>4. runner'[q].job = j
      BY <2>2, <3>1 DEF Takes, IInv, TypeOK
    <3>5. OwnersRunning(OwnerOf[j])' = OwnersRunning(OwnerOf[j])
      BY <1>1 DEF OwnersRunning
    <3>. QED  BY <1>1, <1>2, <2>2, <3>2, <3>3, <3>4, <3>5, Zenon DEF CountedInv
  <2>3. CASE ~(HasRoom /\ q = r)
    <3>1. runner'[q] = runner[q]
      BY <2>3 DEF Count, Takes, IInv, TypeOK
    <3>. QED  BY <2>1, <3>1 DEF CountedInv
  <2>. QED  BY <2>2, <2>3
<1>. QED  BY <1>3, <1>4

\* A runner that ends or goes on may give back a lease, and the lock if it is its own.
LEMMA RunnerLimits ==
    ASSUME IInv, TypeOK', NEW r \in Runner,
           Miss(r) \/ Execute(r) \/ Finish(r) \/ Fail(r) \/ CrashRunner(r)
    PROVE  CountsKept' /\ \A q \in Runner : CountedInv(q)'
<1>1. reserved' = reserved
  BY DEF Miss, Execute, Finish, Fail, FailIf, CrashRunner
<1>2. Running' \subseteq Running
  <2>1. CASE Miss(r) \/ Execute(r) \/ CrashRunner(r)
    BY <2>1 DEF Miss, Execute, CrashRunner, Running
  <2>2. CASE Finish(r)
    BY <2>2 DEF Finish, Running, IInv, TypeOK
  <2>3. CASE Fail(r)
    BY <2>3 DEF Fail, FailIf, Running, IInv, TypeOK
  <2>. QED  BY <2>1, <2>2, <2>3
<1>3. /\ CountsKept'
      /\ \A q \in Runner :
            CountedInv(q) /\ runner'[q] = runner[q] /\ lock' = lock => CountedInv(q)'
  <2>1. \A o \in Owner : reserved[o] <= reserved[o]
    BY DEF IInv, TypeOK
  <2>2. \A o \in Owner : reserved'[o] <= reserved[o]
    BY <1>1, <2>1
  <2>. QED  BY <1>2, <2>2, FewerKeepLimits DEF IInv
<1>4. runner'[r].at # "counted"
  BY DEF Miss, Execute, Finish, Fail, FailIf, CrashRunner, Idle, IInv, TypeOK
<1>5. ASSUME NEW q \in Runner, q # r PROVE runner'[q] = runner[q]
  BY <1>5 DEF Miss, Execute, Finish, Fail, FailIf, CrashRunner, IInv, TypeOK
<1>6. lock' = lock \/ (lock = r /\ lock' = None)
  BY DEF Miss, Execute, Finish, Fail, FailIf, CrashRunner, Unlocked
<1>7. ASSUME NEW q \in Runner PROVE CountedInv(q)'
  <2>1. CASE runner'[q].at # "counted"
    BY <2>1 DEF CountedInv
  <2>2. CASE runner'[q].at = "counted"
    <3>1. q # r /\ runner'[q] = runner[q]
      BY <1>4, <1>5, <2>2
    <3>2. lock = q
      BY <2>2, <3>1 DEF IInv, CountedInv
    <3>. QED  BY <1>3, <1>6, <3>1, <3>2 DEF IInv
  <2>. QED  BY <2>1, <2>2
<1>. QED  BY <1>3, <1>7

\* No other step touches a runner or the lock.
LEMMA OtherLimits ==
    ASSUME IInv, TypeOK',
           \/ \E j \in Job : Start(j) \/ Lapse(j) \/ Decide(j) \/ (\E s \in Sender : Send(s, j))
           \/ \E o \in Owner : Age(o)
           \/ \E x \in calls : ApplyDecision(x) \/ ResumeDecision(x) \/ Lose(x)
           \/ \E s \in Sender : Stamp(s) \/ GiveUp(s)
           \/ UNCHANGED vars
    PROVE  CountsKept' /\ \A r \in Runner : CountedInv(r)'
<1>. USE DEF IInv, TypeOK
<1>1. runner' = runner /\ lock' = lock
  BY DEF Start, Lapse, Decide, Send, Age, ApplyDecision, Apply, ResumeDecision, Lose, Stamp,
         GiveUp, vars
<1>2. \A o \in Owner : reserved'[o] <= reserved[o]
  <2>1. CASE \E o \in Owner : Age(o)
    BY <2>1 DEF Age
  <2>2. CASE ~\E o \in Owner : Age(o)
    <3>1. reserved' = reserved
      BY <2>2 DEF Start, Lapse, Decide, Send, ApplyDecision, Apply, ResumeDecision, Lose,
                  Stamp, GiveUp, vars
    <3>. QED  BY <3>1
  <2>. QED  BY <2>1, <2>2
<1>3. Running' \subseteq Running
  <2>1. CASE \E j \in Job : Start(j) \/ Lapse(j) \/ Decide(j) \/ (\E s \in Sender : Send(s, j))
    BY <2>1 DEF Start, Lapse, Decide, Send, Running
  <2>2. CASE \E x \in calls : ApplyDecision(x) \/ ResumeDecision(x) \/ Lose(x)
    BY <2>2 DEF ApplyDecision, Apply, ResumeDecision, Lose, Running
  <2>3. CASE (\E o \in Owner : Age(o)) \/ (\E s \in Sender : Stamp(s) \/ GiveUp(s))
             \/ UNCHANGED vars
    BY <2>3 DEF Age, Stamp, GiveUp, vars, Running
  <2>. QED  BY <2>1, <2>2, <2>3
<1>. QED  BY <1>1, <1>2, <1>3, FewerKeepLimits

---------------------------------------------------------------------------
(***************************************************************************)
(* Leases, work and results.                                               *)
(***************************************************************************)

JobInv ==
    /\ ResultIsLastAttempt
    /\ \A r \in Runner : WorkInv(r)
    /\ \A j \in Job : LeaseInv(j)

\* What the runners of a job and its rows say of each other survives the steps of a runner.
LEMMA RunJobs == ASSUME IInv, TypeOK', NEW r \in Runner, Run(r) PROVE JobInv'
<1>. DEFINE j == runner[r].job
<1>. USE DEF IInv, TypeOK
<1>1. CASE Count(r)
  <2>1. \A i \in Job : \/ status'[i] = status[i] /\ token'[i] = token[i]
                       \/ status[i] = "investigating" /\ status'[i] = "error" /\ token'[i] = 0
    BY <1>1 DEF Count, Counts, Exhausted
  <2>2. ResultIsLastAttempt'
    BY <1>1, <2>1 DEF ResultIsLastAttempt, Count, Counts
  <2>3. \A i \in Job : LeaseInv(i)'
    BY <1>1, <2>1 DEF LeaseInv, Count, Counts
  <2>4. ASSUME NEW q \in Runner PROVE WorkInv(q)'
    <3>1. runner'[q] = runner[q] \/ runner'[q].at = "counted"
      BY <1>1 DEF Count, Takes
    <3>. QED  BY <1>1, <3>1 DEF WorkInv, Count, Counts
  <2>. QED  BY <2>2, <2>3, <2>4 DEF JobInv
<1>2. CASE Claim(r)
  <2>1. j \in Job /\ RowClaimable(j) /\ attempts[j] \in Nat
    BY <1>2 DEF Claim, CountedInv
  <2>2. /\ status' = [status EXCEPT ![j] = "investigating"]
        /\ attempts' = [attempts EXCEPT ![j] = attempts[j] + 1]
        /\ token' = [token EXCEPT ![j] = attempts[j] + 1]
        /\ graph' = [graph EXCEPT ![j] = "running"]
        /\ snapshot' = snapshot
    BY <1>2 DEF Claim
  <2>3. snapshot[j] = 0
    BY <2>1 DEF RowClaimable, ResultIsLastAttempt
  <2>4. ResultIsLastAttempt'
    BY <2>1, <2>2, <2>3 DEF ResultIsLastAttempt
  <2>5. \A i \in Job : LeaseInv(i)'
    BY <2>1, <2>2 DEF LeaseInv
  <2>6. ASSUME NEW q \in Runner PROVE WorkInv(q)'
    <3>1. CASE q = r
      <4>1. runner'[q] = [at |-> "executing", job |-> j, attempt |-> attempts[j] + 1]
        BY <1>2, <3>1 DEF Claim
      <4>2. attempts'[j] = attempts[j] + 1
        BY <2>1, <2>2
      <4>. QED  BY <2>1, <4>1, <4>2 DEF WorkInv
    <3>2. CASE q # r
      <4>1. runner'[q] = runner[q]
        BY <1>2, <3>2 DEF Claim
      <4>. QED  BY <2>1, <2>2, <4>1 DEF WorkInv
    <3>. QED  BY <3>1, <3>2
  <2>. QED  BY <2>4, <2>5, <2>6 DEF JobInv
<1>3. CASE Miss(r) \/ CrashRunner(r)
  <2>1. UNCHANGED <<job_vars, graph>>
    BY <1>3 DEF Miss, CrashRunner
  <2>2. \A q \in Runner : runner'[q] = runner[q] \/ runner'[q].at = "idle"
    BY <1>3 DEF Miss, CrashRunner, Idle
  <2>. QED  BY <2>1, <2>2 DEF JobInv, ResultIsLastAttempt, WorkInv, LeaseInv
<1>4. CASE Execute(r)
  <2>1. j \in Job /\ runner[r].attempt \in 1 .. attempts[j] /\ attempts[j] \in Nat
    BY <1>4 DEF Execute, WorkInv
  <2>2. UNCHANGED job_vars /\ graph' = [graph EXCEPT ![j] = "awaiting"]
    BY <1>4 DEF Execute
  <2>3. ResultIsLastAttempt'
    BY <2>1, <2>2 DEF ResultIsLastAttempt
  <2>4. \A i \in Job : LeaseInv(i)'
    BY <2>2 DEF LeaseInv
  <2>5. ASSUME NEW q \in Runner PROVE WorkInv(q)'
    <3>1. CASE q = r
      <4>1. runner'[q].job = j /\ runner'[q].attempt = runner[r].attempt
        BY <1>4, <3>1 DEF Execute
      <4>. QED  BY <2>1, <2>2, <4>1 DEF WorkInv
    <3>2. CASE q # r
      <4>1. runner'[q] = runner[q]
        BY <1>4, <3>2 DEF Execute
      <4>. QED  BY <2>1, <2>2, <4>1 DEF WorkInv
    <3>. QED  BY <3>1, <3>2
  <2>. QED  BY <2>3, <2>4, <2>5 DEF JobInv
<1>5. CASE Finish(r)
  <2>1. /\ j \in Job /\ runner[r].attempt \in 1 .. attempts[j] /\ attempts[j] \in Nat
        /\ runner[r].at = "finishing" /\ token[j] = runner[r].attempt
    BY <1>5 DEF Finish, WorkInv, Owned
  <2>2. runner[r].attempt = attempts[j] /\ graph[j] # "running"
    BY <2>1 DEF LeaseInv, WorkInv
  <2>3. /\ snapshot' = [snapshot EXCEPT ![j] = attempts[j]]
        /\ status' = [status EXCEPT ![j] = "proposed"]
        /\ token' = [token EXCEPT ![j] = 0]
        /\ UNCHANGED <<attempts, graph>>
    BY <1>5, <2>2 DEF Finish
  <2>4. ResultIsLastAttempt'
    BY <2>1, <2>2, <2>3 DEF ResultIsLastAttempt
  <2>5. \A i \in Job : LeaseInv(i)'
    BY <2>1, <2>3 DEF LeaseInv
  <2>6. \A q \in Runner : runner'[q] = runner[q] \/ runner'[q].at = "idle"
    BY <1>5 DEF Finish, Idle
  <2>7. \A q \in Runner : WorkInv(q)'
    BY <2>3, <2>6 DEF WorkInv
  <2>. QED  BY <2>4, <2>5, <2>7 DEF JobInv
<1>6. CASE Fail(r)
  <2>1. j \in Job /\ runner[r].attempt \in 1 .. attempts[j]
    BY <1>6 DEF Fail, FailIf, WorkInv
  <2>2. UNCHANGED <<attempts, graph, snapshot>>
    BY <1>6 DEF Fail, FailIf
  <2>3. \A i \in Job : \/ status'[i] = status[i] /\ token'[i] = token[i]
                       \/ status[i] = "investigating" /\ status'[i] = "error" /\ token'[i] = 0
    <3>1. CASE Owned(r)
      <4>1. token[j] # 0 /\ status[j] = "investigating"
        BY <2>1, <3>1 DEF Owned, LeaseInv
      <4>. QED  BY <1>6, <3>1, <4>1 DEF Fail, FailIf
    <3>2. CASE ~Owned(r)
      BY <1>6, <3>2 DEF Fail, FailIf
    <3>. QED  BY <3>1, <3>2
  <2>4. ResultIsLastAttempt'
    BY <2>2, <2>3 DEF ResultIsLastAttempt
  <2>5. \A i \in Job : LeaseInv(i)'
    BY <2>2, <2>3 DEF LeaseInv
  <2>6. \A q \in Runner : runner'[q] = runner[q] \/ runner'[q].at = "idle"
    BY <1>6 DEF Fail, FailIf, Idle
  <2>7. \A q \in Runner : WorkInv(q)'
    BY <2>2, <2>6 DEF WorkInv
  <2>. QED  BY <2>4, <2>5, <2>7 DEF JobInv
<1>. QED  BY <1>1, <1>2, <1>3, <1>4, <1>5, <1>6 DEF Run

\* The other steps move a job without a lease, and no runner.
LEMMA OtherJobs ==
    ASSUME IInv, TypeOK',
           \/ \E j \in Job : Start(j) \/ Lapse(j) \/ Decide(j) \/ (\E s \in Sender : Send(s, j))
           \/ \E o \in Owner : Age(o)
           \/ \E x \in calls : ApplyDecision(x) \/ ResumeDecision(x) \/ Lose(x)
           \/ \E s \in Sender : Stamp(s) \/ GiveUp(s)
           \/ UNCHANGED vars
    PROVE  JobInv'
<1>. USE DEF IInv, TypeOK
<1>1. UNCHANGED <<token, attempts, snapshot, runner>>
  BY DEF Start, Lapse, Decide, Send, Age, ApplyDecision, Apply, ResumeDecision, Lose, Stamp,
         GiveUp, vars
<1>2. \A j \in Job :
         \/ status'[j] = status[j]
         \/ status[j] = "none" /\ status'[j] = "queued"
         \/ status[j] \in {"proposed", "decided"} /\ status'[j] = "decided"
  <2>1. CASE \E j \in Job : Start(j)
    BY <2>1 DEF Start
  <2>2. CASE \E x \in calls : ApplyDecision(x)
    BY <2>2 DEF ApplyDecision, Apply
  <2>3. CASE status' = status
    BY <2>3
  <2>. QED
    BY <2>1, <2>2, <2>3 DEF Lapse, Decide, Send, Age, ResumeDecision, Lose, Stamp, GiveUp, vars
<1>3. \A j \in Job : graph'[j] = graph[j] \/ graph'[j] = "resumed"
  <2>1. CASE \E x \in calls : ResumeDecision(x)
    BY <2>1 DEF ResumeDecision
  <2>2. CASE graph' = graph
    BY <2>2
  <2>. QED
    BY <2>1, <2>2 DEF Start, Lapse, Decide, Send, Age, ApplyDecision, Apply, Lose, Stamp,
                      GiveUp, vars
<1>4. ResultIsLastAttempt'
  BY <1>1, <1>2, <1>3 DEF ResultIsLastAttempt
<1>5. \A j \in Job : LeaseInv(j)'
  BY <1>1, <1>2 DEF LeaseInv
<1>6. \A r \in Runner : WorkInv(r)'
  BY <1>1, <1>3 DEF WorkInv
<1>. QED  BY <1>4, <1>5, <1>6 DEF JobInv

---------------------------------------------------------------------------
(***************************************************************************)
(* The theorems.                                                           *)
(***************************************************************************)

\* No job is started and no runner at work.
LEMMA InitInv == ASSUME Init PROVE IInv
<1>1. TypeOK
  BY InitType
<1>2. Running = {}
  BY DEF Init, Running
<1>3. CountsKept
  <2>1. Cardinality({}) = 0
    BY FS_EmptySet
  <2>2. \A o \in Owner : {j \in Running : OwnerOf[j] = o} = {}
    BY <1>2
  <2>. QED  BY <1>2, <2>1, <2>2, InvestigationAssumption DEF CountsKept, Init
<1>4. ResultIsLastAttempt
  BY DEF Init, ResultIsLastAttempt
<1>5. \A r \in Runner : CountedInv(r) /\ WorkInv(r)
  BY DEF Init, CountedInv, WorkInv, Idle
<1>6. \A j \in Job : LeaseInv(j)
  BY DEF Init, LeaseInv
<1>. QED  BY <1>1, <1>3, <1>4, <1>5, <1>6 DEF IInv

\* A step is one of a runner, or one of those that touch none.
LEMMA NextInv == ASSUME IInv, [Next]_vars PROVE IInv'
<1>1. CASE \E r \in Runner : Run(r)
  <2>1. PICK r \in Runner : Run(r)
    BY <1>1
  <2>2. TypeOK'
    BY <2>1, RunType DEF IInv
  <2>3. CountsKept' /\ \A q \in Runner : CountedInv(q)'
    BY <2>1, <2>2, ClaimLimits, CountLimits, RunnerLimits DEF Run
  <2>4. JobInv'
    BY <2>1, <2>2, RunJobs
  <2>. QED  BY <2>2, <2>3, <2>4 DEF IInv, JobInv
<1>2. CASE \/ \E j \in Job :
                 Start(j) \/ Lapse(j) \/ Decide(j) \/ (\E s \in Sender : Send(s, j))
           \/ \E o \in Owner : Age(o)
           \/ \E x \in calls : ApplyDecision(x) \/ ResumeDecision(x) \/ Lose(x)
           \/ \E s \in Sender : Stamp(s) \/ GiveUp(s)
           \/ UNCHANGED vars
  <2>1. TypeOK'
    <3>1. CASE UNCHANGED vars
      BY <3>1 DEF IInv, TypeOK, vars
    <3>. QED  BY <1>2, <3>1, DecisionType, ClockType DEF IInv
  <2>2. CountsKept' /\ \A r \in Runner : CountedInv(r)'
    BY <1>2, <2>1, OtherLimits
  <2>3. JobInv'
    BY <1>2, <2>1, OtherJobs
  <2>. QED  BY <2>1, <2>2, <2>3 DEF IInv, JobInv
<1>. QED  BY <1>1, <1>2 DEF Next

\* The invariant holds in every state that any number of runners and senders reach.
THEOREM InvariantHolds == Spec => []IInv
<1>. QED  BY InitInv, NextInv, PTL DEF Spec

\* Every variable keeps to its type.
THEOREM TypeCorrect == Spec => []TypeOK
<1>1. IInv => TypeOK
  BY DEF IInv
<1>. QED  BY <1>1, InvariantHolds, PTL

\* Runners at work on the same job have claimed different attempts, and the advisory lock
\* is held by a runner between its count and its claim, or by nobody.
WorkApart ==
    /\ \A r, q \in Runner :
          /\ {runner[r].at, runner[q].at} \subseteq {"executing", "finishing"}
          /\ runner[r].job = runner[q].job /\ runner[r].attempt = runner[q].attempt
          => r = q
    /\ lock # None => runner[lock].at = "counted"

\* A claim makes an attempt nobody has; every other step leaves the attempts to those who
\* have them.
LEMMA RunApart == ASSUME IInv, WorkApart, NEW r \in Runner, Run(r) PROVE WorkApart'
<1>. DEFINE j == runner[r].job
<1>. USE DEF IInv, TypeOK
<1>1. None \notin Runner
  BY InvestigationAssumption
<1>2. CASE Claim(r)
  <2>1. /\ runner' = [runner EXCEPT ![r] = [at |-> "executing", job |-> j,
                                           attempt |-> attempts[j] + 1]]
        /\ lock = r /\ lock' = None
    BY <1>2 DEF Claim, Unlocked, CountedInv
  <2>2. ASSUME NEW q \in Runner, q # r, runner[q].at \in {"executing", "finishing"},
               runner[q].job = j
        PROVE  runner[q].attempt # attempts[j] + 1
    <3>1. attempts[j] \in Nat /\ runner[q].attempt \in 1 .. attempts[j]
      BY <1>2, <2>2 DEF Claim, CountedInv, WorkInv
    <3>. QED  BY <3>1
  <2>3. /\ runner'[r].at = "executing" /\ runner'[r].job = j
        /\ runner'[r].attempt = attempts[j] + 1
    BY <2>1
  <2>4. \A q \in Runner : q # r => runner'[q] = runner[q]
    BY <2>1
  <2>5. ASSUME NEW p \in Runner, NEW q \in Runner,
               {runner'[p].at, runner'[q].at} \subseteq {"executing", "finishing"},
               runner'[p].job = runner'[q].job, runner'[p].attempt = runner'[q].attempt
        PROVE  p = q
    <3>1. CASE p # r /\ q # r
      BY <2>4, <2>5, <3>1 DEF WorkApart
    <3>2. CASE p = r /\ q # r
      BY <2>2, <2>3, <2>4, <2>5, <3>2
    <3>3. CASE p # r /\ q = r
      BY <2>2, <2>3, <2>4, <2>5, <3>3
    <3>. QED  BY <3>1, <3>2, <3>3
  <2>. QED  BY <2>1, <2>5 DEF WorkApart
<1>3. CASE ~Claim(r)
  <2>1. \A q \in Runner :
          \/ runner'[q] = runner[q]
          \/ q = r /\ runner'[q].at \in {"idle", "counted"}
          \/ /\ q = r /\ runner[q].at = "executing" /\ runner'[q].at = "finishing"
             /\ runner'[q].job = runner[q].job /\ runner'[q].attempt = runner[q].attempt
    BY <1>3 DEF Run, Count, Counts, Takes, Miss, Execute, Finish, Fail, FailIf, CrashRunner, Idle
  <2>2. \/ lock' = lock /\ (lock = r => runner' = runner)
        \/ lock' = None
        \/ lock' = r /\ runner'[r].at = "counted"
    BY <1>1, <1>3 DEF Run, Count, Counts, Takes, Miss, Execute, Finish, Fail, FailIf, CrashRunner,
                      Unlocked, CountedInv, WorkApart
  <2>3. lock' # None => runner'[lock'].at = "counted"
    BY <2>1, <2>2 DEF WorkApart
  <2>. QED  BY <2>1, <2>3 DEF WorkApart
<1>. QED  BY <1>2, <1>3

LEMMA NextApart == ASSUME IInv, WorkApart, [Next]_vars PROVE WorkApart'
<1>1. CASE UNCHANGED <<runner, lock>>
  BY <1>1 DEF WorkApart
<1>2. UNCHANGED <<runner, lock>> \/ \E r \in Runner : Run(r)
  BY DEF Next, Start, Lapse, Decide, Send, Age, ApplyDecision, Apply, ResumeDecision, Lose, Stamp,
         GiveUp, vars
<1>. QED  BY <1>1, <1>2, RunApart

\* Two attempts at a job never have the same number, and who dies with the advisory lock
\* takes it along.
THEOREM WorkIsApart == Spec => []WorkApart
<1>1. ASSUME Init PROVE WorkApart
  BY <1>1 DEF Init, WorkApart, Idle
<1>. QED  BY <1>1, NextApart, InvariantHolds, PTL DEF Spec

\* Live leases and reserved attempts keep to the limits of the service and of each owner,
\* and a lease has one holder, for any number of runners that count at the same time.
THEOREM LimitsAreKept == Spec => []WithinLimits
<1>1. IInv /\ WorkApart => WithinLimits
  <2>1. ASSUME WorkApart, NEW r \in Runner, NEW q \in Runner, HoldsLease(r), HoldsLease(q),
               runner[r].job = runner[q].job
        PROVE  r = q
    BY <2>1 DEF WorkApart, HoldsLease, Owned
  <2>. QED  BY <2>1, Zenon DEF IInv, CountsKept, WithinLimits
<1>. QED  BY <1>1, InvariantHolds, WorkIsApart, PTL

\* A stored result is that of the last attempt, however late the others are.
THEOREM LastAttemptCounts == Spec => []ResultIsLastAttempt
<1>1. IInv => ResultIsLastAttempt
  BY DEF IInv
<1>. QED  BY <1>1, InvariantHolds, PTL

---------------------------------------------------------------------------
(***************************************************************************)
(* Decisions on their way to the agent.  The invariant adds to IInv what   *)
(* each call has already done, and that it is never undone.                *)
(***************************************************************************)

\* A call is about a decision, which the job and the graph have taken when it says so.
CallInv(x) ==
    /\ decided[x.job]
    /\ x.at # "sent" => status[x.job] = "decided"
    /\ x.at = "done" => graph[x.job] = "resumed"

\* A decision is about a stored result; only a decision makes a job decided, only a
\* decided job resumes its graph, and a notification is stamped after both.
DecisionInv(j) ==
    /\ decided[j] => status[j] \in {"proposed", "decided"}
    /\ status[j] = "decided" => decided[j]
    /\ graph[j] = "resumed" => status[j] = "decided"
    /\ delivered[j] => graph[j] = "resumed"

DeliveryInv ==
    /\ \A x \in calls : CallInv(x)
    /\ \A j \in Job : DecisionInv(j)

\* Runners keep their hands off decisions, and off the row and the graph of every job
\* that is neither queued nor under investigation.
LEMMA RunSpares ==
    ASSUME IInv, NEW r \in Runner, Run(r)
    PROVE  /\ UNCHANGED decision_vars
           /\ \A i \in Job :
                \/ status'[i] = status[i] /\ graph'[i] = graph[i]
                \/ /\ status[i] \in {"queued", "investigating"}
                   /\ status'[i] # "decided"
                   /\ graph'[i] \in {graph[i], "running", "awaiting"}
<1>. DEFINE j == runner[r].job
<1>1. UNCHANGED decision_vars
  BY DEF Run, Count, Counts, Claim, Miss, Execute, Finish, Fail, FailIf, CrashRunner
<1>2. TypeOK /\ CountedInv(r) /\ WorkInv(r)
  BY DEF IInv
<1>3. CASE Count(r)
  BY <1>2, <1>3 DEF Count, Counts, Exhausted, TypeOK
<1>4. CASE Claim(r)
  <2>1. j \in Job /\ status[j] \in {"queued", "investigating"}
    BY <1>2, <1>4 DEF Claim, CountedInv, RowClaimable
  <2>2. /\ status' = [status EXCEPT ![j] = "investigating"]
        /\ graph' = [graph EXCEPT ![j] = "running"]
    BY <1>4 DEF Claim
  <2>. QED  BY <1>1, <1>2, <2>1, <2>2 DEF TypeOK
<1>5. CASE Miss(r) \/ CrashRunner(r)
  BY <1>5 DEF Miss, CrashRunner
<1>6. CASE Execute(r) \/ Finish(r) \/ Fail(r)
  <2>1. j \in Job /\ runner[r].attempt # 0
    BY <1>2, <1>6 DEF Execute, Finish, Fail, FailIf, WorkInv, IInv, TypeOK
  <2>2. Owned(r) => status[j] = "investigating"
    BY <2>1 DEF Owned, IInv, LeaseInv
  <2>3. CASE Execute(r)
    BY <1>2, <2>1, <2>2, <2>3 DEF Execute, TypeOK
  <2>4. CASE Finish(r)
    BY <1>2, <2>1, <2>2, <2>4 DEF Finish, TypeOK
  <2>5. CASE Fail(r)
    <3>1. graph' = graph
      BY <2>5 DEF Fail, FailIf
    <3>2. status' = IF Owned(r) THEN [status EXCEPT ![j] = "error"] ELSE status
      BY <2>5 DEF Fail, FailIf
    <3>. QED  BY <1>1, <1>2, <2>1, <2>2, <3>1, <3>2 DEF TypeOK
  <2>. QED  BY <1>6, <2>3, <2>4, <2>5
<1>. QED  BY <1>1, <1>3, <1>4, <1>5, <1>6 DEF Run

LEMMA DeliveryInit == ASSUME Init PROVE DeliveryInv
BY DEF Init, DeliveryInv, DecisionInv

LEMMA RunDelivers ==
    ASSUME IInv, DeliveryInv, NEW r \in Runner, Run(r)
    PROVE  DeliveryInv'
<1>1. UNCHANGED <<decided, delivered, calls>>
  BY RunSpares
<1>2. ASSUME NEW j \in Job PROVE DecisionInv(j)'
  BY <1>1, RunSpares DEF DeliveryInv, DecisionInv
<1>3. ASSUME NEW x \in calls PROVE CallInv(x)'
  <2>1. x.job \in Job
    BY DEF IInv, TypeOK, Call
  <2>2. DecisionInv(x.job) /\ CallInv(x)
    BY <2>1 DEF DeliveryInv
  <2>. QED  BY <1>1, <2>1, <2>2, RunSpares DEF CallInv, DecisionInv
<1>. QED  BY <1>1, <1>2, <1>3 DEF DeliveryInv

\* The call that moves on is the only new one.
LEMMA MovesOne ==
    ASSUME NEW x \in calls, NEW place, Moves(x, place)
    PROVE  \A y \in calls' : y \in calls \/ y = [x EXCEPT !.at = place]
BY DEF Moves

\* Steps of senders, of the agent and of the clocks.
LEMMA OtherDelivers ==
    ASSUME IInv, DeliveryInv,
           \/ \E j \in Job : Start(j) \/ Lapse(j) \/ Decide(j) \/ (\E s \in Sender : Send(s, j))
           \/ \E o \in Owner : Age(o)
           \/ \E x \in calls : ApplyDecision(x) \/ ResumeDecision(x) \/ Lose(x)
           \/ \E s \in Sender : Stamp(s) \/ GiveUp(s)
           \/ UNCHANGED vars
    PROVE  DeliveryInv'
<1>1. TypeOK /\ calls \subseteq Call
  BY DEF IInv, TypeOK
<1>2. \A x \in calls : x.job \in Job /\ x = [job |-> x.job, from |-> x.from, at |-> x.at]
  BY <1>1 DEF Call
<1>. USE DEF DeliveryInv
<1>3. ASSUME NEW j \in Job, Start(j) PROVE DeliveryInv'
  BY <1>1, <1>2, <1>3 DEF Start, TypeOK, CallInv, DecisionInv
<1>4. ASSUME NEW j \in Job, Decide(j) PROVE DeliveryInv'
  BY <1>1, <1>2, <1>4 DEF Decide, TypeOK, CallInv, DecisionInv
<1>5. ASSUME NEW j \in Job, NEW s \in Sender, Send(s, j) PROVE DeliveryInv'
  BY <1>1, <1>2, <1>5 DEF Send, TypeOK, CallInv, DecisionInv
<1>6. ASSUME NEW x \in calls, ApplyDecision(x) PROVE DeliveryInv'
  <2>1. /\ x.job \in Job /\ decided[x.job]
        /\ status' = [status EXCEPT ![x.job] = "decided"]
        /\ UNCHANGED <<graph, decided, delivered>>
        /\ Moves(x, "applied")
    BY <1>2, <1>6 DEF ApplyDecision, Apply, CallInv
  <2>2. ASSUME NEW j \in Job PROVE DecisionInv(j)'
    BY <1>1, <2>1 DEF DecisionInv, TypeOK
  <2>3. ASSUME NEW y \in calls' PROVE CallInv(y)'
    <3>1. CASE y \in calls
      BY <1>1, <1>2, <2>1, <3>1 DEF CallInv, TypeOK
    <3>2. CASE y = [x EXCEPT !.at = "applied"]
      <4>1. y.job = x.job /\ y.at = "applied"
        BY <1>2, <3>2
      <4>. QED  BY <1>1, <2>1, <4>1 DEF CallInv, TypeOK
    <3>. QED  BY <2>1, <3>1, <3>2, MovesOne
  <2>. QED  BY <2>2, <2>3
<1>7. ASSUME NEW x \in calls, ResumeDecision(x) PROVE DeliveryInv'
  <2>1. /\ x.job \in Job /\ decided[x.job] /\ status[x.job] = "decided"
        /\ graph' = [graph EXCEPT ![x.job] = "resumed"]
        /\ UNCHANGED <<status, decided, delivered>>
        /\ Moves(x, "done")
    BY <1>2, <1>7 DEF ResumeDecision, CallInv
  <2>2. ASSUME NEW j \in Job PROVE DecisionInv(j)'
    BY <1>1, <2>1 DEF DecisionInv, TypeOK
  <2>3. ASSUME NEW y \in calls' PROVE CallInv(y)'
    <3>1. CASE y \in calls
      BY <1>1, <1>2, <2>1, <3>1 DEF CallInv, TypeOK
    <3>2. CASE y = [x EXCEPT !.at = "done"]
      <4>1. y.job = x.job /\ y.at = "done"
        BY <1>2, <3>2
      <4>. QED  BY <1>1, <2>1, <4>1 DEF CallInv, TypeOK
    <3>. QED  BY <2>1, <3>1, <3>2, MovesOne
  <2>. QED  BY <2>2, <2>3
<1>8. ASSUME NEW s \in Sender, Stamp(s) PROVE DeliveryInv'
  <2>1. PICK x \in calls : /\ x.at = "done" /\ calls' = calls \ {x}
                           /\ delivered' = [delivered EXCEPT ![x.job] = TRUE]
    BY <1>8 DEF Stamp
  <2>2. UNCHANGED <<status, graph, decided>>
    BY <1>8 DEF Stamp
  <2>3. graph[x.job] = "resumed"
    BY <2>1 DEF CallInv
  <2>. QED  BY <1>1, <2>1, <2>2, <2>3 DEF CallInv, DecisionInv, TypeOK
<1>9. ASSUME NEW s \in Sender, GiveUp(s) PROVE DeliveryInv'
  <2>1. UNCHANGED <<status, graph, decided, delivered>>
    BY <1>9 DEF GiveUp
  <2>2. \A y \in calls' : \E x \in calls : y.job = x.job /\ y.at = x.at
    <3>1. \A x \in calls : /\ [x EXCEPT !.from = None].job = x.job
                           /\ [x EXCEPT !.from = None].at = x.at
      BY <1>2
    <3>. QED  BY <1>9, <3>1 DEF GiveUp
  <2>. QED  BY <2>1, <2>2 DEF CallInv, DecisionInv
<1>10. ASSUME UNCHANGED <<status, graph, decided, delivered>>, calls' \subseteq calls
       PROVE  DeliveryInv'
  BY <1>10 DEF CallInv, DecisionInv
<1>11. ASSUME NEW x \in calls, Lose(x) PROVE DeliveryInv'
  BY <1>10, <1>11 DEF Lose
<1>12. CASE (\E j \in Job : Lapse(j)) \/ (\E o \in Owner : Age(o)) \/ UNCHANGED vars
  BY <1>10, <1>12 DEF Lapse, Age, vars
<1>. QED  BY <1>3, <1>4, <1>5, <1>6, <1>7, <1>8, <1>9, <1>11, <1>12

\* What a call has done stays done: a decision is never applied to a job without one,
\* and a job that took it and a graph that resumed are not begun again.
THEOREM DeliveryHolds == Spec => []DeliveryInv
<1>1. ASSUME IInv, DeliveryInv, [Next]_vars PROVE DeliveryInv'
  BY <1>1, RunDelivers, OtherDelivers DEF Next
<1>. QED  BY <1>1, DeliveryInit, InvariantHolds, PTL DEF Spec

---------------------------------------------------------------------------
(***************************************************************************)
(* The refinement of AtLeastOnce.                                          *)
(***************************************************************************)

Owed == {j \in Job : decided[j] /\ ~delivered[j]}
Stamped == {j \in Job : delivered[j]}
Taken == {j \in Job : status[j] = "decided" /\ graph[j] = "resumed"}

LEMMA RelayInit == ASSUME Init PROVE Relay!LInit
<1>1. Owed = {} /\ Stamped = {} /\ Taken = {}
  BY DEF Init, Owed, Stamped, Taken
<1>. QED  BY <1>1 DEF Relay!LInit, Owed, Stamped, Taken

\* What leaves the three sets as they are is a stutter of the relay.
LEMMA RelayStutter ==
    ASSUME Owed' = Owed, Stamped' = Stamped, Taken' = Taken
    PROVE  UNCHANGED Relay!lvars
BY DEF Relay!lvars, Owed, Stamped, Taken

\* A runner neither takes a decision nor undoes one.
LEMMA RunRelays ==
    ASSUME IInv, DeliveryInv, NEW r \in Runner, Run(r)
    PROVE  UNCHANGED Relay!lvars
<1>1. UNCHANGED <<decided, delivered>>
  BY RunSpares
<1>2. Owed' = Owed /\ Stamped' = Stamped
  BY <1>1 DEF Owed, Stamped
<1>3. Taken' = Taken
  BY RunSpares DEF Taken
<1>. QED  BY <1>2, <1>3, RelayStutter

\* Every step of the relay's actors, in the order of Next.
LEMMA StepRelays ==
    ASSUME IInv, DeliveryInv, [Next]_vars
    PROVE  [Relay!LNext]_(Relay!lvars)
<1>1. TypeOK /\ \A x \in calls : x.job \in Job
  BY DEF IInv, TypeOK, Call
<1>2. ASSUME NEW j \in Job, Decide(j) PROVE Relay!Enqueue(j)
  <2>1. ~decided[j] /\ ~delivered[j] /\ decided' = [decided EXCEPT ![j] = TRUE]
        /\ UNCHANGED <<delivered, status, graph>>
    BY <1>2 DEF Decide, DeliveryInv, DecisionInv
  <2>2. Owed' = Owed \cup {j} /\ Stamped' = Stamped /\ Taken' = Taken
    BY <1>1, <2>1 DEF Owed, Stamped, Taken, TypeOK
  <2>3. j \notin Owed \cup Stamped
    BY <2>1 DEF Owed, Stamped
  <2>. QED  BY <2>2, <2>3 DEF Relay!Enqueue, Owed, Stamped, Taken
<1>3. ASSUME NEW x \in calls, ApplyDecision(x) PROVE UNCHANGED Relay!lvars
  <2>1. /\ x.job \in Job /\ status[x.job] \in {"proposed", "decided"}
        /\ status' = [status EXCEPT ![x.job] = "decided"]
        /\ UNCHANGED <<graph, decided, delivered>>
    BY <1>1, <1>3 DEF ApplyDecision, Apply
  <2>2. graph[x.job] = "resumed" => status[x.job] = "decided"
    BY <2>1 DEF DeliveryInv, DecisionInv
  <2>3. Owed' = Owed /\ Stamped' = Stamped /\ Taken' = Taken
    BY <1>1, <2>1, <2>2 DEF Owed, Stamped, Taken, TypeOK
  <2>. QED  BY <2>3, RelayStutter
<1>4. ASSUME NEW x \in calls, ResumeDecision(x) PROVE Relay!Publish({x.job})
  <2>1. /\ x.job \in Job /\ status[x.job] = "decided" /\ decided[x.job]
        /\ graph' = [graph EXCEPT ![x.job] = "resumed"]
        /\ UNCHANGED <<status, decided, delivered>>
    BY <1>1, <1>4 DEF ResumeDecision, DeliveryInv, CallInv
  <2>2. Owed' = Owed /\ Stamped' = Stamped /\ Taken' = Taken \cup {x.job}
    BY <1>1, <2>1 DEF Owed, Stamped, Taken, TypeOK
  <2>3. {x.job} \subseteq Owed \cup Stamped
    BY <2>1 DEF Owed, Stamped
  <2>. QED  BY <2>2, <2>3 DEF Relay!Publish, Owed, Stamped, Taken
<1>5. ASSUME NEW s \in Sender, Stamp(s) PROVE [Relay!LNext]_(Relay!lvars)
  <2>1. PICK x \in calls : x.at = "done" /\ delivered' = [delivered EXCEPT ![x.job] = TRUE]
    BY <1>5 DEF Stamp
  <2>2. UNCHANGED <<status, graph, decided>>
    BY <1>5 DEF Stamp
  <2>3. x.job \in Job /\ decided[x.job] /\ x.job \in Taken
    BY <1>1, <2>1 DEF DeliveryInv, CallInv, Taken
  <2>4. Taken' = Taken
    BY <2>2 DEF Taken
  <2>5. CASE delivered[x.job]
    <3>1. Owed' = Owed /\ Stamped' = Stamped
      BY <1>1, <2>1, <2>2, <2>5 DEF Owed, Stamped, TypeOK
    <3>. QED  BY <2>4, <3>1, RelayStutter
  <2>6. CASE ~delivered[x.job]
    <3>1. {x.job} \subseteq Owed \cap Taken
      BY <2>3, <2>6 DEF Owed
    <3>2. Owed' = Owed \ {x.job} /\ Stamped' = Stamped \cup {x.job}
      BY <1>1, <2>1, <2>2, <2>3 DEF Owed, Stamped, TypeOK
    <3>3. Relay!Retire({x.job})
      BY <2>4, <3>1, <3>2 DEF Relay!Retire, Owed, Stamped, Taken
    <3>. QED  BY <2>3, <3>3 DEF Relay!LNext
  <2>. QED  BY <2>5, <2>6
<1>6. ASSUME UNCHANGED <<decided, delivered, graph>>, Taken' = Taken
      PROVE  UNCHANGED Relay!lvars
  <2>1. Owed' = Owed /\ Stamped' = Stamped
    BY <1>6 DEF Owed, Stamped
  <2>. QED  BY <1>6, <2>1, RelayStutter
<1>7. ASSUME NEW j \in Job, Start(j) PROVE UNCHANGED Relay!lvars
  <2>1. status[j] = "none" /\ status' = [status EXCEPT ![j] = "queued"]
        /\ UNCHANGED <<decided, delivered, graph>>
    BY <1>7 DEF Start
  <2>2. Taken' = Taken
    BY <1>1, <2>1 DEF Taken, TypeOK
  <2>. QED  BY <1>6, <2>1, <2>2
<1>8. ASSUME UNCHANGED <<decided, delivered, graph, status>> PROVE UNCHANGED Relay!lvars
  <2>1. Taken' = Taken
    BY <1>8 DEF Taken
  <2>. QED  BY <1>6, <1>8, <2>1
<1>9. CASE \/ \E j \in Job : Lapse(j) \/ (\E s \in Sender : Send(s, j))
           \/ \E o \in Owner : Age(o)
           \/ \E x \in calls : Lose(x)
           \/ \E s \in Sender : GiveUp(s)
           \/ UNCHANGED vars
  <2>1. UNCHANGED <<decided, delivered, graph, status>>
    BY <1>9 DEF Lapse, Send, Age, Lose, GiveUp, vars
  <2>. QED  BY <1>8, <2>1
<1>10. CASE \E x \in calls : ResumeDecision(x)
  BY <1>1, <1>4, <1>10 DEF Relay!LNext
<1>11. CASE \E j \in Job : Decide(j)
  BY <1>2, <1>11 DEF Relay!LNext
<1>. QED
  BY <1>3, <1>5, <1>7, <1>9, <1>10, <1>11, RunRelays DEF Next

\* A decision is stamped as delivered only when job and graph have taken it, and both
\* keep it, for any number of runners, senders and lost or repeated requests.
THEOREM DecisionsRelay == Spec => RelaysAtLeastOnce
<1>1. IInv /\ DeliveryInv /\ [Next]_vars => [Relay!LNext]_(Relay!lvars)
  BY StepRelays
<1>. QED
  BY <1>1, RelayInit, InvariantHolds, DeliveryHolds, PTL DEF Spec, RelaysAtLeastOnce, Relay!LSpec
=============================================================================

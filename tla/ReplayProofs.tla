---------------------------- MODULE ReplayProofs ----------------------------
(***************************************************************************)
(* Theorems of Replay, for any number of stages, approvals, requests,      *)
(* workers and dispatchers.                                                *)
(***************************************************************************)
EXTENDS Replay, TLAPS, LeastNumber

---------------------------------------------------------------------------
(***************************************************************************)
(* The inductive invariant.                                                *)
(***************************************************************************)
Refused == [attempt |-> 1, outcome |-> "rejected"]

\* What TypeOK leaves to StageContract.
StageTyped ==
    /\ decision \in [Stage -> {"open", "succeeded", "failed"}]
    /\ record \in [Stage -> [attempt : 0..1, outcome : FailureOutcome \cup {"none"}]]
    /\ sent \in [Stage -> 0..1] /\ delivered \in [Stage -> BOOLEAN]

\* A refusal on record is a failure of a stage that delivered nothing.
StageInv == \A n \in Stage : record[n] = Refused => decision[n] = "failed" /\ ~delivered[n]

\* A request is about a stage that was refused, and its row knows what follows.
RowInv(r) ==
    IF r \in Requested
    THEN /\ decision[StageOf(r)] = "failed" /\ record[StageOf(r)] = Refused
         /\ replay[r].status \in {"RUNNING", "SUCCESS"} =>
              replay[r].nextStage = Following(StageOf(r))
    ELSE replay[r] = NoReplay /\ attempt[r] = "none" /\ failure[r] = "none"

\* The case of a stage is consumed once.
OneReplay == \A r, q \in Requested : StageOf(r) = StageOf(q) => r = q

\* A message is sent again once, under a replay that was claimed.
ResentInv(n) ==
    /\ resent[n] \in 0..1
    /\ resent[n] = 0 => ~redelivered[n]
    /\ resent[n] = 1 => \E r \in Requested : StageOf(r) = n /\ replay[r].status # "RESERVED"

QueueInv ==
    \A e \in queued :
        IF e.request = NoRequest THEN e.stage > 0 => Passed(e.stage - 1)
        ELSE e.request \in Requested /\ e.stage = StageOf(e.request)

\* The work of event e is decided, ...
Over(e) == IF e.request = NoRequest THEN decision[e.stage] # "open"
           ELSE replay[e.request].status \in Decided

\* ... it was a success, ...
Succeeded(e) == IF e.request = NoRequest THEN decision[e.stage] = "succeeded"
                ELSE replay[e.request].status = "SUCCESS"

\* ... and what follows a success is queued.
Settled(e) == Over(e) /\ (Succeeded(e) /\ e.stage < Last => Ordinary(e.stage + 1) \in queued)

CommittedInv == \A e \in committed : Settled(e)

DispatchInv == \A d \in Dispatcher : dpc[d] = "acked" => EventOf(row[d]) \in queued

\* w is about to call the provider for a replay, or has called it.
Calls(w) == wpc[w] \in {"call", "complete"}

\* w may send what it is to send, and has to if its event succeeded.
Ready(w) ==
    /\ Over(event[w])
    /\ Succeeded(event[w]) => next[w] = Following(event[w].stage)
    /\ next[w] # NoStage => next[w] = event[w].stage + 1 /\ Passed(event[w].stage)

\* What w knows of the event it is at.
WorkerInv(w) ==
    /\ wpc[w] # "idle" => event[w] \in queued
    /\ wpc[w] = "execute" => event[w].request = NoRequest
    /\ Calls(w) => event[w].request # NoRequest /\ replay[Mine(w)].status \in {"RUNNING", "UNKNOWN"}
    /\ wpc[w] = "call" => resent[event[w].stage] = 0
    /\ wpc[w] = "complete" =>
         /\ evidence[w] \in {"accepted", "rejected", "unknown"}
         /\ evidence[w] = "accepted" => redelivered[event[w].stage]
         /\ evidence[w] = "rejected" => ~redelivered[event[w].stage]
    /\ wpc[w] = "settle" => Ready(w)
    /\ wpc[w] = "commit" => Settled(event[w])

\* A replay is in the hands of one worker.
WorkersApart == \A u, v \in Worker : Calls(u) /\ Calls(v) /\ Mine(u) = Mine(v) => u = v

IInv ==
    /\ TypeOK /\ StageTyped
    /\ StageInv
    /\ RowsAgree
    /\ \A r \in Request : RowInv(r)
    /\ OneReplay
    /\ \A n \in Stage : ResentInv(n)
    /\ QueueInv
    /\ CommittedInv
    /\ DispatchInv
    /\ \A w \in Worker : WorkerInv(w)
    /\ WorkersApart

---------------------------------------------------------------------------
(***************************************************************************)
(* What no step undoes.                                                    *)
(***************************************************************************)
LEMMA ConstantFacts ==
    /\ Last \in Nat /\ Stage = 0..Last
    /\ \A a \in Approval : Approved[a] \in Stage
    /\ NoStage \notin Stage
    /\ NoRequest \notin Request /\ NoApproval \notin Approval
BY ReplayAssumption DEF Stage, NoStage

LEMMA RequestedStage ==
    ASSUME TypeOK, NEW r \in Requested PROVE r \in Request /\ StageOf(r) \in Stage
BY ConstantFacts DEF TypeOK, Requested, StageOf

\* An event is of a stage and knows its request; an ordinary one is known by its stage.
LEMMA EventFacts ==
    /\ \A e \in Event : e.stage \in Stage /\ e.request \in Request \cup {NoRequest}
    /\ \A e \in Event : e.request = NoRequest => e = Ordinary(e.stage)
    /\ \A n \in Stage : Ordinary(n) \in Event /\ Ordinary(n).stage = n
                        /\ Ordinary(n).request = NoRequest
BY DEF Event, Ordinary

LEMMA FollowingFacts ==
    ASSUME NEW n \in Stage
    PROVE  /\ Following(n) \in Stage \cup {NoStage}
           /\ Following(n) # NoStage => Following(n) = n + 1
           /\ n < Last => Following(n) = n + 1 /\ n + 1 # NoStage
BY ConstantFacts DEF Following, NoStage

\* Decisions, requests, decided replays and queued events stay.
Later ==
    /\ \A n \in Stage : decision[n] # "open" => decision'[n] = decision[n]
    /\ \A r \in Requested :
         /\ request'[r] = request[r]
         /\ replay[r].status \in Decided => replay'[r].status = replay[r].status
    /\ queued \subseteq queued'

\* What is queued carries a request that was made, or none.
LEMMA QueuedFacts ==
    ASSUME IInv, NEW e \in queued
    PROVE  /\ e \in Event /\ e.stage \in Stage
           /\ e.request # NoRequest => e.request \in Requested /\ e.stage = StageOf(e.request)
BY EventFacts DEF IInv, TypeOK, QueueInv

LEMMA RequestedKept ==
    ASSUME Later, NEW r \in Requested
    PROVE  r \in Requested' /\ StageOf(r)' = StageOf(r)
BY DEF Later, Requested, StageOf

LEMMA PassedKept ==
    ASSUME IInv, Later, NEW n \in Stage, Passed(n)
    PROVE  Passed(n)'
<1>1. CASE decision[n] = "succeeded"
  BY <1>1 DEF Later, Passed
<1>2. ASSUME NEW r \in Requested, StageOf(r) = n, replay[r].status = "SUCCESS"
      PROVE  Passed(n)'
  <2>1. r \in Requested' /\ StageOf(r)' = n /\ replay'[r].status = "SUCCESS"
    BY <1>2, RequestedKept DEF Later, Decided
  <2>. QED  BY <2>1 DEF Passed
<1>. QED  BY <1>1, <1>2 DEF Passed

\* What is over stays over, and stays the success that it is or is not.
LEMMA OverKept ==
    ASSUME IInv, Later, NEW e \in queued, Over(e)
    PROVE  Over(e)' /\ (Succeeded(e)' <=> Succeeded(e))
<1>1. CASE e.request = NoRequest
  BY <1>1, QueuedFacts DEF Over, Succeeded, Later
<1>2. CASE e.request # NoRequest
  BY <1>2, QueuedFacts DEF Over, Succeeded, Later
<1>. QED  BY <1>1, <1>2

LEMMA SettledKept ==
    ASSUME IInv, Later, NEW e \in queued, Settled(e)
    PROVE  Settled(e)'
BY OverKept DEF Settled, Later

\* An old event is no obstacle.
LEMMA OldEvent ==
    ASSUME IInv, Later, NEW e \in queued
    PROVE  IF e.request = NoRequest THEN e.stage > 0 => Passed(e.stage - 1)'
           ELSE e.request \in Requested' /\ e.stage = StageOf(e.request)'
<1>1. CASE e.request = NoRequest
  <2>1. ASSUME e.stage > 0 PROVE Passed(e.stage - 1)'
    <3>1. Passed(e.stage - 1) /\ e.stage - 1 \in Stage
      BY <1>1, <2>1, QueuedFacts, ConstantFacts DEF IInv, QueueInv
    <3>. QED  BY <3>1, PassedKept
  <2>. QED  BY <1>1, <2>1
<1>2. CASE e.request # NoRequest
  BY <1>2, QueuedFacts, RequestedKept
<1>. QED  BY <1>1, <1>2

\* A worker that does nothing keeps what it knows, unless its replay is undone.
LEMMA OtherWorker ==
    ASSUME IInv, Later, NEW v \in Worker,
           wpc'[v] = wpc[v], event'[v] = event[v], evidence'[v] = evidence[v],
           next'[v] = next[v],
           Calls(v) => /\ replay'[Mine(v)].status \in {"RUNNING", "UNKNOWN"}
                       /\ resent'[event[v].stage] = resent[event[v].stage]
                       /\ redelivered'[event[v].stage] = redelivered[event[v].stage]
    PROVE  WorkerInv(v)'
<1>0. WorkerInv(v) /\ (wpc[v] # "idle" => event[v] \in queued /\ event'[v] \in queued')
  BY DEF IInv, WorkerInv, Later
<1>1. CASE wpc[v] \in {"idle", "execute"}
  BY <1>0, <1>1 DEF WorkerInv, Calls
<1>2. CASE Calls(v)
  BY <1>0, <1>2 DEF WorkerInv, Calls, Mine
<1>3. CASE wpc[v] = "settle"
  <2>1. Ready(v) /\ event[v] \in queued /\ event[v].stage \in Stage
    BY <1>0, <1>3, QueuedFacts DEF WorkerInv
  <2>2. Ready(v)'
    BY <2>1, OverKept, PassedKept DEF Ready, Over, Succeeded, Following, Passed
  <2>. QED  BY <1>0, <1>3, <2>2 DEF WorkerInv, Calls
<1>4. CASE wpc[v] = "commit"
  <2>1. Settled(event[v])'
    BY <1>0, <1>4, SettledKept DEF WorkerInv, Settled, Over, Succeeded
  <2>. QED  BY <1>0, <1>4, <2>1 DEF WorkerInv, Calls
<1>. QED  BY <1>1, <1>2, <1>3, <1>4 DEF IInv, TypeOK, Calls

---------------------------------------------------------------------------
(***************************************************************************)
(* Steps of a worker that leave stages, replays and topic alone.           *)
(***************************************************************************)
LEMMA SameRows ==
    ASSUME IInv, UNCHANGED <<stage_vars, replay_vars, history_vars>>
    PROVE  /\ StageTyped' /\ StageInv' /\ RowsAgree' /\ OneReplay'
           /\ \A r \in Request : RowInv(r)'
           /\ \A n \in Stage : ResentInv(n)'
           /\ Requested' = Requested /\ \A r : StageOf(r)' = StageOf(r)
<1>1. UNCHANGED <<decision, record, sent, delivered, request, replay, attempt, failure,
                  resent, redelivered>>
  BY DEF stage_vars, replay_vars, history_vars
<1>2. Requested' = Requested /\ \A r : StageOf(r)' = StageOf(r)
  BY <1>1 DEF Requested, StageOf
<1>3. StageTyped' /\ StageInv'
  BY <1>1 DEF IInv, StageTyped, StageInv
<1>4. RowsAgree' /\ OneReplay'
  BY <1>1, <1>2 DEF IInv, RowsAgree, OneReplay
<1>5. \A r \in Request : RowInv(r)'
  BY <1>1, <1>2 DEF IInv, RowInv
<1>6. \A n \in Stage : ResentInv(n)'
  BY <1>1, <1>2 DEF IInv, ResentInv
<1>. QED  BY <1>2, <1>3, <1>4, <1>5, <1>6

LEMMA WorkerOnly ==
    ASSUME IInv, NEW w \in Worker,
           UNCHANGED <<stage_vars, replay_vars, history_vars, authority, queued, dispatch_vars>>,
           \A v \in Worker \ {w} : /\ wpc'[v] = wpc[v] /\ event'[v] = event[v]
                                   /\ evidence'[v] = evidence[v] /\ next'[v] = next[v],
           wpc' \in [Worker -> {"idle", "call", "complete", "execute", "settle", "commit"}],
           event' \in [Worker -> Event],
           evidence' \in [Worker -> FailureOutcome \cup {"accepted", "none"}],
           next' \in [Worker -> Stage \cup {NoStage}],
           ~Calls(w)', WorkerInv(w)',
           committed' \subseteq queued, \A e \in committed' : Settled(e)
    PROVE  IInv'
<1>1. /\ UNCHANGED <<decision, record, sent, delivered, request, replay, attempt, failure,
                     resent, redelivered, authority, queued, dpc, row>>
      /\ UNCHANGED <<stage_vars, replay_vars, history_vars>>
  BY DEF stage_vars, replay_vars, history_vars, dispatch_vars
<1>2. Requested' = Requested /\ \A r : StageOf(r)' = StageOf(r)
  BY <1>1, SameRows
<1>3. Later
  BY <1>1 DEF Later
<1>4. TypeOK'
  BY <1>1, <1>2 DEF IInv, TypeOK, Calls, Mine
<1>5. QueueInv' /\ DispatchInv'
  BY <1>1, <1>2 DEF IInv, QueueInv, DispatchInv, Passed, EventOf
<1>6. CommittedInv'
  BY <1>1, <1>3, SettledKept DEF CommittedInv
<1>7. ASSUME NEW v \in Worker \ {w} PROVE WorkerInv(v)'
  <2>1. Calls(v) => replay'[Mine(v)].status \in {"RUNNING", "UNKNOWN"}
    BY <1>1 DEF IInv, WorkerInv
  <2>. QED  BY <1>1, <1>3, <2>1, OtherWorker
<1>8. WorkersApart'
  BY DEF IInv, WorkersApart, Calls, Mine
<1>. QED  BY <1>1, <1>4, <1>5, <1>6, <1>7, <1>8, SameRows DEF IInv

\* w is through with its event.
LEMMA Leaving ==
    ASSUME IInv, NEW w \in Worker, Leave(w)
    PROVE  /\ \A v \in Worker \ {w} : /\ wpc'[v] = wpc[v] /\ event'[v] = event[v]
                                      /\ evidence'[v] = evidence[v] /\ next'[v] = next[v]
           /\ wpc' \in [Worker -> {"idle", "call", "complete", "execute", "settle", "commit"}]
           /\ event' \in [Worker -> Event]
           /\ evidence' \in [Worker -> FailureOutcome \cup {"accepted", "none"}]
           /\ next' \in [Worker -> Stage \cup {NoStage}]
           /\ wpc'[w] = "idle" /\ ~Calls(w)' /\ WorkerInv(w)'
<1>1. Ordinary(0) \in Event
  BY EventFacts, ConstantFacts
<1>2. /\ wpc' = [wpc EXCEPT ![w] = "idle"] /\ event' = [event EXCEPT ![w] = Ordinary(0)]
      /\ evidence' = [evidence EXCEPT ![w] = "none"] /\ next' = [next EXCEPT ![w] = NoStage]
  BY DEF Leave, Goto
<1>3. wpc'[w] = "idle"
  BY <1>2 DEF IInv, TypeOK
<1>4. ~Calls(w)' /\ WorkerInv(w)'
  BY <1>3 DEF Calls, WorkerInv
<1>5. \A v \in Worker \ {w} : /\ wpc'[v] = wpc[v] /\ event'[v] = event[v]
                              /\ evidence'[v] = evidence[v] /\ next'[v] = next[v]
  BY <1>2 DEF IInv, TypeOK
<1>6. /\ wpc' \in [Worker -> {"idle", "call", "complete", "execute", "settle", "commit"}]
      /\ event' \in [Worker -> Event]
      /\ evidence' \in [Worker -> FailureOutcome \cup {"accepted", "none"}]
      /\ next' \in [Worker -> Stage \cup {NoStage}]
  BY <1>1, <1>2 DEF IInv, TypeOK
<1>. QED  BY <1>3, <1>4, <1>5, <1>6

\* w has resolved event e, and may have m to send.
LEMMA Resolving ==
    ASSUME IInv, NEW w \in Worker, NEW e \in queued, NEW m \in Stage \cup {NoStage},
           Resolve(w, e, m)
    PROVE  /\ \A v \in Worker \ {w} : /\ wpc'[v] = wpc[v] /\ event'[v] = event[v]
                                      /\ evidence'[v] = evidence[v] /\ next'[v] = next[v]
           /\ wpc' \in [Worker -> {"idle", "call", "complete", "execute", "settle", "commit"}]
           /\ event' \in [Worker -> Event]
           /\ evidence' \in [Worker -> FailureOutcome \cup {"accepted", "none"}]
           /\ next' \in [Worker -> Stage \cup {NoStage}]
           /\ wpc'[w] = "settle" /\ event'[w] = e /\ next'[w] = m /\ ~Calls(w)'
<1>1. /\ wpc' = [wpc EXCEPT ![w] = "settle"] /\ event' = [event EXCEPT ![w] = e]
      /\ evidence' = [evidence EXCEPT ![w] = "none"] /\ next' = [next EXCEPT ![w] = m]
  BY DEF Resolve, Goto
<1>2. wpc'[w] = "settle" /\ event'[w] = e /\ next'[w] = m
  BY <1>1 DEF IInv, TypeOK
<1>3. ~Calls(w)'
  BY <1>2 DEF Calls
<1>4. \A v \in Worker \ {w} : /\ wpc'[v] = wpc[v] /\ event'[v] = event[v]
                              /\ evidence'[v] = evidence[v] /\ next'[v] = next[v]
  BY <1>1 DEF IInv, TypeOK
<1>5. /\ wpc' \in [Worker -> {"idle", "call", "complete", "execute", "settle", "commit"}]
      /\ event' \in [Worker -> Event]
      /\ evidence' \in [Worker -> FailureOutcome \cup {"accepted", "none"}]
      /\ next' \in [Worker -> Stage \cup {NoStage}]
  BY <1>1, QueuedFacts DEF IInv, TypeOK
<1>. QED  BY <1>2, <1>3, <1>4, <1>5

LEMMA LeavingStep ==
    ASSUME IInv, NEW w \in Worker, Leave(w),
           UNCHANGED <<stage_vars, replay_vars, history_vars, authority, queued, dispatch_vars>>,
           committed' = committed \/ (wpc[w] = "commit" /\ committed' = committed \cup {event[w]})
    PROVE  IInv'
<1>1. committed' \subseteq queued /\ \A e \in committed' : Settled(e)
  BY DEF IInv, TypeOK, WorkerInv, CommittedInv
<1>. QED  BY <1>1, Leaving, WorkerOnly

\* What is resolved is over, and is carried on if it succeeded.
LEMMA ResolvingStep ==
    ASSUME IInv, NEW w \in Worker, NEW e \in queued, NEW m \in Stage \cup {NoStage},
           Resolve(w, e, m), Over(e), Succeeded(e) => m = Following(e.stage),
           m # NoStage => m = Following(e.stage) /\ Passed(e.stage),
           UNCHANGED <<stage_vars, replay_vars, history_vars, authority, topic_vars, dispatch_vars>>
    PROVE  IInv'
<1>1. UNCHANGED <<decision, request, replay, queued, committed>>
  BY DEF stage_vars, replay_vars, topic_vars
<1>2. wpc'[w] = "settle" /\ event'[w] = e /\ next'[w] = m
  BY Resolving
<1>3. Over(e)' /\ (Succeeded(e)' <=> Succeeded(e)) /\ (Passed(e.stage) => Passed(e.stage)')
  BY <1>1 DEF Over, Succeeded, Passed, Requested, StageOf
<1>4. e.stage \in Stage
  BY QueuedFacts
<1>5. Ready(w)'
  BY <1>2, <1>3, <1>4, FollowingFacts DEF Ready, Over, Succeeded, Passed, Following
<1>6. WorkerInv(w)'
  BY <1>1, <1>2, <1>5 DEF WorkerInv, Calls
<1>7. committed' \subseteq queued /\ \A x \in committed' : Settled(x)
  BY <1>1 DEF IInv, TypeOK, CommittedInv
<1>. QED  BY <1>1, <1>6, <1>7, Resolving, WorkerOnly

LEMMA ReplaySucceededStep ==
    ASSUME IInv, NEW w \in Worker, NEW e \in queued, ReplaySucceeded(w, e) PROVE IInv'
<1>1. e.request \in Requested /\ e.stage = StageOf(e.request) /\ e.stage \in Stage
      /\ replay[e.request].status = "SUCCESS"
  BY QueuedFacts DEF ReplaySucceeded, Replayed
<1>2. replay[e.request].nextStage = Following(e.stage)
  BY <1>1 DEF IInv, RowInv, Requested
<1>3. Over(e) /\ Passed(e.stage)
  BY <1>1 DEF ReplaySucceeded, Replayed, Over, Passed, Decided
<1>4. replay[e.request].nextStage \in Stage \cup {NoStage}
  BY <1>1, <1>2, FollowingFacts
<1>. QED  BY <1>2, <1>3, <1>4, ResolvingStep DEF ReplaySucceeded

LEMMA ReplayTerminalStep ==
    ASSUME IInv, NEW w \in Worker, NEW e \in queued, ReplayTerminal(w, e) PROVE IInv'
<1>1. Over(e) /\ ~Succeeded(e)
  BY DEF ReplayTerminal, Replayed, Over, Succeeded, Decided
<1>. QED  BY <1>1, ResolvingStep DEF ReplayTerminal

LEMMA RecoverStep ==
    ASSUME IInv, NEW w \in Worker, NEW e \in queued, Recover(w, e) PROVE IInv'
<1>1. ASSUME NEW r \in ReplayOf(e.stage), replay[r].status = "SUCCESS",
             Resolve(w, e, replay[r].nextStage)
      PROVE  IInv'
  <2>1. r \in Requested /\ StageOf(r) = e.stage /\ decision[e.stage] = "failed" /\ r \in Request
    BY <1>1 DEF ReplayOf, Requested
  <2>2. replay[r].nextStage = Following(e.stage) /\ Passed(e.stage)
    BY <1>1, <2>1 DEF IInv, RowInv, Passed
  <2>3. Over(e) /\ ~Succeeded(e)
    BY <2>1 DEF Recover, Plain, Over, Succeeded
  <2>4. replay[r].nextStage \in Stage \cup {NoStage}
    BY <2>2, QueuedFacts, FollowingFacts
  <2>. QED  BY <1>1, <2>2, <2>3, <2>4, ResolvingStep DEF Recover
<1>2. CASE Continue(w, e, "execute")
  <2>1. wpc' = [wpc EXCEPT ![w] = "execute"] /\ event' = [event EXCEPT ![w] = e]
        /\ UNCHANGED <<evidence, next>>
    BY <1>2 DEF Continue, Goto
  <2>2. wpc'[w] = "execute" /\ event'[w] = e /\ e.request = NoRequest /\ e \in Event
    BY <2>1, QueuedFacts DEF IInv, TypeOK, Recover, Plain
  <2>3. UNCHANGED <<queued, committed>>
    BY DEF Recover, topic_vars
  <2>4. ~Calls(w)' /\ WorkerInv(w)'
    BY <2>2, <2>3 DEF Calls, WorkerInv
  <2>5. \A v \in Worker \ {w} : /\ wpc'[v] = wpc[v] /\ event'[v] = event[v]
                                /\ evidence'[v] = evidence[v] /\ next'[v] = next[v]
    BY <2>1 DEF IInv, TypeOK
  <2>6. /\ wpc' \in [Worker -> {"idle", "call", "complete", "execute", "settle", "commit"}]
        /\ event' \in [Worker -> Event]
        /\ evidence' \in [Worker -> FailureOutcome \cup {"accepted", "none"}]
        /\ next' \in [Worker -> Stage \cup {NoStage}]
    BY <2>1, <2>2 DEF IInv, TypeOK
  <2>7. committed' \subseteq queued /\ \A x \in committed' : Settled(x)
    BY <2>3 DEF IInv, TypeOK, CommittedInv
  <2>. QED  BY <2>3, <2>4, <2>5, <2>6, <2>7, WorkerOnly DEF Recover
<1>. QED  BY <1>1, <1>2 DEF Recover

LEMMA ExecuteStageStep == ASSUME IInv, NEW w \in Worker, ExecuteStage(w) PROVE IInv'
<1>1. event[w] \in queued /\ event[w].request = NoRequest /\ event[w].stage \in Stage
  BY QueuedFacts DEF ExecuteStage, IInv, WorkerInv
<1>2. CASE decision[event[w].stage] = "succeeded" /\ Resolve(w, event[w], Following(event[w].stage))
  <2>1. Over(event[w]) /\ Passed(event[w].stage)
    BY <1>1, <1>2 DEF Over, Passed
  <2>2. Following(event[w].stage) \in Stage \cup {NoStage}
    BY <1>1, FollowingFacts
  <2>. QED  BY <1>1, <1>2, <2>1, <2>2, ResolvingStep DEF ExecuteStage
<1>3. CASE decision[event[w].stage] = "failed" /\ Resolve(w, event[w], NoStage)
  <2>1. Over(event[w]) /\ ~Succeeded(event[w])
    BY <1>1, <1>3 DEF Over, Succeeded
  <2>. QED  BY <1>1, <1>3, <2>1, ResolvingStep DEF ExecuteStage
<1>4. CASE Leave(w)
  BY <1>4, LeavingStep DEF ExecuteStage, topic_vars
<1>. QED  BY <1>2, <1>3, <1>4 DEF ExecuteStage

LEMMA LeaveSteps ==
    ASSUME IInv, NEW w \in Worker, CompletionRefused(w) \/ Commit(w) \/ CrashWorker(w)
    PROVE  IInv'
BY LeavingStep DEF CompletionRefused, Commit, CrashWorker, topic_vars

---------------------------------------------------------------------------
(***************************************************************************)
(* Steps around the workers: stages, operators and dispatchers.            *)
(***************************************************************************)

\* Nothing that a worker knows is undone by others.
LEMMA WorkersKept ==
    ASSUME IInv, Later, UNCHANGED <<committed, worker_vars, history_vars>>,
           \A r \in Requested : replay[r].status = "RUNNING" =>
               replay'[r].status \in {"RUNNING", "UNKNOWN"}
    PROVE  CommittedInv' /\ (\A w \in Worker : WorkerInv(w)') /\ WorkersApart'
<1>1. UNCHANGED <<committed, wpc, event, evidence, next, resent, redelivered>>
  BY DEF worker_vars, history_vars
<1>2. CommittedInv'
  BY <1>1, SettledKept DEF CommittedInv, IInv, TypeOK
<1>3. ASSUME NEW w \in Worker PROVE WorkerInv(w)'
  <2>1. ASSUME Calls(w) PROVE replay'[Mine(w)].status \in {"RUNNING", "UNKNOWN"}
    <3>1. replay[Mine(w)].status \in {"RUNNING", "UNKNOWN"} /\ Mine(w) \in Requested
      BY <2>1 DEF IInv, WorkerInv, TypeOK, Calls
    <3>. QED  BY <3>1 DEF Later, Decided
  <2>. QED  BY <1>1, <2>1, OtherWorker
<1>4. WorkersApart'
  BY <1>1 DEF IInv, WorkersApart, Calls, Mine
<1>. QED  BY <1>2, <1>3, <1>4

\* A stage that was refused makes no more steps.
LEMMA ExecuteOrdinaryStep == ASSUME IInv, NEW n \in Stage, ExecuteOrdinary(n) PROVE IInv'
<1>1. /\ UNCHANGED <<request, replay, attempt, failure, resent, redelivered, authority, queued,
                     committed, dpc, row, wpc, event, evidence, next>>
      /\ UNCHANGED <<replay_vars, history_vars, worker_vars>>
      /\ Contract!Send(n) \/ Contract!Succeed(n) \/ Contract!Fail(n)
  BY DEF ExecuteOrdinary, replay_vars, history_vars, topic_vars, dispatch_vars, worker_vars
<1>2. Requested' = Requested /\ \A r : StageOf(r)' = StageOf(r)
  BY <1>1 DEF Requested, StageOf
<1>3. StageTyped' /\ StageInv'
      /\ \A m \in Stage : decision[m] # "open" => decision'[m] = decision[m]
      /\ \A i \in Stage : record[i] = Refused => record'[i] = Refused
  <2>1. CASE Contract!Send(n)
    BY <2>1 DEF Contract!Send, IInv, StageTyped, StageInv, Refused
  <2>2. CASE Contract!Succeed(n)
    BY <2>2 DEF Contract!Succeed, IInv, StageTyped, StageInv, Refused
  <2>3. CASE Contract!Fail(n)
    BY <2>3 DEF Contract!Fail, Contract!Record, IInv, StageTyped, StageInv, Refused, FailureOutcome
  <2>. QED  BY <1>1, <2>1, <2>2, <2>3
<1>4. Later
  BY <1>1, <1>3 DEF Later
<1>5. TypeOK' /\ RowsAgree' /\ OneReplay' /\ DispatchInv'
  BY <1>1, <1>2 DEF IInv, TypeOK, RowsAgree, OneReplay, DispatchInv, EventOf, Mine
<1>6. \A r \in Request : RowInv(r)'
  BY <1>1, <1>2, <1>3, RequestedStage DEF IInv, RowInv
<1>7. \A m \in Stage : ResentInv(m)'
  BY <1>1, <1>2 DEF IInv, ResentInv
<1>8. QueueInv'
  BY <1>1, <1>4, OldEvent DEF QueueInv
<1>9. CommittedInv' /\ (\A w \in Worker : WorkerInv(w)') /\ WorkersApart'
  BY <1>1, <1>4, WorkersKept
<1>. QED  BY <1>3, <1>5, <1>6, <1>7, <1>8, <1>9 DEF IInv

\* The authority of a reserved replay runs out, is withdrawn or restored.
Turns(r) == Expire(r) \/ Reconsider(r)

LEMMA AuthorityTurns ==
    ASSUME IInv, NEW r \in Request, Turns(r)
    PROVE  /\ replay[r].status = "RESERVED"
           /\ \E a \in {"valid", "withdrawn", "expired"} :
                authority' = [authority EXCEPT ![r] = a]
           /\ UNCHANGED <<stage_vars, replay_vars, history_vars, topic_vars, dispatch_vars,
                          worker_vars>>
BY DEF Turns, Expire, Reconsider

LEMMA AuthorityStep == ASSUME IInv, NEW r \in Request, Turns(r) PROVE IInv'
<1>1. /\ UNCHANGED <<queued, committed, dpc, row, wpc, event, evidence, next, request, replay>>
      /\ UNCHANGED <<stage_vars, replay_vars, history_vars, worker_vars>>
  BY AuthorityTurns DEF replay_vars, topic_vars, dispatch_vars, worker_vars
<1>2. Requested' = Requested /\ \A q : StageOf(q)' = StageOf(q)
  BY <1>1, SameRows
<1>3. r \in Requested
  <2>1. (r \in Requested) = (replay[r].status # "none")
    BY DEF IInv, TypeOK
  <2>2. replay[r].status = "RESERVED"
    BY AuthorityTurns
  <2>. QED  BY <2>1, <2>2
<1>4. Later
  BY <1>1 DEF Later, stage_vars
<1>5. TypeOK'
  BY <1>1, <1>2, <1>3, AuthorityTurns DEF IInv, TypeOK, Mine, replay_vars, history_vars
<1>6. QueueInv' /\ DispatchInv'
  BY <1>1, <1>2, <1>4, OldEvent DEF QueueInv, DispatchInv, EventOf, IInv
<1>7. CommittedInv' /\ (\A w \in Worker : WorkerInv(w)') /\ WorkersApart'
  BY <1>1, <1>4, WorkersKept
<1>. QED  BY <1>1, <1>5, <1>6, <1>7, SameRows DEF IInv

\* The request of an eligible stage whose case nobody has consumed.
LEMMA RequestReplayStep ==
    ASSUME IInv, NEW r \in Request, NEW a \in Approval, RequestReplay(r, a) PROVE IInv'
<1>1. /\ UNCHANGED <<decision, record, sent, delivered, attempt, failure, resent, redelivered,
                     authority, queued, committed, dpc, row, wpc, event, evidence, next>>
      /\ UNCHANGED <<stage_vars, history_vars, worker_vars>>
      /\ request' = [request EXCEPT ![r] = a]
      /\ replay' = [replay EXCEPT ![r].status = "RESERVED"]
      /\ r \notin Requested /\ Eligible(Approved[a])
      /\ \A q \in Requested : StageOf(q) # Approved[a]
  BY DEF RequestReplay, Unconsumed, stage_vars, history_vars, topic_vars, dispatch_vars, worker_vars
<1>2. replay[r] = NoReplay /\ attempt[r] = "none" /\ failure[r] = "none"
  BY <1>1 DEF IInv, RowInv
<1>3. /\ request'[r] = a /\ \A q \in Request \ {r} : request'[q] = request[q]
      /\ request' \in [Request -> Approval \cup {NoApproval}]
      /\ replay' \in [Request -> [status: ReplayStatus, claimToken: Worker \cup {NoToken},
                                  nextStage: Stage \cup {NoStage},
                                  dispatchToken: Dispatcher \cup {NoToken}, publishedAt: BOOLEAN]]
      /\ replay'[r].status = "RESERVED"
      /\ \A q \in Request \ {r} : replay'[q] = replay[q]
  <2>1. /\ request'[r] = a /\ \A q \in Request \ {r} : request'[q] = request[q]
        /\ request' \in [Request -> Approval \cup {NoApproval}]
    BY <1>1 DEF IInv, TypeOK
  <2>2. replay' = [replay EXCEPT ![r].status = "RESERVED"] /\ "RESERVED" \in ReplayStatus
    BY <1>1 DEF ReplayStatus
  <2>3. replay' \in [Request -> [status: ReplayStatus, claimToken: Worker \cup {NoToken},
                                 nextStage: Stage \cup {NoStage},
                                 dispatchToken: Dispatcher \cup {NoToken}, publishedAt: BOOLEAN]]
    <3>1. replay \in [Request -> [status: ReplayStatus, claimToken: Worker \cup {NoToken},
                                  nextStage: Stage \cup {NoStage},
                                  dispatchToken: Dispatcher \cup {NoToken}, publishedAt: BOOLEAN]]
      BY DEF IInv, TypeOK
    <3>. QED  BY <2>2, <3>1
  <2>4. replay'[r].status = "RESERVED"
    BY <2>2 DEF IInv, TypeOK
  <2>5. \A q \in Request \ {r} : replay'[q] = replay[q]
    BY <2>2 DEF IInv, TypeOK
  <2>. QED  BY <2>1, <2>3, <2>4, <2>5
<1>4. Requested' = Requested \cup {r} /\ StageOf(r)' = Approved[a]
      /\ \A q \in Requested : StageOf(q)' = StageOf(q) /\ q \in Request
  BY <1>1, <1>3, ConstantFacts DEF Requested, StageOf
<1>5. Later
  BY <1>1, <1>3, <1>4 DEF Later
<1>6. TypeOK'
  <2>1. \A q \in Request : (q \in Requested') = (replay'[q].status # "none")
    BY <1>3, <1>4 DEF IInv, TypeOK
  <2>. QED  BY <1>1, <1>3, <1>4, <2>1 DEF IInv, TypeOK, Mine
<1>7. StageTyped' /\ StageInv'
  BY <1>1 DEF IInv, StageTyped, StageInv
<1>8. replay'[r].status = "RESERVED"
  BY <1>3
<1>9. RowsAgree'
  BY <1>1, <1>2, <1>3, <1>4, <1>8 DEF IInv, RowsAgree
<1>10. ASSUME NEW q \in Request PROVE RowInv(q)'
  <2>1. CASE q = r
    BY <1>1, <1>4, <1>8, <2>1 DEF RowInv, Eligible, Refused
  <2>2. CASE q # r
    BY <1>1, <1>3, <1>4, <2>2 DEF IInv, RowInv
  <2>. QED  BY <2>1, <2>2
<1>11. OneReplay'
  BY <1>1, <1>4 DEF IInv, OneReplay
<1>12. ASSUME NEW n \in Stage PROVE ResentInv(n)'
  BY <1>1, <1>3, <1>4 DEF IInv, ResentInv
<1>13. QueueInv' /\ DispatchInv'
  BY <1>1, <1>4, <1>5, OldEvent DEF QueueInv, DispatchInv, EventOf, IInv, TypeOK
<1>14. CommittedInv' /\ (\A w \in Worker : WorkerInv(w)') /\ WorkersApart'
  BY <1>1, <1>3, <1>4, <1>5, WorkersKept
<1>. QED  BY <1>6, <1>7, <1>9, <1>10, <1>11, <1>12, <1>13, <1>14 DEF IInv

\* A dispatcher touches its own fields of the row, and queues events of requests.
LEMMA DispatchFrame ==
    ASSUME IInv,
           UNCHANGED <<stage_vars, request, attempt, failure, history_vars, authority, committed,
                       worker_vars>>,
           \A r \in Request :
               /\ replay'[r].status = replay[r].status
               /\ replay'[r].nextStage = replay[r].nextStage
               /\ r \notin Requested => replay'[r] = replay[r],
           replay' \in [Request -> [status: ReplayStatus, claimToken: Worker \cup {NoToken},
                                    nextStage: Stage \cup {NoStage},
                                    dispatchToken: Dispatcher \cup {NoToken},
                                    publishedAt: BOOLEAN]],
           queued' = queued \/ \E r \in Requested : queued' = queued \cup {EventOf(r)},
           dpc' \in [Dispatcher -> {"idle", "send", "acked", "refused"}],
           row' \in [Dispatcher -> Request \cup {NoRequest}],
           \A d \in Dispatcher : /\ dpc'[d] # "idle" => row'[d] \in Requested
                                 /\ dpc'[d] = "acked" => EventOf(row'[d]) \in queued'
    PROVE  IInv'
<1>1. UNCHANGED <<decision, record, sent, delivered, request, attempt, failure, resent,
                  redelivered, authority, committed, wpc, event, evidence, next>>
  BY DEF stage_vars, history_vars, worker_vars
<1>2. Requested' = Requested /\ \A r : StageOf(r)' = StageOf(r) /\ EventOf(r)' = EventOf(r)
  BY <1>1 DEF Requested, StageOf, EventOf
<1>3. \A r \in Requested : r \in Request /\ replay'[r].status = replay[r].status
  BY DEF Requested
<1>4. Later
  BY <1>1, <1>3 DEF Later
<1>5. \A r \in Requested : EventOf(r) \in Event /\ EventOf(r).request = r /\ r # NoRequest
                           /\ EventOf(r).stage = StageOf(r)
  BY RequestedStage, ConstantFacts DEF IInv, EventOf, Event
<1>6. TypeOK'
  BY <1>1, <1>2, <1>5 DEF IInv, TypeOK, Mine
<1>7. StageTyped' /\ StageInv'
  BY <1>1 DEF IInv, StageTyped, StageInv
<1>8. RowsAgree' /\ OneReplay'
  BY <1>1, <1>2, <1>3 DEF IInv, RowsAgree, OneReplay
<1>9. \A r \in Request : RowInv(r)'
  BY <1>1, <1>2 DEF IInv, RowInv
<1>10. \A n \in Stage : ResentInv(n)'
  BY <1>1, <1>2, <1>3 DEF IInv, ResentInv
<1>11. QueueInv'
  BY <1>2, <1>4, <1>5, OldEvent DEF QueueInv
<1>12. DispatchInv'
  BY <1>2 DEF DispatchInv, EventOf, StageOf
<1>13. CommittedInv' /\ (\A w \in Worker : WorkerInv(w)') /\ WorkersApart'
  BY <1>1, <1>3, <1>4, WorkersKept
<1>. QED  BY <1>6, <1>7, <1>8, <1>9, <1>10, <1>11, <1>12, <1>13 DEF IInv

LEMMA DispatchOneStep == ASSUME IInv, NEW d \in Dispatcher, DispatchOne(d) PROVE IInv'
<1>1. PICK r \in Requested : /\ replay' = [replay EXCEPT ![r].dispatchToken = d]
                             /\ row' = [row EXCEPT ![d] = r]
  BY DEF DispatchOne
<1>2. r \in Request /\ dpc' = [dpc EXCEPT ![d] = "send"] /\ UNCHANGED queued
  BY DEF Requested, DispatchOne, topic_vars
<1>3. /\ \A q \in Request :
            /\ replay'[q].status = replay[q].status
            /\ replay'[q].nextStage = replay[q].nextStage
            /\ q \notin Requested => replay'[q] = replay[q]
      /\ replay' \in [Request -> [status: ReplayStatus, claimToken: Worker \cup {NoToken},
                                  nextStage: Stage \cup {NoStage},
                                  dispatchToken: Dispatcher \cup {NoToken},
                                  publishedAt: BOOLEAN]]
  <2>1. replay \in [Request -> [status: ReplayStatus, claimToken: Worker \cup {NoToken},
                                nextStage: Stage \cup {NoStage},
                                dispatchToken: Dispatcher \cup {NoToken}, publishedAt: BOOLEAN]]
    BY DEF IInv, TypeOK
  <2>. QED  BY <1>1, <1>2, <2>1
<1>4. /\ dpc' \in [Dispatcher -> {"idle", "send", "acked", "refused"}]
      /\ row' \in [Dispatcher -> Request \cup {NoRequest}]
      /\ \A x \in Dispatcher : /\ dpc'[x] # "idle" => row'[x] \in Requested
                               /\ dpc'[x] = "acked" => EventOf(row'[x]) \in queued'
  BY <1>1, <1>2 DEF IInv, TypeOK, DispatchInv
<1>. QED  BY <1>2, <1>3, <1>4, DispatchFrame DEF DispatchOne, topic_vars

LEMMA SendStep ==
    ASSUME IInv, NEW d \in Dispatcher, DispatchAcked(d) \/ DispatchFailed(d) PROVE IInv'
<1>1. /\ row[d] \in Requested /\ UNCHANGED <<replay, row>>
      /\ queued' \in {queued, queued \cup {EventOf(row[d])}}
      /\ \/ dpc' = [dpc EXCEPT ![d] = "acked"] /\ queued' = queued \cup {EventOf(row[d])}
         \/ dpc' = [dpc EXCEPT ![d] = "refused"]
  BY DEF DispatchAcked, DispatchFailed, replay_vars, IInv, TypeOK
<1>2. /\ dpc' \in [Dispatcher -> {"idle", "send", "acked", "refused"}]
      /\ \A x \in Dispatcher : /\ dpc'[x] # "idle" => row'[x] \in Requested
                               /\ dpc'[x] = "acked" => EventOf(row'[x]) \in queued'
  <2>1. /\ dpc \in [Dispatcher -> {"idle", "send", "acked", "refused"}]
        /\ \A x \in Dispatcher : /\ dpc[x] # "idle" => row[x] \in Requested
                                 /\ dpc[x] = "acked" => EventOf(row[x]) \in queued
    BY DEF IInv, TypeOK, DispatchInv
  <2>. QED  BY <1>1, <2>1
<1>3. replay' \in [Request -> [status: ReplayStatus, claimToken: Worker \cup {NoToken},
                               nextStage: Stage \cup {NoStage},
                               dispatchToken: Dispatcher \cup {NoToken}, publishedAt: BOOLEAN]]
      /\ row' \in [Dispatcher -> Request \cup {NoRequest}]
  BY <1>1 DEF IInv, TypeOK
<1>4. UNCHANGED <<stage_vars, request, attempt, failure, history_vars, authority, committed,
                  worker_vars>>
  BY DEF DispatchAcked, DispatchFailed, replay_vars
<1>5. queued' = queued \/ \E r \in Requested : queued' = queued \cup {EventOf(r)}
  BY <1>1
<1>. QED  BY <1>1, <1>2, <1>3, <1>4, <1>5, DispatchFrame

LEMMA SettleStep ==
    ASSUME IInv, NEW d \in Dispatcher, SettleDispatch(d) \/ CrashDispatcher(d) PROVE IInv'
<1>1. /\ dpc' = [dpc EXCEPT ![d] = "idle"] /\ row' = [row EXCEPT ![d] = NoRequest]
      /\ UNCHANGED queued
      /\ UNCHANGED <<stage_vars, request, attempt, failure, history_vars, authority, committed,
                     worker_vars>>
  BY DEF SettleDispatch, CrashDispatcher, EndDispatch, replay_vars, topic_vars
<1>2. /\ dpc' \in [Dispatcher -> {"idle", "send", "acked", "refused"}]
      /\ row' \in [Dispatcher -> Request \cup {NoRequest}]
      /\ \A x \in Dispatcher : /\ dpc'[x] # "idle" => row'[x] \in Requested
                               /\ dpc'[x] = "acked" => EventOf(row'[x]) \in queued'
  BY <1>1 DEF IInv, TypeOK, DispatchInv
<1>3. /\ \A q \in Request :
            /\ replay'[q].status = replay[q].status
            /\ replay'[q].nextStage = replay[q].nextStage
            /\ q \notin Requested => replay'[q] = replay[q]
      /\ replay' \in [Request -> [status: ReplayStatus, claimToken: Worker \cup {NoToken},
                                  nextStage: Stage \cup {NoStage},
                                  dispatchToken: Dispatcher \cup {NoToken},
                                  publishedAt: BOOLEAN]]
  <2>1. CASE replay' = replay
    BY <2>1 DEF IInv, TypeOK
  <2>2. CASE SettleDispatch(d) /\ replay' # replay
    <3>1. row[d] \in Requested /\ row[d] \in Request
      BY <2>2 DEF SettleDispatch, IInv, TypeOK, Requested
    <3>2. PICK b \in BOOLEAN :
            replay' = [replay EXCEPT ![row[d]].dispatchToken = NoToken, ![row[d]].publishedAt = b]
      <4>1. (replay[row[d]].publishedAt \/ dpc[d] = "acked") \in BOOLEAN
        OBVIOUS
      <4>. QED  BY <2>2, <4>1 DEF SettleDispatch
    <3>3. replay \in [Request -> [status: ReplayStatus, claimToken: Worker \cup {NoToken},
                                  nextStage: Stage \cup {NoStage},
                                  dispatchToken: Dispatcher \cup {NoToken},
                                  publishedAt: BOOLEAN]]
      BY DEF IInv, TypeOK
    <3>4. \A q \in Request : q # row[d] => replay'[q] = replay[q]
      BY <3>2, <3>3
    <3>5. /\ replay'[row[d]].status = replay[row[d]].status
          /\ replay'[row[d]].nextStage = replay[row[d]].nextStage
      BY <3>1, <3>2, <3>3
    <3>6. replay' \in [Request -> [status: ReplayStatus, claimToken: Worker \cup {NoToken},
                                   nextStage: Stage \cup {NoStage},
                                   dispatchToken: Dispatcher \cup {NoToken},
                                   publishedAt: BOOLEAN]]
      BY <3>1, <3>2, <3>3
    <3>. QED  BY <3>1, <3>4, <3>5, <3>6
  <2>. QED  BY <2>1, <2>2 DEF SettleDispatch, CrashDispatcher, replay_vars
<1>. QED  BY <1>1, <1>2, <1>3, DispatchFrame

---------------------------------------------------------------------------
(***************************************************************************)
(* Claims, calls and completions.                                          *)
(***************************************************************************)
Row == [status: ReplayStatus, claimToken: Worker \cup {NoToken}, nextStage: Stage \cup {NoStage},
        dispatchToken: Dispatcher \cup {NoToken}, publishedAt: BOOLEAN]

\* The row, attempt and failure of one request move on, and a worker with them.
LEMMA RowFrame ==
    ASSUME IInv, NEW r \in Requested, NEW w \in Worker,
           UNCHANGED <<stage_vars, request, history_vars, authority, topic_vars, dispatch_vars>>,
           replay[r].status \notin Decided,
           replay' \in [Request -> Row], replay'[r].status \notin {"none", "RESERVED"},
           attempt' \in [Request -> {"none", "STARTED", "ACCEPTED", "REJECTED", "NOT_ATTEMPTED", "UNKNOWN"}],
           failure' \in [Request -> FailureOutcome \cup {"none"}],
           \A q \in Request \ {r} :
               replay'[q] = replay[q] /\ attempt'[q] = attempt[q] /\ failure'[q] = failure[q],
           replay'[r].status \in {"RUNNING", "SUCCESS"} =>
               replay'[r].nextStage = Following(StageOf(r)),
           RowsAgree',
           \A v \in Worker \ {w} : /\ wpc'[v] = wpc[v] /\ event'[v] = event[v]
                                   /\ evidence'[v] = evidence[v] /\ next'[v] = next[v]
                                   /\ Calls(v) /\ Mine(v) = r => replay'[r].status = "UNKNOWN",
           wpc' \in [Worker -> {"idle", "call", "complete", "execute", "settle", "commit"}],
           event' \in [Worker -> Event],
           evidence' \in [Worker -> FailureOutcome \cup {"accepted", "none"}],
           next' \in [Worker -> Stage \cup {NoStage}],
           Calls(w)' => Mine(w)' = r /\ \A v \in Worker \ {w} : Calls(v) => Mine(v) # r,
           Later => WorkerInv(w)'
    PROVE  IInv'
<1>1. UNCHANGED <<decision, record, sent, delivered, request, resent, redelivered, authority,
                  queued, committed, dpc, row>>
  BY DEF stage_vars, history_vars, topic_vars, dispatch_vars
<1>2. Requested' = Requested /\ \A q : StageOf(q)' = StageOf(q) /\ EventOf(q)' = EventOf(q)
  BY <1>1 DEF Requested, StageOf, EventOf
<1>3. Later
  BY <1>1 DEF Later, Requested
<1>4. TypeOK'
  <2>1. \A q \in Request : (q \in Requested') = (replay'[q].status # "none")
    BY <1>2 DEF IInv, TypeOK
  <2>2. \A v \in Worker : wpc'[v] \in {"call", "complete"} => Mine(v)' \in Requested
    BY DEF IInv, TypeOK, Calls, Mine
  <2>. QED  BY <1>1, <1>2, <2>1, <2>2 DEF IInv, TypeOK, Row
<1>5. StageTyped' /\ StageInv' /\ OneReplay'
  BY <1>1, <1>2 DEF IInv, StageTyped, StageInv, OneReplay
<1>6. ASSUME NEW q \in Request PROVE RowInv(q)'
  <2>1. CASE q = r
    BY <1>1, <1>2, <2>1 DEF IInv, RowInv
  <2>2. CASE q # r
    BY <1>1, <1>2, <2>2 DEF IInv, RowInv
  <2>. QED  BY <2>1, <2>2
<1>7. ASSUME NEW n \in Stage PROVE ResentInv(n)'
  BY <1>1, <1>2 DEF IInv, ResentInv, Requested
<1>8. QueueInv' /\ DispatchInv'
  BY <1>1, <1>2, <1>3, OldEvent DEF IInv, QueueInv, DispatchInv
<1>9. CommittedInv'
  BY <1>1, <1>3, SettledKept DEF CommittedInv, IInv, TypeOK
<1>10. ASSUME NEW v \in Worker \ {w} PROVE WorkerInv(v)'
  <2>1. ASSUME Calls(v) PROVE replay'[Mine(v)].status \in {"RUNNING", "UNKNOWN"}
    <3>1. replay[Mine(v)].status \in {"RUNNING", "UNKNOWN"} /\ Mine(v) \in Request
      BY <2>1 DEF IInv, WorkerInv, TypeOK, Calls, Requested
    <3>. QED  BY <2>1, <3>1
  <2>. QED  BY <1>1, <1>3, <2>1, OtherWorker
<1>11. WorkersApart'
  BY DEF IInv, WorkersApart, Calls, Mine
<1>12. WorkerInv(w)'
  BY <1>3
<1>. QED  BY <1>4, <1>5, <1>6, <1>7, <1>8, <1>9, <1>10, <1>11, <1>12 DEF IInv

\* An outcome is put on record.
LEMMA RecordFacts ==
    ASSUME IInv, NEW r \in Requested, NEW o \in FailureOutcome \cup {"accepted"},
           RecordOutcome(r, o), UNCHANGED request,
           o = "accepted" => replay[r].status = "RUNNING",
           replay[r].status \notin Decided
    PROVE  /\ replay' \in [Request -> Row] /\ replay'[r].status = Terminal(o)
           /\ Terminal(o) \in Decided /\ (Terminal(o) = "SUCCESS" <=> o = "accepted")
           /\ replay'[r].nextStage = replay[r].nextStage
           /\ attempt' \in [Request -> {"none", "STARTED", "ACCEPTED", "REJECTED", "NOT_ATTEMPTED", "UNKNOWN"}]
           /\ failure' \in [Request -> FailureOutcome \cup {"none"}]
           /\ attempt'[r] = AttemptStatus(o)
           /\ failure'[r] = IF o = "accepted" THEN "none" ELSE o
           /\ \A q \in Request \ {r} :
                replay'[q] = replay[q] /\ attempt'[q] = attempt[q] /\ failure'[q] = failure[q]
           /\ RowsAgree'
<1>1. r \in Request /\ failure[r] = "none"
  BY DEF Requested, IInv, TypeOK, RowsAgree, Decided, ReplayStatus
<1>2. /\ Terminal(o) \in Decided /\ Terminal(o) \in ReplayStatus
      /\ Terminal(o) = "SUCCESS" <=> o = "accepted"
      /\ AttemptStatus(o) \in {"ACCEPTED", "REJECTED", "NOT_ATTEMPTED", "UNKNOWN"}
      /\ o = "accepted" => AttemptStatus(o) = "ACCEPTED"
  BY DEF Terminal, AttemptStatus, FailureOutcome, Decided, ReplayStatus
<1>3. replay \in [Request -> Row]
  BY DEF IInv, TypeOK, Row
<1>4. replay' = [replay EXCEPT ![r].status = Terminal(o), ![r].claimToken = NoToken]
  BY DEF RecordOutcome
<1>5. /\ replay' \in [Request -> Row]
      /\ replay'[r].status = Terminal(o) /\ replay'[r].nextStage = replay[r].nextStage
      /\ \A q \in Request \ {r} : replay'[q] = replay[q]
  BY <1>1, <1>2, <1>3, <1>4 DEF Row
<1>6. /\ attempt' \in [Request -> {"none", "STARTED", "ACCEPTED", "REJECTED", "NOT_ATTEMPTED", "UNKNOWN"}]
      /\ failure' \in [Request -> FailureOutcome \cup {"none"}]
      /\ attempt'[r] = AttemptStatus(o)
      /\ failure'[r] = IF o = "accepted" THEN "none" ELSE o
      /\ \A q \in Request \ {r} : attempt'[q] = attempt[q] /\ failure'[q] = failure[q]
  BY <1>1, <1>2 DEF RecordOutcome, IInv, TypeOK
<1>7. RowsAgree'
  <2>. SUFFICES ASSUME NEW q \in Requested
                PROVE  /\ replay'[q].status = "RESERVED" => attempt'[q] = "none" /\ failure'[q] = "none"
                       /\ replay'[q].status = "RUNNING" => attempt'[q] = "STARTED" /\ failure'[q] = "none"
                       /\ replay'[q].status = "SUCCESS" => attempt'[q] = "ACCEPTED" /\ failure'[q] = "none"
                       /\ replay'[q].status \in {"FAILED", "UNKNOWN"} =>
                            /\ failure'[q] # "none"
                            /\ attempt'[q] = AttemptStatus(failure'[q])
                            /\ replay'[q].status = Terminal(failure'[q])
    BY DEF RowsAgree, Requested, AttemptStatus, Terminal
  <2>1. CASE q = r
    BY <1>2, <1>5, <1>6, <2>1 DEF Decided, FailureOutcome
  <2>2. CASE q # r
    BY <1>5, <1>6, <2>2 DEF IInv, RowsAgree, Requested
  <2>. QED  BY <2>1, <2>2
<1>. QED  BY <1>2, <1>5, <1>6, <1>7

\* A replay is recorded, and w resolves its event.
LEMMA RecordingStep ==
    ASSUME IInv, NEW w \in Worker, NEW e \in queued, e.request # NoRequest,
           NEW o \in FailureOutcome \cup {"accepted"}, NEW m \in Stage \cup {NoStage},
           RecordOutcome(e.request, o), Resolve(w, e, m),
           UNCHANGED <<stage_vars, request, history_vars, authority, topic_vars, dispatch_vars>>,
           replay[e.request].status \notin Decided,
           o = "accepted" => replay[e.request].status = "RUNNING",
           m = IF o = "accepted" THEN replay[e.request].nextStage ELSE NoStage,
           \A v \in Worker \ {w} : Calls(v) /\ Mine(v) = e.request => o = "unknown"
    PROVE  IInv'
<1>. DEFINE r == e.request
<1>1. r \in Requested /\ e.stage = StageOf(r) /\ e.stage \in Stage /\ r \in Request
  BY QueuedFacts DEF Requested
<1>2. /\ replay' \in [Request -> Row] /\ replay'[r].status = Terminal(o)
      /\ Terminal(o) \in Decided /\ (Terminal(o) = "SUCCESS" <=> o = "accepted")
      /\ replay'[r].nextStage = replay[r].nextStage
      /\ attempt' \in [Request -> {"none", "STARTED", "ACCEPTED", "REJECTED", "NOT_ATTEMPTED", "UNKNOWN"}]
      /\ failure' \in [Request -> FailureOutcome \cup {"none"}]
      /\ \A q \in Request \ {r} :
           replay'[q] = replay[q] /\ attempt'[q] = attempt[q] /\ failure'[q] = failure[q]
      /\ RowsAgree'
  BY <1>1, RecordFacts
<1>3. o = "accepted" => replay[r].nextStage = Following(StageOf(r))
  BY <1>1 DEF IInv, RowInv
<1>4. UNCHANGED <<request, queued>>
  BY DEF topic_vars
<1>5. wpc'[w] = "settle" /\ event'[w] = e /\ next'[w] = m /\ ~Calls(w)'
  BY Resolving
<1>6. Over(e)' /\ (Succeeded(e)' <=> o = "accepted")
  BY <1>2 DEF Over, Succeeded
<1>7. o = "accepted" => Passed(e.stage)'
  <2>1. o = "accepted" => r \in Requested' /\ StageOf(r)' = e.stage /\ replay'[r].status = "SUCCESS"
    BY <1>1, <1>2, <1>4 DEF Requested, StageOf
  <2>. QED  BY <2>1 DEF Passed
<1>8. Ready(w)'
  BY <1>1, <1>3, <1>5, <1>6, <1>7, FollowingFacts DEF Ready, Over, Succeeded, Passed, Following
<1>9. WorkerInv(w)'
  BY <1>4, <1>5, <1>8 DEF WorkerInv, Calls
<1>10. o = "unknown" => Terminal(o) = "UNKNOWN"
  BY DEF Terminal
<1>11. replay'[r].status \in {"RUNNING", "SUCCESS"} => replay'[r].nextStage = Following(StageOf(r))
  BY <1>2, <1>3 DEF Decided
<1>12. replay'[r].status \notin {"none", "RESERVED"}
  BY <1>2 DEF Decided
<1>. HIDE DEF r
<1>13. \A v \in Worker \ {w} : Calls(v) /\ Mine(v) = r => replay'[r].status = "UNKNOWN"
  BY <1>2, <1>10 DEF r
<1>14. replay[r].status \notin Decided
  BY DEF r
<1>. QED  BY <1>1, <1>2, <1>5, <1>9, <1>11, <1>12, <1>13, <1>14, Resolving, RowFrame

\* A worker that calls holds a replay that was claimed.
LEMMA CallerFacts ==
    ASSUME IInv, NEW w \in Worker, Calls(w)
    PROVE  /\ event[w] \in queued /\ event[w].request # NoRequest
           /\ Mine(w) \in Requested /\ Mine(w) \in Request
           /\ event[w].stage = StageOf(Mine(w)) /\ event[w].stage \in Stage
           /\ replay[Mine(w)].status \in {"RUNNING", "UNKNOWN"}
<1>1. event[w] \in queued /\ event[w].request # NoRequest
      /\ replay[Mine(w)].status \in {"RUNNING", "UNKNOWN"}
  BY DEF IInv, WorkerInv, Calls
<1>. QED  BY <1>1, QueuedFacts DEF Mine, Requested

LEMMA RecordExpiredStep ==
    ASSUME IInv, NEW w \in Worker, NEW e \in queued, RecordExpired(w, e) PROVE IInv'
BY RecordingStep DEF RecordExpired, Replayed, Decided, FailureOutcome

LEMMA DenyStep == ASSUME IInv, NEW w \in Worker, NEW e \in queued, Deny(w, e) PROVE IInv'
<1>1. \A v \in Worker \ {w} : Calls(v) => Mine(v) # e.request
  BY CallerFacts DEF Deny
<1>. QED  BY <1>1, RecordingStep DEF Deny, Replayed, Decided, FailureOutcome

LEMMA CompleteReplayStep == ASSUME IInv, NEW w \in Worker, CompleteReplay(w) PROVE IInv'
<1>. DEFINE o == evidence[w]
            m == IF o = "accepted" THEN replay[Mine(w)].nextStage ELSE NoStage
<1>1. Calls(w) /\ replay[Mine(w)].status = "RUNNING"
  BY DEF CompleteReplay, Owns, Calls
<1>2. event[w] \in queued /\ event[w].request # NoRequest /\ Mine(w) \in Request
  BY <1>1, CallerFacts
<1>3. o \in FailureOutcome \cup {"accepted"}
  BY DEF CompleteReplay, IInv, WorkerInv, FailureOutcome
<1>4. m \in Stage \cup {NoStage}
  BY <1>2 DEF IInv, TypeOK
<1>5. \A v \in Worker \ {w} : Calls(v) => Mine(v) # Mine(w)
  BY <1>1 DEF IInv, WorkersApart
<1>6. RecordOutcome(Mine(w), o) /\ Resolve(w, event[w], m)
      /\ UNCHANGED <<stage_vars, request, history_vars, authority, topic_vars, dispatch_vars>>
  BY DEF CompleteReplay
<1>7. m = IF o = "accepted" THEN replay[Mine(w)].nextStage ELSE NoStage
  OBVIOUS
<1>. HIDE DEF m, o
<1>. QED  BY <1>1, <1>2, <1>3, <1>4, <1>5, <1>6, <1>7, RecordingStep DEF Mine, Decided

LEMMA ClaimReplayStep ==
    ASSUME IInv, NEW w \in Worker, NEW e \in queued, ClaimReplay(w, e) PROVE IInv'
<1>. DEFINE r == e.request
<1>1. r \in Requested /\ r \in Request /\ e.stage = StageOf(r) /\ e.stage \in Stage /\ e \in Event
      /\ replay[r].status = "RESERVED"
  BY QueuedFacts DEF ClaimReplay, Replayed, Requested
<1>2. /\ replay' = [replay EXCEPT ![r].status = "RUNNING", ![r].claimToken = w,
                                  ![r].nextStage = Following(StageOf(r))]
      /\ attempt' = [attempt EXCEPT ![r] = "STARTED"]
      /\ UNCHANGED <<stage_vars, request, failure, history_vars, authority, topic_vars, dispatch_vars>>
      /\ wpc' = [wpc EXCEPT ![w] = "call"] /\ event' = [event EXCEPT ![w] = e]
      /\ UNCHANGED <<evidence, next>>
  BY DEF ClaimReplay, Continue, Goto
<1>. HIDE DEF r
<1>3. replay \in [Request -> Row] /\ Following(StageOf(r)) \in Stage \cup {NoStage}
  BY <1>1, FollowingFacts DEF IInv, TypeOK, Row
<1>4. /\ replay' \in [Request -> Row]
      /\ replay'[r].status = "RUNNING" /\ replay'[r].nextStage = Following(StageOf(r))
      /\ \A q \in Request \ {r} : replay'[q] = replay[q]
  <2>1. replay' = [replay EXCEPT ![r].status = "RUNNING", ![r].claimToken = w,
                                 ![r].nextStage = Following(StageOf(r))]
    BY <1>2
  <2>2. "RUNNING" \in ReplayStatus
    BY DEF ReplayStatus
  <2>. QED  BY <1>1, <1>3, <2>1, <2>2 DEF Row
<1>5. /\ attempt' \in [Request -> {"none", "STARTED", "ACCEPTED", "REJECTED", "NOT_ATTEMPTED", "UNKNOWN"}]
      /\ failure' \in [Request -> FailureOutcome \cup {"none"}]
      /\ attempt'[r] = "STARTED" /\ failure'[r] = "none"
      /\ \A q \in Request \ {r} : attempt'[q] = attempt[q] /\ failure'[q] = failure[q]
  BY <1>1, <1>2 DEF IInv, TypeOK, RowsAgree
<1>6. RowsAgree'
  BY <1>1, <1>2, <1>4, <1>5 DEF IInv, RowsAgree, Requested, AttemptStatus, Terminal
<1>7. /\ wpc'[w] = "call" /\ event'[w] = e
      /\ wpc' \in [Worker -> {"idle", "call", "complete", "execute", "settle", "commit"}]
      /\ event' \in [Worker -> Event]
      /\ evidence' \in [Worker -> FailureOutcome \cup {"accepted", "none"}]
      /\ next' \in [Worker -> Stage \cup {NoStage}]
      /\ \A v \in Worker \ {w} : /\ wpc'[v] = wpc[v] /\ event'[v] = event[v]
                                 /\ evidence'[v] = evidence[v] /\ next'[v] = next[v]
  BY <1>1, <1>2 DEF IInv, TypeOK
<1>8. \A v \in Worker : Calls(v) => Mine(v) # r
  BY <1>1, CallerFacts
<1>9. resent'[e.stage] = 0
  <2>1. resent[e.stage] = 0
    BY <1>1 DEF IInv, ResentInv, OneReplay
  <2>. QED  BY <1>2, <2>1 DEF history_vars
<1>10. WorkerInv(w)'
  <2>1. e \in queued' /\ e.request # NoRequest
    BY <1>2 DEF topic_vars, ClaimReplay, Replayed
  <2>. QED  BY <1>4, <1>7, <1>9, <2>1 DEF WorkerInv, Calls, Mine, r
<1>11. Mine(w)' = r
  BY <1>7 DEF Mine, r
<1>. QED  BY <1>1, <1>2, <1>4, <1>5, <1>6, <1>7, <1>8, <1>10, <1>11, RowFrame DEF Decided

\* What the call of the provider can tell.
LEMMA ReplyFacts ==
    ASSUME NEW reply \in ReplayReply, NEW sends \in (IF reply = Deadline THEN 0..1 ELSE {1}),
           NEW d \in {x \in MayBeDelivered(reply) : sends = 1 \/ ~x}
    PROVE  /\ sends \in 0..1 /\ d \in BOOLEAN /\ (sends = 0 => ~d)
           /\ ReplayOutcome(reply) \in {"accepted", "rejected", "unknown"}
           /\ ReplayOutcome(reply) = "accepted" => d
           /\ ReplayOutcome(reply) = "rejected" => ~d
<1>1. reply = Deadline \/ (reply \in TelegramReply /\ reply \notin ResolutionReply)
  BY DEF ReplayReply
<1>2. sends \in 0..1 /\ d \in BOOLEAN /\ (sends = 0 => ~d)
  BY DEF MayBeDelivered
<1>3. CASE reply = Deadline
  BY <1>2, <1>3 DEF ReplayOutcome
<1>4. CASE reply # Deadline
  <2>1. /\ ReplayOutcome(reply) = TelegramOutcome(reply)
        /\ reply \in {"transport_error", "http_4xx", "http_other", "body_invalid",
                      "body_error_4xx", "body_error_other", "no_receipt", "receipt"}
    BY <1>1, <1>4 DEF ReplayOutcome, TelegramReply
  <2>2. TelegramOutcome(reply) = CASE reply \in {"http_4xx", "body_error_4xx"} -> "rejected"
                                   [] reply = "receipt" -> "accepted"
                                   [] OTHER -> "unknown"
    BY <1>1, <1>4 DEF TelegramOutcome
  <2>3. /\ reply = "receipt" => d
        /\ reply \in {"http_4xx", "body_error_4xx"} => ~d
    BY DEF MayBeDelivered
  <2>. QED  BY <1>2, <2>1, <2>2, <2>3
<1>. QED  BY <1>2, <1>3, <1>4

LEMMA CallProviderStep == ASSUME IInv, NEW w \in Worker, CallProvider(w) PROVE IInv'
<1>. DEFINE n == event[w].stage
<1>0. Calls(w)
  BY DEF CallProvider, Calls
<1>1. event[w] \in queued /\ event[w].request # NoRequest
      /\ Mine(w) \in Requested /\ n = StageOf(Mine(w)) /\ n \in Stage
      /\ replay[Mine(w)].status \in {"RUNNING", "UNKNOWN"}
  BY <1>0, CallerFacts
<1>2. PICK reply \in ReplayReply :
        /\ \E sends \in IF reply = Deadline THEN 0..1 ELSE {1} :
           \E d \in {x \in MayBeDelivered(reply) : sends = 1 \/ ~x} :
             /\ resent' = [resent EXCEPT ![n] = @ + sends]
             /\ redelivered' = [redelivered EXCEPT ![n] = @ \/ d]
        /\ evidence' = [evidence EXCEPT ![w] = ReplayOutcome(reply)]
  BY DEF CallProvider
<1>3. PICK sends \in IF reply = Deadline THEN 0..1 ELSE {1} :
           \E d \in {x \in MayBeDelivered(reply) : sends = 1 \/ ~x} :
             /\ resent' = [resent EXCEPT ![n] = @ + sends]
             /\ redelivered' = [redelivered EXCEPT ![n] = @ \/ d]
  BY <1>2
<1>4. PICK d \in {x \in MayBeDelivered(reply) : sends = 1 \/ ~x} :
             /\ resent' = [resent EXCEPT ![n] = @ + sends]
             /\ redelivered' = [redelivered EXCEPT ![n] = @ \/ d]
  BY <1>3
<1>5. /\ sends \in 0..1 /\ d \in BOOLEAN /\ (sends = 0 => ~d)
      /\ ReplayOutcome(reply) \in {"accepted", "rejected", "unknown"}
      /\ ReplayOutcome(reply) = "accepted" => d
      /\ ReplayOutcome(reply) = "rejected" => ~d
  BY ReplyFacts
<1>6. /\ wpc' = [wpc EXCEPT ![w] = "complete"]
      /\ UNCHANGED <<decision, record, sent, delivered, request, replay, attempt, failure, authority,
                     queued, committed, dpc, row, event, next>>
  BY DEF CallProvider, Goto, stage_vars, replay_vars, topic_vars, dispatch_vars
<1>7. resent[n] = 0 /\ redelivered[n] = FALSE
  <2>1. resent[n] = 0
    BY DEF CallProvider, IInv, WorkerInv
  <2>. QED  BY <1>1, <2>1 DEF IInv, ResentInv, TypeOK
<1>. HIDE DEF n
<1>8. /\ resent'[n] = sends /\ redelivered'[n] = d
      /\ \A m \in Stage \ {n} : resent'[m] = resent[m] /\ redelivered'[m] = redelivered[m]
      /\ resent' \in [Stage -> Nat] /\ redelivered' \in [Stage -> BOOLEAN]
  BY <1>1, <1>4, <1>5, <1>7 DEF IInv, TypeOK
<1>9. Requested' = Requested /\ \A q : StageOf(q)' = StageOf(q) /\ EventOf(q)' = EventOf(q)
  BY <1>6 DEF Requested, StageOf, EventOf
<1>10. Later
  BY <1>6 DEF Later
<1>11. /\ wpc'[w] = "complete" /\ evidence'[w] = ReplayOutcome(reply)
       /\ wpc' \in [Worker -> {"idle", "call", "complete", "execute", "settle", "commit"}]
       /\ evidence' \in [Worker -> FailureOutcome \cup {"accepted", "none"}]
       /\ \A v \in Worker \ {w} : wpc'[v] = wpc[v] /\ evidence'[v] = evidence[v]
  BY <1>2, <1>5, <1>6 DEF IInv, TypeOK, FailureOutcome
<1>12. TypeOK'
  <2>1. \A v \in Worker : wpc'[v] \in {"call", "complete"} => Mine(v)' \in Requested
    BY <1>1, <1>6, <1>11 DEF IInv, TypeOK, Mine
  <2>. QED  BY <1>6, <1>8, <1>9, <1>11, <2>1 DEF IInv, TypeOK
<1>13. StageTyped' /\ StageInv' /\ OneReplay' /\ RowsAgree'
  BY <1>6, <1>9 DEF IInv, StageTyped, StageInv, OneReplay, RowsAgree
<1>14. \A q \in Request : RowInv(q)'
  BY <1>6, <1>9 DEF IInv, RowInv
<1>15. ASSUME NEW m \in Stage PROVE ResentInv(m)'
  <2>1. CASE m = n
    BY <1>1, <1>5, <1>6, <1>8, <1>9, <2>1 DEF ResentInv
  <2>2. CASE m # n
    BY <1>6, <1>8, <1>9, <2>2 DEF IInv, ResentInv
  <2>. QED  BY <2>1, <2>2
<1>16. QueueInv' /\ DispatchInv'
  BY <1>6, <1>9, <1>10, OldEvent DEF IInv, QueueInv, DispatchInv
<1>17. CommittedInv'
  BY <1>6, <1>10, SettledKept DEF CommittedInv, IInv, TypeOK
<1>18. ASSUME NEW v \in Worker \ {w} PROVE WorkerInv(v)'
  <2>1. ASSUME Calls(v)
        PROVE  /\ replay'[Mine(v)].status \in {"RUNNING", "UNKNOWN"}
               /\ event[v].stage \in Stage \ {n}
    <3>1. /\ replay[Mine(v)].status \in {"RUNNING", "UNKNOWN"} /\ Mine(v) \in Requested
          /\ event[v].stage = StageOf(Mine(v)) /\ event[v].stage \in Stage
      BY <2>1, CallerFacts
    <3>2. Mine(v) # Mine(w)
      BY <1>0, <2>1 DEF IInv, WorkersApart
    <3>. QED  BY <1>1, <1>6, <3>1, <3>2 DEF IInv, OneReplay
  <2>. QED  BY <1>6, <1>8, <1>10, <1>11, <2>1, OtherWorker
<1>19. WorkerInv(w)'
  BY <1>1, <1>5, <1>6, <1>8, <1>11 DEF WorkerInv, Calls, Mine, n
<1>20. WorkersApart'
  BY <1>0, <1>6, <1>11 DEF IInv, WorkersApart, Calls, Mine
<1>. QED  BY <1>12, <1>13, <1>14, <1>15, <1>16, <1>17, <1>18, <1>19, <1>20 DEF IInv

\* What follows a success is queued.
LEMMA SendNextStep == ASSUME IInv, NEW w \in Worker, SendNext(w) PROVE IInv'
<1>1. /\ UNCHANGED <<decision, record, sent, delivered, request, replay, attempt, failure,
                     resent, redelivered, authority, committed, dpc, row, event, evidence, next>>
      /\ UNCHANGED <<stage_vars, replay_vars, history_vars>>
      /\ queued' = IF next[w] = NoStage THEN queued ELSE queued \cup {Ordinary(next[w])}
      /\ wpc' = [wpc EXCEPT ![w] = "commit"] /\ wpc[w] = "settle"
  BY DEF SendNext, Goto, stage_vars, replay_vars, history_vars, dispatch_vars
<1>2. event[w] \in queued /\ event[w].stage \in Stage /\ Ready(w)
  BY <1>1, QueuedFacts DEF IInv, WorkerInv
<1>3. Later
  BY <1>1 DEF Later
<1>4. Requested' = Requested /\ \A q : StageOf(q)' = StageOf(q) /\ EventOf(q)' = EventOf(q)
  BY <1>1 DEF Requested, StageOf, EventOf
<1>5. next[w] # NoStage => next[w] \in Stage /\ Ordinary(next[w]) \in Event
  BY EventFacts DEF IInv, TypeOK
<1>6. /\ wpc'[w] = "commit" /\ \A v \in Worker \ {w} : wpc'[v] = wpc[v]
      /\ wpc' \in [Worker -> {"idle", "call", "complete", "execute", "settle", "commit"}]
  BY <1>1 DEF IInv, TypeOK
<1>7. TypeOK'
  <2>1. queued' \subseteq Event /\ committed' \subseteq queued'
    BY <1>1, <1>5 DEF IInv, TypeOK
  <2>2. \A v \in Worker : wpc'[v] \in {"call", "complete"} => Mine(v)' \in Requested
    BY <1>1, <1>6 DEF IInv, TypeOK, Mine
  <2>. QED  BY <1>1, <1>4, <1>6, <2>1, <2>2 DEF IInv, TypeOK
<1>8. QueueInv'
  <2>1. ASSUME next[w] # NoStage, NEW e, e = Ordinary(next[w])
        PROVE  e.request = NoRequest /\ Passed(e.stage - 1)'
    <3>1. PICK n \in Stage : n = event[w].stage
      BY <1>2
    <3>2. next[w] = n + 1 /\ Passed(n)
      BY <1>2, <2>1, <3>1 DEF Ready
    <3>3. Passed(n)'
      BY <1>3, <3>2, PassedKept
    <3>4. e.request = NoRequest /\ e.stage - 1 = n
      BY <2>1, <3>2, ConstantFacts DEF Ordinary
    <3>. QED  BY <3>3, <3>4
  <2>. QED  BY <1>1, <1>3, <2>1, OldEvent DEF QueueInv
<1>9. DispatchInv' /\ CommittedInv'
  BY <1>1, <1>3, <1>4, SettledKept DEF IInv, TypeOK, DispatchInv, CommittedInv
<1>10. Settled(event[w])'
  <2>1. Over(event[w])' /\ (Succeeded(event[w])' <=> Succeeded(event[w]))
    BY <1>1, <1>2 DEF Ready, Over, Succeeded
  <2>2. ASSUME Succeeded(event[w]), event[w].stage < Last
        PROVE  Ordinary(event[w].stage + 1) \in queued'
    BY <1>1, <1>2, <2>2, FollowingFacts DEF Ready
  <2>. QED  BY <1>1, <2>1, <2>2 DEF Settled
<1>11. WorkerInv(w)'
  BY <1>1, <1>2, <1>6, <1>10 DEF WorkerInv, Calls
<1>12. ASSUME NEW v \in Worker \ {w} PROVE WorkerInv(v)'
  <2>1. Calls(v) => replay'[Mine(v)].status \in {"RUNNING", "UNKNOWN"}
    BY <1>1 DEF IInv, WorkerInv
  <2>. QED  BY <1>1, <1>3, <1>6, <2>1, OtherWorker
<1>13. WorkersApart'
  BY <1>1, <1>6 DEF IInv, WorkersApart, Calls, Mine
<1>. QED  BY <1>1, <1>7, <1>8, <1>9, <1>11, <1>12, <1>13, SameRows DEF IInv

---------------------------------------------------------------------------
(***************************************************************************)
(* The theorems.                                                           *)
(***************************************************************************)

\* Nothing is requested, and the first stage is queued.
LEMMA InitInv == ASSUME Init PROVE IInv
<1>1. /\ decision = [n \in Stage |-> "open"] /\ record = [n \in Stage |-> [attempt |-> 0, outcome |-> "none"]]
      /\ sent = [n \in Stage |-> 0] /\ delivered = [n \in Stage |-> FALSE]
  BY DEF Init, Contract!CInit, Contract!NoRecord
<1>2. Requested = {}
  BY DEF Init, Requested
<1>3. Ordinary(0) \in Event /\ Ordinary(0).stage = 0 /\ Ordinary(0).request = NoRequest
  BY EventFacts, ConstantFacts
<1>4. TypeOK
  BY <1>2, <1>3 DEF Init, TypeOK, NoReplay, ReplayStatus, FailureOutcome
<1>5. StageTyped /\ StageInv
  BY <1>1 DEF StageTyped, StageInv, Refused
<1>6. RowsAgree /\ OneReplay /\ \A r \in Request : RowInv(r)
  BY <1>2 DEF Init, RowsAgree, OneReplay, RowInv
<1>7. \A n \in Stage : ResentInv(n)
  BY DEF Init, ResentInv
<1>8. QueueInv /\ CommittedInv /\ DispatchInv
  BY <1>3 DEF Init, QueueInv, CommittedInv, DispatchInv
<1>9. (\A w \in Worker : WorkerInv(w)) /\ WorkersApart
  BY DEF Init, WorkerInv, WorkersApart, Calls
<1>. QED  BY <1>4, <1>5, <1>6, <1>7, <1>8, <1>9 DEF IInv

LEMMA StutterStep == ASSUME IInv, UNCHANGED vars PROVE IInv'
<1>1. UNCHANGED <<stage_vars, replay_vars, history_vars, worker_vars, authority, queued, committed,
                  dpc, row, wpc, event, evidence, next, request, replay, attempt, failure>>
  BY DEF vars, stage_vars, replay_vars, history_vars, worker_vars
<1>2. Later
  BY <1>1 DEF Later, stage_vars
<1>3. Requested' = Requested
  BY <1>1 DEF Requested
<1>4. TypeOK' /\ DispatchInv'
  BY <1>1, <1>3 DEF IInv, TypeOK, DispatchInv, EventOf, StageOf, Mine, history_vars
<1>5. QueueInv'
  BY <1>1, <1>2, OldEvent DEF QueueInv
<1>6. CommittedInv' /\ (\A w \in Worker : WorkerInv(w)') /\ WorkersApart'
  BY <1>1, <1>2, WorkersKept
<1>. QED  BY <1>1, <1>4, <1>5, <1>6, SameRows DEF IInv

LEMMA NextInv == ASSUME IInv, [Next]_vars PROVE IInv'
<1>1. ASSUME NEW d \in Dispatcher, DispatcherStep(d) \/ CrashDispatcher(d) PROVE IInv'
  BY <1>1, DispatchOneStep, SendStep, SettleStep DEF DispatcherStep
<1>2. ASSUME NEW w \in Worker, NEW e \in queued, ClaimStep(w, e) \/ Recover(w, e) PROVE IInv'
  BY <1>2, ReplaySucceededStep, ReplayTerminalStep, RecordExpiredStep, DenyStep, ClaimReplayStep,
     RecoverStep DEF ClaimStep
<1>3. ASSUME NEW w \in Worker, WorkerStep(w) \/ CrashWorker(w) PROVE IInv'
  BY <1>3, CallProviderStep, CompleteReplayStep, ExecuteStageStep, SendNextStep, LeaveSteps
     DEF WorkerStep
<1>. QED
  BY <1>1, <1>2, <1>3, ExecuteOrdinaryStep, AuthorityStep, RequestReplayStep, StutterStep DEF Next, Turns

\* The inductive invariant on which the other theorems rest.
THEOREM InvariantHolds == Spec => []IInv
<1>. QED  BY InitInv, NextInv, PTL DEF Spec

\* Every variable keeps its type, and whoever works on a replay has a request.
THEOREM TypeCorrect == Spec => []TypeOK
<1>1. IInv => TypeOK
  BY DEF IInv
<1>. QED  BY <1>1, InvariantHolds, PTL

\* The recipient of a stage gets one message at most, over its ordinary execution and any
\* number of requests, approvals, redeliveries and deaths (claim, complete).
THEOREM DeliversOnce == Spec => []DeliveredOnce
<1>1. ASSUME IInv, NEW n \in Stage
      PROVE  ~(delivered[n] /\ redelivered[n]) /\ sent[n] <= 1 /\ resent[n] <= 1
  <2>1. sent[n] \in 0..1 /\ resent[n] \in 0..1
    BY <1>1 DEF IInv, StageTyped, ResentInv
  <2>2. ASSUME redelivered[n] PROVE ~delivered[n]
    <3>1. PICK r \in Requested : StageOf(r) = n
      BY <1>1, <2>1, <2>2 DEF IInv, ResentInv
    <3>2. record[n] = Refused
      BY <1>1, <3>1 DEF IInv, RowInv, Requested
    <3>. QED  BY <1>1, <3>2 DEF IInv, StageInv
  <2>. QED  BY <2>1, <2>2
<1>2. IInv => DeliveredOnce
  BY <1>1 DEF DeliveredOnce
<1>. QED  BY <1>2, InvariantHolds, PTL

\* Row, attempt and failure of a replay tell one story (record, deny, complete).
THEOREM ReplayRowsAgree == Spec => []RowsAgree
<1>1. IInv => RowsAgree
  BY DEF IInv
<1>. QED  BY <1>1, InvariantHolds, PTL

---------------------------------------------------------------------------
(***************************************************************************)
(* The run as a whole.  IInv knows of each stage only the one before it;   *)
(* what follows from stage to stage needs all of them.                     *)
(***************************************************************************)

\* Work on a stage has begun, by itself or under a request.
Begun(n) == decision[n] # "open" \/ sent[n] > 0

ProgressInv ==
    /\ Ordinary(0) \in queued
    /\ \A e \in queued : e.request = NoRequest => Before(e.stage)
    /\ \A n \in Stage : Begun(n) => Ordinary(n) \in queued
    /\ \A r \in Requested :
         /\ Before(StageOf(r))
         /\ replay[r].status # "RESERVED" => EventOf(r) \in queued

LEMMA BeforeKept ==
    ASSUME IInv, Later, NEW n, Before(n)
    PROVE  Before(n)'
BY PassedKept DEF Before

\* What a step may add: events behind successes, work on what is queued, requests of
\* stages whose turn has come, and claims of replays that are in the topic.
LEMMA ProgressFrame ==
    ASSUME IInv, ProgressInv, Later,
           \A e \in queued' : e \in queued \/ e.request # NoRequest \/ Before(e.stage),
           \A n \in Stage : Begun(n)' => Begun(n) \/ Ordinary(n) \in queued,
           \A r \in Requested' : r \in Requested \/
               (replay'[r].status = "RESERVED" /\ Before(Approved[request'[r]])),
           \A r \in Requested : replay'[r].status # "RESERVED" =>
               replay[r].status # "RESERVED" \/ EventOf(r) \in queued
    PROVE  ProgressInv'
<1>1. Ordinary(0) \in queued'
  BY DEF ProgressInv, Later
<1>2. ASSUME NEW e \in queued', e.request = NoRequest PROVE Before(e.stage)'
  <2>1. Before(e.stage)
    BY <1>2 DEF ProgressInv
  <2>. QED  BY <2>1, BeforeKept
<1>3. ASSUME NEW n \in Stage, Begun(n)' PROVE Ordinary(n) \in queued'
  BY <1>3 DEF ProgressInv, Later
<1>4. ASSUME NEW r \in Requested'
      PROVE  /\ Before(StageOf(r))'
             /\ replay'[r].status # "RESERVED" => EventOf(r)' \in queued'
  <2>1. CASE r \in Requested
    <3>1. StageOf(r)' = StageOf(r) /\ EventOf(r)' = EventOf(r)
      BY <2>1, RequestedKept DEF EventOf
    <3>2. PICK n : n = StageOf(r)
      OBVIOUS
    <3>3. Before(n)'
      BY <2>1, <3>2, BeforeKept DEF ProgressInv
    <3>4. Before(StageOf(r))'
      BY <3>1, <3>2, <3>3 DEF Before
    <3>. QED  BY <2>1, <3>1, <3>4 DEF ProgressInv, Later
  <2>2. CASE r \notin Requested
    <3>1. PICK n : n = Approved[request'[r]]
      OBVIOUS
    <3>2. Before(n)' /\ StageOf(r)' = n
      BY <2>2, <3>1, BeforeKept DEF StageOf
    <3>. QED  BY <2>2, <3>2 DEF Before
  <2>. QED  BY <2>1, <2>2
<1>. QED  BY <1>1, <1>2, <1>3, <1>4 DEF ProgressInv, Ordinary

\* A step that leaves stages and requests alone, and replays too unless it claims one that
\* is in the topic.
LEMMA ProgressKept ==
    ASSUME IInv, ProgressInv, UNCHANGED <<decision, sent, request>>,
           \A r \in Requested : replay[r].status \in Decided => replay'[r].status = replay[r].status,
           \A r \in Requested : replay'[r].status # "RESERVED" =>
               replay[r].status # "RESERVED" \/ EventOf(r) \in queued,
           queued \subseteq queued',
           \A e \in queued' : e \in queued \/ e.request # NoRequest \/ Before(e.stage)
    PROVE  ProgressInv'
<1>1. Requested' = Requested /\ \A n : Begun(n)' <=> Begun(n)
  BY DEF Requested, Begun
<1>2. Later
  BY DEF Later
<1>. QED  BY <1>1, <1>2, ProgressFrame

LEMMA DispatcherProgress ==
    ASSUME IInv, ProgressInv, NEW d \in Dispatcher, DispatcherStep(d) \/ CrashDispatcher(d)
    PROVE  ProgressInv'
<1>1. UNCHANGED <<decision, sent, request>>
  BY DEF DispatcherStep, DispatchOne, DispatchAcked, DispatchFailed, SettleDispatch,
         CrashDispatcher, stage_vars, replay_vars
<1>2. \A r \in Requested : replay'[r].status = replay[r].status
  <2>1. \A r \in Requested : r \in Request
    BY DEF Requested
  <2>2. CASE replay' = replay
    BY <2>2
  <2>3. CASE DispatchOne(d)
    BY <2>1, <2>3 DEF DispatchOne, IInv, TypeOK
  <2>4. CASE SettleDispatch(d) /\ replay' # replay
    BY <2>1, <2>4 DEF SettleDispatch, IInv, TypeOK
  <2>. QED
    BY <2>2, <2>3, <2>4 DEF DispatcherStep, DispatchAcked, DispatchFailed, CrashDispatcher, replay_vars
<1>3. /\ queued \subseteq queued'
      /\ \A e \in queued' : e \in queued \/ e.request # NoRequest
  <2>1. queued' \subseteq queued \cup {EventOf(row[d])} /\ queued \subseteq queued'
        /\ (queued' # queued => dpc[d] = "send")
    BY DEF DispatcherStep, DispatchOne, DispatchAcked, DispatchFailed, SettleDispatch,
           CrashDispatcher, topic_vars
  <2>2. dpc[d] = "send" => EventOf(row[d]).request # NoRequest
    BY ConstantFacts DEF IInv, TypeOK, Requested, EventOf
  <2>. QED  BY <2>1, <2>2
<1>. QED  BY <1>1, <1>2, <1>3, ProgressKept

\* Who claims, denies or records a replay has its event.
LEMMA ClaimProgress ==
    ASSUME IInv, ProgressInv, NEW w \in Worker, NEW e \in queued, ClaimStep(w, e) \/ Recover(w, e)
    PROVE  ProgressInv'
<1>1. UNCHANGED <<decision, sent, request, queued>>
  BY DEF ClaimStep, ReplaySucceeded, ReplayTerminal, RecordExpired, Deny, ClaimReplay, Recover,
         stage_vars, replay_vars, topic_vars
<1>2. CASE replay' = replay
  BY <1>1, <1>2, ProgressKept
<1>3. CASE RecordExpired(w, e) \/ Deny(w, e) \/ ClaimReplay(w, e)
  <2>1. e.request \in Requested /\ e.request \in Request /\ e \in Event
        /\ e.stage = StageOf(e.request) /\ replay[e.request].status \notin Decided
    BY <1>3, QueuedFacts DEF RecordExpired, Deny, ClaimReplay, Replayed, Decided, Requested
  <2>2. EventOf(e.request) = e
    BY <2>1 DEF EventOf, Event
  <2>3. \A r \in Requested : r # e.request => replay'[r] = replay[r]
    BY <1>3, <2>1 DEF RecordExpired, Deny, ClaimReplay, RecordOutcome, IInv, TypeOK, Requested
  <2>. QED  BY <1>1, <2>1, <2>2, <2>3, ProgressKept
<1>. QED
  BY <1>2, <1>3 DEF ClaimStep, ReplaySucceeded, ReplayTerminal, Recover, replay_vars

LEMMA WorkerProgress ==
    ASSUME IInv, ProgressInv, NEW w \in Worker, WorkerStep(w) \/ CrashWorker(w)
    PROVE  ProgressInv'
<1>1. UNCHANGED <<decision, sent, request>>
  BY DEF WorkerStep, CallProvider, CompleteReplay, CompletionRefused, ExecuteStage, SendNext,
         Commit, CrashWorker, stage_vars, replay_vars
<1>2. CASE UNCHANGED <<replay, queued>>
  BY <1>1, <1>2, ProgressKept
<1>3. CASE CompleteReplay(w)
  <2>1. Mine(w) \in Requested /\ Mine(w) \in Request /\ replay[Mine(w)].status = "RUNNING"
    BY <1>3, CallerFacts DEF CompleteReplay, Owns, Calls
  <2>2. \A r \in Requested : r # Mine(w) => replay'[r] = replay[r]
    BY <1>3, <2>1 DEF CompleteReplay, RecordOutcome, IInv, TypeOK, Requested
  <2>3. UNCHANGED queued
    BY <1>3 DEF CompleteReplay, topic_vars
  <2>. QED  BY <1>1, <2>1, <2>2, <2>3, ProgressKept DEF Decided
<1>4. CASE SendNext(w) /\ next[w] # NoStage
  <2>1. /\ queued' = queued \cup {Ordinary(next[w])} /\ UNCHANGED replay
        /\ event[w] \in queued /\ event[w].stage \in Stage
        /\ next[w] = event[w].stage + 1 /\ Passed(event[w].stage)
    BY <1>4, QueuedFacts DEF SendNext, replay_vars, IInv, WorkerInv, Ready
  <2>2. Before(event[w].stage)
    <3>1. CASE event[w].request = NoRequest
      BY <2>1, <3>1 DEF ProgressInv
    <3>2. CASE event[w].request # NoRequest
      BY <2>1, <3>2, QueuedFacts DEF ProgressInv
    <3>. QED  BY <3>1, <3>2
  <2>3. Before(next[w])
    BY <2>1, <2>2, ConstantFacts DEF Before
  <2>4. \A e \in queued' : e \in queued \/ Before(e.stage)
    BY <2>1, <2>3 DEF Ordinary
  <2>. QED  BY <1>1, <2>1, <2>4, ProgressKept
<1>. QED
  BY <1>2, <1>3, <1>4 DEF WorkerStep, CallProvider, CompletionRefused, ExecuteStage, SendNext,
         Commit, CrashWorker, replay_vars, topic_vars

\* A stage is executed on its event.
LEMMA OrdinaryProgress ==
    ASSUME IInv, ProgressInv, NEW n \in Stage, ExecuteOrdinary(n)
    PROVE  ProgressInv'
<1>1. UNCHANGED <<request, replay, queued>> /\ Ordinary(n) \in queued
      /\ (Contract!Send(n) \/ Contract!Succeed(n) \/ Contract!Fail(n))
  BY DEF ExecuteOrdinary, replay_vars, topic_vars
<1>2. \A m \in Stage : m # n => decision'[m] = decision[m] /\ sent'[m] = sent[m]
  BY <1>1 DEF Contract!Send, Contract!Succeed, Contract!Fail, Contract!Record, IInv, StageTyped
<1>3. decision[n] # "open" => decision'[n] = decision[n]
  BY <1>1 DEF Contract!Send, Contract!Succeed, Contract!Fail
<1>4. Later
  BY <1>1, <1>2, <1>3 DEF Later
<1>5. Requested' = Requested /\ \A m \in Stage : Begun(m)' => Begun(m) \/ m = n
  BY <1>1, <1>2 DEF Requested, Begun
<1>. QED  BY <1>1, <1>4, <1>5, ProgressFrame

\* An eligible stage has its turn.
LEMMA RequestProgress ==
    ASSUME IInv, ProgressInv, NEW r \in Request, NEW a \in Approval, RequestReplay(r, a)
    PROVE  ProgressInv'
<1>1. /\ UNCHANGED <<decision, sent, queued>> /\ Eligible(Approved[a]) /\ r \notin Requested
      /\ request' = [request EXCEPT ![r] = a] /\ replay' = [replay EXCEPT ![r].status = "RESERVED"]
  BY DEF RequestReplay, Unconsumed, stage_vars, topic_vars
<1>2. /\ request'[r] = a /\ replay'[r].status = "RESERVED"
      /\ \A q \in Request \ {r} : request'[q] = request[q] /\ replay'[q] = replay[q]
  <2>1. replay'[r].status = "RESERVED"
    BY <1>1 DEF IInv, TypeOK
  <2>. QED  BY <1>1, <2>1 DEF IInv, TypeOK
<1>3. Before(Approved[a])
  BY <1>1 DEF Eligible, Before, Passed
<1>4. /\ \A q \in Requested' : q \in Requested \/ q = r
      /\ \A q \in Requested : q \in Request \ {r}
  BY <1>1, <1>2 DEF Requested
<1>5. Later
  BY <1>1, <1>2, <1>4 DEF Later
<1>6. \A n \in Stage : Begun(n)' => Begun(n)
  BY <1>1 DEF Begun
<1>. QED  BY <1>1, <1>2, <1>3, <1>4, <1>5, <1>6, ProgressFrame

LEMMA StepProgress == ASSUME IInv, ProgressInv, [Next]_vars PROVE ProgressInv'
<1>1. CASE UNCHANGED vars \/ \E r \in Request : Turns(r)
  <2>1. UNCHANGED <<decision, sent, request, replay, queued>>
    BY <1>1, AuthorityTurns DEF vars, stage_vars, replay_vars, topic_vars
  <2>. QED  BY <2>1, ProgressKept
<1>. QED
  BY <1>1, DispatcherProgress, ClaimProgress, WorkerProgress, OrdinaryProgress, RequestProgress
     DEF Next, Turns

THEOREM ProgressHolds == Spec => []ProgressInv
<1>1. ASSUME Init PROVE ProgressInv
  <2>1. Requested = {} /\ Ordinary(0).stage = 0 /\ queued = {Ordinary(0)}
    BY <1>1 DEF Init, Requested, Ordinary
  <2>2. Before(0)
    BY ConstantFacts DEF Before
  <2>3. \A n \in Stage : ~Begun(n)
    BY <1>1 DEF Init, Contract!CInit, Begun
  <2>. QED  BY <2>1, <2>2, <2>3 DEF ProgressInv
<1>. QED  BY <1>1, StepProgress, InvariantHolds, PTL DEF Spec

\* A stage is queued, executed and sent again only behind successes, of the stages or of
\* their replays (stageResolution, executeReplayStage, settleMessage).
THEOREM StagesFollowSuccess == Spec => []LinearProgression
<1>1. ASSUME IInv, ProgressInv PROVE LinearProgression
  <2>1. ASSUME NEW e \in queued PROVE Before(e.stage)
    BY <1>1, QueuedFacts DEF ProgressInv
  <2>2. ASSUME NEW n \in Stage, Begun(n) PROVE Before(n)
    BY <1>1, <2>1, <2>2 DEF ProgressInv, Ordinary
  <2>3. ASSUME NEW n \in Stage, resent[n] > 0 PROVE Before(n)
    BY <1>1, <2>3 DEF IInv, ResentInv, ProgressInv
  <2>4. \A n \in Stage : sent[n] \in Nat /\ resent[n] \in Nat
    BY <1>1 DEF IInv, StageTyped, TypeOK
  <2>. QED  BY <2>1, <2>2, <2>3, <2>4 DEF LinearProgression, Begun
<1>. QED  BY <1>1, InvariantHolds, ProgressHolds, PTL

\* If every event is committed and no failure is open, each stage has passed and has queued
\* the next: there is no first one of which this is not so.
LEMMA NobodyIsStranded ==
    ASSUME IInv, ProgressInv, queued \subseteq committed,
           \A n \in Stage : decision[n] = "failed" => Passed(n)
    PROVE  \A n \in Stage : Passed(n)
<1>1. ASSUME NEW n \in Stage, Ordinary(n) \in queued
      PROVE  Passed(n) /\ (n < Last => Ordinary(n + 1) \in queued)
  <2>1. Settled(Ordinary(n)) /\ Ordinary(n).stage = n /\ Ordinary(n).request = NoRequest
    BY <1>1, EventFacts DEF IInv, CommittedInv
  <2>2. CASE decision[n] = "succeeded"
    BY <2>1, <2>2 DEF Settled, Succeeded, Passed
  <2>3. CASE decision[n] # "succeeded"
    <3>1. decision[n] = "failed"
      BY <2>1, <2>3 DEF Settled, Over, IInv, StageTyped
    <3>2. PICK r \in Requested : StageOf(r) = n /\ replay[r].status = "SUCCESS"
      BY <2>3, <3>1 DEF Passed
    <3>3. EventOf(r) \in committed /\ EventOf(r).stage = n /\ EventOf(r).request = r /\ r # NoRequest
      BY <3>2, ConstantFacts DEF ProgressInv, EventOf, Requested
    <3>4. Settled(EventOf(r)) /\ Succeeded(EventOf(r))
      BY <3>2, <3>3 DEF IInv, CommittedInv, Succeeded
    <3>. QED  BY <3>1, <3>3, <3>4 DEF Settled
  <2>. QED  BY <2>2, <2>3
<1>. DEFINE Left == {n \in Stage : Ordinary(n) \notin queued}
<1>2. Left = {}
  <2>. SUFFICES ASSUME Left # {} PROVE FALSE
    OBVIOUS
  <2>1. PICK n \in Left : \A k \in Left : n <= k
    <3>1. Left \subseteq Nat
      BY ConstantFacts
    <3>. QED  BY <3>1, LeastOf
  <2>2. n # 0
    BY <2>1 DEF ProgressInv
  <2>3. PICK k \in Stage : k + 1 = n /\ k < Last /\ k \notin Left
    <3>1. n - 1 \in Stage /\ (n - 1) + 1 = n /\ n - 1 < Last /\ n - 1 \notin Left
      BY <2>1, <2>2, ConstantFacts
    <3>. QED  BY <3>1
  <2>. QED  BY <1>1, <2>1, <2>3
<1>. QED  BY <1>1, <1>2

\* A committed offset leaves no work behind, of a stage or of a replay (settleMessage); and
\* when there is none left to commit the run has ended, or waits for somebody to decide on
\* a failure.
THEOREM CommitsAreSettled == Spec => []CommittedIsSettled
<1>1. ASSUME IInv, ProgressInv PROVE CommittedIsSettled
  <2>1. \A e \in committed : Settled(e)
    BY <1>1 DEF IInv, CommittedInv
  <2>2. queued \subseteq committed =>
          \/ \A n \in Stage : Passed(n)
          \/ \E n \in Stage : decision[n] = "failed" /\ ~Passed(n)
    BY <1>1, NobodyIsStranded
  <2>. QED  BY <2>1, <2>2 DEF Settled, Over, Succeeded, CommittedIsSettled
<1>. QED  BY <1>1, InvariantHolds, ProgressHolds, PTL

---------------------------------------------------------------------------
(***************************************************************************)
(* The dispatcher is a relay.                                              *)
(***************************************************************************)

\* Only requests, sends and stamps are seen.
LEMMA SameRelay ==
    ASSUME UNCHANGED request,
           \A r \in Request : replay'[r].publishedAt = replay[r].publishedAt,
           queued' = queued \/ \E e : e.request = NoRequest /\ queued' = queued \cup {e}
    PROVE  UNCHANGED Relay!lvars
<1>1. Requested' = Requested /\ \A r : EventOf(r)' = EventOf(r)
  BY DEF Requested, EventOf, StageOf
<1>2. \A r \in Requested : r \in Request /\ (EventOf(r) \in queued' <=> EventOf(r) \in queued)
  <2>1. \A r \in Requested : r \in Request /\ EventOf(r).request # NoRequest
    BY ConstantFacts DEF Requested, EventOf
  <2>. QED  BY <2>1
<1>3. {r \in Requested' : ~replay'[r].publishedAt} = {r \in Requested : ~replay[r].publishedAt}
  BY <1>1, <1>2
<1>4. {r \in Requested' : replay'[r].publishedAt} = {r \in Requested : replay[r].publishedAt}
  BY <1>1, <1>2
<1>5. {r \in Requested' : EventOf(r)' \in queued'} = {r \in Requested : EventOf(r) \in queued}
  BY <1>1, <1>2
<1>. QED  BY <1>3, <1>4, <1>5 DEF Relay!lvars

\* The row of a new request waits for its event.
LEMMA RequestRelays ==
    ASSUME IInv, NEW r \in Request, NEW a \in Approval, RequestReplay(r, a)
    PROVE  Relay!Enqueue(r)
<1>1. /\ request' = [request EXCEPT ![r] = a]
      /\ replay' = [replay EXCEPT ![r].status = "RESERVED"]
      /\ r \notin Requested /\ queued' = queued
  BY DEF RequestReplay, Unconsumed, topic_vars
<1>2. request'[r] = a /\ \A q \in Request \ {r} : request'[q] = request[q]
  BY <1>1 DEF IInv, TypeOK
<1>3. Requested' = Requested \cup {r} /\ \A q \in Requested : EventOf(q)' = EventOf(q) /\ q \in Request
  BY <1>1, <1>2, ConstantFacts DEF Requested, StageOf, EventOf
<1>4. \A q \in Request : replay'[q].publishedAt = replay[q].publishedAt
  BY <1>1 DEF IInv, TypeOK
<1>5. ~replay[r].publishedAt
  BY <1>1 DEF IInv, RowInv, NoReplay
<1>6. EventOf(r)' \notin queued
  <2>1. EventOf(r)'.request = r /\ r # NoRequest
    BY ConstantFacts DEF EventOf
  <2>. QED  BY <1>1, <2>1, QueuedFacts
<1>7. r \notin {q \in Requested : ~replay[q].publishedAt} \cup {q \in Requested : replay[q].publishedAt}
  BY <1>1
<1>8. {q \in Requested' : ~replay'[q].publishedAt} = {q \in Requested : ~replay[q].publishedAt} \cup {r}
  BY <1>3, <1>4, <1>5
<1>9. {q \in Requested' : replay'[q].publishedAt} = {q \in Requested : replay[q].publishedAt}
  BY <1>3, <1>4, <1>5
<1>10. {q \in Requested' : EventOf(q)' \in queued'} = {q \in Requested : EventOf(q) \in queued}
  BY <1>1, <1>3, <1>6
<1>. QED  BY <1>7, <1>8, <1>9, <1>10 DEF Relay!Enqueue

LEMMA SendRelays ==
    ASSUME IInv, NEW d \in Dispatcher, DispatchAcked(d) \/ DispatchFailed(d)
    PROVE  [Relay!LNext]_(Relay!lvars)
<1>1. row[d] \in Requested /\ row[d] \in Request /\ UNCHANGED <<request, replay>>
  BY DEF DispatchAcked, DispatchFailed, replay_vars, IInv, TypeOK, Requested
<1>2. CASE queued' = queued
  BY <1>1, <1>2, SameRelay
<1>3. CASE queued' = queued \cup {EventOf(row[d])}
  <2>1. Requested' = Requested /\ \A r : EventOf(r)' = EventOf(r)
    BY <1>1 DEF Requested, EventOf, StageOf
  <2>2. \A r \in Requested : EventOf(r) = EventOf(row[d]) <=> r = row[d]
    BY DEF EventOf
  <2>3. {r \in Requested' : EventOf(r)' \in queued'} =
          {r \in Requested : EventOf(r) \in queued} \cup {row[d]}
    BY <1>1, <1>3, <2>1, <2>2
  <2>4. {row[d]} \subseteq {r \in Requested : ~replay[r].publishedAt}
                           \cup {r \in Requested : replay[r].publishedAt}
    BY <1>1
  <2>5. Relay!Publish({row[d]})
    BY <1>1, <2>1, <2>3, <2>4 DEF Relay!Publish
  <2>. QED  BY <1>1, <2>5 DEF Relay!LNext
<1>. QED  BY <1>2, <1>3 DEF DispatchAcked, DispatchFailed

\* The stamp follows an acknowledgement.
LEMMA SettleRelays ==
    ASSUME IInv, NEW d \in Dispatcher, SettleDispatch(d)
    PROVE  [Relay!LNext]_(Relay!lvars)
<1>0. PICK r \in Requested : r = row[d]
  BY DEF SettleDispatch, IInv, TypeOK
<1>1. r \in Requested /\ r \in Request /\ UNCHANGED <<request, queued>>
  BY DEF SettleDispatch, topic_vars, Requested
<1>2. CASE replay' = replay
  BY <1>1, <1>2, SameRelay
<1>3. CASE replay' = [replay EXCEPT ![r].dispatchToken = NoToken,
                                    ![r].publishedAt = @ \/ dpc[d] = "acked"]
  <2>1. /\ \A q \in Request \ {r} : replay'[q].publishedAt = replay[q].publishedAt
        /\ replay'[r].publishedAt = (replay[r].publishedAt \/ dpc[d] = "acked")
    BY <1>1, <1>3 DEF IInv, TypeOK
  <2>2. Requested' = Requested /\ \A q : EventOf(q)' = EventOf(q)
    BY <1>1 DEF Requested, EventOf, StageOf
  <2>3. CASE replay[r].publishedAt \/ dpc[d] # "acked"
    <3>1. \A q \in Request : replay'[q].publishedAt <=> replay[q].publishedAt
      BY <2>1, <2>3
    <3>2. {q \in Requested' : ~replay'[q].publishedAt} = {q \in Requested : ~replay[q].publishedAt}
      BY <2>2, <3>1 DEF Requested
    <3>3. {q \in Requested' : replay'[q].publishedAt} = {q \in Requested : replay[q].publishedAt}
      BY <2>2, <3>1 DEF Requested
    <3>4. {q \in Requested' : EventOf(q)' \in queued'} = {q \in Requested : EventOf(q) \in queued}
      BY <1>1, <2>2
    <3>. QED  BY <3>2, <3>3, <3>4 DEF Relay!lvars
  <2>4. CASE ~(replay[r].publishedAt \/ dpc[d] # "acked")
    <3>1. EventOf(r) \in queued
      BY <1>0, <2>4 DEF IInv, DispatchInv
    <3>2. {q \in Requested' : ~replay'[q].publishedAt} =
            {q \in Requested : ~replay[q].publishedAt} \ {r}
      BY <2>1, <2>2, <2>4 DEF Requested
    <3>3. {q \in Requested' : replay'[q].publishedAt} =
            {q \in Requested : replay[q].publishedAt} \cup {r}
      BY <1>1, <2>1, <2>2, <2>4 DEF Requested
    <3>4. {r} \subseteq {q \in Requested : ~replay[q].publishedAt} \cap
                        {q \in Requested : EventOf(q) \in queued}
      BY <1>1, <2>4, <3>1
    <3>5. Relay!Retire({r})
      BY <1>1, <2>2, <3>2, <3>3, <3>4 DEF Relay!Retire
    <3>. QED  BY <1>1, <3>5 DEF Relay!LNext
  <2>. QED  BY <2>3, <2>4
<1>. QED  BY <1>0, <1>2, <1>3 DEF SettleDispatch

\* A worker changes nothing that the relay is about.
LEMMA WorkerRelays ==
    ASSUME IInv, NEW w \in Worker,
           WorkerStep(w) \/ CrashWorker(w) \/ \E e \in queued : ClaimStep(w, e) \/ Recover(w, e)
    PROVE  UNCHANGED Relay!lvars
<1>1. ASSUME NEW r, RecordOutcome(r, evidence[w]) \/ RecordOutcome(r, "unknown")
                    \/ RecordOutcome(r, "not_attempted")
      PROVE  \A q \in Request : replay'[q].publishedAt = replay[q].publishedAt
  <2>1. PICK o : replay' = [replay EXCEPT ![r].status = Terminal(o), ![r].claimToken = NoToken]
    BY <1>1 DEF RecordOutcome
  <2>. QED  BY <2>1 DEF IInv, TypeOK
<1>2. CASE \E e \in queued : ClaimStep(w, e)
  <2>1. PICK e \in queued : ClaimStep(w, e)
    BY <1>2
  <2>2. CASE ReplaySucceeded(w, e) \/ ReplayTerminal(w, e)
    BY <2>2, SameRelay DEF ReplaySucceeded, ReplayTerminal, replay_vars, topic_vars
  <2>3. CASE RecordExpired(w, e) \/ Deny(w, e)
    <3>1. UNCHANGED <<request, queued>>
      BY <2>3 DEF RecordExpired, Deny, topic_vars
    <3>2. \A q \in Request : replay'[q].publishedAt = replay[q].publishedAt
      BY <1>1, <2>3 DEF RecordExpired, Deny
    <3>. QED  BY <3>1, <3>2, SameRelay
  <2>4. CASE ClaimReplay(w, e)
    <3>1. UNCHANGED <<request, queued>>
      BY <2>4 DEF ClaimReplay, topic_vars
    <3>2. \A q \in Request : replay'[q].publishedAt = replay[q].publishedAt
      BY <2>4 DEF ClaimReplay, IInv, TypeOK
    <3>. QED  BY <3>1, <3>2, SameRelay
  <2>. QED  BY <2>1, <2>2, <2>3, <2>4 DEF ClaimStep
<1>3. CASE CompleteReplay(w)
  <2>1. UNCHANGED <<request, queued>>
    BY <1>3 DEF CompleteReplay, topic_vars
  <2>2. \A q \in Request : replay'[q].publishedAt = replay[q].publishedAt
    BY <1>1, <1>3 DEF CompleteReplay
  <2>. QED  BY <2>1, <2>2, SameRelay
<1>4. CASE SendNext(w)
  <2>1. UNCHANGED <<request, replay>>
    BY <1>4 DEF SendNext, replay_vars
  <2>2. queued' = queued \/ \E e : e.request = NoRequest /\ queued' = queued \cup {e}
    <3>1. Ordinary(next[w]).request = NoRequest
      BY DEF Ordinary
    <3>. QED  BY <1>4, <3>1 DEF SendNext
  <2>. QED  BY <2>1, <2>2, SameRelay
<1>5. CASE \/ CallProvider(w) \/ CompletionRefused(w) \/ ExecuteStage(w) \/ Commit(w) \/ CrashWorker(w)
           \/ \E e \in queued : Recover(w, e)
  <2>1. UNCHANGED <<request, replay, queued>>
    BY <1>5 DEF CallProvider, CompletionRefused, ExecuteStage, Commit, CrashWorker, Recover,
                replay_vars, topic_vars
  <2>. QED  BY <2>1, SameRelay
<1>. QED  BY <1>2, <1>3, <1>4, <1>5 DEF WorkerStep

LEMMA StepRelays == ASSUME IInv, [Next]_vars PROVE [Relay!LNext]_(Relay!lvars)
<1>1. CASE (\E n \in Stage : ExecuteOrdinary(n)) \/ (\E r \in Request : Turns(r)) \/ UNCHANGED vars
  <2>1. UNCHANGED <<request, replay, queued>>
    BY <1>1, AuthorityTurns DEF ExecuteOrdinary, vars, replay_vars, topic_vars
  <2>. QED  BY <2>1, SameRelay
<1>2. ASSUME NEW d \in Dispatcher, DispatchOne(d) \/ CrashDispatcher(d) PROVE UNCHANGED Relay!lvars
  <2>1. UNCHANGED <<request, queued>>
    BY <1>2 DEF DispatchOne, CrashDispatcher, replay_vars, topic_vars
  <2>2. \A q \in Request : replay'[q].publishedAt = replay[q].publishedAt
    BY <1>2 DEF DispatchOne, CrashDispatcher, replay_vars, IInv, TypeOK
  <2>. QED  BY <2>1, <2>2, SameRelay
<1>. QED
  BY <1>1, <1>2, RequestRelays, SendRelays, SettleRelays, WorkerRelays
     DEF Next, DispatcherStep, Turns, Relay!LNext

\* A request is stamped as published only after the topic has its event, whichever
\* dispatcher stamps it (dispatchOne).
THEOREM DispatchRelays == Spec => RelaysAtLeastOnce
<1>1. Init => Relay!LInit
  <2>1. ASSUME Init PROVE Requested = {}
    BY <2>1 DEF Init, Requested
  <2>. QED  BY <2>1 DEF Relay!LInit
<1>. QED
  BY <1>1, StepRelays, InvariantHolds, PTL DEF Spec, RelaysAtLeastOnce, Relay!LSpec

---------------------------------------------------------------------------
(***************************************************************************)
(* A stage has one allowance.                                              *)
(***************************************************************************)

\* A replay with a failure on record was not accepted, now ...
LEMMA RefusedNotAccepted ==
    ASSUME IInv, NEW n, NEW r \in ReplayFor(n), failure[r] # "none"
    PROVE  attempt[r] # "ACCEPTED"
BY DEF IInv, TypeOK, RowsAgree, ReplayFor, Requested, AttemptStatus, ReplayStatus, FailureOutcome

\* ... and after a step.
LEMMA RefusedNotAcceptedNext ==
    ASSUME IInv', NEW n, NEW r \in ReplayFor(n)', failure'[r] # "none"
    PROVE  attempt'[r] # "ACCEPTED"
BY DEF IInv, TypeOK, RowsAgree, ReplayFor, Requested, AttemptStatus, ReplayStatus, FailureOutcome

\* The allowance of a stage is that of its only request, ...
LEMMA AllowanceFacts ==
    ASSUME IInv, NEW n \in Stage
    PROVE  /\ ReplayFor(n) = {} => AllowanceOf(n) = "unused" /\ VerdictOf(n) = "none"
           /\ \A r \in ReplayFor(n) :
                /\ replay[r].status = "RUNNING" => AllowanceOf(n) = "running"
                /\ replay[r].status = "RESERVED" => AllowanceOf(n) = "reserved"
                /\ replay[r].status \notin {"RUNNING", "RESERVED"} => AllowanceOf(n) = "spent"
                /\ failure[r] # "none" => VerdictOf(n) = failure[r]
                /\ failure[r] = "none" /\ attempt[r] = "ACCEPTED" => VerdictOf(n) = "accepted"
                /\ failure[r] = "none" /\ attempt[r] # "ACCEPTED" => VerdictOf(n) = "none"
<1>1. ReplayFor(n) = {} => AllowanceOf(n) = "unused" /\ VerdictOf(n) = "none"
  BY DEF AllowanceOf, VerdictOf
<1>2. ASSUME NEW r \in ReplayFor(n)
      PROVE  /\ replay[r].status = "RUNNING" => AllowanceOf(n) = "running"
             /\ replay[r].status = "RESERVED" => AllowanceOf(n) = "reserved"
             /\ replay[r].status \notin {"RUNNING", "RESERVED"} => AllowanceOf(n) = "spent"
             /\ failure[r] # "none" => VerdictOf(n) = failure[r]
             /\ failure[r] = "none" /\ attempt[r] = "ACCEPTED" => VerdictOf(n) = "accepted"
             /\ failure[r] = "none" /\ attempt[r] # "ACCEPTED" => VerdictOf(n) = "none"
  <2>1. ReplayFor(n) = {r}
    BY DEF IInv, OneReplay, ReplayFor
  <2>2. failure[r] # "none" => attempt[r] # "ACCEPTED"
    BY RefusedNotAccepted
  <2>3. (CHOOSE q \in {r} : failure[q] # "none") = r \/ failure[r] = "none"
    OBVIOUS
  <2>. QED  BY <2>1, <2>2, <2>3 DEF AllowanceOf, VerdictOf
<1>. QED  BY <1>1, <1>2

\* ... and so it is after a step.
LEMMA AllowanceFactsNext ==
    ASSUME IInv', NEW n \in Stage
    PROVE  /\ ReplayFor(n)' = {} => AllowanceOf(n)' = "unused" /\ VerdictOf(n)' = "none"
           /\ \A r \in ReplayFor(n)' :
                /\ replay'[r].status = "RUNNING" => AllowanceOf(n)' = "running"
                /\ replay'[r].status = "RESERVED" => AllowanceOf(n)' = "reserved"
                /\ replay'[r].status \notin {"RUNNING", "RESERVED"} => AllowanceOf(n)' = "spent"
                /\ failure'[r] # "none" => VerdictOf(n)' = failure'[r]
                /\ failure'[r] = "none" /\ attempt'[r] = "ACCEPTED" => VerdictOf(n)' = "accepted"
                /\ failure'[r] = "none" /\ attempt'[r] # "ACCEPTED" => VerdictOf(n)' = "none"
<1>1. ReplayFor(n)' = {} => AllowanceOf(n)' = "unused" /\ VerdictOf(n)' = "none"
  BY DEF AllowanceOf, VerdictOf
<1>2. ASSUME NEW r \in ReplayFor(n)'
      PROVE  /\ replay'[r].status = "RUNNING" => AllowanceOf(n)' = "running"
             /\ replay'[r].status = "RESERVED" => AllowanceOf(n)' = "reserved"
             /\ replay'[r].status \notin {"RUNNING", "RESERVED"} => AllowanceOf(n)' = "spent"
             /\ failure'[r] # "none" => VerdictOf(n)' = failure'[r]
             /\ failure'[r] = "none" /\ attempt'[r] = "ACCEPTED" => VerdictOf(n)' = "accepted"
             /\ failure'[r] = "none" /\ attempt'[r] # "ACCEPTED" => VerdictOf(n)' = "none"
  <2>1. ReplayFor(n)' = {r}
    BY DEF IInv, OneReplay, ReplayFor
  <2>2. failure'[r] # "none" => attempt'[r] # "ACCEPTED"
    BY RefusedNotAcceptedNext
  <2>3. (CHOOSE q \in {r} : failure'[q] # "none") = r \/ failure'[r] = "none"
    OBVIOUS
  <2>. QED  BY <2>1, <2>2, <2>3 DEF AllowanceOf, VerdictOf
<1>. QED  BY <1>1, <1>2

\* A step that concerns no request of a stage leaves its allowance alone.
LEMMA AllowanceKept ==
    ASSUME IInv, IInv', NEW n \in Stage, ReplayFor(n)' = ReplayFor(n),
           \A r \in ReplayFor(n) : /\ replay'[r].status = replay[r].status
                                   /\ failure'[r] = failure[r] /\ attempt'[r] = attempt[r]
    PROVE  AllowanceOf(n)' = AllowanceOf(n) /\ VerdictOf(n)' = VerdictOf(n)
<1>1. CASE ReplayFor(n) = {}
  BY <1>1, AllowanceFacts, AllowanceFactsNext
<1>2. ASSUME NEW r \in ReplayFor(n)
      PROVE  AllowanceOf(n)' = AllowanceOf(n) /\ VerdictOf(n)' = VerdictOf(n)
  <2>1. AllowanceOf(n)' = AllowanceOf(n)
    BY <1>2, AllowanceFacts, AllowanceFactsNext
  <2>2. VerdictOf(n)' = VerdictOf(n)
    BY <1>2, AllowanceFacts, AllowanceFactsNext
  <2>. QED  BY <2>1, <2>2
<1>. QED  BY <1>1, <1>2

\* The allowances, and the verdicts, of all stages.
Allowances == [n \in Stage |-> AllowanceOf(n)]
Verdicts   == [n \in Stage |-> VerdictOf(n)]

\* The stages whose allowance has lost its authority.
Barred == {n \in Stage : \E r \in ReplayFor(n) : authority[r] # "valid"}

\* A step that concerns one request moves the allowance of one stage.
LEMMA OneMoves ==
    ASSUME IInv, IInv', NEW r \in Requested, NEW n \in Stage, n = StageOf(r),
           UNCHANGED <<request, authority>>,
           \A q \in Request \ {r} : /\ replay'[q].status = replay[q].status
                                    /\ failure'[q] = failure[q] /\ attempt'[q] = attempt[q]
    PROVE  /\ r \in ReplayFor(n) /\ r \in ReplayFor(n)'
           /\ Allowances' = [Allowances EXCEPT ![n] = AllowanceOf(n)']
           /\ Verdicts' = [Verdicts EXCEPT ![n] = VerdictOf(n)']
           /\ Allowances[n] = AllowanceOf(n) /\ Verdicts[n] = VerdictOf(n)
           /\ Barred' = Barred
<1>1. /\ Requested' = Requested /\ \A q : StageOf(q)' = StageOf(q)
      /\ \A m : ReplayFor(m)' = ReplayFor(m)
  BY DEF Requested, StageOf, ReplayFor
<1>2. r \in ReplayFor(n)
  BY DEF ReplayFor
<1>3. ASSUME NEW m \in Stage \ {n}
      PROVE  AllowanceOf(m)' = AllowanceOf(m) /\ VerdictOf(m)' = VerdictOf(m)
  <2>1. \A q \in ReplayFor(m) : q \in Request \ {r}
    BY DEF ReplayFor, Requested
  <2>. QED  BY <1>1, <2>1, AllowanceKept
<1>. QED  BY <1>1, <1>2, <1>3 DEF Allowances, Verdicts, Barred

\* A step that nobody sees.
LEMMA SameAllowance ==
    ASSUME IInv, IInv', UNCHANGED <<request, attempt, failure, resent, redelivered, authority>>,
           \A r \in Request : replay'[r].status = replay[r].status
    PROVE  UNCHANGED Allowance!avars
<1>1. \A n : ReplayFor(n)' = ReplayFor(n)
  BY DEF ReplayFor, Requested, StageOf
<1>2. \A n \in Stage : AllowanceOf(n)' = AllowanceOf(n) /\ VerdictOf(n)' = VerdictOf(n)
  BY <1>1, AllowanceKept DEF ReplayFor, Requested
<1>3. Allowances' = Allowances /\ Verdicts' = Verdicts
  BY <1>2 DEF Allowances, Verdicts
<1>4. Barred' = Barred
  BY <1>1 DEF Barred
<1>. QED  BY <1>3, <1>4 DEF Allowance!avars, Allowances, Verdicts, Barred

LEMMA RequestReserves ==
    ASSUME IInv, IInv', NEW r \in Request, NEW a \in Approval, RequestReplay(r, a)
    PROVE  Allowance!Reserve(Approved[a])
<1>. DEFINE n == Approved[a]
<1>1. /\ request' = [request EXCEPT ![r] = a]
      /\ replay' = [replay EXCEPT ![r].status = "RESERVED"]
      /\ r \notin Requested /\ UNCHANGED <<attempt, failure, resent, redelivered, authority>>
      /\ \A q \in Requested : StageOf(q) # n
  BY DEF RequestReplay, Unconsumed, history_vars
<1>2. n \in Stage
  BY ConstantFacts
<1>. HIDE DEF n
<1>3. /\ request'[r] = a /\ \A q \in Request \ {r} : request'[q] = request[q]
      /\ replay'[r].status = "RESERVED" /\ \A q \in Request \ {r} : replay'[q] = replay[q]
  BY <1>1 DEF IInv, TypeOK
<1>4. Requested' = Requested \cup {r} /\ StageOf(r)' = n
      /\ \A q \in Requested : StageOf(q)' = StageOf(q) /\ q \in Request \ {r}
  BY <1>1, <1>3, ConstantFacts DEF Requested, StageOf, n
<1>5. ReplayFor(n) = {} /\ r \in ReplayFor(n)'
  BY <1>1, <1>4 DEF ReplayFor
<1>6. attempt[r] = "none" /\ failure[r] = "none"
  BY <1>1 DEF IInv, RowInv
<1>7. /\ AllowanceOf(n) = "unused" /\ VerdictOf(n) = "none"
      /\ AllowanceOf(n)' = "reserved" /\ VerdictOf(n)' = "none"
  BY <1>1, <1>2, <1>3, <1>5, <1>6, AllowanceFacts, AllowanceFactsNext
<1>8. ASSUME NEW m \in Stage \ {n}
      PROVE  AllowanceOf(m)' = AllowanceOf(m) /\ VerdictOf(m)' = VerdictOf(m)
  <2>1. ReplayFor(m)' = ReplayFor(m) /\ \A q \in ReplayFor(m) : q \in Request \ {r}
    BY <1>4 DEF ReplayFor
  <2>. QED  BY <1>1, <1>3, <2>1, AllowanceKept
<1>9. /\ Allowances' = [Allowances EXCEPT ![n] = "reserved"] /\ Allowances[n] = "unused"
      /\ Verdicts' = Verdicts
  BY <1>2, <1>7, <1>8 DEF Allowances, Verdicts
<1>10. Barred' = Barred
  <2>1. authority[r] = "valid"
    BY <1>1 DEF IInv, TypeOK
  <2>2. \A m \in Stage : \A q : q \in ReplayFor(m)' <=> q \in ReplayFor(m) \/ (q = r /\ m = n)
    BY <1>4 DEF ReplayFor
  <2>. QED  BY <1>1, <2>1, <2>2 DEF Barred
<1>. QED  BY <1>1, <1>9, <1>10 DEF Allowance!Reserve, Allowances, Verdicts, Barred, n

LEMMA TurnAllowed ==
    ASSUME IInv, IInv', NEW r \in Request, Turns(r)
    PROVE  Allowance!ANext
<1>1. /\ replay[r].status = "RESERVED" /\ r \in Requested
      /\ UNCHANGED <<request, replay, attempt, failure, resent, redelivered>>
  BY AuthorityTurns DEF Requested, IInv, TypeOK, replay_vars, history_vars
<1>2. PICK n \in Stage : n = StageOf(r)
  BY <1>1, ConstantFacts DEF IInv, TypeOK, StageOf, Requested
<1>3. \A m : ReplayFor(m)' = ReplayFor(m)
  BY <1>1 DEF ReplayFor, Requested, StageOf
<1>4. \A m \in Stage : AllowanceOf(m)' = AllowanceOf(m) /\ VerdictOf(m)' = VerdictOf(m)
  BY <1>1, <1>3, AllowanceKept DEF ReplayFor, Requested
<1>5. Allowances' = Allowances /\ Verdicts' = Verdicts
  BY <1>4 DEF Allowances, Verdicts
<1>6. r \in ReplayFor(n) /\ \A m \in Stage \ {n} : r \notin ReplayFor(m)
  BY <1>1, <1>2 DEF ReplayFor
<1>7. Allowances[n] = "reserved"
  BY <1>1, <1>6, AllowanceFacts DEF Allowances
<1>8. \A q \in Request \ {r} : authority'[q] = authority[q]
  <2>1. authority \in [Request -> {"valid", "withdrawn", "expired"}]
    BY DEF IInv, TypeOK
  <2>2. PICK a : authority' = [authority EXCEPT ![r] = a]
    BY AuthorityTurns
  <2>. QED  BY <2>1, <2>2
<1>9. \A m \in Stage \ {n} : m \in Barred' <=> m \in Barred
  BY <1>3, <1>6, <1>8 DEF Barred, ReplayFor, Requested
<1>10. Barred' \in {Barred \cup {n}, Barred \ {n}}
  BY <1>9 DEF Barred
<1>11. Allowance!Turn(n)
  BY <1>1, <1>5, <1>7, <1>10 DEF Allowance!Turn, Allowances, Verdicts, Barred
<1>. QED  BY <1>11 DEF Allowance!ANext

LEMMA ClaimStarts ==
    ASSUME IInv, IInv', NEW w \in Worker, NEW e \in queued, ClaimReplay(w, e)
    PROVE  Allowance!Start(e.stage)
<1>. DEFINE r == e.request
            n == e.stage
<1>1. r \in Requested /\ r \in Request /\ n = StageOf(r) /\ n \in Stage
      /\ replay[r].status = "RESERVED"
  BY QueuedFacts DEF ClaimReplay, Replayed, Requested
<1>2. /\ replay' = [replay EXCEPT ![r].status = "RUNNING", ![r].claimToken = w,
                                  ![r].nextStage = Following(StageOf(r))]
      /\ attempt' = [attempt EXCEPT ![r] = "STARTED"]
      /\ UNCHANGED <<request, failure, resent, redelivered, authority>>
      /\ authority[r] = "valid"
  BY DEF ClaimReplay, history_vars
<1>. HIDE DEF r, n
<1>3. /\ replay'[r].status = "RUNNING" /\ attempt'[r] = "STARTED"
      /\ \A q \in Request \ {r} : replay'[q] = replay[q] /\ attempt'[q] = attempt[q]
  BY <1>1, <1>2 DEF IInv, TypeOK
<1>4. attempt[r] = "none" /\ failure[r] = "none"
  BY <1>1 DEF IInv, RowsAgree
<1>5. /\ r \in ReplayFor(n) /\ r \in ReplayFor(n)'
      /\ Allowances' = [Allowances EXCEPT ![n] = AllowanceOf(n)']
      /\ Verdicts' = [Verdicts EXCEPT ![n] = VerdictOf(n)']
      /\ Allowances[n] = AllowanceOf(n) /\ Verdicts[n] = VerdictOf(n)
      /\ Barred' = Barred
  BY <1>1, <1>2, <1>3, OneMoves
<1>6. /\ AllowanceOf(n) = "reserved" /\ VerdictOf(n) = "none"
      /\ AllowanceOf(n)' = "running" /\ VerdictOf(n)' = "none"
  BY <1>1, <1>2, <1>3, <1>4, <1>5, AllowanceFacts, AllowanceFactsNext
<1>7. Verdicts' = Verdicts
  BY <1>5, <1>6 DEF Verdicts
<1>8. n \notin Barred
  <2>1. ReplayFor(n) = {r}
    BY <1>5 DEF IInv, OneReplay, ReplayFor
  <2>. QED  BY <1>2, <2>1 DEF Barred
<1>. QED  BY <1>2, <1>5, <1>6, <1>7, <1>8 DEF Allowance!Start, Allowances, Verdicts, Barred, n

\* A recorded outcome is a verdict.
LEMMA RecordSpends ==
    ASSUME IInv, IInv', NEW r \in Requested, NEW n \in Stage, n = StageOf(r),
           NEW o \in FailureOutcome \cup {"accepted"},
           RecordOutcome(r, o), UNCHANGED <<request, resent, redelivered, authority>>,
           replay[r].status \in {"RESERVED", "RUNNING"},
           o = "accepted" => replay[r].status = "RUNNING"
    PROVE  /\ Allowances[n] = IF replay[r].status = "RUNNING" THEN "running" ELSE "reserved"
           /\ Allowances' = [Allowances EXCEPT ![n] = "spent"]
           /\ Verdicts' = [Verdicts EXCEPT ![n] = o]
           /\ Barred' = Barred
<1>1. /\ replay'[r].status = Terminal(o) /\ Terminal(o) \in Decided
      /\ attempt'[r] = AttemptStatus(o) /\ failure'[r] = IF o = "accepted" THEN "none" ELSE o
      /\ \A q \in Request \ {r} :
           replay'[q] = replay[q] /\ attempt'[q] = attempt[q] /\ failure'[q] = failure[q]
  BY RecordFacts DEF Decided
<1>2. /\ r \in ReplayFor(n) /\ r \in ReplayFor(n)'
      /\ Allowances' = [Allowances EXCEPT ![n] = AllowanceOf(n)']
      /\ Verdicts' = [Verdicts EXCEPT ![n] = VerdictOf(n)']
      /\ Allowances[n] = AllowanceOf(n)
      /\ Barred' = Barred
  BY <1>1, OneMoves
<1>3. AllowanceOf(n)' = "spent"
  BY <1>1, <1>2, AllowanceFactsNext DEF Decided
<1>4. VerdictOf(n)' = o
  <2>1. CASE o = "accepted"
    BY <1>1, <1>2, <2>1, AllowanceFactsNext DEF AttemptStatus
  <2>2. CASE o # "accepted"
    BY <1>1, <1>2, <2>2, AllowanceFactsNext DEF FailureOutcome
  <2>. QED  BY <2>1, <2>2
<1>5. AllowanceOf(n) = IF replay[r].status = "RUNNING" THEN "running" ELSE "reserved"
  BY <1>2, AllowanceFacts
<1>. QED  BY <1>2, <1>3, <1>4, <1>5

LEMMA RecordingAllowed ==
    ASSUME IInv, IInv', NEW w \in Worker, NEW e \in queued, RecordExpired(w, e) \/ Deny(w, e)
    PROVE  Allowance!ANext
<1>. DEFINE r == e.request
            n == e.stage
<1>1. r \in Requested /\ n = StageOf(r) /\ n \in Stage
      /\ UNCHANGED <<request, resent, redelivered, authority>>
  BY QueuedFacts DEF RecordExpired, Deny, Replayed, history_vars
<1>2. CASE RecordExpired(w, e)
  <2>1. /\ Allowances[n] = "running" /\ Allowances' = [Allowances EXCEPT ![n] = "spent"]
        /\ Verdicts' = [Verdicts EXCEPT ![n] = "unknown"] /\ Barred' = Barred
    BY <1>1, <1>2, RecordSpends DEF RecordExpired, FailureOutcome
  <2>2. Allowance!Spend(n)
    BY <1>1, <2>1 DEF Allowance!Spend, Allowances, Verdicts, Barred
  <2>. QED  BY <1>1, <2>2 DEF Allowance!ANext
<1>3. CASE Deny(w, e)
  <2>1. /\ Allowances[n] = "reserved" /\ Allowances' = [Allowances EXCEPT ![n] = "spent"]
        /\ Verdicts' = [Verdicts EXCEPT ![n] = "not_attempted"] /\ Barred' = Barred
    BY <1>1, <1>3, RecordSpends DEF Deny, FailureOutcome
  <2>2. Allowance!Refuse(n)
    BY <1>1, <2>1 DEF Allowance!Refuse, Allowances, Verdicts, Barred
  <2>. QED  BY <1>1, <2>2 DEF Allowance!ANext
<1>. QED  BY <1>2, <1>3

\* What the owner saw is a verdict that the provider does not refute.
LEMMA CompletionAllowed ==
    ASSUME IInv, IInv', NEW w \in Worker, CompleteReplay(w)
    PROVE  Allowance!ANext
<1>1. Calls(w) /\ replay[Mine(w)].status = "RUNNING" /\ wpc[w] = "complete"
  BY DEF CompleteReplay, Owns, Calls
<1>2. PICK r \in Requested : r = Mine(w) /\ event[w].stage = StageOf(r)
  BY <1>1, CallerFacts
<1>3. PICK n \in Stage : n = StageOf(r)
  BY <1>1, <1>2, CallerFacts
<1>4. PICK o \in {"accepted", "rejected", "unknown"} :
        o = evidence[w] /\ (o = "accepted" => redelivered[n]) /\ (o = "rejected" => ~redelivered[n])
  BY <1>1, <1>2, <1>3 DEF IInv, WorkerInv
<1>5. RecordOutcome(r, o) /\ UNCHANGED <<request, resent, redelivered, authority>>
  BY <1>2, <1>4 DEF CompleteReplay, history_vars
<1>6. /\ Allowances[n] = "running" /\ Allowances' = [Allowances EXCEPT ![n] = "spent"]
      /\ Verdicts' = [Verdicts EXCEPT ![n] = o] /\ Barred' = Barred
  BY <1>1, <1>2, <1>3, <1>4, <1>5, RecordSpends DEF FailureOutcome
<1>7. Allowance!Spend(n)
  BY <1>4, <1>5, <1>6 DEF Allowance!Spend, Allowances, Verdicts, Barred
<1>. QED  BY <1>7 DEF Allowance!ANext

\* The message leaves once, late only under a verdict that leaves it open.
LEMMA CallAllowed ==
    ASSUME IInv, IInv', NEW w \in Worker, CallProvider(w)
    PROVE  [Allowance!ANext]_(Allowance!avars)
<1>0. Calls(w) /\ wpc[w] = "call"
  BY DEF CallProvider, Calls
<1>1. PICK r \in Requested : r = Mine(w) /\ event[w].stage = StageOf(r)
                             /\ replay[r].status \in {"RUNNING", "UNKNOWN"}
  BY <1>0, CallerFacts
<1>2. PICK n \in Stage : n = StageOf(r)
  BY <1>0, <1>1, CallerFacts
<1>. DEFINE m == event[w].stage
<1>3. PICK reply \in ReplayReply :
        /\ \E sends \in IF reply = Deadline THEN 0..1 ELSE {1} :
           \E d \in {x \in MayBeDelivered(reply) : sends = 1 \/ ~x} :
             /\ resent' = [resent EXCEPT ![m] = @ + sends]
             /\ redelivered' = [redelivered EXCEPT ![m] = @ \/ d]
        /\ evidence' = [evidence EXCEPT ![w] = ReplayOutcome(reply)]
  BY DEF CallProvider
<1>4. PICK sends \in IF reply = Deadline THEN 0..1 ELSE {1} :
           \E d \in {x \in MayBeDelivered(reply) : sends = 1 \/ ~x} :
             /\ resent' = [resent EXCEPT ![m] = @ + sends]
             /\ redelivered' = [redelivered EXCEPT ![m] = @ \/ d]
  BY <1>3
<1>5. PICK d \in {x \in MayBeDelivered(reply) : sends = 1 \/ ~x} :
             /\ resent' = [resent EXCEPT ![m] = @ + sends]
             /\ redelivered' = [redelivered EXCEPT ![m] = @ \/ d]
  BY <1>4
<1>6. sends \in 0..1 /\ d \in BOOLEAN /\ (sends = 0 => ~d)
  BY ReplyFacts
<1>7. resent[n] = 0 /\ redelivered[n] = FALSE
  <2>1. resent[n] = 0
    BY <1>0, <1>1, <1>2 DEF IInv, WorkerInv
  <2>. QED  BY <2>1 DEF IInv, ResentInv, TypeOK
<1>8. resent' = [resent EXCEPT ![n] = sends] /\ redelivered' = [redelivered EXCEPT ![n] = d]
  <2>1. m = n
    BY <1>1, <1>2
  <2>2. resent[m] + sends = sends /\ (redelivered[m] \/ d) = d
    BY <1>6, <1>7, <2>1
  <2>3. resent' = [resent EXCEPT ![m] = sends] /\ redelivered' = [redelivered EXCEPT ![m] = d]
    BY <1>5, <2>2
  <2>. QED  BY <2>1, <2>3
<1>9. UNCHANGED <<request, replay, attempt, failure, authority>>
  BY DEF CallProvider, replay_vars
<1>10. Allowances' = Allowances /\ Verdicts' = Verdicts /\ Barred' = Barred
  <2>1. \A i : ReplayFor(i)' = ReplayFor(i)
    BY <1>9 DEF ReplayFor, Requested, StageOf
  <2>2. \A i \in Stage : AllowanceOf(i)' = AllowanceOf(i) /\ VerdictOf(i)' = VerdictOf(i)
    BY <1>9, <2>1, AllowanceKept
  <2>. QED  BY <1>9, <2>1, <2>2 DEF Allowances, Verdicts, Barred
<1>11. CASE sends = 0
  <2>1. UNCHANGED <<resent, redelivered>>
    BY <1>6, <1>7, <1>8, <1>11 DEF IInv, TypeOK
  <2>. QED  BY <1>10, <2>1 DEF Allowance!avars, Allowances, Verdicts, Barred
<1>12. CASE sends = 1
  <2>1. Allowances[n] = "running" \/ Verdicts[n] = "unknown"
    <3>1. r \in ReplayFor(n)
      BY <1>2 DEF ReplayFor
    <3>2. replay[r].status = "UNKNOWN" => failure[r] = "unknown"
      BY DEF IInv, TypeOK, RowsAgree, Terminal, Requested, FailureOutcome
    <3>. QED  BY <1>1, <3>1, <3>2, AllowanceFacts DEF Allowances, Verdicts
  <2>2. Allowance!Call(n)
    BY <1>6, <1>7, <1>8, <1>10, <1>12, <2>1 DEF Allowance!Call, Allowances, Verdicts, Barred
  <2>. QED  BY <2>2 DEF Allowance!ANext
<1>. QED  BY <1>6, <1>11, <1>12

LEMMA StepAllowed == ASSUME IInv, [Next]_vars PROVE [Allowance!ANext]_(Allowance!avars)
<1>0. IInv'
  BY NextInv
<1>1. ASSUME NEW r \in Request, NEW a \in Approval, RequestReplay(r, a) PROVE Allowance!ANext
  BY <1>0, <1>1, RequestReserves, ConstantFacts DEF Allowance!ANext
<1>2. ASSUME NEW d \in Dispatcher, DispatcherStep(d) \/ CrashDispatcher(d)
      PROVE  UNCHANGED Allowance!avars
  <2>1. UNCHANGED <<request, attempt, failure, resent, redelivered, authority>>
    BY <1>2 DEF DispatcherStep, DispatchOne, DispatchAcked, DispatchFailed, SettleDispatch,
                CrashDispatcher, replay_vars, history_vars
  <2>2. \A q \in Request : replay'[q].status = replay[q].status
    <3>1. replay \in [Request -> [status: ReplayStatus, claimToken: Worker \cup {NoToken},
                                  nextStage: Stage \cup {NoStage},
                                  dispatchToken: Dispatcher \cup {NoToken},
                                  publishedAt: BOOLEAN]]
      BY DEF IInv, TypeOK
    <3>2. CASE DispatchOne(d)
      BY <3>1, <3>2 DEF DispatchOne
    <3>3. CASE SettleDispatch(d)
      BY <3>1, <3>3 DEF SettleDispatch
    <3>4. CASE UNCHANGED replay
      BY <3>4
    <3>. QED
      BY <1>2, <3>2, <3>3, <3>4 DEF DispatcherStep, DispatchAcked, DispatchFailed,
         CrashDispatcher, replay_vars
  <2>. QED  BY <1>0, <2>1, <2>2, SameAllowance
<1>3. ASSUME NEW w \in Worker, NEW e \in queued, ClaimReplay(w, e) PROVE Allowance!ANext
  BY <1>0, <1>3, ClaimStarts, QueuedFacts DEF Allowance!ANext
<1>4. CASE \/ \E n \in Stage : ExecuteOrdinary(n)
           \/ \E w \in Worker :
                \/ \E e \in queued : ReplaySucceeded(w, e) \/ ReplayTerminal(w, e) \/ Recover(w, e)
                \/ CompletionRefused(w) \/ ExecuteStage(w) \/ SendNext(w) \/ Commit(w)
                \/ CrashWorker(w)
           \/ UNCHANGED vars
  <2>1. UNCHANGED <<request, replay, attempt, failure, resent, redelivered, authority>>
    BY <1>4 DEF ExecuteOrdinary, ReplaySucceeded, ReplayTerminal, Recover,
                CompletionRefused, ExecuteStage, SendNext, Commit, CrashWorker, vars, replay_vars,
                history_vars
  <2>. QED  BY <1>0, <2>1, SameAllowance
<1>. QED
  BY <1>0, <1>1, <1>2, <1>3, <1>4, TurnAllowed, RecordingAllowed, CompletionAllowed, CallAllowed
     DEF Next, ClaimStep, WorkerStep, Turns

\* Whatever operators, dispatchers and workers do, a failed stage has one allowance, taken
\* up only while its authority holds, spent once and for good, with a verdict that what the
\* provider did does not refute (claim, deny, record, complete).
THEOREM AllowanceImplemented == Spec => ImplementsAllowance
<1>1. ASSUME Init PROVE Allowance!AInit
  <2>1. \A n : ReplayFor(n) = {}
    BY <1>1 DEF Init, ReplayFor, Requested
  <2>2. \A n \in Stage : AllowanceOf(n) = "unused" /\ VerdictOf(n) = "none"
    BY <2>1 DEF AllowanceOf, VerdictOf
  <2>3. Barred = {}
    BY <2>1 DEF Barred
  <2>. QED  BY <1>1, <2>2, <2>3 DEF Init, Allowance!AInit, Barred
<1>. QED
  BY <1>1, StepAllowed, InvariantHolds, PTL DEF Spec, ImplementsAllowance, Allowance!ASpec
=============================================================================

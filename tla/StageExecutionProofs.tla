------------------------ MODULE StageExecutionProofs ------------------------
(***************************************************************************)
(* Theorems of StageExecution, for any number of keys, workers and         *)
(* reconcilers, any lease, any skew of the clocks and any horizon.         *)
(***************************************************************************)
EXTENDS StageExecution, TLAPS

---------------------------------------------------------------------------
(***************************************************************************)
(* The inductive invariant.                                                *)
(***************************************************************************)

\* A process that is working has a key, and a resolution belongs to a
\* process that has just returned it.
LocalInv(p) ==
    /\ pc[p] \notin {"idle", "findFailed"} => at[p] \in Key
    /\ resolution[p] # "none" => pc[p] = "resolved"

\* What the rows of one key say together.
KeyInv(k) ==
    /\ execution[k].status = "absent" => execution[k].claimToken = NoToken
    /\ execution[k].claimToken = NoToken => attempt[k] = NoAttempt
    /\ attempt[k].number = 0 => sends[k] = 0 /\ ~delivered[k]
    /\ sends[k] <= 1
    /\ failure[k] # NoFailure => execution[k].status = "FAILED"
    /\ execution[k].status = "PENDING" =>
         attempt[k] \in {NoAttempt, [number |-> 1, status |-> "STARTED"]}
    /\ execution[k].status = "FAILED" /\ execution[k].claimToken # NoToken =>
         /\ failure[k] # NoFailure
         /\ failure[k].providerOutcome = execution[k].providerOutcome
         /\ failure[k].attempt = attempt[k].number
         /\ \/ attempt[k].status = AttemptStatus(failure[k].providerOutcome)
            \/ /\ attempt[k] = NoAttempt
               /\ failure[k].providerOutcome = "unknown"
    /\ failure[k].providerOutcome = "rejected" => ~delivered[k]
    /\ failure[k].providerOutcome = "not_attempted" => sends[k] = 0
    /\ execution[k].status = "SUCCESS" /\ execution[k].claimToken # NoToken =>
         delivered[k] /\ attempt[k] = [number |-> 1, status |-> "ACCEPTED"]

Owns(p) == pc[p] \in {"claimed", "started", "executed"}

\* The claim of k is still open, or it was given up while the provider may
\* have been at work.
InFlight(k) ==
    /\ attempt[k].number = 1
    /\ \/ execution[k].status = "PENDING" /\ attempt[k].status = "STARTED"
       \/ /\ execution[k].status = "FAILED"
          /\ failure[k].attempt = 1 /\ failure[k].providerOutcome = "unknown"

\* What the owner of a claim may rely on.
OwnerInv(p) ==
    LET k == at[p] IN
    /\ Owns(p) => token[p] = execution[k].claimToken /\ token[p] # NoToken
    /\ pc[p] = "claimed" => attempt[k] = NoAttempt
    /\ pc[p] = "started" => InFlight(k) /\ sends[k] = 0 /\ ~delivered[k]
    /\ pc[p] = "executed" =>
         /\ InFlight(k)
         /\ evidence[p] \in Outcome
         /\ evidence[p] = "accepted" => delivered[k]
         /\ evidence[p] = "rejected" => ~delivered[k]
         /\ evidence[p] = "not_attempted" => sends[k] = 0

\* A claim has one owner.
SoleOwner == \A p, q \in Process : Owns(p) /\ Owns(q) /\ p # q => at[p] # at[q]

\* A returned resolution is backed by the row.
BackedInv(p) ==
    /\ resolution[p] = "advance" => execution[at[p]].status = "SUCCESS"
    /\ resolution[p] = "park" =>
         execution[at[p]].status = "FAILED" /\ failure[at[p]] # NoFailure

IInv ==
    /\ TypeOK
    /\ \A p \in Process : LocalInv(p)
    /\ \A k \in Key : KeyInv(k)
    /\ \A p \in Process : OwnerInv(p)
    /\ SoleOwner
    /\ \A p \in Process : BackedInv(p)

---------------------------------------------------------------------------
(***************************************************************************)
(* Lemmas about the handlers and about the shapes of the rows.             *)
(***************************************************************************)

\* What a handler reports is not refuted by what its call can have done:
\* accepted was delivered, rejected was not, not_attempted sent nothing.
LEMMA HandlersTruthful ==
    ASSUME NEW result \in HandlerResults,
           NEW d \in MayBeDelivered(result.reply)
    PROVE  /\ result.outcome \in Outcome
           /\ d \in BOOLEAN
           /\ result.outcome = "accepted" => d
           /\ result.outcome = "rejected" => ~d
           /\ result.outcome = "not_attempted" => ~MessageSent(result.reply)
           /\ ~MessageSent(result.reply) => ~d
<1> USE DEF MayBeDelivered, MessageSent, ResolutionReply, Outcome, FailureOutcome
<1>1. ASSUME NEW r \in EmailReply, result = [reply |-> r, outcome |-> EmailOutcome(r)]
      PROVE  /\ result.reply \in EmailReply
             /\ result.outcome = IF result.reply = "error_4xx" THEN "rejected"
                                 ELSE IF result.reply = "receipt" THEN "accepted" ELSE "unknown"
  BY <1>1 DEF EmailOutcome
<1>2. ASSUME NEW r \in TelegramReply, result = [reply |-> r, outcome |-> TelegramOutcome(r)]
      PROVE  /\ result.reply \in TelegramReply
             /\ result.outcome = IF result.reply \in ResolutionReply THEN "not_attempted"
                                 ELSE IF result.reply \in {"http_4xx", "body_error_4xx"} THEN "rejected"
                                 ELSE IF result.reply = "receipt" THEN "accepted" ELSE "unknown"
  BY <1>2 DEF TelegramOutcome
<1>3. ASSUME NEW r \in Thrown, result = [reply |-> r, outcome |-> NormalizeFailure("unclassified")]
      PROVE  result.reply \in Thrown /\ result.outcome = "unknown"
  BY <1>3 DEF NormalizeFailure
<1>4. result.outcome \in Outcome
  BY <1>1, <1>2, <1>3 DEF HandlerResults
<1>5. result.outcome = "accepted" => result.reply = "receipt"
  BY <1>1, <1>2, <1>3 DEF HandlerResults
<1>6. result.outcome = "rejected" => result.reply \in {"error_4xx", "http_4xx", "body_error_4xx"}
  BY <1>1, <1>2, <1>3 DEF HandlerResults
<1>7. result.outcome = "not_attempted" => ~MessageSent(result.reply)
  BY <1>1, <1>2, <1>3 DEF HandlerResults
<1>8. QED  BY <1>4, <1>5, <1>6, <1>7

---------------------------------------------------------------------------
(***************************************************************************)
(* Type correctness.                                                       *)
(***************************************************************************)

LEMMA TypeInit == Init => TypeOK
BY StageAssumption DEF Init, TypeOK, LegacyRow, NoRow, NoAttempt, NoFailure, NoLease, NoToken,
   Row, Attempt, Failure, Status, Outcome, FailureOutcome, Resolution

\* A clock reading is an instant.
LEMMA ClockNat == TypeOK => Clock \subseteq Nat
BY StageAssumption DEF TypeOK, Clock

LEMMA TokenNat == TypeOK => \A k \in Key : execution[k].claimToken \in Nat
BY DEF TypeOK, Row

\* What the three writes to the rows of a key leave behind.
LEMMA DecideShape ==
    ASSUME TypeOK, NEW k \in Key, NEW s \in Status, NEW o \in Outcome, DecideRow(k, s, o)
    PROVE  /\ execution' \in [Key -> Row]
           /\ execution'[k].status = s
           /\ execution'[k].claimToken = execution[k].claimToken
           /\ execution'[k].providerOutcome = o
           /\ \A j \in Key \ {k} : execution'[j] = execution[j]
<1>1. execution[k] \in Row  BY DEF TypeOK
<1> DEFINE new == [status |-> s, leaseUntil |-> NoLease,
                   claimToken |-> execution[k].claimToken, providerOutcome |-> o]
<1>2. new \in Row  BY <1>1 DEF Row, NoLease
<1>3. execution' = [execution EXCEPT ![k] = new]  BY DEF DecideRow, TypeOK
<1>4. QED  BY <1>2, <1>3 DEF TypeOK

LEMMA CloseShape ==
    ASSUME TypeOK, NEW k \in Key, NEW s, CloseAttempt(k, s),
           s \in {"none", "STARTED", "ACCEPTED", "REJECTED", "NOT_ATTEMPTED", "UNKNOWN"}
    PROVE  /\ attempt' \in [Key -> Attempt]
           /\ attempt'[k] = [number |-> attempt[k].number, status |-> s]
           /\ \A j \in Key \ {k} : attempt'[j] = attempt[j]
<1>1. attempt[k] \in Attempt  BY DEF TypeOK
<1> DEFINE new == [number |-> attempt[k].number, status |-> s]
<1>2. new \in Attempt  BY <1>1 DEF Attempt
<1>3. attempt' = [attempt EXCEPT ![k] = new]  BY DEF CloseAttempt, TypeOK
<1>4. QED  BY <1>2, <1>3 DEF TypeOK

LEMMA RecordShape ==
    ASSUME TypeOK, NEW k \in Key, NEW n \in 0..1, NEW o \in FailureOutcome,
           NEW src \in {"captured", "reconciled_execution"}, RecordFailure(k, n, o, src)
    PROVE  /\ failure' \in [Key -> Failure \cup {NoFailure}]
           /\ failure'[k] # NoFailure
           /\ failure'[k].attempt = n
           /\ failure'[k].providerOutcome = o
           /\ \A j \in Key \ {k} : failure'[j] = failure[j]
<1> DEFINE new == [attempt |-> n, providerOutcome |-> o, evidenceSource |-> src]
<1>1. new \in Failure /\ new # NoFailure  BY DEF Failure, NoFailure, FailureOutcome
<1>2. failure' = [failure EXCEPT ![k] = new]  BY DEF RecordFailure
<1>3. QED  BY <1>1, <1>2 DEF TypeOK

LEMMA QuarantineShape ==
    ASSUME TypeOK, NEW k \in Key, NEW src \in {"captured", "reconciled_execution"},
           Quarantine(k, src)
    PROVE  /\ execution' \in [Key -> Row]
           /\ attempt' \in [Key -> Attempt]
           /\ failure' \in [Key -> Failure \cup {NoFailure}]
           /\ execution'[k].status = "FAILED"
           /\ execution'[k].claimToken = execution[k].claimToken
           /\ execution'[k].providerOutcome = "unknown"
           /\ attempt'[k] = [number |-> attempt[k].number,
                             status |-> IF attempt[k].status = "STARTED" THEN "UNKNOWN"
                                        ELSE attempt[k].status]
           /\ failure'[k] # NoFailure
           /\ failure'[k].attempt = IF attempt[k].status = "STARTED" THEN 1 ELSE 0
           /\ failure'[k].providerOutcome = "unknown"
           /\ \A j \in Key \ {k} :
                /\ execution'[j] = execution[j]
                /\ attempt'[j] = attempt[j]
                /\ failure'[j] = failure[j]
<1>1. attempt[k] \in Attempt  BY DEF TypeOK
<1>2. DecideRow(k, "FAILED", "unknown")  BY DEF Quarantine
<1> DEFINE s == IF attempt[k].status = "STARTED" THEN "UNKNOWN" ELSE attempt[k].status
           n == IF attempt[k].status = "STARTED" THEN 1 ELSE 0
<1>3. CloseAttempt(k, s)  BY DEF Quarantine
<1>4. RecordFailure(k, n, "unknown", src)  BY DEF Quarantine
<1>5. s \in {"none", "STARTED", "ACCEPTED", "REJECTED", "NOT_ATTEMPTED", "UNKNOWN"}
  BY <1>1 DEF Attempt
<1>6. n \in 0..1 /\ "unknown" \in FailureOutcome /\ "unknown" \in Outcome /\ "FAILED" \in Status
  BY DEF FailureOutcome, Outcome, Status
<1> HIDE DEF s, n
<1>7. /\ execution' \in [Key -> Row]
      /\ execution'[k].status = "FAILED"
      /\ execution'[k].claimToken = execution[k].claimToken
      /\ execution'[k].providerOutcome = "unknown"
      /\ \A j \in Key \ {k} : execution'[j] = execution[j]
  BY <1>2, <1>6, DecideShape
<1>8. /\ attempt' \in [Key -> Attempt]
      /\ attempt'[k] = [number |-> attempt[k].number, status |-> s]
      /\ \A j \in Key \ {k} : attempt'[j] = attempt[j]
  BY <1>3, <1>5, CloseShape
<1>9. /\ failure' \in [Key -> Failure \cup {NoFailure}]
      /\ failure'[k] # NoFailure
      /\ failure'[k].attempt = n
      /\ failure'[k].providerOutcome = "unknown"
      /\ \A j \in Key \ {k} : failure'[j] = failure[j]
  BY <1>4, <1>6, RecordShape
<1>10. QED  BY <1>7, <1>8, <1>9 DEF s, n

---------------------------------------------------------------------------
(***************************************************************************)
(* What an action does to the processes.                                   *)
(***************************************************************************)
LocalTypes ==
    /\ pc \in [Process -> {"idle", "claim", "resolve", "quarantine", "reread", "claimed",
                           "started", "executed", "resolved", "reconcile", "findFailed",
                           "repair"}]
    /\ at \in [Process -> Key \cup {NoKey}]
    /\ token \in [Process -> Nat]
    /\ timestamp \in [Process -> Nat]
    /\ evidence \in [Process -> Outcome \cup {"none"}]
    /\ resolution \in [Process -> Resolution]

RowTypes ==
    /\ execution \in [Key -> Row]
    /\ attempt \in [Key -> Attempt]
    /\ failure \in [Key -> Failure \cup {NoFailure}]
    /\ minted \in Nat
    /\ now \in 0..Horizon
    /\ sends \in [Key -> Nat]
    /\ delivered \in [Key -> BOOLEAN]

LEMMA TypeSplit == TypeOK <=> RowTypes /\ LocalTypes
BY DEF TypeOK, RowTypes, LocalTypes

LEMMA TypeSplitPrime == TypeOK' <=> RowTypes' /\ LocalTypes'
BY DEF TypeOK, RowTypes, LocalTypes

\* Only p moves.
OnlyMoves(p) ==
    \A q \in Process \ {p} :
        /\ pc'[q] = pc[q]
        /\ at'[q] = at[q]
        /\ token'[q] = token[q]
        /\ evidence'[q] = evidence[q]
        /\ resolution'[q] = resolution[q]

LEMMA ReturnShape ==
    ASSUME TypeOK, NEW w \in Process, NEW r \in Resolution, Return(w, r)
    PROVE  /\ LocalTypes'
           /\ OnlyMoves(w)
           /\ pc'[w] = "resolved" /\ at'[w] = at[w] /\ resolution'[w] = r
BY DEF TypeOK, LocalTypes, OnlyMoves, Return, Goto, Forget, NoToken, Resolution

LEMMA EndRoundShape ==
    ASSUME TypeOK, NEW r \in Process, EndRound(r)
    PROVE  /\ LocalTypes'
           /\ OnlyMoves(r)
           /\ pc'[r] = "idle" /\ resolution'[r] = resolution[r]
BY DEF TypeOK, LocalTypes, OnlyMoves, EndRound, Goto, Forget, NoToken

---------------------------------------------------------------------------
(***************************************************************************)
(* Two ways a step keeps the invariant.                                    *)
(***************************************************************************)

\* A process moves, without becoming an owner, and the rows stay.
LEMMA LocalStep ==
    ASSUME IInv, TypeOK', NEW p \in Process, OnlyMoves(p),
           UNCHANGED <<execution, attempt, failure, sends, delivered>>,
           pc'[p] \notin {"claimed", "started", "executed"},
           LocalInv(p)', BackedInv(p)'
    PROVE  IInv'
<1>1. \A q \in Process : LocalInv(q)'
  BY DEF IInv, LocalInv, OnlyMoves
<1>2. \A k \in Key : KeyInv(k)'
  BY DEF IInv, KeyInv
<1>3. \A q \in Process : OwnerInv(q)'
  BY DEF IInv, OwnerInv, Owns, OnlyMoves, InFlight
<1>4. SoleOwner'
  BY DEF IInv, SoleOwner, Owns, OnlyMoves
<1>5. \A q \in Process : BackedInv(q)'
  BY DEF IInv, BackedInv, OnlyMoves
<1>6. QED  BY <1>1, <1>2, <1>3, <1>4, <1>5 DEF IInv

\* A process moves and writes the rows of one key.
LEMMA KeyStep ==
    ASSUME IInv, TypeOK', NEW p \in Process, NEW k \in Key, OnlyMoves(p),
           \A j \in Key \ {k} :
              /\ execution'[j] = execution[j] /\ attempt'[j] = attempt[j]
              /\ failure'[j] = failure[j]
              /\ sends'[j] = sends[j] /\ delivered'[j] = delivered[j],
           KeyInv(k)',
           LocalInv(p)', OwnerInv(p)', BackedInv(p)',
           \A q \in Process \ {p} : Owns(q) => ~Owns(p)' \/ at[q] # at'[p],
           \A q \in Process \ {p} : at[q] = k => OwnerInv(q)' /\ BackedInv(q)'
    PROVE  IInv'
<1>1. \A q \in Process : LocalInv(q)'
  BY DEF IInv, LocalInv, OnlyMoves
<1>2. \A j \in Key : KeyInv(j)'
  <2> TAKE j \in Key
  <2>1. CASE j = k  BY <2>1
  <2>2. CASE j # k  BY <2>2 DEF IInv, KeyInv
  <2>3. QED  BY <2>1, <2>2
<1>3. ASSUME NEW q \in Process PROVE OwnerInv(q)'
  <2>1. CASE q = p  BY <2>1
  <2>2. CASE q # p /\ at[q] = k  BY <2>2
  <2>3. CASE q # p /\ at[q] # k
    <3>1. Owns(q)' = Owns(q)  BY <2>3 DEF Owns, OnlyMoves
    <3>2. CASE ~Owns(q)  BY <3>1, <3>2 DEF OwnerInv, Owns
    <3>3. CASE Owns(q)
      <4>1. at[q] \in Key \ {k}  BY <2>3, <3>3 DEF IInv, LocalInv, Owns
      <4>2. QED  BY <2>3, <4>1 DEF IInv, OwnerInv, Owns, OnlyMoves, InFlight
    <3>4. QED  BY <3>2, <3>3
  <2>4. QED  BY <2>1, <2>2, <2>3
<1>4. SoleOwner'
  BY DEF IInv, SoleOwner, Owns, OnlyMoves
<1>5. ASSUME NEW q \in Process PROVE BackedInv(q)'
  <2>1. CASE q = p  BY <2>1
  <2>2. CASE q # p /\ at[q] = k  BY <2>2
  <2>3. CASE q # p /\ at[q] # k
    <3>1. CASE resolution[q] = "none"  BY <2>3, <3>1 DEF BackedInv, OnlyMoves
    <3>2. CASE resolution[q] # "none"
      <4>1. at[q] \in Key \ {k}  BY <2>3, <3>2 DEF IInv, LocalInv
      <4>2. QED  BY <2>3, <4>1 DEF IInv, BackedInv, OnlyMoves
    <3>3. QED  BY <3>1, <3>2
  <2>4. QED  BY <2>1, <2>2, <2>3
<1>6. QED  BY <1>1, <1>2, <1>3, <1>4, <1>5 DEF IInv

\* While a row is open nobody has returned a resolution of it.
LEMMA OpenUnresolved ==
    ASSUME IInv, NEW q \in Process, execution[at[q]].status \notin {"SUCCESS", "FAILED"}
    PROVE  resolution[q] \notin {"advance", "park"}
BY DEF IInv, BackedInv

---------------------------------------------------------------------------
(***************************************************************************)
(* The actions that leave the rows alone.                                  *)
(***************************************************************************)

LEMMA DeliverStep == ASSUME IInv, NEW w \in Worker, Deliver(w) PROVE IInv'
<1> w \in Process  BY DEF Process
<1>1. TypeOK /\ RowTypes' /\ UNCHANGED <<execution, attempt, failure, sends, delivered>>
  BY TypeSplit DEF IInv, Deliver, RowTypes
<1>2. LocalTypes' /\ OnlyMoves(w)
  BY <1>1, TypeSplit DEF Deliver, Goto, LocalTypes, OnlyMoves
<1>3. /\ pc'[w] \notin {"claimed", "started", "executed"}
      /\ LocalInv(w)' /\ BackedInv(w)'
  BY <1>1, TypeSplit DEF IInv, Deliver, Goto, LocalInv, BackedInv, LocalTypes
<1>4. QED  BY <1>1, <1>2, <1>3, LocalStep, TypeSplitPrime

LEMMA ClaimTakenStep == ASSUME IInv, NEW w \in Worker, ClaimTaken(w) PROVE IInv'
<1> w \in Process  BY DEF Process
<1>1. TypeOK /\ RowTypes' /\ UNCHANGED <<execution, attempt, failure, sends, delivered>>
  BY TypeSplit DEF IInv, ClaimTaken, RowTypes
<1>2. LocalTypes' /\ OnlyMoves(w)
  BY <1>1, TypeSplit DEF ClaimTaken, Goto, LocalTypes, OnlyMoves
<1>3. /\ pc'[w] \notin {"claimed", "started", "executed"}
      /\ LocalInv(w)' /\ BackedInv(w)'
  BY <1>1, TypeSplit DEF IInv, ClaimTaken, Goto, LocalInv, BackedInv, LocalTypes
<1>4. QED  BY <1>1, <1>2, <1>3, LocalStep, TypeSplitPrime

LEMMA ResolveExpiredStep == ASSUME IInv, NEW w \in Worker, ResolveExpired(w) PROVE IInv'
<1> w \in Process  BY DEF Process
<1>1. TypeOK /\ RowTypes' /\ UNCHANGED <<execution, attempt, failure, sends, delivered>>
  BY TypeSplit DEF IInv, ResolveExpired, RowTypes
<1>2. LocalTypes' /\ OnlyMoves(w)
  BY <1>1, ClockNat, TokenNat, TypeSplit
     DEF IInv, LocalInv, ResolveExpired, Goto, LocalTypes, OnlyMoves
<1>3. /\ pc'[w] \notin {"claimed", "started", "executed"}
      /\ LocalInv(w)' /\ BackedInv(w)'
  BY <1>1, TypeSplit DEF IInv, ResolveExpired, Goto, LocalInv, BackedInv, LocalTypes
<1>4. QED  BY <1>1, <1>2, <1>3, LocalStep, TypeSplitPrime

LEMMA QuarantineStaleStep == ASSUME IInv, NEW w \in Worker, QuarantineStale(w) PROVE IInv'
<1> w \in Process  BY DEF Process
<1>1. TypeOK /\ RowTypes' /\ UNCHANGED <<execution, attempt, failure, sends, delivered>>
  BY TypeSplit DEF IInv, QuarantineStale, RowTypes
<1>2. LocalTypes' /\ OnlyMoves(w)
  BY <1>1, TypeSplit DEF QuarantineStale, Goto, LocalTypes, OnlyMoves
<1>3. /\ pc'[w] \notin {"claimed", "started", "executed"}
      /\ LocalInv(w)' /\ BackedInv(w)'
  BY <1>1, TypeSplit DEF IInv, QuarantineStale, Goto, LocalInv, BackedInv, LocalTypes
<1>4. QED  BY <1>1, <1>2, <1>3, LocalStep, TypeSplitPrime

LEMMA SettleStep == ASSUME IInv, NEW w \in Worker, Settle(w) PROVE IInv'
<1> w \in Process  BY DEF Process
<1>1. TypeOK /\ RowTypes' /\ UNCHANGED <<execution, attempt, failure, sends, delivered>>
  BY TypeSplit DEF IInv, Settle, RowTypes
<1>2. LocalTypes' /\ OnlyMoves(w)
  BY <1>1, TypeSplit DEF Settle, Goto, LocalTypes, OnlyMoves, Resolution
<1>3. /\ pc'[w] \notin {"claimed", "started", "executed"}
      /\ LocalInv(w)' /\ BackedInv(w)'
  BY <1>1, TypeSplit DEF IInv, Settle, Goto, LocalInv, BackedInv, LocalTypes
<1>4. QED  BY <1>1, <1>2, <1>3, LocalStep, TypeSplitPrime

LEMMA FindExpiredStep == ASSUME IInv, NEW r \in Reconciler, FindExpired(r) PROVE IInv'
<1> r \in Process  BY DEF Process
<1>1. TypeOK /\ RowTypes' /\ UNCHANGED <<execution, attempt, failure, sends, delivered>>
  BY TypeSplit DEF IInv, FindExpired, RowTypes
<1>2. LocalTypes' /\ OnlyMoves(r)
  BY <1>1, ClockNat, TokenNat, TypeSplit
     DEF FindExpired, Oldest, Goto, LocalTypes, OnlyMoves
<1>3. /\ pc'[r] \notin {"claimed", "started", "executed"}
      /\ LocalInv(r)' /\ BackedInv(r)'
  BY <1>1, TypeSplit DEF IInv, FindExpired, Goto, LocalInv, BackedInv, LocalTypes, Oldest
<1>4. QED  BY <1>1, <1>2, <1>3, LocalStep, TypeSplitPrime

LEMMA FindFailedStep == ASSUME IInv, NEW r \in Reconciler, FindFailed(r) PROVE IInv'
<1> r \in Process  BY DEF Process
<1>1. TypeOK /\ RowTypes' /\ UNCHANGED <<execution, attempt, failure, sends, delivered>>
  BY TypeSplit DEF IInv, FindFailed, RowTypes
<1>2. LocalTypes' /\ OnlyMoves(r)
  BY <1>1, TokenNat, TypeSplit DEF FindFailed, Oldest, Goto, LocalTypes, OnlyMoves
<1>3. /\ pc'[r] \notin {"claimed", "started", "executed"}
      /\ LocalInv(r)' /\ BackedInv(r)'
  BY <1>1, TypeSplit DEF IInv, FindFailed, Goto, LocalInv, BackedInv, LocalTypes, Oldest
<1>4. QED  BY <1>1, <1>2, <1>3, LocalStep, TypeSplitPrime

LEMMA CrashStep == ASSUME IInv, NEW p \in Process, Crash(p) PROVE IInv'
<1>1. TypeOK /\ RowTypes' /\ UNCHANGED <<execution, attempt, failure, sends, delivered>>
  BY TypeSplit DEF IInv, Crash, RowTypes
<1>2. LocalTypes' /\ OnlyMoves(p)
  BY <1>1, TypeSplit DEF Crash, Goto, Forget, LocalTypes, OnlyMoves, NoToken, Resolution
<1>3. /\ pc'[p] \notin {"claimed", "started", "executed"}
      /\ LocalInv(p)' /\ BackedInv(p)'
  BY <1>1, TypeSplit DEF Crash, Goto, LocalInv, BackedInv, LocalTypes
<1>4. QED  BY <1>1, <1>2, <1>3, LocalStep, TypeSplitPrime

LEMMA ResolveExistingStep == ASSUME IInv, NEW w \in Worker, ResolveExisting(w) PROVE IInv'
<1> w \in Process  BY DEF Process
<1>1. TypeOK /\ RowTypes' /\ UNCHANGED <<execution, attempt, failure, sends, delivered>>
  BY TypeSplit DEF IInv, ResolveExisting, RowTypes
<1>2. PICK r \in Resolution : /\ Return(w, r)
                              /\ r = "advance" => execution[at[w]].status = "SUCCESS"
                              /\ r = "park" => execution[at[w]].status = "FAILED"
                                             /\ failure[at[w]] # NoFailure
  BY DEF ResolveExisting, Resolved, Resolution
<1>3. /\ LocalTypes' /\ OnlyMoves(w)
      /\ pc'[w] = "resolved" /\ at'[w] = at[w] /\ resolution'[w] = r
  BY <1>1, <1>2, ReturnShape
<1>4. at[w] \in Key
  BY DEF IInv, LocalInv, ResolveExisting
<1>5. LocalInv(w)' /\ BackedInv(w)'
  BY <1>1, <1>2, <1>3, <1>4 DEF LocalInv, BackedInv
<1>6. QED  BY <1>1, <1>3, <1>5, LocalStep, TypeSplitPrime

LEMMA RereadStep == ASSUME IInv, NEW w \in Worker, Reread(w) PROVE IInv'
<1> w \in Process  BY DEF Process
<1>1. TypeOK /\ RowTypes' /\ UNCHANGED <<execution, attempt, failure, sends, delivered>>
  BY TypeSplit DEF IInv, Reread, RowTypes
<1>2. PICK r \in Resolution : /\ Return(w, r)
                              /\ r = "advance" => execution[at[w]].status = "SUCCESS"
                              /\ r = "park" => execution[at[w]].status = "FAILED"
                                             /\ failure[at[w]] # NoFailure
  BY DEF Reread, Resolved, Resolution
<1>3. /\ LocalTypes' /\ OnlyMoves(w)
      /\ pc'[w] = "resolved" /\ at'[w] = at[w] /\ resolution'[w] = r
  BY <1>1, <1>2, ReturnShape
<1>4. at[w] \in Key
  BY DEF IInv, LocalInv, Reread
<1>5. LocalInv(w)' /\ BackedInv(w)'
  BY <1>1, <1>2, <1>3, <1>4 DEF LocalInv, BackedInv
<1>6. QED  BY <1>1, <1>3, <1>5, LocalStep, TypeSplitPrime

LEMMA LostClaimStep == ASSUME IInv, NEW w \in Worker, LostClaim(w) PROVE IInv'
<1> w \in Process  BY DEF Process
<1>1. TypeOK /\ RowTypes' /\ UNCHANGED <<execution, attempt, failure, sends, delivered>>
  BY TypeSplit DEF IInv, LostClaim, RowTypes
<1>2. PICK r \in Resolution : /\ Return(w, r)
                              /\ r = "advance" => execution[at[w]].status = "SUCCESS"
                              /\ r = "park" => execution[at[w]].status = "FAILED"
                                             /\ failure[at[w]] # NoFailure
  BY DEF LostClaim, Resolved, Resolution
<1>3. /\ LocalTypes' /\ OnlyMoves(w)
      /\ pc'[w] = "resolved" /\ at'[w] = at[w] /\ resolution'[w] = r
  BY <1>1, <1>2, ReturnShape
<1>4. at[w] \in Key
  BY DEF IInv, LocalInv, LostClaim
<1>5. LocalInv(w)' /\ BackedInv(w)'
  BY <1>1, <1>2, <1>3, <1>4 DEF LocalInv, BackedInv
<1>6. QED  BY <1>1, <1>3, <1>5, LocalStep, TypeSplitPrime

\* Time, and steps that change nothing.
LEMMA IdleStep ==
    ASSUME IInv, TypeOK',
           UNCHANGED <<execution, attempt, failure, sends, delivered,
                       pc, at, token, evidence, resolution>>
    PROVE  IInv'
<1>1. \A p \in Process : LocalInv(p)'  BY DEF IInv, LocalInv
<1>2. \A k \in Key : KeyInv(k)'        BY DEF IInv, KeyInv
<1>3. \A p \in Process : OwnerInv(p)'  BY DEF IInv, OwnerInv, Owns, InFlight
<1>4. SoleOwner'                        BY DEF IInv, SoleOwner, Owns
<1>5. \A p \in Process : BackedInv(p)' BY DEF IInv, BackedInv
<1>6. QED  BY <1>1, <1>2, <1>3, <1>4, <1>5 DEF IInv

---------------------------------------------------------------------------
(***************************************************************************)
(* The actions that write rows.                                            *)
(***************************************************************************)

\* A process that owns nothing keeps what it may rely on when another moves.
LEMMA Bystander ==
    ASSUME IInv, NEW p \in Process, OnlyMoves(p), NEW q \in Process \ {p}, ~Owns(q)
    PROVE  /\ OwnerInv(q)'
           /\ execution[at[q]].status \notin {"SUCCESS", "FAILED"} => BackedInv(q)'
<1>1. OwnerInv(q)'  BY DEF OwnerInv, Owns, OnlyMoves
<1>2. ASSUME execution[at[q]].status \notin {"SUCCESS", "FAILED"} PROVE BackedInv(q)'
  BY <1>2, OpenUnresolved DEF BackedInv, OnlyMoves
<1>3. QED  BY <1>1, <1>2

LEMMA ClaimStep == ASSUME IInv, NEW w \in Worker, Claim(w) PROVE IInv'
<1> w \in Process  BY DEF Process
<1> PICK k \in Key : k = at[w]
  BY DEF IInv, LocalInv, Claim
<1>1. TypeOK /\ KeyInv(k)
  BY DEF IInv
<1>2. /\ execution[k].status = "absent" /\ execution[k].claimToken = NoToken
      /\ attempt[k] = NoAttempt /\ failure[k] = NoFailure
      /\ sends[k] = 0 /\ ~delivered[k]
  BY <1>1 DEF Claim, KeyInv, NoAttempt
<1>3. PICK t \in Nat : execution' = [execution EXCEPT ![k] =
                          [status |-> "PENDING", leaseUntil |-> t + Lease,
                           claimToken |-> minted + 1, providerOutcome |-> "none"]]
  BY <1>1, ClockNat DEF Claim
<1>4. [status |-> "PENDING", leaseUntil |-> t + Lease,
       claimToken |-> minted + 1, providerOutcome |-> "none"] \in Row
  BY <1>1, StageAssumption DEF Row, Status, TypeOK
<1>5. /\ execution' \in [Key -> Row]
      /\ execution'[k].status = "PENDING" /\ execution'[k].claimToken = minted + 1
      /\ \A j \in Key \ {k} : execution'[j] = execution[j]
  BY <1>1, <1>3, <1>4 DEF TypeOK
<1>6. /\ LocalTypes' /\ OnlyMoves(w)
      /\ pc'[w] = "claimed" /\ at'[w] = k /\ token'[w] = minted + 1
      /\ resolution'[w] = "none"
  <2>1. resolution[w] = "none"  BY DEF IInv, LocalInv, Claim
  <2>2. QED  BY <1>1, <2>1, TypeSplit DEF Claim, Goto, LocalTypes, OnlyMoves, RowTypes
<1>7. minted + 1 \in Nat /\ minted + 1 # NoToken
  BY <1>1 DEF TypeOK, NoToken
<1>8. TypeOK'
  BY <1>1, <1>5, <1>6, <1>7, TypeSplit, TypeSplitPrime DEF RowTypes, Claim
<1>9. UNCHANGED <<attempt, failure, sends, delivered>>
  BY DEF Claim
<1>10. KeyInv(k)'
  BY <1>2, <1>5, <1>7, <1>9 DEF KeyInv, NoFailure, NoAttempt
<1>11. LocalInv(w)' /\ OwnerInv(w)' /\ BackedInv(w)'
  BY <1>1, <1>2, <1>5, <1>6, <1>7, <1>9 DEF LocalInv, OwnerInv, BackedInv, Owns
<1>12. ASSUME NEW q \in Process \ {w}, Owns(q) PROVE at[q] # k
  BY <1>2, <1>12 DEF IInv, OwnerInv
<1>13. ASSUME NEW q \in Process \ {w}, at[q] = k PROVE OwnerInv(q)' /\ BackedInv(q)'
  BY <1>2, <1>6, <1>12, <1>13, Bystander
<1>14. QED
  BY <1>1, <1>5, <1>6, <1>8, <1>9, <1>10, <1>11, <1>12, <1>13, KeyStep

\* Giving up an expired claim, by whoever does it: the owner, if there still
\* is one, is left with what its call may yet do on record.
LEMMA QuarantineKeeps ==
    ASSUME IInv, TypeOK', NEW p \in Process, NEW k \in Key, k = at[p], OnlyMoves(p),
           NEW src \in {"captured", "reconciled_execution"},
           execution[k].status = "PENDING", Quarantine(k, src),
           UNCHANGED <<sends, delivered>>,
           ~Owns(p)', LocalInv(p)', BackedInv(p)'
    PROVE  IInv'
<1>1. TypeOK /\ KeyInv(k)
  BY DEF IInv
<1>2. /\ execution'[k].status = "FAILED"
      /\ execution'[k].claimToken = execution[k].claimToken
      /\ execution'[k].providerOutcome = "unknown"
      /\ attempt'[k] = [number |-> attempt[k].number,
                        status |-> IF attempt[k].status = "STARTED" THEN "UNKNOWN"
                                   ELSE attempt[k].status]
      /\ failure'[k] # NoFailure
      /\ failure'[k].attempt = IF attempt[k].status = "STARTED" THEN 1 ELSE 0
      /\ failure'[k].providerOutcome = "unknown"
      /\ \A j \in Key \ {k} :
           execution'[j] = execution[j] /\ attempt'[j] = attempt[j] /\ failure'[j] = failure[j]
  BY <1>1, QuarantineShape
<1>3. \/ attempt[k] = NoAttempt /\ attempt'[k] = NoAttempt /\ failure'[k].attempt = 0
      \/ /\ attempt[k] = [number |-> 1, status |-> "STARTED"]
         /\ attempt'[k] = [number |-> 1, status |-> "UNKNOWN"] /\ failure'[k].attempt = 1
  BY <1>1, <1>2 DEF KeyInv, NoAttempt
<1>4. AttemptStatus("unknown") = "UNKNOWN"
  BY DEF AttemptStatus
<1>5. KeyInv(k)'
  BY <1>1, <1>2, <1>3, <1>4 DEF KeyInv, NoAttempt
<1>6. OwnerInv(p)'
  BY DEF OwnerInv, Owns
<1>7. ASSUME NEW q \in Process \ {p}, at[q] = k PROVE OwnerInv(q)' /\ BackedInv(q)'
  <2>1. BackedInv(q)'  BY <1>7, OpenUnresolved DEF BackedInv, OnlyMoves
  <2>2. CASE ~Owns(q)  BY <2>1, <2>2, Bystander
  <2>3. CASE Owns(q)
    <3>1. /\ pc'[q] = pc[q] /\ at'[q] = k /\ token'[q] = token[q] /\ evidence'[q] = evidence[q]
      BY <1>7 DEF OnlyMoves
    <3>2. OwnerInv(q)  BY DEF IInv
    <3>3. InFlight(k) => InFlight(k)'
      BY <1>2, <1>3 DEF InFlight, NoAttempt
    <3>4. pc[q] = "claimed" => attempt'[k] = NoAttempt
      BY <1>3, <1>7, <3>2 DEF OwnerInv, NoAttempt
    <3>5. QED  BY <1>2, <1>7, <2>1, <2>3, <3>1, <3>2, <3>3, <3>4 DEF OwnerInv, Owns
  <2>4. QED  BY <2>2, <2>3
<1>8. QED  BY <1>2, <1>5, <1>6, <1>7, KeyStep

LEMMA QuarantineExpiredStep == ASSUME IInv, NEW w \in Worker, QuarantineExpired(w) PROVE IInv'
<1> w \in Process  BY DEF Process
<1>1. /\ TypeOK /\ at[w] \in Key
      /\ execution[at[w]].status = "PENDING" /\ Quarantine(at[w], "captured")
      /\ Return(w, "park") /\ UNCHANGED <<minted, now, sends, delivered>>
  BY DEF IInv, LocalInv, QuarantineExpired, CanQuarantine, Fenced
<1>2. /\ LocalTypes' /\ OnlyMoves(w)
      /\ pc'[w] = "resolved" /\ at'[w] = at[w] /\ resolution'[w] = "park"
  BY <1>1, ReturnShape DEF Resolution
<1>3. /\ execution' \in [Key -> Row] /\ attempt' \in [Key -> Attempt]
      /\ failure' \in [Key -> Failure \cup {NoFailure}]
      /\ execution'[at[w]].status = "FAILED" /\ failure'[at[w]] # NoFailure
  BY <1>1, QuarantineShape
<1>4. TypeOK'
  BY <1>1, <1>2, <1>3, TypeSplit, TypeSplitPrime DEF RowTypes
<1>5. ~Owns(w)' /\ LocalInv(w)' /\ BackedInv(w)'
  BY <1>1, <1>2, <1>3 DEF Owns, LocalInv, BackedInv
<1>6. QED  BY <1>1, <1>2, <1>4, <1>5, QuarantineKeeps

LEMMA ReconcileExpiredStep ==
    ASSUME IInv, NEW r \in Reconciler, ReconcileExpired(r) PROVE IInv'
<1> r \in Process  BY DEF Process
<1>1. /\ TypeOK /\ at[r] \in Key /\ resolution[r] = "none"
      /\ EndRound(r) /\ UNCHANGED <<minted, now, sends, delivered>>
  BY DEF IInv, LocalInv, ReconcileExpired
<1>2. /\ LocalTypes' /\ OnlyMoves(r) /\ pc'[r] = "idle" /\ resolution'[r] = "none"
  BY <1>1, EndRoundShape
<1>3. ~Owns(r)' /\ LocalInv(r)' /\ BackedInv(r)'
  BY <1>2 DEF Owns, LocalInv, BackedInv
<1>4. CASE CanQuarantine(r) /\ Quarantine(at[r], "reconciled_execution")
  <2>1. execution[at[r]].status = "PENDING"  BY <1>4 DEF CanQuarantine, Fenced
  <2>2. /\ execution' \in [Key -> Row] /\ attempt' \in [Key -> Attempt]
        /\ failure' \in [Key -> Failure \cup {NoFailure}]
    BY <1>1, <1>4, QuarantineShape
  <2>3. TypeOK'
    BY <1>1, <1>2, <2>2, TypeSplit, TypeSplitPrime DEF RowTypes
  <2>4. QED  BY <1>1, <1>2, <1>3, <1>4, <2>1, <2>3, QuarantineKeeps
<1>5. CASE UNCHANGED <<execution, attempt, failure>>
  <2>1. TypeOK'
    BY <1>1, <1>2, <1>5, TypeSplit, TypeSplitPrime DEF RowTypes
  <2>2. QED  BY <1>1, <1>2, <1>3, <1>5, <2>1, LocalStep DEF Owns
<1>6. QED  BY <1>4, <1>5 DEF ReconcileExpired

LEMMA RepairFailedStep == ASSUME IInv, NEW r \in Reconciler, RepairFailed(r) PROVE IInv'
<1> r \in Process  BY DEF Process
<1> PICK k \in Key : k = at[r]
  BY DEF IInv, LocalInv, RepairFailed
<1>1. /\ TypeOK /\ KeyInv(k) /\ resolution[r] = "none"
      /\ EndRound(r) /\ UNCHANGED <<execution, attempt, minted, now, sends, delivered>>
  BY DEF IInv, LocalInv, RepairFailed
<1>2. /\ LocalTypes' /\ OnlyMoves(r) /\ pc'[r] = "idle" /\ resolution'[r] = "none"
  BY <1>1, EndRoundShape
<1>3. ~Owns(r)' /\ LocalInv(r)' /\ BackedInv(r)' /\ OwnerInv(r)'
  BY <1>2 DEF Owns, LocalInv, BackedInv, OwnerInv
<1>4. CASE CanRepair(r) /\ RecordFailure(k, 0, "unknown", "reconciled_execution")
  <2>1. /\ execution[k].status = "FAILED" /\ failure[k] = NoFailure
        /\ execution[k].claimToken = NoToken /\ sends[k] = 0
    BY <1>1, <1>4 DEF CanRepair, KeyInv, NoAttempt
  <2>2. /\ failure' \in [Key -> Failure \cup {NoFailure}]
        /\ failure'[k] # NoFailure /\ failure'[k].providerOutcome = "unknown"
        /\ \A j \in Key \ {k} : failure'[j] = failure[j]
    BY <1>1, <1>4, RecordShape DEF FailureOutcome
  <2>3. TypeOK'
    BY <1>1, <1>2, <2>2, TypeSplit, TypeSplitPrime DEF RowTypes
  <2>4. KeyInv(k)'
    BY <1>1, <2>1, <2>2 DEF KeyInv
  <2>5. ASSUME NEW q \in Process \ {r}, Owns(q) PROVE at[q] # k
    BY <2>1, <2>5 DEF IInv, OwnerInv
  <2>6. ASSUME NEW q \in Process \ {r}, at[q] = k PROVE OwnerInv(q)' /\ BackedInv(q)'
    <3>1. OwnerInv(q)'  BY <1>2, <2>5, <2>6, Bystander
    <3>2. BackedInv(q)
      BY DEF IInv
    <3>3. QED  BY <1>1, <1>2, <2>2, <2>6, <3>1, <3>2 DEF BackedInv, OnlyMoves
  <2>7. QED  BY <1>1, <1>2, <1>3, <2>2, <2>3, <2>4, <2>5, <2>6, KeyStep
<1>5. CASE UNCHANGED failure
  <2>1. TypeOK'
    BY <1>1, <1>2, <1>5, TypeSplit, TypeSplitPrime DEF RowTypes
  <2>2. QED  BY <1>1, <1>2, <1>3, <1>5, <2>1, LocalStep DEF Owns
<1>6. QED  BY <1>4, <1>5 DEF RepairFailed

\* The owner of a claim is alone with its key.
LEMMA OwnerFacts ==
    ASSUME IInv, NEW p \in Process, Owns(p), NEW k \in Key, k = at[p]
    PROVE  /\ TypeOK /\ KeyInv(k) /\ OwnerInv(p) /\ resolution[p] = "none"
           /\ \A q \in Process \ {p} : Owns(q) => at[q] # k
BY DEF IInv, SoleOwner, LocalInv, Owns

LEMMA FinalizeNotAttemptedStep ==
    ASSUME IInv, NEW w \in Worker, FinalizeNotAttempted(w) PROVE IInv'
<1> w \in Process  BY DEF Process
<1> PICK k \in Key : k = at[w]
  BY DEF IInv, LocalInv, FinalizeNotAttempted
<1>1. /\ TypeOK /\ KeyInv(k) /\ OwnerInv(w)
      /\ \A q \in Process \ {w} : Owns(q) => at[q] # k
  BY OwnerFacts DEF FinalizeNotAttempted, Owns
<1>2. /\ execution[k].status = "PENDING" /\ execution[k].claimToken # NoToken
      /\ attempt[k] = NoAttempt /\ sends[k] = 0 /\ ~delivered[k]
  BY <1>1 DEF FinalizeNotAttempted, Fenced, OwnerInv, Owns, KeyInv, NoAttempt
<1>3. /\ execution' \in [Key -> Row]
      /\ execution'[k].status = "FAILED"
      /\ execution'[k].claimToken = execution[k].claimToken
      /\ execution'[k].providerOutcome = "not_attempted"
      /\ \A j \in Key \ {k} : execution'[j] = execution[j]
  BY <1>1, DecideShape DEF FinalizeNotAttempted, Status, Outcome, FailureOutcome
<1>4. /\ failure' \in [Key -> Failure \cup {NoFailure}]
      /\ failure'[k] # NoFailure
      /\ failure'[k].attempt = 0 /\ failure'[k].providerOutcome = "not_attempted"
      /\ \A j \in Key \ {k} : failure'[j] = failure[j]
  BY <1>1, RecordShape DEF FinalizeNotAttempted, FailureOutcome
<1>5. /\ attempt' \in [Key -> Attempt]
      /\ attempt'[k] = [number |-> 0, status |-> "NOT_ATTEMPTED"]
      /\ \A j \in Key \ {k} : attempt'[j] = attempt[j]
  <2>1. [number |-> 0, status |-> "NOT_ATTEMPTED"] \in Attempt  BY DEF Attempt
  <2>2. QED  BY <1>1, <2>1 DEF FinalizeNotAttempted, CreateAttempt, TypeOK
<1>6. /\ LocalTypes' /\ OnlyMoves(w)
      /\ pc'[w] = "resolved" /\ at'[w] = k /\ resolution'[w] = "park"
  BY <1>1, ReturnShape DEF FinalizeNotAttempted, Resolution
<1>7. UNCHANGED <<minted, now, sends, delivered>>
  BY DEF FinalizeNotAttempted
<1>8. TypeOK'
  BY <1>1, <1>3, <1>4, <1>5, <1>6, <1>7, TypeSplit, TypeSplitPrime DEF RowTypes
<1>9. KeyInv(k)'
  <2>1. AttemptStatus("not_attempted") = "NOT_ATTEMPTED"  BY DEF AttemptStatus
  <2>2. QED  BY <1>2, <1>3, <1>4, <1>5, <1>7, <2>1 DEF KeyInv
<1>10. ~Owns(w)' /\ LocalInv(w)' /\ OwnerInv(w)' /\ BackedInv(w)'
  BY <1>3, <1>4, <1>6 DEF Owns, LocalInv, OwnerInv, BackedInv
<1>11. ASSUME NEW q \in Process \ {w}, at[q] = k PROVE OwnerInv(q)' /\ BackedInv(q)'
  BY <1>1, <1>2, <1>6, <1>11, Bystander
<1>12. QED  BY <1>3, <1>4, <1>5, <1>6, <1>7, <1>8, <1>9, <1>10, <1>11, KeyStep

LEMMA StartAttemptStep == ASSUME IInv, NEW w \in Worker, StartAttempt(w) PROVE IInv'
<1> w \in Process  BY DEF Process
<1> PICK k \in Key : k = at[w]
  BY DEF IInv, LocalInv, StartAttempt
<1>1. /\ TypeOK /\ KeyInv(k) /\ OwnerInv(w) /\ resolution[w] = "none"
      /\ \A q \in Process \ {w} : Owns(q) => at[q] # k
  BY OwnerFacts DEF StartAttempt, Owns
<1>2. /\ execution[k].status = "PENDING" /\ execution[k].claimToken # NoToken
      /\ token[w] = execution[k].claimToken
      /\ attempt[k] = NoAttempt /\ sends[k] = 0 /\ ~delivered[k]
  BY <1>1 DEF StartAttempt, Fenced, OwnerInv, Owns, KeyInv, NoAttempt
<1>3. /\ attempt' \in [Key -> Attempt]
      /\ attempt'[k] = [number |-> 1, status |-> "STARTED"]
      /\ \A j \in Key \ {k} : attempt'[j] = attempt[j]
  <2>1. [number |-> 1, status |-> "STARTED"] \in Attempt  BY DEF Attempt
  <2>2. QED  BY <1>1, <2>1 DEF StartAttempt, CreateAttempt, TypeOK
<1>4. UNCHANGED <<execution, failure, minted, now, sends, delivered,
                 at, token, timestamp, evidence, resolution>>
  BY DEF StartAttempt
<1>5. LocalTypes' /\ OnlyMoves(w) /\ pc'[w] = "started"
  BY <1>1, <1>4, TypeSplit DEF StartAttempt, Goto, LocalTypes, OnlyMoves
<1>6. TypeOK'
  BY <1>1, <1>3, <1>4, <1>5, TypeSplit, TypeSplitPrime DEF RowTypes
<1>7. KeyInv(k)'
  BY <1>1, <1>2, <1>3, <1>4 DEF KeyInv
<1>8. LocalInv(w)' /\ OwnerInv(w)' /\ BackedInv(w)'
  BY <1>1, <1>2, <1>3, <1>4, <1>5 DEF Owns, LocalInv, OwnerInv, BackedInv, InFlight
<1>9. ASSUME NEW q \in Process \ {w}, at[q] = k PROVE OwnerInv(q)' /\ BackedInv(q)'
  BY <1>1, <1>2, <1>5, <1>9, Bystander
<1>10. QED  BY <1>1, <1>3, <1>4, <1>5, <1>6, <1>7, <1>8, <1>9, KeyStep

LEMMA ExecuteStep == ASSUME IInv, NEW w \in Worker, Execute(w) PROVE IInv'
<1> w \in Process  BY DEF Process
<1> PICK k \in Key : k = at[w]
  BY DEF IInv, LocalInv, Execute
<1>1. /\ TypeOK /\ KeyInv(k) /\ OwnerInv(w) /\ resolution[w] = "none"
      /\ \A q \in Process \ {w} : Owns(q) => at[q] # k
  BY OwnerFacts DEF Execute, Owns
<1>2. /\ InFlight(k) /\ sends[k] = 0 /\ ~delivered[k]
      /\ execution[k].claimToken # NoToken /\ token[w] = execution[k].claimToken
  BY <1>1 DEF Execute, OwnerInv, Owns
<1> PICK result \in HandlerResults :
      /\ sends' = [sends EXCEPT ![k] = IF MessageSent(result.reply) THEN @ + 1 ELSE @]
      /\ \E d \in MayBeDelivered(result.reply) :
           delivered' = [delivered EXCEPT ![k] = @ \/ d]
      /\ evidence' = [evidence EXCEPT ![w] = result.outcome]
  BY DEF Execute
<1>3. PICK d \in MayBeDelivered(result.reply) : delivered' = [delivered EXCEPT ![k] = @ \/ d]
  OBVIOUS
<1>4. /\ result.outcome \in Outcome /\ d \in BOOLEAN
      /\ result.outcome = "accepted" => d
      /\ result.outcome = "rejected" => ~d
      /\ result.outcome = "not_attempted" => ~MessageSent(result.reply)
      /\ ~MessageSent(result.reply) => ~d
  BY HandlersTruthful
<1>5. /\ sends' \in [Key -> Nat]
      /\ sends'[k] = IF MessageSent(result.reply) THEN 1 ELSE 0
      /\ \A j \in Key \ {k} : sends'[j] = sends[j]
  <2>1. sends[k] + 1 = 1 /\ sends \in [Key -> Nat]  BY <1>1, <1>2 DEF TypeOK
  <2>2. QED  BY <1>2, <1>3, <2>1
<1>6. /\ delivered' \in [Key -> BOOLEAN]
      /\ delivered'[k] <=> d
      /\ \A j \in Key \ {k} : delivered'[j] = delivered[j]
  <2>1. delivered \in [Key -> BOOLEAN]  BY <1>1 DEF TypeOK
  <2>2. QED  BY <1>2, <1>3, <1>4, <2>1
<1>7. UNCHANGED <<execution, attempt, failure, minted, now, at, token, timestamp, resolution>>
  BY DEF Execute
<1>8. LocalTypes' /\ OnlyMoves(w) /\ pc'[w] = "executed" /\ evidence'[w] = result.outcome
  BY <1>1, <1>3, <1>4, <1>7, TypeSplit DEF Execute, Goto, LocalTypes, OnlyMoves
<1>9. TypeOK'
  BY <1>1, <1>5, <1>6, <1>7, <1>8, TypeSplit, TypeSplitPrime DEF RowTypes
<1>10. /\ attempt[k].number = 1
       /\ execution[k].status \in {"PENDING", "FAILED"}
       /\ failure[k].providerOutcome \notin {"rejected", "not_attempted"}
  BY <1>1, <1>2 DEF InFlight, KeyInv, NoFailure
<1>11. KeyInv(k)'
  BY <1>1, <1>2, <1>5, <1>7, <1>10 DEF KeyInv
<1>12. OwnerInv(w)'
  BY <1>2, <1>4, <1>5, <1>6, <1>7, <1>8 DEF Owns, OwnerInv, InFlight
<1>13. LocalInv(w)' /\ BackedInv(w)'
  BY <1>1, <1>7, <1>8 DEF LocalInv, BackedInv
<1>14. ASSUME NEW q \in Process \ {w}, at[q] = k PROVE OwnerInv(q)' /\ BackedInv(q)'
  <2>1. OwnerInv(q)'  BY <1>1, <1>8, <1>14, Bystander
  <2>2. BackedInv(q)  BY DEF IInv
  <2>3. QED  BY <1>7, <2>1, <2>2 DEF BackedInv
<1>15. QED
  BY <1>1, <1>5, <1>6, <1>7, <1>8, <1>9, <1>11, <1>12, <1>13, <1>14, KeyStep

LEMMA FinalizeSuccessStep == ASSUME IInv, NEW w \in Worker, FinalizeSuccess(w) PROVE IInv'
<1> w \in Process  BY DEF Process
<1> PICK k \in Key : k = at[w]
  BY DEF IInv, LocalInv, FinalizeSuccess
<1>1. /\ TypeOK /\ KeyInv(k) /\ OwnerInv(w)
      /\ \A q \in Process \ {w} : Owns(q) => at[q] # k
  BY OwnerFacts DEF FinalizeSuccess, Owns
<1>2. /\ execution[k].status = "PENDING" /\ execution[k].claimToken # NoToken
      /\ attempt[k] = [number |-> 1, status |-> "STARTED"]
      /\ failure[k] = NoFailure /\ sends[k] <= 1 /\ delivered[k]
  BY <1>1 DEF FinalizeSuccess, Fenced, Started, OwnerInv, Owns, KeyInv
<1>3. /\ execution' \in [Key -> Row]
      /\ execution'[k].status = "SUCCESS"
      /\ execution'[k].claimToken = execution[k].claimToken
      /\ \A j \in Key \ {k} : execution'[j] = execution[j]
  BY <1>1, DecideShape DEF FinalizeSuccess, Status, Outcome
<1>4. /\ attempt' \in [Key -> Attempt]
      /\ attempt'[k] = [number |-> 1, status |-> "ACCEPTED"]
      /\ \A j \in Key \ {k} : attempt'[j] = attempt[j]
  <2>1. AttemptStatus("accepted") = "ACCEPTED"  BY DEF AttemptStatus
  <2>2. CloseAttempt(k, "ACCEPTED")  BY <2>1 DEF FinalizeSuccess
  <2>3. QED  BY <1>1, <1>2, <2>2, CloseShape
<1>5. /\ LocalTypes' /\ OnlyMoves(w)
      /\ pc'[w] = "resolved" /\ at'[w] = k /\ resolution'[w] = "advance"
  BY <1>1, ReturnShape DEF FinalizeSuccess, Resolution
<1>6. UNCHANGED <<failure, minted, now, sends, delivered>>
  BY DEF FinalizeSuccess
<1>7. TypeOK'
  BY <1>1, <1>3, <1>4, <1>5, <1>6, TypeSplit, TypeSplitPrime DEF RowTypes
<1>8. KeyInv(k)'
  BY <1>2, <1>3, <1>4, <1>6 DEF KeyInv, NoFailure
<1>9. LocalInv(w)' /\ OwnerInv(w)' /\ BackedInv(w)' /\ ~Owns(w)'
  BY <1>3, <1>5 DEF Owns, LocalInv, OwnerInv, BackedInv
<1>10. ASSUME NEW q \in Process \ {w}, at[q] = k PROVE OwnerInv(q)' /\ BackedInv(q)'
  BY <1>1, <1>2, <1>5, <1>10, Bystander
<1>11. QED  BY <1>3, <1>4, <1>5, <1>6, <1>7, <1>8, <1>9, <1>10, KeyStep

LEMMA FinalizeFailureStep == ASSUME IInv, NEW w \in Worker, FinalizeFailure(w) PROVE IInv'
<1> w \in Process  BY DEF Process
<1> PICK k \in Key : k = at[w]
  BY DEF IInv, LocalInv, FinalizeFailure
<1> DEFINE e == evidence[w]
<1>1. /\ TypeOK /\ KeyInv(k) /\ OwnerInv(w)
      /\ \A q \in Process \ {w} : Owns(q) => at[q] # k
  BY OwnerFacts DEF FinalizeFailure, Owns
<1>2. /\ execution[k].status = "PENDING" /\ execution[k].claimToken # NoToken
      /\ attempt[k] = [number |-> 1, status |-> "STARTED"]
      /\ failure[k] = NoFailure /\ sends[k] <= 1
      /\ e \in FailureOutcome
      /\ e = "rejected" => ~delivered[k]
      /\ e = "not_attempted" => sends[k] = 0
  BY <1>1 DEF FinalizeFailure, Fenced, Started, OwnerInv, Owns, KeyInv, Outcome
<1>3. /\ AttemptStatus(e) \in {"REJECTED", "NOT_ATTEMPTED", "UNKNOWN"}
      /\ e \in Outcome /\ "FAILED" \in Status /\ 1 \in 0..1
  BY <1>2 DEF AttemptStatus, FailureOutcome, Outcome, Status
<1>4. /\ execution' \in [Key -> Row]
      /\ execution'[k].status = "FAILED"
      /\ execution'[k].claimToken = execution[k].claimToken
      /\ execution'[k].providerOutcome = e
      /\ \A j \in Key \ {k} : execution'[j] = execution[j]
  <2>1. DecideRow(k, "FAILED", e)  BY DEF FinalizeFailure
  <2>2. QED  BY <1>1, <1>3, <2>1, DecideShape
<1>5. /\ attempt' \in [Key -> Attempt]
      /\ attempt'[k] = [number |-> 1, status |-> AttemptStatus(e)]
      /\ \A j \in Key \ {k} : attempt'[j] = attempt[j]
  <2>1. CloseAttempt(k, AttemptStatus(e))  BY DEF FinalizeFailure
  <2>2. QED  BY <1>1, <1>2, <1>3, <2>1, CloseShape
<1>6. /\ failure' \in [Key -> Failure \cup {NoFailure}]
      /\ failure'[k] # NoFailure
      /\ failure'[k].attempt = 1 /\ failure'[k].providerOutcome = e
      /\ \A j \in Key \ {k} : failure'[j] = failure[j]
  <2>1. RecordFailure(k, 1, e, "captured")  BY DEF FinalizeFailure
  <2>2. QED  BY <1>1, <1>2, <1>3, <2>1, RecordShape
<1>7. /\ LocalTypes' /\ OnlyMoves(w)
      /\ pc'[w] = "resolved" /\ at'[w] = k /\ resolution'[w] = "park"
  BY <1>1, ReturnShape DEF FinalizeFailure, Resolution
<1>8. UNCHANGED <<minted, now, sends, delivered>>
  BY DEF FinalizeFailure
<1> HIDE DEF e
<1>9. TypeOK'
  BY <1>1, <1>4, <1>5, <1>6, <1>7, <1>8, TypeSplit, TypeSplitPrime DEF RowTypes
<1>10. KeyInv(k)'
  BY <1>2, <1>4, <1>5, <1>6, <1>8 DEF KeyInv
<1>11. LocalInv(w)' /\ OwnerInv(w)' /\ BackedInv(w)' /\ ~Owns(w)'
  BY <1>4, <1>6, <1>7 DEF Owns, LocalInv, OwnerInv, BackedInv
<1>12. ASSUME NEW q \in Process \ {w}, at[q] = k PROVE OwnerInv(q)' /\ BackedInv(q)'
  BY <1>1, <1>2, <1>7, <1>12, Bystander
<1>13. QED  BY <1>4, <1>5, <1>6, <1>7, <1>8, <1>9, <1>10, <1>11, <1>12, KeyStep

---------------------------------------------------------------------------
(***************************************************************************)
(* The invariant is inductive.                                             *)
(***************************************************************************)

LEMMA InitInv == Init => IInv
<1> SUFFICES ASSUME Init PROVE IInv
  OBVIOUS
<1>1. TypeOK  BY TypeInit
<1>2. /\ \A p \in Process : pc[p] = "idle" /\ resolution[p] = "none"
      /\ \A k \in Key : /\ execution[k].claimToken = NoToken
                        /\ attempt[k] = NoAttempt /\ failure[k] = NoFailure
                        /\ sends[k] = 0 /\ ~delivered[k]
  BY StageAssumption DEF Init, LegacyRow, NoRow
<1>3. \A k \in Key : KeyInv(k)
  BY <1>2 DEF KeyInv, NoAttempt, NoFailure
<1>4. \A p \in Process : LocalInv(p) /\ OwnerInv(p) /\ BackedInv(p) /\ ~Owns(p)
  BY <1>2 DEF LocalInv, OwnerInv, BackedInv, Owns
<1>5. QED  BY <1>1, <1>3, <1>4 DEF IInv, SoleOwner

LEMMA TickStep == ASSUME IInv, Tick PROVE IInv'
<1>1. TypeOK'
  BY StageAssumption DEF IInv, TypeOK, Tick
<1>2. QED  BY <1>1, IdleStep DEF Tick

LEMMA Inductive == ASSUME IInv, [Next]_vars PROVE IInv'
<1>1. ASSUME NEW w \in Worker, WorkerStep(w) PROVE IInv'
  BY <1>1, DeliverStep, ClaimStep, ClaimTakenStep, ResolveExistingStep, ResolveExpiredStep,
     QuarantineExpiredStep, QuarantineStaleStep, RereadStep, FinalizeNotAttemptedStep,
     StartAttemptStep, ExecuteStep, FinalizeSuccessStep, FinalizeFailureStep, LostClaimStep,
     SettleStep DEF WorkerStep
<1>2. ASSUME NEW r \in Reconciler, ReconcilerStep(r) PROVE IInv'
  BY <1>2, FindExpiredStep, FindFailedStep, ReconcileExpiredStep, RepairFailedStep
     DEF ReconcilerStep
<1>3. ASSUME NEW p \in Process, Crash(p) PROVE IInv'
  BY <1>3, CrashStep
<1>4. CASE Tick
  BY <1>4, TickStep
<1>5. CASE UNCHANGED vars
  <2>1. TypeOK'  BY <1>5 DEF IInv, TypeOK, vars
  <2>2. QED  BY <1>5, <2>1, IdleStep DEF vars
<1>6. QED  BY <1>1, <1>2, <1>3, <1>4, <1>5 DEF Next

LEMMA InvariantHolds == Spec => []IInv
<1>1. Init => IInv  BY InitInv
<1>2. IInv /\ [Next]_vars => IInv'  BY Inductive
<1>3. QED  BY <1>1, <1>2, PTL DEF Spec

---------------------------------------------------------------------------
(***************************************************************************)
(* The theorems.                                                           *)
(***************************************************************************)

\* Every variable keeps its type in every reachable state.
THEOREM TypeCorrect == Spec => []TypeOK
<1>1. IInv => TypeOK  BY DEF IInv
<1>2. QED  BY <1>1, InvariantHolds, PTL

\* executeStage sends at most one message for a stage, whatever is
\* redelivered, crashes or is given up in between.
THEOREM SendsOnce == Spec => []AtMostOneSend
<1>1. IInv => AtMostOneSend  BY DEF IInv, KeyInv, AtMostOneSend
<1>2. QED  BY <1>1, InvariantHolds, PTL

\* The row of a claimed stage, its failure record and its attempt tell the
\* same story, whichever of worker, second worker or reconciler wrote them.
THEOREM OneTruthHolds == Spec => []OneTruth
<1>1. ASSUME IInv, NEW k \in Claimed
      PROVE  /\ (execution[k].status = "FAILED") = (failure[k] # NoFailure)
             /\ failure[k] # NoFailure =>
                  /\ failure[k].providerOutcome = execution[k].providerOutcome
                  /\ failure[k].attempt = attempt[k].number
                  /\ attempt[k].status \in
                       {AttemptStatus(failure[k].providerOutcome)} \cup
                       (IF failure[k].providerOutcome = "unknown" /\ failure[k].attempt = 0
                        THEN {"none"} ELSE {})
             /\ execution[k].status = "SUCCESS" =>
                  attempt[k] = [number |-> 1, status |-> "ACCEPTED"]
  <2>1. KeyInv(k) /\ k \in Key /\ execution[k].claimToken # NoToken
    BY <1>1 DEF IInv, Claimed
  <2>2. QED  BY <2>1 DEF KeyInv, NoAttempt
<1>2. IInv => OneTruth  BY <1>1 DEF OneTruth
<1>3. QED  BY <1>2, InvariantHolds, PTL

\* The recorded evidence is never refuted by what the provider did.
THEOREM EvidenceIsTruthful == Spec => []TruthfulEvidence
<1>1. ASSUME IInv, NEW k \in Claimed
      PROVE  /\ execution[k].status = "SUCCESS" => delivered[k]
             /\ failure[k].providerOutcome = "rejected" => ~delivered[k]
             /\ failure[k].providerOutcome = "not_attempted" => sends[k] = 0
             /\ failure[k] # NoFailure /\ failure[k].attempt = 0 => sends[k] = 0
  <2>1. KeyInv(k) /\ k \in Key /\ execution[k].claimToken # NoToken
    BY <1>1 DEF IInv, Claimed
  <2>2. QED  BY <2>1 DEF KeyInv
<1>2. IInv => TruthfulEvidence  BY <1>1 DEF TruthfulEvidence
<1>3. QED  BY <1>2, InvariantHolds, PTL

\* A message is settled only on a decision the rows still hold.
THEOREM ResolutionsBacked == Spec => []ResolutionBacked
<1>1. IInv => ResolutionBacked  BY DEF IInv, BackedInv, ResolutionBacked, Process
<1>2. QED  BY <1>1, InvariantHolds, PTL

\* A step writes the rows of one key at most, and only what is undecided.
Writes(j) ==
    /\ Decided(j) => execution'[j] = execution[j] /\ attempt'[j] = attempt[j]
    /\ failure[j] # NoFailure => failure'[j] = failure[j]
    /\ \A i \in Key \ {j} :
         execution'[i] = execution[i] /\ attempt'[i] = attempt[i] /\ failure'[i] = failure[i]

LEMMA OpenWrites ==
    ASSUME IInv, NEW j \in Key, execution[j].status \notin {"SUCCESS", "FAILED"},
           \A i \in Key \ {j} :
             execution'[i] = execution[i] /\ attempt'[i] = attempt[i] /\ failure'[i] = failure[i]
    PROVE  Writes(j)
BY DEF IInv, KeyInv, Writes, Decided

LEMMA QuarantineWrites ==
    ASSUME IInv, NEW p \in Process, at[p] \in Key, CanQuarantine(p),
           NEW src \in {"captured", "reconciled_execution"}, Quarantine(at[p], src)
    PROVE  Writes(at[p])
<1>1. PICK k \in Key : k = at[p]
  OBVIOUS
<1>2. execution[k].status \notin {"SUCCESS", "FAILED"}
  BY <1>1 DEF CanQuarantine, Fenced
<1>3. TypeOK /\ Quarantine(k, src)
  BY <1>1 DEF IInv
<1>4. \A i \in Key \ {k} :
        execution'[i] = execution[i] /\ attempt'[i] = attempt[i] /\ failure'[i] = failure[i]
  BY <1>3, QuarantineShape
<1>5. Writes(k)
  BY <1>2, <1>4, OpenWrites
<1>. QED  BY <1>1, <1>5

LEMMA WriteStep ==
    ASSUME IInv, [Next]_vars
    PROVE  UNCHANGED <<execution, attempt, failure>> \/ \E j \in Key : Writes(j)
<1> TypeOK  BY DEF IInv
<1>1. ASSUME NEW w \in Worker, WorkerStep(w)
      PROVE  UNCHANGED <<execution, attempt, failure>> \/ \E j \in Key : Writes(j)
  <2> w \in Process  BY DEF Process
  <2>1. CASE \/ Deliver(w) \/ ClaimTaken(w) \/ ResolveExisting(w) \/ ResolveExpired(w)
             \/ QuarantineStale(w) \/ Reread(w) \/ Execute(w) \/ LostClaim(w) \/ Settle(w)
    BY <2>1 DEF Deliver, ClaimTaken, ResolveExisting, ResolveExpired, QuarantineStale,
                Reread, Execute, LostClaim, Settle
  <2>2. CASE Claim(w)
    <3> PICK k \in Key : k = at[w]  BY <2>2 DEF IInv, LocalInv, Claim
    <3>1. \A i \in Key \ {k} :
            execution'[i] = execution[i] /\ attempt'[i] = attempt[i] /\ failure'[i] = failure[i]
      BY <2>2 DEF Claim, TypeOK
    <3>2. QED  BY <2>2, <3>1, OpenWrites DEF Claim
  <2>3. CASE QuarantineExpired(w)
    <3>1. at[w] \in Key  BY <2>3 DEF IInv, LocalInv, QuarantineExpired
    <3>2. QED  BY <2>3, <3>1, QuarantineWrites DEF QuarantineExpired
  <2>4. CASE FinalizeNotAttempted(w) \/ StartAttempt(w) \/ FinalizeSuccess(w) \/ FinalizeFailure(w)
    <3> PICK k \in Key : k = at[w]
      BY <2>4 DEF IInv, LocalInv, FinalizeNotAttempted, StartAttempt, FinalizeSuccess,
                  FinalizeFailure
    <3>1. execution[k].status = "PENDING"
      BY <2>4 DEF FinalizeNotAttempted, StartAttempt, FinalizeSuccess, FinalizeFailure, Fenced
    <3>2. \A i \in Key \ {k} :
            execution'[i] = execution[i] /\ attempt'[i] = attempt[i] /\ failure'[i] = failure[i]
      BY <2>4 DEF FinalizeNotAttempted, StartAttempt, FinalizeSuccess, FinalizeFailure,
                  DecideRow, CreateAttempt, CloseAttempt, RecordFailure, TypeOK
    <3>3. QED  BY <3>1, <3>2, OpenWrites
  <2>5. QED  BY <1>1, <2>1, <2>2, <2>3, <2>4 DEF WorkerStep
<1>2. ASSUME NEW r \in Reconciler, ReconcilerStep(r)
      PROVE  UNCHANGED <<execution, attempt, failure>> \/ \E j \in Key : Writes(j)
  <2> r \in Process  BY DEF Process
  <2>1. CASE FindExpired(r) \/ FindFailed(r)
    BY <2>1 DEF FindExpired, FindFailed
  <2>2. CASE ReconcileExpired(r)
    <3>1. at[r] \in Key  BY <2>2 DEF IInv, LocalInv, ReconcileExpired
    <3>2. QED  BY <2>2, <3>1, QuarantineWrites DEF ReconcileExpired
  <2>3. CASE RepairFailed(r)
    <3> PICK k \in Key : k = at[r]  BY <2>3 DEF IInv, LocalInv, RepairFailed
    <3>1. CASE UNCHANGED failure  BY <2>3, <3>1 DEF RepairFailed
    <3>2. CASE CanRepair(r) /\ RecordFailure(k, 0, "unknown", "reconciled_execution")
      BY <2>3, <3>2 DEF RepairFailed, CanRepair, RecordFailure, Writes, TypeOK
    <3>3. QED  BY <2>3, <3>1, <3>2 DEF RepairFailed
  <2>4. QED  BY <1>2, <2>1, <2>2, <2>3 DEF ReconcilerStep
<1>3. ASSUME NEW p \in Process, Crash(p) PROVE UNCHANGED <<execution, attempt, failure>>
  BY <1>3 DEF Crash
<1>4. CASE Tick \/ UNCHANGED vars
  BY <1>4 DEF Tick, vars
<1>5. QED  BY <1>1, <1>2, <1>3, <1>4 DEF Next

\* A decided row, a closed attempt and a failure record are never rewritten.
THEOREM DecisionsAreFinal == Spec => FinalRows
<1> DEFINE Final == \A k \in Key :
        /\ Decided(k) => execution'[k] = execution[k] /\ attempt'[k] = attempt[k]
        /\ failure[k] # NoFailure => failure'[k] = failure[k]
<1>1. ASSUME IInv, [Next]_vars PROVE Final
  BY <1>1, WriteStep DEF Writes
<1> HIDE DEF Final
<1>2. IInv /\ [Next]_vars => [Final]_vars  BY <1>1
<1>3. Spec => [][Final]_vars  BY <1>2, InvariantHolds, PTL DEF Spec
<1>4. QED  BY <1>3 DEF FinalRows, Final

---------------------------------------------------------------------------
(***************************************************************************)
(* The rows implement StageContract.                                       *)
(***************************************************************************)
MappedRecord(k) == [attempt |-> failure[k].attempt, outcome |-> failure[k].providerOutcome]

\* A step that the contract does not speak of.
LEMMA Unspoken ==
    ASSUME UNCHANGED <<failure, sends, delivered>>,
           \A k \in Key : Decision(k)' = Decision(k)
    PROVE  UNCHANGED Contract!cvars
<1>1. [k \in Key |-> Decision(k)]' = [k \in Key |-> Decision(k)]
  OBVIOUS
<1>2. QED  BY <1>1 DEF Contract!cvars

\* The mapped state, when only the rows of k change.
LEMMA MappedRows ==
    ASSUME NEW k \in Key,
           \A i \in Key \ {k} : execution'[i] = execution[i] /\ failure'[i] = failure[i]
    PROVE  /\ [j \in Key |-> Decision(j)]' =
                [[j \in Key |-> Decision(j)] EXCEPT ![k] = Decision(k)']
           /\ [j \in Key |-> MappedRecord(j)]' =
                [[j \in Key |-> MappedRecord(j)] EXCEPT ![k] = MappedRecord(k)']
<1>1. \A i \in Key \ {k} : Decision(i)' = Decision(i) /\ MappedRecord(i)' = MappedRecord(i)
  BY DEF Decision, MappedRecord
<1>2. QED  BY <1>1

\* A stage fails with a record its sends do not refute.
LEMMA FailsAsPromised ==
    ASSUME NEW k \in Key, Decision(k) = "open", Decision(k)' = "failed",
           MappedRecord(k)' \in Contract!Record,
           MappedRecord(k)'.attempt = 0 \/ MappedRecord(k)'.outcome = "not_attempted" =>
               sends[k] = 0,
           MappedRecord(k)'.outcome = "rejected" => ~delivered[k],
           \A i \in Key \ {k} : execution'[i] = execution[i] /\ failure'[i] = failure[i],
           UNCHANGED <<sends, delivered>>
    PROVE  Contract!Fail(k)
BY MappedRows DEF Contract!Fail, MappedRecord

LEMMA QuarantineFails ==
    ASSUME IInv, NEW p \in Process, NEW k \in Key, k = at[p], CanQuarantine(p),
           NEW src \in {"captured", "reconciled_execution"}, Quarantine(k, src),
           UNCHANGED <<sends, delivered>>
    PROVE  Contract!Fail(k)
<1>1. KeyInv(k) /\ execution[k].status = "PENDING"
  BY DEF IInv, CanQuarantine, Fenced
<1>2. /\ execution'[k].status = "FAILED"
      /\ failure'[k].attempt = IF attempt[k].status = "STARTED" THEN 1 ELSE 0
      /\ failure'[k].providerOutcome = "unknown"
      /\ \A i \in Key \ {k} : execution'[i] = execution[i] /\ failure'[i] = failure[i]
  BY QuarantineShape DEF IInv
<1>3. failure'[k].attempt \in 0..1 /\ (failure'[k].attempt = 0 => sends[k] = 0)
  BY <1>1, <1>2 DEF KeyInv, NoAttempt
<1>4. Decision(k) = "open" /\ Decision(k)' = "failed"
  BY <1>1, <1>2 DEF Decision
<1>5. /\ MappedRecord(k)' \in Contract!Record
      /\ MappedRecord(k)'.outcome = "unknown" /\ MappedRecord(k)'.attempt = failure'[k].attempt
  BY <1>2, <1>3 DEF MappedRecord, Contract!Record
<1>6. QED  BY <1>2, <1>3, <1>4, <1>5, FailsAsPromised

LEMMA ContractInit == Init => Contract!CInit
<1> SUFFICES ASSUME Init PROVE Contract!CInit
  OBVIOUS
<1>1. \A k \in Key : Decision(k) \in {"open", "succeeded", "failed"}
  BY DEF Decision
<1>2. [k \in Key |-> MappedRecord(k)] = [k \in Key |-> Contract!NoRecord]
  BY DEF Init, MappedRecord, NoFailure, Contract!NoRecord
<1>3. sends = [k \in Key |-> 0] /\ delivered = [k \in Key |-> FALSE]
  BY DEF Init
<1>4. QED  BY <1>1, <1>2, <1>3 DEF Contract!CInit, MappedRecord

\* The one step that sends is the contract's Send, or sent nothing.
LEMMA ExecuteSends ==
    ASSUME IInv, NEW w \in Worker, Execute(w)
    PROVE  UNCHANGED Contract!cvars \/ \E k \in Key : Contract!Send(k)
<1> w \in Process  BY DEF Process
<1> PICK k \in Key : k = at[w]
  BY DEF IInv, LocalInv, Execute
<1>1. TypeOK /\ InFlight(k) /\ sends[k] = 0 /\ ~delivered[k]
  BY DEF IInv, Execute, OwnerInv, Owns
<1> PICK result \in HandlerResults :
      /\ sends' = [sends EXCEPT ![k] = IF MessageSent(result.reply) THEN @ + 1 ELSE @]
      /\ \E d \in MayBeDelivered(result.reply) :
           delivered' = [delivered EXCEPT ![k] = @ \/ d]
  BY DEF Execute
<1>2. PICK d \in MayBeDelivered(result.reply) : delivered' = [delivered EXCEPT ![k] = @ \/ d]
  OBVIOUS
<1>3. d \in BOOLEAN /\ (~MessageSent(result.reply) => ~d)
  BY HandlersTruthful
<1>4. UNCHANGED <<execution, failure>>
  BY DEF Execute
<1>5. delivered' = [delivered EXCEPT ![k] = d]
  BY <1>1, <1>2, <1>3 DEF TypeOK
<1>6. CASE ~MessageSent(result.reply)
  <2>1. sends' = sends  BY <1>1, <1>6 DEF TypeOK
  <2>2. delivered' = delivered  BY <1>1, <1>3, <1>5, <1>6 DEF TypeOK
  <2>3. \A j \in Key : Decision(j)' = Decision(j)  BY <1>4 DEF Decision
  <2>4. QED  BY <1>4, <2>1, <2>2, <2>3, Unspoken
<1>7. CASE MessageSent(result.reply)
  <2>1. sends' = [sends EXCEPT ![k] = 1]
    BY <1>1, <1>7 DEF TypeOK
  <2>2. \/ Decision(k) = "open"
        \/ MappedRecord(k) = [attempt |-> 1, outcome |-> "unknown"]
    BY <1>1 DEF InFlight, Decision, MappedRecord
  <2>3. /\ [j \in Key |-> Decision(j)]' = [j \in Key |-> Decision(j)]
        /\ [j \in Key |-> MappedRecord(j)]' = [j \in Key |-> MappedRecord(j)]
    BY <1>4 DEF Decision, MappedRecord
  <2>4. Contract!Send(k)
    BY <1>1, <1>3, <1>5, <2>1, <2>2, <2>3 DEF Contract!Send, MappedRecord
  <2>5. QED  BY <2>4
<1>8. QED  BY <1>6, <1>7

LEMMA FinalizeSuccessSucceeds ==
    ASSUME IInv, NEW w \in Worker, FinalizeSuccess(w)
    PROVE  \E k \in Key : Contract!Succeed(k)
<1> w \in Process  BY DEF Process
<1> PICK k \in Key : k = at[w]
  BY DEF IInv, LocalInv, FinalizeSuccess
<1>1. TypeOK /\ delivered[k] /\ execution[k].status = "PENDING"
  BY DEF IInv, FinalizeSuccess, OwnerInv, Owns, Fenced
<1>2. /\ execution'[k].status = "SUCCESS"
      /\ \A j \in Key \ {k} : execution'[j] = execution[j]
  BY <1>1, DecideShape DEF FinalizeSuccess, Status, Outcome
<1>3. UNCHANGED <<failure, sends, delivered>>
  BY DEF FinalizeSuccess
<1>4. Decision(k) = "open" /\ Decision(k)' = "succeeded"
  BY <1>1, <1>2 DEF Decision
<1>5. [j \in Key |-> Decision(j)]' = [[j \in Key |-> Decision(j)] EXCEPT ![k] = "succeeded"]
  BY <1>2, <1>3, <1>4, MappedRows
<1>6. Contract!Succeed(k)
  BY <1>1, <1>3, <1>4, <1>5 DEF Contract!Succeed
<1>7. QED  BY <1>6

LEMMA FinalizeFails ==
    ASSUME IInv, NEW w \in Worker, FinalizeNotAttempted(w) \/ FinalizeFailure(w)
    PROVE  \E k \in Key : Contract!Fail(k)
<1> w \in Process  BY DEF Process
<1> PICK k \in Key : k = at[w]
  BY DEF IInv, LocalInv, FinalizeNotAttempted, FinalizeFailure
<1>1. /\ TypeOK /\ KeyInv(k) /\ OwnerInv(w) /\ execution[k].status = "PENDING"
  BY DEF IInv, FinalizeNotAttempted, FinalizeFailure, Fenced
<1>2. PICK n \in 0..1, o \in FailureOutcome :
        /\ DecideRow(k, "FAILED", o)
        /\ RecordFailure(k, n, o, "captured")
        /\ n = 0 \/ o = "not_attempted" => sends[k] = 0
        /\ o = "rejected" => ~delivered[k]
  <2>1. CASE FinalizeNotAttempted(w)
    BY <1>1, <2>1 DEF FinalizeNotAttempted, FailureOutcome, OwnerInv, KeyInv, NoAttempt
  <2>2. CASE FinalizeFailure(w)
    <3>1. evidence[w] \in FailureOutcome
      BY <1>1, <2>2 DEF FinalizeFailure, OwnerInv, Outcome
    <3>2. QED  BY <1>1, <2>2, <3>1 DEF FinalizeFailure, OwnerInv
  <2>3. QED  BY <2>1, <2>2
<1>3. "FAILED" \in Status /\ o \in Outcome
  BY DEF Status, Outcome
<1>4. /\ execution'[k].status = "FAILED"
      /\ \A j \in Key \ {k} : execution'[j] = execution[j]
  BY <1>1, <1>2, <1>3, DecideShape
<1>5. /\ failure'[k].attempt = n /\ failure'[k].providerOutcome = o
      /\ \A j \in Key \ {k} : failure'[j] = failure[j]
  BY <1>1, <1>2, RecordShape
<1>6. UNCHANGED <<sends, delivered>>
  BY DEF FinalizeNotAttempted, FinalizeFailure
<1>7. Decision(k) = "open" /\ Decision(k)' = "failed"
  BY <1>1, <1>4 DEF Decision
<1>8. /\ MappedRecord(k)' \in Contract!Record
      /\ MappedRecord(k)'.attempt = n /\ MappedRecord(k)'.outcome = o
  BY <1>5 DEF MappedRecord, Contract!Record, FailureOutcome
<1>9. \A i \in Key \ {k} : execution'[i] = execution[i] /\ failure'[i] = failure[i]
  BY <1>4, <1>5
<1>10. Contract!Fail(k)
  BY <1>2, <1>6, <1>7, <1>8, <1>9, FailsAsPromised
<1>11. QED  BY <1>10

LEMMA RepairSupplements ==
    ASSUME IInv, NEW r \in Reconciler, RepairFailed(r)
    PROVE  UNCHANGED Contract!cvars \/ \E k \in Key : Contract!Supplement(k)
<1> r \in Process  BY DEF Process
<1> PICK k \in Key : k = at[r]
  BY DEF IInv, LocalInv, RepairFailed
<1>1. TypeOK /\ UNCHANGED <<execution, sends, delivered>>
  BY DEF IInv, RepairFailed
<1>2. CASE UNCHANGED failure
  <2>1. \A j \in Key : Decision(j)' = Decision(j)  BY <1>1 DEF Decision
  <2>2. QED  BY <1>1, <1>2, <2>1, Unspoken
<1>3. CASE CanRepair(r) /\ RecordFailure(k, 0, "unknown", "reconciled_execution")
  <2>1. /\ failure'[k].attempt = 0 /\ failure'[k].providerOutcome = "unknown"
        /\ \A j \in Key \ {k} : failure'[j] = failure[j]
    BY <1>1, <1>3, RecordShape DEF FailureOutcome
  <2>2. MappedRecord(k)' = [attempt |-> 0, outcome |-> "unknown"]
    BY <2>1 DEF MappedRecord
  <2>3. MappedRecord(k) = Contract!NoRecord
    BY <1>3 DEF CanRepair, MappedRecord, NoFailure, Contract!NoRecord
  <2>4. Decision(k) = "failed"
    BY <1>3 DEF CanRepair, Decision
  <2>5. [j \in Key |-> Decision(j)]' = [j \in Key |-> Decision(j)]
    BY <1>1 DEF Decision
  <2>6. [j \in Key |-> MappedRecord(j)]' =
          [[j \in Key |-> MappedRecord(j)] EXCEPT ![k] = [attempt |-> 0, outcome |-> "unknown"]]
    BY <1>1, <2>1, <2>2, MappedRows
  <2>7. Contract!Supplement(k)
    BY <1>1, <2>3, <2>4, <2>5, <2>6 DEF Contract!Supplement, MappedRecord
  <2>8. QED  BY <2>7
<1>4. QED  BY <1>2, <1>3 DEF RepairFailed

LEMMA ContractStep == ASSUME IInv, [Next]_vars PROVE [Contract!CNext]_(Contract!cvars)
<1> TypeOK  BY DEF IInv
<1>1. ASSUME NEW w \in Worker, WorkerStep(w) PROVE [Contract!CNext]_(Contract!cvars)
  <2> w \in Process  BY DEF Process
  <2>1. CASE \/ Deliver(w) \/ ClaimTaken(w) \/ ResolveExisting(w) \/ ResolveExpired(w)
             \/ QuarantineStale(w) \/ Reread(w) \/ StartAttempt(w) \/ LostClaim(w) \/ Settle(w)
    <3>1. UNCHANGED <<execution, failure, sends, delivered>>
      BY <2>1 DEF Deliver, ClaimTaken, ResolveExisting, ResolveExpired, QuarantineStale,
                  Reread, StartAttempt, LostClaim, Settle
    <3>2. \A j \in Key : Decision(j)' = Decision(j)  BY <3>1 DEF Decision
    <3>3. QED  BY <3>1, <3>2, Unspoken
  <2>2. CASE Claim(w)
    <3> PICK k \in Key : k = at[w]  BY <2>2 DEF IInv, LocalInv, Claim
    <3>1. /\ execution[k].status = "absent" /\ execution'[k].status = "PENDING"
          /\ \A j \in Key \ {k} : execution'[j] = execution[j]
          /\ UNCHANGED <<failure, sends, delivered>>
      BY <2>2 DEF Claim, TypeOK
    <3>2. ASSUME NEW j \in Key PROVE Decision(j)' = Decision(j)
      BY <3>1 DEF Decision
    <3>3. QED  BY <3>1, <3>2, Unspoken
  <2>3. CASE QuarantineExpired(w)
    <3> PICK k \in Key : k = at[w]  BY <2>3 DEF IInv, LocalInv, QuarantineExpired
    <3>1. Contract!Fail(k)  BY <2>3, QuarantineFails DEF QuarantineExpired
    <3>2. QED  BY <3>1 DEF Contract!CNext
  <2>4. CASE Execute(w)
    BY <2>4, ExecuteSends DEF Contract!CNext
  <2>5. CASE FinalizeSuccess(w)
    BY <2>5, FinalizeSuccessSucceeds DEF Contract!CNext
  <2>6. CASE FinalizeNotAttempted(w) \/ FinalizeFailure(w)
    BY <2>6, FinalizeFails DEF Contract!CNext
  <2>7. QED  BY <1>1, <2>1, <2>2, <2>3, <2>4, <2>5, <2>6 DEF WorkerStep
<1>2. ASSUME NEW r \in Reconciler, ReconcilerStep(r) PROVE [Contract!CNext]_(Contract!cvars)
  <2> r \in Process  BY DEF Process
  <2>1. CASE FindExpired(r) \/ FindFailed(r)
    <3>1. UNCHANGED <<execution, failure, sends, delivered>>
      BY <2>1 DEF FindExpired, FindFailed
    <3>2. \A j \in Key : Decision(j)' = Decision(j)  BY <3>1 DEF Decision
    <3>3. QED  BY <3>1, <3>2, Unspoken
  <2>2. CASE ReconcileExpired(r)
    <3> PICK k \in Key : k = at[r]  BY <2>2 DEF IInv, LocalInv, ReconcileExpired
    <3>1. UNCHANGED <<sends, delivered>>  BY <2>2 DEF ReconcileExpired
    <3>2. CASE CanQuarantine(r) /\ Quarantine(k, "reconciled_execution")
      <4>1. Contract!Fail(k)  BY <3>1, <3>2, QuarantineFails
      <4>2. QED  BY <4>1 DEF Contract!CNext
    <3>3. CASE UNCHANGED <<execution, failure>>
      <4>1. \A j \in Key : Decision(j)' = Decision(j)  BY <3>3 DEF Decision
      <4>2. QED  BY <3>1, <3>3, <4>1, Unspoken
    <3>4. QED  BY <2>2, <3>2, <3>3 DEF ReconcileExpired
  <2>3. CASE RepairFailed(r)
    BY <2>3, RepairSupplements DEF Contract!CNext
  <2>4. QED  BY <1>2, <2>1, <2>2, <2>3 DEF ReconcilerStep
<1>3. ASSUME \/ \E p \in Process : Crash(p)
             \/ Tick
             \/ UNCHANGED vars
      PROVE  UNCHANGED Contract!cvars
  <2>1. UNCHANGED <<execution, failure, sends, delivered>>
    BY <1>3 DEF Crash, Tick, vars
  <2>2. \A j \in Key : Decision(j)' = Decision(j)  BY <2>1 DEF Decision
  <2>3. QED  BY <2>1, <2>2, Unspoken
<1>4. QED  BY <1>1, <1>2, <1>3 DEF Next

\* Every behaviour of the workers and reconcilers is one the contract allows:
\* a stage is decided once, fails together with a record its sends do not
\* refute, and sends late only what the record calls an unknown attempt.
THEOREM ContractImplemented == Spec => ImplementsContract
<1>1. Init => Contract!CInit  BY ContractInit
<1>2. IInv /\ [Next]_vars => [Contract!CNext]_(Contract!cvars)  BY ContractStep
<1>3. QED  BY <1>1, <1>2, InvariantHolds, PTL DEF Spec, ImplementsContract, Contract!CSpec

=============================================================================

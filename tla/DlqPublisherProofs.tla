------------------------- MODULE DlqPublisherProofs -------------------------
(***************************************************************************)
(* Theorems of DlqPublisher, for any number of failures, publishers and    *)
(* tokens, any lease, backoff, stall and skew.  The inductive invariant IInv *)
(* says what a publisher relies on between its query and its settlement:   *)
(* the rows it has in hand are recorded, what the broker acknowledged is   *)
(* in the topic, and a stamped row carries no claim.                       *)
(***************************************************************************)
EXTENDS DlqPublisher, TLAPS

Recorded == 1..recorded

\* A stamped failure is in the topic and is nobody's.
StampInv ==
    \A f \in Failure : publishedAt[f] =>
        f \in topic /\ f \in Recorded /\ claimToken[f] = NoToken

\* What a publisher has in hand is recorded, and acknowledged when it says so.
HandInv(p) ==
    /\ candidates[p] \subseteq Recorded
    /\ pc[p] \in {"claimed", "sending", "acked", "refused"} => row[p] \in Recorded
    /\ pc[p] = "acked" => row[p] \in topic

IInv ==
    /\ TypeOK
    /\ topic \subseteq Recorded
    /\ StampInv
    /\ \A p \in Publisher : HandInv(p)

---------------------------------------------------------------------------
LEMMA ConstantFacts ==
    /\ Failures \in Nat /\ NoToken \notin Token
    /\ Take \in Nat \ {0} /\ Lease \in Nat \ {0} /\ BaseBackoff \in Nat \ {0}
    /\ MaxBackoff \in Nat \ {0} /\ MaxAttempts \in Nat \ {0} /\ Stall \in Nat
    /\ Skew \in Nat /\ Skew <= Stall
BY PublisherAssumption

\* The backoff stays between nothing and its cap, whatever the counter says.
LEMMA BackoffBounded ==
    ASSUME NEW n \in Nat
    PROVE  RetryDelay(n) \in 0..MaxBackoff
<1>. DEFINE e == AtMost(AtLeast(n - 1, 0), 6)
<1>1. e \in 0..6
  BY DEF AtMost, AtLeast
<1>2. PICK m \in 0..6 : m = e
  BY <1>1
<1>3. 2^m \in {1, 2, 4, 8, 16, 32, 64}
  <2>1. 2^0 = 1 /\ 2^1 = 2 /\ 2^2 = 4 /\ 2^3 = 8 /\ 2^4 = 16 /\ 2^5 = 32 /\ 2^6 = 64
    BY SMT
  <2>2. m \in {0, 1, 2, 3, 4, 5, 6}
    OBVIOUS
  <2>. QED  BY <2>1, <2>2
<1>4. PICK x \in {1, 2, 4, 8, 16, 32, 64} : x = 2^m
  BY <1>3
<1>5. BaseBackoff * x \in Nat
  BY <1>4, ConstantFacts
<1>6. RetryDelay(n) = AtMost(MaxBackoff, BaseBackoff * x)
  BY <1>2, <1>4 DEF RetryDelay
<1>. QED  BY <1>5, <1>6, ConstantFacts DEF AtMost

---------------------------------------------------------------------------
\* Initial states and steps.

LEMMA InitInv == ASSUME Init PROVE IInv
BY ConstantFacts DEF Init, IInv, TypeOK, StampInv, HandInv, Recorded, Past, Failure

LEMMA RecordStep == ASSUME IInv, Record PROVE IInv'
<1>1. recorded' = recorded + 1 /\ recorded' \in Failure /\ recorded \in Nat
      /\ UNCHANGED <<row_vars, topic, local_vars>>
  BY DEF Record, IInv, TypeOK
<1>2. \A f \in Recorded : f \in Recorded'
  BY <1>1, ConstantFacts DEF Recorded, Failure
<1>3. TypeOK'
  BY <1>1 DEF IInv, TypeOK, row_vars, local_vars
<1>4. topic' \subseteq Recorded' /\ StampInv'
  BY <1>1, <1>2 DEF IInv, StampInv, row_vars
<1>5. \A p \in Publisher : HandInv(p)'
  BY <1>1, <1>2 DEF IInv, HandInv, local_vars
<1>. QED  BY <1>3, <1>4, <1>5 DEF IInv

\* A publisher whose round ends has nothing in hand.
LEMMA EndRoundKeeps ==
    ASSUME IInv, NEW p \in Publisher, EndRound(p), UNCHANGED <<recorded, topic>>
    PROVE  /\ pc' \in [Publisher -> {"idle", "claiming", "claimed", "sending", "acked", "refused"}]
           /\ age' \in [Publisher -> -Skew..Stall]
           /\ candidates' \in [Publisher -> SUBSET Failure]
           /\ row' \in [Publisher -> Failure \cup {0}]
           /\ token' \in [Publisher -> Token \cup {NoToken}]
           /\ seenAttempts' \in [Publisher -> 0..MaxAttempts]
           /\ \A q \in Publisher :
                /\ pc'[q] \in {"claimed", "sending", "acked", "refused"} => row'[q] \in Failure
                /\ HandInv(q)'
BY ConstantFacts DEF IInv, TypeOK, EndRound, HandInv, Recorded

LEMMA FindDueStep == ASSUME IInv, NEW p \in Publisher, FindDue(p) PROVE IInv'
<1>0. PICK old \in Reading :
        LET due == {f \in 1..recorded : Due(f, old)} IN
        /\ candidates' = [candidates EXCEPT ![p] =
             {f \in due : Cardinality({g \in due : g < f}) < Take}]
        /\ age' = [age EXCEPT ![p] = old]
  BY DEF FindDue
<1>. DEFINE due == {f \in 1..recorded : Due(f, old)}
            first == {f \in due : Cardinality({g \in due : g < f}) < Take}
<1>1. first \subseteq Recorded /\ first \subseteq Failure
  <2>1. first \subseteq Recorded
    BY DEF Recorded
  <2>2. recorded \in Nat /\ recorded <= Failures
    BY ConstantFacts DEF IInv, TypeOK, Failure
  <2>3. Recorded \subseteq Failure
    BY <2>2, ConstantFacts DEF Recorded, Failure
  <2>. QED  BY <2>1, <2>3
<1>2. /\ pc' = [pc EXCEPT ![p] = "claiming"]
      /\ candidates' = [candidates EXCEPT ![p] = first]
      /\ age' = [age EXCEPT ![p] = old]
      /\ UNCHANGED <<recorded, row_vars, topic, row, token, seenAttempts>>
  BY <1>0 DEF FindDue
<1>. HIDE DEF first
<1>6. age' \in [Publisher -> -Skew..Stall]
  BY <1>2, ConstantFacts DEF IInv, TypeOK, Reading
<1>3. TypeOK'
  BY <1>1, <1>2, <1>6 DEF IInv, TypeOK, row_vars
<1>4. topic' \subseteq Recorded' /\ StampInv'
  BY <1>2 DEF IInv, StampInv, row_vars, Recorded
<1>5. \A q \in Publisher : HandInv(q)'
  BY <1>1, <1>2 DEF IInv, TypeOK, HandInv, Recorded
<1>. QED  BY <1>3, <1>4, <1>5 DEF IInv

LEMMA ClaimStep == ASSUME IInv, NEW p \in Publisher, Claim(p) PROVE IInv'
<1>1. PICK f \in candidates[p] : ClaimRow(p, f) \/ SkipRow(p, f)
  BY DEF Claim
<1>2. UNCHANGED <<recorded, publishedAt, retryLeft, topic, seenAttempts>>
  BY DEF Claim
<1>3. f \in Recorded /\ f \in Failure /\ age[p] \in -Skew..Stall
  BY <1>1 DEF IInv, TypeOK, HandInv
<1>4. CASE ClaimRow(p, f)
  <2>1. PICK t \in Token : /\ claimToken' = [claimToken EXCEPT ![f] = t]
                           /\ token' = [token EXCEPT ![p] = t]
    BY <1>4 DEF ClaimRow
  <2>2. /\ leaseLeft' = [leaseLeft EXCEPT ![f] = Lease - age[p]]
        /\ attempts' = [attempts EXCEPT ![f] = AtMost(@ + 1, MaxAttempts)]
        /\ row' = [row EXCEPT ![p] = f]
        /\ pc' = [pc EXCEPT ![p] = "claimed"]
        /\ age' = [age EXCEPT ![p] = 0]
        /\ candidates' = [candidates EXCEPT ![p] = {}]
        /\ ~publishedAt[f]
    BY <1>4 DEF ClaimRow, Due
  <2>3. Lease - age[p] \in Past..Lease + Skew
    BY <1>3, ConstantFacts DEF Past
  <2>4. AtMost(attempts[f] + 1, MaxAttempts) \in 0..MaxAttempts
    BY <1>3, ConstantFacts DEF IInv, TypeOK, AtMost
  <2>5. TypeOK'
    BY <1>2, <1>3, <2>1, <2>2, <2>3, <2>4, ConstantFacts DEF IInv, TypeOK
  <2>6. topic' \subseteq Recorded' /\ StampInv'
    BY <1>2, <1>3, <2>1, <2>2 DEF IInv, TypeOK, StampInv, Recorded
  <2>7. \A q \in Publisher : HandInv(q)'
    BY <1>2, <1>3, <2>2 DEF IInv, TypeOK, HandInv, Recorded
  <2>. QED  BY <2>5, <2>6, <2>7 DEF IInv
<1>5. CASE SkipRow(p, f)
  <2>1. /\ candidates' = [candidates EXCEPT ![p] = candidates[p] \ {f}]
        /\ UNCHANGED <<claimToken, token, leaseLeft, attempts, row, pc, age>>
    BY <1>5 DEF SkipRow
  <2>2. TypeOK'
    BY <1>2, <2>1 DEF IInv, TypeOK
  <2>3. topic' \subseteq Recorded' /\ StampInv'
    BY <1>2, <2>1 DEF IInv, StampInv, Recorded
  <2>4. \A q \in Publisher : HandInv(q)'
    BY <1>2, <2>1 DEF IInv, TypeOK, HandInv, Recorded
  <2>. QED  BY <2>2, <2>3, <2>4 DEF IInv
<1>. QED  BY <1>1, <1>4, <1>5

\* Steps of a publisher that holds a row, before it settles it.
LEMMA SendingStep ==
    ASSUME IInv, NEW p \in Publisher, ReadClaimed(p) \/ SendAcked(p) \/ SendFailed(p)
    PROVE  IInv'
<1>1. pc[p] \in {"claimed", "sending"} /\ row[p] \in Recorded /\ row[p] \in Failure
      /\ UNCHANGED <<recorded, row_vars, age, candidates, row, token>>
  BY DEF ReadClaimed, SendAcked, SendFailed, IInv, TypeOK, HandInv
<1>2. PICK c \in {"sending", "acked", "refused"} : pc' = [pc EXCEPT ![p] = c]
  BY DEF ReadClaimed, SendAcked, SendFailed
<1>3. topic' \in {topic, topic \cup {row[p]}} /\ (c = "acked" => row[p] \in topic')
  <2>1. pc'[p] = c
    BY <1>2 DEF IInv, TypeOK
  <2>2. pc'[p] = "acked" => topic' = topic \cup {row[p]}
    BY DEF ReadClaimed, SendAcked, SendFailed, IInv, TypeOK
  <2>. QED  BY <2>1, <2>2 DEF ReadClaimed, SendAcked, SendFailed
<1>4. seenAttempts' \in [Publisher -> 0..MaxAttempts]
  BY <1>1 DEF ReadClaimed, SendAcked, SendFailed, IInv, TypeOK
<1>5. TypeOK'
  BY <1>1, <1>2, <1>3, <1>4 DEF IInv, TypeOK, row_vars
<1>6. topic' \subseteq Recorded' /\ StampInv'
  BY <1>1, <1>3 DEF IInv, StampInv, row_vars, Recorded
<1>7. \A q \in Publisher : HandInv(q)'
  BY <1>1, <1>2, <1>3 DEF IInv, TypeOK, HandInv, Recorded
<1>. QED  BY <1>5, <1>6, <1>7 DEF IInv

LEMMA ReleaseStep == ASSUME IInv, NEW p \in Publisher, Release(p) PROVE IInv'
<1>1. row[p] \in Failure /\ EndRound(p) /\ UNCHANGED <<recorded, publishedAt, attempts, topic>>
  BY DEF Release, IInv, TypeOK
<1>2. PICK old \in Reading :
        \/ UNCHANGED <<claimToken, leaseLeft, retryLeft>>
        \/ ReleaseRow(row[p], RetryDelay(seenAttempts[p]) - old)
  BY ConstantFacts DEF Release, Reading
<1>. DEFINE n == RetryDelay(seenAttempts[p]) - old
<1>7. n \in Past..MaxBackoff + Skew
  <2>1. PICK d \in 0..MaxBackoff : d = RetryDelay(seenAttempts[p])
    BY BackoffBounded DEF IInv, TypeOK
  <2>. QED  BY <2>1, ConstantFacts DEF Reading, Past
<1>3. \/ UNCHANGED <<claimToken, leaseLeft, retryLeft>>
      \/ /\ claimToken' = [claimToken EXCEPT ![row[p]] = NoToken]
         /\ leaseLeft' = [leaseLeft EXCEPT ![row[p]] = Past]
         /\ retryLeft' = [retryLeft EXCEPT ![row[p]] = n]
  BY <1>2 DEF ReleaseRow
<1>. HIDE DEF n
<1>4. /\ claimToken' \in [Failure -> Token \cup {NoToken}]
      /\ leaseLeft' \in [Failure -> Past..Lease + Skew]
      /\ retryLeft' \in [Failure -> Past..MaxBackoff + Skew]
  BY <1>1, <1>3, <1>7, ConstantFacts DEF IInv, TypeOK, Past
<1>5. TypeOK'
  BY <1>1, <1>4, EndRoundKeeps DEF IInv, TypeOK
<1>6. topic' \subseteq Recorded' /\ StampInv'
  BY <1>1, <1>3 DEF IInv, TypeOK, StampInv, Recorded
<1>. QED  BY <1>1, <1>5, <1>6, EndRoundKeeps DEF IInv

LEMMA StampStep == ASSUME IInv, NEW p \in Publisher, Stamp(p) PROVE IInv'
<1>1. /\ row[p] \in Failure /\ row[p] \in topic /\ row[p] \in Recorded
      /\ EndRound(p) /\ UNCHANGED <<recorded, attempts, topic>>
  BY DEF Stamp, IInv, TypeOK, HandInv
<1>2. \/ UNCHANGED <<publishedAt, claimToken, leaseLeft, retryLeft>>
      \/ /\ publishedAt' = [publishedAt EXCEPT ![row[p]] = TRUE]
         /\ claimToken' = [claimToken EXCEPT ![row[p]] = NoToken]
         /\ leaseLeft' = [leaseLeft EXCEPT ![row[p]] = Past]
         /\ retryLeft' = [retryLeft EXCEPT ![row[p]] = Past]
  BY DEF Stamp, ReleaseRow
<1>3. /\ publishedAt' \in [Failure -> BOOLEAN]
      /\ claimToken' \in [Failure -> Token \cup {NoToken}]
      /\ leaseLeft' \in [Failure -> Past..Lease + Skew]
      /\ retryLeft' \in [Failure -> Past..MaxBackoff + Skew]
  <2>1. Past \in Past..Lease + Skew /\ Past \in Past..MaxBackoff + Skew
    BY ConstantFacts DEF Past
  <2>2. /\ publishedAt' \in [Failure -> BOOLEAN]
        /\ claimToken' \in [Failure -> Token \cup {NoToken}]
    BY <1>1, <1>2, Zenon DEF IInv, TypeOK
  <2>3. /\ leaseLeft' \in [Failure -> Past..Lease + Skew]
        /\ retryLeft' \in [Failure -> Past..MaxBackoff + Skew]
    BY <1>1, <1>2, <2>1 DEF IInv, TypeOK
  <2>. QED  BY <2>2, <2>3
<1>4. TypeOK'
  BY <1>1, <1>3, EndRoundKeeps DEF IInv, TypeOK
<1>5. topic' \subseteq Recorded' /\ StampInv'
  BY <1>1, <1>2 DEF IInv, TypeOK, StampInv, Recorded
<1>. QED  BY <1>1, <1>4, <1>5, EndRoundKeeps DEF IInv

LEMMA RoundEndsStep ==
    ASSUME IInv, NEW p \in Publisher, NothingClaimed(p) \/ Crash(p) PROVE IInv'
<1>1. EndRound(p) /\ UNCHANGED <<recorded, row_vars, topic>>
  BY DEF NothingClaimed, Crash
<1>2. TypeOK'
  BY <1>1, EndRoundKeeps DEF IInv, TypeOK, row_vars
<1>3. topic' \subseteq Recorded' /\ StampInv'
  BY <1>1 DEF IInv, StampInv, row_vars, Recorded
<1>. QED  BY <1>1, <1>2, <1>3, EndRoundKeeps DEF IInv

LEMMA TickStep == ASSUME IInv, Tick PROVE IInv'
<1>1. \A f \in Failure : /\ AtLeast(leaseLeft[f] - 1, Past) \in Past..Lease + Skew
                         /\ AtLeast(retryLeft[f] - 1, Past) \in Past..MaxBackoff + Skew
  BY ConstantFacts DEF IInv, TypeOK, AtLeast, Past
<1>2. /\ leaseLeft' \in [Failure -> Past..Lease + Skew]
      /\ retryLeft' \in [Failure -> Past..MaxBackoff + Skew]
  BY <1>1 DEF Tick
<1>3. \A p \in Publisher : (IF pc[p] = "claiming" THEN age[p] + 1 ELSE 0) \in -Skew..Stall
  <2>1. \A p \in Publisher : age[p] \in -Skew..Stall /\ (pc[p] = "claiming" => age[p] < Stall)
    BY DEF Tick, IInv, TypeOK
  <2>. QED  BY <2>1, ConstantFacts
<1>4. age' \in [Publisher -> -Skew..Stall]
  <2>1. age' = [p \in Publisher |-> IF pc[p] = "claiming" THEN age[p] + 1 ELSE 0]
    BY DEF Tick
  <2>. QED  BY <1>3, <2>1
<1>5. UNCHANGED <<recorded, publishedAt, claimToken, attempts, topic,
                  pc, candidates, row, token, seenAttempts>>
  BY DEF Tick
<1>6. TypeOK'
  BY <1>2, <1>4, <1>5 DEF IInv, TypeOK
<1>7. topic' \subseteq Recorded' /\ StampInv'
  BY <1>5 DEF IInv, StampInv, Recorded
<1>8. \A p \in Publisher : HandInv(p)'
  BY <1>5 DEF IInv, HandInv, Recorded
<1>. QED  BY <1>6, <1>7, <1>8 DEF IInv

LEMMA StutterStep == ASSUME IInv, UNCHANGED vars PROVE IInv'
BY DEF vars, IInv, TypeOK, StampInv, HandInv, Recorded

LEMMA NextInv == IInv /\ [Next]_vars => IInv'
BY RecordStep, FindDueStep, ClaimStep, SendingStep, ReleaseStep, StampStep, RoundEndsStep,
   TickStep, StutterStep DEF Next, PublishNext

\* The inductive invariant on which the other theorems rest.
THEOREM InvariantHolds == Spec => []IInv
<1>. QED  BY InitInv, NextInv, PTL DEF Spec

\* Every variable keeps its type; the backoff in particular stays within its cap.
THEOREM TypeCorrect == Spec => []TypeOK
<1>1. IInv => TypeOK
  BY DEF IInv
<1>. QED  BY <1>1, InvariantHolds, PTL

---------------------------------------------------------------------------
\* What one step does to the claims and stamps of the rows.

LEMMA StepRespectsLeases ==
    ASSUME IInv, [Next]_vars, NEW f \in Failure, claimToken'[f] \notin {claimToken[f], NoToken}
    PROVE  leaseLeft[f] <= Skew
<1>1. PICK p \in Publisher : Claim(p)
  <2>1. claimToken' # claimToken
    OBVIOUS
  <2>2. ASSUME NEW p \in Publisher, Release(p) \/ Stamp(p) PROVE FALSE
    BY <2>2 DEF Release, Stamp, ReleaseRow, IInv, TypeOK
  <2>. QED
    BY <2>1, <2>2 DEF Next, PublishNext, Record, FindDue, NothingClaimed, ReadClaimed, SendAcked,
                      SendFailed, Crash, Tick, row_vars, vars
<1>2. PICK g \in candidates[p] : ClaimRow(p, g) \/ SkipRow(p, g)
  BY <1>1 DEF Claim
<1>3. g \in Failure /\ age[p] \in -Skew..Stall
  BY <1>2 DEF IInv, TypeOK
<1>4. ClaimRow(p, g)
  BY <1>2 DEF SkipRow
<1>5. leaseLeft[g] <= -age[p] /\ g = f
  BY <1>3, <1>4 DEF ClaimRow, Due, IInv, TypeOK
<1>. QED  BY <1>3, <1>5, ConstantFacts DEF IInv, TypeOK, Past

LEMMA StepSettlesOwn ==
    ASSUME IInv, [Next]_vars, NEW f \in Failure, claimToken[f] # NoToken, claimToken'[f] = NoToken
    PROVE  \E p \in Publisher :
             row[p] = f /\ token[p] = claimToken[f] /\ pc[p] \in {"acked", "refused"}
             /\ pc'[p] = "idle"
<1>1. PICK p \in Publisher : Release(p) \/ Stamp(p)
  <2>1. claimToken' # claimToken
    OBVIOUS
  <2>2. ASSUME NEW p \in Publisher, Claim(p) PROVE FALSE
    <3>1. PICK g \in candidates[p] : ClaimRow(p, g) \/ SkipRow(p, g)
      BY <2>2 DEF Claim
    <3>2. PICK t \in Token : claimToken' = [claimToken EXCEPT ![g] = t]
      BY <2>1, <3>1 DEF ClaimRow, SkipRow
    <3>. QED  BY <3>2, ConstantFacts DEF IInv, TypeOK
  <2>. QED
    BY <2>1, <2>2 DEF Next, PublishNext, Record, FindDue, NothingClaimed, ReadClaimed, SendAcked,
                      SendFailed, Crash, Tick, row_vars, vars
<1>2. pc[p] \in {"acked", "refused"} /\ pc'[p] = "idle" /\ row[p] \in Failure
  BY <1>1 DEF Release, Stamp, EndRound, IInv, TypeOK
<1>3. Holds(p) /\ claimToken' = [claimToken EXCEPT ![row[p]] = NoToken]
  BY <1>1 DEF Release, Stamp, ReleaseRow
<1>4. row[p] = f /\ token[p] = claimToken[f]
  BY <1>2, <1>3 DEF Holds, IInv, TypeOK
<1>. QED  BY <1>2, <1>4

LEMMA StepKeepsStamps ==
    ASSUME IInv, [Next]_vars, NEW f \in Failure, publishedAt[f]
    PROVE  /\ publishedAt'[f] /\ claimToken'[f] = NoToken /\ attempts'[f] = attempts[f]
           /\ retryLeft'[f] <= retryLeft[f]
<1>0. retryLeft[f] \in Past..MaxBackoff + Skew
  BY DEF IInv, TypeOK
<1>1. claimToken[f] = NoToken
  BY DEF IInv, StampInv
<1>2. ASSUME NEW p \in Publisher, Claim(p)
      PROVE  UNCHANGED <<publishedAt[f], claimToken[f], attempts[f], retryLeft[f]>>
  <2>1. PICK g \in candidates[p] : ClaimRow(p, g) \/ SkipRow(p, g)
    BY <1>2 DEF Claim
  <2>. QED  BY <1>2, <2>1 DEF Claim, ClaimRow, SkipRow, Due, IInv, TypeOK
<1>3. ASSUME NEW p \in Publisher, Release(p) \/ Stamp(p)
      PROVE  UNCHANGED <<publishedAt[f], claimToken[f], attempts[f], retryLeft[f]>>
  BY <1>3 DEF Release, Stamp, ReleaseRow, Holds, IInv, TypeOK
<1>4. ASSUME Tick
      PROVE  UNCHANGED <<publishedAt, claimToken, attempts>> /\ retryLeft'[f] <= retryLeft[f]
  BY <1>0, <1>4, ConstantFacts DEF Tick, AtLeast, Past
<1>5. retryLeft[f] <= retryLeft[f]
  BY <1>0, ConstantFacts DEF Past
<1>. QED
  BY <1>1, <1>2, <1>3, <1>4, <1>5 DEF Next, PublishNext, Record, FindDue, NothingClaimed,
     ReadClaimed, SendAcked, SendFailed, Crash, row_vars, vars

\* A claim replaces another one only when that one's lease is over, give or take what
\* clocks differ, however old the reading is by which it is decided (dueWhere, claimNext).
THEOREM ClaimsRespectLeases == Spec => LeaseRespected
<1>1. IInv /\ [Next]_vars => [\A f \in Failure :
        claimToken'[f] \notin {claimToken[f], NoToken} => leaseLeft[f] <= Skew]_vars
  BY StepRespectsLeases
<1>. QED  BY <1>1, InvariantHolds, PTL DEF Spec, LeaseRespected

\* A publisher with a row in hand has a token, and no two have the same.
TokenInv ==
    /\ \A p \in Publisher : row[p] # 0 => token[p] # NoToken
    /\ \A p, q \in Publisher : token[p] = token[q] /\ token[p] # NoToken => p = q

\* Only a claim hands out a token, a new one; the end of a round drops token and row.
LEMMA TokensApart == ASSUME IInv, TokenInv, [Next]_vars PROVE TokenInv'
<1>1. CASE UNCHANGED <<row, token>>
  BY <1>1 DEF TokenInv
<1>2. ASSUME NEW p \in Publisher, EndRound(p) PROVE TokenInv'
  <2>1. \A q \in Publisher :
          \/ row'[q] = row[q] /\ token'[q] = token[q]
          \/ row'[q] = 0 /\ token'[q] = NoToken
    BY <1>2 DEF EndRound, IInv, TypeOK
  <2>. QED  BY <2>1 DEF TokenInv
<1>3. ASSUME NEW p \in Publisher, Claim(p) PROVE TokenInv'
  <2>1. PICK f \in candidates[p] : ClaimRow(p, f) \/ SkipRow(p, f)
    BY <1>3 DEF Claim
  <2>2. CASE SkipRow(p, f)
    BY <1>1, <2>2 DEF SkipRow
  <2>3. CASE ClaimRow(p, f)
    <3>1. PICK t \in Token : /\ \A q \in Publisher : token[q] # t
                             /\ token' = [token EXCEPT ![p] = t]
      BY <2>3 DEF ClaimRow
    <3>2. row' = [row EXCEPT ![p] = f]
      BY <2>3 DEF ClaimRow
    <3>. QED  BY <3>1, <3>2, ConstantFacts DEF TokenInv, IInv, TypeOK
  <2>. QED  BY <2>1, <2>2, <2>3
<1>4. \/ UNCHANGED <<row, token>>
      \/ \E p \in Publisher : EndRound(p) \/ Claim(p)
  BY DEF Next, PublishNext, Record, FindDue, NothingClaimed, ReadClaimed, SendAcked, SendFailed,
         Release, Stamp, Crash, Tick, local_vars, vars
<1>. QED  BY <1>1, <1>2, <1>3, <1>4

\* A claim is given back by its holder only, and of those that have the row in hand one at
\* most is its holder (claimNext, the settling updates of publishNext).
THEOREM HoldersSettle == Spec => OnlyHolderSettles
<1>1. Init => TokenInv
  BY DEF Init, TokenInv
<1>2. IInv /\ TokenInv /\ [Next]_vars => TokenInv'
  BY TokensApart
<1>3. TokenInv => OneHolder
  BY DEF TokenInv, OneHolder, Holds
<1>4. TokenInv' => OneHolder'
  BY <1>3, PTL
<1>5. IInv /\ TokenInv /\ [Next]_vars => [
        /\ OneHolder'
        /\ \A f \in Failure :
             claimToken[f] # NoToken /\ claimToken'[f] = NoToken =>
                 \E p \in Publisher :
                     row[p] = f /\ token[p] = claimToken[f] /\ pc[p] \in {"acked", "refused"}
                     /\ pc'[p] = "idle"]_vars
  BY <1>2, <1>4, StepSettlesOwn
<1>. QED  BY <1>1, <1>2, <1>5, InvariantHolds, PTL DEF Spec, OnlyHolderSettles

\* A stamped failure is never touched again (dueWhere, the settling updates).
THEOREM StampsAreFinal == Spec => StampIsFinal
<1>1. IInv /\ [Next]_vars => [\A f \in Failure : publishedAt[f] =>
        /\ publishedAt'[f] /\ claimToken'[f] = NoToken
        /\ attempts'[f] = attempts[f]
        /\ retryLeft'[f] <= retryLeft[f]]_vars
  BY StepKeepsStamps
<1>. QED  BY <1>1, InvariantHolds, PTL DEF Spec, StampIsFinal

---------------------------------------------------------------------------
\* The refinement of AtLeastOnce.

Owed == {f \in 1..recorded : ~publishedAt[f]}
Done == {f \in 1..recorded : publishedAt[f]}

LEMMA RecordRelays == ASSUME IInv, Record PROVE Relay!LNext
<1>1. PICK i \in Failure : i = recorded + 1
  BY DEF Record
<1>2. recorded \in Nat /\ recorded' = i /\ publishedAt' = publishedAt /\ topic' = topic
  BY <1>1 DEF Record, row_vars, IInv, TypeOK
<1>. DEFINE before == 1..recorded
            after == 1..recorded'
<1>3. i \notin before /\ after = before \cup {i}
  BY <1>1, <1>2
<1>4. ~publishedAt[i]
  BY <1>3 DEF IInv, StampInv, Recorded
<1>5. Owed' = Owed \cup {i} /\ Done' = Done
  <2>1. Owed = {f \in before : ~publishedAt[f]} /\ Done = {f \in before : publishedAt[f]}
    BY DEF Owed, Done
  <2>2. Owed' = {f \in after : ~publishedAt[f]} /\ Done' = {f \in after : publishedAt[f]}
    BY <1>2 DEF Owed, Done
  <2>. QED  BY <1>4, <1>3, <2>1, <2>2, Zenon
<1>6. Relay!Enqueue(i)
  BY <1>2, <1>5, <1>3 DEF Relay!Enqueue, Owed, Done
<1>. QED  BY <1>6 DEF Relay!LNext

LEMMA SendRelays ==
    ASSUME IInv, NEW p \in Publisher, SendAcked(p) \/ SendFailed(p)
    PROVE  [Relay!LNext]_(Relay!lvars)
<1>1. PICK f \in Failure : f = row[p] /\ f \in Owed \cup Done
  BY DEF SendAcked, SendFailed, IInv, TypeOK, HandInv, Recorded, Owed, Done
<1>2. Owed' = Owed /\ Done' = Done /\ topic' \in {topic, topic \cup {f}}
  BY <1>1 DEF SendAcked, SendFailed, row_vars, Owed, Done
<1>3. CASE topic' = topic
  BY <1>2, <1>3 DEF Relay!lvars, Owed, Done
<1>4. CASE topic' = topic \cup {f}
  <2>1. Relay!Publish({f})
    BY <1>1, <1>2, <1>4 DEF Relay!Publish, Owed, Done
  <2>2. {f} \in SUBSET Failure
    OBVIOUS
  <2>. QED  BY <2>1, <2>2 DEF Relay!LNext
<1>. QED  BY <1>2, <1>3, <1>4

LEMMA StampRelays ==
    ASSUME IInv, NEW p \in Publisher, Stamp(p)
    PROVE  [Relay!LNext]_(Relay!lvars)
<1>1. PICK f \in Failure : f = row[p] /\ f \in topic /\ f \in 1..recorded
  BY DEF Stamp, IInv, TypeOK, HandInv, Recorded
<1>2. recorded' = recorded /\ topic' = topic
  BY DEF Stamp
<1>3. CASE publishedAt' = publishedAt
  BY <1>2, <1>3 DEF Relay!lvars
<1>4. CASE Holds(p) /\ publishedAt' = [publishedAt EXCEPT ![f] = TRUE]
  <2>1. ~publishedAt[f] /\ publishedAt'[f]
        /\ \A g \in 1..recorded : g # f => publishedAt'[g] = publishedAt[g]
    BY <1>1, <1>4, ConstantFacts DEF Holds, IInv, TypeOK, Failure
  <2>2. f \in Owed /\ Owed' = Owed \ {f} /\ Done' = Done \cup {f}
    BY <1>1, <1>2, <2>1, Zenon DEF Owed, Done
  <2>3. Relay!Retire({f})
    BY <1>1, <1>2, <2>2 DEF Relay!Retire, Owed, Done
  <2>4. {f} \in SUBSET Failure
    OBVIOUS
  <2>. QED  BY <2>3, <2>4 DEF Relay!LNext
<1>. QED  BY <1>1, <1>3, <1>4 DEF Stamp

LEMMA StepRelays == ASSUME IInv, [Next]_vars PROVE [Relay!LNext]_(Relay!lvars)
<1>1. ASSUME NEW p \in Publisher,
             \/ FindDue(p) \/ Claim(p) \/ NothingClaimed(p) \/ ReadClaimed(p)
             \/ Release(p) \/ Crash(p)
      PROVE  UNCHANGED <<recorded, publishedAt, topic>>
  BY <1>1 DEF FindDue, Claim, NothingClaimed, ReadClaimed, Release, Crash, row_vars
<1>2. Tick \/ UNCHANGED vars => UNCHANGED <<recorded, publishedAt, topic>>
  BY DEF Tick, vars
<1>3. UNCHANGED <<recorded, publishedAt, topic>> => UNCHANGED Relay!lvars
  BY DEF Relay!lvars
<1>. QED
  BY <1>1, <1>2, <1>3, RecordRelays, SendRelays, StampRelays DEF Next, PublishNext

\* No failure is stamped before the topic has it, whichever publisher stamps it and however
\* late (publishNext).
THEOREM PublisherRelays == Spec => RelaysAtLeastOnce
<1>1. ASSUME Init PROVE Relay!LInit
  BY <1>1, ConstantFacts DEF Init, Relay!LInit
<1>. QED
  BY <1>1, StepRelays, InvariantHolds, PTL DEF Spec, RelaysAtLeastOnce, Relay!LSpec
=============================================================================

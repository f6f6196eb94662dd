---------------------------- MODULE StageContract ---------------------------
(***************************************************************************)
(* What the execution of a stage promises to whoever reads its rows: the   *)
(* operator who decides on a replay, the DLQ consumer, the next stage.     *)
(* It speaks of the decision taken on a stage, of the failure put on       *)
(* record, and of the message to the provider; not of claims, leases,      *)
(* workers, crashes or reconcilers.                                        *)
(***************************************************************************)
EXTENDS Naturals

CONSTANT Key

VARIABLES
    decision,    \* "open", then for good "succeeded" or "failed"
    record,      \* the failure on record, if any
    sent,        \* messages sent to the provider
    delivered    \* the provider delivered one

cvars == <<decision, record, sent, delivered>>

NoRecord == [attempt |-> 0, outcome |-> "none"]
Record   == [attempt: 0..1, outcome: {"rejected", "not_attempted", "unknown"}]

\* A stage may have been decided, without a record, before there were any.
CInit ==
    /\ decision \in [Key -> {"open", "succeeded", "failed"}]
    /\ record = [k \in Key |-> NoRecord]
    /\ sent = [k \in Key |-> 0]
    /\ delivered = [k \in Key |-> FALSE]

\* The message leaves once.  It may leave late, after the stage was given
\* up, but only if the record says that an attempt was made and that its
\* outcome is not known.
Send(k) ==
    /\ sent[k] = 0
    /\ \/ decision[k] = "open"
       \/ record[k] = [attempt |-> 1, outcome |-> "unknown"]
    /\ sent' = [sent EXCEPT ![k] = 1]
    /\ \E d \in BOOLEAN : delivered' = [delivered EXCEPT ![k] = d]
    /\ UNCHANGED <<decision, record>>

\* Only a delivered message makes a stage succeed.
Succeed(k) ==
    /\ decision[k] = "open"
    /\ delivered[k]
    /\ decision' = [decision EXCEPT ![k] = "succeeded"]
    /\ UNCHANGED <<record, sent, delivered>>

\* A stage fails together with its record, and the record is not refuted by
\* what happened: attempt 0 and "not_attempted" mean that nothing was sent,
\* "rejected" that nothing was delivered.
Fail(k) ==
    /\ decision[k] = "open"
    /\ decision' = [decision EXCEPT ![k] = "failed"]
    /\ \E r \in Record :
         /\ r.attempt = 0 \/ r.outcome = "not_attempted" => sent[k] = 0
         /\ r.outcome = "rejected" => ~delivered[k]
         /\ record' = [record EXCEPT ![k] = r]
    /\ UNCHANGED <<sent, delivered>>

\* A stage that failed before there were records gets one.
Supplement(k) ==
    /\ decision[k] = "failed"
    /\ record[k] = NoRecord
    /\ record' = [record EXCEPT ![k] = [attempt |-> 0, outcome |-> "unknown"]]
    /\ UNCHANGED <<decision, sent, delivered>>

CNext == \E k \in Key : Send(k) \/ Succeed(k) \/ Fail(k) \/ Supplement(k)

CSpec == CInit /\ [][CNext]_cvars
=============================================================================

--------------------------- MODULE ReplayAllowance --------------------------
(***************************************************************************)
(* What the replay of a failed stage promises to those who decide about    *)
(* it: a stage has one allowance, which is reserved, used and spent once,  *)
(* and is not taken up while what it was granted on does not hold;         *)
(* the provider is called for it at most once; and the verdict that it     *)
(* ends with is never refuted by what the provider did.  It speaks of      *)
(* stages only, not of requests, approvals, dispatchers, messages or       *)
(* leases.                                                                 *)
(***************************************************************************)
EXTENDS Naturals

CONSTANT Stage

VARIABLES
    allowance,   \* "unused", "reserved", "running", then for good "spent"
    verdict,     \* what a spent allowance came to
    calls,       \* messages sent to the provider for it
    arrived,     \* the provider delivered one
    barred       \* the stages whose allowance has lost its authority

avars == <<allowance, verdict, calls, arrived, barred>>

AInit ==
    /\ allowance = [n \in Stage |-> "unused"]
    /\ verdict = [n \in Stage |-> "none"]
    /\ calls = [n \in Stage |-> 0]
    /\ arrived = [n \in Stage |-> FALSE]
    /\ barred = {}

Reserve(n) ==
    /\ allowance[n] = "unused"
    /\ allowance' = [allowance EXCEPT ![n] = "reserved"]
    /\ UNCHANGED <<verdict, calls, arrived, barred>>

\* The authority of a reserved allowance is lost or restored.
Turn(n) ==
    /\ allowance[n] = "reserved"
    /\ barred' \in {barred \cup {n}, barred \ {n}}
    /\ UNCHANGED <<allowance, verdict, calls, arrived>>

Start(n) ==
    /\ allowance[n] = "reserved"
    /\ n \notin barred
    /\ allowance' = [allowance EXCEPT ![n] = "running"]
    /\ UNCHANGED <<verdict, calls, arrived, barred>>

\* What was reserved may be refused when it is to be used: it is spent.
Refuse(n) ==
    /\ allowance[n] = "reserved"
    /\ allowance' = [allowance EXCEPT ![n] = "spent"]
    /\ verdict' = [verdict EXCEPT ![n] = "not_attempted"]
    /\ UNCHANGED <<calls, arrived, barred>>

\* The message leaves once; late, if at all, only under a verdict that
\* leaves it open.
Call(n) ==
    /\ calls[n] = 0
    /\ allowance[n] = "running" \/ verdict[n] = "unknown"
    /\ calls' = [calls EXCEPT ![n] = 1]
    /\ \E d \in BOOLEAN : arrived' = [arrived EXCEPT ![n] = d]
    /\ UNCHANGED <<allowance, verdict, barred>>

Spend(n) ==
    /\ allowance[n] = "running"
    /\ allowance' = [allowance EXCEPT ![n] = "spent"]
    /\ \E v \in {"accepted", "rejected", "not_attempted", "unknown"} :
         /\ v = "accepted" => arrived[n]
         /\ v = "rejected" => ~arrived[n]
         /\ v = "not_attempted" => calls[n] = 0
         /\ verdict' = [verdict EXCEPT ![n] = v]
    /\ UNCHANGED <<calls, arrived, barred>>

ANext == \E n \in Stage : Reserve(n) \/ Turn(n) \/ Start(n) \/ Refuse(n) \/ Call(n) \/ Spend(n)

ASpec == AInit /\ [][ANext]_avars
=============================================================================

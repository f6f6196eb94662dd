----------------------------- MODULE AtLeastOnce ----------------------------
(***************************************************************************)
(* What a relay from a table to a Kafka topic promises: an item is queued  *)
(* durably before anybody relies on it, may be published any number of     *)
(* times from then on, and leaves the queue only after it was published.   *)
(* The outbox processor, the DLQ publisher and the replay dispatcher are   *)
(* such relays, and so is the delivery of decisions to the agent.          *)
(***************************************************************************)
CONSTANT Item

VARIABLES
    queued,      \* items the table still owes to the topic
    retired,     \* items it has given up owing
    published    \* items that are in the topic

lvars == <<queued, retired, published>>

LInit == queued = {} /\ retired = {} /\ published = {}

Enqueue(i) ==
    /\ i \notin queued \cup retired
    /\ queued' = queued \cup {i}
    /\ UNCHANGED <<retired, published>>

\* One send publishes a batch; a stale relay may publish what is retired.
Publish(batch) ==
    /\ batch \subseteq queued \cup retired
    /\ published' = published \cup batch
    /\ UNCHANGED <<queued, retired>>

Retire(batch) ==
    /\ batch \subseteq queued \cap published
    /\ queued' = queued \ batch
    /\ retired' = retired \cup batch
    /\ UNCHANGED published

LNext ==
    \/ \E i \in Item : Enqueue(i)
    \/ \E batch \in SUBSET Item : Publish(batch) \/ Retire(batch)

LSpec == LInit /\ [][LNext]_lvars
=============================================================================

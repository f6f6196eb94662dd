--------------------------- MODULE ActionHandlers ---------------------------
(***************************************************************************)
(* What the two action handlers of the worker (email through Resend,       *)
(* Telegram through the Bot API) make of an answer of the provider.  An    *)
(* answer is one of the classes the handlers tell apart; how a request is  *)
(* formatted and an answer parsed is left out.                             *)
(***************************************************************************)

\* The classes of answers sendEmail tells apart, and what it reports for each.
EmailReply == {"transport_error", "error_4xx", "error_other", "no_receipt", "receipt"}

\* Mutant: any error answer counts as a refusal.
EmailOutcomeHasty(reply) ==
    CASE reply \in {"error_4xx", "error_other"} -> "rejected"
      [] reply = "receipt"                      -> "accepted"
      [] OTHER                                  -> "unknown"

EmailOutcome(reply) ==
    CASE reply = "error_4xx" -> "rejected"
      [] reply = "receipt"   -> "accepted"
      [] OTHER               -> "unknown"

\* resolveChatId runs before the message is sent: whatever it fails on, no
\* message left the worker.
ResolutionReply == {"no_credentials", "resolution_transport_error", "resolution_invalid",
                    "resolution_rejected", "chat_id_missing"}

TelegramReply ==
    ResolutionReply \cup
    {"transport_error", "http_4xx", "http_other", "body_invalid",
     "body_error_4xx", "body_error_other", "no_receipt", "receipt"}

TelegramOutcome(reply) ==
    CASE reply \in ResolutionReply                -> "not_attempted"
      [] reply \in {"http_4xx", "body_error_4xx"} -> "rejected"
      [] reply = "receipt"                        -> "accepted"
      [] OTHER                                    -> "unknown"

\* An exception that is no ActionExecutionError, thrown before the request
\* (a template that is not a string) or after it.
Thrown == {"thrown_before_send", "thrown_after_send"}

\* Mutant: the outcome of an exception is stored as it comes.
NormalizeAsIs(outcome) == outcome

\* normalizeFailure: whatever is not an ActionExecutionError with one of the
\* three failure outcomes is recorded as unknown.
FailureOutcome == {"rejected", "not_attempted", "unknown"}
NormalizeFailure(outcome) == IF outcome \in FailureOutcome THEN outcome ELSE "unknown"

\* All that one call of handler.execute can report: the answer seen, and the
\* outcome the handler and normalizeFailure make of it.
HandlerResults ==
    {[reply |-> r, outcome |-> EmailOutcome(r)] : r \in EmailReply} \cup
    {[reply |-> r, outcome |-> TelegramOutcome(r)] : r \in TelegramReply} \cup
    {[reply |-> r, outcome |-> NormalizeFailure("unclassified")] : r \in Thrown}

---------------------------------------------------------------------------
(***************************************************************************)
(* The provider, which is not part of the repository.                      *)
(***************************************************************************)

\* Did the worker put a message on the wire before it saw this answer?
MessageSent(reply) == reply \notin ResolutionReply \cup {"thrown_before_send"}

\* What may have become of that message: a 4xx answer refuses it, a receipt
\* is given only for an accepted one, every other answer leaves it open.
MayBeDelivered(reply) ==
    {d \in BOOLEAN :
        /\ reply = "receipt" => d
        /\ ~MessageSent(reply) \/ reply \in {"error_4xx", "http_4xx", "body_error_4xx"} => ~d}
=============================================================================

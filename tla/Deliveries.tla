----------------------------- MODULE Deliveries -----------------------------
(***************************************************************************)
(* Notifications on their way to a webhook and to a chat                    *)
(* (internal/automation/manager.go, internal/db/automation_p2p3.go). The    *)
(* runner's goroutines and the handlers of requests write rows and then     *)
(* signal a one-slot channel; one loop claims what is due, in batches,      *)
(* sends, and writes the outcome of each. It sleeps until the earliest row  *)
(* it saw is due, so whoever adds one behind its back has to wake it.       *)
(***************************************************************************)
EXTENDS Integers, FiniteSets

CONSTANTS
    Notices,              \* events that somebody is told of
    MaxAttempts,          \* max_attempts of a delivery
    BatchSize,            \* the limit of a claim
    MaxTellings,          \* bound: calls of Notify and RetryDelivery
    MaxUpsets             \* bound: failed statements, lost answers, crashes and restarts

ASSUME DeliveriesAssumption ==
    /\ {MaxAttempts, BatchSize} \subseteq Nat \ {0}
    /\ {MaxTellings, MaxUpsets} \subseteq Nat

VARIABLES
    delivery,     \* the rows: status, attempt_count, whether next_attempt_at has
                  \* come, and lease_until: none, ahead ("held") or past ("over")
    teller,       \* notice -> the call of Notify: where it stands, enqueued
    retrier,      \* a handler that owes a signal: RetryDelivery has written
    deliveryWake, \* the token in the channel
    courier,      \* deliveryLoop: where it stands, the rows it claimed and has yet
                  \* to send, the one in hand with its verdict, the rows its timer
                  \* is set for, whether it slept without having seen them
    stopping,     \* the context of the loop is canceled
    acked,        \* history: accepted by the other side, since it was last queued
    unheard,      \* history: and the answer of the last that did so was lost
    sent,         \* history: how often it went out, since it was last queued
    stranded,     \* history: in flight when the loop died or could not write
    tellings, upsets

deliveryVars == <<delivery, teller, retrier, deliveryWake, courier, stopping,
                  acked, unheard, sent, stranded, tellings, upsets>>

\* A row for each sink an event goes to; the dedupe key allows no second one.
Rows == Notices \X {"webhook", "telegram"}

NoRow == [status |-> "none", attempts |-> 0, due |-> FALSE, lease |-> "none"]
QueuedRow == [NoRow EXCEPT !.status = "queued", !.due = TRUE]
AtHome == [at |-> "claim", batch |-> {}, verdict |-> "none", timer |-> {}, blind |-> FALSE]
NotTelling == [at |-> "idle", enqueued |-> FALSE]

DeliveriesInit ==
    /\ delivery = [d \in Rows |-> NoRow]
    /\ teller = [n \in Notices |-> NotTelling]
    /\ retrier = FALSE /\ deliveryWake = FALSE
    /\ courier = AtHome /\ stopping = FALSE
    /\ acked = {} /\ unheard = {} /\ sent = [d \in Rows |-> 0] /\ stranded = {}
    /\ tellings = 0 /\ upsets = 0

Upset == upsets < MaxUpsets /\ upsets' = upsets + 1
Telling == tellings < MaxTellings /\ tellings' = tellings + 1

Pending(d) == delivery[d].status \in {"queued", "retry_wait"}

-----------------------------------------------------------------------------
(* Those who tell *)

\* EnqueueNotificationDelivery: the row is new, or the one there is kept.
Enqueued(d) == IF delivery[d] = NoRow THEN [delivery EXCEPT ![d] = QueuedRow] ELSE delivery

\* Notify, and EnqueueTest, which ends here. The webhook may be switched off,
\* and the statement may fail, which is reported and no more.
NotifyWebhook(n) ==
    /\ teller[n].at = "idle" /\ Telling
    /\ \/ /\ delivery' = Enqueued(<<n, "webhook">>)
          /\ \E at \in {"chat", "signal"} :
                teller' = [teller EXCEPT ![n] = [at |-> at, enqueued |-> TRUE]]
       \/ /\ teller' = [teller EXCEPT ![n].at = "chat"]
          /\ UNCHANGED delivery
    /\ UNCHANGED <<retrier, deliveryWake, courier, stopping, acked, unheard, sent, stranded, upsets>>

\* A slip: a failed lookup returns at once.
NotifyTelegramQuietly(n) ==
    /\ teller[n].at = "chat"
    /\ \/ /\ delivery' = Enqueued(<<n, "telegram">>)
          /\ teller' = [teller EXCEPT ![n] = [at |-> "signal", enqueued |-> TRUE]]
       \/ /\ teller' = [teller EXCEPT ![n] = NotTelling]
          /\ UNCHANGED delivery
    /\ UNCHANGED <<retrier, deliveryWake, courier, stopping, acked, unheard, sent, stranded, tellings, upsets>>

\* The agent may have no pairing, or the lookup may fail: what was enqueued
\* before is still signalled.
NotifyTelegram(n) ==
    /\ teller[n].at = "chat"
    /\ \/ /\ delivery' = Enqueued(<<n, "telegram">>)
          /\ teller' = [teller EXCEPT ![n] = [at |-> "signal", enqueued |-> TRUE]]
       \/ /\ teller' = [teller EXCEPT ![n] = IF teller[n].enqueued THEN [@ EXCEPT !.at = "signal"]
                                                                    ELSE NotTelling]
          /\ UNCHANGED delivery
    /\ UNCHANGED <<retrier, deliveryWake, courier, stopping, acked, unheard, sent, stranded, tellings, upsets>>

signalDeliveryWake(n) ==
    /\ teller[n].at = "signal"
    /\ teller' = [teller EXCEPT ![n] = NotTelling] /\ deliveryWake' = TRUE
    /\ UNCHANGED <<delivery, retrier, courier, stopping, acked, unheard, sent, stranded, tellings, upsets>>

\* A slip: whatever its state.
RetryAnyDelivery(d) ==
    /\ ~retrier /\ delivery[d].status # "none" /\ Telling
    /\ delivery' = [delivery EXCEPT ![d] = QueuedRow]
    /\ acked' = acked \ {d} /\ unheard' = unheard \ {d} /\ sent' = [sent EXCEPT ![d] = 0]
    /\ retrier' = TRUE
    /\ UNCHANGED <<teller, deliveryWake, courier, stopping, stranded, upsets>>

\* A person asks for another round of a delivery that is over.
RetryDelivery(d) ==
    /\ ~retrier /\ delivery[d].status \in {"dead", "delivered"} /\ Telling
    /\ delivery' = [delivery EXCEPT ![d] = QueuedRow]
    /\ acked' = acked \ {d} /\ unheard' = unheard \ {d} /\ sent' = [sent EXCEPT ![d] = 0]
    /\ retrier' = TRUE
    /\ UNCHANGED <<teller, deliveryWake, courier, stopping, stranded, upsets>>

SignalRetry ==
    /\ retrier /\ retrier' = FALSE /\ deliveryWake' = TRUE
    /\ UNCHANGED <<delivery, teller, courier, stopping, acked, unheard, sent, stranded, tellings, upsets>>

-----------------------------------------------------------------------------
(* The loop *)

\* Rows that have used up their attempts are buried first.
Buried == [d \in Rows |-> IF Pending(d) /\ delivery[d].attempts >= MaxAttempts
                          THEN [delivery[d] EXCEPT !.status = "dead", !.lease = "none"]
                          ELSE delivery[d]]

Claimable(d) ==
    /\ Pending(d) /\ delivery[d].due /\ delivery[d].attempts < MaxAttempts
    /\ delivery[d].lease # "held"

Batches == {S \in SUBSET {d \in Rows : Claimable(d)} :
              /\ Cardinality(S) <= BatchSize
              /\ Cardinality(S) < BatchSize => \A d \in Rows : Claimable(d) => d \in S}

ClaimNotificationDeliveries ==
    /\ courier.at = "claim" /\ ~stopping
    /\ \E batch \in Batches :
          /\ delivery' = [d \in Rows |-> IF d \in batch
                            THEN [delivery[d] EXCEPT !.status = "inflight", !.lease = "held",
                                                     !.attempts = @ + 1]
                            ELSE Buried[d]]
          /\ courier' = [courier EXCEPT !.at = IF batch = {} THEN "look" ELSE "send", !.batch = batch]
    /\ UNCHANGED <<teller, retrier, deliveryWake, stopping, acked, unheard, sent, stranded, tellings, upsets>>

\* A statement fails, as every one does once its context is canceled.
StatementFails == IF stopping THEN UNCHANGED upsets ELSE Upset

FailClaim ==
    /\ courier.at = "claim" /\ StatementFails
    /\ courier' = [courier EXCEPT !.at = "look"]
    /\ UNCHANGED <<delivery, teller, retrier, deliveryWake, stopping, acked, unheard, sent, stranded, tellings>>

\* The next of the batch, with what the loop hears of the other side: it took
\* it, may take it later, or never will. A canceled request is tried again, if
\* its destination is one; a chat whose pairing cannot be looked up, be it
\* because of that, is given up.
Verdicts(d) ==
    CASE ~stopping -> {"taken", "later", "never"}
      [] stopping /\ d[2] = "webhook" -> {"later", "never"}
      [] stopping /\ d[2] = "telegram" -> {"never"}

Hears(d, verdict) ==
    courier' = [courier EXCEPT !.at = "mark", !.batch = @ \ {d}, !.verdict = <<d, verdict>>]

\* A request that timed out, or was canceled on its way, may have been accepted:
\* the loop hears no more than that it failed.
deliver(d) ==
    /\ courier.at = "send" /\ d \in courier.batch
    /\ \/ \E verdict \in Verdicts(d) :
             /\ Hears(d, verdict)
             /\ acked' = IF verdict = "taken" THEN acked \cup {d} ELSE acked
             /\ unheard' = IF verdict = "taken" THEN unheard \ {d} ELSE unheard
             /\ UNCHANGED upsets
       \/ /\ ~stopping /\ Upset /\ Hears(d, "later")
          /\ acked' = acked \cup {d} /\ unheard' = unheard \cup {d}
    /\ sent' = [sent EXCEPT ![d] = IF stopping THEN @ ELSE @ + 1]
    /\ UNCHANGED <<delivery, teller, retrier, deliveryWake, stopping, stranded, tellings>>

\* MarkNotificationDeliveryDelivered, Retry or Dead, each of a row in flight.
Outcome(d, verdict) ==
    CASE verdict = "taken" -> "delivered"
      [] verdict = "later" /\ delivery[d].attempts < MaxAttempts -> "retry_wait"
      [] OTHER -> "dead"

Onward == [courier EXCEPT !.at = IF courier.batch = {} THEN "look" ELSE "send", !.verdict = "none"]

MarkOutcome ==
    /\ courier.at = "mark" /\ courier' = Onward
    /\ LET d == courier.verdict[1] IN
       delivery' = [delivery EXCEPT ![d] = [@ EXCEPT !.status = Outcome(d, courier.verdict[2]),
                                                     !.lease = "none", !.due = FALSE]]
    /\ UNCHANGED <<teller, retrier, deliveryWake, stopping, acked, unheard, sent, stranded, tellings, upsets>>

\* The statement fails, which is reported and no more.
FailMark ==
    /\ courier.at = "mark" /\ Upset /\ courier' = Onward
    /\ stranded' = stranded \cup {courier.verdict[1]}
    /\ UNCHANGED <<delivery, teller, retrier, deliveryWake, stopping, acked, unheard, sent, tellings>>

\* The earliest of the pending rows sets the timer: it will not be later than
\* any of them is due. Without a row, or an answer, it is the fallback's.
nextDeliveryWait ==
    /\ courier.at = "look"
    /\ \/ /\ ~stopping
          /\ courier' = [courier EXCEPT !.at = "asleep", !.timer =
                            {d \in Rows : Pending(d) /\ delivery[d].attempts < MaxAttempts}]
          /\ UNCHANGED upsets
       \/ /\ StatementFails
          /\ courier' = [courier EXCEPT !.at = "asleep", !.blind = TRUE]
    /\ UNCHANGED <<delivery, teller, retrier, deliveryWake, stopping, acked, unheard, sent, stranded, tellings>>

\* The channel, or the timer; the timer alone also after half a minute.
TakeWake == /\ courier.at = "asleep" /\ deliveryWake
            /\ deliveryWake' = FALSE /\ courier' = AtHome
            /\ UNCHANGED <<delivery, teller, retrier, stopping, acked, unheard, sent, stranded, tellings, upsets>>

DeliveryTimer(fallback) ==
    /\ courier.at = "asleep" /\ (fallback \/ \E d \in courier.timer : delivery[d].due)
    /\ courier' = AtHome
    /\ UNCHANGED <<delivery, teller, retrier, deliveryWake, stopping, acked, unheard, sent, stranded, tellings, upsets>>

-----------------------------------------------------------------------------
(* The process, and time *)

\* Close, and the loop that sees it.
CloseDeliveries ==
    /\ ~stopping /\ stopping' = TRUE
    /\ UNCHANGED <<delivery, teller, retrier, deliveryWake, courier, acked, unheard, sent, stranded, tellings, upsets>>

LeaveLoop ==
    /\ courier.at = "asleep" /\ stopping
    /\ courier' = [AtHome EXCEPT !.at = "off"]
    /\ UNCHANGED <<delivery, teller, retrier, deliveryWake, stopping, acked, unheard, sent, stranded, tellings, upsets>>

OfCourier == courier.batch \cup (IF courier.at = "mark" THEN {courier.verdict[1]} ELSE {})

\* The process ends, orderly or not, and the next one starts.
RestartDeliveries ==
    /\ Upset
    /\ teller' = [n \in Notices |-> NotTelling] /\ retrier' = FALSE
    /\ deliveryWake' = FALSE /\ courier' = AtHome /\ stopping' = FALSE
    /\ stranded' = stranded \cup OfCourier
    /\ UNCHANGED <<delivery, acked, unheard, sent, tellings>>

BackoffEnds(d) ==
    /\ delivery[d].status = "retry_wait" /\ ~delivery[d].due
    /\ delivery' = [delivery EXCEPT ![d].due = TRUE]
    /\ UNCHANGED <<teller, retrier, deliveryWake, courier, stopping, acked, unheard, sent, stranded, tellings, upsets>>

LeaseEnds(d) ==
    /\ delivery[d].lease = "held"
    /\ delivery' = [delivery EXCEPT ![d].lease = "over"]
    /\ UNCHANGED <<teller, retrier, deliveryWake, courier, stopping, acked, unheard, sent, stranded, tellings, upsets>>

-----------------------------------------------------------------------------
DeliveriesNext ==
    \/ \E n \in Notices : NotifyWebhook(n) \/ NotifyTelegram(n) \/ signalDeliveryWake(n)
    \/ \E d \in Rows : RetryDelivery(d) \/ deliver(d) \/ BackoffEnds(d) \/ LeaseEnds(d)
    \/ SignalRetry
    \/ ClaimNotificationDeliveries \/ FailClaim \/ MarkOutcome \/ FailMark \/ nextDeliveryWait
    \/ TakeWake \/ \E fallback \in BOOLEAN : DeliveryTimer(fallback)
    \/ CloseDeliveries \/ LeaveLoop \/ RestartDeliveries

DeliveriesSpec == DeliveriesInit /\ [][DeliveriesNext]_deliveryVars

-----------------------------------------------------------------------------
(* What a row says is what its other side saw. Done means taken; what was   *)
(* taken does not go out again, unless a person asks for it or the answer   *)
(* was lost; a row is in flight only while the loop has it or after it lost *)
(* it (stranded); and it goes out no more often than it may.                *)
DeliveryTold ==
    /\ \A d \in Rows :
          /\ delivery[d].status = "delivered" => d \in acked
          /\ d \in acked => d \in unheard \/ delivery[d].status \in {"delivered", "inflight"}
          /\ delivery[d].status = "inflight" <=> d \in OfCourier \cup stranded
          /\ sent[d] <= delivery[d].attempts /\ delivery[d].attempts <= MaxAttempts
    /\ OfCourier \cap stranded = {}

(* The loop does not sleep past a delivery that is due: its timer is set    *)
(* for it, or someone has woken it or is about to. Only a look that failed  *)
(* leaves it to the fallback.                                               *)
DueIsWatched ==
    courier.at = "asleep" /\ ~courier.blind /\ ~stopping =>
        \A d \in Rows : Claimable(d) =>
            d \in courier.timer \/ deliveryWake \/ retrier \/ \E n \in Notices : teller[n].enqueued
=============================================================================

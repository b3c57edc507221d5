--------------------------- MODULE ServicesProofs ---------------------------
(***************************************************************************)
(* Proofs about the services of the server that run in loops of their own: *)
(* the deliveries of notifications, the schedules, the browser's end of    *)
(* the event stream and the limits of the gateway, each with the inductive *)
(* invariant that implies what TLC checks of it.                           *)
(***************************************************************************)
EXTENDS Deliveries, Schedules, LiveStream, GatewayLimits,
        FiniteSetTheorems, SequenceTheorems, TLAPS

-----------------------------------------------------------------------------
(* Deliveries. What a row says is true of the other side because the loop   *)
(* alone moves rows in flight, one verdict at a time.                       *)

DeliveryRows ==
    [status : {"none", "queued", "retry_wait", "inflight", "delivered", "dead"}, attempts : Nat,
     due : BOOLEAN, lease : {"none", "held", "over"}]
Tellers == [at : {"idle", "chat", "signal"}, enqueued : BOOLEAN]
AllVerdicts == {"taken", "later", "never"}
Couriers == [at : {"claim", "send", "mark", "look", "asleep", "off"}, batch : SUBSET Rows,
             verdict : {"none"} \cup (Rows \X AllVerdicts), timer : SUBSET Rows, blind : BOOLEAN]

\* What the other side accepted and the loop was told of.
Heard == acked \ unheard

DeliveryTypes ==
    /\ delivery \in [Rows -> DeliveryRows]
    /\ teller \in [Notices -> Tellers]
    /\ retrier \in BOOLEAN /\ deliveryWake \in BOOLEAN /\ stopping \in BOOLEAN
    /\ courier \in Couriers
    /\ Heard \in SUBSET Rows /\ sent \in [Rows -> Nat] /\ stranded \in SUBSET Rows

\* Where the loop has its rows.
Carried ==
    /\ courier.at = "mark" => courier.verdict \in Rows \X AllVerdicts /\ courier.verdict[1] \notin courier.batch
    /\ courier.at \in {"claim", "look", "asleep", "off"} => courier.batch = {}
    /\ courier.at = "mark" => (courier.verdict[1] \in Heard <=> courier.verdict[2] = "taken")
    /\ \A d \in courier.batch : d \notin Heard /\ sent[d] < delivery[d].attempts

\* The loop asleep will see every row that is due, or comes due.
Awaited ==
    courier.at = "asleep" /\ ~courier.blind /\ ~stopping =>
        \A d \in Rows : Pending(d) /\ delivery[d].attempts < MaxAttempts =>
            d \in courier.timer \/ deliveryWake \/ retrier \/ \E n \in Notices : teller[n].enqueued

\* What the history of one row says, and that no stranded row is in hand.
RowTold(d) ==
    /\ delivery[d].status = "delivered" => d \in Heard
    /\ d \in Heard => delivery[d].status \in {"delivered", "inflight"}
    /\ delivery[d].status = "inflight" <=> d \in OfCourier \cup stranded
    /\ sent[d] <= delivery[d].attempts /\ delivery[d].attempts <= MaxAttempts

RowsTold == \A d \in Rows : RowTold(d)
Apart == OfCourier \cap stranded = {}
AllTold == RowsTold /\ Apart

DeliveryInv == DeliveryTypes /\ Carried /\ AllTold /\ Awaited

Watchful == deliveryWake \/ retrier \/ \E n \in Notices : teller[n].enqueued

LEMMA ToldRows == AllTold <=> (\A d \in Rows : RowTold(d)) /\ OfCourier \cap stranded = {}
BY DEF AllTold, RowsTold, Apart

LEMMA DeliveryParts == DeliveryInv <=> DeliveryTypes /\ Carried /\ RowsTold /\ Apart /\ Awaited
BY DEF DeliveryInv, AllTold

LEMMA DeliveryPartsAfter ==
    ASSUME DeliveryTypes', Carried', \A d \in Rows : RowTold(d)', OfCourier' \cap stranded' = {}, Awaited'
    PROVE  DeliveryInv'
<1>1. RowsTold' /\ Apart'
  BY DEF RowsTold, Apart
<1>2. DeliveryTypes' /\ Carried' /\ RowsTold' /\ Apart' /\ Awaited' => DeliveryInv'
  BY DeliveryParts, PTL
<1> QED
  BY <1>1, <1>2

LEMMA FreshRows ==
    /\ NoRow \in DeliveryRows /\ NoRow.status = "none" /\ NoRow.attempts = 0
    /\ QueuedRow \in DeliveryRows /\ QueuedRow.status = "queued" /\ QueuedRow.attempts = 0
<1>1. PICK b \in BOOLEAN : b = FALSE
  OBVIOUS
<1>2. NoRow = [status |-> "none", attempts |-> 0, due |-> b, lease |-> "none"]
  BY <1>1, Zenon DEF NoRow
<1>3. PICK q \in BOOLEAN : q = TRUE
  OBVIOUS
<1>4. QueuedRow = [NoRow EXCEPT !.status = "queued", !.due = q]
  BY <1>3, Zenon DEF QueuedRow
<1>5. NoRow \in DeliveryRows /\ NoRow.status = "none" /\ NoRow.attempts = 0
  BY <1>2 DEF DeliveryRows
<1>6. QueuedRow = [status |-> "queued", attempts |-> 0, due |-> q, lease |-> "none"]
  BY <1>2, <1>4
<1>7. QueuedRow \in DeliveryRows /\ QueuedRow.status = "queued" /\ QueuedRow.attempts = 0
  BY <1>6 DEF DeliveryRows
<1> QED
  BY <1>5, <1>7

LEMMA RowIsEnqueued ==
    ASSUME delivery \in [Rows -> DeliveryRows], NEW x \in Rows, delivery' = Enqueued(x)
    PROVE  /\ delivery' \in [Rows -> DeliveryRows]
           /\ \A d \in Rows : delivery'[d] = delivery[d] \/ (delivery[d] = NoRow /\ delivery'[d] = QueuedRow)
<1>1. CASE delivery[x] = NoRow
  <2>1. delivery' = [delivery EXCEPT ![x] = QueuedRow]
    BY <1>1 DEF Enqueued
  <2> QED
    BY <1>1, <2>1, FreshRows
<1>2. CASE delivery[x] # NoRow
  BY <1>2 DEF Enqueued
<1> QED
  BY <1>1, <1>2

\* A step of those who tell: the loop stays where it is.
LEMMA TellingKeeps ==
    ASSUME DeliveryInv, courier' = courier, stopping' = stopping, Heard' = Heard, sent' = sent, stranded' = stranded,
           teller' \in [Notices -> Tellers], retrier' \in BOOLEAN, deliveryWake' \in BOOLEAN,
           delivery' \in [Rows -> DeliveryRows],
           \A d \in Rows : delivery'[d] = delivery[d] \/ (delivery[d] = NoRow /\ delivery'[d] = QueuedRow),
           Watchful => Watchful', delivery' = delivery \/ Watchful'
    PROVE  DeliveryInv'
<1>1. DeliveryTypes /\ Carried /\ Awaited /\ OfCourier \cap stranded = {} /\ \A d \in Rows : RowTold(d)
  BY ToldRows DEF DeliveryInv
<1>2. DeliveryTypes'
  BY <1>1, Zenon DEF DeliveryTypes
<1>3. OfCourier' = OfCourier
  BY DEF OfCourier
<1>4. Carried'
  <2>1. \A d \in courier.batch : d \in Rows
    BY <1>1 DEF DeliveryTypes, Couriers
  <2>2. \A d \in courier.batch : sent[d] < delivery'[d].attempts
    <3> SUFFICES ASSUME NEW d \in courier.batch PROVE sent[d] < delivery'[d].attempts
      OBVIOUS
    <3>1. sent[d] < delivery[d].attempts /\ sent[d] \in Nat /\ d \in Rows
      BY <1>1, <2>1 DEF Carried, DeliveryTypes
    <3>2. CASE delivery[d] = NoRow
      BY <3>1, <3>2, FreshRows
    <3>3. CASE delivery[d] # NoRow
      BY <3>1, <3>3
    <3> QED
      BY <3>2, <3>3
  <2> QED
    BY <1>1, <2>2 DEF Carried
<1>5. ASSUME NEW d \in Rows PROVE RowTold(d)'
  <2>1. RowTold(d)
    BY <1>1
  <2>2. CASE delivery'[d] = delivery[d]
    BY <1>3, <2>1, <2>2 DEF RowTold
  <2>3. CASE delivery[d] = NoRow /\ delivery'[d] = QueuedRow
    <3>1. d \notin Heard /\ d \notin OfCourier \cup stranded /\ sent[d] <= 0
      BY <2>1, <2>3, FreshRows DEF RowTold
    <3> QED
      BY <1>3, <2>3, <3>1, FreshRows, DeliveriesAssumption DEF RowTold, DeliveriesAssumption
  <2> QED
    BY <2>2, <2>3
<1>6. Awaited'
  <2>1. CASE Watchful'
    BY <2>1 DEF Awaited, Watchful
  <2>2. CASE ~Watchful'
    BY <1>1, <2>2 DEF Awaited, Watchful, Pending
  <2> QED
    BY <2>1, <2>2
<1> QED
  BY <1>1, <1>2, <1>3, <1>4, <1>5, <1>6, DeliveryPartsAfter

LEMMA TellersKeep ==
    ASSUME DeliveryInv, NEW n \in Notices, NotifyWebhook(n) \/ NotifyTelegram(n) \/ signalDeliveryWake(n) PROVE DeliveryInv'
<1>1. /\ delivery \in [Rows -> DeliveryRows] /\ teller \in [Notices -> Tellers] /\ retrier \in BOOLEAN /\ deliveryWake \in BOOLEAN
      /\ <<n, "webhook">> \in Rows /\ <<n, "telegram">> \in Rows
  BY DEF DeliveryInv, DeliveryTypes, Rows
<1>2. courier' = courier /\ stopping' = stopping /\ Heard' = Heard /\ sent' = sent /\ stranded' = stranded /\ retrier' = retrier
  BY Zenon DEF NotifyWebhook, NotifyTelegram, signalDeliveryWake, Heard
<1>3. CASE NotifyWebhook(n)
  <2>1. deliveryWake' = deliveryWake
    BY <1>3, Zenon DEF NotifyWebhook
  <2>2. CASE delivery' = Enqueued(<<n, "webhook">>)
             /\ \E at \in {"chat", "signal"} : teller' = [teller EXCEPT ![n] = [at |-> at, enqueued |-> TRUE]]
    <3>1. /\ delivery' \in [Rows -> DeliveryRows]
          /\ \A d \in Rows : delivery'[d] = delivery[d] \/ (delivery[d] = NoRow /\ delivery'[d] = QueuedRow)
      BY <1>1, <2>2, RowIsEnqueued
    <3>2. teller' \in [Notices -> Tellers] /\ teller'[n].enqueued
      BY <1>1, <2>2 DEF Tellers
    <3>3. Watchful'
      BY <3>2 DEF Watchful
    <3> QED
      BY <1>1, <1>2, <2>1, <3>1, <3>2, <3>3, TellingKeeps
  <2>3. CASE teller' = [teller EXCEPT ![n].at = "chat"] /\ delivery' = delivery
    <3>1. teller' \in [Notices -> Tellers] /\ \A m \in Notices : teller'[m].enqueued = teller[m].enqueued
      BY <1>1, <2>3 DEF Tellers
    <3>2. Watchful => Watchful'
      BY <1>2, <2>1, <3>1 DEF Watchful
    <3> QED
      BY <1>1, <1>2, <2>1, <2>3, <3>1, <3>2, TellingKeeps
  <2> QED
    BY <1>3, <2>2, <2>3, Zenon DEF NotifyWebhook
<1>4. CASE NotifyTelegram(n)
  <2>1. deliveryWake' = deliveryWake
    BY <1>4, Zenon DEF NotifyTelegram
  <2>2. CASE delivery' = Enqueued(<<n, "telegram">>) /\ teller' = [teller EXCEPT ![n] = [at |-> "signal", enqueued |-> TRUE]]
    <3>1. /\ delivery' \in [Rows -> DeliveryRows]
          /\ \A d \in Rows : delivery'[d] = delivery[d] \/ (delivery[d] = NoRow /\ delivery'[d] = QueuedRow)
      BY <1>1, <2>2, RowIsEnqueued
    <3>2. teller' \in [Notices -> Tellers] /\ teller'[n].enqueued
      BY <1>1, <2>2 DEF Tellers
    <3>3. Watchful'
      BY <3>2 DEF Watchful
    <3> QED
      BY <1>1, <1>2, <2>1, <3>1, <3>2, <3>3, TellingKeeps
  <2>3. CASE /\ teller' = [teller EXCEPT ![n] = IF teller[n].enqueued THEN [teller[n] EXCEPT !.at = "signal"] ELSE NotTelling]
             /\ delivery' = delivery
    <3>1. teller' \in [Notices -> Tellers] /\ \A m \in Notices : teller[m].enqueued => teller'[m].enqueued
      <4>1. CASE teller[n].enqueued
        <5>1. teller' = [teller EXCEPT ![n] = [teller[n] EXCEPT !.at = "signal"]]
          BY <2>3, <4>1, Zenon
        <5> QED
          BY <1>1, <5>1 DEF Tellers
      <4>2. CASE ~teller[n].enqueued
        <5>1. teller' = [teller EXCEPT ![n] = NotTelling]
          BY <2>3, <4>2, Zenon
        <5>2. NotTelling \in Tellers
          BY DEF Tellers, NotTelling
        <5> QED
          BY <1>1, <4>2, <5>1, <5>2
      <4> QED
        BY <4>1, <4>2
    <3>2. Watchful => Watchful'
      BY <1>2, <2>1, <3>1 DEF Watchful
    <3> QED
      BY <1>1, <1>2, <2>1, <2>3, <3>1, <3>2, TellingKeeps
  <2> QED
    BY <1>4, <2>2, <2>3, Zenon DEF NotifyTelegram
<1>5. CASE signalDeliveryWake(n)
  <2>1. delivery' = delivery /\ teller' = [teller EXCEPT ![n] = NotTelling] /\ deliveryWake'
    BY <1>5 DEF signalDeliveryWake
  <2>2. deliveryWake' \in BOOLEAN
    BY <1>5 DEF signalDeliveryWake
  <2>3. teller' \in [Notices -> Tellers]
    BY <1>1, <2>1 DEF Tellers, NotTelling
  <2>4. Watchful'
    BY <2>1 DEF Watchful
  <2> QED
    BY <1>1, <1>2, <2>1, <2>2, <2>3, <2>4, TellingKeeps
<1> QED
  BY <1>3, <1>4, <1>5

LEMMA RetryKeeps == ASSUME DeliveryInv, NEW x \in Rows, RetryDelivery(x) PROVE DeliveryInv'
<1>1. /\ delivery[x].status \in {"dead", "delivered"} /\ delivery' = [delivery EXCEPT ![x] = QueuedRow]
      /\ acked' = acked \ {x} /\ unheard' = unheard \ {x} /\ sent' = [sent EXCEPT ![x] = 0] /\ retrier'
      /\ teller' = teller /\ deliveryWake' = deliveryWake /\ courier' = courier /\ stopping' = stopping /\ stranded' = stranded
  BY Zenon DEF RetryDelivery
<1>2. retrier' \in BOOLEAN /\ Heard' = Heard \ {x}
  <2>1. retrier' \in BOOLEAN
    BY Zenon DEF RetryDelivery
  <2>2. Heard' = Heard \ {x}
    BY <1>1 DEF Heard
  <2> QED
    BY <2>1, <2>2
<1>3. DeliveryTypes /\ Carried /\ (\A d \in Rows : RowTold(d)) /\ OfCourier \cap stranded = {}
  BY ToldRows DEF DeliveryInv
<1>4. /\ delivery' \in [Rows -> DeliveryRows] /\ delivery'[x] = QueuedRow
      /\ sent' \in [Rows -> Nat] /\ sent'[x] = 0
      /\ \A d \in Rows : d # x => delivery'[d] = delivery[d] /\ sent'[d] = sent[d]
  BY <1>1, <1>3, FreshRows DEF DeliveryTypes
<1>5. DeliveryTypes'
  BY <1>1, <1>2, <1>3, <1>4 DEF DeliveryTypes
<1>6. OfCourier' = OfCourier
  BY <1>1 DEF OfCourier
<1>7. x \notin OfCourier \cup stranded
  BY <1>1, <1>3 DEF RowTold
<1>8. Carried'
  <2>1. courier.batch \subseteq Rows /\ x \notin courier.batch
    BY <1>3, <1>7 DEF DeliveryTypes, Couriers, OfCourier
  <2>2. courier.at = "mark" => x # courier.verdict[1]
    BY <1>7 DEF OfCourier
  <2>3. \A d \in courier.batch : d \notin Heard' /\ sent'[d] < delivery'[d].attempts
    BY <1>1, <1>2, <1>3, <1>4, <2>1 DEF Carried
  <2>4. courier.at = "mark" => (courier.verdict[1] \in Heard' <=> courier.verdict[2] = "taken")
    BY <1>1, <1>2, <1>3, <2>2 DEF Carried
  <2> QED
    BY <1>1, <1>3, <2>3, <2>4 DEF Carried
<1>9. ASSUME NEW d \in Rows PROVE RowTold(d)'
  <2>1. CASE d = x
    BY <1>1, <1>2, <1>4, <1>6, <1>7, <2>1, FreshRows, DeliveriesAssumption DEF RowTold, DeliveriesAssumption
  <2>2. CASE d # x
    BY <1>1, <1>2, <1>3, <1>4, <1>6, <2>2 DEF RowTold
  <2> QED
    BY <2>1, <2>2
<1>10. Awaited'
  BY <1>1 DEF Awaited
<1>11. OfCourier' \cap stranded' = {}
  BY <1>1, <1>3, <1>6
<1> QED
  BY <1>5, <1>8, <1>9, <1>10, <1>11, DeliveryPartsAfter

\* A step of the loop that leaves every row and what it has in hand.
LEMMA LoopKeeps ==
    ASSUME DeliveryInv, delivery' = delivery, Heard' = Heard, sent' = sent, stranded' = stranded,
           teller' \in [Notices -> Tellers], retrier' \in BOOLEAN, deliveryWake' \in BOOLEAN, stopping' \in BOOLEAN,
           courier' \in Couriers, courier'.batch = courier.batch,
           courier'.at = "mark" <=> courier.at = "mark", courier.at = "mark" => courier'.verdict = courier.verdict,
           courier'.at \in {"claim", "look", "asleep", "off"} => courier.batch = {},
           Awaited'
    PROVE  DeliveryInv'
<1>1. DeliveryTypes /\ Carried /\ (\A d \in Rows : RowTold(d)) /\ OfCourier \cap stranded = {}
  BY ToldRows DEF DeliveryInv
<1>2. DeliveryTypes'
  BY <1>1 DEF DeliveryTypes
<1>3. OfCourier' = OfCourier
  BY DEF OfCourier
<1>4. Carried'
  BY <1>1 DEF Carried
<1>5. ASSUME NEW d \in Rows PROVE RowTold(d)'
  BY <1>1, <1>3 DEF RowTold
<1> QED
  BY <1>1, <1>2, <1>3, <1>4, <1>5, DeliveryPartsAfter

LEMMA HomeIsHome == AtHome \in Couriers /\ AtHome.at = "claim" /\ AtHome.batch = {}
<1>1. PICK b \in BOOLEAN : b = FALSE
  OBVIOUS
<1>2. AtHome = [at |-> "claim", batch |-> {}, verdict |-> "none", timer |-> {}, blind |-> b]
  BY <1>1, Zenon DEF AtHome
<1> QED
  BY <1>2 DEF Couriers

\* The loop goes home, or off for good.
LEMMA HomewardKeeps ==
    ASSUME DeliveryInv, courier.at = "asleep", courier' = AtHome \/ courier' = [AtHome EXCEPT !.at = "off"],
           delivery' = delivery, Heard' = Heard, sent' = sent, stranded' = stranded, teller' = teller,
           retrier' = retrier, deliveryWake' \in BOOLEAN, stopping' = stopping
    PROVE  DeliveryInv'
<1>1. /\ teller' \in [Notices -> Tellers] /\ retrier' \in BOOLEAN /\ stopping' \in BOOLEAN
      /\ courier.batch = {}
  BY DEF DeliveryInv, DeliveryTypes, Carried
<1>2. courier' \in Couriers /\ courier'.batch = {} /\ courier'.at \notin {"mark", "asleep"}
  BY HomeIsHome DEF Couriers
<1>3. Awaited'
  BY <1>2 DEF Awaited
<1> QED
  BY <1>1, <1>2, <1>3, LoopKeeps

LEMMA QuietStepsKeep ==
    ASSUME DeliveryInv, SignalRetry \/ FailClaim \/ nextDeliveryWait \/ CloseDeliveries
    PROVE  DeliveryInv'
<1>1. /\ delivery' = delivery /\ Heard' = Heard /\ sent' = sent /\ stranded' = stranded /\ teller' = teller
  BY Zenon DEF SignalRetry, FailClaim, nextDeliveryWait, CloseDeliveries, Heard
<1>2. DeliveryTypes /\ Carried /\ Awaited
  BY DEF DeliveryInv
<1>3. teller \in [Notices -> Tellers] /\ retrier \in BOOLEAN /\ deliveryWake \in BOOLEAN /\ stopping \in BOOLEAN /\ courier \in Couriers
  BY <1>2 DEF DeliveryTypes
<1>4. CASE SignalRetry
  <2>1. courier' = courier /\ stopping' = stopping /\ retrier' \in BOOLEAN /\ deliveryWake' \in BOOLEAN
    BY <1>4, Zenon DEF SignalRetry
  <2>2. deliveryWake'
    BY <1>4, Zenon DEF SignalRetry
  <2>3. Awaited'
    BY <2>2 DEF Awaited
  <2>4. courier'.at \in {"claim", "look", "asleep", "off"} => courier.batch = {}
    BY <1>2, <2>1 DEF Carried
  <2> QED
    BY <1>1, <1>3, <2>1, <2>3, <2>4, LoopKeeps
<1>5. CASE FailClaim
  <2>1. /\ courier.at = "claim" /\ courier' = [courier EXCEPT !.at = "look"] /\ retrier' = retrier
        /\ deliveryWake' = deliveryWake /\ stopping' = stopping
    BY <1>5, Zenon DEF FailClaim
  <2>2. courier' \in Couriers /\ courier'.at = "look" /\ courier'.batch = courier.batch /\ courier.batch = {}
    BY <1>2, <1>3, <2>1 DEF Couriers, Carried
  <2>3. Awaited'
    BY <2>2 DEF Awaited
  <2> QED
    BY <1>1, <1>3, <2>1, <2>2, <2>3, LoopKeeps
<1>6. CASE nextDeliveryWait
  <2>1. courier.at = "look" /\ retrier' = retrier /\ deliveryWake' = deliveryWake /\ stopping' = stopping
    BY <1>6, Zenon DEF nextDeliveryWait
  <2>2. courier.batch = {}
    BY <1>2, <2>1 DEF Carried
  <2>3. CASE courier' = [courier EXCEPT !.at = "asleep",
                                        !.timer = {d \in Rows : Pending(d) /\ delivery[d].attempts < MaxAttempts}]
    <3> DEFINE T == {d \in Rows : Pending(d) /\ delivery[d].attempts < MaxAttempts}
    <3>1. T \in SUBSET Rows
      OBVIOUS
    <3>2. courier' = [courier EXCEPT !.at = "asleep", !.timer = T]
      BY <2>3
    <3>3. courier' \in Couriers /\ courier'.at = "asleep" /\ courier'.batch = {} /\ courier'.timer = T
      <4> HIDE DEF T
      <4> QED
        BY <1>3, <2>2, <3>1, <3>2 DEF Couriers
    <3>4. Awaited'
      BY <1>1, <3>3 DEF Awaited, Pending
    <3> HIDE DEF T
    <3> QED
      BY <1>1, <1>3, <2>1, <2>2, <3>3, <3>4, LoopKeeps
  <2>4. CASE courier' = [courier EXCEPT !.at = "asleep", !.blind = TRUE]
    <3>1. PICK b \in BOOLEAN : b = TRUE
      OBVIOUS
    <3>2. courier' = [courier EXCEPT !.at = "asleep", !.blind = b]
      BY <2>4, <3>1, Zenon
    <3>3. courier' \in Couriers /\ courier'.at = "asleep" /\ courier'.batch = {} /\ (courier'.blind <=> b)
      BY <1>3, <2>2, <3>2 DEF Couriers
    <3>4. Awaited'
      BY <3>1, <3>3 DEF Awaited
    <3> QED
      BY <1>1, <1>3, <2>1, <2>2, <3>3, <3>4, LoopKeeps
  <2> QED
    BY <1>6, <2>3, <2>4, Zenon DEF nextDeliveryWait
<1>7. CASE CloseDeliveries
  <2>1. courier' = courier /\ retrier' = retrier /\ deliveryWake' = deliveryWake
    BY <1>7, Zenon DEF CloseDeliveries
  <2>2. stopping' = TRUE
    BY <1>7, Zenon DEF CloseDeliveries
  <2>3. Awaited' /\ stopping' \in BOOLEAN
    BY <2>2, Zenon DEF Awaited
  <2>4. courier'.at \in {"claim", "look", "asleep", "off"} => courier.batch = {}
    BY <1>2, <2>1 DEF Carried
  <2> QED
    BY <1>1, <1>3, <2>1, <2>3, <2>4, LoopKeeps
<1> QED
  BY <1>4, <1>5, <1>6, <1>7

LEMMA WakesKeep ==
    ASSUME DeliveryInv, TakeWake \/ LeaveLoop \/ \E fallback \in BOOLEAN : DeliveryTimer(fallback)
    PROVE  DeliveryInv'
<1>1. /\ courier.at = "asleep" /\ (courier' = AtHome \/ courier' = [AtHome EXCEPT !.at = "off"])
      /\ delivery' = delivery /\ Heard' = Heard /\ sent' = sent /\ stranded' = stranded /\ teller' = teller
      /\ retrier' = retrier /\ stopping' = stopping
  BY Zenon DEF TakeWake, LeaveLoop, DeliveryTimer, Heard
<1>2. deliveryWake' = FALSE \/ deliveryWake' = deliveryWake
  BY Zenon DEF TakeWake, LeaveLoop, DeliveryTimer
<1>3. deliveryWake' \in BOOLEAN
  BY <1>2, Zenon DEF DeliveryInv, DeliveryTypes
<1> QED
  BY <1>1, <1>3, HomewardKeeps

\* The rows after a claim: those of the batch go out, those used up are buried.
LEMMA ClaimedRow ==
    ASSUME delivery \in [Rows -> DeliveryRows], NEW d \in Rows, NEW batch \in SUBSET Rows, \A e \in batch : Claimable(e),
           delivery'[d] = IF d \in batch
                          THEN [delivery[d] EXCEPT !.status = "inflight", !.lease = "held",
                                                   !.attempts = delivery[d].attempts + 1]
                          ELSE Buried[d]
    PROVE  /\ delivery'[d] \in DeliveryRows
           /\ d \in batch => /\ delivery[d].status \in {"queued", "retry_wait"} /\ delivery[d].attempts < MaxAttempts
                             /\ delivery'[d].status = "inflight" /\ delivery'[d].attempts = delivery[d].attempts + 1
           /\ d \notin batch => /\ delivery'[d].attempts = delivery[d].attempts
                                /\ \/ delivery'[d].status = delivery[d].status
                                   \/ delivery[d].status \in {"queued", "retry_wait"} /\ delivery'[d].status = "dead"
<1>1. delivery[d] \in DeliveryRows
  OBVIOUS
<1>2. CASE d \in batch
  <2>1. delivery'[d] = [delivery[d] EXCEPT !.status = "inflight", !.lease = "held", !.attempts = delivery[d].attempts + 1]
    BY <1>2
  <2>2. delivery[d].status \in {"queued", "retry_wait"} /\ delivery[d].attempts < MaxAttempts
    BY <1>2 DEF Claimable, Pending
  <2>3. PICK n \in Nat : n = delivery[d].attempts + 1
    BY <1>1 DEF DeliveryRows
  <2>4. delivery'[d] = [delivery[d] EXCEPT !.status = "inflight", !.lease = "held", !.attempts = n]
    BY <2>1, <2>3, Zenon
  <2>5. delivery'[d] \in DeliveryRows /\ delivery'[d].status = "inflight" /\ delivery'[d].attempts = n
    BY <1>1, <2>4 DEF DeliveryRows
  <2> QED
    BY <1>2, <2>2, <2>3, <2>5
<1>3. CASE d \notin batch
  <2>1. delivery'[d] = IF Pending(d) /\ delivery[d].attempts >= MaxAttempts
                       THEN [delivery[d] EXCEPT !.status = "dead", !.lease = "none"] ELSE delivery[d]
    BY <1>3 DEF Buried
  <2>2. CASE Pending(d) /\ delivery[d].attempts >= MaxAttempts
    <3>1. delivery'[d] = [delivery[d] EXCEPT !.status = "dead", !.lease = "none"]
      BY <2>1, <2>2, Zenon
    <3>2. delivery[d].status \in {"queued", "retry_wait"}
      BY <2>2 DEF Pending
    <3> QED
      BY <1>1, <1>3, <3>1, <3>2 DEF DeliveryRows
  <2>3. CASE ~(Pending(d) /\ delivery[d].attempts >= MaxAttempts)
    <3>1. delivery'[d] = delivery[d]
      BY <2>1, <2>3, Zenon
    <3> QED
      BY <1>1, <1>3, <3>1
  <2> QED
    BY <2>2, <2>3
<1> QED
  BY <1>2, <1>3

LEMMA ClaimKeeps == ASSUME DeliveryInv, ClaimNotificationDeliveries PROVE DeliveryInv'
<1>1. /\ courier.at = "claim" /\ teller' = teller /\ retrier' = retrier /\ deliveryWake' = deliveryWake
      /\ stopping' = stopping /\ Heard' = Heard /\ sent' = sent /\ stranded' = stranded
  BY Zenon DEF ClaimNotificationDeliveries, Heard
<1>2. PICK batch \in Batches :
         /\ delivery' = [e \in Rows |-> IF e \in batch
                            THEN [delivery[e] EXCEPT !.status = "inflight", !.lease = "held",
                                                       !.attempts = delivery[e].attempts + 1]
                            ELSE Buried[e]]
         /\ courier' = [courier EXCEPT !.at = IF batch = {} THEN "look" ELSE "send", !.batch = batch]
  BY Zenon DEF ClaimNotificationDeliveries
<1>3. batch \in SUBSET Rows /\ \A e \in batch : Claimable(e)
  <2>1. batch \in Batches
    BY <1>2, Zenon
  <2> QED
    BY <2>1, Zenon DEF Batches
<1>4. DeliveryTypes /\ Carried /\ (\A d \in Rows : RowTold(d)) /\ OfCourier \cap stranded = {}
  BY ToldRows DEF DeliveryInv
<1>5. courier \in Couriers /\ courier.batch = {} /\ OfCourier = {} /\ delivery \in [Rows -> DeliveryRows]
  BY <1>1, <1>4 DEF DeliveryTypes, Carried, OfCourier
<1>6. ASSUME NEW d \in Rows
      PROVE  /\ delivery'[d] \in DeliveryRows
             /\ d \in batch => /\ delivery[d].status \in {"queued", "retry_wait"} /\ delivery[d].attempts < MaxAttempts
                               /\ delivery'[d].status = "inflight" /\ delivery'[d].attempts = delivery[d].attempts + 1
             /\ d \notin batch => /\ delivery'[d].attempts = delivery[d].attempts
                                  /\ \/ delivery'[d].status = delivery[d].status
                                     \/ delivery[d].status \in {"queued", "retry_wait"} /\ delivery'[d].status = "dead"
  <2>1. delivery'[d] = IF d \in batch
                       THEN [delivery[d] EXCEPT !.status = "inflight", !.lease = "held",
                                                !.attempts = delivery[d].attempts + 1]
                       ELSE Buried[d]
    BY <1>2, Zenon
  <2> QED
    BY <1>3, <1>5, <2>1, ClaimedRow, Zenon
<1>7. delivery' \in [Rows -> DeliveryRows]
  <2>1. delivery' = [e \in Rows |-> delivery'[e]]
    BY <1>2, Zenon
  <2> QED
    BY <1>6, <2>1
<1>8. PICK at \in {"look", "send"} : at = (IF batch = {} THEN "look" ELSE "send")
  OBVIOUS
<1>9. courier' \in Couriers /\ courier'.at = at /\ courier'.batch = batch
  <2>1. courier' = [courier EXCEPT !.at = at, !.batch = batch]
    BY <1>2, <1>8, Zenon
  <2> QED
    BY <1>3, <1>5, <2>1 DEF Couriers
<1>10. DeliveryTypes'
  BY <1>1, <1>4, <1>7, <1>9 DEF DeliveryTypes
<1>11. OfCourier' = batch
  BY <1>9 DEF OfCourier
<1>12. ASSUME NEW d \in Rows PROVE RowTold(d)'
  <2>1. RowTold(d) /\ delivery[d].attempts \in Nat /\ sent[d] \in Nat
    BY <1>4 DEF DeliveryTypes, DeliveryRows
  <2>2. CASE d \in batch
    <3>1. d \notin Heard /\ delivery[d].attempts < MaxAttempts
      BY <1>6, <2>1, <2>2 DEF RowTold
    <3> QED
      BY <1>1, <1>6, <1>11, <2>1, <2>2, <3>1, DeliveriesAssumption DEF RowTold, DeliveriesAssumption
  <2>3. CASE d \notin batch
    BY <1>1, <1>5, <1>6, <1>11, <2>1, <2>3 DEF RowTold
  <2> QED
    BY <2>2, <2>3
<1>13. OfCourier' \cap stranded' = {}
  <2>1. \A d \in batch : d \notin stranded
    BY <1>3, <1>4, <1>6 DEF RowTold
  <2> QED
    BY <1>1, <1>11, <2>1
<1>14. Carried'
  <2>1. \A d \in batch : d \notin Heard /\ sent[d] < delivery'[d].attempts
    <3> SUFFICES ASSUME NEW d \in batch PROVE d \notin Heard /\ sent[d] < delivery'[d].attempts
      OBVIOUS
    <3>1. d \in Rows /\ RowTold(d) /\ delivery[d].attempts \in Nat /\ sent[d] \in Nat
      BY <1>3, <1>4 DEF DeliveryTypes, DeliveryRows
    <3> QED
      BY <1>6, <3>1 DEF RowTold
  <2>2. at = "look" => batch = {}
    BY <1>8
  <2> QED
    BY <1>1, <1>9, <2>1, <2>2 DEF Carried
<1>15. Awaited'
  BY <1>9 DEF Awaited
<1> QED
  BY <1>10, <1>12, <1>13, <1>14, <1>15, DeliveryPartsAfter

LEMMA SendingKeeps == ASSUME DeliveryInv, NEW x \in Rows, deliver(x) PROVE DeliveryInv'
<1>1. /\ courier.at = "send" /\ x \in courier.batch /\ delivery' = delivery /\ teller' = teller /\ retrier' = retrier
      /\ deliveryWake' = deliveryWake /\ stopping' = stopping /\ stranded' = stranded
      /\ sent' = [sent EXCEPT ![x] = IF stopping THEN sent[x] ELSE sent[x] + 1]
  BY Zenon DEF deliver
<1>2. PICK verdict \in Verdicts(x) \cup {"later"} :
         /\ courier' = [courier EXCEPT !.at = "mark", !.batch = courier.batch \ {x}, !.verdict = <<x, verdict>>]
         /\ \/ /\ acked' = IF verdict = "taken" THEN acked \cup {x} ELSE acked
               /\ unheard' = IF verdict = "taken" THEN unheard \ {x} ELSE unheard
            \/ verdict = "later" /\ acked' = acked \cup {x} /\ unheard' = unheard \cup {x}
  BY Zenon DEF deliver, Hears
<1>3. verdict \in AllVerdicts
  <2>1. x[2] \in {"webhook", "telegram"} /\ x[2] # "webhook" => x[2] = "telegram"
    BY DEF Rows
  <2> QED
    BY <1>2, <2>1 DEF Verdicts, AllVerdicts, Rows
<1>4. DeliveryTypes /\ Carried /\ (\A d \in Rows : RowTold(d)) /\ OfCourier \cap stranded = {}
  BY ToldRows DEF DeliveryInv
<1>5. courier \in Couriers /\ Heard \in SUBSET Rows /\ sent \in [Rows -> Nat] /\ delivery \in [Rows -> DeliveryRows]
  BY <1>4 DEF DeliveryTypes
<1>6. /\ courier' \in Couriers /\ courier'.at = "mark" /\ courier'.batch = courier.batch \ {x}
      /\ courier'.verdict = <<x, verdict>>
  <2> DEFINE v == <<x, verdict>>
  <2>1. v \in Rows \X AllVerdicts /\ courier' = [courier EXCEPT !.at = "mark", !.batch = courier.batch \ {x}, !.verdict = v]
    BY <1>2, <1>3
  <2> HIDE DEF v
  <2>2. courier' \in Couriers /\ courier'.at = "mark" /\ courier'.batch = courier.batch \ {x} /\ courier'.verdict = v
    BY <1>5, <2>1 DEF Couriers
  <2> QED
    BY <2>2 DEF v
<1>7. courier'.verdict \in Rows \X AllVerdicts /\ courier'.verdict[1] = x /\ courier'.verdict[2] = verdict
  BY <1>3, <1>6
<1>8. /\ sent' \in [Rows -> Nat] /\ \A d \in Rows : d # x => sent'[d] = sent[d]
      /\ sent'[x] <= sent[x] + 1
  BY <1>1, <1>5
<1>9. Heard' \in SUBSET Rows /\ (\A d \in Rows : d # x => (d \in Heard' <=> d \in Heard)) /\ (x \in Heard' <=> verdict = "taken")
  <2>1. x \notin Heard
    BY <1>1, <1>4 DEF Carried
  <2> QED
    BY <1>2, <1>5, <2>1 DEF Heard
<1>10. DeliveryTypes'
  BY <1>1, <1>4, <1>6, <1>8, <1>9 DEF DeliveryTypes
<1>11. OfCourier' = OfCourier
  BY <1>1, <1>6, <1>7 DEF OfCourier
<1>12. Carried'
  <2>1. \A d \in courier'.batch : d \in Rows /\ d # x /\ d \in courier.batch
    BY <1>5, <1>6 DEF Couriers
  <2>2. \A d \in courier'.batch : d \notin Heard' /\ sent'[d] < delivery'[d].attempts
    BY <1>1, <1>4, <1>8, <1>9, <2>1 DEF Carried
  <2>3. x \notin courier'.batch
    BY <2>1
  <2> QED
    BY <1>6, <1>7, <1>9, <2>2, <2>3 DEF Carried
<1>13. ASSUME NEW d \in Rows PROVE RowTold(d)'
  <2>1. RowTold(d) /\ delivery[d].attempts \in Nat /\ sent[d] \in Nat
    BY <1>4, <1>5 DEF DeliveryRows
  <2>2. CASE d = x
    <3>1. sent[x] < delivery[x].attempts
      BY <1>1, <1>4 DEF Carried
    <3>2. delivery[x].status = "inflight"
      BY <1>1, <2>1, <2>2 DEF RowTold, OfCourier
    <3>3. sent'[d] <= delivery'[d].attempts
      BY <1>1, <1>5, <1>8, <2>1, <2>2, <3>1
    <3> QED
      BY <1>1, <1>11, <2>1, <2>2, <3>2, <3>3 DEF RowTold
  <2>3. CASE d # x
    BY <1>1, <1>8, <1>9, <1>11, <2>1, <2>3 DEF RowTold
  <2> QED
    BY <2>2, <2>3
<1>14. OfCourier' \cap stranded' = {} /\ Awaited'
  BY <1>1, <1>4, <1>6, <1>11 DEF Awaited
<1> QED
  BY <1>10, <1>12, <1>13, <1>14, DeliveryPartsAfter

\* The loop after a verdict was written, or could not be.
LEMMA OnwardSteps ==
    ASSUME DeliveryTypes, Carried, courier.at = "mark", courier' = Onward
    PROVE  /\ courier' \in Couriers /\ courier'.at \in {"look", "send"} /\ courier'.batch = courier.batch
           /\ courier'.at = "look" => courier.batch = {}
           /\ OfCourier = courier.batch \cup {courier.verdict[1]} /\ OfCourier' = courier.batch
           /\ courier.verdict[1] \in Rows /\ courier.verdict[1] \notin courier.batch /\ courier.verdict[2] \in AllVerdicts
<1>1. PICK at \in {"look", "send"} : at = (IF courier.batch = {} THEN "look" ELSE "send")
  OBVIOUS
<1>2. courier' = [courier EXCEPT !.at = at, !.verdict = "none"]
  BY <1>1, Zenon DEF Onward
<1>3. courier' \in Couriers /\ courier'.at = at /\ courier'.batch = courier.batch
  BY <1>2 DEF DeliveryTypes, Couriers
<1>4. OfCourier' = courier.batch
  BY <1>3 DEF OfCourier
<1> QED
  BY <1>1, <1>3, <1>4 DEF Carried, OfCourier

LEMMA MarkKeeps == ASSUME DeliveryInv, MarkOutcome PROVE DeliveryInv'
<1> DEFINE x == courier.verdict[1]
           v == courier.verdict[2]
<1>1. /\ courier.at = "mark" /\ courier' = Onward /\ teller' = teller /\ retrier' = retrier /\ deliveryWake' = deliveryWake
      /\ stopping' = stopping /\ Heard' = Heard /\ sent' = sent /\ stranded' = stranded
  BY Zenon DEF MarkOutcome, Heard
<1>2. delivery' = [delivery EXCEPT ![x] = [delivery[x] EXCEPT !.status = Outcome(x, v), !.lease = "none", !.due = FALSE]]
  BY Zenon DEF MarkOutcome
<1>3. DeliveryTypes /\ Carried /\ (\A d \in Rows : RowTold(d)) /\ OfCourier \cap stranded = {}
  BY ToldRows DEF DeliveryInv
<1>4. /\ courier' \in Couriers /\ courier'.at \in {"look", "send"} /\ courier'.batch = courier.batch
      /\ courier'.at = "look" => courier.batch = {}
      /\ OfCourier = courier.batch \cup {x} /\ OfCourier' = courier.batch
      /\ x \in Rows /\ x \notin courier.batch /\ v \in AllVerdicts
  BY <1>1, <1>3, OnwardSteps
<1>5. x \in Heard <=> v = "taken"
  BY <1>1, <1>3 DEF Carried
<1> HIDE DEF x, v
<1>6. PICK out \in {"delivered", "retry_wait", "dead"} : out = Outcome(x, v) /\ (out = "delivered" <=> v = "taken")
  <2>1. Outcome(x, v) \in {"delivered", "retry_wait", "dead"} /\ (Outcome(x, v) = "delivered" <=> v = "taken")
    <3>1. CASE v = "taken"
      BY <3>1 DEF Outcome
    <3>2. CASE v = "later" /\ delivery[x].attempts < MaxAttempts
      BY <3>2 DEF Outcome
    <3>3. CASE v # "taken" /\ ~(v = "later" /\ delivery[x].attempts < MaxAttempts)
      BY <3>3 DEF Outcome
    <3> QED
      BY <3>1, <3>2, <3>3
  <2> QED
    BY <2>1
<1>7. /\ delivery' \in [Rows -> DeliveryRows] /\ delivery'[x].status = out /\ delivery'[x].attempts = delivery[x].attempts
      /\ \A d \in Rows : d # x => delivery'[d] = delivery[d]
  <2>1. PICK b \in BOOLEAN : b = FALSE
    OBVIOUS
  <2> DEFINE r == [delivery[x] EXCEPT !.status = out, !.lease = "none", !.due = b]
  <2>2. delivery' = [delivery EXCEPT ![x] = r]
    BY <1>2, <1>6, <2>1, Zenon
  <2>3. delivery \in [Rows -> DeliveryRows] /\ delivery[x] \in DeliveryRows
    BY <1>3, <1>4 DEF DeliveryTypes
  <2>4. r \in DeliveryRows /\ r.status = out /\ r.attempts = delivery[x].attempts
    BY <2>3 DEF DeliveryRows
  <2> HIDE DEF r
  <2> QED
    BY <1>4, <2>2, <2>3, <2>4
<1>8. DeliveryTypes'
  BY <1>1, <1>3, <1>4, <1>7 DEF DeliveryTypes
<1>9. Carried'
  <2>1. \A d \in courier.batch : d \in Rows /\ d # x
    BY <1>3, <1>4 DEF DeliveryTypes, Couriers
  <2>2. \A d \in courier.batch : d \notin Heard' /\ sent'[d] < delivery'[d].attempts
    BY <1>1, <1>3, <1>7, <2>1 DEF Carried
  <2> QED
    BY <1>4, <2>2 DEF Carried
<1>10. ASSUME NEW d \in Rows PROVE RowTold(d)'
  <2>1. RowTold(d)
    BY <1>3
  <2>2. CASE d = x
    <3>1. d \notin stranded
      BY <1>3, <1>4, <2>2
    <3>2. ~(d \in OfCourier' \cup stranded')
      BY <1>1, <1>4, <2>2, <3>1
    <3>3. sent'[d] <= delivery'[d].attempts /\ delivery'[d].attempts <= MaxAttempts
      BY <1>1, <1>7, <2>1, <2>2 DEF RowTold
    <3> QED
      BY <1>1, <1>5, <1>6, <1>7, <2>2, <3>2, <3>3 DEF RowTold
  <2>3. CASE d # x
    <3>1. d \in OfCourier' \cup stranded' <=> d \in OfCourier \cup stranded
      BY <1>1, <1>4, <2>3
    <3> QED
      BY <1>1, <1>7, <2>1, <2>3, <3>1 DEF RowTold
  <2> QED
    BY <2>2, <2>3
<1>11. OfCourier' \cap stranded' = {} /\ Awaited'
  BY <1>1, <1>3, <1>4 DEF Awaited
<1> QED
  BY <1>8, <1>9, <1>10, <1>11, DeliveryPartsAfter

LEMMA FailMarkKeeps == ASSUME DeliveryInv, FailMark PROVE DeliveryInv'
<1> DEFINE x == courier.verdict[1]
<1>1. /\ courier.at = "mark" /\ courier' = Onward /\ teller' = teller /\ retrier' = retrier /\ deliveryWake' = deliveryWake
      /\ stopping' = stopping /\ Heard' = Heard /\ sent' = sent /\ stranded' = stranded \cup {x} /\ delivery' = delivery
  BY Zenon DEF FailMark, Heard
<1>2. DeliveryTypes /\ Carried /\ (\A d \in Rows : RowTold(d)) /\ OfCourier \cap stranded = {}
  BY ToldRows DEF DeliveryInv
<1>3. /\ courier' \in Couriers /\ courier'.at \in {"look", "send"} /\ courier'.batch = courier.batch
      /\ courier'.at = "look" => courier.batch = {}
      /\ OfCourier = courier.batch \cup {x} /\ OfCourier' = courier.batch
      /\ x \in Rows /\ x \notin courier.batch
  BY <1>1, <1>2, OnwardSteps
<1> HIDE DEF x
<1>4. DeliveryTypes'
  BY <1>1, <1>2, <1>3 DEF DeliveryTypes
<1>5. Carried'
  BY <1>1, <1>2, <1>3 DEF Carried
<1>6. OfCourier' \cup stranded' = OfCourier \cup stranded
  BY <1>1, <1>3
<1>7. ASSUME NEW d \in Rows PROVE RowTold(d)'
  <2>1. RowTold(d)
    BY <1>2
  <2> QED
    BY <1>1, <1>6, <2>1 DEF RowTold
<1>8. OfCourier' \cap stranded' = {} /\ Awaited'
  BY <1>1, <1>2, <1>3 DEF Awaited
<1> QED
  BY <1>4, <1>5, <1>7, <1>8, DeliveryPartsAfter

LEMMA RestartKeeps == ASSUME DeliveryInv, RestartDeliveries PROVE DeliveryInv'
<1>1. /\ teller' = [n \in Notices |-> NotTelling] /\ courier' = AtHome /\ stranded' = stranded \cup OfCourier
      /\ delivery' = delivery /\ Heard' = Heard /\ sent' = sent
  BY Zenon DEF RestartDeliveries, Heard
<1>2. retrier' = FALSE /\ deliveryWake' = FALSE /\ stopping' = FALSE
  BY Zenon DEF RestartDeliveries
<1>3. retrier' \in BOOLEAN /\ deliveryWake' \in BOOLEAN /\ stopping' \in BOOLEAN
  BY <1>2, Zenon
<1>4. DeliveryTypes /\ Carried /\ (\A d \in Rows : RowTold(d))
  BY ToldRows DEF DeliveryInv
<1>5. OfCourier \in SUBSET Rows
  <2>1. courier.batch \subseteq Rows /\ (courier.at = "mark" => courier.verdict[1] \in Rows)
    BY <1>4 DEF DeliveryTypes, Couriers, Carried
  <2> QED
    BY <2>1 DEF OfCourier
<1>6. teller' \in [Notices -> Tellers]
  <2>1. NotTelling \in Tellers
    BY DEF NotTelling, Tellers
  <2> QED
    BY <1>1, <2>1
<1>7. courier' \in Couriers /\ courier'.at = "claim" /\ courier'.batch = {}
  BY <1>1, HomeIsHome
<1>8. DeliveryTypes'
  BY <1>1, <1>3, <1>4, <1>5, <1>6, <1>7 DEF DeliveryTypes
<1>9. OfCourier' = {}
  BY <1>7 DEF OfCourier
<1>10. Carried' /\ Awaited'
  BY <1>7 DEF Carried, Awaited
<1>11. ASSUME NEW d \in Rows PROVE RowTold(d)'
  <2>1. RowTold(d)
    BY <1>4
  <2> QED
    BY <1>1, <1>9, <2>1 DEF RowTold
<1> QED
  BY <1>8, <1>9, <1>10, <1>11, DeliveryPartsAfter

\* Time moves the marks of one row and nothing that is said of it.
LEMMA RowAges ==
    ASSUME DeliveryInv, NEW x \in Rows, NEW r \in DeliveryRows, delivery' = [delivery EXCEPT ![x] = r],
           r.status = delivery[x].status, r.attempts = delivery[x].attempts,
           courier' = courier, stopping' = stopping, Heard' = Heard, sent' = sent, stranded' = stranded,
           teller' = teller, retrier' = retrier, deliveryWake' = deliveryWake
    PROVE  DeliveryInv'
<1>1. DeliveryTypes /\ Carried /\ Awaited /\ (\A d \in Rows : RowTold(d)) /\ OfCourier \cap stranded = {}
  BY ToldRows DEF DeliveryInv
<1>2. /\ delivery' \in [Rows -> DeliveryRows]
      /\ \A d \in Rows : delivery'[d].status = delivery[d].status /\ delivery'[d].attempts = delivery[d].attempts
  BY <1>1 DEF DeliveryTypes
<1>3. DeliveryTypes'
  BY <1>1, <1>2 DEF DeliveryTypes
<1>4. OfCourier' = OfCourier
  BY DEF OfCourier
<1>5. Carried'
  <2>1. \A d \in courier.batch : d \in Rows
    BY <1>1 DEF DeliveryTypes, Couriers
  <2> QED
    BY <1>1, <1>2, <2>1 DEF Carried
<1>6. ASSUME NEW d \in Rows PROVE RowTold(d)'
  BY <1>1, <1>2, <1>4 DEF RowTold
<1>7. Awaited'
  BY <1>1, <1>2 DEF Awaited, Pending
<1> QED
  BY <1>1, <1>3, <1>4, <1>5, <1>6, <1>7, DeliveryPartsAfter

LEMMA AgesKeep == ASSUME DeliveryInv, NEW x \in Rows, BackoffEnds(x) \/ LeaseEnds(x) PROVE DeliveryInv'
<1>1. /\ courier' = courier /\ stopping' = stopping /\ Heard' = Heard /\ sent' = sent /\ stranded' = stranded
      /\ teller' = teller /\ retrier' = retrier /\ deliveryWake' = deliveryWake
  BY Zenon DEF BackoffEnds, LeaseEnds, Heard
<1>2. delivery \in [Rows -> DeliveryRows] /\ delivery[x] \in DeliveryRows
  BY DEF DeliveryInv, DeliveryTypes
<1>3. \E r \in DeliveryRows : /\ delivery' = [delivery EXCEPT ![x] = r]
                              /\ r.status = delivery[x].status /\ r.attempts = delivery[x].attempts
  <2>1. CASE BackoffEnds(x)
    <3>1. PICK b \in BOOLEAN : b = TRUE
      OBVIOUS
    <3>2. delivery' = [delivery EXCEPT ![x] = [delivery[x] EXCEPT !.due = b]]
      BY <2>1, <3>1, Zenon DEF BackoffEnds
    <3> DEFINE r == [delivery[x] EXCEPT !.due = b]
    <3>3. r \in DeliveryRows /\ r.status = delivery[x].status /\ r.attempts = delivery[x].attempts
      BY <1>2 DEF DeliveryRows
    <3> QED
      BY <3>2, <3>3, Zenon
  <2>2. CASE LeaseEnds(x)
    <3>1. delivery' = [delivery EXCEPT ![x] = [delivery[x] EXCEPT !.lease = "over"]]
      BY <2>2, Zenon DEF LeaseEnds
    <3> DEFINE r == [delivery[x] EXCEPT !.lease = "over"]
    <3>2. r \in DeliveryRows /\ r.status = delivery[x].status /\ r.attempts = delivery[x].attempts
      BY <1>2 DEF DeliveryRows
    <3> QED
      BY <3>1, <3>2, Zenon
  <2> QED
    BY <2>1, <2>2
<1> QED
  BY <1>1, <1>3, RowAges

LEMMA DeliveryInitHolds == DeliveriesInit => DeliveryInv
<1> SUFFICES ASSUME DeliveriesInit PROVE DeliveryInv
  OBVIOUS
<1>1. /\ delivery = [d \in Rows |-> NoRow] /\ teller = [n \in Notices |-> NotTelling] /\ courier = AtHome
      /\ Heard = {} /\ sent = [d \in Rows |-> 0] /\ stranded = {}
  BY Zenon DEF DeliveriesInit, Heard
<1>2. retrier = FALSE /\ deliveryWake = FALSE /\ stopping = FALSE
  BY Zenon DEF DeliveriesInit
<1>3. retrier \in BOOLEAN /\ deliveryWake \in BOOLEAN /\ stopping \in BOOLEAN
  BY <1>2, Zenon
<1>4. teller \in [Notices -> Tellers]
  <2>1. NotTelling \in Tellers
    BY DEF NotTelling, Tellers
  <2> QED
    BY <1>1, <2>1
<1>5. courier \in Couriers /\ courier.at = "claim" /\ courier.batch = {}
  BY <1>1, HomeIsHome
<1>6. DeliveryTypes
  BY <1>1, <1>3, <1>4, <1>5, FreshRows DEF DeliveryTypes
<1>7. OfCourier = {} /\ Carried /\ Awaited
  BY <1>5 DEF OfCourier, Carried, Awaited
<1>8. ASSUME NEW d \in Rows PROVE RowTold(d)
  BY <1>1, <1>7, FreshRows, DeliveriesAssumption DEF RowTold, DeliveriesAssumption
<1> QED
  BY <1>1, <1>6, <1>7, <1>8, ToldRows DEF DeliveryInv

LEMMA DeliveryStepKeeps == ASSUME DeliveryInv, [DeliveriesNext]_deliveryVars PROVE DeliveryInv'
<1>1. ASSUME NEW n \in Notices, NotifyWebhook(n) \/ NotifyTelegram(n) \/ signalDeliveryWake(n) PROVE DeliveryInv'
  BY <1>1, TellersKeep
<1>2. ASSUME NEW d \in Rows, RetryDelivery(d) \/ deliver(d) \/ BackoffEnds(d) \/ LeaseEnds(d) PROVE DeliveryInv'
  BY <1>2, RetryKeeps, SendingKeeps, AgesKeep, Zenon
<1>3. CASE SignalRetry \/ FailClaim \/ nextDeliveryWait \/ CloseDeliveries
  BY <1>3, QuietStepsKeep
<1>4. CASE TakeWake \/ LeaveLoop \/ \E fallback \in BOOLEAN : DeliveryTimer(fallback)
  BY <1>4, WakesKeep, Zenon
<1>5. CASE ClaimNotificationDeliveries \/ MarkOutcome \/ FailMark \/ RestartDeliveries
  BY <1>5, ClaimKeeps, MarkKeeps, FailMarkKeeps, RestartKeeps, Zenon
<1>6. CASE UNCHANGED deliveryVars
  <2>1. /\ delivery' = delivery /\ teller' = teller /\ retrier' = retrier /\ deliveryWake' = deliveryWake
        /\ courier' = courier /\ stopping' = stopping /\ Heard' = Heard /\ sent' = sent /\ stranded' = stranded
    BY <1>6 DEF deliveryVars, Heard
  <2>2. DeliveryTypes
    BY DEF DeliveryInv
  <2>3. Watchful => Watchful'
    BY <2>1 DEF Watchful
  <2> QED
    BY <2>1, <2>2, <2>3, TellingKeeps DEF DeliveryTypes
<1> QED
  BY <1>1, <1>2, <1>3, <1>4, <1>5, <1>6, Zenon DEF DeliveriesNext

LEMMA DeliveryHolds == DeliveriesSpec => []DeliveryInv
<1>1. DeliveryInv /\ [DeliveriesNext]_deliveryVars => DeliveryInv'
  BY DeliveryStepKeeps
<1> QED
  BY DeliveryInitHolds, <1>1, PTL DEF DeliveriesSpec

\* What a delivery's row says is what the other side saw (deliver of manager.go
\* and MarkNotificationDelivery... of automation_p2p3.go): delivered means
\* taken, what was taken goes out no more unless a person asks or the answer
\* was lost, and no more often than max_attempts, whatever fails, stops or
\* restarts in between.
THEOREM DeliveriesTellTheTruth == DeliveriesSpec => []DeliveryTold
<1>1. DeliveryInv => DeliveryTold
  BY ToldRows DEF DeliveryInv, DeliveryTold, RowTold, Heard
<1> QED
  BY DeliveryHolds, <1>1, PTL

\* The loop that sleeps has its timer set for every row that is due, or a
\* signal is in the channel or on its way (nextDeliveryWait and
\* signalDeliveryWake of manager.go).
THEOREM NothingDueIsSleptThrough == DeliveriesSpec => []DueIsWatched
<1>1. DeliveryInv => DueIsWatched
  BY DEF DeliveryInv, Awaited, DueIsWatched, Claimable
<1> QED
  BY DeliveryHolds, <1>1, PTL

-----------------------------------------------------------------------------
(* Schedules. The lease that has not lapsed has one holder, and the next     *)
(* time of the row lies behind every time that was run under a lease.        *)

ScheduleRows == [present : BOOLEAN, enabled : BOOLEAN, period : Periods, next : Nat, lease : Nat, until : Nat]
DispatchStates == {"idle", "read", "plan", "submit", "settle", "record", "release"}
Dispatches == [at : DispatchStates, lease : Nat, period : Nat \ {0}, next : Nat]
Revisions == [at : {"idle", "write"}, fresh : BOOLEAN, period : Nat \ {0}, enabled : BOOLEAN, next : Nat]
LeaseRows == [for : Nat, run : {"none", "started", "failed"}]

ScheduleTypes ==
    /\ now \in Nat /\ ignored \in Nat /\ lapsed \in SUBSET Nat
    /\ schedule \in ScheduleRows
    /\ dispatch \in [Dispatchers -> Dispatches]
    /\ revision \in Revisions
    /\ leases \in Seq(LeaseRows)

\* A next time that lies behind the times of the first n leases.
Behind(next, n) == next = 0 \/ \A i \in 1..n : leases[i].for < next

\* The newest lease is the row's, or the row has none.
Numbered ==
    /\ schedule.lease = 0 \/ schedule.lease = Len(leases)
    /\ \A i \in 1..Len(leases) : leases[i].for <= now

\* What the dispatcher d does, and what it may write.
Works(d) ==
    LET mine == dispatch[d].lease IN
    dispatch[d].at # "idle" =>
        /\ mine \in 1..Len(leases)
        /\ mine \notin lapsed => mine = schedule.lease
        /\ mine \notin lapsed /\ dispatch[d].at # "record" => leases[mine].run # "started"
        /\ dispatch[d].at \in {"submit", "settle", "record", "release"} => Behind(dispatch[d].next, mine)
        /\ mine = schedule.lease /\ ignored # mine =>
              /\ dispatch[d].at = "plan" => dispatch[d].period = schedule.period
              /\ dispatch[d].at \in {"submit", "settle", "record", "release"} => dispatch[d].next % schedule.period = 0

SoleHolders ==
    \A d, e \in Dispatchers :
        dispatch[d].at # "idle" /\ dispatch[e].at # "idle" /\ dispatch[d].lease = dispatch[e].lease /\ d # e =>
            dispatch[d].lease \in lapsed

\* The times that were run lie before the next one, and none is claimed again.
Settled(i) ==
    i \notin lapsed /\ leases[i].run = "started" =>
        /\ i # schedule.lease => schedule.next = 0 \/ leases[i].for < schedule.next
        /\ leases[i].for # 0 => \A j \in 1..Len(leases) : i < j => leases[j].for # leases[i].for

Revised ==
    revision.at = "write" =>
        /\ revision.period \in Periods
        /\ revision.enabled => revision.next % revision.period = 0
        /\ revision.fresh => Behind(revision.next, Len(leases))

Timely == schedule.enabled /\ ignored = 0 => schedule.next % schedule.period = 0

ScheduleInv ==
    /\ ScheduleTypes /\ Numbered /\ SoleHolders /\ Revised /\ Timely
    /\ \A d \in Dispatchers : Works(d)
    /\ \A i \in 1..Len(leases) : Settled(i)

LEMMA NextTimeLiesAhead ==
    ASSUME NEW p \in Nat \ {0}, NEW t \in Nat
    PROVE  NextTime(p, t) \in Nat /\ NextTime(p, t) > t /\ NextTime(p, t) % p = 0
<1>1. NextTime(p, t) \in Nat
  BY DEF NextTime
<1>2. NextTime(p, t) > t
  BY DEF NextTime
<1>3. PICK k \in Nat : NextTime(p, t) = k * p
  <2>1. t \div p + 1 \in Nat
    OBVIOUS
  <2> QED
    BY <2>1, Zenon DEF NextTime
<1>4. (k * p) % p = 0
  OBVIOUS
<1> QED
  BY <1>1, <1>2, <1>3, <1>4

LEMMA PeriodsAreWhole == Periods \subseteq Nat \ {0} /\ LeaseTime \in Nat
BY SchedulesAssumption DEF SchedulesAssumption

LEMMA LeaseFields ==
    ASSUME ScheduleTypes
    PROVE  Len(leases) \in Nat /\ \A i \in 1..Len(leases) : leases[i] \in LeaseRows /\ leases[i].for \in Nat
<1>1. leases \in Seq(LeaseRows)
  BY DEF ScheduleTypes
<1>2. Len(leases) \in Nat /\ \A i \in 1..Len(leases) : leases[i] \in LeaseRows
  BY <1>1
<1>3. \A l \in LeaseRows : l.for \in Nat
  BY DEF LeaseRows
<1> QED
  BY <1>2, <1>3

\* A next time reckoned from now lies behind every lease there is.
LEMMA NextLiesBehind ==
    ASSUME ScheduleTypes, Numbered, NEW p \in Nat \ {0}
    PROVE  Behind(NextTime(p, now), Len(leases))
<1>1. NextTime(p, now) \in Nat /\ NextTime(p, now) > now /\ now \in Nat
  BY NextTimeLiesAhead DEF ScheduleTypes
<1> QED
  BY <1>1, LeaseFields DEF Behind, Numbered

LEMMA IdleIsIdle == Unclaimed \in Dispatches /\ Unclaimed.at = "idle"
BY DEF Unclaimed, Dispatches, DispatchStates

\* A step of one dispatcher that leaves the row; it may say what became of the
\* run of its lease, and give its lease up for another.
LEMMA DispatcherSteps ==
    ASSUME ScheduleInv, NEW d \in Dispatchers, dispatch[d].at # "idle",
           dispatch' \in [Dispatchers -> Dispatches], \A e \in Dispatchers : e # d => dispatch'[e] = dispatch[e],
           now' = now, schedule' = schedule, revision' = revision, ignored' = ignored,
           lapsed' \in SUBSET Nat, lapsed \subseteq lapsed',
           leases' \in Seq(LeaseRows), Len(leases') = Len(leases),
           \A i \in 1..Len(leases) : leases'[i].for = leases[i].for,
           \A i \in 1..Len(leases) : i # dispatch[d].lease => leases'[i].run = leases[i].run,
           \A i \in 1..Len(leases) : i \notin lapsed' /\ i # schedule.lease => leases'[i].run = leases[i].run,
           Works(d)',
           dispatch'[d].at # "idle" => dispatch'[d].lease = dispatch[d].lease \/ dispatch'[d].lease \in lapsed'
    PROVE  ScheduleInv'
<1>1. /\ ScheduleTypes /\ Numbered /\ SoleHolders /\ Revised /\ Timely
      /\ \A e \in Dispatchers : Works(e)
      /\ \A i \in 1..Len(leases) : Settled(i)
  BY DEF ScheduleInv
<1>2. ScheduleTypes' /\ Numbered' /\ Timely'
  BY <1>1 DEF ScheduleTypes, Numbered, Timely
<1>3. Revised'
  BY <1>1 DEF Revised, Behind
<1>4. SoleHolders'
  <2> SUFFICES ASSUME NEW a \in Dispatchers, NEW b \in Dispatchers, a # b, dispatch'[a].at # "idle",
                      dispatch'[b].at # "idle", dispatch'[a].lease = dispatch'[b].lease
               PROVE  dispatch'[a].lease \in lapsed'
    BY DEF SoleHolders
  <2>1. CASE a # d /\ b # d
    BY <1>1, <2>1 DEF SoleHolders
  <2>2. CASE a = d
    BY <1>1, <2>2 DEF SoleHolders
  <2>3. CASE b = d
    BY <1>1, <2>3 DEF SoleHolders
  <2> QED
    BY <2>1, <2>2, <2>3
<1>5. ASSUME NEW e \in Dispatchers PROVE Works(e)'
  <2>1. CASE e = d
    BY <2>1
  <2>2. CASE e # d /\ dispatch[e].at # "idle"
    <3>1. dispatch'[e] = dispatch[e] /\ Works(e) /\ dispatch[e].lease \in 1..Len(leases)
      BY <1>1, <2>2 DEF Works
    <3>2. dispatch[e].lease \notin lapsed' => leases'[dispatch[e].lease].run = leases[dispatch[e].lease].run
      BY <1>1, <2>2, <3>1 DEF SoleHolders
    <3>3. \A n : Behind(n, dispatch[e].lease) => Behind(n, dispatch[e].lease)'
      BY <1>1, <3>1, LeaseFields DEF Behind
    <3> QED
      BY <2>2, <3>1, <3>2, <3>3 DEF Works
  <2>3. CASE e # d /\ dispatch[e].at = "idle"
    BY <2>3 DEF Works
  <2> QED
    BY <2>1, <2>2, <2>3
<1>6. ASSUME NEW i \in 1..Len(leases') PROVE Settled(i)'
  <2>1. i \in 1..Len(leases) /\ Settled(i)
    BY <1>1
  <2>2. CASE leases'[i].run = leases[i].run
    BY <2>1, <2>2 DEF Settled
  <2>3. CASE leases'[i].run # leases[i].run
    <3>1. i \in lapsed' \/ i = schedule.lease
      BY <2>1, <2>3
    <3>2. CASE i \in lapsed'
      BY <3>2 DEF Settled
    <3>3. CASE i = schedule.lease
      <4>1. i = Len(leases)
        BY <1>1, <2>1, <3>3 DEF Numbered
      <4> QED
        BY <3>3, <4>1, <1>1, LeaseFields DEF Settled
    <3> QED
      BY <3>1, <3>2, <3>3
  <2> QED
    BY <2>2, <2>3
<1> QED
  BY <1>2, <1>3, <1>4, <1>5, <1>6 DEF ScheduleInv

LEMMA DispatchIsSet ==
    ASSUME dispatch \in [Dispatchers -> Dispatches], NEW d \in Dispatchers, NEW r \in Dispatches,
           dispatch' = [dispatch EXCEPT ![d] = r]
    PROVE  /\ dispatch' \in [Dispatchers -> Dispatches] /\ dispatch'[d] = r
           /\ \A e \in Dispatchers : e # d => dispatch'[e] = dispatch[e]
OBVIOUS

\* A dispatcher that moves on and writes nothing.
LEMMA DispatcherMoves ==
    ASSUME ScheduleInv, NEW d \in Dispatchers, dispatch[d].at # "idle", NEW r \in Dispatches,
           dispatch' = [dispatch EXCEPT ![d] = r],
           now' = now, schedule' = schedule, revision' = revision, ignored' = ignored, leases' = leases,
           lapsed' \in SUBSET Nat, lapsed \subseteq lapsed', Works(d)',
           r.at # "idle" => r.lease = dispatch[d].lease \/ r.lease \in lapsed'
    PROVE  ScheduleInv'
<1>1. dispatch \in [Dispatchers -> Dispatches] /\ leases \in Seq(LeaseRows)
  BY DEF ScheduleInv, ScheduleTypes
<1>2. /\ dispatch' \in [Dispatchers -> Dispatches] /\ dispatch'[d] = r
      /\ \A e \in Dispatchers : e # d => dispatch'[e] = dispatch[e]
  BY <1>1, DispatchIsSet
<1> QED
  BY <1>1, <1>2, DispatcherSteps

LEMMA DispatcherDeparts ==
    ASSUME ScheduleInv, NEW d \in Dispatchers, dispatch[d].at # "idle", Depart(d), now' = now, schedule' = schedule,
           revision' = revision, ignored' = ignored, leases' = leases, lapsed' = lapsed
    PROVE  ScheduleInv'
<1>1. dispatch \in [Dispatchers -> Dispatches] /\ dispatch' = [dispatch EXCEPT ![d] = Unclaimed] /\ lapsed \in SUBSET Nat
  BY DEF ScheduleInv, ScheduleTypes, Depart
<1>2. dispatch'[d] = Unclaimed
  BY <1>1
<1>3. Works(d)'
  BY <1>2, IdleIsIdle DEF Works
<1> QED
  BY <1>1, <1>3, IdleIsIdle, DispatcherMoves

LEMMA LoseClaimKeeps == ASSUME ScheduleInv, NEW d \in Dispatchers, LoseClaim(d) PROVE ScheduleInv'
<1>1. /\ dispatch[d].at = "read" /\ dispatch' = [dispatch EXCEPT ![d] = Unclaimed] /\ now' = now /\ schedule' = schedule
      /\ revision' = revision /\ leases' = leases /\ lapsed' = lapsed /\ ignored' = ignored
  BY Zenon DEF LoseClaim
<1> QED
  BY <1>1, DispatcherDeparts DEF Depart

LEMMA ReadClaimedKeeps == ASSUME ScheduleInv, NEW d \in Dispatchers, ReadClaimed(d) PROVE ScheduleInv'
<1>1. /\ dispatch[d].at = "read" /\ now' = now /\ schedule' = schedule /\ revision' = revision /\ leases' = leases
      /\ ignored' = ignored
      /\ lapsed' = IF schedule.lease = dispatch[d].lease THEN lapsed ELSE lapsed \cup {schedule.lease}
      /\ dispatch' = [dispatch EXCEPT ![d] = IF schedule.present /\ schedule.lease # 0
                         THEN [dispatch[d] EXCEPT !.at = "plan", !.lease = schedule.lease, !.period = schedule.period]
                         ELSE Unclaimed]
  BY Zenon DEF ReadClaimed
<1>2. /\ ScheduleTypes /\ Numbered /\ Works(d) /\ dispatch[d] \in Dispatches /\ schedule \in ScheduleRows /\ lapsed \in SUBSET Nat
  BY DEF ScheduleInv, ScheduleTypes
<1>3. schedule.lease \in Nat /\ schedule.period \in Periods /\ schedule.period \in Nat \ {0}
  BY <1>2, PeriodsAreWhole DEF ScheduleRows
<1>4. lapsed' \in SUBSET Nat /\ lapsed \subseteq lapsed' /\ (schedule.lease # dispatch[d].lease => schedule.lease \in lapsed')
  BY <1>1, <1>2, <1>3
<1>5. CASE schedule.present /\ schedule.lease # 0
  <2> DEFINE r == [dispatch[d] EXCEPT !.at = "plan", !.lease = schedule.lease, !.period = schedule.period]
  <2>1. dispatch' = [dispatch EXCEPT ![d] = r]
    BY <1>1, <1>5, Zenon
  <2>2. r \in Dispatches /\ r.at = "plan" /\ r.lease = schedule.lease /\ r.period = schedule.period
    BY <1>2, <1>3 DEF Dispatches, DispatchStates
  <2> HIDE DEF r
  <2>3. dispatch'[d] = r
    BY <1>2, <2>1 DEF ScheduleTypes
  <2>4. Works(d)'
    <3>1. r.lease \in 1..Len(leases)
      BY <1>2, <1>3, <1>5, <2>2, LeaseFields DEF Numbered
    <3>2. r.lease \notin lapsed' => leases[r.lease].run # "started"
      <4>1. r.lease \notin lapsed' => r.lease = dispatch[d].lease /\ dispatch[d].lease \notin lapsed
        BY <1>4, <2>2
      <4> QED
        BY <1>1, <1>2, <4>1 DEF Works
    <3> QED
      BY <1>1, <2>2, <2>3, <3>1, <3>2 DEF Works
  <2>5. r.lease = dispatch[d].lease \/ r.lease \in lapsed'
    BY <1>4, <2>2
  <2>6. dispatch[d].at # "idle"
    BY <1>1
  <2> QED
    BY <1>1, <1>4, <2>1, <2>2, <2>4, <2>5, <2>6, DispatcherMoves
<1>6. CASE ~(schedule.present /\ schedule.lease # 0)
  <2>1. dispatch' = [dispatch EXCEPT ![d] = Unclaimed]
    BY <1>1, <1>6, Zenon
  <2>2. dispatch'[d] = Unclaimed
    BY <1>2, <2>1 DEF ScheduleTypes
  <2>3. Works(d)'
    BY <2>2, IdleIsIdle DEF Works
  <2>4. dispatch[d].at # "idle"
    BY <1>1
  <2> QED
    BY <1>1, <1>4, <2>1, <2>3, <2>4, IdleIsIdle, DispatcherMoves
<1> QED
  BY <1>5, <1>6

LEMMA PlanKeeps == ASSUME ScheduleInv, NEW d \in Dispatchers, PlanNext(d) PROVE ScheduleInv'
<1>1. /\ dispatch[d].at = "plan" /\ now' = now /\ schedule' = schedule /\ revision' = revision /\ leases' = leases
      /\ ignored' = ignored /\ lapsed' = lapsed
  BY Zenon DEF PlanNext
<1>2. /\ ScheduleTypes /\ Numbered /\ Works(d) /\ dispatch[d] \in Dispatches /\ schedule \in ScheduleRows /\ now \in Nat
      /\ lapsed \in SUBSET Nat
  BY DEF ScheduleInv, ScheduleTypes
<1>3. dispatch[d].period \in Nat \ {0} /\ dispatch[d].lease \in Nat /\ schedule.period \in Nat \ {0}
  BY <1>2, PeriodsAreWhole DEF Dispatches, ScheduleRows
<1>4. PICK at \in {"submit", "settle"}, n \in Nat :
         /\ dispatch' = [dispatch EXCEPT ![d] = [dispatch[d] EXCEPT !.at = at, !.next = n, !.period = 1]]
         /\ n = NextTime(dispatch[d].period, now) \/ n = 0
  <2>1. CASE dispatch' = [dispatch EXCEPT ![d].at = "submit", ![d].next = NextTime(dispatch[d].period, now), ![d].period = 1]
    <3>1. PICK n \in Nat : n = NextTime(dispatch[d].period, now)
      BY <1>2, <1>3, NextTimeLiesAhead
    <3>2. dispatch' = [dispatch EXCEPT ![d].at = "submit", ![d].next = n, ![d].period = 1]
      BY <2>1, <3>1, Zenon
    <3>3. dispatch' = [dispatch EXCEPT ![d] = [dispatch[d] EXCEPT !.at = "submit", !.next = n, !.period = 1]]
      BY <1>2, <3>2 DEF ScheduleTypes
    <3> QED
      BY <3>1, <3>3, Zenon
  <2>2. CASE dispatch' = [dispatch EXCEPT ![d].at = "settle", ![d].next = 0, ![d].period = 1]
    <3>1. dispatch' = [dispatch EXCEPT ![d] = [dispatch[d] EXCEPT !.at = "settle", !.next = 0, !.period = 1]]
      BY <1>2, <2>2 DEF ScheduleTypes
    <3>2. 0 \in Nat
      OBVIOUS
    <3> QED
      BY <3>1, <3>2, Zenon
  <2> QED
    BY <2>1, <2>2, Zenon DEF PlanNext
<1> DEFINE r == [dispatch[d] EXCEPT !.at = at, !.next = n, !.period = 1]
<1>5. r \in Dispatches /\ r.at = at /\ r.next = n /\ r.lease = dispatch[d].lease
  <2>1. at \in DispatchStates /\ n \in Nat /\ 1 \in Nat \ {0}
    BY <1>4 DEF DispatchStates
  <2> QED
    BY <1>2, <2>1 DEF Dispatches
<1>6. dispatch' = [dispatch EXCEPT ![d] = r]
  BY <1>4
<1> HIDE DEF r
<1>7. dispatch'[d] = r
  BY <1>2, <1>6 DEF ScheduleTypes
<1>8. dispatch[d].lease \in 1..Len(leases) /\ (dispatch[d].lease \notin lapsed =>
          dispatch[d].lease = schedule.lease /\ leases[dispatch[d].lease].run # "started")
  BY <1>1, <1>2 DEF Works
<1>9. Behind(n, dispatch[d].lease)
  <2>1. CASE n = 0
    BY <2>1 DEF Behind
  <2>2. CASE n = NextTime(dispatch[d].period, now)
    <3>1. Behind(n, Len(leases))
      BY <1>2, <1>3, <2>2, NextLiesBehind
    <3> QED
      BY <1>2, <1>8, <3>1, LeaseFields DEF Behind
  <2> QED
    BY <1>4, <2>1, <2>2
<1>10. dispatch[d].lease = schedule.lease /\ ignored # dispatch[d].lease => n % schedule.period = 0
  <2> SUFFICES ASSUME dispatch[d].lease = schedule.lease, ignored # dispatch[d].lease PROVE n % schedule.period = 0
    OBVIOUS
  <2>1. dispatch[d].period = schedule.period
    BY <1>1, <1>2 DEF Works
  <2>2. CASE n = NextTime(dispatch[d].period, now)
    BY <1>2, <1>3, <2>1, <2>2, NextTimeLiesAhead
  <2>3. CASE n = 0
    BY <1>3, <2>3
  <2> QED
    BY <1>4, <2>2, <2>3
<1>11. Works(d)'
  <2>1. \A m : Behind(n, m) => Behind(n, m)'
    BY <1>1 DEF Behind
  <2> QED
    BY <1>1, <1>5, <1>7, <1>8, <1>9, <1>10, <2>1 DEF Works
<1>12. dispatch[d].at # "idle" /\ (r.at # "idle" => r.lease = dispatch[d].lease)
  BY <1>1, <1>5
<1> QED
  BY <1>1, <1>2, <1>5, <1>6, <1>11, <1>12, DispatcherMoves

LEMMA RunIsSaid ==
    ASSUME leases \in Seq(LeaseRows), NEW k \in 1..Len(leases), NEW run \in {"started", "failed"}, RunUnder(k, run)
    PROVE  /\ leases' \in Seq(LeaseRows) /\ Len(leases') = Len(leases)
           /\ \A i \in 1..Len(leases) : leases'[i].for = leases[i].for
           /\ \A i \in 1..Len(leases) : i # k => leases'[i].run = leases[i].run
           /\ leases'[k].run = run \/ leases'[k].run = leases[k].run
<1> DEFINE said == IF leases[k].run = "none" THEN run ELSE leases[k].run
           l == [leases[k] EXCEPT !.run = said]
<1>1. leases[k] \in LeaseRows
  OBVIOUS
<1>2. leases' = [leases EXCEPT ![k] = l]
  BY Zenon DEF RunUnder
<1>3. said \in {"none", "started", "failed"} /\ (said = run \/ said = leases[k].run)
  BY <1>1 DEF LeaseRows
<1>4. l \in LeaseRows /\ l.for = leases[k].for /\ l.run = said
  <2> HIDE DEF said
  <2> QED
    BY <1>1, <1>3 DEF LeaseRows
<1> HIDE DEF l
<1>5. leases' \in Seq(LeaseRows) /\ Len(leases') = Len(leases)
  BY <1>2, <1>4
<1>6. leases'[k] = l /\ \A i \in 1..Len(leases) : i # k => leases'[i] = leases[i]
  BY <1>2
<1> QED
  BY <1>3, <1>4, <1>5, <1>6

\* A dispatcher that moves on within its lease, and may say what became of it.
LEMMA LeaseholderSteps ==
    ASSUME ScheduleInv, NEW d \in Dispatchers, dispatch[d].at \in {"submit", "settle"},
           NEW to \in {"settle", "record", "release"}, dispatch' = [dispatch EXCEPT ![d].at = to],
           leases' = leases \/ RunUnder(dispatch[d].lease, "failed") \/ (RunUnder(dispatch[d].lease, "started") /\ to = "record"),
           now' = now, schedule' = schedule, revision' = revision, ignored' = ignored, lapsed' = lapsed
    PROVE  ScheduleInv'
<1>1. /\ ScheduleTypes /\ Numbered /\ Works(d) /\ dispatch[d] \in Dispatches /\ lapsed \in SUBSET Nat /\ leases \in Seq(LeaseRows)
  BY DEF ScheduleInv, ScheduleTypes
<1> DEFINE k == dispatch[d].lease
<1>2. /\ k \in 1..Len(leases) /\ (k \notin lapsed => k = schedule.lease /\ leases[k].run # "started")
      /\ Behind(dispatch[d].next, k) /\ (k = schedule.lease /\ ignored # k => dispatch[d].next % schedule.period = 0)
  BY <1>1 DEF Works
<1>3. /\ leases' \in Seq(LeaseRows) /\ Len(leases') = Len(leases)
      /\ \A i \in 1..Len(leases) : leases'[i].for = leases[i].for
      /\ \A i \in 1..Len(leases) : i # k => leases'[i].run = leases[i].run
      /\ to # "record" => leases'[k].run # "started" \/ leases'[k].run = leases[k].run
  <2> HIDE DEF k
  <2>1. CASE leases' = leases
    BY <1>1, <2>1
  <2>2. CASE RunUnder(k, "failed")
    BY <1>1, <1>2, <2>2, RunIsSaid
  <2>3. CASE RunUnder(k, "started") /\ to = "record"
    BY <1>1, <1>2, <2>3, RunIsSaid
  <2> QED
    BY <2>1, <2>2, <2>3 DEF k
<1>4. /\ dispatch' \in [Dispatchers -> Dispatches] /\ dispatch'[d].at = to /\ dispatch'[d].lease = k
      /\ dispatch'[d].next = dispatch[d].next
      /\ \A e \in Dispatchers : e # d => dispatch'[e] = dispatch[e]
  <2> DEFINE r == [dispatch[d] EXCEPT !.at = to]
  <2>1. r \in Dispatches /\ r.at = to /\ r.lease = dispatch[d].lease /\ r.next = dispatch[d].next
    BY <1>1 DEF Dispatches, DispatchStates
  <2>2. dispatch \in [Dispatchers -> Dispatches] /\ dispatch' = [dispatch EXCEPT ![d] = r]
    BY <1>1 DEF ScheduleTypes
  <2> HIDE DEF r
  <2> QED
    BY <2>1, <2>2, DispatchIsSet
<1>5. Works(d)'
  <2>1. dispatch[d].next = 0 \/ \A i \in 1..k : leases'[i].for < dispatch[d].next
    BY <1>1, <1>2, <1>3, LeaseFields DEF Behind
  <2>3. to = "record" \/ k \in lapsed \/ leases'[k].run # "started"
    BY <1>2, <1>3
  <2> QED
    BY <1>2, <1>3, <1>4, <2>1, <2>3 DEF Works, Behind
<1>6. dispatch[d].at # "idle" /\ \A i \in 1..Len(leases) : i \notin lapsed' /\ i # schedule.lease => leases'[i].run = leases[i].run
  BY <1>2, <1>3
<1> HIDE DEF k
<1>7. \A i \in 1..Len(leases) : i # dispatch[d].lease => leases'[i].run = leases[i].run
  BY <1>3 DEF k
<1>8. dispatch'[d].lease = dispatch[d].lease
  BY <1>4 DEF k
<1> QED
  BY <1>1, <1>3, <1>4, <1>5, <1>6, <1>7, <1>8, DispatcherSteps

LEMMA SubmitDispatchKeeps ==
    ASSUME ScheduleInv, NEW d \in Dispatchers, SubmitScheduleDispatch(d) \/ terminalScheduleRun(d) PROVE ScheduleInv'
<1>1. /\ dispatch[d].at \in {"submit", "settle"}
      /\ now' = now /\ schedule' = schedule /\ revision' = revision /\ ignored' = ignored /\ lapsed' = lapsed
  <2>1. /\ dispatch[d].at = "submit" \/ dispatch[d].at = "settle"
        /\ now' = now /\ schedule' = schedule /\ revision' = revision /\ ignored' = ignored /\ lapsed' = lapsed
    BY Zenon DEF SubmitScheduleDispatch, terminalScheduleRun
  <2> QED
    BY <2>1
<1>2. \/ RunUnder(dispatch[d].lease, "started") /\ dispatch' = [dispatch EXCEPT ![d].at = "record"]
      \/ (leases' = leases \/ RunUnder(dispatch[d].lease, "failed")) /\ dispatch' = [dispatch EXCEPT ![d].at = "settle"]
      \/ RunUnder(dispatch[d].lease, "failed") /\ dispatch' = [dispatch EXCEPT ![d].at = "record"]
      \/ leases' = leases /\ dispatch' = [dispatch EXCEPT ![d].at = "release"]
  BY Zenon DEF SubmitScheduleDispatch, terminalScheduleRun
<1>3. PICK to \in {"settle", "record", "release"} :
         /\ dispatch' = [dispatch EXCEPT ![d].at = to]
         /\ leases' = leases \/ RunUnder(dispatch[d].lease, "failed") \/ (RunUnder(dispatch[d].lease, "started") /\ to = "record")
  <2>1. "settle" \in {"settle", "record", "release"} /\ "record" \in {"settle", "record", "release"}
        /\ "release" \in {"settle", "record", "release"}
    OBVIOUS
  <2> QED
    BY <1>2, <2>1, Zenon
<1> QED
  BY <1>1, <1>3, LeaseholderSteps, Zenon

\* A write of the row, or none: time may pass and dispatchers may be gone. The
\* lease stays, or goes, and then whoever still works under it has lost it.
LEMMA RowIsWritten ==
    ASSUME ScheduleInv, now' \in Nat, now <= now', leases' = leases, lapsed' \in SUBSET Nat, lapsed \subseteq lapsed',
           schedule' \in ScheduleRows, revision' \in Revisions, ignored' \in Nat,
           dispatch' \in [Dispatchers -> Dispatches],
           \A e \in Dispatchers : dispatch'[e] = dispatch[e] \/ dispatch'[e].at = "idle",
           schedule'.lease = 0 \/ schedule'.lease = schedule.lease,
           schedule'.lease = 0 => \A e \in Dispatchers :
               dispatch'[e].at # "idle" /\ dispatch[e].lease = schedule.lease => schedule.lease \in lapsed',
           schedule'.lease # 0 /\ ignored' # schedule'.lease =>
               ignored # schedule.lease /\ schedule'.period = schedule.period,
           Revised', Timely',
           \A i \in 1..Len(leases) :
               i \notin lapsed' /\ leases[i].run = "started" /\ i # schedule'.lease =>
                   schedule'.next = 0 \/ leases[i].for < schedule'.next
    PROVE  ScheduleInv'
<1>1. /\ ScheduleTypes /\ Numbered /\ SoleHolders
      /\ \A e \in Dispatchers : Works(e)
      /\ \A i \in 1..Len(leases) : Settled(i)
  BY DEF ScheduleInv
<1>2. ScheduleTypes'
  BY <1>1 DEF ScheduleTypes
<1>3. Numbered'
  <2>1. \A i \in 1..Len(leases) : leases[i].for <= now'
    BY <1>1, LeaseFields DEF Numbered, ScheduleTypes
  <2> QED
    BY <1>1, <2>1 DEF Numbered
<1>4. SoleHolders'
  <2> SUFFICES ASSUME NEW a \in Dispatchers, NEW b \in Dispatchers, a # b, dispatch'[a].at # "idle",
                      dispatch'[b].at # "idle", dispatch'[a].lease = dispatch'[b].lease
               PROVE  dispatch'[a].lease \in lapsed'
    BY DEF SoleHolders
  <2>1. dispatch'[a] = dispatch[a] /\ dispatch'[b] = dispatch[b]
    OBVIOUS
  <2> QED
    BY <1>1, <2>1 DEF SoleHolders
<1>5. ASSUME NEW e \in Dispatchers, dispatch'[e].at # "idle" PROVE Works(e)'
  <2>1. dispatch'[e] = dispatch[e] /\ Works(e) /\ dispatch[e].lease \in 1..Len(leases)
    BY <1>1, <1>5 DEF Works
  <2>2. dispatch[e].lease \notin lapsed' => dispatch[e].lease = schedule'.lease
    BY <1>5, <1>1, <2>1 DEF Works
  <2>3. dispatch[e].lease = schedule'.lease /\ ignored' # dispatch[e].lease =>
            dispatch[e].lease = schedule.lease /\ ignored # dispatch[e].lease /\ schedule'.period = schedule.period
    BY <1>1, <2>1, LeaseFields
  <2>4. \A n : Behind(n, dispatch[e].lease) => Behind(n, dispatch[e].lease)'
    BY <2>1 DEF Behind
  <2> QED
    BY <1>5, <2>1, <2>2, <2>3, <2>4 DEF Works
<1>6. \A e \in Dispatchers : Works(e)'
  BY <1>5 DEF Works
<1>7. ASSUME NEW i \in 1..Len(leases') PROVE Settled(i)'
  BY <1>1 DEF Settled
<1> QED
  BY <1>2, <1>3, <1>4, <1>6, <1>7 DEF ScheduleInv

\* Whoever departs leaves all the others as they are.
LEMMA OthersStay ==
    ASSUME ScheduleTypes, NEW d \in Dispatchers, Depart(d)
    PROVE  /\ dispatch' \in [Dispatchers -> Dispatches] /\ dispatch'[d].at = "idle"
           /\ \A e \in Dispatchers : e # d => dispatch'[e] = dispatch[e]
<1>1. dispatch \in [Dispatchers -> Dispatches] /\ dispatch' = [dispatch EXCEPT ![d] = Unclaimed]
  BY DEF ScheduleTypes, Depart
<1> QED
  BY <1>1, IdleIsIdle, DispatchIsSet

\* A write that is not the one of an edit makes what the edit read stale.
LEMMA EditGoesStale ==
    ASSUME ScheduleInv, revision' = [revision EXCEPT !.fresh = FALSE]
    PROVE  revision' \in Revisions /\ Revised'
<1>1. revision \in Revisions /\ Revised
  BY DEF ScheduleInv, ScheduleTypes
<1>2. PICK b \in BOOLEAN : b = FALSE
  OBVIOUS
<1>3. revision' = [revision EXCEPT !.fresh = b]
  BY <1>2, Zenon
<1>4. /\ revision' \in Revisions /\ revision'.at = revision.at /\ revision'.fresh = b /\ revision'.period = revision.period
      /\ revision'.enabled = revision.enabled /\ revision'.next = revision.next
  BY <1>1, <1>3 DEF Revisions
<1> QED
  BY <1>1, <1>2, <1>4 DEF Revised

\* The holder of the lease gives it back with the next time next.
LEMMA LeaseIsReturned ==
    ASSUME ScheduleInv, NEW d \in Dispatchers, dispatch[d].at # "idle", Depart(d), HoldsLease(d), NEW next \in Nat,
           Writes([schedule EXCEPT !.next = next, !.lease = 0, !.until = 0]), ignored' \in Nat,
           now' = now, leases' = leases, lapsed' = lapsed,
           schedule.enabled /\ ignored' = 0 => next % schedule.period = 0,
           \A i \in 1..Len(leases) :
               i \notin lapsed /\ leases[i].run = "started" => next = 0 \/ leases[i].for < next
    PROVE  ScheduleInv'
<1>1. ScheduleTypes /\ SoleHolders /\ schedule \in ScheduleRows /\ now \in Nat /\ lapsed \in SUBSET Nat
  BY DEF ScheduleInv, ScheduleTypes
<1>2. schedule' = [schedule EXCEPT !.next = next, !.lease = 0, !.until = 0] /\ revision' = [revision EXCEPT !.fresh = FALSE]
  BY Zenon DEF Writes
<1>3. /\ schedule' \in ScheduleRows /\ schedule'.next = next /\ schedule'.lease = 0 /\ schedule'.enabled = schedule.enabled
      /\ schedule'.period = schedule.period
  BY <1>1, <1>2 DEF ScheduleRows
<1>4. revision' \in Revisions /\ Revised'
  BY <1>2, EditGoesStale
<1>5. Timely'
  BY <1>3 DEF Timely
<1>6. /\ dispatch' \in [Dispatchers -> Dispatches] /\ dispatch'[d].at = "idle"
      /\ \A e \in Dispatchers : e # d => dispatch'[e] = dispatch[e]
  BY <1>1, OthersStay
<1>7. \A e \in Dispatchers : dispatch'[e].at # "idle" /\ dispatch[e].lease = schedule.lease => schedule.lease \in lapsed'
  BY <1>1, <1>6 DEF SoleHolders, HoldsLease
<1> QED
  BY <1>1, <1>3, <1>4, <1>5, <1>6, <1>7, RowIsWritten

LEMMA RecordKeeps == ASSUME ScheduleInv, NEW d \in Dispatchers, RecordScheduleRun(d) PROVE ScheduleInv'
<1>1. dispatch[d].at = "record" /\ Depart(d) /\ now' = now /\ leases' = leases /\ lapsed' = lapsed
  BY Zenon DEF RecordScheduleRun
<1>2. CASE schedule' = schedule /\ revision' = revision /\ ignored' = ignored
  <2>1. dispatch[d].at # "idle"
    BY <1>1
  <2> QED
    BY <1>1, <1>2, <2>1, DispatcherDeparts
<1>3. CASE /\ HoldsLease(d) /\ Writes([schedule EXCEPT !.next = dispatch[d].next, !.lease = 0, !.until = 0])
           /\ ignored' = Under(dispatch[d].lease, FALSE)
  <2>1. /\ ScheduleTypes /\ Numbered /\ Works(d) /\ dispatch[d] \in Dispatches
    BY DEF ScheduleInv, ScheduleTypes
  <2>2. /\ dispatch[d].next \in Nat /\ dispatch[d].lease \in 1..Len(leases) /\ Behind(dispatch[d].next, dispatch[d].lease)
        /\ ignored # dispatch[d].lease => dispatch[d].next % schedule.period = 0
    BY <1>1, <1>3, <2>1 DEF Works, Dispatches, HoldsLease
  <2>3. dispatch[d].lease = Len(leases)
    BY <1>3, <2>1, <2>2 DEF Numbered, HoldsLease
  <2>4. ignored' \in Nat /\ (ignored' = 0 => ignored # dispatch[d].lease)
    BY <1>3, <2>2, <2>3 DEF Under
  <2>5. \A i \in 1..Len(leases) :
            i \notin lapsed /\ leases[i].run = "started" => dispatch[d].next = 0 \/ leases[i].for < dispatch[d].next
    BY <2>2, <2>3 DEF Behind
  <2>6. dispatch[d].at # "idle" /\ (schedule.enabled /\ ignored' = 0 => dispatch[d].next % schedule.period = 0)
    BY <1>1, <2>2, <2>4
  <2> QED
    BY <1>1, <1>3, <2>2, <2>4, <2>5, <2>6, LeaseIsReturned, Zenon
<1> QED
  BY <1>2, <1>3, Zenon DEF RecordScheduleRun

LEMMA ReleaseKeeps == ASSUME ScheduleInv, NEW d \in Dispatchers, ReleaseScheduleLease(d) PROVE ScheduleInv'
<1>1. dispatch[d].at = "release" /\ Depart(d) /\ now' = now /\ leases' = leases /\ lapsed' = lapsed /\ ignored' = ignored
  BY Zenon DEF ReleaseScheduleLease
<1>2. CASE schedule' = schedule /\ revision' = revision
  <2>1. dispatch[d].at # "idle"
    BY <1>1
  <2> QED
    BY <1>1, <1>2, <2>1, DispatcherDeparts
<1>3. CASE HoldsLease(d) /\ Writes([schedule EXCEPT !.lease = 0, !.until = 0])
  <2>1. /\ ScheduleTypes /\ Works(d) /\ Timely /\ schedule \in ScheduleRows /\ ignored \in Nat
        /\ \A i \in 1..Len(leases) : Settled(i)
    BY DEF ScheduleInv, ScheduleTypes
  <2>2. PICK next \in Nat : next = schedule.next
    BY <2>1 DEF ScheduleRows
  <2>3. Writes([schedule EXCEPT !.next = next, !.lease = 0, !.until = 0])
    <3>1. [schedule EXCEPT !.lease = 0, !.until = 0] = [schedule EXCEPT !.next = next, !.lease = 0, !.until = 0]
      BY <2>1, <2>2 DEF ScheduleRows
    <3> QED
      BY <1>3, <3>1, Zenon
  <2>4. \A i \in 1..Len(leases) : i \notin lapsed /\ leases[i].run = "started" => next = 0 \/ leases[i].for < next
    BY <1>1, <1>3, <2>1, <2>2 DEF Works, Settled, HoldsLease
  <2>5. dispatch[d].at # "idle" /\ (schedule.enabled /\ ignored' = 0 => next % schedule.period = 0) /\ ignored' \in Nat
    BY <1>1, <2>1, <2>2 DEF Timely
  <2> QED
    BY <1>1, <1>3, <2>3, <2>4, <2>5, LeaseIsReturned, Zenon
<1> QED
  BY <1>2, <1>3, Zenon DEF ReleaseScheduleLease

LEMMA ClaimScheduleKeeps ==
    ASSUME ScheduleInv, NEW d \in Dispatchers, NEW at \in {"plan", "read"}, Claim(d, at) PROVE ScheduleInv'
<1> DEFINE n == Len(leases) + 1
           l == [for |-> IF Due THEN schedule.next ELSE 0, run |-> "none"]
           r == [Unclaimed EXCEPT !.at = at, !.lease = n, !.period = schedule.period]
<1>1. /\ dispatch[d].at = "idle" /\ LeaseFree /\ now' = now /\ ignored' = ignored
      /\ Writes([schedule EXCEPT !.lease = n, !.until = now + LeaseTime])
      /\ leases' = Append(leases, l) /\ lapsed' = IF RunOut THEN lapsed \cup {schedule.lease} ELSE lapsed
      /\ dispatch' = [dispatch EXCEPT ![d] = r]
  BY Zenon DEF Claim
<1>2. /\ ScheduleTypes /\ Numbered /\ SoleHolders /\ Timely
      /\ \A e \in Dispatchers : Works(e)
      /\ \A i \in 1..Len(leases) : Settled(i)
  BY DEF ScheduleInv
<1>3. /\ schedule \in ScheduleRows /\ now \in Nat /\ lapsed \in SUBSET Nat /\ leases \in Seq(LeaseRows)
      /\ dispatch \in [Dispatchers -> Dispatches] /\ n \in Nat \ {0}
  BY <1>2, LeaseFields DEF ScheduleTypes
<1>4. /\ schedule.lease \in Nat /\ schedule.next \in Nat /\ schedule.period \in Periods /\ schedule.period \in Nat \ {0}
  BY <1>3, PeriodsAreWhole DEF ScheduleRows
<1>5. /\ schedule' \in ScheduleRows /\ schedule'.lease = n /\ schedule'.next = schedule.next
      /\ schedule'.period = schedule.period /\ schedule'.enabled = schedule.enabled
  <2>1. schedule' = [schedule EXCEPT !.lease = n, !.until = now + LeaseTime]
    BY <1>1, Zenon DEF Writes
  <2>2. now + LeaseTime \in Nat
    BY <1>3, PeriodsAreWhole
  <2> HIDE DEF n
  <2> QED
    BY <1>3, <2>1, <2>2 DEF ScheduleRows
<1>6. revision' \in Revisions /\ revision'.fresh = FALSE /\ Revised'
  <2>1. revision' = [revision EXCEPT !.fresh = FALSE]
    BY <1>1, Zenon DEF Writes
  <2>2. revision' \in Revisions /\ Revised'
    BY <2>1, EditGoesStale
  <2>3. revision \in Revisions
    BY <1>2 DEF ScheduleTypes
  <2>4. revision'.fresh = FALSE
    BY <2>1, <2>3 DEF Revisions
  <2> QED
    BY <2>2, <2>4
<1>7. r \in Dispatches /\ r.at = at /\ r.lease = n /\ r.period = schedule.period
  <2> HIDE DEF n
  <2>1. at \in DispatchStates
    BY DEF DispatchStates
  <2>2. Unclaimed \in Dispatches
    BY IdleIsIdle
  <2> QED
    BY <1>3, <1>4, <2>1, <2>2 DEF Dispatches
<1>8. l \in LeaseRows /\ l.run = "none" /\ l.for <= now /\ (l.for # 0 => l.for = schedule.next)
  <2>1. PICK f \in Nat : f = (IF Due THEN schedule.next ELSE 0) /\ f <= now /\ (f # 0 => f = schedule.next)
    BY <1>3, <1>4 DEF Due
  <2>2. l = [for |-> f, run |-> "none"]
    BY <2>1, Zenon
  <2> HIDE DEF l
  <2> QED
    BY <2>1, <2>2 DEF LeaseRows
<1>9. schedule.lease = 0 \/ schedule.lease \in lapsed'
  BY <1>1, <1>4 DEF LeaseFree
<1>10. lapsed' \in SUBSET Nat /\ lapsed \subseteq lapsed'
  BY <1>1, <1>3, <1>4
<1> HIDE DEF l, r
<1>11. /\ leases' \in Seq(LeaseRows) /\ Len(leases') = n /\ leases'[n] = l
       /\ \A i \in 1..Len(leases) : leases'[i] = leases[i]
  BY <1>1, <1>3, <1>8
<1>12. /\ dispatch' \in [Dispatchers -> Dispatches] /\ dispatch'[d] = r
       /\ \A e \in Dispatchers : e # d => dispatch'[e] = dispatch[e]
  BY <1>1, <1>3, <1>7, DispatchIsSet
<1>13. n \notin 1..Len(leases) /\ (\A i \in 1..n : i # n => i \in 1..Len(leases)) /\ n \in 1..n
       /\ \A i \in 1..Len(leases) : i < n
  BY <1>2, LeaseFields
<1> HIDE DEF n
<1>14. ScheduleTypes'
  BY <1>1, <1>2, <1>5, <1>6, <1>10, <1>11, <1>12 DEF ScheduleTypes
<1>15. Numbered'
  BY <1>1, <1>2, <1>5, <1>8, <1>11, <1>13 DEF Numbered
<1>16. ASSUME NEW e \in Dispatchers, e # d, dispatch[e].at # "idle"
       PROVE  dispatch[e].lease \in 1..Len(leases) /\ dispatch[e].lease \in lapsed'
  <2>1. dispatch[e].lease \in 1..Len(leases) /\ (dispatch[e].lease \notin lapsed => dispatch[e].lease = schedule.lease)
    BY <1>2, <1>16 DEF Works
  <2> QED
    BY <1>9, <1>10, <2>1
<1>17. SoleHolders'
  <2> SUFFICES ASSUME NEW a \in Dispatchers, NEW b \in Dispatchers, a # b, dispatch'[a].at # "idle",
                      dispatch'[b].at # "idle", dispatch'[a].lease = dispatch'[b].lease
               PROVE  dispatch'[a].lease \in lapsed'
    BY DEF SoleHolders
  <2> QED
    BY <1>12, <1>16
<1>18. ASSUME NEW e \in Dispatchers PROVE Works(e)'
  <2>1. CASE e = d
    <3>1. leases'[n].run = "none" /\ n \in 1..Len(leases')
      BY <1>8, <1>11, <1>13
    <3> QED
      BY <1>5, <1>7, <1>12, <2>1, <3>1 DEF Works
  <2>2. CASE e # d /\ dispatch[e].at # "idle"
    <3>1. dispatch'[e] = dispatch[e] /\ Works(e) /\ dispatch[e].lease \in 1..Len(leases) /\ dispatch[e].lease \in lapsed'
      BY <1>2, <1>12, <1>16, <2>2
    <3>2. dispatch[e].lease # schedule'.lease /\ dispatch[e].lease \in 1..Len(leases')
      <4>1. dispatch[e].lease < n /\ dispatch[e].lease \in Nat /\ 1 <= dispatch[e].lease
        BY <1>13, <3>1
      <4> QED
        BY <1>3, <1>5, <1>11, <4>1
    <3>3. \A i \in 1..dispatch[e].lease : leases'[i] = leases[i]
      BY <1>2, <1>11, <3>1, LeaseFields
    <3>4. \A m : Behind(m, dispatch[e].lease) => Behind(m, dispatch[e].lease)'
      BY <3>1, <3>3 DEF Behind
    <3> QED
      BY <2>2, <3>1, <3>2, <3>4 DEF Works
  <2>3. CASE e # d /\ dispatch[e].at = "idle"
    BY <1>12, <2>3 DEF Works
  <2> QED
    BY <2>1, <2>2, <2>3
<1>19. ASSUME NEW i \in 1..Len(leases') PROVE Settled(i)'
  <2>1. CASE i = n
    BY <1>8, <1>11, <2>1 DEF Settled
  <2>2. CASE i # n /\ i \notin lapsed' /\ leases'[i].run = "started"
    <3>1. /\ i \in 1..Len(leases) /\ leases'[i] = leases[i] /\ Settled(i) /\ i \notin lapsed /\ leases[i].run = "started"
      BY <1>2, <1>10, <1>11, <1>13, <2>2
    <3>2. i # schedule.lease
      BY <1>9, <2>2, <3>1
    <3>3. schedule.next = 0 \/ leases[i].for < schedule.next
      BY <3>1, <3>2 DEF Settled
    <3>4. leases[i].for # 0 => leases'[n].for # leases[i].for
      <4>1. leases[i].for \in Nat
        BY <1>2, <3>1, LeaseFields
      <4> QED
        BY <1>4, <1>8, <1>11, <3>3, <4>1
    <3>5. leases[i].for # 0 => \A j \in 1..Len(leases) : i < j => leases'[j].for # leases[i].for
      BY <1>11, <3>1 DEF Settled
    <3>6. leases'[i].for # 0 => \A j \in 1..Len(leases') : i < j => leases'[j].for # leases'[i].for
      BY <1>11, <1>13, <3>1, <3>4, <3>5
    <3> QED
      BY <1>5, <3>1, <3>3, <3>6 DEF Settled
  <2> QED
    BY <2>1, <2>2 DEF Settled
<1>20. Timely'
  BY <1>1, <1>2, <1>5 DEF Timely
<1> QED
  BY <1>6, <1>14, <1>15, <1>17, <1>18, <1>19, <1>20 DEF ScheduleInv

\* A step that leaves row and dispatchers alone.
LEMMA RowIsLeft ==
    ASSUME ScheduleInv, now' \in Nat, now <= now', schedule' = schedule, dispatch' = dispatch, leases' = leases,
           lapsed' = lapsed, ignored' = ignored, revision' \in Revisions, Revised'
    PROVE  ScheduleInv'
<1>1. /\ ScheduleTypes /\ Numbered /\ SoleHolders /\ Timely
      /\ \A e \in Dispatchers : Works(e)
      /\ \A i \in 1..Len(leases) : Settled(i)
  BY DEF ScheduleInv
<1>2. ScheduleTypes' /\ SoleHolders' /\ Timely'
  BY <1>1 DEF ScheduleTypes, SoleHolders, Timely
<1>3. Numbered'
  <2>1. \A i \in 1..Len(leases) : leases[i].for <= now'
    BY <1>1, LeaseFields DEF Numbered, ScheduleTypes
  <2> QED
    BY <1>1, <2>1 DEF Numbered
<1>4. ASSUME NEW e \in Dispatchers PROVE Works(e)'
  BY <1>1 DEF Works, Behind
<1>5. ASSUME NEW i \in 1..Len(leases') PROVE Settled(i)'
  BY <1>1 DEF Settled
<1> QED
  BY <1>2, <1>3, <1>4, <1>5 DEF ScheduleInv

LEMMA NoEditIsPending == NoRevision \in Revisions /\ NoRevision.at = "idle"
BY DEF NoRevision, Revisions

LEMMA NoEditIsRevised ==
    ASSUME revision' = NoRevision PROVE revision' \in Revisions /\ Revised'
BY NoEditIsPending DEF Revised

LEMMA BeginRevisionKeeps == ASSUME ScheduleInv, BeginRevision PROVE ScheduleInv'
<1>1. PICK p \in Periods, on \in BOOLEAN :
         revision' = [at |-> "write", fresh |-> TRUE, period |-> p, enabled |-> on,
                      next |-> IF on THEN NextTime(p, now) ELSE 0]
  BY Zenon DEF BeginRevision
<1>2. /\ now' = now /\ schedule' = schedule /\ dispatch' = dispatch /\ leases' = leases /\ lapsed' = lapsed
      /\ ignored' = ignored
  BY Zenon DEF BeginRevision
<1>3. ScheduleTypes /\ Numbered /\ now \in Nat /\ p \in Nat \ {0}
  BY PeriodsAreWhole DEF ScheduleInv, ScheduleTypes
<1>4. PICK next \in Nat : /\ next = (IF on THEN NextTime(p, now) ELSE 0)
                          /\ on => next % p = 0
                          /\ Behind(next, Len(leases))
  <2>1. CASE on
    <3>1. NextTime(p, now) \in Nat /\ NextTime(p, now) % p = 0
      BY <1>3, NextTimeLiesAhead
    <3>2. Behind(NextTime(p, now), Len(leases))
      BY <1>3, NextLiesBehind
    <3> QED
      BY <2>1, <3>1, <3>2, Zenon
  <2>2. CASE ~on
    <3>1. 0 \in Nat /\ Behind(0, Len(leases))
      BY DEF Behind
    <3> QED
      BY <2>2, <3>1, Zenon
  <2> QED
    BY <2>1, <2>2
<1>5. PICK b \in BOOLEAN : b = TRUE
  OBVIOUS
<1>6. revision' = [at |-> "write", fresh |-> b, period |-> p, enabled |-> on, next |-> next]
  BY <1>1, <1>4, <1>5, Zenon
<1>7. revision' \in Revisions
  BY <1>3, <1>6 DEF Revisions
<1>8. revision'.period = p /\ revision'.next = next /\ (revision'.enabled => on)
  BY <1>6
<1>9. Revised'
  BY <1>2, <1>4, <1>8 DEF Revised, Behind
<1> QED
  BY <1>2, <1>3, <1>7, <1>9, RowIsLeft

LEMMA IdleStepsKeep == ASSUME ScheduleInv, RefuseRevision \/ PassTime PROVE ScheduleInv'
<1>1. /\ schedule' = schedule /\ dispatch' = dispatch /\ leases' = leases /\ lapsed' = lapsed
      /\ ignored' = ignored
  BY Zenon DEF RefuseRevision, PassTime
<1>2. now \in Nat /\ revision \in Revisions /\ Revised
  BY DEF ScheduleInv, ScheduleTypes
<1>3. CASE RefuseRevision
  <2>1. now' = now /\ revision' = NoRevision
    BY <1>3, Zenon DEF RefuseRevision
  <2> QED
    BY <1>1, <1>2, <2>1, NoEditIsRevised, RowIsLeft
<1>4. CASE PassTime
  <2>1. now' = now + 1 /\ revision' = revision
    BY <1>4, Zenon DEF PassTime
  <2>2. Revised'
    BY <1>1, <1>2, <2>1 DEF Revised, Behind
  <2> QED
    BY <1>1, <1>2, <2>1, <2>2, RowIsLeft
<1> QED
  BY <1>3, <1>4

\* The next process may give the row a next time if it has none, for which
\* every lease is of the past.
LEMMA RestartScheduleKeeps == ASSUME ScheduleInv, Restart PROVE ScheduleInv'
<1>1. /\ dispatch' = [d \in Dispatchers |-> Unclaimed] /\ revision' = NoRevision
      /\ now' = now /\ leases' = leases /\ lapsed' = lapsed /\ ignored' = ignored
  BY Zenon DEF Restart
<1>2. /\ ScheduleTypes /\ Numbered /\ Timely /\ schedule \in ScheduleRows /\ now \in Nat /\ lapsed \in SUBSET Nat
      /\ ignored \in Nat
      /\ \A i \in 1..Len(leases) : Settled(i)
  BY DEF ScheduleInv, ScheduleTypes
<1>3. revision' \in Revisions /\ Revised'
  BY <1>1, NoEditIsRevised
<1>4. dispatch' \in [Dispatchers -> Dispatches] /\ \A e \in Dispatchers : dispatch'[e].at = "idle"
  BY <1>1, IdleIsIdle
<1>5. CASE schedule' = schedule
  <2>1. Timely'
    BY <1>1, <1>2, <1>5 DEF Timely
  <2>2. \A i \in 1..Len(leases) :
            i \notin lapsed' /\ leases[i].run = "started" /\ i # schedule'.lease =>
                schedule'.next = 0 \/ leases[i].for < schedule'.next
    BY <1>1, <1>2, <1>5 DEF Settled
  <2>3. schedule'.lease # 0 /\ ignored' # schedule'.lease =>
            ignored # schedule.lease /\ schedule'.period = schedule.period
    BY <1>1, <1>5
  <2> QED
    BY <1>1, <1>2, <1>3, <1>4, <1>5, <2>1, <2>2, <2>3, RowIsWritten
<1>6. CASE schedule' = [schedule EXCEPT !.next = NextTime(schedule.period, now)]
  <2>1. schedule.period \in Nat \ {0}
    BY <1>2, PeriodsAreWhole DEF ScheduleRows
  <2>2. PICK next \in Nat : /\ next = NextTime(schedule.period, now) /\ next % schedule.period = 0
                            /\ Behind(next, Len(leases))
    <3>1. NextTime(schedule.period, now) \in Nat /\ NextTime(schedule.period, now) % schedule.period = 0
      BY <1>2, <2>1, NextTimeLiesAhead
    <3>2. Behind(NextTime(schedule.period, now), Len(leases))
      BY <1>2, <2>1, NextLiesBehind
    <3> QED
      BY <3>1, <3>2, Zenon
  <2>3. schedule' = [schedule EXCEPT !.next = next]
    BY <1>6, <2>2, Zenon
  <2>4. /\ schedule' \in ScheduleRows /\ schedule'.next = next /\ schedule'.lease = schedule.lease
        /\ schedule'.period = schedule.period
    BY <1>2, <2>3 DEF ScheduleRows
  <2>5. Timely'
    BY <2>2, <2>4 DEF Timely
  <2>6. \A i \in 1..Len(leases) : schedule'.next = 0 \/ leases[i].for < schedule'.next
    BY <2>2, <2>4 DEF Behind
  <2> QED
    BY <1>1, <1>2, <1>3, <1>4, <2>4, <2>5, <2>6, RowIsWritten
<1> QED
  BY <1>5, <1>6, Zenon DEF Restart

\* A person takes the lease away from whoever holds it.
LEMMA LeaseIsDropped ==
    ASSUME ScheduleInv, schedule' \in ScheduleRows, schedule'.lease = 0, schedule'.enabled => FALSE,
           \A i \in 1..Len(leases) : schedule'.next = 0 \/ leases[i].for < schedule'.next,
           lapsed' = Dropped, revision' = NoRevision, ignored' \in Nat,
           now' = now, dispatch' = dispatch, leases' = leases
    PROVE  ScheduleInv'
<1>1. ScheduleTypes /\ lapsed \in SUBSET Nat /\ now \in Nat /\ schedule.lease \in Nat
  BY DEF ScheduleInv, ScheduleTypes, ScheduleRows
<1>2. /\ lapsed' \in SUBSET Nat /\ lapsed \subseteq lapsed' /\ (schedule.lease # 0 => schedule.lease \in lapsed')
  BY <1>1 DEF Dropped
<1>3. revision' \in Revisions /\ Revised'
  BY NoEditIsRevised
<1>4. Timely'
  BY DEF Timely
<1>5. \A e \in Dispatchers : dispatch'[e].at # "idle" /\ dispatch[e].lease = schedule.lease => schedule.lease \in lapsed'
  <2> SUFFICES ASSUME NEW e \in Dispatchers, dispatch[e].at # "idle", dispatch[e].lease = schedule.lease
               PROVE  schedule.lease # 0
    BY <1>2
  <2>1. Works(e)
    BY DEF ScheduleInv
  <2> QED
    BY <1>1, <2>1, LeaseFields DEF Works
<1>6. dispatch' \in [Dispatchers -> Dispatches]
  BY <1>1 DEF ScheduleTypes
<1> QED
  BY <1>1, <1>2, <1>3, <1>4, <1>5, <1>6, RowIsWritten

LEMMA UpdateScheduleKeeps == ASSUME ScheduleInv, UpdateSchedule PROVE ScheduleInv'
<1> DEFINE row == [schedule EXCEPT !.period = revision.period, !.enabled = revision.enabled, !.next = revision.next]
<1>1. /\ revision.at = "write" /\ revision.fresh /\ revision' = NoRevision /\ now' = now /\ dispatch' = dispatch
      /\ leases' = leases
  BY Zenon DEF UpdateSchedule
<1>2. IF revision.enabled
      THEN schedule' = row /\ lapsed' = lapsed /\ ignored' = Under(schedule.lease, revision.period # schedule.period)
      ELSE schedule' = [row EXCEPT !.lease = 0, !.until = 0] /\ lapsed' = Dropped /\ ignored' = 0
  BY Zenon DEF UpdateSchedule
<1>3. /\ ScheduleTypes /\ Revised /\ schedule \in ScheduleRows /\ revision \in Revisions /\ now \in Nat
      /\ lapsed \in SUBSET Nat /\ ignored \in Nat
      /\ \A i \in 1..Len(leases) : Settled(i)
  BY DEF ScheduleInv, ScheduleTypes
<1>4. /\ revision.period \in Periods /\ revision.next \in Nat /\ Behind(revision.next, Len(leases))
      /\ revision.enabled \in BOOLEAN /\ schedule.lease \in Nat
      /\ revision.enabled => revision.next % revision.period = 0
  BY <1>1, <1>3 DEF Revised, Revisions, ScheduleRows
<1>5. /\ row \in ScheduleRows /\ row.period = revision.period /\ row.next = revision.next
      /\ row.lease = schedule.lease /\ row.until = schedule.until
  BY <1>3, <1>4 DEF ScheduleRows
<1>6. CASE revision.enabled
  <2> HIDE DEF row
  <2>1. schedule' = row /\ lapsed' = lapsed /\ ignored' = Under(schedule.lease, revision.period # schedule.period)
    BY <1>2, <1>6, Zenon
  <2>2. PICK changed \in BOOLEAN : changed = (revision.period # schedule.period)
    OBVIOUS
  <2>3. /\ ignored' \in Nat
        /\ schedule.lease # 0 /\ ignored' # schedule.lease =>
               ignored # schedule.lease /\ revision.period = schedule.period
    <3>1. ignored' = Under(schedule.lease, changed)
      BY <2>1, <2>2, Zenon
    <3>2. changed \/ revision.period = schedule.period
      BY <2>2
    <3> QED
      BY <1>4, <3>1, <3>2 DEF Under
  <2>4. Timely'
    BY <1>4, <1>5, <1>6, <2>1 DEF Timely
  <2>5. \A i \in 1..Len(leases) : schedule'.next = 0 \/ leases[i].for < schedule'.next
    BY <1>4, <1>5, <2>1 DEF Behind
  <2>6. revision' \in Revisions /\ Revised'
    BY <1>1, NoEditIsRevised
  <2>7. /\ schedule' \in ScheduleRows /\ schedule'.lease = schedule.lease /\ schedule'.period = revision.period
    BY <1>5, <2>1
  <2>8. dispatch' \in [Dispatchers -> Dispatches] /\ \A e \in Dispatchers : dispatch'[e] = dispatch[e]
    BY <1>1, <1>3 DEF ScheduleTypes
  <2>9. schedule'.lease = 0 => \A e \in Dispatchers :
            dispatch'[e].at # "idle" /\ dispatch[e].lease = schedule.lease => schedule.lease \in lapsed'
    <3> SUFFICES ASSUME NEW e \in Dispatchers, dispatch[e].at # "idle", dispatch[e].lease = schedule.lease
                 PROVE  schedule.lease # 0
      BY <2>7, <2>8
    <3>1. Works(e)
      BY DEF ScheduleInv
    <3> QED
      BY <1>3, <3>1, LeaseFields DEF Works
  <2> QED
    BY <1>1, <1>3, <2>1, <2>3, <2>4, <2>5, <2>6, <2>7, <2>8, <2>9, RowIsWritten
<1>7. CASE ~revision.enabled
  <2>1. schedule' = [row EXCEPT !.lease = 0, !.until = 0] /\ lapsed' = Dropped /\ ignored' = 0
    BY <1>2, <1>7, Zenon
  <2>2. schedule' = [schedule EXCEPT !.period = revision.period, !.enabled = revision.enabled, !.next = revision.next,
                                     !.lease = 0, !.until = 0]
    BY <1>3, <2>1 DEF ScheduleRows
  <2>3. /\ schedule' \in ScheduleRows /\ schedule'.lease = 0 /\ schedule'.enabled = revision.enabled
        /\ schedule'.next = revision.next
    BY <1>3, <1>4, <2>2 DEF ScheduleRows
  <2>4. \A i \in 1..Len(leases) : schedule'.next = 0 \/ leases[i].for < schedule'.next
    BY <1>4, <2>3 DEF Behind
  <2> QED
    BY <1>1, <1>7, <2>1, <2>3, <2>4, LeaseIsDropped
<1> QED
  BY <1>6, <1>7

LEMMA DeleteScheduleKeeps == ASSUME ScheduleInv, DeleteSchedule PROVE ScheduleInv'
<1>1. /\ revision' = NoRevision /\ now' = now /\ dispatch' = dispatch /\ leases' = leases /\ ignored' = ignored
      /\ lapsed' = Dropped
  BY Zenon DEF DeleteSchedule
<1>2. schedule' = [schedule EXCEPT !.present = FALSE, !.enabled = FALSE, !.next = 0, !.lease = 0, !.until = 0]
  BY Zenon DEF DeleteSchedule
<1>3. schedule \in ScheduleRows /\ ignored \in Nat
  BY DEF ScheduleInv, ScheduleTypes
<1>4. PICK b \in BOOLEAN : b = FALSE
  OBVIOUS
<1>5. schedule' = [schedule EXCEPT !.present = b, !.enabled = b, !.next = 0, !.lease = 0, !.until = 0]
  BY <1>2, <1>4, Zenon
<1>6. schedule' \in ScheduleRows /\ schedule'.lease = 0 /\ schedule'.enabled = b /\ schedule'.next = 0
  BY <1>3, <1>5 DEF ScheduleRows
<1> QED
  BY <1>1, <1>3, <1>4, <1>6, LeaseIsDropped

LEMMA ScheduleInitHolds == SchedulesInit => ScheduleInv
<1> SUFFICES ASSUME SchedulesInit PROVE ScheduleInv
  OBVIOUS
<1>1. PICK p \in Periods :
         schedule = [present |-> TRUE, enabled |-> TRUE, period |-> p, next |-> NextTime(p, 0), lease |-> 0, until |-> 0]
  BY Zenon DEF SchedulesInit, SchedulesBegin
<1>2. /\ now = 0 /\ dispatch = [d \in Dispatchers |-> Unclaimed] /\ revision = NoRevision
      /\ leases = <<>> /\ lapsed = {} /\ ignored = 0
  BY Zenon DEF SchedulesInit, SchedulesBegin
<1>3. PICK next \in Nat : next = NextTime(p, 0) /\ next % p = 0
  <2>1. p \in Nat \ {0} /\ 0 \in Nat
    BY PeriodsAreWhole
  <2> QED
    BY <2>1, NextTimeLiesAhead
<1>4. PICK b \in BOOLEAN : b = TRUE
  OBVIOUS
<1>5. schedule = [present |-> b, enabled |-> b, period |-> p, next |-> next, lease |-> 0, until |-> 0]
  BY <1>1, <1>3, <1>4, Zenon
<1>6. schedule \in ScheduleRows /\ schedule.lease = 0 /\ schedule.next = next /\ schedule.period = p
  BY <1>5 DEF ScheduleRows
<1>7. dispatch \in [Dispatchers -> Dispatches] /\ \A d \in Dispatchers : dispatch[d].at = "idle"
  BY <1>2, IdleIsIdle
<1>8. revision \in Revisions /\ Revised
  BY <1>2, NoEditIsPending DEF Revised
<1>9. Len(leases) = 0 /\ leases \in Seq(LeaseRows)
  BY <1>2
<1>10. ScheduleTypes
  BY <1>2, <1>6, <1>7, <1>8, <1>9 DEF ScheduleTypes
<1>11. Numbered /\ SoleHolders /\ Timely
  BY <1>3, <1>6, <1>7, <1>9 DEF Numbered, SoleHolders, Timely
<1>12. \A d \in Dispatchers : Works(d)
  BY <1>7 DEF Works
<1> QED
  BY <1>8, <1>9, <1>10, <1>11, <1>12 DEF ScheduleInv

LEMMA ScheduleStepKeeps == ASSUME ScheduleInv, [SchedulesNext]_scheduleVars PROVE ScheduleInv'
<1>1. CASE ClaimDueSchedules
  <2>1. Claim("loop", "plan") /\ "loop" \in Dispatchers /\ "plan" \in {"plan", "read"}
    BY <1>1 DEF ClaimDueSchedules, Dispatchers
  <2> QED
    BY <2>1, ClaimScheduleKeeps
<1>2. ASSUME NEW d \in Triggers, ClaimScheduleNow(d) \/ ReadClaimed(d) \/ LoseClaim(d) PROVE ScheduleInv'
  <2>1. d \in Dispatchers /\ "read" \in {"plan", "read"}
    BY DEF Dispatchers
  <2>2. CASE ClaimScheduleNow(d)
    <3>1. Claim(d, "read")
      BY <2>2 DEF ClaimScheduleNow
    <3> QED
      BY <2>1, <3>1, ClaimScheduleKeeps
  <2> QED
    BY <1>2, <2>1, <2>2, ReadClaimedKeeps, LoseClaimKeeps
<1>3. ASSUME NEW d \in Dispatchers, \/ PlanNext(d) \/ SubmitScheduleDispatch(d) \/ terminalScheduleRun(d)
                                    \/ RecordScheduleRun(d) \/ ReleaseScheduleLease(d)
      PROVE  ScheduleInv'
  BY <1>3, PlanKeeps, SubmitDispatchKeeps, RecordKeeps, ReleaseKeeps, Zenon
<1>4. CASE Restart \/ BeginRevision \/ UpdateSchedule \/ DeleteSchedule \/ RefuseRevision \/ PassTime
  BY <1>4, RestartScheduleKeeps, BeginRevisionKeeps, UpdateScheduleKeeps, DeleteScheduleKeeps, IdleStepsKeep, Zenon
<1>5. CASE UNCHANGED scheduleVars
  <2>1. /\ now' = now /\ schedule' = schedule /\ dispatch' = dispatch /\ leases' = leases /\ lapsed' = lapsed
        /\ ignored' = ignored /\ revision' = revision
    BY <1>5 DEF scheduleVars
  <2>2. now \in Nat /\ revision \in Revisions /\ Revised
    BY DEF ScheduleInv, ScheduleTypes
  <2>3. Revised'
    BY <2>1, <2>2 DEF Revised, Behind
  <2> QED
    BY <2>1, <2>2, <2>3, RowIsLeft
<1> QED
  BY <1>1, <1>2, <1>3, <1>4, <1>5, Zenon DEF SchedulesNext

LEMMA ScheduleHolds == SchedulesSpec => []ScheduleInv
<1>1. ScheduleInv /\ [SchedulesNext]_scheduleVars => ScheduleInv'
  BY ScheduleStepKeeps
<1> QED
  BY ScheduleInitHolds, <1>1, PTL DEF SchedulesSpec

\* A time of the schedule is run once, and two dispatchers are at work only
\* when the lease of the first ran out or was dropped (ClaimDueSchedules,
\* ClaimScheduleNow and RecordScheduleRun of automation_p2p3.go, the worker of
\* manager.go): for every number of triggers, leases, edits and restarts.
THEOREM EachTimeRunsOnce == SchedulesSpec => []RunOnce
<1>1. ScheduleInv => RunOnce
  <2> SUFFICES ASSUME ScheduleInv PROVE RunOnce
    OBVIOUS
  <2>1. /\ ScheduleTypes /\ Numbered /\ Timely
        /\ \A e \in Dispatchers : Works(e)
        /\ \A i \in 1..Len(leases) : Settled(i)
    BY DEF ScheduleInv
  <2>2. DOMAIN leases = 1..Len(leases) /\ Len(leases) \in Nat
    BY <2>1 DEF ScheduleTypes
  <2>3. ASSUME NEW i \in DOMAIN leases, NEW j \in DOMAIN leases, i < j, leases[i].for = leases[j].for,
               leases[i].for # 0, leases[i].run = "started"
        PROVE  i \in lapsed
    BY <2>1, <2>2, <2>3 DEF Settled
  <2>4. ASSUME NEW d \in Dispatchers, NEW e \in Dispatchers, dispatch[d].at # "idle", dispatch[e].at # "idle",
               dispatch[d].lease < dispatch[e].lease
        PROVE  dispatch[d].lease \in lapsed
    <3>1. dispatch[d].lease \in 1..Len(leases) /\ dispatch[e].lease \in 1..Len(leases)
      BY <2>1, <2>4 DEF Works
    <3>2. dispatch[d].lease \in lapsed \/ dispatch[d].lease = schedule.lease
      BY <2>1, <2>4 DEF Works
    <3>3. dispatch[d].lease # schedule.lease
      BY <2>1, <2>2, <2>4, <3>1 DEF Numbered
    <3> QED
      BY <3>2, <3>3
  <2> QED
    BY <2>1, <2>3, <2>4 DEF RunOnce, Timely
<1> QED
  BY ScheduleHolds, <1>1, PTL

-----------------------------------------------------------------------------
(* The browser's end of the event stream. What the page shows reaches its    *)
(* cursor because rows are read after the mark of a snapshot and an event is *)
(* counted with its effect; and while the page is on, what was undone last   *)
(* left something behind that goes on.                                       *)

Marks == [session : Nat, sequence : Nat]
StreamEvents == Nat \X Nat
Sockets == [at : {"none", "opening", "live", "resync", "lost"}, connected : BOOLEAN]
Recoveries == [at : {"none", "ask", "rows", "answer", "apply"}, mark : Marks, rows : SUBSET StreamEvents]
Resumes == [at : {"none", "ask", "answer"}, mark : Marks]
Pages == [on : BOOLEAN, cursor : Marks, timer : {"none", "snapshot", "open"}, socket : Sockets,
          recovery : Recoveries, resume : Resumes, handling : SUBSET StreamEvents, late : SUBSET StreamEvents,
          pending : BOOLEAN, shown : SUBSET StreamEvents]

StreamTypes ==
    /\ feed \in Marks /\ feed.session # 0 /\ feed.sequence <= MaxEvents
    /\ page \in Pages
    /\ network \in [online : BOOLEAN, flips : Seq(BOOLEAN), count : Nat]

\* A mark the stream has reached.
Reached(mark) ==
    /\ mark.session \in 1..feed.session /\ mark.sequence <= MaxEvents
    /\ mark.session = feed.session => mark.sequence <= feed.sequence

\* All events of a session up to a mark.
Holds(events, mark) == \A n \in 1..mark.sequence : <<mark.session, n>> \in events

Sound(p) ==
    /\ Holds(p.shown, p.cursor)
    /\ p.handling \subseteq {<<p.cursor.session, p.cursor.sequence + 1>>}
    /\ p.recovery.at = "rows" => Reached(p.recovery.mark)
    /\ p.recovery.at \in {"answer", "apply"} => Holds(p.recovery.rows, p.recovery.mark)

\* The last word of the browser is what it is now.
Lasting == network.flips # <<>> => network.flips[Len(network.flips)] = network.online

Attended(p) ==
    \/ p.socket.at # "none" \/ p.timer # "none" \/ p.recovery.at # "none" \/ p.resume.at # "none"
    \/ p.pending

Promised == ~network.online \/ \E i \in 1..Len(network.flips) : network.flips[i] = TRUE

StreamInv ==
    /\ StreamTypes /\ Sound(page) /\ Lasting
    /\ page.on => Attended(page) \/ Promised

LEMMA BlankMarks ==
    /\ [session |-> 0, sequence |-> 0] \in Marks /\ NoRecovery \in Recoveries /\ NoRecovery.at = "none"
    /\ NoAnswer \in Resumes /\ NoAnswer.at = "none"
BY DEF NoRecovery, NoAnswer, Marks, Recoveries, Resumes, StreamEvents

LEMMA NoSocketIsOne == NoSocket \in Sockets /\ NoSocket.at = "none"
<1>1. PICK b \in BOOLEAN : b = FALSE
  OBVIOUS
<1>2. NoSocket = [at |-> "none", connected |-> b]
  BY <1>1 DEF NoSocket
<1> QED
  BY <1>2 DEF Sockets

LEMMA PageFields ==
    ASSUME NEW p \in Pages
    PROVE  /\ p.on \in BOOLEAN /\ p.cursor \in Marks /\ p.cursor.session \in Nat /\ p.cursor.sequence \in Nat
           /\ p.timer \in {"none", "snapshot", "open"} /\ p.socket \in Sockets /\ p.recovery \in Recoveries
           /\ p.recovery.mark \in Marks /\ p.recovery.mark.sequence \in Nat /\ p.recovery.mark.session \in Nat
           /\ p.resume \in Resumes /\ p.resume.mark \in Marks /\ p.handling \in SUBSET StreamEvents
           /\ p.late \in SUBSET StreamEvents /\ p.pending \in BOOLEAN /\ p.shown \in SUBSET StreamEvents
BY DEF Pages, Marks, Recoveries, Resumes

\* q comes of p by functions of the controller that move no cursor and apply
\* nothing.
Alike(p, q) ==
    /\ q \in Pages /\ q.on = p.on /\ q.cursor = p.cursor /\ q.shown = p.shown /\ q.resume = p.resume
    /\ q.pending = p.pending /\ q.handling \subseteq p.handling
    /\ q.recovery = p.recovery \/ q.recovery.at = "ask"

LEMMA AlikeIsSound ==
    ASSUME NEW p, NEW q, Alike(p, q), Sound(p)
    PROVE  Sound(q)
BY DEF Alike, Sound

LEMMA AlikeAgain ==
    ASSUME NEW p, NEW q, NEW r, Alike(p, q), Alike(q, r)
    PROVE  Alike(p, r)
BY DEF Alike

LEMMA ClosedPage ==
    ASSUME NEW p \in Pages, NEW q, q = closeCurrentSocket(p)
    PROVE  Alike(p, q) /\ q.handling = {} /\ q.recovery = p.recovery /\ q.timer = p.timer
<1> DEFINE late == p.late \cup p.handling
<1>1. late \in SUBSET StreamEvents
  BY PageFields
<1>2. q = [p EXCEPT !.socket = NoSocket, !.late = late, !.handling = {}]
  BY Zenon DEF closeCurrentSocket
<1> HIDE DEF late
<1> QED
  BY <1>1, <1>2, NoSocketIsOne DEF Alike, Pages

LEMMA PausedPage ==
    ASSUME NEW p \in Pages, NEW q, q = pauseForOffline(p)
    PROVE  Alike(p, q) /\ q.handling = {} /\ q.recovery = p.recovery /\ q.timer = "none"
<1>1. PICK r : r = closeCurrentSocket(p)
  OBVIOUS
<1>2. Alike(p, r) /\ r.handling = {} /\ r.recovery = p.recovery
  BY <1>1, ClosedPage
<1>3. q = [r EXCEPT !.timer = "none"]
  BY <1>1, Zenon DEF pauseForOffline
<1> QED
  BY <1>2, <1>3 DEF Alike, Pages

LEMMA RescheduledPage ==
    ASSUME NEW p \in Pages, NEW op \in {"open", "snapshot"}, NEW q, q = scheduleReconnect(p, op)
    PROVE  /\ Alike(p, q) /\ q.recovery = p.recovery /\ (p.handling = {} => q.handling = {})
           /\ ~network.online \/ q.timer # "none"
<1>1. CASE p.timer # "none"
  BY <1>1 DEF scheduleReconnect, Alike
<1>2. CASE p.timer = "none" /\ ~network.online
  <2>1. q = pauseForOffline(p)
    BY <1>2 DEF scheduleReconnect
  <2> QED
    BY <1>2, <2>1, PausedPage
<1>3. CASE p.timer = "none" /\ network.online
  <2>1. q = [p EXCEPT !.timer = op]
    BY <1>3 DEF scheduleReconnect
  <2> QED
    BY <2>1 DEF Alike, Pages
<1> QED
  BY <1>1, <1>2, <1>3

LEMMA RecoveredPage ==
    ASSUME NEW p \in Pages, NEW q, q = recoverFromSnapshot(p)
    PROVE  Alike(p, q) /\ (~network.online \/ q.recovery.at # "none")
<1>1. CASE ~network.online
  <2>1. q = pauseForOffline(p)
    BY <1>1 DEF recoverFromSnapshot
  <2> QED
    BY <1>1, <2>1, PausedPage
<1>2. CASE network.online /\ p.recovery.at # "none"
  BY <1>2 DEF recoverFromSnapshot, Alike
<1>3. CASE network.online /\ p.recovery.at = "none"
  <2>1. PICK r : r = pauseForOffline(p)
    OBVIOUS
  <2>2. Alike(p, r)
    BY <2>1, PausedPage
  <2>3. q = [r EXCEPT !.recovery.at = "ask"]
    BY <1>3, <2>1 DEF recoverFromSnapshot
  <2> DEFINE rec == [r.recovery EXCEPT !.at = "ask"]
  <2>4. rec \in Recoveries /\ rec.at = "ask"
    BY <2>2, PageFields DEF Alike, Recoveries
  <2>5. q = [r EXCEPT !.recovery = rec]
    BY <2>3
  <2> HIDE DEF rec
  <2> QED
    BY <2>2, <2>4, <2>5 DEF Alike, Pages
<1> QED
  BY <1>1, <1>2, <1>3

LEMMA RequestedPage ==
    ASSUME NEW p \in Pages, NEW q, q = requestSnapshot(p)
    PROVE  Alike(p, q) /\ (~network.online \/ q.recovery.at # "none")
<1>1. PICK r : r = closeCurrentSocket(p)
  OBVIOUS
<1>2. Alike(p, r) /\ r \in Pages
  BY <1>1, ClosedPage DEF Alike
<1>3. q = recoverFromSnapshot(r)
  BY <1>1 DEF requestSnapshot
<1> QED
  BY <1>2, <1>3, RecoveredPage, AlikeAgain

LEMMA OpenedPage ==
    ASSUME NEW p \in Pages, NEW q, q = Opened(p)
    PROVE  Alike(p, q) /\ q.handling = {} /\ q.recovery = p.recovery /\ (~network.online \/ q.socket.at # "none")
<1>1. CASE ~network.online
  <2>1. q = pauseForOffline(p)
    BY <1>1 DEF Opened
  <2> QED
    BY <1>1, <2>1, PausedPage
<1>2. CASE network.online
  <2>1. PICK r : r = pauseForOffline(p)
    OBVIOUS
  <2>2. Alike(p, r) /\ r.handling = {} /\ r.recovery = p.recovery
    BY <2>1, PausedPage
  <2>3. q = [r EXCEPT !.socket.at = "opening"]
    BY <1>2, <2>1 DEF Opened
  <2> DEFINE s == [r.socket EXCEPT !.at = "opening"]
  <2>4. s \in Sockets /\ s.at = "opening"
    BY <2>2, PageFields DEF Alike, Sockets
  <2>5. q = [r EXCEPT !.socket = s]
    BY <2>3
  <2> HIDE DEF s
  <2> QED
    BY <2>2, <2>4, <2>5 DEF Alike, Pages
<1> QED
  BY <1>1, <1>2

LEMMA BrokenPage ==
    ASSUME NEW p \in Pages, NEW q, q = Broken(p)
    PROVE  Alike(p, q) /\ q.handling = {} /\ q.recovery = p.recovery /\ (~network.online \/ q.timer # "none")
<1>1. PICK r : r = pauseForOffline(p)
  OBVIOUS
<1>2. Alike(p, r) /\ r \in Pages /\ r.handling = {} /\ r.recovery = p.recovery
  BY <1>1, PausedPage DEF Alike
<1>3. q = scheduleReconnect(r, "open")
  BY <1>1 DEF Broken
<1>4. Alike(r, q) /\ q.recovery = r.recovery /\ (r.handling = {} => q.handling = {}) /\ (~network.online \/ q.timer # "none")
  BY <1>2, <1>3, RescheduledPage
<1> QED
  BY <1>2, <1>4, AlikeAgain

\* What a page shows stays sound while its cursor stays and nothing new is in
\* the hands of its handlers or of a recovery.
LEMMA SoundStays ==
    ASSUME NEW p, NEW q, Sound(p), q.cursor = p.cursor, q.shown = p.shown, q.handling \subseteq p.handling,
           q.recovery = p.recovery \/ q.recovery.at \in {"none", "ask"}
    PROVE  Sound(q)
BY DEF Sound

\* A step of the page alone.
LEMMA PageGoesOn ==
    ASSUME StreamInv, NEW q \in Pages, page' = q, Sound(q), ~q.on \/ Attended(q) \/ Promised,
           feed' = feed, network' = network
    PROVE  StreamInv'
<1>1. StreamTypes /\ Lasting
  BY DEF StreamInv
<1>2. StreamTypes' /\ Lasting'
  BY <1>1 DEF StreamTypes, Lasting
<1>3. Sound(page)'
  BY DEF Sound, Reached, Holds
<1>4. (page.on => Attended(page) \/ Promised)'
  BY DEF Attended, Promised
<1> QED
  BY <1>2, <1>3, <1>4 DEF StreamInv

LEMMA StoppedPage ==
    ASSUME NEW on, NEW shown, NEW pending, on \in BOOLEAN, shown \in SUBSET StreamEvents, pending \in BOOLEAN,
           NEW p, p = [on |-> on, cursor |-> NoRecovery.mark, timer |-> "none", socket |-> NoSocket,
                       recovery |-> NoRecovery, resume |-> NoAnswer, handling |-> {}, late |-> {},
                       pending |-> pending, shown |-> shown]
    PROVE  p \in Pages /\ (p.on => on) /\ Sound(p)
<1>1. NoRecovery.mark \in Marks /\ NoRecovery.mark.sequence = 0
  BY BlankMarks DEF NoRecovery
<1>3. p \in Pages
  BY <1>1, BlankMarks, NoSocketIsOne DEF Pages
<1>4. p.on => on
  OBVIOUS
<1>5. p.cursor = NoRecovery.mark /\ p.handling = {} /\ p.recovery = NoRecovery
  OBVIOUS
<1> QED
  BY <1>1, <1>3, <1>4, <1>5, BlankMarks DEF Sound, Holds

LEMMA ConnectKeeps == ASSUME StreamInv, Connect PROVE StreamInv'
<1>1. page \in Pages /\ page.shown \in SUBSET StreamEvents /\ page.pending \in BOOLEAN
  BY PageFields DEF StreamInv, StreamTypes
<1>2. /\ feed' = feed /\ network' = network
      /\ page' = recoverFromSnapshot([Stopped EXCEPT !.on = TRUE, !.shown = page.shown, !.pending = page.pending])
  BY Zenon DEF Connect
<1>3. PICK p : p = [Stopped EXCEPT !.on = TRUE, !.shown = page.shown, !.pending = page.pending]
  OBVIOUS
<1>4. TRUE \in BOOLEAN
  OBVIOUS
<1>5. p \in Pages /\ Sound(p)
  <2>1. p = [on |-> TRUE, cursor |-> NoRecovery.mark, timer |-> "none", socket |-> NoSocket,
             recovery |-> NoRecovery, resume |-> NoAnswer, handling |-> {}, late |-> {},
             pending |-> page.pending, shown |-> page.shown]
    BY <1>3, Zenon DEF Stopped
  <2> QED
    BY <1>1, <1>4, <2>1, StoppedPage, Zenon
<1>6. page' = recoverFromSnapshot(p)
  BY <1>2, <1>3, Zenon
<1>7. PICK q : q = recoverFromSnapshot(p)
  OBVIOUS
<1>8. Alike(p, q) /\ (~network.online \/ q.recovery.at # "none")
  BY <1>5, <1>7, RecoveredPage
<1>9. q \in Pages /\ Sound(q) /\ (Attended(q) \/ Promised)
  BY <1>5, <1>8, AlikeIsSound DEF Alike, Attended, Promised
<1> QED
  BY <1>2, <1>6, <1>7, <1>9, PageGoesOn

LEMMA DisconnectKeeps == ASSUME StreamInv, Disconnect PROVE StreamInv'
<1>1. page \in Pages /\ page.pending \in BOOLEAN /\ {} \in SUBSET StreamEvents /\ FALSE \in BOOLEAN
  BY PageFields DEF StreamInv, StreamTypes
<1>2. feed' = feed /\ network' = network /\ page' = [Stopped EXCEPT !.pending = page.pending]
  BY Zenon DEF Disconnect
<1>3. page' = [on |-> FALSE, cursor |-> NoRecovery.mark, timer |-> "none", socket |-> NoSocket,
               recovery |-> NoRecovery, resume |-> NoAnswer, handling |-> {}, late |-> {},
               pending |-> page.pending, shown |-> {}]
  BY <1>2, Zenon DEF Stopped
<1>4. PICK p : p = page'
  OBVIOUS
<1>5. p \in Pages /\ Sound(p) /\ ~p.on
  BY <1>1, <1>3, <1>4, StoppedPage, Zenon
<1> QED
  BY <1>2, <1>4, <1>5, PageGoesOn

\* The browser goes offline or online, and will say so.
LEMMA FlipKeeps == ASSUME StreamInv, Flip PROVE StreamInv'
<1>1. /\ StreamTypes /\ Sound(page) /\ network \in [online : BOOLEAN, flips : Seq(BOOLEAN), count : Nat]
  BY DEF StreamInv, StreamTypes
<1>2. PICK b \in BOOLEAN : b = ~network.online
  OBVIOUS
<1>3. /\ feed' = feed /\ page' = page
      /\ network' = [online |-> b, count |-> network.count + 1, flips |-> Append(network.flips, b)]
  BY <1>2, Zenon DEF Flip
<1>4. /\ network' \in [online : BOOLEAN, flips : Seq(BOOLEAN), count : Nat] /\ network'.online = b
      /\ network'.flips = Append(network.flips, b)
  BY <1>1, <1>3
<1>5. network.flips \in Seq(BOOLEAN)
  BY <1>1
<1>6. Len(network'.flips) = Len(network.flips) + 1 /\ Len(network.flips) \in Nat /\ network'.flips[Len(network.flips) + 1] = b
  BY <1>4, <1>5
<1>7. Lasting' /\ Promised'
  <2>1. Lasting'
    BY <1>4, <1>6 DEF Lasting
  <2>2. Len(network.flips) + 1 \in 1..Len(network'.flips)
    BY <1>6
  <2>3. CASE b = TRUE
    <3>1. network'.flips[Len(network.flips) + 1] = TRUE
      BY <1>6, <2>3
    <3>2. \E i \in 1..Len(network'.flips) : network'.flips[i] = TRUE
      BY <2>2, <3>1, Zenon
    <3> QED
      BY <2>1, <3>2 DEF Promised
  <2>4. CASE b = FALSE
    <3>1. ~network'.online
      BY <1>4, <2>4, Zenon
    <3> QED
      BY <2>1, <3>1 DEF Promised
  <2> QED
    BY <2>3, <2>4
<1>8. StreamTypes' /\ Sound(page)'
  BY <1>1, <1>3, <1>4 DEF StreamTypes, Sound, Reached, Holds
<1> QED
  BY <1>7, <1>8 DEF StreamInv

\* ... through functions of the controller, on a page that is sound.
LEMMA AlikeGoesOn ==
    ASSUME StreamInv, NEW p \in Pages, Sound(p), NEW q, Alike(p, q), page' = q, Attended(q) \/ ~network.online,
           feed' = feed, network' = network
    PROVE  StreamInv'
<1>1. q \in Pages /\ Sound(q) /\ (Attended(q) \/ Promised)
  BY AlikeIsSound DEF Alike, Promised
<1> QED
  BY <1>1, PageGoesOn

LEMMA PageNow == ASSUME StreamInv PROVE page \in Pages /\ Sound(page) /\ feed \in Marks /\ StreamTypes /\ Lasting
BY DEF StreamInv, StreamTypes

LEMMA HandleFlipKeeps == ASSUME StreamInv, HandleFlip PROVE StreamInv'
<1> DEFINE flips == network.flips
<1>1. /\ StreamTypes /\ Lasting /\ page \in Pages /\ Sound(page)
      /\ network \in [online : BOOLEAN, flips : Seq(BOOLEAN), count : Nat] /\ network.online \in BOOLEAN
      /\ flips \in Seq(BOOLEAN)
  BY DEF StreamInv, StreamTypes
<1>2. flips # <<>> /\ feed' = feed /\ network' = [network EXCEPT !.flips = Tail(flips)]
  BY Zenon DEF HandleFlip
<1>3. /\ Tail(flips) \in Seq(BOOLEAN) /\ Len(Tail(flips)) = Len(flips) - 1 /\ Len(flips) \in Nat /\ Len(flips) # 0
      /\ \A i \in 1..Len(flips) - 1 : Tail(flips)[i] = flips[i + 1]
  BY <1>1, <1>2
<1>4. PICK tail \in Seq(BOOLEAN) : tail = Tail(flips)
  BY <1>3
<1>5. /\ network' \in [online : BOOLEAN, flips : Seq(BOOLEAN), count : Nat] /\ network'.online = network.online
      /\ network'.flips = tail
  <2>1. network' = [network EXCEPT !.flips = tail]
    BY <1>2, <1>4
  <2> QED
    BY <1>1, <2>1
<1>6. /\ Len(tail) \in Nat /\ Len(flips) = Len(tail) + 1 /\ (tail # <<>> => Len(tail) # 0)
      /\ Len(tail) # 0 => tail[Len(tail)] = flips[Len(flips)]
  <2>1. Len(tail) \in Nat /\ (tail # <<>> => Len(tail) # 0)
    BY <1>4, EmptySeq, LenProperties
  <2>2. Len(flips) = Len(tail) + 1
    BY <1>3, <1>4
  <2>3. Len(tail) # 0 => Len(tail) \in 1..Len(flips) - 1
    BY <2>1, <2>2
  <2>4. Len(tail) # 0 => tail[Len(tail)] = flips[Len(tail) + 1]
    BY <1>3, <1>4, <2>3, Zenon
  <2> QED
    BY <2>1, <2>2, <2>4
<1>7. Lasting'
  <2>1. flips[Len(flips)] = network.online
    BY <1>1, <1>2 DEF Lasting
  <2>2. tail # <<>> => tail[Len(tail)] = network.online
    BY <1>6, <2>1
  <2>3. network'.flips # <<>> => network'.flips[Len(network'.flips)] = network'.online
    BY <1>5, <2>2, Zenon
  <2> QED
    BY <2>3 DEF Lasting
<1>8. PICK q : page' = q
  OBVIOUS
<1>9. q \in Pages /\ Sound(q) /\ (~q.on \/ Attended(q) \/ Promised')
  <2>1. CASE Head(flips)
    <3>1. PICK b \in BOOLEAN : b = network.online
      BY <1>1
    <3>2. q = [page EXCEPT !.pending = network.online]
      BY <1>8, <2>1, Zenon DEF HandleFlip
    <3>3. q = [page EXCEPT !.pending = b]
      BY <3>1, <3>2, Zenon
    <3>4. q \in Pages /\ q.pending = b /\ q.cursor = page.cursor /\ q.shown = page.shown /\ q.handling = page.handling
          /\ q.recovery = page.recovery
      BY <1>1, <3>3 DEF Pages
    <3>5. Sound(q)
      BY <1>1, <3>4, SoundStays
    <3>6. q.pending \/ ~network'.online
      BY <1>5, <3>1, <3>4, Zenon
    <3> QED
      BY <3>4, <3>5, <3>6 DEF Attended, Promised
  <2>2. CASE ~Head(flips)
    <3>1. PICK p : p = IF page.on THEN pauseForOffline(page) ELSE page
      OBVIOUS
    <3>2. Alike(page, p)
      BY <1>1, <3>1, PausedPage DEF Alike
    <3>3. PICK b \in BOOLEAN : b = FALSE
      OBVIOUS
    <3>4. q = [p EXCEPT !.pending = FALSE]
      BY <1>8, <2>2, <3>1, Zenon DEF HandleFlip
    <3>5. q = [p EXCEPT !.pending = b]
      BY <3>3, <3>4, Zenon
    <3>6. q \in Pages /\ q.cursor = p.cursor /\ q.shown = p.shown /\ q.handling = p.handling /\ q.recovery = p.recovery
      BY <3>2, <3>5 DEF Pages, Alike
    <3>7. Sound(p)
      BY <1>1, <3>2, AlikeIsSound
    <3>8. Sound(q)
      BY <3>6, <3>7, SoundStays
    <3>9. CASE network.online
      <4>1. flips[Len(flips)] = TRUE /\ flips[1] # TRUE
        <5>1. Head(flips) = flips[1]
          BY <1>1, <1>2
        <5>2. flips[Len(flips)] = network.online
          BY <1>1, <1>2 DEF Lasting
        <5>3. network.online = TRUE
          BY <3>9, <1>1
        <5> QED
          BY <2>2, <5>1, <5>2, <5>3, Zenon
      <4>2. Len(flips) # 1
        BY <4>1
      <4>3. Len(tail) \in 1..Len(tail) /\ tail[Len(tail)] = TRUE
        <5>1. Len(tail) # 0
          BY <1>6, <4>2
        <5>2. Len(tail) \in 1..Len(tail)
          BY <1>6, <5>1
        <5> QED
          BY <1>6, <4>1, <5>1, <5>2, Zenon
      <4>4. \E i \in 1..Len(network'.flips) : network'.flips[i] = TRUE
        BY <1>5, <4>3, Zenon
      <4> QED
        BY <3>6, <3>8, <4>4 DEF Promised
    <3>10. CASE ~network.online
      <4>1. ~network'.online
        BY <1>5, <3>10, Zenon
      <4> QED
        BY <3>6, <3>8, <4>1 DEF Promised
    <3> QED
      BY <3>9, <3>10
  <2> QED
    BY <2>1, <2>2, Zenon
<1>10. StreamTypes' /\ Sound(page)'
  BY <1>1, <1>2, <1>5, <1>8, <1>9 DEF StreamTypes, Sound, Reached, Holds
<1>11. (page.on => Attended(page) \/ Promised)'
  BY <1>8, <1>9 DEF Attended
<1> QED
  BY <1>7, <1>10, <1>11 DEF StreamInv

LEMMA ResumedPage ==
    ASSUME NEW p \in Pages, Sound(p), NEW q, q = Resumed(p)
    PROVE  q \in Pages /\ Sound(q) /\ (~q.on \/ Attended(q) \/ ~network.online)
<1>1. CASE ~p.on
  BY <1>1 DEF Resumed
<1>2. CASE p.on /\ ~network.online
  <2>1. q = pauseForOffline(p)
    BY <1>2 DEF Resumed
  <2>2. Alike(p, q)
    BY <2>1, PausedPage
  <2> QED
    BY <1>2, <2>2, AlikeIsSound DEF Alike
<1>3. CASE p.on /\ network.online /\ (p.recovery.at # "none" \/ p.resume.at # "none")
  BY <1>3 DEF Resumed, Attended
<1>4. CASE p.on /\ network.online /\ ~(p.recovery.at # "none" \/ p.resume.at # "none")
  <2> DEFINE r == [p.resume EXCEPT !.at = "ask"]
  <2>1. r \in Resumes /\ r.at = "ask"
    BY PageFields DEF Resumes
  <2>2. q = [p EXCEPT !.timer = "none", !.resume.at = "ask"]
    BY <1>4 DEF Resumed
  <2>3. q = [p EXCEPT !.timer = "none", !.resume = r]
    BY <2>2
  <2> HIDE DEF r
  <2>4. /\ q \in Pages /\ q.cursor = p.cursor /\ q.shown = p.shown /\ q.handling = p.handling /\ q.recovery = p.recovery
        /\ q.resume = r
    BY <2>1, <2>3 DEF Pages
  <2>5. Sound(q)
    BY <2>4, SoundStays
  <2> QED
    BY <2>1, <2>4, <2>5 DEF Attended
<1> QED
  BY <1>1, <1>2, <1>3, <1>4

LEMMA RunPendingKeeps == ASSUME StreamInv, RunPending PROVE StreamInv'
<1>1. feed' = feed /\ network' = network
  BY Zenon DEF RunPending
<1>2. PICK b \in BOOLEAN : b = FALSE
  OBVIOUS
<1>3. PICK p : p = [page EXCEPT !.pending = b]
  OBVIOUS
<1>4. /\ p \in Pages /\ p.cursor = page.cursor /\ p.shown = page.shown /\ p.handling = page.handling
      /\ p.recovery = page.recovery
  BY <1>3, PageNow DEF Pages
<1>5. Sound(p)
  BY <1>4, PageNow, SoundStays
<1>6. page' = IF network.online THEN Resumed(p) ELSE p
  BY <1>2, <1>3, Zenon DEF RunPending
<1>7. CASE network.online
  <2>1. PICK q : q = Resumed(p)
    OBVIOUS
  <2>2. q \in Pages /\ Sound(q) /\ (~q.on \/ Attended(q) \/ Promised)
    BY <1>4, <1>5, <2>1, ResumedPage DEF Promised
  <2> QED
    BY <1>1, <1>6, <1>7, <2>1, <2>2, PageGoesOn
<1>8. CASE ~network.online
  BY <1>1, <1>4, <1>5, <1>6, <1>8, PageGoesOn DEF Promised
<1> QED
  BY <1>7, <1>8

\* openSocket, whether the constructor throws or not.
LEMMA SocketIsOpened ==
    ASSUME StreamInv, NEW p \in Pages, Sound(p), NEW thrown, Alike(p, thrown), Attended(thrown) \/ ~network.online,
           openSocket(p, thrown), feed' = feed, network' = network
    PROVE  StreamInv'
<1>1. CASE page' = Opened(p)
  <2>1. PICK q : q = Opened(p)
    OBVIOUS
  <2>2. Alike(p, q) /\ (Attended(q) \/ ~network.online)
    BY <2>1, OpenedPage DEF Attended
  <2> QED
    BY <1>1, <2>1, <2>2, AlikeGoesOn
<1>2. CASE page' = thrown
  BY <1>2, AlikeGoesOn
<1> QED
  BY <1>1, <1>2 DEF openSocket

LEMMA TimerKeeps == ASSUME StreamInv, TimerFires PROVE StreamInv'
<1>1. feed' = feed /\ network' = network
  BY Zenon DEF TimerFires
<1>2. PICK p : p = [page EXCEPT !.timer = "none"]
  OBVIOUS
<1>3. /\ p \in Pages /\ p.cursor = page.cursor /\ p.shown = page.shown /\ p.handling = page.handling
      /\ p.recovery = page.recovery
  BY <1>2, PageNow DEF Pages
<1>4. Sound(p)
  BY <1>3, PageNow, SoundStays
<1>5. CASE page' = recoverFromSnapshot(p)
  <2>1. PICK q : q = recoverFromSnapshot(p)
    OBVIOUS
  <2>2. Alike(p, q) /\ (Attended(q) \/ ~network.online)
    BY <1>3, <2>1, RecoveredPage DEF Attended
  <2> QED
    BY <1>1, <1>3, <1>4, <1>5, <2>1, <2>2, AlikeGoesOn
<1>6. CASE openSocket(p, Broken(p))
  <2>1. PICK q : q = Broken(p)
    OBVIOUS
  <2>2. Alike(p, q) /\ (Attended(q) \/ ~network.online)
    BY <1>3, <2>1, BrokenPage DEF Attended
  <2>3. openSocket(p, q)
    BY <1>6, <2>1
  <2> QED
    BY <1>1, <1>3, <1>4, <2>2, <2>3, SocketIsOpened
<1>7. page' = recoverFromSnapshot(p) \/ openSocket(p, Broken(p))
  BY <1>2, Zenon DEF TimerFires
<1> QED
  BY <1>5, <1>6, <1>7

\* The mark of the feed is reached, and the rows hold what was published.
LEMMA FeedIsReached == ASSUME StreamTypes PROVE feed \in Marks /\ Reached(feed)
BY DEF StreamTypes, Marks, Reached

LEMMA RowsHold ==
    ASSUME StreamTypes, NEW mark \in Marks, Reached(mark)
    PROVE  Published \in SUBSET StreamEvents /\ Holds(Published, mark)
<1>1. /\ feed.session \in Nat /\ feed.sequence \in Nat /\ MaxEvents \in Nat
      /\ mark.session \in Nat /\ mark.sequence \in Nat
  BY LiveStreamAssumption DEF StreamTypes, Marks, LiveStreamAssumption
<1>2. Published \in SUBSET StreamEvents
  <2> SUFFICES ASSUME NEW e \in Published PROVE e \in Nat \X Nat
    BY DEF StreamEvents
  <2>1. e \in (1..feed.session) \X (1..MaxEvents)
    BY DEF Published
  <2> QED
    BY <1>1, <2>1
<1>3. ASSUME NEW n \in 1..mark.sequence PROVE <<mark.session, n>> \in Published
  <2>1. n \in 1..MaxEvents /\ mark.session \in 1..feed.session
    BY <1>1 DEF Reached
  <2>2. <<mark.session, n>> \in (1..feed.session) \X (1..MaxEvents)
    BY <2>1
  <2>3. mark.session = feed.session => n <= feed.sequence
    BY <1>1 DEF Reached
  <2> QED
    BY <2>2, <2>3 DEF Published
<1> QED
  BY <1>2, <1>3 DEF Holds

\* A step of the recovery that leaves the cursor alone.
LEMMA RecoveryGoesOn ==
    ASSUME StreamInv, NEW r \in Recoveries, NEW q, q = [page EXCEPT !.recovery = r],
           r.at = "rows" => Reached(r.mark), r.at \in {"answer", "apply"} => Holds(r.rows, r.mark)
    PROVE  q \in Pages /\ Sound(q) /\ q.recovery = r /\ q.on = page.on
<1>1. page \in Pages /\ Sound(page)
  BY PageNow
<1>2. /\ q \in Pages /\ q.cursor = page.cursor /\ q.shown = page.shown /\ q.handling = page.handling
      /\ q.recovery = r /\ q.on = page.on
  BY <1>1 DEF Pages
<1> QED
  BY <1>1, <1>2 DEF Sound

LEMMA SnapshotKeeps == ASSUME StreamInv, LiveSnapshot PROVE StreamInv'
<1>1. feed' = feed /\ network' = network
  BY Zenon DEF LiveSnapshot
<1>2. /\ page \in Pages /\ Sound(page) /\ StreamTypes /\ feed \in Marks
      /\ page.recovery \in Recoveries /\ page.recovery.mark \in Marks
  BY PageNow, PageFields
<1>3. CASE page.recovery.at = "ask" /\ page' = [page EXCEPT !.recovery.at = "rows", !.recovery.mark = feed]
  <2> DEFINE r == [page.recovery EXCEPT !.at = "rows", !.mark = feed]
  <2>1. r \in Recoveries /\ r.at = "rows" /\ r.mark = feed
    BY <1>2 DEF Recoveries
  <2>2. page' = [page EXCEPT !.recovery = r]
    BY <1>2, <1>3 DEF Pages
  <2> HIDE DEF r
  <2>3. PICK q : q = [page EXCEPT !.recovery = r]
    OBVIOUS
  <2>4. q \in Pages /\ Sound(q) /\ Attended(q)
    BY <1>2, <2>1, <2>3, FeedIsReached, RecoveryGoesOn DEF Attended
  <2> QED
    BY <1>1, <2>2, <2>3, <2>4, PageGoesOn
<1>4. CASE page.recovery.at = "rows" /\ page' = [page EXCEPT !.recovery.at = "answer", !.recovery.rows = Published]
  <2> DEFINE r == [page.recovery EXCEPT !.at = "answer", !.rows = Published]
  <2>1. Reached(page.recovery.mark)
    BY <1>2, <1>4 DEF Sound
  <2>2. Published \in SUBSET StreamEvents /\ Holds(Published, page.recovery.mark)
    BY <1>2, <2>1, RowsHold
  <2>3. r \in Recoveries /\ r.at = "answer" /\ r.rows = Published /\ r.mark = page.recovery.mark
    BY <1>2, <2>2 DEF Recoveries
  <2>4. page' = [page EXCEPT !.recovery = r]
    BY <1>2, <1>4 DEF Pages
  <2> HIDE DEF r
  <2>5. PICK q : q = [page EXCEPT !.recovery = r]
    OBVIOUS
  <2>6. q \in Pages /\ Sound(q) /\ Attended(q)
    BY <2>2, <2>3, <2>5, RecoveryGoesOn DEF Attended
  <2> QED
    BY <1>1, <2>4, <2>5, <2>6, PageGoesOn
<1> QED
  BY <1>3, <1>4, Zenon DEF LiveSnapshot

LEMMA ArrivalKeeps == ASSUME StreamInv, SnapshotArrives PROVE StreamInv'
<1>1. feed' = feed /\ network' = network /\ page.recovery.at = "answer"
  BY Zenon DEF SnapshotArrives
<1>2. page \in Pages /\ Sound(page) /\ page.recovery \in Recoveries
  BY PageNow, PageFields
<1>3. CASE network.online
  <2> DEFINE r == [page.recovery EXCEPT !.at = "apply"]
  <2>1. r \in Recoveries /\ r.at = "apply" /\ r.rows = page.recovery.rows /\ r.mark = page.recovery.mark
    BY <1>2 DEF Recoveries
  <2>2. page' = [page EXCEPT !.recovery.at = "apply"]
    BY <1>3, Zenon DEF SnapshotArrives
  <2>3. page' = [page EXCEPT !.recovery = r]
    BY <1>2, <2>2 DEF Pages
  <2> HIDE DEF r
  <2>4. PICK q : q = [page EXCEPT !.recovery = r]
    OBVIOUS
  <2>5. Holds(r.rows, r.mark)
    BY <1>1, <1>2, <2>1 DEF Sound
  <2>6. q \in Pages /\ Sound(q) /\ Attended(q)
    BY <2>1, <2>4, <2>5, RecoveryGoesOn DEF Attended
  <2> QED
    BY <1>1, <2>3, <2>4, <2>6, PageGoesOn
<1>4. CASE ~network.online
  <2>1. PICK p : p = pauseForOffline(page)
    OBVIOUS
  <2>2. Alike(page, p)
    BY <1>2, <2>1, PausedPage
  <2>3. page' = [p EXCEPT !.recovery = NoRecovery]
    BY <1>4, <2>1, Zenon DEF SnapshotArrives
  <2>4. PICK q : q = [p EXCEPT !.recovery = NoRecovery]
    OBVIOUS
  <2>5. q \in Pages /\ q.cursor = p.cursor /\ q.shown = p.shown /\ q.handling = p.handling /\ q.recovery = NoRecovery
    BY <2>2, <2>4, BlankMarks DEF Pages, Alike
  <2>6. Sound(p)
    BY <1>2, <2>2, AlikeIsSound
  <2>7. Sound(q)
    BY <2>5, <2>6, BlankMarks, SoundStays
  <2> QED
    BY <1>1, <1>4, <2>3, <2>4, <2>5, <2>7, PageGoesOn DEF Promised
<1> QED
  BY <1>3, <1>4

\* The page takes the rows with their mark for its cursor, and no handler of
\* the socket it closes counts for it any more.
LEMMA ApplyKeeps == ASSUME StreamInv, ApplySnapshot PROVE StreamInv'
<1>1. feed' = feed /\ network' = network /\ page.recovery.at = "apply"
  BY Zenon DEF ApplySnapshot
<1>2. /\ page \in Pages /\ Sound(page) /\ page.recovery \in Recoveries /\ page.recovery.mark \in Marks
      /\ page.recovery.rows \in SUBSET StreamEvents
  BY PageNow, PageFields DEF Recoveries
<1>3. PICK p : p = [page EXCEPT !.recovery = NoRecovery, !.cursor = page.recovery.mark, !.shown = page.recovery.rows]
  OBVIOUS
<1>4. /\ p \in Pages /\ p.cursor = page.recovery.mark /\ p.shown = page.recovery.rows /\ p.recovery = NoRecovery
  BY <1>2, <1>3, BlankMarks DEF Pages
<1>5. Holds(p.shown, p.cursor)
  BY <1>1, <1>2, <1>4 DEF Sound
<1>6. openSocket(p, Broken(p))
  BY <1>3, Zenon DEF ApplySnapshot
<1>7. PICK q : page' = q /\ (q = Opened(p) \/ q = Broken(p))
  BY <1>6, Zenon DEF openSocket
<1>8. Alike(p, q) /\ q.handling = {} /\ q.recovery = p.recovery /\ (Attended(q) \/ ~network.online)
  BY <1>4, <1>7, OpenedPage, BrokenPage DEF Attended
<1>9. q \in Pages /\ Sound(q)
  BY <1>4, <1>5, <1>8, BlankMarks DEF Alike, Sound
<1> QED
  BY <1>1, <1>7, <1>8, <1>9, PageGoesOn DEF Promised

LEMMA RecoveryFailureKeeps == ASSUME StreamInv, RecoveryFails PROVE StreamInv'
<1>1. feed' = feed /\ network' = network
  BY Zenon DEF RecoveryFails
<1>2. PICK p : p = [page EXCEPT !.recovery = NoRecovery]
  OBVIOUS
<1>3. p \in Pages /\ Sound(p)
  BY <1>2, BlankMarks, RecoveryGoesOn
<1>4. PICK q : q = scheduleReconnect(p, "snapshot")
  OBVIOUS
<1>5. Alike(p, q) /\ (Attended(q) \/ ~network.online)
  BY <1>3, <1>4, RescheduledPage DEF Attended
<1>6. page' = q
  BY <1>2, <1>4, Zenon DEF RecoveryFails
<1> QED
  BY <1>1, <1>3, <1>5, <1>6, AlikeGoesOn

\* An edit of what awaits the answer of the server leaves the rest.
LEMMA ResumeGoesOn ==
    ASSUME StreamInv, NEW r \in Resumes, NEW q, q = [page EXCEPT !.resume = r]
    PROVE  /\ q \in Pages /\ Sound(q) /\ q.resume = r /\ q.on = page.on /\ q.socket = page.socket
           /\ q.cursor = page.cursor
<1>1. page \in Pages /\ Sound(page)
  BY PageNow
<1>2. /\ q \in Pages /\ q.cursor = page.cursor /\ q.shown = page.shown /\ q.handling = page.handling
      /\ q.recovery = page.recovery /\ q.resume = r /\ q.on = page.on /\ q.socket = page.socket
  BY <1>1 DEF Pages
<1> QED
  BY <1>1, <1>2, SoundStays

LEMMA StateKeeps == ASSUME StreamInv, StreamState PROVE StreamInv'
<1>1. feed' = feed /\ network' = network /\ page' = [page EXCEPT !.resume = [at |-> "answer", mark |-> feed]]
  BY Zenon DEF StreamState
<1>2. PICK r \in Resumes : r = [at |-> "answer", mark |-> feed] /\ r.at = "answer"
  <2>1. feed \in Marks
    BY PageNow
  <2> DEFINE r == [at |-> "answer", mark |-> feed]
  <2>2. r \in Resumes /\ r.at = "answer"
    BY <2>1 DEF Resumes
  <2> QED
    BY <2>2, Zenon
<1>3. PICK q : q = [page EXCEPT !.resume = r]
  OBVIOUS
<1>4. q \in Pages /\ Sound(q) /\ Attended(q)
  BY <1>2, <1>3, ResumeGoesOn DEF Attended
<1>5. page' = q
  BY <1>1, <1>2, <1>3, Zenon
<1> QED
  BY <1>1, <1>4, <1>5, PageGoesOn

LEMMA AnswerKeeps == ASSUME StreamInv, ResumeAnswered PROVE StreamInv'
<1>1. feed' = feed /\ network' = network
  BY Zenon DEF ResumeAnswered
<1>2. PICK p : p = [page EXCEPT !.resume = NoAnswer]
  OBVIOUS
<1>3. p \in Pages /\ Sound(p) /\ p.socket = page.socket
  BY <1>2, BlankMarks, ResumeGoesOn
<1>4. PICK broken : broken = Broken(p)
  OBVIOUS
<1>5. PICK calm : calm = [broken EXCEPT !.timer = "none"]
  OBVIOUS
<1>6. PICK thrown : thrown = recoverFromSnapshot(calm)
  OBVIOUS
<1>7. \/ page' = pauseForOffline(p) /\ ~network.online
      \/ page' = recoverFromSnapshot(p)
      \/ openSocket(p, thrown)
      \/ Usable /\ page' = p
  <2>1. thrown = recoverFromSnapshot([Broken(p) EXCEPT !.timer = "none"])
    BY <1>4, <1>5, <1>6, Zenon
  <2> QED
    BY <1>2, <2>1, Zenon DEF ResumeAnswered
<1>8. CASE page' = pauseForOffline(p) /\ ~network.online
  <2>1. PICK q : q = pauseForOffline(p)
    OBVIOUS
  <2>2. Alike(p, q)
    BY <1>3, <2>1, PausedPage
  <2> QED
    BY <1>1, <1>3, <1>8, <2>1, <2>2, AlikeGoesOn
<1>9. CASE page' = recoverFromSnapshot(p)
  <2>1. PICK q : q = recoverFromSnapshot(p)
    OBVIOUS
  <2>2. Alike(p, q) /\ (Attended(q) \/ ~network.online)
    BY <1>3, <2>1, RecoveredPage DEF Attended
  <2> QED
    BY <1>1, <1>3, <1>9, <2>1, <2>2, AlikeGoesOn
<1>10. CASE openSocket(p, thrown)
  <2>1. Alike(p, broken)
    BY <1>3, <1>4, BrokenPage
  <2>2. Alike(broken, calm) /\ calm \in Pages
    BY <1>5, <2>1 DEF Alike, Pages
  <2>3. Alike(calm, thrown) /\ (Attended(thrown) \/ ~network.online)
    BY <1>6, <2>2, RecoveredPage DEF Attended
  <2>4. Alike(p, thrown)
    BY <2>1, <2>2, <2>3, AlikeAgain, Zenon
  <2> QED
    BY <1>1, <1>3, <1>10, <2>3, <2>4, SocketIsOpened
<1>11. CASE Usable /\ page' = p
  <2>1. Attended(p)
    BY <1>3, <1>11 DEF Usable, Attended
  <2> QED
    BY <1>1, <1>3, <1>11, <2>1, PageGoesOn
<1> QED
  BY <1>7, <1>8, <1>9, <1>10, <1>11

LEMMA ResumeFailureKeeps == ASSUME StreamInv, ResumeFails PROVE StreamInv'
<1>1. feed' = feed /\ network' = network
  BY Zenon DEF ResumeFails
<1>2. PICK p : p = [page EXCEPT !.resume = NoAnswer]
  OBVIOUS
<1>3. p \in Pages /\ Sound(p)
  BY <1>2, BlankMarks, ResumeGoesOn
<1>4. PICK q : q = recoverFromSnapshot(p)
  OBVIOUS
<1>5. Alike(p, q) /\ (Attended(q) \/ ~network.online)
  BY <1>3, <1>4, RecoveredPage DEF Attended
<1>6. page' = q
  BY <1>2, <1>4, Zenon DEF ResumeFails
<1> QED
  BY <1>1, <1>3, <1>5, <1>6, AlikeGoesOn

-----------------------------------------------------------------------------
(* The hub and the socket *)

\* An edit of the socket to one that is there.
LEMMA SocketGoesOn ==
    ASSUME StreamInv, NEW s \in Sockets, s.at # "none", NEW q, q = [page EXCEPT !.socket = s]
    PROVE  q \in Pages /\ Sound(q) /\ Attended(q)
<1>1. page \in Pages /\ Sound(page)
  BY PageNow
<1>2. /\ q \in Pages /\ q.cursor = page.cursor /\ q.shown = page.shown /\ q.handling = page.handling
      /\ q.recovery = page.recovery /\ q.socket = s
  BY <1>1 DEF Pages
<1> QED
  BY <1>1, <1>2, SoundStays DEF Attended

LEMMA SocketTurns ==
    ASSUME StreamInv, NEW at \in {"opening", "live", "resync", "lost"}, NEW q, q = [page EXCEPT !.socket.at = at]
    PROVE  q \in Pages /\ Sound(q) /\ Attended(q)
<1> DEFINE s == [page.socket EXCEPT !.at = at]
<1>1. page \in Pages /\ page.socket \in Sockets
  BY PageNow, PageFields
<1>2. s \in Sockets /\ s.at # "none"
  BY <1>1 DEF Sockets
<1>3. q = [page EXCEPT !.socket = s]
  BY <1>1 DEF Pages
<1> HIDE DEF s
<1> QED
  BY <1>2, <1>3, SocketGoesOn

LEMMA HubPublishKeeps == ASSUME StreamInv, HubPublish PROVE StreamInv'
<1>1. feed.sequence < MaxEvents /\ feed' = [feed EXCEPT !.sequence = feed.sequence + 1] /\ page' = page /\ network' = network
  BY Zenon DEF HubPublish
<1>2. StreamTypes /\ Lasting /\ Sound(page) /\ (page.on => Attended(page) \/ Promised) /\ feed \in Marks
  BY DEF StreamInv, StreamTypes
<1>3. feed.sequence \in Nat /\ feed.session \in Nat /\ MaxEvents \in Nat
  BY <1>2, LiveStreamAssumption DEF Marks, LiveStreamAssumption
<1>4. feed' \in Marks /\ feed'.session = feed.session /\ feed'.sequence = feed.sequence + 1
  BY <1>1, <1>2 DEF Marks
<1>5. StreamTypes'
  BY <1>1, <1>2, <1>3, <1>4 DEF StreamTypes
<1>6. page.recovery.mark.sequence \in Nat
  BY PageNow, PageFields
<1>7. Reached(page.recovery.mark) => Reached(page.recovery.mark)'
  BY <1>1, <1>3, <1>4, <1>6 DEF Reached
<1>8. Sound(page)'
  BY <1>1, <1>2, <1>7 DEF Sound, Holds
<1>9. Lasting' /\ (page.on => Attended(page) \/ Promised)'
  BY <1>1, <1>2 DEF Lasting, Attended, Promised
<1> QED
  BY <1>5, <1>8, <1>9 DEF StreamInv

LEMMA NewStreamKeeps == ASSUME StreamInv, NewStream PROVE StreamInv'
<1>1. feed' = [session |-> feed.session + 1, sequence |-> 0] /\ network' = network
  BY Zenon DEF NewStream
<1>2. PICK end \in {"lost", "resync"} :
         page' = IF page.socket.at \in {"opening", "live"} THEN [page EXCEPT !.socket.at = end] ELSE page
  BY Zenon DEF NewStream
<1>3. StreamTypes /\ Lasting /\ Sound(page) /\ (page.on => Attended(page) \/ Promised) /\ feed \in Marks /\ page \in Pages
  BY DEF StreamInv, StreamTypes
<1>4. feed.session \in Nat /\ MaxEvents \in Nat
  BY <1>3, LiveStreamAssumption DEF Marks, LiveStreamAssumption
<1>5. feed' \in Marks /\ feed'.session = feed.session + 1 /\ feed'.sequence = 0
  BY <1>1, <1>4 DEF Marks
<1>6. PICK q : page' = q
  OBVIOUS
<1>7. q \in Pages /\ Sound(q) /\ (q.on => Attended(q) \/ Promised)
  <2>1. CASE page.socket.at \in {"opening", "live"}
    BY <1>2, <1>6, <2>1, SocketTurns
  <2>2. CASE page.socket.at \notin {"opening", "live"}
    BY <1>2, <1>3, <1>6, <2>2
  <2> QED
    BY <2>1, <2>2
<1>8. StreamTypes'
  BY <1>1, <1>3, <1>4, <1>5, <1>6, <1>7 DEF StreamTypes
<1>9. q.recovery.mark.session \in Nat
  BY <1>7, PageFields
<1>10. Reached(q.recovery.mark) => Reached(q.recovery.mark)'
  BY <1>4, <1>5, <1>9 DEF Reached
<1>11. Sound(page)'
  BY <1>6, <1>7, <1>10 DEF Sound, Holds
<1>12. Lasting' /\ (page.on => Attended(page) \/ Promised)'
  BY <1>1, <1>3, <1>6, <1>7 DEF Lasting, Attended, Promised
<1> QED
  BY <1>8, <1>11, <1>12 DEF StreamInv

LEMMA SocketStepsKeep == ASSUME StreamInv, AgentWS \/ ConnectedFrame PROVE StreamInv'
<1>1. feed' = feed /\ network' = network
  BY Zenon DEF AgentWS, SocketGoes, ConnectedFrame
<1>2. CASE AgentWS
  <2>1. PICK at \in {"opening", "live", "resync", "lost"} : page' = [page EXCEPT !.socket.at = at]
    BY <1>2 DEF AgentWS, SocketGoes
  <2>2. PICK q : q = [page EXCEPT !.socket.at = at]
    OBVIOUS
  <2>3. q \in Pages /\ Sound(q) /\ Attended(q)
    BY <2>2, SocketTurns
  <2> QED
    BY <1>1, <2>1, <2>2, <2>3, PageGoesOn
<1>3. CASE ConnectedFrame
  <2>1. page.socket.at = "live" /\ page' = [page EXCEPT !.socket.connected = TRUE]
    BY <1>3, Zenon DEF ConnectedFrame
  <2>2. PICK b \in BOOLEAN : b = TRUE
    OBVIOUS
  <2>3. page' = [page EXCEPT !.socket.connected = b]
    BY <2>1, <2>2, Zenon
  <2> DEFINE s == [page.socket EXCEPT !.connected = b]
  <2>4. page \in Pages /\ page.socket \in Sockets
    BY PageNow, PageFields
  <2>5. s \in Sockets /\ s.at # "none"
    BY <2>1, <2>4 DEF Sockets
  <2>6. page' = [page EXCEPT !.socket = s]
    BY <2>3, <2>4 DEF Pages
  <2> HIDE DEF s
  <2>7. PICK q : q = [page EXCEPT !.socket = s]
    OBVIOUS
  <2>8. q \in Pages /\ Sound(q) /\ Attended(q)
    BY <2>5, <2>7, SocketGoesOn
  <2> QED
    BY <1>1, <2>6, <2>7, <2>8, PageGoesOn
<1> QED
  BY <1>2, <1>3

LEMMA ResyncKeeps == ASSUME StreamInv, ResyncFrame PROVE StreamInv'
<1>1. feed' = feed /\ network' = network /\ page' = requestSnapshot(page)
  BY Zenon DEF ResyncFrame
<1>2. PICK q : q = requestSnapshot(page)
  OBVIOUS
<1>3. page \in Pages /\ Sound(page)
  BY PageNow
<1>4. Alike(page, q) /\ (Attended(q) \/ ~network.online)
  BY <1>2, <1>3, RequestedPage DEF Attended
<1> QED
  BY <1>1, <1>2, <1>3, <1>4, AlikeGoesOn

LEMMA ClosingKeeps == ASSUME StreamInv, SocketClosed PROVE StreamInv'
<1>1. feed' = feed /\ network' = network
  BY Zenon DEF SocketClosed
<1>2. PICK op \in {"open", "snapshot"} : op = (IF page.socket.connected THEN "open" ELSE "snapshot")
  OBVIOUS
<1>3. PICK p : p = closeCurrentSocket(page)
  OBVIOUS
<1>4. page \in Pages /\ Sound(page)
  BY PageNow
<1>5. Alike(page, p) /\ p \in Pages
  BY <1>3, <1>4, ClosedPage DEF Alike
<1>6. PICK q : q = scheduleReconnect(p, op)
  OBVIOUS
<1>7. Alike(p, q) /\ (Attended(q) \/ ~network.online)
  BY <1>5, <1>6, RescheduledPage DEF Attended
<1>8. page' = q
  BY <1>2, <1>3, <1>6, Zenon DEF SocketClosed
<1>9. Sound(p)
  BY <1>4, <1>5, AlikeIsSound
<1> QED
  BY <1>1, <1>5, <1>7, <1>8, <1>9, AlikeGoesOn

\* A step of the page that leaves what attends to it.
LEMMA PageGoesOnAsItWas ==
    ASSUME StreamInv, NEW q \in Pages, page' = q, Sound(q), q.on = page.on, q.socket = page.socket,
           q.timer = page.timer, q.recovery = page.recovery, q.resume = page.resume, q.pending = page.pending,
           feed' = feed, network' = network
    PROVE  StreamInv'
<1>1. page.on => Attended(page) \/ Promised
  BY DEF StreamInv
<1>2. ~q.on \/ Attended(q) \/ Promised
  BY <1>1 DEF Attended
<1> QED
  BY <1>2, PageGoesOn

LEMMA EventFrameKeeps == ASSUME StreamInv, EventFrame PROVE StreamInv'
<1> DEFINE e == <<page.cursor.session, page.cursor.sequence + 1>>
<1>1. feed' = feed /\ network' = network /\ page' = [page EXCEPT !.handling = {e}]
  BY Zenon DEF EventFrame
<1>2. page \in Pages /\ Sound(page) /\ page.cursor.session \in Nat /\ page.cursor.sequence \in Nat
  BY PageNow, PageFields
<1>3. PICK held \in SUBSET StreamEvents : held = {e}
  <2>1. e \in StreamEvents
    BY <1>2 DEF StreamEvents
  <2> HIDE DEF e
  <2>2. {e} \in SUBSET StreamEvents
    BY <2>1
  <2> QED
    BY <2>2, Zenon
<1>4. PICK q : q = [page EXCEPT !.handling = held]
  OBVIOUS
<1>5. /\ q \in Pages /\ q.cursor = page.cursor /\ q.shown = page.shown /\ q.handling = held
      /\ q.recovery = page.recovery /\ q.on = page.on /\ q.socket = page.socket
      /\ q.timer = page.timer /\ q.resume = page.resume /\ q.pending = page.pending
  BY <1>2, <1>4 DEF Pages
<1>6. Sound(q)
  <2>1. q.handling \subseteq {<<q.cursor.session, q.cursor.sequence + 1>>}
    BY <1>3, <1>5
  <2> QED
    BY <1>2, <1>5, <2>1 DEF Sound
<1>7. page' = q
  BY <1>1, <1>3, <1>4, Zenon
<1> QED
  BY <1>1, <1>5, <1>6, <1>7, PageGoesOnAsItWas

\* An event counted with its effect.
LEMMA EventIsCounted ==
    ASSUME StreamInv, NEW e \in page.handling,
           page' = [page EXCEPT !.shown = page.shown \cup {e}, !.handling = {}, !.cursor.sequence = e[2]],
           feed' = feed, network' = network
    PROVE  StreamInv'
<1>1. /\ page \in Pages /\ Sound(page) /\ page.cursor \in Marks /\ page.cursor.session \in Nat
      /\ page.cursor.sequence \in Nat /\ page.shown \in SUBSET StreamEvents /\ page.handling \in SUBSET StreamEvents
  BY PageNow, PageFields
<1>2. e = <<page.cursor.session, page.cursor.sequence + 1>> /\ e \in StreamEvents
  BY <1>1 DEF Sound
<1>3. PICK shown \in SUBSET StreamEvents : shown = page.shown \cup {e}
  BY <1>1, <1>2
<1>4. PICK mark \in Marks : mark = [page.cursor EXCEPT !.sequence = e[2]]
  <2>1. e[2] \in Nat
    BY <1>2 DEF StreamEvents
  <2>2. [page.cursor EXCEPT !.sequence = e[2]] \in Marks
    BY <1>1, <2>1 DEF Marks
  <2> QED
    BY <2>2, Zenon
<1>5. mark.session = page.cursor.session /\ mark.sequence = page.cursor.sequence + 1
  BY <1>1, <1>2, <1>4 DEF Marks
<1>6. PICK q : q = [page EXCEPT !.shown = shown, !.handling = {}, !.cursor = mark]
  OBVIOUS
<1>7. /\ q \in Pages /\ q.cursor = mark /\ q.shown = shown /\ q.handling = {}
      /\ q.recovery = page.recovery /\ q.on = page.on /\ q.socket = page.socket
      /\ q.timer = page.timer /\ q.resume = page.resume /\ q.pending = page.pending
  BY <1>1, <1>6 DEF Pages
<1>8. Holds(shown, mark)
  <2>1. ASSUME NEW n \in 1..mark.sequence
        PROVE  <<mark.session, n>> \in shown
    <3>1. CASE n = mark.sequence
      BY <1>2, <1>3, <1>5, <3>1
    <3>2. CASE n \in 1..page.cursor.sequence
      BY <1>1, <1>3, <1>5, <3>2 DEF Sound, Holds
    <3> QED
      BY <1>1, <1>5, <3>1, <3>2
  <2> QED
    BY <2>1 DEF Holds
<1>9. Sound(q)
  BY <1>1, <1>7, <1>8 DEF Sound
<1>10. page' = q
  BY <1>1, <1>3, <1>4, <1>6 DEF Pages
<1> QED
  BY <1>7, <1>9, <1>10, PageGoesOnAsItWas

\* A replaced socket's handler only adds to what is shown.
LEMMA LateEventIsShown ==
    ASSUME StreamInv, NEW e \in page.late,
           page' = [page EXCEPT !.shown = page.shown \cup {e}, !.late = page.late \ {e}],
           feed' = feed, network' = network
    PROVE  StreamInv'
<1>1. /\ page \in Pages /\ Sound(page) /\ page.shown \in SUBSET StreamEvents /\ page.late \in SUBSET StreamEvents
  BY PageNow, PageFields
<1>2. PICK shown \in SUBSET StreamEvents : shown = page.shown \cup {e}
  BY <1>1
<1>3. PICK late \in SUBSET StreamEvents : late = page.late \ {e}
  BY <1>1
<1>4. PICK q : q = [page EXCEPT !.shown = shown, !.late = late]
  OBVIOUS
<1>5. /\ q \in Pages /\ q.cursor = page.cursor /\ q.shown = shown /\ q.handling = page.handling
      /\ q.recovery = page.recovery /\ q.on = page.on /\ q.socket = page.socket
      /\ q.timer = page.timer /\ q.resume = page.resume /\ q.pending = page.pending
  BY <1>1, <1>4 DEF Pages
<1>6. Holds(shown, page.cursor)
  BY <1>1, <1>2 DEF Sound, Holds
<1>7. Sound(q)
  BY <1>1, <1>5, <1>6 DEF Sound
<1>8. page' = q
  BY <1>2, <1>3, <1>4, Zenon
<1> QED
  BY <1>5, <1>7, <1>8, PageGoesOnAsItWas

LEMMA EventHandledKeeps == ASSUME StreamInv, EventHandled PROVE StreamInv'
<1>1. feed' = feed /\ network' = network
  BY Zenon DEF EventHandled
<1>2. CASE \E e \in page.handling :
             page' = [page EXCEPT !.shown = page.shown \cup {e}, !.handling = {}, !.cursor.sequence = e[2]]
  BY <1>1, <1>2, EventIsCounted, Zenon
<1>3. CASE \E e \in page.late : page' = [page EXCEPT !.shown = page.shown \cup {e}, !.late = page.late \ {e}]
  BY <1>1, <1>3, LateEventIsShown, Zenon
<1> QED
  BY <1>2, <1>3, Zenon DEF EventHandled

\* A page whose handlers have been rid of an event.
LEMMA EventIsDropped ==
    ASSUME StreamInv, NEW held \in SUBSET StreamEvents, held \subseteq page.handling, NEW late \in SUBSET StreamEvents,
           NEW p, p = [page EXCEPT !.handling = held, !.late = late], page' = requestSnapshot(p),
           feed' = feed, network' = network
    PROVE  StreamInv'
<1>1. page \in Pages /\ Sound(page)
  BY PageNow
<1>2. /\ p \in Pages /\ p.cursor = page.cursor /\ p.shown = page.shown /\ p.handling = held
      /\ p.recovery = page.recovery
  BY <1>1 DEF Pages
<1>3. Sound(p)
  BY <1>1, <1>2, SoundStays
<1>4. PICK q : q = requestSnapshot(p)
  OBVIOUS
<1>5. Alike(p, q) /\ (Attended(q) \/ ~network.online)
  BY <1>2, <1>4, RequestedPage DEF Attended
<1> QED
  BY <1>2, <1>3, <1>4, <1>5, AlikeGoesOn

LEMMA EventFailsKeeps == ASSUME StreamInv, EventFails PROVE StreamInv'
<1>1. feed' = feed /\ network' = network
  BY Zenon DEF EventFails
<1>2. page \in Pages /\ page.handling \in SUBSET StreamEvents /\ page.late \in SUBSET StreamEvents
  BY PageNow, PageFields
<1>3. CASE page' = requestSnapshot([page EXCEPT !.handling = {}])
  <2>1. PICK p : p = [page EXCEPT !.handling = {}]
    OBVIOUS
  <2>2. p = [page EXCEPT !.handling = {}, !.late = page.late]
    BY <1>2, <2>1 DEF Pages
  <2>3. page' = requestSnapshot(p)
    BY <1>3, <2>1, Zenon
  <2>4. {} \in SUBSET StreamEvents /\ {} \subseteq page.handling
    OBVIOUS
  <2> QED
    BY <1>1, <1>2, <2>2, <2>3, <2>4, EventIsDropped, Zenon
<1>4. CASE \E e \in page.late : page' = requestSnapshot([page EXCEPT !.late = page.late \ {e}])
  <2>1. PICK e \in page.late : page' = requestSnapshot([page EXCEPT !.late = page.late \ {e}])
    BY <1>4
  <2>2. PICK late \in SUBSET StreamEvents : late = page.late \ {e}
    BY <1>2
  <2>3. PICK p : p = [page EXCEPT !.late = late]
    OBVIOUS
  <2>4. p = [page EXCEPT !.handling = page.handling, !.late = late]
    BY <1>2, <2>3 DEF Pages
  <2>5. page' = requestSnapshot(p)
    BY <2>1, <2>2, <2>3, Zenon
  <2>6. page.handling \subseteq page.handling
    OBVIOUS
  <2> QED
    BY <1>1, <1>2, <2>2, <2>4, <2>5, <2>6, EventIsDropped, Zenon
<1> QED
  BY <1>3, <1>4, Zenon DEF EventFails

LEMMA StreamInitHolds == StreamInit => StreamInv
<1> SUFFICES ASSUME StreamInit PROVE StreamInv
  OBVIOUS
<1>1. /\ feed = [session |-> 1, sequence |-> 0] /\ page = Stopped
      /\ network = [online |-> TRUE, flips |-> <<>>, count |-> 0]
  BY Zenon DEF StreamInit
<1>2. FALSE \in BOOLEAN /\ {} \in SUBSET StreamEvents
  OBVIOUS
<1>3. page = [on |-> FALSE, cursor |-> NoRecovery.mark, timer |-> "none", socket |-> NoSocket,
              recovery |-> NoRecovery, resume |-> NoAnswer, handling |-> {}, late |-> {},
              pending |-> FALSE, shown |-> {}]
  BY <1>1, Zenon DEF Stopped
<1>4. page \in Pages /\ Sound(page) /\ ~page.on
  BY <1>2, <1>3, StoppedPage, Zenon
<1>5. feed \in Marks /\ feed.session # 0 /\ feed.sequence <= MaxEvents
  BY <1>1, LiveStreamAssumption DEF Marks, LiveStreamAssumption
<1>6. PICK b \in BOOLEAN : b = TRUE
  OBVIOUS
<1>7. network = [online |-> b, flips |-> <<>>, count |-> 0]
  BY <1>1, <1>6, Zenon
<1>8. network \in [online : BOOLEAN, flips : Seq(BOOLEAN), count : Nat] /\ network.flips = <<>>
  BY <1>7
<1> QED
  BY <1>4, <1>5, <1>8 DEF StreamInv, StreamTypes, Lasting

LEMMA StreamStepKeeps == ASSUME StreamInv, [StreamNext]_streamVars PROVE StreamInv'
<1>1. CASE Connect \/ Disconnect \/ Flip \/ HandleFlip \/ RunPending \/ TimerFires
  BY <1>1, ConnectKeeps, DisconnectKeeps, FlipKeeps, HandleFlipKeeps, RunPendingKeeps, TimerKeeps, Zenon
<1>2. CASE LiveSnapshot \/ SnapshotArrives \/ ApplySnapshot \/ RecoveryFails
  BY <1>2, SnapshotKeeps, ArrivalKeeps, ApplyKeeps, RecoveryFailureKeeps, Zenon
<1>3. CASE StreamState \/ ResumeAnswered \/ ResumeFails \/ HubPublish \/ NewStream
  BY <1>3, StateKeeps, AnswerKeeps, ResumeFailureKeeps, HubPublishKeeps, NewStreamKeeps, Zenon
<1>4. CASE AgentWS \/ ConnectedFrame \/ ResyncFrame \/ SocketClosed
  BY <1>4, SocketStepsKeep, ResyncKeeps, ClosingKeeps, Zenon
<1>5. CASE EventFrame \/ EventHandled \/ EventFails
  BY <1>5, EventFrameKeeps, EventHandledKeeps, EventFailsKeeps, Zenon
<1>6. CASE UNCHANGED streamVars
  <2>1. feed' = feed /\ page' = page /\ network' = network
    BY <1>6 DEF streamVars
  <2>2. page \in Pages /\ Sound(page)
    BY PageNow
  <2> QED
    BY <2>1, <2>2, PageGoesOnAsItWas
<1> QED
  BY <1>1, <1>2, <1>3, <1>4, <1>5, <1>6, Zenon DEF StreamNext

LEMMA StreamHolds == StreamSpec => []StreamInv
BY StreamInitHolds, StreamStepKeeps, PTL DEF StreamSpec

\* Whatever is read, awaited or reconnected in between, the page shows every
\* event up to its cursor, and a page that is on has a socket, a timer, a
\* request or a word of the browser to wait for: agent-stream.mjs.
THEOREM ThePageCatchesUp == StreamSpec => []StreamCaughtUp
<1>1. StreamInv => StreamCaughtUp
  <2> SUFFICES ASSUME StreamInv PROVE StreamCaughtUp
    OBVIOUS
  <2>1. Sound(page) /\ (page.on => Attended(page) \/ Promised) /\ network.flips \in Seq(BOOLEAN)
    BY DEF StreamInv, StreamTypes
  <2>2. \A n \in 1..page.cursor.sequence : <<page.cursor.session, n>> \in page.shown
    BY <2>1 DEF Sound, Holds
  <2>3. Attended(page) => WillBeTold
    BY NoSocketIsOne DEF Attended, WillBeTold
  <2>4. Promised => WillBeTold
    <3>1. DOMAIN network.flips = 1..Len(network.flips)
      BY <2>1
    <3>2. ASSUME NEW i \in 1..Len(network.flips), network.flips[i] = TRUE
          PROVE  TRUE \in {network.flips[k] : k \in DOMAIN network.flips}
      BY <3>1, <3>2, Zenon
    <3> QED
      BY <3>2, Zenon DEF Promised, WillBeTold
  <2> QED
    BY <2>1, <2>2, <2>3, <2>4 DEF StreamCaughtUp
<1> QED
  BY StreamHolds, <1>1, PTL

-----------------------------------------------------------------------------
(* The limits of the gateway. The counts of a limiter are those of the      *)
(* leases open and the slots held on it, and a key whose reservations were all granted on      *)
(* figures that held was promised no more than its limit.                    *)

LeaseStates == {"read", "reserve", "generate", "release"}
SlotStates == LeaseStates \cup {"admit", "leave"}
Limiters == [taken : Nat, inFlight : [Keys -> Nat], reserved : [Keys -> Nat]]
CallRows == [pc : {"idle", "routed"} \cup SlotStates, on : 0..Generations, key : Keys \cup {"none"},
             read : Nat, tokens : 0..MonthlyLimit]

\* A call that is routed has a service and a key, and one that has not asked
\* yet has no tokens.
Placed(r) ==
    /\ r \in CallRows
    /\ r.pc # "idle" => r.on \in 1..Generations /\ r.key \in Keys
    /\ r.pc \in {"idle", "routed", "admit", "read"} => r.tokens = 0

LimitTypes ==
    /\ current \in 1..Generations
    /\ limiter \in [1..Generations -> Limiters]
    /\ call \in [Calls -> CallRows] /\ \A c \in Calls : Placed(call[c])
    /\ used \in [Keys -> Nat] /\ excess \in [Keys -> Nat] /\ raced \subseteq Keys

\* The calls of f with a slot on g; with a lease, of a key; those with a reservation; and
\* those of a key whose answer is to come.
Holders(f, g) == {c \in Calls : f[c].pc \in SlotStates /\ f[c].on = g}
KeyLeases(f, g, k) == {c \in Calls : f[c].pc \in LeaseStates /\ f[c].on = g /\ f[c].key = k}
Reserves(f, g, k) == {c \in Calls : f[c].pc \in {"generate", "release"} /\ f[c].on = g /\ f[c].key = k}
Generates(f, k) == {c \in Calls : f[c].pc = "generate" /\ f[c].key = k}

Pile(f, calls) == UNION {{c} \X (1..f[c].tokens) : c \in calls}
Sum(f, calls) == Cardinality(Pile(f, calls))

Counted ==
    \A g \in 1..Generations :
        /\ limiter[g].taken = Cardinality(Holders(call, g))
        /\ \A k \in Keys :
              /\ limiter[g].inFlight[k] = Cardinality(KeyLeases(call, g, k))
              /\ limiter[g].reserved[k] = Sum(call, Reserves(call, g, k))

Allowed == \A k \in Keys \ raced : used[k] + Sum(call, Generates(call, k)) <= MonthlyLimit + excess[k]

LimitInv == LimitTypes /\ Counted /\ Allowed

LEMMA LimitsAreNumbers ==
    /\ MonthlyLimit \in Nat \ {0} /\ Generations \in Nat \ {0} /\ DefaultOutput \in Nat \ {0}
    /\ MaxUse \in Nat /\ Asked \subseteq Nat /\ IsFiniteSet(Calls)
BY GatewayLimitsAssumption DEF GatewayLimitsAssumption

\* Tokens are finitely many, and a call adds its own.
LEMMA PileGrows ==
    ASSUME NEW f, \A c \in Calls : f[c].tokens \in 0..MonthlyLimit,
           NEW calls \in SUBSET Calls, NEW c \in Calls, c \notin calls
    PROVE  Sum(f, calls) \in Nat /\ Sum(f, calls \cup {c}) = Sum(f, calls) + f[c].tokens
<1> DEFINE own == {c} \X (1..f[c].tokens)
           all == Calls \X (1..MonthlyLimit)
<1>1. IsFiniteSet(all)
  <2>1. IsFiniteSet(1..MonthlyLimit)
    <3>1. 1 \in Int /\ MonthlyLimit \in Int
      BY LimitsAreNumbers
    <3> QED
      BY <3>1, FS_Interval, Zenon
  <2> QED
    BY <2>1, LimitsAreNumbers, FS_Product
<1>2. Pile(f, calls) \subseteq all
  BY LimitsAreNumbers DEF Pile
<1>3. IsFiniteSet(Pile(f, calls))
  BY <1>1, <1>2, FS_Subset
<1>4. IsFiniteSet(own) /\ Cardinality(own) = f[c].tokens
  <2>1. f[c].tokens \in Nat
    BY LimitsAreNumbers
  <2>2. PICK n \in Nat : n = f[c].tokens
    BY <2>1
  <2>3. IsFiniteSet(1..n) /\ Cardinality(1..n) = n
    BY FS_Interval
  <2>4. IsFiniteSet({c}) /\ Cardinality({c}) = 1
    BY FS_Singleton
  <2>5. IsFiniteSet({c} \X (1..n)) /\ Cardinality({c} \X (1..n)) = 1 * n
    BY <2>3, <2>4, FS_Product
  <2> QED
    BY <2>2, <2>5
<1>5. Pile(f, calls \cup {c}) = Pile(f, calls) \cup own
  BY Zenon DEF Pile
<1>6. Pile(f, calls) \cap own = {}
  BY DEF Pile
<1> HIDE DEF own, all
<1>7. Cardinality(Pile(f, calls) \cup own) = Cardinality(Pile(f, calls)) + Cardinality(own) - Cardinality(Pile(f, calls) \cap own)
  BY <1>3, <1>4, FS_Union
<1>8. Cardinality(Pile(f, calls)) \in Nat /\ Cardinality({}) = 0
  BY <1>3, FS_CardinalityType, FS_EmptySet
<1>9. f[c].tokens \in Nat
  BY LimitsAreNumbers
<1>10. Cardinality(Pile(f, calls \cup {c})) = Cardinality(Pile(f, calls)) + f[c].tokens
  <2>1. Cardinality(Pile(f, calls \cup {c})) = Cardinality(Pile(f, calls)) + f[c].tokens - 0
    BY <1>4, <1>5, <1>6, <1>7, <1>8, Zenon
  <2> QED
    BY <1>8, <1>9, <2>1
<1> QED
  BY <1>8, <1>10, Zenon DEF Sum

LEMMA PileStays ==
    ASSUME NEW f, NEW h, NEW calls, \A c \in calls : f[c].tokens = h[c].tokens
    PROVE  Sum(f, calls) = Sum(h, calls)
<1>1. Pile(f, calls) = Pile(h, calls)
  BY DEF Pile
<1> QED
  BY <1>1 DEF Sum

\* A set of calls that at most one call enters or leaves.
LEMMA CountMoves ==
    ASSUME NEW S \in SUBSET Calls, NEW T \in SUBSET Calls, NEW c \in Calls, S \ {c} = T \ {c}
    PROVE  \E n \in Nat : /\ Cardinality(S) = n + (IF c \in S THEN 1 ELSE 0)
                          /\ Cardinality(T) = n + (IF c \in T THEN 1 ELSE 0)
<1>1. PICK U : U = S \ {c}
  OBVIOUS
<1>2. U \in SUBSET Calls /\ c \notin U /\ U = T \ {c}
  BY <1>1
<1>3. IsFiniteSet(U)
  BY <1>2, LimitsAreNumbers, FS_Subset
<1>4. Cardinality(U) \in Nat /\ Cardinality(U \cup {c}) = Cardinality(U) + 1
  BY <1>2, <1>3, FS_CardinalityType, FS_AddElement
<1>5. Cardinality(S) = Cardinality(U) + (IF c \in S THEN 1 ELSE 0)
  <2>1. CASE c \in S
    <3>1. S = U \cup {c}
      BY <1>1, <2>1
    <3> QED
      BY <1>4, <2>1, <3>1
  <2>2. CASE c \notin S
    <3>1. S = U
      BY <1>1, <2>2
    <3> QED
      BY <1>4, <2>2, <3>1
  <2> QED
    BY <2>1, <2>2
<1>6. Cardinality(T) = Cardinality(U) + (IF c \in T THEN 1 ELSE 0)
  <2>1. CASE c \in T
    <3>1. T = U \cup {c}
      BY <1>2, <2>1
    <3> QED
      BY <1>4, <2>1, <3>1
  <2>2. CASE c \notin T
    <3>1. T = U
      BY <1>2, <2>2
    <3> QED
      BY <1>4, <2>2, <3>1
  <2> QED
    BY <2>1, <2>2
<1> QED
  BY <1>4, <1>5, <1>6

\* Tokens that differ in those of c alone.
Beside(f, h, c) ==
    \A d \in Calls : /\ f[d].tokens \in 0..MonthlyLimit /\ h[d].tokens \in 0..MonthlyLimit
                     /\ d # c => f[d].tokens = h[d].tokens

LEMMA SumMoves ==
    ASSUME NEW f, NEW h, NEW c \in Calls, Beside(f, h, c),
           NEW S \in SUBSET Calls, NEW T \in SUBSET Calls, S \ {c} = T \ {c}
    PROVE  \E n \in Nat : /\ Sum(f, S) = n + (IF c \in S THEN f[c].tokens ELSE 0)
                          /\ Sum(h, T) = n + (IF c \in T THEN h[c].tokens ELSE 0)
<1>1. PICK U : U = S \ {c}
  OBVIOUS
<1>2. U \in SUBSET Calls /\ c \notin U /\ U = T \ {c}
  BY <1>1
<1>3. Sum(f, U) = Sum(h, U)
  BY <1>2, PileStays DEF Beside
<1>4. /\ Sum(f, U) \in Nat /\ Sum(f, U \cup {c}) = Sum(f, U) + f[c].tokens
      /\ Sum(h, U) \in Nat /\ Sum(h, U \cup {c}) = Sum(h, U) + h[c].tokens
  BY <1>2, PileGrows DEF Beside
<1>5. Sum(f, S) = Sum(f, U) + (IF c \in S THEN f[c].tokens ELSE 0)
  <2>1. CASE c \in S
    <3>1. S = U \cup {c}
      BY <1>1, <2>1
    <3> QED
      BY <1>4, <2>1, <3>1
  <2>2. CASE c \notin S
    <3>1. S = U
      BY <1>1, <2>2
    <3> QED
      BY <1>4, <2>2, <3>1
  <2> QED
    BY <2>1, <2>2
<1>6. Sum(h, T) = Sum(h, U) + (IF c \in T THEN h[c].tokens ELSE 0)
  <2>1. CASE c \in T
    <3>1. T = U \cup {c}
      BY <1>2, <2>1
    <3> QED
      BY <1>4, <2>1, <3>1
  <2>2. CASE c \notin T
    <3>1. T = U
      BY <1>2, <2>2
    <3> QED
      BY <1>4, <2>2, <3>1
  <2> QED
    BY <2>1, <2>2
<1> QED
  BY <1>3, <1>4, <1>5, <1>6

\* What one call, with the row r, counts for.
SlotOf(r, g) == IF r.pc \in SlotStates /\ r.on = g THEN 1 ELSE 0
KeyLeaseOf(r, g, k) == IF r.pc \in LeaseStates /\ r.on = g /\ r.key = k THEN 1 ELSE 0
ReserveOf(r, g, k) == IF r.pc \in {"generate", "release"} /\ r.on = g /\ r.key = k THEN r.tokens ELSE 0
GenerateOf(r, k) == IF r.pc = "generate" /\ r.key = k THEN r.tokens ELSE 0

LEMMA RowFields ==
    ASSUME NEW r, Placed(r)
    PROVE  /\ r.pc \in {"idle", "routed"} \cup SlotStates /\ r.tokens \in 0..MonthlyLimit /\ r.tokens \in Nat
           /\ r.read \in Nat
BY LimitsAreNumbers DEF Placed, CallRows

\* The step of one call: its row becomes r.
Becomes(c, r) == call' = [call EXCEPT ![c] = r]

LEMMA CallMoves ==
    ASSUME LimitTypes, NEW c \in Calls, NEW r, Placed(r), Becomes(c, r)
    PROVE  /\ call' \in [Calls -> CallRows] /\ \A d \in Calls : Placed(call'[d])
           /\ call'[c] = r /\ \A d \in Calls : d # c => call'[d] = call[d]
BY DEF LimitTypes, Placed, Becomes

LEMMA HoldersMove ==
    ASSUME LimitTypes, NEW c \in Calls, NEW r, Placed(r), Becomes(c, r), NEW g
    PROVE  \E n \in Nat : /\ Cardinality(Holders(call, g)) = n + SlotOf(call[c], g)
                           /\ Cardinality(Holders(call', g)) = n + SlotOf(r, g)
<1> DEFINE f == call
           h == call'
<1>1. h[c] = r /\ \A d \in Calls : d # c => h[d] = f[d]
  BY CallMoves, Zenon
<1> HIDE DEF f, h
<1>2. \E n \in Nat : /\ Cardinality(Holders(f, g)) = n + (IF c \in Holders(f, g) THEN 1 ELSE 0)
                     /\ Cardinality(Holders(h, g)) = n + (IF c \in Holders(h, g) THEN 1 ELSE 0)
  <2>1. Holders(f, g) \in SUBSET Calls /\ Holders(h, g) \in SUBSET Calls /\ Holders(f, g) \ {c} = Holders(h, g) \ {c}
    BY <1>1 DEF Holders
  <2> QED
    BY <2>1, CountMoves
<1>3. /\ SlotOf(f[c], g) = (IF c \in Holders(f, g) THEN 1 ELSE 0)
      /\ SlotOf(r, g) = (IF c \in Holders(h, g) THEN 1 ELSE 0)
  BY <1>1 DEF Holders, SlotOf
<1> QED
  BY <1>2, <1>3, Zenon DEF f, h

LEMMA LeasesMove ==
    ASSUME LimitTypes, NEW c \in Calls, NEW r, Placed(r), Becomes(c, r), NEW g, NEW k
    PROVE  \E n \in Nat : /\ Cardinality(KeyLeases(call, g, k)) = n + KeyLeaseOf(call[c], g, k)
                           /\ Cardinality(KeyLeases(call', g, k)) = n + KeyLeaseOf(r, g, k)
<1> DEFINE f == call
           h == call'
<1>1. h[c] = r /\ \A d \in Calls : d # c => h[d] = f[d]
  BY CallMoves, Zenon
<1> HIDE DEF f, h
<1>2. \E n \in Nat : /\ Cardinality(KeyLeases(f, g, k)) = n + (IF c \in KeyLeases(f, g, k) THEN 1 ELSE 0)
                     /\ Cardinality(KeyLeases(h, g, k)) = n + (IF c \in KeyLeases(h, g, k) THEN 1 ELSE 0)
  <2>1. /\ KeyLeases(f, g, k) \in SUBSET Calls /\ KeyLeases(h, g, k) \in SUBSET Calls
        /\ KeyLeases(f, g, k) \ {c} = KeyLeases(h, g, k) \ {c}
    BY <1>1 DEF KeyLeases
  <2> QED
    BY <2>1, CountMoves
<1>3. /\ KeyLeaseOf(f[c], g, k) = (IF c \in KeyLeases(f, g, k) THEN 1 ELSE 0)
      /\ KeyLeaseOf(r, g, k) = (IF c \in KeyLeases(h, g, k) THEN 1 ELSE 0)
  BY <1>1 DEF KeyLeases, KeyLeaseOf
<1> QED
  BY <1>2, <1>3, Zenon DEF f, h

LEMMA ReservesMove ==
    ASSUME LimitTypes, NEW c \in Calls, NEW r, Placed(r), Becomes(c, r), NEW g, NEW k
    PROVE  /\ \E n \in Nat : /\ Sum(call, Reserves(call, g, k)) = n + ReserveOf(call[c], g, k)
                             /\ Sum(call', Reserves(call', g, k)) = n + ReserveOf(r, g, k)
           /\ \E n \in Nat : /\ Sum(call, Generates(call, k)) = n + GenerateOf(call[c], k)
                             /\ Sum(call', Generates(call', k)) = n + GenerateOf(r, k)
<1> DEFINE f == call
           h == call'
<1>1. h[c] = r /\ \A d \in Calls : d # c => h[d] = f[d]
  BY CallMoves, Zenon
<1>2. \A d \in Calls : f[d].tokens \in 0..MonthlyLimit /\ h[d].tokens \in 0..MonthlyLimit
  <2>1. \A d \in Calls : Placed(f[d]) /\ Placed(h[d])
    BY CallMoves, Zenon DEF LimitTypes
  <2> QED
    BY <2>1, RowFields, Zenon
<1> HIDE DEF f, h
<1>3. Beside(f, h, c)
  BY <1>1, <1>2 DEF Beside
<1>4. \E n \in Nat : /\ Sum(f, Reserves(f, g, k)) = n + (IF c \in Reserves(f, g, k) THEN f[c].tokens ELSE 0)
                     /\ Sum(h, Reserves(h, g, k)) = n + (IF c \in Reserves(h, g, k) THEN h[c].tokens ELSE 0)
  <2> DEFINE S == Reserves(f, g, k)
             T == Reserves(h, g, k)
  <2>1. S \in SUBSET Calls /\ T \in SUBSET Calls /\ S \ {c} = T \ {c}
    BY <1>1 DEF Reserves
  <2> HIDE DEF S, T
  <2>2. \E n \in Nat : /\ Sum(f, S) = n + (IF c \in S THEN f[c].tokens ELSE 0)
                       /\ Sum(h, T) = n + (IF c \in T THEN h[c].tokens ELSE 0)
    BY <1>3, <2>1, SumMoves
  <2> QED
    BY <2>2, Zenon DEF S, T
<1>5. \E n \in Nat : /\ Sum(f, Generates(f, k)) = n + (IF c \in Generates(f, k) THEN f[c].tokens ELSE 0)
                     /\ Sum(h, Generates(h, k)) = n + (IF c \in Generates(h, k) THEN h[c].tokens ELSE 0)
  <2> DEFINE S == Generates(f, k)
             T == Generates(h, k)
  <2>1. S \in SUBSET Calls /\ T \in SUBSET Calls /\ S \ {c} = T \ {c}
    BY <1>1 DEF Generates
  <2> HIDE DEF S, T
  <2>2. \E n \in Nat : /\ Sum(f, S) = n + (IF c \in S THEN f[c].tokens ELSE 0)
                       /\ Sum(h, T) = n + (IF c \in T THEN h[c].tokens ELSE 0)
    BY <1>3, <2>1, SumMoves
  <2> QED
    BY <2>2, Zenon DEF S, T
<1>6. /\ ReserveOf(f[c], g, k) = (IF c \in Reserves(f, g, k) THEN f[c].tokens ELSE 0)
      /\ ReserveOf(r, g, k) = (IF c \in Reserves(h, g, k) THEN h[c].tokens ELSE 0)
      /\ GenerateOf(f[c], k) = (IF c \in Generates(f, k) THEN f[c].tokens ELSE 0)
      /\ GenerateOf(r, k) = (IF c \in Generates(h, k) THEN h[c].tokens ELSE 0)
  BY <1>1 DEF Reserves, Generates, ReserveOf, GenerateOf
<1> QED
  BY <1>4, <1>5, <1>6, Zenon DEF f, h

\* A step of one call whose limiter accounts for what the call counts for.
Accounts(c, r) ==
    /\ limiter' \in [1..Generations -> Limiters]
    /\ \A g \in 1..Generations :
          /\ limiter'[g].taken + SlotOf(call[c], g) = limiter[g].taken + SlotOf(r, g)
          /\ \A k \in Keys :
                /\ limiter'[g].inFlight[k] + KeyLeaseOf(call[c], g, k) = limiter[g].inFlight[k] + KeyLeaseOf(r, g, k)
                /\ limiter'[g].reserved[k] + ReserveOf(call[c], g, k) = limiter[g].reserved[k] + ReserveOf(r, g, k)

LEMMA CountedStays ==
    ASSUME LimitInv, NEW c \in Calls, NEW r, Placed(r), Becomes(c, r), Accounts(c, r)
    PROVE  Counted'
<1>1. LimitTypes /\ Counted
  BY DEF LimitInv
<1>2. limiter' \in [1..Generations -> Limiters]
  BY Zenon DEF Accounts
<1>3. ASSUME NEW g \in 1..Generations, NEW k \in Keys
      PROVE  /\ limiter'[g].taken = Cardinality(Holders(call', g))
             /\ limiter'[g].inFlight[k] = Cardinality(KeyLeases(call', g, k))
             /\ limiter'[g].reserved[k] = Sum(call', Reserves(call', g, k))
  <2>1. /\ limiter[g].taken = Cardinality(Holders(call, g))
        /\ limiter[g].inFlight[k] = Cardinality(KeyLeases(call, g, k))
        /\ limiter[g].reserved[k] = Sum(call, Reserves(call, g, k))
    BY <1>1 DEF Counted
  <2>2. /\ limiter'[g].taken \in Nat /\ limiter'[g].inFlight[k] \in Nat /\ limiter'[g].reserved[k] \in Nat
    <3>1. limiter'[g] \in Limiters
      BY <1>2, Zenon
    <3> QED
      BY <3>1 DEF Limiters
  <2>3. PICK n1 \in Nat : /\ Cardinality(Holders(call, g)) = n1 + SlotOf(call[c], g)
                          /\ Cardinality(Holders(call', g)) = n1 + SlotOf(r, g)
    BY <1>1, HoldersMove, Zenon
  <2>4. PICK n2 \in Nat : /\ Cardinality(KeyLeases(call, g, k)) = n2 + KeyLeaseOf(call[c], g, k)
                          /\ Cardinality(KeyLeases(call', g, k)) = n2 + KeyLeaseOf(r, g, k)
    BY <1>1, LeasesMove
  <2>5. PICK n3 \in Nat : /\ Sum(call, Reserves(call, g, k)) = n3 + ReserveOf(call[c], g, k)
                          /\ Sum(call', Reserves(call', g, k)) = n3 + ReserveOf(r, g, k)
    BY <1>1, ReservesMove
  <2>6. /\ SlotOf(call[c], g) \in Nat /\ SlotOf(r, g) \in Nat
        /\ KeyLeaseOf(call[c], g, k) \in Nat /\ KeyLeaseOf(r, g, k) \in Nat
        /\ ReserveOf(call[c], g, k) \in Nat /\ ReserveOf(r, g, k) \in Nat
    <3>1. call[c].tokens \in Nat /\ r.tokens \in Nat
      BY <1>1, RowFields DEF LimitTypes
    <3> QED
      BY <3>1 DEF SlotOf, KeyLeaseOf, ReserveOf
  <2>10. /\ limiter'[g].taken + SlotOf(call[c], g) = limiter[g].taken + SlotOf(r, g)
         /\ limiter'[g].inFlight[k] + KeyLeaseOf(call[c], g, k) = limiter[g].inFlight[k] + KeyLeaseOf(r, g, k)
         /\ limiter'[g].reserved[k] + ReserveOf(call[c], g, k) = limiter[g].reserved[k] + ReserveOf(r, g, k)
    BY Zenon DEF Accounts
  <2>7. limiter'[g].taken = Cardinality(Holders(call', g))
    BY <2>1, <2>2, <2>3, <2>6, <2>10
  <2>8. limiter'[g].inFlight[k] = Cardinality(KeyLeases(call', g, k))
    BY <2>1, <2>2, <2>4, <2>6, <2>10
  <2>9. limiter'[g].reserved[k] = Sum(call', Reserves(call', g, k))
    BY <2>1, <2>2, <2>5, <2>6, <2>10
  <2> QED
    BY <2>7, <2>8, <2>9
<1>4. ASSUME NEW g \in 1..Generations
      PROVE  limiter'[g].taken = Cardinality(Holders(call', g))
  <2>1. limiter[g].taken = Cardinality(Holders(call, g))
    BY <1>1 DEF Counted
  <2>2. limiter'[g].taken \in Nat
    <3>1. limiter'[g] \in Limiters
      BY <1>2, Zenon
    <3> QED
      BY <3>1 DEF Limiters
  <2>3. PICK n1 \in Nat : /\ Cardinality(Holders(call, g)) = n1 + SlotOf(call[c], g)
                          /\ Cardinality(Holders(call', g)) = n1 + SlotOf(r, g)
    BY <1>1, HoldersMove, Zenon
  <2>4. SlotOf(call[c], g) \in Nat /\ SlotOf(r, g) \in Nat
    BY DEF SlotOf
  <2>5. limiter'[g].taken + SlotOf(call[c], g) = limiter[g].taken + SlotOf(r, g)
    BY Zenon DEF Accounts
  <2> QED
    BY <2>1, <2>2, <2>3, <2>4, <2>5
<1> QED
  BY <1>3, <1>4 DEF Counted

\* Nor is more promised or used than before, but for what is excess.
Moderates(c, r) ==
    /\ used' \in [Keys -> Nat] /\ excess' \in [Keys -> Nat] /\ raced \subseteq raced'
    /\ \A k \in Keys : used'[k] + GenerateOf(r, k) + excess[k] <= used[k] + GenerateOf(call[c], k) + excess'[k]

LEMMA AllowedStays ==
    ASSUME LimitInv, NEW c \in Calls, NEW r, Placed(r), Becomes(c, r), Moderates(c, r)
    PROVE  Allowed'
<1>1. LimitTypes /\ Allowed
  BY DEF LimitInv
<1>2. ASSUME NEW k \in Keys \ raced'
      PROVE  used'[k] + Sum(call', Generates(call', k)) <= MonthlyLimit + excess'[k]
  <2>1. used[k] + Sum(call, Generates(call, k)) <= MonthlyLimit + excess[k]
    BY <1>1, <1>2 DEF Allowed, Moderates
  <2>2. PICK n \in Nat : /\ Sum(call, Generates(call, k)) = n + GenerateOf(call[c], k)
                         /\ Sum(call', Generates(call', k)) = n + GenerateOf(r, k)
    BY <1>1, ReservesMove, Zenon
  <2>3. used[k] \in Nat /\ used'[k] \in Nat /\ excess[k] \in Nat /\ excess'[k] \in Nat /\ MonthlyLimit \in Nat
    BY <1>1, LimitsAreNumbers DEF LimitTypes, Moderates
  <2>4. GenerateOf(call[c], k) \in Nat /\ GenerateOf(r, k) \in Nat
    BY <1>1, RowFields DEF LimitTypes, GenerateOf
  <2>5. used'[k] + GenerateOf(r, k) + excess[k] <= used[k] + GenerateOf(call[c], k) + excess'[k]
    BY <1>2, Zenon DEF Moderates
  <2> QED
    BY <2>1, <2>2, <2>3, <2>4, <2>5
<1> QED
  BY <1>2 DEF Allowed

LEMMA LimitGoesOn ==
    ASSUME LimitInv, NEW c \in Calls, NEW r, Placed(r), Becomes(c, r), Accounts(c, r), Moderates(c, r),
           current' = current, raced' \subseteq Keys
    PROVE  LimitInv'
<1>1. LimitTypes'
  <2>1. call' \in [Calls -> CallRows] /\ \A d \in Calls : Placed(call'[d])
    BY CallMoves, Zenon DEF LimitInv
  <2> QED
    BY <2>1 DEF LimitInv, LimitTypes, Accounts, Moderates
<1> QED
  BY <1>1, CountedStays, AllowedStays DEF LimitInv

\* A step after which the call counts for what it counted for.
Equal(r, s) ==
    /\ \A g \in 1..Generations : SlotOf(r, g) = SlotOf(s, g)
    /\ \A g \in 1..Generations, k \in Keys :
          KeyLeaseOf(r, g, k) = KeyLeaseOf(s, g, k) /\ ReserveOf(r, g, k) = ReserveOf(s, g, k)
    /\ \A k \in Keys : GenerateOf(r, k) = GenerateOf(s, k)

LEMMA QuietMoveKeeps ==
    ASSUME LimitInv, NEW c \in Calls, NEW r, Placed(r), Becomes(c, r), Equal(call[c], r),
           current' = current, limiter' = limiter, used' = used, excess' = excess, raced' = raced
    PROVE  LimitInv'
<1>1. LimitTypes
  BY DEF LimitInv
<1>3. Accounts(c, r)
  <2>1. limiter' \in [1..Generations -> Limiters]
    BY <1>1 DEF LimitTypes
  <2>2. ASSUME NEW g \in 1..Generations
        PROVE  limiter'[g].taken + SlotOf(call[c], g) = limiter[g].taken + SlotOf(r, g)
    BY Zenon DEF Equal
  <2>3. ASSUME NEW g \in 1..Generations, NEW k \in Keys
        PROVE  /\ limiter'[g].inFlight[k] + KeyLeaseOf(call[c], g, k) = limiter[g].inFlight[k] + KeyLeaseOf(r, g, k)
               /\ limiter'[g].reserved[k] + ReserveOf(call[c], g, k) = limiter[g].reserved[k] + ReserveOf(r, g, k)
    BY Zenon DEF Equal
  <2> QED
    BY <2>1, <2>2, <2>3 DEF Accounts
<1>4. Moderates(c, r)
  <2>1. ASSUME NEW k \in Keys
        PROVE  used'[k] + GenerateOf(r, k) + excess[k] <= used[k] + GenerateOf(call[c], k) + excess'[k]
    <3>1. GenerateOf(call[c], k) = GenerateOf(r, k)
      BY Zenon DEF Equal
    <3>2. GenerateOf(r, k) \in Nat /\ used[k] \in Nat /\ excess[k] \in Nat
      BY <1>1, RowFields DEF LimitTypes, GenerateOf
    <3> QED
      BY <3>1, <3>2
  <2> QED
    BY <1>1, <2>1 DEF Moderates, LimitTypes
<1>5. raced' \subseteq Keys
  BY <1>1 DEF LimitTypes
<1> QED
  BY <1>3, <1>4, <1>5, LimitGoesOn

LEMMA RowNow ==
    ASSUME LimitInv, NEW c \in Calls
    PROVE  /\ Placed(call[c]) /\ call[c] \in CallRows /\ LimitTypes
           /\ call[c].pc # "idle" => call[c].on \in 1..Generations /\ call[c].key \in Keys
           /\ used \in [Keys -> Nat] /\ excess \in [Keys -> Nat] /\ raced \subseteq Keys
BY DEF LimitInv, LimitTypes, Placed

LEMMA NoCallIsPlaced == Placed(NoCall) /\ NoCall.pc = "idle" /\ NoCall.tokens = 0
BY LimitsAreNumbers DEF NoCall, Placed, CallRows

LEMMA RouteKeeps == ASSUME LimitInv, NEW c \in Calls, Route(c) PROVE LimitInv'
<1>1. PICK k \in Keys : call' = [call EXCEPT ![c] = [NoCall EXCEPT !.pc = "routed", !.on = current, !.key = k]]
  BY Zenon DEF Route
<1>2. /\ call[c].pc = "idle" /\ current' = current /\ limiter' = limiter /\ used' = used /\ excess' = excess
      /\ raced' = raced
  BY Zenon DEF Route
<1>3. current \in 1..Generations /\ Placed(call[c])
  BY DEF LimitInv, LimitTypes
<1>4. PICK r : r = [NoCall EXCEPT !.pc = "routed", !.on = current, !.key = k]
  OBVIOUS
<1>5. Placed(r) /\ r.pc = "routed"
  <2>1. r = [pc |-> "routed", on |-> current, key |-> k, read |-> 0, tokens |-> 0]
    BY <1>4 DEF NoCall
  <2>2. current \in 0..Generations /\ 0 \in 0..MonthlyLimit
    BY <1>3, LimitsAreNumbers
  <2> QED
    BY <1>3, <2>1, <2>2 DEF Placed, CallRows
<1>6. Becomes(c, r)
  BY <1>1, <1>4, Zenon DEF Becomes
<1>7. Equal(call[c], r)
  BY <1>2, <1>5 DEF Equal, SlotOf, KeyLeaseOf, ReserveOf, GenerateOf, LeaseStates, SlotStates
<1> QED
  BY <1>2, <1>5, <1>6, <1>7, QuietMoveKeeps

\* Before it has reserved anything a call is refused.
LEMMA RefusalKeeps ==
    ASSUME LimitInv, NEW c \in Calls, call[c].pc = "read", call' = [call EXCEPT ![c].pc = "release"],
           current' = current, limiter' = limiter, used' = used, excess' = excess, raced' = raced
    PROVE  LimitInv'
<1>1. Placed(call[c]) /\ call[c] \in CallRows /\ call \in [Calls -> CallRows]
  BY RowNow DEF LimitTypes
<1>2. PICK r : r = [call[c] EXCEPT !.pc = "release"]
  OBVIOUS
<1>3. Becomes(c, r)
  BY <1>1, <1>2, Zenon DEF Becomes
<1>4. /\ Placed(r) /\ r.pc = "release" /\ r.tokens = 0 /\ r.on = call[c].on /\ r.key = call[c].key
  BY <1>1, <1>2 DEF Placed, CallRows, LeaseStates, SlotStates
<1>5. Equal(call[c], r)
  BY <1>4 DEF Equal, SlotOf, KeyLeaseOf, ReserveOf, GenerateOf, LeaseStates, SlotStates
<1> QED
  BY <1>3, <1>4, <1>5, QuietMoveKeeps

LEMMA ReadUsageKeeps == ASSUME LimitInv, NEW c \in Calls, ReadUsage(c) PROVE LimitInv'
<1> DEFINE remaining == MonthlyLimit - used[call[c].key]
<1>1. /\ call[c].pc = "read" /\ current' = current /\ limiter' = limiter /\ used' = used /\ excess' = excess
      /\ raced' = raced
  BY Zenon DEF ReadUsage
<1>2. Placed(call[c]) /\ call[c] \in CallRows /\ call \in [Calls -> CallRows] /\ used[call[c].key] \in Nat
  BY <1>1, RowNow DEF LimitTypes
<1>3. CASE call' = [call EXCEPT ![c].pc = "release"]
  BY <1>1, <1>3, RefusalKeeps
<1>4. CASE \E asked \in Asked :
              /\ remaining > 0 /\ asked <= remaining
              /\ call' = [call EXCEPT ![c].pc = "reserve", ![c].read = used[call[c].key],
                             ![c].tokens = IF asked > 0 THEN asked
                                           ELSE IF DefaultOutput > remaining THEN remaining ELSE DefaultOutput]
  <2>1. PICK asked \in Asked :
              /\ remaining > 0 /\ asked <= remaining
              /\ call' = [call EXCEPT ![c].pc = "reserve", ![c].read = used[call[c].key],
                             ![c].tokens = IF asked > 0 THEN asked
                                           ELSE IF DefaultOutput > remaining THEN remaining ELSE DefaultOutput]
    BY <1>4
  <2>2. PICK n \in 0..MonthlyLimit :
              n = IF asked > 0 THEN asked ELSE IF DefaultOutput > remaining THEN remaining ELSE DefaultOutput
    BY <1>2, <2>1, LimitsAreNumbers
  <2>3. PICK r : r = [call[c] EXCEPT !.pc = "reserve", !.read = used[call[c].key], !.tokens = n]
    OBVIOUS
  <2>4. call' = [call EXCEPT ![c] = r]
    BY <1>2, <2>1, <2>2, <2>3
  <2>5. Becomes(c, r)
    BY <2>4 DEF Becomes
  <2>6. Placed(r) /\ r.pc = "reserve" /\ r.on = call[c].on /\ r.key = call[c].key
    BY <1>1, <1>2, <2>3 DEF Placed, CallRows, LeaseStates, SlotStates
  <2>7. Equal(call[c], r)
    BY <1>1, <2>6 DEF Equal, SlotOf, KeyLeaseOf, ReserveOf, GenerateOf, LeaseStates, SlotStates
  <2> QED
    BY <1>1, <2>5, <2>6, <2>7, QuietMoveKeeps
<1> QED
  BY <1>3, <1>4, Zenon DEF ReadUsage

\* What a limiter holds of one key is changed.
LEMMA FigureIsSet ==
    ASSUME NEW f \in [Keys -> Nat], NEW k \in Keys, NEW n \in Nat, NEW h, h = [f EXCEPT ![k] = n]
    PROVE  h \in [Keys -> Nat] /\ h[k] = n /\ \A other \in Keys : other # k => h[other] = f[other]
OBVIOUS

\* A step of a call that changes what its limiter holds of its key.
Refilled(g, row) == limiter' = [limiter EXCEPT ![g] = row]

LEMMA LimiterAccounts ==
    ASSUME LimitTypes, NEW c \in Calls, NEW r, Placed(r), NEW g \in 1..Generations, NEW k \in Keys,
           call[c].on = g, call[c].key = k, r.pc = "idle" \/ (r.on = g /\ r.key = k),
           NEW row \in Limiters, Refilled(g, row),
           row.taken + SlotOf(call[c], g) = limiter[g].taken + SlotOf(r, g),
           row.inFlight[k] + KeyLeaseOf(call[c], g, k) = limiter[g].inFlight[k] + KeyLeaseOf(r, g, k),
           row.reserved[k] + ReserveOf(call[c], g, k) = limiter[g].reserved[k] + ReserveOf(r, g, k),
           \A other \in Keys : other # k => /\ row.inFlight[other] = limiter[g].inFlight[other]
                                            /\ row.reserved[other] = limiter[g].reserved[other]
    PROVE  Accounts(c, r)
<1>1. limiter \in [1..Generations -> Limiters]
  BY DEF LimitTypes
<1>2. limiter' \in [1..Generations -> Limiters] /\ limiter'[g] = row
  BY <1>1 DEF Refilled
<1>3. \A h \in 1..Generations : h # g => limiter'[h] = limiter[h]
  BY <1>1 DEF Refilled
<1>4. ASSUME NEW h \in 1..Generations
      PROVE  limiter'[h].taken + SlotOf(call[c], h) = limiter[h].taken + SlotOf(r, h)
  <2>1. h = g \/ (SlotOf(call[c], h) = 0 /\ SlotOf(r, h) = 0)
    BY DEF SlotOf, LeaseStates, SlotStates
  <2> QED
    BY <1>2, <1>3, <2>1
<1>5. ASSUME NEW h \in 1..Generations, NEW other \in Keys
      PROVE  /\ limiter'[h].inFlight[other] + KeyLeaseOf(call[c], h, other)
                   = limiter[h].inFlight[other] + KeyLeaseOf(r, h, other)
             /\ limiter'[h].reserved[other] + ReserveOf(call[c], h, other)
                   = limiter[h].reserved[other] + ReserveOf(r, h, other)
  <2>1. (h = g /\ other = k) \/ (/\ KeyLeaseOf(call[c], h, other) = 0 /\ KeyLeaseOf(r, h, other) = 0
                                 /\ ReserveOf(call[c], h, other) = 0 /\ ReserveOf(r, h, other) = 0)
    BY DEF KeyLeaseOf, ReserveOf, LeaseStates, SlotStates
  <2>2. CASE h = g /\ other = k
    BY <1>2, <2>2
  <2>3. CASE h = g /\ other # k
    BY <1>2, <2>1, <2>3
  <2>4. CASE h # g
    BY <1>3, <2>1, <2>4
  <2> QED
    BY <2>2, <2>3, <2>4
<1> QED
  BY <1>2, <1>4, <1>5 DEF Accounts

\* A step of a call that is promised nothing more and uses nothing.
LEMMA NothingPromised ==
    ASSUME LimitInv, NEW c \in Calls, NEW r, Placed(r), r.pc # "generate", used' = used, excess' = excess, raced' = raced
    PROVE  Moderates(c, r) /\ raced' \subseteq Keys
<1>1. LimitTypes /\ Placed(call[c])
  BY RowNow
<1>2. ASSUME NEW k \in Keys
      PROVE  used'[k] + GenerateOf(r, k) + excess[k] <= used[k] + GenerateOf(call[c], k) + excess'[k]
  <2>1. GenerateOf(r, k) = 0 /\ GenerateOf(call[c], k) \in Nat
    BY <1>1, RowFields DEF GenerateOf
  <2>2. used[k] \in Nat /\ excess[k] \in Nat
    BY <1>1 DEF LimitTypes
  <2> QED
    BY <2>1, <2>2
<1> QED
  BY <1>1, <1>2 DEF Moderates, LimitTypes

\* What the counts of a limiter say of a call with a slot or a lease on it.
LEMMA HeldIsCounted ==
    ASSUME LimitInv, NEW c \in Calls, NEW g \in 1..Generations, NEW k \in Keys, call[c].on = g, call[c].key = k
    PROVE  /\ call[c].pc \in SlotStates => limiter[g].taken > 0
           /\ call[c].pc = "release" => limiter[g].inFlight[k] > 0 /\ limiter[g].reserved[k] >= call[c].tokens
<1>1. LimitTypes /\ Placed(NoCall)
  BY NoCallIsPlaced DEF LimitInv
<1>2. /\ limiter[g].taken = Cardinality(Holders(call, g)) /\ limiter[g].inFlight[k] = Cardinality(KeyLeases(call, g, k))
      /\ limiter[g].reserved[k] = Sum(call, Reserves(call, g, k))
  BY DEF LimitInv, Counted
<1>3. \A d \in Calls : call[d].tokens \in 0..MonthlyLimit
  BY <1>1, RowFields DEF LimitTypes
<1>4. /\ call[c].pc \in SlotStates => c \in Holders(call, g)
      /\ call[c].pc = "release" => c \in KeyLeases(call, g, k) /\ c \in Reserves(call, g, k)
  BY DEF Holders, KeyLeases, Reserves, LeaseStates, SlotStates
<1>5. PICK n \in Nat : Cardinality(Holders(call, g)) = n + (IF c \in Holders(call, g) THEN 1 ELSE 0)
  <2>1. Holders(call, g) \in SUBSET Calls
    BY DEF Holders
  <2> QED
    BY <2>1, CountMoves
<1>6. PICK m \in Nat : Cardinality(KeyLeases(call, g, k)) = m + (IF c \in KeyLeases(call, g, k) THEN 1 ELSE 0)
  <2>1. KeyLeases(call, g, k) \in SUBSET Calls
    BY DEF KeyLeases
  <2> QED
    BY <2>1, CountMoves
<1>7. PICK s \in Nat : Sum(call, Reserves(call, g, k)) = s + (IF c \in Reserves(call, g, k) THEN call[c].tokens ELSE 0)
  <2>1. Reserves(call, g, k) \in SUBSET Calls /\ Beside(call, call, c)
    BY <1>3 DEF Reserves, Beside
  <2> QED
    BY <2>1, SumMoves
<1>8. call[c].tokens \in Nat
  BY <1>3, LimitsAreNumbers
<1> QED
  BY <1>2, <1>4, <1>5, <1>6, <1>7, <1>8

\* A step of a call that takes or gives back a slot and nothing else.
SlotsAre(g, t) == limiter' = [limiter EXCEPT ![g].taken = t]

LEMMA SlotMoves ==
    ASSUME LimitInv, NEW c \in Calls, NEW r, Placed(r), Becomes(c, r), r.pc # "generate",
           NEW g \in 1..Generations, NEW k \in Keys, call[c].on = g, call[c].key = k,
           r.pc = "idle" \/ (r.on = g /\ r.key = k),
           NEW t \in Nat, SlotsAre(g, t),
           t + SlotOf(call[c], g) = limiter[g].taken + SlotOf(r, g),
           KeyLeaseOf(call[c], g, k) = KeyLeaseOf(r, g, k), ReserveOf(call[c], g, k) = ReserveOf(r, g, k),
           current' = current, used' = used, excess' = excess, raced' = raced
    PROVE  LimitInv'
<1>1. LimitTypes /\ limiter[g] \in Limiters /\ limiter \in [1..Generations -> Limiters]
  BY DEF LimitInv, LimitTypes
<1>2. PICK old \in Limiters : old = limiter[g]
  BY <1>1
<1>3. PICK row : row = [old EXCEPT !.taken = t]
  OBVIOUS
<1>4. row \in Limiters /\ row.taken = t /\ row.inFlight = old.inFlight /\ row.reserved = old.reserved
  BY <1>2, <1>3 DEF Limiters
<1>5. Refilled(g, row)
  BY <1>1, <1>2, <1>3 DEF Refilled, SlotsAre
<1>6. /\ row.taken + SlotOf(call[c], g) = limiter[g].taken + SlotOf(r, g)
      /\ row.inFlight[k] + KeyLeaseOf(call[c], g, k) = limiter[g].inFlight[k] + KeyLeaseOf(r, g, k)
      /\ row.reserved[k] + ReserveOf(call[c], g, k) = limiter[g].reserved[k] + ReserveOf(r, g, k)
      /\ \A other \in Keys : other # k => /\ row.inFlight[other] = limiter[g].inFlight[other]
                                          /\ row.reserved[other] = limiter[g].reserved[other]
  BY <1>2, <1>4
<1>7. Accounts(c, r)
  BY <1>1, <1>4, <1>5, <1>6, LimiterAccounts
<1>8. Moderates(c, r) /\ raced' \subseteq Keys
  BY NothingPromised
<1> QED
  BY <1>7, <1>8, LimitGoesOn

LEMMA AcquireGlobalKeeps == ASSUME LimitInv, NEW c \in Calls, AcquireGlobal(c) PROVE LimitInv'
<1>0. PICK g, k : g = call[c].on /\ k = call[c].key
  OBVIOUS
<1>1. call[c].pc = "routed" /\ current' = current /\ used' = used /\ excess' = excess /\ raced' = raced
  BY Zenon DEF AcquireGlobal
<1>2. Placed(call[c]) /\ call[c] \in CallRows /\ call \in [Calls -> CallRows] /\ g \in 1..Generations /\ k \in Keys /\ LimitTypes
  BY <1>0, <1>1, RowNow DEF LimitTypes
<1>3. CASE call' = [call EXCEPT ![c] = NoCall] /\ limiter' = limiter
  <2>1. Becomes(c, NoCall)
    BY <1>3, Zenon DEF Becomes
  <2>2. Equal(call[c], NoCall)
    BY <1>1, NoCallIsPlaced DEF Equal, SlotOf, KeyLeaseOf, ReserveOf, GenerateOf, LeaseStates, SlotStates
  <2> QED
    BY <1>1, <1>3, <2>1, <2>2, NoCallIsPlaced, QuietMoveKeeps
<1>4. CASE limiter' = [limiter EXCEPT ![g].taken = limiter[g].taken + 1] /\ call' = [call EXCEPT ![c].pc = "admit"]
  <2>1. PICK r : r = [call[c] EXCEPT !.pc = "admit"]
    OBVIOUS
  <2>2. Becomes(c, r)
    BY <1>2, <1>4, <2>1, Zenon DEF Becomes
  <2>3. Placed(r) /\ r.pc = "admit" /\ r.on = g /\ r.key = k
    BY <1>0, <1>1, <1>2, <2>1 DEF Placed, CallRows, LeaseStates, SlotStates
  <2>4. limiter[g].taken \in Nat
    BY <1>2 DEF LimitTypes, Limiters
  <2>5. PICK t \in Nat : t = limiter[g].taken + 1
    BY <2>4
  <2>6. /\ SlotOf(call[c], g) = 0 /\ SlotOf(r, g) = 1
        /\ KeyLeaseOf(call[c], g, k) = KeyLeaseOf(r, g, k) /\ ReserveOf(call[c], g, k) = ReserveOf(r, g, k)
    BY <1>0, <1>1, <2>3 DEF SlotOf, KeyLeaseOf, ReserveOf, LeaseStates, SlotStates
  <2>7. t + SlotOf(call[c], g) = limiter[g].taken + SlotOf(r, g) /\ SlotsAre(g, t)
    BY <1>4, <2>4, <2>5, <2>6 DEF SlotsAre
  <2> QED
    BY <1>0, <1>1, <1>2, <2>2, <2>3, <2>6, <2>7, SlotMoves
<1> QED
  BY <1>0, <1>3, <1>4, Zenon DEF AcquireGlobal

\* A call gives its slot back, and is over.
LEMMA SlotIsGivenBack ==
    ASSUME LimitInv, NEW c \in Calls, call[c].pc \in {"admit", "leave"},
           limiter' = [limiter EXCEPT ![call[c].on].taken = @ - 1], call' = [call EXCEPT ![c] = NoCall],
           current' = current, used' = used, excess' = excess, raced' = raced
    PROVE  LimitInv'
<1>0. PICK g, k : g = call[c].on /\ k = call[c].key
  OBVIOUS
<1>1. g \in 1..Generations /\ k \in Keys /\ LimitTypes
  BY <1>0, RowNow
<1>2. limiter[g].taken \in Nat /\ limiter[g].taken > 0
  <2>1. limiter[g].taken \in Nat
    BY <1>1 DEF LimitTypes, Limiters
  <2>2. call[c].pc \in SlotStates
    BY DEF SlotStates
  <2> QED
    BY <1>0, <1>1, <2>1, <2>2, HeldIsCounted
<1>3. PICK t \in Nat : t = limiter[g].taken - 1
  BY <1>2
<1>4. /\ SlotOf(call[c], g) = 1 /\ SlotOf(NoCall, g) = 0
      /\ KeyLeaseOf(call[c], g, k) = KeyLeaseOf(NoCall, g, k) /\ ReserveOf(call[c], g, k) = ReserveOf(NoCall, g, k)
  BY <1>0, NoCallIsPlaced DEF SlotOf, KeyLeaseOf, ReserveOf, LeaseStates, SlotStates
<1>5. t + SlotOf(call[c], g) = limiter[g].taken + SlotOf(NoCall, g) /\ SlotsAre(g, t)
  BY <1>0, <1>2, <1>3, <1>4 DEF SlotsAre
<1>6. Becomes(c, NoCall)
  BY Zenon DEF Becomes
<1> QED
  BY <1>0, <1>1, <1>4, <1>5, <1>6, NoCallIsPlaced, SlotMoves

LEMMA AcquireKeeps == ASSUME LimitInv, NEW c \in Calls, acquireIngress(c) PROVE LimitInv'
<1>0. PICK g, k : g = call[c].on /\ k = call[c].key
  OBVIOUS
<1>1. call[c].pc = "admit" /\ current' = current /\ used' = used /\ excess' = excess /\ raced' = raced
  BY Zenon DEF acquireIngress
<1>2. Placed(call[c]) /\ call[c] \in CallRows /\ call \in [Calls -> CallRows] /\ g \in 1..Generations /\ k \in Keys /\ LimitTypes
  BY <1>0, <1>1, RowNow DEF LimitTypes
<1>3. CASE limiter' = [limiter EXCEPT ![g].taken = limiter[g].taken - 1] /\ call' = [call EXCEPT ![c] = NoCall]
  BY <1>0, <1>1, <1>3, SlotIsGivenBack
<1>4. CASE /\ limiter' = [limiter EXCEPT ![g].inFlight[k] = limiter[g].inFlight[k] + 1]
           /\ call' = [call EXCEPT ![c].pc = "read"]
  <2>1. PICK r : r = [call[c] EXCEPT !.pc = "read"]
    OBVIOUS
  <2>2. Becomes(c, r)
    BY <1>2, <1>4, <2>1, Zenon DEF Becomes
  <2>3. Placed(r) /\ r.pc = "read" /\ r.on = g /\ r.key = k
    BY <1>0, <1>1, <1>2, <2>1 DEF Placed, CallRows, LeaseStates, SlotStates
  <2>4. limiter[g] \in Limiters /\ limiter \in [1..Generations -> Limiters]
    BY <1>2 DEF LimitTypes
  <2>8. limiter[g].taken \in Nat /\ limiter[g].inFlight[k] \in Nat /\ limiter[g].reserved[k] \in Nat
    BY <1>2, <2>4 DEF Limiters
  <2>11. PICK old \in Limiters : old = limiter[g]
    BY <2>4
  <2>12. old.inFlight \in [Keys -> Nat] /\ old.reserved \in [Keys -> Nat] /\ old.taken \in Nat /\ old.inFlight[k] \in Nat
    BY <1>2, <2>11 DEF Limiters
  <2>13. PICK m \in Nat : m = old.inFlight[k] + 1
    BY <2>12
  <2>14. PICK f : f = [old.inFlight EXCEPT ![k] = m]
    OBVIOUS
  <2>15. f \in [Keys -> Nat] /\ f[k] = m /\ \A other \in Keys : other # k => f[other] = old.inFlight[other]
    BY <1>2, <2>12, <2>14, FigureIsSet
  <2>17. PICK row : row = [old EXCEPT !.inFlight = f]
    OBVIOUS
  <2>18. row \in Limiters /\ row.taken = old.taken /\ row.inFlight = f /\ row.reserved = old.reserved
    BY <2>12, <2>15, <2>17 DEF Limiters
  <2>5. /\ row \in Limiters /\ row.taken = limiter[g].taken /\ row.inFlight[k] = limiter[g].inFlight[k] + 1
        /\ row.reserved[k] = limiter[g].reserved[k]
        /\ \A other \in Keys : other # k => /\ row.inFlight[other] = limiter[g].inFlight[other]
                                            /\ row.reserved[other] = limiter[g].reserved[other]
    BY <2>11, <2>13, <2>15, <2>18
  <2>6. Refilled(g, row)
    BY <1>2, <1>4, <2>4, <2>11, <2>13, <2>14, <2>17 DEF Limiters, Refilled
  <2>7. /\ SlotOf(call[c], g) = 1 /\ KeyLeaseOf(call[c], g, k) = 0 /\ ReserveOf(call[c], g, k) = 0
        /\ SlotOf(r, g) = 1 /\ KeyLeaseOf(r, g, k) = 1 /\ ReserveOf(r, g, k) = 0
    BY <1>0, <1>1, <2>3 DEF SlotOf, KeyLeaseOf, ReserveOf, LeaseStates, SlotStates
  <2>9. /\ row.taken + SlotOf(call[c], g) = limiter[g].taken + SlotOf(r, g)
        /\ row.inFlight[k] + KeyLeaseOf(call[c], g, k) = limiter[g].inFlight[k] + KeyLeaseOf(r, g, k)
        /\ row.reserved[k] + ReserveOf(call[c], g, k) = limiter[g].reserved[k] + ReserveOf(r, g, k)
    BY <2>5, <2>7, <2>8
  <2>10. Accounts(c, r)
    BY <1>0, <1>2, <2>3, <2>5, <2>6, <2>9, LimiterAccounts
  <2>16. Moderates(c, r) /\ raced' \subseteq Keys
    BY <1>1, <2>3, NothingPromised
  <2> QED
    BY <1>1, <2>2, <2>3, <2>10, <2>16, LimitGoesOn
<1> QED
  BY <1>0, <1>3, <1>4, Zenon DEF acquireIngress

\* What is promised to calls whose answer is to come is reserved with the
\* limiter of one service, when nothing of the key is reserved with another.
LEMMA PromisedIsReserved ==
    ASSUME LimitTypes, NEW g, NEW k,
           \A d \in Calls : call[d].pc = "generate" /\ call[d].key = k => call[d].on = g \/ call[d].tokens = 0
    PROVE  Sum(call, Generates(call, k)) <= Sum(call, Reserves(call, g, k))
<1> DEFINE all == Calls \X (1..MonthlyLimit)
<1>1. \A d \in Calls : call[d].tokens \in 0..MonthlyLimit
  BY RowFields DEF LimitTypes
<1>2. IsFiniteSet(all)
  <2>1. IsFiniteSet(1..MonthlyLimit)
    <3>1. 1 \in Int /\ MonthlyLimit \in Int
      BY LimitsAreNumbers
    <3> QED
      BY <3>1, FS_Interval, Zenon
  <2> QED
    BY <2>1, LimitsAreNumbers, FS_Product
<1>3. Pile(call, Reserves(call, g, k)) \subseteq all
  BY <1>1, LimitsAreNumbers DEF Pile, Reserves
<1>4. IsFiniteSet(Pile(call, Reserves(call, g, k)))
  BY <1>2, <1>3, FS_Subset
<1>5. Pile(call, Generates(call, k)) \subseteq Pile(call, Reserves(call, g, k))
  <2>1. ASSUME NEW t \in Pile(call, Generates(call, k))
        PROVE  t \in Pile(call, Reserves(call, g, k))
    <3>1. PICK d \in Generates(call, k) : t \in {d} \X (1..call[d].tokens)
      BY Zenon DEF Pile
    <3>2. call[d].tokens # 0
      BY <3>1
    <3>3. d \in Reserves(call, g, k)
      BY <3>2 DEF Generates, Reserves
    <3> QED
      BY <3>1, <3>3, Zenon DEF Pile
  <2> QED
    BY <2>1
<1> QED
  BY <1>4, <1>5, FS_Subset DEF Sum

LEMMA ReserveKeeps == ASSUME LimitInv, NEW c \in Calls, Reserve(c) PROVE LimitInv'
<1>0. PICK g, k : g = call[c].on /\ k = call[c].key
  OBVIOUS
<1>1. call[c].pc = "reserve" /\ current' = current /\ used' = used /\ excess' = excess
  BY Zenon DEF Reserve
<1>2. Placed(call[c]) /\ call[c] \in CallRows /\ call \in [Calls -> CallRows] /\ g \in 1..Generations /\ k \in Keys /\ LimitTypes
  BY <1>0, <1>1, RowNow DEF LimitTypes
<1>3. CASE call' = [call EXCEPT ![c].pc = "release", ![c].tokens = 0] /\ limiter' = limiter /\ raced' = raced
  <2>1. PICK r : r = [call[c] EXCEPT !.pc = "release", !.tokens = 0]
    OBVIOUS
  <2>2. Becomes(c, r)
    BY <1>2, <1>3, <2>1 DEF Becomes
  <2>3. 0 \in 0..MonthlyLimit
    BY LimitsAreNumbers
  <2>4. Placed(r) /\ r.pc = "release" /\ r.tokens = 0 /\ r.on = call[c].on /\ r.key = call[c].key
    BY <1>1, <1>2, <2>1, <2>3 DEF Placed, CallRows, LeaseStates, SlotStates
  <2>5. Equal(call[c], r)
    BY <1>1, <2>4 DEF Equal, SlotOf, KeyLeaseOf, ReserveOf, GenerateOf, LeaseStates, SlotStates
  <2> QED
    BY <1>1, <1>3, <2>2, <2>4, <2>5, QuietMoveKeeps
<1>4. CASE /\ call[c].read + limiter[g].reserved[k] + call[c].tokens <= MonthlyLimit
           /\ limiter' = [limiter EXCEPT ![g].reserved[k] = limiter[g].reserved[k] + call[c].tokens]
           /\ call' = [call EXCEPT ![c].pc = "generate"]
           /\ raced' = IF OutOfDate(c) THEN raced \cup {k} ELSE raced
  <2>1. PICK r : r = [call[c] EXCEPT !.pc = "generate"]
    OBVIOUS
  <2>2. Becomes(c, r)
    BY <1>2, <1>4, <2>1, Zenon DEF Becomes
  <2>3. Placed(r) /\ r.pc = "generate" /\ r.on = g /\ r.key = k /\ r.tokens = call[c].tokens
    BY <1>0, <1>1, <1>2, <2>1 DEF Placed, CallRows, LeaseStates, SlotStates
  <2>4. limiter[g] \in Limiters /\ limiter \in [1..Generations -> Limiters] /\ call[c].tokens \in Nat
    BY <1>2, RowFields DEF LimitTypes
  <2>5. PICK old \in Limiters : old = limiter[g]
    BY <2>4
  <2>6. old.inFlight \in [Keys -> Nat] /\ old.reserved \in [Keys -> Nat] /\ old.taken \in Nat /\ old.inFlight[k] \in Nat
        /\ old.reserved[k] \in Nat
    BY <1>2, <2>5 DEF Limiters
  <2>7. PICK n \in Nat : n = old.reserved[k] + call[c].tokens
    BY <2>4, <2>6
  <2>8. PICK f : f = [old.reserved EXCEPT ![k] = n]
    OBVIOUS
  <2>9. f \in [Keys -> Nat] /\ f[k] = n /\ \A other \in Keys : other # k => f[other] = old.reserved[other]
    BY <1>2, <2>6, <2>8, FigureIsSet
  <2>10. PICK row : row = [old EXCEPT !.reserved = f]
    OBVIOUS
  <2>11. row \in Limiters /\ row.taken = old.taken /\ row.inFlight = old.inFlight /\ row.reserved = f
    BY <2>6, <2>9, <2>10 DEF Limiters
  <2>12. Refilled(g, row)
    BY <1>2, <1>4, <2>4, <2>5, <2>7, <2>8, <2>10 DEF Limiters, Refilled
  <2>13. /\ SlotOf(call[c], g) = 1 /\ KeyLeaseOf(call[c], g, k) = 1 /\ ReserveOf(call[c], g, k) = 0
         /\ SlotOf(r, g) = 1 /\ KeyLeaseOf(r, g, k) = 1 /\ ReserveOf(r, g, k) = call[c].tokens
         /\ GenerateOf(call[c], k) = 0 /\ GenerateOf(r, k) = call[c].tokens
    BY <1>0, <1>1, <2>3 DEF SlotOf, KeyLeaseOf, ReserveOf, GenerateOf, LeaseStates, SlotStates
  <2>14. /\ row.taken + SlotOf(call[c], g) = limiter[g].taken + SlotOf(r, g)
         /\ row.inFlight[k] + KeyLeaseOf(call[c], g, k) = limiter[g].inFlight[k] + KeyLeaseOf(r, g, k)
         /\ row.reserved[k] + ReserveOf(call[c], g, k) = limiter[g].reserved[k] + ReserveOf(r, g, k)
         /\ \A other \in Keys : other # k => /\ row.inFlight[other] = limiter[g].inFlight[other]
                                             /\ row.reserved[other] = limiter[g].reserved[other]
    BY <2>4, <2>5, <2>6, <2>7, <2>9, <2>11, <2>13
  <2>15. Accounts(c, r)
    BY <1>0, <1>2, <2>3, <2>11, <2>12, <2>14, LimiterAccounts
  <2>16. LimitTypes'
    <3>1. call' \in [Calls -> CallRows] /\ \A d \in Calls : Placed(call'[d])
      BY <1>2, <2>2, <2>3, CallMoves, Zenon
    <3>2. limiter' \in [1..Generations -> Limiters]
      BY <2>15 DEF Accounts
    <3>3. raced' \subseteq Keys
      BY <1>2, <1>4 DEF LimitTypes
    <3> QED
      BY <1>1, <1>2, <3>1, <3>2, <3>3 DEF LimitTypes
  <2>17. Counted'
    BY <2>2, <2>3, <2>15, CountedStays
  <2>18. Allowed'
    <3>1. ASSUME NEW key \in Keys \ raced'
          PROVE  used'[key] + Sum(call', Generates(call', key)) <= MonthlyLimit + excess'[key]
      <4>1. key \notin raced
        BY <1>4, <3>1
      <4>2. PICK m \in Nat : /\ Sum(call, Generates(call, key)) = m + GenerateOf(call[c], key)
                             /\ Sum(call', Generates(call', key)) = m + GenerateOf(r, key)
        BY <1>2, <2>2, <2>3, ReservesMove
      <4>3. used[key] \in Nat /\ excess[key] \in Nat /\ MonthlyLimit \in Nat
        BY <1>2, LimitsAreNumbers DEF LimitTypes
      <4>4. CASE key # k
        <5>1. GenerateOf(call[c], key) = 0 /\ GenerateOf(r, key) = 0
          BY <1>0, <2>3, <4>4 DEF GenerateOf
        <5>2. used[key] + Sum(call, Generates(call, key)) <= MonthlyLimit + excess[key]
          BY <3>1, <4>1 DEF LimitInv, Allowed
        <5> QED
          BY <1>1, <4>2, <5>1, <5>2
      <4>5. CASE key = k
        <5>1. ~OutOfDate(c)
          BY <1>4, <3>1, <4>5
        <5>2. call[c].read = used[k] /\ \A d \in Reserving(k) : call[d].on = g \/ ~(call[d].tokens > 0)
          BY <1>0, <5>1, Zenon DEF OutOfDate
        <5>3. \A d \in Calls : call[d].pc = "generate" /\ call[d].key = k => call[d].on = g \/ call[d].tokens = 0
          <6>1. \A d \in Calls : call[d].tokens \in Nat
            BY <1>2, RowFields DEF LimitTypes
          <6> QED
            BY <5>2, <6>1 DEF Reserving
        <5>4. Sum(call, Generates(call, k)) <= Sum(call, Reserves(call, g, k))
          BY <1>2, <5>3, PromisedIsReserved
        <5>5. limiter[g].reserved[k] = Sum(call, Reserves(call, g, k))
          BY <1>2 DEF LimitInv, Counted
        <5>6. m = Sum(call, Generates(call, k)) /\ Sum(call', Generates(call', k)) = m + call[c].tokens
          BY <2>13, <4>2, <4>5
        <5>7. limiter[g].reserved[k] \in Nat
          BY <2>5, <2>6
        <5>8. used[k] + limiter[g].reserved[k] + call[c].tokens <= MonthlyLimit
          BY <1>4, <5>2
        <5>9. m <= limiter[g].reserved[k]
          BY <5>4, <5>5, <5>6
        <5>10. used[k] + (m + call[c].tokens) <= MonthlyLimit + excess[k]
          <6>1. PICK held \in Nat, own \in Nat : held = limiter[g].reserved[k] /\ own = call[c].tokens
            BY <2>4, <5>7
          <6>2. used[k] + held + own <= MonthlyLimit /\ m <= held
            BY <5>8, <5>9, <6>1
          <6>3. used[k] \in Nat /\ excess[k] \in Nat /\ MonthlyLimit \in Nat
            BY <4>3, <4>5
          <6>4. used[k] + (m + own) <= MonthlyLimit + excess[k]
            BY <6>2, <6>3
          <6> QED
            BY <6>1, <6>4
        <5> QED
          BY <1>1, <4>5, <5>6, <5>10, Zenon
      <4> QED
        BY <4>4, <4>5
    <3> QED
      BY <3>1 DEF Allowed
  <2> QED
    BY <2>16, <2>17, <2>18 DEF LimitInv
<1> QED
  BY <1>0, <1>3, <1>4, Zenon DEF Reserve

LEMMA RecordKeepsLimits == ASSUME LimitInv, NEW c \in Calls, Record(c) PROVE LimitInv'
<1>0. PICK k : k = call[c].key
  OBVIOUS
<1>1. /\ call[c].pc = "generate" /\ current' = current /\ limiter' = limiter /\ raced' = raced
      /\ call' = [call EXCEPT ![c].pc = "release"]
  BY Zenon DEF Record
<1>2. PICK n \in 0..MaxUse :
         /\ used' = [used EXCEPT ![k] = used[k] + n]
         /\ excess' = [excess EXCEPT ![k] = IF n > call[c].tokens THEN excess[k] + n - call[c].tokens ELSE excess[k]]
  BY <1>0, Zenon DEF Record
<1>3. /\ Placed(call[c]) /\ call[c] \in CallRows /\ call \in [Calls -> CallRows] /\ k \in Keys /\ LimitTypes
      /\ used \in [Keys -> Nat] /\ excess \in [Keys -> Nat] /\ raced \subseteq Keys
  BY <1>0, <1>1, RowNow DEF LimitTypes
<1>4. n \in Nat /\ call[c].tokens \in Nat /\ used[k] \in Nat /\ excess[k] \in Nat
  BY <1>3, RowFields, LimitsAreNumbers
<1>5. PICK r : r = [call[c] EXCEPT !.pc = "release"]
  OBVIOUS
<1>6. Becomes(c, r)
  BY <1>1, <1>3, <1>5, Zenon DEF Becomes
<1>7. Placed(r) /\ r.pc = "release" /\ r.on = call[c].on /\ r.key = k /\ r.tokens = call[c].tokens
  BY <1>0, <1>1, <1>3, <1>5 DEF Placed, CallRows, LeaseStates, SlotStates
<1>8. PICK e \in Nat : e = IF n > call[c].tokens THEN excess[k] + n - call[c].tokens ELSE excess[k]
  BY <1>4
<1>9. PICK u \in Nat : u = used[k] + n
  BY <1>4
<1>10. used' \in [Keys -> Nat] /\ used'[k] = u /\ \A other \in Keys : other # k => used'[other] = used[other]
  BY <1>2, <1>3, <1>9, FigureIsSet
<1>11. excess' \in [Keys -> Nat] /\ excess'[k] = e /\ \A other \in Keys : other # k => excess'[other] = excess[other]
  BY <1>2, <1>3, <1>8, FigureIsSet
<1>12. Moderates(c, r)
  <2>1. ASSUME NEW key \in Keys
        PROVE  used'[key] + GenerateOf(r, key) + excess[key] <= used[key] + GenerateOf(call[c], key) + excess'[key]
    <3>1. GenerateOf(r, key) = 0
      BY <1>7 DEF GenerateOf
    <3>2. CASE key = k
      <4>1. GenerateOf(call[c], key) = call[c].tokens
        BY <1>0, <1>1, <3>2 DEF GenerateOf
      <4>2. u + 0 + excess[k] <= used[k] + call[c].tokens + e
        BY <1>4, <1>8, <1>9
      <4> QED
        BY <1>10, <1>11, <3>1, <3>2, <4>1, <4>2, Zenon
    <3>3. CASE key # k
      <4>1. GenerateOf(call[c], key) = 0
        BY <1>0, <3>3 DEF GenerateOf
      <4>2. used'[key] = used[key] /\ excess'[key] = excess[key] /\ used[key] \in Nat /\ excess[key] \in Nat
        BY <1>3, <1>10, <1>11, <3>3
      <4> QED
        BY <3>1, <4>1, <4>2
    <3> QED
      BY <3>2, <3>3
  <2> QED
    BY <1>1, <1>10, <1>11, <2>1 DEF Moderates
<1>13. Accounts(c, r)
  <2>1. ASSUME NEW g \in 1..Generations, NEW key \in Keys
        PROVE  KeyLeaseOf(call[c], g, key) = KeyLeaseOf(r, g, key) /\ ReserveOf(call[c], g, key) = ReserveOf(r, g, key)
    BY <1>0, <1>1, <1>7 DEF KeyLeaseOf, ReserveOf, LeaseStates, SlotStates
  <2>2. ASSUME NEW g \in 1..Generations
        PROVE  SlotOf(call[c], g) = SlotOf(r, g)
    BY <1>1, <1>7 DEF SlotOf, LeaseStates, SlotStates
  <2> QED
    BY <1>1, <1>3, <2>1, <2>2, Zenon DEF Accounts, LimitTypes
<1> QED
  BY <1>1, <1>3, <1>6, <1>7, <1>12, <1>13, LimitGoesOn

LEMMA ReleaseKeepsLimits == ASSUME LimitInv, NEW c \in Calls, Release(c) PROVE LimitInv'
<1>0. PICK g, k : g = call[c].on /\ k = call[c].key
  OBVIOUS
<1>1. /\ call[c].pc = "release" /\ current' = current /\ used' = used /\ excess' = excess /\ raced' = raced
      /\ call' = [call EXCEPT ![c] = [NoCall EXCEPT !.pc = "leave", !.on = call[c].on, !.key = call[c].key]]
  BY Zenon DEF Release
<1>2. Placed(call[c]) /\ call[c] \in CallRows /\ call \in [Calls -> CallRows] /\ g \in 1..Generations /\ k \in Keys /\ LimitTypes
  BY <1>0, <1>1, RowNow DEF LimitTypes
<1>3. limiter' = [limiter EXCEPT
                     ![g].inFlight[k] = IF limiter[g].inFlight[k] > 0 THEN limiter[g].inFlight[k] - 1 ELSE limiter[g].inFlight[k],
                     ![g].reserved[k] = IF limiter[g].reserved[k] > call[c].tokens
                                        THEN limiter[g].reserved[k] - call[c].tokens ELSE 0]
  BY <1>0, Zenon DEF Release
<1>4. limiter[g].inFlight[k] > 0 /\ limiter[g].reserved[k] >= call[c].tokens
  BY <1>0, <1>1, <1>2, HeldIsCounted
<1>5. limiter[g] \in Limiters /\ limiter \in [1..Generations -> Limiters] /\ call[c].tokens \in Nat
  BY <1>2, RowFields DEF LimitTypes
<1>6. PICK old \in Limiters : old = limiter[g]
  BY <1>5
<1>7. /\ old.inFlight \in [Keys -> Nat] /\ old.reserved \in [Keys -> Nat] /\ old.taken \in Nat /\ old.inFlight[k] \in Nat
      /\ old.reserved[k] \in Nat
  BY <1>2, <1>6 DEF Limiters
<1>8. PICK m \in Nat, n \in Nat :
          /\ m = (IF old.inFlight[k] > 0 THEN old.inFlight[k] - 1 ELSE old.inFlight[k]) /\ m = old.inFlight[k] - 1
          /\ n = (IF old.reserved[k] > call[c].tokens THEN old.reserved[k] - call[c].tokens ELSE 0)
          /\ n = old.reserved[k] - call[c].tokens
  <2>1. old.inFlight[k] > 0 /\ old.reserved[k] >= call[c].tokens
    BY <1>4, <1>6
  <2>2. PICK b \in Nat, d \in Nat, own \in Nat :
            b = old.inFlight[k] /\ d = old.reserved[k] /\ own = call[c].tokens
    BY <1>5, <1>7
  <2>3. b > 0 /\ d >= own
    BY <2>1, <2>2
  <2>4. /\ b - 1 \in Nat /\ d - own \in Nat
        /\ b - 1 = (IF b > 0 THEN b - 1 ELSE b) /\ d - own = (IF d > own THEN d - own ELSE 0)
    BY <2>3
  <2> QED
    BY <2>2, <2>4, Zenon
<1>9. PICK f : f = [old.inFlight EXCEPT ![k] = m]
  OBVIOUS
<1>10. f \in [Keys -> Nat] /\ f[k] = m /\ \A other \in Keys : other # k => f[other] = old.inFlight[other]
  BY <1>2, <1>7, <1>9, FigureIsSet
<1>11. PICK h : h = [old.reserved EXCEPT ![k] = n]
  OBVIOUS
<1>12. h \in [Keys -> Nat] /\ h[k] = n /\ \A other \in Keys : other # k => h[other] = old.reserved[other]
  BY <1>2, <1>7, <1>11, FigureIsSet
<1>13. PICK row : row = [old EXCEPT !.inFlight = f, !.reserved = h]
  OBVIOUS
<1>14. row \in Limiters /\ row.taken = old.taken /\ row.inFlight = f /\ row.reserved = h
  BY <1>7, <1>10, <1>12, <1>13 DEF Limiters
<1>15. Refilled(g, row)
  BY <1>2, <1>3, <1>5, <1>6, <1>8, <1>9, <1>11, <1>13 DEF Limiters, Refilled
<1>16. PICK r : r = [NoCall EXCEPT !.pc = "leave", !.on = g, !.key = k]
  OBVIOUS
<1>17. Placed(r) /\ r.pc = "leave" /\ r.on = g /\ r.key = k
  <2>1. r = [pc |-> "leave", on |-> g, key |-> k, read |-> 0, tokens |-> 0]
    BY <1>16 DEF NoCall
  <2>2. g \in 0..Generations /\ 0 \in 0..MonthlyLimit
    BY <1>2, LimitsAreNumbers
  <2> QED
    BY <1>2, <2>1, <2>2 DEF Placed, CallRows, SlotStates
<1>18. /\ SlotOf(call[c], g) = 1 /\ KeyLeaseOf(call[c], g, k) = 1 /\ ReserveOf(call[c], g, k) = call[c].tokens
       /\ SlotOf(r, g) = 1 /\ KeyLeaseOf(r, g, k) = 0 /\ ReserveOf(r, g, k) = 0
  BY <1>0, <1>1, <1>17 DEF SlotOf, KeyLeaseOf, ReserveOf, LeaseStates, SlotStates
<1>19. /\ row.taken + SlotOf(call[c], g) = limiter[g].taken + SlotOf(r, g)
       /\ row.inFlight[k] + KeyLeaseOf(call[c], g, k) = limiter[g].inFlight[k] + KeyLeaseOf(r, g, k)
       /\ row.reserved[k] + ReserveOf(call[c], g, k) = limiter[g].reserved[k] + ReserveOf(r, g, k)
       /\ \A other \in Keys : other # k => /\ row.inFlight[other] = limiter[g].inFlight[other]
                                           /\ row.reserved[other] = limiter[g].reserved[other]
  <2>1. m + 1 = old.inFlight[k] + 0 /\ n + call[c].tokens = old.reserved[k] + 0
    <3>1. PICK x \in Nat, d \in Nat, own \in Nat : x = old.inFlight[k] /\ d = old.reserved[k] /\ own = call[c].tokens
      BY <1>5, <1>7
    <3>2. m = x - 1 /\ n = d - own
      BY <1>8, <3>1, Zenon
    <3>3. (x - 1) + 1 = x + 0 /\ (d - own) + own = d + 0
      OBVIOUS
    <3> QED
      BY <3>1, <3>2, <3>3, Zenon
  <2>2. row.inFlight[k] = m /\ row.reserved[k] = n
    BY <1>10, <1>12, <1>14
  <2> QED
    BY <1>6, <1>10, <1>12, <1>14, <1>18, <2>1, <2>2, Zenon
<1>20. Accounts(c, r)
  BY <1>0, <1>2, <1>14, <1>15, <1>17, <1>19, LimiterAccounts
<1>21. Moderates(c, r) /\ raced' \subseteq Keys
  BY <1>1, <1>17, NothingPromised
<1>22. Becomes(c, r)
  BY <1>0, <1>1, <1>16, Zenon DEF Becomes
<1> QED
  BY <1>1, <1>17, <1>20, <1>21, <1>22, LimitGoesOn

LEMMA ReleaseGlobalKeeps == ASSUME LimitInv, NEW c \in Calls, ReleaseGlobal(c) PROVE LimitInv'
BY SlotIsGivenBack, Zenon DEF ReleaseGlobal

LEMMA ReplacedKeeps == ASSUME LimitInv, Replaced \/ UNCHANGED limitVars PROVE LimitInv'
<1>1. limiter' = limiter /\ call' = call /\ used' = used /\ excess' = excess /\ raced' = raced
  BY DEF Replaced, limitVars
<1>2. current' \in 1..Generations
  BY LimitsAreNumbers DEF LimitInv, LimitTypes, Replaced, limitVars
<1>3. LimitTypes'
  BY <1>1, <1>2 DEF LimitInv, LimitTypes
<1>4. Counted' /\ Allowed'
  BY <1>1 DEF LimitInv, Counted, Allowed
<1> QED
  BY <1>3, <1>4 DEF LimitInv

LEMMA LimitInitHolds == LimitsInit => LimitInv
<1> SUFFICES ASSUME LimitsInit PROVE LimitInv
  OBVIOUS
<1>1. /\ \A c \in Calls : call[c] = NoCall
      /\ call \in [Calls -> CallRows] /\ \A c \in Calls : Placed(call[c]) /\ call[c].pc = "idle"
  BY NoCallIsPlaced DEF LimitsInit, Placed
<1>2. LimitTypes
  <2>1. limiter \in [1..Generations -> Limiters]
    BY DEF LimitsInit, Limiters
  <2> QED
    BY <1>1, <2>1, LimitsAreNumbers DEF LimitsInit, LimitTypes
<1>3. Sum(call, {}) = 0 /\ Cardinality({}) = 0
  <2>1. Pile(call, {}) = {}
    BY DEF Pile
  <2> QED
    BY <2>1, FS_EmptySet DEF Sum
<1>4. Counted
  <2>1. ASSUME NEW g \in 1..Generations
        PROVE  limiter[g].taken = Cardinality(Holders(call, g))
    <3>1. Holders(call, g) = {} /\ limiter[g].taken = 0
      BY <1>1 DEF LimitsInit, Holders, LeaseStates, SlotStates
    <3> QED
      BY <1>3, <3>1
  <2>2. ASSUME NEW g \in 1..Generations, NEW k \in Keys
        PROVE  /\ limiter[g].inFlight[k] = Cardinality(KeyLeases(call, g, k))
               /\ limiter[g].reserved[k] = Sum(call, Reserves(call, g, k))
    <3>1. KeyLeases(call, g, k) = {} /\ Reserves(call, g, k) = {}
      BY <1>1 DEF KeyLeases, Reserves, LeaseStates, SlotStates
    <3>2. limiter[g].inFlight[k] = 0 /\ limiter[g].reserved[k] = 0
      BY DEF LimitsInit
    <3> QED
      BY <1>3, <3>1, <3>2
  <2> QED
    BY <2>1, <2>2 DEF Counted
<1>5. Allowed
  <2>1. ASSUME NEW k \in Keys
        PROVE  used[k] + Sum(call, Generates(call, k)) <= MonthlyLimit + excess[k]
    <3>1. Generates(call, k) = {}
      BY <1>1 DEF Generates
    <3>2. used[k] = 0 /\ excess[k] = 0
      BY DEF LimitsInit
    <3> QED
      BY <1>3, <3>1, <3>2, LimitsAreNumbers
  <2> QED
    BY <2>1 DEF Allowed
<1> QED
  BY <1>2, <1>4, <1>5 DEF LimitInv

LEMMA LimitStepKeeps == ASSUME LimitInv, [LimitsNext]_limitVars PROVE LimitInv'
<1>1. CASE Replaced \/ UNCHANGED limitVars
  BY <1>1, ReplacedKeeps
<1>2. ASSUME NEW c \in Calls, Route(c) \/ AcquireGlobal(c) \/ acquireIngress(c) \/ Reserve(c)
      PROVE  LimitInv'
  BY <1>2, RouteKeeps, AcquireGlobalKeeps, AcquireKeeps, ReserveKeeps, Zenon
<1>3. ASSUME NEW c \in Calls, ReadUsage(c) \/ Record(c) \/ Release(c) \/ ReleaseGlobal(c)
      PROVE  LimitInv'
  BY <1>3, ReadUsageKeeps, RecordKeepsLimits, ReleaseKeepsLimits, ReleaseGlobalKeeps, Zenon
<1>4. ASSUME NEW c \in Calls, Reject(c)
      PROVE  LimitInv'
  <2>1. /\ call[c].pc = "read" /\ call' = [call EXCEPT ![c].pc = "release"] /\ current' = current /\ limiter' = limiter
        /\ used' = used /\ excess' = excess /\ raced' = raced
    BY <1>4, Zenon DEF Reject
  <2> QED
    BY <2>1, RefusalKeeps
<1> QED
  BY <1>1, <1>2, <1>3, <1>4, Zenon DEF LimitsNext

LEMMA LimitHolds == LimitsSpec => []LimitInv
BY LimitInitHolds, LimitStepKeeps, PTL DEF LimitsSpec

\* Every limiter, also one that was replaced, counts exactly the leases open on
\* it and the slots held around them, and what a key has used and was promised
\* stays within its monthly limit but for what calls use beyond their reservation and for reservations granted
\* on figures that were out of date: limiter.go and prepareProviderRequest.
THEOREM AllowancesAreKept == LimitsSpec => []AllowanceKept
<1>1. LimitInv => AllowanceKept
  <2> SUFFICES ASSUME LimitInv PROVE AllowanceKept
    OBVIOUS
  <2>1. ASSUME NEW g \in 1..Generations
        PROVE  LET open == {c \in Leasing : call[c].on = g} IN
               /\ limiter[g].taken = Cardinality({c \in Holding : call[c].on = g})
               /\ \A k \in Keys : /\ limiter[g].inFlight[k] = Cardinality({c \in open : call[c].key = k})
                                  /\ limiter[g].reserved[k] = Tokens(Reserving(k) \cap open)
    <3> DEFINE open == {c \in Leasing : call[c].on = g}
    <3>1. {c \in Holding : call[c].on = g} = Holders(call, g)
      BY DEF Holding, Leasing, Holders, LeaseStates, SlotStates
    <3>2. ASSUME NEW k \in Keys
          PROVE  /\ {c \in open : call[c].key = k} = KeyLeases(call, g, k)
                 /\ Reserving(k) \cap open = Reserves(call, g, k)
      BY DEF Leasing, KeyLeases, Reserves, Reserving, LeaseStates, SlotStates
    <3> HIDE DEF open
    <3>3. ASSUME NEW k \in Keys
          PROVE  Tokens(Reserving(k) \cap open) = Sum(call, Reserves(call, g, k))
      BY <3>2, Zenon DEF Tokens, Sum, Pile
    <3> QED
      BY <3>1, <3>2, <3>3, Zenon DEF LimitInv, Counted, open
  <2>2. ASSUME NEW k \in Keys \ raced
        PROVE  used[k] + Tokens(Generating(k)) <= MonthlyLimit + excess[k]
    <3>1. Generating(k) = Generates(call, k)
      BY DEF Generating, Generates
    <3>2. Tokens(Generating(k)) = Sum(call, Generates(call, k))
      BY <3>1, Zenon DEF Tokens, Sum, Pile
    <3> QED
      BY <3>2 DEF LimitInv, Allowed
  <2> QED
    BY <2>1, <2>2, Zenon DEF AllowanceKept
<1> QED
  BY LimitHolds, <1>1, PTL
=============================================================================

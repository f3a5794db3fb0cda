----------------------------- MODULE Settlement -----------------------------
(***************************************************************************)
(* How the service settles an invoiced order: the Xendit webhook handlers, *)
(* the reconciler (StartCheckPendingInvoices) and the expiry sweeper       *)
(* (StartSweepingExpiredPendingPayments) race to announce one outcome of   *)
(* the order on Kafka and to record it in table payments.                  *)
(*                                                                         *)
(* Every actor is sequential code whose remote calls are the only points   *)
(* where others can intervene, so an action is one remote call with the    *)
(* local code up to the next one.  The audit entry written next to a call  *)
(* is part of that call's action: its absence is the outcome FALSE of      *)
(* AuditOutcomes, which also covers a crash between the two.               *)
(***************************************************************************)
EXTENDS PaymentStatus, Naturals, FiniteSets

CONSTANTS
    Orders,           \* order ids with an invoice at Xendit
    Webhooks,         \* HTTP handler goroutines that can be active at once
    Reconciler,       \* the goroutine of StartCheckPendingInvoices
    Sweeper,          \* the goroutine of StartSweepingExpiredPendingPayments
    NoOrder,          \* an idle actor handles no order
    MaxRetryPublish,  \* attempts to publish one event (3 in the code)
    DbOutcomes,       \* how a write to PostgreSQL can end
    AuditOutcomes,    \* whether an audit entry is stored: BOOLEAN with MongoDB
    WebhookAmounts    \* how the amount of a PAID webhook can relate to the row

Procs == Webhooks \union {Reconciler, Sweeper}

ASSUME ActorsAssumption ==
    /\ Reconciler # Sweeper
    /\ Webhooks \intersect {Reconciler, Sweeper} = {}
    /\ NoOrder \notin Orders
ASSUME RetryAssumption == MaxRetryPublish \in Nat \ {0}
ASSUME OutcomesAssumption ==
    /\ "ok" \in DbOutcomes
    /\ DbOutcomes \subseteq CallOutcomes
    /\ AuditOutcomes \subseteq BOOLEAN
    /\ AuditOutcomes # {}
    /\ WebhookAmounts \subseteq {"exact", "wrong", "absent"}

VARIABLES
    status,        \* status[o]: column status of o's row in payments, or NoRow
    events,        \* <<o, s>>: Kafka holds an event announcing status s of o
    failedEvents,  \* orders with a row in failed_events
    anomalies,     \* orders with a row in payment_anomalies
    audit,         \* <<o, e>>: the audit log has an entry e of o
    sent,          \* webhook payloads Xendit has sent: never removed, so one
                   \* may be lost, late, repeated or overtaken
    paid,          \* orders whose invoice is PAID at Xendit
    due,           \* orders whose expired_time has passed
    stale,         \* orders whose create_time is more than a day ago
    pc,            \* pc[p]: the call p makes next
    order,         \* order[p]: the order p is handling
    amount,        \* amount[p]: the amount of the payload p is handling
    tries,         \* tries[p]: failed attempts in retryPublishPayment
    batch          \* rows of the last query the reconciler/sweeper has left

db     == <<status, failedEvents, anomalies>>
world  == <<sent, paid, due, stale>>
locals == <<pc, order, amount, tries>>
vars   == <<db, events, audit, world, locals, batch>>

(***************************************************************************)
(* A webhook's amount against the amount of the row: equal, different and  *)
(* positive, or not positive (absent from the payload).                    *)
(***************************************************************************)
Amounts == {"exact", "wrong", "absent"}

Messages == [order  : Orders,
             status : {PaymentStatusPaid, PaymentStatusFailed},
             amount : Amounts]

Statuses == {PaymentStatusPending, PaymentStatusPaid,
             PaymentStatusFailed, PaymentStatusExpired}

Calls == {"idle",
          "wh_check", "wh_amount", "wh_anomaly",                \* webhook
          "ok_check", "ok_publish", "ok_save_failed", "ok_mark", \* success
          "ko_get", "ko_publish", "ko_mark",                     \* failure
          "sw_publish", "sw_mark"}                               \* sweeper

AuditEvents == {"PUBLISH_PAYMENT_SUCCESS", "MARK_PAID",
                "PUBLISH_PAYMENT_FAILED", "PAYMENT_EXPIRED",
                "PAYMENT_ANOMALY_DETECTED"}

Init ==
    /\ status = [o \in Orders |-> NoRow]
    /\ events = {} /\ failedEvents = {} /\ anomalies = {} /\ audit = {}
    /\ sent = {} /\ paid = {} /\ due = {} /\ stale = {}
    /\ pc     = [p \in Procs |-> "idle"]
    /\ order  = [p \in Procs |-> NoOrder]
    /\ amount = [p \in Procs |-> "absent"]
    /\ tries  = [p \in Procs |-> 0]
    /\ batch  = [p \in {Reconciler, Sweeper} |-> {}]

-----------------------------------------------------------------------------
(* Local control. *)

\* p goes on to its call c.
Goto(p, c) ==
    /\ pc' = [pc EXCEPT ![p] = c]
    /\ UNCHANGED <<order, amount, tries>>

\* p is done with its order: the handler returns, the loop goes on.
Return(p) ==
    /\ pc'     = [pc     EXCEPT ![p] = "idle"]
    /\ order'  = [order  EXCEPT ![p] = NoOrder]
    /\ amount' = [amount EXCEPT ![p] = "absent"]
    /\ tries'  = [tries  EXCEPT ![p] = 0]

\* p works on order o, with amount a of its payload, from its call c on.
Handle(p, o, a, c) ==
    /\ pc'     = [pc     EXCEPT ![p] = c]
    /\ order'  = [order  EXCEPT ![p] = o]
    /\ amount' = [amount EXCEPT ![p] = a]
    /\ UNCHANGED tries

SaveAuditLog(o, e) ==
    \E saved \in AuditOutcomes :
        audit' = IF saved THEN audit \union {<<o, e>>} ELSE audit

\* A query of the actor's current order fails, and the actor gives up on it:
\* every such error is returned by the handler and skipped by the loops.
ReadFails(p) ==
    /\ pc[p] \in {"wh_check", "wh_amount", "ok_check", "ko_get"}
    /\ Return(p)
    /\ UNCHANGED <<db, events, audit, world, batch>>

-----------------------------------------------------------------------------
(* retryPublishPayment around PublishPaymentStatus, at one of the calls     *)
(* "ok_publish", "ko_publish" and "sw_publish".                             *)

PublishCalls == {"ok_publish", "ko_publish", "sw_publish"}

\* The status announced at call c, and the call that records it.
Announces(c) == CASE c = "ok_publish" -> PaymentStatusPaid
                  [] c = "ko_publish" -> PaymentStatusFailed
                  [] c = "sw_publish" -> PaymentStatusExpired

RecordedBy(c) == CASE c = "ok_publish" -> "ok_mark"
                   [] c = "ko_publish" -> "ko_mark"
                   [] c = "sw_publish" -> "sw_mark"

AttemptEntry(s) == IF s = PaymentStatusPaid THEN "PUBLISH_PAYMENT_SUCCESS"
                                            ELSE "PUBLISH_PAYMENT_FAILED"

\* Each attempt is preceded by an audit entry, the sweeper's excepted.
AuditAttempt(p) ==
    IF pc[p] = "sw_publish"
    THEN UNCHANGED audit
    ELSE SaveAuditLog(order[p], AttemptEntry(Announces(pc[p])))

PublishAcked(p) ==
    /\ pc[p] \in PublishCalls
    /\ AuditAttempt(p)
    /\ events' = events \union {<<order[p], Announces(pc[p])>>}
    /\ pc'    = [pc    EXCEPT ![p] = RecordedBy(pc[p])]
    /\ tries' = [tries EXCEPT ![p] = 0]
    /\ UNCHANGED <<db, world, order, amount, batch>>

\* Mutant: one attempt too many.
AttemptsLeftOffByOne(p) == tries[p] < MaxRetryPublish

AttemptsLeft(p) == tries[p] + 1 < MaxRetryPublish

\* Mutant: the last error is dropped, and the handler marks the payment.
GiveUpSilently(p) ==
    /\ pc'    = [pc    EXCEPT ![p] = RecordedBy(pc[p])]
    /\ tries' = [tries EXCEPT ![p] = 0]
    /\ UNCHANGED <<order, amount>>

\* Only ProcessPaymentSuccess has something left to do after the last attempt.
GiveUp(p) ==
    IF pc[p] = "ok_publish"
    THEN /\ pc'    = [pc    EXCEPT ![p] = "ok_save_failed"]
         /\ tries' = [tries EXCEPT ![p] = 0]
         /\ UNCHANGED <<order, amount>>
    ELSE Return(p)

\* The attempt fails for its caller, though the broker may hold the event.
PublishFails(p) ==
    /\ pc[p] \in PublishCalls
    /\ AuditAttempt(p)
    /\ events' \in {events, events \union {<<order[p], Announces(pc[p])>>}}
    /\ IF AttemptsLeft(p)
       THEN /\ tries' = [tries EXCEPT ![p] = tries[p] + 1]
            /\ UNCHANGED <<pc, order, amount>>
       ELSE GiveUp(p)
    /\ UNCHANGED <<db, world, batch>>

-----------------------------------------------------------------------------
(* ProcessPaymentWebhook: the part before it delegates. *)

ReceiveWebhook(w) ==
    /\ pc[w] = "idle"
    /\ \E m \in sent :
          Handle(w, m.order, m.amount,
                 IF m.status = PaymentStatusPaid THEN "wh_check" ELSE "ko_get")
    /\ UNCHANGED <<db, events, audit, world, batch>>

CheckWebhookPaid(w) ==
    /\ pc[w] = "wh_check"
    /\ IF status[order[w]] = PaymentStatusPaid THEN Return(w)
                                               ELSE Goto(w, "wh_amount")
    /\ UNCHANGED <<db, events, audit, world, batch>>

\* Mutant: without payload.Amount > 0, an absent amount is a mismatch.
AbsentAmountMismatch(w) == amount[w] # "exact"

AmountMismatch(w) == amount[w] = "wrong"

CompareAmount(w) ==
    /\ pc[w] = "wh_amount"
    /\ IF status[order[w]] = NoRow
       THEN Return(w)
       ELSE Goto(w, IF AmountMismatch(w) THEN "wh_anomaly" ELSE "ok_check")
    /\ UNCHANGED <<db, events, audit, world, batch>>

SavePaymentAnomaly(w) ==
    /\ pc[w] = "wh_anomaly"
    /\ \E r \in DbOutcomes :
          /\ anomalies' = IF Applied(r) THEN anomalies \union {order[w]}
                                        ELSE anomalies
          /\ IF r = "ok" THEN SaveAuditLog(order[w], "PAYMENT_ANOMALY_DETECTED")
                         ELSE UNCHANGED audit
    /\ Return(w)
    /\ UNCHANGED <<status, failedEvents, events, world, batch>>

-----------------------------------------------------------------------------
(* ProcessPaymentSuccess, called by the webhook and by the reconciler. *)

CheckPaid(p) ==
    /\ pc[p] = "ok_check"
    /\ IF status[order[p]] = PaymentStatusPaid THEN Return(p)
                                               ELSE Goto(p, "ok_publish")
    /\ UNCHANGED <<db, events, audit, world, batch>>

SaveFailedPublishEvent(p) ==
    /\ pc[p] = "ok_save_failed"
    /\ \E r \in DbOutcomes :
          failedEvents' = IF Applied(r) THEN failedEvents \union {order[p]}
                                        ELSE failedEvents
    /\ Return(p)
    /\ UNCHANGED <<status, anomalies, events, audit, world, batch>>

\* UPDATE payments SET status = s WHERE ...: no guard on the current status.
MarkStatus(o, s, r) ==
    status' = IF Applied(r) /\ status[o] # NoRow
              THEN [status EXCEPT ![o] = s] ELSE status

MarkPaid(p) ==
    /\ pc[p] = "ok_mark"
    /\ \E r \in DbOutcomes :
          /\ MarkStatus(order[p], PaymentStatusPaid, r)
          /\ IF r = "ok" THEN SaveAuditLog(order[p], "MARK_PAID")
                         ELSE UNCHANGED audit
    /\ Return(p)
    /\ UNCHANGED <<failedEvents, anomalies, events, world, batch>>

-----------------------------------------------------------------------------
(* ProcessPaymentFailed, called by the webhook. *)

\* Mutant: gorm.ErrRecordNotFound is not taken for an error.
FailureKnown(o) == status[o] = PaymentStatusFailed

NothingToFail(o) == status[o] \in {NoRow, PaymentStatusFailed}

GetPaymentOfFailed(w) ==
    /\ pc[w] = "ko_get"
    /\ IF NothingToFail(order[w]) THEN Return(w) ELSE Goto(w, "ko_publish")
    /\ UNCHANGED <<db, events, audit, world, batch>>

MarkFailed(w) ==
    /\ pc[w] = "ko_mark"
    /\ \E r \in DbOutcomes : MarkStatus(order[w], PaymentStatusFailed, r)
    /\ Return(w)
    /\ UNCHANGED <<failedEvents, anomalies, events, audit, world, batch>>

-----------------------------------------------------------------------------
(* StartCheckPendingInvoices. *)

\* Mutant: the comparison with now() - interval '1 day' is reversed.
GetAgedInvoices == {o \in stale : status[o] = PaymentStatusPending}

GetPendingInvoices ==
    {o \in Orders : status[o] = PaymentStatusPending /\ o \notin stale}

\* The ten-minute tick.  A failed query waits for the next tick: no change.
ReconcilerTick ==
    /\ pc[Reconciler] = "idle" /\ batch[Reconciler] = {}
    /\ batch' = [batch EXCEPT ![Reconciler] = GetPendingInvoices]
    /\ UNCHANGED <<db, events, audit, world, locals>>

\* CheckInvoiceStatus answers PAID for the next row of the batch.
InvoicePaid(o) ==
    /\ pc[Reconciler] = "idle" /\ o \in batch[Reconciler]
    /\ o \in paid
    /\ batch' = [batch EXCEPT ![Reconciler] = @ \ {o}]
    /\ Handle(Reconciler, o, "absent", "ok_check")
    /\ UNCHANGED <<db, events, audit, world>>

\* CheckInvoiceStatus fails, or answers another status.
InvoiceSkipped(o) ==
    /\ pc[Reconciler] = "idle" /\ o \in batch[Reconciler]
    /\ batch' = [batch EXCEPT ![Reconciler] = @ \ {o}]
    /\ UNCHANGED <<db, events, audit, world, locals>>

-----------------------------------------------------------------------------
(* StartSweepingExpiredPendingPayments. *)

\* Mutants: without expired_time < now(); with the reconciler's age limit.
GetAllPendingPayments == {o \in Orders : status[o] = PaymentStatusPending}
GetRecentExpiredPayments ==
    {o \in due \ stale : status[o] = PaymentStatusPending}

GetExpiredPendingPayments == {o \in due : status[o] = PaymentStatusPending}

SweeperTick ==
    /\ pc[Sweeper] = "idle" /\ batch[Sweeper] = {}
    /\ batch' = [batch EXCEPT ![Sweeper] = GetExpiredPendingPayments]
    /\ UNCHANGED <<db, events, audit, world, locals>>

\* Mutant: no second read of the row.
SweepUnchecked(o) == status[o] # NoRow

StillPending(o) == status[o] = PaymentStatusPending

\* The row is read again, and is still PENDING.
SweepStillPending(o) ==
    /\ pc[Sweeper] = "idle" /\ o \in batch[Sweeper]
    /\ StillPending(o)
    /\ batch' = [batch EXCEPT ![Sweeper] = @ \ {o}]
    /\ Handle(Sweeper, o, "absent", "sw_publish")
    /\ UNCHANGED <<db, events, audit, world>>

\* The row has left PENDING since the query, or cannot be read.
SweepSkipped(o) ==
    /\ pc[Sweeper] = "idle" /\ o \in batch[Sweeper]
    /\ batch' = [batch EXCEPT ![Sweeper] = @ \ {o}]
    /\ UNCHANGED <<db, events, audit, world, locals>>

MarkExpired ==
    /\ pc[Sweeper] = "sw_mark"
    /\ \E r \in DbOutcomes :
          /\ MarkStatus(order[Sweeper], PaymentStatusExpired, r)
          /\ IF r = "ok" THEN SaveAuditLog(order[Sweeper], "PAYMENT_EXPIRED")
                         ELSE UNCHANGED audit
    /\ Return(Sweeper)
    /\ UNCHANGED <<failedEvents, anomalies, events, world, batch>>

-----------------------------------------------------------------------------
(* Around the actors: the rest of the service, Xendit, time, the process. *)

\* The invoicing pipeline inserts the row.  Its invoice is older, so it may
\* already be paid.
SavePayment(o) ==
    /\ status[o] = NoRow
    /\ status' = [status EXCEPT ![o] = PaymentStatusPending]
    /\ UNCHANGED <<failedEvents, anomalies, events, audit, world, locals,
                   batch>>

\* Xendit settles an invoice that has not expired and sends a webhook.
Pay(o) ==
    /\ o \notin paid /\ o \notin due
    /\ paid' = paid \union {o}
    /\ \E a \in WebhookAmounts :
          sent' = sent \union {[order |-> o, status |-> PaymentStatusPaid,
                                amount |-> a]}
    /\ UNCHANGED <<db, events, audit, due, stale, locals, batch>>

\* An attempt to pay fails, and Xendit sends a webhook.
AttemptFails(o) ==
    /\ o \notin paid /\ o \notin due
    /\ sent' = sent \union {[order |-> o, status |-> PaymentStatusFailed,
                             amount |-> "absent"]}
    /\ UNCHANGED <<db, events, audit, paid, due, stale, locals, batch>>

InvoiceExpires(o) ==
    /\ due' = due \union {o}
    /\ UNCHANGED <<db, events, audit, sent, paid, stale, locals, batch>>

RowAges(o) ==
    /\ status[o] # NoRow
    /\ stale' = stale \union {o}
    /\ UNCHANGED <<db, events, audit, sent, paid, due, locals, batch>>

\* The process dies and is restarted: what the goroutines held is gone.
Crash ==
    /\ pc'     = [p \in Procs |-> "idle"]
    /\ order'  = [p \in Procs |-> NoOrder]
    /\ amount' = [p \in Procs |-> "absent"]
    /\ tries'  = [p \in Procs |-> 0]
    /\ batch'  = [p \in {Reconciler, Sweeper} |-> {}]
    /\ UNCHANGED <<db, events, audit, world>>

-----------------------------------------------------------------------------
WebhookStep(w) ==
    \/ ReceiveWebhook(w) \/ CheckWebhookPaid(w) \/ CompareAmount(w)
    \/ SavePaymentAnomaly(w)
    \/ CheckPaid(w) \/ SaveFailedPublishEvent(w) \/ MarkPaid(w)
    \/ GetPaymentOfFailed(w) \/ MarkFailed(w)
    \/ PublishAcked(w) \/ PublishFails(w) \/ ReadFails(w)

ReconcilerStep ==
    \/ ReconcilerTick
    \/ \E o \in Orders : InvoicePaid(o) \/ InvoiceSkipped(o)
    \/ CheckPaid(Reconciler) \/ SaveFailedPublishEvent(Reconciler)
    \/ MarkPaid(Reconciler)
    \/ PublishAcked(Reconciler) \/ PublishFails(Reconciler)
    \/ ReadFails(Reconciler)

SweeperStep ==
    \/ SweeperTick
    \/ \E o \in Orders : SweepStillPending(o) \/ SweepSkipped(o)
    \/ PublishAcked(Sweeper) \/ PublishFails(Sweeper)
    \/ MarkExpired

Environment ==
    \E o \in Orders : \/ SavePayment(o) \/ Pay(o) \/ AttemptFails(o)
                      \/ InvoiceExpires(o) \/ RowAges(o)

Next ==
    \/ \E w \in Webhooks : WebhookStep(w)
    \/ ReconcilerStep
    \/ SweeperStep
    \/ Environment
    \/ Crash

Spec == Init /\ [][Next]_vars

(***************************************************************************)
(* The Go scheduler runs the two background goroutines and their timers    *)
(* fire (weak fairness).  A dependency that is asked again and again for   *)
(* the same order answers at last (strong fairness of the success of each  *)
(* call): no outage is for ever.  The process stops crashing at some time. *)
(* Nothing is assumed of webhooks: one may never arrive.                   *)
(***************************************************************************)
Serving(p, o) == order[p] = o

Fairness ==
    /\ WF_vars(ReconcilerStep)
    /\ WF_vars(SweeperStep)
    /\ \A o \in Orders :
          /\ SF_vars(InvoicePaid(o))
          /\ SF_vars(Serving(Reconciler, o) /\ CheckPaid(Reconciler))
          /\ SF_vars(Serving(Reconciler, o) /\ PublishAcked(Reconciler))
          /\ SF_vars(/\ Serving(Reconciler, o) /\ MarkPaid(Reconciler)
                     /\ status'[o] = PaymentStatusPaid)
          /\ SF_vars(SweepStillPending(o))
          /\ SF_vars(Serving(Sweeper, o) /\ PublishAcked(Sweeper))
          /\ SF_vars(/\ Serving(Sweeper, o) /\ MarkExpired
                     /\ status'[o] = PaymentStatusExpired)

FairSpec == Spec /\ Fairness /\ <>[][~ Crash]_vars

-----------------------------------------------------------------------------
(* Properties. *)

TypeOK ==
    /\ status \in [Orders -> Statuses \union {NoRow}]
    /\ events \subseteq Orders \X Statuses
    /\ failedEvents \subseteq Orders
    /\ anomalies \subseteq Orders
    /\ audit \subseteq Orders \X AuditEvents
    /\ sent \subseteq Messages
    /\ paid \subseteq Orders
    /\ due \subseteq Orders
    /\ stale \subseteq Orders
    /\ pc \in [Procs -> Calls]
    /\ order \in [Procs -> Orders \union {NoOrder}]
    /\ amount \in [Procs -> Amounts]
    /\ tries \in [Procs -> 0 .. MaxRetryPublish - 1]
    /\ batch \in [{Reconciler, Sweeper} -> SUBSET Orders]
    /\ \A p \in Procs : pc[p] # "idle" => order[p] \in Orders

\* A final status is in table payments only after Kafka has the event that
\* announces it: the service publishes first and marks second, and whatever
\* handler, retry or crash comes between, the order service is never left to
\* find out by itself.
AnnouncedBeforeRecorded ==
    \A o \in Orders :
        status[o] \notin {NoRow, PaymentStatusPending} =>
            <<o, status[o]>> \in events

\* No outcome is announced without its cause: payment at Xendit, a FAILED
\* webhook, an elapsed expired_time.  A snapshot gone stale in a loop, or a
\* late or repeated webhook, never announces an outcome that did not happen.
AnnouncementsJustified ==
    \A o \in Orders :
        /\ <<o, PaymentStatusPaid>> \in events => o \in paid
        /\ <<o, PaymentStatusFailed>> \in events =>
              \E m \in sent : m.order = o /\ m.status = PaymentStatusFailed
        /\ <<o, PaymentStatusExpired>> \in events => o \in due
        /\ <<o, PaymentStatusPending>> \notin events

\* The audit trail and the table of failed events never claim what the rest
\* of the state denies: an entry about a mark has its event, a failed event
\* has a payment, an anomaly entry has its row and a webhook with a wrong
\* amount.  Where no audit write fails, no handler announces unaudited.
AuditTruthful ==
    \A o \in Orders :
        /\ <<o, "MARK_PAID">> \in audit => <<o, PaymentStatusPaid>> \in events
        /\ <<o, "PAYMENT_EXPIRED">> \in audit =>
              <<o, PaymentStatusExpired>> \in events
        /\ <<o, "PAYMENT_ANOMALY_DETECTED">> \in audit => o \in anomalies
        /\ \A s \in {PaymentStatusPaid, PaymentStatusFailed} :
              <<o, s>> \in events /\ FALSE \notin AuditOutcomes =>
                 <<o, AttemptEntry(s)>> \in audit
        /\ o \in failedEvents => o \in paid
        /\ o \in anomalies => \E m \in sent : m.order = o /\ m.amount = "wrong"

\* o is recorded PAID, no failure of it was ever reported, and the sweeper is
\* not already past its second read of o.
Settled(o) ==
    /\ status[o] = PaymentStatusPaid
    /\ \A m \in sent : m.order = o => m.status # PaymentStatusFailed
    /\ ~ (order[Sweeper] = o /\ pc[Sweeper] \in {"sw_publish", "sw_mark"})

\* A settled order stays settled, whatever comes later: repeated webhooks, the
\* reconciler with an old batch, the sweeper with an old batch (its second
\* read of the row protects the order), crashes.  The code gives no more: a
\* FAILED webhook that is late, or a sweep past its second read, overwrites
\* PAID, which is what Settled excludes.
SettledStays == [][\A o \in Orders : Settled(o) => Settled(o)']_vars

\* The evidence there is for an outcome of an order.
Evidence ==
    {<<o, PaymentStatusPaid>> : o \in paid}
    \union {<<m.order, PaymentStatusFailed>> :
               m \in {n \in sent : n.status = PaymentStatusFailed}}
    \union {<<o, PaymentStatusExpired>> : o \in due}

\* The code implements the announce-then-record protocol of Announcement.
Abstract == INSTANCE Announcement WITH
    evidence <- Evidence, announced <- events, recorded <- status

ImplementsAnnouncement == Abstract!Spec

\* A payment whose expired_time has passed does not stay PENDING for ever.
DueDecided ==
    \A o \in Orders :
        (o \in due /\ status[o] = PaymentStatusPending)
            ~> (status[o] # PaymentStatusPending)

\* A payment that succeeded at Xendit is announced even if its webhook never
\* arrives, provided the reconciler still looks at the row: it leaves PENDING
\* some other way (FAILED, EXPIRED) or grows older than a day otherwise.
PaidAnnounced ==
    \A o \in Orders :
        (o \in paid /\ status[o] = PaymentStatusPending)
            ~> \/ <<o, PaymentStatusPaid>> \in events
               \/ status[o] # PaymentStatusPending
               \/ o \in stale

\* What docs/CURRENT_PAYMENT_FLOW.md promises of the reconciler, which stands in
\* for a webhook that does not arrive: a paid order that has its row is recorded
\* PAID in the end.  Rows the reconciler no longer looks at and orders with a
\* FAILED webhook are left out, and still the code does not keep it.
PaidIsRecorded ==
    \A o \in Orders :
        (o \in paid /\ status[o] = PaymentStatusPending)
            ~> \/ status[o] = PaymentStatusPaid
               \/ o \in stale
               \/ \E m \in sent : m.order = o /\ m.status = PaymentStatusFailed
==============================================================================

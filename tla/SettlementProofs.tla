-------------------------- MODULE SettlementProofs --------------------------
(***************************************************************************)
(* Proofs about Settlement, for any number of orders and webhook handlers, *)
(* any number of publish attempts and every outcome of the remote calls.   *)
(***************************************************************************)
EXTENDS Settlement, TLAPS

\* What the three publishing calls announce, and where they lead.
LEMMA PublishTable ==
    ASSUME NEW c \in PublishCalls
    PROVE  /\ c = "ok_publish" => /\ Announces(c) = PaymentStatusPaid
                                  /\ RecordedBy(c) = "ok_mark"
           /\ c = "ko_publish" => /\ Announces(c) = PaymentStatusFailed
                                  /\ RecordedBy(c) = "ko_mark"
           /\ c = "sw_publish" => /\ Announces(c) = PaymentStatusExpired
                                  /\ RecordedBy(c) = "sw_mark"
           /\ Announces(c) \in Statuses \ {PaymentStatusPending}
           /\ RecordedBy(c) \in {"ok_mark", "ko_mark", "sw_mark"}
  BY DEF PublishCalls, Announces, RecordedBy, Statuses, PaymentStatusPaid,
         PaymentStatusFailed, PaymentStatusPending, PaymentStatusExpired

\* Types: the initial states.
LEMMA TypeInit == Init => TypeOK
  BY RetryAssumption DEF Init, TypeOK, Calls, Amounts, Messages, Statuses, Procs

\* Types: every step keeps them, one action at a time.
LEMMA TypeStep == TypeOK /\ [Next]_vars => TypeOK'
  <1> SUFFICES ASSUME TypeOK, [Next]_vars PROVE TypeOK'
    OBVIOUS
  <1> USE ActorsAssumption, RetryAssumption, OutcomesAssumption
      DEF TypeOK, Procs, db, world, locals
  <1>1. ASSUME NEW w \in Webhooks, ReceiveWebhook(w) PROVE TypeOK'
    BY <1>1 DEF ReceiveWebhook, Handle, Messages, Calls
  <1>2. ASSUME NEW w \in Webhooks, CheckWebhookPaid(w) PROVE TypeOK'
    BY <1>2 DEF CheckWebhookPaid, Return, Goto, Calls, Amounts
  <1>3. ASSUME NEW w \in Webhooks, CompareAmount(w) PROVE TypeOK'
    BY <1>3 DEF CompareAmount, Return, Goto, Calls, Amounts
  <1>4. ASSUME NEW w \in Webhooks, SavePaymentAnomaly(w) PROVE TypeOK'
    BY <1>4 DEF SavePaymentAnomaly, Return, SaveAuditLog, AuditEvents,
                Calls, Amounts
  <1>5. ASSUME NEW w \in Webhooks, GetPaymentOfFailed(w) PROVE TypeOK'
    BY <1>5 DEF GetPaymentOfFailed, Return, Goto, Calls, Amounts
  <1>6. ASSUME NEW w \in Webhooks, MarkFailed(w) PROVE TypeOK'
    BY <1>6 DEF MarkFailed, MarkStatus, Return, Statuses, Calls, Amounts
  <1>7. ASSUME NEW p \in Procs, CheckPaid(p) PROVE TypeOK'
    BY <1>7 DEF CheckPaid, Return, Goto, Calls, Amounts
  <1>8. ASSUME NEW p \in Procs, SaveFailedPublishEvent(p) PROVE TypeOK'
    BY <1>8 DEF SaveFailedPublishEvent, Return, Calls, Amounts
  <1>9. ASSUME NEW p \in Procs, MarkPaid(p) PROVE TypeOK'
    BY <1>9 DEF MarkPaid, MarkStatus, SaveAuditLog, AuditEvents, Return,
                Statuses, Calls, Amounts
  <1>10. ASSUME NEW p \in Procs, PublishAcked(p) PROVE TypeOK'
    <2>1. Announces(pc[p]) \in Statuses /\ RecordedBy(pc[p]) \in Calls
      BY <1>10, PublishTable DEF PublishAcked, Calls
    <2>2. order[p] \in Orders
      BY <1>10 DEF PublishAcked, PublishCalls
    <2> QED
      BY <1>10, <2>1, <2>2
         DEF PublishAcked, AuditAttempt, AttemptEntry, SaveAuditLog, AuditEvents,
             PublishCalls, Calls
  <1>11. ASSUME NEW p \in Procs, PublishFails(p) PROVE TypeOK'
    <2>1. Announces(pc[p]) \in Statuses /\ RecordedBy(pc[p]) \in Calls
      BY <1>11, PublishTable DEF PublishFails, Calls
    <2>2. order[p] \in Orders
      BY <1>11 DEF PublishFails, PublishCalls
    <2> QED
      BY <1>11, <2>1, <2>2
         DEF PublishFails, AuditAttempt, AttemptEntry, SaveAuditLog, AuditEvents,
             PublishCalls, AttemptsLeft, GiveUp, Return, Calls, Amounts
  <1>12. ASSUME NEW p \in Procs, ReadFails(p) PROVE TypeOK'
    BY <1>12 DEF ReadFails, Return, Calls, Amounts
  <1>13. ASSUME ReconcilerTick PROVE TypeOK'
    BY <1>13 DEF ReconcilerTick, GetPendingInvoices
  <1>14. ASSUME SweeperTick PROVE TypeOK'
    BY <1>14 DEF SweeperTick, GetExpiredPendingPayments
  <1>15. ASSUME MarkExpired PROVE TypeOK'
    BY <1>15 DEF MarkExpired, MarkStatus, SaveAuditLog, AuditEvents, Return,
                Statuses, Calls, Amounts
  <1>16. ASSUME NEW o \in Orders, InvoicePaid(o) PROVE TypeOK'
    BY <1>16 DEF InvoicePaid, Handle, Calls, Amounts
  <1>17. ASSUME NEW o \in Orders, InvoiceSkipped(o) PROVE TypeOK'
    BY <1>17 DEF InvoiceSkipped
  <1>18. ASSUME NEW o \in Orders, SweepStillPending(o) PROVE TypeOK'
    BY <1>18 DEF SweepStillPending, Handle, Calls, Amounts
  <1>19. ASSUME NEW o \in Orders, SweepSkipped(o) PROVE TypeOK'
    BY <1>19 DEF SweepSkipped
  <1>20. ASSUME NEW o \in Orders, SavePayment(o) PROVE TypeOK'
    BY <1>20 DEF SavePayment, Statuses
  <1>21. ASSUME NEW o \in Orders, Pay(o) PROVE TypeOK'
    BY <1>21 DEF Pay, Messages, Amounts
  <1>22. ASSUME NEW o \in Orders, AttemptFails(o) PROVE TypeOK'
    BY <1>22 DEF AttemptFails, Messages, Amounts
  <1>23. ASSUME NEW o \in Orders, InvoiceExpires(o) PROVE TypeOK'
    BY <1>23 DEF InvoiceExpires
  <1>24. ASSUME NEW o \in Orders, RowAges(o) PROVE TypeOK'
    BY <1>24 DEF RowAges
  <1>25. ASSUME Crash PROVE TypeOK'
    BY <1>25 DEF Crash, Calls, Amounts
  <1>26. CASE UNCHANGED vars
    BY <1>26 DEF vars
  <1> QED
    BY <1>1, <1>2, <1>3, <1>4, <1>5, <1>6, <1>7, <1>8, <1>9, <1>10, <1>11, <1>12,
       <1>13, <1>14, <1>15, <1>16, <1>17, <1>18, <1>19, <1>20, <1>21, <1>22,
       <1>23, <1>24, <1>25, <1>26
       DEF Next, WebhookStep, ReconcilerStep, SweeperStep, Environment

-----------------------------------------------------------------------------
(* What a step may do to one variable. *)

\* Which steps change the variables that the other processes see.
LEMMA Footprint ==
    ASSUME [Next]_vars
    PROVE  /\ \/ UNCHANGED sent
              \/ \E o \in Orders : Pay(o) \/ AttemptFails(o)
           /\ \/ UNCHANGED <<sent, paid, due>>
              \/ \E o \in Orders : Pay(o) \/ AttemptFails(o) \/ InvoiceExpires(o)
           /\ \/ UNCHANGED events
              \/ \E p \in Procs : PublishAcked(p) \/ PublishFails(p)
           /\ \/ UNCHANGED status
              \/ \E p \in Procs : MarkPaid(p) \/ MarkFailed(p)
              \/ MarkExpired
              \/ \E o \in Orders : SavePayment(o)
           /\ \/ UNCHANGED <<audit, failedEvents, anomalies>>
              \/ \E p \in Procs : \/ MarkPaid(p) \/ SaveFailedPublishEvent(p)
                                  \/ PublishAcked(p) \/ PublishFails(p)
              \/ \E w \in Webhooks : SavePaymentAnomaly(w)
              \/ MarkExpired
  BY DEF Next, vars, db, world, locals, Procs, WebhookStep, ReconcilerStep,
         SweeperStep, Environment, ReceiveWebhook, CheckWebhookPaid,
         CompareAmount, SavePaymentAnomaly, CheckPaid, SaveFailedPublishEvent,
         MarkPaid, GetPaymentOfFailed, MarkFailed, PublishAcked, PublishFails,
         ReadFails, ReconcilerTick, InvoicePaid, InvoiceSkipped, SweeperTick,
         SweepStillPending, SweepSkipped, MarkExpired, SavePayment, Pay,
         AttemptFails, InvoiceExpires, RowAges, Crash

\* Evidence, events, anomalies and audit entries are never withdrawn.
LEMMA Monotone ==
    ASSUME [Next]_vars
    PROVE  /\ sent \subseteq sent' /\ paid \subseteq paid' /\ due \subseteq due'
           /\ events \subseteq events' /\ audit \subseteq audit'
           /\ anomalies \subseteq anomalies'
  BY Footprint
     DEF Pay, AttemptFails, InvoiceExpires, PublishAcked, PublishFails,
         SavePaymentAnomaly, SaveFailedPublishEvent, MarkPaid, MarkFailed,
         MarkExpired, SaveAuditLog, AuditAttempt, db

\* A new event is one an actor publishes, with its audit entry if the store is up.
LEMMA NewEvent ==
    ASSUME TypeOK, [Next]_vars, NEW e \in events', e \notin events
    PROVE  \E p \in Procs :
              /\ pc[p] \in PublishCalls
              /\ e = <<order[p], Announces(pc[p])>>
              /\ pc[p] # "sw_publish" /\ FALSE \notin AuditOutcomes =>
                    <<order[p], AttemptEntry(Announces(pc[p]))>> \in audit'
  <1>1. ASSUME NEW p \in Procs, PublishAcked(p) \/ PublishFails(p)
        PROVE  /\ pc[p] \in PublishCalls
               /\ e = <<order[p], Announces(pc[p])>>
               /\ pc[p] # "sw_publish" /\ FALSE \notin AuditOutcomes =>
                     <<order[p], AttemptEntry(Announces(pc[p]))>> \in audit'
    BY <1>1, OutcomesAssumption
       DEF PublishAcked, PublishFails, AuditAttempt, SaveAuditLog
  <1> QED
    BY <1>1, Footprint

\* A row is inserted PENDING, or marked by an actor that holds its order.
LEMMA NewStatus ==
    ASSUME TypeOK, [Next]_vars, NEW o \in Orders, status'[o] # status[o]
    PROVE  \/ status[o] = NoRow /\ status'[o] = PaymentStatusPending
           \/ \E p \in Procs :
                 /\ order[p] = o /\ status[o] # NoRow
                 /\ \/ pc[p] = "ok_mark" /\ status'[o] = PaymentStatusPaid
                    \/ pc[p] = "ko_mark" /\ status'[o] = PaymentStatusFailed
                    \/ /\ pc[p] = "sw_mark" /\ status'[o] = PaymentStatusExpired
                       /\ p = Sweeper
  <1> USE DEF TypeOK, MarkStatus
  <1>1. ASSUME NEW p \in Procs, MarkPaid(p)
        PROVE order[p] = o /\ status[o] # NoRow /\ pc[p] = "ok_mark"
              /\ status'[o] = PaymentStatusPaid
    BY <1>1 DEF MarkPaid
  <1>2. ASSUME NEW p \in Procs, MarkFailed(p)
        PROVE order[p] = o /\ status[o] # NoRow /\ pc[p] = "ko_mark"
              /\ status'[o] = PaymentStatusFailed
    BY <1>2 DEF MarkFailed
  <1>3. ASSUME MarkExpired
        PROVE order[Sweeper] = o /\ status[o] # NoRow /\ pc[Sweeper] = "sw_mark"
              /\ status'[o] = PaymentStatusExpired
    BY <1>3 DEF MarkExpired
  <1>4. ASSUME NEW q \in Orders, SavePayment(q)
        PROVE status[o] = NoRow /\ status'[o] = PaymentStatusPending
    BY <1>4 DEF SavePayment
  <1> QED
    BY <1>1, <1>2, <1>3, <1>4, Footprint DEF Procs

\* What the three ways of moving on do to the actor itself.
LEMMA LocalControl ==
    ASSUME TypeOK, NEW p \in Procs
    PROVE  /\ \A c : Goto(p, c) =>
                 pc'[p] = c /\ order'[p] = order[p] /\ amount'[p] = amount[p]
           /\ \A o, a, c : Handle(p, o, a, c) =>
                 pc'[p] = c /\ order'[p] = o /\ amount'[p] = a
           /\ Return(p) => pc'[p] = "idle" /\ amount'[p] = "absent"
  BY DEF TypeOK, Goto, Handle, Return

\* What one actor holds changes only when it takes up an order, goes on to its
\* next call, or returns.
LEMMA LocalStep ==
    ASSUME TypeOK, [Next]_vars, NEW p \in Procs
    PROVE  \/ pc'[p] = pc[p] /\ order'[p] = order[p] /\ amount'[p] = amount[p]
           \/ pc'[p] = "idle" /\ amount'[p] = "absent"
           \/ ReceiveWebhook(p) \/ CheckWebhookPaid(p) \/ CompareAmount(p)
           \/ GetPaymentOfFailed(p) \/ CheckPaid(p)
           \/ PublishAcked(p) \/ PublishFails(p)
           \/ p = Reconciler /\ \E o \in Orders : InvoicePaid(o)
           \/ p = Sweeper /\ \E o \in Orders : SweepStillPending(o)
  <1>1. ASSUME NEW q \in Procs, Return(q)
        PROVE  \/ pc'[p] = pc[p] /\ order'[p] = order[p] /\ amount'[p] = amount[p]
               \/ pc'[p] = "idle" /\ amount'[p] = "absent"
    BY <1>1 DEF Return, TypeOK
  <1>2. ASSUME NEW q \in Procs, NEW c, Goto(q, c), p # q
        PROVE  pc'[p] = pc[p] /\ order'[p] = order[p] /\ amount'[p] = amount[p]
    BY <1>2 DEF Goto, TypeOK
  <1>3. ASSUME NEW q \in Procs, NEW o, NEW a, NEW c, Handle(q, o, a, c), p # q
        PROVE  pc'[p] = pc[p] /\ order'[p] = order[p] /\ amount'[p] = amount[p]
    BY <1>3 DEF Handle, TypeOK
  <1>4. ASSUME NEW q \in Procs, PublishAcked(q) \/ PublishFails(q), p # q
        PROVE  pc'[p] = pc[p] /\ order'[p] = order[p] /\ amount'[p] = amount[p]
    BY <1>4 DEF PublishAcked, PublishFails, AttemptsLeft, GiveUp, Return, TypeOK
  <1> QED
    BY <1>1, <1>2, <1>3, <1>4
       DEF Next, vars, db, world, locals, Procs, WebhookStep, ReconcilerStep,
           SweeperStep, Environment, ReceiveWebhook, CheckWebhookPaid,
           CompareAmount, SavePaymentAnomaly, CheckPaid, SaveFailedPublishEvent,
           MarkPaid, GetPaymentOfFailed, MarkFailed, ReadFails, ReconcilerTick,
           InvoicePaid, InvoiceSkipped, SweeperTick, SweepStillPending,
           SweepSkipped, MarkExpired, SavePayment, Pay, AttemptFails,
           InvoiceExpires, RowAges, Crash

\* A batch is loaded by the tick of its loop, and only shrinks until the next.
LEMMA BatchStep ==
    ASSUME TypeOK, [Next]_vars, NEW p \in {Reconciler, Sweeper}
    PROVE  \/ batch'[p] \subseteq batch[p]
           \/ p = Reconciler /\ batch'[p] = GetPendingInvoices
           \/ p = Sweeper /\ batch'[p] = GetExpiredPendingPayments
  BY ActorsAssumption
     DEF TypeOK, Next, vars, db, world, locals, WebhookStep, ReconcilerStep,
         SweeperStep, Environment, ReceiveWebhook, CheckWebhookPaid,
         CompareAmount, SavePaymentAnomaly, CheckPaid, SaveFailedPublishEvent,
         MarkPaid, GetPaymentOfFailed, MarkFailed, PublishAcked, PublishFails,
         ReadFails, ReconcilerTick, InvoicePaid, InvoiceSkipped, SweeperTick,
         SweepStillPending, SweepSkipped, MarkExpired, SavePayment, Pay,
         AttemptFails, InvoiceExpires, RowAges, Crash

\* What the audit log, failed_events and payment_anomalies say is written by an
\* actor at the call it is about.
LEMMA NewRecord ==
    ASSUME TypeOK, [Next]_vars, NEW o \in Orders
    PROVE  /\ <<o, "MARK_PAID">> \in audit' \ audit =>
                 \E p \in Procs : order[p] = o /\ pc[p] = "ok_mark"
           /\ <<o, "PAYMENT_EXPIRED">> \in audit' \ audit =>
                 \E p \in Procs : order[p] = o /\ pc[p] = "sw_mark"
           /\ <<o, "PAYMENT_ANOMALY_DETECTED">> \in audit' \ audit =>
                 o \in anomalies'
           /\ o \in failedEvents' \ failedEvents =>
                 \E p \in Procs : order[p] = o /\ pc[p] = "ok_save_failed"
           /\ o \in anomalies' \ anomalies =>
                 \E p \in Procs : order[p] = o /\ pc[p] = "wh_anomaly"
  <1> USE DEF TypeOK, SaveAuditLog
  <1>1. CASE \E p \in Procs : MarkPaid(p)
    BY <1>1 DEF MarkPaid
  <1>2. CASE \E p \in Procs : SaveFailedPublishEvent(p)
    BY <1>2 DEF SaveFailedPublishEvent
  <1>3. CASE \E w \in Webhooks : SavePaymentAnomaly(w)
    BY <1>3 DEF SavePaymentAnomaly, Applied, Procs
  <1>4. CASE MarkExpired
    BY <1>4 DEF MarkExpired, Procs
  <1>5. CASE \E p \in Procs : PublishAcked(p) \/ PublishFails(p)
    BY <1>5 DEF PublishAcked, PublishFails, AuditAttempt, AttemptEntry, db
  <1>6. CASE UNCHANGED <<audit, failedEvents, anomalies>>
    BY <1>6
  <1> QED
    BY <1>1, <1>2, <1>3, <1>4, <1>5, <1>6, Footprint

-----------------------------------------------------------------------------
(* The inductive invariant. *)

FailureReported(o) ==
    \E m \in sent : m.order = o /\ m.status = PaymentStatusFailed

MismatchReported(o) == \E m \in sent : m.order = o /\ m.amount = "wrong"

SuccessCalls == {"wh_check", "wh_amount", "wh_anomaly", "ok_check",
                 "ok_publish", "ok_save_failed", "ok_mark"}
FailureCalls == {"ko_get", "ko_publish", "ko_mark"}
ExpiryCalls  == {"sw_publish", "sw_mark"}

Caused(p) ==
    /\ pc[p] \in SuccessCalls => order[p] \in paid
    /\ pc[p] \in FailureCalls => FailureReported(order[p])
    /\ pc[p] \in ExpiryCalls  => order[p] \in due
    /\ amount[p] = "wrong"    => MismatchReported(order[p])
    /\ pc[p] = "wh_anomaly"   => amount[p] = "wrong"

\* What an actor is doing has its cause: the evidence it acts on is monotone, so
\* it holds however old the actor's message or batch is.
Justified ==
    /\ \A m \in sent : m.status = PaymentStatusPaid => m.order \in paid
    /\ batch[Sweeper] \subseteq due
    /\ \A p \in Procs : Caused(p)

\* An actor about to mark an outcome has announced it.
MarksAnnounced ==
    \A p \in Procs :
        /\ pc[p] = "ok_mark" => <<order[p], PaymentStatusPaid>> \in events
        /\ pc[p] = "ko_mark" => <<order[p], PaymentStatusFailed>> \in events
        /\ pc[p] = "sw_mark" => <<order[p], PaymentStatusExpired>> \in events

\* An actor that announces or marks an outcome has seen the row of its order,
\* and rows are not deleted.
RowsSeen ==
    /\ \A p \in {Reconciler, Sweeper} : \A o \in batch[p] : status[o] # NoRow
    /\ \A p \in Procs :
          pc[p] \notin {"idle", "wh_check", "wh_amount", "ko_get"} =>
              status[order[p]] # NoRow

IInv ==
    /\ TypeOK
    /\ Justified
    /\ MarksAnnounced
    /\ RowsSeen
    /\ AnnouncementsJustified
    /\ AnnouncedBeforeRecorded
    /\ AuditTruthful

\* The process starts with no evidence, no event and no busy actor.
LEMMA InitIInv == Init => IInv
  <1> SUFFICES ASSUME Init PROVE IInv
    OBVIOUS
  <1>1. TypeOK
    BY TypeInit
  <1>2. Justified /\ MarksAnnounced /\ RowsSeen
    BY DEF Init, Justified, MarksAnnounced, RowsSeen, SuccessCalls, FailureCalls,
           ExpiryCalls, Procs, Caused
  <1>3. AnnouncementsJustified /\ AnnouncedBeforeRecorded /\ AuditTruthful
    BY DEF Init, AnnouncementsJustified, AnnouncedBeforeRecorded, AuditTruthful
  <1> QED
    BY <1>1, <1>2, <1>3 DEF IInv

-----------------------------------------------------------------------------
(* Each conjunct of the invariant is preserved. *)

\* Only an acknowledged publish leads to a marking call.
LEMMA MarksStep ==
    ASSUME TypeOK, MarksAnnounced, [Next]_vars
    PROVE  MarksAnnounced'
  <1>1. ASSUME NEW p \in Procs, pc'[p] \in {"ok_mark", "ko_mark", "sw_mark"}
        PROVE  \/ pc'[p] = pc[p] /\ order'[p] = order[p]
               \/ PublishAcked(p)
    <2>1. CASE PublishFails(p)
      BY <1>1, <2>1, LocalControl DEF PublishFails, GiveUp, TypeOK
    <2>2. CASE ~ PublishFails(p) /\ ~ PublishAcked(p)
      BY <1>1, <2>2, LocalStep, LocalControl
         DEF ReceiveWebhook, CheckWebhookPaid, CompareAmount, GetPaymentOfFailed,
             CheckPaid, InvoicePaid, SweepStillPending
    <2> QED
      BY <2>1, <2>2
  <1>2. ASSUME NEW p \in Procs, PublishAcked(p)
        PROVE  MarksAnnounced'
    BY <1>2, PublishTable DEF PublishAcked, PublishCalls, MarksAnnounced, TypeOK
  <1> QED
    BY <1>1, <1>2, Monotone DEF MarksAnnounced

\* A row that was read exists from then on.
LEMMA RowsStep ==
    ASSUME TypeOK, RowsSeen, [Next]_vars
    PROVE  RowsSeen'
  <1>1. \A o \in Orders : status[o] # NoRow => status'[o] # NoRow
    BY NewStatus DEF NoRow, PaymentStatusPaid, PaymentStatusFailed,
                     PaymentStatusPending, PaymentStatusExpired
  <1>2. TypeOK'
    BY TypeStep
  <1>3. ASSUME NEW p \in {Reconciler, Sweeper}, NEW o \in batch'[p]
        PROVE  status'[o] # NoRow
    <2>1. o \in batch[p] \/ status[o] = PaymentStatusPending
      BY <1>3, BatchStep DEF GetPendingInvoices, GetExpiredPendingPayments
    <2>2. status[o] # NoRow
      BY <2>1 DEF RowsSeen, NoRow, PaymentStatusPending
    <2> QED
      BY <1>1, <1>2, <1>3, <2>2 DEF TypeOK
  <1>4. ASSUME NEW p \in Procs,
               pc'[p] \notin {"idle", "wh_check", "wh_amount", "ko_get"}
        PROVE  status[order'[p]] # NoRow
    <2> USE LocalControl DEF TypeOK, RowsSeen
    <2>1. CASE pc'[p] = pc[p] /\ order'[p] = order[p]
      BY <1>4, <2>1
    <2>2. CASE ReceiveWebhook(p) \/ CheckWebhookPaid(p)
      BY <1>4, <2>2 DEF ReceiveWebhook, CheckWebhookPaid
    <2>3. CASE CompareAmount(p)
      BY <1>4, <2>3 DEF CompareAmount
    <2>4. CASE GetPaymentOfFailed(p)
      BY <1>4, <2>4 DEF GetPaymentOfFailed, NothingToFail
    <2>5. CASE CheckPaid(p)
      BY <1>4, <2>5 DEF CheckPaid
    <2>6. CASE PublishAcked(p)
      BY <1>4, <2>6 DEF PublishAcked, PublishCalls
    <2>7. CASE PublishFails(p)
      BY <1>4, <2>7 DEF PublishFails, GiveUp, PublishCalls
    <2>8. CASE p = Reconciler /\ \E o \in Orders : InvoicePaid(o)
      BY <1>4, <2>8 DEF InvoicePaid
    <2>9. CASE p = Sweeper /\ \E o \in Orders : SweepStillPending(o)
      BY <1>4, <2>9 DEF SweepStillPending
    <2> QED
      BY <1>4, <2>1, <2>2, <2>3, <2>4, <2>5, <2>6, <2>7, <2>8, <2>9, LocalStep
  <1>5. \A p \in Procs : pc'[p] # "idle" => order'[p] \in Orders
    BY <1>2 DEF TypeOK
  <1> QED
    BY <1>1, <1>3, <1>4, <1>5 DEF RowsSeen

\* Each call of an actor inherits its cause from the call before it, the first
\* one from the webhook, from Xendit's answer or from the expiry query.
LEMMA JustifiedStep ==
    ASSUME TypeOK, Justified, [Next]_vars
    PROVE  Justified'
  <1>1. \A m \in sent' : m.status = PaymentStatusPaid => m.order \in paid'
    <2>1. CASE \E o \in Orders : Pay(o)
      BY <2>1, Monotone DEF Pay, Justified, PaymentStatusPaid
    <2>2. CASE \E o \in Orders : AttemptFails(o)
      BY <2>2 DEF AttemptFails, Justified, PaymentStatusPaid, PaymentStatusFailed
    <2>3. CASE UNCHANGED sent
      BY <2>3, Monotone DEF Justified
    <2> QED
      BY <2>1, <2>2, <2>3, Footprint
  <1>2. batch'[Sweeper] \subseteq due'
    BY BatchStep, Monotone, ActorsAssumption
       DEF Justified, GetExpiredPendingPayments
  <1>3. ASSUME NEW p \in Procs PROVE Caused(p)'
    <2> USE DEF Caused, FailureReported, MismatchReported
    <2> DEFINE Now == /\ pc'[p] \in SuccessCalls => order'[p] \in paid
                      /\ pc'[p] \in FailureCalls => FailureReported(order'[p])
                      /\ pc'[p] \in ExpiryCalls  => order'[p] \in due
                      /\ amount'[p] = "wrong"    => MismatchReported(order'[p])
                      /\ pc'[p] = "wh_anomaly"   => amount'[p] = "wrong"
    <2> SUFFICES Now
      BY Monotone
    <2> USE LocalControl DEF TypeOK, Justified, SuccessCalls, FailureCalls,
                             ExpiryCalls
    <2>1. CASE pc'[p] = pc[p] /\ order'[p] = order[p] /\ amount'[p] = amount[p]
      BY <2>1
    <2>2. CASE pc'[p] = "idle" /\ amount'[p] = "absent"
      BY <2>2
    <2>3. CASE ReceiveWebhook(p)
      BY <2>3 DEF ReceiveWebhook, Messages
    <2>4. CASE CheckWebhookPaid(p)
      BY <2>4 DEF CheckWebhookPaid
    <2>5. CASE CompareAmount(p)
      BY <2>5 DEF CompareAmount, AmountMismatch
    <2>6. CASE GetPaymentOfFailed(p)
      BY <2>6 DEF GetPaymentOfFailed
    <2>7. CASE CheckPaid(p)
      BY <2>7 DEF CheckPaid
    <2>8. CASE PublishAcked(p)
      BY <2>8, PublishTable DEF PublishAcked, PublishCalls
    <2>9. CASE PublishFails(p)
      BY <2>9 DEF PublishFails, GiveUp, PublishCalls
    <2>10. CASE p = Reconciler /\ \E o \in Orders : InvoicePaid(o)
      BY <2>10 DEF InvoicePaid
    <2>11. CASE p = Sweeper /\ \E o \in Orders : SweepStillPending(o)
      BY <2>11 DEF SweepStillPending
    <2> QED
      BY <2>1, <2>2, <2>3, <2>4, <2>5, <2>6, <2>7, <2>8, <2>9, <2>10, <2>11,
         LocalStep
  <1> QED
    BY <1>1, <1>2, <1>3 DEF Justified

\* An actor that publishes has a cause for what it announces.
LEMMA AnnouncementsStep ==
    ASSUME TypeOK, Justified, AnnouncementsJustified, [Next]_vars
    PROVE  AnnouncementsJustified'
  <1>1. ASSUME NEW o \in Orders, NEW s, <<o, s>> \in events', <<o, s>> \notin events
        PROVE  \/ s = PaymentStatusPaid /\ o \in paid
               \/ s = PaymentStatusFailed /\ FailureReported(o)
               \/ s = PaymentStatusExpired /\ o \in due
    <2>1. PICK p \in Procs : /\ pc[p] \in PublishCalls
                             /\ o = order[p] /\ s = Announces(pc[p])
      BY <1>1, NewEvent
    <2>2. Caused(p)
      BY DEF Justified
    <2> QED
      BY <2>1, <2>2, PublishTable
         DEF Caused, PublishCalls, SuccessCalls, FailureCalls, ExpiryCalls
  <1>2. ASSUME NEW o \in Orders, FailureReported(o)
        PROVE  \E m \in sent' : m.order = o /\ m.status = PaymentStatusFailed
    BY <1>2, Monotone DEF FailureReported
  <1>3. ASSUME NEW o \in Orders
        PROVE  /\ <<o, PaymentStatusPaid>> \in events' => o \in paid'
               /\ <<o, PaymentStatusFailed>> \in events' => FailureReported(o)
               /\ <<o, PaymentStatusExpired>> \in events' => o \in due'
               /\ <<o, PaymentStatusPending>> \notin events'
    BY <1>1, Monotone
       DEF AnnouncementsJustified, FailureReported, PaymentStatusPaid,
           PaymentStatusFailed, PaymentStatusExpired, PaymentStatusPending
  <1> QED
    BY <1>2, <1>3 DEF AnnouncementsJustified

\* An actor that marks a row has announced what it marks.
LEMMA RecordedStep ==
    ASSUME TypeOK, MarksAnnounced, AnnouncedBeforeRecorded, [Next]_vars
    PROVE  AnnouncedBeforeRecorded'
  <1> SUFFICES ASSUME NEW o \in Orders,
                      status'[o] \notin {NoRow, PaymentStatusPending}
               PROVE  <<o, status'[o]>> \in events'
    BY DEF AnnouncedBeforeRecorded
  <1>1. CASE status'[o] = status[o]
    BY <1>1, Monotone DEF AnnouncedBeforeRecorded
  <1>2. CASE status'[o] # status[o]
    BY <1>2, NewStatus, Monotone DEF MarksAnnounced
  <1> QED
    BY <1>1, <1>2

\* What is written beside a call is about what that call did.
LEMMA AuditStep ==
    ASSUME TypeOK, Justified, MarksAnnounced, AuditTruthful, [Next]_vars
    PROVE  AuditTruthful'
  <1> SUFFICES ASSUME NEW o \in Orders
               PROVE  /\ <<o, "MARK_PAID">> \in audit' =>
                            <<o, PaymentStatusPaid>> \in events'
                      /\ <<o, "PAYMENT_EXPIRED">> \in audit' =>
                            <<o, PaymentStatusExpired>> \in events'
                      /\ <<o, "PAYMENT_ANOMALY_DETECTED">> \in audit' =>
                            o \in anomalies'
                      /\ \A s \in {PaymentStatusPaid, PaymentStatusFailed} :
                            <<o, s>> \in events' /\ FALSE \notin AuditOutcomes =>
                               <<o, AttemptEntry(s)>> \in audit'
                      /\ o \in failedEvents' => o \in paid'
                      /\ o \in anomalies' =>
                            \E m \in sent' : m.order = o /\ m.amount = "wrong"
    BY DEF AuditTruthful
  <1>1. ASSUME <<o, "MARK_PAID">> \in audit'
        PROVE  <<o, PaymentStatusPaid>> \in events'
    <2>1. CASE <<o, "MARK_PAID">> \in audit
      BY <2>1, Monotone DEF AuditTruthful
    <2>2. CASE ~ (<<o, "MARK_PAID">> \in audit)
      <3>1. PICK p \in Procs : order[p] = o /\ pc[p] = "ok_mark"
        BY <1>1, <2>2, NewRecord
      <3> QED
        BY <3>1, Monotone DEF MarksAnnounced
    <2> QED
      BY <2>1, <2>2
  <1>2. ASSUME <<o, "PAYMENT_EXPIRED">> \in audit'
        PROVE  <<o, PaymentStatusExpired>> \in events'
    <2>1. CASE <<o, "PAYMENT_EXPIRED">> \in audit
      BY <2>1, Monotone DEF AuditTruthful
    <2>2. CASE ~ (<<o, "PAYMENT_EXPIRED">> \in audit)
      <3>1. PICK p \in Procs : order[p] = o /\ pc[p] = "sw_mark"
        BY <1>2, <2>2, NewRecord
      <3> QED
        BY <3>1, Monotone DEF MarksAnnounced
    <2> QED
      BY <2>1, <2>2
  <1>3. <<o, "PAYMENT_ANOMALY_DETECTED">> \in audit' => o \in anomalies'
    BY NewRecord, Monotone DEF AuditTruthful
  <1>4. ASSUME NEW s \in {PaymentStatusPaid, PaymentStatusFailed},
               <<o, s>> \in events', FALSE \notin AuditOutcomes
        PROVE  <<o, AttemptEntry(s)>> \in audit'
    <2>1. CASE <<o, s>> \in events
      BY <1>4, <2>1, Monotone DEF AuditTruthful
    <2>2. CASE <<o, s>> \notin events
      BY <1>4, <2>2, NewEvent, PublishTable
         DEF PublishCalls, PaymentStatusPaid, PaymentStatusFailed,
             PaymentStatusExpired
    <2> QED
      BY <2>1, <2>2
  <1>5. ASSUME o \in failedEvents'
        PROVE  o \in paid'
    <2>1. CASE o \in failedEvents
      BY <2>1, Monotone DEF AuditTruthful
    <2>2. CASE ~ (o \in failedEvents)
      <3>1. PICK p \in Procs : order[p] = o /\ pc[p] = "ok_save_failed"
        BY <1>5, <2>2, NewRecord
      <3> QED
        BY <3>1, Monotone DEF Justified, Caused, SuccessCalls
    <2> QED
      BY <2>1, <2>2
  <1>6. ASSUME o \in anomalies'
        PROVE  \E m \in sent' : m.order = o /\ m.amount = "wrong"
    <2>1. CASE o \in anomalies
      BY <2>1, Monotone DEF AuditTruthful
    <2>2. CASE ~ (o \in anomalies)
      <3>1. PICK p \in Procs : order[p] = o /\ pc[p] = "wh_anomaly"
        BY <1>6, <2>2, NewRecord
      <3> QED
        BY <3>1, Monotone DEF Justified, Caused, MismatchReported
    <2> QED
      BY <2>1, <2>2
  <1> QED
    BY <1>1, <1>2, <1>3, <1>4, <1>5, <1>6

\* The invariant is inductive.
LEMMA IInvStep == IInv /\ [Next]_vars => IInv'
  <1> SUFFICES ASSUME IInv, [Next]_vars PROVE IInv'
    OBVIOUS
  <1>1. TypeOK'
    BY TypeStep DEF IInv
  <1>2. Justified' /\ MarksAnnounced' /\ RowsSeen'
    BY JustifiedStep, MarksStep, RowsStep DEF IInv
  <1>3. AnnouncementsJustified' /\ AnnouncedBeforeRecorded' /\ AuditTruthful'
    BY AnnouncementsStep, RecordedStep, AuditStep DEF IInv
  <1> QED
    BY <1>1, <1>2, <1>3 DEF IInv

-----------------------------------------------------------------------------
(* The theorems. *)

\* Every variable keeps its type, and a busy actor always holds an order.
THEOREM TypeCorrect == Spec => []TypeOK
  BY TypeInit, TypeStep, PTL DEF Spec

\* The inductive invariant holds of every reachable state.
THEOREM InductiveInvariant == Spec => []IInv
  BY InitIInv, IInvStep, PTL DEF Spec

\* Publish first, mark second (service.go, scheduler_service.go): a final status
\* in table payments always has its event on Kafka.
THEOREM RecordedOutcomesAnnounced == Spec => []AnnouncedBeforeRecorded
  <1>1. IInv => AnnouncedBeforeRecorded
    BY DEF IInv
  <1> QED
    BY <1>1, InductiveInvariant, PTL

\* However late, repeated or stale a webhook or a batch is, no handler announces
\* an outcome that has no cause.
THEOREM OutcomesHaveCauses == Spec => []AnnouncementsJustified
  <1>1. IInv => AnnouncementsJustified
    BY DEF IInv
  <1> QED
    BY <1>1, InductiveInvariant, PTL

\* The audit log, failed_events and payment_anomalies agree with the events, the
\* payments and the webhooks they are about.
THEOREM AuditTrailTruthful == Spec => []AuditTruthful
  <1>1. IInv => AuditTruthful
    BY DEF IInv
  <1> QED
    BY <1>1, InductiveInvariant, PTL

\* A settled order stays settled: the sweeper's second read of the row and the
\* evidence every handler needs protect a recorded payment.
LEMMA SettledStep ==
    ASSUME IInv, [Next]_vars, NEW o \in Orders, Settled(o)
    PROVE  Settled(o)'
  <1> USE DEF IInv
  <1>1. o \in paid
    BY DEF Settled, AnnouncedBeforeRecorded, AnnouncementsJustified, NoRow,
           PaymentStatusPaid, PaymentStatusPending
  <1>2. ~ FailureReported(o)
    BY DEF Settled, FailureReported
  <1>3. status'[o] = PaymentStatusPaid
    <2> SUFFICES ASSUME status'[o] # status[o] PROVE FALSE
      BY DEF Settled
    <2>1. PICK p \in Procs :
             /\ order[p] = o
             /\ \/ pc[p] = "ok_mark" /\ status'[o] = PaymentStatusPaid
                \/ pc[p] = "ko_mark"
                \/ pc[p] = "sw_mark" /\ p = Sweeper
      BY NewStatus DEF Settled, NoRow, PaymentStatusPaid
    <2>2. Caused(p)
      BY DEF Justified
    <2> QED
      BY <1>2, <2>1, <2>2 DEF Settled, Caused, FailureCalls
  <1>4. \A m \in sent' : m.order = o => m.status # PaymentStatusFailed
    <2>1. CASE \E q \in Orders : Pay(q)
      BY <2>1 DEF Pay, Settled, PaymentStatusPaid, PaymentStatusFailed
    <2>2. CASE \E q \in Orders : AttemptFails(q)
      BY <1>1, <2>2 DEF AttemptFails, Settled
    <2>3. CASE UNCHANGED sent
      BY <2>3 DEF Settled
    <2> QED
      BY <2>1, <2>2, <2>3, Footprint
  <1>5. ~ (order'[Sweeper] = o /\ pc'[Sweeper] \in {"sw_publish", "sw_mark"})
    <2> USE LocalControl DEF Procs
    <2>1. CASE SweepStillPending(o)
      BY <2>1 DEF SweepStillPending, StillPending, Settled, PaymentStatusPaid,
                  PaymentStatusPending
    <2>2. CASE PublishAcked(Sweeper)
      BY <2>2, PublishTable
         DEF PublishAcked, PublishCalls, Settled, TypeOK
    <2>3. CASE PublishFails(Sweeper)
      BY <2>3 DEF PublishFails, GiveUp, PublishCalls, Settled, TypeOK
    <2>4. CASE /\ pc'[Sweeper] = pc[Sweeper]
               /\ order'[Sweeper] = order[Sweeper]
      BY <2>4 DEF Settled
    <2>5. CASE \E q \in Orders \ {o} : SweepStillPending(q)
      BY <2>5 DEF SweepStillPending
    <2> QED
      BY <2>1, <2>2, <2>3, <2>4, <2>5, LocalStep, ActorsAssumption
         DEF ReceiveWebhook, CheckWebhookPaid, CompareAmount, GetPaymentOfFailed,
             CheckPaid
  <1> QED
    BY <1>3, <1>4, <1>5 DEF Settled

\* Once recorded PAID, with no failure reported and no sweep past its second
\* read, an order stays so whatever steps follow.
THEOREM SettledOrdersStay == Spec => SettledStays
  <1>1. IInv /\ [Next]_vars => [\A o \in Orders : Settled(o) => Settled(o)']_vars
    BY SettledStep
  <1> QED
    BY <1>1, InductiveInvariant, PTL DEF Spec, SettledStays

-----------------------------------------------------------------------------
(* The code implements Announcement. *)

\* An initial state is one of the protocol.
LEMMA AbstractInit == Init => Abstract!Init
  BY DEF Init, Abstract!Init, Evidence, NoRow, Abstract!NoRow

\* A publish announces, a mark records, an insert opens, Xendit and the clock
\* bring evidence; every other step of the code is invisible to the protocol.
LEMMA AbstractStep == IInv /\ [Next]_vars => [Abstract!Next]_Abstract!avars
  <1> SUFFICES ASSUME IInv, [Next]_vars
               PROVE  Abstract!Next \/ UNCHANGED <<Evidence, events, status>>
    BY DEF Abstract!avars
  <1> USE DEF IInv
  <1> DEFINE Outcome == {PaymentStatusPaid, PaymentStatusFailed,
                         PaymentStatusExpired}
  <1>1. ASSUME NEW o \in Orders, NEW s \in Outcome,
               \/ Abstract!Discover(o, s)
               \/ Abstract!Announce(o, s)
               \/ Abstract!Record(o, s)
        PROVE  Abstract!Next
    BY <1>1
       DEF Abstract!Next, Abstract!Outcomes, Abstract!PaymentStatusPaid,
           Abstract!PaymentStatusFailed, Abstract!PaymentStatusExpired,
           PaymentStatusPaid, PaymentStatusFailed, PaymentStatusExpired
  <1>2. ASSUME NEW p \in Procs, PublishAcked(p) \/ PublishFails(p)
        PROVE  Abstract!Next \/ UNCHANGED <<Evidence, events, status>>
    <2> DEFINE o == order[p]
               s == Announces(pc[p])
    <2>1. /\ pc[p] \in PublishCalls
          /\ UNCHANGED <<Evidence, status>>
          /\ events' \in {events, events \union {<<o, s>>}}
      BY <1>2 DEF PublishAcked, PublishFails, Evidence, db, world
    <2>2. o \in Orders /\ status[o] # NoRow
      BY <2>1 DEF TypeOK, RowsSeen, PublishCalls
    <2>3. Caused(p)
      BY DEF Justified
    <2>4. s \in Outcome /\ <<o, s>> \in Evidence
      BY <2>1, <2>3, PublishTable
         DEF Caused, PublishCalls, SuccessCalls, FailureCalls, ExpiryCalls,
             Evidence, FailureReported
    <2>5. CASE events' = events \union {<<o, s>>}
      <3>1. Abstract!Announce(o, s)
        BY <2>1, <2>2, <2>4, <2>5 DEF Abstract!Announce, NoRow, Abstract!NoRow
      <3> QED
        BY <1>1, <2>2, <2>4, <3>1
    <2> QED
      BY <2>1, <2>5
  <1>3. ASSUME NEW p \in Procs, NEW s, NEW r, MarkStatus(order[p], s, r),
               order[p] \in Orders, s \in Outcome, <<order[p], s>> \in events,
               UNCHANGED <<Evidence, events>>
        PROVE  Abstract!Next \/ UNCHANGED <<Evidence, events, status>>
    <2>1. CASE status' = [status EXCEPT ![order[p]] = s]
      <3>1. Abstract!Record(order[p], s)
        BY <1>3, <2>1 DEF Abstract!Record
      <3> QED
        BY <1>1, <1>3, <3>1
    <2> QED
      BY <1>3, <2>1 DEF MarkStatus
  <1>4. ASSUME NEW p \in Procs, MarkPaid(p) \/ MarkFailed(p)
        PROVE  Abstract!Next \/ UNCHANGED <<Evidence, events, status>>
    BY <1>3, <1>4
       DEF MarkPaid, MarkFailed, MarksAnnounced, TypeOK, world, Evidence
  <1>5. ASSUME MarkExpired
        PROVE  Abstract!Next \/ UNCHANGED <<Evidence, events, status>>
    BY <1>3, <1>5
       DEF MarkExpired, MarksAnnounced, TypeOK, world, Evidence, Procs
  <1>6. ASSUME NEW o \in Orders, SavePayment(o)
        PROVE  Abstract!Next
    BY <1>6
       DEF SavePayment, world, Evidence, Abstract!Next, Abstract!Open, NoRow,
           Abstract!NoRow, PaymentStatusPending, Abstract!PaymentStatusPending
  <1>7. ASSUME NEW o \in Orders, Pay(o)
        PROVE  Abstract!Next
    <2>1. Evidence' = Evidence \union {<<o, PaymentStatusPaid>>}
      BY <1>7 DEF Pay, Evidence, PaymentStatusPaid, PaymentStatusFailed
    <2>2. Abstract!Discover(o, PaymentStatusPaid)
      BY <1>7, <2>1 DEF Pay, db, Abstract!Discover
    <2> QED
      BY <1>1, <2>2
  <1>8. ASSUME NEW o \in Orders, AttemptFails(o)
        PROVE  Abstract!Next
    <2> DEFINE m == [order |-> o, status |-> PaymentStatusFailed,
                     amount |-> "absent"]
               Reports(S) == {n \in S : n.status = PaymentStatusFailed}
    <2>1. Evidence' = Evidence \union {<<o, PaymentStatusFailed>>}
      <3>1. m.order = o /\ Reports(sent') = Reports(sent) \union {m}
        BY <1>8 DEF AttemptFails
      <3> HIDE DEF m
      <3> QED
        BY <1>8, <3>1 DEF AttemptFails, Evidence
    <2>2. Abstract!Discover(o, PaymentStatusFailed)
      BY <1>8, <2>1 DEF AttemptFails, db, Abstract!Discover
    <2> QED
      BY <1>1, <2>2
  <1>9. ASSUME NEW o \in Orders, InvoiceExpires(o)
        PROVE  Abstract!Next
    <2>1. Evidence' = Evidence \union {<<o, PaymentStatusExpired>>}
      BY <1>9 DEF InvoiceExpires, Evidence
    <2>2. Abstract!Discover(o, PaymentStatusExpired)
      BY <1>9, <2>1 DEF InvoiceExpires, db, Abstract!Discover
    <2> QED
      BY <1>1, <2>2
  <1> QED
    <2>1. \/ UNCHANGED <<Evidence, events, status>>
          \/ \E p \in Procs : PublishAcked(p) \/ PublishFails(p)
          \/ \E p \in Procs : MarkPaid(p) \/ MarkFailed(p)
          \/ MarkExpired
          \/ \E o \in Orders : \/ SavePayment(o) \/ Pay(o) \/ AttemptFails(o)
                               \/ InvoiceExpires(o)
      BY Footprint DEF Evidence
    <2> QED
      BY <1>2, <1>4, <1>5, <1>6, <1>7, <1>8, <1>9, <2>1

\* Every behaviour of the handlers and loops is one of the announce-then-record
\* protocol.
THEOREM Implementation == Spec => ImplementsAnnouncement
  BY AbstractInit, AbstractStep, InductiveInvariant, PTL
     DEF Spec, ImplementsAnnouncement, Abstract!Spec
==============================================================================

--------------------------- MODULE PaymentRequests ---------------------------
(***************************************************************************)
(* How a reserved order becomes an invoiced payment.  The stock.reserved   *)
(* consumer stores a request (or, with the toggle off, creates the invoice *)
(* at once), POST /api/v1/payment/invoice creates an invoice on demand,    *)
(* StartProcessPendingPaymentRequests works off the PENDING requests, and  *)
(* StartProcessFailedPaymentRequests puts FAILED ones back.                *)
(*                                                                         *)
(* As in Settlement, an action is one remote call, with the local code up  *)
(* to the next one and the audit entry written beside it.                  *)
(***************************************************************************)
EXTENDS PaymentStatus, Naturals, FiniteSets

CONSTANTS
    Orders,                        \* order ids
    Clients,                       \* concurrent POST .../invoice requests
    Consumer,                      \* goroutine of StartStockReservedConsumer
    PendingProcessor,              \* ... of StartProcessPendingPaymentRequests
    FailedProcessor,               \* ... of StartProcessFailedPaymentRequests
    NoOrder,                       \* an idle actor handles no order
    DisableCreateInvoiceDirectly,  \* cfg.Toggle: TRUE for the batch flow
    BatchSize,                     \* LIMIT of the two queries (5)
    RetryLimit,                    \* retry_count <= ... (3)
    DbOutcomes,                    \* how a write to PostgreSQL can end
    XenditOutcomes,                \* how POST /v2/invoices can end
    AuditOutcomes                  \* whether an audit entry is stored

Processors == {PendingProcessor, FailedProcessor}
Invoicers  == Clients \union {Consumer}
Procs      == Invoicers \union Processors

ASSUME ActorsAssumption ==
    /\ PendingProcessor # FailedProcessor
    /\ Consumer \notin Clients \union Processors
    /\ Clients \intersect Processors = {}
    /\ NoOrder \notin Orders
ASSUME LimitsAssumption ==
    /\ IsFiniteSet(Orders)
    /\ BatchSize \in Nat \ {0}
    /\ RetryLimit \in Nat
ASSUME OutcomesAssumption ==
    /\ DisableCreateInvoiceDirectly \in BOOLEAN
    /\ "ok" \in DbOutcomes /\ DbOutcomes \subseteq CallOutcomes
    /\ "ok" \in XenditOutcomes /\ XenditOutcomes \subseteq CallOutcomes
    /\ AuditOutcomes \subseteq BOOLEAN /\ AuditOutcomes # {}

VARIABLES
    reserved,  \* orders whose stock.reserved event was ever published
    backlog,   \* ... and is not yet behind the consumer group's offset
    requests,  \* requests[o]: o's row of payment_requests (status NoRow: none)
    rank,      \* rank[o]: place of that row in the order of create_time
    payments,  \* orders with a row in payments (external_id is unique)
    invoices,  \* invoices[o]: invoices of o at Xendit, up to two
    audit,     \* <<o, e>>: the audit log has an entry e of o
    pc,        \* pc[p]: the call p makes next
    order,     \* order[p]: the order p is handling
    batch      \* rows of the last query a processor has left

topic  == <<reserved, backlog>>
table  == <<requests, rank>>
locals == <<pc, order, batch>>
vars   == <<topic, table, payments, invoices, audit, locals>>

Request == [status : {NoRow, PaymentStatusPending, PaymentStatusPaid,
                      PaymentStatusFailed},
            retry  : Nat]

Calls == {"idle", "save_request",
          "inv_email", "inv_create", "inv_save",
          "pp_fail", "pp_lookup", "pp_already", "pp_create", "pp_success",
          "pp_save", "fp_fail"}

AuditEvents == {"PAYMENT_REQUEST_CREATED", "INVOICE_CREATED",
                "INVOICE_CREATION_FAILED", "PAYMENT_REQUEST_RETRY"}

Init ==
    /\ reserved = {} /\ backlog = {}
    /\ requests = [o \in Orders |-> [status |-> NoRow, retry |-> 0]]
    /\ rank     = [o \in Orders |-> 0]
    /\ payments = {}
    /\ invoices = [o \in Orders |-> 0]
    /\ audit = {}
    /\ pc    = [p \in Procs |-> "idle"]
    /\ order = [p \in Procs |-> NoOrder]
    /\ batch = [p \in Processors |-> {}]

-----------------------------------------------------------------------------
(* Local control, and the writes the actors share. *)

Handle(p, o, c) ==
    /\ pc'    = [pc    EXCEPT ![p] = c]
    /\ order' = [order EXCEPT ![p] = o]

Goto(p, c) ==
    /\ pc' = [pc EXCEPT ![p] = c]
    /\ UNCHANGED order

Return(p) == Handle(p, NoOrder, "idle")

SaveAuditLog(o, e) ==
    \E saved \in AuditOutcomes :
        audit' = IF saved THEN audit \union {<<o, e>>} ELSE audit

HasRow(o) == requests[o].status # NoRow
InStatus(o, s) == requests[o].status = s

\* Invoices are counted up to "two or more".
ManyInvoices == 2

\* Mutant: the status code of the answer is not looked at.
AnyAnswer(r) == r # "lost"

\* The caller holds an invoice.
InvoiceMade(r) == r = "ok"

\* XenditClient.CreateInvoice: each call that reaches Xendit is a new invoice.
CreateInvoice(o, r) ==
    invoices' = IF Applied(r) /\ invoices[o] < ManyInvoices
                THEN [invoices EXCEPT ![o] = @ + 1] ELSE invoices

\* Mutant: the error of SavePayment does not keep the entry from the log.
InsertTried(o, r) == r \in DbOutcomes

\* SavePayment: INSERT fails on the unique external_id of an earlier row.
Inserted(o, r) == r = "ok" /\ o \notin payments

SavePayment(o, r) ==
    payments' = IF Applied(r) THEN payments \union {o} ELSE payments

\* UPDATE payment_requests ... WHERE id = ?: by id, whatever its status.
\* Mutant: a status the table does not know.
UpdateWrongStatus(o, r) ==
    requests' = IF Applied(r)
                THEN [requests EXCEPT ![o].status = PaymentStatusExpired]
                ELSE requests

UpdateSuccessPaymentRequest(o, r) ==
    requests' = IF Applied(r)
                THEN [requests EXCEPT ![o].status = PaymentStatusPaid]
                ELSE requests

\* Mutant: without retry_count + 1.
UpdateFailedUncounted(o, r) ==
    requests' = IF Applied(r)
                THEN [requests EXCEPT ![o].status = PaymentStatusFailed]
                ELSE requests

UpdateFailedPaymentRequest(o, r) ==
    requests' = IF Applied(r)
                THEN [requests EXCEPT ![o] = [status |-> PaymentStatusFailed,
                                              retry  |-> @.retry + 1]]
                ELSE requests

UpdatePendingPaymentRequest(o, r) ==
    requests' = IF Applied(r)
                THEN [requests EXCEPT ![o].status = PaymentStatusPending]
                ELSE requests

\* ORDER BY create_time ASC LIMIT BatchSize over the rows in S.
Oldest(S) ==
    {o \in S : Cardinality({q \in S : rank[q] < rank[o]}) < BatchSize}

First(o, S) == o \in S /\ \A q \in S : rank[o] <= rank[q]

-----------------------------------------------------------------------------
(* The stock.reserved topic and its consumer. *)

\* The event is published; again for a duplicate or a redelivery.
StockReserved(o) ==
    /\ reserved' = reserved \union {o}
    /\ backlog'  = backlog \union {o}
    /\ UNCHANGED <<table, payments, invoices, audit, locals>>

\* ReadMessage commits the offset before it returns the message.
ReadMessage(o) ==
    /\ pc[Consumer] = "idle" /\ o \in backlog
    /\ backlog' = backlog \ {o}
    /\ Handle(Consumer, o, IF DisableCreateInvoiceDirectly
                           THEN "save_request" ELSE "inv_email")
    /\ UNCHANGED <<reserved, table, payments, invoices, audit, batch>>

\* An error of the commit: the message is fetched, but not handed over, and
\* the loop reads the next one.
ReadMessageFails(o) ==
    /\ pc[Consumer] = "idle" /\ o \in backlog
    /\ backlog' = backlog \ {o}
    /\ UNCHANGED <<reserved, table, payments, invoices, audit, locals>>

\* Mutant: ON CONFLICT ... DO UPDATE.
NeverConflicts(o) == FALSE

Conflicts(o) == HasRow(o)

\* INSERT ... ON CONFLICT (order_id) DO NOTHING, which is no error: the audit
\* entry is written for a duplicate as well.
SavePaymentRequestFromEvent ==
    LET o == order[Consumer] IN
    /\ pc[Consumer] = "save_request"
    /\ \E r \in DbOutcomes :
          /\ IF Applied(r) /\ ~ Conflicts(o)
             THEN /\ requests' = [requests EXCEPT ![o] =
                                    [status |-> PaymentStatusPending, retry |-> 0]]
                  /\ rank' = [rank EXCEPT ![o] =
                                1 + Cardinality({q \in Orders : HasRow(q)})]
             ELSE UNCHANGED table
          /\ IF r = "ok" THEN SaveAuditLog(o, "PAYMENT_REQUEST_CREATED")
                         ELSE UNCHANGED audit
    /\ Return(Consumer)
    /\ UNCHANGED <<topic, payments, invoices, batch>>

-----------------------------------------------------------------------------
(* xenditService.CreateInvoice, for a client and for the direct flow. *)

RequestInvoice(c, o) ==
    /\ pc[c] = "idle"
    /\ Handle(c, o, "inv_email")
    /\ UNCHANGED <<topic, table, payments, invoices, audit, batch>>

InvoicerGetsEmail(p) ==
    /\ pc[p] = "inv_email"
    /\ Goto(p, "inv_create") \/ Return(p)
    /\ UNCHANGED <<topic, table, payments, invoices, audit, batch>>

InvoicerCreatesInvoice(p) ==
    /\ pc[p] = "inv_create"
    /\ \E r \in XenditOutcomes :
          /\ CreateInvoice(order[p], r)
          /\ IF InvoiceMade(r) THEN Goto(p, "inv_save") ELSE Return(p)
    /\ UNCHANGED <<topic, table, payments, audit, batch>>

InvoicerSavesPayment(p) ==
    /\ pc[p] = "inv_save"
    /\ \E r \in DbOutcomes : SavePayment(order[p], r)
    /\ Return(p)
    /\ UNCHANGED <<topic, table, invoices, audit, batch>>

-----------------------------------------------------------------------------
(* StartProcessPendingPaymentRequests. *)

\* A failed query of either processor is tried again: no change.
GetPendingPaymentRequests ==
    /\ pc[PendingProcessor] = "idle" /\ batch[PendingProcessor] = {}
    /\ batch' = [batch EXCEPT ![PendingProcessor] =
                   Oldest({o \in Orders : InStatus(o, PaymentStatusPending)})]
    /\ UNCHANGED <<topic, table, payments, invoices, audit, pc, order>>

\* The next row of the batch: the payer's email is asked of the user service.
PayerEmail(o) ==
    /\ pc[PendingProcessor] = "idle" /\ First(o, batch[PendingProcessor])
    /\ batch' = [batch EXCEPT ![PendingProcessor] = @ \ {o}]
    /\ \E c \in {"pp_lookup", "pp_fail"} : Handle(PendingProcessor, o, c)
    /\ UNCHANGED <<topic, table, payments, invoices, audit>>

\* The row is skipped, and stays as it is, when payments cannot be read.
LookupFails ==
    /\ pc[PendingProcessor] = "pp_lookup"
    /\ Return(PendingProcessor)
    /\ UNCHANGED <<topic, table, payments, invoices, audit, batch>>

AfterLookup == IF order[PendingProcessor] \in payments
               THEN "pp_already" ELSE "pp_create"

LookupPayment ==
    /\ pc[PendingProcessor] = "pp_lookup"
    /\ Goto(PendingProcessor, AfterLookup)
    /\ UNCHANGED <<topic, table, payments, invoices, audit, batch>>

PendingCreatesInvoice ==
    /\ pc[PendingProcessor] = "pp_create"
    /\ \E r \in XenditOutcomes :
          /\ CreateInvoice(order[PendingProcessor], r)
          /\ IF InvoiceMade(r)
             THEN /\ Goto(PendingProcessor, "pp_success")
                  /\ UNCHANGED audit
             ELSE /\ Goto(PendingProcessor, "pp_fail")
                  /\ SaveAuditLog(order[PendingProcessor],
                                  "INVOICE_CREATION_FAILED")
    /\ UNCHANGED <<topic, table, payments, batch>>

\* UpdateSuccess before SavePayment, or for a payment that already exists.
\* Its error is only logged.
PendingUpdatesSuccess(r) ==
    /\ pc[PendingProcessor] \in {"pp_success", "pp_already"}
    /\ UpdateSuccessPaymentRequest(order[PendingProcessor], r)
    /\ IF pc[PendingProcessor] = "pp_success"
       THEN Goto(PendingProcessor, "pp_save") ELSE Return(PendingProcessor)
    /\ UNCHANGED <<topic, rank, payments, invoices, audit, batch>>

PendingSavesPayment ==
    LET o == order[PendingProcessor] IN
    /\ pc[PendingProcessor] = "pp_save"
    /\ \E r \in DbOutcomes :
          /\ SavePayment(o, r)
          /\ IF Inserted(o, r) THEN SaveAuditLog(o, "INVOICE_CREATED")
                               ELSE UNCHANGED audit
    /\ Return(PendingProcessor)
    /\ UNCHANGED <<topic, table, invoices, batch>>

-----------------------------------------------------------------------------
(* StartProcessFailedPaymentRequests. *)

\* Mutants: no limit; retry_count < ... for retry_count <= ...
RetryForEver(o) == InStatus(o, PaymentStatusFailed)
RetryOnceLess(o) ==
    InStatus(o, PaymentStatusFailed) /\ requests[o].retry < RetryLimit

Retryable(o) ==
    InStatus(o, PaymentStatusFailed) /\ requests[o].retry <= RetryLimit

GetFailedPaymentRequests ==
    /\ pc[FailedProcessor] = "idle" /\ batch[FailedProcessor] = {}
    /\ batch' = [batch EXCEPT ![FailedProcessor] =
                   Oldest({o \in Orders : Retryable(o)})]
    /\ UNCHANGED <<topic, table, payments, invoices, audit, pc, order>>

FailedUpdatesPending(o, r) ==
    /\ pc[FailedProcessor] = "idle" /\ First(o, batch[FailedProcessor])
    /\ batch' = [batch EXCEPT ![FailedProcessor] = @ \ {o}]
    /\ UpdatePendingPaymentRequest(o, r)
    /\ IF r = "ok"
       THEN SaveAuditLog(o, "PAYMENT_REQUEST_RETRY") /\ UNCHANGED <<pc, order>>
       ELSE Handle(FailedProcessor, o, "fp_fail") /\ UNCHANGED audit
    /\ UNCHANGED <<topic, rank, payments, invoices>>

\* UpdateFailed, by either processor.  Its error is only logged.
UpdatesFailed(p, r) ==
    /\ pc[p] \in {"pp_fail", "fp_fail"}
    /\ UpdateFailedPaymentRequest(order[p], r)
    /\ Return(p)
    /\ UNCHANGED <<topic, rank, payments, invoices, audit, batch>>

-----------------------------------------------------------------------------
\* The process dies and is restarted: what the goroutines held is gone.
Crash ==
    /\ pc'    = [p \in Procs |-> "idle"]
    /\ order' = [p \in Procs |-> NoOrder]
    /\ batch' = [p \in Processors |-> {}]
    /\ UNCHANGED <<topic, table, payments, invoices, audit>>

ConsumerStep ==
    \/ \E o \in Orders : ReadMessage(o) \/ ReadMessageFails(o)
    \/ SavePaymentRequestFromEvent

InvoicerStep(p) ==
    InvoicerGetsEmail(p) \/ InvoicerCreatesInvoice(p) \/ InvoicerSavesPayment(p)

PendingStep ==
    \/ GetPendingPaymentRequests
    \/ \E o \in Orders : PayerEmail(o)
    \/ LookupPayment \/ LookupFails \/ PendingCreatesInvoice
    \/ \E r \in DbOutcomes : \/ PendingUpdatesSuccess(r)
                             \/ UpdatesFailed(PendingProcessor, r)
    \/ PendingSavesPayment

FailedStep ==
    \/ GetFailedPaymentRequests
    \/ \E r \in DbOutcomes : \/ \E o \in Orders : FailedUpdatesPending(o, r)
                             \/ UpdatesFailed(FailedProcessor, r)

Next ==
    \/ \E o \in Orders : StockReserved(o)
    \/ ConsumerStep
    \/ \E c \in Clients, o \in Orders : RequestInvoice(c, o)
    \/ \E p \in Invoicers : InvoicerStep(p)
    \/ PendingStep
    \/ FailedStep
    \/ Crash

Spec == Init /\ [][Next]_vars

(***************************************************************************)
(* The goroutines run and their timers fire (weak fairness); each call a   *)
(* processor makes again and again for one order succeeds at last (strong  *)
(* fairness), so no outage is for ever; crashes end.  Nothing is assumed   *)
(* of HTTP clients.                                                        *)
(***************************************************************************)
Fairness ==
    /\ WF_vars(ConsumerStep \/ InvoicerStep(Consumer))
    /\ WF_vars(PendingStep)
    /\ WF_vars(FailedStep)
    /\ \A o \in Orders :
          /\ SF_vars(LookupPayment /\ order[PendingProcessor] = o)
          /\ SF_vars(/\ PendingUpdatesSuccess("ok")
                     /\ order[PendingProcessor] = o)
          /\ SF_vars(/\ UpdatesFailed(PendingProcessor, "ok")
                     /\ order[PendingProcessor] = o)
          /\ SF_vars(FailedUpdatesPending(o, "ok"))

FairSpec == Spec /\ Fairness /\ <>[][~ Crash]_vars

\* For the consumer, the same and more: messages are read without error, and
\* storing the request of one order succeeds if it is tried again and again.
FairConsumerSpec ==
    /\ Init /\ [][Next /\ \A o \in Orders : ~ ReadMessageFails(o)]_vars
    /\ Fairness /\ <>[][~ Crash]_vars
    /\ \A o \in Orders :
          SF_vars(/\ SavePaymentRequestFromEvent /\ order[Consumer] = o
                  /\ HasRow(o)')

-----------------------------------------------------------------------------
(* Properties. *)

TypeOK ==
    /\ backlog \subseteq reserved /\ reserved \subseteq Orders
    /\ requests \in [Orders -> Request]
    /\ rank \in [Orders -> Nat]
    /\ payments \subseteq Orders
    /\ invoices \in [Orders -> 0 .. ManyInvoices]
    /\ audit \subseteq Orders \X AuditEvents
    /\ pc \in [Procs -> Calls]
    /\ order \in [Procs -> Orders \union {NoOrder}]
    /\ batch \in [Processors -> SUBSET Orders]
    /\ \A p \in Procs : pc[p] # "idle" => order[p] \in Orders

\* retry_count does not run away: a request is put back only up to the limit,
\* so at most RetryLimit + 1 failures are counted.  If the answer to an
\* UpdatePending is lost both processors hold the row, each with an old idea of
\* its count, and two more failures can be counted beyond the limit.
RetryBounded ==
    \A o \in Orders :
        requests[o].retry <= RetryLimit + IF "lost" \in DbOutcomes THEN 3 ELSE 1

\* Nothing says an order is invoiced unless Xendit has an invoice: neither a
\* row in payments nor a finished request, whoever created it and whichever
\* answers were lost on the way.
InvoicedFirst ==
    \A o \in Orders :
        o \in payments \/ InStatus(o, PaymentStatusPaid) => invoices[o] > 0

\* The audit trail does not claim what the tables, or Xendit, deny.  Of
\* INVOICE_CREATION_FAILED only the request can be told: if the answer was lost,
\* Xendit has the invoice all the same.
AuditTruthful ==
    \A o \in Orders :
        /\ <<o, "PAYMENT_REQUEST_CREATED">> \in audit => HasRow(o)
        /\ <<o, "INVOICE_CREATED">> \in audit =>
              HasRow(o) /\ o \in payments /\ invoices[o] > 0
        /\ <<o, "INVOICE_CREATION_FAILED">> \in audit => HasRow(o)
        /\ <<o, "PAYMENT_REQUEST_RETRY">> \in audit =>
              HasRow(o) /\ requests[o].retry > 0

\* The processors keep the life of a request, although they write by id from
\* a query that may be old: the guard on the status is in the query only.
\* It takes reliable answers (no "lost" in DbOutcomes).
Lifecycle == INSTANCE RequestLifecycle WITH request <- requests

ImplementsLifecycle == Lifecycle!Spec

\* A pending request is invoiced or runs out of retries in the end.
PendingSettles ==
    \A o \in Orders :
        InStatus(o, PaymentStatusPending)
            ~> \/ InStatus(o, PaymentStatusPaid)
               \/ InStatus(o, PaymentStatusFailed) /\ requests[o].retry > RetryLimit

\* scheduler_service.go looks for an existing payment "to prevent duplicate
\* invoices".  The code does not keep it.
NoDuplicateInvoice == \A o \in Orders : invoices[o] <= 1

\* docs/CURRENT_PAYMENT_FLOW.md: a row is stored in payments when the invoice
\* is created.  The code does not keep it, even in the end.
InvoiceGetsPayment ==
    \A o \in Orders : (invoices[o] > 0) ~> (o \in payments)

\* docs/CURRENT_PAYMENT_FLOW.md: the batch flow keeps the events without loss.
\* The code does not keep it: the offset is committed before the row is stored.
ReservedIsRequested ==
    \A o \in Orders : (o \in reserved) ~> HasRow(o)
==============================================================================

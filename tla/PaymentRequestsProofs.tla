------------------------ MODULE PaymentRequestsProofs ------------------------
(***************************************************************************)
(* Proofs about PaymentRequests, for any number of orders and clients, any *)
(* batch size and retry limit, both positions of the toggle, and every     *)
(* outcome of the remote calls.                                            *)
(***************************************************************************)
EXTENDS PaymentRequests, FiniteSetTheorems, TLAPS

\* Types: the initial states.
LEMMA TypeInit == Init => TypeOK
  BY DEF Init, TypeOK, Request, Calls, Processors, Procs, ManyInvoices, NoRow

\* Types: every step keeps them, one action at a time.
LEMMA TypeStep == TypeOK /\ [Next]_vars => TypeOK'
  <1> SUFFICES ASSUME TypeOK, [Next]_vars PROVE TypeOK'
    OBVIOUS
  <1> USE ActorsAssumption, OutcomesAssumption
      DEF TypeOK, Procs, Processors, Invoicers, topic, table, locals
  <1>1. ASSUME NEW o \in Orders, StockReserved(o) PROVE TypeOK'
    BY <1>1 DEF StockReserved
  <1>2. ASSUME NEW o \in Orders, ReadMessage(o) PROVE TypeOK'
    BY <1>2 DEF ReadMessage, Handle, Calls
  <1>3. ASSUME NEW o \in Orders, ReadMessageFails(o) PROVE TypeOK'
    BY <1>3 DEF ReadMessageFails
  <1>4. ASSUME SavePaymentRequestFromEvent PROVE TypeOK'
    <2>1. order[Consumer] \in Orders
      BY <1>4 DEF SavePaymentRequestFromEvent
    <2>2. 1 + Cardinality({q \in Orders : HasRow(q)}) \in Nat
      BY LimitsAssumption, FS_Subset, FS_CardinalityType,
         {q \in Orders : HasRow(q)} \in SUBSET Orders
    <2> QED
      BY <1>4, <2>1, <2>2
         DEF SavePaymentRequestFromEvent, Return, Handle, SaveAuditLog,
             AuditEvents, Calls, Request
  <1>5. ASSUME NEW c \in Clients, NEW o \in Orders, RequestInvoice(c, o)
        PROVE  TypeOK'
    BY <1>5 DEF RequestInvoice, Handle, Calls
  <1>6. ASSUME NEW p \in Invoicers, InvoicerGetsEmail(p) PROVE TypeOK'
    BY <1>6 DEF InvoicerGetsEmail, Goto, Return, Handle, Calls
  <1>7. ASSUME NEW p \in Invoicers, InvoicerCreatesInvoice(p) PROVE TypeOK'
    BY <1>7 DEF InvoicerCreatesInvoice, CreateInvoice, ManyInvoices, Goto,
                Return, Handle, Calls
  <1>8. ASSUME NEW p \in Invoicers, InvoicerSavesPayment(p) PROVE TypeOK'
    BY <1>8 DEF InvoicerSavesPayment, SavePayment, Return, Handle, Calls
  <1>9. ASSUME GetPendingPaymentRequests PROVE TypeOK'
    BY <1>9 DEF GetPendingPaymentRequests, Oldest
  <1>10. ASSUME NEW o \in Orders, PayerEmail(o) PROVE TypeOK'
    BY <1>10 DEF PayerEmail, Handle, Calls
  <1>11. ASSUME LookupPayment \/ LookupFails PROVE TypeOK'
    BY <1>11 DEF LookupPayment, LookupFails, AfterLookup, Goto, Return, Handle,
                 Calls
  <1>12. ASSUME PendingCreatesInvoice PROVE TypeOK'
    BY <1>12 DEF PendingCreatesInvoice, CreateInvoice, ManyInvoices, Goto,
                 SaveAuditLog, AuditEvents, Calls
  <1>13. ASSUME NEW r \in DbOutcomes, PendingUpdatesSuccess(r) PROVE TypeOK'
    BY <1>13 DEF PendingUpdatesSuccess, UpdateSuccessPaymentRequest, Goto,
                 Return, Handle, Calls, Request
  <1>14. ASSUME PendingSavesPayment PROVE TypeOK'
    BY <1>14 DEF PendingSavesPayment, SavePayment, SaveAuditLog, AuditEvents,
                 Return, Handle, Calls
  <1>15. ASSUME GetFailedPaymentRequests PROVE TypeOK'
    BY <1>15 DEF GetFailedPaymentRequests, Oldest
  <1>16. ASSUME NEW o \in Orders, NEW r \in DbOutcomes, FailedUpdatesPending(o, r)
         PROVE  TypeOK'
    BY <1>16 DEF FailedUpdatesPending, UpdatePendingPaymentRequest, SaveAuditLog,
                 AuditEvents, Handle, Calls, Request
  <1>17. ASSUME NEW p \in Processors, NEW r \in DbOutcomes, UpdatesFailed(p, r)
         PROVE  TypeOK'
    BY <1>17 DEF UpdatesFailed, UpdateFailedPaymentRequest, Return, Handle,
                 Calls, Request
  <1>18. ASSUME Crash PROVE TypeOK'
    BY <1>18 DEF Crash, Calls
  <1>19. CASE UNCHANGED vars
    BY <1>19 DEF vars
  <1> QED
    BY <1>1, <1>2, <1>3, <1>4, <1>5, <1>6, <1>7, <1>8, <1>9, <1>10, <1>11, <1>12,
       <1>13, <1>14, <1>15, <1>16, <1>17, <1>18, <1>19
       DEF Next, ConsumerStep, InvoicerStep, PendingStep, FailedStep

-----------------------------------------------------------------------------
(* What a step may do to one variable. *)

\* The statuses and events of this model are different from each other.
LEMMA Distinct ==
    /\ NoRow # PaymentStatusPending /\ NoRow # PaymentStatusPaid
    /\ NoRow # PaymentStatusFailed
    /\ PaymentStatusPending # PaymentStatusPaid
    /\ PaymentStatusPending # PaymentStatusFailed
    /\ PaymentStatusPaid # PaymentStatusFailed
  BY DEF NoRow, PaymentStatusPending, PaymentStatusPaid, PaymentStatusFailed

\* Which steps change the tables, Xendit's invoices and the audit log.
LEMMA Footprint ==
    ASSUME [Next]_vars
    PROVE  /\ \/ UNCHANGED requests
              \/ SavePaymentRequestFromEvent
              \/ \E r \in DbOutcomes : PendingUpdatesSuccess(r)
              \/ \E p \in Processors, r \in DbOutcomes : UpdatesFailed(p, r)
              \/ \E o \in Orders, r \in DbOutcomes : FailedUpdatesPending(o, r)
           /\ \/ UNCHANGED payments
              \/ \E p \in Invoicers : InvoicerSavesPayment(p)
              \/ PendingSavesPayment
           /\ \/ UNCHANGED invoices
              \/ \E p \in Invoicers : InvoicerCreatesInvoice(p)
              \/ PendingCreatesInvoice
           /\ \/ UNCHANGED audit
              \/ SavePaymentRequestFromEvent
              \/ PendingCreatesInvoice \/ PendingSavesPayment
              \/ \E o \in Orders, r \in DbOutcomes : FailedUpdatesPending(o, r)
  BY DEF Next, vars, topic, table, locals, Processors, ConsumerStep, InvoicerStep,
         PendingStep, FailedStep, StockReserved, ReadMessage, ReadMessageFails,
         SavePaymentRequestFromEvent, RequestInvoice, InvoicerGetsEmail,
         InvoicerCreatesInvoice, InvoicerSavesPayment, GetPendingPaymentRequests,
         PayerEmail, LookupPayment, LookupFails, PendingCreatesInvoice,
         PendingUpdatesSuccess, PendingSavesPayment, GetFailedPaymentRequests,
         FailedUpdatesPending, UpdatesFailed, Crash

\* A request is inserted PENDING, finished or failed by a processor that holds
\* it, or put back from the batch of the failed processor.
LEMMA NewRequest ==
    ASSUME TypeOK, [Next]_vars, NEW o \in Orders, requests'[o] # requests[o]
    PROVE  \/ /\ ~ HasRow(o)
              /\ requests'[o] = [status |-> PaymentStatusPending, retry |-> 0]
           \/ /\ pc[PendingProcessor] \in {"pp_success", "pp_already"}
              /\ order[PendingProcessor] = o
              /\ requests'[o].status = PaymentStatusPaid
              /\ requests'[o].retry = requests[o].retry
           \/ /\ \E p \in Processors : /\ pc[p] \in {"pp_fail", "fp_fail"}
                                       /\ order[p] = o
              /\ requests'[o].status = PaymentStatusFailed
              /\ requests'[o].retry = requests[o].retry + 1
           \/ /\ o \in batch[FailedProcessor]
              /\ requests'[o].status = PaymentStatusPending
              /\ requests'[o].retry = requests[o].retry
  <1> USE DEF TypeOK, Request
  <1>1. CASE SavePaymentRequestFromEvent
    BY <1>1 DEF SavePaymentRequestFromEvent, Conflicts, table
  <1>2. ASSUME NEW r \in DbOutcomes, PendingUpdatesSuccess(r)
        PROVE  /\ pc[PendingProcessor] \in {"pp_success", "pp_already"}
               /\ order[PendingProcessor] = o
               /\ requests'[o].status = PaymentStatusPaid
               /\ requests'[o].retry = requests[o].retry
    BY <1>2 DEF PendingUpdatesSuccess, UpdateSuccessPaymentRequest
  <1>3. ASSUME NEW p \in Processors, NEW r \in DbOutcomes, UpdatesFailed(p, r)
        PROVE  /\ pc[p] \in {"pp_fail", "fp_fail"} /\ order[p] = o
               /\ requests'[o].status = PaymentStatusFailed
               /\ requests'[o].retry = requests[o].retry + 1
    BY <1>3 DEF UpdatesFailed, UpdateFailedPaymentRequest
  <1>4. ASSUME NEW q \in Orders, NEW r \in DbOutcomes, FailedUpdatesPending(q, r)
        PROVE  /\ o \in batch[FailedProcessor]
               /\ requests'[o].status = PaymentStatusPending
               /\ requests'[o].retry = requests[o].retry
    BY <1>4 DEF FailedUpdatesPending, UpdatePendingPaymentRequest, First
  <1> QED
    BY <1>1, <1>2, <1>3, <1>4, Footprint

\* Rows stay, Xendit's invoices are not taken back.
LEMMA Monotone ==
    ASSUME TypeOK, [Next]_vars
    PROVE  /\ \A o \in Orders : HasRow(o) => HasRow(o)'
           /\ payments \subseteq payments' /\ audit \subseteq audit'
           /\ \A o \in Orders : invoices[o] > 0 => invoices'[o] > 0
  <1>1. \A o \in Orders : HasRow(o) => HasRow(o)'
    BY NewRequest, Distinct DEF HasRow
  <1>2. payments \subseteq payments'
    BY Footprint DEF InvoicerSavesPayment, PendingSavesPayment, SavePayment
  <1>3. audit \subseteq audit'
    BY Footprint DEF SavePaymentRequestFromEvent, PendingCreatesInvoice,
                     PendingSavesPayment, FailedUpdatesPending, SaveAuditLog
  <1>4. \A o \in Orders : invoices[o] > 0 => invoices'[o] > 0
    BY Footprint DEF InvoicerCreatesInvoice, PendingCreatesInvoice, CreateInvoice,
                     TypeOK, ManyInvoices
  <1> QED
    BY <1>1, <1>2, <1>3, <1>4

\* A batch is loaded by its query, and only shrinks until the next one.
LEMMA BatchStep ==
    ASSUME TypeOK, [Next]_vars, NEW p \in Processors
    PROVE  \/ batch'[p] \subseteq batch[p]
           \/ p = PendingProcessor /\ GetPendingPaymentRequests
           \/ p = FailedProcessor /\ GetFailedPaymentRequests
  BY ActorsAssumption
     DEF TypeOK, Next, vars, topic, table, locals, Processors, ConsumerStep,
         InvoicerStep, PendingStep, FailedStep, StockReserved, ReadMessage,
         ReadMessageFails, SavePaymentRequestFromEvent, RequestInvoice,
         InvoicerGetsEmail, InvoicerCreatesInvoice, InvoicerSavesPayment,
         GetPendingPaymentRequests, PayerEmail, LookupPayment, LookupFails,
         PendingCreatesInvoice, PendingUpdatesSuccess, PendingSavesPayment,
         GetFailedPaymentRequests, FailedUpdatesPending, UpdatesFailed, Crash

\* What the ways of moving on do to the actor itself.
LEMMA LocalControl ==
    ASSUME TypeOK, NEW p \in Procs
    PROVE  /\ \A c : Goto(p, c) => pc'[p] = c /\ order'[p] = order[p]
           /\ \A o, c : Handle(p, o, c) => pc'[p] = c /\ order'[p] = o
           /\ Return(p) => pc'[p] = "idle"
  BY DEF TypeOK, Goto, Handle, Return

\* What an actor holds changes only when it takes up an order, goes on to its
\* next call, or returns.
LEMMA LocalStep ==
    ASSUME TypeOK, [Next]_vars, NEW p \in Procs
    PROVE  \/ pc'[p] = pc[p] /\ order'[p] = order[p]
           \/ pc'[p] = "idle"
           \/ p = Consumer /\ \E o \in Orders : ReadMessage(o)
           \/ p \in Clients /\ \E o \in Orders : RequestInvoice(p, o)
           \/ /\ p \in Invoicers
              /\ InvoicerGetsEmail(p) \/ InvoicerCreatesInvoice(p)
           \/ /\ p = PendingProcessor
              /\ \/ \E o \in Orders : PayerEmail(o)
                 \/ LookupPayment \/ PendingCreatesInvoice
                 \/ \E r \in DbOutcomes : PendingUpdatesSuccess(r)
           \/ /\ p = FailedProcessor
              /\ \E o \in Orders, r \in DbOutcomes : FailedUpdatesPending(o, r)
  <1>1. ASSUME NEW q, Return(q)
        PROVE  (pc'[p] = pc[p] /\ order'[p] = order[p]) \/ pc'[p] = "idle"
    BY <1>1 DEF Return, Handle, TypeOK
  <1>2. ASSUME NEW q, NEW c, Goto(q, c), p # q
        PROVE  pc'[p] = pc[p] /\ order'[p] = order[p]
    BY <1>2 DEF Goto, TypeOK
  <1>3. ASSUME NEW q, NEW o, NEW c, Handle(q, o, c), p # q
        PROVE  pc'[p] = pc[p] /\ order'[p] = order[p]
    BY <1>3 DEF Handle, TypeOK
  <1>4. CASE Crash
    BY <1>4 DEF Crash
  <1> QED
    BY <1>1, <1>2, <1>3, <1>4
       DEF Next, vars, topic, table, locals, Invoicers, ConsumerStep,
           InvoicerStep, PendingStep, FailedStep, StockReserved, ReadMessage,
           ReadMessageFails, SavePaymentRequestFromEvent, RequestInvoice,
           InvoicerGetsEmail, InvoicerCreatesInvoice, InvoicerSavesPayment,
           GetPendingPaymentRequests, PayerEmail, LookupPayment, LookupFails,
           PendingCreatesInvoice, PendingUpdatesSuccess, PendingSavesPayment,
           GetFailedPaymentRequests, FailedUpdatesPending, UpdatesFailed

-----------------------------------------------------------------------------
(* The inductive invariant. *)

InvoiceCalls == {"inv_email", "inv_create", "inv_save"}
PendingCalls == {"pp_fail", "pp_lookup", "pp_already", "pp_create",
                 "pp_success", "pp_save"}

\* Each actor is at a call of its own.
Roles ==
    \A p \in Procs :
        /\ pc[p] = "save_request"  => p = Consumer
        /\ pc[p] \in InvoiceCalls  => p \in Invoicers
        /\ pc[p] \in PendingCalls  => p = PendingProcessor
        /\ pc[p] = "fp_fail"       => p = FailedProcessor

\* The processors work on rows that exist: they have read them, and nothing
\* deletes a row.
RowsKnown ==
    \A p \in Processors :
        /\ \A o \in batch[p] : HasRow(o)
        /\ pc[p] # "idle" => HasRow(order[p])

\* Who is past CreateInvoice, or has found a payment, has an invoice.
InvoiceHeld ==
    \A p \in Procs :
        pc[p] \in {"inv_save", "pp_already", "pp_success", "pp_save"} =>
            invoices[order[p]] > 0

\* What is FAILED, or was when the failed processor read it, has been counted.
FailuresCounted ==
    /\ \A o \in Orders : InStatus(o, PaymentStatusFailed) => requests[o].retry > 0
    /\ \A o \in batch[FailedProcessor] : requests[o].retry > 0

IInv ==
    /\ TypeOK
    /\ Roles
    /\ RowsKnown
    /\ InvoiceHeld
    /\ FailuresCounted
    /\ InvoicedFirst
    /\ AuditTruthful

\* Nothing is stored, and nobody is busy.
LEMMA InitIInv == Init => IInv
  <1> SUFFICES ASSUME Init PROVE IInv
    OBVIOUS
  <1>1. TypeOK
    BY TypeInit
  <1>2. Roles /\ RowsKnown /\ InvoiceHeld /\ FailuresCounted
    BY Distinct
       DEF Init, Roles, RowsKnown, InvoiceHeld, FailuresCounted, InvoiceCalls,
           PendingCalls, Procs, Processors, InStatus
  <1>3. InvoicedFirst /\ AuditTruthful
    BY Distinct DEF Init, InvoicedFirst, AuditTruthful, InStatus
  <1> QED
    BY <1>1, <1>2, <1>3 DEF IInv

\* No actor goes to a call of another's.
LEMMA RolesStep ==
    ASSUME TypeOK, Roles, [Next]_vars
    PROVE  Roles'
  <1> SUFFICES ASSUME NEW p \in Procs
               PROVE  /\ pc'[p] = "save_request"  => p = Consumer
                      /\ pc'[p] \in InvoiceCalls  => p \in Invoicers
                      /\ pc'[p] \in PendingCalls  => p = PendingProcessor
                      /\ pc'[p] = "fp_fail"       => p = FailedProcessor
    BY DEF Roles
  <1> USE LocalControl DEF Roles, InvoiceCalls, PendingCalls, Invoicers
  <1>1. CASE pc'[p] = pc[p] \/ pc'[p] = "idle"
    BY <1>1
  <1>2. CASE p = Consumer /\ \E o \in Orders : ReadMessage(o)
    BY <1>2 DEF ReadMessage
  <1>3. CASE p \in Clients /\ \E o \in Orders : RequestInvoice(p, o)
    BY <1>3 DEF RequestInvoice
  <1>4. CASE p \in Invoicers /\ (InvoicerGetsEmail(p) \/ InvoicerCreatesInvoice(p))
    BY <1>4 DEF InvoicerGetsEmail, InvoicerCreatesInvoice
  <1>5. CASE /\ p = PendingProcessor
             /\ \/ \E o \in Orders : PayerEmail(o)
                \/ LookupPayment \/ PendingCreatesInvoice
                \/ \E r \in DbOutcomes : PendingUpdatesSuccess(r)
    BY <1>5 DEF PayerEmail, LookupPayment, AfterLookup, PendingCreatesInvoice,
                PendingUpdatesSuccess
  <1>6. CASE /\ p = FailedProcessor
             /\ \E o \in Orders, r \in DbOutcomes : FailedUpdatesPending(o, r)
    BY <1>6 DEF FailedUpdatesPending
  <1> QED
    BY <1>1, <1>2, <1>3, <1>4, <1>5, <1>6, LocalStep

\* A processor takes up orders of its batch, and its query reads rows.
LEMMA RowsStep ==
    ASSUME TypeOK, RowsKnown, [Next]_vars
    PROVE  RowsKnown'
  <1> USE LocalControl DEF RowsKnown, TypeOK, Processors, Procs
  <1>1. ASSUME NEW p \in Processors, NEW o \in batch'[p] PROVE HasRow(o)'
    <2>1. CASE o \in batch[p]
      BY <2>1, Monotone DEF HasRow
    <2>2. CASE p = PendingProcessor /\ GetPendingPaymentRequests
      BY <1>1, <2>2, Distinct
         DEF GetPendingPaymentRequests, Oldest, InStatus, HasRow, table
    <2>3. CASE p = FailedProcessor /\ GetFailedPaymentRequests
      BY <1>1, <2>3, Distinct
         DEF GetFailedPaymentRequests, Oldest, Retryable, InStatus, HasRow, table
    <2> QED
      BY <1>1, <2>1, <2>2, <2>3, BatchStep
  <1>2. ASSUME NEW p \in Processors, pc'[p] # "idle"
        PROVE  HasRow(order'[p])
    <2>1. CASE pc'[p] = pc[p] /\ order'[p] = order[p]
      BY <1>2, <2>1
    <2>2. CASE \E o \in Orders : PayerEmail(o) /\ p = PendingProcessor
      BY <2>2 DEF PayerEmail, First
    <2>3. CASE p = PendingProcessor /\ LookupPayment
      BY <2>3 DEF LookupPayment
    <2>4. CASE p = PendingProcessor /\ PendingCreatesInvoice
      BY <2>4 DEF PendingCreatesInvoice
    <2>5. CASE p = PendingProcessor /\ \E r \in DbOutcomes : PendingUpdatesSuccess(r)
      BY <1>2, <2>5 DEF PendingUpdatesSuccess
    <2>6. CASE /\ p = FailedProcessor
               /\ \E o \in Orders, r \in DbOutcomes : FailedUpdatesPending(o, r)
      BY <1>2, <2>6 DEF FailedUpdatesPending, First
    <2> QED
      BY <1>2, <2>1, <2>2, <2>3, <2>4, <2>5, <2>6, LocalStep, ActorsAssumption
         DEF Invoicers
  <1>3. ASSUME NEW p \in Processors, pc'[p] # "idle"
        PROVE  HasRow(order[p])'
    <2>1. order'[p] \in Orders
      BY <1>3, TypeStep
    <2> QED
      BY <1>2, <1>3, <2>1, Monotone DEF HasRow
  <1> QED
    BY <1>1, <1>3

\* An invoice is held by who gets one from Xendit, or finds a payment, which is
\* never without an invoice.
LEMMA InvoiceStep ==
    ASSUME TypeOK, InvoiceHeld, InvoicedFirst, [Next]_vars
    PROVE  InvoiceHeld'
  <1> SUFFICES ASSUME NEW p \in Procs,
                      pc'[p] \in {"inv_save", "pp_already", "pp_success", "pp_save"}
               PROVE  invoices'[order'[p]] > 0
    BY DEF InvoiceHeld
  <1>0. order'[p] \in Orders
    BY TypeStep DEF TypeOK
  <1> USE LocalControl DEF InvoiceHeld, TypeOK, Procs, Processors, Invoicers
  <1>1. CASE pc'[p] = pc[p] /\ order'[p] = order[p]
    BY <1>0, <1>1, Monotone
  <1>2. CASE p \in Invoicers /\ (InvoicerGetsEmail(p) \/ InvoicerCreatesInvoice(p))
    BY <1>0, <1>2
       DEF InvoicerGetsEmail, InvoicerCreatesInvoice, CreateInvoice, InvoiceMade,
           Applied, ManyInvoices
  <1>3. CASE p = PendingProcessor /\ LookupPayment
    BY <1>0, <1>3 DEF LookupPayment, AfterLookup, InvoicedFirst
  <1>4. CASE p = PendingProcessor /\ PendingCreatesInvoice
    BY <1>0, <1>4 DEF PendingCreatesInvoice, CreateInvoice, InvoiceMade, Applied,
                      ManyInvoices
  <1>5. CASE p = PendingProcessor /\ \E r \in DbOutcomes : PendingUpdatesSuccess(r)
    BY <1>0, <1>5 DEF PendingUpdatesSuccess
  <1>6. CASE p = PendingProcessor /\ \E o \in Orders : PayerEmail(o)
    BY <1>6 DEF PayerEmail
  <1>7. CASE p = Consumer /\ \E o \in Orders : ReadMessage(o)
    BY <1>7 DEF ReadMessage
  <1>8. CASE p \in Clients /\ \E o \in Orders : RequestInvoice(p, o)
    BY <1>8 DEF RequestInvoice
  <1>9. CASE /\ p = FailedProcessor
             /\ \E o \in Orders, r \in DbOutcomes : FailedUpdatesPending(o, r)
    BY <1>1, <1>9 DEF FailedUpdatesPending
  <1> QED
    BY <1>1, <1>2, <1>3, <1>4, <1>5, <1>6, <1>7, <1>8, <1>9, LocalStep

\* Counting comes with failing, and no write takes a count back.
LEMMA CountedStep ==
    ASSUME TypeOK, RowsKnown, FailuresCounted, [Next]_vars
    PROVE  FailuresCounted'
  <1> USE DEF TypeOK, Request, Processors
  <1>1. ASSUME NEW o \in Orders, requests'[o].status = PaymentStatusFailed
        PROVE  requests'[o].retry > 0
    BY <1>1, NewRequest, Distinct DEF FailuresCounted, InStatus
  <1>2. ASSUME NEW o \in batch'[FailedProcessor] PROVE requests'[o].retry > 0
    <2>1. CASE o \in batch[FailedProcessor]
      BY <2>1, NewRequest DEF FailuresCounted, RowsKnown
    <2>2. CASE GetFailedPaymentRequests
      BY <1>2, <2>2
         DEF GetFailedPaymentRequests, Oldest, Retryable, FailuresCounted, table
    <2> QED
      BY <1>2, <2>1, <2>2, BatchStep, ActorsAssumption
  <1> QED
    BY <1>1, <1>2 DEF FailuresCounted, InStatus

\* A row in payments is written, and a request finished, by a holder of an
\* invoice.
LEMMA InvoicedStep ==
    ASSUME TypeOK, Roles, InvoiceHeld, InvoicedFirst, [Next]_vars
    PROVE  InvoicedFirst'
  <1> SUFFICES ASSUME NEW o \in Orders,
                      \/ o \in payments'
                      \/ requests'[o].status = PaymentStatusPaid
               PROVE  invoices'[o] > 0
    BY DEF InvoicedFirst, InStatus
  <1> USE DEF Procs, Processors, Invoicers
  <1>1. CASE o \in payments \/ InStatus(o, PaymentStatusPaid)
    BY <1>1, Monotone DEF InvoicedFirst
  <1>2. CASE o \in payments' \ payments
    <2>1. \E p \in Procs : pc[p] \in {"inv_save", "pp_save"} /\ order[p] = o
      BY <1>2, Footprint
         DEF InvoicerSavesPayment, PendingSavesPayment, SavePayment
    <2> QED
      BY <2>1, Monotone DEF InvoiceHeld
  <1>3. CASE /\ requests'[o].status = PaymentStatusPaid
             /\ ~ InStatus(o, PaymentStatusPaid)
    <2>1. /\ pc[PendingProcessor] \in {"pp_success", "pp_already"}
          /\ order[PendingProcessor] = o
      BY <1>3, NewRequest, Distinct DEF InStatus
    <2> QED
      BY <2>1, Monotone DEF InvoiceHeld
  <1> QED
    BY <1>1, <1>2, <1>3

\* An entry is written beside the call it is about, which has succeeded.
LEMMA AuditStep ==
    ASSUME TypeOK, RowsKnown, InvoiceHeld, FailuresCounted, AuditTruthful,
           [Next]_vars
    PROVE  AuditTruthful'
  <1> DEFINE Truth(o, S) ==
        /\ <<o, "PAYMENT_REQUEST_CREATED">> \in S => HasRow(o)'
        /\ <<o, "INVOICE_CREATED">> \in S =>
              HasRow(o)' /\ o \in payments' /\ invoices'[o] > 0
        /\ <<o, "INVOICE_CREATION_FAILED">> \in S => HasRow(o)'
        /\ <<o, "PAYMENT_REQUEST_RETRY">> \in S =>
              HasRow(o)' /\ requests'[o].retry > 0
  <1> SUFFICES ASSUME NEW o \in Orders PROVE Truth(o, audit')
    BY DEF AuditTruthful
  <1> USE OutcomesAssumption
      DEF TypeOK, Request, Processors, SaveAuditLog, CallOutcomes, Applied
  <1>1. Truth(o, audit)
    <2>1. \A q \in Orders : requests[q].retry \in Nat
                            /\ invoices[q] \in 0 .. ManyInvoices
      OBVIOUS
    <2>2. HasRow(o) /\ requests[o].retry > 0 => requests'[o].retry > 0
      BY <2>1, NewRequest
    <2>3. /\ HasRow(o) => HasRow(o)'
          /\ o \in payments => o \in payments'
          /\ invoices[o] > 0 => invoices'[o] > 0
      BY Monotone
    <2> QED
      BY <2>2, <2>3 DEF AuditTruthful
  <1>2. CASE SavePaymentRequestFromEvent
    BY <1>1, <1>2, Distinct
       DEF SavePaymentRequestFromEvent, Conflicts, HasRow, table
  <1>3. CASE PendingSavesPayment
    <2>1. PICK q \in Orders : q = order[PendingProcessor]
      BY <1>3, Distinct DEF PendingSavesPayment, Procs
    <2>2. \/ audit' = audit
          \/ /\ audit' \subseteq audit \union {<<q, "INVOICE_CREATED">>}
             /\ q \in payments'
      BY <1>3, <2>1 DEF PendingSavesPayment, SavePayment, Inserted
    <2>3. HasRow(q) /\ invoices[q] > 0
      BY <1>3, <2>1, Distinct
         DEF PendingSavesPayment, RowsKnown, InvoiceHeld, Procs
    <2>4. HasRow(q)' /\ invoices'[q] > 0
      BY <2>3, Monotone
    <2> QED
      BY <1>1, <2>2, <2>4
  <1>4. CASE PendingCreatesInvoice
    <2>1. PICK q \in Orders : q = order[PendingProcessor]
      BY <1>4, Distinct DEF PendingCreatesInvoice, Procs
    <2>2. audit' \subseteq audit \union {<<q, "INVOICE_CREATION_FAILED">>}
      BY <1>4, <2>1 DEF PendingCreatesInvoice
    <2>3. HasRow(q)
      BY <1>4, <2>1, Distinct DEF PendingCreatesInvoice, RowsKnown
    <2>4. HasRow(q)'
      BY <2>3, Monotone
    <2> QED
      BY <1>1, <2>2, <2>4
  <1>5. ASSUME NEW q \in Orders, NEW r \in DbOutcomes, FailedUpdatesPending(q, r)
        PROVE  Truth(o, audit')
    <2>1. HasRow(q)' /\ requests'[q].retry > 0
      BY <1>5, Distinct
         DEF FailedUpdatesPending, UpdatePendingPaymentRequest, First, RowsKnown,
             FailuresCounted, HasRow
    <2>2. audit' \subseteq audit \union {<<q, "PAYMENT_REQUEST_RETRY">>}
      BY <1>5 DEF FailedUpdatesPending
    <2> QED
      BY <1>1, <2>1, <2>2
  <1>6. CASE UNCHANGED audit
    BY <1>1, <1>6
  <1> QED
    BY <1>2, <1>3, <1>4, <1>5, <1>6, Footprint

\* The invariant is inductive.
LEMMA IInvStep == IInv /\ [Next]_vars => IInv'
  <1> SUFFICES ASSUME IInv, [Next]_vars PROVE IInv'
    OBVIOUS
  <1>1. TypeOK' /\ Roles' /\ RowsKnown'
    BY TypeStep, RolesStep, RowsStep DEF IInv
  <1>2. InvoiceHeld' /\ FailuresCounted'
    BY InvoiceStep, CountedStep DEF IInv
  <1>3. InvoicedFirst' /\ AuditTruthful'
    BY InvoicedStep, AuditStep DEF IInv
  <1> QED
    BY <1>1, <1>2, <1>3 DEF IInv

-----------------------------------------------------------------------------
(* Theorems about every outcome of the calls. *)

\* Every variable keeps its type, and a busy actor always holds an order.
THEOREM TypeCorrect == Spec => []TypeOK
  BY TypeInit, TypeStep, PTL DEF Spec

\* The inductive invariant holds of every reachable state.
THEOREM InductiveInvariant == Spec => []IInv
  BY InitIInv, IInvStep, PTL DEF Spec

\* A row in payments and a finished request always have an invoice at Xendit,
\* whoever made it (xendit_service.go, scheduler_service.go), although requests
\* are written by id and answers get lost.
THEOREM InvoicesComeFirst == Spec => []InvoicedFirst
  <1>1. IInv => InvoicedFirst
    BY DEF IInv
  <1> QED
    BY <1>1, InductiveInvariant, PTL

\* The audit log agrees with payment_requests and payments: an entry is there
\* only of an order that has a request, a retry only of one with a failure that was
\* counted, and an invoice is called created only if Xendit has it and payments
\* has its row.  That creating one has failed is the processor's view of it.
THEOREM AuditTrailTruthful == Spec => []AuditTruthful
  <1>1. IInv => AuditTruthful
    BY DEF IInv
  <1> QED
    BY <1>1, InductiveInvariant, PTL

-----------------------------------------------------------------------------
(* How often a failure can be counted. *)

\* The steps that move a processor, change a batch or write a request; every
\* other step leaves all three alone.
LEMMA ProcessorSteps ==
    ASSUME TypeOK, Roles, [Next]_vars
    PROVE  \/ /\ UNCHANGED <<requests, batch>> \/ SavePaymentRequestFromEvent
              /\ \A p \in Processors : pc'[p] = pc[p] /\ order'[p] = order[p]
           \/ GetPendingPaymentRequests
           \/ \E o \in Orders : PayerEmail(o)
           \/ LookupFails \/ LookupPayment \/ PendingCreatesInvoice
           \/ \E r \in DbOutcomes : PendingUpdatesSuccess(r)
           \/ PendingSavesPayment
           \/ GetFailedPaymentRequests
           \/ \E o \in Orders, r \in DbOutcomes : FailedUpdatesPending(o, r)
           \/ \E p \in Processors, r \in DbOutcomes : UpdatesFailed(p, r)
           \/ Crash
  <1> USE ActorsAssumption DEF TypeOK, Processors, Invoicers, Procs
  <1>1. ASSUME NEW q \in Invoicers, NEW o, NEW c,
               Handle(q, o, c) \/ Goto(q, c) \/ Return(q)
        PROVE  \A p \in Processors : pc'[p] = pc[p] /\ order'[p] = order[p]
    BY <1>1 DEF Handle, Goto, Return
  <1>2. CASE ConsumerStep
    BY <1>1, <1>2 DEF ConsumerStep, ReadMessage, ReadMessageFails, table, locals,
                      SavePaymentRequestFromEvent
  <1>3. CASE \E c \in Clients, o \in Orders : RequestInvoice(c, o)
    BY <1>1, <1>3 DEF RequestInvoice, table
  <1>4. CASE \E p \in Invoicers : InvoicerStep(p)
    BY <1>1, <1>4 DEF InvoicerStep, InvoicerGetsEmail, InvoicerCreatesInvoice,
                      InvoicerSavesPayment, table
  <1>5. CASE UNCHANGED vars \/ \E o \in Orders : StockReserved(o)
    BY <1>5 DEF vars, StockReserved, table, locals
  <1> QED
    BY <1>2, <1>3, <1>4, <1>5 DEF Next, PendingStep, FailedStep

\* The pending processor may yet count a failure of o.
MayFail(o) ==
    \/ o \in batch[PendingProcessor]
    \/ /\ order[PendingProcessor] = o
       /\ pc[PendingProcessor] \in {"pp_fail", "pp_lookup", "pp_create"}

\* An order a processor handles is no longer in its batch.
TakenOut(o) ==
    \A p \in Processors : pc[p] # "idle" /\ order[p] = o => o \notin batch[p]

\* How far the count can be, by who may still raise it.  An old batch of the
\* failed processor puts a request back once after its count has gone over the
\* limit, and each of the two may then count one more failure.
CountBounded(o) ==
    /\ InStatus(o, PaymentStatusPending) => requests[o].retry <= RetryLimit + 1
    /\ o \in batch[FailedProcessor] =>
          /\ ~ InStatus(o, PaymentStatusPending)
          /\ requests[o].retry <= RetryLimit + 1
          /\ MayFail(o) => requests[o].retry <= RetryLimit
    /\ pc[FailedProcessor] = "fp_fail" /\ order[FailedProcessor] = o =>
          /\ requests[o].retry <= RetryLimit + 2
          /\ MayFail(o) => requests[o].retry <= RetryLimit + 1
    /\ MayFail(o) => requests[o].retry <= RetryLimit + 2
    /\ requests[o].retry <= RetryLimit + 3

CountsBounded == \A o \in Orders : TakenOut(o) /\ CountBounded(o)

\* What each processor takes to be still FAILED, or still PENDING.
TakenForFailed(o) ==
    \/ o \in batch[FailedProcessor]
    \/ pc[FailedProcessor] = "fp_fail" /\ order[FailedProcessor] = o

TakenForPending(o) ==
    \/ o \in batch[PendingProcessor]
    \/ /\ order[PendingProcessor] = o
       /\ pc[PendingProcessor] \in {"pp_fail", "pp_lookup", "pp_already",
                                    "pp_create", "pp_success"}

\* With honest answers they are right, however old their batches are, since
\* each takes its requests out of the reach of the other.
CountHonest(o) ==
    /\ InStatus(o, PaymentStatusPending) => requests[o].retry <= RetryLimit
    /\ TakenForFailed(o)  => Retryable(o)
    /\ TakenForPending(o) => InStatus(o, PaymentStatusPending)
    /\ requests[o].retry <= RetryLimit + 1

CountsHonest == \A o \in Orders : TakenOut(o) /\ CountHonest(o)

\* Every step keeps the bounds.
LEMMA CountsStep ==
    ASSUME IInv, CountsBounded, [Next]_vars
    PROVE  CountsBounded'
  <1> SUFFICES ASSUME NEW o \in Orders PROVE TakenOut(o)' /\ CountBounded(o)'
    BY DEF CountsBounded
  <1> USE ActorsAssumption, LimitsAssumption, Distinct
      DEF IInv, CountsBounded, CountBounded, TakenOut, MayFail, InStatus,
          TypeOK, Request, Processors, Procs
  <1>1. CASE /\ UNCHANGED <<requests, batch>> \/ SavePaymentRequestFromEvent
             /\ \A p \in Processors : pc'[p] = pc[p] /\ order'[p] = order[p]
    <2>1. UNCHANGED batch
      BY <1>1 DEF SavePaymentRequestFromEvent
    <2>2. CASE requests'[o] = requests[o]
      BY <1>1, <2>1, <2>2
    <2>3. CASE ~ HasRow(o) /\ requests'[o] = [status |-> PaymentStatusPending,
                                              retry |-> 0]
      <3>1. /\ \A p \in Processors : o \notin batch[p]
            /\ \A p \in Processors : order[p] = o => pc[p] = "idle"
        BY <2>3 DEF RowsKnown
      <3> QED
        BY <1>1, <2>1, <2>3, <3>1
    <2> QED
      BY <1>1, <2>2, <2>3
         DEF SavePaymentRequestFromEvent, Conflicts, table
  <1>2. CASE GetPendingPaymentRequests
    BY <1>2 DEF GetPendingPaymentRequests, Oldest, table
  <1>3. ASSUME NEW q \in Orders, PayerEmail(q)
        PROVE  TakenOut(o)' /\ CountBounded(o)'
    BY <1>3 DEF PayerEmail, Handle, First, table
  <1>4. CASE LookupFails \/ LookupPayment \/ PendingCreatesInvoice
             \/ PendingSavesPayment
    BY <1>4 DEF LookupFails, LookupPayment, AfterLookup, PendingCreatesInvoice,
                PendingSavesPayment, Goto, Return, Handle, table
  <1>5. ASSUME NEW r \in DbOutcomes, PendingUpdatesSuccess(r)
        PROVE  TakenOut(o)' /\ CountBounded(o)'
    BY <1>5 DEF PendingUpdatesSuccess, UpdateSuccessPaymentRequest, Goto, Return,
                Handle
  <1>6. CASE GetFailedPaymentRequests
    BY <1>6 DEF GetFailedPaymentRequests, Oldest, Retryable, table
  <1>7. ASSUME NEW q \in Orders, NEW r \in DbOutcomes, FailedUpdatesPending(q, r)
        PROVE  TakenOut(o)' /\ CountBounded(o)'
    BY <1>7 DEF FailedUpdatesPending, UpdatePendingPaymentRequest, Handle, First
  <1>8. ASSUME NEW p \in Processors, NEW r \in DbOutcomes, UpdatesFailed(p, r)
        PROVE  TakenOut(o)' /\ CountBounded(o)'
    BY <1>8 DEF UpdatesFailed, UpdateFailedPaymentRequest, Return, Handle, Roles,
                PendingCalls
  <1>9. CASE Crash
    BY <1>9 DEF Crash, table
  <1> QED
    BY <1>1, <1>2, <1>3, <1>4, <1>5, <1>6, <1>7, <1>8, <1>9, ProcessorSteps

\* Every step keeps the tighter bounds if no answer is lost.
LEMMA HonestStep ==
    ASSUME "lost" \notin DbOutcomes, IInv, CountsHonest, [Next]_vars
    PROVE  CountsHonest'
  <1> SUFFICES ASSUME NEW o \in Orders PROVE TakenOut(o)' /\ CountHonest(o)'
    BY DEF CountsHonest
  <1> USE ActorsAssumption, LimitsAssumption, OutcomesAssumption, Distinct
      DEF IInv, CountsHonest, CountHonest, TakenOut, TakenForFailed,
          TakenForPending, Retryable, InStatus, TypeOK, Request, Processors,
          Procs, Applied, CallOutcomes
  <1>1. CASE /\ UNCHANGED <<requests, batch>> \/ SavePaymentRequestFromEvent
             /\ \A p \in Processors : pc'[p] = pc[p] /\ order'[p] = order[p]
    <2>1. UNCHANGED batch
      BY <1>1 DEF SavePaymentRequestFromEvent
    <2>2. CASE requests'[o] = requests[o]
      BY <1>1, <2>1, <2>2
    <2>3. CASE ~ HasRow(o) /\ requests'[o] = [status |-> PaymentStatusPending,
                                              retry |-> 0]
      <3>1. /\ \A p \in Processors : o \notin batch[p]
            /\ \A p \in Processors : order[p] = o => pc[p] = "idle"
        BY <2>3 DEF RowsKnown
      <3> QED
        BY <1>1, <2>1, <2>3, <3>1
    <2> QED
      BY <1>1, <2>2, <2>3
         DEF SavePaymentRequestFromEvent, Conflicts, table
  <1>2. CASE GetPendingPaymentRequests
    BY <1>2 DEF GetPendingPaymentRequests, Oldest, table
  <1>3. ASSUME NEW q \in Orders, PayerEmail(q)
        PROVE  TakenOut(o)' /\ CountHonest(o)'
    BY <1>3 DEF PayerEmail, Handle, First, table
  <1>4. CASE LookupFails \/ LookupPayment \/ PendingCreatesInvoice
             \/ PendingSavesPayment
    BY <1>4 DEF LookupFails, LookupPayment, AfterLookup, PendingCreatesInvoice,
                PendingSavesPayment, Goto, Return, Handle, table
  <1>5. ASSUME NEW r \in DbOutcomes, PendingUpdatesSuccess(r)
        PROVE  TakenOut(o)' /\ CountHonest(o)'
    BY <1>5 DEF PendingUpdatesSuccess, UpdateSuccessPaymentRequest, Goto, Return,
                Handle
  <1>6. CASE GetFailedPaymentRequests
    BY <1>6 DEF GetFailedPaymentRequests, Oldest, table
  <1>7. ASSUME NEW q \in Orders, NEW r \in DbOutcomes, FailedUpdatesPending(q, r)
        PROVE  TakenOut(o)' /\ CountHonest(o)'
    BY <1>7 DEF FailedUpdatesPending, UpdatePendingPaymentRequest, Handle, First
  <1>8. ASSUME NEW p \in Processors, NEW r \in DbOutcomes, UpdatesFailed(p, r)
        PROVE  TakenOut(o)' /\ CountHonest(o)'
    BY <1>8 DEF UpdatesFailed, UpdateFailedPaymentRequest, Return, Handle, Roles,
                PendingCalls
  <1>9. CASE Crash
    BY <1>9 DEF Crash, table
  <1> QED
    BY <1>1, <1>2, <1>3, <1>4, <1>5, <1>6, <1>7, <1>8, <1>9, ProcessorSteps

\* The invariant, with the bounds on the counts.
CInv ==
    /\ IInv
    /\ CountsBounded
    /\ "lost" \notin DbOutcomes => CountsHonest

\* At first nothing is counted, and nothing is held.
LEMMA InitCInv == Init => CInv
  <1> SUFFICES ASSUME Init PROVE CInv
    OBVIOUS
  <1> USE LimitsAssumption, Distinct DEF Init, InStatus, Procs, Processors
  <1>1. CountsBounded
    BY DEF CountsBounded, CountBounded, TakenOut, MayFail
  <1>2. CountsHonest
    BY DEF CountsHonest, CountHonest, TakenOut, TakenForFailed, TakenForPending
  <1> QED
    BY <1>1, <1>2, InitIInv DEF CInv

\* Each part is preserved.
LEMMA CInvStep == CInv /\ [Next]_vars => CInv'
  BY IInvStep, CountsStep, HonestStep DEF CInv

\* retry_count exceeds the limit by no more than the failures both processors
\* can count from old batches: the guard of UPDATE ... WHERE id = ? is only in
\* the query before it (scheduler_service.go).
THEOREM RetriesBounded == Spec => []RetryBounded
  <1>1. CInv => RetryBounded
    BY LimitsAssumption
       DEF CInv, IInv, TypeOK, Request, CountsBounded, CountBounded, CountsHonest,
           CountHonest, RetryBounded
  <1> QED
    BY <1>1, InitCInv, CInvStep, PTL DEF Spec

-----------------------------------------------------------------------------
(* With honest answers the processors implement RequestLifecycle. *)

\* Nobody has a request at first.
LEMMA LifecycleInit == Init => Lifecycle!Init
  BY DEF Init, Lifecycle!Init, NoRow, Lifecycle!NoRow

\* A write to payment_requests is the step of the life of a request that its
\* writer takes it for.
LEMMA LifecycleStep ==
    ASSUME "lost" \notin DbOutcomes, CInv, [Next]_vars
    PROVE  [Lifecycle!Next]_requests
  <1> USE DEF CInv, IInv
  <1> DEFINE Record(s, n) == [status |-> s, retry |-> n]
  <1>1. ASSUME NEW o \in Orders, NEW s, NEW n,
               requests' = [requests EXCEPT ![o] = Record(s, n)],
               \/ ~ HasRow(o) /\ s = PaymentStatusPending /\ n = 0
               \/ /\ InStatus(o, PaymentStatusPending)
                  /\ \/ s = PaymentStatusPaid /\ n = requests[o].retry
                     \/ s = PaymentStatusFailed /\ n = requests[o].retry + 1
               \/ /\ Retryable(o)
                  /\ \/ s = PaymentStatusPending /\ n = requests[o].retry
                     \/ s = PaymentStatusFailed /\ n = requests[o].retry + 1
        PROVE  Lifecycle!Next
    BY <1>1
       DEF Lifecycle!Next, Lifecycle!Becomes, Lifecycle!Accept,
           Lifecycle!Succeed, Lifecycle!Fail, Lifecycle!Retry,
           Lifecycle!RetryFails, Lifecycle!Retryable, Retryable, InStatus, HasRow,
           NoRow, Lifecycle!NoRow,
           PaymentStatusPending, Lifecycle!PaymentStatusPending,
           PaymentStatusPaid, Lifecycle!PaymentStatusPaid,
           PaymentStatusFailed, Lifecycle!PaymentStatusFailed
  <1>2. ASSUME NEW o \in Orders, NEW s
        PROVE  /\ requests \in [Orders -> Request]
               /\ [requests[o] EXCEPT !.status = s] = Record(s, requests[o].retry)
    BY DEF TypeOK, Request
  <1>3. \A o \in Orders : CountHonest(o)
    BY DEF CountsHonest
  <1> HIDE DEF Record
  <1>4. CASE SavePaymentRequestFromEvent
    BY <1>1, <1>4
       DEF SavePaymentRequestFromEvent, Conflicts, TypeOK, table, Record, Procs,
           Invoicers
  <1>5. ASSUME NEW r \in DbOutcomes, PendingUpdatesSuccess(r)
        PROVE  [Lifecycle!Next]_requests
    <2> DEFINE o == order[PendingProcessor]
    <2>1. o \in Orders /\ InStatus(o, PaymentStatusPending)
      BY <1>3, <1>5
         DEF PendingUpdatesSuccess, CountHonest, TakenForPending, TypeOK, Procs,
             Processors
    <2>2. \/ UNCHANGED requests
          \/ requests' = [requests EXCEPT ![o] =
                            Record(PaymentStatusPaid, requests[o].retry)]
      BY <1>2, <1>5, <2>1 DEF PendingUpdatesSuccess, UpdateSuccessPaymentRequest
    <2> QED
      BY <1>1, <2>1, <2>2
  <1>6. ASSUME NEW p \in Processors, NEW r \in DbOutcomes, UpdatesFailed(p, r)
        PROVE  [Lifecycle!Next]_requests
    <2> DEFINE o == order[p]
    <2>1. o \in Orders /\ (InStatus(o, PaymentStatusPending) \/ Retryable(o))
      BY <1>3, <1>6
         DEF UpdatesFailed, Roles, PendingCalls, CountHonest, TakenForPending,
             TakenForFailed, TypeOK, Procs, Processors
    <2>2. \/ UNCHANGED requests
          \/ requests' = [requests EXCEPT ![o] =
                            Record(PaymentStatusFailed, requests[o].retry + 1)]
      BY <1>2, <1>6, <2>1 DEF UpdatesFailed, UpdateFailedPaymentRequest, Record
    <2> QED
      BY <1>1, <2>1, <2>2
  <1>7. ASSUME NEW o \in Orders, NEW r \in DbOutcomes, FailedUpdatesPending(o, r)
        PROVE  [Lifecycle!Next]_requests
    <2>1. Retryable(o)
      BY <1>3, <1>7 DEF FailedUpdatesPending, First, CountHonest, TakenForFailed
    <2>2. \/ UNCHANGED requests
          \/ requests' = [requests EXCEPT ![o] =
                            Record(PaymentStatusPending, requests[o].retry)]
      BY <1>2, <1>7 DEF FailedUpdatesPending, UpdatePendingPaymentRequest
    <2> QED
      BY <1>1, <2>1, <2>2
  <1> QED
    BY <1>4, <1>5, <1>6, <1>7, Footprint

\* A request lives as RequestLifecycle says, although the processors write by
\* id what they have read earlier, provided no answer of the database is lost.
THEOREM LifecycleImplemented ==
    ASSUME "lost" \notin DbOutcomes
    PROVE  Spec => ImplementsLifecycle
  <1>1. CInv /\ [Next]_vars => [Lifecycle!Next]_requests
    BY LifecycleStep
  <1> QED
    BY <1>1, LifecycleInit, InitCInv, CInvStep, PTL
       DEF Spec, ImplementsLifecycle, Lifecycle!Spec
=============================================================================

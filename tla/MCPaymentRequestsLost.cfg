SPECIFICATION FairSpec
CONSTANTS
    Orders = {o1}
    Clients = {c1}
    Consumer = Consumer
    PendingProcessor = PendingProcessor
    FailedProcessor = FailedProcessor
    NoOrder = NoOrder
    DisableCreateInvoiceDirectly = TRUE
    BatchSize = 1
    RetryLimit = 3
    DbOutcomes = {"ok", "err", "lost"}
    XenditOutcomes = {"ok", "err", "lost"}
    AuditOutcomes = {FALSE, TRUE}
INVARIANTS
    RetryBounded
    InvoicedFirst
    AuditTruthful
PROPERTIES
    PendingSettles

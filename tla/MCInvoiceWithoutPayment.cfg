SPECIFICATION FairSpec
CONSTANTS
    Orders = {o1}
    Clients = {}
    Consumer = Consumer
    PendingProcessor = PendingProcessor
    FailedProcessor = FailedProcessor
    NoOrder = NoOrder
    DisableCreateInvoiceDirectly = TRUE
    BatchSize = 1
    RetryLimit = 1
    DbOutcomes = {"ok", "err"}
    XenditOutcomes = {"ok"}
    AuditOutcomes = {FALSE}
PROPERTY
    InvoiceGetsPayment

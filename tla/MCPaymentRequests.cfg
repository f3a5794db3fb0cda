SPECIFICATION FairSpec
CONSTANTS
    Orders = {o1, o2}
    Clients = {}
    Consumer = Consumer
    PendingProcessor = PendingProcessor
    FailedProcessor = FailedProcessor
    NoOrder = NoOrder
    DisableCreateInvoiceDirectly = TRUE
    BatchSize = 1
    RetryLimit = 1
    DbOutcomes = {"ok"}
    XenditOutcomes = {"ok", "err"}
    AuditOutcomes = {FALSE}
INVARIANTS
    TypeOK
    RetryBounded
PROPERTIES
    ImplementsLifecycle
    PendingSettles

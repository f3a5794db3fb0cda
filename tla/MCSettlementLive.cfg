SPECIFICATION FairSpec
CONSTANTS
    Orders = {o1}
    Webhooks = {w1}
    Reconciler = Reconciler
    Sweeper = Sweeper
    NoOrder = NoOrder
    MaxRetryPublish = 2
    DbOutcomes = {"ok", "err"}
    AuditOutcomes = {FALSE}
    WebhookAmounts = {"exact"}
PROPERTIES
    DueDecided
    PaidAnnounced

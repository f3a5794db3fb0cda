SPECIFICATION FairSpec
CONSTANTS
    Orders = {o1}
    Webhooks = {}
    Reconciler = Reconciler
    Sweeper = Sweeper
    NoOrder = NoOrder
    MaxRetryPublish = 2
    DbOutcomes = {"ok", "err"}
    AuditOutcomes = {FALSE}
    WebhookAmounts = {"exact"}
PROPERTY
    PaidIsRecorded

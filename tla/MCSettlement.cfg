SPECIFICATION Spec
CONSTANTS
    Orders = {o1}
    Webhooks = {w1, w2}
    Reconciler = Reconciler
    Sweeper = Sweeper
    NoOrder = NoOrder
    MaxRetryPublish = 2
    DbOutcomes = {"ok", "err", "lost"}
    AuditOutcomes = {TRUE}
    WebhookAmounts = {"wrong", "absent"}
SYMMETRY Symmetry
INVARIANTS
    TypeOK
    AnnouncedBeforeRecorded
    AnnouncementsJustified
    AuditTruthful
PROPERTIES
    SettledStays
    ImplementsAnnouncement

SPECIFICATION FairSpec
CONSTANTS
    MaxInserts = 5
    Cap = 2
    Undecodable = {3}
    MaxId = 3
    Events = {"e1", "e2"}
    DayLength = 2
    MaxTime = 2
    TTL = 0
    DefaultLimit = 2
    MaxLimit = 2
    Limits = {1, 3}
    Absent = Absent
    Sessions = {s1, s2}
    Durations = {1, 2, 5}
    slowThreshold = 2
    maxRecent = 2
    maxSlow = 1
    MaxStatements = 3
    MaxRetryPublish = 3
    RequestTimeout = 2
    MaxElapsed = 6
    DbOutcomes = {"ok", "err"}
    Downloads = {d1, d2}
\* A behaviour is over when its requests are answered, or the process has ended.
CHECK_DEADLOCK FALSE
INVARIANTS
    TypeOK
    PrivateNeedsUser
    RequestAccounted
    RequestReleased
    StreamFaithful
    WalkComplete
    WalkDescends
    ReportMatchesList
    ResponseIsDigest
    StatsCoherent
    WebhookBounded
    BackoffKept
    OnlyClientMissed
    ReleasedOnReturn
    PdfAlone
PROPERTY
    BothEnd

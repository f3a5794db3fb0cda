SPECIFICATION Spec
CONSTANTS
    MaxRetryPublish = 3
    RequestTimeout = 2
    MaxElapsed = 6
    DbOutcomes = {"ok"}
\* An announcement is over when its caller has returned.
CHECK_DEADLOCK FALSE
INVARIANT FailureRecorded

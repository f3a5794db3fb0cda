SPECIFICATION Spec
CONSTANTS
    MaxInserts = 3
    Cap = 2
    Undecodable = {}
\* A request ends: there is nothing left to do.
CHECK_DEADLOCK FALSE
INVARIANT NeverPanics

CONSTANTS
    Calls = {c1, c2}
    Streams = {s1, s2}
    MaxConcurrency = 2
    MaxAttempts = 4
SPECIFICATION FairSpec
CHECK_DEADLOCK FALSE
INVARIANTS
    BulkheadInvariant
    SlotsAccounted
PROPERTIES
    EveryoneIsServed

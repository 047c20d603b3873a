SPECIFICATION Spec
CONSTANTS
    Docs = {d1}
    Instances = {i1, i2}
    Concurrency = 1
    MaxAttempts = 2
    Batches = 1
    Requests = {r1}
    NoDoc = NoDoc
    Outlive = TRUE
    DbFaults = FALSE
    MaxStops = 0
INVARIANT AttemptsWithinMax
CHECK_DEADLOCK FALSE

SPECIFICATION Spec
CONSTANTS
    Docs = {d1, d2}
    Instances = {i1, i2}
    Concurrency = 1
    MaxAttempts = 2
    Batches = 1
    Requests = {r1}
    NoDoc = NoDoc
    Outlive = FALSE
    DbFaults = FALSE
    MaxStops = 0
INVARIANT OneIngestionAtATime
CHECK_DEADLOCK FALSE

\* No job outlives the stale window, one re-upload at a time, no lost answers.
SPECIFICATION FairSpec
CONSTANTS
    Docs = {d1, d2}
    Instances = {i1, i2}
    Concurrency = 1
    MaxAttempts = 2
    Batches = 3
    Requests = {r1}
    NoDoc = NoDoc
    Outlive = FALSE
    DbFaults = FALSE
    MaxStops = 1
INVARIANTS
    ExclusiveJob
    AttemptsWithinMax
PROPERTIES
    ProgressMovesForward
    ReleaseKeepsTheTurn
    ImplementsLifecycle
    EveryUploadSettles
\* Users may delete every document, and then nothing is left to do.
CHECK_DEADLOCK FALSE

\* One row under everything that can race for it: jobs that outlive the stale
\* window, a re-upload beside them, lost commit answers, a stop or a crash.
SPECIFICATION FairSpec
CONSTANTS
    Docs = {d1}
    Instances = {i1, i2}
    Concurrency = 1
    MaxAttempts = 2
    Batches = 1
    Requests = {r1}
    NoDoc = NoDoc
    Outlive = TRUE
    DbFaults = TRUE
    MaxStops = 1
INVARIANTS
    TypeOK
    IndexMatchesRow
    AttemptsBounded
PROPERTY
    EveryUploadSettles
\* Users may delete every document, and then nothing is left to do.
CHECK_DEADLOCK FALSE

SPECIFICATION FairSpec
CONSTANTS
    Uploads = {u1, u2, u3}
    small1 = small1
    small2 = small2
    small3 = small3
    large = large
    Contents <- MCContents
    Size <- MCSize
    MaxDocs = 2
    MaxBytes = 3
    None = None
    Wipes = TRUE
    MaxFaults = 1
INVARIANTS
    WithinLimits
    RowsHaveFiles
    StrayFilesAreRepairs
    CleanFailureLeavesNothing
PROPERTY EveryUploadAnswered
\* All requests answered and all documents deleted: nothing is left to do.
CHECK_DEADLOCK FALSE

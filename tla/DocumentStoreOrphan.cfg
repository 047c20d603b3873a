SPECIFICATION Spec
CONSTANTS
    Uploads = {u1, u2, u3}
    small1 = small1
    small2 = small2
    small3 = small3
    large = large
    Contents <- FewContents
    Size <- FewSize
    MaxDocs = 2
    MaxBytes = 3
    None = None
    Wipes = FALSE
    MaxFaults = 1
INVARIANT FailureLeavesNothing
\* All requests answered and all documents deleted: nothing is left to do.
CHECK_DEADLOCK FALSE

SPECIFICATION MCSpec
CONSTANTS
    ChildTarget = 4
    ChildOverlap = 2
    ChildMin = 3
    SectionMin = 2
    ParentMax = 6
    MinText = 2
    PagedLines = 3
    PlainLines = 4
    MaxUnits = 5
    Files <- MCFiles
    Texts <- MCTexts
INVARIANTS
    BlocksArePure
    SectionsKeepTheText
    PathsFollowTheOutline
    ParentsAreCapped
    OverlapIsBounded
    PassageSizesAreBounded
    TextIsSearchable
\* The file is parsed and divided, or rejected: nothing is left to do.
CHECK_DEADLOCK FALSE

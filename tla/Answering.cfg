SPECIFICATION MCSpec
CONSTANTS
    RrfK = 60
    TopK = 3
    SummarySections = 3
    MaxContext = 6
    Docs = {1, 2, 3}
    Foreign = {3}
    Libraries <- MCLibraries
    Reranking = TRUE
    Candidates = 2
    RerankCandidates = 3
    MaxUpdates = 1
INVARIANTS
    AnswerStaysInScope
    SnippetIsInItsBlock
    ContextFits
    EveryComparedDocumentIsHeard
    FusionRespectsAgreement
    OverviewIsSpread
\* A turn that is over leaves nothing to do.
CHECK_DEADLOCK FALSE

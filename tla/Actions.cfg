SPECIFICATION FairApprovedSpec
CONSTANTS
    Workers = {w1, w2}
    NoWorker = NoWorker
    MaxAttempts = 2
    ProposalCount = 1
    Derived = {1}
    ExceptionCount = 0
    MaxJournals = 2
    MaxSent = 2
    MaxRetries = 1
INVARIANTS
    ApprovedMeansAllDrafted
    VerifiedDrafts
    NoStuckApplying
PROPERTIES
    ApplyingEnds
CHECK_DEADLOCK FALSE

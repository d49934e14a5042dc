SPECIFICATION ApprovedSpec
CONSTANTS
    Workers = {w1}
    NoWorker = NoWorker
    MaxAttempts = 2
    ProposalCount = 2
    Derived = {1, 2}
    ExceptionCount = 0
    MaxJournals = 2
    MaxSent = 2
    MaxRetries = 0
INVARIANTS
    ApprovedMeansAllDrafted
CHECK_DEADLOCK FALSE

SPECIFICATION ApprovedSpec
CONSTANTS
    Workers = {w1, w2}
    NoWorker = NoWorker
    MaxAttempts = 2
    ProposalCount = 1
    Derived = {1}
    ExceptionCount = 0
    MaxJournals = 2
    MaxSent = 2
    MaxRetries = 0
INVARIANTS
    NoDuplicateDraft
CHECK_DEADLOCK FALSE

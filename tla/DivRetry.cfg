SPECIFICATION Spec
CONSTANTS
    Workers = {w1}
    NoWorker = NoWorker
    MaxAttempts = 2
    ProposalCount = 0
    Derived = {}
    ExceptionCount = 0
    MaxJournals = 2
    MaxSent = 2
    MaxRetries = 1
INVARIANTS
    RetryReachesReview
CHECK_DEADLOCK FALSE

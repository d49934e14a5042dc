SPECIFICATION ApprovedSpec
CONSTANTS
    Workers = {w1}
    NoWorker = NoWorker
    MaxAttempts = 2
    ProposalCount = 0
    Derived = {}
    ExceptionCount = 1
    MaxJournals = 2
    MaxSent = 2
    MaxRetries = 0
INVARIANTS
    StartedEmailsLookedUp
CHECK_DEADLOCK FALSE

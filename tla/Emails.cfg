SPECIFICATION ApprovedSpec
CONSTANTS
    Workers = {w1}
    NoWorker = NoWorker
    MaxAttempts = 2
    ProposalCount = 1
    Derived = {1}
    ExceptionCount = 1
    MaxJournals = 2
    MaxSent = 2
    MaxRetries = 1
INVARIANTS
    NoDuplicateSend
    VerifiedSends
PROPERTIES
    TerminalRunFrozen
CHECK_DEADLOCK FALSE

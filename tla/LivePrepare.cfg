SPECIFICATION FairSpec
CONSTANTS
    Workers = {w1}
    NoWorker = NoWorker
    MaxAttempts = 2
    ProposalCount = 0
    Derived = {}
    ExceptionCount = 0
    MaxJournals = 2
    MaxSent = 2
    MaxRetries = 1
PROPERTIES
    LeaseRecovery
    ReadyTaskClaimed
    PreparationSettles
CHECK_DEADLOCK FALSE

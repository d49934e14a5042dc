SPECIFICATION Spec
CONSTANTS
    Workers = {w1, w2}
    NoWorker = NoWorker
    MaxAttempts = 2
    ProposalCount = 0
    Derived = {}
    ExceptionCount = 0
    MaxJournals = 2
    MaxSent = 2
    MaxRetries = 1
INVARIANTS
    DependencyOrder
    TypeOK
    TaskEffects
    ReviewableWhenAwaiting
PROPERTIES
    CancelStopsNewWork
    StoreSpec
CHECK_DEADLOCK FALSE

SPECIFICATION Spec
CONSTANTS
    Workers = {w1}
    NoWorker = NoWorker
    MaxAttempts = 2
    ProposalCount = 2
    Derived = {1}
    ExceptionCount = 0
    MaxJournals = 2
    MaxSent = 2
    MaxRetries = 1
INVARIANTS
    ApprovalGate
    DraftsNeedApproval
    NoDuplicateDraft
    EvidenceCompleteAfterApproval
    RunningTasksLeased
    ReadyTasksHaveBudget
PROPERTIES
    FrozenPackage
    DraftsAsApproved
CHECK_DEADLOCK FALSE

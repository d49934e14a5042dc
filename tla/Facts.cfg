SPECIFICATION MCSpec
CONSTANTS
    Workers = {w1, w2}
    Accounts = {"a", "b"}
    Feeds <- MCFeeds
    Selected = {"a"}
    Length = 2
    MaxAttempts = 2
    Nobody = Nobody
    Verifiers = {v1, v2, v3}
    Keys = {"k", "l"}
    MaxFetches = 2
    Minute = 2
    BankFacts <- MCBankFacts
    LedgerFacts <- MCLedgerFacts
    Mappings <- MCMappings
    MaxBanks = 2
    MaxLedgers = 3
INVARIANTS
    FactsTypeOK
    CacheAtCursor
    SucceededMeansSynced
    FetchesShared
    EverythingAccounted
    ExecutionSound
PROPERTIES
    FinalRequestsStay
    RequestsEnd
CHECK_DEADLOCK FALSE

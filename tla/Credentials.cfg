SPECIFICATION MCSpec
CONSTANTS
    t1 = t1
    t2 = t2
    p1 = p1
    p2 = p2
    a1 = a1
    a2 = a2
    x = x
    y = y
    Threads = {t1, t2}
    Processes = {p1, p2}
    MaxSize = 3
    Deployments <- MCDeployments
    MaxToken = 3
    Authorizations = {a1, a2}
    Targets = {x, y}
    Reach <- MCReach
    Requests = {r1, r2}
    None = None
INVARIANTS
    CredentialsTypeOK
    PoolAccounted
    NoSleepingWaiter
    RotationsExplained
    RedeemedOnce
    HealthyHasCredential
PROPERTIES
    ChainSpec
    RefreshEnds
CHECK_DEADLOCK FALSE

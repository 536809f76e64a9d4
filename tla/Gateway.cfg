\* Two concurrent calls on one gated key, the worker, clicks and faults.
CONSTANTS
    Keys = {k1}
    ApprovalIds = {a1}
    Stamps = {t1}
    Policies = {pGated}
    VerdictOf <- AlwaysGated
    HasRole <- AllRoles
    PlanOf <- AllPlans
    DiffOf <- AllDiffs
    TtlOf <- AllRoles
    Gates <- GatesByVerdict
    TextBodies = TRUE
    SignerKeys = {s1}
    Null = Null
    Requests = {r1, r2}
    KeyOf <- SameKey
    SlackConfigured = TRUE
    ReadFaults = TRUE
    Workers = {w1}
    WorkerLimit = 1
    MaxPosts = 2
    Unreliable = TRUE
    pGated = pGated
    pAllow = pAllow
    pDeny = pDeny
SPECIFICATION GatewaySpec
INVARIANTS
    StatusMatchesReceipt
    MintsAreAuthorized
    ApprovalIsAnnounced
    MessagesAreBacked

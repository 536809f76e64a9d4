\* One call, the worker and clicks, no faults: is an approval decided once?
CONSTANTS
    Keys = {k1}
    ApprovalIds = {a1}
    Stamps = {t1}
    Policies = {pGated}
    VerdictOf <- AlwaysGated
    HasRole <- AllRoles
    PlanOf <- AllPlans
    DiffOf <- AllDiffs
    TtlOf <- AllRoles
    Gates <- GatesByVerdict
    TextBodies = TRUE
    SignerKeys = {s1}
    Null = Null
    Requests = {r1}
    KeyOf <- SameKey
    SlackConfigured = TRUE
    ReadFaults = FALSE
    Workers = {w1}
    WorkerLimit = 1
    MaxPosts = 2
    Unreliable = FALSE
    pGated = pGated
    pAllow = pAllow
    pDeny = pDeny
SPECIFICATION GatewaySpec
INVARIANTS
    OneDecisionPerApproval

\* One gated key, calls with full evidence: how is an approved issuance graded?
CONSTANTS
    Keys = {k1}
    ApprovalIds = {a1}
    Stamps = {t1}
    Policies = {pGated}
    VerdictOf <- AlwaysGated
    HasRole <- AllRoles
    PlanOf <- AllPlans
    DiffOf <- AllDiffs
    TtlOf <- AllRoles
    Gates <- GatesByVerdict
    TextBodies = TRUE
    SignerKeys = {s1}
    Null = Null
    Requests = {r1}
    KeyOf <- SameKey
    SlackConfigured = TRUE
    ReadFaults = FALSE
    pGated = pGated
    pAllow = pAllow
    pDeny = pDeny
SPECIFICATION Spec
INVARIANTS
    ApprovedEarnsBestGrade

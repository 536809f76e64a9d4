\* Postgres: is a receipt that was written still verifiable?
CONSTANTS
    Keys = {k1}
    ApprovalIds = {a1}
    Stamps = {t1}
    Policies = {pAllow}
    VerdictOf <- MixedVerdicts
    HasRole <- AllRoles
    PlanOf <- AllPlans
    DiffOf <- AllDiffs
    TtlOf <- AllRoles
    Gates <- GatesByVerdict
    TextBodies = FALSE
    SignerKeys = {s1}
    Null = Null
    Clicks = {c1}
    Requests = {r1}
    KeyOf <- SameKey
    SlackConfigured = FALSE
    ReadFaults = FALSE
    pGated = pGated
    pAllow = pAllow
    pDeny = pDeny
SPECIFICATION PgSpec
INVARIANTS
    StoredReceiptsVerify

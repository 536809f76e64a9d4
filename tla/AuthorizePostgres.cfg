\* Postgres: the operator swaps a gating, an allowing and a denying policy.
CONSTANTS
    Keys = {k1}
    ApprovalIds = {a1}
    Stamps = {t1}
    Policies = {pGated, pAllow, pDeny}
    VerdictOf <- MixedVerdicts
    HasRole <- AllRoles
    PlanOf <- AllPlans
    DiffOf <- AllDiffs
    TtlOf <- AllRoles
    Gates <- GatesByVerdict
    TextBodies = FALSE
    SignerKeys = {s1}
    Null = Null
    Clicks = {c1, c2}
    Requests = {r1, r2}
    KeyOf <- SameKey
    SlackConfigured = FALSE
    ReadFaults = FALSE
    pGated = pGated
    pAllow = pAllow
    pDeny = pDeny
SPECIFICATION PgSpec
SYMMETRY PgSymmetry
INVARIANTS
    PgTypeOK
    StatusMatchesReceipt
    MintsAreAuthorized
    CredentialsAreRecorded
    AnswersResolve
    BestGradeIsEarned
    ChainsEnd

\* A key every policy gates: two jobs, clicks, failing reads, restarts.
CONSTANTS
    Keys = {k1}
    ApprovalIds = {a1, a2}
    Stamps = {t1, t2}
    Policies = {pGated}
    VerdictOf <- AlwaysGated
    HasRole <- AllRoles
    PlanOf <- AllPlans
    DiffOf <- AllDiffs
    TtlOf <- AllRoles
    Gates <- GatesByVerdict
    TextBodies = TRUE
    SignerKeys = {s1}
    Null = Null
    Requests = {r1, r2}
    KeyOf <- SameKey
    SlackConfigured = TRUE
    ReadFaults = TRUE
    pGated = pGated
    pAllow = pAllow
    pDeny = pDeny
SPECIFICATION JobsFairSpec
INVARIANTS
    JobsTypeOK
    ClearedIsNotAskedAgain
    SingleIssuance
    ApprovalMatchesStatus
    DeniedGetsNothing
    PackAgrees
    ReferencesResolve
PROPERTIES
    LifecycleSpec
    ApprovedIsIssued

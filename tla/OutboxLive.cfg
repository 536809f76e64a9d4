\* An inline call and one worker under fairness, batches of two, a crash.
CONSTANTS
    Keys = {k1, k2}
    ApprovalIds = {a1, a2}
    Stamps = {t1}
    Policies = {p1}
    VerdictOf <- GatedVerdicts
    HasRole <- AllRoles
    SignerKeys = {s1}
    Null = Null
    Inline = {i1}
    Workers = {w1}
    WorkerLimit = 2
    MaxPosts = 5
    MaxCrashes = 1
    Unreliable = FALSE
SPECIFICATION FairSpec
INVARIANTS
    OutboxTypeOK
    QueuedOrShown
    RepeatsBounded
PROPERTIES
    EventuallySent

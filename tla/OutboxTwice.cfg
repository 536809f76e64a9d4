\* An inline call and the worker, no faults: is a message posted twice?
CONSTANTS
    Keys = {k1}
    ApprovalIds = {a1}
    Stamps = {t1}
    Policies = {p1}
    VerdictOf <- GatedVerdicts
    HasRole <- AllRoles
    SignerKeys = {s1}
    Null = Null
    Inline = {i1}
    Workers = {w1}
    WorkerLimit = 1
    MaxPosts = 3
    MaxCrashes = 0
    Unreliable = FALSE
SPECIFICATION Spec
INVARIANTS
    PostedOnce

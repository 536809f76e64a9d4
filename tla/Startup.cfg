\* Three processes of two builds start on an empty database.
CONSTANTS
    old = old
    new1 = new1
    new2 = new2
    Gateways = {old, new1, new2}
    Files <- BuildFiles
    FileKey = file
    DrawnKeys = {d1, d2}
    Null = Null
    MaxFaults = 2
SPECIFICATION FairSpec
INVARIANTS
    TypeOK
    AppliedOnce
    ServesMigratedSchema
    ConfiguredVerifies
PROPERTIES
    VerdictStays
    EventuallyServes

\* 128 failing posts of one row, twice the width of the shifted integer; and
\* every policy of up to two rules and every input, over one name per field.
CONSTANTS
    MaxFailures = 128
    Values = {x, y}
    Named = {x}
    Roles = {role1}
    MaxRules = 2
    Any = Any
    None = None
SPECIFICATION FunctionsSpec
CHECK_DEADLOCK FALSE
INVARIANTS
    NeverPutOffTooLong
    GrowsAtFirst
    FirstMatchDecides

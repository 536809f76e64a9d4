\* The same rows: does the wait stay in the range the comment gives?
CONSTANTS
    MaxFailures = 128
SPECIFICATION Spec
CHECK_DEADLOCK FALSE
INVARIANTS
    WaitsAtLeastBase

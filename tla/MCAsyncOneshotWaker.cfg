CONSTANTS
    v1 = v1
    v2 = v2
    Values <- MCValues
SPECIFICATION Spec
INVARIANTS
    WakerExclusive
CHECK_DEADLOCK FALSE

CONSTANTS
    Callers = {c1, c2}
SPECIFICATION Spec
INVARIANTS
    CompletesLiveFrame
CHECK_DEADLOCK FALSE

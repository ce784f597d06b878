CONSTANTS
    MaxMade = 5
    MaxCap = 6
    Uninit = Uninit
    Threads = {t1, t2, t3}
    Worker = worker
    None = None
    Width = 3
    MaxRefs = 5
    Users = {u1, u2, u3}
    RevokedBit = 4
    Entries = {e1, e2, e3}
    Lists = {l1, l2}
    Null = Null
SPECIFICATION OwnSpec
INVARIANTS
    OwnedOnce
    CountExact
    CountIsGuards
    NoUseAfterDrop
    DropDuty
    
PROPERTIES
    ImplementsVec
    
    NoAccessAfterRevoke
    ImplementsCell
\* The program may stop using what it owns.
CHECK_DEADLOCK FALSE

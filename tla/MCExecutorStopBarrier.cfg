CONSTANTS
    accept = accept
    conn = conn
    NoParent = NoParent
    Tasks <- MCTasks
    Parent <- MCParent
    Stoppers = {stop1}
    HandleHolders = {}
    MaxWakers = 1
    Outliving = {conn}
SPECIFICATION Spec
INVARIANTS
    StopIsBarrier
CHECK_DEADLOCK FALSE

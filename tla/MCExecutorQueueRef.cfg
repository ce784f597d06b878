CONSTANTS
    accept = accept
    conn = conn
    NoParent = NoParent
    Tasks <- MCTasks
    Parent <- MCParent
    Stoppers = {stop1}
    HandleHolders = {holder1}
    MaxWakers = 1
    Outliving = {conn}
SPECIFICATION Spec
INVARIANTS
    QueueGivesBack
CHECK_DEADLOCK FALSE

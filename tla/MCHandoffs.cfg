CONSTANTS
    Callers = {c1, c2}
    Values = {v1, v2}
    Capacity = 3
    Scripts <- MCScripts
    MaxBody = 2
    MaxHead = 5
    Base = 2
    Plans <- MCPlans
    Answers <- MCAnswers
SPECIFICATION HandoffSpec
INVARIANTS
    NoEmptyResult
    FreedByLast
    SocketFutureSound
    Framing
    InOrder
    
PROPERTIES
    ImplementsChannel
    
    
    CompleteIsAnswered
\* Calls return, channels are dropped and connections close: nothing more happens.
CHECK_DEADLOCK FALSE

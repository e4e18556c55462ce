\* Three requests of one kind; the network delays, reorders and loses.
SPECIFICATION LiveSpec
CONSTANTS
    fc03 = fc03
    Shapes = {fc03}
    Timeout = 2
    Quarantine = 3
    MaxStale = 1
    MaxDelay = 3
    Duplicates = FALSE
    MaxRequests = 3
    Unanswered = Unanswered
INVARIANT ClosedStaysClosed
PROPERTY ImplementsExchange
INVARIANT NothingStale
PROPERTY CallEnds
PROPERTY Recovers

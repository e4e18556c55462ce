\* Four requests; up to three pieces in the stream and in the buffer.
SPECIFICATION Spec
CONSTANTS
    MaxBuffer = 3
    MaxRequests = 4
    Unanswered = Unanswered
INVARIANT ClosedStaysClosed
INVARIANT NothingLeaks
PROPERTY ImplementsExchange

\* Three values in turn, two at a time; three attempts, and a controller
\* that can have a late command before the current one.
SPECIFICATION LiveSpec
CONSTANTS
    NumKeys = 3
    Burst = 2
    MaxAttempts = 3
    MaxAccepted = 2
INVARIANT ConfirmedTookEffect
INVARIANT LimitKept
PROPERTY LatchSeen
PROPERTY EachIsRefreshed
PROPERTY CommandEnds

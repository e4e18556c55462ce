\* Two commands, two paths, each path changes at most twice.
SPECIFICATION LiveSpec
CONSTANTS
    mode = mode
    power = power
    w1 = w1
    w2 = w2
    Paths <- TwoPaths
    Writers = {w1, w2}
    Plan <- TwoPlans
    Confirmed = {w2}
    MaxVersion = 2
    NoOne = NoOne
    Unread = Unread
INVARIANT Barrier
PROPERTY NeverBackwards
PROPERTY ImplementsView
PROPERTY Converges

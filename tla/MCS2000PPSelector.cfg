\* Two children, one with two zones; everything may fail, restart, unload.
SPECIFICATION LiveSpec
CONSTANTS
    r1 = r1
    r2 = r2
    Readers = {r1, r2}
    Channels <- ThreeChannels
    Uses <- TwoChildren
    Removable = {r1, r2}
    Other = Other
    NoOne = NoOne
    NoChannel = NoChannel
    NoRequest = NoRequest
INVARIANT SessionInv
INVARIANT ReadyIsCorrelated
PROPERTY SelectorNotStolen
PROPERTY NoStaleAnswer
PROPERTY EndedCallUnparks
PROPERTY ImplementsService
PROPERTY PolledIsReleased

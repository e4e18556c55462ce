CONSTANTS
    Flows = {f1, f2}
    Equipment = {"relays", "sensor", "other", "plc", "unit"}
    Mapped = {"relays", "sensor", "other"}
    ByDpls = {"sensor"}
    Unsupported = {"other"}
    WithLayout = {"plc"}
    WithUnit = {"unit"}
    Capabilities <- MCCapabilities
    Required <- MCRequired
    Exclusive <- MCExclusive
    SameArea <- MCSameArea
    Counts <- MCCounts
    Addresses = {1}
    Bases = {1, 2}
    LastAddress = 2
    Rows = {1, 2}
    Found <- MCFound
    Unread = Unread
SYMMETRY Symmetry
SPECIFICATION Spec
INVARIANTS RefusalIsShown

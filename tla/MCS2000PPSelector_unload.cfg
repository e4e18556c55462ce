\* One child may be unloaded while its request is parked.
SPECIFICATION LiveSpec
CONSTANTS
    r1 = r1
    r2 = r2
    Readers = {r1, r2}
    Channels <- TwoChannels
    Uses <- OneEach
    Removable = {r1}
    Other = Other
    NoOne = NoOne
    NoChannel = NoChannel
    NoRequest = NoRequest
PROPERTY ParkedIsReleased

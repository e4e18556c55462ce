\* A setup in progress puts an older table back.
SPECIFICATION Spec
CONSTANTS
    e1 = e1
    e2 = e2
    Entries = {e1, e2}
    ChunkCount = 2
    RowOf <- OneChunkEach
    Readable = {0, 2}
    MaxEdits <- OneRepaired
    Empty = Empty
    Unread = Unread
INVARIANT ReloadSeesEdits

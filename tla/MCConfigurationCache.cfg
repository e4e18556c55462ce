\* Two entries, one edit of each chunk.
SPECIFICATION LiveSpec
CONSTANTS
    e1 = e1
    e2 = e2
    Entries = {e1, e2}
    ChunkCount = 2
    RowOf <- OneChunkEach
    Readable = {0, 2}
    MaxEdits <- OneRepaired
    Empty = Empty
    Unread = Unread
INVARIANT RefusalIsFresh
INVARIANT QuietReloadSeesEdits
PROPERTY SetupEnds

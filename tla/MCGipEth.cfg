SPECIFICATION Spec
CONSTANTS
    NumTx = 2
    NumRx = 2
    Packets = {1, 4}
    Frames = {1, 2}
    Burst = 2
    Watermark = 1
    BufferBlocks = 2
    StatusDepth = 2
    Headers = 1
CONSTRAINT InBounds
VIEW View
INVARIANTS
    TypeOK
    RoomInFifo
    QueuesKept
    NoBufferLost
    StatusAnnounced

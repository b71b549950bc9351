\* Nothing is received: the transmit half alone.
SPECIFICATION FairSpec
CONSTANTS
    NumTx = 2
    NumRx = 1
    Packets = {1, 2}
    Frames = {}
    Burst = 1
    Watermark = 1
    BufferBlocks = 1
    StatusDepth = 1
    Headers = 1
PROPERTIES
    PacketsSent
CHECK_DEADLOCK FALSE

\* A bus that may not be ready, with every kind of frame and no chunk limit.
CONSTANTS
    Kind = "UART"
    Mtu = 3
    RxCap = 3
    StagingMax = 4
    EdgeFrames <- AllFrames
    ChunkSize = 0
    BytesMod = 3
    Overhead = 1
    MaxPayload = 2
    PayloadLens = {0, 1, 2, 3}
    SeqMod = 3
    MaxExchanges = 0
SPECIFICATION Spec
INVARIANTS OpenIffRunning StateAgrees

\* A plain edge on a UART, with frames up to one byte above the MTU.
CONSTANTS
    Kind = "UART"
    Mtu = 2
    RxCap = 3
    StagingMax = 4
    EdgeFrames <- LineFrames
    ChunkSize = 0
    BytesMod = 1
    Overhead = 1
    MaxPayload = 2
    PayloadLens = {1}
    SeqMod = 1
    MaxExchanges = 0
    GapMs = 2
    LoopMs = 2
    FifoSize = 3
    MaxFrames = 2
SPECIFICATION FairUartSpec
INVARIANTS HeardInOrder PauseSuffices
PROPERTIES CalmNeverFaults IsEngine CalmFrameHeard

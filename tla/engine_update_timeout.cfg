\* An edge that begins an update and goes silent.
CONSTANTS
    Kind = "INTERNAL"
    Mtu = 3
    RxCap = 3
    StagingMax = 4
    EdgeFrames <- AllFrames
    ChunkSize = 1
    BytesMod = 3
    Overhead = 1
    MaxPayload = 2
    PayloadLens = {0, 1, 2, 3}
    SeqMod = 3
    MaxExchanges = 3
SPECIFICATION FairSpec
PROPERTIES UpdateEnds

\* The same edge behind the SPI bus.
CONSTANTS
    Kind = "SPI"
    Mtu = 3
    RxCap = 3
    StagingMax = 4
    EdgeFrames <- PlainFrames
    ChunkSize = 1
    BytesMod = 3
    Overhead = 1
    MaxPayload = 2
    PayloadLens = {0, 1, 2, 3}
    SeqMod = 3
    MaxExchanges = 0
SPECIFICATION FairSpec
PROPERTIES HealthyEdgeNeverFaults

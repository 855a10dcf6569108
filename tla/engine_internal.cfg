\* The INTERNAL backend with every kind of answer.
CONSTANTS
    Kind = "INTERNAL"
    Mtu = 2
    RxCap = 3
    StagingMax = 4
    EdgeFrames <- AllFrames
    ChunkSize = 1
    BytesMod = 3
    Overhead = 1
    MaxPayload = 2
    PayloadLens = {0, 1, 2, 3}
    SeqMod = 3
    MaxExchanges = 4
SPECIFICATION FairSpec
INVARIANTS TypeOK CloudUpOnlyWhileRunning
PROPERTIES FaultLatched NoReconnectWhileRunning UpdateOnlyForward SlotIsMailbox KeepsEnginePort AnswerLeaves

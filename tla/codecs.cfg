\* Frame and hash sizes are the program's own; bodies and fields are scaled down.
CONSTANTS
    MaxPayload = 512
    OutCap = 522
    Commands <- SomeCommands
    SeqNums <- SomeSeqNums
    Payloads <- SomePayloads
    Noise <- SomeNoise
    Tails <- SomeTails
    KeyLens <- Boundaries
    MsgLens <- Boundaries
    BodySize = 26
    FieldSize <- SmallFields
    Answers <- SomeAnswers
    Configured = {"device_id"}
SPECIFICATION CodecsSpec
INVARIANTS OnlyWholeFrames WholeFramesPass BlocksAsDefined LengthCounts WholeValues

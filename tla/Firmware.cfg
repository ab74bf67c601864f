CONSTANTS
    Versions <- MCVersions
    FactoryVersion = 1
    StableVersions <- MCVersions
    Track = "stable"
    Ignored = 0
    NumChunks = 1
    SelectionSkipsRejected = TRUE
    w1 = w1
    w2 = w2
    b1 = b1
    b2 = b2
    NoBuffer = NoBuffer
    Workers <- MCWorkers
    Buffers <- MCBuffers
    FrameCap = 2
    PcmCap = 1
    MaxFrames = 2
    Unreliable = {2}
SPECIFICATION FirmwareSpec
PROPERTIES HealthEarned HealthDespiteClients PictureOrRollback

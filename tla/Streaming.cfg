CONSTANTS
    w1 = w1
    w2 = w2
    b1 = b1
    b2 = b2
    NoBuffer = NoBuffer
    Workers <- MCWorkers
    Buffers <- MCBuffers
    FrameCap = 2
    PcmCap = 2
    MaxFrames = 4
SPECIFICATION LiveSpec
INVARIANTS TypeOK BuffersConserved ReadyIsCurrent AudioExclusive TransferStarvesStreams
PROPERTIES DeliveredInOrder StreamsYield SnapshotAnswered

CONSTANTS
    RingCap = 4
    ChunkCap = 2
    Parts = 3
    FrameIds = 3
SPECIFICATION Spec
INVARIANTS FramesWhole GapsAnnounced
PROPERTIES CaptureRecovers

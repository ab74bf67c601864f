CONSTANTS
    Capacity = 14
    SegmentKinds <- MCSegmentKinds
    Payloads <- MCPayloads
    Entropy <- MCEntropy
    Padding <- MCPadding
    Missing = {}
    MaxFrame = 15
SPECIFICATION Spec
INVARIANTS TypeOK FramesExact NothingMissed

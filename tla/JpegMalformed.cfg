CONSTANTS
    Capacity = 14
    SegmentKinds <- MCSegmentKinds
    Payloads <- MCPayloads
    Entropy <- MCEntropy
    Padding <- MCPadding
    Missing = {2}
    MaxFrame = 15
SPECIFICATION Spec
INVARIANTS FramesExact

CONSTANTS
    SegmentSize <- MCSegmentSize
    GroupSize <- MCGroupSize
    FirstBlock <- MCFirstBlock
    MaxBlock <- MCMaxBlock
    EvCap <- MCEvCap
    OutCap <- MCOutCap
    MaxInvalidations <- MCMaxInvalidations
SPECIFICATION PSpec
INVARIANTS
    PTypeOK
    BufferedBlocksStaged
PROPERTIES
    CancellationStopsPipeline

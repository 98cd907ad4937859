CONSTANTS
    SegmentSize <- MCSegmentSize
    GroupSize <- MCGroupSize
    FirstBlock <- MCFirstBlock
    MaxBlock <- MCMaxBlock
    OutCap <- MCOutCap

SPECIFICATION Spec

INVARIANT SnapshotSegmentsStored

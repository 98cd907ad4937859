CONSTANTS
    SegmentSize <- MCSegmentSize
    GroupSize <- MCGroupSize
    FirstBlock <- MCFirstBlock
    MaxBlock <- MCMaxBlock
    OutCap <- MCOutCap

SPECIFICATION Spec

INVARIANT TypeOK
INVARIANT StoredSegmentsValid
INVARIANT RevisionCountsSegments
INVARIANT SplitMatchesFilter
INVARIANT BufferContiguous
PROPERTY PublicationRefined

CONSTANTS
    FirstBlock <- MCFirstBlock
    MaxBlock <- MCMaxBlock
    EvCap <- MCEvCap
    MaxInvalidations <- MCMaxInvalidations
SPECIFICATION Spec
INVARIANTS
    DTypeOK
    IngestedIncreasing
    NeverFetchesBeyondHead
PROPERTIES
    DownloadsReachHead

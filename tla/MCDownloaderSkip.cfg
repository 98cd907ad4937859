CONSTANTS
    FirstBlock <- MCFirstBlock
    MaxBlock <- MCMaxBlock
    EvCap <- MCEvCap
    MaxInvalidations <- MCMaxInvalidations
SPECIFICATION Spec
INVARIANT
    IngestedContiguous

CONSTANTS
    Capacity = 3
    NBlocks = 4
    NOffsets = 2
    MaxNodes = 4
SPECIFICATION Spec
INVARIANT TypeOK RowsConserved RangeOrdered FindAgrees SortedFlagSound

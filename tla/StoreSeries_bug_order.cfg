CONSTANTS
    NameCount = 3
    Catalogue <- ThreeBlocks
    Requests <- PlainRequest
    RowGroupSize = 2
    None = None
    Escaped = {2}
SPECIFICATION Spec
INVARIANT SeriesAreSorted

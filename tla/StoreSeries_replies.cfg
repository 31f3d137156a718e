CONSTANTS
    NameCount = 3
    Catalogue <- ThreeBlocks
    Requests <- AllRequests
    RowGroupSize = 2
    None = None
    Escaped = {2}
SPECIFICATION Spec
INVARIANT TypeOK
INVARIANT ReplyIsComplete
INVARIANT PartsAreWhole
INVARIANT LossIsReported
INVARIANT SkippedChunksSkipNoSeries
INVARIANT InfoCoversReply
INVARIANT LabelsAreListed

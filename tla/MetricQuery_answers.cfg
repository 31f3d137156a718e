SPECIFICATION FairSpec
CONSTANTS
    TimeMax = 15
    ReferenceMax = 399
    SegmentSpan = 200
    CounterMetrics = {"requests_total"}
    XorSamples <- MCXorSamples
    NarrowMax = 3
    Setups <- AllSetups
    Queries <- AllQueries
INVARIANT TypeOK
INVARIANT NoSeriesLost
INVARIANT BoundsCoverChunks
INVARIANT RecordIsExact
INVARIANT SlotsAreRead
INVARIANT DecodersAgree
INVARIANT EveryChunkHasItsRow
INVARIANT AnswersMatchRows
PROPERTY ImplementsTable
PROPERTY WorkEnds
CHECK_DEADLOCK FALSE

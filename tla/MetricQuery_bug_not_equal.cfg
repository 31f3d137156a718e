SPECIFICATION Spec
CONSTANTS
    TimeMax = 15
    ReferenceMax = 399
    SegmentSpan = 200
    CounterMetrics = {"requests_total"}
    XorSamples <- MCXorSamples
    NarrowMax = 3
    Setups <- OneSetup
    Queries <- NotEqual
INVARIANT AnswersAreExact
CHECK_DEADLOCK FALSE

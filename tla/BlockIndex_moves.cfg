SPECIFICATION FairSpec
CONSTANTS
    Blocks = {1, 2}
    Repositories = {old, new}
    Configs <- MaterializedOrNot
    MetadataReads = 2
    IndexBuilds = 1
    Faults = {}
    None = None
    old = old
    new = new
INVARIANT TypeOK
INVARIANT SeriesServed
INVARIANT BlocksServed
INVARIANT ChunksServed
PROPERTY DeletedStayAway
PROPERTY BootstrapEnds

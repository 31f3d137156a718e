SPECIFICATION Spec
CONSTANTS
    Blocks = {1, 2}
    Repositories = {here}
    Configs <- EachSetting
    MetadataReads = 2
    IndexBuilds = 2
    Faults = {"store", "disk", "crash", "corrupt"}
    None = None
    here = here
INVARIANT SeriesServed
INVARIANT BlocksServed
INVARIANT ChunksServed
PROPERTY ProgressKept

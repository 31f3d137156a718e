SPECIFICATION Spec
CONSTANTS
    Blocks = {1, 2}
    Repositories = {old, new}
    Configs <- SeriesOnly
    MetadataReads = 2
    IndexBuilds = 2
    Faults = {"crash"}
    None = None
    old = old
    new = new
INVARIANT SeriesServed

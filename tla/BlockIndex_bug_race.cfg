SPECIFICATION Spec
CONSTANTS
    Blocks = {1, 2}
    Repositories = {here}
    Configs <- SeriesOnly
    MetadataReads = 1
    IndexBuilds = 1
    Faults = {}
    None = None
    here = here
INVARIANT DeletionIsNotFatal

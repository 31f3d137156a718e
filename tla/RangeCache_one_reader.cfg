CONSTANTS
    k1 = k1
    k2 = k2
    k3 = k3
    r1 = r1
    r2 = r2
    None = None
    Keys <- ThreeKeys
    Size <- MixedSizes
    Readers <- OneReader
    Ranges <- PagesAndPair
    FlightIds = {1}
    InodeNumbers = {1, 2}
    Faults = {"store", "disk", "crash"}
    MaxSize = 3
    ProtectedLimit = 2
    Policy = "Slru"
    QueueBound = 9
SPECIFICATION Spec
CONSTRAINT QueuesBounded
INVARIANT TypeOK
INVARIANT EntriesHaveFiles
INVARIANT PublishedPagesWhole
PROPERTY ScanResistance

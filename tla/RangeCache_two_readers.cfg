CONSTANTS
    k1 = k1
    k2 = k2
    k3 = k3
    r1 = r1
    r2 = r2
    None = None
    Keys <- TwoKeys
    Size <- UnequalSizes
    Readers <- TwoReaders
    Ranges <- SinglePages
    FlightIds = {1, 2, 3, 4}
    InodeNumbers = {1, 2, 3}
    Faults = {"store"}
    MaxSize = 2
    ProtectedLimit = 1
    Policy = "Slru"
    QueueBound = 4
SPECIFICATION Spec
CONSTRAINT QueuesBounded
SYMMETRY ReaderSymmetry
INVARIANT EveryEntryQueued
INVARIANT ProtectedShare
INVARIANT WithinBudget
INVARIANT HandlesAlive
INVARIANT FilesHoldTheirPage
INVARIANT FilesWithinBudget
INVARIANT NoStrayFlight
INVARIANT SettledFilesFit

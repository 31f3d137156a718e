CONSTANTS
    k1 = k1
    k2 = k2
    k3 = k3
    r1 = r1
    r2 = r2
    None = None
    Keys <- OneKey
    Size <- UnitSizes
    Readers <- TwoReaders
    Ranges <- SinglePages
    FlightIds = {1, 2, 3}
    InodeNumbers = {1, 2, 3}
    Faults = {"store", "disk", "cancel", "crash"}
    MaxSize = 1
    ProtectedLimit = 1
    Policy = "Slru"
    QueueBound = 4
SPECIFICATION FairSpec
PROPERTY EveryReadReturns

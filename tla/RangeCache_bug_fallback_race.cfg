CONSTANTS
    k1 = k1
    k2 = k2
    k3 = k3
    r1 = r1
    r2 = r2
    None = None
    Keys <- TwoKeys
    Size <- UnitSizes
    Readers <- TwoReaders
    Ranges <- SinglePages
    FlightIds = {1, 2, 3, 4}
    InodeNumbers = {1, 2, 3}
    Faults = {}
    MaxSize = 1
    ProtectedLimit = 1
    Policy = "Slru"
    QueueBound = 4
SPECIFICATION Spec
CONSTRAINT QueuesBounded
INVARIANT ReadsFallBack

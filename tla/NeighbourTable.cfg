SPECIFICATION Spec
CONSTANTS
    Chassis = {1, 2}
    Ports = {1, 2, 3}
    Stations <- SomeStations
    Addrs = {addr}
    TTLs = {0, 2}
    Ifs = {1}
    IF_INDEX_RANGE = 65536
    MaxDelta = 2
    MaxTime = 4
    None = None
    NoValue = NoValue
    Oversized = {1}
    Overlong = {3}
    Garbled = Garbled
INVARIANTS
    TypeOK
    NoEmptyChassis
    RoundTrip
PROPERTIES
    ImplementsNeighbourSet

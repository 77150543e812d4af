SPECIFICATION Spec
CONSTANTS
    Chassis = {c1, c2}
    Ports = {p1, p2}
    Stations <- AllStations
    Addrs = {}
    TTLs = {0, 2}
    Ifs = {1, 65537}
    IF_INDEX_RANGE = 65536
    MaxDelta = 2
    MaxTime = 4
    None = None
    NoValue = NoValue
    Oversized = {}
    Overlong = {}
    Garbled = Garbled
INVARIANTS
    ReachableInterface

SPECIFICATION Spec
CONSTANTS
    Ifs = {1, 2}
    EtherIfs = {2}
    Macs = {m1}
    Addrs = {a1}
    None = None
    DUMP_READ_TIMEOUT = 3
    SYNC_TIMEOUT = 4
    EXPEDITE_TIMEOUT = 2
    SEQ_RANGE = 5
    MaxDelta = 2
    MonitorLimit = 1
    MaxChanges = 2
    MaxFaults = 1
INVARIANTS
    TypeOK
    PublishedCovers
    NumberUnused

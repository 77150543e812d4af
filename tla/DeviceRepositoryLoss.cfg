SPECIFICATION FairSpec
CONSTANTS
    Ifs = {1}
    EtherIfs = {1}
    Macs = {m1}
    Addrs = {a1}
    None = None
    DUMP_READ_TIMEOUT = 3
    SYNC_TIMEOUT = 4
    EXPEDITE_TIMEOUT = 2
    SEQ_RANGE = 4
    MaxDelta = 2
    MonitorLimit = 1
    MaxChanges = 2
    MaxFaults = 1
PROPERTY
    LossIsPublished

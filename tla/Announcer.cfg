SPECIFICATION AnnouncerSpec
CONSTANTS
    Ifs = {1}
    EtherIfs = {1}
    Macs = {m1}
    Addrs = {a1, a2}
    None = None
    DUMP_READ_TIMEOUT = 3
    SYNC_TIMEOUT = 4
    EXPEDITE_TIMEOUT = 2
    SEQ_RANGE = 3
    MaxDelta = 2
    MonitorLimit = 1
    MaxChanges = 2
    MaxFaults = 1
    MAX_TRANSMIT_CREDITS = 1
    FAST_TRANSMIT_AMOUNT = 1
    TARGET_TTL = 2
    PACKET_HOLD_AMOUNT = 2
    MESSAGE_FAST_INTERVAL = 1
INVARIANT
    SaysWhatIs
PROPERTIES
    ConvergesInPauses
    KeepsAnnouncing

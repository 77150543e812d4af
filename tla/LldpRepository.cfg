SPECIFICATION Spec
CONSTANTS
    MAX_TRANSMIT_CREDITS = 5
    FAST_TRANSMIT_AMOUNT = 4
    TARGET_TTL = 30
    PACKET_HOLD_AMOUNT = 5
    MESSAGE_FAST_INTERVAL = 1
    Macs = {m1}
    Addrs = {a1}
    None = None
    Ifs = {1}
    MaxDelta = 5
    MaxTime = 26
INVARIANTS
    TypeOK
    RateLimit
    NeverSilentTooLong
    TriggerNotLost

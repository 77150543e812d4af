SPECIFICATION Spec
CONSTANTS
    MAX_TRANSMIT_CREDITS = 2
    FAST_TRANSMIT_AMOUNT = 2
    TARGET_TTL = 11
    PACKET_HOLD_AMOUNT = 5
    MESSAGE_FAST_INTERVAL = 1
    Macs <- OneMac
    Addrs <- OnePair
    None = None
    IF_INDEX_RANGE = 65536
    MaxLag = 2
    LossBudget = 1
    InboxLimit = 2
    MachineId <- OneId
    OwnIndex = 3
    Noise <- Frames
    ETH_ALEN = 1
    IN_ADDR_SIZE = 2
    IN6_ADDR_SIZE = 3
    MAX_FRAME_BUFFER_SIZE = 100
INVARIANTS
    TypeOK
    NeighbourKept
    StoppedForgotten
    HeardAsSaid

SPECIFICATION FairSpec
CONSTANTS
    NoValue = NoValue
    Oversized = {1}
    Overlong = {}
    Garbled = Garbled
    Clients = {a, b}
    Signals = {SIGTERM}
    Tables <- OneTable
    MAX_CONCURRENT_EVENTS = 2
    MAX_DATA_TRANSPORT_PACKET_AMOUNT = 3
    Backlog = 2
    Window = 1
    MaxNews = 0
    MaxFaults = 1
CHECK_DEADLOCK FALSE
PROPERTIES
    Answered
    Reaped
    StopsOnSignal

SPECIFICATION Spec
CONSTANTS
    NoValue = NoValue
    Oversized = {1}
    Overlong = {}
    Garbled = Garbled
    Clients = {a, b}
    Signals = {SIGINT, SIGTERM}
    Tables <- SomeTables
    MAX_CONCURRENT_EVENTS = 3
    MAX_DATA_TRANSPORT_PACKET_AMOUNT = 6
    Backlog = 2
    Window = 2
    MaxNews = 1
    MaxFaults = 1
SYMMETRY ClientSymmetry
CHECK_DEADLOCK FALSE
INVARIANTS
    TypeOK
    NeverReadsInVain
    AnswersAreTables

SPECIFICATION Spec
CONSTANTS
    Instances = {d1, d2, d3}
    Inodes = {1, 2, 3, 4}
    None = None
INVARIANTS
    TypeOK
    Exclusive
    SocketOwned
    NoStaleSocket

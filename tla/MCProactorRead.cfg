\* A listener, the connection it accepts, and a connection made by gwpr_connect.
SPECIFICATION Spec
CONSTANTS
    Listeners = {l}
    Peers = {p}
    Clients = {c}
    MaxAccept = 2
    DefaultBuf = 2
    BufSizes = {1}
    MaxBytes = 2
    MaxCreated = 1
    MaxOps = 2
    MaxAgain = 1
    l = l
    p = p
    c = c
INVARIANTS
    TypeOK
    NoUseAfterFree
    StopReadHolds
    ClosedAfterData
    ConnectOnce
    AcceptOnce
PROPERTIES
    EverythingRead
    ConnectionsServed

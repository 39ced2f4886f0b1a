\* Pipelined whole writes, or one write at a time with every outcome.
SPECIFICATION Spec
CONSTANTS
    s1 = s1
    s2 = s2
    NULL = NULL
    Src = {s1, s2}
    NCells = 12
    Errno = {"again", "closed", "other"}
    Callbacks = {"closed", "error"}
    Clients <- MCClients
INVARIANTS
    TypeOK
    StreamIntact
    TailIsLast
    ReportedIsSent
    ReturnedIsUnsent
    QueueIsPolled
    CellsAccounted
PROPERTY
    QueueDrains

\* Pipelined writes and partial writes.
SPECIFICATION Spec
CONSTANTS
    s1 = s1
    s2 = s2
    NULL = NULL
    Src = {s1, s2}
    NCells = 9
    Errno = {"again"}
    Callbacks = {"closed", "error"}
    Clients <- MCPartialClients
INVARIANT
    StreamIntact

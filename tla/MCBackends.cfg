\* The wake pipe and two sources on every backend; the poll table starts full.
SPECIFICATION Spec
CONSTANTS
    Src = {1, 2, 3}
    Wake = 1
    Kinds = {"poll", "select", "kqueue", "epoll"}
    Count = 1
    Counts = {2}
    Asks <- MCAsks
    Conds <- MCConds
    MaxBad = 1
INVARIANTS
    TypeOK
    KernelSeesFlags
PROPERTIES
    Implements
    ReadyIsReported

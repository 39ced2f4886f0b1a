\* Two timers and a file, calls from callbacks and from another thread.
SPECIFICATION Spec
CONSTANTS
    t1 = t1
    t2 = t2
    t3 = t3
    f1 = f1
    Wake = Wake
    NULL = NULL
    Timer = {t1, t2}
    File = {f1}
    Ms = {1}
    StartUs = 999000
    TickUs = 500
    Backend = "epoll"
    Clients <- MCClients
    CarefulPurge = TRUE
INVARIANTS
    TypeOK
    RegisteredIsListed
    NoOversleep
    QueuedIsKept
PROPERTIES
    SpinsOnlyWhenDue
    FiresOnTime
    TimerFires

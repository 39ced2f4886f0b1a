\* gwrl_del_persistent_timeouts with other timers in the list.
SPECIFICATION Spec
CONSTANTS
    t1 = t1
    t2 = t2
    t3 = t3
    f1 = f1
    Wake = Wake
    NULL = NULL
    Timer = {t1, t2}
    File = {}
    Ms = {1}
    StartUs = 999000
    TickUs = 500
    Backend = "epoll"
    Clients <- MCPurgeClients
    CarefulPurge = FALSE
INVARIANTS
    PurgeKeepsLive

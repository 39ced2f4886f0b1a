\* Two concurrent posters, three function calls posted by user code, no timer.
SPECIFICATION Spec
CONSTANTS
    e1 = e1
    e2 = e2
    l1 = l1
    l2 = l2
    l3 = l3
    Post = {e1, e2}
    Local = {l1, l2, l3}
    NULL = NULL
    RL = RL
    CacheMax = 1
    RedispatchMax = 1
    MaxFn = 3
    Interval = FALSE
    Sync = FALSE
SYMMETRY Symmetry
INVARIANTS
    TypeOK
    PostedIsReachable
    OwnedOnce
    FreeReleasesAll
    SleepIsJustified
    QueueIsList
    PostedIsAccounted

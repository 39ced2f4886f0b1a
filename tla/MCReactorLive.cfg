\* A synchronous client, an interval that bounds the sleep.
SPECIFICATION Spec
CONSTANTS
    e1 = e1
    e2 = e2
    l1 = l1
    l2 = l2
    Post = {e1, e2}
    Local = {l1, l2}
    NULL = NULL
    RL = RL
    CacheMax = 1
    RedispatchMax = 1
    MaxFn = 0
    Interval = TRUE
    Sync = TRUE
PROPERTIES
    IsMailbox
    StopEndsRun

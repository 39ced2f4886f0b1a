\* Two posters, no discipline: can a posted event be lost?
SPECIFICATION Spec
CONSTANTS
    e1 = e1
    e2 = e2
    l1 = l1
    l2 = l2
    l3 = l3
    Post = {e1, e2}
    Local = {l1, l2, l3}
    NULL = NULL
    RL = RL
    CacheMax = 2
    RedispatchMax = 5
    MaxFn = 0
    Interval = FALSE
    Sync = FALSE
INVARIANT
    NoEventLost

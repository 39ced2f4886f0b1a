\* Three threads that create events at any time, for cache limits from 0 to 3.
SPECIFICATION Spec
CONSTANTS
    t1 = t1
    t2 = t2
    RL = RL
    c1 = c1
    c2 = c2
    c3 = c3
    c4 = c4
    c5 = c5
    NULL = NULL
    Cell = {c1, c2, c3, c4, c5}
    Thread = {RL, t1, t2}
    CacheMaxes = {0, 1, 2, 3}
SYMMETRY Symmetry
CONSTRAINT Unraced
INVARIANTS
    DistinctHandout
    CacheExact

\* Lists of up to three addresses, a spare descriptor.
SPECIFICATION Spec
CONSTANTS
    MaxAddrs = 3
    Fds = {1, 2}
    Further <- MCFurther
INVARIANTS
    NoLeak
    ResultIsTrue

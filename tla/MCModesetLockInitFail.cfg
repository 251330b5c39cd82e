CONSTANTS
    t1 = t1  t2 = t2  t3 = t3
    k1 = k1  k2 = k2
    Threads <- MCThreads
    Crtcs <- MCCrtcs
    None = None
    IdCanFail = TRUE
SYMMETRY Symmetry
SPECIFICATION Spec
INVARIANT IdleHoldsNoLock

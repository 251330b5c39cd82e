CONSTANTS
    t1 = t1
    t2 = t2
    f1 = f1
    f2 = f2
    c1 = c1
    p1 = p1
    None = None
    Threads <- MCThreads
    FBs <- MCFBs
    Crtcs <- MCCrtcs
    Planes <- MCPlanes
    StaticId <- MCStaticId
    MaxId = 4
    AllocCanFail = FALSE

SPECIFICATION Spec
SYMMETRY Symmetry

INVARIANT TypeOK
INVARIANT RefcountAccounting
INVARIANT NoUseAfterFree
INVARIANT NoBug
PROPERTY NoRevival

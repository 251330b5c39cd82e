CONSTANTS
    k1 = k1  f1 = f1  p1 = p1  p2 = p2  T1 = T1
    Planes <- MCPlanes
    FBs <- MCFBs
    Crtcs <- MCCrtcs
    HasGammaSet <- MCHasGammaSet
    Tables <- MCTables
    StaticId <- MCStaticId
    MaxId = 4
    None = None
    AllocCanFail = TRUE
    PrivCanBe = TRUE
    Size = 256
    Zero = Zero
    NoStore = NoStore
    Unset = Unset
    CopyCanFault = TRUE
SPECIFICATION Spec
SYMMETRY Symmetry
INVARIANT RemovedFbDetached

CONSTANTS
    c1 = c1
    c2 = c2
    pe = pe
    pd = pd
    p1 = p1
    b1 = b1
    b2 = b2
    None = None
    Conns <- MCConns
    Virtual = {c2}
    Props <- MCProps
    EdidProp = pe
    DpmsProp = pd
    DpmsList <- MCDpmsList
    Blobs <- MCBlobs
    EnumLists <- MCEnumLists
    MaxId = 6
    MaxProps = 2
    MaxBit = 1
    Vals = {0, 1}
    AllocCanFail = TRUE
    CanCleanup = FALSE

SPECIFICATION Spec
SYMMETRY Symmetry
INVARIANT EdidMatchesBlob
CHECK_DEADLOCK FALSE

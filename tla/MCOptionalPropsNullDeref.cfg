CONSTANTS
    None = None
    NumModes = 2
    MaxCalls = 4
    AllocCanFail = TRUE
SPECIFICATION Spec
INVARIANT NoNullDeref
CHECK_DEADLOCK FALSE

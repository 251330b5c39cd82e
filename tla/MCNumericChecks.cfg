\* 6-bit unsigned int / int32_t with a 2-bit fixed-point shift, and 4-bit
\* framebuffer_check inputs: every input of each check is enumerated.
\* A call checks once and returns, so the final states are not deadlocks.
CONSTANTS
    W = 6
    S = 2
    FbW = 4
    MaxN = 2
    MaxEncoders = 3
SPECIFICATION Spec
INVARIANT SrcCheckCorrect
INVARIANT CrtcCheckCorrect
INVARIANT FlipCheckCorrect
INVARIANT FbPlaneCheckCorrect
INVARIANT CopiesWithinCapacity
INVARIANT TwoPhaseConvention
CHECK_DEADLOCK FALSE

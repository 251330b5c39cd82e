\* Three threads, two CRTCs, five calls: enough for two drm_crtc_init calls
\* and lock_all, page flip and GETCONNECTOR calls racing them.  The run
\* ends when the callers have stopped and every call has returned, so the
\* final states are not deadlocks.
CONSTANTS
    t1 = t1  t2 = t2  t3 = t3
    k1 = k1  k2 = k2
    Threads <- MCThreads
    Crtcs <- MCCrtcs
    None = None
    IdCanFail = TRUE
    MaxCalls = 5
SPECIFICATION LiveSpec
INVARIANT TypeOK
INVARIANT LockAllCoversList
INVARIANT NoLockCycle
PROPERTY CallsReturn
CHECK_DEADLOCK FALSE

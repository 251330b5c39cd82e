------------------------- MODULE MCModesetLockLive -------------------------
(***************************************************************************)
(* ModesetLock with a bound on the calls its callers make, for checking   *)
(* that every call returns.  Once the callers stop, every call in         *)
(* progress must still complete.                                           *)
(***************************************************************************)
EXTENDS ModesetLock, TLC

CONSTANTS t1, t2, t3, k1, k2,
          MaxCalls   \* calls started over the whole behaviour

MCThreads == {t1, t2, t3}
MCCrtcs == {k1, k2}

VARIABLE callsLeft

LiveInit == Init /\ callsLeft = MaxCalls

LiveNext ==
    \E t \in Threads :
        \/ Start(t) /\ callsLeft > 0 /\ callsLeft' = callsLeft - 1
        \/ Step(t) /\ UNCHANGED callsLeft

LiveSpec ==
    /\ LiveInit /\ [][LiveNext]_<<vars, callsLeft>>
    /\ \A t \in Threads : WF_<<vars, callsLeft>>(Step(t) /\ UNCHANGED callsLeft)
====

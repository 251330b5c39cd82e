--------------------------- MODULE MCModesetLock ---------------------------
EXTENDS ModesetLock, TLC

CONSTANTS t1, t2, t3, k1, k2

MCThreads == {t1, t2, t3}
MCCrtcs == {k1, k2}

Symmetry == Permutations(MCThreads)
====

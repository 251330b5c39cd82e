---------------------------- MODULE MCModeConfig ----------------------------
EXTENDS ModeConfig, TLC

CONSTANTS k1, f1, p1, p2, T1

MCPlanes == {p1, p2}
MCFBs == {f1}
MCCrtcs == {k1}
MCHasGammaSet == {k1}
MCTables == {T1}
\* The CRTC registered first, then the framebuffer; the planes take 3 and 4.
MCStaticId == (k1 :> 1) @@ (f1 :> 2)

\* The two planes play the same part.
Symmetry == Permutations(MCPlanes)
====

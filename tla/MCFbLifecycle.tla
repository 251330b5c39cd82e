--------------------------- MODULE MCFbLifecycle ---------------------------
(* Model-checking instance of FbLifecycle: two threads (open files), two  *)
(* framebuffers, one CRTC and one plane registered at ids 1 and 2, and an *)
(* id space of 4 so that both framebuffers can be registered at once and  *)
(* a freed framebuffer's id is handed out again.                          *)
EXTENDS FbLifecycle, TLC

CONSTANTS t1, t2, f1, f2, c1, p1

MCThreads == {t1, t2}
MCFBs == {f1, f2}
MCCrtcs == {c1}
MCPlanes == {p1}
MCStaticId == (c1 :> 1) @@ (p1 :> 2)

\* Framebuffers are interchangeable until created.
Symmetry == Permutations(MCFBs)
=============================================================================

---------------------------- MODULE MCProperties ---------------------------
EXTENDS Properties, TLC

CONSTANTS c1, c2, pe, pd, p1, b1, b2

MCConns == {c1, c2}
MCProps == {pe, pd, p1}

\* Two blobs: the one non-virtual connector holds at most one, a freed
\* blob object is reused by the next creation, and a cleanup leaves one
\* behind for the other.
MCBlobs == {b1, b2}

\* drm_dpms_enum_list (ON, STANDBY, SUSPEND, OFF) cut to ON and STANDBY.
MCDpmsList == <<0, 1>>

\* Driver enum and bitmask lists of distinct values, as every list in the
\* tree is; one has a value above MaxBit, which a bitmask refuses.
MCEnumLists == {<<0, 1>>, <<1, 2>>}

Symmetry == Permutations(MCBlobs)
====

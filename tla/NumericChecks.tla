--------------------------- MODULE NumericChecks ---------------------------
(***************************************************************************)
(* The bounds checks that keep caller-supplied geometry inside a          *)
(* framebuffer: SETPLANE's source and CRTC rectangles (drm_plane.c),      *)
(* PAGE_FLIP's viewport (drm_plane.c) and framebuffer_check's pitch and   *)
(* size limits (drm_framebuffer.c).  Each is written as the C computes    *)
(* it, in W-bit unsigned and two's-complement arithmetic (64-bit values   *)
(* as 2W bits), and compared with a reference that states the intended    *)
(* bound over the integers.  Every check is per dimension; x and y use    *)
(* the same code.  S is the 16-bit shift of the 16.16 fixed-point source  *)
(* coordinates, scaled with W.                                             *)
(*                                                                         *)
(* The state is one input of one check, chosen in Init, and the verdict   *)
(* the Check step computes; the invariants compare the verdict with the   *)
(* reference, so TLC checks every input in the bounded sets.  The uapi    *)
(* types are those of drm_mode.h: src_* and crtc_w/h __u32, crtc_x/y      *)
(* __s32; mode.hdisplay and crtc->x are int, fb->width unsigned int.      *)
(***************************************************************************)
EXTENDS Integers, Queries

CONSTANTS W,    \* bits of unsigned int / int32_t
          S,    \* the fixed-point shift (16 for W = 32)
          FbW   \* bits for the framebuffer_check inputs

ASSUME W \in 2..8 /\ S \in 1..(W - 1) /\ FbW \in 2..W

UMax == 2^W - 1                \* UINT_MAX
IMax == 2^(W - 1) - 1          \* INT_MAX
U(x) == x % 2^W                \* conversion to unsigned int
I(x) == IF U(x) > IMax THEN U(x) - 2^W ELSE U(x)   \* conversion to int32_t
UInts == 0 .. UMax
Ints == -(IMax + 1) .. IMax

-----------------------------------------------------------------------------
(* SETPLANE, drm_plane.c: fb_width = fb->width << 16, then                *)
(*   src_w > fb_width || src_x > fb_width - src_w  -> -ENOSPC.            *)
SrcCheckNoLen(width, x, len) ==
    LET fbw == U(width * 2^S) IN ~(x > U(fbw - len))

SrcCheck(width, x, len) ==
    LET fbw == U(width * 2^S) IN ~(len > fbw \/ x > U(fbw - len))

(* SETPLANE: crtc_w > INT_MAX || crtc_x > INT_MAX - (int32_t) crtc_w      *)
(* -> -ERANGE.  crtc_x is int32_t, crtc_w unsigned; the subtraction is in *)
(* int and cannot overflow once crtc_w <= INT_MAX.                         *)
\* Bug variant: no crtc_w > INT_MAX test; INT_MAX - (int32_t) crtc_w then
\* overflows, which the build wraps.
CrtcCheckNoSize(x, len) ==
    ~(x > I(IMax - I(len)))

CrtcCheck(x, len) ==
    ~(len > IMax \/ x > IMax - I(len))

(* PAGE_FLIP: hdisplay (int) and crtc->x (int) against fb->width         *)
(* (unsigned): hdisplay > fb->width || crtc->x > fb->width - hdisplay     *)
(* -> -ENOSPC.  Both comparisons are unsigned: the int operands convert.  *)
\* Bug variant: no hdisplay > fb->width test.
FlipCheckNoSize(width, x, hd) ==
    ~(U(x) > U(width - U(hd)))

FlipCheck(width, x, hd) ==
    ~(U(hd) > width \/ U(x) > U(width - U(hd)))

(* framebuffer_check, per plane: (u64) width * cpp > UINT_MAX -> -ERANGE, *)
(* (u64) height * pitch + offset > UINT_MAX -> -ERANGE, and then, in       *)
(* unsigned int, pitch < width * cpp -> -EINVAL.                           *)
\* Bug variant: no 64-bit test of width * cpp.
FbPlaneCheckNoRange(width, height, cpp, pitch, offset) ==
    LET FU(x) == x % 2^FbW IN
    ~(height * pitch + offset > 2^FbW - 1 \/ pitch < FU(width * cpp))

FbPlaneCheck(width, height, cpp, pitch, offset) ==
    LET FU(x) == x % 2^FbW IN
    ~(width * cpp > 2^FbW - 1 \/ height * pitch + offset > 2^FbW - 1
      \/ pitch < FU(width * cpp))

-----------------------------------------------------------------------------
\* What each check is meant to ensure, over the integers.
SrcRef(width, x, len) == x + len <= width * 2^S
CrtcRef(x, len) == len <= IMax /\ x + len <= IMax
FlipRef(width, x, hd) == 0 <= x /\ x + hd <= width
FbPlaneRef(width, height, cpp, pitch, offset) ==
    /\ width * cpp <= pitch
    /\ height * pitch + offset <= 2^FbW - 1

\* The inputs: fb widths that fit in the shifted field and one past it;
\* viewport sizes of real modes (0 .. INT_MAX) on fbs up to INT_MAX wide
\* (drm_mode_addfb2 bounds widths by mode_config.max_width); cpp of the
\* formats (1, 2, 4 bytes).
SrcInputs == [kind : {"src"}, width : 0 .. 2^(W - S), x : UInts, len : UInts]
CrtcInputs == [kind : {"crtc"}, x : Ints, len : UInts]
FlipInputs == [kind : {"flip"}, width : 0 .. IMax, x : Ints, hd : 0 .. IMax]
FbInputs == [kind : {"fb"}, width : 1 .. 2^FbW - 1, height : 1 .. 2^FbW - 1,
             cpp : {1, 2, 4}, pitch : 0 .. 2^FbW - 1, offset : 0 .. 2^FbW - 1]

(* Query inputs: the object's counts up to MaxN (encoder arrays as the   *)
(* driver's attach and detach calls leave them), caller counts from 0 to  *)
(* one past the largest, and every position of the faulting copy, or     *)
(* none.  A property is a range (two values), an enum or bitmask of a     *)
(* non-empty driver list (entries <= values: add_enum skips repeats), or   *)
(* the value-less EDID blob property; a blob has data (create_blob        *)
(* refuses length 0); a plane may have no formats.                        *)
Caps == 0 .. MaxN + 1
ObjPropsInputs == [kind : {"objprops"}, found : BOOLEAN, n : 0 .. MaxN,
                   cap : Caps, k : 1 .. 2 * MaxN + 1]
PropShapes == {<<"range", 2, 0>>, <<"blob", 0, 0>>} \cup
              UNION {{<<kd, nv, ne>> : ne \in 1 .. nv} :
                       kd \in {"enum", "bitmask"}, nv \in 1 .. MaxN}
PropInputs == {[kind |-> "getprop", found |-> f, pkind |-> sh[1], nv |-> sh[2],
                ne |-> sh[3], capV |-> cv, capE |-> ce, k |-> k] :
                 f \in BOOLEAN, sh \in PropShapes, cv \in Caps, ce \in Caps,
                 k \in 1 .. 3 * MaxN + 1}
BlobInputs == [kind : {"getblob"}, found : BOOLEAN, n : 1 .. MaxN, cap : Caps,
               k : 1 .. 2]
PlaneInputs == [kind : {"getplane"}, found : BOOLEAN, n : 0 .. MaxN, cap : Caps,
                k : 1 .. 2]
ConnInputs == [kind : {"getconn"}, found : BOOLEAN, nm : 0 .. MaxN, np : 0 .. MaxN,
               ids : EncoderArrays, capM : Caps, capP : Caps,
               capE : 0 .. MaxEncoders + 1, k : 1 .. 3 * MaxN + MaxEncoders + 1]
QueryInputs == ObjPropsInputs \cup PropInputs \cup BlobInputs \cup PlaneInputs
               \cup ConnInputs

(* The reply of the query ioctl an input is for.                          *)
Reply(i) ==
    CASE i.kind = "objprops" -> ObjGetProperties(i.found, i.n, i.cap, i.k)
      [] i.kind = "getprop"  -> GetProperty(i.found, i.pkind, i.nv, i.ne,
                                            i.capV, i.capE, i.k)
      [] i.kind = "getblob"  -> GetBlob(i.found, i.n, i.cap, i.k)
      [] i.kind = "getplane" -> GetPlane(i.found, i.n, i.cap, i.k)
      [] i.kind = "getconn"  -> GetConnector(i.found, i.nm, i.np, i.ids,
                                             i.capM, i.capP, i.capE, i.k)

VARIABLES in,      \* the arguments of one call
          verdict, \* "none" before the check, then "accept" or "reject"
          resp     \* a query's reply: return value, entries and counts

\* The check the code applies to an input, TRUE when it accepts.
Accepts(i) ==
    CASE i.kind = "src"  -> SrcCheck(i.width, i.x, i.len)
      [] i.kind = "crtc" -> CrtcCheck(i.x, i.len)
      [] i.kind = "flip" -> FlipCheck(i.width, i.x, i.hd)
      [] i.kind = "fb"   -> FbPlaneCheck(i.width, i.height, i.cpp, i.pitch, i.offset)

NoReply == [ret |-> "none", written |-> <<>>, count |-> <<>>]

Init == /\ in \in SrcInputs \cup CrtcInputs \cup FlipInputs \cup FbInputs
                 \cup QueryInputs
        /\ verdict = "none"
        /\ resp = NoReply

\* The ioctl runs its check once on its arguments.
Check == /\ in.kind \in {"src", "crtc", "flip", "fb"}
         /\ verdict = "none"
         /\ verdict' = IF Accepts(in) THEN "accept" ELSE "reject"
         /\ UNCHANGED <<in, resp>>

\* A query ioctl runs once and replies.
Query == /\ in.kind \in {"objprops", "getprop", "getblob", "getplane", "getconn"}
         /\ resp = NoReply
         /\ resp' = Reply(in)
         /\ UNCHANGED <<in, verdict>>

Next == Check \/ Query
Spec == Init /\ [][Next]_<<in, verdict, resp>>

-----------------------------------------------------------------------------
(* SETPLANE's source check accepts exactly the source rectangles inside  *)
(* the framebuffer when fb->width << 16 does not wrap, and never accepts  *)
(* one outside it (unsigned fb_width - src_w cannot wrap after the first  *)
(* test).                                                                  *)
SrcCheckCorrect ==
    in.kind = "src" /\ verdict # "none" =>
        /\ verdict = "accept" => SrcRef(in.width, in.x, in.len)
        /\ in.width * 2^S <= UMax => (SrcRef(in.width, in.x, in.len) => verdict = "accept")

(* SETPLANE's CRTC check accepts exactly the rectangles whose size fits  *)
(* an int and whose far edge crtc_x + crtc_w does not overflow int.       *)
CrtcCheckCorrect ==
    in.kind = "crtc" /\ verdict # "none" => (verdict = "accept" <=> CrtcRef(in.x, in.len))

(* PAGE_FLIP accepts exactly the viewports inside the new framebuffer;   *)
(* a negative crtc->x converts to a large unsigned and is refused.        *)
FlipCheckCorrect ==
    in.kind = "flip" /\ verdict # "none" =>
        (verdict = "accept" <=> FlipRef(in.width, in.x, in.hd))

(* framebuffer_check accepts exactly the planes whose pitch holds a row  *)
(* and whose last byte is addressable in 32 bits.                          *)
FbPlaneCheckCorrect ==
    in.kind = "fb" /\ verdict # "none" =>
        (verdict = "accept" <=> FbPlaneRef(in.width, in.height, in.cpp, in.pitch, in.offset))
-----------------------------------------------------------------------------
(* What a query is asked, array by array in the order the ioctl handles   *)
(* them: the object's count n and the caller's count cap.                 *)
Asked(i) ==
    CASE i.kind = "objprops" -> <<[n |-> i.n, cap |-> i.cap]>>
      [] i.kind = "getprop"  ->
            <<[n |-> i.nv, cap |-> i.capV]>> \o
            (IF i.pkind = "range" THEN <<>>
             ELSE <<[n |-> IF i.pkind = "blob" THEN 0 ELSE i.ne, cap |-> i.capE]>>)
      [] i.kind \in {"getblob", "getplane"} -> <<[n |-> i.n, cap |-> i.cap]>>
      [] i.kind = "getconn"  ->
            <<[n |-> i.nm, cap |-> i.capM], [n |-> i.np, cap |-> i.capP],
              [n |-> Cardinality({s \in DOMAIN i.ids : i.ids[s] # 0}),
               cap |-> i.capE]>>

(* No query writes past the buffers its caller sized: every user array    *)
(* receives at most as many entries as the count the caller passed for    *)
(* it, whatever the object holds and wherever a copy faults.  Each ioctl  *)
(* counts first and copies in a second loop, so the test and the copy     *)
(* must agree (GETCONNECTOR's encoder slots may hold holes and repeats).  *)
CopiesWithinCapacity ==
    resp # NoReply =>
        \A j \in DOMAIN resp.written : resp.written[j] <= Asked(in)[j].cap

(* The two-phase convention (spec section 6): a query that succeeds       *)
(* reports every array's true count, fills an array completely when the   *)
(* caller's count is at least the true one and writes none of it          *)
(* otherwise, and only a missing object gives -EINVAL.  GETBLOB's         *)
(* equality test is left out; it is listed as a hazard.                   *)
TwoPhaseConvention ==
    resp # NoReply /\ in.kind # "getblob" =>
        /\ resp.ret = "EINVAL" <=> ~in.found
        /\ resp.ret = "OK" =>
              \A j \in DOMAIN Asked(in) :
                  LET a == Asked(in)[j] IN
                  /\ resp.count[j] = a.n
                  /\ resp.written[j] = IF a.cap >= a.n THEN a.n ELSE 0
====

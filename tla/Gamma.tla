------------------------------- MODULE Gamma -------------------------------
(***************************************************************************)
(* The CRTC gamma ramp of drm_color_mgmt.c.  A driver sizes the ramp once *)
(* with drm_mode_crtc_set_gamma_size, which allocates crtc->gamma_store   *)
(* (three channels of gamma_size entries).  GAMMA_SET copies the red,     *)
(* green and blue channels from the caller into gamma_store, one          *)
(* copy_from_user each, and then hands the store to the driver's          *)
(* gamma_set hook; GAMMA_GET copies the three channels back out.  Both    *)
(* ioctls run under drm_modeset_lock_all, so each is one atomic step.     *)
(*                                                                         *)
(* A channel's contents are abstracted to a member of Tables (Zero for    *)
(* the kzalloc'ed contents).  A copy that faults stops the ioctl with     *)
(* EFAULT after the channels before it were copied.                       *)
(***************************************************************************)
EXTENDS Naturals

CONSTANTS Crtcs,       \* CRTCs on crtc_list
          HasGammaSet, \* CRTCs whose funcs->gamma_set is not NULL
          Size,        \* the gamma_size a driver asks for (> 0)
          Tables,      \* channel contents a caller can pass
          Zero,        \* contents of a freshly kzalloc'ed channel
          NoStore,     \* crtc->gamma_store == NULL
          Unset,       \* the driver's gamma_set has not been called
          CopyCanFault \* whether copy_from_user / copy_to_user may fault

ASSUME /\ HasGammaSet \subseteq Crtcs
       /\ Size \in Nat \ {0}
       /\ CopyCanFault \in BOOLEAN

VARIABLES
    gammaSize,  \* crtc->gamma_size
    store,      \* crtc->gamma_store: NoStore or [r, g, b] channel contents
    hw,         \* the ramp last passed to gamma_set (Unset if never)
    user        \* the caller's buffers of the last GAMMA_GET, per CRTC

vars == <<gammaSize, store, hw, user>>

Channels == <<"r", "g", "b">>
Ramp == [{"r", "g", "b"} -> Tables \cup {Zero}]

\* Where a sequence of three copies stops: 4 when none faults, else the
\* index of the faulting channel.
FaultPoints == IF CopyCanFault THEN 1..4 ELSE {4}

\* The ramp after copying channels 1..k-1 of src over dst.
CopyUpTo(dst, src, k) ==
    [ch \in {"r", "g", "b"} |->
        IF \E i \in 1..(k - 1) : Channels[i] = ch THEN src[ch] ELSE dst[ch]]

-----------------------------------------------------------------------------
\* Bug variant: the ENOMEM path leaves gamma_size set.
SetGammaSizeKeepSize(c) ==
    /\ store[c] = NoStore
    /\ gammaSize' = [gammaSize EXCEPT ![c] = Size]
    /\ \/ store' = [store EXCEPT ![c] = [ch \in {"r", "g", "b"} |-> Zero]]
       \/ UNCHANGED store
    /\ UNCHANGED <<hw, user>>

(* drm_mode_crtc_set_gamma_size, called by the driver when it sets the    *)
(* CRTC up: gamma_size is set, then the store allocated; on ENOMEM        *)
(* gamma_size goes back to 0.                                              *)
SetGammaSize(c) ==
    /\ store[c] = NoStore
    /\ \/ /\ gammaSize' = [gammaSize EXCEPT ![c] = Size]
          /\ store' = [store EXCEPT ![c] = [ch \in {"r", "g", "b"} |-> Zero]]
       \/ /\ gammaSize' = [gammaSize EXCEPT ![c] = 0]
          /\ UNCHANGED store
    /\ UNCHANGED <<hw, user>>

(* drm_mode_gamma_set_ioctl with the caller's size n and channels src.    *)
(* An unknown CRTC id, a NULL gamma_set or n # gamma_size return an       *)
(* error before anything is written.  The three copies go into the store  *)
(* in place; only when all succeed is gamma_set called.  With gamma_size  *)
(* 0 nothing is copied and gamma_set gets a ramp of no entries.           *)
GammaSet(c, n, src, k) ==
    /\ c \in HasGammaSet
    /\ n = gammaSize[c]
    /\ IF n = 0
       THEN /\ hw' = [hw EXCEPT ![c] = NoStore]
            /\ UNCHANGED store
       ELSE LET s == CopyUpTo(store[c], src, k) IN
            /\ store' = [store EXCEPT ![c] = s]
            /\ hw' = IF k = 4 THEN [hw EXCEPT ![c] = s] ELSE hw
    /\ UNCHANGED <<gammaSize, user>>

(* drm_mode_gamma_get_ioctl: after the same id and size checks, the       *)
(* three channels are copied out in order, stopping at a fault.           *)
GammaGet(c, n, k) ==
    /\ n = gammaSize[c]
    /\ n > 0
    /\ user' = [user EXCEPT ![c] = CopyUpTo(user[c], store[c], k)]
    /\ UNCHANGED <<gammaSize, store, hw>>

-----------------------------------------------------------------------------
Init ==
    /\ gammaSize = [c \in Crtcs |-> 0]
    /\ store = [c \in Crtcs |-> NoStore]
    /\ hw = [c \in Crtcs |-> Unset]
    /\ user = [c \in Crtcs |-> [ch \in {"r", "g", "b"} |-> Zero]]

Next ==
    \E c \in Crtcs :
        \/ SetGammaSize(c)
        \/ \E n \in {0, Size}, k \in FaultPoints :
              \/ \E src \in Ramp : GammaSet(c, n, src, k)
              \/ GammaGet(c, n, k)

Spec == Init /\ [][Next]_vars

-----------------------------------------------------------------------------
====

---------------------------- MODULE FbLifecycle ----------------------------
(***************************************************************************)
(* Reference-counted framebuffer lifecycle of drm_framebuffer.c, together *)
(* with the ioctls of drm_plane.c that bind framebuffers to planes and     *)
(* CRTCs, run by concurrent threads.  Each thread is the single issuer of *)
(* ioctls on its own open DRM file, so `filpFbs[t]' is that file's `fbs'   *)
(* list and drm_fb_release(t) is the file being closed.                    *)
(*                                                                         *)
(* Locks: `modeset' is the holder of drm_modeset_lock_all                 *)
(* (mode_config.mutex plus every crtc->mutex); `crtcLock[c]' is a single  *)
(* crtc->mutex taken alone (page flip).  No code path waits for another   *)
(* lock while it holds mode_config.fb_lock or idr_mutex, so each of their *)
(* critical sections is one atomic step (an action, or an operator of     *)
(* ModeObject) and they need no variable.  file->fbs_lock is only taken  *)
(* by the file's own thread, so it is never contended.                    *)
(*                                                                         *)
(* A step of a thread is what it does between two lock operations; the    *)
(* pc names the point the thread has reached.  Unreferences a call still  *)
(* has to make are queued in `drops[t]' and performed one per step by      *)
(* Put, so that a final unreference runs the destroy callback (Destroy),  *)
(* which takes fb_lock, in the lock context of the caller.                 *)
(***************************************************************************)
EXTENDS Naturals, Sequences, FiniteSets, FiniteSetsExt, Functions

CONSTANTS Threads,      \* concurrent callers, one per open file
          FBs,          \* framebuffer objects a driver's fb_create can return
          Crtcs,        \* registered CRTCs (scan-out engines)
          Planes,       \* registered (non-private) planes
          StaticId,     \* ids the CRTCs and planes were registered under
          MaxId,        \* size of the idr's id space
          None,         \* NULL pointer / empty idr slot / unlocked
          AllocCanFail  \* whether idr_pre_get may fail with -ENOMEM

ASSUME StaticId \in [Crtcs \cup Planes -> 1..MaxId] /\ IsInjective(StaticId)
ASSUME AllocCanFail \in BOOLEAN

MO == INSTANCE ModeObject WITH NoObj <- None

VARIABLES
    idr,         \* mode_config.crtc_idr
    fbId,        \* fb->base.id
    refcount,    \* fb->refcount
    fbState,     \* "unused" (not yet created), "live", "freed" (destroyed)
    fbList,      \* mode_config.fb_list
    filpFbs,     \* file->fbs of each thread's file
    crtcFb,      \* crtc->fb
    planeFb,     \* plane->fb
         \* holder of mode_config.fb_lock
    modeset,     \* holder of drm_modeset_lock_all
    crtcLock,    \* holder of a crtc->mutex taken on its own
    pc,          \* where each thread is
    fbv,         \* the framebuffer pointer a thread holds a reference on
    target,      \* the plane or CRTC a thread operates on
    drops,       \* unreferences the thread still has to make, in order
    after,       \* where the thread continues once `drops' is empty
    dying,       \* framebuffer whose destroy callback the thread is running
    bug,         \* BUG() reached in drm_framebuffer_free_bug
    listCorrupt  \* list_del of an fb->head never added to fb_list

vars == <<idr, fbId, refcount, fbState, fbList, filpFbs, crtcFb, planeFb,
          modeset, crtcLock, pc, fbv, target, drops, after, dying,
          bug, listCorrupt>>

Objs == FBs \cup Crtcs \cup Planes

\* The id field of every mode object.
ObjId == [o \in Objs |-> IF o \in FBs THEN fbId[o] ELSE StaticId[o]]

\* The ids a caller can pass; 0 is the "no framebuffer" id.
IdArgs == 0..MaxId

Pcs == {"idle", "add_publish", "rm_check", "rm_scan", "put", "destroy",
        "sp_commit", "pf_lookup", "pf_unlock", "sc_unlock", "rel_next"}

\* drm_modeset_lock_all can be taken: mode_config.mutex and every
\* crtc->mutex are free.
LockAllFree == modeset = None /\ \A c \in Crtcs : crtcLock[c] = None

\* __drm_framebuffer_lookup: idr lookup with type and id check.
LookupFb(id) == MO!ObjectFind(idr, ObjId, id, FBs)

\* The pointers for which a thread at `pc' owns a reference in `fbv'.
HoldsFbv == {"add_publish", "rm_check", "rm_scan", "sp_commit"}

\* drops as a sequence of the framebuffers to unreference, old before new.
DropOf(f) == IF f = None THEN <<>> ELSE <<f>>

-----------------------------------------------------------------------------
(* drm_framebuffer_init, reached from drm_mode_addfb2 through the driver's *)
(* fb_create.  Under fb_lock: kref_init, drm_mode_object_get and, only on *)
(* success, the idr reference and the fb_list insertion.  The function    *)
(* returns 0 on both paths.                                                *)
\* Bug variant: the idr reference is not taken, so refcount starts at 1
\* (the accounting spec 4.4 describes).
InitOkNoIdrRef(t, f) ==
    /\ MO!CanGetId(idr)
    /\ idr' = MO!ObjectGet(idr, f)
    /\ fbId' = [fbId EXCEPT ![f] = MO!NewId(idr)]
    /\ refcount' = [refcount EXCEPT ![f] = 1]
    /\ fbList' = fbList \cup {f}

InitOk(t, f) ==
    /\ MO!CanGetId(idr)
    /\ idr' = MO!ObjectGet(idr, f)
    /\ fbId' = [fbId EXCEPT ![f] = MO!NewId(idr)]
    /\ refcount' = [refcount EXCEPT ![f] = 2]
    /\ fbList' = fbList \cup {f}

InitNoId(t, f) ==
    /\ ~MO!CanGetId(idr) \/ AllocCanFail
    /\ refcount' = [refcount EXCEPT ![f] = 1]
    /\ UNCHANGED <<idr, fbId, fbList>>

AddFbInit(t) ==
    /\ pc[t] = "idle"
    /\ \E f \in FBs :
        /\ fbState[f] = "unused"
        /\ InitOk(t, f) \/ InitNoId(t, f)
        /\ fbState' = [fbState EXCEPT ![f] = "live"]
        /\ fbv' = [fbv EXCEPT ![t] = f]
    /\ pc' = [pc EXCEPT ![t] = "add_publish"]
    /\ UNCHANGED <<filpFbs, crtcFb, planeFb, modeset, crtcLock,
                   target, drops, after, dying, bug, listCorrupt>>

(* drm_mode_addfb2 after fb_create: under file->fbs_lock, report the id   *)
(* and add the framebuffer to the file's list; its reference is the one  *)
(* kref_init made.                                                         *)
AddFbPublish(t) ==
    /\ pc[t] = "add_publish"
    /\ filpFbs' = [filpFbs EXCEPT ![t] = @ \cup {fbv[t]}]
    /\ fbv' = [fbv EXCEPT ![t] = None]
    /\ pc' = [pc EXCEPT ![t] = "idle"]
    /\ UNCHANGED <<idr, fbId, refcount, fbState, fbList, crtcFb, planeFb,
                   modeset, crtcLock, target, drops, after, dying,
                   bug, listCorrupt>>

(* __drm_framebuffer_unregister with fb_lock held: idr_remove, clear the  *)
(* id, and drop the idr reference with __drm_framebuffer_unreference,     *)
(* whose release callback is drm_framebuffer_free_bug (BUG()).            *)
\* Bug variant: the reference is dropped but the framebuffer is left in
\* the idr with its id (the "mark fb as reaped" step left out).
UnregisterKeepId(f) ==
    /\ refcount' = [refcount EXCEPT ![f] = @ - 1]
    /\ bug' = (bug \/ refcount[f] - 1 = 0)
    /\ UNCHANGED <<idr, fbId>>

Unregister(f) ==
    /\ idr' = MO!ObjectPut(idr, fbId[f])
    /\ fbId' = [fbId EXCEPT ![f] = 0]
    /\ refcount' = [refcount EXCEPT ![f] = @ - 1]
    /\ bug' = (bug \/ refcount[f] - 1 = 0)

(* drm_mode_rmfb: under fbs_lock and fb_lock, look the id up, require the *)
(* framebuffer to be on the caller's list, unregister it and unlink it;   *)
(* then drm_framebuffer_remove with the list's reference.  A failed       *)
(* lookup returns -EINVAL without changing anything.                       *)
RmFb(t) ==
    /\ pc[t] = "idle"
    /\ \E id \in MO!Ids :
        LET f == LookupFb(id) IN
        /\ f # None
        /\ f \in filpFbs[t]
        /\ Unregister(f)
        /\ filpFbs' = [filpFbs EXCEPT ![t] = @ \ {f}]
        /\ fbv' = [fbv EXCEPT ![t] = f]
    /\ pc' = [pc EXCEPT ![t] = "rm_check"]
    /\ after' = [after EXCEPT ![t] = "idle"]
    /\ UNCHANGED <<fbState, fbList, crtcFb, planeFb, modeset,
                   crtcLock, target, drops, dying, listCorrupt>>

(* drm_fb_release: with fbs_lock held, for each framebuffer on the file's *)
(* list unregister it under fb_lock, unlink it and drm_framebuffer_remove *)
(* it.  Once the list is empty the file is closed; the thread then goes   *)
(* on with a newly opened file, whose list is empty.  Closing a file that *)
(* has no framebuffers changes nothing here.                               *)
ReleaseOne(t) ==
    /\ pc[t] \in {"idle", "rel_next"}
    /\ \E f \in filpFbs[t] :
        /\ Unregister(f)
        /\ filpFbs' = [filpFbs EXCEPT ![t] = @ \ {f}]
        /\ fbv' = [fbv EXCEPT ![t] = f]
    /\ pc' = [pc EXCEPT ![t] = "rm_check"]
    /\ after' = [after EXCEPT ![t] = "rel_next"]
    /\ UNCHANGED <<fbState, fbList, crtcFb, planeFb, modeset,
                   crtcLock, target, drops, dying, listCorrupt>>

ReleaseDone(t) ==
    /\ pc[t] = "rel_next"
    /\ filpFbs[t] = {}
    /\ pc' = [pc EXCEPT ![t] = "idle"]
    /\ UNCHANGED <<idr, fbId, refcount, fbState, fbList, filpFbs, crtcFb,
                   planeFb, modeset, crtcLock, fbv, target, drops,
                   after, dying, bug, listCorrupt>>

(* drm_framebuffer_remove, first half: the lock-free read of the refcount *)
(* that skips the scan when the caller seems to hold the last reference.  *)
RemoveCheck(t) ==
    /\ pc[t] = "rm_check"
    /\ IF refcount[fbv[t]] > 1
       THEN /\ pc' = [pc EXCEPT ![t] = "rm_scan"]
            /\ UNCHANGED <<fbv, drops>>
       ELSE /\ drops' = [drops EXCEPT ![t] = <<fbv[t]>>]
            /\ fbv' = [fbv EXCEPT ![t] = None]
            /\ pc' = [pc EXCEPT ![t] = "put"]
    /\ UNCHANGED <<idr, fbId, refcount, fbState, fbList, filpFbs, crtcFb,
                   planeFb, modeset, crtcLock, target, after, dying,
                   bug, listCorrupt>>

(* drm_framebuffer_remove, scan: under drm_modeset_lock_all, turn off     *)
(* every CRTC scanning out the framebuffer (drm_mode_set_config_internal  *)
(* with a NULL fb drops the CRTC's reference) and drm_plane_force_disable *)
(* every plane showing it (__drm_framebuffer_unreference, BUG on zero);   *)
(* then unlock and drop the caller's reference.                            *)
\* Bug variant: the caller's reference is dropped before the scan instead
\* of after it.
RemoveScanEarlyPut(t) ==
    /\ pc[t] = "rm_scan"
    /\ LockAllFree
    /\ LET f  == fbv[t]
           cs == {c \in Crtcs : crtcFb[c] = f}
           ps == {p \in Planes : planeFb[p] = f}
           left == refcount[f] - 1 - Cardinality(cs) - Cardinality(ps)
       IN /\ crtcFb' = [c \in Crtcs |-> IF c \in cs THEN None ELSE crtcFb[c]]
          /\ planeFb' = [p \in Planes |-> IF p \in ps THEN None ELSE planeFb[p]]
          /\ refcount' = [refcount EXCEPT ![f] = left]
          /\ bug' = (bug \/ (ps # {} /\ left = 0))
          /\ drops' = [drops EXCEPT ![t] = <<>>]
    /\ fbv' = [fbv EXCEPT ![t] = None]
    /\ pc' = [pc EXCEPT ![t] = "put"]
    /\ UNCHANGED <<idr, fbId, fbState, fbList, filpFbs, modeset,
                   crtcLock, target, after, dying, listCorrupt>>

RemoveScan(t) ==
    /\ pc[t] = "rm_scan"
    /\ LockAllFree
    /\ LET f  == fbv[t]
           cs == {c \in Crtcs : crtcFb[c] = f}
           ps == {p \in Planes : planeFb[p] = f}
           left == refcount[f] - Cardinality(cs) - Cardinality(ps)
       IN /\ crtcFb' = [c \in Crtcs |-> IF c \in cs THEN None ELSE crtcFb[c]]
          /\ planeFb' = [p \in Planes |-> IF p \in ps THEN None ELSE planeFb[p]]
          /\ refcount' = [refcount EXCEPT ![f] = left]
          /\ bug' = (bug \/ (ps # {} /\ left = 0))
          /\ drops' = [drops EXCEPT ![t] = <<f>>]
    /\ fbv' = [fbv EXCEPT ![t] = None]
    /\ pc' = [pc EXCEPT ![t] = "put"]
    /\ UNCHANGED <<idr, fbId, fbState, fbList, filpFbs, modeset,
                   crtcLock, target, after, dying, listCorrupt>>

(* drm_framebuffer_unreference (kref_put with drm_framebuffer_free): drop *)
(* the next queued reference; the last one runs the destroy callback.     *)
Put(t) ==
    /\ pc[t] = "put"
    /\ IF drops[t] = <<>>
       THEN /\ pc' = [pc EXCEPT ![t] = after[t]]
            /\ UNCHANGED <<refcount, drops, dying>>
       ELSE LET f == Head(drops[t]) IN
            /\ refcount' = [refcount EXCEPT ![f] = @ - 1]
            /\ drops' = [drops EXCEPT ![t] = Tail(@)]
            /\ IF refcount[f] = 1
               THEN /\ dying' = [dying EXCEPT ![t] = f]
                    /\ pc' = [pc EXCEPT ![t] = "destroy"]
               ELSE UNCHANGED <<dying, pc>>
    /\ UNCHANGED <<idr, fbId, fbState, fbList, filpFbs, crtcFb, planeFb,
                   modeset, crtcLock, fbv, target, after, bug,
                   listCorrupt>>

(* fb->funcs->destroy: the driver calls drm_framebuffer_cleanup, which    *)
(* unlinks fb->head from fb_list under fb_lock, and frees the object.     *)
\* Bug variant: the destroy callback frees the framebuffer without
\* drm_framebuffer_cleanup unlinking it from fb_list.
DestroyNoCleanup(t) ==
    /\ pc[t] = "destroy"
    /\ fbState' = [fbState EXCEPT ![dying[t]] = "freed"]
    /\ dying' = [dying EXCEPT ![t] = None]
    /\ pc' = [pc EXCEPT ![t] = "put"]
    /\ UNCHANGED <<idr, fbId, refcount, filpFbs, crtcFb, planeFb,
                   modeset, crtcLock, fbv, target, drops, after, bug,
                   fbList, listCorrupt>>

Destroy(t) ==
    /\ pc[t] = "destroy"
    /\ LET f == dying[t] IN
       /\ fbList' = fbList \ {f}
       /\ listCorrupt' = (listCorrupt \/ f \notin fbList)
       /\ fbState' = [fbState EXCEPT ![f] = "freed"]
    /\ dying' = [dying EXCEPT ![t] = None]
    /\ pc' = [pc EXCEPT ![t] = "put"]
    /\ UNCHANGED <<idr, fbId, refcount, filpFbs, crtcFb, planeFb,
                   modeset, crtcLock, fbv, target, drops, after, bug>>

(* drm_mode_getfb and drm_mode_dirtyfb_ioctl: drm_framebuffer_lookup     *)
(* takes a reference under fb_lock, the ioctl reads the framebuffer (and  *)
(* for dirtyfb calls the driver under drm_modeset_lock_all), then drops   *)
(* the reference.                                                          *)
GetFb(t) ==
    /\ pc[t] = "idle"
    /\ \E id \in MO!Ids :
        LET f == LookupFb(id) IN
        /\ f # None
        /\ refcount' = [refcount EXCEPT ![f] = @ + 1]
        /\ drops' = [drops EXCEPT ![t] = <<f>>]
    /\ after' = [after EXCEPT ![t] = "idle"]
    /\ pc' = [pc EXCEPT ![t] = "put"]
    /\ UNCHANGED <<idr, fbId, fbState, fbList, filpFbs, crtcFb, planeFb,
                   modeset, crtcLock, fbv, target, dying, bug,
                   listCorrupt>>

(* drm_mode_setplane with fb_id 0: under drm_modeset_lock_all disable the *)
(* plane and clear plane->fb; after unlocking drop the plane's old ref.   *)
\* Bug variant: plane->fb is not cleared, so the plane keeps a pointer
\* whose reference has been dropped.
SetPlaneOffKeepFb(t) ==
    /\ pc[t] = "idle"
    /\ LockAllFree
    /\ \E p \in Planes :
        drops' = [drops EXCEPT ![t] = DropOf(planeFb[p])]
    /\ after' = [after EXCEPT ![t] = "idle"]
    /\ pc' = [pc EXCEPT ![t] = "put"]
    /\ UNCHANGED <<idr, fbId, refcount, fbState, fbList, filpFbs, crtcFb,
                   planeFb, modeset, crtcLock, fbv, target, dying,
                   bug, listCorrupt>>

SetPlaneOff(t) ==
    /\ pc[t] = "idle"
    /\ LockAllFree
    /\ \E p \in Planes :
        /\ planeFb' = [planeFb EXCEPT ![p] = None]
        /\ drops' = [drops EXCEPT ![t] = DropOf(planeFb[p])]
    /\ after' = [after EXCEPT ![t] = "idle"]
    /\ pc' = [pc EXCEPT ![t] = "put"]
    /\ UNCHANGED <<idr, fbId, refcount, fbState, fbList, filpFbs, crtcFb,
                   modeset, crtcLock, fbv, target, dying, bug,
                   listCorrupt>>

(* drm_mode_setplane with an fb id: drm_framebuffer_lookup without the    *)
(* modeset locks.  An unknown id returns -ENOENT with nothing changed.    *)
SetPlaneLookup(t) ==
    /\ pc[t] = "idle"
    /\ \E p \in Planes, id \in MO!Ids :
        LET f == LookupFb(id) IN
        /\ f # None
        /\ refcount' = [refcount EXCEPT ![f] = @ + 1]
        /\ fbv' = [fbv EXCEPT ![t] = f]
        /\ target' = [target EXCEPT ![t] = p]
    /\ pc' = [pc EXCEPT ![t] = "sp_commit"]
    /\ UNCHANGED <<idr, fbId, fbState, fbList, filpFbs, crtcFb, planeFb,
                   modeset, crtcLock, drops, after, dying, bug,
                   listCorrupt>>

(* drm_mode_setplane, failure: the format or coordinate checks reject the *)
(* framebuffer, or the driver's update_plane fails; the lookup reference  *)
(* is dropped.                                                             *)
SetPlaneFail(t) ==
    /\ pc[t] = "sp_commit"
    /\ drops' = [drops EXCEPT ![t] = <<fbv[t]>>]
    /\ fbv' = [fbv EXCEPT ![t] = None]
    /\ after' = [after EXCEPT ![t] = "idle"]
    /\ pc' = [pc EXCEPT ![t] = "put"]
    /\ UNCHANGED <<idr, fbId, refcount, fbState, fbList, filpFbs, crtcFb,
                   planeFb, modeset, crtcLock, target, dying, bug,
                   listCorrupt>>

(* drm_mode_setplane, success: under drm_modeset_lock_all, update_plane   *)
(* succeeds and plane->fb takes over the lookup reference; after unlock   *)
(* the old framebuffer's reference is dropped.                             *)
SetPlaneCommit(t) ==
    /\ pc[t] = "sp_commit"
    /\ LockAllFree
    /\ planeFb' = [planeFb EXCEPT ![target[t]] = fbv[t]]
    /\ drops' = [drops EXCEPT ![t] = DropOf(planeFb[target[t]])]
    /\ fbv' = [fbv EXCEPT ![t] = None]
    /\ after' = [after EXCEPT ![t] = "idle"]
    /\ pc' = [pc EXCEPT ![t] = "put"]
    /\ UNCHANGED <<idr, fbId, refcount, fbState, fbList, filpFbs, crtcFb,
                   modeset, crtcLock, target, dying, bug, listCorrupt>>

(* drm_mode_page_flip_ioctl: take crtc->mutex alone.  A CRTC without a    *)
(* framebuffer returns -EBUSY with nothing changed.                        *)
PageFlipLock(t) ==
    /\ pc[t] = "idle"
    /\ modeset = None
    /\ \E c \in Crtcs :
        /\ crtcLock[c] = None
        /\ crtcFb[c] # None
        /\ crtcLock' = [crtcLock EXCEPT ![c] = t]
        /\ target' = [target EXCEPT ![t] = c]
    /\ pc' = [pc EXCEPT ![t] = "pf_lookup"]
    /\ UNCHANGED <<idr, fbId, refcount, fbState, fbList, filpFbs, crtcFb,
                   planeFb, modeset, fbv, drops, after, dying, bug,
                   listCorrupt>>

(* drm_mode_page_flip_ioctl with crtc->mutex held: look the new fb up     *)
(* (fb_lock).  If the checks or the driver's page_flip fail, the lookup   *)
(* reference is dropped and the old fb kept; otherwise crtc->fb takes the *)
(* lookup reference and the old fb's is dropped.  The drops happen before *)
(* crtc->mutex is released.                                                *)
PageFlipLookup(t) ==
    /\ pc[t] = "pf_lookup"
    /\ \E id \in MO!Ids :
        LET f == LookupFb(id)
            c == target[t]
        IN \/ /\ f = None
              /\ UNCHANGED <<refcount, crtcFb, drops>>
           \/ /\ f # None
              /\ refcount' = [refcount EXCEPT ![f] = @ + 1]
              /\ \/ /\ drops' = [drops EXCEPT ![t] = <<f>>]
                    /\ UNCHANGED crtcFb
                 \/ /\ crtcFb' = [crtcFb EXCEPT ![c] = f]
                    /\ drops' = [drops EXCEPT ![t] = DropOf(crtcFb[c])]
    /\ after' = [after EXCEPT ![t] = "pf_unlock"]
    /\ pc' = [pc EXCEPT ![t] = "put"]
    /\ UNCHANGED <<idr, fbId, fbState, fbList, filpFbs, planeFb,
                   modeset, crtcLock, fbv, target, dying, bug, listCorrupt>>

PageFlipUnlock(t) ==
    /\ pc[t] = "pf_unlock"
    /\ crtcLock' = [crtcLock EXCEPT ![target[t]] = None]
    /\ target' = [target EXCEPT ![t] = None]
    /\ pc' = [pc EXCEPT ![t] = "idle"]
    /\ UNCHANGED <<idr, fbId, refcount, fbState, fbList, filpFbs, crtcFb,
                   planeFb, modeset, fbv, drops, after, dying, bug,
                   listCorrupt>>

(* drm_mode_setcrtc (drm_crtc.c, outside this tree): under                *)
(* drm_modeset_lock_all look the fb up and apply it with                  *)
(* drm_mode_set_config_internal, which references the new fb and          *)
(* unreferences the old one; fb id 0 turns the CRTC off.  The lookup      *)
(* reference is dropped before unlocking.                                  *)
SetCrtc(t) ==
    /\ pc[t] = "idle"
    /\ LockAllFree
    /\ \E c \in Crtcs, id \in IdArgs :
        LET f == LookupFb(id) IN
        \/ /\ id = 0
           /\ crtcFb' = [crtcFb EXCEPT ![c] = None]
           /\ drops' = [drops EXCEPT ![t] = DropOf(crtcFb[c])]
           /\ UNCHANGED refcount
        \/ /\ f # None
           /\ crtcFb' = [crtcFb EXCEPT ![c] = f]
           /\ refcount' = [refcount EXCEPT ![f] = @ + 2]
           /\ drops' = [drops EXCEPT ![t] = DropOf(crtcFb[c]) \o <<f>>]
    /\ modeset' = t
    /\ after' = [after EXCEPT ![t] = "sc_unlock"]
    /\ pc' = [pc EXCEPT ![t] = "put"]
    /\ UNCHANGED <<idr, fbId, fbState, fbList, filpFbs, planeFb,
                   crtcLock, fbv, target, dying, bug, listCorrupt>>

SetCrtcUnlock(t) ==
    /\ pc[t] = "sc_unlock"
    /\ modeset' = None
    /\ pc' = [pc EXCEPT ![t] = "idle"]
    /\ UNCHANGED <<idr, fbId, refcount, fbState, fbList, filpFbs, crtcFb,
                   planeFb, crtcLock, fbv, target, drops, after,
                   dying, bug, listCorrupt>>

-----------------------------------------------------------------------------
Init ==
    /\ idr = [i \in MO!Ids |->
                IF \E o \in DOMAIN StaticId : StaticId[o] = i
                THEN CHOOSE o \in DOMAIN StaticId : StaticId[o] = i
                ELSE None]
    /\ fbId = [f \in FBs |-> 0]
    /\ refcount = [f \in FBs |-> 0]
    /\ fbState = [f \in FBs |-> "unused"]
    /\ fbList = {}
    /\ filpFbs = [t \in Threads |-> {}]
    /\ crtcFb = [c \in Crtcs |-> None]
    /\ planeFb = [p \in Planes |-> None]
    /\ modeset = None
    /\ crtcLock = [c \in Crtcs |-> None]
    /\ pc = [t \in Threads |-> "idle"]
    /\ fbv = [t \in Threads |-> None]
    /\ target = [t \in Threads |-> None]
    /\ drops = [t \in Threads |-> <<>>]
    /\ after = [t \in Threads |-> "idle"]
    /\ dying = [t \in Threads |-> None]
    /\ bug = FALSE
    /\ listCorrupt = FALSE

\* BUG() panics the kernel: once it has been reached no thread takes a step.
Next ==
    /\ ~bug
    /\ \E t \in Threads :
        \/ AddFbInit(t) \/ AddFbPublish(t)
        \/ RmFb(t) \/ ReleaseOne(t) \/ ReleaseDone(t)
        \/ RemoveCheck(t) \/ RemoveScan(t) \/ Put(t) \/ Destroy(t)
        \/ GetFb(t)
        \/ SetPlaneOff(t) \/ SetPlaneLookup(t) \/ SetPlaneFail(t)
        \/ SetPlaneCommit(t)
        \/ PageFlipLock(t) \/ PageFlipLookup(t) \/ PageFlipUnlock(t)
        \/ SetCrtc(t) \/ SetCrtcUnlock(t)

Spec == Init /\ [][Next]_vars

-----------------------------------------------------------------------------
TypeOK ==
    /\ idr \in [MO!Ids -> Objs \cup {None}]
    /\ fbId \in [FBs -> 0..MaxId]
    /\ refcount \in [FBs -> Nat]
    /\ fbState \in [FBs -> {"unused", "live", "freed"}]
    /\ fbList \subseteq FBs
    /\ filpFbs \in [Threads -> SUBSET FBs]
    /\ crtcFb \in [Crtcs -> FBs \cup {None}]
    /\ planeFb \in [Planes -> FBs \cup {None}]
    /\ modeset \in Threads \cup {None}
    /\ crtcLock \in [Crtcs -> Threads \cup {None}]
    /\ pc \in [Threads -> Pcs]
    /\ fbv \in [Threads -> FBs \cup {None}]
    /\ target \in [Threads -> Crtcs \cup Planes \cup {None}]
    /\ drops \in [Threads -> Seq(FBs)]
    /\ after \in [Threads -> Pcs]
    /\ dying \in [Threads -> FBs \cup {None}]
    /\ bug \in BOOLEAN
    /\ listCorrupt \in BOOLEAN

\* The counted references to f: the idr's, one per file list holding it,
\* one per CRTC and plane scanning it out, and the ones threads hold.
Holders(f) ==
      (IF f \in Range(idr) THEN 1 ELSE 0)
    + Cardinality({t \in Threads : f \in filpFbs[t]})
    + Cardinality({c \in Crtcs : crtcFb[c] = f})
    + Cardinality({p \in Planes : planeFb[p] = f})
    + Cardinality({t \in Threads : fbv[t] = f /\ pc[t] \in HoldsFbv})
    + MapThenSumSet(LAMBDA t : Cardinality({i \in DOMAIN drops[t] :
                                               drops[t][i] = f}),
                    Threads)

\* f can still be reached by someone: the idr, fb_list, a file list, a
\* CRTC, a plane, or a pointer a thread is using.
Reachable(f) ==
    \/ f \in Range(idr)
    \/ f \in fbList
    \/ \E t \in Threads : f \in filpFbs[t]
    \/ \E c \in Crtcs : crtcFb[c] = f
    \/ \E p \in Planes : planeFb[p] = f
    \/ \E t \in Threads : fbv[t] = f \/ f \in Range(drops[t])

\* Refcount accounting (drm_framebuffer_init, _lookup, _unregister,
\* _remove, setplane, page flip): every live framebuffer's refcount equals
\* the number of counted references to it, so it reaches zero exactly when
\* the last holder lets go.
RefcountAccounting ==
    \A f \in FBs : fbState[f] = "live" /\ f \notin Range(dying)
                       => refcount[f] = Holders(f)

\* No use after free: a framebuffer whose destroy callback has run is not
\* reachable from the idr, fb_list, a file's list, a CRTC, a plane or any
\* thread (drm_framebuffer_free via kref_put).
NoUseAfterFree ==
    \A f \in FBs : fbState[f] = "freed" => ~Reachable(f)

\* The release callbacks that must never run do not: the idr reference
\* and a plane's reference are dropped with __drm_framebuffer_unreference,
\* whose release is BUG(), and drm_framebuffer_cleanup only unlinks a
\* framebuffer drm_framebuffer_init put on fb_list.
NoBug == ~bug /\ ~listCorrupt

\* f has been taken out of use by rmfb or file close: it is live but on no
\* file's list, and not a new framebuffer still being added.
Removed(f) ==
    /\ fbState[f] = "live"
    /\ \A t \in Threads : f \notin filpFbs[t]
    /\ ~\E t \in Threads : pc[t] = "add_publish" /\ fbv[t] = f

\* drm_framebuffer_remove's comment: once a removed framebuffer's refcount
\* is 1 it "can never increase from 1 again" (nor from 0), which is what
\* makes the unlocked refcount check that skips the CRTC/plane scan sound.
NoRevival ==
    [][\A f \in FBs : Removed(f) /\ refcount[f] <= 1
                        => refcount'[f] <= refcount[f]]_vars

\* Removal detaches scan-out: whenever no call is in progress, a removed
\* framebuffer is bound to no CRTC and no plane (spec 4.4 and section 8,
\* drm_framebuffer_remove: "drm ABI mandates that we remove any deleted
\* framebuffers from active useage").
RemovedNotScannedOut ==
    (\A t \in Threads : pc[t] = "idle") =>
        \A f \in FBs : Removed(f) => /\ \A c \in Crtcs : crtcFb[c] # f
                                    /\ \A p \in Planes : planeFb[p] # f
=============================================================================
